--------------------------------- MODULE Panels ---------------------------------
(***************************************************************************)
(* What a dashboard's JSON says of its panels and variables                *)
(* (src/dashboards/panelQueries.ts, variables.ts, panelStep.ts).           *)
(*                                                                         *)
(* A reference to a datasource is None, or a uid (or a legacy name, or a   *)
(* "$variable") with the type an object reference may carry.  Text is left *)
(* out: a query is the variables it mentions and what they stand for, an   *)
(* interval its length in seconds or the variable that holds it.           *)
(***************************************************************************)
EXTENDS Integers, Sequences, FiniteSetsExt, SequencesExt

CONSTANTS None,
          All,              \* "$__all"
          MirrorRef,        \* "-- Dashboard --"
          MixedRef,         \* "-- Mixed --"
          BuiltinRefs,      \* GRAFANA_PSEUDO_DATASOURCE_REFS
          BuiltinTypes,     \* GRAFANA_PSEUDO_DATASOURCE_TYPES
          VariableOf,       \* VariableOf["$name"]: the name a reference to a variable holds
          Seconds           \* Seconds[text]: what parseGrafanaIntervalMs reads, where it can

--------------------------------------------------------------------------------
\* What of a sequence is at some of its places, in order.
Picked(s, places) ==
  [n \in 1..Cardinality(places) |-> s[CHOOSE i \in places : Cardinality({j \in places : j <= i}) = n]]

\* Array.filter.
Filter(s, Test(_)) == Picked(s, {i \in DOMAIN s : Test(s[i])})

--------------------------------------------------------------------------------
\* Panels.

\* flattenPanels.  Grafana's rows hold no rows.
Flattened(panels) ==
  LET leaves[i \in 0..Len(panels)] ==
        IF i = 0 THEN <<>>
        ELSE leaves[i - 1] \o (IF panels[i].panels # <<>> THEN panels[i].panels ELSE <<panels[i]>>)
  IN  leaves[Len(panels)]

UidOf(ref) ==
  IF ref = None \/ (~ref.object /\ ref.uid = MixedRef) THEN None ELSE ref.uid

TypeOf(ref) == IF ref = None THEN None ELSE ref.type

\* A target without a datasource of its own takes the panel's, type and all.
ResolvedTarget(panel, target) ==
  LET own == UidOf(target.datasource) # None
  IN  [refId |-> target.refId,
       uid   |-> IF own THEN UidOf(target.datasource) ELSE UidOf(panel.datasource),
       type  |-> IF own THEN TypeOf(target.datasource) ELSE TypeOf(panel.datasource),
       raw   |-> target]

Queryable(panel) == panel.targets # <<>>

\* resolvePanelQueries: the panels that have targets, with what each shows again.
ResolvedPanel(panel) ==
  LET targets == [i \in DOMAIN panel.targets |-> ResolvedTarget(panel, panel.targets[i])]
      again   == \A i \in DOMAIN targets : targets[i].uid = MirrorRef
  IN  [panel    |-> panel,
       targets  |-> targets,
       mirrors  |-> IF again THEN {panel.targets[i].panelId : i \in DOMAIN targets} \ {None} ELSE None]

PanelQueries(board) ==
  LET leaves == Filter(Flattened(board.panels), Queryable)
  IN  [i \in DOMAIN leaves |-> ResolvedPanel(leaves[i])]

Mirror(p) == p.mirrors # None

\* findPanel: a panel by its id, and by its title where the id is shared; None if
\* there is none, or none that can be told apart ("ambiguous").
FoundPanels(board, id, title) ==
  LET matches == SelectSeq(PanelQueries(board), LAMBDA p : p.panel.id = id)
      titled  == SelectSeq(matches, LAMBDA p : p.panel.title = title)
  IN  IF Len(matches) <= 1 THEN matches
      ELSE IF title # None /\ Len(titled) = 1 THEN titled ELSE <<>>

--------------------------------------------------------------------------------
\* Variables: a selection is an override or the value saved with the dashboard.

Overriding(first, second) ==        \* mergeVariableOverrides
  [n \in DOMAIN first \cup DOMAIN second |-> IF n \in DOMAIN second THEN second[n] ELSE first[n]]

Selection(v, overrides) ==
  IF v.name \in DOMAIN overrides /\ overrides[v.name] # <<>> THEN overrides[v.name] ELSE v.current

RequestedAll(v, overrides) == Contains(Selection(v, overrides), All)

\* effectiveValues: "all" stands for the configured value, else the cached options.
EffectiveValues(v, overrides) ==
  CASE ~RequestedAll(v, overrides) -> Selection(v, overrides)
    [] RequestedAll(v, overrides) /\ v.allValue # None -> <<v.allValue>>
    [] OTHER -> SelectSeq(v.options, LAMBDA o : o # All)

\* formatValues: no values at all match everything.
MatchesEverything(v, overrides) == EffectiveValues(v, overrides) = <<>>

\* The first variable of a name, where there is one.
Places(variables, name)        == {i \in DOMAIN variables : variables[i].name = name}
VariableNamed(variables, name) == variables[Min(Places(variables, name))]

\* substituteTargetFields: what each variable a target mentions stands for.
Substituted(target, variables, overrides) ==
  [n \in {v.name : v \in ToSet(variables)} \cap target.uses |->
     EffectiveValues(VariableNamed(variables, n), overrides)]

\* resolveDatasourceVariable: a variable stands for its first value, one the
\* dashboard does not have for nothing.
DatasourceVariable(uid, variables, overrides) ==
  LET name   == VariableOf[uid]
      values == IF Places(variables, name) = {} THEN <<>>
                ELSE EffectiveValues(VariableNamed(variables, name), overrides)
  IN  IF values = <<>> THEN None ELSE values[1]

Dereferenced(uid, variables, overrides) ==
  IF uid \in DOMAIN VariableOf THEN DatasourceVariable(uid, variables, overrides) ELSE uid

Builtin(uid, type) == uid \in BuiltinRefs \/ type \in BuiltinTypes

--------------------------------------------------------------------------------
\* The step of a replay, in seconds.
NiceSteps == <<1, 5, 10, 30, 60, 300, 600, 1800, 3600, 21600, 86400>>

\* rangeIntervalMs: the first nice step with which a span fits the budget.
RangeInterval(span, points) ==
  LET enough == {s \in ToSet(NiceSteps) : s * points >= span}
  IN  IF enough = {} THEN Max(ToSet(NiceSteps)) ELSE Min(enough)

\* A panel's min interval, through its variable if it is one; None if unreadable.
Declared(panel, variables, overrides) ==
  LET uid == panel.interval
      one == IF uid \in DOMAIN VariableOf /\ Places(variables, VariableOf[uid]) # {}
             THEN EffectiveValues(VariableNamed(variables, VariableOf[uid]), overrides)
             ELSE <<uid>>
  IN  IF Len(one) = 1 /\ one[1] \in DOMAIN Seconds THEN Seconds[one[1]] ELSE None

\* resolvePanelStep: a floor coarsens with the window, a panel that declares none
\* that can be read sends no interval.
PanelStep(panel, span, variables, overrides, configPoints) ==
  LET points == IF panel.points = None THEN configPoints ELSE Min({panel.points, configPoints})
      floor  == Declared(panel, variables, overrides)
  IN  [points   |-> points,
       interval |-> IF floor = None THEN None ELSE Max({floor, RangeInterval(span, points)}),
       source   |-> IF floor = None THEN "datasource-default" ELSE "panel"]
================================================================================
