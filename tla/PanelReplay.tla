------------------------------- MODULE PanelReplay -------------------------------
(***************************************************************************)
(* How a call replays panels through /api/ds/query: the variables Grafana  *)
(* computes are looked up (src/tools/liveVariables.ts), each target's      *)
(* datasource is resolved (src/tools/shared.ts), and each panel is queried *)
(* (src/query/executor.ts).                                                *)
(***************************************************************************)
EXTENDS ToolServer

CONSTANTS Datasource,       \* what /api/datasources lists: records of uid, name, type
          Results,          \* what a variable's query may return, its regex applied
          Span,             \* the window's length, in seconds
          ConfigPoints      \* config.maxDataPoints

\* The query asks for values, and "$__all" is the name of none.
ASSUME ResultsAssumption == \A found \in Results : ~Contains(found, All)

Variables(c) == TheBoard(c).variables

--------------------------------------------------------------------------------
\* materializeVariables, one variable at a time.
Variable(c)   == Variables(c)[call[c].at]
MoreToDo(c)   == call[c].at <= Len(Variables(c))
FallsOpen(c)  == /\ MatchesEverything(Variable(c), call[c].overrides)
                 /\ RequestedAll(Variable(c), call[c].overrides)
Computable(c) == Variable(c).type = "query" /\ Variable(c).query = "SHOW TAG VALUES"

NextOne(c)    == [pc |-> "variables", at |-> call[c].at + 1]
Unresolved(c) == With(NextOne(c), [unresolved |-> call[c].unresolved \cup {Variable(c).name}])

\* resolveVariableDatasource: an object reference names a uid, a string or a
\* variable a uid or else a name.
VariableRef(c) ==
  IF Variable(c).datasource = None THEN None
  ELSE IF Variable(c).datasource.object THEN Variable(c).datasource.uid
  ELSE Dereferenced(Variable(c).datasource.uid, Variables(c), call[c].overrides)

TypeKnown(c) == Variable(c).datasource.object /\ Variable(c).datasource.type # None

TypeListed(c) ==
  LET byUid  == {d \in Datasource : d.uid = VariableRef(c)}
      byName == {d \in Datasource : d.name = VariableRef(c) /\ ~Variable(c).datasource.object}
      found  == IF byUid # {} THEN byUid ELSE byName
  IN  IF found = {} THEN None ELSE (CHOOSE d \in found : TRUE).type

Looked(c, type) == IF type = "influxdb" THEN [pc |-> "variable query"] ELSE Unresolved(c)

\* Up to the next variable that needs the list or a query, or on to the panels.
NextVariable(c) ==
  /\ Awaiting(c, "variables") /\ MoreToDo(c)
  /\ LET asks == /\ FallsOpen(c) /\ Computable(c) /\ VariableRef(c) # None
                 /\ ~TypeKnown(c) /\ call[c].list = 0
     IN  IF asks
         THEN /\ ListDatasources(c)
              /\ Becomes(c, [pc |-> "variable list", list |-> Served(c)])
         ELSE /\ UNCHANGED <<memo, fetches>>
              /\ Becomes(c, CASE ~FallsOpen(c) -> NextOne(c)
                              [] FallsOpen(c) /\ (~Computable(c) \/ VariableRef(c) = None) -> Unresolved(c)
                              [] OTHER -> Looked(c, IF TypeKnown(c) THEN Variable(c).datasource.type
                                                    ELSE TypeListed(c)))
  /\ UNCHANGED <<now, listed, built, entries, nextId, audit, captures, windows>>

\* The list a variable waits for.  It is asked for outside the try: without it the
\* call fails.
VariableListArrives(c) ==
  /\ Awaiting(c, "variable list")
  /\ fetches[call[c].list].is # "pending"
  /\ IF fetches[call[c].list].is = "ok" THEN Becomes(c, Looked(c, TypeListed(c))) ELSE Fails(c)
  /\ UNCHANGED <<now, listed, built, memo, fetches, entries, nextId, audit, captures, windows>>

\* A slip, not the code: a failed query leaves no trace.
LeftOpenUnsaid(c) == NextOne(c)

\* What is left of a variable whose query failed or returned nothing.
LeftOpen(c) == Unresolved(c)

\* A variable's query returns: its values, after the variable's regex, if any.
VariableQueryReturns(c, ok, found) ==
  /\ Awaiting(c, "variable query")
  /\ Becomes(c, IF ok /\ found # <<>>
                THEN With(NextOne(c), [resolved |-> With([n \in {Variable(c).name} |-> found], call[c].resolved)])
                ELSE LeftOpen(c))
  /\ UNCHANGED <<now, listed, built, memo, fetches, entries, nextId, audit, captures, windows>>

--------------------------------------------------------------------------------
\* resolveTargetDatasource.
Named(c, t) == Dereferenced(t.uid, Variables(c), call[c].resolved)

NeedsList(c, t) == Named(c, t) # None /\ ~Builtin(Named(c, t), t.type)

\* A uid as it is, a name as the uid it belongs to, anything else as it is.
InList(value) ==
  LET named == {d \in Datasource : d.name = value}
  IN  IF named # {} /\ \A d \in Datasource : d.uid # value
      THEN (CHOOSE d \in named : TRUE).uid ELSE value

TargetUid(c, t, known) ==
  IF NeedsList(c, t) /\ known THEN InList(Named(c, t)) ELSE Named(c, t)

\* The request for a panel (buildDsQueryTarget): what each target asks of which
\* datasource, and at which step.
Request(c, p, known) ==
  LET step == PanelStep(p.panel, Span, Variables(c), call[c].resolved, ConfigPoints)
  IN  [i \in DOMAIN p.targets |->
         [uid  |-> TargetUid(c, p.targets[i], known),
          vars |-> Substituted(p.targets[i].raw, Variables(c), call[c].resolved),
          step |-> step.interval, points |-> step.points]]

Sendable(request) == \A i \in DOMAIN request : request[i].uid # None

Sent(c, p, known) ==
  LET request == Request(c, p, known)
  IN  [panel |-> p, request |-> request, is |-> IF Sendable(request) THEN "asked" ELSE "failed"]

\* The panels' targets are resolved at once; those that need the list of
\* datasources wait for one fetch of it.
Resolving(c, panels) ==
  LET waits(p) == \E i \in DOMAIN p.targets : NeedsList(c, p.targets[i])
  IN  /\ IF \E i \in DOMAIN panels : waits(panels[i])
         THEN ListDatasources(c)
         ELSE UNCHANGED <<memo, fetches>>
      /\ Becomes(c, [pc |-> "panels",
                     list |-> Served(c),
                     jobs |-> [i \in DOMAIN panels |->
                                 IF waits(panels[i])
                                 THEN [panel |-> panels[i], request |-> <<>>, is |-> "resolving"]
                                 ELSE Sent(c, panels[i], FALSE)]])

\* The list arrives, or does not: every target that waited for it goes on.
ListArrives(c) ==
  /\ Awaiting(c, "panels")
  /\ \E i \in DOMAIN call[c].jobs : call[c].jobs[i].is = "resolving"
  /\ fetches[call[c].list].is # "pending"
  /\ Becomes(c, [jobs |-> [i \in DOMAIN call[c].jobs |->
                   IF call[c].jobs[i].is = "resolving"
                   THEN Sent(c, call[c].jobs[i].panel, fetches[call[c].list].is = "ok")
                   ELSE call[c].jobs[i]]])
  /\ UNCHANGED <<now, listed, built, memo, fetches, entries, nextId, audit, captures, windows>>

Job(c, i, is) == [call[c].jobs EXCEPT ![i].is = is]

Asked(c, i) == Awaiting(c, "panels") /\ i \in DOMAIN call[c].jobs /\ call[c].jobs[i].is = "asked"

\* A slip, not the code: a panel is entered in the log as it is asked.
SettlesRecorded(c, i, ok) ==
  /\ Becomes(c, [jobs |-> Job(c, i, IF ok THEN "answered" ELSE "failed")])
  /\ IF call[c].req.tool = "render" THEN Record(c, call[c].jobs[i].panel.panel)
     ELSE UNCHANGED <<entries, nextId>>

\* render_dashboard enters a panel in the activity log once it has been answered.
Settles(c, i, ok) ==
  /\ Becomes(c, [jobs |-> Job(c, i, IF ok THEN "answered" ELSE "failed")])
  /\ IF ok /\ call[c].req.tool = "render" THEN Record(c, call[c].jobs[i].panel.panel)
     ELSE UNCHANGED <<entries, nextId>>

QueryReturns(c, i, ok) ==
  /\ Asked(c, i)
  /\ Settles(c, i, ok)
  /\ UNCHANGED <<now, listed, built, memo, fetches, audit, captures, windows>>

Settled(c) == \A i \in DOMAIN call[c].jobs : call[c].jobs[i].is \in {"answered", "failed"}

Replays(c) ==
  \/ NextVariable(c) \/ VariableListArrives(c) \/ ListArrives(c)
  \/ \E ok \in BOOLEAN, found \in Results : VariableQueryReturns(c, ok, found)
  \/ \E i \in DOMAIN call[c].jobs, ok \in BOOLEAN : QueryReturns(c, i, ok)
================================================================================
