------------------------------ MODULE Investigation ------------------------------
(***************************************************************************)
(* An agent looks into an alert with four tools: execute_query_window and  *)
(* validate_baseline replay the alerting panel over several windows        *)
(* (src/tools/executeQueryWindow.ts, validateBaseline.ts),                 *)
(* detect_correlated_anomalies looks for other panels that moved, one      *)
(* scope wider each time (detectCorrelatedAnomalies.ts), and               *)
(* summarize_findings gives the verdict (summarizeFindings.ts).  Each      *)
(* window reads the dashboard again, and the dashboard may be saved and a  *)
(* connection removed at any moment of a call.  In between it may write a  *)
(* query of its own (OwnQueries) and look through the logs (LogSearches).  *)
(***************************************************************************)
EXTENDS Baseline, OwnQueries, LogSearches

CONSTANTS
  Removable,                \* connections that may be removed
  Dashboard,                \* the alerting panel's dashboard
  Declared,                 \* dashboards its product's knowledge panel names
  Related,                  \* the panels of each connection's index that share a metric
  Labels, PrimaryLabels,    \* the labels of each panel's series, and of the alert
  Cap,                      \* max(3 * limit, 15): panels checked in one call
  Starts,                   \* the starts given
  Ends,                     \* the ends given, with Null for none
  Offsets,                  \* the control offsets given
  Hosts,                    \* values of the panel's one variable
  Queries,                  \* what the panel may be saved to ask, and of which datasource,
  Scoped,                   \* and the queries among them that use the variable
  Responses,                \* what a datasource may return for the incident,
  Controls,                 \* and for a control
  Floors,                   \* steps a replay may request, with Null for none
  Steps,                    \* steps a datasource may use
  Pairs,                    \* points of a candidate's pre-window and incident
  Onsets,                   \* onsets of the alerting panel, with Null for none
  Named,                    \* sets of candidates a caller may name
  Thresholds,
  Asks, Types,              \* ad-hoc calls, and types of datasource
  Worlds                    \* what reading the sources of logs may find

ASSUME ScopesAssumption ==
  /\ Primary \in Conn
  /\ \A c \in Conn : \A ref \in Related[c] : ref.conn = c

ASSUME WorldsAssumption ==
  \A world \in Worlds :
    /\ world \in [graylog : SUBSET Seq(STRING), grafana : [Conn -> (SUBSET Datasources) \cup {Null}]]
    /\ IsFiniteSet(world.graylog)

\* Times are whole numbers, and a datasource spaces its points by a positive step.
ASSUME ResponsesAssumption ==
  /\ MaxRuns \in Nat \ {0}
  /\ Steps \subseteq Nat \ {0}
  /\ \A response \in Responses :
       /\ IsFiniteSet(DOMAIN response)
       /\ \A r \in DOMAIN response :
            LET frames == response[r].frames
            IN  /\ frames \in Seq(ToSet(frames))
                /\ \A f \in ToSet(frames) : f.points \in Seq([t : Int, v : Int \cup {Null}])

VARIABLE ledger   \* the scopes searched since the agent last did something else

vars == <<listed, call, answer, ledger>>

Unsearched == [scopes |-> {}, products |-> {}, tried |-> {}, cut |-> {}, unread |-> {}]

Init ==
  /\ listed = Conn
  /\ call = Idle /\ answer = Silent
  /\ ledger = Unsearched

--------------------------------------------------------------------------------
\* The replays.

\* The windows are computed before anything is asked of Grafana.
ReplayStarts(tool, start, end, offsets) ==
  /\ At("idle")
  /\ LET to == IF end = Null THEN Now ELSE end
         w  == Windows(start, to, offsets)
     IN  IF to < start \/ TooLong(start, end = Null, to) \/ Primary \notin listed THEN Errs
         ELSE /\ call' = [at |-> "variables",
                          plan |-> [tool |-> tool, incident |-> w.incident, controls |-> w.controls,
                                    windows |-> <<w.incident>> \o (IF tool = "execute" THEN <<w.before>> ELSE <<>>)
                                                               \o w.controls]]
              /\ answer' = Silent
  /\ ledger' = Unsearched
  /\ UNCHANGED listed

\* The dashboard as far as it matters to the panel: what this asks, or Null where
\* it is gone or shows another panel's data, and the value the variable has there, a
\* host or all of them.
Boards == [query : Queries \cup {Null}, selection : Hosts \cup {"$__all"}]

\* materializeVariables: the values of a variable that selects them all are looked
\* up once, for the incident, unless the caller gave some; a failed look-up leaves
\* it open.  By then any dashboard may be the one that is saved.
VariablesResolve(values, board) ==
  /\ At("variables")
  /\ call' = [at |-> "windows", plan |-> call.plan, values |-> values,
              saved |-> board, edits |-> {}, read |-> 0, asked |-> {}]
  /\ UNCHANGED <<listed, answer, ledger>>

Selected(board) == IF board.selection = "$__all" THEN {".*"} ELSE {board.selection}

\* A slip, not the code: the values looked up are not handed to the windows.
ScopeAsSaved(board, values) == IF board.query \in Scoped THEN Selected(board) ELSE {}

\* The hosts a window asks for by a dashboard, in a replay with these values.
Scope(board, values) ==
  CASE board.query \notin Scoped -> {}
    [] board.query \in Scoped /\ values # Null -> values
    [] OTHER -> Selected(board)

Reading == At("windows") /\ call.read < Len(call.plan.windows)

\* resolvePanelForWindow: a window reads the dashboard again, and its panel, the
\* query's datasource and its variables with it.  The windows do so in any order.
WindowReads ==
  /\ Reading /\ call.saved.query # Null
  /\ call' = [call EXCEPT !.read = @ + 1,
                          !.asked = @ \cup {[query |-> call.saved.query, hosts |-> Scope(call.saved, call.values)]}]
  /\ UNCHANGED <<listed, answer, ledger>>

\* Somebody saves the dashboard while windows are still to read it.
Save(board) ==
  /\ Reading /\ board # call.saved
  /\ call' = [call EXCEPT !.saved = board,
                          !.edits = @ \cup {part \in DOMAIN board : board[part] # call.saved[part]}]
  /\ UNCHANGED <<listed, answer, ledger>>

\* Every window is asked, if none is beyond the limit.
WindowsAsked ==
  /\ At("windows") /\ ~Reading
  /\ \A i \in DOMAIN call.plan.windows : Allowed(call.plan.windows[i])
  /\ call' = [at |-> "answers", plan |-> call.plan]
  /\ UNCHANGED <<listed, answer, ledger>>

\* Promise.all: one window beyond the limit, or that Grafana fails, or whose panel
\* is gone, fails the call.
ReplayErrs ==
  /\ call.at \in {"variables", "windows", "answers"}
  /\ Errs
  /\ UNCHANGED <<listed, ledger>>

\* validate_baseline: each series against the like series of the controls that
\* do not overlap the incident.  The answer keeps one of them.
BaselineAnswers(incident, controls) ==
  /\ At("answers") /\ call.plan.tool = "validate"
  /\ DOMAIN controls = Pooled(call.plan.incident, call.plan.controls)
  /\ LET now  == Parsed(incident)
         kept == SetToSortSeq(DOMAIN controls, <)
     IN  IF now.series = {} THEN answer' = [tool |-> "validate", series |-> Null, errors |-> now.errors]
         ELSE \E s \in now.series :
                LET pool == [i \in DOMAIN kept |-> PointsLike(Parsed(controls[kept[i]]).series, s)]
                    c    == Compared(s.points, pool)
                IN  answer' = [tool |-> "validate", series |-> s.points, pool |-> pool, errors |-> now.errors,
                               baseline |-> [c EXCEPT !.excursions = Listed(@)]]
  /\ call' = Idle
  /\ UNCHANGED <<listed, ledger>>

\* annotateSeries: everything is read off the full series, whose points are then
\* thinned out.
Annotated(points, threshold, direction) ==
  [stats |-> Stats(points), points |-> Downsampled(points),
   runs |-> Listed(ThresholdRuns(points, threshold, direction))]

\* execute_query_window: each series of each window annotated, and a warning
\* where the timestamps disprove the step.  The answer keeps one of them.
WindowsAnswer(response, floor, used, threshold, direction) ==
  /\ At("answers") /\ call.plan.tool = "execute"
  /\ LET stepped == Stepped(response, used)
     IN  IF stepped = {} THEN answer' = [tool |-> "execute", series |-> Null]
         ELSE \E s \in stepped :
                answer' = [tool |-> "execute", series |-> s.points, requested |-> floor, used |-> used,
                           threshold |-> threshold, direction |-> direction,
                           shown |-> Annotated(s.points, threshold, direction),
                           warned |-> Warned(Evidence(stepped, floor))]
  /\ call' = Idle
  /\ UNCHANGED <<listed, ledger>>

--------------------------------------------------------------------------------
\* The search, one scope at a time.

Wider(scope) == CASE scope = "product" -> "connection"
                  [] scope = "connection" -> "all-connections"
                  [] OTHER -> Null

\* The primary panel is replayed and gives its onset; then the product's own
\* dashboards are looked up, which come down to the alert's if that fails.
SearchStarts(scope, onset, products) ==
  /\ At("idle")
  /\ IF Primary \notin listed THEN Errs
     ELSE /\ call' = [at |-> "indexes", scope |-> scope, onset |-> onset, products |-> products,
                      others |-> listed \ {Primary}]
          /\ answer' = Silent
  /\ UNCHANGED <<listed, ledger>>

SearchErrs ==
  /\ call.at \in {"indexes", "candidates"}
  /\ Errs
  /\ UNCHANGED <<listed, ledger>>

\* A slip, not the code: a dashboard of the product is its own on any connection.
TierByDashboard(ref, products) ==
  CASE ref.dash \in products -> "product"
    [] ref.conn = Primary /\ ref.dash \notin products -> "connection"
    [] OTHER -> "all-connections"

TierOf(ref, products) ==
  CASE ref.conn = Primary /\ ref.dash \in products -> "product"
    [] ref.conn = Primary /\ ref.dash \notin products -> "connection"
    [] OTHER -> "all-connections"

Tier(scope, conns, products) ==
  {ref \in UNION {Related[c] : c \in conns} : TierOf(ref, products) = scope}

\* Which of the others' indexes are read: all that can be built, for the widest
\* scope; those cached and fresh, for a hint of what it holds; or none.
Readable(others) ==
  CASE call.scope = "all-connections" -> others \subseteq (call.others \cap listed)
    [] call.scope = "connection" -> others \subseteq call.others
    [] OTHER -> others = {}

IndexesRead(others, refs) ==
  /\ At("indexes") /\ Readable(others)
  /\ LET tier  == Tier(call.scope, others \cup {Primary}, call.products)
         wider == Wider(call.scope)
         all   == others = call.others \/ call.scope = "product"
     IN  /\ refs \in SUBSET tier
         /\ Cardinality(refs) = Min({Cap, Cardinality(tier)})
         /\ call' = [at |-> "candidates", scope |-> call.scope, onset |-> call.onset, refs |-> refs,
                     products |-> call.products, cut |-> tier \ refs,
                     unread |-> IF call.scope = "all-connections" THEN call.others \ others ELSE {},
                     next |-> wider,
                     count |-> IF wider = Null \/ ~all THEN Null
                               ELSE Cardinality(Tier(wider, others \cup {Primary}, call.products)),
                     incomplete |-> call.scope = "product" /\ Tier("connection", {Primary}, call.products) # {}]
  /\ UNCHANGED <<listed, answer, ledger>>

\* Candidates named by the caller are checked as they are.
SearchNamed(refs, onset) ==
  /\ At("idle")
  /\ IF Primary \notin listed THEN Errs
     ELSE /\ call' = [at |-> "candidates", scope |-> Null, onset |-> onset, refs |-> refs]
          /\ answer' = Silent
  /\ UNCHANGED <<listed, ledger>>

\* Promise.allSettled: a candidate that fails, or whose connection is gone, is
\* passed over; the others are ranked.
CandidatesSettle(pairs) ==
  /\ At("candidates")
  /\ DOMAIN pairs = call.refs
  /\ \A ref \in call.refs : ref.conn \notin listed => pairs[ref] = Null
  /\ LET alive  == SetToSeq({ref \in call.refs : pairs[ref] # Null})
         ranked == Ranked([i \in DOMAIN alive |->
                             [ref |-> alive[i], labels |-> Labels[alive[i]],
                              before |-> pairs[alive[i]].before, incident |-> pairs[alive[i]].incident]],
                          PrimaryLabels, call.onset)
     IN  answer' = [tool |-> "detect", scope |-> call.scope, ranked |-> ranked,
                    checked |-> Cardinality(call.refs),
                    incomplete |-> call.scope # Null /\ call.incomplete]
  /\ ledger' = IF call.scope = Null THEN ledger
               ELSE [scopes |-> ledger.scopes \cup {call.scope}, products |-> ledger.products \cup {call.products},
                     tried |-> ledger.tried \cup call.refs, cut |-> ledger.cut \cup call.cut,
                     unread |-> ledger.unread \cup call.unread]
  /\ call' = Idle
  /\ UNCHANGED listed

--------------------------------------------------------------------------------
\* summarize_findings, of the comparison just made and what the agent adds to it:
\* whether the alert's threshold was crossed, whether a related signal scored
\* enough, and whether any evidence is its own query.
Summarize(crossed, confirmed, adhoc) ==
  /\ At("idle")
  /\ answer.tool = "validate" /\ answer.series # Null
  /\ answer' = [tool |-> "summarize", series |-> answer.series, pool |-> answer.pool,
                baseline |-> answer.baseline,
                verdict |-> Verdict(answer.baseline, crossed),
                confidence |-> Confidence(answer.baseline, crossed, confirmed),
                missing |-> Missing(answer.baseline, crossed, adhoc)]
  /\ UNCHANGED <<listed, call, ledger>>

\* Outside the call.
Unlist(c) == c \in listed /\ listed' = listed \ {c} /\ UNCHANGED <<call, answer, ledger>>

Scopes == {"product", "connection", "all-connections"}

Replays ==
  \/ \E tool \in {"execute", "validate"}, start \in Starts, end \in Ends, offsets \in Offsets :
       ReplayStarts(tool, start, end, offsets)
  \/ \E values \in {Null} \cup ((SUBSET Hosts) \ {{}}) , board \in Boards : VariablesResolve(values, board)
  \/ WindowReads
  \/ \E board \in Boards : Save(board)
  \/ WindowsAsked
  \/ ReplayErrs
  \/ /\ At("answers") /\ call.plan.tool = "validate"
     /\ \E incident \in Responses, controls \in [Pooled(call.plan.incident, call.plan.controls) -> Controls] :
          BaselineAnswers(incident, controls)
  \/ \E response \in Responses, floor \in Floors, used \in Steps, threshold \in Thresholds,
        direction \in {"below", "above"} :
       WindowsAnswer(response, floor, used, threshold, direction)

Searches ==
  \/ \E scope \in Scopes, onset \in Onsets, products \in {{Dashboard}, {Dashboard} \cup Declared} :
       SearchStarts(scope, onset, products)
  \/ \E refs \in Named, onset \in Onsets : SearchNamed(refs, onset)
  \/ SearchErrs
  \/ At("indexes") /\ \E others \in SUBSET call.others :
       \E refs \in SUBSET Tier(call.scope, others \cup {Primary}, call.products) : IndexesRead(others, refs)
  \/ At("candidates") /\ \E pairs \in [call.refs -> Pairs \cup {Null}] : CandidatesSettle(pairs)

\* Queries the agent writes itself, and its searches of the logs.
Others ==
  /\ \/ \E asked \in Asks : AdhocStarts(asked)
     \/ \E type \in {Null} \cup Types : DatasourceFound(type)
     \/ DatasourcesUnread
     \/ \E response \in Responses, used \in Steps : AdhocAnswers(response, used)
     \/ \E given \in LogCalls : LogCallStarts(given)
     \/ \E world \in Worlds : SourcesListed(world) \/ SourceResolved(world)
     \/ \E lines \in Logs : SearchAnswers(lines) \/ CorrelateAnswers(lines)
     \/ LogCallErrs
  /\ ledger' = Unsearched

Next ==
  \/ Replays \/ Searches \/ Others
  \/ \E crossed \in BOOLEAN \cup {Null}, confirmed, adhoc \in BOOLEAN : Summarize(crossed, confirmed, adhoc)
  \/ \E c \in Removable : Unlist(c)

Spec == Init /\ [][Next]_vars

--------------------------------------------------------------------------------
\* Once every scope has been searched for the same product, each related panel
\* was checked, or was cut off by the limit, or is of a connection that is gone
\* or whose index could not be read (detectCorrelatedAnomalies.ts:32-36, 252-301).
SteadyWideningIsComplete ==
  ledger.scopes = Scopes /\ Cardinality(ledger.products) = 1 =>
    \A c \in Conn : \A ref \in Related[c] :
      ref \in ledger.tried \cup ledger.cut \/ c \in ledger.unread \/ c \notin listed

\* The windows of one replay are asked the same, of the same hosts, so that a
\* baseline is of what the incident is (executeQueryWindow.ts:190-204), unless the
\* query itself was edited while they were read, or the variable's value where none
\* was given or looked up.  No other edit tells them apart.
ComparedAlike ==
  At("windows") =>
    \/ Cardinality(call.asked) <= 1
    \/ "query" \in call.edits
    \/ call.values = Null /\ "selection" \in call.edits

\* An alert is never dismissed while any point of the incident lies outside the
\* baseline's band of two standard deviations, however its mean looks
\* (summarize.ts:186-214).
NothingUnusualIsDismissed ==
  answer.tool = "summarize" /\ answer.verdict = "likely-false-positive" =>
    \A i \in DOMAIN answer.series :
      answer.series[i].v # Null => ~Apart(answer.series[i].v, Pool(Valid(answer.pool)))

\* Where the controls differ at all, an incident at the level of one of them lies
\* less than the square root of their number off, however far that one is from the
\* others: nothing a few controls have seen is unusual at three deviations
\* (baseline.ts:80-84, 98-117).
RecurringIsCommon ==
  answer.tool = "validate" /\ answer.series # Null =>
    LET own   == Stats(answer.series)
        valid == Valid(answer.pool)
        pool  == Pool(valid)
        z     == ZSquared(own.sum, own.count, pool)
    IN  own.count > 0 /\ (\E s \in ToSet(valid) : s.sum * own.count = own.sum * s.count) /\ pool.spread # 0 =>
          z.num < Len(valid) * z.den

\* A step that is warned of was not used: points that are missing are no
\* evidence against it (stepReport.ts:21-65).
StepProofIsSound ==
  /\ answer.tool = "execute" /\ answer.series # Null /\ answer.warned =>
       answer.used # answer.requested
  /\ answer.tool = "adhoc" /\ answer.series # Null /\ answer.series.warned =>
       answer.series.used # answer.sent.how.step
================================================================================
