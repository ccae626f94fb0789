------------------------------- MODULE OwnQueries -------------------------------
(***************************************************************************)
(* execute_adhoc_query (src/tools/executeAdhocQuery.ts): a query the agent *)
(* writes itself, against a type of datasource its workspace authorises.   *)
(* The guards (src/query/adhocGuard.ts, promqlGuard.ts, logqlGuard.ts)     *)
(* refuse what they cannot read as one query that only reads; the audit    *)
(* record (src/security/audit.ts) gets a link that runs it again.          *)
(*                                                                         *)
(* A query is what the guards' scanners make of its text: whether every    *)
(* literal and bracket closes, how many statements are not empty, whether  *)
(* one ends in a semicolon, the word it begins with, whether it says INTO, *)
(* and whether it has comments.                                            *)
(***************************************************************************)
EXTENDS AgentCall, QueryWindows, Series

CONSTANT Authorized         \* types the workspace may query: --allow-adhoc-queries

ASSUME NullAssumption == Null \notin Authorized

Refused == [allowed |-> FALSE]
Accepted(statement) == [allowed |-> TRUE, statement |-> statement]

\* The scan of InfluxQL keeps the statement, without its comments.
Scanned(query) == [query EXCEPT !.comments = FALSE, !.semicolon = FALSE]

\* classifyInfluxQL: what runs is the scanned statement.
ClassifyInfluxQL(query) ==
  IF query.closed /\ query.statements = 1 /\ query.head \in {"select", "show"} /\ ~query.into
  THEN Accepted(Scanned(query)) ELSE Refused

\* classifyPromQL: the language cannot write; what runs is the text itself.
ClassifyPromQL(query) ==
  IF query.closed /\ query.statements = 1 /\ ~query.semicolon THEN Accepted(query) ELSE Refused

\* classifyLogQLMetric: a query that begins with a selector returns lines.
ClassifyLogQLMetric(query) == IF query.head = "{" THEN Refused ELSE ClassifyPromQL(query)

\* GUARDABLE_TYPES.
Guardable == {"influxdb", "prometheus", "loki"}
Classify(type, query) ==
  CASE type = "influxdb" -> ClassifyInfluxQL(query)
    [] type = "prometheus" -> ClassifyPromQL(query)
    [] type = "loki" -> ClassifyLogQLMetric(query)

--------------------------------------------------------------------------------
\* resolvePromqlStep.
StepPoints(from, to, step) == (to - from) \div step + 1

\* The dialect's prepare: how the query is to be evaluated, or Null where a
\* parameter is missing, does not apply, or asks for too many points.
Prepared(type, asked) ==
  CASE type = "influxdb" ->
         IF asked.step = Null /\ asked.type = Null THEN [instant |-> FALSE, step |-> Null] ELSE Null
    [] type # "influxdb" /\ asked.type = "instant" ->
         IF asked.step = Null THEN [instant |-> TRUE, step |-> Null] ELSE Null
    [] type # "influxdb" /\ asked.type # "instant" ->
         IF asked.step = Null \/ StepPoints(asked.from, asked.to, asked.step) > MaxDataPoints THEN Null
         ELSE [instant |-> FALSE, step |-> asked.step]

Link(type, text, how) == [type |-> type, text |-> text, instant |-> how.instant, step |-> how.step]
Plain == [instant |-> FALSE, step |-> Null]

\* An answer holds what was asked, the datasource's type once it is authorised,
\* what is to be sent, if it comes to that, whether the connection's address is
\* known when the link is made, the link of the audit record, if it has one, and a
\* series of what the datasource returns.
Record(asked, type, sent, based, links) ==
  [tool |-> "adhoc", asked |-> asked, type |-> type, sent |-> sent, based |-> based, links |-> links, series |-> Null]

AdhocStarts(asked) ==
  /\ At("idle")
  /\ IF Primary \notin listed \/ Authorized = {} THEN Closes(Record(asked, Null, Null, FALSE, {}))
     ELSE Goes([at |-> "datasource", asked |-> asked])
  /\ UNCHANGED listed

\* A slip, not the code: the link is made when the query's final shape is known.
RecordedAfterwards(asked, type, based) ==
  LET verdict == Classify(type, asked.query)
      how     == Prepared(type, asked)
  IN  IF ~verdict.allowed \/ how = Null THEN Record(asked, type, Null, based, {})
      ELSE Record(asked, type, [text |-> verdict.statement, how |-> how], based,
                  IF based THEN {Link(type, verdict.statement, how)} ELSE {})

\* The link is made before anything can be refused, of the query that runs or
\* else of the one asked for, and made again once it is known how it is run.
\* Without an address there is none, and the query runs all the same.
Recorded(asked, type, based) ==
  LET verdict == Classify(type, asked.query)
      how     == Prepared(type, asked)
      text    == IF verdict.allowed THEN verdict.statement ELSE asked.query
      link(h) == IF based THEN {Link(type, text, h)} ELSE {}
  IN  IF ~verdict.allowed \/ how = Null THEN Record(asked, type, Null, based, link(Plain))
      ELSE Record(asked, type, [text |-> text, how |-> how], based, link(how))

\* resolveAuthorizedDatasource, and what follows without a wait.  The client is the
\* one found when the call began; the address is looked up again, among the
\* connections that are listed by now.
DatasourceFound(type) ==
  /\ At("datasource")
  /\ LET asked  == call.asked
         record == Recorded(asked, type, Primary \in listed)
     IN  IF type \notin Authorized \cap Guardable THEN Closes(Record(asked, Null, Null, FALSE, {}))
         ELSE IF record.sent = Null \/ ~Allowed([from |-> asked.from, to |-> asked.to]) THEN Closes(record)
         ELSE Goes([at |-> "adhoc", record |-> record])
  /\ UNCHANGED listed

\* The listing of the datasources failed.
DatasourcesUnread ==
  /\ At("datasource")
  /\ Closes(Record(call.asked, Null, Null, FALSE, {}))
  /\ UNCHANGED listed

\* The datasource answers, at a step of its own, or fails.
AdhocAnswers(response, used) ==
  /\ At("adhoc")
  /\ LET all  == Stepped(response, used)
         step == call.record.sent.how.step
     IN  IF all = {} THEN Closes(call.record)
         ELSE \E s \in all :
                Closes([call.record EXCEPT !.series =
                        [points |-> Downsampled(s.points), stats |-> Stats(s.points), used |-> used,
                         warned |-> Warned(Evidence(all, step))]])
  /\ UNCHANGED listed

--------------------------------------------------------------------------------
\* Whatever becomes of a query of the agent's own, once its datasource is
\* authorised each link of the audit record replays it: the text that was run, as
\* it was run, or the one that was asked.  There is a link unless the connection was
\* removed while the datasource was being looked up, when a query may run and leave
\* none; of a refusal before that there is nothing to replay
\* (executeAdhocQuery.ts:376-436).
AuditedReplays ==
  answer.tool = "adhoc" /\ answer.type # Null =>
    /\ answer.based => answer.links # {}
    /\ \A link \in answer.links :
         /\ answer.sent = Null =>
              link.type = answer.type /\ link.text \in {answer.asked.query, Scanned(answer.asked.query)}
         /\ answer.sent # Null => link = Link(answer.type, answer.sent.text, answer.sent.how)
================================================================================
