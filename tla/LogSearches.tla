------------------------------ MODULE LogSearches ------------------------------
(***************************************************************************)
(* search_logs and correlate_logs (src/tools/searchLogs.ts,                *)
(* correlateLogs.ts): which log source a call means (src/logs/sources.ts), *)
(* the capped fetch of each stream (src/logs/adapter.ts, lokiAdapter.ts,   *)
(* loki.ts), and the join of what was fetched (src/logs/correlate.ts), by  *)
(* an engine that is not part of the repository.                           *)
(*                                                                         *)
(* An id is a sequence of segments, the text between its slashes.  A world *)
(* [graylog, grafana] is what reading the sources finds: the ids of the    *)
(* Graylog connections, and the datasources of each Grafana connection, or *)
(* Null where they cannot be listed.  Lines are the sequence, oldest       *)
(* first, of the join keys each selector matches.                          *)
(***************************************************************************)
EXTENDS AgentCall, QueryWindows, Series

CONSTANTS
  Segments,                 \* the id of each Grafana connection
  Datasources,              \* what a Grafana connection may hold
  MaxLogLines,              \* MAX_LOG_LINES
  Selectors, Keys,          \* the streams a query may name, and the join keys
  LogCalls,                 \* the calls given
  Logs                      \* the lines there may be

ASSUME LogsAssumption ==
  /\ MaxLogLines \in Nat
  /\ Logs \subseteq [Selectors -> Seq(Keys)]
  /\ \A given \in LogCalls :
       /\ given.id \in Seq(STRING) \cup {Null}
       /\ given.limit \in Nat \cup {Null}
       /\ given.tool = "correlate" /\ given.query # Null =>
            /\ given.query.join \in {"and", "or", "unless"}
            /\ given.query.left \in Selectors /\ given.query.right \subseteq Selectors

\* No uid is empty: such a text is read as no Loki source's id (lokiIdSplits).
ASSUME SourcesAssumption ==
  /\ IsFiniteSet(Conn) /\ IsFiniteSet(Datasources)
  /\ Segments \in [Conn -> Seq(STRING)]
  /\ \A d \in Datasources : d.uid \in Seq(STRING) \ {<<>>}

Graylog(id)   == [type |-> "graylog", id |-> id]
Loki(c, uid)  == [type |-> "loki", conn |-> c, uid |-> uid]

Unreadable(world) == {c \in listed : world.grafana[c] = Null}
LokiUids(c, world) ==
  IF world.grafana[c] = Null THEN {} ELSE {d.uid : d \in {e \in world.grafana[c] : e.type = "loki"}}

\* listLogSources, and the id each source is called by.
Sources(world, conns) ==
  {Graylog(id) : id \in world.graylog}
    \cup UNION {{Loki(c, uid) : uid \in LokiUids(c, world)} : c \in conns}
IdOf(source) == IF source.type = "graylog" THEN source.id ELSE Segments[source.conn] \o source.uid

\* The only source there is, where no unreadable connection might hold another.
Sole(world) ==
  LET all == Sources(world, listed)
  IN  IF Unreadable(world) = {} /\ Cardinality(all) = 1 THEN all ELSE {}

\* A slip, not the code: connections that cannot be read are passed over.
DenotedByReadable(id, world) ==
  LET splits == {c \in listed : IsStrictPrefix(Segments[c], id)}
      uid(c) == SubSeq(id, Len(Segments[c]) + 1, Len(id))
      meanings == {Graylog(i) : i \in world.graylog \cap {id}}
                    \cup {Loki(c, uid(c)) : c \in {d \in splits : uid(d) \in LokiUids(d, world)}}
  IN  IF Cardinality(meanings) = 1 THEN meanings ELSE {}

\* An id may be read as a Graylog connection's, and as each Grafana connection's
\* whose own id begins it.  It denotes the one of these that exists, unless
\* another cannot be ruled out.
Denoted(id, world) ==
  LET splits == {c \in listed : IsStrictPrefix(Segments[c], id)}
      uid(c) == SubSeq(id, Len(Segments[c]) + 1, Len(id))
      meanings == {Graylog(i) : i \in world.graylog \cap {id}}
                    \cup {Loki(c, uid(c)) : c \in {d \in splits : uid(d) \in LokiUids(d, world)}}
  IN  IF Cardinality(meanings) = 1 /\ splits \cap Unreadable(world) = {} THEN meanings ELSE {}

--------------------------------------------------------------------------------
\* clampLogLimit.
Clamped(limit) == IF limit = Null THEN MaxLogLines ELSE Min({limit, MaxLogLines})

\* Graylog returns the oldest lines, and the number of all that match.
GraylogPage(lines, limit) ==
  LET most == Min({limit, Len(lines)})
  IN  [keys |-> SubSeq(lines, 1, most), truncated |-> Len(lines) > most]

\* A slip, not the code: a page that is just full is taken for all there is.
LokiPageOver(lines, limit) ==
  LET most == Min({limit, Len(lines)})
  IN  [keys |-> SubSeq(lines, Len(lines) - most + 1, Len(lines)), truncated |-> most > limit]

\* Loki returns the newest and does not say how many match: a full page may be a
\* part of them.
LokiPage(lines, limit) ==
  LET most == Min({limit, Len(lines)})
  IN  [keys |-> SubSeq(lines, Len(lines) - most + 1, Len(lines)), truncated |-> most >= limit]

Fetched(type, lines, limit) == IF type = "graylog" THEN GraylogPage(lines, limit) ELSE LokiPage(lines, limit)

\* The engine: the keys a join of streams reports.
Joined(join, left, rights) ==
  CASE join = "and"    -> {k \in left : \A r \in rights : k \in r}
    [] join = "or"     -> left \cup UNION rights
    [] join = "unless" -> left \ UNION rights

\* A call is [tool, id, from, to, limit, stream, query]; the query of a search
\* tells whether the guard would take it for one of lines; that of a join has the
\* streams on either side, their types and the operator, or is Null where it does
\* not parse.
LogCallStarts(given) ==
  /\ At("idle")
  /\ LET to == IF given.to = Null THEN Now ELSE given.to
     IN  IF ~Allowed([from |-> given.from, to |-> to]) THEN Errs
         ELSE Goes([at |-> IF given.id = Null THEN "sources" ELSE "source",
                    id |-> given.id, given |-> given, first |-> Null])
  /\ UNCHANGED listed

\* Without an id, the sole source is looked up again under its own.
SourcesListed(world) ==
  /\ At("sources")
  /\ IF Sole(world) = {} THEN Errs
     ELSE \E s \in Sole(world) :
            Goes([at |-> "source", id |-> IdOf(s), given |-> call.given,
                  first |-> [world |-> world, over |-> listed]])
  /\ UNCHANGED listed

\* What the source refuses: streams written for another kind, one of Graylog's own
\* streams for Loki, or text that is no query.
Fits(given, type) ==
  /\ type = "loki" => ~given.stream
  /\ IF given.tool = "search" THEN type = "loki" => given.query.lines
     ELSE given.query # Null /\ given.query.types \subseteq {type}

\* What has just been listed is not fetched again (GrafanaClient.listDatasources).
Remembered(world) == call.first # Null => world.grafana = call.first.world.grafana

SourceResolved(world) ==
  /\ At("source") /\ Remembered(world)
  /\ LET denoted == Denoted(call.id, world)
     IN  IF denoted = {} \/ \E s \in denoted : ~Fits(call.given, s.type) THEN Errs
         ELSE \E s \in denoted :
                Goes([at |-> "logs", id |-> call.id, given |-> call.given, first |-> call.first,
                      source |-> s, world |-> world, over |-> listed])
  /\ UNCHANGED listed

SearchAnswers(lines) ==
  /\ At("logs") /\ call.given.tool = "search"
  /\ \E stream \in DOMAIN lines :
       LET fetched == Fetched(call.source.type, lines[stream], Clamped(call.given.limit))
       IN  Closes([tool |-> "search", asked |-> call, lines |-> lines[stream],
                   found |-> ToSet(fetched.keys), truncated |-> fetched.truncated])
  /\ UNCHANGED listed

\* A cut on the right of an anti-join turns its answer into the opposite.
Unsafe(query, cut) == query.join = "unless" /\ query.right \cap cut # {}

CorrelateAnswers(lines) ==
  /\ At("logs") /\ call.given.tool = "correlate"
  /\ LET query   == call.given.query
         fetched == [s \in {query.left} \cup query.right |->
                       Fetched(call.source.type, lines[s], Clamped(call.given.limit))]
         cut     == {s \in DOMAIN fetched : fetched[s].truncated}
         found   == Joined(query.join, ToSet(fetched[query.left].keys),
                           {ToSet(fetched[s].keys) : s \in query.right})
     IN  IF Unsafe(query, cut) THEN Errs
         ELSE Closes([tool |-> "correlate", asked |-> call, lines |-> lines,
                      found |-> found, truncated |-> cut # {}])
  /\ UNCHANGED listed

\* A source that does not answer.
LogCallErrs ==
  /\ call.at \in {"sources", "source", "logs"}
  /\ Errs
  /\ UNCHANGED listed

--------------------------------------------------------------------------------
\* What the sources may be where some could not be read.
Completions(world) ==
  {[world EXCEPT !.grafana = f] :
     f \in {g \in [Conn -> SUBSET Datasources] :
              \A c \in Conn : world.grafana[c] # Null => g[c] = world.grafana[c]}}

\* Nothing that could not be read would have made the id mean another source than
\* the one searched; and without an id, it is that of the only source there could
\* be, which is the one searched unless it is gone by then.
Certain(asked) ==
  /\ \A w \in Completions(asked.world) :
       {s \in Sources(w, asked.over) : IdOf(s) = asked.id} = {asked.source}
  /\ asked.first # Null =>
       \A w \in Completions(asked.first.world) :
         LET there == Sources(w, asked.first.over)
         IN  /\ Cardinality(there) = 1
             /\ \A s \in there : /\ IdOf(s) = asked.id
                                 /\ s \in Sources(asked.world, asked.over) => s = asked.source

\* Logs are searched only where nothing that could not be read would have made
\* the call mean another source: what logs to one is never looked for in another
\* (sources.ts:185-202).
SourceIsCertain == answer.tool \in {"search", "correlate"} => Certain(answer.asked)

\* A join never reports what the whole of its streams would not, and without a
\* warning it reports all of that (correlateLogs.ts:121-154).
JoinsNeverInvent ==
  answer.tool = "correlate" =>
    LET query == answer.asked.given.query
        whole == Joined(query.join, ToSet(answer.lines[query.left]), {ToSet(answer.lines[s]) : s \in query.right})
    IN  /\ answer.found \subseteq whole
        /\ ~answer.truncated => answer.found = whole
================================================================================
