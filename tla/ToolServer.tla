------------------------------- MODULE ToolServer -------------------------------
(***************************************************************************)
(* What the handlers of one engine process share, and the first and last   *)
(* steps they have in common: connections and the clients built from them  *)
(* (src/grafana/registry.ts), a client's memo of the datasource list       *)
(* (src/grafana/client.ts), the activity log (src/activity/activityLog.ts),*)
(* the audit log (src/security/audit.ts), the gate of browser captures and *)
(* the open browser windows.                                               *)
(*                                                                         *)
(* A step is a stretch of code between two awaits.  A call's `pc' says what*)
(* it awaits.  A connection is listed in some version: 0 is not listed, an *)
(* edit makes the next one, and a client is known by the connection and    *)
(* the version it was built from.                                          *)
(***************************************************************************)
EXTENDS Panels

CONSTANTS Call,             \* tool calls
          Conn,             \* ids of connections
          HostOf, Aliases,  \* a connection's own host, and its matchHosts
          Url,              \* the links calls are made with, by name
          Board,            \* dashboards by uid, as Grafana keeps them
          Plans,            \* which requests the calls make
          Ttl,              \* DATASOURCES_TTL_MS
          MaxEntries,       \* createActivityLog's
          MaxConcurrency,   \* config.maxConcurrency
          Edited, LastTime, LastVersion     \* bounds of the model: the connections
                            \* that are edited, how long, how often

ASSUME BoundsAssumption ==
  Ttl \in Nat \ {0} /\ LastVersion \in Nat \ {0} /\ MaxConcurrency \in Nat
  /\ MaxEntries \in Nat

\* parseGrafanaUrl knows four kinds of links; a call is made with one or none.
ASSUME LinksAssumption ==
  /\ \A link \in DOMAIN Url : /\ Url[link].kind \in {"dashboard", "rule", "short", "folder"}
                             /\ Url[link].to \in DOMAIN Url \cup {None}
  /\ \A plan \in Plans, c \in Call : plan[c].url \in DOMAIN Url \cup {None}

\* No two variables of a dashboard have one name: Grafana refuses a second.
ASSUME VariablesAssumption ==
  \A uid \in DOMAIN Board :
    LET variables == Board[uid].variables IN
    /\ variables \in Seq(ToSet(variables))
    /\ \A i, j \in DOMAIN variables : variables[i].name = variables[j].name => i = j

VARIABLES now,
          listed,           \* the version each connection is listed in
          built,            \* the version the registry's client was built from
          memo,             \* each client's datasourcesCache: a fetch, or 0
          fetches,          \* /api/datasources requests, in order
          entries,          \* the activity log
          nextId,
          audit,            \* the calls with a line in the audit log
          captures,         \* calls inside the gate of captures
          windows,          \* calls with a BrowserWindow open
          call              \* where each call is

vars == <<now, listed, built, memo, fetches, entries, nextId, audit, captures, windows, call>>

Awaiting(c, place) == call[c].pc = place

\* A function, or a record, with other values for some of its arguments.
With(others, f) ==
  [x \in DOMAIN others \cup DOMAIN f |-> IF x \in DOMAIN others THEN others[x] ELSE f[x]]

\* A call goes on with some of its fields changed.
Becomes(c, fields) == call' = [call EXCEPT ![c] = With(fields, @)]

Fresh(req) ==
  [req |-> req, pc |-> "called", conn |-> None, version |-> 0, uid |-> req.uid,
   panelId |-> req.panelId, urlVars |-> <<>>, overrides |-> <<>>, resolved |-> <<>>, raw |-> 0,
   at |-> 0, list |-> 0, unresolved |-> {}, jobs |-> <<>>, panels |-> <<>>,
   note |-> FALSE, stranded |-> FALSE, files |-> 0, saved |-> 0, ok |-> TRUE]

Init ==
  /\ now = 0
  /\ listed = [k \in Conn |-> 1]
  /\ built = [k \in Conn |-> 0]
  /\ memo = [k \in Conn |-> [v \in 1..LastVersion |-> 0]]
  /\ fetches = <<>>
  /\ entries = <<>> /\ nextId = 1
  /\ audit = {}
  /\ captures = {} /\ windows = {}
  /\ \E plan \in Plans : call = [c \in Call |-> Fresh(plan[c])]

--------------------------------------------------------------------------------
\* resolveConnection: the connections a call may mean, exactly one if it goes on.
HostMatches(host, k) == host = HostOf[k] \/ host \in Aliases[k]

Candidates(req) ==
  LET known == {k \in Conn : listed[k] # 0}
  IN  CASE req.connection # None -> known \cap {req.connection}
        [] req.connection = None /\ req.url # None ->
             {k \in known : HostMatches(Url[req.url].host, k)}
        [] OTHER -> known

\* A call that throws is audited and answered with an error.
Fails(c) == Becomes(c, [pc |-> "audit", ok |-> FALSE, jobs |-> <<>>])

\* Where a call goes once its link is known; a link that is short is asked for
\* first.  A folder's link is refused, a rule's is looked up.
Follow(c, found, link) ==
  LET next == IF link = None THEN [uid |-> call[c].req.uid]
              ELSE CASE Url[link].kind = "dashboard" ->
                          [uid |-> Url[link].uid, urlVars |-> Url[link].vars,
                           panelId |-> IF call[c].panelId # None THEN call[c].panelId ELSE Url[link].panelId]
                     [] Url[link].kind = "rule"   -> [pc |-> "rule"]
                     [] Url[link].kind = "short"  -> [pc |-> "short"]
                     [] Url[link].kind = "folder" -> [pc |-> "audit", ok |-> FALSE]
  IN  Becomes(c, With(next, With(found, [pc |-> "named"])))

\* A slip, not the code: the registry keeps a client whatever becomes of its
\* connection.
BuildOnce(k) == IF built[k] # 0 THEN built[k] ELSE listed[k]

\* ConnectionRegistry.get: a client is built again once its connection is listed
\* in another version.
Build(k) == listed[k]

\* withAudit and resolveToolClient.
Begin(c) ==
  /\ Awaiting(c, "called")
  /\ IF Cardinality(Candidates(call[c].req)) = 1
     THEN \E k \in Candidates(call[c].req) :
            /\ built' = [built EXCEPT ![k] = Build(k)]
            /\ Follow(c, [conn |-> k, version |-> built'[k]], call[c].req.url)
     ELSE /\ Fails(c)
          /\ UNCHANGED built
  /\ UNCHANGED <<now, listed, memo, fetches, entries, nextId, audit, captures, windows>>

\* resolveGotoUrl: the link a short one stands for; pruned ones are gone.
ShortUrlArrives(c, ok) ==
  /\ Awaiting(c, "short")
  /\ IF ok THEN Follow(c, <<>>, Url[call[c].req.url].to) ELSE Fails(c)
  /\ UNCHANGED <<now, listed, built, memo, fetches, entries, nextId, audit, captures, windows>>

\* An alert rule's dashboard, and its panel where the tool wants one.
RuleArrives(c, ok) ==
  /\ Awaiting(c, "rule")
  /\ LET link == Url[call[c].req.url]
         rule == IF link.kind = "short" THEN Url[link.to] ELSE link
     IN  IF ok /\ rule.uid # None /\ (call[c].req.tool # "render" => rule.panelId # None)
         THEN Becomes(c, [pc |-> "named", uid |-> rule.uid, panelId |-> rule.panelId])
         ELSE Fails(c)
  /\ UNCHANGED <<now, listed, built, memo, fetches, entries, nextId, audit, captures, windows>>

\* The dashboard is known, and the panel where one is needed: it is fetched.
Fetch(c) ==
  /\ Awaiting(c, "named")
  /\ IF call[c].uid = None \/ (call[c].req.tool # "render" /\ call[c].panelId = None)
     THEN Fails(c)
     ELSE Becomes(c, [pc |-> "board"])
  /\ UNCHANGED <<now, listed, built, memo, fetches, entries, nextId, audit, captures, windows>>

TheBoard(c) == Board[call[c].uid]
ThePanels(c) == FoundPanels(TheBoard(c), call[c].panelId, call[c].req.panelTitle)

\* The dashboard arrives, if Grafana has it, and its panel is found; the window is
\* resolved next (module RenderWindow).
BoardArrives(c, ok) ==
  /\ Awaiting(c, "board")
  /\ IF /\ ok /\ call[c].uid \in DOMAIN Board
        /\ call[c].req.tool = "render" \/ ThePanels(c) # <<>>
     THEN Becomes(c, [pc |-> "window", overrides |-> Overriding(call[c].urlVars, call[c].req.overrides)])
     ELSE Fails(c)
  /\ UNCHANGED <<now, listed, built, memo, fetches, entries, nextId, audit, captures, windows>>

--------------------------------------------------------------------------------
\* GrafanaClient.listDatasources.
TheMemo(c) == memo[call[c].conn][call[c].version]

MayServe(f) == f # 0 /\ fetches[f].at + Ttl > now

\* The fetch a call that asks now is served by: the memo's, or the next one.
Served(c) == IF MayServe(TheMemo(c)) THEN TheMemo(c) ELSE Len(fetches) + 1

ListDatasources(c) ==
  IF MayServe(TheMemo(c)) THEN UNCHANGED <<memo, fetches>>
  ELSE /\ fetches' = Append(fetches, [conn |-> call[c].conn, version |-> call[c].version,
                                      at |-> now, is |-> "pending"])
       /\ memo' = [memo EXCEPT ![call[c].conn][call[c].version] = Len(fetches) + 1]

\* A slip, not the code: whatever is in the cache is dropped.
DropsWhatIsThere(f) == {memo[fetches[f].conn][fetches[f].version]}

\* The entries a rejected fetch takes out of the cache: its own.
Drops(f) == {f}

ListSettles(f, ok) ==
  /\ fetches[f].is = "pending"
  /\ fetches' = [fetches EXCEPT ![f].is = IF ok THEN "ok" ELSE "failed"]
  /\ LET kept == memo[fetches[f].conn][fetches[f].version]
     IN  memo' = IF ~ok /\ kept \in Drops(f)
                 THEN [memo EXCEPT ![fetches[f].conn][fetches[f].version] = 0]
                 ELSE memo
  /\ UNCHANGED <<now, listed, built, entries, nextId, audit, captures, windows, call>>

--------------------------------------------------------------------------------
\* createActivityLog: the last MaxEntries entries, numbered as they came.
Record(c, panel) ==
  LET all == Append(entries, [id |-> nextId, call |-> c, panel |-> panel])
  IN  /\ entries' = IF Len(all) > MaxEntries THEN Tail(all) ELSE all
      /\ nextId' = nextId + 1

\* A call that is over has nothing left but its outcome and what it looked at.
Ended(c) ==
  [pc |-> "over", overrides |-> <<>>, urlVars |-> <<>>, resolved |-> <<>>, unresolved |-> {},
   raw |-> 0, at |-> 0, list |-> 0, panels |-> <<>>, note |-> FALSE, files |-> 0, saved |-> 0,
   jobs |-> [i \in DOMAIN call[c].jobs |-> [call[c].jobs[i] EXCEPT !.request = <<>>]]]

Appends(c, ok) ==
  /\ audit' = IF ok THEN audit \cup {c} ELSE audit
  /\ Becomes(c, Ended(c))

\* withAudit: a line for the call, and the answer whether or not it could be
\* appended.
Answer(c, ok) ==
  /\ Awaiting(c, "audit")
  /\ Appends(c, ok)
  /\ UNCHANGED <<now, listed, built, memo, fetches, entries, nextId, captures, windows>>

--------------------------------------------------------------------------------
Tick ==
  /\ now < LastTime
  /\ \E f \in DOMAIN fetches : fetches[f].at + Ttl > now      \* only a memo tells the time
  /\ now' = now + 1
  /\ UNCHANGED <<listed, built, memo, fetches, entries, nextId, audit, captures, windows, call>>

\* The connections are edited in the connection manager, another process.
Edit(k) ==
  /\ k \in Edited
  /\ listed[k] \in 1..LastVersion - 1
  /\ listed' = [listed EXCEPT ![k] = @ + 1]
  /\ UNCHANGED <<now, built, memo, fetches, entries, nextId, audit, captures, windows, call>>

Unlist(k) ==
  /\ k \in Edited
  /\ listed[k] # 0
  /\ listed' = [listed EXCEPT ![k] = 0]
  /\ UNCHANGED <<now, built, memo, fetches, entries, nextId, audit, captures, windows, call>>

Arrivals(c) ==
  \/ Begin(c) \/ Fetch(c)
  \/ \E ok \in BOOLEAN : \/ ShortUrlArrives(c, ok) \/ RuleArrives(c, ok)
                         \/ BoardArrives(c, ok) \/ Answer(c, ok)
Listings == \E f \in DOMAIN fetches, ok \in BOOLEAN : ListSettles(f, ok)
Outside  == Tick \/ \E k \in Conn : Edit(k) \/ Unlist(k)
================================================================================
