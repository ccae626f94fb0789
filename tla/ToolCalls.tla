-------------------------------- MODULE ToolCalls --------------------------------
(***************************************************************************)
(* Calls of render_dashboard, screenshot_panel and export_panel_csv at the *)
(* same time in one engine process, over its clients, activity log, audit  *)
(* log and browser windows, while connections are edited in another.       *)
(***************************************************************************)
EXTENDS RenderDashboard, PanelTools

Steps(c) == Arrivals(c) \/ Replays(c) \/ Renders(c) \/ Pages(c) \/ Exports(c)

\* Every call of the plan has been answered.
Done == (\A c \in Call : Awaiting(c, "over")) /\ UNCHANGED vars

Inside == (\E c \in Call : Steps(c)) \/ Listings

Next == Inside \/ Outside \/ Done

(***************************************************************************)
(* Every request ends: the client aborts it after requestTimeoutMs, a page *)
(* that loads, grows quiet or downloads is given up after                  *)
(* screenshotTimeoutMs.  No step of a call is ever repeated, so a call     *)
(* that is not answered is one that no step is left for: what the check    *)
(* for deadlocks rules out, only Done being able to go on for ever.        *)
(***************************************************************************)
Spec == Init /\ [][Next]_vars

--------------------------------------------------------------------------------
Over(c) == Awaiting(c, "over")

Occurrences(s, P(_)) == Cardinality({i \in DOMAIN s : P(s[i])})

Expected(c, p) ==
  IF ~Queryable(p) THEN {"plain"}
  ELSE IF Mirror(ResolvedPanel(p)) THEN {"mirror"} ELSE {"series", "error", "skipped"}

\* "Every panel appears" (renderDashboard.ts): each of the dashboard's panels is in
\* the answer exactly once, as what it is, panels that share an id included; those
\* queried are the first up to the limit, and a panel has series exactly if its own
\* queries were answered.
EveryPanelAccountedFor ==
  \A c \in Call : call[c].panels # <<>> =>
    LET leaves == Flattened(TheBoard(c).panels)
        said   == call[c].panels
    IN  /\ Len(said) = Len(leaves)
        /\ \A p \in ToSet(leaves) :
             Occurrences(said, LAMBDA i : i.panel = p /\ i.how \in Expected(c, p))
               = Occurrences(leaves, LAMBDA q : q = p)
        /\ Occurrences(said, LAMBDA i : i.how = "skipped") = Len(Executable(c)) - Limit(c)
        /\ \A i \in DOMAIN call[c].jobs :
             (call[c].jobs[i].is = "answered") <=>
               [panel |-> call[c].jobs[i].panel.panel, how |-> "series"] \in ToSet(said)

\* What a call has looked at: the panels that answered it, or its one panel.
Inspected(c) ==
  IF call[c].req.tool = "render"
  THEN {call[c].jobs[i].panel.panel : i \in {j \in DOMAIN call[c].jobs : call[c].jobs[j].is = "answered"}}
  ELSE IF call[c].ok /\ call[c].pc \in {"audit", "over"} THEN {Panel(c).panel} ELSE {}

Seen == UNION {{c} \X Inspected(c) : c \in Call}

\* The activity log holds the last of the panels "actually queried or screenshotted"
\* (recordActivity, createActivityLog): no other, none twice, the numbers without a
\* gap, and all of them as long as they fit.  A call that has looked at a panel is
\* answered with what it saw, whatever becomes of its other panels and of its line
\* in the audit log (Promise.allSettled, withAudit).
ActivityIsWhatWasInspected ==
  /\ \A i \in DOMAIN entries : /\ entries[i].panel \in Inspected(entries[i].call)
                               /\ entries[i].id = nextId - 1 - (Len(entries) - i)
  /\ \A i, j \in DOMAIN entries :
       entries[i].call = entries[j].call /\ entries[i].panel = entries[j].panel => i = j
  /\ nextId - 1 = Cardinality(Seen)
  /\ Len(entries) = Min({nextId - 1, MaxEntries})
  /\ \A i \in DOMAIN entries : Over(entries[i].call) => call[entries[i].call].ok

\* A client's memo is the newest list it asked for, unless that one failed: a
\* failure is not served again, and the late failure of an older fetch does not
\* take a newer one with it (GrafanaClient.listDatasources).
MemoIsTheNewest ==
  \A k \in Conn, v \in 1..LastVersion :
    LET asked  == {f \in DOMAIN fetches : fetches[f].conn = k /\ fetches[f].version = v}
        newest == Max(asked)
    IN  memo[k][v] = IF asked = {} THEN 0 ELSE IF fetches[newest].is = "failed" THEN 0 ELSE newest

\* A list that a call is served was asked for within the time-to-live, through the
\* connection as it was listed when the call began, an edited one included
\* (listDatasources, ConnectionRegistry.get).
ListServedIsFresh ==
  [][\A c \in Call :
       /\ call'[c].list # call[c].list /\ call'[c].list \in DOMAIN fetches' =>
            LET f == fetches'[call'[c].list]
            IN  f.at + Ttl > now /\ f.is # "failed" /\ f.conn = call[c].conn /\ f.version = call[c].version
       /\ call[c].conn = None /\ call'[c].conn # None =>
            call'[c].version = listed[call'[c].conn]]_vars

\* A query matches everything for a variable that stands for all its values and has
\* none exactly when the answer says so (materializeVariables: "treat any panel
\* depending on one of those as unscoped").
OpenVariablesAreSaid ==
  \A c \in Call : \A i \in DOMAIN call[c].jobs : \A j \in DOMAIN call[c].jobs[i].request :
    LET asked == call[c].jobs[i].request[j].vars
    IN  \A n \in DOMAIN asked :
          /\ n \in call[c].unresolved => asked[n] = <<>>
          /\ asked[n] = <<>> /\ RequestedAll(VariableNamed(Variables(c), n), call[c].resolved)
               => n \in call[c].unresolved

Browsing == {"directory", "loading", "quieting", "capturing", "expanding", "toggling", "downloading"}

\* No window outlives its page, and no more than the gate admits are captured at
\* once; but the window of an export whose directory could not be made stays open
\* (capturePanel, exportPanelCsv).
WindowsAreClosed ==
  /\ \A c \in windows : call[c].pc \in Browsing \/ call[c].stranded
  /\ \A c \in Call : call[c].pc \in Browsing => c \in windows
  /\ {c \in windows : call[c].req.tool = "png"} = captures
  /\ Cardinality(captures) <= MaxConcurrency

--------------------------------------------------------------------------------
\* The strengthening behind the last three.

\* The fields of a call that these speak of.
Fields == {"req", "pc", "conn", "version", "list", "stranded"}

Fetched == [conn : Conn, version : 1..LastVersion, at : Nat, is : {"pending", "ok", "failed"}]

\* Types of the shared state and of a call's connection, which is known from its
\* beginning to its answer.
TypeOK ==
  /\ now \in Nat
  /\ listed \in [Conn -> 0..LastVersion] /\ DOMAIN built = Conn
  /\ memo \in [Conn -> [1..LastVersion -> Nat]]
  /\ fetches \in Seq(Fetched)
  /\ windows \subseteq Call
  /\ call = [c \in Call |-> call[c]]
  /\ \A c \in Call :
       /\ Fields \subseteq DOMAIN call[c]
       /\ call[c].req.url \in DOMAIN Url \cup {None}
       /\ call[c].pc = "short" => call[c].req.url # None
       /\ call[c].pc \notin {"called", "audit", "over"} =>
            call[c].conn \in Conn /\ call[c].version \in 1..LastVersion

\* The requests of a client for the list, as MemoIsTheNewest has them.
AskedBy(k, v) == {f \in DOMAIN fetches : fetches[f].conn = k /\ fetches[f].version = v}

\* One of a client's requests is its newest, and its memo what became of that.
Newest(k, v, n) ==
  /\ n \in AskedBy(k, v) /\ \A f \in AskedBy(k, v) : f <= n
  /\ memo[k][v] = IF fetches[n].is = "failed" THEN 0 ELSE n

Remembers ==
  \A k \in Conn, v \in 1..LastVersion :
    \/ AskedBy(k, v) = {} /\ memo[k][v] = 0
    \/ \E n \in AskedBy(k, v) : Newest(k, v, n)

IInv == TypeOK /\ Remembers /\ WindowsAreClosed /\ IsFiniteSet(captures)
--------------------------------------------------------------------------------
\* The strengthening behind the log and the variables.

\* The fields of a call that these speak of.
Traced ==
  {"req", "pc", "uid", "panelId", "ok", "jobs", "at", "overrides", "resolved", "unresolved", "panels"}

\* Before the dashboard is known, before its variables are computed, and while they are.
Naming    == {"called", "short", "rule", "named", "board"}
Early     == Naming \cup {"window", "gate"} \cup Browsing
Computing == {"variables", "variable list", "variable query"}

\* A call has its dashboard, has jobs once its variables are computed, and none if
\* it failed; a render has no page, and asks each of its panels once.
CallSound(c) ==
  /\ Traced \subseteq DOMAIN call[c]
  /\ call[c].req.limit \in Nat
  /\ call[c].pc \notin Naming \cup {"audit", "over"} \/ call[c].jobs # <<>> => call[c].uid \in DOMAIN Board
  /\ call[c].ok \in BOOLEAN
  /\ ~call[c].ok => call[c].pc \in {"audit", "over"} /\ call[c].jobs = <<>>
  /\ call[c].pc \in Early \cup Computing => call[c].jobs = <<>>
  /\ call[c].req.tool = "render" => call[c].pc \notin {"gate", "saving"} \cup Browsing
  /\ \A i \in DOMAIN call[c].jobs : {"panel", "request", "is"} \subseteq DOMAIN call[c].jobs[i]
  /\ \A i, j \in DOMAIN call[c].jobs :
       call[c].jobs[i].panel.panel = call[c].jobs[j].panel.panel => i = j

\* It is said of a variable, or not, that it is left open.
Told(c, v) ==
  v.name \in call[c].unresolved <=>
    MatchesEverything(v, call[c].resolved) /\ RequestedAll(v, call[c].resolved)

\* What a job asks for is what the variables stand for.
PutsIn(c, job) ==
  \A j \in DOMAIN job.request : \E n \in DOMAIN job.panel.targets :
    job.request[j].vars = Substituted(job.panel.targets[n].raw, Variables(c), call[c].resolved)

\* It is said of the variables computed so far, and the others are as they were; the
\* queries put the same values in.
VariablesSound(c) ==
  /\ call[c].pc \in Early => call[c].unresolved = {}
  /\ call[c].pc \in Computing =>
       /\ call[c].at \in Nat \ {0}
       /\ call[c].pc # "variables" => MoreToDo(c) /\ FallsOpen(c)
       /\ \A k \in DOMAIN Variables(c) :
            LET v == Variables(c)[k] IN
            IF k < call[c].at THEN Told(c, v)
            ELSE /\ v.name \notin call[c].unresolved
                 /\ Selection(v, call[c].resolved) = Selection(v, call[c].overrides)
  /\ \A i \in DOMAIN call[c].jobs :
       IF call[c].pc = "over" THEN call[c].jobs[i].request = <<>>
       ELSE /\ \A k \in DOMAIN Variables(c) : Told(c, Variables(c)[k])
            /\ PutsIn(c, call[c].jobs[i])

\* A render's jobs are the panels it is to query, in order.
Aligned(c) ==
  /\ DOMAIN call[c].jobs = DOMAIN ToExecute(c)
  /\ \A i \in DOMAIN call[c].jobs : call[c].jobs[i].panel = ToExecute(c)[i]

\* A render's answer is put together of its jobs once these have settled.
AnswerSound(c) ==
  /\ call[c].pc = "panels" /\ call[c].req.tool = "render" => Aligned(c)
  /\ call[c].panels # <<>> =>
       /\ call[c].pc = "audit" /\ call[c].req.tool = "render"
       /\ call[c].uid \in DOMAIN Board /\ Aligned(c) /\ call[c].panels = Reported(c)

\* The log's entries are of what was inspected, numbered, and each thing is there once.
LogSound ==
  /\ nextId \in Nat \ {0}
  /\ entries \in Seq(ToSet(entries))
  /\ IsFiniteSet(Seen) /\ nextId - 1 = Cardinality(Seen)
  /\ Len(entries) = IF nextId - 1 <= MaxEntries THEN nextId - 1 ELSE MaxEntries
  /\ \A i \in DOMAIN entries : /\ <<entries[i].call, entries[i].panel>> \in Seen
                               /\ entries[i].id = nextId - 1 - (Len(entries) - i)
  /\ \A i, j \in DOMAIN entries :
       entries[i].call = entries[j].call /\ entries[i].panel = entries[j].panel => i = j

CallsSound ==
  /\ call = [c \in Call |-> call[c]]
  /\ \A c \in Call : CallSound(c) /\ VariablesSound(c) /\ AnswerSound(c)

TInv == CallsSound /\ LogSound

================================================================================
