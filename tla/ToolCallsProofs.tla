---------------------------- MODULE ToolCallsProofs ----------------------------
(***************************************************************************)
(* What the calls of one engine process share stays as promised, for any   *)
(* calls, connections, dashboards and limits: a client's memo is the       *)
(* newest list it asked for, a list that is served is fresh and of the     *)
(* connection as it was listed, and every browser window belongs to a page *)
(* that is open.  Of a step of a call only little matters for these        *)
(* (CallStep); the first part shows it of every step, the second concludes.*)
(* The third does the same for the activity log, which is what was looked  *)
(* at, and for the variables, which are said to be open exactly if they    *)
(* are: what matters for these is Traces.                                  *)
(***************************************************************************)
EXTENDS ToolCalls, FiniteSetTheorems, WellFoundedInduction, TLAPS

\* Of the fields that matter only the place changes.
Moved(c, place) ==
  /\ call' = [d \in Call |-> call'[d]]
  /\ \A d \in Call : d # c => call'[d] = call[d]
  /\ Fields \subseteq DOMAIN call'[c]
  /\ call'[c].pc = place
  /\ call'[c].req = call[c].req /\ call'[c].conn = call[c].conn /\ call'[c].version = call[c].version
  /\ call'[c].list = call[c].list /\ call'[c].stranded = call[c].stranded

\* What becomes of a call's fields when it goes on.
LEMMA GoesOn ==
  ASSUME TypeOK, NEW c \in Call, NEW fields, Becomes(c, fields)
  PROVE  /\ call' = [d \in Call |-> call'[d]]
         /\ \A d \in Call : d # c => call'[d] = call[d]
         /\ Fields \subseteq DOMAIN call'[c]
         /\ \A x \in Fields : call'[c][x] = IF x \in DOMAIN fields THEN fields[x] ELSE call[c][x]
<1>1. call' = [call EXCEPT ![c] = With(fields, call[c])]
  BY DEF Becomes, TypeOK
<1>2. call'[c] = With(fields, call[c])
  BY <1>1 DEF TypeOK
<1>3. call'[c] = [x \in (DOMAIN fields) \cup DOMAIN call[c] |-> IF x \in DOMAIN fields THEN fields[x] ELSE call[c][x]]
  BY <1>2 DEF With
<1>4. Fields \subseteq DOMAIN call[c]
  BY DEF TypeOK
<1> QED
  BY <1>1, <1>3, <1>4 DEF TypeOK

\* The same where nothing but the place matters.
LEMMA Goes ==
  ASSUME TypeOK, NEW c \in Call, NEW fields, Becomes(c, fields),
         (DOMAIN fields) \cap Fields \subseteq {"pc"}
  PROVE  Moved(c, IF "pc" \in DOMAIN fields THEN fields.pc ELSE call[c].pc)
<1>1. \A x \in Fields : call'[c][x] = IF x \in DOMAIN fields THEN fields[x] ELSE call[c][x]
  BY GoesOn
<1>2. {"pc", "req", "conn", "version", "list", "stranded"} = Fields
  BY DEF Fields
<1>3. \A x \in {"req", "conn", "version", "list", "stranded"} : x \in Fields /\ x \notin DOMAIN fields
  BY <1>2
<1>4. \A x \in {"req", "conn", "version", "list", "stranded"} : call'[c][x] = call[c][x]
  BY <1>1, <1>3
<1>5. call'[c].pc = IF "pc" \in DOMAIN fields THEN fields.pc ELSE call[c].pc
  BY <1>1, <1>2
<1> QED
  BY <1>4, <1>5, GoesOn DEF Moved

\* A call fails.
LEMMA FailsSo == ASSUME TypeOK, NEW c \in Call, Fails(c) PROVE Moved(c, "audit")
<1>1. PICK f : f = [pc |-> "audit", ok |-> FALSE, jobs |-> <<>>]
  OBVIOUS
<1>2. DOMAIN f = {"pc", "ok", "jobs"} /\ f.pc = "audit"
  BY <1>1
<1>3. Becomes(c, f)
  BY <1>1 DEF Fails
<1> QED
  BY <1>2, <1>3, Goes DEF Fields

\* An export queries its panel itself, or fails.
LEMMA DirectSo ==
  ASSUME TypeOK, NEW c \in Call, NEW fields, Direct(c, fields),
         (DOMAIN fields) \cap Fields = {}
  PROVE  Moved(c, "audit") \/ Moved(c, "variables")
<1>1. PICK f : f = IF Mirror(Panel(c)) THEN [pc |-> "audit", ok |-> FALSE]
                   ELSE [pc |-> "variables", at |-> 1, resolved |-> call[c].overrides]
  OBVIOUS
<1>2. /\ DOMAIN f = {"pc", "ok"} \/ DOMAIN f = {"pc", "at", "resolved"}
      /\ f.pc \in {"audit", "variables"}
  BY <1>1
<1>3. PICK g : g = With(fields, f)
  OBVIOUS
<1>4. Becomes(c, g)
  BY <1>1, <1>3 DEF Direct
<1>5. "pc" \notin DOMAIN fields
  BY DEF Fields
<1>6. DOMAIN g = (DOMAIN fields) \cup DOMAIN f /\ g["pc"] = f["pc"]
  BY <1>2, <1>3, <1>5 DEF With
<1>7. (DOMAIN g) \cap Fields \subseteq {"pc"} /\ "pc" \in DOMAIN g /\ g.pc = f.pc
  BY <1>2, <1>6 DEF Fields
<1>8. Moved(c, g.pc)
  BY <1>4, <1>7, Goes
<1> QED
  BY <1>2, <1>7, <1>8

--------------------------------------------------------------------------------
\* What a step of a call may do to what is shared.

Frame(c) ==
  /\ call' = [d \in Call |-> call'[d]]
  /\ \A d \in Call : d # c => call'[d] = call[d]
  /\ Fields \subseteq DOMAIN call'[c] /\ call'[c].req = call[c].req
  /\ UNCHANGED <<now, listed>> /\ DOMAIN built' = DOMAIN built

SameConnection(c) == call'[c].conn = call[c].conn /\ call'[c].version = call[c].version

\* A call is given its connection when it begins, as that is listed, and keeps it.
Binds(c) ==
  /\ call'[c].pc = "short" => call[c].req.url # None
  /\ call'[c].pc # "called"
  /\ \/ call[c].pc = "called" /\ call'[c].pc = "audit" /\ SameConnection(c)
     \/ /\ call[c].pc = "called"
        /\ call'[c].conn \in Conn /\ listed[call'[c].conn] # 0
        /\ call'[c].version = listed[call'[c].conn]
     \/ /\ call[c].pc \notin {"called", "over"} /\ SameConnection(c)
        /\ call[c].pc = "audit" => call'[c].pc = "over"

\* It asks for the list of datasources at one place only.
Asks(c) ==
  \/ UNCHANGED <<memo, fetches>> /\ call'[c].list \in {call[c].list, 0}
  \/ /\ call[c].pc = "variables" /\ call'[c].list = Served(c)
     /\ UNCHANGED <<memo, fetches>> \/ ListDatasources(c)

\* It opens a window, keeps it for as long as it browses, and closes it.
Views(c) ==
  \/ /\ UNCHANGED <<captures, windows>> /\ call'[c].stranded = call[c].stranded
     /\ call[c].pc \in Browsing <=> call'[c].pc \in Browsing
  \/ /\ call[c].req.tool = "png" /\ Cardinality(captures) < MaxConcurrency
     /\ captures' = captures \cup {c} /\ windows' = windows \cup {c}
     /\ call'[c].pc \in Browsing
  \/ /\ call[c].req.tool = "csv" /\ windows' = windows \cup {c} /\ UNCHANGED captures
     /\ call'[c].pc \in Browsing
  \/ /\ captures' = captures \ {c} /\ windows' = windows \ {c}
     /\ call'[c].pc \notin Browsing
  \/ /\ UNCHANGED <<captures, windows>> /\ call'[c].stranded = TRUE
     /\ call'[c].pc \notin Browsing

CallStep(c) == Frame(c) /\ Binds(c) /\ Asks(c) /\ Views(c)

\* A step that changes nothing shared, between two places that are not special.
LEMMA QuietStep ==
  ASSUME NEW c \in Call, NEW place, Moved(c, place),
         UNCHANGED <<now, listed, built, memo, fetches, captures, windows>>,
         call[c].pc \notin {"called", "audit", "over"}, place \notin {"called", "short"},
         call[c].pc \in Browsing <=> place \in Browsing
  PROVE  CallStep(c)
BY DEF CallStep, Frame, Binds, SameConnection, Asks, Views, Moved

--------------------------------------------------------------------------------
\* Where a link leads: the connection and the version are those that were found.
LEMMA FollowSo ==
  ASSUME TypeOK, NEW c \in Call, NEW found, (DOMAIN found) \cap Fields \subseteq {"conn", "version"},
         NEW link \in DOMAIN Url \cup {None}, Follow(c, found, link)
  PROVE  /\ call'[c].pc \in {"named", "rule", "short", "audit"}
         /\ call'[c].pc = "short" => link # None
         /\ call' = [d \in Call |-> call'[d]]
         /\ \A d \in Call : d # c => call'[d] = call[d]
         /\ Fields \subseteq DOMAIN call'[c]
         /\ \A x \in {"conn", "version"} : call'[c][x] = IF x \in DOMAIN found THEN found[x] ELSE call[c][x]
         /\ \A x \in {"req", "list", "stranded"} : call'[c][x] = call[c][x]
<1> DEFINE next == IF link = None THEN [uid |-> call[c].req.uid]
              ELSE CASE Url[link].kind = "dashboard" ->
                          [uid |-> Url[link].uid, urlVars |-> Url[link].vars,
                           panelId |-> IF call[c].panelId # None THEN call[c].panelId ELSE Url[link].panelId]
                     [] Url[link].kind = "rule"   -> [pc |-> "rule"]
                     [] Url[link].kind = "short"  -> [pc |-> "short"]
                     [] Url[link].kind = "folder" -> [pc |-> "audit", ok |-> FALSE]
<1> HIDE DEF next
<1>1. PICK n : n = next
  OBVIOUS
<1>2. /\ (DOMAIN n) \cap Fields \subseteq {"pc"}
      /\ "pc" \in DOMAIN n => n["pc"] \in {"rule", "short", "audit"} /\ (n["pc"] = "short" => link # None)
  <2>1. CASE link = None
    BY <1>1, <2>1 DEF next, Fields
  <2>2. CASE link # None /\ Url[link].kind = "dashboard"
    <3>1. DOMAIN n = {"uid", "urlVars", "panelId"}
      BY <1>1, <2>2 DEF next
    <3> QED
      BY <3>1 DEF Fields
  <2>3. CASE link # None /\ Url[link].kind = "rule"
    BY <1>1, <2>3 DEF next, Fields
  <2>4. CASE link # None /\ Url[link].kind = "short"
    BY <1>1, <2>4 DEF next, Fields
  <2>5. CASE link # None /\ Url[link].kind = "folder"
    BY <1>1, <2>5 DEF next, Fields
  <2> QED
    BY <2>1, <2>2, <2>3, <2>4, <2>5, LinksAssumption
<1>3. PICK g : g = With(found, [pc |-> "named"])
  OBVIOUS
<1>4. DOMAIN g = (DOMAIN found) \cup {"pc"} /\ \A x \in DOMAIN g : g[x] = IF x \in DOMAIN found THEN found[x] ELSE "named"
  BY <1>3 DEF With
<1>5. PICK f : f = With(n, g)
  OBVIOUS
<1>6. DOMAIN f = (DOMAIN n) \cup DOMAIN g /\ \A x \in DOMAIN f : f[x] = IF x \in DOMAIN n THEN n[x] ELSE g[x]
  BY <1>5 DEF With
<1>7. Becomes(c, f)
  BY <1>1, <1>3, <1>5 DEF next, Follow
<1>8. "pc" \notin DOMAIN found
  BY DEF Fields
<1>9. "pc" \in DOMAIN f /\ f["pc"] \in {"named", "rule", "short", "audit"} /\ (f["pc"] = "short" => link # None)
  BY <1>2, <1>4, <1>6, <1>8
<1>10. \A x \in {"conn", "version"} : x \notin DOMAIN n /\ (x \in DOMAIN f <=> x \in DOMAIN found)
                                      /\ (x \in DOMAIN found => f[x] = found[x])
  BY <1>2, <1>4, <1>6 DEF Fields
<1>11. \A x \in {"req", "list", "stranded"} : x \notin DOMAIN f
  BY <1>2, <1>4, <1>6 DEF Fields
<1>12. \A x \in Fields : call'[c][x] = IF x \in DOMAIN f THEN f[x] ELSE call[c][x]
  BY <1>7, GoesOn
<1>13. "pc" \in Fields /\ {"conn", "version"} \subseteq Fields /\ {"req", "list", "stranded"} \subseteq Fields
  BY DEF Fields
<1>14. call'[c].pc = f["pc"]
  BY <1>9, <1>12, <1>13
<1>15. \A x \in {"conn", "version"} : call'[c][x] = IF x \in DOMAIN found THEN found[x] ELSE call[c][x]
  BY <1>10, <1>12, <1>13
<1>16. \A x \in {"req", "list", "stranded"} : call'[c][x] = call[c][x]
  BY <1>11, <1>12, <1>13
<1> QED
  BY <1>7, <1>9, <1>14, <1>15, <1>16, GoesOn

\* Binding a call to its connection, or failing to.
LEMMA BeginSteps == ASSUME TypeOK, NEW c \in Call, Begin(c) PROVE CallStep(c)
<1>1. /\ call[c].pc = "called"
      /\ UNCHANGED <<now, listed, memo, fetches, captures, windows>>
  BY DEF Begin, Awaiting
<1>2. CASE Cardinality(Candidates(call[c].req)) = 1
  <2>1. PICK k \in Candidates(call[c].req) :
          /\ built' = [built EXCEPT ![k] = Build(k)]
          /\ Follow(c, [conn |-> k, version |-> built'[k]], call[c].req.url)
    BY <1>2 DEF Begin
  <2>2. k \in Conn /\ listed[k] # 0
    BY DEF Candidates
  <2>3. built'[k] = listed[k] /\ DOMAIN built' = DOMAIN built
    BY <2>1, <2>2 DEF TypeOK, Build
  <2>4. PICK found : found = [conn |-> k, version |-> built'[k]]
    OBVIOUS
  <2>5. DOMAIN found = {"conn", "version"} /\ found["conn"] = k /\ found["version"] = listed[k]
    BY <2>3, <2>4
  <2>6. call[c].req.url \in DOMAIN Url \cup {None}
    BY DEF TypeOK
  <2>7. Follow(c, found, call[c].req.url)
    BY <2>1, <2>4
  <2>8. /\ call'[c].pc \in {"named", "rule", "short", "audit"}
        /\ call'[c].pc = "short" => call[c].req.url # None
        /\ call' = [d \in Call |-> call'[d]]
        /\ \A d \in Call : d # c => call'[d] = call[d]
        /\ Fields \subseteq DOMAIN call'[c]
        /\ \A x \in {"conn", "version"} : call'[c][x] = IF x \in DOMAIN found THEN found[x] ELSE call[c][x]
        /\ \A x \in {"req", "list", "stranded"} : call'[c][x] = call[c][x]
    BY <2>5, <2>6, <2>7, FollowSo
  <2>9. /\ call'[c].conn = k /\ call'[c].version = listed[k]
        /\ call'[c].req = call[c].req /\ call'[c].list = call[c].list /\ call'[c].stranded = call[c].stranded
    BY <2>5, <2>8
  <2> QED
    BY <1>1, <2>2, <2>3, <2>8, <2>9 DEF CallStep, Frame, Binds, Asks, Views, Browsing
<1>3. CASE ~(Cardinality(Candidates(call[c].req)) = 1)
  <2>1. Fails(c) /\ UNCHANGED built
    BY <1>3 DEF Begin
  <2>2. Moved(c, "audit")
    BY <2>1, FailsSo
  <2> QED
    BY <1>1, <2>1, <2>2 DEF CallStep, Frame, Binds, SameConnection, Asks, Views, Browsing, Moved
<1> QED
  BY <1>2, <1>3

\* The short link's answer, which names a dashboard or fails the call.
LEMMA ShortUrlSteps ==
  ASSUME TypeOK, NEW c \in Call, NEW ok \in BOOLEAN, ShortUrlArrives(c, ok) PROVE CallStep(c)
<1>1. /\ call[c].pc = "short"
      /\ UNCHANGED <<now, listed, built, memo, fetches, captures, windows>>
  BY DEF ShortUrlArrives, Awaiting
<1>2. CASE ok
  <2>1. PICK found : found = <<>>
    OBVIOUS
  <2>2. PICK link : link = Url[call[c].req.url].to
    OBVIOUS
  <2>3. call[c].req.url \in DOMAIN Url
    BY <1>1 DEF TypeOK
  <2>4. link \in DOMAIN Url \cup {None}
    BY <2>2, <2>3, LinksAssumption
  <2>5. DOMAIN found = {} /\ Follow(c, found, link)
    BY <1>2, <2>1, <2>2 DEF ShortUrlArrives
  <2>6. /\ call'[c].pc \in {"named", "rule", "short", "audit"}
        /\ call' = [d \in Call |-> call'[d]]
        /\ \A d \in Call : d # c => call'[d] = call[d]
        /\ Fields \subseteq DOMAIN call'[c]
        /\ \A x \in {"conn", "version"} : call'[c][x] = call[c][x]
        /\ \A x \in {"req", "list", "stranded"} : call'[c][x] = call[c][x]
    BY <2>4, <2>5, FollowSo
  <2>7. /\ call'[c].conn = call[c].conn /\ call'[c].version = call[c].version
        /\ call'[c].req = call[c].req /\ call'[c].list = call[c].list /\ call'[c].stranded = call[c].stranded
    BY <2>6
  <2>8. call[c].req.url # None
    BY <1>1 DEF TypeOK
  <2> QED
    BY <1>1, <2>6, <2>7, <2>8 DEF CallStep, Frame, Binds, SameConnection, Asks, Views, Browsing
<1>3. CASE ~ok
  <2>1. Moved(c, "audit")
    BY <1>3, FailsSo DEF ShortUrlArrives
  <2> QED
    BY <1>1, <2>1, QuietStep DEF Browsing
<1> QED
  BY <1>2, <1>3

\* The alert rule's answer.
LEMMA RuleSteps ==
  ASSUME TypeOK, NEW c \in Call, NEW ok \in BOOLEAN, RuleArrives(c, ok) PROVE CallStep(c)
<1>1. /\ call[c].pc = "rule"
      /\ UNCHANGED <<now, listed, built, memo, fetches, captures, windows>>
      /\ Fails(c) \/ \E uid, id : Becomes(c, [pc |-> "named", uid |-> uid, panelId |-> id])
  BY DEF RuleArrives, Awaiting
<1>2. CASE Fails(c)
  BY <1>1, <1>2, FailsSo, QuietStep DEF Browsing
<1>3. ASSUME NEW uid, NEW id, Becomes(c, [pc |-> "named", uid |-> uid, panelId |-> id]) PROVE CallStep(c)
  <2>1. PICK f : f = [pc |-> "named", uid |-> uid, panelId |-> id]
    OBVIOUS
  <2>2. DOMAIN f = {"pc", "uid", "panelId"} /\ f.pc = "named"
    BY <2>1
  <2>3. (DOMAIN f) \cap Fields \subseteq {"pc"} /\ "pc" \in DOMAIN f
    BY <2>2 DEF Fields
  <2>4. Moved(c, "named")
    BY <1>3, <2>1, <2>2, <2>3, Goes
  <2> QED
    BY <1>1, <2>4, QuietStep DEF Browsing
<1> QED
  BY <1>1, <1>2, <1>3

\* A step to a place of which only that matters.
LEMMA PlaceSo ==
  ASSUME TypeOK, NEW c \in Call, NEW place, Becomes(c, [pc |-> place]) PROVE Moved(c, place)
<1>1. PICK f : f = [pc |-> place]
  OBVIOUS
<1>2. DOMAIN f = {"pc"} /\ f.pc = place
  BY <1>1
<1> QED
  BY <1>1, <1>2, Goes

\* Asking for the dashboard.
LEMMA FetchSteps == ASSUME TypeOK, NEW c \in Call, Fetch(c) PROVE CallStep(c)
<1>1. /\ call[c].pc = "named"
      /\ UNCHANGED <<now, listed, built, memo, fetches, captures, windows>>
      /\ Fails(c) \/ Becomes(c, [pc |-> "board"])
  BY DEF Fetch, Awaiting
<1>2. Moved(c, "audit") \/ Moved(c, "board")
  BY <1>1, FailsSo, PlaceSo
<1> QED
  BY <1>1, <1>2, QuietStep DEF Browsing

\* The dashboard's answer.
LEMMA BoardSteps ==
  ASSUME TypeOK, NEW c \in Call, NEW ok \in BOOLEAN, BoardArrives(c, ok) PROVE CallStep(c)
<1>1. /\ call[c].pc = "board"
      /\ UNCHANGED <<now, listed, built, memo, fetches, captures, windows>>
      /\ Fails(c) \/ \E o : Becomes(c, [pc |-> "window", overrides |-> o])
  BY DEF BoardArrives, Awaiting
<1>2. ASSUME NEW o, Becomes(c, [pc |-> "window", overrides |-> o]) PROVE Moved(c, "window")
  <2>1. PICK f : f = [pc |-> "window", overrides |-> o]
    OBVIOUS
  <2>2. DOMAIN f = {"pc", "overrides"} /\ f.pc = "window"
    BY <2>1
  <2>3. (DOMAIN f) \cap Fields \subseteq {"pc"} /\ "pc" \in DOMAIN f
    BY <2>2 DEF Fields
  <2> QED
    BY <1>2, <2>1, <2>2, <2>3, Goes
<1>3. Moved(c, "audit") \/ Moved(c, "window")
  BY <1>1, <1>2, FailsSo
<1> QED
  BY <1>1, <1>3, QuietStep DEF Browsing

\* The audited answer, which ends the call.
LEMMA AnswerSteps ==
  ASSUME TypeOK, NEW c \in Call, NEW ok \in BOOLEAN, Answer(c, ok) PROVE CallStep(c)
<1>1. /\ call[c].pc = "audit"
      /\ UNCHANGED <<now, listed, built, memo, fetches, captures, windows>>
  BY DEF Answer, Awaiting
<1>2. PICK f : f = Ended(c)
  OBVIOUS
<1>3. /\ DOMAIN f = {"pc", "overrides", "urlVars", "resolved", "unresolved", "raw", "at", "list",
                     "panels", "note", "files", "saved", "jobs"}
      /\ f["pc"] = "over" /\ f["list"] = 0
  BY <1>2 DEF Ended
<1>4. Becomes(c, f)
  BY <1>2 DEF Answer, Appends
<1>5. \A x \in Fields : call'[c][x] = IF x \in DOMAIN f THEN f[x] ELSE call[c][x]
  BY <1>4, GoesOn
<1>6. /\ \A x \in {"req", "conn", "version", "stranded"} : x \in Fields /\ x \notin DOMAIN f
      /\ \A x \in {"pc", "list"} : x \in Fields /\ x \in DOMAIN f
  BY <1>3 DEF Fields
<1>7. /\ \A x \in {"req", "conn", "version", "stranded"} : call'[c][x] = call[c][x]
      /\ call'[c].pc = "over" /\ call'[c].list = 0
  BY <1>3, <1>5, <1>6
<1>8. /\ call' = [d \in Call |-> call'[d]]
      /\ \A d \in Call : d # c => call'[d] = call[d]
      /\ Fields \subseteq DOMAIN call'[c]
  BY <1>4, GoesOn
<1> QED
  BY <1>1, <1>7, <1>8 DEF CallStep, Frame, Binds, SameConnection, Asks, Views, Browsing

\* Every answer of Grafana's that comes before the tool's own work.
LEMMA ArrivalSteps == ASSUME TypeOK, NEW c \in Call, Arrivals(c) PROVE CallStep(c)
BY BeginSteps, ShortUrlSteps, RuleSteps, FetchSteps, BoardSteps, AnswerSteps DEF Arrivals

--------------------------------------------------------------------------------
\* On to the next variable, whether or not this one could be resolved.
LEMMA NextOneSo ==
  ASSUME TypeOK, NEW c \in Call, NEW fields, fields \in {NextOne(c), Unresolved(c)},
         Becomes(c, fields)
  PROVE  Moved(c, "variables")
<1>1. PICK f : f = NextOne(c)
  OBVIOUS
<1>2. DOMAIN f = {"pc", "at"} /\ f["pc"] = "variables"
  BY <1>1 DEF NextOne
<1>3. PICK u : u = [unresolved |-> call[c].unresolved \cup {Variable(c).name}]
  OBVIOUS
<1>4. DOMAIN u = {"unresolved"}
  BY <1>3
<1>5. fields = f \/ fields = With(f, u)
  BY <1>1, <1>3 DEF Unresolved
<1>6. DOMAIN fields \subseteq {"pc", "at", "unresolved"} /\ "pc" \in DOMAIN fields /\ fields["pc"] = "variables"
  BY <1>2, <1>4, <1>5 DEF With
<1>7. (DOMAIN fields) \cap Fields \subseteq {"pc"}
  BY <1>6 DEF Fields
<1> QED
  BY <1>6, <1>7, Goes

\* The datasource of a variable is settled: it is asked, or the next is taken.
LEMMA LookedSo ==
  ASSUME TypeOK, NEW c \in Call, NEW type, Becomes(c, Looked(c, type))
  PROVE  Moved(c, "variable query") \/ Moved(c, "variables")
<1>1. CASE type = "influxdb"
  BY <1>1, PlaceSo DEF Looked
<1>2. CASE type # "influxdb"
  BY <1>2, NextOneSo DEF Looked
<1> QED
  BY <1>1, <1>2

\* The list is asked for, if it is, of the client of the call's connection.
LEMMA NextVariableSteps == ASSUME TypeOK, NEW c \in Call, NextVariable(c) PROVE CallStep(c)
<1>1. /\ call[c].pc = "variables"
      /\ UNCHANGED <<now, listed, built, captures, windows>>
  BY DEF NextVariable, Awaiting
<1>2. CASE ListDatasources(c) /\ Becomes(c, [pc |-> "variable list", list |-> Served(c)])
  <2>1. PICK f : f = [pc |-> "variable list", list |-> Served(c)]
    OBVIOUS
  <2>2. DOMAIN f = {"pc", "list"} /\ f["pc"] = "variable list" /\ f["list"] = Served(c)
    BY <2>1
  <2>3. /\ call' = [d \in Call |-> call'[d]]
        /\ \A d \in Call : d # c => call'[d] = call[d]
        /\ Fields \subseteq DOMAIN call'[c]
        /\ \A x \in Fields : call'[c][x] = IF x \in DOMAIN f THEN f[x] ELSE call[c][x]
    BY <1>2, <2>1, GoesOn
  <2>4. {"req", "conn", "version", "stranded", "pc", "list"} = Fields
    BY DEF Fields
  <2>5. /\ \A x \in {"req", "conn", "version", "stranded"} : call'[c][x] = call[c][x]
        /\ call'[c].pc = "variable list" /\ call'[c].list = Served(c)
    BY <2>2, <2>3, <2>4
  <2> QED
    BY <1>1, <1>2, <2>3, <2>5 DEF CallStep, Frame, Binds, SameConnection, Asks, Views, Browsing
<1>3. CASE /\ UNCHANGED <<memo, fetches>>
           /\ \/ \E fields \in {NextOne(c), Unresolved(c)} : Becomes(c, fields)
              \/ \E type : Becomes(c, Looked(c, type))
  <2>1. Moved(c, "variables") \/ Moved(c, "variable query")
    BY <1>3, NextOneSo, LookedSo
  <2> QED
    BY <1>1, <1>3, <2>1, QuietStep DEF Browsing
<1> QED
  <2>1. CASE ~FallsOpen(c)
    <3>1. UNCHANGED <<memo, fetches>> /\ Becomes(c, NextOne(c))
      BY <2>1 DEF NextVariable
    <3> QED
      BY <1>3, <3>1
  <2>2. CASE FallsOpen(c) /\ (~Computable(c) \/ VariableRef(c) = None)
    <3>1. UNCHANGED <<memo, fetches>> /\ Becomes(c, Unresolved(c))
      BY <2>2 DEF NextVariable
    <3> QED
      BY <1>3, <3>1
  <2>3. CASE FallsOpen(c) /\ Computable(c) /\ VariableRef(c) # None
    <3>1. CASE ~TypeKnown(c) /\ call[c].list = 0
      BY <1>2, <2>3, <3>1 DEF NextVariable
    <3>2. CASE ~(~TypeKnown(c) /\ call[c].list = 0)
      <4>1. /\ UNCHANGED <<memo, fetches>>
            /\ Becomes(c, Looked(c, IF TypeKnown(c) THEN Variable(c).datasource.type ELSE TypeListed(c)))
        BY <2>3, <3>2 DEF NextVariable
      <4> QED
        BY <1>3, <4>1
    <3> QED
      BY <3>1, <3>2
  <2> QED
    BY <2>1, <2>2, <2>3

\* The listing a variable's query needs.
LEMMA VariableListSteps == ASSUME TypeOK, NEW c \in Call, VariableListArrives(c) PROVE CallStep(c)
<1>1. /\ call[c].pc = "variable list"
      /\ UNCHANGED <<now, listed, built, memo, fetches, captures, windows>>
      /\ Becomes(c, Looked(c, TypeListed(c))) \/ Fails(c)
  BY DEF VariableListArrives, Awaiting
<1>2. Moved(c, "audit") \/ Moved(c, "variables") \/ Moved(c, "variable query")
  BY <1>1, LookedSo, FailsSo
<1> QED
  BY <1>1, <1>2, QuietStep DEF Browsing

\* The answer of a variable's query.
LEMMA VariableQuerySteps ==
  ASSUME TypeOK, NEW c \in Call, NEW ok \in BOOLEAN, NEW found \in Results, VariableQueryReturns(c, ok, found)
  PROVE  CallStep(c)
<1>1. /\ call[c].pc = "variable query"
      /\ UNCHANGED <<now, listed, built, memo, fetches, captures, windows>>
      /\ \/ \E r : Becomes(c, With(NextOne(c), [resolved |-> r]))
         \/ Becomes(c, Unresolved(c))
  BY DEF VariableQueryReturns, Awaiting, LeftOpen
<1>2. ASSUME NEW r, Becomes(c, With(NextOne(c), [resolved |-> r])) PROVE Moved(c, "variables")
  <2>1. PICK f : f = NextOne(c)
    OBVIOUS
  <2>2. DOMAIN f = {"pc", "at"} /\ f["pc"] = "variables"
    BY <2>1 DEF NextOne
  <2>3. PICK u : u = [resolved |-> r]
    OBVIOUS
  <2>4. PICK fields : fields = With(f, u)
    OBVIOUS
  <2>5. DOMAIN fields \subseteq {"pc", "at", "resolved"} /\ "pc" \in DOMAIN fields /\ fields["pc"] = "variables"
    BY <2>2, <2>3, <2>4 DEF With
  <2>6. (DOMAIN fields) \cap Fields \subseteq {"pc"}
    BY <2>5 DEF Fields
  <2> QED
    BY <1>2, <2>1, <2>3, <2>4, <2>5, <2>6, Goes
<1>3. Moved(c, "variables")
  BY <1>1, <1>2, NextOneSo
<1> QED
  BY <1>1, <1>3, QuietStep DEF Browsing

\* The panels are resolved: the list is asked for, if it is, of the call's client.
LEMMA ResolvingSo ==
  ASSUME TypeOK, NEW c \in Call, NEW panels, call[c].pc = "variables", Resolving(c, panels),
         UNCHANGED <<now, listed, built, captures, windows>>
  PROVE  CallStep(c)
<1>1. /\ ListDatasources(c) \/ UNCHANGED <<memo, fetches>>
      /\ \E jobs : Becomes(c, [pc |-> "panels", list |-> Served(c), jobs |-> jobs])
  BY DEF Resolving
<1>2. PICK jobs : Becomes(c, [pc |-> "panels", list |-> Served(c), jobs |-> jobs])
  BY <1>1
<1>3. PICK f : f = [pc |-> "panels", list |-> Served(c), jobs |-> jobs]
  OBVIOUS
<1>4. DOMAIN f = {"pc", "list", "jobs"} /\ f["pc"] = "panels" /\ f["list"] = Served(c)
  BY <1>3
<1>5. /\ call' = [d \in Call |-> call'[d]]
      /\ \A d \in Call : d # c => call'[d] = call[d]
      /\ Fields \subseteq DOMAIN call'[c]
      /\ \A x \in Fields : call'[c][x] = IF x \in DOMAIN f THEN f[x] ELSE call[c][x]
  BY <1>2, <1>3, GoesOn
<1>6. {"req", "conn", "version", "stranded", "pc", "list"} = Fields
  BY DEF Fields
<1>7. /\ \A x \in {"req", "conn", "version", "stranded"} : call'[c][x] = call[c][x]
      /\ call'[c].pc = "panels" /\ call'[c].list = Served(c)
  BY <1>4, <1>5, <1>6
<1> QED
  BY <1>1, <1>5, <1>7 DEF CallStep, Frame, Binds, SameConnection, Asks, Views, Browsing

\* A step that changes the jobs alone.
LEMMA JobsSo == ASSUME TypeOK, NEW c \in Call, NEW jobs, Becomes(c, [jobs |-> jobs]) PROVE Moved(c, call[c].pc)
<1>1. PICK f : f = [jobs |-> jobs]
  OBVIOUS
<1>2. DOMAIN f = {"jobs"}
  BY <1>1
<1>3. (DOMAIN f) \cap Fields = {} /\ "pc" \notin DOMAIN f
  BY <1>2 DEF Fields
<1> QED
  BY <1>1, <1>3, Goes

\* The listing the panels' queries need.
LEMMA PanelListSteps == ASSUME TypeOK, NEW c \in Call, ListArrives(c) PROVE CallStep(c)
<1>1. /\ call[c].pc = "panels"
      /\ UNCHANGED <<now, listed, built, memo, fetches, captures, windows>>
      /\ \E jobs : Becomes(c, [jobs |-> jobs])
  BY DEF ListArrives, Awaiting
<1> QED
  BY <1>1, JobsSo, QuietStep

\* The answer of one of a panel's queries.
LEMMA QuerySteps ==
  ASSUME TypeOK, NEW c \in Call, NEW i, NEW ok \in BOOLEAN, QueryReturns(c, i, ok) PROVE CallStep(c)
<1>1. /\ call[c].pc = "panels"
      /\ UNCHANGED <<now, listed, built, memo, fetches, captures, windows>>
      /\ \E jobs : Becomes(c, [jobs |-> jobs])
  BY DEF QueryReturns, Asked, Settles, Awaiting
<1> QED
  BY <1>1, JobsSo, QuietStep

\* Every step of a replay.
LEMMA ReplaySteps == ASSUME TypeOK, NEW c \in Call, Replays(c) PROVE CallStep(c)
BY NextVariableSteps, VariableListSteps, VariableQuerySteps, PanelListSteps, QuerySteps DEF Replays

\* Every step of a render that does not touch a page.
LEMMA RenderSteps == ASSUME TypeOK, NEW c \in Call, Renders(c) PROVE CallStep(c)
<1>1. ASSUME NEW ok \in BOOLEAN, RenderWindowArrives(c, ok) PROVE CallStep(c)
  <2>1. /\ call[c].pc = "window"
        /\ UNCHANGED <<now, listed, built, memo, fetches, captures, windows>>
        /\ Becomes(c, [pc |-> "variables", at |-> 1, resolved |-> call[c].overrides]) \/ Fails(c)
    BY <1>1 DEF RenderWindowArrives, Rendering, Awaiting
  <2>2. PICK f : f = [pc |-> "variables", at |-> 1, resolved |-> call[c].overrides]
    OBVIOUS
  <2>3. DOMAIN f = {"pc", "at", "resolved"} /\ f.pc = "variables"
    BY <2>2
  <2>4. (DOMAIN f) \cap Fields \subseteq {"pc"} /\ "pc" \in DOMAIN f
    BY <2>3 DEF Fields
  <2>5. Moved(c, "variables") \/ Moved(c, "audit")
    BY <2>1, <2>2, <2>3, <2>4, Goes, FailsSo
  <2> QED
    BY <2>1, <2>5, QuietStep DEF Browsing
<1>2. ASSUME FanOut(c) PROVE CallStep(c)
  BY <1>2, ResolvingSo DEF FanOut, Rendering, Awaiting
<1>3. ASSUME RenderAnswer(c) PROVE CallStep(c)
  <2>1. /\ call[c].pc = "panels"
        /\ UNCHANGED <<now, listed, built, memo, fetches, captures, windows>>
        /\ Becomes(c, [pc |-> "audit", panels |-> Reported(c)])
    BY <1>3 DEF RenderAnswer, Rendering, Awaiting
  <2>2. PICK f : f = [pc |-> "audit", panels |-> Reported(c)]
    OBVIOUS
  <2>3. DOMAIN f = {"pc", "panels"} /\ f.pc = "audit"
    BY <2>2
  <2>4. (DOMAIN f) \cap Fields \subseteq {"pc"} /\ "pc" \in DOMAIN f
    BY <2>3 DEF Fields
  <2>5. Moved(c, "audit")
    BY <2>1, <2>2, <2>3, <2>4, Goes
  <2> QED
    BY <2>1, <2>5, QuietStep DEF Browsing
<1> QED
  BY <1>1, <1>2, <1>3 DEF Renders

--------------------------------------------------------------------------------
\* The pages.

\* A step of a page that goes on.
LEMMA StaysStep ==
  ASSUME NEW c \in Call, NEW place, Moved(c, place), Stays, UNCHANGED Shared,
         call[c].pc \in Browsing, place \in Browsing
  PROVE  CallStep(c)
<1>1. UNCHANGED <<now, listed, built, memo, fetches, captures, windows>>
  BY DEF Stays, Shared
<1>2. call[c].pc \notin {"called", "audit", "over"} /\ place \notin {"called", "short"}
  BY DEF Browsing
<1> QED
  BY <1>1, <1>2, QuietStep

\* A step in which a page is over: its window is closed.
LEMMA LeavesStep ==
  ASSUME NEW c \in Call, NEW place, Moved(c, place), NEW ok, Leaves(c, ok), UNCHANGED Shared,
         call[c].pc \in Browsing, place \in {"audit", "variables", "saving"}
  PROVE  CallStep(c)
<1>1. /\ UNCHANGED <<now, listed, built, memo, fetches>>
      /\ captures' = captures \ {c} /\ windows' = windows \ {c}
  BY DEF Leaves, Shared
<1>2. call[c].pc \notin {"called", "audit", "over"} /\ place \notin Browsing
  BY DEF Browsing
<1> QED
  BY <1>1, <1>2 DEF CallStep, Frame, Binds, SameConnection, Asks, Views, Moved

\* A page is given up: its window is closed, and the call fails or goes on
\* without a picture.
LEMMA GivesStep ==
  ASSUME TypeOK, NEW c \in Call, Gives(c), UNCHANGED Shared, call[c].pc \in Browsing
  PROVE  CallStep(c)
<1>1. Leaves(c, FALSE) /\ (Fails(c) \/ Direct(c, [note |-> TRUE]))
  BY DEF Gives
<1>2. PICK f : f = [note |-> TRUE]
  OBVIOUS
<1>3. DOMAIN f = {"note"}
  BY <1>2
<1>4. (DOMAIN f) \cap Fields = {}
  BY <1>3 DEF Fields
<1>5. Moved(c, "audit") \/ Moved(c, "variables")
  BY <1>1, <1>2, <1>4, FailsSo, DirectSo
<1> QED
  BY <1>1, <1>5, LeavesStep

\* A page is opened, behind the gate.
LEMMA CaptureSteps == ASSUME TypeOK, NEW c \in Call, Capture(c) PROVE CallStep(c)
<1>1. /\ call[c].pc = "gate" /\ call[c].req.tool = "png" /\ Cardinality(captures) < MaxConcurrency
      /\ captures' = captures \cup {c} /\ windows' = windows \cup {c}
      /\ UNCHANGED <<now, listed, built, memo, fetches>>
  BY DEF Capture, Using, Awaiting, Shared
<1>2. Moved(c, "loading")
  BY PlaceSo DEF Capture
<1> QED
  BY <1>1, <1>2 DEF CallStep, Frame, Binds, SameConnection, Asks, Views, Moved, Browsing

\* A window whose directory could not be made is left open.
LEMMA DirectorySteps ==
  ASSUME TypeOK, NEW c \in Call, NEW ok \in BOOLEAN, DirectoryMade(c, ok) PROVE CallStep(c)
<1>1. /\ call[c].pc = "directory" /\ Stays /\ UNCHANGED Shared
      /\ IF ok THEN Becomes(c, [pc |-> "loading"]) ELSE Direct(c, [note |-> TRUE, stranded |-> TRUE])
  BY DEF DirectoryMade, Using, Awaiting
<1>2. CASE ok
  BY <1>1, <1>2, PlaceSo, StaysStep DEF Browsing
<1>3. CASE ~ok
  <2>1. PICK fields : fields = [note |-> TRUE, stranded |-> TRUE]
    OBVIOUS
  <2>2. DOMAIN fields = {"note", "stranded"} /\ fields["stranded"] = TRUE
    BY <2>1
  <2>3. PICK f : f = IF Mirror(Panel(c)) THEN [pc |-> "audit", ok |-> FALSE]
                     ELSE [pc |-> "variables", at |-> 1, resolved |-> call[c].overrides]
    OBVIOUS
  <2>4. /\ DOMAIN f = {"pc", "ok"} \/ DOMAIN f = {"pc", "at", "resolved"}
        /\ f["pc"] \in {"audit", "variables"}
    BY <2>3
  <2>5. PICK g : g = With(fields, f)
    OBVIOUS
  <2>6. Becomes(c, g)
    BY <1>1, <1>3, <2>1, <2>3, <2>5 DEF Direct
  <2>7. DOMAIN g = (DOMAIN fields) \cup DOMAIN f /\ g["pc"] = f["pc"] /\ g["stranded"] = TRUE
    BY <2>2, <2>4, <2>5 DEF With
  <2>8. \A x \in Fields : call'[c][x] = IF x \in DOMAIN g THEN g[x] ELSE call[c][x]
    BY <2>6, GoesOn
  <2>9. /\ \A x \in {"req", "conn", "version", "list"} : x \in Fields /\ x \notin DOMAIN g
        /\ \A x \in {"pc", "stranded"} : x \in Fields /\ x \in DOMAIN g
    BY <2>2, <2>4, <2>7 DEF Fields
  <2>10. /\ \A x \in {"req", "conn", "version", "list"} : call'[c][x] = call[c][x]
         /\ call'[c].pc \in {"audit", "variables"} /\ call'[c].stranded = TRUE
    BY <2>4, <2>7, <2>8, <2>9
  <2>11. UNCHANGED <<now, listed, built, memo, fetches, captures, windows>>
    BY <1>1 DEF Stays, Shared
  <2>12. /\ call' = [d \in Call |-> call'[d]]
         /\ \A d \in Call : d # c => call'[d] = call[d]
         /\ Fields \subseteq DOMAIN call'[c]
    BY <2>6, GoesOn
  <2> QED
    BY <1>1, <2>10, <2>11, <2>12 DEF CallStep, Frame, Binds, SameConnection, Asks, Views, Browsing
<1> QED
  BY <1>2, <1>3

\* A page has what it came for.
LEMMA SavingSo ==
  ASSUME TypeOK, NEW c \in Call, NEW n, Becomes(c, [pc |-> "saving", files |-> n])
  PROVE  Moved(c, "saving")
<1>1. PICK f : f = [pc |-> "saving", files |-> n]
  OBVIOUS
<1>2. DOMAIN f = {"pc", "files"} /\ f.pc = "saving"
  BY <1>1
<1>3. (DOMAIN f) \cap Fields \subseteq {"pc"} /\ "pc" \in DOMAIN f
  BY <1>2 DEF Fields
<1> QED
  BY <1>1, <1>2, <1>3, Goes

\* Every step of a page.
LEMMA PageSteps == ASSUME TypeOK, NEW c \in Call, Pages(c) PROVE CallStep(c)
<1>1. ASSUME NEW ok \in BOOLEAN, PageLoads(c, ok) PROVE CallStep(c)
  <2>1. /\ call[c].pc = "loading" /\ UNCHANGED Shared
        /\ (Becomes(c, [pc |-> "quieting"]) /\ Stays) \/ Gives(c)
    BY <1>1 DEF PageLoads, Awaiting
  <2> QED
    BY <2>1, PlaceSo, StaysStep, GivesStep DEF Browsing
<1>2. ASSUME NEW ok \in BOOLEAN, PageQuiets(c, ok) PROVE CallStep(c)
  <2>1. /\ call[c].pc = "quieting" /\ UNCHANGED Shared
        /\ ((Becomes(c, [pc |-> "capturing"]) \/ Becomes(c, [pc |-> "expanding"])) /\ Stays) \/ Gives(c)
    BY <1>2 DEF PageQuiets, Awaiting
  <2> QED
    BY <2>1, PlaceSo, StaysStep, GivesStep DEF Browsing
<1>3. ASSUME NEW ok \in BOOLEAN, PageCaptured(c, ok) PROVE CallStep(c)
  <2>1. /\ call[c].pc = "capturing" /\ UNCHANGED Shared
        /\ (Becomes(c, [pc |-> "saving", files |-> 1]) /\ Leaves(c, TRUE)) \/ Gives(c)
    BY <1>3 DEF PageCaptured, Awaiting
  <2> QED
    BY <2>1, SavingSo, LeavesStep, GivesStep DEF Browsing
<1>4. ASSUME NEW ok \in BOOLEAN, DataOptionsExpand(c, ok) PROVE CallStep(c)
  <2>1. /\ call[c].pc = "expanding" /\ UNCHANGED Shared
        /\ (Becomes(c, [pc |-> "toggling"]) /\ Stays) \/ Gives(c)
    BY <1>4 DEF DataOptionsExpand, Awaiting
  <2> QED
    BY <2>1, PlaceSo, StaysStep, GivesStep DEF Browsing
<1>5. ASSUME NEW found, TransformToggled(c, found) PROVE CallStep(c)
  <2>1. /\ call[c].pc = "toggling" /\ UNCHANGED Shared
        /\ (Becomes(c, [pc |-> "downloading"]) /\ Stays) \/ (Direct(c, <<>>) /\ Leaves(c, TRUE)) \/ Gives(c)
    BY <1>5 DEF TransformToggled, Awaiting
  <2>2. PICK f : f = <<>>
    OBVIOUS
  <2>3. (DOMAIN f) \cap Fields = {}
    BY <2>2
  <2>4. Direct(c, <<>>) => Moved(c, "audit") \/ Moved(c, "variables")
    BY <2>2, <2>3, DirectSo
  <2> QED
    BY <2>1, <2>4, PlaceSo, StaysStep, LeavesStep, GivesStep DEF Browsing
<1>6. ASSUME NEW ok \in BOOLEAN, Downloaded(c, ok) PROVE CallStep(c)
  <2>1. /\ call[c].pc = "downloading" /\ UNCHANGED Shared
        /\ (Becomes(c, [pc |-> "saving", files |-> 1]) /\ Leaves(c, TRUE)) \/ Gives(c)
    BY <1>6 DEF Downloaded, Awaiting
  <2> QED
    BY <2>1, SavingSo, LeavesStep, GivesStep DEF Browsing
<1> QED
  BY <1>1, <1>2, <1>3, <1>4, <1>5, <1>6, CaptureSteps, DirectorySteps DEF Pages

\* A render or an export has its time window, and reads its connection again.
LEMMA PanelWindowSteps ==
  ASSUME TypeOK, NEW c \in Call, NEW ok \in BOOLEAN, PanelWindowArrives(c, ok) PROVE CallStep(c)
<1>1. call[c].pc = "window" /\ UNCHANGED <<now, listed, built, memo, fetches, captures>>
  BY DEF PanelWindowArrives, Awaiting, Shared
<1>2. PICK raw : raw = listed[call[c].conn]
  OBVIOUS
<1>3. \/ Fails(c) /\ UNCHANGED windows
      \/ Becomes(c, [pc |-> "gate", raw |-> raw]) /\ UNCHANGED windows
      \/ call[c].req.tool = "csv" /\ Becomes(c, [pc |-> "directory", raw |-> raw]) /\ windows' = windows \cup {c}
      \/ Direct(c, [raw |-> raw]) /\ UNCHANGED windows
  BY <1>2 DEF PanelWindowArrives
<1>4. ASSUME NEW place, Becomes(c, [pc |-> place, raw |-> raw]) PROVE Moved(c, place)
  <2>1. PICK f : f = [pc |-> place, raw |-> raw]
    OBVIOUS
  <2>2. DOMAIN f = {"pc", "raw"} /\ f.pc = place
    BY <2>1
  <2>3. (DOMAIN f) \cap Fields \subseteq {"pc"} /\ "pc" \in DOMAIN f
    BY <2>2 DEF Fields
  <2> QED
    BY <1>4, <2>1, <2>2, <2>3, Goes
<1>5. Direct(c, [raw |-> raw]) => Moved(c, "audit") \/ Moved(c, "variables")
  <2>1. PICK f : f = [raw |-> raw]
    OBVIOUS
  <2>2. DOMAIN f = {"raw"}
    BY <2>1
  <2>3. (DOMAIN f) \cap Fields = {}
    BY <2>2 DEF Fields
  <2> QED
    BY <2>1, <2>3, DirectSo
<1>6. CASE UNCHANGED windows /\ \E place \in {"audit", "gate", "variables"} : Moved(c, place)
  BY <1>1, <1>6, QuietStep DEF Browsing
<1>7. CASE call[c].req.tool = "csv" /\ Moved(c, "directory") /\ windows' = windows \cup {c}
  BY <1>1, <1>7 DEF CallStep, Frame, Binds, SameConnection, Asks, Views, Moved, Browsing
<1> QED
  BY <1>3, <1>4, <1>5, <1>6, <1>7, FailsSo

\* Every step of an export.
LEMMA ExportSteps == ASSUME TypeOK, NEW c \in Call, Exports(c) PROVE CallStep(c)
<1>1. ASSUME ExportAsks(c) PROVE CallStep(c)
  BY <1>1, ResolvingSo DEF ExportAsks, Using, Awaiting
<1>2. ASSUME NEW n \in 0..MaxFrames, ExportAnswered(c, n) PROVE CallStep(c)
  <2>1. /\ call[c].pc = "panels" /\ UNCHANGED <<now, listed, built, memo, fetches, captures, windows>>
        /\ Becomes(c, [pc |-> "saving", files |-> n]) \/ Fails(c)
    BY <1>2 DEF ExportAnswered, Using, Awaiting, Shared
  <2>2. Moved(c, "saving") \/ Moved(c, "audit")
    BY <2>1, SavingSo, FailsSo
  <2> QED
    BY <2>1, <2>2, QuietStep DEF Browsing
<1>3. ASSUME NEW ok \in BOOLEAN, Save(c, ok) PROVE CallStep(c)
  <2>1. /\ call[c].pc = "saving" /\ UNCHANGED <<now, listed, built, memo, fetches, captures, windows>>
        /\ Becomes(c, [saved |-> call[c].saved + 1]) \/ Fails(c)
    BY <1>3 DEF Save, Awaiting, Shared
  <2>2. PICK f : f = [saved |-> call[c].saved + 1]
    OBVIOUS
  <2>3. DOMAIN f = {"saved"}
    BY <2>2
  <2>4. (DOMAIN f) \cap Fields = {} /\ "pc" \notin DOMAIN f
    BY <2>3 DEF Fields
  <2>5. Moved(c, "saving") \/ Moved(c, "audit")
    BY <2>1, <2>2, <2>4, Goes, FailsSo
  <2> QED
    BY <2>1, <2>5, QuietStep DEF Browsing
<1>4. ASSUME PanelAnswer(c) PROVE CallStep(c)
  <2>1. /\ call[c].pc = "saving" /\ UNCHANGED <<now, listed, built, memo, fetches, captures, windows>>
        /\ Becomes(c, [pc |-> "audit"])
    BY <1>4 DEF PanelAnswer, Awaiting
  <2> QED
    BY <2>1, PlaceSo, QuietStep DEF Browsing
<1> QED
  BY <1>1, <1>2, <1>3, <1>4, PanelWindowSteps DEF Exports

\* Every step of a call is one of those.
LEMMA EveryCallStep == ASSUME TypeOK, NEW c \in Call, Steps(c) PROVE CallStep(c)
BY ArrivalSteps, ReplaySteps, RenderSteps, PageSteps, ExportSteps DEF Steps

--------------------------------------------------------------------------------
\* The memo.

\* Before any call the memo is empty, no window is open and nothing is served.
LEMMA InitInv == Init => IInv
<1> SUFFICES ASSUME Init PROVE IInv
  OBVIOUS
<1>1. PICK plan \in Plans : call = [c \in Call |-> Fresh(plan[c])]
  BY DEF Init
<1>2. ASSUME NEW c \in Call
      PROVE  /\ Fields \subseteq DOMAIN call[c] /\ call[c].pc = "called" /\ call[c].req = plan[c]
             /\ call[c].stranded = FALSE
  <2>1. PICK f : f = Fresh(plan[c])
    OBVIOUS
  <2>2. /\ "req" \in DOMAIN f /\ "pc" \in DOMAIN f /\ "conn" \in DOMAIN f /\ "version" \in DOMAIN f
        /\ "list" \in DOMAIN f /\ "stranded" \in DOMAIN f
        /\ f.req = plan[c] /\ f.pc = "called" /\ f.stranded = FALSE
    BY <2>1 DEF Fresh
  <2>3. call[c] = f
    BY <1>1, <2>1
  <2> QED
    BY <2>2, <2>3 DEF Fields
<1>3. TypeOK
  <2>1. \A c \in Call : plan[c].url \in DOMAIN Url \cup {None}
    BY LinksAssumption
  <2>2. call = [c \in Call |-> call[c]]
    BY <1>1
  <2>3. /\ now \in Nat /\ fetches \in Seq(Fetched) /\ windows \subseteq Call
        /\ listed \in [Conn -> 0..LastVersion] /\ DOMAIN built = Conn
        /\ memo \in [Conn -> [1..LastVersion -> Nat]]
    BY BoundsAssumption DEF Init
  <2>4. \A c \in Call : /\ Fields \subseteq DOMAIN call[c] /\ call[c].req.url \in DOMAIN Url \cup {None}
                        /\ call[c].pc = "called"
    BY <1>2, <2>1
  <2> QED
    BY <2>2, <2>3, <2>4 DEF TypeOK
<1>4. Remembers
  BY DEF Init, Remembers, AskedBy
<1>5. WindowsAreClosed /\ IsFiniteSet(captures)
  <2>1. captures = {} /\ windows = {}
    BY DEF Init
  <2>2. Cardinality({}) = 0 /\ IsFiniteSet({})
    BY FS_EmptySet
  <2>3. \A c \in Call : call[c].pc \notin Browsing
    BY <1>2 DEF Browsing
  <2> QED
    BY <2>1, <2>2, <2>3, BoundsAssumption DEF WindowsAreClosed
<1> QED
  BY <1>3, <1>4, <1>5 DEF IInv

\* A request for the list is its client's newest, and its memo.
LEMMA AskingRemembers ==
  ASSUME TypeOK, Remembers, NEW k \in Conn, NEW v \in 1..LastVersion,
         fetches' = Append(fetches, [conn |-> k, version |-> v, at |-> now, is |-> "pending"]),
         memo' = [memo EXCEPT ![k][v] = Len(fetches) + 1]
  PROVE  /\ fetches' \in Seq(Fetched) /\ memo' \in [Conn -> [1..LastVersion -> Nat]]
         /\ Remembers'
<1> DEFINE n == Len(fetches)
<1>1. fetches \in Seq(Fetched) /\ n \in Nat /\ DOMAIN fetches = 1..n /\ now \in Nat
  BY DEF TypeOK
<1>2. PICK r : r = [conn |-> k, version |-> v, at |-> now, is |-> "pending"]
  OBVIOUS
<1>3. r \in Fetched /\ r.conn = k /\ r.version = v /\ r.is = "pending"
  BY <1>1, <1>2 DEF Fetched
<1>4. /\ fetches' \in Seq(Fetched) /\ Len(fetches') = n + 1 /\ DOMAIN fetches' = 1..(n + 1)
      /\ \A f \in 1..n : fetches'[f] = fetches[f]
      /\ fetches'[n + 1] = r
  BY <1>1, <1>2, <1>3
<1>5. memo' \in [Conn -> [1..LastVersion -> Nat]]
  BY <1>1 DEF TypeOK
<1>6. ASSUME NEW k2 \in Conn, NEW v2 \in 1..LastVersion
      PROVE  \/ AskedBy(k2, v2)' = {} /\ memo'[k2][v2] = 0
             \/ \E m \in AskedBy(k2, v2)' : Newest(k2, v2, m)'
  <2>1. CASE k2 = k /\ v2 = v
    <3>1. memo'[k][v] = n + 1
      BY <1>1 DEF TypeOK
    <3>2. n + 1 \in AskedBy(k2, v2)' /\ \A f \in AskedBy(k2, v2)' : f <= n + 1
      BY <1>1, <1>3, <1>4, <2>1 DEF AskedBy
    <3>3. fetches'[n + 1].is # "failed"
      BY <1>3, <1>4
    <3>4. PICK m : m = n + 1
      OBVIOUS
    <3> QED
      BY <2>1, <3>1, <3>2, <3>3, <3>4 DEF Newest
  <2>2. CASE ~(k2 = k /\ v2 = v)
    <3>1. memo'[k2][v2] = memo[k2][v2]
      BY <2>2 DEF TypeOK
    <3>2. AskedBy(k2, v2)' = AskedBy(k2, v2)
      <4>1. ASSUME NEW f \in AskedBy(k2, v2)' PROVE f \in AskedBy(k2, v2)
        BY <1>1, <1>3, <1>4, <2>2 DEF AskedBy
      <4>2. ASSUME NEW f \in AskedBy(k2, v2) PROVE f \in AskedBy(k2, v2)'
        BY <1>1, <1>4 DEF AskedBy
      <4> QED
        BY <4>1, <4>2
    <3>3. CASE AskedBy(k2, v2) = {} /\ memo[k2][v2] = 0
      BY <3>1, <3>2, <3>3
    <3>4. CASE \E m \in AskedBy(k2, v2) : Newest(k2, v2, m)
      <4>1. PICK m \in AskedBy(k2, v2) : Newest(k2, v2, m)
        BY <3>4
      <4>2. m \in 1..n
        BY <1>1 DEF AskedBy
      <4>3. Newest(k2, v2, m)'
        BY <1>4, <3>1, <3>2, <4>1, <4>2 DEF Newest
      <4> QED
        BY <3>2, <4>3
    <3> QED
      BY <3>3, <3>4 DEF Remembers
  <2> QED
    BY <2>1, <2>2
<1> QED
  BY <1>4, <1>5, <1>6 DEF Remembers

\* A list that arrives, or does not, is still what it was; only its own failure
\* takes it out of the memo.
LEMMA SettlingRemembers ==
  ASSUME TypeOK, Remembers, NEW f \in DOMAIN fetches, NEW ok \in BOOLEAN, ListSettles(f, ok)
  PROVE  /\ fetches' \in Seq(Fetched) /\ memo' \in [Conn -> [1..LastVersion -> Nat]]
         /\ Remembers'
<1>1. /\ fetches \in Seq(Fetched) /\ DOMAIN fetches = 1..Len(fetches) /\ Len(fetches) \in Nat
      /\ fetches[f] \in Fetched
  BY DEF TypeOK
<1>2. PICK k \in Conn, v \in 1..LastVersion : fetches[f].conn = k /\ fetches[f].version = v
  BY <1>1 DEF Fetched
<1>3. /\ fetches[f].is = "pending"
      /\ fetches' = [fetches EXCEPT ![f].is = IF ok THEN "ok" ELSE "failed"]
      /\ memo' = IF ~ok /\ memo[k][v] = f THEN [memo EXCEPT ![k][v] = 0] ELSE memo
  BY <1>2 DEF ListSettles, Drops
<1>4. /\ DOMAIN fetches' = DOMAIN fetches /\ Len(fetches') = Len(fetches) /\ fetches' \in Seq(Fetched)
      /\ \A g \in DOMAIN fetches : g # f => fetches'[g] = fetches[g]
      /\ fetches'[f].conn = k /\ fetches'[f].version = v
      /\ fetches'[f].is = IF ok THEN "ok" ELSE "failed"
  <2>1. PICK r : r = [fetches[f] EXCEPT !.is = IF ok THEN "ok" ELSE "failed"]
    OBVIOUS
  <2>2. r \in Fetched /\ r.conn = k /\ r.version = v /\ r.is = IF ok THEN "ok" ELSE "failed"
    BY <1>1, <1>2, <2>1 DEF Fetched
  <2>3. fetches' = [fetches EXCEPT ![f] = r]
    BY <1>3, <2>1
  <2>4. fetches' \in Seq(Fetched) /\ Len(fetches') = Len(fetches) /\ DOMAIN fetches' = DOMAIN fetches
    BY <1>1, <2>2, <2>3
  <2> QED
    BY <1>1, <2>2, <2>3, <2>4
<1>5. memo' \in [Conn -> [1..LastVersion -> Nat]]
  BY <1>3 DEF TypeOK
<1>6. ASSUME NEW k2 \in Conn, NEW v2 \in 1..LastVersion
      PROVE  \/ AskedBy(k2, v2)' = {} /\ memo'[k2][v2] = 0
             \/ \E m \in AskedBy(k2, v2)' : Newest(k2, v2, m)'
  <2>1. AskedBy(k2, v2)' = AskedBy(k2, v2)
    <3>1. \A g \in DOMAIN fetches : fetches'[g].conn = fetches[g].conn /\ fetches'[g].version = fetches[g].version
      BY <1>2, <1>4
    <3> QED
      BY <1>4, <3>1 DEF AskedBy
  <2>2. memo'[k2][v2] = IF ~ok /\ memo[k][v] = f /\ k2 = k /\ v2 = v THEN 0 ELSE memo[k2][v2]
    BY <1>3 DEF TypeOK
  <2>3. CASE AskedBy(k2, v2) = {} /\ memo[k2][v2] = 0
    BY <2>1, <2>2, <2>3
  <2>4. ASSUME NEW m \in AskedBy(k2, v2), Newest(k2, v2, m) PROVE Newest(k2, v2, m)'
    <3>1. m \in DOMAIN fetches /\ m # 0
      BY <1>1 DEF AskedBy
    <3>2. CASE m = f
      <4>1. k2 = k /\ v2 = v /\ memo[k][v] = f
        BY <1>2, <1>3, <2>4, <3>2 DEF AskedBy, Newest
      <4>2. memo'[k2][v2] = IF fetches'[m].is = "failed" THEN 0 ELSE m
        BY <1>4, <2>2, <3>2, <4>1
      <4> QED
        BY <2>1, <2>4, <4>2 DEF Newest
    <3>3. CASE m # f
      <4>1. fetches'[m] = fetches[m]
        BY <1>4, <3>1, <3>3
      <4>2. f # 0
        BY <1>1
      <4>3. memo[k2][v2] # f
        BY <2>4, <3>3, <4>2 DEF Newest
      <4> QED
        BY <2>1, <2>2, <2>4, <4>1, <4>3 DEF Newest
    <3> QED
      BY <3>2, <3>3
  <2> QED
    BY <2>1, <2>3, <2>4 DEF Remembers
<1> QED
  BY <1>4, <1>5, <1>6 DEF Remembers

\* A step of a call keeps the types, and the memo what it remembers.
LEMMA CallRemembers ==
  ASSUME TypeOK, Remembers, NEW c \in Call, CallStep(c)
  PROVE  TypeOK' /\ Remembers'
<1>1. /\ UNCHANGED <<memo, fetches>>
      \/ /\ fetches' \in Seq(Fetched) /\ memo' \in [Conn -> [1..LastVersion -> Nat]]
         /\ Remembers'
  <2>1. CASE UNCHANGED <<memo, fetches>>
    BY <2>1
  <2>2. CASE call[c].pc = "variables" /\ ListDatasources(c) /\ ~UNCHANGED <<memo, fetches>>
    <3>1. call[c].conn \in Conn /\ call[c].version \in 1..LastVersion
      BY <2>2 DEF TypeOK
    <3>2. /\ fetches' = Append(fetches, [conn |-> call[c].conn, version |-> call[c].version,
                                         at |-> now, is |-> "pending"])
          /\ memo' = [memo EXCEPT ![call[c].conn][call[c].version] = Len(fetches) + 1]
      BY <2>2 DEF ListDatasources
    <3> QED
      BY <3>1, <3>2, AskingRemembers
  <2> QED
    BY <2>1, <2>2 DEF CallStep, Asks
<1>2. Remembers'
  <2>1. CASE UNCHANGED <<memo, fetches>>
    BY <2>1 DEF Remembers, AskedBy, Newest
  <2> QED
    BY <1>1, <2>1
<1>3. Frame(c) /\ Binds(c)
  BY DEF CallStep
<1>4. ASSUME NEW d \in Call
      PROVE  /\ Fields \subseteq DOMAIN call'[d]
             /\ call'[d].req.url \in DOMAIN Url \cup {None}
             /\ call'[d].pc = "short" => call'[d].req.url # None
             /\ call'[d].pc \notin {"called", "audit", "over"} =>
                  call'[d].conn \in Conn /\ call'[d].version \in 1..LastVersion
  <2>1. CASE d # c
    BY <1>3, <2>1 DEF TypeOK, Frame
  <2>2. CASE d = c
    <3>1. /\ Fields \subseteq DOMAIN call'[c] /\ call'[c].req = call[c].req
          /\ call'[c].pc = "short" => call[c].req.url # None
      BY <1>3 DEF Frame, Binds
    <3>2. ASSUME call'[c].pc \notin {"called", "audit", "over"}
          PROVE  call'[c].conn \in Conn /\ call'[c].version \in 1..LastVersion
      <4>1. CASE SameConnection(c) /\ call[c].pc \notin {"called", "audit", "over"}
        BY <4>1 DEF TypeOK, SameConnection
      <4>2. CASE /\ call'[c].conn \in Conn /\ listed[call'[c].conn] # 0
                 /\ call'[c].version = listed[call'[c].conn]
        BY <4>2, BoundsAssumption DEF TypeOK
      <4> QED
        BY <1>3, <3>2, <4>1, <4>2 DEF Binds
    <3> QED
      BY <2>2, <3>1, <3>2 DEF TypeOK
  <2> QED
    BY <2>1, <2>2
<1>5. TypeOK'
  <2>1. /\ now' \in Nat /\ listed' \in [Conn -> 0..LastVersion] /\ DOMAIN built' = Conn
        /\ call' = [d \in Call |-> call'[d]]
    BY <1>3 DEF TypeOK, Frame
  <2>3. windows' \subseteq Call
    BY DEF TypeOK, CallStep, Views
  <2>2. memo' \in [Conn -> [1..LastVersion -> Nat]] /\ fetches' \in Seq(Fetched)
    BY <1>1 DEF TypeOK
  <2> QED
    BY <1>4, <2>1, <2>2, <2>3 DEF TypeOK
<1> QED
  BY <1>2, <1>5

\* It opens and closes its own window only.
LEMMA CallCloses ==
  ASSUME TypeOK, WindowsAreClosed, IsFiniteSet(captures), NEW c \in Call, CallStep(c)
  PROVE  WindowsAreClosed' /\ IsFiniteSet(captures)'
<1>1. /\ \A d \in Call : d # c => call'[d] = call[d]
      /\ call'[c].req = call[c].req
  BY DEF CallStep, Frame
<1>2. Views(c)
  BY DEF CallStep
<1>3. /\ \A d \in windows : call[d].pc \in Browsing \/ call[d].stranded
      /\ \A d \in Call : call[d].pc \in Browsing => d \in windows
      /\ {d \in windows : call[d].req.tool = "png"} = captures
      /\ Cardinality(captures) <= MaxConcurrency
  BY DEF WindowsAreClosed
<1>4. windows \subseteq Call
  BY DEF TypeOK
<1>5. CASE /\ UNCHANGED <<captures, windows>> /\ call'[c].stranded = call[c].stranded
           /\ call[c].pc \in Browsing <=> call'[c].pc \in Browsing
  <2>1. \A d \in windows' : call'[d].pc \in Browsing \/ call'[d].stranded
    BY <1>1, <1>3, <1>4, <1>5
  <2>2. \A d \in Call : call'[d].pc \in Browsing => d \in windows'
    BY <1>1, <1>3, <1>5
  <2>3. {d \in windows' : call'[d].req.tool = "png"} = captures'
    BY <1>1, <1>3, <1>4, <1>5
  <2> QED
    BY <1>3, <1>5, <2>1, <2>2, <2>3 DEF WindowsAreClosed, Browsing
<1>6. CASE /\ call[c].req.tool = "png" /\ Cardinality(captures) < MaxConcurrency
           /\ captures' = captures \cup {c} /\ windows' = windows \cup {c}
           /\ call'[c].pc \in Browsing
  <2>1. \A d \in windows' : call'[d].pc \in Browsing \/ call'[d].stranded
    BY <1>1, <1>3, <1>4, <1>6
  <2>2. \A d \in Call : call'[d].pc \in Browsing => d \in windows'
    BY <1>1, <1>3, <1>6
  <2>3. {d \in windows' : call'[d].req.tool = "png"} = captures'
    BY <1>1, <1>3, <1>4, <1>6
  <2>4. IsFiniteSet(captures') /\ Cardinality(captures') \in {Cardinality(captures), Cardinality(captures) + 1}
    BY <1>6, FS_AddElement
  <2>5. Cardinality(captures') <= MaxConcurrency
    BY <1>6, <2>4, FS_CardinalityType, BoundsAssumption
  <2> QED
    BY <2>1, <2>2, <2>3, <2>4, <2>5 DEF WindowsAreClosed, Browsing
<1>7. CASE /\ call[c].req.tool = "csv" /\ windows' = windows \cup {c} /\ UNCHANGED captures
           /\ call'[c].pc \in Browsing
  <2>1. \A d \in windows' : call'[d].pc \in Browsing \/ call'[d].stranded
    BY <1>1, <1>3, <1>4, <1>7
  <2>2. \A d \in Call : call'[d].pc \in Browsing => d \in windows'
    BY <1>1, <1>3, <1>7
  <2>3. {d \in windows' : call'[d].req.tool = "png"} = captures'
    BY <1>1, <1>3, <1>4, <1>7
  <2> QED
    BY <1>3, <1>7, <2>1, <2>2, <2>3 DEF WindowsAreClosed, Browsing
<1>8. CASE /\ captures' = captures \ {c} /\ windows' = windows \ {c}
           /\ call'[c].pc \notin Browsing
  <2>1. \A d \in windows' : call'[d].pc \in Browsing \/ call'[d].stranded
    BY <1>1, <1>3, <1>4, <1>8
  <2>2. \A d \in Call : call'[d].pc \in Browsing => d \in windows'
    BY <1>1, <1>3, <1>8
  <2>3. {d \in windows' : call'[d].req.tool = "png"} = captures'
    BY <1>1, <1>3, <1>4, <1>8
  <2>4. IsFiniteSet(captures') /\ Cardinality(captures') <= Cardinality(captures)
    BY <1>8, FS_Subset
  <2>5. Cardinality(captures') <= MaxConcurrency
    BY <1>3, <2>4, FS_CardinalityType, BoundsAssumption
  <2> QED
    BY <2>1, <2>2, <2>3, <2>4, <2>5 DEF WindowsAreClosed, Browsing
<1>9. CASE /\ UNCHANGED <<captures, windows>> /\ call'[c].stranded = TRUE
           /\ call'[c].pc \notin Browsing
  <2>1. \A d \in windows' : call'[d].pc \in Browsing \/ call'[d].stranded
    BY <1>1, <1>3, <1>4, <1>9
  <2>2. \A d \in Call : call'[d].pc \in Browsing => d \in windows'
    BY <1>1, <1>3, <1>9
  <2>3. {d \in windows' : call'[d].req.tool = "png"} = captures'
    BY <1>1, <1>3, <1>4, <1>9
  <2> QED
    BY <1>3, <1>9, <2>1, <2>2, <2>3 DEF WindowsAreClosed, Browsing
<1> QED
  BY <1>2, <1>5, <1>6, <1>7, <1>8, <1>9 DEF Views

--------------------------------------------------------------------------------
\* Every step keeps the invariant: those of the calls, the arrival of a list, and
\* what goes on outside.
LEMMA StepInv == ASSUME IInv, [Next]_vars PROVE IInv'
<1>1. TypeOK /\ Remembers /\ WindowsAreClosed /\ IsFiniteSet(captures)
  BY DEF IInv
<1>2. ASSUME NEW c \in Call, Steps(c) PROVE IInv'
  BY <1>1, <1>2, EveryCallStep, CallRemembers, CallCloses DEF IInv
<1>3. ASSUME NEW f \in DOMAIN fetches, NEW ok \in BOOLEAN, ListSettles(f, ok) PROVE IInv'
  <2>1. UNCHANGED <<now, listed, built, captures, windows, call>>
    BY <1>3 DEF ListSettles
  <2>2. TypeOK' /\ Remembers'
    <3>1. /\ fetches' \in Seq(Fetched) /\ memo' \in [Conn -> [1..LastVersion -> Nat]]
          /\ Remembers'
      BY <1>1, <1>3, SettlingRemembers
    <3> QED
      BY <1>1, <2>1, <3>1 DEF TypeOK
  <2>3. WindowsAreClosed' /\ IsFiniteSet(captures)'
    BY <1>1, <2>1 DEF WindowsAreClosed, Browsing
  <2> QED
    BY <2>2, <2>3 DEF IInv
<1>4. CASE Outside \/ UNCHANGED vars
  <2>1. /\ UNCHANGED <<built, memo, fetches, captures, windows, call>>
        /\ now' \in {now, now + 1}
    BY <1>4 DEF Outside, Tick, Edit, Unlist, vars
  <2>2. listed' \in [Conn -> 0..LastVersion]
    <3>1. listed \in [Conn -> 0..LastVersion] /\ LastVersion \in Nat
      BY <1>1, BoundsAssumption DEF TypeOK
    <3>2. CASE UNCHANGED listed
      BY <3>1, <3>2
    <3>3. ASSUME NEW k \in Conn, Edit(k) \/ Unlist(k) PROVE listed' \in [Conn -> 0..LastVersion]
      BY <3>1, <3>3 DEF Edit, Unlist
    <3> QED
      BY <1>4, <3>2, <3>3 DEF Outside, Tick, vars
  <2>3. TypeOK'
    BY <1>1, <2>1, <2>2 DEF TypeOK
  <2>4. Remembers'
    BY <1>1, <2>1 DEF Remembers, AskedBy, Newest
  <2>5. WindowsAreClosed' /\ IsFiniteSet(captures)'
    BY <1>1, <2>1 DEF WindowsAreClosed, Browsing
  <2> QED
    BY <2>3, <2>4, <2>5 DEF IInv
<1> QED
  BY <1>2, <1>3, <1>4 DEF Next, Inside, Listings, Done

\* The invariant holds throughout.
LEMMA Invariance == Spec => []IInv
<1>1. IInv /\ [Next]_vars => IInv'
  BY StepInv
<1> QED
  BY InitInv, <1>1, PTL DEF Spec

\* A memo that remembers is the newest list, or empty where that failed.
LEMMA RememberedIsNewest == IInv => MemoIsTheNewest
<1> SUFFICES ASSUME IInv, NEW k \in Conn, NEW v \in 1..LastVersion
             PROVE  memo[k][v] = IF AskedBy(k, v) = {} THEN 0
                                 ELSE IF fetches[Max(AskedBy(k, v))].is = "failed" THEN 0
                                 ELSE Max(AskedBy(k, v))
  BY DEF MemoIsTheNewest, AskedBy
<1>1. CASE AskedBy(k, v) = {}
  BY <1>1 DEF IInv, Remembers
<1>2. ASSUME NEW n \in AskedBy(k, v), Newest(k, v, n) PROVE Max(AskedBy(k, v)) = n
  <2>1. \A f \in AskedBy(k, v) : f \in Int
    BY DEF AskedBy, IInv, TypeOK
  <2>2. \A x \in AskedBy(k, v) : (\A y \in AskedBy(k, v) : x >= y) <=> x = n
    BY <1>2, <2>1 DEF Newest
  <2> QED
    BY <2>2 DEF Max
<1> QED
  BY <1>1, <1>2 DEF IInv, Remembers, Newest

\* A client's list of datasources is the newest it asked for: an old failure does
\* not take a newer list with it (GrafanaClient.listDatasources).
THEOREM MemoKeepsUp == Spec => []MemoIsTheNewest
BY Invariance, RememberedIsNewest, PTL

\* No window outlives its page but one, and no more than the gate admits are
\* captured at once (capturePanel, exportPanelCsv).
THEOREM PagesCloseTheirWindows == Spec => []WindowsAreClosed
<1>1. IInv => WindowsAreClosed
  BY DEF IInv
<1> QED
  BY Invariance, <1>1, PTL

\* What a memo may still serve was asked for by the call's own client.
LEMMA ServedIsFresh ==
  ASSUME IInv, NEW c \in Call, call[c].pc = "variables", MayServe(TheMemo(c))
  PROVE  LET f == fetches[TheMemo(c)]
         IN  /\ TheMemo(c) \in DOMAIN fetches
             /\ f.at + Ttl > now /\ f.is # "failed" /\ f.conn = call[c].conn /\ f.version = call[c].version
<1>1. call[c].conn \in Conn /\ call[c].version \in 1..LastVersion
  BY DEF IInv, TypeOK
<1>2. TheMemo(c) # 0 /\ fetches[TheMemo(c)].at + Ttl > now
  BY DEF MayServe
<1>3. PICK n \in AskedBy(call[c].conn, call[c].version) : Newest(call[c].conn, call[c].version, n)
  BY <1>1, <1>2 DEF IInv, Remembers, TheMemo
<1>4. TheMemo(c) = n /\ fetches[n].is # "failed"
  BY <1>2, <1>3 DEF Newest, TheMemo
<1> QED
  BY <1>2, <1>3, <1>4 DEF AskedBy

\* A list that a call is served was asked for within the time-to-live, by the
\* client of the connection as it was listed when the call began
\* (listDatasources, ConnectionRegistry.get).
THEOREM ListsServedAreFresh == Spec => ListServedIsFresh
<1> DEFINE ServedFresh(c) ==
      /\ call'[c].list # call[c].list /\ call'[c].list \in DOMAIN fetches' =>
           LET f == fetches'[call'[c].list]
           IN  f.at + Ttl > now /\ f.is # "failed" /\ f.conn = call[c].conn /\ f.version = call[c].version
      /\ call[c].conn = None /\ call'[c].conn # None =>
           call'[c].version = listed[call'[c].conn]
<1>1. ASSUME IInv, NEW c \in Call, CallStep(c) PROVE ServedFresh(c)
  <2>1. fetches \in Seq(Fetched) /\ now \in Nat /\ DOMAIN fetches = 1..Len(fetches) /\ Len(fetches) \in Nat
    BY <1>1 DEF IInv, TypeOK
  <2>2. call[c].conn = None /\ call'[c].conn # None => call'[c].version = listed[call'[c].conn]
    BY <1>1 DEF CallStep, Binds, SameConnection
  <2>3. ASSUME call'[c].list # call[c].list, call'[c].list \in DOMAIN fetches'
        PROVE  LET f == fetches'[call'[c].list]
               IN  f.at + Ttl > now /\ f.is # "failed" /\ f.conn = call[c].conn /\ f.version = call[c].version
    <3>1. call'[c].list # 0 \/ ~UNCHANGED fetches
      BY <2>1, <2>3
    <3>2. /\ call[c].pc = "variables" /\ call'[c].list = Served(c)
          /\ UNCHANGED <<memo, fetches>> \/ ListDatasources(c)
      BY <1>1, <2>3, <3>1 DEF CallStep, Asks
    <3>3. CASE MayServe(TheMemo(c))
      <4>1. fetches' = fetches /\ call'[c].list = TheMemo(c)
        BY <3>2, <3>3 DEF ListDatasources, Served
      <4> QED
        BY <1>1, <3>2, <3>3, <4>1, ServedIsFresh
    <3>4. CASE ~MayServe(TheMemo(c))
      <4>1. call'[c].list = Len(fetches) + 1
        BY <3>2, <3>4 DEF Served
      <4>2. fetches' # fetches
        BY <2>1, <2>3, <4>1
      <4>3. PICK r : r = [conn |-> call[c].conn, version |-> call[c].version, at |-> now, is |-> "pending"]
        OBVIOUS
      <4>4. r.conn = call[c].conn /\ r.version = call[c].version /\ r.at = now /\ r.is = "pending"
        BY <4>3
      <4>5. fetches' = Append(fetches, r)
        BY <3>2, <3>4, <4>2, <4>3 DEF ListDatasources
      <4>6. fetches'[call'[c].list] = r
        BY <2>1, <4>1, <4>5
      <4> QED
        BY <2>1, <4>4, <4>6, BoundsAssumption
    <3> QED
      BY <3>3, <3>4
  <2> QED
    BY <2>2, <2>3
<1>2. ASSUME IInv, [Next]_vars, NEW c \in Call PROVE ServedFresh(c)
  <2>1. CASE \E d \in Call : Steps(d)
    <3>1. PICK d \in Call : Steps(d)
      BY <2>1
    <3>2. CallStep(d)
      BY <1>2, <3>1, EveryCallStep DEF IInv
    <3>3. CASE d = c
      BY <1>1, <1>2, <3>2, <3>3
    <3>4. CASE d # c
      BY <3>2, <3>4 DEF CallStep, Frame
    <3> QED
      BY <3>3, <3>4
  <2>2. CASE Listings \/ Outside \/ Done \/ UNCHANGED vars
    <3>1. call' = call
      BY <2>2 DEF Listings, ListSettles, Outside, Tick, Edit, Unlist, Done, vars
    <3> QED
      BY <3>1
  <2> QED
    BY <1>2, <2>1, <2>2 DEF Next, Inside
<1>3. IInv /\ [Next]_vars => [\A c \in Call : ServedFresh(c)]_vars
  BY <1>2
<1> QED
  BY Invariance, <1>3, PTL DEF ListServedIsFresh, Spec

--------------------------------------------------------------------------------
\* What is picked of a sequence, and what a function of the numbers up to one computes.

\* How many of a finite set of numbers are up to one of them tells that one: the
\* numbers are counted from 1 to as many as there are.
LEMMA Ranks ==
  ASSUME NEW I \in SUBSET Nat, IsFiniteSet(I),
         NEW rank, rank = [i \in I |-> Cardinality({j \in I : j <= i})]
  PROVE  /\ Cardinality(I) \in Nat
         /\ rank \in Injection(I, 1..Cardinality(I)) /\ rank \in Surjection(I, 1..Cardinality(I))
<1> DEFINE UpTo(i) == {j \in I : j <= i}
<1>1. \A i \in I : IsFiniteSet(UpTo(i)) /\ Cardinality(UpTo(i)) \in Nat /\ Cardinality(UpTo(i)) <= Cardinality(I)
                   /\ UpTo(i) # {}
  <2> TAKE i \in I
  <2>1. UpTo(i) \in SUBSET I
    OBVIOUS
  <2>2. i \in UpTo(i)
    OBVIOUS
  <2> HIDE DEF UpTo
  <2>3. IsFiniteSet(UpTo(i)) /\ Cardinality(UpTo(i)) <= Cardinality(I)
    BY <2>1, FS_Subset
  <2> QED
    BY <2>2, <2>3, FS_CardinalityType
<1>2. \A i, j \in I : i < j => Cardinality(UpTo(i)) # Cardinality(UpTo(j))
  <2> SUFFICES ASSUME NEW i \in I, NEW j \in I, i < j PROVE Cardinality(UpTo(i)) # Cardinality(UpTo(j))
    OBVIOUS
  <2>0. i \in Nat /\ j \in Nat /\ \A k \in I : k \in Nat
    OBVIOUS
  <2>1. UpTo(i) \in SUBSET UpTo(j) /\ j \in UpTo(j) /\ j \notin UpTo(i)
    <3>1. \A k \in I : k <= i => k <= j
      BY <2>0
    <3>2. j <= j /\ ~(j <= i)
      BY <2>0
    <3> QED
      BY <3>1, <3>2
  <2>2. IsFiniteSet(UpTo(j))
    BY <1>1
  <2> HIDE DEF UpTo
  <2> QED
    BY <2>1, <2>2, FS_Subset
<1>3. \A i \in I : rank[i] = Cardinality(UpTo(i))
  OBVIOUS
<1>4. \A i \in I : Cardinality(UpTo(i)) # 0
  BY <1>1, FS_EmptySet
<1>5. Cardinality(I) \in Nat
  BY FS_CardinalityType
<1> HIDE DEF UpTo
<1>6. rank \in [I -> 1..Cardinality(I)]
  <2>1. \A i \in I : rank[i] \in 1..Cardinality(I)
    BY <1>1, <1>3, <1>4, <1>5
  <2> QED
    BY <2>1
<1>7. \A i, j \in I : rank[i] = rank[j] => i = j
  BY <1>2, <1>3
<1>8. rank \in Injection(I, 1..Cardinality(I))
  BY <1>6, <1>7 DEF Injection, IsInjective
<1>9. IsFiniteSet(1..Cardinality(I)) /\ Cardinality(1..Cardinality(I)) = Cardinality(I)
  BY <1>5, FS_Interval
<1> QED
  BY <1>5, <1>8, <1>9, FS_Injection

\* What is picked of a sequence is as much as there are places, each place's once.
LEMMA PickedPlaces ==
  ASSUME NEW A, NEW s \in Seq(A), NEW I \in SUBSET DOMAIN s
  PROVE  /\ IsFiniteSet(I) /\ Cardinality(I) \in Nat
         /\ Picked(s, I) \in Seq(A) /\ Len(Picked(s, I)) = Cardinality(I)
         /\ \E b \in Bijection(1..Cardinality(I), I) :
              \A k \in 1..Cardinality(I) : Picked(s, I)[k] = s[b[k]]
<1>1. Len(s) \in Nat /\ DOMAIN s = 1..Len(s) /\ \A i \in 1..Len(s) : s[i] \in A
  OBVIOUS
<1>2. IsFiniteSet(I) /\ I \in SUBSET Nat
  <2>1. IsFiniteSet(1..Len(s))
    BY <1>1, FS_Interval
  <2>2. I \in SUBSET (1..Len(s))
    BY <1>1
  <2>3. IsFiniteSet(I)
    BY <2>1, <2>2, FS_Subset
  <2> QED
    BY <1>1, <2>2, <2>3
<1>3. PICK rank : rank = [i \in I |-> Cardinality({j \in I : j <= i})]
  OBVIOUS
<1>4. /\ Cardinality(I) \in Nat
      /\ rank \in Injection(I, 1..Cardinality(I)) /\ rank \in Surjection(I, 1..Cardinality(I))
  BY <1>2, <1>3, Ranks
<1>5. PICK n : n = Cardinality(I)
  OBVIOUS
<1>6. PICK b : b = [k \in 1..n |-> CHOOSE i \in I : Cardinality({j \in I : j <= i}) = k]
  OBVIOUS
<1>7. ASSUME NEW k \in 1..n PROVE b[k] \in I /\ rank[b[k]] = k
  <2>1. \E i \in I : Cardinality({j \in I : j <= i}) = k
    BY <1>3, <1>4, <1>5, <1>7 DEF Surjection
  <2> QED
    BY <1>3, <1>6, <1>7, <2>1
<1>8. b \in Bijection(1..n, I)
  <2>1. b \in [1..n -> I]
    BY <1>6, <1>7
  <2>2. \A k, m \in 1..n : b[k] = b[m] => k = m
    BY <1>7
  <2>3. \A i \in I : \E k \in 1..n : b[k] = i
    <3>1. \A i \in I : rank[i] \in 1..n
      BY <1>4, <1>5 DEF Injection
    <3>2. \A i \in I : b[rank[i]] = i
      BY <1>4, <1>5, <1>7, <3>1 DEF Injection, IsInjective
    <3> QED
      BY <3>1, <3>2
  <2> QED
    BY <2>1, <2>2, <2>3 DEF Bijection, Injection, Surjection, IsInjective
<1>9. PICK t : t = Picked(s, I)
  OBVIOUS
<1>10. t = [k \in 1..n |-> s[b[k]]]
  BY <1>5, <1>6, <1>9 DEF Picked
<1>11. \A k \in 1..n : t[k] = s[b[k]] /\ t[k] \in A
  BY <1>1, <1>7, <1>10
<1>12. t \in Seq(A) /\ Len(t) = n
  BY <1>4, <1>5, <1>10, <1>11
<1> QED
  BY <1>2, <1>4, <1>5, <1>8, <1>9, <1>11, <1>12

\* A set of natural numbers that is not empty has a least.
LEMMA LeastNat ==
  ASSUME NEW T \in SUBSET Nat, T # {}
  PROVE  \E n \in T : \A m \in T : n <= m
<1>1. PICK n \in T : \A m \in T : ~(<<m, n>> \in OpToRel(<, Nat))
  BY NatLessThanWellFounded, WFMin
<1>2. ASSUME NEW m \in T, m < n PROVE FALSE
  <2>1. <<m, n>> \in Nat \X Nat /\ <<m, n>>[1] < <<m, n>>[2]
    BY <1>1, <1>2
  <2>2. <<m, n>> \in OpToRel(<, Nat)
    BY <2>1, Zenon DEF OpToRel
  <2> QED
    BY <1>1, <2>2
<1> QED
  BY <1>2

\* What goes from a value to a value, at each number.
Leads(n, V, step) == \A i \in 1..n, x \in V : step[i][x] \in V

\* What goes from each number to the next is a function of the numbers.
LEMMA Recursion ==
  ASSUME NEW n \in Nat, NEW V, NEW v \in V, NEW step,
         Leads(n, V, step)
  PROVE  \E f : /\ f \in [0..n -> V] /\ f[0] = v
                /\ \A i \in 1..n : f[i] = step[i][f[i - 1]]
<1> DEFINE Up(f, m) == f \in [0..m -> V] /\ f[0] = v /\ \A i \in 1..m : f[i] = step[i][f[i - 1]]
           T == {m \in 0..n : ~\E f : Up(f, m)}
<1> SUFFICES ASSUME T # {} PROVE FALSE
  <2>1. n \in 0..n
    OBVIOUS
  <2> QED
    BY <2>1
<1>1. PICK m \in T : \A k \in T : m <= k
  <2>1. T \in SUBSET Nat
    OBVIOUS
  <2> QED
    BY <2>1, LeastNat
<1>2. m # 0
  <2>1. Up([i \in 0..0 |-> v], 0)
    OBVIOUS
  <2> QED
    BY <1>1, <2>1
<1>3. m - 1 \in 0..n /\ m - 1 \notin T /\ m \in 1..n
  <2>1. m \in 0..n
    OBVIOUS
  <2>2. m - 1 \in 0..n /\ m \in 1..n /\ ~(m <= m - 1)
    BY <1>2, <2>1
  <2> HIDE DEF T
  <2> QED
    BY <1>1, <2>2
<1>4. PICK f : Up(f, m - 1)
  BY <1>3
<1>5. PICK g : g = [i \in 0..m |-> IF i = m THEN step[m][f[m - 1]] ELSE f[i]]
  OBVIOUS
<1>6. f[m - 1] \in V /\ step[m][f[m - 1]] \in V
  <2>1. f[m - 1] \in V
    BY <1>3, <1>4
  <2> QED
    BY <1>3, <2>1 DEF Leads
<1>7. g \in [0..m -> V] /\ g[0] = v
  BY <1>2, <1>3, <1>4, <1>5, <1>6
<1>8. ASSUME NEW i \in 1..m PROVE g[i] = step[i][g[i - 1]]
  <2>1. CASE i = m
    <3>1. g[m - 1] = f[m - 1] /\ g[m] = step[m][f[m - 1]]
      BY <1>3, <1>5
    <3> QED
      BY <2>1, <3>1
  <2>2. CASE i # m
    <3>1. i \in 1..(m - 1) /\ i - 1 \in 0..m /\ i - 1 # m /\ i \in 0..m
      BY <1>3, <2>2
    <3>2. g[i] = f[i] /\ g[i - 1] = f[i - 1]
      BY <1>5, <2>2, <3>1
    <3> QED
      BY <1>4, <3>1, <3>2
  <2> QED
    BY <2>1, <2>2
<1>9. Up(g, m)
  BY <1>7, <1>8
<1> QED
  BY <1>1, <1>9

\* The panels of a row, or the panel itself.
Part(panel) == IF panel.panels # <<>> THEN panel.panels ELSE <<panel>>

\* Rows are opened in their places, and nothing that is in one is lost: the flat list
\* has the panels that are no rows and those of each row.
LEMMA FlattenedAll ==
  ASSUME NEW panels, panels \in Seq(ToSet(panels)),
         \A i \in DOMAIN panels : panels[i].panels \in Seq(ToSet(panels[i].panels))
  PROVE  /\ Flattened(panels) \in Seq(ToSet(Flattened(panels)))
         /\ ToSet(Flattened(panels)) = UNION {ToSet(Part(panels[i])) : i \in DOMAIN panels}
<1> DEFINE A == UNION {ToSet(Part(panels[i])) : i \in DOMAIN panels}
           n == Len(panels)
           Is(f) == f = [i \in 0..n |-> IF i = 0 THEN <<>> ELSE f[i - 1] \o Part(panels[i])]
<1>1. n \in Nat /\ DOMAIN panels = 1..n
  OBVIOUS
<1>2. ASSUME NEW i \in 1..n
      PROVE  Part(panels[i]) \in Seq(A) /\ ToSet(Part(panels[i])) \subseteq A
  <2>1. PICK p : p = Part(panels[i])
    OBVIOUS
  <2>2. p \in Seq(ToSet(p))
    <3>1. CASE panels[i].panels # <<>>
      BY <1>1, <2>1, <3>1 DEF Part
    <3>2. CASE panels[i].panels = <<>>
      <4>1. p = <<panels[i]>>
        BY <2>1, <3>2 DEF Part
      <4> QED
        BY <4>1 DEF ToSet
    <3> QED
      BY <3>1, <3>2
  <2>3. ToSet(p) \subseteq A
    BY <1>1, <2>1
  <2> HIDE DEF A
  <2>4. p \in Seq(A)
    <3>1. Len(p) \in Nat /\ p = [k \in 1..Len(p) |-> p[k]] /\ \A k \in 1..Len(p) : p[k] \in ToSet(p)
      BY <2>2
    <3>2. \A k \in 1..Len(p) : p[k] \in A
      BY <2>3, <3>1
    <3> QED
      BY <3>1, <3>2
  <2> QED
    BY <2>1, <2>3, <2>4
<1> HIDE DEF A
<1>3. PICK step : step = [i \in 1..n |-> [x \in Seq(A) |-> x \o Part(panels[i])]]
  OBVIOUS
<1>4. \A i \in 1..n, x \in Seq(A) : step[i][x] = x \o Part(panels[i]) /\ step[i][x] \in Seq(A)
  BY <1>2, <1>3
<1>5. PICK f : f \in [0..n -> Seq(A)] /\ f[0] = <<>> /\ \A i \in 1..n : f[i] = step[i][f[i - 1]]
  <2>1. <<>> \in Seq(A)
    OBVIOUS
  <2>2. PICK V, v : V = Seq(A) /\ v = <<>> /\ v \in V
    BY <2>1
  <2>3. n \in Nat /\ v \in V /\ Leads(n, V, step)
    BY <1>1, <1>4, <2>2 DEF Leads
  <2> HIDE DEF n
  <2>4. \E f : f \in [0..n -> V] /\ f[0] = v /\ \A i \in 1..n : f[i] = step[i][f[i - 1]]
    BY <2>3, Recursion
  <2> QED
    BY <2>2, <2>4
<1>6. Is(f)
  <2>1. \A i \in 1..n : f[i] = f[i - 1] \o Part(panels[i])
    <3> TAKE i \in 1..n
    <3>1. i - 1 \in 0..n
      BY <1>1
    <3> QED
      BY <1>3, <1>5, <3>1
  <2>2. \A i \in 0..n : f[i] = IF i = 0 THEN <<>> ELSE f[i - 1] \o Part(panels[i])
    <3> TAKE i \in 0..n
    <3>1. i # 0 => i \in 1..n
      BY <1>1
    <3> QED
      BY <1>5, <2>1, <3>1
  <2>3. DOMAIN f = 0..n /\ f = [i \in DOMAIN f |-> f[i]]
    BY <1>5
  <2> QED
    BY <2>2, <2>3
<1>7. PICK g : g = CHOOSE leaves : Is(leaves)
  OBVIOUS
<1>8. Is(g)
  BY <1>6, <1>7
<1>9. Flattened(panels) = g[n]
  BY <1>7 DEF Flattened, Part
<1>15. g[0] = <<>> /\ \A i \in 1..n : g[i] = g[i - 1] \o Part(panels[i])
  <2>1. \A i \in 0..n : g[i] = IF i = 0 THEN <<>> ELSE g[i - 1] \o Part(panels[i])
    BY <1>8
  <2>2. 0 \in 0..n /\ \A i \in 1..n : i \in 0..n /\ i # 0
    BY <1>1
  <2> QED
    BY <2>1, <2>2
<1> HIDE DEF Is, n
<1> DEFINE Holds(i) == g[i] \in Seq(A) /\ ToSet(g[i]) = UNION {ToSet(Part(panels[j])) : j \in 1..i}
           T == {i \in 0..n : ~Holds(i)}
<1>10. T = {}
  <2> SUFFICES ASSUME T # {} PROVE FALSE
    OBVIOUS
  <2>1. PICK i \in T : \A k \in T : i <= k
    <3>1. T \in SUBSET Nat
      BY <1>1
    <3> QED
      BY <3>1, LeastNat
  <2>2. i # 0
    <3>1. Holds(0)
      BY <1>15 DEF ToSet
    <3> QED
      BY <2>1, <3>1
  <2>3. i \in 1..n /\ i - 1 \in 0..n /\ Holds(i - 1)
    <3>1. i \in 0..n
      OBVIOUS
    <3>2. i - 1 \in 0..n /\ i \in 1..n /\ ~(i <= i - 1)
      BY <1>1, <2>2, <3>1
    <3>3. i - 1 \notin T
      <4> HIDE DEF T
      <4> QED
        BY <2>1, <3>2
    <3> QED
      BY <3>2, <3>3
  <2>4. g[i] = g[i - 1] \o Part(panels[i])
    BY <1>15, <2>3
  <2>5. PICK a \in Seq(A), p \in Seq(A) : a = g[i - 1] /\ p = Part(panels[i])
    BY <1>2, <2>3
  <2>6. ToSet(a \o p) = ToSet(a) \cup ToSet(p)
    <3>1. /\ DOMAIN (a \o p) = 1..(Len(a) + Len(p)) /\ Len(a) \in Nat /\ Len(p) \in Nat
          /\ DOMAIN a = 1..Len(a) /\ DOMAIN p = 1..Len(p)
          /\ \A k \in 1..(Len(a) + Len(p)) : (a \o p)[k] = IF k <= Len(a) THEN a[k] ELSE p[k - Len(a)]
      OBVIOUS
    <3>2. \A k \in DOMAIN (a \o p) : (a \o p)[k] \in ToSet(a) \cup ToSet(p)
      BY <3>1 DEF ToSet
    <3>3. \A k \in DOMAIN a : k \in DOMAIN (a \o p) /\ (a \o p)[k] = a[k]
      BY <3>1
    <3>4. \A k \in DOMAIN p : k + Len(a) \in DOMAIN (a \o p) /\ (a \o p)[k + Len(a)] = p[k]
      BY <3>1
    <3>5. ToSet(a) \subseteq ToSet(a \o p)
      BY <3>3 DEF ToSet
    <3>6. ToSet(p) \subseteq ToSet(a \o p)
      BY <3>4 DEF ToSet
    <3>7. ToSet(a \o p) \subseteq ToSet(a) \cup ToSet(p)
      BY <3>2 DEF ToSet
    <3> QED
      BY <3>5, <3>6, <3>7
  <2>7. ToSet(g[i]) = (UNION {ToSet(Part(panels[j])) : j \in 1..(i - 1)}) \cup ToSet(Part(panels[i]))
    <3>1. ToSet(g[i]) = ToSet(g[i - 1]) \cup ToSet(Part(panels[i]))
      BY <2>4, <2>5, <2>6
    <3>2. ToSet(g[i - 1]) = UNION {ToSet(Part(panels[j])) : j \in 1..(i - 1)}
      BY <2>3
    <3> QED
      BY <3>1, <3>2
  <2>8. 1..i = (1..(i - 1)) \cup {i}
    BY <2>3
  <2>9. ToSet(g[i]) = UNION {ToSet(Part(panels[j])) : j \in 1..i}
    <3>1. UNION {ToSet(Part(panels[j])) : j \in (1..(i - 1)) \cup {i}}
            = (UNION {ToSet(Part(panels[j])) : j \in 1..(i - 1)}) \cup ToSet(Part(panels[i]))
      OBVIOUS
    <3> QED
      BY <2>7, <2>8, <3>1
  <2>10. g[i] \in Seq(A)
    BY <2>4, <2>5
  <2> QED
    BY <2>1, <2>9, <2>10
<1>11. Holds(n)
  <2>1. n \in 0..n
    BY <1>1
  <2> QED
    BY <1>10, <2>1
<1>12. PICK t : t = Flattened(panels)
  OBVIOUS
<1>13. t \in Seq(A) /\ ToSet(t) = UNION {ToSet(Part(panels[j])) : j \in DOMAIN panels}
  BY <1>1, <1>9, <1>11, <1>12
<1>14. t \in Seq(ToSet(t))
  <2>1. Len(t) \in Nat /\ t = [k \in 1..Len(t) |-> t[k]] /\ DOMAIN t = 1..Len(t)
    BY <1>13
  <2>2. \A k \in 1..Len(t) : t[k] \in ToSet(t)
    BY <2>1 DEF ToSet
  <2> QED
    BY <2>1, <2>2
<1> QED
  BY <1>12, <1>13, <1>14

\* A sequence is one of its own values.
LEMMA OwnValues == ASSUME NEW S, NEW s \in Seq(S) PROVE s \in Seq(ToSet(s))
<1>1. PICK n \in Nat : s \in [1..n -> S]
  OBVIOUS
<1>2. s \in [1..n -> ToSet(s)]
  BY <1>1 DEF ToSet
<1> QED
  BY <1>2

--------------------------------------------------------------------------------
\* The log and the variables: the third part.  What a step may do to the fields of
\* its call that are traced, its jobs among them, and to the log.

\* Of the fields that are traced, those outside of X stay.
Kept(c, X) ==
  /\ call' = [d \in Call |-> call'[d]]
  /\ \A d \in Call : d # c => call'[d] = call[d]
  /\ Traced \subseteq DOMAIN call'[c]
  /\ \A x \in Traced \ X : call'[c][x] = call[c][x]

SameLog == UNCHANGED <<entries, nextId>>

\* It fails, and has looked at nothing.
Failing(c) ==
  /\ call[c].pc \notin {"audit", "over"} /\ (call[c].req.tool = "render" => call[c].jobs = <<>>)
  /\ call'[c].pc = "audit" /\ call'[c].ok = FALSE /\ call'[c].jobs = <<>>
  /\ Kept(c, {"pc", "ok", "jobs"}) /\ SameLog

\* It comes to its dashboard, or gets what it wants from a page.
Arriving(c) ==
  /\ call[c].pc \in Early /\ call'[c].pc \in Early \cup {"saving"}
  /\ call'[c].pc \notin Naming => call'[c].uid \in DOMAIN Board
  /\ call[c].req.tool = "render" => call'[c].pc \in Naming \cup {"window"}
  /\ Kept(c, {"pc", "uid", "panelId", "overrides"}) /\ SameLog

\* Its variables are next.
Starting(c) ==
  /\ call[c].pc \in Early \ Naming /\ call'[c].pc = "variables"
  /\ call'[c].at = 1 /\ call'[c].resolved = call[c].overrides
  /\ Kept(c, {"pc", "at", "resolved"}) /\ SameLog

\* A variable is asked for, or done with.
Varying(c) ==
  /\ call[c].pc \in Computing /\ MoreToDo(c)
  /\ \/ /\ call'[c].pc \in Computing \ {"variables"} /\ FallsOpen(c)
        /\ call'[c].at = call[c].at /\ call'[c].resolved = call[c].resolved
        /\ call'[c].unresolved = call[c].unresolved
     \/ /\ call'[c].pc = "variables" /\ call'[c].at = call[c].at + 1
        /\ \/ ~FallsOpen(c) /\ call'[c].resolved = call[c].resolved /\ call'[c].unresolved = call[c].unresolved
           \/ /\ FallsOpen(c) /\ call'[c].resolved = call[c].resolved
              /\ call'[c].unresolved = call[c].unresolved \cup {Variable(c).name}
           \/ /\ FallsOpen(c) /\ call'[c].unresolved = call[c].unresolved
              /\ \E found \in Results :
                   /\ found # <<>>
                   /\ call'[c].resolved = With([n \in {Variable(c).name} |-> found], call[c].resolved)
  /\ Kept(c, {"pc", "at", "resolved", "unresolved"}) /\ SameLog

IsJob(c, job) == {"panel", "request", "is"} \subseteq DOMAIN job /\ PutsIn(c, job)

\* Its panels are asked for.
Asking(c) ==
  /\ call[c].pc = "variables" /\ ~MoreToDo(c) /\ call'[c].pc = "panels"
  /\ \A i \in DOMAIN call'[c].jobs : IsJob(c, call'[c].jobs[i]) /\ call'[c].jobs[i].is # "answered"
  /\ \A i, j \in DOMAIN call'[c].jobs :
       call'[c].jobs[i].panel.panel = call'[c].jobs[j].panel.panel => i = j
  /\ call[c].req.tool = "render" =>
       /\ DOMAIN call'[c].jobs = DOMAIN ToExecute(c)
       /\ \A i \in DOMAIN call'[c].jobs : call'[c].jobs[i].panel = ToExecute(c)[i]
  /\ Kept(c, {"pc", "jobs"}) /\ SameLog

\* The list its panels waited for is there.
Listing(c) ==
  /\ call[c].pc = "panels" /\ DOMAIN call'[c].jobs = DOMAIN call[c].jobs
  /\ \A i \in DOMAIN call[c].jobs :
       \/ call'[c].jobs[i] = call[c].jobs[i]
       \/ /\ IsJob(c, call'[c].jobs[i]) /\ call'[c].jobs[i].panel = call[c].jobs[i].panel
          /\ call[c].jobs[i].is # "answered" /\ call'[c].jobs[i].is # "answered"
  /\ Kept(c, {"jobs"}) /\ SameLog

\* A panel is answered, or not.
Hearing(c) ==
  /\ call[c].pc = "panels"
  /\ \E i \in DOMAIN call[c].jobs, ok \in BOOLEAN :
       /\ call[c].jobs[i].is = "asked"
       /\ call'[c].jobs = Job(c, i, IF ok THEN "answered" ELSE "failed")
       /\ IF ok /\ call[c].req.tool = "render" THEN Record(c, call[c].jobs[i].panel.panel) ELSE SameLog
  /\ Kept(c, {"jobs"})

\* A render is put together.
Summing(c) ==
  /\ call[c].pc = "panels" /\ call[c].req.tool = "render" /\ call'[c].pc = "audit"
  /\ call'[c].panels = Reported(c)
  /\ Kept(c, {"pc", "panels"}) /\ SameLog

\* An export has its panel, and saves it.
Saving(c) ==
  /\ call[c].pc \in {"panels", "saving"} /\ call[c].req.tool # "render" /\ call'[c].pc = "saving"
  /\ Kept(c, {"pc"}) /\ SameLog

\* A panel that was saved is logged.
Logging(c) ==
  /\ call[c].pc = "saving" /\ call'[c].pc = "audit"
  /\ Record(c, Panel(c).panel) /\ Kept(c, {"pc"})

\* The call is answered.
Ending(c) ==
  /\ call[c].pc = "audit" /\ call'[c].pc = "over" /\ call'[c].panels = <<>>
  /\ call'[c].jobs = [i \in DOMAIN call[c].jobs |-> [call[c].jobs[i] EXCEPT !.request = <<>>]]
  /\ Kept(c, {"pc", "jobs", "at", "overrides", "resolved", "unresolved", "panels"}) /\ SameLog

Traces(c) ==
  \/ Failing(c) \/ Arriving(c) \/ Starting(c) \/ Varying(c) \/ Asking(c) \/ Listing(c)
  \/ Hearing(c) \/ Summing(c) \/ Saving(c) \/ Logging(c) \/ Ending(c)

--------------------------------------------------------------------------------
\* A call goes on: the fields that are given change, the others stay.
LEMMA Keeps ==
  ASSUME CallsSound, NEW c \in Call, NEW f, Becomes(c, f), NEW X, (DOMAIN f) \cap Traced \subseteq X
  PROVE  Kept(c, X) /\ \A x \in Traced \cap DOMAIN f : call'[c][x] = f[x]
<1>1. call' = [call EXCEPT ![c] = With(f, call[c])] /\ call = [d \in Call |-> call[d]]
  BY DEF Becomes, CallsSound
<1>2. call'[c] = With(f, call[c])
  BY <1>1
<1>3. call'[c] = [x \in (DOMAIN f) \cup DOMAIN call[c] |-> IF x \in DOMAIN f THEN f[x] ELSE call[c][x]]
  BY <1>2 DEF With
<1>4. Traced \subseteq DOMAIN call[c]
  BY DEF CallsSound, CallSound
<1>5. \A x \in Traced : call'[c][x] = IF x \in DOMAIN f THEN f[x] ELSE call[c][x]
  BY <1>3, <1>4
<1>6. call' = [d \in Call |-> call'[d]] /\ \A d \in Call : d # c => call'[d] = call[d]
  BY <1>1
<1>7. Traced \subseteq DOMAIN call'[c]
  BY <1>3, <1>4
<1> QED
  BY <1>5, <1>6, <1>7 DEF Kept

\* The fields that are traced.
LEMMA TracedFields ==
  Traced =
    {"req", "pc", "uid", "panelId", "ok", "jobs", "at", "overrides", "resolved", "unresolved", "panels"}
BY DEF Traced

\* A failure.
LEMMA FailsTraces ==
  ASSUME CallsSound, NEW c \in Call, Fails(c), SameLog,
         call[c].pc \notin {"audit", "over"}, call[c].req.tool = "render" => call[c].pc \in Early \cup Computing
  PROVE  Failing(c)
<1>1. PICK f : f = [pc |-> "audit", ok |-> FALSE, jobs |-> <<>>]
  OBVIOUS
<1>2. DOMAIN f = {"pc", "ok", "jobs"} /\ f["pc"] = "audit" /\ f["ok"] = FALSE /\ f["jobs"] = <<>>
  BY <1>1
<1>3. Becomes(c, f)
  BY <1>1 DEF Fails
<1>4. Kept(c, DOMAIN f) /\ \A x \in Traced \cap DOMAIN f : call'[c][x] = f[x]
  BY <1>3, Keeps
<1>5. call'[c].pc = "audit" /\ call'[c].ok = FALSE /\ call'[c].jobs = <<>>
  BY <1>2, <1>4 DEF Traced
<1> QED
  BY <1>2, <1>4, <1>5 DEF Failing, CallsSound, CallSound

\* A step to a place at which the call is as it was.
LEMMA PlaceTraces ==
  ASSUME CallsSound, NEW c \in Call, NEW f, Becomes(c, f), "pc" \in DOMAIN f,
         (DOMAIN f) \cap Traced \subseteq {"pc"}
  PROVE  Kept(c, {"pc"}) /\ call'[c].pc = f["pc"]
<1>1. Kept(c, {"pc"}) /\ \A x \in Traced \cap DOMAIN f : call'[c][x] = f[x]
  BY Keeps
<1> QED
  BY <1>1 DEF Traced

\* The same where only the place is given.
LEMMA GoesTraces ==
  ASSUME CallsSound, NEW c \in Call, NEW place, Becomes(c, [pc |-> place])
  PROVE  Kept(c, {"pc"}) /\ call'[c].pc = place
<1>1. PICK f : f = [pc |-> place]
  OBVIOUS
<1>2. DOMAIN f = {"pc"} /\ f["pc"] = place
  BY <1>1
<1> QED
  BY <1>1, <1>2, PlaceTraces

\* What holds of fewer changes holds of more.
LEMMA KeptMore == ASSUME NEW c, NEW X, NEW Y, X \subseteq Y, Kept(c, X) PROVE Kept(c, Y)
BY DEF Kept

--------------------------------------------------------------------------------
\* Where a link leads, as the call's dashboard goes.
LEMMA FollowTraces ==
  ASSUME CallsSound, NEW c \in Call, call[c].pc \in {"called", "short"},
         NEW found, DOMAIN found \subseteq {"conn", "version"},
         NEW link \in DOMAIN Url \cup {None}, Follow(c, found, link), SameLog
  PROVE  Traces(c)
<1> DEFINE next == IF link = None THEN [uid |-> call[c].req.uid]
              ELSE CASE Url[link].kind = "dashboard" ->
                          [uid |-> Url[link].uid, urlVars |-> Url[link].vars,
                           panelId |-> IF call[c].panelId # None THEN call[c].panelId ELSE Url[link].panelId]
                     [] Url[link].kind = "rule"   -> [pc |-> "rule"]
                     [] Url[link].kind = "short"  -> [pc |-> "short"]
                     [] Url[link].kind = "folder" -> [pc |-> "audit", ok |-> FALSE]
<1> HIDE DEF next
<1>1. PICK n : n = next
  OBVIOUS
<1>2. \/ DOMAIN n \subseteq {"uid", "urlVars", "panelId"}
      \/ DOMAIN n = {"pc"} /\ n["pc"] \in {"rule", "short"}
      \/ DOMAIN n = {"pc", "ok"} /\ n["pc"] = "audit" /\ n["ok"] = FALSE
  <2>1. CASE link = None
    BY <1>1, <2>1 DEF next
  <2>2. CASE link # None /\ Url[link].kind = "dashboard"
    BY <1>1, <2>2 DEF next
  <2>3. CASE link # None /\ Url[link].kind = "rule"
    BY <1>1, <2>3 DEF next
  <2>4. CASE link # None /\ Url[link].kind = "short"
    BY <1>1, <2>4 DEF next
  <2>5. CASE link # None /\ Url[link].kind = "folder"
    BY <1>1, <2>5 DEF next
  <2> QED
    BY <2>1, <2>2, <2>3, <2>4, <2>5, LinksAssumption
<1>3. PICK g : g = With(found, [pc |-> "named"])
  OBVIOUS
<1>4. DOMAIN g = (DOMAIN found) \cup {"pc"} /\ g["pc"] = "named"
  BY <1>3 DEF With
<1>5. PICK f : f = With(n, g)
  OBVIOUS
<1>6. DOMAIN f = (DOMAIN n) \cup DOMAIN g /\ \A x \in DOMAIN f : f[x] = IF x \in DOMAIN n THEN n[x] ELSE g[x]
  BY <1>5 DEF With
<1>7. Becomes(c, f)
  BY <1>1, <1>3, <1>5 DEF next, Follow
<1>8. /\ call[c].jobs = <<>> /\ call[c].pc \in Early /\ call[c].pc \notin {"audit", "over", "panels"}
  BY DEF CallsSound, CallSound, Early, Naming
<1>9. CASE DOMAIN n = {"pc", "ok"} /\ n["pc"] = "audit" /\ n["ok"] = FALSE
  <2>1. (DOMAIN f) \cap Traced \subseteq {"pc", "ok", "jobs"} /\ f["pc"] = "audit" /\ f["ok"] = FALSE
        /\ "pc" \in DOMAIN f /\ "ok" \in DOMAIN f /\ "jobs" \notin DOMAIN f
    BY <1>4, <1>6, <1>9, TracedFields
  <2>2. Kept(c, {"pc", "ok", "jobs"}) /\ Kept(c, (DOMAIN f) \cap Traced)
        /\ \A x \in Traced \cap DOMAIN f : call'[c][x] = f[x]
    BY <1>7, <2>1, Keeps
  <2>3. call'[c].pc = "audit" /\ call'[c].ok = FALSE /\ call'[c].jobs = call[c].jobs
    BY <2>1, <2>2, TracedFields DEF Kept
  <2> QED
    BY <1>8, <2>2, <2>3 DEF Failing, Traces
<1>10. CASE DOMAIN n \subseteq {"uid", "urlVars", "panelId"} \/ (DOMAIN n = {"pc"} /\ n["pc"] \in {"rule", "short"})
  <2>1. (DOMAIN f) \cap Traced \subseteq {"pc", "uid", "panelId", "overrides"}
        /\ "pc" \in DOMAIN f /\ f["pc"] \in {"named", "rule", "short"}
    BY <1>4, <1>6, <1>10, TracedFields
  <2>2. Kept(c, {"pc", "uid", "panelId", "overrides"}) /\ \A x \in Traced \cap DOMAIN f : call'[c][x] = f[x]
    BY <1>7, <2>1, Keeps
  <2>3. call'[c].pc \in {"named", "rule", "short"}
    BY <2>1, <2>2, TracedFields
  <2> QED
    BY <1>8, <2>2, <2>3 DEF Arriving, Traces, Early, Naming
<1> QED
  BY <1>2, <1>9, <1>10

\* The first answers that a call waits for.
LEMMA ArrivalTraces == ASSUME TypeOK, CallsSound, NEW c \in Call, Arrivals(c) PROVE Traces(c)
<1> USE DEF Awaiting
<1>1. ASSUME Begin(c) PROVE Traces(c)
  <2>1. call[c].pc = "called" /\ SameLog
    BY <1>1 DEF Begin, SameLog
  <2>2. CASE Fails(c)
    BY <2>1, <2>2, FailsTraces DEF Traces, Early, Naming, Computing
  <2>3. ASSUME NEW k, NEW v, Follow(c, [conn |-> k, version |-> v], call[c].req.url) PROVE Traces(c)
    <3>1. PICK found : found = [conn |-> k, version |-> v]
      OBVIOUS
    <3>2. DOMAIN found = {"conn", "version"}
      BY <3>1
    <3>3. call[c].req.url \in DOMAIN Url \cup {None}
      BY DEF TypeOK
    <3> QED
      BY <2>1, <2>3, <3>1, <3>2, <3>3, FollowTraces
  <2> QED
    BY <1>1, <2>2, <2>3 DEF Begin
<1>2. ASSUME NEW ok \in BOOLEAN, ShortUrlArrives(c, ok) PROVE Traces(c)
  <2>1. call[c].pc = "short" /\ SameLog
    BY <1>2 DEF ShortUrlArrives, SameLog
  <2>2. CASE Fails(c)
    BY <2>1, <2>2, FailsTraces DEF Traces, Early, Naming, Computing
  <2>3. CASE Follow(c, <<>>, Url[call[c].req.url].to)
    <3>1. PICK found : found = <<>>
      OBVIOUS
    <3>2. DOMAIN found = {}
      BY <3>1
    <3>3. call[c].req.url \in DOMAIN Url
      BY <2>1 DEF TypeOK
    <3>4. PICK link : link = Url[call[c].req.url].to
      OBVIOUS
    <3>5. link \in DOMAIN Url \cup {None}
      BY <3>3, <3>4, LinksAssumption
    <3> QED
      BY <2>1, <2>3, <3>1, <3>2, <3>4, <3>5, FollowTraces
  <2> QED
    BY <1>2, <2>2, <2>3 DEF ShortUrlArrives
<1>3. ASSUME NEW ok \in BOOLEAN, RuleArrives(c, ok) PROVE Traces(c)
  <2>1. call[c].pc = "rule" /\ SameLog
    BY <1>3 DEF RuleArrives, SameLog
  <2>2. CASE Fails(c)
    BY <2>1, <2>2, FailsTraces DEF Traces, Early, Naming, Computing
  <2>3. ASSUME NEW uid, NEW id, Becomes(c, [pc |-> "named", uid |-> uid, panelId |-> id]) PROVE Traces(c)
    <3>1. PICK f : f = [pc |-> "named", uid |-> uid, panelId |-> id]
      OBVIOUS
    <3>2. DOMAIN f = {"pc", "uid", "panelId"} /\ f["pc"] = "named"
      BY <3>1
    <3>3. Kept(c, {"pc", "uid", "panelId", "overrides"}) /\ \A x \in Traced \cap DOMAIN f : call'[c][x] = f[x]
      BY <2>3, <3>1, <3>2, Keeps
    <3>4. call'[c].pc = "named"
      BY <3>2, <3>3, TracedFields
    <3> QED
      BY <2>1, <3>3, <3>4 DEF Arriving, Traces, Early, Naming
  <2> QED
    BY <1>3, <2>2, <2>3 DEF RuleArrives
<1>4. ASSUME Fetch(c) PROVE Traces(c)
  <2>1. call[c].pc = "named" /\ SameLog
    BY <1>4 DEF Fetch, SameLog
  <2>2. CASE Fails(c)
    BY <2>1, <2>2, FailsTraces DEF Traces, Early, Naming, Computing
  <2>3. CASE Becomes(c, [pc |-> "board"])
    <3>1. Kept(c, {"pc"}) /\ call'[c].pc = "board"
      BY <2>3, GoesTraces
    <3>2. Kept(c, {"pc", "uid", "panelId", "overrides"})
      BY <3>1, KeptMore
    <3> QED
      BY <2>1, <3>1, <3>2 DEF Arriving, Traces, Early, Naming
  <2> QED
    BY <1>4, <2>2, <2>3 DEF Fetch
<1>5. ASSUME NEW ok \in BOOLEAN, BoardArrives(c, ok) PROVE Traces(c)
  <2>1. call[c].pc = "board" /\ SameLog
    BY <1>5 DEF BoardArrives, SameLog
  <2>2. CASE Fails(c)
    BY <2>1, <2>2, FailsTraces DEF Traces, Early, Naming, Computing
  <2>3. ASSUME NEW o, Becomes(c, [pc |-> "window", overrides |-> o]), call[c].uid \in DOMAIN Board
        PROVE  Traces(c)
    <3>1. PICK f : f = [pc |-> "window", overrides |-> o]
      OBVIOUS
    <3>2. DOMAIN f = {"pc", "overrides"} /\ f["pc"] = "window"
      BY <3>1
    <3>3. Kept(c, {"pc", "uid", "panelId", "overrides"}) /\ Kept(c, {"pc", "overrides"})
          /\ \A x \in Traced \cap DOMAIN f : call'[c][x] = f[x]
      BY <2>3, <3>1, <3>2, Keeps
    <3>4. call'[c].pc = "window" /\ call'[c].uid = call[c].uid
      BY <3>2, <3>3, TracedFields DEF Kept
    <3> QED
      BY <2>1, <2>3, <3>3, <3>4 DEF Arriving, Traces, Early, Naming
  <2> QED
    BY <1>5, <2>2, <2>3 DEF BoardArrives
<1>6. ASSUME NEW ok \in BOOLEAN, Answer(c, ok) PROVE Traces(c)
  <2>1. call[c].pc = "audit" /\ SameLog
    BY <1>6 DEF Answer, SameLog
  <2>2. PICK f : f = Ended(c)
    OBVIOUS
  <2>3. /\ (DOMAIN f) \cap Traced = {"pc", "jobs", "at", "overrides", "resolved", "unresolved", "panels"}
        /\ f["pc"] = "over" /\ f["panels"] = <<>>
        /\ f["jobs"] = [i \in DOMAIN call[c].jobs |-> [call[c].jobs[i] EXCEPT !.request = <<>>]]
    <3>1. DOMAIN f = {"pc", "overrides", "urlVars", "resolved", "unresolved", "raw", "at", "list",
                      "panels", "note", "files", "saved", "jobs"}
      BY <2>2 DEF Ended
    <3>2. f["pc"] = "over" /\ f["panels"] = <<>>
      BY <2>2 DEF Ended
    <3>3. f["jobs"] = [i \in DOMAIN call[c].jobs |-> [call[c].jobs[i] EXCEPT !.request = <<>>]]
      BY <2>2 DEF Ended
    <3>4. (DOMAIN f) \cap Traced = {"pc", "jobs", "at", "overrides", "resolved", "unresolved", "panels"}
      BY <3>1, TracedFields
    <3> QED
      BY <3>2, <3>3, <3>4
  <2>4. Becomes(c, f)
    BY <1>6, <2>2 DEF Answer, Appends
  <2>5. Kept(c, {"pc", "jobs", "at", "overrides", "resolved", "unresolved", "panels"})
        /\ \A x \in Traced \cap DOMAIN f : call'[c][x] = f[x]
    <3>1. PICK X : X = {"pc", "jobs", "at", "overrides", "resolved", "unresolved", "panels"}
      OBVIOUS
    <3>2. (DOMAIN f) \cap Traced \subseteq X
      BY <2>3, <3>1
    <3>3. Kept(c, X) /\ \A x \in Traced \cap DOMAIN f : call'[c][x] = f[x]
      BY <2>4, <3>2, Keeps
    <3> QED
      BY <3>1, <3>3
  <2>6. /\ call'[c].pc = "over" /\ call'[c].panels = <<>>
        /\ call'[c].jobs = [i \in DOMAIN call[c].jobs |-> [call[c].jobs[i] EXCEPT !.request = <<>>]]
    BY <2>3, <2>5
  <2> QED
    BY <2>1, <2>5, <2>6 DEF Ending, Traces
<1> QED
  BY <1>1, <1>2, <1>3, <1>4, <1>5, <1>6 DEF Arrivals

--------------------------------------------------------------------------------
\* A variable is done with, or its datasource is asked for.
LEMMA NextOneTraces ==
  ASSUME CallsSound, NEW c \in Call, call[c].pc \in Computing, MoreToDo(c), SameLog,
         \/ ~FallsOpen(c) /\ Becomes(c, NextOne(c))
         \/ FallsOpen(c) /\ Becomes(c, Unresolved(c))
         \/ FallsOpen(c) /\ \E found \in Results : found # <<>> /\
              Becomes(c, With(NextOne(c), [resolved |-> With([n \in {Variable(c).name} |-> found], call[c].resolved)]))
  PROVE  Traces(c)
<1>1. PICK f : f = NextOne(c)
  OBVIOUS
<1>2. DOMAIN f = {"pc", "at"} /\ f["pc"] = "variables" /\ f["at"] = call[c].at + 1
  BY <1>1 DEF NextOne
<1>3. ASSUME NEW g, Becomes(c, g), {"pc", "at"} \subseteq DOMAIN g, g["pc"] = "variables", g["at"] = call[c].at + 1,
             DOMAIN g \subseteq {"pc", "at", "resolved", "unresolved"}
      PROVE  /\ Kept(c, {"pc", "at", "resolved", "unresolved"})
             /\ call'[c].pc = "variables" /\ call'[c].at = call[c].at + 1
             /\ call'[c].resolved = IF "resolved" \in DOMAIN g THEN g["resolved"] ELSE call[c].resolved
             /\ call'[c].unresolved = IF "unresolved" \in DOMAIN g THEN g["unresolved"] ELSE call[c].unresolved
  <2>1. Kept(c, {"pc", "at", "resolved", "unresolved"}) /\ Kept(c, (DOMAIN g) \cap Traced)
        /\ \A x \in Traced \cap DOMAIN g : call'[c][x] = g[x]
    BY <1>3, Keeps
  <2>2. /\ call'[c].pc = "variables" /\ call'[c].at = call[c].at + 1
    BY <1>3, <2>1, TracedFields
  <2>3. "resolved" \in Traced /\ "unresolved" \in Traced
    BY TracedFields
  <2>4. call'[c].resolved = IF "resolved" \in DOMAIN g THEN g["resolved"] ELSE call[c].resolved
    BY <2>1, <2>3 DEF Kept
  <2>5. call'[c].unresolved = IF "unresolved" \in DOMAIN g THEN g["unresolved"] ELSE call[c].unresolved
    BY <2>1, <2>3 DEF Kept
  <2> QED
    BY <2>1, <2>2, <2>4, <2>5
<1>4. CASE ~FallsOpen(c) /\ Becomes(c, NextOne(c))
  <2>1. /\ Kept(c, {"pc", "at", "resolved", "unresolved"})
        /\ call'[c].pc = "variables" /\ call'[c].at = call[c].at + 1
        /\ call'[c].resolved = call[c].resolved /\ call'[c].unresolved = call[c].unresolved
    BY <1>1, <1>2, <1>3, <1>4
  <2> QED
    BY <1>4, <2>1 DEF Varying, Traces
<1>5. CASE FallsOpen(c) /\ Becomes(c, Unresolved(c))
  <2>1. PICK u : u = [unresolved |-> call[c].unresolved \cup {Variable(c).name}]
    OBVIOUS
  <2>2. DOMAIN u = {"unresolved"} /\ u["unresolved"] = call[c].unresolved \cup {Variable(c).name}
    BY <2>1
  <2>3. PICK g : g = With(f, u)
    OBVIOUS
  <2>4. DOMAIN g = {"pc", "at", "unresolved"} /\ g["pc"] = f["pc"] /\ g["at"] = f["at"] /\ g["unresolved"] = u["unresolved"]
    BY <1>2, <2>2, <2>3 DEF With
  <2>5. Becomes(c, g)
    BY <1>1, <1>5, <2>1, <2>3 DEF Unresolved
  <2>6. /\ Kept(c, {"pc", "at", "resolved", "unresolved"})
        /\ call'[c].pc = "variables" /\ call'[c].at = call[c].at + 1
        /\ call'[c].resolved = call[c].resolved
        /\ call'[c].unresolved = call[c].unresolved \cup {Variable(c).name}
    BY <1>2, <1>3, <2>2, <2>4, <2>5
  <2> QED
    BY <1>5, <2>6 DEF Varying, Traces
<1>6. ASSUME FallsOpen(c), NEW found \in Results, found # <<>>,
             Becomes(c, With(NextOne(c), [resolved |-> With([n \in {Variable(c).name} |-> found], call[c].resolved)]))
      PROVE  Traces(c)
  <2>0. PICK r : r = With([n \in {Variable(c).name} |-> found], call[c].resolved)
    OBVIOUS
  <2>1. PICK u : u = [resolved |-> r]
    OBVIOUS
  <2>2. DOMAIN u = {"resolved"} /\ u["resolved"] = r
    BY <2>1
  <2>3. PICK g : g = With(f, u)
    OBVIOUS
  <2>4. DOMAIN g = {"pc", "at", "resolved"} /\ g["pc"] = f["pc"] /\ g["at"] = f["at"] /\ g["resolved"] = u["resolved"]
    BY <1>2, <2>2, <2>3 DEF With
  <2>5. Becomes(c, g)
    BY <1>1, <1>6, <2>0, <2>1, <2>3
  <2>6. /\ Kept(c, {"pc", "at", "resolved", "unresolved"})
        /\ call'[c].pc = "variables" /\ call'[c].at = call[c].at + 1
        /\ call'[c].resolved = r
        /\ call'[c].unresolved = call[c].unresolved
    BY <1>2, <1>3, <2>2, <2>4, <2>5
  <2> QED
    BY <1>6, <2>0, <2>6 DEF Varying, Traces
<1> QED
  BY <1>4, <1>5, <1>6

\* A variable's values are asked for, or it is left open.
LEMMA LookedTraces ==
  ASSUME CallsSound, NEW c \in Call, call[c].pc \in Computing, MoreToDo(c), FallsOpen(c), SameLog,
         NEW type, Becomes(c, Looked(c, type))
  PROVE  Traces(c)
<1>1. CASE type = "influxdb"
  <2>1. Kept(c, {"pc"}) /\ call'[c].pc = "variable query"
    <3>1. Becomes(c, [pc |-> "variable query"])
      BY <1>1 DEF Looked
    <3> QED
      BY <3>1, GoesTraces
  <2>2. Kept(c, {"pc", "at", "resolved", "unresolved"})
    BY <2>1 DEF Kept
  <2>3. call'[c].at = call[c].at /\ call'[c].resolved = call[c].resolved /\ call'[c].unresolved = call[c].unresolved
    BY <2>1, TracedFields DEF Kept
  <2> QED
    BY <2>1, <2>2, <2>3 DEF Varying, Traces, Computing
<1>2. CASE type # "influxdb"
  BY <1>2, NextOneTraces DEF Looked
<1> QED
  BY <1>1, <1>2

\* The steps of a replay that are about its variables.
LEMMA VariableTraces ==
  ASSUME CallsSound, NEW c \in Call,
         \/ NextVariable(c) \/ VariableListArrives(c)
         \/ \E ok \in BOOLEAN, found \in Results : VariableQueryReturns(c, ok, found)
  PROVE  Traces(c)
<1> USE DEF Awaiting
<1>1. ASSUME NextVariable(c) PROVE Traces(c)
  <2>1. call[c].pc = "variables" /\ MoreToDo(c) /\ SameLog /\ call[c].pc \in Computing
    BY <1>1 DEF NextVariable, SameLog, Computing
  <2>2. CASE FallsOpen(c) /\ Becomes(c, [pc |-> "variable list", list |-> Served(c)])
    <3>1. PICK f : f = [pc |-> "variable list", list |-> Served(c)]
      OBVIOUS
    <3>2. DOMAIN f = {"pc", "list"} /\ f["pc"] = "variable list"
      BY <3>1
    <3>3. Kept(c, {"pc"}) /\ call'[c].pc = "variable list"
      <4>1. (DOMAIN f) \cap Traced \subseteq {"pc"} /\ "pc" \in DOMAIN f
        BY <3>2, TracedFields
      <4>2. Becomes(c, f)
        BY <2>2, <3>1
      <4> QED
        BY <3>2, <4>1, <4>2, PlaceTraces
    <3>4. Kept(c, {"pc", "at", "resolved", "unresolved"})
      BY <3>3 DEF Kept
    <3>5. call'[c].at = call[c].at /\ call'[c].resolved = call[c].resolved /\ call'[c].unresolved = call[c].unresolved
      BY <3>3, TracedFields DEF Kept
    <3> QED
      BY <2>1, <2>2, <3>3, <3>4, <3>5 DEF Varying, Traces, Computing
  <2>3. CASE ~FallsOpen(c)
    <3>1. Becomes(c, NextOne(c))
      BY <1>1, <2>3 DEF NextVariable
    <3> QED
      BY <2>1, <2>3, <3>1, NextOneTraces
  <2>4. CASE FallsOpen(c) /\ (~Computable(c) \/ VariableRef(c) = None)
    <3>1. Becomes(c, Unresolved(c))
      BY <1>1, <2>4 DEF NextVariable
    <3> QED
      BY <2>1, <2>4, <3>1, NextOneTraces
  <2>5. CASE FallsOpen(c) /\ Computable(c) /\ VariableRef(c) # None
    <3>1. CASE ~TypeKnown(c) /\ call[c].list = 0
      BY <1>1, <2>2, <2>5, <3>1 DEF NextVariable
    <3>2. CASE ~(~TypeKnown(c) /\ call[c].list = 0)
      <4>1. Becomes(c, Looked(c, IF TypeKnown(c) THEN Variable(c).datasource.type ELSE TypeListed(c)))
        BY <1>1, <2>5, <3>2 DEF NextVariable
      <4> QED
        BY <2>1, <2>5, <4>1, LookedTraces
    <3> QED
      BY <3>1, <3>2
  <2> QED
    BY <2>3, <2>4, <2>5
<1>2. ASSUME call[c].pc \in {"variable list", "variable query"}
      PROVE  call[c].pc \in Computing /\ MoreToDo(c) /\ FallsOpen(c)
  BY <1>2 DEF CallsSound, VariablesSound, Computing
<1>3. ASSUME VariableListArrives(c) PROVE Traces(c)
  <2>1. call[c].pc = "variable list" /\ SameLog
    BY <1>3 DEF VariableListArrives, SameLog
  <2>2. CASE Fails(c)
    BY <2>1, <2>2, FailsTraces DEF Traces, Early, Naming, Computing
  <2>3. CASE Becomes(c, Looked(c, TypeListed(c)))
    BY <1>2, <2>1, <2>3, LookedTraces
  <2> QED
    BY <1>3, <2>2, <2>3 DEF VariableListArrives
<1>4. ASSUME NEW ok \in BOOLEAN, NEW found \in Results, VariableQueryReturns(c, ok, found) PROVE Traces(c)
  <2>1. call[c].pc = "variable query" /\ SameLog
    BY <1>4 DEF VariableQueryReturns, SameLog
  <2>2. CASE ok /\ found # <<>>
    <3>1. Becomes(c, With(NextOne(c), [resolved |-> With([n \in {Variable(c).name} |-> found], call[c].resolved)]))
      BY <1>4, <2>2 DEF VariableQueryReturns
    <3> QED
      BY <1>2, <2>1, <2>2, <3>1, NextOneTraces
  <2>3. CASE ~(ok /\ found # <<>>)
    <3>1. Becomes(c, Unresolved(c))
      BY <1>4, <2>3 DEF VariableQueryReturns, LeftOpen
    <3> QED
      BY <1>2, <2>1, <3>1, NextOneTraces
  <2> QED
    BY <2>2, <2>3
<1> QED
  BY <1>1, <1>3, <1>4

--------------------------------------------------------------------------------
\* What is sent for a panel is what the variables stand for.
LEMMA SentPutsIn ==
  ASSUME NEW c, NEW p, NEW known
  PROVE  IsJob(c, Sent(c, p, known)) /\ Sent(c, p, known).panel = p /\ Sent(c, p, known).is \in {"asked", "failed"}
<1>1. PICK request : request = Request(c, p, known)
  OBVIOUS
<1>2. PICK is : is \in {"asked", "failed"} /\ is = IF Sendable(request) THEN "asked" ELSE "failed"
  OBVIOUS
<1>3. PICK job : job = [panel |-> p, request |-> request, is |-> is]
  OBVIOUS
<1>4. job = Sent(c, p, known)
  BY <1>1, <1>2, <1>3 DEF Sent
<1>5. DOMAIN job = {"panel", "request", "is"} /\ job["panel"] = p /\ job["request"] = request /\ job["is"] = is
  BY <1>3
<1>6. /\ DOMAIN request = DOMAIN p.targets
      /\ \A j \in DOMAIN request : request[j].vars = Substituted(p.targets[j].raw, Variables(c), call[c].resolved)
  BY <1>1 DEF Request
<1> QED
  BY <1>2, <1>4, <1>5, <1>6 DEF IsJob, PutsIn

\* Panels are resolved: each becomes a job.
LEMMA ResolvingTraces ==
  ASSUME CallsSound, NEW c \in Call, NEW panels, call[c].pc = "variables", ~MoreToDo(c),
         Resolving(c, panels), SameLog,
         \A i, j \in DOMAIN panels : panels[i].panel = panels[j].panel => i = j,
         call[c].req.tool = "render" => panels = ToExecute(c)
  PROVE  Traces(c)
<1> DEFINE waits(p) == \E i \in DOMAIN p.targets : NeedsList(c, p.targets[i])
<1> HIDE DEF waits
<1>0. PICK known : known = FALSE
  OBVIOUS
<1>1. PICK jobs : jobs = [i \in DOMAIN panels |->
                            IF waits(panels[i])
                            THEN [panel |-> panels[i], request |-> <<>>, is |-> "resolving"]
                            ELSE Sent(c, panels[i], known)]
  OBVIOUS
<1>2. Becomes(c, [pc |-> "panels", list |-> Served(c), jobs |-> jobs])
  BY <1>0, <1>1 DEF Resolving, waits
<1>3. PICK f : f = [pc |-> "panels", list |-> Served(c), jobs |-> jobs]
  OBVIOUS
<1>4. DOMAIN f = {"pc", "list", "jobs"} /\ f["pc"] = "panels" /\ f["jobs"] = jobs
  BY <1>3
<1>5. (DOMAIN f) \cap Traced \subseteq {"pc", "jobs"}
  BY <1>4, TracedFields
<1>6. Becomes(c, f)
  BY <1>2, <1>3
<1>7. Kept(c, {"pc", "jobs"}) /\ \A x \in Traced \cap DOMAIN f : call'[c][x] = f[x]
  BY <1>5, <1>6, Keeps
<1>8. call'[c].pc = "panels" /\ call'[c].jobs = jobs
  BY <1>4, <1>7, TracedFields
<1>9. ASSUME NEW i \in DOMAIN jobs
      PROVE  IsJob(c, jobs[i]) /\ jobs[i].is # "answered" /\ jobs[i].panel = panels[i]
  <2>1. CASE waits(panels[i])
    <3>1. PICK job : job = [panel |-> panels[i], request |-> <<>>, is |-> "resolving"]
      OBVIOUS
    <3>2. DOMAIN job = {"panel", "request", "is"} /\ job["panel"] = panels[i] /\ job["request"] = <<>>
          /\ job["is"] = "resolving"
      BY <3>1
    <3>3. jobs[i] = job
      BY <1>1, <2>1, <3>1
    <3>4. DOMAIN job["request"] = {}
      BY <3>2
    <3> QED
      BY <3>2, <3>3, <3>4 DEF IsJob, PutsIn
  <2>2. CASE ~waits(panels[i])
    <3>1. jobs[i] = Sent(c, panels[i], known)
      BY <1>1, <2>2
    <3> QED
      BY <3>1, SentPutsIn
  <2> QED
    BY <2>1, <2>2
<1>10. \A i, j \in DOMAIN jobs : jobs[i].panel.panel = jobs[j].panel.panel => i = j
  <2>1. DOMAIN jobs = DOMAIN panels /\ \A i \in DOMAIN jobs : jobs[i].panel = panels[i]
    BY <1>1, <1>9
  <2> QED
    BY <2>1
<1>11. DOMAIN jobs = DOMAIN panels
  BY <1>1
<1>12. Asking(c)
  BY <1>7, <1>8, <1>9, <1>10, <1>11 DEF Asking
<1> QED
  BY <1>12 DEF Traces

\* The list of datasources arrives: the panels that waited for it are asked for.
LEMMA ListTraces == ASSUME CallsSound, NEW c \in Call, ListArrives(c) PROVE Traces(c)
<1>1. call[c].pc = "panels" /\ SameLog
  BY DEF ListArrives, Awaiting, SameLog
<1>2. PICK known : known = (fetches[call[c].list].is = "ok")
  OBVIOUS
<1>3. PICK jobs : jobs = [i \in DOMAIN call[c].jobs |->
                            IF call[c].jobs[i].is = "resolving" THEN Sent(c, call[c].jobs[i].panel, known)
                            ELSE call[c].jobs[i]]
  OBVIOUS
<1>4. Becomes(c, [jobs |-> jobs])
  BY <1>2, <1>3 DEF ListArrives
<1>5. PICK f : f = [jobs |-> jobs]
  OBVIOUS
<1>6. DOMAIN f = {"jobs"} /\ f["jobs"] = jobs
  BY <1>5
<1>7. Kept(c, {"jobs"}) /\ \A x \in Traced \cap DOMAIN f : call'[c][x] = f[x]
  BY <1>4, <1>5, <1>6, Keeps
<1>8. call'[c].jobs = jobs
  BY <1>6, <1>7, TracedFields
<1>9. ASSUME NEW i \in DOMAIN call[c].jobs, call[c].jobs[i].is = "resolving"
      PROVE  /\ IsJob(c, jobs[i]) /\ jobs[i].panel = call[c].jobs[i].panel /\ jobs[i].is # "answered"
             /\ call[c].jobs[i].is # "answered"
  <2>1. jobs[i] = Sent(c, call[c].jobs[i].panel, known)
    BY <1>3, <1>9
  <2> QED
    BY <1>9, <2>1, SentPutsIn
<1>10. \A i \in DOMAIN call[c].jobs : call[c].jobs[i].is # "resolving" => jobs[i] = call[c].jobs[i]
  BY <1>3
<1>11. DOMAIN jobs = DOMAIN call[c].jobs
  BY <1>3
<1>12. Listing(c)
  BY <1>1, <1>7, <1>8, <1>9, <1>10, <1>11 DEF Listing
<1> QED
  BY <1>12 DEF Traces

\* A panel's query returns.
LEMMA QueryTraces ==
  ASSUME CallsSound, NEW c \in Call, NEW i \in DOMAIN call[c].jobs, NEW ok \in BOOLEAN, QueryReturns(c, i, ok)
  PROVE  Traces(c)
<1>1. /\ call[c].pc = "panels" /\ call[c].jobs[i].is = "asked"
      /\ IF ok /\ call[c].req.tool = "render" THEN Record(c, call[c].jobs[i].panel.panel) ELSE SameLog
  BY DEF QueryReturns, Asked, Awaiting, Settles, SameLog
<1>2. PICK jobs : jobs = Job(c, i, IF ok THEN "answered" ELSE "failed")
  OBVIOUS
<1>3. Becomes(c, [jobs |-> jobs])
  BY <1>2 DEF QueryReturns, Settles
<1>4. PICK f : f = [jobs |-> jobs]
  OBVIOUS
<1>5. DOMAIN f = {"jobs"} /\ f["jobs"] = jobs
  BY <1>4
<1>6. Kept(c, {"jobs"}) /\ \A x \in Traced \cap DOMAIN f : call'[c][x] = f[x]
  BY <1>3, <1>4, <1>5, Keeps
<1>7. call'[c].jobs = jobs
  BY <1>5, <1>6, TracedFields
<1>8. Hearing(c)
  BY <1>1, <1>2, <1>6, <1>7 DEF Hearing
<1> QED
  BY <1>8 DEF Traces

\* Every step of a replay.
LEMMA ReplayTraces == ASSUME CallsSound, NEW c \in Call, Replays(c) PROVE Traces(c)
BY VariableTraces, ListTraces, QueryTraces DEF Replays

--------------------------------------------------------------------------------
\* Of a sequence's places as many are picked as there are, each once.
LEMMA PickedSo ==
  ASSUME NEW s, s \in Seq(ToSet(s)), NEW I \in SUBSET DOMAIN s, NEW t, t = Picked(s, I)
  PROVE  /\ t \in Seq(ToSet(t)) /\ Len(t) \in Nat /\ DOMAIN t = 1..Len(t)
         /\ \E b \in Bijection(1..Len(t), I) : \A k \in 1..Len(t) : t[k] = s[b[k]]
<1>1. t \in Seq(ToSet(s)) /\ \E b \in Bijection(1..Len(t), I) : \A k \in 1..Len(t) : t[k] = s[b[k]]
  BY PickedPlaces
<1>2. t \in Seq(ToSet(t))
  BY <1>1, OwnValues
<1> QED
  BY <1>1, <1>2

\* The places of the panels that have targets.
QueryPlaces(flat) == {i \in DOMAIN flat : Queryable(flat[i])}

\* The panels of a dashboard that have targets, and what is made of each.
LEMMA QueriesSo ==
  ASSUME NEW board, NEW flat, flat = Flattened(board.panels), flat \in Seq(ToSet(flat)),
         NEW queries, queries = PanelQueries(board), NEW I, I = QueryPlaces(flat)
  PROVE  /\ queries \in Seq(ToSet(queries)) /\ Len(queries) \in Nat /\ DOMAIN queries = 1..Len(queries)
         /\ \E b \in Bijection(1..Len(queries), I) :
              \A k \in 1..Len(queries) : queries[k] = ResolvedPanel(flat[b[k]])
<1>1. I \in SUBSET DOMAIN flat
  BY DEF QueryPlaces
<1>2. PICK leaves : leaves = Picked(flat, I)
  OBVIOUS
<1>3. /\ leaves \in Seq(ToSet(leaves)) /\ Len(leaves) \in Nat /\ DOMAIN leaves = 1..Len(leaves)
      /\ \E b \in Bijection(1..Len(leaves), I) : \A k \in 1..Len(leaves) : leaves[k] = flat[b[k]]
  BY <1>1, <1>2, PickedSo
<1>4. queries = [i \in DOMAIN leaves |-> ResolvedPanel(leaves[i])]
  BY <1>1, <1>2 DEF PanelQueries, Filter, QueryPlaces
<1>5. PICK V : V = {ResolvedPanel(leaves[i]) : i \in DOMAIN leaves}
  OBVIOUS
<1>6. queries \in Seq(V) /\ Len(queries) = Len(leaves)
  BY <1>3, <1>4, <1>5
<1>7. queries \in Seq(ToSet(queries))
  BY <1>6, OwnValues
<1>8. Len(queries) \in Nat /\ DOMAIN queries = 1..Len(queries) /\ DOMAIN leaves = 1..Len(queries)
  <2>1. DOMAIN queries = DOMAIN leaves
    BY <1>4
  <2> QED
    BY <1>3, <1>6, <2>1
<1>9. PICK b \in Bijection(1..Len(leaves), I) : \A k \in 1..Len(leaves) : leaves[k] = flat[b[k]]
  BY <1>3
<1>10. b \in Bijection(1..Len(queries), I)
  BY <1>6, <1>9
<1>11. \A k \in 1..Len(queries) : queries[k] = ResolvedPanel(flat[b[k]])
  BY <1>4, <1>6, <1>8, <1>9
<1> QED
  BY <1>7, <1>8, <1>10, <1>11

\* A dashboard's panels, those that have targets, and those that are queried.
LEMMA BoardLists ==
  ASSUME NEW uid \in DOMAIN Board
  PROVE  /\ Flattened(Board[uid].panels) \in Seq(ToSet(Flattened(Board[uid].panels)))
         /\ PanelQueries(Board[uid]) \in Seq(ToSet(PanelQueries(Board[uid])))
         /\ ToQuery(Board[uid]) \in Seq(ToSet(ToQuery(Board[uid])))
<1>1. PICK flat : flat = Flattened(Board[uid].panels)
  OBVIOUS
<1>2. flat \in Seq(ToSet(flat))
  BY <1>1, PanelsAssumption, FlattenedAll
<1>3. PICK queries : queries = PanelQueries(Board[uid])
  OBVIOUS
<1>4. queries \in Seq(ToSet(queries))
  <2>1. PICK I : I = QueryPlaces(flat)
    OBVIOUS
  <2> QED
    BY <1>1, <1>2, <1>3, <2>1, QueriesSo
<1>5. PICK I \in SUBSET DOMAIN queries : I = {i \in DOMAIN queries : ~Mirror(queries[i])}
  OBVIOUS
<1>6. PICK queried : queried = Picked(queries, I)
  OBVIOUS
<1>7. queried \in Seq(ToSet(queried))
  BY <1>4, <1>6, PickedSo
<1>8. ToQuery(Board[uid]) = queried
  BY <1>3, <1>5, <1>6 DEF ToQuery, Filter
<1> QED
  BY <1>1, <1>2, <1>3, <1>4, <1>7, <1>8

\* The panels a render asks for are no two the same.
LEMMA ExecutedOnce ==
  ASSUME CallsSound, NEW c \in Call, call[c].uid \in DOMAIN Board
  PROVE  \A i, j \in DOMAIN ToExecute(c) : ToExecute(c)[i].panel = ToExecute(c)[j].panel => i = j
<1>1. PICK queried : queried = Executable(c)
  OBVIOUS
<1>2. /\ queried \in Seq(ToSet(queried))
      /\ \A i, j \in DOMAIN queried : queried[i].panel = queried[j].panel => i = j
  BY <1>1, BoardLists, PanelsAssumption DEF Executable, TheBoard
<1>3. call[c].req.limit \in Nat /\ Len(queried) \in Nat
  BY <1>2 DEF CallsSound, CallSound
<1>4. PICK n : n = Limit(c)
  OBVIOUS
<1>5. n \in Nat /\ n <= Len(queried)
  <2>1. n = Min({call[c].req.limit, Len(queried)})
    BY <1>1, <1>4 DEF Limit
  <2>2. CASE call[c].req.limit <= Len(queried)
    BY <1>3, <2>1, <2>2 DEF Min
  <2>3. CASE call[c].req.limit > Len(queried)
    BY <1>3, <2>1, <2>3 DEF Min
  <2> QED
    BY <1>3, <2>2, <2>3
<1>6. ToExecute(c) = SubSeq(queried, 1, n)
  BY <1>1, <1>4 DEF ToExecute
<1>7. DOMAIN ToExecute(c) = 1..n /\ \A i \in 1..n : ToExecute(c)[i] = queried[i] /\ i \in DOMAIN queried
  BY <1>2, <1>5, <1>6
<1> QED
  BY <1>2, <1>7

\* The variables are next.
LEMMA StartTraces ==
  ASSUME CallsSound, NEW c \in Call, call[c].pc \in Early \ Naming, SameLog,
         NEW f, Becomes(c, f), (DOMAIN f) \cap Traced = {"pc", "at", "resolved"},
         f["pc"] = "variables", f["at"] = 1, f["resolved"] = call[c].overrides
  PROVE  Traces(c)
<1>1. Kept(c, {"pc", "at", "resolved"}) /\ \A x \in Traced \cap DOMAIN f : call'[c][x] = f[x]
  BY Keeps
<1>2. call'[c].pc = "variables" /\ call'[c].at = 1 /\ call'[c].resolved = call[c].overrides
  BY <1>1
<1> QED
  BY <1>1, <1>2 DEF Starting, Traces

\* A page goes on to a place of which only that is traced.
LEMMA PageTraces ==
  ASSUME CallsSound, NEW c \in Call, call[c].pc \in Early \ Naming, call[c].req.tool # "render", SameLog,
         NEW f, Becomes(c, f), "pc" \in DOMAIN f, (DOMAIN f) \cap Traced \subseteq {"pc"},
         f["pc"] \in {"gate", "saving"} \cup Browsing
  PROVE  Traces(c)
<1>1. Kept(c, {"pc"}) /\ call'[c].pc = f["pc"]
  BY PlaceTraces
<1>2. Kept(c, {"pc", "uid", "panelId", "overrides"}) /\ call'[c].uid = call[c].uid
  BY <1>1, TracedFields DEF Kept
<1>3. call[c].uid \in DOMAIN Board
  BY DEF CallsSound, CallSound, Early, Naming, Browsing
<1> QED
  BY <1>1, <1>2, <1>3 DEF Arriving, Traces, Early

\* An export queries its panel itself, or fails.
LEMMA DirectTraces ==
  ASSUME CallsSound, NEW c \in Call, call[c].pc \in Early \ Naming, SameLog,
         NEW fields, Direct(c, fields), (DOMAIN fields) \cap Traced = {}
  PROVE  Traces(c)
<1>1. PICK f : f = IF Mirror(Panel(c)) THEN [pc |-> "audit", ok |-> FALSE]
                   ELSE [pc |-> "variables", at |-> 1, resolved |-> call[c].overrides]
  OBVIOUS
<1>2. PICK g : g = With(fields, f)
  OBVIOUS
<1>3. Becomes(c, g)
  BY <1>1, <1>2 DEF Direct
<1>4. CASE Mirror(Panel(c))
  <2>1. DOMAIN f = {"pc", "ok"} /\ f["pc"] = "audit" /\ f["ok"] = FALSE
    BY <1>1, <1>4
  <2>2. /\ DOMAIN g = (DOMAIN fields) \cup {"pc", "ok"}
        /\ \A x \in DOMAIN g : g[x] = IF x \in DOMAIN fields THEN fields[x] ELSE f[x]
    BY <1>2, <2>1 DEF With
  <2>3. (DOMAIN g) \cap Traced = {"pc", "ok"} /\ g["pc"] = "audit" /\ g["ok"] = FALSE
    BY <2>1, <2>2, TracedFields
  <2>4. Kept(c, {"pc", "ok"}) /\ \A x \in Traced \cap DOMAIN g : call'[c][x] = g[x]
    BY <1>3, <2>3, Keeps
  <2>5. call'[c].pc = "audit" /\ call'[c].ok = FALSE /\ call'[c].jobs = call[c].jobs
    BY <2>3, <2>4, TracedFields DEF Kept
  <2>6. call[c].jobs = <<>> /\ call[c].pc \notin {"audit", "over", "panels"}
    BY DEF CallsSound, CallSound, Early, Browsing
  <2>7. Kept(c, {"pc", "ok", "jobs"})
    BY <2>4, KeptMore
  <2> QED
    BY <2>5, <2>6, <2>7 DEF Failing, Traces
<1>5. CASE ~Mirror(Panel(c))
  <2>1. DOMAIN f = {"pc", "at", "resolved"} /\ f["pc"] = "variables" /\ f["at"] = 1 /\ f["resolved"] = call[c].overrides
    BY <1>1, <1>5
  <2>2. /\ DOMAIN g = (DOMAIN fields) \cup {"pc", "at", "resolved"}
        /\ \A x \in DOMAIN g : g[x] = IF x \in DOMAIN fields THEN fields[x] ELSE f[x]
    BY <1>2, <2>1 DEF With
  <2>3. /\ (DOMAIN g) \cap Traced = {"pc", "at", "resolved"}
        /\ g["pc"] = "variables" /\ g["at"] = 1 /\ g["resolved"] = call[c].overrides
    BY <2>1, <2>2, TracedFields
  <2> QED
    BY <1>3, <2>3, StartTraces
<1> QED
  BY <1>4, <1>5

\* Every step of a render that is not a replay's.
LEMMA RenderTraces == ASSUME CallsSound, NEW c \in Call, Renders(c) PROVE Traces(c)
<1>1. ASSUME NEW ok \in BOOLEAN, RenderWindowArrives(c, ok) PROVE Traces(c)
  <2>1. call[c].pc = "window" /\ SameLog
    BY <1>1 DEF RenderWindowArrives, Rendering, Awaiting, SameLog
  <2>2. CASE Fails(c)
    BY <2>1, <2>2, FailsTraces DEF Traces, Early, Naming, Computing
  <2>3. CASE Becomes(c, [pc |-> "variables", at |-> 1, resolved |-> call[c].overrides])
    <3>1. PICK f : f = [pc |-> "variables", at |-> 1, resolved |-> call[c].overrides]
      OBVIOUS
    <3>2. DOMAIN f = {"pc", "at", "resolved"} /\ f["pc"] = "variables" /\ f["at"] = 1 /\ f["resolved"] = call[c].overrides
      BY <3>1
    <3>3. (DOMAIN f) \cap Traced = {"pc", "at", "resolved"}
      BY <3>2, TracedFields
    <3>4. call[c].pc \in Early \ Naming
      BY <2>1 DEF Early, Naming
    <3> QED
      BY <2>1, <2>3, <3>1, <3>2, <3>3, <3>4, StartTraces
  <2> QED
    BY <1>1, <2>2, <2>3 DEF RenderWindowArrives
<1>2. ASSUME FanOut(c) PROVE Traces(c)
  <2>1. call[c].pc = "variables" /\ ~MoreToDo(c) /\ SameLog /\ Resolving(c, ToExecute(c))
    BY <1>2 DEF FanOut, Rendering, Awaiting, SameLog
  <2>2. call[c].uid \in DOMAIN Board
    BY <2>1 DEF CallsSound, CallSound, Naming
  <2>3. \A i, j \in DOMAIN ToExecute(c) : ToExecute(c)[i].panel = ToExecute(c)[j].panel => i = j
    BY <2>2, ExecutedOnce
  <2>4. PICK panels : panels = ToExecute(c)
    OBVIOUS
  <2> QED
    BY <2>1, <2>3, <2>4, ResolvingTraces
<1>3. ASSUME RenderAnswer(c) PROVE Traces(c)
  <2>1. call[c].pc = "panels" /\ call[c].req.tool = "render" /\ SameLog
    BY <1>3 DEF RenderAnswer, Rendering, Awaiting, SameLog
  <2>2. PICK f : f = [pc |-> "audit", panels |-> Reported(c)]
    OBVIOUS
  <2>3. DOMAIN f = {"pc", "panels"} /\ f["pc"] = "audit" /\ f["panels"] = Reported(c)
    BY <2>2
  <2>4. (DOMAIN f) \cap Traced = {"pc", "panels"}
    BY <2>3, TracedFields
  <2>5. Becomes(c, f)
    BY <1>3, <2>2 DEF RenderAnswer
  <2>6. Kept(c, {"pc", "panels"}) /\ \A x \in Traced \cap DOMAIN f : call'[c][x] = f[x]
    BY <2>4, <2>5, Keeps
  <2>7. call'[c].pc = "audit" /\ call'[c].panels = Reported(c)
    BY <2>3, <2>4, <2>6
  <2> QED
    BY <2>1, <2>6, <2>7 DEF Summing, Traces
<1> QED
  BY <1>1, <1>2, <1>3 DEF Renders

\* A page goes on, or has what it was opened for.
LEMMA OnTraces ==
  ASSUME CallsSound, NEW c \in Call, call[c].pc \in Early \ Naming, call[c].req.tool # "render", SameLog,
         NEW place \in {"gate", "saving"} \cup Browsing,
         \/ Becomes(c, [pc |-> place])
         \/ \E raw : Becomes(c, [pc |-> place, raw |-> raw])
         \/ Becomes(c, [pc |-> place, files |-> 1])
  PROVE  Traces(c)
<1>1. ASSUME NEW f, Becomes(c, f), DOMAIN f \subseteq {"pc", "raw", "files"}, "pc" \in DOMAIN f, f["pc"] = place
      PROVE  Traces(c)
  <2>1. (DOMAIN f) \cap Traced \subseteq {"pc"}
    BY <1>1, TracedFields
  <2> QED
    BY <1>1, <2>1, PageTraces
<1>2. CASE Becomes(c, [pc |-> place])
  <2>1. PICK f : f = [pc |-> place]
    OBVIOUS
  <2>2. DOMAIN f = {"pc"} /\ f["pc"] = place
    BY <2>1
  <2> QED
    BY <1>1, <1>2, <2>1, <2>2
<1>3. ASSUME NEW raw, Becomes(c, [pc |-> place, raw |-> raw]) PROVE Traces(c)
  <2>1. PICK f : f = [pc |-> place, raw |-> raw]
    OBVIOUS
  <2>2. DOMAIN f = {"pc", "raw"} /\ f["pc"] = place
    BY <2>1
  <2> QED
    BY <1>1, <1>3, <2>1, <2>2
<1>4. CASE Becomes(c, [pc |-> place, files |-> 1])
  <2>1. PICK f : f = [pc |-> place, files |-> 1]
    OBVIOUS
  <2>2. DOMAIN f = {"pc", "files"} /\ f["pc"] = place
    BY <2>1
  <2> QED
    BY <1>1, <1>4, <2>1, <2>2
<1> QED
  BY <1>2, <1>3, <1>4

\* What a page that failed comes to.
LEMMA GivesTraces ==
  ASSUME CallsSound, NEW c \in Call, call[c].pc \in Browsing, SameLog, Gives(c)
  PROVE  Traces(c)
<1>1. call[c].pc \in Early \ Naming
  BY DEF Early, Naming, Browsing
<1>2. CASE Fails(c)
  BY <1>1, <1>2, FailsTraces DEF Early, Naming, Computing, Browsing, Traces
<1>3. CASE Direct(c, [note |-> TRUE])
  <2>1. PICK f : f = [note |-> TRUE]
    OBVIOUS
  <2>2. DOMAIN f = {"note"}
    BY <2>1
  <2>3. (DOMAIN f) \cap Traced = {}
    BY <2>2, TracedFields
  <2> QED
    BY <1>1, <1>3, <2>1, <2>3, DirectTraces
<1> QED
  BY <1>2, <1>3 DEF Gives

\* Every step of a page.
LEMMA PagesTraces == ASSUME CallsSound, NEW c \in Call, Pages(c) PROVE Traces(c)
<1>1. ASSUME call[c].pc \in {"gate"} \cup Browsing PROVE call[c].pc \in Early \ Naming /\ call[c].req.tool # "render"
  BY <1>1 DEF CallsSound, CallSound, Early, Naming, Browsing
<1>2. CASE Capture(c)
  <2>1. call[c].pc = "gate" /\ SameLog /\ Becomes(c, [pc |-> "loading"])
    BY <1>2 DEF Capture, Using, Awaiting, Shared, SameLog
  <2> QED
    BY <1>1, <2>1, OnTraces DEF Browsing
<1>3. ASSUME NEW ok \in BOOLEAN, DirectoryMade(c, ok) PROVE Traces(c)
  <2>1. call[c].pc = "directory" /\ SameLog
    BY <1>3 DEF DirectoryMade, Using, Awaiting, Shared, SameLog
  <2>2. call[c].pc \in Browsing
    BY <2>1 DEF Browsing
  <2>3. CASE Becomes(c, [pc |-> "loading"])
    BY <1>1, <2>1, <2>2, <2>3, OnTraces DEF Browsing
  <2>4. CASE Direct(c, [note |-> TRUE, stranded |-> TRUE])
    <3>1. PICK f : f = [note |-> TRUE, stranded |-> TRUE]
      OBVIOUS
    <3>2. DOMAIN f = {"note", "stranded"}
      BY <3>1
    <3>3. (DOMAIN f) \cap Traced = {}
      BY <3>2, TracedFields
    <3> QED
      BY <1>1, <2>1, <2>2, <2>4, <3>1, <3>3, DirectTraces
  <2> QED
    BY <1>3, <2>3, <2>4 DEF DirectoryMade
<1>4. ASSUME NEW ok \in BOOLEAN, PageLoads(c, ok) PROVE Traces(c)
  <2>1. call[c].pc = "loading" /\ SameLog /\ (Gives(c) \/ Becomes(c, [pc |-> "quieting"]))
    BY <1>4 DEF PageLoads, Awaiting, Shared, SameLog
  <2> QED
    BY <1>1, <2>1, OnTraces, GivesTraces DEF Browsing
<1>5. ASSUME NEW ok \in BOOLEAN, PageQuiets(c, ok) PROVE Traces(c)
  <2>1. /\ call[c].pc = "quieting" /\ SameLog
        /\ Gives(c) \/ Becomes(c, [pc |-> "capturing"]) \/ Becomes(c, [pc |-> "expanding"])
    BY <1>5 DEF PageQuiets, Awaiting, Shared, SameLog
  <2> QED
    BY <1>1, <2>1, OnTraces, GivesTraces DEF Browsing
<1>6. ASSUME NEW ok \in BOOLEAN, PageCaptured(c, ok) \/ Downloaded(c, ok) PROVE Traces(c)
  <2>1. /\ call[c].pc \in {"capturing", "downloading"} /\ SameLog
        /\ Gives(c) \/ Becomes(c, [pc |-> "saving", files |-> 1])
    BY <1>6 DEF PageCaptured, Downloaded, Awaiting, Shared, SameLog
  <2> QED
    BY <1>1, <2>1, OnTraces, GivesTraces DEF Browsing
<1>7. ASSUME NEW ok \in BOOLEAN, DataOptionsExpand(c, ok) PROVE Traces(c)
  <2>1. call[c].pc = "expanding" /\ SameLog /\ (Gives(c) \/ Becomes(c, [pc |-> "toggling"]))
    BY <1>7 DEF DataOptionsExpand, Awaiting, Shared, SameLog
  <2> QED
    BY <1>1, <2>1, OnTraces, GivesTraces DEF Browsing
<1>8. ASSUME NEW found, TransformToggled(c, found) PROVE Traces(c)
  <2>1. /\ call[c].pc = "toggling" /\ SameLog
        /\ Direct(c, <<>>) \/ Becomes(c, [pc |-> "downloading"]) \/ Gives(c)
    BY <1>8 DEF TransformToggled, Awaiting, Shared, SameLog
  <2>2. PICK f : f = <<>>
    OBVIOUS
  <2>3. (DOMAIN f) \cap Traced = {}
    BY <2>2
  <2>4. Direct(c, <<>>) => Traces(c)
    BY <1>1, <2>1, <2>2, <2>3, DirectTraces DEF Browsing
  <2> QED
    BY <1>1, <2>1, <2>4, OnTraces, GivesTraces DEF Browsing
<1> QED
  BY <1>2, <1>3, <1>4, <1>5, <1>6, <1>7, <1>8 DEF Pages

\* Every step of an export.
LEMMA ExportTraces == ASSUME CallsSound, NEW c \in Call, Exports(c) PROVE Traces(c)
<1>1. ASSUME NEW ok \in BOOLEAN, PanelWindowArrives(c, ok) PROVE Traces(c)
  <2>1. call[c].pc = "window" /\ call[c].req.tool # "render" /\ SameLog
    BY <1>1 DEF PanelWindowArrives, Awaiting, Shared, SameLog
  <2>2. call[c].pc \in Early \ Naming
    BY <2>1 DEF Early, Naming
  <2>3. PICK raw : raw = listed[call[c].conn]
    OBVIOUS
  <2>4. \/ Fails(c) \/ Direct(c, [raw |-> raw])
        \/ \E place \in {"gate", "directory"} : Becomes(c, [pc |-> place, raw |-> raw])
    BY <1>1, <2>3 DEF PanelWindowArrives
  <2>5. CASE Fails(c)
    BY <2>1, <2>5, FailsTraces DEF Traces, Early, Naming, Computing
  <2>6. CASE Direct(c, [raw |-> raw])
    <3>1. PICK f : f = [raw |-> raw]
      OBVIOUS
    <3>2. DOMAIN f = {"raw"}
      BY <3>1
    <3>3. (DOMAIN f) \cap Traced = {}
      BY <3>2, TracedFields
    <3> QED
      BY <2>1, <2>2, <2>6, <3>1, <3>3, DirectTraces
  <2>7. ASSUME NEW place \in {"gate", "directory"}, Becomes(c, [pc |-> place, raw |-> raw]) PROVE Traces(c)
    BY <2>1, <2>2, <2>7, OnTraces DEF Browsing
  <2> QED
    BY <2>4, <2>5, <2>6, <2>7
<1>2. ASSUME NEW ok \in BOOLEAN, Save(c, ok) PROVE Traces(c)
  <2>1. call[c].pc = "saving" /\ SameLog /\ (Fails(c) \/ Becomes(c, [saved |-> call[c].saved + 1]))
    BY <1>2 DEF Save, Awaiting, Shared, SameLog
  <2>2. CASE Fails(c)
    BY <2>1, <2>2, FailsTraces DEF Traces, CallsSound, CallSound
  <2>3. CASE Becomes(c, [saved |-> call[c].saved + 1])
    <3>1. PICK f : f = [saved |-> call[c].saved + 1]
      OBVIOUS
    <3>2. DOMAIN f = {"saved"}
      BY <3>1
    <3>3. (DOMAIN f) \cap Traced \subseteq {}
      BY <3>2, TracedFields
    <3>4. Kept(c, {})
      BY <2>3, <3>1, <3>3, Keeps
    <3>5. Kept(c, {"pc"}) /\ call'[c].pc = call[c].pc
      BY <3>4, TracedFields DEF Kept
    <3>6. call[c].req.tool # "render"
      BY <2>1 DEF CallsSound, CallSound
    <3> QED
      BY <2>1, <3>5, <3>6 DEF Saving, Traces
  <2> QED
    BY <2>1, <2>2, <2>3
<1>3. ASSUME ExportAsks(c) PROVE Traces(c)
  <2>1. call[c].pc = "variables" /\ ~MoreToDo(c) /\ SameLog /\ Resolving(c, <<Panel(c)>>)
    BY <1>3 DEF ExportAsks, Using, Awaiting, SameLog
  <2>4. call[c].req.tool # "render"
    BY <1>3 DEF ExportAsks, Using
  <2>2. PICK panels : panels = <<Panel(c)>>
    OBVIOUS
  <2>3. \A i, j \in DOMAIN panels : panels[i].panel = panels[j].panel => i = j
    BY <2>2
  <2> QED
    BY <2>1, <2>2, <2>3, <2>4, ResolvingTraces
<1>4. ASSUME NEW n \in 0..MaxFrames, ExportAnswered(c, n) PROVE Traces(c)
  <2>1. /\ call[c].pc = "panels" /\ call[c].req.tool = "csv" /\ SameLog
        /\ Fails(c) \/ Becomes(c, [pc |-> "saving", files |-> n])
    BY <1>4 DEF ExportAnswered, Using, Awaiting, Shared, SameLog
  <2>2. CASE Fails(c)
    BY <2>1, <2>2, FailsTraces DEF Traces, Early, Naming, Computing
  <2>3. CASE Becomes(c, [pc |-> "saving", files |-> n])
    <3>1. PICK f : f = [pc |-> "saving", files |-> n]
      OBVIOUS
    <3>2. DOMAIN f = {"pc", "files"} /\ f["pc"] = "saving"
      BY <3>1
    <3>3. (DOMAIN f) \cap Traced \subseteq {"pc"} /\ "pc" \in DOMAIN f
      BY <3>2, TracedFields
    <3>4. Kept(c, {"pc"}) /\ call'[c].pc = "saving"
      BY <2>3, <3>1, <3>2, <3>3, PlaceTraces
    <3> QED
      BY <2>1, <3>4 DEF Saving, Traces
  <2> QED
    BY <2>1, <2>2, <2>3
<1>5. ASSUME PanelAnswer(c) PROVE Traces(c)
  <2>1. call[c].pc = "saving" /\ Record(c, Panel(c).panel) /\ Becomes(c, [pc |-> "audit"])
    BY <1>5 DEF PanelAnswer, Awaiting
  <2>2. Kept(c, {"pc"}) /\ call'[c].pc = "audit"
    BY <2>1, GoesTraces
  <2> QED
    BY <2>1, <2>2 DEF Logging, Traces
<1> QED
  BY <1>1, <1>2, <1>3, <1>4, <1>5 DEF Exports

\* Every step of a call is one of these.
LEMMA EveryStepTraces == ASSUME TypeOK, CallsSound, NEW c \in Call, Steps(c) PROVE Traces(c)
BY ArrivalTraces, ReplayTraces, RenderTraces, PagesTraces, ExportTraces DEF Steps

--------------------------------------------------------------------------------
\* What is traced of a call stays sound.
LEMMA TracesCallSound == ASSUME CallsSound, NEW c \in Call, Traces(c) PROVE CallSound(c)'
<1>1. CallSound(c)
  BY DEF CallsSound
<1>2. ASSUME NEW X, Kept(c, X)
      PROVE  /\ Traced \subseteq DOMAIN call'[c]
             /\ "req" \notin X => call'[c].req = call[c].req
             /\ "pc" \notin X => call'[c].pc = call[c].pc
             /\ "uid" \notin X => call'[c].uid = call[c].uid
             /\ "ok" \notin X => call'[c].ok = call[c].ok
             /\ "jobs" \notin X => call'[c].jobs = call[c].jobs
  BY <1>2, TracedFields DEF Kept
<1> DEFINE Jobs(jobs) ==
      /\ \A i \in DOMAIN jobs : {"panel", "request", "is"} \subseteq DOMAIN jobs[i]
      /\ \A i, j \in DOMAIN jobs : jobs[i].panel.panel = jobs[j].panel.panel => i = j
<1>3. Jobs(call[c].jobs)
  BY <1>1 DEF CallSound
<1>4. ASSUME NEW jobs, jobs = <<>> PROVE Jobs(jobs)
  BY <1>4
<1> HIDE DEF Jobs
<1>5. CallSound(c)' =
        (/\ Traced \subseteq DOMAIN call'[c]
         /\ call'[c].req.limit \in Nat
         /\ call'[c].pc \notin Naming \cup {"audit", "over"} \/ call'[c].jobs # <<>> => call'[c].uid \in DOMAIN Board
         /\ call'[c].ok \in BOOLEAN
         /\ ~call'[c].ok => call'[c].pc \in {"audit", "over"} /\ call'[c].jobs = <<>>
         /\ call'[c].pc \in Early \cup Computing => call'[c].jobs = <<>>
         /\ call'[c].req.tool = "render" => call'[c].pc \notin {"gate", "saving"} \cup Browsing
         /\ Jobs(call'[c].jobs))
  BY DEF CallSound, Jobs, Early, Naming, Browsing, Computing
<1>6. CASE Failing(c)
  <2>1. /\ call'[c].pc = "audit" /\ call'[c].ok = FALSE /\ call'[c].jobs = <<>> /\ Kept(c, {"pc", "ok", "jobs"})
    BY <1>6 DEF Failing
  <2>2. Traced \subseteq DOMAIN call'[c] /\ call'[c].req = call[c].req
    BY <1>2, <2>1
  <2> QED
    BY <1>1, <1>4, <1>5, <2>1, <2>2 DEF CallSound, Early, Naming, Browsing, Computing
<1>7. CASE Arriving(c)
  <2>1. /\ call[c].pc \in Early /\ call'[c].pc \in Early \cup {"saving"}
        /\ call'[c].pc \notin Naming => call'[c].uid \in DOMAIN Board
        /\ call[c].req.tool = "render" => call'[c].pc \in Naming \cup {"window"}
        /\ Kept(c, {"pc", "uid", "panelId", "overrides"})
    BY <1>7 DEF Arriving
  <2>2. Traced \subseteq DOMAIN call'[c] /\ call'[c].req = call[c].req /\ call'[c].ok = call[c].ok
        /\ call'[c].jobs = call[c].jobs
    BY <2>1, TracedFields DEF Kept
  <2>3. call[c].jobs = <<>> /\ call[c].ok
    BY <1>1, <2>1 DEF CallSound, Early, Naming, Browsing
  <2>4. call'[c].req.tool = "render" => call'[c].pc \notin {"gate", "saving"} \cup Browsing
    BY <2>1, <2>2 DEF Naming, Browsing
  <2>5. call'[c].req.limit \in Nat /\ call'[c].ok \in BOOLEAN
    BY <1>1, <2>2 DEF CallSound
  <2> QED
    BY <1>3, <1>5, <2>1, <2>2, <2>3, <2>4, <2>5
<1>8. CASE Starting(c)
  <2>1. call[c].pc \in Early \ Naming /\ call'[c].pc = "variables" /\ Kept(c, {"pc", "at", "resolved"})
    BY <1>8 DEF Starting
  <2>2. Traced \subseteq DOMAIN call'[c] /\ call'[c].req = call[c].req /\ call'[c].ok = call[c].ok
        /\ call'[c].jobs = call[c].jobs /\ call'[c].uid = call[c].uid
    BY <1>2, <2>1
  <2> QED
    BY <1>1, <1>3, <1>5, <2>1, <2>2 DEF CallSound, Early, Naming, Browsing, Computing
<1>9. CASE Varying(c)
  <2>1. call[c].pc \in Computing /\ call'[c].pc \in Computing /\ Kept(c, {"pc", "at", "resolved", "unresolved"})
    BY <1>9 DEF Varying, Computing
  <2>2. Traced \subseteq DOMAIN call'[c] /\ call'[c].req = call[c].req /\ call'[c].ok = call[c].ok
        /\ call'[c].jobs = call[c].jobs /\ call'[c].uid = call[c].uid
    BY <1>2, <2>1
  <2> QED
    BY <1>1, <1>3, <1>5, <2>1, <2>2 DEF CallSound, Early, Naming, Browsing, Computing
<1>10. CASE Asking(c)
  <2>1. call[c].pc = "variables" /\ call'[c].pc = "panels" /\ Kept(c, {"pc", "jobs"})
    BY <1>10 DEF Asking
  <2>2. Traced \subseteq DOMAIN call'[c] /\ call'[c].req = call[c].req /\ call'[c].ok = call[c].ok
        /\ call'[c].uid = call[c].uid
    BY <1>2, <2>1
  <2>3. Jobs(call'[c].jobs)
    BY <1>10 DEF Asking, IsJob, Jobs
  <2> QED
    BY <1>1, <1>5, <2>1, <2>2, <2>3 DEF CallSound, Early, Naming, Browsing, Computing
<1>11. CASE Listing(c)
  <2>1. call[c].pc = "panels" /\ Kept(c, {"jobs"})
    BY <1>11 DEF Listing
  <2>2. Traced \subseteq DOMAIN call'[c] /\ call'[c].req = call[c].req /\ call'[c].ok = call[c].ok
        /\ call'[c].uid = call[c].uid /\ call'[c].pc = call[c].pc
    BY <1>2, <2>1
  <2>3. Jobs(call'[c].jobs)
    <3>1. \A i \in DOMAIN call[c].jobs : /\ {"panel", "request", "is"} \subseteq DOMAIN call'[c].jobs[i]
                                         /\ call'[c].jobs[i].panel = call[c].jobs[i].panel
      BY <1>3, <1>11 DEF Listing, IsJob, Jobs
    <3> QED
      BY <1>3, <1>11, <3>1 DEF Listing, Jobs
  <2> QED
    BY <1>1, <1>5, <2>1, <2>2, <2>3 DEF CallSound, Early, Naming, Browsing, Computing
<1>12. CASE Hearing(c)
  <2>1. call[c].pc = "panels" /\ Kept(c, {"jobs"})
    BY <1>12 DEF Hearing
  <2>2. Traced \subseteq DOMAIN call'[c] /\ call'[c].req = call[c].req /\ call'[c].ok = call[c].ok
        /\ call'[c].uid = call[c].uid /\ call'[c].pc = call[c].pc
    BY <1>2, <2>1
  <2>3. Jobs(call'[c].jobs)
    <3>1. PICK i \in DOMAIN call[c].jobs, is \in {"answered", "failed"} : call'[c].jobs = Job(c, i, is)
      BY <1>12 DEF Hearing
    <3>2. call'[c].jobs = [call[c].jobs EXCEPT ![i] = [call[c].jobs[i] EXCEPT !.is = is]]
      BY <3>1 DEF Job
    <3>3. PICK job : job = [call[c].jobs[i] EXCEPT !.is = is]
      OBVIOUS
    <3>4. DOMAIN job = DOMAIN call[c].jobs[i] /\ job["panel"] = call[c].jobs[i].panel
      BY <1>3, <3>3 DEF Jobs
    <3>5. \A j \in DOMAIN call[c].jobs : /\ {"panel", "request", "is"} \subseteq DOMAIN call'[c].jobs[j]
                                         /\ call'[c].jobs[j].panel = call[c].jobs[j].panel
      BY <1>3, <3>2, <3>3, <3>4 DEF Jobs
    <3>6. DOMAIN call'[c].jobs = DOMAIN call[c].jobs
      BY <3>2
    <3> QED
      BY <1>3, <3>5, <3>6 DEF Jobs
  <2> QED
    BY <1>1, <1>5, <2>1, <2>2, <2>3 DEF CallSound, Early, Naming, Browsing, Computing
<1>13. CASE Summing(c) \/ Saving(c) \/ Logging(c)
  <2>1. /\ call[c].pc \in {"panels", "saving"} /\ call'[c].pc \in {"saving", "audit"}
        /\ call'[c].pc = "saving" => call[c].req.tool # "render"
        /\ Kept(c, {"pc", "panels"})
    BY <1>13, KeptMore DEF Summing, Saving, Logging
  <2>2. Traced \subseteq DOMAIN call'[c] /\ call'[c].req = call[c].req /\ call'[c].ok = call[c].ok
        /\ call'[c].uid = call[c].uid /\ call'[c].jobs = call[c].jobs
    BY <1>2, <2>1
  <2> QED
    BY <1>1, <1>3, <1>5, <2>1, <2>2 DEF CallSound, Early, Naming, Browsing, Computing
<1>14. CASE Ending(c)
  <2>1. /\ call[c].pc = "audit" /\ call'[c].pc = "over"
        /\ call'[c].jobs = [i \in DOMAIN call[c].jobs |-> [call[c].jobs[i] EXCEPT !.request = <<>>]]
        /\ Kept(c, {"pc", "jobs", "at", "overrides", "resolved", "unresolved", "panels"})
    BY <1>14 DEF Ending
  <2>2. Traced \subseteq DOMAIN call'[c] /\ call'[c].req = call[c].req /\ call'[c].ok = call[c].ok
        /\ call'[c].uid = call[c].uid
    BY <2>1, TracedFields DEF Kept
  <2>3. Jobs(call'[c].jobs)
    <3>1. \A i \in DOMAIN call[c].jobs : /\ {"panel", "request", "is"} \subseteq DOMAIN call'[c].jobs[i]
                                         /\ call'[c].jobs[i].panel = call[c].jobs[i].panel
      BY <1>3, <2>1 DEF Jobs
    <3> QED
      BY <1>3, <2>1, <3>1 DEF Jobs
  <2>4. call[c].jobs = <<>> => call'[c].jobs = <<>>
    BY <2>1
  <2> QED
    BY <1>1, <1>5, <2>1, <2>2, <2>3, <2>4 DEF CallSound, Early, Naming, Browsing, Computing
<1> QED
  BY <1>6, <1>7, <1>8, <1>9, <1>10, <1>11, <1>12, <1>13, <1>14 DEF Traces

--------------------------------------------------------------------------------
\* What a variable stands for is a matter of its selection.
LEMMA SelectionDecides ==
  ASSUME NEW v, NEW some, NEW others, Selection(v, some) = Selection(v, others)
  PROVE  /\ RequestedAll(v, some) <=> RequestedAll(v, others)
         /\ MatchesEverything(v, some) <=> MatchesEverything(v, others)
<1>1. RequestedAll(v, some) <=> RequestedAll(v, others)
  BY DEF RequestedAll
<1>2. EffectiveValues(v, some) = EffectiveValues(v, others)
  BY <1>1 DEF EffectiveValues
<1> QED
  BY <1>1, <1>2 DEF MatchesEverything

\* A dashboard's variables are numbered, and differ in their names.
LEMMA VariablesDiffer ==
  ASSUME NEW c, call[c].uid \in DOMAIN Board
  PROVE  /\ Len(Variables(c)) \in Nat /\ DOMAIN Variables(c) = 1..Len(Variables(c))
         /\ \A i, j \in DOMAIN Variables(c) : Variables(c)[i].name = Variables(c)[j].name => i = j
<1>1. PICK variables : variables = Variables(c)
  OBVIOUS
<1>2. variables \in Seq(ToSet(variables)) /\ \A i, j \in DOMAIN variables : variables[i].name = variables[j].name => i = j
  BY <1>1, VariablesAssumption DEF Variables, TheBoard
<1>3. Len(variables) \in Nat /\ DOMAIN variables = 1..Len(variables)
  BY <1>2
<1> QED
  BY <1>1, <1>2, <1>3

\* A variable that is done with is told of, or has its values.
LEMMA VaryingTells == ASSUME CallsSound, NEW c \in Call, Varying(c) PROVE VariablesSound(c)'
<1>1. CallSound(c) /\ VariablesSound(c)
  BY DEF CallsSound
<1>2. /\ call[c].pc \in Computing /\ call'[c].pc \in Computing /\ MoreToDo(c)
      /\ Kept(c, {"pc", "at", "resolved", "unresolved"})
  BY DEF Varying, Computing
<1>3. /\ call'[c].uid = call[c].uid /\ call'[c].overrides = call[c].overrides /\ call'[c].jobs = call[c].jobs
  BY <1>2, TracedFields DEF Kept
<1>4. Variables(c)' = Variables(c) /\ call[c].uid \in DOMAIN Board
  BY <1>1, <1>2, <1>3 DEF Variables, TheBoard, CallSound, Naming, Computing
<1>5. DOMAIN call[c].jobs = {} /\ DOMAIN call'[c].jobs = {}
  BY <1>1, <1>2, <1>3 DEF CallSound
<1>6. PICK at : at = call[c].at
  OBVIOUS
<1>7. PICK vs : vs = Variables(c)
  OBVIOUS
<1>8. /\ at \in Nat \ {0} /\ at <= Len(vs) /\ Len(vs) \in Nat /\ DOMAIN vs = 1..Len(vs) /\ at \in DOMAIN vs
      /\ \A i, j \in DOMAIN vs : vs[i].name = vs[j].name => i = j
      /\ Variable(c) = vs[at]
  <2>1. at \in Nat \ {0} /\ at <= Len(vs)
    BY <1>1, <1>2, <1>6, <1>7 DEF VariablesSound, MoreToDo
  <2>2. Len(vs) \in Nat /\ DOMAIN vs = 1..Len(vs) /\ \A i, j \in DOMAIN vs : vs[i].name = vs[j].name => i = j
    BY <1>4, <1>7, VariablesDiffer
  <2> QED
    BY <1>6, <1>7, <2>1, <2>2 DEF Variable
<1>9. ASSUME NEW k \in DOMAIN vs
      PROVE  IF k < at THEN Told(c, vs[k])
             ELSE /\ vs[k].name \notin call[c].unresolved
                  /\ Selection(vs[k], call[c].resolved) = Selection(vs[k], call[c].overrides)
  BY <1>1, <1>2, <1>6, <1>7 DEF VariablesSound
<1>10. call'[c].pc \notin Early /\ call'[c].pc # "over"
  BY <1>2 DEF Early, Naming, Browsing, Computing
<1>11. SUFFICES
         /\ call'[c].at \in Nat \ {0}
         /\ call'[c].pc # "variables" => MoreToDo(c)' /\ FallsOpen(c)'
         /\ \A k \in DOMAIN vs :
              IF k < call'[c].at THEN Told(c, vs[k])'
              ELSE /\ vs[k].name \notin call'[c].unresolved
                   /\ Selection(vs[k], call'[c].resolved) = Selection(vs[k], call'[c].overrides)
  BY <1>4, <1>5, <1>7, <1>10 DEF VariablesSound
<1>12. \A k : Told(c, vs[k])' <=> (vs[k].name \in call'[c].unresolved <=>
                                     MatchesEverything(vs[k], call'[c].resolved) /\ RequestedAll(vs[k], call'[c].resolved))
  BY DEF Told
<1>13. CASE /\ call'[c].pc \in Computing \ {"variables"} /\ FallsOpen(c)
            /\ call'[c].at = call[c].at /\ call'[c].resolved = call[c].resolved
            /\ call'[c].unresolved = call[c].unresolved
  <2>1. MoreToDo(c)' /\ FallsOpen(c)'
    BY <1>2, <1>3, <1>4, <1>13 DEF MoreToDo, FallsOpen, Variable
  <2> QED
    BY <1>3, <1>6, <1>8, <1>9, <1>12, <1>13, <2>1 DEF Told
<1>14. CASE /\ call'[c].pc = "variables" /\ call'[c].at = at + 1
            /\ \A k \in DOMAIN vs : k # at =>
                 /\ vs[k].name \in call'[c].unresolved <=> vs[k].name \in call[c].unresolved
                 /\ Selection(vs[k], call'[c].resolved) = Selection(vs[k], call[c].resolved)
            /\ Told(c, vs[at])'
  <2>1. ASSUME NEW k \in DOMAIN vs, k < at PROVE Told(c, vs[k])'
    <3>1. Told(c, vs[k]) /\ k # at
      BY <1>8, <1>9, <2>1
    <3>2. /\ RequestedAll(vs[k], call'[c].resolved) <=> RequestedAll(vs[k], call[c].resolved)
          /\ MatchesEverything(vs[k], call'[c].resolved) <=> MatchesEverything(vs[k], call[c].resolved)
      BY <1>14, <3>1, SelectionDecides
    <3> QED
      BY <1>12, <1>14, <3>1, <3>2 DEF Told
  <2>2. ASSUME NEW k \in DOMAIN vs, k > at
        PROVE  /\ vs[k].name \notin call'[c].unresolved
               /\ Selection(vs[k], call'[c].resolved) = Selection(vs[k], call'[c].overrides)
    BY <1>3, <1>8, <1>9, <1>14, <2>2
  <2> QED
    BY <1>8, <1>14, <2>1, <2>2
<1>15. /\ vs[at].name \notin call[c].unresolved
       /\ Selection(vs[at], call[c].resolved) = Selection(vs[at], call[c].overrides)
       /\ \A k \in DOMAIN vs : k # at => vs[k].name # vs[at].name
  BY <1>8, <1>9
<1>16. FallsOpen(c) <=> MatchesEverything(vs[at], call[c].resolved) /\ RequestedAll(vs[at], call[c].resolved)
  BY <1>8, <1>15, SelectionDecides DEF FallsOpen
<1>17. CASE /\ call'[c].pc = "variables" /\ call'[c].at = call[c].at + 1
            /\ ~FallsOpen(c) /\ call'[c].resolved = call[c].resolved /\ call'[c].unresolved = call[c].unresolved
  <2>1. Told(c, vs[at])'
    BY <1>12, <1>15, <1>16, <1>17
  <2> QED
    BY <1>6, <1>14, <1>17, <2>1
<1>18. CASE /\ call'[c].pc = "variables" /\ call'[c].at = call[c].at + 1
            /\ FallsOpen(c) /\ call'[c].resolved = call[c].resolved
            /\ call'[c].unresolved = call[c].unresolved \cup {Variable(c).name}
  <2>1. Told(c, vs[at])'
    BY <1>8, <1>12, <1>16, <1>18
  <2> QED
    BY <1>6, <1>8, <1>14, <1>15, <1>18, <2>1
<1>19. ASSUME call'[c].pc = "variables", call'[c].at = call[c].at + 1,
              call'[c].unresolved = call[c].unresolved,
              NEW found \in Results, found # <<>>,
              call'[c].resolved = With([n \in {Variable(c).name} |-> found], call[c].resolved)
       PROVE  /\ call'[c].at \in Nat \ {0}
              /\ call'[c].pc # "variables" => MoreToDo(c)' /\ FallsOpen(c)'
              /\ \A k \in DOMAIN vs :
                   IF k < call'[c].at THEN Told(c, vs[k])'
                   ELSE /\ vs[k].name \notin call'[c].unresolved
                        /\ Selection(vs[k], call'[c].resolved) = Selection(vs[k], call'[c].overrides)
  <2>1. ASSUME NEW k
        PROVE  Selection(vs[k], call'[c].resolved)
                 = IF vs[k].name = vs[at].name THEN found ELSE Selection(vs[k], call[c].resolved)
    <3>1. PICK name : name = vs[at].name
      OBVIOUS
    <3>2. PICK f : f = [n \in {name} |-> found]
      OBVIOUS
    <3>3. DOMAIN f = {name} /\ f[name] = found
      BY <3>2
    <3>4. PICK g : g = call'[c].resolved
      OBVIOUS
    <3>5. g = With(f, call[c].resolved)
      BY <1>8, <1>19, <3>1, <3>2, <3>4
    <3>6. /\ DOMAIN g = {name} \cup DOMAIN call[c].resolved
          /\ \A x \in DOMAIN g : g[x] = IF x = name THEN found ELSE call[c].resolved[x]
      BY <3>3, <3>5 DEF With
    <3>7. Selection(vs[k], g) = IF vs[k].name = name THEN found ELSE Selection(vs[k], call[c].resolved)
      BY <1>19, <3>6 DEF Selection
    <3> QED
      BY <3>1, <3>4, <3>7
  <2>2. ~RequestedAll(vs[at], call'[c].resolved)
    BY <1>19, <2>1, ResultsAssumption DEF RequestedAll
  <2>3. Told(c, vs[at])'
    BY <1>12, <1>15, <1>19, <2>2
  <2> QED
    BY <1>6, <1>14, <1>15, <1>19, <2>1, <2>3
<1> QED
  BY <1>13, <1>17, <1>18, <1>19 DEF Varying

\* What is said of a call's variables stays so.
LEMMA TracesVariables == ASSUME CallsSound, NEW c \in Call, Traces(c) PROVE VariablesSound(c)'
<1>1. CallSound(c) /\ VariablesSound(c)
  BY DEF CallsSound
<1>2. CASE Failing(c)
  <2>1. call'[c].pc = "audit" /\ DOMAIN call'[c].jobs = {}
    BY <1>2 DEF Failing
  <2> QED
    BY <2>1 DEF VariablesSound, Early, Naming, Browsing, Computing
<1>3. CASE Arriving(c)
  <2>1. /\ call[c].pc \in Early /\ call'[c].pc \in Early \cup {"saving"}
        /\ Kept(c, {"pc", "uid", "panelId", "overrides"})
    BY <1>3 DEF Arriving
  <2>2. call'[c].unresolved = call[c].unresolved /\ call'[c].jobs = call[c].jobs
    BY <2>1, TracedFields DEF Kept
  <2>3. call[c].unresolved = {} /\ DOMAIN call'[c].jobs = {}
    BY <1>1, <2>1, <2>2 DEF VariablesSound, CallSound
  <2>4. call'[c].pc \notin Computing
    BY <2>1 DEF Early, Naming, Browsing, Computing
  <2> QED
    BY <2>2, <2>3, <2>4 DEF VariablesSound
<1>4. CASE Starting(c)
  <2>1. /\ call[c].pc \in Early \ Naming /\ call'[c].pc = "variables"
        /\ call'[c].at = 1 /\ call'[c].resolved = call[c].overrides
        /\ Kept(c, {"pc", "at", "resolved"})
    BY <1>4 DEF Starting
  <2>2. /\ call'[c].unresolved = call[c].unresolved /\ call'[c].jobs = call[c].jobs
        /\ call'[c].uid = call[c].uid /\ call'[c].overrides = call[c].overrides
    BY <2>1, TracedFields DEF Kept
  <2>3. call[c].unresolved = {} /\ DOMAIN call'[c].jobs = {}
    BY <1>1, <2>1, <2>2 DEF VariablesSound, CallSound
  <2>4. call[c].uid \in DOMAIN Board
    BY <1>1, <2>1 DEF CallSound, Early, Naming, Browsing
  <2>5. Variables(c)' = Variables(c)
    BY <2>2 DEF Variables, TheBoard
  <2>6. \A k \in DOMAIN Variables(c) : ~(k < 1)
    BY <2>4, VariablesDiffer
  <2>7. call'[c].pc \notin Early
    BY <2>1 DEF Early, Naming, Browsing
  <2> QED
    BY <2>1, <2>2, <2>3, <2>5, <2>6, <2>7 DEF VariablesSound
<1>5. CASE Varying(c)
  BY <1>5, VaryingTells
<1>6. CASE Asking(c)
  <2>1. call[c].pc = "variables" /\ ~MoreToDo(c) /\ call'[c].pc = "panels" /\ Kept(c, {"pc", "jobs"})
    BY <1>6 DEF Asking
  <2>2. /\ call'[c].unresolved = call[c].unresolved /\ call'[c].resolved = call[c].resolved
        /\ call'[c].uid = call[c].uid
    BY <2>1, TracedFields DEF Kept
  <2>3. Variables(c)' = Variables(c) /\ call[c].uid \in DOMAIN Board
    BY <1>1, <2>1, <2>2 DEF Variables, TheBoard, CallSound, Naming
  <2>4. \A k \in DOMAIN Variables(c) : Told(c, Variables(c)[k])
    <3>1. \A k \in DOMAIN Variables(c) : k < call[c].at
      BY <1>1, <2>1, <2>3, VariablesDiffer DEF MoreToDo, VariablesSound, Computing
    <3> QED
      BY <1>1, <2>1, <3>1 DEF VariablesSound, Computing
  <2>5. \A k \in DOMAIN Variables(c)' : Told(c, Variables(c)[k])'
    BY <2>2, <2>3, <2>4 DEF Told
  <2>6. \A i \in DOMAIN call'[c].jobs : PutsIn(c, call[c].jobs[i])'
    BY <1>6, <2>2, <2>3 DEF Asking, IsJob, PutsIn
  <2>7. call'[c].pc \notin Early \cup Computing /\ call'[c].pc # "over"
    BY <2>1 DEF Early, Naming, Browsing, Computing
  <2> QED
    BY <2>5, <2>6, <2>7 DEF VariablesSound
<1>7. ASSUME /\ call'[c].unresolved = call[c].unresolved /\ call'[c].resolved = call[c].resolved
             /\ call'[c].uid = call[c].uid,
             call'[c].pc \notin Early \cup Computing, call'[c].pc # "over", call[c].pc # "over",
             DOMAIN call'[c].jobs = DOMAIN call[c].jobs,
             \A i \in DOMAIN call[c].jobs :
               (call'[c].jobs[i].panel = call[c].jobs[i].panel /\ call'[c].jobs[i].request = call[c].jobs[i].request)
               \/ PutsIn(c, call'[c].jobs[i])
      PROVE  VariablesSound(c)'
  <2>1. Variables(c)' = Variables(c)
    BY <1>7 DEF Variables, TheBoard
  <2>2. ASSUME NEW i \in DOMAIN call'[c].jobs
        PROVE  /\ \A k \in DOMAIN Variables(c)' : Told(c, Variables(c)[k])'
               /\ PutsIn(c, call[c].jobs[i])'
    <3>1. /\ \A k \in DOMAIN Variables(c) : Told(c, Variables(c)[k])
          /\ PutsIn(c, call[c].jobs[i])
      BY <1>1, <1>7, <2>2 DEF VariablesSound
    <3>2. \A k \in DOMAIN Variables(c)' : Told(c, Variables(c)[k])'
      BY <1>7, <2>1, <3>1 DEF Told
    <3>3. PutsIn(c, call'[c].jobs[i])
      BY <1>7, <2>2, <3>1 DEF PutsIn
    <3>4. PutsIn(c, call[c].jobs[i])'
      BY <1>7, <2>1, <3>3 DEF PutsIn
    <3> QED
      BY <3>2, <3>4
  <2> QED
    BY <1>7, <2>2 DEF VariablesSound
<1>8. CASE Listing(c)
  <2>1. call[c].pc = "panels" /\ Kept(c, {"jobs"})
    BY <1>8 DEF Listing
  <2>2. /\ call'[c].unresolved = call[c].unresolved /\ call'[c].resolved = call[c].resolved
        /\ call'[c].uid = call[c].uid /\ call'[c].pc = call[c].pc
    BY <2>1, TracedFields DEF Kept
  <2>3. call'[c].pc \notin Early \cup Computing /\ call'[c].pc # "over"
    BY <2>1, <2>2 DEF Early, Naming, Browsing, Computing
  <2> QED
    BY <1>7, <1>8, <2>1, <2>2, <2>3 DEF Listing, IsJob
<1>9. CASE Hearing(c)
  <2>1. call[c].pc = "panels" /\ Kept(c, {"jobs"})
    BY <1>9 DEF Hearing
  <2>2. /\ call'[c].unresolved = call[c].unresolved /\ call'[c].resolved = call[c].resolved
        /\ call'[c].uid = call[c].uid /\ call'[c].pc = call[c].pc
    BY <2>1, TracedFields DEF Kept
  <2>3. call'[c].pc \notin Early \cup Computing /\ call'[c].pc # "over"
    BY <2>1, <2>2 DEF Early, Naming, Browsing, Computing
  <2>4. PICK i \in DOMAIN call[c].jobs, is \in {"answered", "failed"} : call'[c].jobs = Job(c, i, is)
    BY <1>9 DEF Hearing
  <2>5. PICK job : job = [call[c].jobs[i] EXCEPT !.is = is]
    OBVIOUS
  <2>6. call'[c].jobs = [call[c].jobs EXCEPT ![i] = job]
    BY <2>4, <2>5 DEF Job
  <2>7. job["panel"] = call[c].jobs[i].panel /\ job["request"] = call[c].jobs[i].request
    BY <1>1, <2>5 DEF CallSound
  <2>8. /\ DOMAIN call'[c].jobs = DOMAIN call[c].jobs
        /\ \A j \in DOMAIN call[c].jobs : /\ call'[c].jobs[j].panel = call[c].jobs[j].panel
                                          /\ call'[c].jobs[j].request = call[c].jobs[j].request
    BY <2>6, <2>7
  <2> QED
    BY <1>7, <2>1, <2>2, <2>3, <2>8
<1>10. CASE Summing(c) \/ Saving(c) \/ Logging(c)
  <2>1. call[c].pc \in {"panels", "saving"} /\ call'[c].pc \in {"saving", "audit"} /\ Kept(c, {"pc", "panels"})
    BY <1>10, KeptMore DEF Summing, Saving, Logging
  <2>2. /\ call'[c].unresolved = call[c].unresolved /\ call'[c].resolved = call[c].resolved
        /\ call'[c].uid = call[c].uid /\ call'[c].jobs = call[c].jobs
    BY <2>1, TracedFields DEF Kept
  <2>3. call'[c].pc \notin Early \cup Computing /\ call'[c].pc # "over" /\ call[c].pc # "over"
    BY <2>1 DEF Early, Naming, Browsing, Computing
  <2> QED
    BY <1>7, <2>2, <2>3
<1>11. CASE Ending(c)
  <2>1. /\ call'[c].pc = "over"
        /\ call'[c].jobs = [i \in DOMAIN call[c].jobs |-> [call[c].jobs[i] EXCEPT !.request = <<>>]]
    BY <1>11 DEF Ending
  <2>2. \A i \in DOMAIN call'[c].jobs : call'[c].jobs[i].request = <<>>
    BY <1>1, <2>1 DEF CallSound
  <2>3. call'[c].pc \notin Early \cup Computing
    BY <2>1 DEF Early, Naming, Browsing, Computing
  <2> QED
    BY <2>1, <2>2, <2>3 DEF VariablesSound
<1> QED
  BY <1>2, <1>3, <1>4, <1>5, <1>6, <1>8, <1>9, <1>10, <1>11 DEF Traces

--------------------------------------------------------------------------------
\* What a step does to what its call has looked at: nothing that is not logged.
Looks(c) ==
  \/ Inspected(c)' = Inspected(c) /\ SameLog
  \/ \E panel : panel \notin Inspected(c) /\ Inspected(c)' = Inspected(c) \cup {panel} /\ Record(c, panel)

\* The panels of a render that have answered it.
Answered(jobs) == {jobs[i].panel.panel : i \in {j \in DOMAIN jobs : jobs[j].is = "answered"}}

\* Every step looks at nothing that it does not log, and logs nothing else.
LEMMA TracesLooks == ASSUME CallsSound, NEW c \in Call, Traces(c) PROVE Looks(c)
<1>1. CallSound(c)
  BY DEF CallsSound
<1>2. call'[c].req = call[c].req
  <2>1. PICK X : Kept(c, X) /\ "req" \notin X
    <3>1. CASE Failing(c) \/ Arriving(c) \/ Starting(c) \/ Varying(c)
      BY <3>1 DEF Failing, Arriving, Starting, Varying
    <3>2. CASE Asking(c) \/ Listing(c) \/ Hearing(c) \/ Summing(c) \/ Saving(c) \/ Logging(c)
      BY <3>2 DEF Asking, Listing, Hearing, Summing, Saving, Logging
    <3>3. CASE Ending(c)
      BY <3>3 DEF Ending
    <3> QED
      BY <3>1, <3>2, <3>3 DEF Traces
  <2> QED
    BY <2>1, TracedFields DEF Kept
<1>3. CASE call[c].req.tool = "render"
  <2>1. Inspected(c) = Answered(call[c].jobs) /\ Inspected(c)' = Answered(call'[c].jobs)
    BY <1>2, <1>3 DEF Inspected, Answered
  <2>2. Answered(call'[c].jobs) = Answered(call[c].jobs) /\ SameLog => Looks(c)
    BY <2>1 DEF Looks
  <2>3. CASE Failing(c)
    BY <1>3, <2>2, <2>3 DEF Failing
  <2>4. CASE Arriving(c) \/ Starting(c) \/ Varying(c) \/ Summing(c) \/ Saving(c)
    <3>1. PICK X : Kept(c, X) /\ "jobs" \notin X
      BY <2>4 DEF Arriving, Starting, Varying, Summing, Saving
    <3>2. call'[c].jobs = call[c].jobs
      BY <3>1, TracedFields DEF Kept
    <3> QED
      BY <2>2, <2>4, <3>2 DEF Arriving, Starting, Varying, Summing, Saving
  <2>5. CASE Asking(c)
    <3>1. call[c].jobs = <<>>
      BY <1>1, <2>5 DEF Asking, CallSound, Computing
    <3>2. Answered(call[c].jobs) = {}
      BY <3>1 DEF Answered
    <3>3. Answered(call'[c].jobs) = {}
      BY <2>5 DEF Answered, Asking
    <3> QED
      BY <2>2, <2>5, <3>2, <3>3 DEF Asking
  <2>6. CASE Listing(c)
    <3>1. DOMAIN call'[c].jobs = DOMAIN call[c].jobs
      BY <2>6 DEF Listing
    <3>2. \A i \in DOMAIN call[c].jobs :
            /\ call'[c].jobs[i].is = "answered" <=> call[c].jobs[i].is = "answered"
            /\ call'[c].jobs[i].panel = call[c].jobs[i].panel
      BY <2>6 DEF Listing
    <3>3. Answered(call'[c].jobs) = Answered(call[c].jobs)
      BY <3>1, <3>2 DEF Answered
    <3> QED
      BY <2>2, <2>6, <3>3 DEF Listing
  <2>7. CASE Hearing(c)
    <3>1. PICK i \in DOMAIN call[c].jobs, ok \in BOOLEAN :
            /\ call[c].jobs[i].is = "asked"
            /\ call'[c].jobs = Job(c, i, IF ok THEN "answered" ELSE "failed")
            /\ IF ok /\ call[c].req.tool = "render" THEN Record(c, call[c].jobs[i].panel.panel) ELSE SameLog
      BY <2>7 DEF Hearing
    <3>2. PICK is : is = IF ok THEN "answered" ELSE "failed"
      OBVIOUS
    <3>3. PICK job : job = [call[c].jobs[i] EXCEPT !.is = is]
      OBVIOUS
    <3>4. call'[c].jobs = [call[c].jobs EXCEPT ![i] = job]
      BY <3>1, <3>2, <3>3 DEF Job
    <3>5. job["panel"] = call[c].jobs[i].panel /\ job["is"] = is
      BY <1>1, <3>3 DEF CallSound
    <3>6. /\ DOMAIN call'[c].jobs = DOMAIN call[c].jobs
          /\ call'[c].jobs[i].is = is /\ call'[c].jobs[i].panel = call[c].jobs[i].panel
          /\ \A j \in DOMAIN call[c].jobs : j # i => call'[c].jobs[j] = call[c].jobs[j]
      BY <3>4, <3>5
    <3>7. CASE ~ok
      <4>1. is # "answered"
        BY <3>2, <3>7
      <4>2. Answered(call'[c].jobs) = Answered(call[c].jobs)
        BY <3>1, <3>6, <4>1 DEF Answered
      <4> QED
        BY <2>2, <3>1, <3>7, <4>2
    <3>8. CASE ok
      <4>1. PICK panel : panel = call[c].jobs[i].panel.panel
        OBVIOUS
      <4>2. is = "answered"
        BY <3>2, <3>8
      <4>3. Answered(call'[c].jobs) = Answered(call[c].jobs) \cup {panel}
        <5>1. \A j \in DOMAIN call[c].jobs : call'[c].jobs[j].panel.panel = call[c].jobs[j].panel.panel
          BY <3>6
        <5>2. \A j \in DOMAIN call[c].jobs :
                call'[c].jobs[j].is = "answered" <=> j = i \/ call[c].jobs[j].is = "answered"
          BY <3>6, <4>2
        <5>3. ASSUME NEW x \in Answered(call'[c].jobs) PROVE x \in Answered(call[c].jobs) \cup {panel}
          BY <3>6, <4>1, <5>1, <5>2 DEF Answered
        <5>4. ASSUME NEW x \in Answered(call[c].jobs) \cup {panel} PROVE x \in Answered(call'[c].jobs)
          BY <3>6, <4>1, <5>1, <5>2 DEF Answered
        <5> QED
          BY <5>3, <5>4
      <4>4. panel \notin Answered(call[c].jobs)
        BY <1>1, <3>1, <4>1 DEF Answered, CallSound
      <4> QED
        BY <1>3, <2>1, <3>1, <3>8, <4>1, <4>3, <4>4 DEF Looks
    <3> QED
      BY <3>7, <3>8
  <2>8. CASE Logging(c)
    BY <1>1, <1>3, <2>8 DEF Logging, CallSound
  <2>9. CASE Ending(c)
    <3>1. /\ DOMAIN call'[c].jobs = DOMAIN call[c].jobs
          /\ \A i \in DOMAIN call[c].jobs : call'[c].jobs[i] = [call[c].jobs[i] EXCEPT !.request = <<>>]
      BY <2>9 DEF Ending
    <3>2. \A i \in DOMAIN call[c].jobs : /\ call'[c].jobs[i].is = call[c].jobs[i].is
                                         /\ call'[c].jobs[i].panel = call[c].jobs[i].panel
      BY <1>1, <3>1 DEF CallSound
    <3>3. Answered(call'[c].jobs) = Answered(call[c].jobs)
      BY <3>1, <3>2 DEF Answered
    <3> QED
      BY <2>2, <2>9, <3>3 DEF Ending
  <2> QED
    BY <2>3, <2>4, <2>5, <2>6, <2>7, <2>8, <2>9 DEF Traces
<1>4. CASE call[c].req.tool # "render"
  <2>1. /\ Inspected(c) = IF call[c].ok /\ call[c].pc \in {"audit", "over"} THEN {Panel(c).panel} ELSE {}
        /\ Inspected(c)' = IF call'[c].ok /\ call'[c].pc \in {"audit", "over"} THEN {Panel(c).panel}' ELSE {}
    BY <1>2, <1>4 DEF Inspected
  <2>2. CASE Failing(c)
    BY <2>1, <2>2 DEF Failing, Looks
  <2>3. CASE Arriving(c) \/ Starting(c) \/ Varying(c) \/ Asking(c) \/ Saving(c)
    <3>1. call[c].pc \notin {"audit", "over"} /\ call'[c].pc \notin {"audit", "over"} /\ SameLog
      BY <2>3 DEF Arriving, Starting, Varying, Asking, Saving, Early, Naming, Browsing, Computing
    <3> QED
      BY <2>1, <3>1 DEF Looks
  <2>4. CASE Listing(c) \/ Hearing(c)
    <3>1. call[c].pc = "panels" /\ Kept(c, {"jobs"}) /\ SameLog
      BY <1>4, <2>4 DEF Listing, Hearing
    <3>2. call'[c].pc = "panels"
      BY <3>1, TracedFields DEF Kept
    <3> QED
      BY <2>1, <3>1, <3>2 DEF Looks
  <2>5. CASE Summing(c)
    BY <1>4, <2>5 DEF Summing
  <2>6. CASE Logging(c)
    <3>1. call[c].pc = "saving" /\ call'[c].pc = "audit" /\ Record(c, Panel(c).panel) /\ Kept(c, {"pc"})
      BY <2>6 DEF Logging
    <3>2. call'[c].ok = call[c].ok /\ call'[c].uid = call[c].uid /\ call'[c].panelId = call[c].panelId
      BY <3>1, TracedFields DEF Kept
    <3>3. call[c].ok = TRUE
      BY <1>1, <3>1 DEF CallSound
    <3>4. Panel(c)' = Panel(c)
      BY <1>2, <3>2 DEF Panel, ThePanels, TheBoard
    <3> QED
      BY <2>1, <3>1, <3>2, <3>3, <3>4 DEF Looks
  <2>7. CASE Ending(c)
    <3>1. call[c].pc = "audit" /\ call'[c].pc = "over" /\ SameLog
          /\ Kept(c, {"pc", "jobs", "at", "overrides", "resolved", "unresolved", "panels"})
      BY <2>7 DEF Ending
    <3>2. call'[c].ok = call[c].ok /\ call'[c].uid = call[c].uid /\ call'[c].panelId = call[c].panelId
      BY <3>1, TracedFields DEF Kept
    <3>3. Panel(c)' = Panel(c)
      BY <1>2, <3>2 DEF Panel, ThePanels, TheBoard
    <3> QED
      BY <2>1, <3>1, <3>2, <3>3 DEF Looks
  <2> QED
    BY <2>2, <2>3, <2>4, <2>5, <2>6, <2>7 DEF Traces
<1> QED
  BY <1>3, <1>4

--------------------------------------------------------------------------------
\* An entry is numbered next, and the oldest makes room where there is none.
LEMMA RecordSound ==
  ASSUME LogSound, NEW c, NEW panel, Record(c, panel),
         <<c, panel>> \notin Seen, Seen' = Seen \cup {<<c, panel>>}
  PROVE  LogSound'
<1>1. PICK S : S = ToSet(entries)
  OBVIOUS
<1>2. PICK n : n = nextId - 1
  OBVIOUS
<1>3. PICK e : e = [id |-> nextId, call |-> c, panel |-> panel]
  OBVIOUS
<1>4. e.id = nextId /\ e.call = c /\ e.panel = panel
  BY <1>3
<1>5. PICK all : all = Append(entries, e)
  OBVIOUS
<1>6. /\ entries' = IF Len(all) > MaxEntries THEN Tail(all) ELSE all
      /\ nextId' = nextId + 1
  BY <1>3, <1>5 DEF Record
<1>7. PICK L : L = Len(entries)
  OBVIOUS
<1>8. /\ nextId \in Nat \ {0} /\ n \in Nat /\ L \in Nat /\ MaxEntries \in Nat
      /\ entries \in Seq(S) /\ DOMAIN entries = 1..L
      /\ L = IF n <= MaxEntries THEN n ELSE MaxEntries
  BY <1>1, <1>2, <1>7, BoundsAssumption DEF LogSound
<1>9. /\ all \in Seq(S \cup {e}) /\ Len(all) = L + 1 /\ DOMAIN all = 1..(L + 1)
      /\ \A i \in 1..L : all[i] = entries[i]
      /\ all[L + 1] = e
  BY <1>5, <1>7, <1>8
<1>10. PICK s \in {0, 1} : s = IF L + 1 > MaxEntries THEN 1 ELSE 0
  OBVIOUS
<1>11. /\ entries' \in Seq(S \cup {e}) /\ Len(entries') = L + 1 - s
       /\ DOMAIN entries' = 1..(L + 1 - s)
       /\ \A i \in 1..(L + 1 - s) : entries'[i] = all[i + s]
  <2>1. CASE s = 1
    <3>1. entries' = Tail(all)
      BY <1>6, <1>8, <1>9, <1>10, <2>1
    <3>2. all # <<>>
      BY <1>8, <1>9
    <3> QED
      BY <1>8, <1>9, <2>1, <3>1, <3>2
  <2>2. CASE s = 0
    <3>1. entries' = all
      BY <1>6, <1>8, <1>9, <1>10, <2>2
    <3> QED
      BY <1>8, <1>9, <2>2, <3>1
  <2> QED
    BY <2>1, <2>2
<1>12. entries' \in Seq(ToSet(entries'))
  BY <1>11, OwnValues
<1>13. IsFiniteSet(Seen') /\ nextId' - 1 = Cardinality(Seen') /\ nextId' \in Nat \ {0}
  <2>1. IsFiniteSet(Seen) /\ nextId - 1 = Cardinality(Seen)
    BY DEF LogSound
  <2>2. IsFiniteSet(Seen') /\ Cardinality(Seen') = Cardinality(Seen) + 1
    BY <2>1, FS_AddElement
  <2> QED
    BY <1>6, <1>8, <2>1, <2>2
<1>14. Len(entries') = IF nextId' - 1 <= MaxEntries THEN nextId' - 1 ELSE MaxEntries
  BY <1>2, <1>6, <1>8, <1>10, <1>11
<1>15. ASSUME NEW i \in DOMAIN entries'
       PROVE  /\ i + s \in 1..(L + 1) /\ entries'[i] = all[i + s]
              /\ i + s = L + 1 => entries'[i] = e
              /\ i + s # L + 1 => i + s \in DOMAIN entries /\ entries'[i] = entries[i + s]
  BY <1>8, <1>9, <1>10, <1>11
<1>16. ASSUME NEW i \in DOMAIN entries'
       PROVE  /\ <<entries'[i].call, entries'[i].panel>> \in Seen'
              /\ entries'[i].id = nextId' - 1 - (Len(entries') - i)
  <2>0. /\ i \in Int /\ s \in Int /\ L \in Int /\ nextId \in Int
        /\ Len(entries') = L + 1 - s /\ nextId' = nextId + 1
    <3>1. Len(entries') = L + 1 - s /\ nextId' = nextId + 1
      BY <1>6, <1>11
    <3>2. L \in Int /\ nextId \in Int /\ s \in Int
      BY <1>8, <1>10
    <3>3. i \in Int
      BY <1>8, <1>10, <1>11
    <3> QED
      BY <3>1, <3>2, <3>3
  <2>1. CASE i + s = L + 1
    <3>1. entries'[i] = e
      BY <1>15, <2>1
    <3>2. nextId' - 1 - (Len(entries') - i) = nextId
      BY <2>0, <2>1
    <3> QED
      BY <1>4, <3>1, <3>2
  <2>2. CASE i + s # L + 1
    <3>1. i + s \in DOMAIN entries /\ entries'[i] = entries[i + s]
      BY <1>15, <2>2
    <3>2. /\ <<entries[i + s].call, entries[i + s].panel>> \in Seen
          /\ entries[i + s].id = nextId - 1 - (L - (i + s))
      BY <1>7, <3>1 DEF LogSound
    <3>3. nextId' - 1 - (Len(entries') - i) = nextId - 1 - (L - (i + s))
      <4>1. nextId' - 1 = nextId /\ Len(entries') - i = L + 1 - s - i
        BY <2>0
      <4>2. PICK a \in Int, b \in Int, x \in Int, y \in Int : a = nextId /\ b = L /\ x = s /\ y = i
        BY <2>0
      <4>3. a - (b + 1 - x - y) = a - 1 - (b - (y + x))
        OBVIOUS
      <4> QED
        BY <4>1, <4>2, <4>3
    <3> QED
      BY <3>1, <3>2, <3>3
  <2> QED
    BY <2>1, <2>2
<1>17. ASSUME NEW i \in DOMAIN entries', NEW j \in DOMAIN entries',
              entries'[i].call = entries'[j].call, entries'[i].panel = entries'[j].panel
       PROVE  i = j
  <2>1. i \in Nat /\ j \in Nat /\ s \in Nat
    BY <1>8, <1>10, <1>11
  <2>2. ASSUME NEW k \in DOMAIN entries', k + s # L + 1
        PROVE  ~(entries'[k].call = c /\ entries'[k].panel = panel)
    <3>1. k + s \in DOMAIN entries /\ entries'[k] = entries[k + s]
      BY <1>15, <2>2
    <3>2. <<entries[k + s].call, entries[k + s].panel>> \in Seen
      BY <3>1 DEF LogSound
    <3> QED
      BY <3>1, <3>2
  <2>3. \A k \in DOMAIN entries' : k + s = L + 1 => entries'[k].call = c /\ entries'[k].panel = panel
    BY <1>4, <1>15
  <2>4. CASE i + s = L + 1
    <3>1. j + s = L + 1
      BY <1>17, <2>2, <2>3, <2>4
    <3> QED
      BY <1>8, <2>1, <2>4, <3>1
  <2>5. CASE i + s # L + 1
    <3>1. j + s # L + 1
      BY <1>17, <2>2, <2>3, <2>5
    <3>2. i + s \in DOMAIN entries /\ entries'[i] = entries[i + s] /\ j + s \in DOMAIN entries /\ entries'[j] = entries[j + s]
      BY <1>15, <2>5, <3>1
    <3>3. i + s = j + s
      BY <1>17, <3>2 DEF LogSound
    <3> QED
      BY <2>1, <3>3
  <2> QED
    BY <2>4, <2>5
<1> QED
  BY <1>12, <1>13, <1>14, <1>16, <1>17 DEF LogSound

\* The log stays what was looked at.
LEMMA LooksLogSound ==
  ASSUME TInv, NEW c \in Call, Looks(c), \A d \in Call : d # c => call'[d] = call[d]
  PROVE  LogSound'
<1>1. LogSound
  BY DEF TInv
<1>2. \A d \in Call : d # c => Inspected(d)' = Inspected(d)
  BY DEF Inspected, Panel, ThePanels, TheBoard
<1>3. CASE Inspected(c)' = Inspected(c) /\ SameLog
  <2>1. \A d \in Call : Inspected(d)' = Inspected(d)
    BY <1>2, <1>3
  <2>2. Seen' = Seen
    BY <2>1 DEF Seen
  <2> QED
    BY <1>1, <1>3, <2>2 DEF LogSound, SameLog
<1>4. ASSUME NEW panel, panel \notin Inspected(c), Inspected(c)' = Inspected(c) \cup {panel}, Record(c, panel)
      PROVE  LogSound'
  <2>1. <<c, panel>> \notin Seen
    BY <1>4 DEF Seen
  <2>2. Seen' = Seen \cup {<<c, panel>>}
    <3>1. ASSUME NEW x PROVE x \in Seen' <=> \E d \in Call : \E p \in Inspected(d)' : x = <<d, p>>
      BY DEF Seen
    <3>2. ASSUME NEW x PROVE x \in Seen <=> \E d \in Call : \E p \in Inspected(d) : x = <<d, p>>
      BY DEF Seen
    <3>3. ASSUME NEW x \in Seen' PROVE x \in Seen \cup {<<c, panel>>}
      BY <1>2, <1>4, <3>1, <3>2
    <3>4. ASSUME NEW x \in Seen \cup {<<c, panel>>} PROVE x \in Seen'
      BY <1>2, <1>4, <3>1, <3>2
    <3> QED
      BY <3>3, <3>4
  <2> QED
    BY <1>1, <1>4, <2>1, <2>2, RecordSound
<1> QED
  BY <1>3, <1>4 DEF Looks

--------------------------------------------------------------------------------
\* What a render is to query, and what is reported of it, is a matter of its
\* dashboard, its limit and its jobs.
LEMMA ReportedBy ==
  ASSUME NEW c \in Call, call'[c].uid = call[c].uid, call'[c].req = call[c].req
  PROVE  /\ ToExecute(c)' = ToExecute(c)
         /\ call'[c].jobs = call[c].jobs => Reported(c)' = Reported(c) /\ (Aligned(c)' <=> Aligned(c))
<1>1. TheBoard(c)' = TheBoard(c)
  BY DEF TheBoard
<1>2. Executable(c)' = Executable(c) /\ Limit(c)' = Limit(c)
  BY <1>1 DEF Executable, Limit
<1>3. ToExecute(c)' = ToExecute(c) /\ Skipped(c)' = Skipped(c)
  BY <1>2 DEF ToExecute, Skipped
<1>4. ASSUME call'[c].jobs = call[c].jobs PROVE Reported(c)' = Reported(c)
  BY <1>1, <1>3, <1>4 DEF Reported, Filter
<1> QED
  BY <1>3, <1>4 DEF Aligned

\* A render's answer stays what its jobs say.
LEMMA TracesAnswer == ASSUME CallsSound, NEW c \in Call, Traces(c) PROVE AnswerSound(c)'
<1>1. CallSound(c) /\ AnswerSound(c)
  BY DEF CallsSound
<1>2. ASSUME NEW X, Kept(c, X)
      PROVE  /\ "req" \notin X => call'[c].req = call[c].req
             /\ "uid" \notin X => call'[c].uid = call[c].uid
             /\ "jobs" \notin X => call'[c].jobs = call[c].jobs
             /\ "panels" \notin X => call'[c].panels = call[c].panels
             /\ "pc" \notin X => call'[c].pc = call[c].pc
  BY <1>2, TracedFields DEF Kept
<1>3. call[c].pc # "audit" => call[c].panels = <<>>
  BY <1>1 DEF AnswerSound
<1>4. CASE Failing(c) \/ Arriving(c) \/ Starting(c) \/ Varying(c) \/ Saving(c) \/ Logging(c)
  <2>1. call'[c].panels = call[c].panels /\ call[c].pc # "audit" /\ call'[c].pc # "panels"
    <3>1. CASE Failing(c)
      BY <1>2, <3>1 DEF Failing
    <3>2. CASE Arriving(c)
      BY <1>2, <3>2 DEF Arriving, Early, Naming, Browsing
    <3>3. CASE Starting(c)
      BY <1>2, <3>3 DEF Starting, Early, Naming, Browsing
    <3>4. CASE Varying(c)
      <4>1. call[c].pc \in Computing /\ call'[c].pc \in Computing /\ Kept(c, {"pc", "at", "resolved", "unresolved"})
        BY <3>4 DEF Varying, Computing
      <4>2. call'[c].panels = call[c].panels
        BY <4>1, TracedFields DEF Kept
      <4> QED
        BY <4>1, <4>2 DEF Computing
    <3>5. CASE Saving(c)
      BY <1>2, <3>5 DEF Saving
    <3>6. CASE Logging(c)
      BY <1>2, <3>6 DEF Logging
    <3> QED
      BY <1>4, <3>1, <3>2, <3>3, <3>4, <3>5, <3>6
  <2> QED
    BY <1>3, <2>1 DEF AnswerSound
<1>5. CASE Asking(c)
  <2>1. /\ call'[c].panels = call[c].panels /\ call[c].pc # "audit"
        /\ call'[c].req = call[c].req /\ call'[c].uid = call[c].uid
    BY <1>2, <1>5 DEF Asking
  <2>2. ToExecute(c)' = ToExecute(c)
    BY <2>1, ReportedBy
  <2>3. call[c].req.tool = "render" => Aligned(c)'
    BY <1>5, <2>2 DEF Asking, Aligned
  <2> QED
    BY <1>3, <2>1, <2>3 DEF AnswerSound
<1>6. CASE Listing(c) \/ Hearing(c)
  <2>1. /\ call'[c].panels = call[c].panels /\ call[c].pc = "panels" /\ call'[c].pc = "panels"
        /\ call'[c].req = call[c].req /\ call'[c].uid = call[c].uid
    BY <1>2, <1>6 DEF Listing, Hearing
  <2>2. /\ DOMAIN call'[c].jobs = DOMAIN call[c].jobs
        /\ \A i \in DOMAIN call[c].jobs : call'[c].jobs[i].panel = call[c].jobs[i].panel
    <3>1. CASE Listing(c)
      BY <3>1 DEF Listing
    <3>2. CASE Hearing(c)
      <4>1. PICK i \in DOMAIN call[c].jobs, ok \in BOOLEAN :
              call'[c].jobs = Job(c, i, IF ok THEN "answered" ELSE "failed")
        BY <3>2 DEF Hearing
      <4>2. PICK is : call'[c].jobs = [call[c].jobs EXCEPT ![i] = [call[c].jobs[i] EXCEPT !.is = is]]
        BY <4>1 DEF Job
      <4>3. "panel" \in DOMAIN call[c].jobs[i]
        BY <1>1 DEF CallSound
      <4>4. [call[c].jobs[i] EXCEPT !.is = is].panel = call[c].jobs[i].panel
        BY <4>3
      <4> QED
        BY <4>2, <4>4
    <3> QED
      BY <1>6, <3>1, <3>2
  <2>3. ToExecute(c)' = ToExecute(c)
    BY <2>1, ReportedBy
  <2>4. call[c].req.tool = "render" => Aligned(c)'
    BY <1>1, <2>1, <2>2, <2>3 DEF AnswerSound, Aligned
  <2> QED
    BY <1>3, <2>1, <2>4 DEF AnswerSound
<1>7. CASE Summing(c)
  <2>1. /\ call[c].pc = "panels" /\ call[c].req.tool = "render" /\ call'[c].pc = "audit"
        /\ call'[c].panels = Reported(c) /\ call'[c].jobs = call[c].jobs
        /\ call'[c].req = call[c].req /\ call'[c].uid = call[c].uid
    BY <1>2, <1>7 DEF Summing
  <2>2. Aligned(c)' /\ Reported(c)' = Reported(c)
    BY <1>1, <2>1, ReportedBy DEF AnswerSound
  <2>3. call[c].uid \in DOMAIN Board
    BY <1>1, <2>1 DEF CallSound, Naming
  <2> QED
    BY <2>1, <2>2, <2>3 DEF AnswerSound
<1>8. CASE Ending(c)
  BY <1>8 DEF Ending, AnswerSound
<1> QED
  BY <1>4, <1>5, <1>6, <1>7, <1>8 DEF Traces

\* A call that is left alone is as sound as it was.
LEMMA LeftAlone ==
  ASSUME NEW c \in Call, CallSound(c), VariablesSound(c), AnswerSound(c), call'[c] = call[c]
  PROVE  CallSound(c)' /\ VariablesSound(c)' /\ AnswerSound(c)'
<1>1. CallSound(c)'
  BY DEF CallSound, Early, Naming, Browsing, Computing, Traced
<1>2. Variables(c)' = Variables(c)
  BY DEF Variables, TheBoard
<1>3. \A k : Told(c, Variables(c)[k])' <=> Told(c, Variables(c)[k])
  BY <1>2 DEF Told
<1>4. \A i : PutsIn(c, call[c].jobs[i])' <=> PutsIn(c, call[c].jobs[i])
  BY <1>2 DEF PutsIn
<1>5. (MoreToDo(c)' <=> MoreToDo(c)) /\ (FallsOpen(c)' <=> FallsOpen(c))
  BY <1>2 DEF MoreToDo, FallsOpen, Variable
<1>6. VariablesSound(c)'
  BY <1>2, <1>3, <1>4, <1>5 DEF VariablesSound, Early, Naming, Browsing, Computing
<1>7. AnswerSound(c)'
  BY ReportedBy DEF AnswerSound
<1> QED
  BY <1>1, <1>6, <1>7

\* At first no call has begun, and the log is empty.
LEMMA InitTraced == Init => TInv
<1> SUFFICES ASSUME Init PROVE TInv
  OBVIOUS
<1>1. PICK plan \in Plans : call = [c \in Call |-> Fresh(plan[c])]
  BY DEF Init
<1>2. ASSUME NEW c \in Call
      PROVE  /\ Traced \subseteq DOMAIN call[c] /\ call[c].pc = "called" /\ call[c].req = plan[c]
             /\ call[c].ok = TRUE /\ call[c].jobs = <<>> /\ call[c].unresolved = {}
             /\ call[c].panels = <<>>
  <2>1. PICK f : f = Fresh(plan[c])
    OBVIOUS
  <2>2. /\ f.req = plan[c] /\ f.pc = "called" /\ f.ok = TRUE /\ f.jobs = <<>> /\ f.unresolved = {}
        /\ f.panels = <<>> /\ "panels" \in DOMAIN f
        /\ "req" \in DOMAIN f /\ "pc" \in DOMAIN f /\ "uid" \in DOMAIN f /\ "panelId" \in DOMAIN f
        /\ "ok" \in DOMAIN f /\ "jobs" \in DOMAIN f /\ "at" \in DOMAIN f /\ "overrides" \in DOMAIN f
        /\ "resolved" \in DOMAIN f /\ "unresolved" \in DOMAIN f
    BY <2>1 DEF Fresh
  <2>3. call[c] = f
    BY <1>1, <2>1
  <2> QED
    BY <2>2, <2>3 DEF Traced
<1>3. CallsSound
  <2>1. call = [c \in Call |-> call[c]]
    BY <1>1
  <2>2. ASSUME NEW c \in Call PROVE CallSound(c) /\ VariablesSound(c) /\ AnswerSound(c)
    <3>1. call[c].req.limit \in Nat
      BY <1>2, PanelsAssumption
    <3>2. DOMAIN call[c].jobs = {}
      <4>1. call[c].jobs = <<>>
        BY <1>2
      <4> QED
        BY <4>1
    <3>3. "called" \in Naming /\ "called" \in Early /\ "called" \notin Computing \cup Browsing \cup {"gate", "saving"}
      BY DEF Naming, Early, Computing, Browsing
    <3> QED
      BY <1>2, <3>1, <3>2, <3>3 DEF CallSound, VariablesSound, AnswerSound
  <2> QED
    BY <2>1, <2>2 DEF CallsSound
<1>4. LogSound
  <2>1. entries = <<>> /\ nextId = 1
    BY DEF Init
  <2>2. ASSUME NEW c \in Call PROVE Inspected(c) = {}
    <3>1. call[c].jobs = <<>> /\ call[c].pc = "called"
      BY <1>2
    <3> QED
      BY <3>1 DEF Inspected
  <2>3. Seen = {}
    BY <2>2 DEF Seen
  <2>4. IsFiniteSet(Seen) /\ Cardinality(Seen) = 0
    BY <2>3, FS_EmptySet
  <2>5. entries \in Seq({}) /\ Len(entries) = 0 /\ DOMAIN entries = {}
    BY <2>1
  <2>6. entries \in Seq(ToSet(entries))
    BY <2>5, OwnValues
  <2> QED
    BY <2>1, <2>4, <2>5, <2>6, BoundsAssumption DEF LogSound
<1> QED
  BY <1>3, <1>4 DEF TInv

\* Every step keeps what is traced, and the log.
LEMMA StepTraced == ASSUME IInv, TInv, [Next]_vars PROVE TInv'
<1>1. TypeOK /\ CallsSound /\ LogSound
  BY DEF IInv, TInv
<1>2. ASSUME NEW c \in Call, Steps(c) PROVE TInv'
  <2>1. Traces(c)
    BY <1>1, <1>2, EveryStepTraces
  <2>2. call' = [d \in Call |-> call'[d]] /\ \A d \in Call : d # c => call'[d] = call[d]
    <3>1. PICK X : Kept(c, X)
      <4>1. CASE Failing(c) \/ Arriving(c) \/ Starting(c) \/ Varying(c)
        BY <4>1 DEF Failing, Arriving, Starting, Varying
      <4>2. CASE Asking(c) \/ Listing(c) \/ Hearing(c) \/ Summing(c) \/ Saving(c) \/ Logging(c)
        BY <4>2 DEF Asking, Listing, Hearing, Summing, Saving, Logging
      <4>3. CASE Ending(c)
        BY <4>3 DEF Ending
      <4> QED
        BY <2>1, <4>1, <4>2, <4>3 DEF Traces
    <3> QED
      BY <3>1 DEF Kept
  <2>3. CallSound(c)' /\ VariablesSound(c)' /\ AnswerSound(c)'
    BY <1>1, <2>1, TracesCallSound, TracesVariables, TracesAnswer
  <2>4. \A d \in Call : d # c => CallSound(d)' /\ VariablesSound(d)' /\ AnswerSound(d)'
    BY <1>1, <2>2, LeftAlone DEF CallsSound
  <2>5. CallsSound'
    BY <2>2, <2>3, <2>4 DEF CallsSound
  <2>6. LogSound'
    BY <1>1, <2>1, <2>2, TracesLooks, LooksLogSound
  <2> QED
    BY <2>5, <2>6 DEF TInv
<1>3. CASE Listings \/ Outside \/ Done \/ UNCHANGED vars
  <2>1. UNCHANGED <<call, entries, nextId>>
    BY <1>3 DEF Listings, ListSettles, Outside, Tick, Edit, Unlist, Done, vars
  <2>2. CallsSound'
    BY <1>1, <2>1, LeftAlone DEF CallsSound
  <2>3. \A d \in Call : Inspected(d)' = Inspected(d)
    BY <2>1 DEF Inspected, Panel, ThePanels, TheBoard
  <2>4. Seen' = Seen
    BY <2>3 DEF Seen
  <2> QED
    BY <1>1, <2>1, <2>2, <2>4 DEF LogSound, TInv
<1> QED
  BY <1>2, <1>3 DEF Next, Inside

\* What is traced, and the log, are sound throughout.
LEMMA TracedInvariance == Spec => []TInv
<1>1. IInv /\ TInv /\ [Next]_vars => TInv'
  BY StepTraced
<1> QED
  BY InitTraced, Invariance, <1>1, PTL DEF Spec

\* An entry of a sound log is of what its call looked at.
LEMMA LogSaysSo == TInv => ActivityIsWhatWasInspected
<1> SUFFICES ASSUME TInv PROVE ActivityIsWhatWasInspected
  OBVIOUS
<1>1. LogSound /\ CallsSound
  BY DEF TInv
<1>2. ASSUME NEW i \in DOMAIN entries
      PROVE  /\ entries[i].call \in Call /\ entries[i].panel \in Inspected(entries[i].call)
             /\ entries[i].id = nextId - 1 - (Len(entries) - i)
             /\ call[entries[i].call].ok
  <2>1. <<entries[i].call, entries[i].panel>> \in Seen /\ entries[i].id = nextId - 1 - (Len(entries) - i)
    BY <1>1 DEF LogSound
  <2>2. PICK c \in Call : <<entries[i].call, entries[i].panel>> \in {c} \X Inspected(c)
    BY <2>1 DEF Seen
  <2>3. entries[i].call = c /\ entries[i].panel \in Inspected(c)
    BY <2>2
  <2>4. call[c].ok
    <3>1. SUFFICES ASSUME ~call[c].ok PROVE Inspected(c) = {}
      BY <2>3
    <3>2. call[c].jobs = <<>>
      BY <1>1, <3>1 DEF CallsSound, CallSound
    <3> QED
      BY <3>1, <3>2 DEF Inspected
  <2> QED
    BY <2>1, <2>3, <2>4
<1>3. Len(entries) = Min({nextId - 1, MaxEntries})
  <2>1. /\ nextId - 1 \in Nat /\ MaxEntries \in Nat
        /\ Len(entries) = IF nextId - 1 <= MaxEntries THEN nextId - 1 ELSE MaxEntries
    BY <1>1, BoundsAssumption DEF LogSound
  <2>2. PICK n : n = nextId - 1
    OBVIOUS
  <2>3. CASE n <= MaxEntries
    <3>1. Min({n, MaxEntries}) = n
      BY <2>1, <2>2, <2>3 DEF Min
    <3> QED
      BY <2>1, <2>2, <2>3, <3>1
  <2>4. CASE n > MaxEntries
    <3>1. Min({n, MaxEntries}) = MaxEntries
      BY <2>1, <2>2, <2>4 DEF Min
    <3> QED
      BY <2>1, <2>2, <2>4, <3>1
  <2> QED
    BY <2>1, <2>2, <2>3, <2>4
<1> QED
  BY <1>1, <1>2, <1>3 DEF ActivityIsWhatWasInspected, LogSound

--------------------------------------------------------------------------------
\* The answer's panels and the dashboard's.

\* What one function makes of another's values, and a function after another.
Through(f, g, N)   == [x \in N |-> f[g[x]]]
After(f, a, g, n)  == [k \in 1..n |-> IF k <= a THEN f[k] ELSE g[k - a]]

\* The places of those that show another's data again; these panels, and the plain ones.
MirrorPlaces(flat) == {i \in QueryPlaces(flat) : Mirror(ResolvedPanel(flat[i]))}
Mirrors(board)     == Filter(PanelQueries(board), Mirror)
PlainOnes(flat)    == Filter(flat, LAMBDA panel : ~Queryable(panel))

\* A set is two others that have nothing in common.
Parts(K, I, J) == I \cap J = {} /\ K = I \cup J

\* Those of the values of a one-to-one list that are in a set are listed by their places.
LEMMA Composed ==
  ASSUME NEW A, NEW B, NEW f \in Bijection(A, B), NEW T \in SUBSET B, NEW N,
         NEW S \in SUBSET A, \A a \in A : a \in S <=> f[a] \in T,
         NEW g \in Bijection(N, S), NEW h, h = Through(f, g, N)
  PROVE  h \in Bijection(N, T)
<1>1. h = [x \in N |-> f[g[x]]]
  BY DEF Through
<1>2. f \in [A -> B] /\ (\A x, y \in A : f[x] = f[y] => x = y) /\ (\A b \in B : \E a \in A : f[a] = b)
  BY DEF Bijection, Injection, Surjection, IsInjective
<1>3. g \in [N -> S] /\ (\A x, y \in N : g[x] = g[y] => x = y) /\ (\A a \in S : \E x \in N : g[x] = a)
  BY DEF Bijection, Injection, Surjection, IsInjective
<1>4. \A x \in N : g[x] \in A /\ h[x] = f[g[x]] /\ h[x] \in T
  BY <1>1, <1>3
<1>5. h \in [N -> T]
  BY <1>1, <1>4
<1>6. \A x, y \in N : h[x] = h[y] => x = y
  BY <1>2, <1>3, <1>4
<1>7. \A b \in T : \E x \in N : h[x] = b
  <2> TAKE b \in T
  <2>1. PICK a \in A : f[a] = b
    BY <1>2
  <2>2. PICK x \in N : g[x] = a
    BY <1>3, <2>1
  <2> QED
    BY <1>4, <2>1, <2>2
<1> QED
  BY <1>5, <1>6, <1>7 DEF Bijection, Injection, Surjection, IsInjective

\* One list after another lists both.
LEMMA Joined ==
  ASSUME NEW a \in Nat, NEW b \in Nat, NEW I, NEW J, NEW K, Parts(K, I, J), NEW n, n = a + b,
         NEW f \in Bijection(1..a, I), NEW g \in Bijection(1..b, J),
         NEW h, h = After(f, a, g, n)
  PROVE  h \in Bijection(1..n, K)
<1>1. f \in [1..a -> I] /\ (\A x, y \in 1..a : f[x] = f[y] => x = y) /\ (\A i \in I : \E x \in 1..a : f[x] = i)
  BY DEF Bijection, Injection, Surjection, IsInjective
<1>2. g \in [1..b -> J] /\ (\A x, y \in 1..b : g[x] = g[y] => x = y) /\ (\A j \in J : \E x \in 1..b : g[x] = j)
  BY DEF Bijection, Injection, Surjection, IsInjective
<1>3. \A k \in 1..n :
        IF k <= a THEN k \in 1..a /\ h[k] = f[k] /\ h[k] \in I
        ELSE k - a \in 1..b /\ h[k] = g[k - a] /\ h[k] \in J
  BY <1>1, <1>2 DEF After
<1>4. h \in [1..n -> K]
  BY <1>3 DEF After, Parts
<1>5. \A k, m \in 1..n : h[k] = h[m] => k = m
  <2> SUFFICES ASSUME NEW k \in 1..n, NEW m \in 1..n, h[k] = h[m] PROVE k = m
    OBVIOUS
  <2>1. k <= a <=> m <= a
    BY <1>3 DEF Parts
  <2>2. CASE k <= a
    BY <1>1, <1>3, <2>1, <2>2
  <2>3. CASE ~(k <= a)
    <3>1. k - a = m - a
      BY <1>2, <1>3, <2>1, <2>3
    <3> QED
      BY <3>1
  <2> QED
    BY <2>2, <2>3
<1>6. \A i \in K : \E k \in 1..n : h[k] = i
  <2>1. ASSUME NEW i \in I PROVE \E k \in 1..n : h[k] = i
    <3>1. PICK k \in 1..a : f[k] = i
      BY <1>1
    <3>2. k \in 1..n /\ k <= a
      OBVIOUS
    <3> QED
      BY <1>3, <3>1, <3>2
  <2>2. ASSUME NEW j \in J PROVE \E k \in 1..n : h[k] = j
    <3>1. PICK k \in 1..b : g[k] = j
      BY <1>2
    <3>2. k + a \in 1..n /\ ~(k + a <= a) /\ (k + a) - a = k
      OBVIOUS
    <3>3. h[k + a] = g[k]
      BY <1>3, <3>2
    <3> QED
      BY <3>1, <3>2, <3>3
  <2> QED
    BY <2>1, <2>2 DEF Parts
<1> QED
  BY <1>4, <1>5, <1>6 DEF Bijection, Injection, Surjection, IsInjective

\* One after another, those queried, those that show another's data and the plain ones
\* are the panels at the places h tells.
Placed(h, n, flat, x, m, p) ==
  \A k \in 1..n :
    IF k <= Len(x)
    THEN x[k].panel = flat[h[k]] /\ Queryable(flat[h[k]]) /\ ~Mirror(ResolvedPanel(flat[h[k]]))
    ELSE IF k <= Len(x) + Len(m)
    THEN m[k - Len(x)].panel = flat[h[k]] /\ Queryable(flat[h[k]]) /\ Mirror(ResolvedPanel(flat[h[k]]))
    ELSE p[k - (Len(x) + Len(m))] = flat[h[k]] /\ ~Queryable(flat[h[k]])

\* A board's panels: all, those queried, those that show another's data, the plain ones.
BoardParts(board, flat, x, m, p) ==
  /\ flat = Flattened(board.panels) /\ flat \in Seq(ToSet(flat))
  /\ x = ToQuery(board) /\ m = Mirrors(board) /\ p = PlainOnes(flat)

\* The places of the panels that are queried, shown again and neither are all places.
LEMMA EveryPlace ==
  ASSUME NEW board, NEW flat, NEW x, NEW m, NEW p, BoardParts(board, flat, x, m, p),
         NEW n, n = (Len(x) + Len(m)) + Len(p)
  PROVE  /\ x \in Seq(ToSet(x)) /\ m \in Seq(ToSet(m)) /\ p \in Seq(ToSet(p))
         /\ \E h \in Bijection(1..n, DOMAIN flat) : Placed(h, n, flat, x, m, p)
<1>1. flat = Flattened(board.panels) /\ flat \in Seq(ToSet(flat))
  BY DEF BoardParts
<1>2. PICK Q : Q = QueryPlaces(flat)
  OBVIOUS
<1>3. PICK M \in SUBSET Q : M = MirrorPlaces(flat)
  BY <1>2 DEF MirrorPlaces
<1>4. PICK q : q = PanelQueries(board)
  OBVIOUS
<1>5. /\ q \in Seq(ToSet(q)) /\ Len(q) \in Nat /\ DOMAIN q = 1..Len(q)
      /\ \E b \in Bijection(1..Len(q), Q) : \A k \in 1..Len(q) : q[k] = ResolvedPanel(flat[b[k]])
  BY <1>2, <1>4, <1>1, QueriesSo
<1>6. PICK b \in Bijection(1..Len(q), Q) : \A k \in 1..Len(q) : q[k] = ResolvedPanel(flat[b[k]])
  BY <1>5
<1>7. \A k \in 1..Len(q) : b[k] \in Q /\ (Mirror(q[k]) <=> b[k] \in M) /\ q[k].panel = flat[b[k]]
  <2>1. \A k \in 1..Len(q) : b[k] \in Q
    BY <1>6 DEF Bijection, Injection
  <2>2. \A panel : ResolvedPanel(panel).panel = panel
    BY DEF ResolvedPanel
  <2> QED
    BY <1>2, <1>6, <1>3, <2>1, <2>2 DEF MirrorPlaces
<1>8. PICK I \in SUBSET DOMAIN q : I = {k \in DOMAIN q : ~Mirror(q[k])}
  OBVIOUS
<1>9. PICK K \in SUBSET DOMAIN q : K = {k \in DOMAIN q : Mirror(q[k])}
  OBVIOUS
<1>10. PICK P \in SUBSET DOMAIN flat : P = (DOMAIN flat) \ Q
  OBVIOUS
<1>11. x = Picked(q, I) /\ m = Picked(q, K) /\ p = Picked(flat, P)
  <2>1. x = Picked(q, I)
    BY <1>4, <1>8 DEF ToQuery, Filter, BoardParts
  <2>2. m = Picked(q, K)
    BY <1>4, <1>9 DEF Mirrors, Filter, BoardParts
  <2>3. P = {i \in DOMAIN flat : ~Queryable(flat[i])}
    BY <1>2, <1>10 DEF QueryPlaces
  <2>4. p = Picked(flat, P)
    BY <2>3 DEF PlainOnes, Filter, BoardParts
  <2> QED
    BY <2>1, <2>2, <2>4
<1>12. /\ x \in Seq(ToSet(x)) /\ Len(x) \in Nat
      /\ \E g \in Bijection(1..Len(x), I) : \A k \in 1..Len(x) : x[k] = q[g[k]]
  BY <1>5, <1>11, PickedSo
<1>13. /\ m \in Seq(ToSet(m)) /\ Len(m) \in Nat
       /\ \E g \in Bijection(1..Len(m), K) : \A k \in 1..Len(m) : m[k] = q[g[k]]
  BY <1>5, <1>11, PickedSo
<1>14. /\ p \in Seq(ToSet(p)) /\ Len(p) \in Nat
       /\ \E g \in Bijection(1..Len(p), P) : \A k \in 1..Len(p) : p[k] = flat[g[k]]
  BY <1>11, <1>1, PickedSo
<1>15. PICK u \in Bijection(1..Len(x), I) : \A k \in 1..Len(x) : x[k] = q[u[k]]
  BY <1>12
<1>16. PICK v \in Bijection(1..Len(m), K) : \A k \in 1..Len(m) : m[k] = q[v[k]]
  BY <1>13
<1>17. PICK w \in Bijection(1..Len(p), P) : \A k \in 1..Len(p) : p[k] = flat[w[k]]
  BY <1>14
<1>18. PICK bu : bu = Through(b, u, 1..Len(x))
  OBVIOUS
<1>19. PICK bv : bv = Through(b, v, 1..Len(m))
  OBVIOUS
<1>20. bu \in Bijection(1..Len(x), Q \ M)
  <2>1. I \in SUBSET (1..Len(q)) /\ \A k \in 1..Len(q) : k \in I <=> b[k] \in Q \ M
    BY <1>5, <1>7, <1>8
  <2>2. Q \ M \in SUBSET Q
    OBVIOUS
  <2> QED
    BY <1>6, <1>15, <1>18, <2>1, <2>2, Composed
<1>21. bv \in Bijection(1..Len(m), M)
  <2>1. K \in SUBSET (1..Len(q)) /\ \A k \in 1..Len(q) : k \in K <=> b[k] \in M
    BY <1>5, <1>7, <1>9
  <2>2. M \in SUBSET Q
    OBVIOUS
  <2> QED
    BY <1>6, <1>16, <1>19, <2>1, <2>2, Composed
<1>22. \A k \in 1..Len(x) : x[k].panel = flat[bu[k]] /\ bu[k] \in Q \ M
  <2>1. \A k \in 1..Len(x) : u[k] \in 1..Len(q)
    BY <1>5, <1>15 DEF Bijection, Injection
  <2>2. \A k \in 1..Len(x) : bu[k] = b[u[k]]
    BY <1>18 DEF Through
  <2>3. \A k \in 1..Len(x) : bu[k] \in Q \ M
    BY <1>20 DEF Bijection, Injection
  <2>4. ASSUME NEW k \in 1..Len(x) PROVE x[k].panel = flat[bu[k]]
    <3>1. x[k] = q[u[k]]
      BY <1>15
    <3> QED
      BY <1>7, <2>1, <2>2, <3>1
  <2> QED
    BY <2>3, <2>4
<1>23. \A k \in 1..Len(m) : m[k].panel = flat[bv[k]] /\ bv[k] \in M
  <2>1. \A k \in 1..Len(m) : v[k] \in 1..Len(q)
    BY <1>5, <1>16 DEF Bijection, Injection
  <2>2. \A k \in 1..Len(m) : bv[k] = b[v[k]]
    BY <1>19 DEF Through
  <2>3. \A k \in 1..Len(m) : bv[k] \in M
    BY <1>21 DEF Bijection, Injection
  <2>4. ASSUME NEW k \in 1..Len(m) PROVE m[k].panel = flat[bv[k]]
    <3>1. m[k] = q[v[k]]
      BY <1>16
    <3> QED
      BY <1>7, <2>1, <2>2, <3>1
  <2> QED
    BY <2>3, <2>4
<1>24. \A k \in 1..Len(p) : p[k] = flat[w[k]] /\ w[k] \in P
  BY <1>17 DEF Bijection, Injection
<1>25. PICK j : j = After(bu, Len(x), bv, Len(x) + Len(m))
  OBVIOUS
<1>26. j \in Bijection(1..(Len(x) + Len(m)), (Q \ M) \cup M)
  <2>1. PICK N, R : N = Q \ M /\ R = N \cup M
    OBVIOUS
  <2>2. PICK o : o = Len(x) + Len(m)
    OBVIOUS
  <2>5. Parts(R, N, M) /\ bu \in Bijection(1..Len(x), N)
    BY <1>20, <2>1 DEF Parts
  <2>3. j = After(bu, Len(x), bv, o)
    BY <1>25, <2>2
  <2>4. j \in Bijection(1..o, R)
    BY <1>12, <1>13, <1>21, <2>2, <2>3, <2>5, Joined
  <2> QED
    BY <2>1, <2>2, <2>4
<1>27. PICK h : h = After(j, Len(x) + Len(m), w, (Len(x) + Len(m)) + Len(p))
  OBVIOUS
<1>28. h \in Bijection(1..((Len(x) + Len(m)) + Len(p)), DOMAIN flat)
  <2>1. ((Q \ M) \cup M) \cap P = {} /\ ((Q \ M) \cup M) \cup P = DOMAIN flat
    BY <1>2, <1>10 DEF QueryPlaces
  <2>2. PICK R : R = (Q \ M) \cup M
    OBVIOUS
  <2>3. Parts(DOMAIN flat, R, P) /\ j \in Bijection(1..(Len(x) + Len(m)), R)
    BY <1>26, <2>1, <2>2 DEF Parts
  <2>4. PICK o : o = Len(x) + Len(m) /\ o \in Nat
    BY <1>12, <1>13
  <2>5. PICK l : l = o + Len(p)
    OBVIOUS
  <2>6. h = After(j, o, w, l)
    BY <1>27, <2>4, <2>5
  <2>7. j \in Bijection(1..o, R)
    BY <2>3, <2>4
  <2>8. h \in Bijection(1..l, DOMAIN flat)
    BY <1>14, <1>17, <2>3, <2>4, <2>5, <2>6, <2>7, Joined
  <2> QED
    BY <2>4, <2>5, <2>8
<1>29. ASSUME NEW k \in 1..((Len(x) + Len(m)) + Len(p))
       PROVE  IF k <= Len(x)
              THEN x[k].panel = flat[h[k]] /\ Queryable(flat[h[k]]) /\ ~Mirror(ResolvedPanel(flat[h[k]]))
              ELSE IF k <= Len(x) + Len(m)
              THEN m[k - Len(x)].panel = flat[h[k]] /\ Queryable(flat[h[k]]) /\ Mirror(ResolvedPanel(flat[h[k]]))
              ELSE p[k - (Len(x) + Len(m))] = flat[h[k]] /\ ~Queryable(flat[h[k]])
  <2>1. CASE k <= Len(x)
    <3>1. k \in 1..Len(x) /\ h[k] = bu[k]
      BY <1>12, <1>13, <1>14, <1>25, <1>27, <2>1 DEF After
    <3> QED
      BY <1>2, <1>22, <1>3, <2>1, <3>1 DEF QueryPlaces, MirrorPlaces
  <2>2. CASE ~(k <= Len(x)) /\ k <= Len(x) + Len(m)
    <3>1. k - Len(x) \in 1..Len(m) /\ h[k] = bv[k - Len(x)]
      BY <1>12, <1>13, <1>14, <1>25, <1>27, <2>2 DEF After
    <3> QED
      BY <1>2, <1>23, <1>3, <2>2, <3>1 DEF QueryPlaces, MirrorPlaces
  <2>3. CASE ~(k <= Len(x)) /\ ~(k <= Len(x) + Len(m))
    <3>1. k - (Len(x) + Len(m)) \in 1..Len(p) /\ h[k] = w[k - (Len(x) + Len(m))]
      BY <1>12, <1>13, <1>14, <1>27, <2>3 DEF After
    <3>2. h[k] \in DOMAIN flat /\ h[k] \notin Q
      BY <1>10, <1>24, <3>1
    <3> QED
      BY <1>24, <2>3, <3>1, <3>2, <1>2 DEF QueryPlaces
  <2> QED
    BY <2>1, <2>2, <2>3
<1>30. Placed(h, n, flat, x, m, p)
  BY <1>29 DEF Placed
<1> QED
  BY <1>12, <1>13, <1>14, <1>28, <1>30

\* A sequence by its length and its values, one after another, and the less of two.
LEMMA Listed ==
  ASSUME NEW n \in Nat, NEW s, s = [k \in 1..n |-> s[k]], NEW V, \A k \in 1..n : s[k] \in V
  PROVE  s \in Seq(V) /\ Len(s) = n
OBVIOUS

LEMMA Chained ==
  ASSUME NEW V, NEW s \in Seq(V), NEW t \in Seq(V), NEW a, a = Len(s), NEW b, b = Len(t),
         NEW n, n = a + b, NEW u, u = s \o t
  PROVE  /\ u \in Seq(V) /\ Len(u) = n /\ DOMAIN u = 1..n
         /\ \A k \in 1..n : u[k] = IF k <= a THEN s[k] ELSE t[k - a]
OBVIOUS

LEMMA LessOfTwo == ASSUME NEW a \in Nat, NEW b \in Nat PROVE Min({a, b}) \in 0..b
<1>1. CASE a <= b
  BY <1>1 DEF Min
<1>2. CASE a > b
  BY <1>2 DEF Min
<1> QED
  BY <1>1, <1>2

\* How a render's panel is reported, by its job.
Outcome(job) == IF job.is = "answered" THEN "series" ELSE "error"

\* The panels asked for, those beyond the limit, those that show another's data, and
\* the others, as they are reported.
Spelled(said, n, l, jobs, x, m, p) ==
  \A k \in 1..n :
    said[k] = IF k <= l THEN [panel |-> x[k].panel, how |-> Outcome(jobs[k])]
              ELSE IF k <= Len(x) THEN [panel |-> x[k].panel, how |-> "skipped"]
              ELSE IF k <= Len(x) + Len(m) THEN [panel |-> m[k - Len(x)].panel, how |-> "mirror"]
              ELSE [panel |-> p[k - (Len(x) + Len(m))], how |-> "plain"]

\* What is left of a list after its first places.
LEMMA RestOfAList ==
  ASSUME NEW A, NEW x \in Seq(A), NEW l \in 0..Len(x), NEW r, r = SubSeq(x, l + 1, Len(x))
  PROVE  DOMAIN r = 1..(Len(x) - l) /\ \A k \in 1..(Len(x) - l) : r[k] = x[k + l]
<1>1. Len(x) \in Nat /\ l \in 0..Len(x) /\ DOMAIN x = 1..Len(x)
  OBVIOUS
<1>2. r = [k \in 1..(Len(x) - l) |-> x[l + k]]
  BY <1>1
<1> QED
  BY <1>1, <1>2

\* A render's answer: the panels asked for, those beyond the limit, those that show
\* another's data, and the others.
LEMMA ReportedSo ==
  ASSUME NEW c \in Call, CallSound(c), Aligned(c),
         NEW flat, NEW x, NEW m, NEW p, BoardParts(TheBoard(c), flat, x, m, p),
         NEW said, said = Reported(c), NEW l, l = Limit(c), NEW n, n = (Len(x) + Len(m)) + Len(p)
  PROVE  /\ l \in 0..Len(x) /\ DOMAIN call[c].jobs = 1..l
         /\ \A k \in 1..l : call[c].jobs[k].panel = x[k]
         /\ DOMAIN said = 1..n /\ Len(said) = n /\ Spelled(said, n, l, call[c].jobs, x, m, p)
<1>1. /\ x \in Seq(ToSet(x)) /\ m \in Seq(ToSet(m)) /\ p \in Seq(ToSet(p))
      /\ x = Executable(c) /\ m = Mirrors(TheBoard(c)) /\ p = PlainOnes(flat)
      /\ flat = Flattened(TheBoard(c).panels)
  BY EveryPlace DEF BoardParts, Executable
<1>2. Len(x) \in Nat /\ Len(m) \in Nat /\ Len(p) \in Nat /\ DOMAIN m = 1..Len(m) /\ DOMAIN p = 1..Len(p)
  BY <1>1
<1>3. l \in 0..Len(x)
  <2>1. l = Min({call[c].req.limit, Len(x)})
    BY <1>1 DEF Limit
  <2>2. call[c].req.limit \in Nat
    BY DEF CallSound
  <2> QED
    BY <1>2, <2>1, <2>2, LessOfTwo
<1>4. PICK e : e = SubSeq(x, 1, l)
  OBVIOUS
<1>5. DOMAIN e = 1..l /\ \A k \in 1..l : e[k] = x[k]
  BY <1>2, <1>3, <1>4, <1>1
<1>6. e = ToExecute(c)
  BY <1>4, <1>1 DEF ToExecute
<1>7. DOMAIN call[c].jobs = 1..l /\ \A k \in 1..l : call[c].jobs[k].panel = x[k]
  BY <1>5, <1>6 DEF Aligned
<1>8. PICK r : r = SubSeq(x, l + 1, Len(x))
  OBVIOUS
<1>9. DOMAIN r = 1..(Len(x) - l) /\ \A k \in 1..(Len(x) - l) : r[k] = x[k + l]
  BY <1>1, <1>3, <1>8, RestOfAList
<1>10. r = Skipped(c)
  BY <1>8, <1>1 DEF Skipped
<1> DEFINE asked == [k \in 1..l |-> [panel |-> x[k].panel, how |-> Outcome(call[c].jobs[k])]]
           left  == [k \in 1..(Len(x) - l) |-> [panel |-> x[k + l].panel, how |-> "skipped"]]
           again == [k \in 1..Len(m) |-> [panel |-> m[k].panel, how |-> "mirror"]]
           plain == [k \in 1..Len(p) |-> [panel |-> p[k], how |-> "plain"]]
<1>11. said = ((asked \o left) \o again) \o plain
  <2>1. asked = [i \in DOMAIN call[c].jobs |->
                   [panel |-> e[i].panel, how |-> IF call[c].jobs[i].is = "answered" THEN "series" ELSE "error"]]
    BY <1>5, <1>7 DEF Outcome
  <2>2. left = Items([i \in DOMAIN r |-> r[i].panel], "skipped")
    BY <1>9 DEF Items
  <2>3. again = Items([i \in DOMAIN m |-> m[i].panel], "mirror")
    BY <1>2 DEF Items
  <2>4. plain = Items(p, "plain")
    BY <1>2 DEF Items
  <2> HIDE DEF asked, left, again, plain
  <2> QED
    BY <1>6, <1>10, <1>1, <2>1, <2>2, <2>3, <2>4 DEF Reported, Mirrors, PlainOnes
<1> DEFINE V == {asked[k] : k \in 1..l} \cup {left[k] : k \in 1..(Len(x) - l)}
                \cup {again[k] : k \in 1..Len(m)} \cup {plain[k] : k \in 1..Len(p)}
<1>12. /\ asked \in Seq(V) /\ Len(asked) = l
       /\ left \in Seq(V) /\ Len(left) = Len(x) - l
       /\ again \in Seq(V) /\ Len(again) = Len(m)
       /\ plain \in Seq(V) /\ Len(plain) = Len(p)
  <2>1. /\ asked = [k \in 1..l |-> asked[k]] /\ left = [k \in 1..(Len(x) - l) |-> left[k]]
        /\ again = [k \in 1..Len(m) |-> again[k]] /\ plain = [k \in 1..Len(p) |-> plain[k]]
    OBVIOUS
  <2> HIDE DEF asked, left, again, plain
  <2>2. /\ \A k \in 1..l : asked[k] \in V
        /\ \A k \in 1..(Len(x) - l) : left[k] \in V
        /\ \A k \in 1..Len(m) : again[k] \in V
        /\ \A k \in 1..Len(p) : plain[k] \in V
    OBVIOUS
  <2> HIDE DEF V
  <2>3. l \in Nat /\ Len(x) - l \in Nat
    BY <1>2, <1>3
  <2>4. asked \in Seq(V) /\ Len(asked) = l
    BY <2>1, <2>2, <2>3, Listed
  <2>5. left \in Seq(V) /\ Len(left) = Len(x) - l
    BY <2>1, <2>2, <2>3, Listed
  <2>6. again \in Seq(V) /\ Len(again) = Len(m)
    BY <1>2, <2>1, <2>2, Listed
  <2>7. plain \in Seq(V) /\ Len(plain) = Len(p)
    BY <1>2, <2>1, <2>2, Listed
  <2> QED
    BY <2>4, <2>5, <2>6, <2>7
<1>13. /\ \A k \in 1..l : asked[k] = [panel |-> x[k].panel, how |-> Outcome(call[c].jobs[k])]
       /\ \A k \in 1..(Len(x) - l) : left[k] = [panel |-> x[k + l].panel, how |-> "skipped"]
       /\ \A k \in 1..Len(m) : again[k] = [panel |-> m[k].panel, how |-> "mirror"]
       /\ \A k \in 1..Len(p) : plain[k] = [panel |-> p[k], how |-> "plain"]
  OBVIOUS
<1> HIDE DEF asked, left, again, plain, V
<1>14. PICK s2 : s2 = asked \o left
  OBVIOUS
<1>15. PICK s3 : s3 = s2 \o again
  OBVIOUS
<1>16. /\ s2 \in Seq(V) /\ Len(s2) = Len(x)
       /\ \A k \in 1..Len(x) : s2[k] = IF k <= l THEN asked[k] ELSE left[k - l]
  <2>1. PICK a, b, o : a = Len(asked) /\ b = Len(left) /\ o = a + b
    OBVIOUS
  <2>2. s2 \in Seq(V) /\ Len(s2) = o /\ \A k \in 1..o : s2[k] = IF k <= a THEN asked[k] ELSE left[k - a]
    <3>1. asked \in Seq(V) /\ left \in Seq(V)
      BY <1>12
    <3> QED
      BY <1>14, <2>1, <3>1, Chained
  <2>3. a = l /\ o = Len(x)
    BY <1>2, <1>3, <1>12, <2>1
  <2> QED
    BY <2>2, <2>3
<1>17. /\ s3 \in Seq(V) /\ Len(s3) = Len(x) + Len(m)
       /\ \A k \in 1..(Len(x) + Len(m)) : s3[k] = IF k <= Len(x) THEN s2[k] ELSE again[k - Len(x)]
  <2>1. PICK a, b, o : a = Len(s2) /\ b = Len(again) /\ o = a + b
    OBVIOUS
  <2>2. s3 \in Seq(V) /\ Len(s3) = o /\ \A k \in 1..o : s3[k] = IF k <= a THEN s2[k] ELSE again[k - a]
    <3>1. s2 \in Seq(V) /\ again \in Seq(V)
      BY <1>12, <1>16
    <3> QED
      BY <1>15, <2>1, <3>1, Chained
  <2>3. a = Len(x) /\ o = Len(x) + Len(m)
    BY <1>12, <1>16, <2>1
  <2> QED
    BY <2>2, <2>3
<1>18. /\ said \in Seq(V) /\ Len(said) = (Len(x) + Len(m)) + Len(p)
       /\ \A k \in 1..((Len(x) + Len(m)) + Len(p)) :
            said[k] = IF k <= Len(x) + Len(m) THEN s3[k] ELSE plain[k - (Len(x) + Len(m))]
  <2>1. said = s3 \o plain
    BY <1>11, <1>14, <1>15
  <2>2. PICK a, b, o : a = Len(s3) /\ b = Len(plain) /\ o = a + b
    OBVIOUS
  <2>3. said \in Seq(V) /\ Len(said) = o /\ \A k \in 1..o : said[k] = IF k <= a THEN s3[k] ELSE plain[k - a]
    <3>1. s3 \in Seq(V) /\ plain \in Seq(V)
      BY <1>12, <1>17
    <3> QED
      BY <2>1, <2>2, <3>1, Chained
  <2>4. a = Len(x) + Len(m) /\ o = (Len(x) + Len(m)) + Len(p)
    BY <1>12, <1>17, <2>2
  <2> QED
    BY <2>3, <2>4
<1>19. DOMAIN said = 1..((Len(x) + Len(m)) + Len(p))
  BY <1>18
<1>20. ASSUME NEW k \in 1..((Len(x) + Len(m)) + Len(p))
       PROVE  said[k] = IF k <= l THEN [panel |-> x[k].panel, how |-> Outcome(call[c].jobs[k])]
                        ELSE IF k <= Len(x) THEN [panel |-> x[k].panel, how |-> "skipped"]
                        ELSE IF k <= Len(x) + Len(m) THEN [panel |-> m[k - Len(x)].panel, how |-> "mirror"]
                        ELSE [panel |-> p[k - (Len(x) + Len(m))], how |-> "plain"]
  <2>1. CASE k <= l
    <3>1. k \in 1..l /\ k \in 1..Len(x) /\ k \in 1..(Len(x) + Len(m))
      BY <1>2, <1>3, <2>1
    <3>2. said[k] = s3[k] /\ s3[k] = s2[k] /\ s2[k] = asked[k]
      <4>1. k <= Len(x) /\ k <= Len(x) + Len(m)
        BY <1>2, <1>3, <2>1
      <4> QED
        BY <1>16, <1>17, <1>18, <2>1, <3>1, <4>1
    <3> QED
      BY <1>13, <2>1, <3>1, <3>2
  <2>2. CASE ~(k <= l) /\ k <= Len(x)
    <3>1. k - l \in 1..(Len(x) - l) /\ k \in 1..Len(x) /\ k \in 1..(Len(x) + Len(m)) /\ (k - l) + l = k
      BY <1>2, <1>3, <2>2
    <3>2. said[k] = s3[k] /\ s3[k] = s2[k] /\ s2[k] = left[k - l]
      <4>1. k <= Len(x) + Len(m)
        BY <1>2, <2>2
      <4> QED
        BY <1>16, <1>17, <1>18, <2>2, <3>1, <4>1
    <3>3. left[k - l] = [panel |-> x[k].panel, how |-> "skipped"]
      BY <1>13, <3>1
    <3> QED
      BY <2>2, <3>2, <3>3
  <2>3. CASE ~(k <= Len(x)) /\ k <= Len(x) + Len(m)
    <3>1. k - Len(x) \in 1..Len(m) /\ k \in 1..(Len(x) + Len(m)) /\ ~(k <= l)
      BY <1>2, <1>3, <2>3
    <3>2. said[k] = again[k - Len(x)]
      BY <1>17, <1>18, <2>3, <3>1
    <3> QED
      BY <1>13, <2>3, <3>1, <3>2
  <2>4. CASE ~(k <= Len(x) + Len(m))
    <3>1. k - (Len(x) + Len(m)) \in 1..Len(p) /\ ~(k <= l) /\ ~(k <= Len(x))
      BY <1>2, <1>3, <2>4
    <3>2. said[k] = plain[k - (Len(x) + Len(m))]
      BY <1>18, <2>4
    <3> QED
      BY <1>13, <2>4, <3>1, <3>2
  <2> QED
    BY <2>1, <2>2, <2>3, <2>4
<1>21. Spelled(said, n, l, call[c].jobs, x, m, p)
  BY <1>20 DEF Spelled
<1> QED
  BY <1>3, <1>7, <1>18, <1>19, <1>21

\* Of a set and its image, two parts that go together.
Paired(A, B, h, S, T) == S \subseteq A /\ T \subseteq B /\ \A a \in A : a \in S <=> h[a] \in T

\* One-to-one lists of the same places are as long, and so are the parts of them
\* that go together.
LEMMA CountedAlike ==
  ASSUME NEW A, IsFiniteSet(A), NEW B, NEW h \in Bijection(A, B), NEW S, NEW T, Paired(A, B, h, S, T)
  PROVE  Cardinality(A) = Cardinality(B) /\ Cardinality(S) = Cardinality(T)
<1>1. ExistsBijection(A, B)
  BY DEF ExistsBijection
<1>2. h \in [A -> B] /\ (\A x, y \in A : h[x] = h[y] => x = y) /\ (\A b \in B : \E a \in A : h[a] = b)
  BY DEF Bijection, Injection, Surjection, IsInjective
<1>3. PICK g : g = [a \in S |-> h[a]]
  OBVIOUS
<1>4. g \in Bijection(S, T)
  <2>1. g \in [S -> T]
    BY <1>2, <1>3 DEF Paired
  <2>2. \A x, y \in S : g[x] = g[y] => x = y
    BY <1>2, <1>3 DEF Paired
  <2>3. \A b \in T : \E a \in S : g[a] = b
    BY <1>2, <1>3 DEF Paired
  <2> QED
    BY <2>1, <2>2, <2>3 DEF Bijection, Injection, Surjection, IsInjective
<1>5. ExistsBijection(S, T)
  BY <1>4 DEF ExistsBijection
<1>6. IsFiniteSet(S)
  BY FS_Subset DEF Paired
<1> QED
  BY <1>1, <1>5, <1>6, FS_Bijection

\* A sound answer has every panel of its dashboard once, as what it is.
LEMMA AnswerSaysSo ==
  ASSUME NEW c \in Call, CallSound(c), call[c].uid \in DOMAIN Board, Aligned(c), call[c].panels = Reported(c),
         NEW flat, flat = Flattened(TheBoard(c).panels), NEW said, said = call[c].panels
  PROVE  /\ Len(said) = Len(flat)
         /\ \A p \in ToSet(flat) :
              Occurrences(said, LAMBDA i : i.panel = p /\ i.how \in Expected(c, p))
                = Occurrences(flat, LAMBDA q : q = p)
         /\ Occurrences(said, LAMBDA i : i.how = "skipped") = Len(Executable(c)) - Limit(c)
         /\ \A i \in DOMAIN call[c].jobs :
              (call[c].jobs[i].is = "answered") <=>
                [panel |-> call[c].jobs[i].panel.panel, how |-> "series"] \in ToSet(said)
<1>1. PICK x, m, p : x = ToQuery(TheBoard(c)) /\ m = Mirrors(TheBoard(c)) /\ p = PlainOnes(flat)
  OBVIOUS
<1>2. BoardParts(TheBoard(c), flat, x, m, p) /\ flat \in Seq(ToSet(flat)) /\ x = Executable(c)
  <2>1. flat \in Seq(ToSet(flat))
    BY BoardLists DEF TheBoard
  <2> QED
    BY <1>1, <2>1 DEF BoardParts, Executable
<1>3. PICK n : n = (Len(x) + Len(m)) + Len(p)
  OBVIOUS
<1>4. x \in Seq(ToSet(x)) /\ m \in Seq(ToSet(m)) /\ p \in Seq(ToSet(p))
  BY <1>2, <1>3, EveryPlace
<1>5. PICK h \in Bijection(1..n, DOMAIN flat) : Placed(h, n, flat, x, m, p)
  BY <1>2, <1>3, EveryPlace
<1>6. PICK l : l = Limit(c)
  OBVIOUS
<1>7. /\ l \in 0..Len(x) /\ DOMAIN call[c].jobs = 1..l
      /\ \A k \in 1..l : call[c].jobs[k].panel = x[k]
      /\ DOMAIN said = 1..n /\ Len(said) = n
      /\ Spelled(said, n, l, call[c].jobs, x, m, p)
  BY <1>2, <1>3, <1>6, ReportedSo
<1>8. Len(x) \in Nat /\ Len(m) \in Nat /\ Len(p) \in Nat /\ n \in Nat /\ Len(x) <= n
  BY <1>3, <1>4
<1>9. ASSUME NEW k \in 1..n
      PROVE  /\ said[k].panel = flat[h[k]] /\ said[k].how \in Expected(c, flat[h[k]])
             /\ said[k].how = "skipped" <=> l < k /\ k <= Len(x)
             /\ said[k].how = "series" => k <= l /\ call[c].jobs[k].is = "answered"
             /\ k <= l => said[k] = [panel |-> call[c].jobs[k].panel.panel, how |-> Outcome(call[c].jobs[k])]
  <2>1. CASE k <= l
    <3>1. said[k] = [panel |-> x[k].panel, how |-> Outcome(call[c].jobs[k])] /\ k <= Len(x) /\ k \in 1..l
      BY <1>7, <1>8, <2>1 DEF Spelled
    <3>2. x[k].panel = flat[h[k]] /\ Expected(c, flat[h[k]]) = {"series", "error", "skipped"}
      BY <1>5, <3>1 DEF Expected, Placed
    <3>3. call[c].jobs[k].panel.panel = x[k].panel
      BY <1>7, <3>1
    <3>4. PICK o : o = Outcome(call[c].jobs[k]) /\ o \in {"series", "error"}
      BY DEF Outcome
    <3>5. said[k].panel = x[k].panel /\ said[k].how = o /\ (o = "series" => call[c].jobs[k].is = "answered")
      BY <3>1, <3>4 DEF Outcome
    <3>6. said[k].panel = flat[h[k]] /\ said[k].how \in Expected(c, flat[h[k]])
      BY <3>2, <3>4, <3>5
    <3>7. said[k].how # "skipped" /\ ~(l < k)
      BY <1>7, <2>1, <3>4, <3>5
    <3>8. said[k] = [panel |-> call[c].jobs[k].panel.panel, how |-> Outcome(call[c].jobs[k])]
      BY <3>1, <3>3
    <3> QED
      BY <2>1, <3>5, <3>6, <3>7, <3>8
  <2>2. CASE ~(k <= l) /\ k <= Len(x)
    <3>1. said[k] = [panel |-> x[k].panel, how |-> "skipped"] /\ l < k
      BY <1>7, <1>8, <2>2 DEF Spelled
    <3>2. x[k].panel = flat[h[k]] /\ Expected(c, flat[h[k]]) = {"series", "error", "skipped"}
      BY <1>5, <2>2 DEF Expected, Placed
    <3> QED
      BY <2>2, <3>1, <3>2
  <2>3. CASE ~(k <= Len(x)) /\ k <= Len(x) + Len(m)
    <3>1. said[k] = [panel |-> m[k - Len(x)].panel, how |-> "mirror"] /\ ~(k <= l)
      BY <1>7, <1>8, <2>3 DEF Spelled
    <3>2. m[k - Len(x)].panel = flat[h[k]] /\ Expected(c, flat[h[k]]) = {"mirror"}
      BY <1>5, <2>3 DEF Expected, Placed
    <3> QED
      BY <2>3, <3>1, <3>2
  <2>4. CASE ~(k <= Len(x)) /\ ~(k <= Len(x) + Len(m))
    <3>1. said[k] = [panel |-> p[k - (Len(x) + Len(m))], how |-> "plain"] /\ ~(k <= l)
      BY <1>7, <1>8, <2>4 DEF Spelled
    <3>2. p[k - (Len(x) + Len(m))] = flat[h[k]] /\ Expected(c, flat[h[k]]) = {"plain"}
      BY <1>5, <2>4 DEF Expected, Placed
    <3> QED
      BY <2>4, <3>1, <3>2
  <2> QED
    BY <2>1, <2>2, <2>3, <2>4
<1>10. IsFiniteSet(1..n) /\ Cardinality(1..n) = n
  BY <1>8, FS_Interval
<1>11. Len(flat) \in Nat /\ DOMAIN flat = 1..Len(flat) /\ Cardinality(1..Len(flat)) = Len(flat)
  <2>1. PICK o : o = Len(flat)
    OBVIOUS
  <2>2. o \in Nat /\ DOMAIN flat = 1..o
    BY <1>2, <2>1
  <2>3. Cardinality(1..o) = o
    BY <2>2, FS_Interval
  <2> QED
    BY <2>1, <2>2, <2>3
<1>12. Len(said) = Len(flat)
  <2>1. Cardinality(1..n) = Cardinality(DOMAIN flat)
    <3>1. PICK S, T : S = {} /\ T = {}
      OBVIOUS
    <3>2. Paired(1..n, DOMAIN flat, h, S, T)
      BY <3>1 DEF Paired
    <3> QED
      BY <1>5, <1>10, <3>2, CountedAlike
  <2> QED
    BY <1>7, <1>10, <1>11, <2>1
<1>13. ASSUME NEW q \in ToSet(flat)
       PROVE  Occurrences(said, LAMBDA i : i.panel = q /\ i.how \in Expected(c, q))
                = Occurrences(flat, LAMBDA r : r = q)
  <2>1. PICK S : S = {k \in 1..n : said[k].panel = q /\ said[k].how \in Expected(c, q)}
    OBVIOUS
  <2>2. PICK T : T = {i \in DOMAIN flat : flat[i] = q}
    OBVIOUS
  <2>3. S \in SUBSET (1..n) /\ T \in SUBSET DOMAIN flat
    BY <2>1, <2>2
  <2>4. \A k \in 1..n : h[k] \in DOMAIN flat
    BY <1>5 DEF Bijection, Injection
  <2>5. \A k \in 1..n : k \in S <=> h[k] \in T
    BY <1>9, <2>1, <2>2, <2>4
  <2>9. Paired(1..n, DOMAIN flat, h, S, T)
    BY <2>3, <2>5 DEF Paired
  <2>6. Cardinality(S) = Cardinality(T)
    BY <1>5, <1>10, <2>9, CountedAlike
  <2>7. Occurrences(said, LAMBDA i : i.panel = q /\ i.how \in Expected(c, q)) = Cardinality(S)
    BY <1>7, <2>1 DEF Occurrences
  <2>8. Occurrences(flat, LAMBDA r : r = q) = Cardinality(T)
    BY <2>2 DEF Occurrences
  <2> QED
    BY <2>6, <2>7, <2>8
<1>14. Occurrences(said, LAMBDA i : i.how = "skipped") = Len(Executable(c)) - Limit(c)
  <2>1. {k \in 1..n : said[k].how = "skipped"} = (l + 1)..Len(x)
    BY <1>7, <1>8, <1>9
  <2>2. Cardinality((l + 1)..Len(x)) = Len(x) - l
    <3>1. l + 1 \in Int /\ Len(x) \in Int
      BY <1>7, <1>8
    <3>2. Cardinality((l + 1)..Len(x)) = IF l + 1 > Len(x) THEN 0 ELSE Len(x) - (l + 1) + 1
      BY <3>1, FS_Interval
    <3> QED
      BY <1>7, <1>8, <3>2
  <2> QED
    BY <1>2, <1>6, <1>7, <2>1, <2>2 DEF Occurrences
<1>15. ASSUME NEW i \in DOMAIN call[c].jobs
       PROVE  (call[c].jobs[i].is = "answered") <=>
                [panel |-> call[c].jobs[i].panel.panel, how |-> "series"] \in ToSet(said)
  <2>1. i \in 1..n /\ i <= l
    BY <1>7, <1>8
  <2>2. CASE call[c].jobs[i].is = "answered"
    <3>1. said[i] = [panel |-> call[c].jobs[i].panel.panel, how |-> "series"]
      BY <1>9, <2>1, <2>2 DEF Outcome
    <3> QED
      BY <1>7, <2>1, <2>2, <3>1 DEF ToSet
  <2>3. ASSUME NEW k \in 1..n, said[k] = [panel |-> call[c].jobs[i].panel.panel, how |-> "series"]
        PROVE  call[c].jobs[i].is = "answered"
    <3>1. said[k].how = "series" /\ said[k].panel = call[c].jobs[i].panel.panel
      BY <2>3
    <3>5. k <= l /\ call[c].jobs[k].is = "answered"
      BY <1>9, <3>1
    <3>6. said[k] = [panel |-> call[c].jobs[k].panel.panel, how |-> Outcome(call[c].jobs[k])]
      BY <1>9, <3>5
    <3>2. k <= l /\ call[c].jobs[k].is = "answered" /\ said[k].panel = call[c].jobs[k].panel.panel
      BY <3>5, <3>6
    <3>3. k \in DOMAIN call[c].jobs
      BY <1>7, <3>2
    <3>4. k = i
      BY <3>1, <3>2, <3>3 DEF CallSound
    <3> QED
      BY <3>2, <3>4
  <2> QED
    BY <1>7, <2>2, <2>3 DEF ToSet
<1> QED
  BY <1>12, <1>13, <1>14, <1>15

\* Every panel is accounted for where the calls are sound.
LEMMA SoundAccounts == TInv => EveryPanelAccountedFor
<1> SUFFICES ASSUME TInv, NEW c \in Call, call[c].panels # <<>>
             PROVE  LET leaves == Flattened(TheBoard(c).panels)
                        said   == call[c].panels
                    IN  /\ Len(said) = Len(leaves)
                        /\ \A p \in ToSet(leaves) :
                             Occurrences(said, LAMBDA i : i.panel = p /\ i.how \in Expected(c, p))
                               = Occurrences(leaves, LAMBDA q : q = p)
                        /\ Occurrences(said, LAMBDA i : i.how = "skipped") = Len(Executable(c)) - Limit(c)
                        /\ \A i \in DOMAIN call[c].jobs :
                             (call[c].jobs[i].is = "answered") <=>
                               [panel |-> call[c].jobs[i].panel.panel, how |-> "series"] \in ToSet(said)
  BY DEF EveryPanelAccountedFor
<1>1. CallSound(c) /\ call[c].uid \in DOMAIN Board /\ Aligned(c) /\ call[c].panels = Reported(c)
  BY DEF TInv, CallsSound, AnswerSound
<1> QED
  BY <1>1, AnswerSaysSo

\* A variable is found by its name.
LEMMA FoundByName ==
  ASSUME NEW c, call[c].uid \in DOMAIN Board,
         NEW name \in {v.name : v \in ToSet(Variables(c))}
  PROVE  \E k \in DOMAIN Variables(c) : /\ VariableNamed(Variables(c), name) = Variables(c)[k]
                                        /\ Variables(c)[k].name = name
<1>1. PICK vs : vs = Variables(c)
  OBVIOUS
<1>2. /\ Len(vs) \in Nat /\ DOMAIN vs = 1..Len(vs)
      /\ \A i, j \in DOMAIN vs : vs[i].name = vs[j].name => i = j
  BY <1>1, VariablesDiffer
<1>3. PICK k \in DOMAIN vs : vs[k].name = name
  BY <1>1 DEF ToSet
<1>4. Places(vs, name) = {k} /\ k \in Nat
  BY <1>2, <1>3 DEF Places
<1>5. Min({k}) = k
  BY <1>4 DEF Min
<1> QED
  BY <1>1, <1>3, <1>4, <1>5 DEF VariableNamed

\* A variable that a query leaves open is told of.
LEMMA OpenIsTold == TInv => OpenVariablesAreSaid
<1> SUFFICES ASSUME TInv, NEW c \in Call, NEW i \in DOMAIN call[c].jobs,
                    NEW j \in DOMAIN call[c].jobs[i].request,
                    NEW n \in DOMAIN call[c].jobs[i].request[j].vars
             PROVE  LET asked == call[c].jobs[i].request[j].vars IN
                    /\ n \in call[c].unresolved => asked[n] = <<>>
                    /\ asked[n] = <<>> /\ RequestedAll(VariableNamed(Variables(c), n), call[c].resolved)
                         => n \in call[c].unresolved
  BY DEF OpenVariablesAreSaid
<1>1. CallSound(c) /\ VariablesSound(c)
  BY DEF TInv, CallsSound
<1>2. call[c].pc # "over"
  BY <1>1 DEF VariablesSound
<1>3. call[c].uid \in DOMAIN Board
  <2>1. call[c].jobs # <<>>
    OBVIOUS
  <2> QED
    BY <1>1, <2>1 DEF CallSound
<1>4. PICK asked : asked = call[c].jobs[i].request[j].vars
  OBVIOUS
<1>5. /\ \A k \in DOMAIN Variables(c) : Told(c, Variables(c)[k])
      /\ PutsIn(c, call[c].jobs[i])
  BY <1>1, <1>2 DEF VariablesSound
<1>6. PICK raw : asked = Substituted(raw, Variables(c), call[c].resolved)
  BY <1>4, <1>5 DEF PutsIn
<1>7. /\ n \in {v.name : v \in ToSet(Variables(c))}
      /\ asked[n] = EffectiveValues(VariableNamed(Variables(c), n), call[c].resolved)
  BY <1>4, <1>6 DEF Substituted
<1>8. PICK k \in DOMAIN Variables(c) : /\ VariableNamed(Variables(c), n) = Variables(c)[k]
                                       /\ Variables(c)[k].name = n
  BY <1>3, <1>7, FoundByName
<1>9. Told(c, Variables(c)[k])
  BY <1>5
<1> QED
  BY <1>4, <1>7, <1>8, <1>9 DEF Told, MatchesEverything

\* Each of a dashboard's panels is in the answer of render_dashboard exactly once, as
\* what it is, those that share an id and those of a collapsed row included
\* (renderDashboard, flattenPanels).
THEOREM EveryPanelIsInTheAnswer == Spec => []EveryPanelAccountedFor
BY TracedInvariance, SoundAccounts, PTL

\* The activity log holds the last of the panels that were queried or captured, no
\* other and none twice, and a call that looked at one is answered with what it saw
\* (recordActivity, createActivityLog, withAudit).
THEOREM LogIsWhatWasInspected == Spec => []ActivityIsWhatWasInspected
BY TracedInvariance, LogSaysSo, PTL

\* A query matches everything for a variable exactly if the answer says of it that
\* it is left open (materializeVariables).
THEOREM OpenIsSaid == Spec => []OpenVariablesAreSaid
BY TracedInvariance, OpenIsTold, PTL
================================================================================
