----------------------------- MODULE KnowledgeCache -----------------------------
(***************************************************************************)
(* Product knowledge (src/knowledge/lookup.ts, folderWalk.ts, store.ts):   *)
(* dashboards tagged timebuddy-knowledge, whose panels say what a product  *)
(* is, and a cache file per connection.  A call loads the whole file,      *)
(* works on its copy while Grafana answers, and saves the whole copy in a  *)
(* finally; calls of every process overwrite each other.                   *)
(*                                                                         *)
(* A step is a request to Grafana with the code that handles its answer,   *)
(* or a system call on the cache file.  Time is kept as ages: an entry     *)
(* older than TTL is as good as none.                                      *)
(***************************************************************************)
EXTENDS Naturals, FiniteSets

CONSTANTS Call,       \* calls under way
          Dash,       \* knowledge dashboards
          Folder,
          Parent,     \* each folder's parent, or None
          FolderOf,   \* each dashboard's folder
          Root,       \* the folder key of the top: nothing above it
          Starts,     \* folders that lookups start in
          WithKey,    \* <<dashboard, content>> with a panel for the key looked up
          TTL,        \* FOLDER_WALK_TTL_MS in ticks
          MaxWalkDepth,
          ReusesUid,  \* a deleted dashboard may come back under its uid
          MaxSpan,    \* bound: ticks a call lasts
          MaxEdits    \* bound: edits of dashboards

None == "none"

ASSUME FoldersAreATree ==
  /\ Root \in Folder /\ Starts \subseteq Folder
  /\ Parent \in [Folder -> Folder \cup {None}]
  /\ Parent[Root] = None
  /\ FolderOf \in [Dash -> Folder]
ASSUME NoneIsNoDashboard == None \notin Dash
ASSUME TimesAreNat == TTL \in Nat /\ MaxSpan \in Nat /\ MaxEdits \in Nat

VARIABLES status,   \* of each dashboard: tagged, untagged or deleted
          content,  \* of each dashboard: the number of its edit
          version,  \* Grafana's version of it
          settled,  \* ticks since status or content last changed
          edits,    \* how many there were
          call,     \* of each call: where it is, its copy, its answer so far
          path, temp

grafana == <<status, content, version, settled, edits>>
files   == <<path, temp>>
vars    == <<grafana, call, files>>

File == INSTANCE AtomicWrite WITH Writer <- Call

\* How long a change may go unnoticed: a cached entry lives TTL, and is read by a
\* call that lasts.
Stale == TTL + MaxSpan

NoWalk  == [uid |-> None, age |-> TTL + 1]
NoList  == [uids |-> {}, age |-> TTL + 1]
NoPanel == [version |-> 0, content |-> 0]

EmptyCache == [walk   |-> [f \in Starts |-> NoWalk],
               all    |-> NoList,
               panels |-> [d \in Dash |-> NoPanel]]

\* isCacheEntryStale, the other way round.
Fresh(e) == e.age <= TTL

\* loadKnowledgeCache: a file that does not parse is no file.
Loaded == IF path.whole THEN path.value ELSE EmptyCache

Idle == [pc |-> "idle", start |-> Root, at |-> Root, visited |-> {}, walked |-> None,
         todo |-> {}, found |-> {}, failed |-> None, span |-> 0, cache |-> EmptyCache]

Init ==
  /\ \E s \in {"tagged", "untagged"} : status = [d \in Dash |-> s]
  /\ content = [d \in Dash |-> 0]
  /\ version = [d \in Dash |-> 1]
  /\ settled = [d \in Dash |-> Stale + 1]
  /\ edits = 0
  /\ call = [c \in Call |-> Idle]
  /\ File!Init(EmptyCache)

Tagged == {d \in Dash : status[d] = "tagged"}

--------------------------------------------------------------------------------
\* A call's record between two requests.

\* On to the finally, with an answer or an error; nothing else is needed now.
Ends(r, why) ==
  [Idle EXCEPT !.pc = "open", !.found = r.found, !.failed = why, !.cache = r.cache,
               !.span = r.span]

\* Everything asked for has been tried.
OrEnds(r) == IF r.todo = {} THEN Ends(r, None) ELSE r

\* The connection-wide fallback, less what the walk already tried.
TryListed(r) ==
  OrEnds([r EXCEPT !.pc = "tryListed", !.todo = r.cache.all.uids \ {r.walked}, !.walked = None])

Fallback(r) == IF Fresh(r.cache.all) THEN TryListed(r) ELSE [r EXCEPT !.pc = "list"]

\* The walk's result, cached or not, is tried first.
Walked(r, uid) ==
  IF uid = None THEN Fallback(r)
  ELSE [r EXCEPT !.pc = "tryWalked", !.walked = uid, !.todo = {uid}]

\* The walk is over: its result is cached, "found nothing" too.
WalkEnds(r, uid) ==
  Walked([r EXCEPT !.cache.walk[r.start] = [uid |-> uid, age |-> 0],
                   !.at = Root, !.visited = {}], uid)

--------------------------------------------------------------------------------
Step(c, r) == call' = [call EXCEPT ![c] = r]

\* resolveProductContext: the file is loaded and the walk's entry consulted.
Lookup(c, f) ==
  /\ call[c].pc = "idle"
  /\ LET r == [Idle EXCEPT !.start = f, !.at = f, !.cache = Loaded]
         e == r.cache.walk[f]
     IN  Step(c, IF Fresh(e) THEN Walked(r, e.uid) ELSE [r EXCEPT !.pc = "walk"])
  /\ UNCHANGED <<grafana, files>>

\* findProductContextAcrossConnection, listKnowledgeDashboards: every tagged
\* dashboard, searched for before the file is loaded.
Survey(c) ==
  /\ call[c].pc = "idle"
  /\ Step(c, [Idle EXCEPT !.pc = "load", !.todo = Tagged])
  /\ UNCHANGED <<grafana, files>>

Load(c) ==
  /\ call[c].pc = "load"
  /\ Step(c, OrEnds([call[c] EXCEPT !.pc = "tryAll", !.cache = Loaded]))
  /\ UNCHANGED <<grafana, files>>

\* searchFolderForKnowledgeDashboard: any match will do.
SearchFolder(c) ==
  /\ call[c].pc = "walk"
  /\ LET r    == call[c]
         here == {d \in Tagged : FolderOf[d] = r.at}
     IN  \/ \E d \in here : Step(c, WalkEnds(r, d))
         \/ /\ here = {}
            /\ IF r.at = Root \/ r.at \in r.visited
               THEN Step(c, WalkEnds(r, None))
               ELSE Step(c, [r EXCEPT !.pc = "parent", !.visited = @ \cup {r.at}])
  /\ UNCHANGED <<grafana, files>>

\* parentFolderUid: the walk goes on above, unless there is nothing (or the
\* folder is gone, which is the same) or it has gone far enough.
AskParent(c) ==
  /\ call[c].pc = "parent"
  /\ LET r  == call[c]
         up == Parent[r.at]
     IN  IF up = None \/ Cardinality(r.visited) > MaxWalkDepth
         THEN Step(c, WalkEnds(r, None))
         ELSE Step(c, [r EXCEPT !.pc = "walk", !.at = up])
  /\ UNCHANGED <<grafana, files>>

\* listAllKnowledgeDashboardUids, when its entry is stale.
SearchAll(c) ==
  /\ call[c].pc = "list"
  /\ Step(c, TryListed([call[c] EXCEPT !.cache.all = [uids |-> Tagged, age |-> 0]]))
  /\ UNCHANGED <<grafana, files>>

\* A slip, not the code: any version of a cached dashboard will do.
PanelsOfAnyVersion(d, cached) ==
  IF cached # NoPanel THEN cached ELSE [version |-> version[d], content |-> content[d]]

\* loadDashboardPanels: the body is fetched to know its version; the cached
\* panels are kept if it is theirs.
Panels(d, cached) ==
  IF cached.version = version[d] THEN cached
  ELSE [version |-> version[d], content |-> content[d]]

\* One dashboard is fetched: a lookup ends at the first match, a survey when
\* all were fetched (in any order, since they are asked for together).
Fetch(c, d) ==
  LET r == call[c]
      p == Panels(d, r.cache.panels[d])
      s == [r EXCEPT !.cache.panels[d] = p, !.todo = @ \ {d}]
      t == IF <<d, p.content>> \in WithKey THEN [s EXCEPT !.found = @ \cup {<<d, p.content>>}] ELSE s
  IN  /\ r.pc \in {"tryWalked", "tryListed", "tryAll"}
      /\ d \in r.todo
      /\ status[d] # "deleted"
      /\ Step(c, IF r.pc = "tryAll" THEN OrEnds(t)
                 ELSE IF t.found # {} THEN Ends(t, None)
                 ELSE IF r.pc = "tryWalked" THEN Fallback(t)
                 ELSE OrEnds(t))
      /\ UNCHANGED <<grafana, files>>

\* The dashboard is gone: a 404 is an error like any other.
FetchMissing(c, d) ==
  /\ call[c].pc \in {"tryWalked", "tryListed", "tryAll"}
  /\ d \in call[c].todo
  /\ status[d] = "deleted"
  /\ Step(c, Ends([call[c] EXCEPT !.found = {}], "deleted"))
  /\ UNCHANGED <<grafana, files>>

\* Grafana does not answer: the call throws, its copy is saved all the same.
Unreachable(c) ==
  /\ call[c].pc \in {"walk", "parent", "list", "tryWalked", "tryListed", "tryAll"}
  /\ Step(c, Ends([call[c] EXCEPT !.found = {}], "unreachable"))
  /\ UNCHANGED <<grafana, files>>

--------------------------------------------------------------------------------
\* saveKnowledgeCache, in the finally.
Open(c) ==
  /\ call[c].pc = "open"
  /\ File!Open(c, call[c].cache)
  /\ Step(c, [call[c] EXCEPT !.pc = "write", !.found = {}, !.failed = None])
  /\ UNCHANGED grafana

Write(c) ==
  /\ call[c].pc = "write"
  /\ File!Write(c, call[c].cache)
  /\ Step(c, [call[c] EXCEPT !.pc = "rename"])
  /\ UNCHANGED grafana

\* Renamed: the answer is returned.
Rename(c) ==
  /\ call[c].pc = "rename"
  /\ File!Rename(c)
  /\ Step(c, Idle)
  /\ UNCHANGED grafana

\* Saving fails, and the error replaces the answer; or the process dies.
Abandon(c) ==
  /\ call[c].pc \in {"open", "write", "rename"}
  /\ File!Abandon(c)
  /\ Step(c, Idle)
  /\ UNCHANGED grafana

--------------------------------------------------------------------------------
\* Users edit, untag, tag and delete dashboards.
Change(d, s) ==
  /\ edits < MaxEdits
  /\ edits' = edits + 1
  /\ status' = [status EXCEPT ![d] = s]
  /\ content' = [content EXCEPT ![d] = @ + 1]
  /\ version' = [version EXCEPT ![d] = IF status[d] = "deleted" THEN 1 ELSE @ + 1]
  /\ settled' = [settled EXCEPT ![d] = 0]
  /\ UNCHANGED <<call, files>>

Edit(d) ==
  /\ status[d] = "deleted" => ReusesUid
  /\ \E s \in {"tagged", "untagged"} : Change(d, s)

Delete(d) == status[d] # "deleted" /\ Change(d, "deleted")

\* A slip, not the code: what was found does not grow old.
NeverOlder(cache) == cache

\* Entries past the TTL are as good as none.
Older(cache) ==
  [cache EXCEPT
     !.walk = [f \in Starts |-> IF cache.walk[f].age >= TTL THEN NoWalk
                                ELSE [cache.walk[f] EXCEPT !.age = @ + 1]],
     !.all  = IF cache.all.age >= TTL THEN NoList ELSE [cache.all EXCEPT !.age = @ + 1]]

\* A tick; calls end before they have lasted longer than MaxSpan.
Tick ==
  /\ \A c \in Call : call[c].pc # "idle" => call[c].span < MaxSpan
  /\ settled' = [d \in Dash |-> IF settled[d] > Stale THEN settled[d] ELSE settled[d] + 1]
  /\ call' = [c \in Call |-> IF call[c].pc = "idle" THEN Idle
                             ELSE [call[c] EXCEPT !.span = @ + 1, !.cache = Older(@)]]
  /\ path' = [path EXCEPT !.value = Older(@)]
  /\ temp' = [n \in Call |-> IF temp[n] = <<>> THEN <<>>
                             ELSE <<[temp[n][1] EXCEPT !.value = Older(@)]>>]
  /\ UNCHANGED <<status, content, version, edits>>

Next ==
  \/ \E c \in Call, f \in Starts : Lookup(c, f)
  \/ \E c \in Call : \/ Survey(c) \/ Load(c)
                     \/ SearchFolder(c) \/ AskParent(c) \/ SearchAll(c)
                     \/ Unreachable(c)
                     \/ Open(c) \/ Write(c) \/ Rename(c) \/ Abandon(c)
  \/ \E c \in Call, d \in Dash : Fetch(c, d) \/ FetchMissing(c, d)
  \/ \E d \in Dash : Edit(d) \/ Delete(d)
  \/ Tick

Spec == Init /\ [][Next]_vars

--------------------------------------------------------------------------------
CacheOK(cache) ==
  /\ \A f \in Starts : cache.walk[f] \in [uid : Dash \cup {None}, age : 0 .. TTL + 1]
  /\ cache.all \in [uids : SUBSET Dash, age : 0 .. TTL + 1]
  /\ \A d \in Dash : cache.panels[d].version \in 0 .. MaxEdits + 1
                     /\ cache.panels[d].content \in 0 .. MaxEdits

\* Types, of every copy of the cache too.
TypeOK ==
  /\ status \in [Dash -> {"tagged", "untagged", "deleted"}]
  /\ content \in [Dash -> 0 .. MaxEdits]
  /\ version \in [Dash -> 1 .. MaxEdits + 1]
  /\ settled \in [Dash -> 0 .. Stale + 1]
  /\ edits \in 0 .. MaxEdits
  /\ CacheOK(path.value)
  /\ \A c \in Call :
       /\ CacheOK(call[c].cache)
       /\ call[c].todo \subseteq Dash
       /\ call[c].span \in 0 .. MaxSpan
       /\ call[c].pc \in {"open", "write", "rename"} => call[c].todo = {}

\* A reader of the cache never finds a half-written file, which it would take
\* for no cache at all, however many calls save at once.
CacheIsWhole == File!NeverTorn

\* What a call returns is what the dashboard said when it was fetched, though
\* the panels come from a file any other call may have replaced.
ServedIsCurrent ==
  [][\A c \in Call : \A x \in call'[c].found \ call[c].found : x[2] = content[x[1]]]_vars

Answers(c) == call[c].pc = "open" /\ call[c].failed = None

\* A lookup that finds nothing: whatever is published was changed lately.
\* "Nothing here" is not remembered for ever, nor is an old list.
MissIsRecent ==
  \A c \in Call, d \in Dash :
    /\ Answers(c) /\ call[c].found = {}
    /\ status[d] = "tagged" /\ <<d, content[d]>> \in WithKey
    => settled[d] <= Stale

\* A lookup that fails although Grafana answers: some dashboard was deleted
\* lately.  One that is gone does not fail lookups for ever.
FailureIsRecent ==
  \A c \in Call :
    call[c].pc = "open" /\ call[c].failed = "deleted"
    => \E d \in Dash : status[d] = "deleted" /\ settled[d] <= Stale

\* Neither absence outlives the time-to-live: of what is published now, or of a
\* dashboard that is gone (lookupPanelKnowledge over a cache of both).
NoStaleAbsence == MissIsRecent /\ FailureIsRecent
================================================================================
