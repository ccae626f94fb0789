-------------------------- MODULE KnowledgeCacheProofs --------------------------
(***************************************************************************)
(* Proofs about KnowledgeCache, for any calls, dashboards, folders and     *)
(* times: the file is always whole; what is returned is what the dashboard *)
(* says when it is fetched, and neither a miss nor a failure outlives what *)
(* it rests on, provided that no dashboard comes back under the uid of a   *)
(* deleted one.                                                            *)
(***************************************************************************)
EXTENDS KnowledgeCache, TLAPS

\* Shapes of a cache and of a call's record: what the helpers need to know.
Places  == {"idle", "load", "walk", "parent", "list", "tryWalked", "tryListed", "tryAll",
            "open", "write", "rename"}
Reasons == {None, "deleted", "unreachable"}
Finds  == SUBSET (Dash \X Nat)
Panel  == [version : Nat, content : Nat]
Cache  == [walk   : [Starts -> [uid : Dash \cup {None}, age : Nat]],
           all    : [uids : SUBSET Dash, age : Nat],
           panels : [Dash -> Panel]]
Record == [pc : Places, start : Folder, at : Folder, visited : SUBSET Folder,
           walked : Dash \cup {None}, todo : SUBSET Dash,
           found : Finds, failed : Reasons, span : Nat, cache : Cache]

Shapes ==
  /\ status \in [Dash -> {"tagged", "untagged", "deleted"}]
  /\ content \in [Dash -> Nat]
  /\ version \in [Dash -> Nat \ {0}]
  /\ call \in [Call -> Record]
  /\ path \in [whole : BOOLEAN, value : Cache]
  /\ temp \in [Call -> {<<>>} \cup {<<f>> : f \in [whole : BOOLEAN, value : Cache]}]

\* Where uids are not used again: a cached panel is of a version no later than
\* Grafana's; of that version, it has its content.
Honest(cache) ==
  ~ReusesUid => \A d \in Dash :
    /\ cache.panels[d].version <= version[d]
    /\ cache.panels[d].version = version[d] => cache.panels[d].content = content[d]

\* Every copy is honest: those of calls, of temporary files, of the cache file;
\* a temporary file about to be renamed is whole.
IInv ==
  /\ Shapes
  /\ \A c \in Call : Honest(call[c].cache)
  /\ \A n \in Call : temp[n] # <<>> => Honest(temp[n][1].value)
  /\ Honest(path.value)
  /\ \A c \in Call : call[c].pc = "rename" /\ temp[c] # <<>> => temp[c][1].whole
  /\ path.whole

--------------------------------------------------------------------------------
\* Nothing found, and one more thing found.
LEMMA FindsGrow ==
  /\ {} \in Finds
  /\ \A F \in Finds, d \in Dash, n \in Nat : F \cup {<<d, n>>} \in Finds
<1>1. \A d \in Dash, n \in Nat : <<d, n>> \in Dash \X Nat
  OBVIOUS
<1>2. ASSUME NEW S, NEW F \in SUBSET S, NEW x \in S PROVE F \cup {x} \in SUBSET S
  OBVIOUS
<1>3. QED
  BY <1>1, <1>2 DEF Finds

\* The records that have no entry are caches and calls.
LEMMA EmptyIsCache == EmptyCache \in Cache /\ Idle \in Record
<1>1. EmptyCache \in Cache
  BY TimesAreNat DEF EmptyCache, Cache, Panel, NoWalk, NoList, NoPanel
<1>2. QED
  BY <1>1, FoldersAreATree, FindsGrow DEF Idle, Record, Places, Reasons

\* An entry of a version of 0 is of no version of Grafana's.
LEMMA EmptyIsHonest == Shapes => Honest(EmptyCache)
BY DEF Shapes, Honest, EmptyCache, NoPanel

\* What moves a call along leaves the panels of its copy, and what it found;
\* and it does not get to the rename.
Kept(r, s) ==
  /\ s \in Record
  /\ s.cache.panels = r.cache.panels
  /\ s.found = r.found
  /\ s.pc = "rename" => r.pc = "rename"

\* Ending a call leaves its copy and what it found.
LEMMA EndsKeeps == ASSUME NEW r \in Record, NEW why \in Reasons PROVE Kept(r, Ends(r, why))
BY EmptyIsCache, FindsGrow DEF Record, Ends, Kept, Idle, Places

\* So does ending it only if nothing is left to try.
LEMMA OrEndsKeeps == ASSUME NEW r \in Record PROVE Kept(r, OrEnds(r))
BY EndsKeeps DEF OrEnds, Kept, Reasons, Record

\* Going on to the connection-wide list leaves them too.
LEMMA TryListedKeeps == ASSUME NEW r \in Record PROVE Kept(r, TryListed(r))
<1> DEFINE s == [r EXCEPT !.pc = "tryListed", !.todo = r.cache.all.uids \ {r.walked},
                          !.walked = None]
<1>1. Kept(r, s)
  BY DEF Record, Cache, Kept, Places
<1>2. QED
  BY <1>1, OrEndsKeeps DEF TryListed, Kept

\* So does falling back, to the list or to asking for one.
LEMMA FallbackKeeps == ASSUME NEW r \in Record PROVE Kept(r, Fallback(r))
<1>1. Kept(r, [r EXCEPT !.pc = "list"])
  BY DEF Record, Kept, Places
<1>2. QED
  BY <1>1, TryListedKeeps DEF Fallback

\* So does what follows a walk, whatever the walk found.
LEMMA WalkedKeeps ==
  ASSUME NEW r \in Record, NEW uid \in Dash \cup {None} PROVE Kept(r, Walked(r, uid))
<1>1. uid # None => Kept(r, [r EXCEPT !.pc = "tryWalked", !.walked = uid, !.todo = {uid}])
  BY DEF Record, Kept, Places
<1>2. QED
  BY <1>1, FallbackKeeps DEF Walked

\* The end of a walk writes the walk's entry of the copy, and no panel of it.
LEMMA WalkEndsKeeps ==
  ASSUME NEW r \in Record, NEW uid \in Dash \cup {None} PROVE Kept(r, WalkEnds(r, uid))
<1> DEFINE cache == [r.cache EXCEPT !.walk[r.start] = [uid |-> uid, age |-> 0]]
           s == [r EXCEPT !.cache.walk[r.start] = [uid |-> uid, age |-> 0],
                          !.at = Root, !.visited = {}]
<1>1. cache \in Cache /\ cache.panels = r.cache.panels
  BY DEF Record, Cache
<1>2. s = [r EXCEPT !.cache = cache, !.at = Root, !.visited = {}]
  BY DEF Record, Cache
<1>3. Kept(r, s)
  BY <1>1, <1>2, FoldersAreATree DEF Record, Kept
<1>4. QED
  BY <1>3, WalkedKeeps DEF WalkEnds, Kept

--------------------------------------------------------------------------------
\* What a step adds to a call's findings is what the dashboard says.
ServedStep == ~ReusesUid =>
  \A c \in Call : \A x \in call'[c].found \ call[c].found : x[2] = content[x[1]]

\* A step of one call that leaves Grafana and the files alone.
LEMMA CallMoves ==
  ASSUME IInv, NEW c \in Call, NEW r \in Record, Honest(r.cache), r.pc # "rename",
         ~ReusesUid => \A x \in r.found \ call[c].found : x[2] = content[x[1]],
         Step(c, r), UNCHANGED <<grafana, files>>
  PROVE  IInv' /\ ServedStep
<1>1. Shapes'
  BY DEF IInv, Shapes, Step, grafana, files
<1>2. \A d \in Call : call'[d] = IF d = c THEN r ELSE call[d]
  BY DEF IInv, Shapes, Step
<1>3. \A d \in Call : Honest(call[d].cache)'
  BY <1>2 DEF IInv, Honest, grafana
<1>4. /\ \A n \in Call : temp'[n] # <<>> => Honest(temp[n][1].value)'
      /\ Honest(path.value)'
      /\ path'.whole
  BY DEF IInv, Honest, grafana, files
<1>5. \A d \in Call : call'[d].pc = "rename" /\ temp'[d] # <<>> => temp'[d][1].whole
  BY <1>2 DEF IInv, files
<1>6. ServedStep
  BY <1>2 DEF ServedStep
<1>7. QED
  BY <1>1, <1>3, <1>4, <1>5, <1>6 DEF IInv

\* The same for a step that only moves the call along.
LEMMA KeptMoves ==
  ASSUME IInv, NEW c \in Call, NEW r \in Record, Kept(call[c], r), call[c].pc # "rename",
         Step(c, r), UNCHANGED <<grafana, files>>
  PROVE  IInv' /\ ServedStep
<1>1. Honest(r.cache) /\ r.pc # "rename" /\ r.found = call[c].found
  BY DEF IInv, Honest, Kept
<1>2. QED
  BY <1>1, CallMoves

\* The file, loaded, is honest.
LEMMA LoadedIsHonest == IInv => Loaded \in Cache /\ Honest(Loaded)
BY EmptyIsCache, EmptyIsHonest DEF IInv, Shapes, Loaded

\* A call begins.
LEMMA LookupStep ==
  ASSUME IInv, NEW c \in Call, NEW f \in Starts, Lookup(c, f)
  PROVE  IInv' /\ ServedStep
<1> DEFINE r == [Idle EXCEPT !.start = f, !.at = f, !.cache = Loaded]
           e == r.cache.walk[f]
           s == IF Fresh(e) THEN Walked(r, e.uid) ELSE [r EXCEPT !.pc = "walk"]
<1>1. /\ r \in Record /\ r.found = {} /\ r.cache = Loaded /\ r.pc = "idle"
      /\ Loaded \in Cache /\ Honest(Loaded)
  BY EmptyIsCache, LoadedIsHonest, FoldersAreATree DEF Record, Idle
<1>2. e.uid \in Dash \cup {None}
  BY <1>1 DEF Cache
<1>3. Kept(r, [r EXCEPT !.pc = "walk"])
  BY <1>1 DEF Record, Kept, Places
<1>4. Kept(r, s)
  BY <1>1, <1>2, <1>3, WalkedKeeps
<1>5. s \in Record /\ s.found = {} /\ Honest(s.cache) /\ s.pc # "rename"
  BY <1>1, <1>4 DEF Kept, Honest
<1>6. Step(c, s) /\ UNCHANGED <<grafana, files>>
  BY DEF Lookup
<1> HIDE DEF s
<1>7. QED
  BY <1>5, <1>6, CallMoves

\* A survey starts with an empty copy.
LEMMA SurveyStep ==
  ASSUME IInv, NEW c \in Call, Survey(c)
  PROVE  IInv' /\ ServedStep
<1> DEFINE r == [Idle EXCEPT !.pc = "load", !.todo = Tagged]
<1>1. r \in Record /\ r.found = {} /\ r.cache = EmptyCache /\ r.pc = "load"
  BY EmptyIsCache DEF Record, Idle, Tagged, Places
<1>2. Honest(r.cache)
  BY <1>1, EmptyIsHonest DEF IInv
<1>3. Step(c, r) /\ UNCHANGED <<grafana, files>>
  BY DEF Survey
<1> HIDE DEF r
<1>4. QED
  BY <1>1, <1>2, <1>3, CallMoves

\* Loading takes the file's value for the copy, which is honest if the file is.
LEMMA LoadStep ==
  ASSUME IInv, NEW c \in Call, Load(c)
  PROVE  IInv' /\ ServedStep
<1> DEFINE r == [call[c] EXCEPT !.pc = "tryAll", !.cache = Loaded]
<1>1. call[c] \in Record /\ Loaded \in Cache /\ Honest(Loaded)
  BY LoadedIsHonest DEF IInv, Shapes
<1>2. r \in Record /\ r.found = call[c].found /\ r.cache = Loaded /\ r.pc = "tryAll"
  BY <1>1 DEF Record, Places
<1>3. Step(c, OrEnds(r)) /\ UNCHANGED <<grafana, files>>
  BY DEF Load
<1> HIDE DEF r
<1>4. /\ OrEnds(r) \in Record /\ OrEnds(r).found = call[c].found
      /\ Honest(OrEnds(r).cache) /\ OrEnds(r).pc # "rename"
  BY <1>1, <1>2, OrEndsKeeps DEF Kept, Honest
<1>5. QED
  BY <1>3, <1>4, CallMoves

\* The walk up the folders, and the search of all of them.
LEMMA WalkStep ==
  ASSUME IInv, NEW c \in Call, SearchFolder(c) \/ AskParent(c) \/ SearchAll(c)
  PROVE  IInv' /\ ServedStep
<1> DEFINE r == call[c]
<1>1. r \in Record /\ UNCHANGED <<grafana, files>> /\ r.pc # "rename"
  BY DEF IInv, Shapes, SearchFolder, AskParent, SearchAll
<1>2. CASE \E uid \in Dash \cup {None} : Step(c, WalkEnds(r, uid))
  BY <1>1, <1>2, WalkEndsKeeps, KeptMoves DEF Kept
<1>3. CASE SearchFolder(c) /\ Step(c, [r EXCEPT !.pc = "parent", !.visited = @ \cup {r.at}])
  <2>1. Kept(r, [r EXCEPT !.pc = "parent", !.visited = @ \cup {r.at}])
    BY <1>1 DEF Record, Kept, Places
  <2>2. QED
    BY <1>1, <1>3, <2>1, KeptMoves DEF Kept
<1>4. CASE Parent[r.at] # None /\ Step(c, [r EXCEPT !.pc = "walk", !.at = Parent[r.at]])
  <2>1. Kept(r, [r EXCEPT !.pc = "walk", !.at = Parent[r.at]])
    BY <1>1, <1>4, FoldersAreATree DEF Record, Kept, Places
  <2>2. QED
    BY <1>1, <1>4, <2>1, KeptMoves DEF Kept
<1>5. CASE SearchAll(c)
  <2> DEFINE s == [r EXCEPT !.cache.all = [uids |-> Tagged, age |-> 0]]
             cache == [r.cache EXCEPT !.all = [uids |-> Tagged, age |-> 0]]
  <2>1. cache \in Cache /\ cache.panels = r.cache.panels
    BY <1>1 DEF Record, Cache, Tagged
  <2>2. s = [r EXCEPT !.cache = cache]
    BY <1>1 DEF Record, Cache
  <2>3. Kept(r, s)
    BY <1>1, <2>1, <2>2 DEF Record, Kept
  <2>4. Kept(r, TryListed(s))
    BY <2>3, TryListedKeeps DEF Kept
  <2>5. Step(c, TryListed(s))
    BY <1>5 DEF SearchAll
  <2> HIDE DEF s
  <2>6. QED
    BY <1>1, <2>4, <2>5, KeptMoves DEF Kept
<1>6. QED
  <2>1. CASE SearchFolder(c)
    BY <1>2, <1>3, <2>1 DEF SearchFolder, Tagged
  <2>2. CASE AskParent(c)
    BY <1>2, <1>4, <2>2 DEF AskParent
  <2>3. QED
    BY <1>5, <2>1, <2>2

\* A dashboard is fetched: the panels, cached or new, are what it says.
LEMMA FetchStep ==
  ASSUME IInv, NEW c \in Call, NEW d \in Dash, Fetch(c, d)
  PROVE  IInv' /\ ServedStep
<1> DEFINE r == call[c]
           p == Panels(d, r.cache.panels[d])
           cache == [r.cache EXCEPT !.panels[d] = p]
           s == [r EXCEPT !.cache.panels[d] = p, !.todo = @ \ {d}]
           t == IF <<d, p.content>> \in WithKey
                THEN [s EXCEPT !.found = @ \cup {<<d, p.content>>}] ELSE s
           u == IF r.pc = "tryAll" THEN OrEnds(t)
                ELSE IF t.found # {} THEN Ends(t, None)
                ELSE IF r.pc = "tryWalked" THEN Fallback(t)
                ELSE OrEnds(t)
<1>1. r \in Record /\ Honest(r.cache) /\ r.pc # "rename"
  BY DEF IInv, Shapes, Fetch
<1>2. p \in Panel /\ p.version = version[d] /\ (~ReusesUid => p.content = content[d])
  BY <1>1 DEF IInv, Shapes, Record, Cache, Panel, Honest, Panels
<1>3. cache \in Cache /\ Honest(cache)
  <2> HIDE DEF p
  <2>1. r.cache \in Cache
    BY <1>1 DEF Record
  <2>2. cache \in Cache /\ \A e \in Dash : cache.panels[e] = IF e = d THEN p ELSE r.cache.panels[e]
    BY <1>2, <2>1 DEF Cache
  <2>3. version[d] \in Nat
    BY DEF IInv, Shapes
  <2>4. QED
    BY <1>1, <1>2, <2>2, <2>3 DEF Honest
<1>4. /\ s \in Record /\ s.cache = cache /\ s.found = r.found /\ s.pc = r.pc
  <2>1. s = [r EXCEPT !.cache = cache, !.todo = @ \ {d}]
    BY <1>1 DEF Record, Cache
  <2>2. QED
    BY <1>1, <1>3, <2>1 DEF Record
<1>5. p.content \in Nat
  BY <1>2 DEF Panel
<1> HIDE DEF p, cache, s
<1>6. /\ t \in Record /\ t.cache = cache /\ t.pc = r.pc
      /\ t.found \in {r.found, r.found \cup {<<d, p.content>>}}
  BY <1>4, <1>5, FindsGrow DEF Record
<1> HIDE DEF t
<1>7. Kept(t, u)
  BY <1>6, OrEndsKeeps, EndsKeeps, FallbackKeeps DEF Reasons
<1>8. Step(c, u) /\ UNCHANGED <<grafana, files>>
  BY DEF Fetch, p, s, t
<1> HIDE DEF u
<1>9. u \in Record /\ Honest(u.cache) /\ u.pc # "rename"
  BY <1>1, <1>3, <1>6, <1>7 DEF Kept, Honest
<1>10. ~ReusesUid => \A x \in u.found \ call[c].found : x[2] = content[x[1]]
  BY <1>2, <1>6, <1>7 DEF Kept
<1>11. QED
  BY <1>8, <1>9, <1>10, CallMoves

\* A request fails.
LEMMA FailureStep ==
  ASSUME IInv, NEW c \in Call,
         Unreachable(c) \/ \E d \in Dash : FetchMissing(c, d)
  PROVE  IInv' /\ ServedStep
<1> DEFINE r == [call[c] EXCEPT !.found = {}]
<1>1. /\ call[c] \in Record /\ Honest(call[c].cache) /\ call[c].pc # "rename"
      /\ UNCHANGED <<grafana, files>>
  BY DEF IInv, Shapes, Unreachable, FetchMissing
<1>2. PICK why \in Reasons : Step(c, Ends(r, why))
  BY DEF Unreachable, FetchMissing, Reasons
<1>3. r \in Record /\ r.found = {} /\ r.cache = call[c].cache /\ r.pc # "rename"
  BY <1>1, FindsGrow DEF Record
<1> HIDE DEF r
<1>4. /\ Ends(r, why) \in Record /\ Ends(r, why).found = {}
      /\ Honest(Ends(r, why).cache) /\ Ends(r, why).pc # "rename"
  BY <1>1, <1>3, EndsKeeps DEF Kept, Honest
<1>5. QED
  BY <1>1, <1>2, <1>4, CallMoves

--------------------------------------------------------------------------------
\* A step of a save: the temporary file, and perhaps the cache file, changes.
LEMMA SaveStep ==
  ASSUME IInv, NEW c \in Call, Open(c) \/ Write(c) \/ Rename(c) \/ Abandon(c)
  PROVE  IInv' /\ ServedStep
<1> USE DEF File!Open, File!Write, File!Rename, File!Abandon, File!TempName,
            File!Whole, File!Torn
<1>1. /\ call[c] \in Record /\ Honest(call[c].cache) /\ call[c].cache \in Cache
      /\ UNCHANGED grafana
  BY DEF IInv, Shapes, Record, Open, Write, Rename, Abandon
<1>2. PICK r \in Record : Step(c, r) /\ r.found \subseteq call[c].found
                          /\ Honest(r.cache) /\ (r.pc = "rename" => Write(c))
  <2>1. CASE Open(c)
    <3> DEFINE r == [call[c] EXCEPT !.pc = "write", !.found = {}, !.failed = None]
    <3>1. r \in Record /\ r.found = {} /\ r.cache = call[c].cache /\ r.pc = "write"
      BY <1>1, FindsGrow DEF Record, Places, Reasons
    <3>2. Step(c, r)
      BY <2>1 DEF Open
    <3> HIDE DEF r
    <3>3. QED
      BY <1>1, <3>1, <3>2
  <2>2. CASE Write(c)
    <3> DEFINE r == [call[c] EXCEPT !.pc = "rename"]
    <3>1. r \in Record /\ r.found = call[c].found /\ r.cache = call[c].cache
      BY <1>1 DEF Record, Places
    <3>2. Step(c, r)
      BY <2>2 DEF Write
    <3> HIDE DEF r
    <3>3. QED
      BY <1>1, <2>2, <3>1, <3>2
  <2>3. CASE Rename(c) \/ Abandon(c)
    <3>1. Idle \in Record /\ Honest(Idle.cache) /\ Idle.found = {} /\ Idle.pc = "idle"
      BY EmptyIsCache, EmptyIsHonest DEF IInv, Idle
    <3>2. Step(c, Idle)
      BY <2>3 DEF Rename, Abandon
    <3>3. QED
      BY <3>1, <3>2
  <2>4. QED
    BY <2>1, <2>2, <2>3
<1>3. \A d \in Call : call'[d] = IF d = c THEN r ELSE call[d]
  BY <1>2 DEF IInv, Shapes, Step
<1>4. PICK f \in {<<>>} \cup {<<g>> : g \in [whole : BOOLEAN, value : Cache]} :
        /\ temp' = [temp EXCEPT ![c] = f]
        /\ f # <<>> => Honest(f[1].value)
        /\ Write(c) /\ f # <<>> => f[1].whole
  <2> DEFINE torn == [whole |-> FALSE, value |-> call[c].cache]
             whole == [whole |-> TRUE, value |-> call[c].cache]
  <2>1. CASE Open(c)
    <3>1. temp' = [temp EXCEPT ![c] = <<torn>>] /\ ~Write(c)
      BY <2>1 DEF Open, Write
    <3>2. torn \in [whole : BOOLEAN, value : Cache] /\ <<torn>>[1] = torn /\ Honest(torn.value)
      BY <1>1
    <3> HIDE DEF torn
    <3>3. QED
      BY <3>1, <3>2
  <2>2. CASE Write(c)
    <3>1. temp' = [temp EXCEPT ![c] = <<whole>>]
      BY <2>2 DEF Write
    <3>2. whole \in [whole : BOOLEAN, value : Cache] /\ <<whole>>[1] = whole
          /\ Honest(whole.value) /\ whole.whole
      BY <1>1
    <3> HIDE DEF whole
    <3>3. QED
      BY <3>1, <3>2
  <2>3. CASE (Rename(c) \/ Abandon(c)) /\ ~Write(c)
    BY <2>3 DEF Rename, Abandon
  <2>4. QED
    BY <2>1, <2>2, <2>3 DEF Rename, Abandon, Write
<1>5. path' \in [whole : BOOLEAN, value : Cache] /\ path'.whole /\ Honest(path'.value)
  <2>1. CASE Rename(c)
    BY <2>1 DEF Rename, IInv, Shapes
  <2>2. CASE ~Rename(c)
    BY <2>2 DEF Open, Write, Abandon, IInv, Shapes
  <2>3. QED
    BY <2>1, <2>2
<1>6. Shapes'
  BY <1>1, <1>2, <1>4, <1>5 DEF IInv, Shapes, Step, grafana
<1>7. \A cache : Honest(cache) => Honest(cache)'
  BY <1>1 DEF Honest, grafana
<1>8. \A d \in Call : Honest(call[d].cache)'
  BY <1>1, <1>2, <1>3 DEF IInv, Honest, grafana
<1>9. \A n \in Call : temp'[n] # <<>> => Honest(temp[n][1].value)'
  BY <1>1, <1>4 DEF IInv, Shapes, Honest, grafana
<1>10. Honest(path.value)'
  BY <1>1, <1>5 DEF Honest, grafana
<1>11. \A d \in Call : call'[d].pc = "rename" /\ temp'[d] # <<>> => temp'[d][1].whole
  BY <1>2, <1>3, <1>4 DEF IInv, Shapes
<1>12. ServedStep
  BY <1>2, <1>3 DEF ServedStep
<1>13. QED
  BY <1>5, <1>6, <1>8, <1>9, <1>10, <1>11, <1>12 DEF IInv

--------------------------------------------------------------------------------
\* Users change a dashboard: it gets a version no copy has panels of.
LEMMA ChangeStep ==
  ASSUME IInv, NEW d \in Dash, Edit(d) \/ Delete(d)
  PROVE  IInv' /\ ServedStep
<1>1. PICK s \in {"tagged", "untagged", "deleted"} : Change(d, s)
  BY DEF Edit, Delete
<1>2. ~ReusesUid => status[d] # "deleted"
  BY DEF Edit, Delete
<1>3. /\ content' = [content EXCEPT ![d] = @ + 1]
      /\ version' \in [Dash -> Nat \ {0}]
      /\ ~ReusesUid => version' = [version EXCEPT ![d] = @ + 1]
      /\ status' = [status EXCEPT ![d] = s]
      /\ UNCHANGED <<call, files>>
  <2> DEFINE v == IF status[d] = "deleted" THEN 1 ELSE version[d] + 1
  <2>1. version' = [version EXCEPT ![d] = v]
    BY <1>1 DEF Change
  <2>2. v \in Nat \ {0} /\ version \in [Dash -> Nat \ {0}]
    BY DEF IInv, Shapes
  <2>3. ~ReusesUid => v = version[d] + 1
    BY <1>2
  <2> HIDE DEF v
  <2>4. version' \in [Dash -> Nat \ {0}]
    BY <2>1, <2>2
  <2>5. ~ReusesUid => version' = [version EXCEPT ![d] = @ + 1]
    BY <2>1, <2>3
  <2>6. QED
    BY <1>1, <2>4, <2>5 DEF Change
<1>4. Shapes'
  BY <1>3 DEF IInv, Shapes, files
<1>5. ASSUME ~ReusesUid, NEW cache \in Cache, Honest(cache), NEW e \in Dash
      PROVE  /\ cache.panels[e].version <= version'[e]
             /\ cache.panels[e].version = version'[e] => cache.panels[e].content = content'[e]
  <2>1. cache.panels[e].version \in Nat /\ version[e] \in Nat
    BY DEF IInv, Shapes, Cache, Panel
  <2>2. cache.panels[e].version <= version[e]
    BY <1>5 DEF Honest
  <2>3. CASE e = d
    BY <1>3, <1>5, <2>1, <2>2, <2>3 DEF IInv, Shapes
  <2>4. CASE e # d
    BY <1>3, <1>5, <2>2, <2>4 DEF IInv, Shapes, Honest
  <2>5. QED
    BY <2>3, <2>4
<1>6. \A c \in Call : Honest(call[c].cache)'
  BY <1>3, <1>5 DEF IInv, Shapes, Record, Honest
<1>7. \A n \in Call : temp'[n] # <<>> => Honest(temp[n][1].value)'
  <2> SUFFICES ASSUME NEW n \in Call, temp[n] # <<>> PROVE Honest(temp[n][1].value)'
    BY <1>3 DEF files
  <2>1. temp[n][1].value \in Cache /\ Honest(temp[n][1].value)
    BY DEF IInv, Shapes
  <2>2. QED
    BY <1>3, <1>5, <2>1 DEF Honest, files
<1>8. Honest(path.value)' /\ path'.whole
  BY <1>3, <1>5 DEF IInv, Shapes, Honest, files
<1>9. \A c \in Call : call'[c].pc = "rename" /\ temp'[c] # <<>> => temp'[c][1].whole
  BY <1>3 DEF IInv, files
<1>10. ServedStep
  BY <1>3 DEF ServedStep
<1>11. QED
  BY <1>4, <1>6, <1>7, <1>8, <1>9, <1>10 DEF IInv

\* Time leaves panels and places alone.
LEMMA OlderKeeps ==
  ASSUME NEW cache \in Cache PROVE Older(cache) \in Cache /\ Older(cache).panels = cache.panels
<1>1. NoWalk \in [uid : Dash \cup {None}, age : Nat] /\ NoList \in [uids : SUBSET Dash, age : Nat]
  BY TimesAreNat DEF NoWalk, NoList
<1> DEFINE walk == [f \in Starts |-> IF cache.walk[f].age >= TTL THEN NoWalk
                                     ELSE [cache.walk[f] EXCEPT !.age = @ + 1]]
           all  == IF cache.all.age >= TTL THEN NoList ELSE [cache.all EXCEPT !.age = @ + 1]
<1>2. ASSUME NEW f \in Starts PROVE walk[f] \in [uid : Dash \cup {None}, age : Nat]
  <2>1. cache.walk[f] \in [uid : Dash \cup {None}, age : Nat]
    BY DEF Cache
  <2>2. [cache.walk[f] EXCEPT !.age = @ + 1] \in [uid : Dash \cup {None}, age : Nat]
    BY <2>1
  <2>3. QED
    BY <1>1, <2>2
<1>3. walk \in [Starts -> [uid : Dash \cup {None}, age : Nat]]
  BY <1>2
<1>4. all \in [uids : SUBSET Dash, age : Nat]
  <2>1. cache.all \in [uids : SUBSET Dash, age : Nat]
    BY DEF Cache
  <2>2. [cache.all EXCEPT !.age = @ + 1] \in [uids : SUBSET Dash, age : Nat]
    BY <2>1
  <2>3. QED
    BY <1>1, <2>2
<1>5. Older(cache) = [cache EXCEPT !.walk = walk, !.all = all]
  BY DEF Older
<1> HIDE DEF walk, all
<1>6. QED
  BY <1>3, <1>4, <1>5 DEF Cache

\* Neither does a tick of a call, whose copy ages.
LEMMA AgedKeeps ==
  ASSUME NEW r \in Record, NEW cache \in Cache
  PROVE  LET s == [r EXCEPT !.span = @ + 1, !.cache = cache]
         IN  s \in Record /\ s.found = r.found /\ s.pc = r.pc /\ s.cache = cache
<1> DEFINE n == r.span + 1
           s == [r EXCEPT !.span = n, !.cache = cache]
<1>1. n \in Nat
  BY DEF Record
<1> HIDE DEF n
<1>2. s \in Record
  BY <1>1 DEF Record
<1>3. s.found = r.found /\ s.pc = r.pc /\ s.cache = cache
  BY DEF Record
<1>4. QED
  BY <1>2, <1>3 DEF n

\* Growing older leaves every panel as it is.
LEMMA TickStep == ASSUME IInv, Tick PROVE IInv' /\ ServedStep
<1> DEFINE aged(c) == [call[c] EXCEPT !.span = @ + 1, !.cache = Older(@)]
<1>1. \A c \in Call : /\ call[c] \in Record /\ call[c].cache \in Cache
                      /\ Honest(call[c].cache)
  BY DEF IInv, Shapes, Record
<1>2. ASSUME NEW c \in Call
      PROVE  /\ aged(c) \in Record /\ aged(c).found = call[c].found
             /\ aged(c).pc = call[c].pc /\ aged(c).cache.panels = call[c].cache.panels
  <2>1. call[c] \in Record /\ Older(call[c].cache) \in Cache
        /\ Older(call[c].cache).panels = call[c].cache.panels
    BY <1>1, OlderKeeps
  <2>2. QED
    BY <2>1, AgedKeeps
<1>3. Idle \in Record /\ Idle.found = {} /\ Idle.pc = "idle" /\ Honest(Idle.cache)
  BY EmptyIsCache, EmptyIsHonest DEF IInv, Idle
<1>4. \A c \in Call : call'[c] = IF call[c].pc = "idle" THEN Idle ELSE aged(c)
  BY DEF Tick
<1> HIDE DEF aged
<1>5. ASSUME NEW c \in Call
      PROVE  /\ call'[c] \in Record /\ call'[c].found \subseteq call[c].found
             /\ call'[c].pc = call[c].pc /\ Honest(call'[c].cache)
  BY <1>1, <1>2, <1>3, <1>4 DEF Honest
<1>6. call' \in [Call -> Record]
  BY <1>5 DEF Tick
<1>7. UNCHANGED <<status, content, version>>
  BY DEF Tick
<1>8. /\ path' \in [whole : BOOLEAN, value : Cache] /\ path'.whole
      /\ Honest(path'.value)
  BY OlderKeeps DEF Tick, IInv, Shapes, Honest
<1>9. ASSUME NEW n \in Call
      PROVE  /\ temp'[n] \in {<<>>} \cup {<<f>> : f \in [whole : BOOLEAN, value : Cache]}
             /\ temp'[n] # <<>> => /\ temp[n] # <<>>
                                   /\ Honest(temp'[n][1].value)
                                   /\ temp'[n][1].whole = temp[n][1].whole
  <2>1. CASE temp[n] = <<>>
    BY <2>1 DEF Tick
  <2>2. CASE temp[n] # <<>>
    <3>1. PICK f \in [whole : BOOLEAN, value : Cache] : temp[n] = <<f>>
      BY <2>2 DEF IInv, Shapes
    <3> DEFINE g == [f EXCEPT !.value = Older(@)]
    <3>a. temp'[n] = <<[temp[n][1] EXCEPT !.value = Older(@)]>>
      BY <2>2 DEF Tick
    <3>b. temp[n][1] = f
      BY <3>1
    <3>2. temp'[n] = <<g>>
      BY <3>a, <3>b
    <3>3. g \in [whole : BOOLEAN, value : Cache] /\ g.whole = f.whole
          /\ g.value.panels = f.value.panels
      BY OlderKeeps
    <3>4. Honest(f.value)
      BY <2>2, <3>1 DEF IInv
    <3> HIDE DEF g
    <3>5. Honest(g.value)
      BY <3>3, <3>4 DEF Honest
    <3>6. QED
      BY <2>2, <3>1, <3>2, <3>3, <3>5
  <2>3. QED
    BY <2>1, <2>2
<1>10. temp' \in [Call -> {<<>>} \cup {<<f>> : f \in [whole : BOOLEAN, value : Cache]}]
  BY <1>9 DEF Tick
<1>11. Shapes'
  BY <1>6, <1>7, <1>8, <1>10 DEF IInv, Shapes
<1>12. /\ \A c \in Call : Honest(call[c].cache)'
       /\ \A n \in Call : temp'[n] # <<>> => Honest(temp[n][1].value)'
       /\ Honest(path.value)'
  BY <1>5, <1>7, <1>8, <1>9 DEF Honest
<1>13. \A c \in Call : call'[c].pc = "rename" /\ temp'[c] # <<>> => temp'[c][1].whole
  BY <1>5, <1>9 DEF IInv
<1>14. ServedStep
  BY <1>5 DEF ServedStep
<1>15. QED
  BY <1>8, <1>11, <1>12, <1>13, <1>14 DEF IInv

--------------------------------------------------------------------------------
\* At the start there is no file, and no call.
LEMMA InitIInv == Init => IInv
<1> SUFFICES ASSUME Init PROVE IInv
  OBVIOUS
<1> USE DEF File!Init, File!Whole
<1>1. Shapes
  BY EmptyIsCache DEF Init, Shapes
<1>2. Honest(EmptyCache)
  BY <1>1, EmptyIsHonest
<1>3. \A c \in Call : call[c].cache = EmptyCache /\ call[c].pc = "idle"
  BY DEF Init, Idle
<1>4. path.value = EmptyCache /\ path.whole /\ \A n \in Call : temp[n] = <<>>
  BY DEF Init
<1>5. QED
  BY <1>1, <1>2, <1>3, <1>4 DEF IInv

\* Every step keeps the invariant and serves what the dashboard says.
LEMMA NextStep == IInv /\ [Next]_vars => IInv' /\ (ServedStep \/ UNCHANGED vars)
<1> SUFFICES ASSUME IInv, [Next]_vars
             PROVE  IInv' /\ (ServedStep \/ UNCHANGED vars)
  OBVIOUS
<1>1. CASE UNCHANGED vars
  BY <1>1 DEF IInv, Shapes, Honest, vars, grafana, files
<1>2. CASE Next
  BY <1>2, LookupStep, SurveyStep, LoadStep, WalkStep, FetchStep, FailureStep, SaveStep,
     ChangeStep, TickStep DEF Next
<1>3. QED
  BY <1>1, <1>2

\* A reader of the cache never finds a half-written file, however many calls
\* save at once and wherever they fail or their process dies.
THEOREM AlwaysWhole == Spec => []CacheIsWhole
<1>1. IInv => CacheIsWhole
  BY DEF IInv, CacheIsWhole, File!NeverTorn
<1>2. QED
  BY InitIInv, NextStep, <1>1, PTL DEF Spec

\* Where no dashboard comes back under a deleted one's uid, what a call returns
\* is what the dashboard said when it was fetched, though its panels may come
\* from a file that other calls replace under way.
THEOREM AnswersAreCurrent == ASSUME ~ReusesUid PROVE Spec => ServedIsCurrent
<1>1. ~ReusesUid
  OBVIOUS
<1>2. IInv /\ [Next]_vars =>
        [\A c \in Call : \A x \in call'[c].found \ call[c].found : x[2] = content[x[1]]]_vars
  BY <1>1, NextStep DEF ServedStep
<1>3. QED
  BY InitIInv, NextStep, <1>2, PTL DEF Spec, ServedIsCurrent

--------------------------------------------------------------------------------
\* Absence.  A fresh entry of a copy is true of every dashboard that has not
\* changed since it was made, given how long ago each last changed.
SoundFor(cache, ago) ==
  /\ Fresh(cache.all) =>
       \A d \in Dash : ago[d] > cache.all.age =>
         (d \in cache.all.uids <=> status[d] = "tagged")
  /\ \A f \in Starts :
       LET e == cache.walk[f]
       IN  Fresh(e) /\ e.uid # None /\ ago[e.uid] > e.age => status[e.uid] = "tagged"
Sound(cache) == SoundFor(cache, settled)

\* A dashboard that a call which has found nothing ought to have found by its end:
\* published since before any entry it may have read was made.
Due(d, r) ==
  status[d] = "tagged" /\ <<d, content[d]>> \in WithKey /\ settled[d] > TTL + r.span

\* A call that has found nothing has yet to try what is due; what it has yet to
\* try was not deleted long ago; nor was what it failed on.
Recent(r) ==
  /\ r.span <= MaxSpan
  /\ \A d \in r.todo : status[d] = "deleted" => settled[d] <= TTL + r.span
  /\ r.pc \in {"load", "tryListed", "tryAll"} /\ r.found = {} =>
       \A d \in Dash : Due(d, r) => d \in r.todo
  /\ r.pc = "open" /\ r.failed = None /\ r.found = {} => \A d \in Dash : ~Due(d, r)
  /\ r.pc = "open" /\ r.failed = "deleted" =>
       \E d \in Dash : status[d] = "deleted" /\ settled[d] <= TTL + r.span
  /\ r.pc \in {"walk", "parent"} => r.walked = None /\ r.todo = {}
  /\ r.pc = "tryWalked" => r.walked # None /\ r.todo = {r.walked}
  /\ r.pc = "list" => r.todo = {} /\ (r.walked # None => ~Due(r.walked, r))

\* Every copy is sound: those of calls, of temporary files, of the cache file.
RInv ==
  /\ settled \in [Dash -> 0 .. Stale + 1]
  /\ \A c \in Call : Recent(call[c]) /\ Sound(call[c].cache)
  /\ \A n \in Call : temp[n] # <<>> => Sound(temp[n][1].value)
  /\ Sound(path.value)

Settled == settled \in [Dash -> Nat]

\* Times are numbers.
LEMMA RInvSettled == RInv => Settled
BY TimesAreNat DEF RInv, Settled, Stale

\* The empty copy has no entry, and a call that has not begun has nothing to try.
LEMMA EmptyIsSound == Sound(EmptyCache) /\ Recent(Idle)
<1>1. EmptyCache.all.age = TTL + 1 /\ \A f \in Starts : EmptyCache.walk[f].age = TTL + 1
  BY DEF EmptyCache, NoList, NoWalk
<1>2. Sound(EmptyCache)
  BY <1>1, TimesAreNat DEF Sound, SoundFor, Fresh
<1>3. Recent(Idle)
  BY TimesAreNat DEF Recent, Idle
<1>4. QED
  BY <1>2, <1>3

\* A call that ends has an excuse for what it answers.
LEMMA EndsRecent ==
  ASSUME NEW r \in Record, NEW why \in Reasons, r.span <= MaxSpan,
         why = None /\ r.found = {} => \A d \in Dash : ~Due(d, r),
         why = "deleted" =>
           \E d \in Dash : status[d] = "deleted" /\ settled[d] <= TTL + r.span
  PROVE  Recent(Ends(r, why)) /\ Ends(r, why).cache = r.cache
<1> DEFINE s == Ends(r, why)
<1>1. /\ s.pc = "open" /\ s.found = r.found /\ s.failed = why /\ s.cache = r.cache
      /\ s.span = r.span /\ s.todo = {}
  BY DEF Ends, Idle
<1> HIDE DEF s
<1>2. \A d \in Dash : Due(d, s) <=> Due(d, r)
  BY <1>1 DEF Due
<1>3. Recent(s)
  BY <1>1, <1>2 DEF Recent
<1>4. QED
  BY <1>1, <1>3 DEF s

\* With nothing left to try, nothing is due.
LEMMA OrEndsRecent ==
  ASSUME NEW r \in Record, Recent(r), r.pc \in {"tryListed", "tryAll"}
  PROVE  Recent(OrEnds(r)) /\ OrEnds(r).cache = r.cache
<1>1. None \in Reasons /\ None # "deleted"
  BY DEF Reasons, None
<1>2. r.todo = {} => Recent(Ends(r, None)) /\ Ends(r, None).cache = r.cache
  BY <1>1, EndsRecent DEF Recent
<1>3. QED
  BY <1>2 DEF OrEnds

\* A fresh list has what is due, and nothing that was deleted long ago.
LEMMA TryListedRecent ==
  ASSUME Settled, NEW r \in Record, r.span <= MaxSpan, Sound(r.cache), Fresh(r.cache.all),
         r.walked # None => ~Due(r.walked, r)
  PROVE  Recent(TryListed(r)) /\ TryListed(r).cache = r.cache
<1> DEFINE s == [r EXCEPT !.pc = "tryListed", !.todo = r.cache.all.uids \ {r.walked},
                          !.walked = None]
<1>1. /\ s.pc = "tryListed" /\ s.todo = r.cache.all.uids \ {r.walked} /\ s.walked = None
      /\ s.span = r.span /\ s.found = r.found /\ s.cache = r.cache
  BY DEF Record
<1>2. /\ r.cache.all.age \in Nat /\ r.span \in Nat /\ TTL \in Nat
      /\ r.cache.all.uids \subseteq Dash /\ r.cache.all.age <= TTL
      /\ r.walked \in Dash \cup {None}
  BY TimesAreNat DEF Record, Cache, Fresh
<1>3. \A d \in Dash : Due(d, s) <=> Due(d, r)
  BY <1>1 DEF Due
<1>4. \A d \in Dash : settled[d] > TTL + r.span =>
        (d \in r.cache.all.uids <=> status[d] = "tagged")
  <2> SUFFICES ASSUME NEW d \in Dash, settled[d] > TTL + r.span
               PROVE  d \in r.cache.all.uids <=> status[d] = "tagged"
    OBVIOUS
  <2>1. settled[d] \in Nat
    BY DEF Settled
  <2>2. settled[d] > r.cache.all.age
    BY <1>2, <2>1
  <2>3. QED
    BY <2>2 DEF Sound, SoundFor
<1>5. \A d \in Dash : Due(d, s) => d \in s.todo
  BY <1>1, <1>3, <1>4, NoneIsNoDashboard DEF Due
<1>6. \A d \in s.todo : status[d] = "deleted" => settled[d] <= TTL + s.span
  <2> SUFFICES ASSUME NEW d \in s.todo, status[d] = "deleted" PROVE settled[d] <= TTL + r.span
    BY <1>1
  <2>1. d \in Dash /\ d \in r.cache.all.uids /\ settled[d] \in Nat
    BY <1>1, <1>2 DEF Settled
  <2>2. QED
    BY <1>2, <1>4, <2>1
<1>7. s \in Record
  BY <1>2 DEF Record, Places
<1> HIDE DEF s
<1>8. Recent(s)
  BY <1>1, <1>5, <1>6 DEF Recent
<1>9. Recent(OrEnds(s)) /\ OrEnds(s).cache = s.cache
  BY <1>1, <1>7, <1>8, OrEndsRecent
<1>10. QED
  BY <1>1, <1>9 DEF TryListed, s

\* After the walk: the list, or a request for one.
LEMMA FallbackRecent ==
  ASSUME Settled, NEW r \in Record, r.span <= MaxSpan, Sound(r.cache), r.todo = {},
         r.walked # None => ~Due(r.walked, r)
  PROVE  Recent(Fallback(r)) /\ Fallback(r).cache = r.cache
<1> DEFINE s == [r EXCEPT !.pc = "list"]
<1>1. /\ s.pc = "list" /\ s.todo = {} /\ s.walked = r.walked /\ s.span = r.span
      /\ s.cache = r.cache
  BY DEF Record
<1> HIDE DEF s
<1>2. r.walked # None => ~Due(s.walked, s)
  BY <1>1 DEF Due
<1>3. Recent(s)
  BY <1>1, <1>2 DEF Recent
<1>4. QED
  BY <1>1, <1>3, TryListedRecent DEF Fallback, s

\* The walk's result is what is tried first, if there is one.
LEMMA WalkedRecent ==
  ASSUME Settled, NEW r \in Record, NEW uid \in Dash \cup {None},
         r.span <= MaxSpan, Sound(r.cache), r.todo = {}, r.walked = None,
         uid # None /\ status[uid] = "deleted" => settled[uid] <= TTL + r.span
  PROVE  Recent(Walked(r, uid)) /\ Walked(r, uid).cache = r.cache
<1>1. CASE uid = None
  BY <1>1, FallbackRecent DEF Walked
<1>2. CASE uid # None
  <2> DEFINE s == [r EXCEPT !.pc = "tryWalked", !.walked = uid, !.todo = {uid}]
  <2>1. /\ s.pc = "tryWalked" /\ s.walked = uid /\ s.todo = {uid} /\ s.span = r.span
        /\ s.cache = r.cache
    BY DEF Record
  <2> HIDE DEF s
  <2>2. Recent(s)
    BY <1>2, <2>1 DEF Recent
  <2>3. QED
    BY <1>2, <2>1, <2>2 DEF Walked, s
<1>3. QED
  BY <1>1, <1>2

\* The walk's end caches what it found, which is tagged now.
LEMMA WalkEndsRecent ==
  ASSUME Settled, NEW r \in Record, NEW uid \in Dash \cup {None},
         r.span <= MaxSpan, Sound(r.cache), r.todo = {}, r.walked = None,
         uid # None => status[uid] = "tagged"
  PROVE  Recent(WalkEnds(r, uid)) /\ Sound(WalkEnds(r, uid).cache)
<1> DEFINE entry == [uid |-> uid, age |-> 0]
           cache == [r.cache EXCEPT !.walk[r.start] = entry]
           s == [r EXCEPT !.cache.walk[r.start] = [uid |-> uid, age |-> 0],
                          !.at = Root, !.visited = {}]
<1>1. entry \in [uid : Dash \cup {None}, age : Nat] /\ entry.uid = uid
  OBVIOUS
<1> HIDE DEF entry
<1>2. r.cache \in Cache /\ r.cache.walk \in [Starts -> [uid : Dash \cup {None}, age : Nat]]
  BY DEF Record, Cache
<1>3. /\ cache \in Cache /\ cache.all = r.cache.all
      /\ \A f \in Starts : cache.walk[f] \in {r.cache.walk[f], entry}
  BY <1>1, <1>2 DEF Cache
<1>4. s = [r EXCEPT !.cache = cache, !.at = Root, !.visited = {}]
  BY DEF Record, Cache, entry
<1> HIDE DEF cache
<1>5. Sound(cache)
  <2>1. ASSUME NEW f \in Starts, cache.walk[f].uid # None, Fresh(cache.walk[f]),
               settled[cache.walk[f].uid] > cache.walk[f].age
        PROVE  status[cache.walk[f].uid] = "tagged"
    <3>1. CASE cache.walk[f] = r.cache.walk[f]
      BY <2>1, <3>1 DEF Sound, SoundFor
    <3>2. CASE cache.walk[f] = entry
      BY <1>1, <2>1, <3>2
    <3>3. QED
      BY <1>3, <3>1, <3>2
  <2>2. QED
    BY <1>3, <2>1 DEF Sound, SoundFor
<1>6. /\ s \in Record /\ s.cache = cache /\ s.span = r.span /\ s.todo = {} /\ s.walked = None
  BY <1>3, <1>4, FoldersAreATree DEF Record
<1> HIDE DEF s
<1>7. Recent(Walked(s, uid)) /\ Walked(s, uid).cache = cache
  BY <1>5, <1>6, WalkedRecent
<1>8. QED
  BY <1>5, <1>7 DEF WalkEnds, s

--------------------------------------------------------------------------------
\* A step of one call that leaves Grafana and the files alone.
LEMMA RecentMoves ==
  ASSUME IInv, RInv, NEW c \in Call, NEW r, Recent(r), Sound(r.cache),
         Step(c, r), UNCHANGED <<grafana, files>>
  PROVE  RInv'
<1>1. \A d \in Call : call'[d] = IF d = c THEN r ELSE call[d]
  BY DEF IInv, Shapes, Step
<1>2. UNCHANGED <<status, content, settled, path, temp>>
  BY DEF grafana, files
<1>3. ASSUME NEW d \in Call PROVE Recent(call[d])' /\ Sound(call[d].cache)'
  <2>1. Recent(call'[d]) /\ Sound(call'[d].cache)
    BY <1>1 DEF RInv
  <2>2. QED
    BY <1>2, <2>1 DEF Recent, Due, Sound, SoundFor
<1>4. (\A n \in Call : temp[n] # <<>> => Sound(temp[n][1].value))' /\ Sound(path.value)'
  BY <1>2 DEF RInv, Sound, SoundFor
<1>5. QED
  BY <1>2, <1>3, <1>4 DEF RInv

\* The file, loaded, is sound.
LEMMA LoadedIsSound == RInv => Sound(Loaded)
BY EmptyIsSound DEF RInv, Loaded

\* A lookup begins with the walk's entry, or with the walk.
LEMMA LookupRecent ==
  ASSUME IInv, RInv, NEW c \in Call, NEW f \in Starts, Lookup(c, f)
  PROVE  RInv'
<1> DEFINE r == [Idle EXCEPT !.start = f, !.at = f, !.cache = Loaded]
           e == r.cache.walk[f]
           t == [r EXCEPT !.pc = "walk"]
           s == IF Fresh(e) THEN Walked(r, e.uid) ELSE t
<1>1. /\ r \in Record /\ r.cache = Loaded /\ r.span = 0 /\ r.todo = {} /\ r.walked = None
      /\ Loaded \in Cache /\ Sound(Loaded) /\ Settled
  BY EmptyIsCache, LoadedIsHonest, LoadedIsSound, RInvSettled, FoldersAreATree DEF Record, Idle
<1>2. Step(c, s) /\ UNCHANGED <<grafana, files>>
  BY DEF Lookup
<1>3. /\ t.pc = "walk" /\ t.cache = Loaded /\ t.span = 0 /\ t.todo = {} /\ t.walked = None
  BY <1>1 DEF Record
<1> HIDE DEF t, r
<1>4. Recent(t)
  BY <1>3, TimesAreNat DEF Recent
<1>5. Fresh(e) => Recent(Walked(r, e.uid)) /\ Walked(r, e.uid).cache = Loaded
  <2> SUFFICES ASSUME Fresh(e) PROVE Recent(Walked(r, e.uid)) /\ Walked(r, e.uid).cache = Loaded
    OBVIOUS
  <2>1. e.uid \in Dash \cup {None} /\ e.age \in Nat /\ e.age <= TTL
    BY <1>1 DEF Cache, Fresh
  <2>2. e.uid # None /\ status[e.uid] = "deleted" => settled[e.uid] <= TTL + 0
    <3> SUFFICES ASSUME e.uid # None, status[e.uid] = "deleted", settled[e.uid] > TTL PROVE FALSE
      BY <1>1, <2>1, TimesAreNat DEF Settled
    <3>1. settled[e.uid] > e.age
      BY <1>1, <2>1, TimesAreNat DEF Settled
    <3>2. QED
      BY <1>1, <3>1 DEF Sound, SoundFor
  <2>3. QED
    BY <1>1, <2>1, <2>2, WalkedRecent, TimesAreNat
<1>6. Recent(s) /\ Sound(s.cache)
  BY <1>1, <1>3, <1>4, <1>5
<1> HIDE DEF s
<1>7. QED
  BY <1>2, <1>6, RecentMoves

\* A survey begins with the dashboards that are tagged.
LEMMA SurveyRecent ==
  ASSUME IInv, RInv, NEW c \in Call, Survey(c)
  PROVE  RInv'
<1> DEFINE r == [Idle EXCEPT !.pc = "load", !.todo = Tagged]
<1>1. /\ r.pc = "load" /\ r.todo = Tagged /\ r.span = 0 /\ r.cache = EmptyCache
  BY DEF Idle
<1>2. Step(c, r) /\ UNCHANGED <<grafana, files>>
  BY DEF Survey
<1> HIDE DEF r
<1>3. Recent(r)
  BY <1>1, TimesAreNat DEF Recent, Due, Tagged
<1>4. QED
  BY <1>1, <1>2, <1>3, EmptyIsSound, RecentMoves

\* Loading does not change what a survey has to try.
LEMMA LoadRecent ==
  ASSUME IInv, RInv, NEW c \in Call, Load(c)
  PROVE  RInv'
<1> DEFINE r == [call[c] EXCEPT !.pc = "tryAll", !.cache = Loaded]
<1>1. call[c] \in Record /\ Loaded \in Cache /\ Sound(Loaded) /\ Recent(call[c]) /\ call[c].pc = "load"
  BY LoadedIsHonest, LoadedIsSound DEF IInv, Shapes, RInv, Load
<1>2. /\ r \in Record /\ r.found = call[c].found /\ r.cache = Loaded /\ r.pc = "tryAll"
      /\ r.todo = call[c].todo /\ r.span = call[c].span
  BY <1>1 DEF Record, Places
<1>3. Step(c, OrEnds(r)) /\ UNCHANGED <<grafana, files>>
  BY DEF Load
<1> HIDE DEF r
<1>4. Recent(r)
  BY <1>1, <1>2 DEF Recent, Due
<1>5. Recent(OrEnds(r)) /\ OrEnds(r).cache = Loaded
  BY <1>2, <1>4, OrEndsRecent
<1>6. QED
  BY <1>1, <1>3, <1>5, RecentMoves

\* The walk up the folders, and the search of all of them.
LEMMA WalkRecent ==
  ASSUME IInv, RInv, NEW c \in Call, SearchFolder(c) \/ AskParent(c) \/ SearchAll(c)
  PROVE  RInv'
<1> DEFINE r == call[c]
<1>1. /\ r \in Record /\ Recent(r) /\ Sound(r.cache) /\ Settled
      /\ UNCHANGED <<grafana, files>> /\ r.pc \in {"walk", "parent", "list"}
  BY RInvSettled DEF IInv, Shapes, RInv, SearchFolder, AskParent, SearchAll
<1>2. ASSUME r.pc \in {"walk", "parent"}, NEW uid \in Dash \cup {None}, Step(c, WalkEnds(r, uid)),
             uid # None => status[uid] = "tagged"
      PROVE  RInv'
  <2>1. r.span <= MaxSpan /\ r.todo = {} /\ r.walked = None
    BY <1>1, <1>2 DEF Recent
  <2>2. Recent(WalkEnds(r, uid)) /\ Sound(WalkEnds(r, uid).cache)
    BY <1>1, <1>2, <2>1, WalkEndsRecent
  <2>3. QED
    BY <1>1, <1>2, <2>2, RecentMoves
<1>3. ASSUME r.pc \in {"walk", "parent"}, NEW s \in Record, s.pc \in {"walk", "parent"}, Step(c, s),
             s.cache = r.cache, s.span = r.span, s.todo = r.todo, s.walked = r.walked
      PROVE  RInv'
  <2>1. Recent(s)
    BY <1>1, <1>3 DEF Recent
  <2>2. QED
    BY <1>1, <1>3, <2>1, RecentMoves
<1>4. CASE SearchFolder(c)
  <2> DEFINE s == [r EXCEPT !.pc = "parent", !.visited = @ \cup {r.at}]
  <2>1. /\ s \in Record /\ s.pc = "parent" /\ s.cache = r.cache /\ s.span = r.span
        /\ s.todo = r.todo /\ s.walked = r.walked
    BY <1>1 DEF Record, Places
  <2>2. r.pc = "walk"
    BY <1>4 DEF SearchFolder
  <2>3. \/ \E d \in Dash : status[d] = "tagged" /\ Step(c, WalkEnds(r, d))
        \/ Step(c, WalkEnds(r, None))
        \/ Step(c, s)
    BY <1>4 DEF SearchFolder, Tagged
  <2> HIDE DEF s
  <2>4. QED
    BY <1>2, <1>3, <2>1, <2>2, <2>3
<1>5. CASE AskParent(c)
  <2> DEFINE s == [r EXCEPT !.pc = "walk", !.at = Parent[r.at]]
  <2>1. Parent[r.at] # None =>
        /\ s \in Record /\ s.pc = "walk" /\ s.cache = r.cache /\ s.span = r.span
        /\ s.todo = r.todo /\ s.walked = r.walked
    BY <1>1, FoldersAreATree DEF Record, Places
  <2>2. r.pc = "parent"
    BY <1>5 DEF AskParent
  <2>3. Step(c, WalkEnds(r, None)) \/ (Parent[r.at] # None /\ Step(c, s))
    BY <1>5 DEF AskParent
  <2> HIDE DEF s
  <2>4. QED
    BY <1>2, <1>3, <2>1, <2>2, <2>3
<1>6. CASE SearchAll(c)
  <2> DEFINE list == [uids |-> Tagged, age |-> 0]
             cache == [r.cache EXCEPT !.all = list]
             s == [r EXCEPT !.cache.all = [uids |-> Tagged, age |-> 0]]
  <2>1. list \in [uids : SUBSET Dash, age : Nat] /\ list.uids = Tagged /\ list.age = 0
    BY DEF Tagged
  <2>2. s = [r EXCEPT !.cache = cache]
    BY <1>1 DEF Record, Cache
  <2> HIDE DEF list
  <2>3. r.cache \in Cache
    BY <1>1 DEF Record
  <2>4. cache \in Cache /\ cache.all = list /\ cache.walk = r.cache.walk
    BY <2>1, <2>3 DEF Cache
  <2> HIDE DEF cache
  <2>5. Sound(cache)
    BY <1>1, <2>1, <2>4 DEF Sound, SoundFor, Tagged
  <2>6. Fresh(cache.all)
    BY <2>1, <2>4, TimesAreNat DEF Fresh
  <2>7. /\ s \in Record /\ s.cache = cache /\ s.span = r.span /\ s.todo = r.todo
        /\ s.walked = r.walked
    BY <1>1, <2>2, <2>4 DEF Record
  <2>8. Step(c, TryListed(s))
    BY <1>6 DEF SearchAll
  <2> HIDE DEF s
  <2>9. s.span <= MaxSpan /\ (s.walked # None => ~Due(s.walked, s))
    <3>1. r.pc = "list"
      BY <1>6 DEF SearchAll
    <3>2. QED
      BY <1>1, <2>7, <3>1 DEF Recent, Due
  <2>10. Recent(TryListed(s)) /\ TryListed(s).cache = cache
    BY <1>1, <2>5, <2>6, <2>7, <2>9, TryListedRecent
  <2>11. QED
    BY <1>1, <2>5, <2>8, <2>10, RecentMoves
<1>7. QED
  BY <1>4, <1>5, <1>6

\* A dashboard is fetched: if it was due it is found, and the call ends with it.
LEMMA FetchRecent ==
  ASSUME ~ReusesUid, IInv, RInv, NEW c \in Call, NEW d \in Dash, Fetch(c, d)
  PROVE  RInv'
<1> DEFINE r == call[c]
           p == Panels(d, r.cache.panels[d])
           cache == [r.cache EXCEPT !.panels[d] = p]
           s == [r EXCEPT !.cache.panels[d] = p, !.todo = @ \ {d}]
           t == IF <<d, p.content>> \in WithKey
                THEN [s EXCEPT !.found = @ \cup {<<d, p.content>>}] ELSE s
           u == IF r.pc = "tryAll" THEN OrEnds(t)
                ELSE IF t.found # {} THEN Ends(t, None)
                ELSE IF r.pc = "tryWalked" THEN Fallback(t)
                ELSE OrEnds(t)
<1>1. /\ r \in Record /\ Honest(r.cache) /\ Recent(r) /\ Sound(r.cache) /\ Settled
      /\ r.pc \in {"tryWalked", "tryListed", "tryAll"} /\ d \in r.todo
  BY RInvSettled DEF IInv, Shapes, RInv, Fetch
<1>2. p \in Panel /\ p.content = content[d]
  BY <1>1 DEF IInv, Shapes, Record, Cache, Panel, Honest, Panels
<1>3. cache \in Cache /\ cache.walk = r.cache.walk /\ cache.all = r.cache.all
  <2> HIDE DEF p
  <2>1. r.cache \in Cache
    BY <1>1 DEF Record
  <2>2. QED
    BY <1>2, <2>1 DEF Cache
<1>4. /\ s \in Record /\ s.cache = cache /\ s.found = r.found /\ s.pc = r.pc
      /\ s.todo = r.todo \ {d} /\ s.span = r.span /\ s.walked = r.walked
  <2>1. s = [r EXCEPT !.cache = cache, !.todo = @ \ {d}]
    BY <1>1 DEF Record, Cache
  <2>2. QED
    BY <1>1, <1>3, <2>1 DEF Record
<1>5. p.content \in Nat
  BY <1>2 DEF Panel
<1>6. Step(c, u) /\ UNCHANGED <<grafana, files>>
  BY DEF Fetch
<1>7. Sound(cache)
  BY <1>1, <1>3 DEF Sound, SoundFor
<1> HIDE DEF p, cache, s
<1>8. /\ t \in Record /\ t.cache = cache /\ t.pc = r.pc /\ t.todo = r.todo \ {d}
      /\ t.span = r.span /\ t.walked = r.walked
      /\ t.found = {} => r.found = {} /\ <<d, content[d]>> \notin WithKey
  BY <1>2, <1>4, <1>5, FindsGrow DEF Record
<1> HIDE DEF t
<1>9. t.found = {} => ~Due(d, t)
  BY <1>8 DEF Due
<1>10. CASE r.pc = "tryAll" \/ (r.pc = "tryListed" /\ t.found = {})
  <2>1. \A e \in Dash : Due(e, t) <=> Due(e, r)
    BY <1>8 DEF Due
  <2>2. Recent(t)
    BY <1>1, <1>8, <1>9, <1>10, <2>1 DEF Recent
  <2>3. Recent(OrEnds(t)) /\ OrEnds(t).cache = t.cache
    BY <1>8, <1>10, <2>2, OrEndsRecent
  <2>4. u = OrEnds(t)
    BY <1>10
  <2> HIDE DEF u
  <2>5. QED
    BY <1>6, <1>7, <1>8, <2>3, <2>4, RecentMoves
<1>11. CASE r.pc # "tryAll" /\ t.found # {}
  <2>1. None \in Reasons /\ None # "deleted" /\ t.span <= MaxSpan
    BY <1>1, <1>8 DEF Reasons, None, Recent
  <2>2. Recent(Ends(t, None)) /\ Ends(t, None).cache = t.cache
    BY <1>8, <1>11, <2>1, EndsRecent
  <2>3. u = Ends(t, None)
    BY <1>11
  <2> HIDE DEF u
  <2>4. QED
    BY <1>6, <1>7, <1>8, <2>2, <2>3, RecentMoves
<1>12. CASE r.pc = "tryWalked" /\ t.found = {}
  <2>1. r.walked = d /\ r.todo = {d} /\ t.span <= MaxSpan
    BY <1>1, <1>8, <1>12 DEF Recent
  <2>2. t.todo = {} /\ ~Due(t.walked, t)
    BY <1>8, <1>9, <1>12, <2>1
  <2>3. Recent(Fallback(t)) /\ Fallback(t).cache = t.cache
    BY <1>1, <1>7, <1>8, <2>1, <2>2, FallbackRecent
  <2>4. u = Fallback(t)
    BY <1>12
  <2> HIDE DEF u
  <2>5. QED
    BY <1>6, <1>7, <1>8, <2>3, <2>4, RecentMoves
<1>13. QED
  BY <1>1, <1>10, <1>11, <1>12

\* A request fails, because the dashboard is gone or for another reason.
LEMMA FailureRecent ==
  ASSUME IInv, RInv, NEW c \in Call,
         Unreachable(c) \/ \E d \in Dash : FetchMissing(c, d)
  PROVE  RInv'
<1> DEFINE r == [call[c] EXCEPT !.found = {}]
<1>1. /\ call[c] \in Record /\ Recent(call[c]) /\ Sound(call[c].cache)
      /\ UNCHANGED <<grafana, files>>
  BY DEF IInv, Shapes, RInv, Unreachable, FetchMissing
<1>2. r \in Record /\ r.cache = call[c].cache /\ r.span = call[c].span
  BY <1>1, FindsGrow DEF Record
<1>3. PICK why \in {"deleted", "unreachable"} :
        /\ Step(c, Ends(r, why))
        /\ why = "deleted" =>
             \E d \in Dash : d \in call[c].todo /\ status[d] = "deleted"
  BY DEF Unreachable, FetchMissing
<1> HIDE DEF r
<1>4. r.span <= MaxSpan /\ why \in Reasons /\ why # None
  BY <1>1, <1>2 DEF Recent, Reasons, None
<1>5. why = "deleted" =>
        \E d \in Dash : status[d] = "deleted" /\ settled[d] <= TTL + r.span
  BY <1>1, <1>2, <1>3 DEF Recent
<1>6. Recent(Ends(r, why)) /\ Ends(r, why).cache = r.cache
  BY <1>2, <1>4, <1>5, EndsRecent
<1>7. QED
  BY <1>1, <1>2, <1>3, <1>6, RecentMoves

--------------------------------------------------------------------------------
\* A step of a save: what is written is the call's copy, and what is renamed is
\* what was written.
LEMMA SaveRecent ==
  ASSUME IInv, RInv, NEW c \in Call, Open(c) \/ Write(c) \/ Rename(c) \/ Abandon(c)
  PROVE  RInv'
<1> USE DEF File!Open, File!Write, File!Rename, File!Abandon, File!TempName,
            File!Whole, File!Torn
<1>1. /\ call[c] \in Record /\ Recent(call[c]) /\ Sound(call[c].cache)
      /\ UNCHANGED <<status, content, settled>>
      /\ temp \in [Call -> {<<>>} \cup {<<g>> : g \in [whole : BOOLEAN, value : Cache]}]
  BY DEF IInv, Shapes, RInv, Open, Write, Rename, Abandon, grafana
<1>2. PICK r : Step(c, r) /\ Recent(r) /\ Sound(r.cache)
  <2>1. CASE Open(c)
    <3> DEFINE r == [call[c] EXCEPT !.pc = "write", !.found = {}, !.failed = None]
    <3>1. /\ r.cache = call[c].cache /\ r.pc = "write" /\ r.todo = call[c].todo
          /\ r.span = call[c].span
      BY <1>1 DEF Record
    <3>2. Step(c, r)
      BY <2>1 DEF Open
    <3> HIDE DEF r
    <3>3. Recent(r)
      BY <1>1, <3>1 DEF Recent
    <3>4. QED
      BY <1>1, <3>1, <3>2, <3>3
  <2>2. CASE Write(c)
    <3> DEFINE r == [call[c] EXCEPT !.pc = "rename"]
    <3>1. /\ r.cache = call[c].cache /\ r.pc = "rename" /\ r.todo = call[c].todo
          /\ r.span = call[c].span
      BY <1>1 DEF Record
    <3>2. Step(c, r)
      BY <2>2 DEF Write
    <3> HIDE DEF r
    <3>3. Recent(r)
      BY <1>1, <3>1 DEF Recent
    <3>4. QED
      BY <1>1, <3>1, <3>2, <3>3
  <2>3. CASE Rename(c) \/ Abandon(c)
    <3>1. Step(c, Idle) /\ Idle.cache = EmptyCache
      BY <2>3 DEF Rename, Abandon, Idle
    <3>2. QED
      BY <3>1, EmptyIsSound
  <2>4. QED
    BY <2>1, <2>2, <2>3
<1>3. \A d \in Call : call'[d] = IF d = c THEN r ELSE call[d]
  BY <1>2 DEF IInv, Shapes, Step
<1>4. \A n \in Call : temp'[n] # <<>> =>
        temp'[n] = temp[n] \/ temp'[n][1].value = call[c].cache
  <2>1. \/ temp' = [temp EXCEPT ![c] = <<[whole |-> FALSE, value |-> call[c].cache]>>]
        \/ temp' = [temp EXCEPT ![c] = <<[whole |-> TRUE, value |-> call[c].cache]>>]
        \/ temp' = [temp EXCEPT ![c] = <<>>]
    BY DEF Open, Write, Rename, Abandon
  <2>2. QED
    BY <1>1, <2>1
<1>5. path'.value = path.value \/ (temp[c] # <<>> /\ path'.value = temp[c][1].value)
  BY DEF Open, Write, Rename, Abandon
<1>6. Sound(call[c].cache) /\ Sound(path.value)
      /\ \A n \in Call : temp[n] # <<>> => Sound(temp[n][1].value)
  BY DEF RInv
<1>7. ASSUME NEW d \in Call PROVE Recent(call[d])' /\ Sound(call[d].cache)'
  <2>1. Recent(call'[d]) /\ Sound(call'[d].cache)
    BY <1>2, <1>3 DEF RInv
  <2>2. QED
    BY <1>1, <2>1 DEF Recent, Due, Sound, SoundFor
<1>8. ASSUME NEW n \in Call, temp'[n] # <<>> PROVE Sound(temp[n][1].value)'
  <2>1. Sound(temp'[n][1].value)
    BY <1>4, <1>6, <1>8
  <2>2. QED
    BY <1>1, <2>1 DEF Sound, SoundFor
<1>9. Sound(path.value)'
  <2>1. Sound(path'.value)
    BY <1>5, <1>6
  <2>2. QED
    BY <1>1, <2>1 DEF Sound, SoundFor
<1>10. QED
  BY <1>1, <1>7, <1>8, <1>9 DEF RInv

--------------------------------------------------------------------------------
\* Users change a dashboard: what was remembered of it is excused.
LEMMA ChangeRecent ==
  ASSUME ~ReusesUid, IInv, RInv, NEW d \in Dash, Edit(d) \/ Delete(d)
  PROVE  RInv'
<1>1. PICK s : Change(d, s)
  BY DEF Edit, Delete
<1>2. status[d] # "deleted"
  BY DEF Edit, Delete
<1>3. /\ UNCHANGED <<call, path, temp>> /\ settled' = [settled EXCEPT ![d] = 0]
      /\ \A e \in Dash \ {d} : status'[e] = status[e] /\ content'[e] = content[e]
  BY <1>1 DEF Change, files, IInv, Shapes
<1>4. settled' \in [Dash -> 0 .. Stale + 1]
  BY <1>3, TimesAreNat DEF RInv, Stale
<1>5. settled'[d] = 0 /\ \A e \in Dash \ {d} : settled'[e] = settled[e]
  BY <1>3 DEF RInv
<1>6. ASSUME NEW cache \in Cache, Sound(cache)
      PROVE  /\ Fresh(cache.all) =>
                  \A e \in Dash : settled'[e] > cache.all.age =>
                    (e \in cache.all.uids <=> status'[e] = "tagged")
             /\ \A f \in Starts :
                  LET e == cache.walk[f]
                  IN  Fresh(e) /\ e.uid # None /\ settled'[e.uid] > e.age => status'[e.uid] = "tagged"
  <2>1. /\ cache.all.age \in Nat
        /\ \A f \in Starts : cache.walk[f].age \in Nat /\ cache.walk[f].uid \in Dash \cup {None}
    BY DEF Cache
  <2>2. QED
    BY <1>3, <1>5, <1>6, <2>1 DEF Sound, SoundFor
<1>7. ASSUME NEW c \in Call PROVE Recent(call[c])'
  <2> DEFINE r == call[c]
  <2>1. /\ r \in Record /\ r.span \in Nat /\ TTL + r.span \in Nat /\ r.todo \subseteq Dash
        /\ r.walked \in Dash \cup {None} /\ Recent(r)
    BY TimesAreNat DEF IInv, Shapes, Record, RInv
  <2>2. ASSUME NEW e \in Dash, status'[e] = "tagged", <<e, content'[e]>> \in WithKey,
               settled'[e] > TTL + r.span
        PROVE  Due(e, r)
    <3>1. e # d
      BY <1>5, <2>1, <2>2
    <3>2. QED
      BY <1>3, <1>5, <2>2, <3>1 DEF Due
  <2>3. ASSUME NEW e \in Dash, status[e] = "deleted", settled[e] <= TTL + r.span
        PROVE  status'[e] = "deleted" /\ settled'[e] <= TTL + r.span
    BY <1>2, <1>3, <1>5, <2>3
  <2>4. \A e \in r.todo : status'[e] = "deleted" => settled'[e] <= TTL + r.span
    BY <1>3, <1>5, <2>1 DEF Recent
  <2>5. call'[c] = r
    BY <1>3
  <2> HIDE DEF r
  <2>6. QED
    BY <2>1, <2>2, <2>3, <2>4, <2>5 DEF Recent, Due
<1>8. ASSUME NEW c \in Call PROVE Sound(call[c].cache)'
  <2>1. call[c].cache \in Cache /\ Sound(call[c].cache)
    BY DEF IInv, Shapes, Record, RInv
  <2>2. QED
    BY <1>3, <1>6, <2>1 DEF Sound, SoundFor, Fresh
<1>9. ASSUME NEW n \in Call, temp[n] # <<>> PROVE Sound(temp[n][1].value)'
  <2>1. temp[n][1].value \in Cache /\ Sound(temp[n][1].value)
    BY <1>9 DEF IInv, Shapes, RInv
  <2>2. QED
    BY <1>3, <1>6, <2>1 DEF Sound, SoundFor, Fresh
<1>10. Sound(path.value)'
  <2>1. path.value \in Cache /\ Sound(path.value)
    BY DEF IInv, Shapes, RInv
  <2>2. QED
    BY <1>3, <1>6, <2>1 DEF Sound, SoundFor, Fresh
<1>11. QED
  BY <1>3, <1>4, <1>7, <1>8, <1>9, <1>10 DEF RInv

\* An entry and a dashboard grow older together, and an entry past the
\* time-to-live is dropped.
LEMMA OlderIsSound ==
  ASSUME NEW cache \in Cache, NEW ago \in [Dash -> Nat], NEW later \in [Dash -> Nat],
         \A d \in Dash : later[d] <= ago[d] + 1,
         SoundFor(cache, ago)
  PROVE  SoundFor(Older(cache), later)
<1>1. Older(cache) \in Cache
  BY OlderKeeps
<1>2. ASSUME Fresh(Older(cache).all), NEW d \in Dash, later[d] > Older(cache).all.age
      PROVE  d \in Older(cache).all.uids <=> status[d] = "tagged"
  <2>1. cache.all \in [uids : SUBSET Dash, age : Nat]
    BY DEF Cache
  <2>2. Older(cache).all = IF cache.all.age >= TTL THEN NoList ELSE [cache.all EXCEPT !.age = @ + 1]
    BY DEF Older, Cache
  <2>3. cache.all.age < TTL
    BY <1>2, <2>1, <2>2, TimesAreNat DEF NoList, Fresh
  <2>4. Older(cache).all.age = cache.all.age + 1 /\ Older(cache).all.uids = cache.all.uids
    BY <2>1, <2>2, <2>3, TimesAreNat
  <2>5. ago[d] > cache.all.age /\ Fresh(cache.all)
    BY <1>2, <2>1, <2>3, <2>4, TimesAreNat DEF Fresh
  <2>6. QED
    BY <2>4, <2>5 DEF SoundFor
<1>3. ASSUME NEW f \in Starts, NEW e, e = Older(cache).walk[f],
             Fresh(e), e.uid # None, later[e.uid] > e.age
      PROVE  status[e.uid] = "tagged"
  <2> DEFINE old == cache.walk[f]
  <2>1. old \in [uid : Dash \cup {None}, age : Nat]
    BY DEF Cache
  <2>2. e = IF old.age >= TTL THEN NoWalk ELSE [old EXCEPT !.age = @ + 1]
    BY <1>3 DEF Older, Cache
  <2> HIDE DEF old
  <2>3. old.age < TTL
    BY <1>3, <2>1, <2>2, TimesAreNat DEF NoWalk, Fresh
  <2>4. e.age = old.age + 1 /\ e.uid = old.uid
    BY <2>1, <2>2, <2>3, TimesAreNat
  <2>5. old.uid # None /\ ago[old.uid] > old.age /\ Fresh(old)
    BY <1>3, <2>1, <2>3, <2>4, TimesAreNat DEF Fresh
  <2>6. QED
    BY <2>4, <2>5 DEF SoundFor, old
<1>4. QED
  BY <1>2, <1>3 DEF SoundFor

\* A tick: a call's excuses last as long as its span.
LEMMA TickRecent == ASSUME IInv, RInv, Tick PROVE RInv'
<1>1. /\ UNCHANGED <<status, content>>
      /\ settled' = [d \in Dash |-> IF settled[d] > Stale THEN settled[d] ELSE settled[d] + 1]
      /\ \A c \in Call : call[c].pc # "idle" => call[c].span < MaxSpan
  BY DEF Tick
<1>2. Stale = TTL + MaxSpan /\ TTL \in Nat /\ MaxSpan \in Nat
  BY TimesAreNat DEF Stale
<1>3. \A d \in Dash : /\ settled[d] \in 0 .. Stale + 1
                      /\ settled'[d] = IF settled[d] > Stale THEN settled[d] ELSE settled[d] + 1
  BY <1>1 DEF RInv
<1>4. settled' \in [Dash -> 0 .. Stale + 1]
  BY <1>1, <1>2, <1>3
<1>5. settled \in [Dash -> Nat] /\ settled' \in [Dash -> Nat] /\ \A d \in Dash : settled'[d] <= settled[d] + 1
  BY <1>2, <1>3, <1>4 DEF RInv
<1>6. ASSUME NEW cache \in Cache, Sound(cache) PROVE SoundFor(Older(cache), settled')
  BY <1>5, <1>6, OlderIsSound DEF Sound, SoundFor
<1>7. ASSUME NEW c \in Call PROVE Recent(call[c])' /\ Sound(call[c].cache)'
  <2> DEFINE r == call[c]
             s == [r EXCEPT !.span = @ + 1, !.cache = Older(@)]
  <2>1. r \in Record /\ Recent(r) /\ Sound(r.cache) /\ r.cache \in Cache /\ r.span \in Nat
        /\ r.todo \subseteq Dash /\ r.walked \in Dash \cup {None}
    BY DEF IInv, Shapes, RInv, Record
  <2>2. CASE r.pc = "idle"
    <3>1. call'[c] = Idle
      BY <2>2 DEF Tick
    <3>2. Recent(Idle)' /\ Sound(EmptyCache)'
      <4>1. EmptyCache.all.age = TTL + 1 /\ \A f \in Starts : EmptyCache.walk[f].age = TTL + 1
        BY DEF EmptyCache, NoList, NoWalk
      <4>2. QED
        BY <4>1, TimesAreNat DEF Recent, Idle, Sound, SoundFor, Fresh
    <3>3. Idle.cache = EmptyCache
      BY DEF Idle
    <3>4. QED
      BY <3>1, <3>2, <3>3
  <2>3. CASE r.pc # "idle"
    <3>1. call'[c] = s
      BY <2>3 DEF Tick
    <3>2. /\ s.pc = r.pc /\ s.todo = r.todo /\ s.found = r.found /\ s.failed = r.failed
          /\ s.walked = r.walked /\ s.span = r.span + 1 /\ s.cache = Older(r.cache)
      BY <2>1 DEF Record
    <3>3. r.span + 1 <= MaxSpan
      BY <1>1, <1>2, <2>1, <2>3
    <3>4. SoundFor(s.cache, settled')
      BY <1>6, <2>1, <3>2
    <3>5. ASSUME NEW d \in Dash, settled'[d] > TTL + (r.span + 1) PROVE settled[d] > TTL + r.span
      BY <1>2, <1>3, <2>1, <3>3, <3>5
    <3>6. ASSUME NEW d \in Dash, settled[d] <= TTL + r.span PROVE settled'[d] <= TTL + (r.span + 1)
      BY <1>2, <1>3, <2>1, <3>3, <3>6
    <3> HIDE DEF r, s
    <3>7. \A d \in Dash :
            status'[d] = "tagged" /\ <<d, content'[d]>> \in WithKey
              /\ settled'[d] > TTL + (r.span + 1) => Due(d, r)
      BY <1>1, <3>5 DEF Due
    <3>8. Recent(call[c])'
      BY <1>1, <2>1, <3>1, <3>2, <3>3, <3>6, <3>7 DEF Recent, Due
    <3>9. Sound(call[c].cache)'
      BY <1>1, <3>1, <3>4 DEF Sound, SoundFor
    <3>10. QED
      BY <3>8, <3>9
  <2>4. QED
    BY <2>2, <2>3
<1>8. ASSUME NEW n \in Call, temp'[n] # <<>> PROVE Sound(temp[n][1].value)'
  <2>1. temp[n] # <<>> /\ temp'[n] = <<[temp[n][1] EXCEPT !.value = Older(@)]>>
    BY <1>8 DEF Tick
  <2>2. PICK f \in [whole : BOOLEAN, value : Cache] : temp[n] = <<f>>
    BY <2>1 DEF IInv, Shapes
  <2>3. temp[n][1] = f /\ f.value \in Cache /\ Sound(f.value)
    BY <2>1, <2>2 DEF RInv
  <2>4. temp'[n][1].value = Older(f.value)
    BY <2>1, <2>3
  <2>5. SoundFor(temp'[n][1].value, settled')
    BY <1>6, <2>3, <2>4
  <2>6. QED
    BY <1>1, <2>5 DEF Sound, SoundFor
<1>9. Sound(path.value)'
  <2>1. path.value \in Cache /\ Sound(path.value) /\ path'.value = Older(path.value)
    BY DEF IInv, Shapes, RInv, Tick
  <2>2. SoundFor(path'.value, settled')
    BY <1>6, <2>1
  <2>3. QED
    BY <1>1, <2>2 DEF Sound, SoundFor
<1>10. QED
  BY <1>4, <1>7, <1>8, <1>9 DEF RInv

--------------------------------------------------------------------------------
\* At the start nothing has changed for long, and no copy has an entry.
LEMMA InitRecent == Init => RInv
<1> SUFFICES ASSUME Init PROVE RInv
  OBVIOUS
<1> USE DEF File!Init, File!Whole
<1>1. settled \in [Dash -> 0 .. Stale + 1]
  BY TimesAreNat DEF Init, Stale
<1>2. \A c \in Call : call[c] = Idle /\ call[c].cache = EmptyCache
  BY DEF Init, Idle
<1>3. path.value = EmptyCache /\ \A n \in Call : temp[n] = <<>>
  BY DEF Init
<1>4. QED
  BY <1>1, <1>2, <1>3, EmptyIsSound DEF RInv

\* Every step keeps every copy sound and every call's excuse.
LEMMA NextRecent == ASSUME ~ReusesUid PROVE IInv /\ RInv /\ [Next]_vars => RInv'
<1> SUFFICES ASSUME IInv, RInv, [Next]_vars PROVE RInv'
  OBVIOUS
<1>1. CASE UNCHANGED vars
  BY <1>1 DEF RInv, Recent, Due, Sound, SoundFor, vars, grafana, files
<1>2. CASE Next
  BY <1>2, LookupRecent, SurveyRecent, LoadRecent, WalkRecent, FetchRecent, FailureRecent,
     SaveRecent, ChangeRecent, TickRecent DEF Next
<1>3. QED
  BY <1>1, <1>2

\* Where no dashboard comes back under a deleted one's uid, a lookup that finds
\* nothing although something is published, or fails because a dashboard is gone,
\* does so only for a while: as long as an entry lives and a call lasts.
THEOREM AbsenceDoesNotLast == ASSUME ~ReusesUid PROVE Spec => []NoStaleAbsence
<1>1. ~ReusesUid
  OBVIOUS
<1>2. IInv /\ RInv => NoStaleAbsence
  <2> SUFFICES ASSUME IInv, RInv PROVE NoStaleAbsence
    OBVIOUS
  <2>1. \A c \in Call, d \in Dash : /\ Recent(call[c]) /\ call[c].span \in Nat
                                    /\ settled[d] \in Nat
    BY RInvSettled DEF IInv, Shapes, Record, RInv, Settled
  <2>2. \A c \in Call, d \in Dash : ~(settled[d] > TTL + call[c].span) => settled[d] <= Stale
    BY <2>1, TimesAreNat DEF Recent, Stale
  <2>3. MissIsRecent
    BY <2>1, <2>2 DEF MissIsRecent, Answers, Recent, Due
  <2>4. \A c \in Call, d \in Dash : settled[d] <= TTL + call[c].span => settled[d] <= Stale
    BY <2>1, TimesAreNat DEF Recent, Stale
  <2>5. FailureIsRecent
    <3> SUFFICES ASSUME NEW c \in Call, call[c].pc = "open", call[c].failed = "deleted"
                 PROVE  \E d \in Dash : status[d] = "deleted" /\ settled[d] <= Stale
      BY DEF FailureIsRecent
    <3>1. PICK d \in Dash : status[d] = "deleted" /\ settled[d] <= TTL + call[c].span
      BY DEF RInv, Recent
    <3>2. QED
      BY <2>4, <3>1
  <2>6. QED
    BY <2>3, <2>5 DEF NoStaleAbsence
<1>3. QED
  BY <1>1, <1>2, InitIInv, InitRecent, NextStep, NextRecent, PTL DEF Spec
================================================================================
