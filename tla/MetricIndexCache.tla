--------------------------- MODULE MetricIndexCache ---------------------------
(***************************************************************************)
(* The metric index of one connection (src/index-builder/metricIndex.ts,   *)
(* store.ts): a file shared by every process, rebuilt by a crawl of        *)
(* minutes when it is missing, of another schema or past its TTL, and      *)
(* inside a process a map that lets calls join a crawl under way.          *)
(*                                                                         *)
(* An index is named by its crawl, crawls being numbered as they start;    *)
(* those up to `expired' are past the TTL.  A step is a stretch of code    *)
(* between two awaits, of any call of any process.                         *)
(***************************************************************************)
EXTENDS Naturals, FiniteSets

CONSTANTS Caller,     \* calls of getOrBuildIndex under way
          Proc,
          ProcOf,     \* the process each caller runs in
          OldProc,    \* processes of a release with another schema version
          MaxCrawls   \* bound: crawls started

ASSUME CallersRun == ProcOf \in [Caller -> Proc] /\ OldProc \subseteq Proc
ASSUME CrawlsAreNat == MaxCrawls \in Nat \ {0}

VARIABLES disk,      \* the crawl whose index the file holds, or Missing
          expired,   \* the crawls up to this one are past the TTL
          crawls,    \* how many were started
          owner,     \* the process that runs or ran each crawl
          state,     \* of each crawl
          inFlight,  \* inFlightBuilds, per process: a crawl or Missing
          pc,        \* where each call is
          holds,     \* the crawl a call has read the index of, builds or joined
          got        \* the index each call was last answered with, or Missing

crawlVars == <<crawls, owner, state, inFlight>>
callVars  == <<pc, holds, got>>
vars == <<disk, expired, crawlVars, callVars>>

Missing == 0
Crawl   == 1 .. MaxCrawls
Running == {"crawling", "saving"}

\* isStale, the other way round: of this release's schema, within the TTL.
Usable(n, p) ==
  /\ n # Missing
  /\ owner[n] \in OldProc <=> p \in OldProc
  /\ n > expired

\* The file holds an index of a former session, already past its TTL.
Init ==
  /\ \E p \in Proc, s \in {"none", "saved"} :
       /\ owner = [n \in Crawl |-> p]
       /\ state = [n \in Crawl |-> IF n = 1 THEN s ELSE "none"]
       /\ disk = IF s = "saved" THEN 1 ELSE Missing
  /\ expired = disk
  /\ crawls = disk
  /\ inFlight = [p \in Proc |-> Missing]
  /\ pc = [c \in Caller |-> "idle"]
  /\ holds = [c \in Caller |-> Missing]
  /\ got = [c \in Caller |-> Missing]

\* The map is consulted: a crawl under way is joined, or one is started and
\* entered, with no await in between.
Join(c, n) ==
  /\ pc' = [pc EXCEPT ![c] = "joined"]
  /\ holds' = [holds EXCEPT ![c] = n]
  /\ UNCHANGED crawlVars

Start(c, n) ==
  /\ n \in Crawl
  /\ crawls' = n
  /\ owner' = [owner EXCEPT ![n] = ProcOf[c]]
  /\ state' = [state EXCEPT ![n] = "crawling"]
  /\ inFlight' = [inFlight EXCEPT ![ProcOf[c]] = n]
  /\ pc' = [pc EXCEPT ![c] = "building"]
  /\ holds' = [holds EXCEPT ![c] = n]

\* A slip, not the code: nobody looks whether a crawl is under way.
AlwaysStart(c) == Start(c, crawls + 1)

Coalesce(c) ==
  IF inFlight[ProcOf[c]] # Missing
  THEN Join(c, inFlight[ProcOf[c]])
  ELSE Start(c, crawls + 1)

\* A call that has its index from the file returns it.
Answer(c) ==
  /\ pc' = [pc EXCEPT ![c] = "idle"]
  /\ holds' = [holds EXCEPT ![c] = Missing]
  /\ got' = [got EXCEPT ![c] = holds[c]]

\* The bound: every call under way may still start a crawl.
MayCall(c) ==
  /\ pc[c] = "idle"
  /\ crawls + Cardinality({d \in Caller : pc[d] # "idle"}) < MaxCrawls

\* getOrBuildIndex with force skips the file.
CallForced(c) ==
  /\ MayCall(c)
  /\ Coalesce(c)
  /\ UNCHANGED <<disk, expired, got>>

Call(c) ==
  /\ MayCall(c)
  /\ pc' = [pc EXCEPT ![c] = "loading"]
  /\ UNCHANGED <<disk, expired, crawlVars, holds, got>>

\* loadIndex opens the file: what it reads from now on is this index, whatever
\* is renamed over the path meanwhile.
Load(c) ==
  /\ pc[c] = "loading"
  /\ pc' = [pc EXCEPT ![c] = "loaded"]
  /\ holds' = [holds EXCEPT ![c] = disk]
  /\ UNCHANGED <<disk, expired, crawlVars, got>>

\* A slip, not the code: only the age is looked at.
DecideByAge(c) ==
  /\ pc[c] = "loaded"
  /\ \/ /\ holds[c] > expired
        /\ Answer(c)
        /\ UNCHANGED crawlVars
     \/ holds[c] <= expired /\ Coalesce(c) /\ UNCHANGED got
  /\ UNCHANGED <<disk, expired>>

\* The file has been read and parsed: it is served, or a crawl is.
Decide(c) ==
  /\ pc[c] = "loaded"
  /\ \/ /\ Usable(holds[c], ProcOf[c])
        /\ Answer(c)
        /\ UNCHANGED crawlVars
     \/ ~Usable(holds[c], ProcOf[c]) /\ Coalesce(c) /\ UNCHANGED got
  /\ UNCHANGED <<disk, expired>>

\* buildMetricIndex returns.
CrawlReturns(n) ==
  /\ state[n] = "crawling"
  /\ state' = [state EXCEPT ![n] = "saving"]
  /\ UNCHANGED <<disk, expired, crawls, owner, inFlight, callVars>>

Waiting(n) == {c \in Caller : pc[c] \in {"building", "joined"} /\ holds[c] = n}

AnswerAll(n, result) ==
  /\ pc' = [c \in Caller |-> IF c \in Waiting(n) THEN "idle" ELSE pc[c]]
  /\ holds' = [c \in Caller |-> IF c \in Waiting(n) THEN Missing ELSE holds[c]]
  /\ got' = [c \in Caller |-> IF c \in Waiting(n) THEN result ELSE got[c]]

\* The promise of crawl n settles: everybody waiting on it is answered, and
\* the finally of the call that started it takes it out of the map.
Settle(n, result) ==
  /\ AnswerAll(n, result)
  /\ inFlight' = [inFlight EXCEPT ![owner[n]] = Missing]

\* saveIndex: the file now names this crawl's index.
Save(n) ==
  /\ state[n] = "saving"
  /\ state' = [state EXCEPT ![n] = "saved"]
  /\ disk' = n
  /\ Settle(n, n)
  /\ UNCHANGED <<expired, crawls, owner>>

\* A slip, not the code: the error reaches nobody.
FailsUnheard(n) ==
  /\ state[n] \in Running
  /\ state' = [state EXCEPT ![n] = "failed"]
  /\ inFlight' = [inFlight EXCEPT ![owner[n]] = Missing]
  /\ UNCHANGED <<disk, expired, crawls, owner, callVars>>

\* Grafana fails, or the file cannot be written: every caller gets the error.
Fails(n) ==
  /\ state[n] \in Running
  /\ state' = [state EXCEPT ![n] = "failed"]
  /\ Settle(n, Missing)
  /\ UNCHANGED <<disk, expired, crawls, owner>>

\* A process ends (its client left, or the watchdog stopped it) with its
\* crawl, and starts again with an empty map.
Restart(p) ==
  /\ \E c \in Caller : ProcOf[c] = p /\ pc[c] # "idle"
  /\ pc' = [c \in Caller |-> IF ProcOf[c] = p THEN "idle" ELSE pc[c]]
  /\ holds' = [c \in Caller |-> IF ProcOf[c] = p THEN Missing ELSE holds[c]]
  /\ state' = [n \in Crawl |-> IF owner[n] = p /\ state[n] \in Running
                               THEN "failed" ELSE state[n]]
  /\ inFlight' = [inFlight EXCEPT ![p] = Missing]
  /\ UNCHANGED <<disk, expired, crawls, owner, got>>

\* Time passes: the oldest index still within its TTL leaves it.
Expire ==
  /\ expired < crawls
  /\ expired' = expired + 1
  /\ UNCHANGED <<disk, crawlVars, callVars>>

CallSteps(c) == Load(c) \/ Decide(c)
CrawlEnds(n) == CrawlReturns(n) \/ Save(n) \/ Fails(n)

Next ==
  \/ \E c \in Caller : Call(c) \/ CallForced(c) \/ CallSteps(c)
  \/ \E n \in Crawl : CrawlEnds(n)
  \/ \E p \in Proc : Restart(p)
  \/ Expire

Spec == Init /\ [][Next]_vars

\* Reads of the file complete, and every request of a crawl is answered or
\* aborted at its timeout.
FairSpec ==
  /\ Spec
  /\ \A c \in Caller : WF_vars(CallSteps(c))
  /\ \A n \in Crawl : WF_vars(CrawlEnds(n))

--------------------------------------------------------------------------------
\* Types of the file (it holds the index of a finished crawl), of the crawls,
\* the map and the calls.
TypeOK ==
  /\ disk \in {Missing} \cup {n \in Crawl : state[n] = "saved"}
  /\ expired \in 0 .. crawls
  /\ crawls \in 0 .. MaxCrawls
  /\ owner \in [Crawl -> Proc]
  /\ state \in [Crawl -> Running \cup {"none", "saved", "failed"}]
  /\ inFlight \in [Proc -> Crawl \cup {Missing}]
  /\ pc \in [Caller -> {"idle", "loading", "loaded", "joined", "building"}]
  /\ holds \in [Caller -> Crawl \cup {Missing}]
  /\ got \in [Caller -> Crawl \cup {Missing}]

RunningIn(p) == {n \in Crawl : owner[n] = p /\ state[n] \in Running}

\* Calls made back to back never start two crawls of one connection in a
\* process, and the map entry is never of a crawl that is over: a failure is
\* not handed to calls that come after it.
MapIsTheCrawl ==
  \A p \in Proc : RunningIn(p) = {inFlight[p]} \ {Missing}

\* A call waits only for a crawl of its own process, and of its own schema,
\* that is still running.
WaitsForARunningCrawl ==
  \A c \in Caller : pc[c] \in {"joined", "building"} => holds[c] \in RunningIn(ProcOf[c])

\* An index of another schema version is never served, even by two releases
\* sharing the data directory.
OwnSchemaServed ==
  \A c \in Caller : got[c] # Missing => (owner[got[c]] \in OldProc <=> ProcOf[c] \in OldProc)

\* Every call is answered, by an index or by an error.
CallAnswered == \A c \in Caller : pc[c] # "idle" ~> pc[c] = "idle"
================================================================================
