---------------------------- MODULE QueryInputsProofs ----------------------------
(***************************************************************************)
(* Proofs about what a query needs before Grafana is asked for it.         *)
(*                                                                         *)
(* The metric index (MetricIndexCache), for any number of calls, processes *)
(* and crawls: the map of running crawls is exact, nobody waits on a crawl *)
(* that is over, and no index of another release is served.                *)
(*                                                                         *)
(* The window (RenderWindow, DateMath), for any zones, requests and        *)
(* preferences: each setting is the first tier's that can be used, those   *)
(* that are not reported do not matter, and, in zones whose changes keep   *)
(* midnights, rounding gives the first and the last instant of a period.   *)
(***************************************************************************)
EXTENDS MetricIndexCache, RenderWindow, WellFoundedInduction, TLAPS

\* Crawls not started yet are in no state, and nobody holds or was given
\* their index.
OnlyStarted ==
  /\ \A n \in Crawl : n > crawls => state[n] = "none"
  /\ \A c \in Caller : holds[c] <= crawls /\ got[c] <= crawls

\* The inductive invariant: OnlyStarted keeps Start from reusing the number of
\* a crawl somebody has the index of.
IInv ==
  /\ TypeOK
  /\ OnlyStarted
  /\ MapIsTheCrawl
  /\ WaitsForARunningCrawl
  /\ OwnSchemaServed

--------------------------------------------------------------------------------
\* A former session's index is on disk, or nothing is; nothing runs.
LEMMA InitIInv == Init => IInv
<1> SUFFICES ASSUME Init PROVE IInv
  OBVIOUS
<1> USE CallersRun, CrawlsAreNat DEF Missing, Crawl, Running
<1>1. PICK p \in Proc, s \in {"none", "saved"} :
        /\ owner = [n \in Crawl |-> p]
        /\ state = [n \in Crawl |-> IF n = 1 THEN s ELSE "none"]
        /\ disk = IF s = "saved" THEN 1 ELSE Missing
  BY DEF Init
<1>2. TypeOK
  BY <1>1 DEF Init, TypeOK
<1>3. OnlyStarted
  BY <1>1 DEF Init, OnlyStarted
<1>4. MapIsTheCrawl
  BY <1>1 DEF Init, MapIsTheCrawl, RunningIn
<1>5. WaitsForARunningCrawl /\ OwnSchemaServed
  BY <1>1 DEF Init, WaitsForARunningCrawl, OwnSchemaServed
<1>6. QED
  BY <1>2, <1>3, <1>4, <1>5 DEF IInv

\* Joining or starting a crawl, which both getOrBuildIndex with force and a call
\* that found the file unusable do.
LEMMA CoalesceIInv ==
  ASSUME IInv, NEW c \in Caller, Coalesce(c), UNCHANGED <<disk, expired, got>>
  PROVE  IInv'
<1> DEFINE p == ProcOf[c]
<1> USE CallersRun, CrawlsAreNat DEF Missing, Crawl, Running
<1>0. p \in Proc
  OBVIOUS
<1>1. CASE inFlight[p] # Missing
  <2>1. Join(c, inFlight[p])
    BY <1>1 DEF Coalesce
  <2>2. inFlight[p] \in RunningIn(p) /\ inFlight[p] \in Crawl
    BY <1>0, <1>1 DEF IInv, MapIsTheCrawl, TypeOK
  <2>3. TypeOK'
    BY <2>1, <2>2 DEF IInv, TypeOK, Join, crawlVars
  <2>4. OnlyStarted'
    BY <2>1, <2>2 DEF IInv, TypeOK, OnlyStarted, RunningIn, Join, crawlVars
  <2>5. MapIsTheCrawl'
    BY <2>1 DEF IInv, MapIsTheCrawl, RunningIn, Join, crawlVars
  <2>6. WaitsForARunningCrawl'
    BY <2>1, <2>2 DEF IInv, TypeOK, WaitsForARunningCrawl, RunningIn, Join, crawlVars
  <2>7. OwnSchemaServed'
    BY <2>1 DEF IInv, OwnSchemaServed, Join, crawlVars
  <2>8. QED
    BY <2>3, <2>4, <2>5, <2>6, <2>7 DEF IInv
<1>2. CASE inFlight[p] = Missing
  <2> DEFINE n == crawls + 1
  <2>1. Start(c, n)
    BY <1>2 DEF Coalesce
  <2>2. n \in Crawl /\ state[n] = "none"
    BY <2>1 DEF Start, IInv, TypeOK, OnlyStarted
  <2>3. TypeOK'
    BY <1>0, <2>1, <2>2 DEF IInv, TypeOK, Start
  <2>4. OnlyStarted'
    <3>1. crawls \in Nat /\ crawls' = n
      BY <2>1 DEF IInv, TypeOK, Start
    <3>2. \A m \in Crawl : m > n => state'[m] = "none"
      BY <2>1, <3>1 DEF IInv, TypeOK, OnlyStarted, Start
    <3>3. \A d \in Caller : holds'[d] <= n
      BY <2>1, <3>1 DEF IInv, TypeOK, OnlyStarted, Start
    <3>4. \A d \in Caller : got'[d] <= n
      BY <3>1 DEF IInv, TypeOK, OnlyStarted
    <3>5. QED
      BY <3>1, <3>2, <3>3, <3>4 DEF OnlyStarted
  <2>5. ASSUME NEW q \in Proc
        PROVE  RunningIn(q)' = IF q = p THEN {n} ELSE RunningIn(q)
    BY <1>0, <1>2, <2>1, <2>2 DEF IInv, TypeOK, MapIsTheCrawl, RunningIn, Start
  <2>6. MapIsTheCrawl'
    BY <1>0, <2>1, <2>2, <2>5 DEF IInv, TypeOK, MapIsTheCrawl, Start
  <2>7. WaitsForARunningCrawl'
    BY <1>0, <2>1, <2>2, <2>5 DEF IInv, TypeOK, WaitsForARunningCrawl, Start, RunningIn
  <2>8. OwnSchemaServed'
    BY <2>1, <2>2 DEF IInv, TypeOK, OnlyStarted, OwnSchemaServed, Start
  <2>9. QED
    BY <2>3, <2>4, <2>6, <2>7, <2>8 DEF IInv
<1>3. QED
  BY <1>1, <1>2

\* A call is answered from the file it read, or opens it, or comes.
LEMMA CallStepIInv ==
  ASSUME IInv, NEW c \in Caller, Call(c) \/ CallForced(c) \/ CallSteps(c)
  PROVE  IInv'
<1> USE CallersRun, CrawlsAreNat DEF Missing, Crawl, Running
<1>1. CASE Call(c)
  <2>1. TypeOK' /\ OnlyStarted'
    BY <1>1 DEF IInv, TypeOK, OnlyStarted, Call, crawlVars
  <2>2. MapIsTheCrawl' /\ WaitsForARunningCrawl' /\ OwnSchemaServed'
    BY <1>1 DEF IInv, TypeOK, MapIsTheCrawl, RunningIn, WaitsForARunningCrawl,
                OwnSchemaServed, Call, crawlVars
  <2>3. QED
    BY <2>1, <2>2 DEF IInv
<1>2. CASE Load(c)
  <2>1. TypeOK'
    BY <1>2 DEF IInv, TypeOK, Load, crawlVars
  <2>2. disk <= crawls
    BY DEF IInv, TypeOK, OnlyStarted
  <2>3. OnlyStarted'
    BY <1>2, <2>2 DEF IInv, TypeOK, OnlyStarted, Load, crawlVars
  <2>4. MapIsTheCrawl' /\ WaitsForARunningCrawl' /\ OwnSchemaServed'
    BY <1>2 DEF IInv, TypeOK, MapIsTheCrawl, RunningIn, WaitsForARunningCrawl,
                OwnSchemaServed, Load, crawlVars
  <2>5. QED
    BY <2>1, <2>3, <2>4 DEF IInv
<1>3. ASSUME Usable(holds[c], ProcOf[c]), Answer(c), UNCHANGED <<crawlVars, disk, expired>>
      PROVE  IInv'
  <2>1. TypeOK' /\ OnlyStarted'
    BY <1>3 DEF IInv, TypeOK, OnlyStarted, Answer, crawlVars
  <2>2. MapIsTheCrawl' /\ WaitsForARunningCrawl'
    BY <1>3 DEF IInv, TypeOK, MapIsTheCrawl, RunningIn, WaitsForARunningCrawl,
                Answer, crawlVars
  <2>3. OwnSchemaServed'
    BY <1>3 DEF IInv, TypeOK, OwnSchemaServed, Usable, Answer, crawlVars
  <2>4. QED
    BY <2>1, <2>2, <2>3 DEF IInv
<1>4. QED
  BY <1>1, <1>2, <1>3, CoalesceIInv DEF CallForced, CallSteps, Decide

\* A crawl settles, by success or failure: all who wait on it are answered, and
\* the map of its process is empty again.
LEMMA SettleIInv ==
  ASSUME IInv, NEW n \in Crawl, state[n] \in Running, NEW result \in {n, Missing},
         NEW s \in {"saved", "failed"}, s = "failed" => disk' = disk,
         s = "saved" => disk' = n,
         state' = [state EXCEPT ![n] = s], Settle(n, result),
         UNCHANGED <<expired, crawls, owner>>
  PROVE  IInv'
<1> USE CallersRun, CrawlsAreNat DEF Missing, Crawl, Running
<1> DEFINE p == owner[n]
<1>1. p \in Proc /\ n \in RunningIn(p) /\ inFlight[p] = n
  BY DEF IInv, TypeOK, MapIsTheCrawl, RunningIn
<1>2. n <= crawls /\ crawls \in Nat
  BY DEF IInv, TypeOK, OnlyStarted
<1>3. TypeOK'
  <2>1. disk' \in {Missing} \cup {m \in Crawl : state'[m] = "saved"}
    BY DEF IInv, TypeOK
  <2>2. inFlight' \in [Proc -> Crawl \cup {Missing}]
    BY <1>1 DEF IInv, TypeOK, Settle
  <2>3. QED
    BY <2>1, <2>2 DEF IInv, TypeOK, Settle, AnswerAll
<1>4. OnlyStarted'
  <2>1. \A m \in Crawl : m > crawls' => state'[m] = "none"
    BY <1>2 DEF IInv, TypeOK, OnlyStarted
  <2>2. \A c \in Caller : holds'[c] <= crawls' /\ got'[c] <= crawls'
    BY <1>2 DEF IInv, TypeOK, OnlyStarted, Settle, AnswerAll
  <2>3. QED
    BY <2>1, <2>2 DEF OnlyStarted
<1>5. ASSUME NEW q \in Proc
      PROVE  RunningIn(q)' = RunningIn(q) \ {n}
  BY DEF IInv, TypeOK, RunningIn
<1>6. MapIsTheCrawl'
  BY <1>1, <1>5 DEF IInv, TypeOK, MapIsTheCrawl, RunningIn, Settle
<1>7. WaitsForARunningCrawl'
  BY <1>5 DEF IInv, TypeOK, WaitsForARunningCrawl, Settle, AnswerAll, Waiting
<1>8. OwnSchemaServed'
  <2>1. \A c \in Waiting(n) : ProcOf[c] = p
    BY DEF IInv, TypeOK, WaitsForARunningCrawl, RunningIn, Waiting
  <2>2. QED
    BY <2>1 DEF IInv, TypeOK, OwnSchemaServed, Settle, AnswerAll
<1>9. QED
  BY <1>3, <1>4, <1>6, <1>7, <1>8 DEF IInv

\* A process ends: its calls go with its crawl and its map.
LEMMA RestartIInv ==
  ASSUME IInv, NEW p \in Proc, Restart(p)
  PROVE  IInv'
<1> USE CallersRun, CrawlsAreNat DEF Missing, Crawl, Running
<1>1. TypeOK' /\ OnlyStarted'
  BY DEF IInv, TypeOK, OnlyStarted, Restart
<1>2. ASSUME NEW q \in Proc
      PROVE  RunningIn(q)' = IF q = p THEN {} ELSE RunningIn(q)
  BY DEF IInv, TypeOK, RunningIn, Restart
<1>3. MapIsTheCrawl'
  BY <1>2 DEF IInv, TypeOK, MapIsTheCrawl, Restart
<1>4. WaitsForARunningCrawl'
  BY <1>2 DEF IInv, TypeOK, WaitsForARunningCrawl, Restart
<1>5. OwnSchemaServed'
  BY DEF IInv, OwnSchemaServed, Restart
<1>6. QED
  BY <1>1, <1>3, <1>4, <1>5 DEF IInv

\* Every step keeps the invariant.
LEMMA NextIInv == IInv /\ [Next]_vars => IInv'
<1> SUFFICES ASSUME IInv, [Next]_vars PROVE IInv'
  OBVIOUS
<1>1. ASSUME NEW c \in Caller, Call(c) \/ CallForced(c) \/ CallSteps(c) PROVE IInv'
  BY <1>1, CallStepIInv
<1>2. ASSUME NEW n \in Crawl, CrawlReturns(n) PROVE IInv'
  <2> USE CallersRun, CrawlsAreNat DEF Missing, Crawl, Running
  <2>1. TypeOK' /\ OnlyStarted'
    BY <1>2 DEF IInv, TypeOK, OnlyStarted, CrawlReturns, callVars
  <2>2. \A q \in Proc : RunningIn(q)' = RunningIn(q)
    BY <1>2 DEF IInv, TypeOK, RunningIn, CrawlReturns
  <2>3. MapIsTheCrawl' /\ WaitsForARunningCrawl' /\ OwnSchemaServed'
    BY <1>2, <2>2 DEF IInv, TypeOK, MapIsTheCrawl, WaitsForARunningCrawl,
                      OwnSchemaServed, CrawlReturns, callVars
  <2>4. QED
    BY <2>1, <2>3 DEF IInv
<1>3. ASSUME NEW n \in Crawl, Save(n) PROVE IInv'
  BY <1>3, SettleIInv DEF Save, Running
<1>4. ASSUME NEW n \in Crawl, Fails(n) PROVE IInv'
  BY <1>4, SettleIInv DEF Fails, Running
<1>5. ASSUME NEW p \in Proc, Restart(p) PROVE IInv'
  BY <1>5, RestartIInv
<1>6. CASE Expire
  <2>1. UNCHANGED <<disk, crawlVars, callVars>> /\ expired' = expired + 1 /\ expired < crawls
    BY <1>6 DEF Expire
  <2>2. TypeOK'
    BY <2>1, CrawlsAreNat DEF IInv, TypeOK, crawlVars, callVars
  <2>3. OnlyStarted' /\ MapIsTheCrawl' /\ WaitsForARunningCrawl' /\ OwnSchemaServed'
    BY <2>1 DEF IInv, OnlyStarted, MapIsTheCrawl, RunningIn, WaitsForARunningCrawl,
                OwnSchemaServed, crawlVars, callVars
  <2>4. QED
    BY <2>2, <2>3 DEF IInv
<1>7. CASE UNCHANGED vars
  BY <1>7 DEF IInv, TypeOK, OnlyStarted, MapIsTheCrawl, RunningIn, WaitsForARunningCrawl,
              OwnSchemaServed, vars, crawlVars, callVars
<1>8. QED
  BY <1>1, <1>2, <1>3, <1>4, <1>5, <1>6, <1>7 DEF Next, CrawlEnds

\* The invariant holds throughout every behaviour.
LEMMA Invariance == Spec => []IInv
<1>1. QED
  BY InitIInv, NextIInv, PTL DEF Spec

--------------------------------------------------------------------------------
\* The file names an index that was saved, and all state is well typed.
THEOREM TypesHold == Spec => []TypeOK
<1>1. IInv => TypeOK
  BY DEF IInv
<1>2. QED
  BY <1>1, Invariance, PTL

\* inFlightBuilds is exact: one crawl per process and connection at a time, no
\* entry for a crawl that is over, however calls, failures, restarts and
\* another release interleave.
THEOREM OneCrawlAtATime == Spec => []MapIsTheCrawl
<1>1. IInv => MapIsTheCrawl
  BY DEF IInv
<1>2. QED
  BY <1>1, Invariance, PTL

\* Nobody waits on a crawl that is over or is another process's.
THEOREM NobodyWaitsInVain == Spec => []WaitsForARunningCrawl
<1>1. IInv => WaitsForARunningCrawl
  BY DEF IInv
<1>2. QED
  BY <1>1, Invariance, PTL

\* Releases that share the data directory never serve each other's index.
THEOREM SchemasKeptApart == Spec => []OwnSchemaServed
<1>1. IInv => OwnSchemaServed
  BY DEF IInv
<1>2. QED
  BY <1>1, Invariance, PTL

--------------------------------------------------------------------------------
\* A set of natural numbers that is not empty has a least.
LEMMA LeastNat ==
  ASSUME NEW T \in SUBSET Nat, T # {}
  PROVE  \E n \in T : \A m \in T : n <= m
<1>1. PICK n \in T : \A m \in T : ~(<<m, n>> \in OpToRel(<, Nat))
  BY NatLessThanWellFounded, WFMin
<1>2. ASSUME NEW m \in T, m < n PROVE FALSE
  <2>1. <<m, n>> \in Nat \X Nat /\ <<m, n>>[1] < <<m, n>>[2]
    BY <1>1, <1>2
  <2>2. <<m, n>> \in OpToRel(<, Nat)
    BY <2>1, Zenon DEF OpToRel
  <2> QED
    BY <1>1, <2>2
<1> QED
  BY <1>2

\* A day has some ticks.
LEMMA DayIsNat == Day \in Nat /\ Day > 0 /\ Day >= 24
BY CalendarAssumption DEF Day

\* What a division is.
LEMMA Divided ==
  ASSUME NEW w \in Int, NEW n \in Nat, n > 0
  PROVE  w \div n \in Int /\ w % n \in 0..(n - 1) /\ w = n * (w \div n) + (w % n)
<1>1. w \div n \in Int /\ w % n \in 0..(n - 1)
  OBVIOUS
<1>2. PICK q \in Int : q = w \div n
  BY <1>1
<1>3. w % n = w - n * q
  BY <1>2
<1>4. PICK x \in Int : x = n * q
  OBVIOUS
<1>5. PICK r \in Int : r = w % n
  BY <1>1
<1>6. w = x + r
  BY <1>3, <1>4, <1>5
<1> QED
  BY <1>1, <1>2, <1>4, <1>5, <1>6

\* One day is over before a later one begins.
LEMMA DaysApart ==
  ASSUME NEW d \in Int, NEW e \in Int, d < e
  PROVE  d * Day \in Int /\ e * Day \in Int /\ d * Day + Day <= e * Day
<1>1. Day \in Nat
  BY DayIsNat
<1>2. (e - d - 1) * Day >= 0
  BY <1>1
<1>3. (e - d - 1) * Day = e * Day - d * Day - Day
  BY <1>1
<1> QED
  BY <1>1, <1>2, <1>3

\* The day of a wall clock is the one it lies in.
LEMMA InDay ==
  ASSUME NEW w \in Int, NEW d \in Int
  PROVE  /\ d * Day \in Int /\ DayOf(w) \in Int
         /\ DayOf(w) = d <=> d * Day <= w /\ w < d * Day + Day
<1>1. Day \in Nat /\ Day > 0
  BY DayIsNat
<1>2. PICK q \in Int : q = w \div Day
  BY <1>1, Divided
<1>3. q * Day \in Int /\ d * Day \in Int
  BY <1>1
<1>4. q * Day <= w /\ w < q * Day + Day
  <2>1. w % Day \in 0..(Day - 1) /\ w = Day * q + (w % Day)
    BY <1>1, <1>2, Divided
  <2>2. Day * q = q * Day
    BY <1>1
  <2> QED
    <3>1. PICK r \in Int : r = w % Day /\ 0 <= r /\ r < Day
      BY <1>1, <2>1
    <3>2. w = Day * q + r
      BY <2>1, <3>1
    <3>3. PICK x \in Int : x = q * Day
      BY <1>3
    <3>4. w = x + r
      BY <2>2, <3>2, <3>3
    <3> QED
      BY <1>1, <3>1, <3>3, <3>4
<1>5. CASE q = d
  BY <1>2, <1>3, <1>4, <1>5 DEF DayOf
<1>6. CASE q < d
  <2>1. q * Day + Day <= d * Day
    BY <1>6, DaysApart
  <2> QED
    BY <1>1, <1>2, <1>3, <1>4, <1>6, <2>1 DEF DayOf
<1>7. CASE d < q
  <2>1. d * Day + Day <= q * Day
    BY <1>7, DaysApart
  <2> QED
    BY <1>1, <1>2, <1>3, <1>4, <1>7, <2>1 DEF DayOf
<1> QED
  BY <1>5, <1>6, <1>7

\* A day begins at midnight.
LEMMA DaysBeginAtMidnight ==
  ASSUME NEW d \in Int
  PROVE  (d * Day) % Day = 0
<1>1. Day \in Nat /\ Day > 0
  BY DayIsNat
<1>2. PICK w \in Int : w = d * Day
  BY <1>1
<1>3. DayOf(w) = d
  BY <1>1, <1>2, InDay
<1>4. w % Day \in 0..(Day - 1) /\ w = Day * d + (w % Day)
  BY <1>1, <1>3, Divided DEF DayOf
<1> QED
  BY <1>1, <1>2, <1>4

--------------------------------------------------------------------------------
\* There is a last of the changes that are over.
LEMMA LatestIsPast ==
  ASSUME NEW z, KeepsMidnights(z), NEW t \in Int, Past(z, t) # {}
  PROVE  /\ Latest(Past(z, t)) \in Past(z, t)
         /\ \A k \in Past(z, t) : k.at <= Latest(Past(z, t)).at
<1> DEFINE P == Past(z, t)
           T == {t - j.at : j \in P}
<1>1. \A j \in P : j.at \in Int /\ j.at <= t
  BY DEF KeepsMidnights, Past
<1>2. T \in SUBSET Nat /\ T # {}
  BY <1>1
<1>3. PICK n \in T : \A m \in T : n <= m
  <2> HIDE DEF T
  <2> QED
    BY <1>2, LeastNat
<1>4. PICK j \in P : n = t - j.at
  OBVIOUS
<1>5. \A k \in P : k.at <= j.at
  BY <1>1, <1>3, <1>4
<1> QED
  BY <1>5 DEF Latest

\* An offset is less than a day.
LEMMA OffsetIsAnOffset ==
  ASSUME NEW z, KeepsMidnights(z), NEW t \in Int
  PROVE  /\ OffsetAt(z, t) \in Int /\ -Day < OffsetAt(z, t) /\ OffsetAt(z, t) < Day
         /\ WallClock(z, t) = t + OffsetAt(z, t)
<1>1. OffsetAt(z, t) \in Offsets
  <2>1. CASE Past(z, t) = {}
    BY <2>1 DEF OffsetAt, KeepsMidnights
  <2>2. CASE Past(z, t) # {}
    <3>1. Latest(Past(z, t)) \in z.jumps
      BY <2>2, LatestIsPast DEF Past
    <3> QED
      BY <2>2, <3>1 DEF OffsetAt, KeepsMidnights
  <2> QED
    BY <2>1, <2>2
<1> QED
  BY <1>1, DayIsNat DEF Offsets, WallClock

\* Around any instant there is one change of the clocks at most.
LEMMA OneChange ==
  ASSUME NEW z, KeepsMidnights(z), NEW w \in Int
  PROVE  \E a, p, q \in Int :
           /\ Kept(a, p, q)
           /\ \A t \in (w - Day)..(w + Day) : OffsetAt(z, t) = IF t < a THEN p ELSE q
<1>1. Day \in Nat /\ Day > 0
  BY DayIsNat
<1> DEFINE near == {j \in z.jumps : w - Day < j.at /\ j.at <= w + Day}
           p == OffsetAt(z, w - Day)
<1>2. \A j \in z.jumps : j.at \in Int /\ j.offset \in Int
  BY <1>1 DEF KeepsMidnights, Offsets
<1>3. p \in Int /\ p \in Offsets
  BY <1>1, OffsetIsAnOffset DEF Offsets
<1>4. CASE near = {}
  <2>1. ASSUME NEW t \in (w - Day)..(w + Day) PROVE OffsetAt(z, t) = p
    <3>1. Past(z, t) = Past(z, w - Day)
      BY <1>1, <1>2, <1>4 DEF Past
    <3> QED
      BY <3>1 DEF OffsetAt
  <2>2. Kept(w, p, p)
    BY <1>1, <1>3 DEF Kept
  <2> HIDE DEF p
  <2> QED
    BY <1>3, <2>1, <2>2
<1>5. CASE near # {}
  <2>1. PICK j \in near : TRUE
    BY <1>5
  <2>2. j \in z.jumps /\ j.at \in Int /\ j.offset \in Int /\ w - Day < j.at /\ j.at <= w + Day
    BY <1>2, <2>1
  <2>3. \A k \in near : k = j
    <3>1. ASSUME NEW k \in near PROVE k = j
      <4>1. k \in z.jumps /\ k.at \in Int /\ w - Day < k.at /\ k.at <= w + Day
        BY <1>2, <3>1
      <4>2. ~(k.at < j.at) /\ ~(j.at < k.at)
        BY <1>1, <2>2, <4>1 DEF KeepsMidnights
      <4> QED
        BY <2>2, <4>1, <4>2 DEF KeepsMidnights
    <3> QED
      BY <3>1
  <2>4. ASSUME NEW t \in (w - Day)..(w + Day), t < j.at PROVE OffsetAt(z, t) = p
    <3>1. Past(z, t) = Past(z, w - Day)
      <4>1. ASSUME NEW k \in z.jumps PROVE k.at <= t <=> k.at <= w - Day
        BY <1>1, <1>2, <2>2, <2>3, <2>4, <4>1
      <4> QED
        BY <4>1 DEF Past
    <3> QED
      BY <3>1 DEF OffsetAt
  <2>5. ASSUME NEW t \in (w - Day)..(w + Day), ~(t < j.at) PROVE OffsetAt(z, t) = j.offset
    <3>1. j \in Past(z, t) /\ t \in Int
      BY <1>1, <2>2, <2>5 DEF Past
    <3>2. PICK l : l = Latest(Past(z, t))
      OBVIOUS
    <3>3. l \in z.jumps /\ l.at <= t /\ j.at <= l.at
      BY <3>1, <3>2, LatestIsPast DEF Past
    <3>4. l \in near
      BY <1>1, <1>2, <2>2, <2>5, <3>3
    <3>5. l = j
      BY <2>3, <3>4
    <3> QED
      BY <3>1, <3>2, <3>5 DEF OffsetAt
  <2>6. OffsetAt(z, j.at - 1) = p
    BY <1>1, <2>2, <2>4
  <2>7. Kept(j.at, p, j.offset)
    BY <2>2, <2>6 DEF KeepsMidnights
  <2> HIDE DEF p, near
  <2> QED
    BY <1>3, <2>2, <2>4, <2>5, <2>7
<1> QED
  BY <1>4, <1>5

\* What ToInstant takes: of its two candidates the second if that shows the wall
\* clock, and else the later.
LEMMA Taken ==
  ASSUME NEW z, KeepsMidnights(z), NEW w \in Int
  PROVE  LET first  == OffsetAt(z, w)
             second == OffsetAt(z, w - first)
         IN  ToInstant(z, w) =
               IF first = second THEN w - first
               ELSE IF OffsetAt(z, w - second) = second THEN w - second
               ELSE IF first < second THEN w - first ELSE w - second
<1>1. PICK first : first = OffsetAt(z, w)
  OBVIOUS
<1>2. first \in Int
  BY <1>1, OffsetIsAnOffset
<1>3. PICK second : second = OffsetAt(z, w - first)
  OBVIOUS
<1>4. second \in Int
  BY <1>2, <1>3, OffsetIsAnOffset
<1>5. PICK third : third = OffsetAt(z, w - second)
  OBVIOUS
<1> DEFINE both  == {w - first, w - second}
           valid == {t \in both : OffsetAt(z, t) = w - t}
<1>6. ToInstant(z, w) = IF first = second THEN w - first
                        ELSE IF valid # {} THEN Min(valid) ELSE Max(both)
  BY <1>1, <1>3 DEF ToInstant
<1>7. CASE first = second
  BY <1>1, <1>3, <1>6, <1>7
<1>8. CASE first # second /\ third = second
  <2>1. valid = {w - second}
    BY <1>2, <1>3, <1>4, <1>5, <1>8
  <2>2. Min({w - second}) = w - second
    BY <1>2, <1>4 DEF Min
  <2> QED
    BY <1>1, <1>3, <1>5, <1>6, <1>8, <2>1, <2>2
<1>9. CASE first # second /\ third # second
  <2>1. valid = {}
    BY <1>2, <1>3, <1>4, <1>5, <1>9
  <2>2. Max(both) = IF first < second THEN w - first ELSE w - second
    <3>1. CASE first < second
      <4>1. w - second < w - first /\ w - first \in Int /\ w - second \in Int
        BY <1>2, <1>4, <3>1
      <4> QED
        BY <3>1, <4>1 DEF Max
    <3>2. CASE second < first
      <4>1. w - first < w - second /\ w - first \in Int /\ w - second \in Int /\ ~(first < second)
        BY <1>2, <1>4, <3>2
      <4> QED
        BY <3>2, <4>1 DEF Max
    <3> QED
      BY <1>2, <1>4, <1>9, <3>1, <3>2
  <2> QED
    BY <1>1, <1>3, <1>5, <1>6, <1>9, <2>1, <2>2
<1> QED
  BY <1>7, <1>8, <1>9

\* The instant of a wall clock shows it, or what comes after the gap it is in.
LEMMA ShownAtOrAfter ==
  ASSUME NEW z, KeepsMidnights(z), NEW w \in Int
  PROVE  LET s == ToInstant(z, w)
         IN  /\ s \in Int /\ WallClock(z, s) \in Int
             /\ w <= WallClock(z, s) /\ 2 * (WallClock(z, s) - w) < Day
<1>1. Day \in Nat /\ Day > 0
  BY DayIsNat
<1>2. PICK a \in Int, p \in Int, q \in Int :
        /\ Kept(a, p, q)
        /\ \A t \in (w - Day)..(w + Day) : OffsetAt(z, t) = IF t < a THEN p ELSE q
  BY OneChange
<1>3. /\ -Day < p /\ p < Day /\ -Day < q /\ q < Day
      /\ 2 * (p - q) < Day /\ 2 * (q - p) < Day
  BY <1>1, <1>2 DEF Kept, Offsets
<1>4. PICK first \in Int : first = OffsetAt(z, w) /\ first = IF w < a THEN p ELSE q
  BY <1>1, <1>2
<1>5. PICK second \in Int : second = OffsetAt(z, w - first) /\ second = IF w - first < a THEN p ELSE q
  BY <1>1, <1>2, <1>3, <1>4
<1>6. PICK third \in Int : third = OffsetAt(z, w - second) /\ third = IF w - second < a THEN p ELSE q
  BY <1>1, <1>2, <1>3, <1>5
<1>7. ToInstant(z, w) = IF first = second THEN w - first
                        ELSE IF third = second THEN w - second
                        ELSE IF first < second THEN w - first ELSE w - second
  BY <1>4, <1>5, <1>6, Taken
<1>8. CASE ToInstant(z, w) = w - first /\ (first = second \/ first < second)
  BY <1>1, <1>3, <1>4, <1>5, <1>8 DEF WallClock
<1>9. CASE ToInstant(z, w) = w - second /\ (third = second \/ second < first)
  BY <1>1, <1>3, <1>4, <1>5, <1>6, <1>9 DEF WallClock
<1> QED
  BY <1>4, <1>5, <1>7, <1>8, <1>9

\* Midnight parts the instants: those from the one it is taken for on show it or
\* what comes after, those before show what comes before.
LEMMA MidnightParts ==
  ASSUME NEW z, KeepsMidnights(z), NEW w \in Int, w % Day = 0, NEW t \in Int
  PROVE  t >= ToInstant(z, w) <=> WallClock(z, t) >= w
<1>1. Day \in Nat /\ Day > 0
  BY DayIsNat
<1>2. PICK a \in Int, p \in Int, q \in Int :
        /\ Kept(a, p, q)
        /\ \A x \in (w - Day)..(w + Day) : OffsetAt(z, x) = IF x < a THEN p ELSE q
  BY OneChange
<1>3. /\ -Day < p /\ p < Day /\ -Day < q /\ q < Day
      /\ q < p /\ w = a + q => q < 0
      /\ q < p => w <= a + q \/ a + p <= w
      /\ p < q => w <= a + p \/ a + q <= w
  <2>1. /\ -Day < p /\ p < Day /\ -Day < q /\ q < Day
        /\ q < p /\ w = a + q => q < 0
    BY <1>1, <1>2 DEF Kept, Offsets
  <2>2. q < p => w \notin (a + q + 1)..(a + p - 1)
    BY <1>2 DEF Kept
  <2>3. p < q => w \notin (a + p + 1)..(a + q - 1)
    BY <1>2 DEF Kept
  <2> QED
    BY <2>1, <2>2, <2>3
<1>4. PICK first \in Int : first = OffsetAt(z, w) /\ first = IF w < a THEN p ELSE q
  BY <1>1, <1>2
<1>5. PICK second \in Int : second = OffsetAt(z, w - first) /\ second = IF w - first < a THEN p ELSE q
  BY <1>1, <1>2, <1>3, <1>4
<1>6. PICK third \in Int : third = OffsetAt(z, w - second) /\ third = IF w - second < a THEN p ELSE q
  BY <1>1, <1>2, <1>3, <1>5
<1>7. PICK s : s = ToInstant(z, w)
  OBVIOUS
<1>8. s = IF first = second THEN w - first
          ELSE IF third = second THEN w - second
          ELSE IF first < second THEN w - first ELSE w - second
  BY <1>4, <1>5, <1>6, <1>7, Taken
<1>9. s \in Int /\ w - Day < s /\ s < w + Day
  BY <1>1, <1>3, <1>4, <1>5, <1>8
<1>10. WallClock(z, t) \in Int /\ t - Day < WallClock(z, t) /\ WallClock(z, t) < t + Day
  BY <1>1, OffsetIsAnOffset
<1>11. CASE t < w - Day \/ t > w + Day
  BY <1>1, <1>7, <1>9, <1>10, <1>11
<1>12. CASE t \in (w - Day)..(w + Day)
  <2>1. WallClock(z, t) = t + IF t < a THEN p ELSE q
    BY <1>2, <1>12 DEF WallClock
  <2>2. t >= s <=> (t + IF t < a THEN p ELSE q) >= w
    <3>1. CASE p = q
      BY <1>4, <1>5, <1>8, <3>1
    <3>2. CASE q < p
      BY <1>3, <1>4, <1>5, <1>6, <1>8, <3>2
    <3>3. CASE p < q
      BY <1>3, <1>4, <1>5, <1>6, <1>8, <3>3
    <3> QED
      BY <3>1, <3>2, <3>3
  <2> QED
    BY <1>7, <2>1, <2>2
<1> QED
  BY <1>1, <1>11, <1>12

--------------------------------------------------------------------------------
\* Every day from the calendar's first on is in one month.
LEMMA MonthIs ==
  ASSUME NEW day \in Int, NEW m \in Months,
         FirstDay[m] <= day, m + 1 \in Months => day < FirstDay[m + 1]
  PROVE  MonthOf(day) = m
<1>1. PICK last \in Nat : Months = 0..last
  BY CalendarAssumption
<1>2. ASSUME NEW i \in Months, FirstDay[i] <= day, i + 1 \in Months => day < FirstDay[i + 1]
      PROVE  i = m
  <2>1. \A j \in Months : FirstDay[j] \in Int
    BY CalendarAssumption
  <2>2. \A j, k \in Months : j < k => FirstDay[j] < FirstDay[k]
    BY CalendarAssumption
  <2>3. CASE i < m
    <3>1. i + 1 \in Months /\ (i + 1 = m \/ i + 1 < m)
      BY <1>1, <2>3
    <3>2. FirstDay[i + 1] <= FirstDay[m]
      BY <2>1, <2>2, <3>1
    <3> QED
      BY <1>2, <2>1, <3>1, <3>2
  <2>4. CASE m < i
    <3>1. m + 1 \in Months /\ (m + 1 = i \/ m + 1 < i)
      BY <1>1, <2>4
    <3>2. FirstDay[m + 1] <= FirstDay[i]
      BY <2>1, <2>2, <3>1
    <3> QED
      BY <1>2, <2>1, <3>1, <3>2
  <2> QED
    BY <1>1, <2>3, <2>4
<1>3. \E i \in Months : FirstDay[i] <= day /\ (i + 1 \in Months => day < FirstDay[i + 1])
  OBVIOUS
<1> QED
  BY <1>2, <1>3 DEF MonthOf

\* The month of a day.
LEMMA MonthFound ==
  ASSUME NEW day \in Int, FirstDay[0] <= day
  PROVE  /\ MonthOf(day) \in Months /\ FirstDay[MonthOf(day)] <= day
         /\ MonthOf(day) + 1 \in Months => day < FirstDay[MonthOf(day) + 1]
<1>1. PICK last \in Nat : Months = 0..last
  BY CalendarAssumption
<1>2. \A j \in Months : FirstDay[j] \in Int
  BY CalendarAssumption
<1> DEFINE T == {i \in 0..last : FirstDay[last - i] <= day}
<1>3. T \in SUBSET Nat /\ T # {}
  <2>1. last \in T
    BY <1>1
  <2>2. T \subseteq 0..last
    OBVIOUS
  <2> HIDE DEF T
  <2> QED
    BY <2>1, <2>2
<1>4. PICK n \in T : \A i \in T : n <= i
  <2> HIDE DEF T
  <2> QED
    BY <1>3, LeastNat
<1>5. n \in 0..last /\ FirstDay[last - n] <= day /\ last - n \in Months
  BY <1>1
<1>6. last - n + 1 \in Months => day < FirstDay[last - n + 1]
  <2>1. SUFFICES ASSUME last - n + 1 \in Months, ~(day < FirstDay[last - n + 1]) PROVE FALSE
    OBVIOUS
  <2>2. n - 1 \in 0..last /\ last - (n - 1) = last - n + 1
    BY <1>1, <1>5, <2>1
  <2>3. n - 1 \in T
    BY <1>2, <2>1, <2>2
  <2> HIDE DEF T
  <2> QED
    BY <1>4, <1>5, <2>3
<1> QED
  BY <1>5, <1>6, MonthIs

\* A period of days, from the first to before the next: the day each of its days
\* is rounded to is its first, and a wall clock moved by one is of the next.
Period(first, next, unit, weekStart) ==
  /\ first \in Int /\ next \in Int /\ first < next
  /\ \A x \in first..(next - 1) : FirstOf(x, unit, weekStart) = first
  /\ FirstOf(next, unit, weekStart) = next
  /\ FirstOf(first - 1, unit, weekStart) \in Int /\ FirstOf(first - 1, unit, weekStart) < first
  /\ \A wall \in Int : DayOf(wall) = first =>
       Moved(wall, 1, unit) = (next * Day) + (wall - first * Day)

\* A day lies in a period.
Lies(day, unit, weekStart) ==
  \E first, next \in Int : first <= day /\ day < next /\ Period(first, next, unit, weekStart)

\* Days are periods.
LEMMA Days ==
  ASSUME NEW day \in Int, NEW weekStart
  PROVE  Lies(day, "d", weekStart)
<1>1. Day \in Nat
  BY DayIsNat
<1>2. Period(day, day + 1, "d", weekStart)
  <2>1. \A x \in Int : FirstOf(x, "d", weekStart) = x
    BY DEF FirstOf
  <2>2. \A wall \in Int : Moved(wall, 1, "d") = wall + Day
    BY <1>1 DEF Moved
  <2>3. (day + 1) * Day = day * Day + Day /\ day * Day \in Int
    BY <1>1
  <2>4. PICK x \in Int : x = day * Day
    BY <2>3
  <2> QED
    BY <1>1, <2>1, <2>2, <2>3, <2>4 DEF Period
<1> QED
  BY <1>2 DEF Lies

\* Weeks are.
LEMMA Weeks ==
  ASSUME NEW day \in Int, NEW weekStart \in Int
  PROVE  Lies(day, "w", weekStart)
<1>1. Day \in Nat
  BY DayIsNat
<1>2. Weekday0 \in Int
  BY CalendarAssumption
<1>3. PICK c \in Int : c = Weekday0 - weekStart
  BY <1>2
<1>4. ASSUME NEW x \in Int PROVE FirstOf(x, "w", weekStart) = x - ((x + c) % 7)
  <2>1. x + Weekday0 - weekStart = x + c
    BY <1>2, <1>3
  <2> QED
    BY <2>1 DEF FirstOf
<1>5. PICK first \in Int : first = day - ((day + c) % 7)
  OBVIOUS
<1>6. first <= day /\ day < first + 7 /\ (first + c) % 7 = 0
  BY <1>5
<1>7. ASSUME NEW i \in 0..6 PROVE (first + i + c) % 7 = i
  BY <1>6
<1>8. (first + 7 + c) % 7 = 0 /\ (first - 1 + c) % 7 = 6
  BY <1>6
<1>9. Period(first, first + 7, "w", weekStart)
  <2>1. \A x \in first..(first + 6) : FirstOf(x, "w", weekStart) = first
    <3>1. ASSUME NEW x \in first..(first + 6) PROVE FirstOf(x, "w", weekStart) = first
      <4>1. PICK i \in 0..6 : x = first + i
        <5>1. x - first \in 0..6 /\ x = first + (x - first)
          OBVIOUS
        <5> QED
          BY <5>1
      <4> QED
        BY <1>4, <1>7, <4>1
    <3> QED
      BY <3>1
  <2>2. FirstOf(first + 7, "w", weekStart) = first + 7 /\ FirstOf(first - 1, "w", weekStart) = first - 7
    BY <1>4, <1>8
  <2>3. \A wall \in Int : Moved(wall, 1, "w") = wall + 7 * Day
    BY <1>1 DEF Moved
  <2>4. (first + 7) * Day = first * Day + 7 * Day /\ first * Day \in Int
    BY <1>1
  <2>5. PICK x \in Int : x = first * Day
    BY <2>4
  <2> QED
    BY <1>1, <2>1, <2>2, <2>3, <2>4, <2>5 DEF Period
<1> QED
  BY <1>6, <1>9 DEF Lies

\* The first month of the quarter or year that a month is in.
LEMMA FirstMonths ==
  ASSUME NEW m \in Nat, NEW k \in {1, 3, 12}
  PROVE  /\ m - (m % k) \in Nat /\ m - (m % k) <= m /\ m < (m - (m % k)) + k
         /\ (m - (m % k)) % k = 0
         /\ m >= 12 => m - (m % k) >= 1
<1>1. CASE k = 1  BY <1>1
<1>2. CASE k = 3  BY <1>2
<1>3. CASE k = 12  BY <1>3
<1> QED  BY <1>1, <1>2, <1>3

\* How many months a month, a quarter or a year has.
Length(unit) == IF unit = "M" THEN 1 ELSE IF unit = "Q" THEN 3 ELSE 12

\* Months counted off by that many are periods, in the calendar.
LEMMA MonthsOn ==
  ASSUME NEW unit \in {"M", "Q", "y"}, NEW b \in Nat, NEW k \in Nat, k = Length(unit),
         b >= 1, b % k = 0, b + k + 1 \in Months, NEW weekStart
  PROVE  Period(FirstDay[b], FirstDay[b + k], unit, weekStart)
<1>1. PICK last \in Nat : Months = 0..last
  BY CalendarAssumption
<1>2. \A j \in Months : FirstDay[j] \in Int
  BY CalendarAssumption
<1>3. \A i, j \in Months : i < j => FirstDay[i] < FirstDay[j]
  BY CalendarAssumption
<1>4. k \in {1, 3, 12} /\ (unit = "M" <=> k = 1) /\ (unit = "Q" <=> k = 3)
  BY DEF Length
<1>5. ASSUME NEW x \in Int, NEW m \in Months, MonthOf(x) = m
      PROVE  FirstOf(x, unit, weekStart) = FirstDay[m - (m % k)]
  <2>1. CASE unit = "M"
    <3>1. m % k = 0 /\ m - 0 = m
      BY <1>1, <1>4, <2>1
    <3> QED
      BY <1>5, <2>1, <3>1 DEF FirstOf
  <2>2. CASE unit = "Q"
    BY <1>4, <1>5, <2>2 DEF FirstOf
  <2>3. CASE unit = "y"
    <3>1. k = 12
      BY <1>4, <2>3
    <3> QED
      BY <1>5, <2>3, <3>1 DEF FirstOf
  <2> QED
    BY <2>1, <2>2, <2>3
<1>6. PICK first \in Int, next \in Int : first = FirstDay[b] /\ next = FirstDay[b + k]
  BY <1>1, <1>2, <1>4
<1>7. b \in Months /\ b - 1 \in Months /\ b + 1 \in Months /\ b + k \in Months
  BY <1>1, <1>4
<1>8. first < next
  BY <1>3, <1>4, <1>6, <1>7
<1>9. ASSUME NEW x \in first..(next - 1) PROVE FirstOf(x, unit, weekStart) = first
  <2>1. FirstDay[0] <= x
    <3>1. FirstDay[0] < FirstDay[b]
      BY <1>1, <1>3, <1>7
    <3> QED
      BY <1>1, <1>2, <1>6, <3>1
  <2>2. PICK m \in Months : m = MonthOf(x) /\ FirstDay[m] <= x /\ (m + 1 \in Months => x < FirstDay[m + 1])
    BY <2>1, MonthFound
  <2>3. ~(b + k <= m)
    <3>1. SUFFICES ASSUME b + k <= m PROVE FALSE
      OBVIOUS
    <3>2. FirstDay[b + k] <= FirstDay[m]
      BY <1>1, <1>2, <1>3, <1>7, <3>1
    <3> QED
      BY <1>1, <1>2, <1>6, <2>2, <3>2
  <2>4. ~(m < b)
    <3>1. SUFFICES ASSUME m < b PROVE FALSE
      OBVIOUS
    <3>2. m + 1 \in Months /\ (m + 1 = b \/ m + 1 < b)
      BY <1>1, <1>7, <3>1
    <3>3. FirstDay[m + 1] <= FirstDay[b]
      BY <1>2, <1>3, <1>7, <3>2
    <3> QED
      BY <1>2, <1>6, <2>2, <3>2, <3>3
  <2>5. m - (m % k) = b
    <3>1. PICK i \in 0..(k - 1) : m = b + i
      <4>1. m - b \in 0..(k - 1) /\ m = b + (m - b)
        BY <1>1, <1>4, <2>3, <2>4
      <4> QED
        BY <4>1
    <3>2. (b + i) % k = i
      BY <1>4
    <3> QED
      BY <3>1, <3>2
  <2> QED
    BY <1>5, <1>6, <2>2, <2>5
<1>10. MonthOf(next) = b + k /\ MonthOf(first) = b
  <2>1. next < FirstDay[b + k + 1] /\ first < FirstDay[b + 1]
    BY <1>3, <1>4, <1>6, <1>7
  <2> QED
    BY <1>2, <1>6, <1>7, <2>1, MonthIs
<1>11. FirstOf(next, unit, weekStart) = next
  <2>1. (b + k) % k = 0
    BY <1>4
  <2> QED
    BY <1>5, <1>6, <1>7, <1>10, <2>1
<1>12. FirstOf(first - 1, unit, weekStart) \in Int /\ FirstOf(first - 1, unit, weekStart) < first
  <2>1. FirstDay[b - 1] < FirstDay[b]
    BY <1>3, <1>7
  <2>2. MonthOf(first - 1) = b - 1
    BY <1>2, <1>6, <1>7, <2>1, MonthIs
  <2>3. PICK m \in Months : m = (b - 1) - ((b - 1) % k) /\ m < b
    <3>1. b - 1 \in Nat /\ b - 1 \in Months
      BY <1>7
    <3>2. PICK i \in Nat : i = (b - 1) - ((b - 1) % k) /\ i <= b - 1
      BY <1>4, <3>1, FirstMonths
    <3> QED
      BY <1>1, <3>1, <3>2
  <2>4. FirstDay[m] < FirstDay[b]
    BY <1>3, <1>7, <2>3
  <2> QED
    BY <1>2, <1>5, <1>6, <1>7, <2>2, <2>3, <2>4
<1>13. ASSUME NEW wall \in Int, DayOf(wall) = first
       PROVE  Moved(wall, 1, unit) = (next * Day) + (wall - first * Day)
  <2>1. Day \in Nat /\ Day > 0
    BY DayIsNat
  <2>2. PICK more \in Int : more = FirstDay[b + k + 1] - FirstDay[b + k] - 1 /\ more >= 0
    BY <1>2, <1>3, <1>7
  <2>3. 1 * (CASE unit = "M" -> 1 [] unit = "Q" -> 3 [] OTHER -> 12) = k
    BY <1>4
  <2>4. Min({first - first, more}) = 0
    <3>1. first - first = 0
      OBVIOUS
    <3> QED
      BY <2>2, <3>1 DEF Min
  <2>5. Moved(wall, 1, unit) =
          (FirstDay[b + k] + Min({first - FirstDay[b], FirstDay[b + k + 1] - FirstDay[b + k] - 1})) * Day
            + (wall % Day)
    BY <1>10, <1>13, <2>3 DEF Moved
  <2>6. Moved(wall, 1, unit) = ((next + 0) * Day) + (wall % Day)
    BY <1>6, <2>2, <2>4, <2>5
  <2>7. wall % Day = wall - first * Day
    <3>1. PICK r \in Int : r = wall % Day /\ wall = Day * first + r
      BY <1>13, <2>1, Divided DEF DayOf
    <3>2. Day * first = first * Day /\ first * Day \in Int
      BY <2>1
    <3> QED
      BY <3>1, <3>2
  <2> QED
    BY <2>6, <2>7
<1> QED
  BY <1>6, <1>8, <1>9, <1>11, <1>12, <1>13 DEF Period

\* A day lies in a month, a quarter and a year.
LEMMA Monthly ==
  ASSUME NEW day \in Int, NEW weekStart, NEW unit \in {"M", "Q", "y"}, InCalendar(day)
  PROVE  Lies(day, unit, weekStart)
<1>1. PICK last \in Nat : Months = 0..last
  BY CalendarAssumption
<1>2. \A j \in Months : FirstDay[j] \in Int
  BY CalendarAssumption
<1>3. \A i, j \in Months : i < j => FirstDay[i] < FirstDay[j]
  BY CalendarAssumption
<1>4. PICK k \in Nat : k = Length(unit) /\ k \in {1, 3, 12}
  BY DEF Length
<1>5. PICK e \in Months : e + 13 \in Months /\ day < FirstDay[e + 1]
  BY DEF InCalendar
<1>6. 12 \in Months /\ FirstDay[12] <= day
  BY DEF InCalendar
<1>7. FirstDay[0] <= day
  BY <1>1, <1>2, <1>3, <1>6
<1>8. PICK m \in Months : m = MonthOf(day) /\ FirstDay[m] <= day /\ (m + 1 \in Months => day < FirstDay[m + 1])
  BY <1>7, MonthFound
<1>9. 12 <= m
  <2>1. SUFFICES ASSUME m < 12 PROVE FALSE
    BY <1>1
  <2>2. m + 1 \in Months /\ (m + 1 = 12 \/ m + 1 < 12)
    BY <1>1, <1>6, <2>1
  <2>3. FirstDay[m + 1] <= FirstDay[12]
    BY <1>2, <1>3, <1>6, <2>2
  <2> QED
    BY <1>2, <1>6, <1>8, <2>2, <2>3
<1>10. m <= e
  <2>1. SUFFICES ASSUME e < m PROVE FALSE
    BY <1>1
  <2>2. e + 1 \in Months /\ (e + 1 = m \/ e + 1 < m)
    BY <1>1, <1>5, <2>1
  <2>3. FirstDay[e + 1] <= FirstDay[m]
    BY <1>2, <1>3, <1>5, <2>2
  <2> QED
    BY <1>2, <1>5, <1>8, <2>2, <2>3
<1>11. PICK b \in Nat : b = m - (m % k) /\ b % k = 0 /\ b >= 1 /\ b <= m /\ m < b + k
  <2>1. m \in Nat
    BY <1>1
  <2> QED
    BY <1>4, <1>9, <2>1, FirstMonths
<1>12. b + k + 1 \in Months /\ b \in Months /\ b + k \in Months /\ m + 1 \in Months
  <2>1. b <= m /\ m <= e /\ e + 13 <= last /\ k <= 12 /\ m \in Nat /\ e \in Nat
    BY <1>1, <1>4, <1>5, <1>10, <1>11
  <2>2. b + k + 1 \in 0..last /\ b \in 0..last /\ b + k \in 0..last /\ m + 1 \in 0..last
    BY <2>1
  <2> QED
    BY <1>1, <2>2
<1>13. Period(FirstDay[b], FirstDay[b + k], unit, weekStart)
  BY <1>4, <1>11, <1>12, MonthsOn
<1>14. FirstDay[b] <= day /\ day < FirstDay[b + k]
  <2>1. FirstDay[b] <= FirstDay[m] /\ FirstDay[m + 1] <= FirstDay[b + k]
    <3>1. (b = m \/ b < m) /\ (m + 1 = b + k \/ m + 1 < b + k)
      BY <1>1, <1>4, <1>11
    <3> QED
      BY <1>2, <1>3, <1>12, <3>1
  <2> QED
    BY <1>2, <1>8, <1>12, <2>1
<1> QED
  BY <1>2, <1>12, <1>13, <1>14 DEF Lies

\* From one instant to the next the wall clock does not move on by a day.
LEMMA ClocksMoveLittle ==
  ASSUME NEW z, KeepsMidnights(z), NEW t \in Int
  PROVE  /\ WallClock(z, t) \in Int /\ WallClock(z, t - 1) \in Int
         /\ WallClock(z, t) <= WallClock(z, t - 1) + Day
<1>1. Day \in Nat /\ Day >= 24
  BY DayIsNat
<1>2. PICK a \in Int, p \in Int, q \in Int :
        /\ Kept(a, p, q)
        /\ \A x \in (t - Day)..(t + Day) : OffsetAt(z, x) = IF x < a THEN p ELSE q
  BY OneChange
<1>3. 2 * (q - p) < Day
  BY <1>2 DEF Kept
<1>4. /\ OffsetAt(z, t) = IF t < a THEN p ELSE q
      /\ OffsetAt(z, t - 1) = IF t - 1 < a THEN p ELSE q
  BY <1>1, <1>2
<1> QED
  BY <1>1, <1>3, <1>4 DEF WallClock

\* A wall clock is rounded to the first midnight of its period.
LEMMA RoundedTo ==
  ASSUME NEW w \in Int, NEW unit \in {"d", "w", "M", "Q", "y"}, NEW weekStart,
         NEW first, NEW next, Period(first, next, unit, weekStart)
  PROVE  /\ first * Day \in Int /\ next * Day \in Int /\ first * Day + Day <= next * Day
         /\ first * Day <= w /\ w < next * Day => RoundDown(w, unit, weekStart) = first * Day
         /\ next * Day <= w /\ w < next * Day + Day => RoundDown(w, unit, weekStart) = next * Day
         /\ w < first * Day /\ first * Day <= w + Day => RoundDown(w, unit, weekStart) # first * Day
<1>1. first \in Int /\ next \in Int /\ first < next
  BY DEF Period
<1>2. Day \in Nat /\ Day > 0
  BY DayIsNat
<1>3. PICK day \in Int : day = DayOf(w) /\ day * Day <= w /\ w < day * Day + Day /\ day * Day \in Int
  <2>1. DayOf(w) \in Int
    BY <1>1, InDay
  <2> QED
    BY <2>1, InDay
<1>4. RoundDown(w, unit, weekStart) = FirstOf(day, unit, weekStart) * Day
  BY <1>3 DEF RoundDown
<1>5. first * Day \in Int /\ next * Day \in Int /\ first * Day + Day <= next * Day
  BY <1>1, DaysApart
<1>6. ASSUME first * Day <= w, w < next * Day PROVE RoundDown(w, unit, weekStart) = first * Day
  <2>1. ~(day < first)
    <3>1. day < first => day * Day + Day <= first * Day
      BY <1>1, DaysApart
    <3> QED
      BY <1>2, <1>3, <1>5, <1>6, <3>1
  <2>2. ~(next <= day)
    <3>1. CASE next < day
      <4>1. next * Day + Day <= day * Day
        BY <1>1, <3>1, DaysApart
      <4> QED
        BY <1>2, <1>3, <1>5, <1>6, <4>1
    <3>2. CASE next = day
      BY <1>3, <1>5, <1>6, <3>2
    <3> QED
      BY <1>1, <3>1, <3>2
  <2>3. day \in first..(next - 1)
    BY <1>1, <2>1, <2>2
  <2> QED
    BY <1>4, <2>3 DEF Period
<1>7. ASSUME next * Day <= w, w < next * Day + Day PROVE RoundDown(w, unit, weekStart) = next * Day
  <2>1. DayOf(w) = next
    BY <1>1, <1>7, InDay
  <2> QED
    BY <1>3, <1>4, <2>1 DEF Period
<1>8. ASSUME w < first * Day, first * Day <= w + Day PROVE RoundDown(w, unit, weekStart) # first * Day
  <2>1. (first - 1) * Day = first * Day - Day
    BY <1>1, <1>2
  <2>2. DayOf(w) = first - 1
    BY <1>1, <1>2, <1>5, <1>8, <2>1, InDay
  <2>3. PICK f \in Int : f = FirstOf(first - 1, unit, weekStart) /\ f < first
    BY DEF Period
  <2>4. f * Day \in Int /\ f * Day + Day <= first * Day
    BY <1>1, <2>3, DaysApart
  <2>5. f * Day # first * Day
    BY <1>2, <1>5, <2>4
  <2> QED
    BY <1>3, <1>4, <2>2, <2>3, <2>5
<1> QED
  BY <1>5, <1>6, <1>7, <1>8

\* The start of a period is its first instant, the end its last.
LEMMA PeriodsAreNamed ==
  ASSUME NEW z, KeepsMidnights(z), NEW t \in Int, NEW unit \in {"d", "w", "M", "Q", "y"},
         NEW weekStart \in Int, InCalendar(DayOf(WallClock(z, t)))
  PROVE  /\ IsFirst(z, StartOf(z, t, unit, weekStart), t, unit, weekStart)
         /\ IsLast(z, EndOf(z, t, unit, weekStart), t, unit, weekStart)
<1>1. Day \in Nat /\ Day >= 24
  BY DayIsNat
<1>2. PICK now \in Int : now = WallClock(z, t)
  BY OffsetIsAnOffset
<1>3. Lies(DayOf(now), unit, weekStart)
  <2>1. DayOf(now) \in Int
    BY InDay, 0 \in Int
  <2> QED
    BY <1>2, <2>1, Days, Weeks, Monthly
<1>4. PICK first \in Int, next \in Int :
        first <= DayOf(now) /\ DayOf(now) < next /\ Period(first, next, unit, weekStart)
  BY <1>3 DEF Lies
<1>5. PICK F \in Int, N \in Int : F = first * Day /\ N = next * Day /\ F + Day <= N
  BY <1>2, <1>4, RoundedTo
<1> DEFINE R(w) == RoundDown(w, unit, weekStart)
<1>6. \A w \in Int : /\ F <= w /\ w < N => R(w) = F
                     /\ N <= w /\ w < N + Day => R(w) = N
                     /\ w < F /\ F <= w + Day => R(w) # F
  BY <1>4, <1>5, RoundedTo
<1> HIDE DEF R
<1>7. F <= now /\ now < N
  <2>1. PICK day \in Int : day = DayOf(now) /\ day * Day <= now /\ now < day * Day + Day /\ day * Day \in Int
    <3>1. DayOf(now) \in Int
      BY InDay, 0 \in Int
    <3> QED
      BY <3>1, InDay
  <2>2. first < day => F + Day <= day * Day
    BY <1>4, <1>5, <2>1, DaysApart
  <2>3. day * Day + Day <= N
    BY <1>4, <1>5, <2>1, DaysApart
  <2> QED
    BY <1>1, <1>4, <1>5, <2>1, <2>2, <2>3
<1>8. F % Day = 0 /\ N % Day = 0
  BY <1>4, <1>5, DaysBeginAtMidnight
<1>9. PICK s : s = ToInstant(z, F)
  OBVIOUS
<1>10. StartOf(z, t, unit, weekStart) = s
  BY <1>2, <1>6, <1>7, <1>9 DEF StartOf, R
<1>11. /\ s \in Int /\ WallClock(z, s) \in Int
       /\ F <= WallClock(z, s) /\ 2 * (WallClock(z, s) - F) < Day
  BY <1>9, ShownAtOrAfter
<1>12. \A x \in Int : x >= s <=> WallClock(z, x) >= F
  BY <1>8, <1>9, MidnightParts
<1>13. R(now) = F
  BY <1>6, <1>7
<1>14. IsFirst(z, s, t, unit, weekStart)
  <2>1. s <= t
    BY <1>2, <1>7, <1>11, <1>12
  <2>2. R(WallClock(z, s)) = F
    BY <1>1, <1>5, <1>6, <1>11
  <2>3. R(WallClock(z, s - 1)) # F
    <3>1. WallClock(z, s - 1) \in Int /\ WallClock(z, s) <= WallClock(z, s - 1) + Day
      BY <1>11, ClocksMoveLittle
    <3>2. WallClock(z, s - 1) < F
      BY <1>11, <1>12, <3>1
    <3> QED
      BY <1>1, <1>6, <1>11, <3>1, <3>2
  <2> QED
    BY <1>2, <1>13, <2>1, <2>2, <2>3 DEF IsFirst, SamePeriod, R
<1>15. PICK u : u = ToInstant(z, N)
  OBVIOUS
<1>16. /\ u \in Int /\ WallClock(z, u) \in Int
       /\ N <= WallClock(z, u) /\ 2 * (WallClock(z, u) - N) < Day
  BY <1>15, ShownAtOrAfter
<1>17. \A x \in Int : x >= u <=> WallClock(z, x) >= N
  BY <1>8, <1>15, MidnightParts
<1>18. EndOf(z, t, unit, weekStart) = u - 1
  <2>1. PICK g \in Int : g = WallClock(z, s) - F /\ 0 <= g /\ 2 * g < Day
    BY <1>11
  <2>2. DayOf(WallClock(z, s)) = first
    BY <1>1, <1>4, <1>5, <1>11, InDay
  <2>3. Moved(WallClock(z, s), 1, unit) = N + g
    BY <1>4, <1>5, <1>11, <2>1, <2>2 DEF Period
  <2>4. PICK v : v = ToInstant(z, N + g)
    OBVIOUS
  <2>5. Shift(z, s, 1, unit) = v
    BY <2>3, <2>4 DEF Shift
  <2>6. WallClock(z, v) \in Int /\ N + g <= WallClock(z, v) /\ 2 * (WallClock(z, v) - (N + g)) < Day
    BY <2>1, <2>4, ShownAtOrAfter
  <2>7. R(WallClock(z, v)) = N
    BY <1>1, <1>6, <2>1, <2>6
  <2> QED
    BY <1>10, <1>15, <2>5, <2>7 DEF EndOf, StartOf, R
<1>19. IsLast(z, u - 1, t, unit, weekStart)
  <2>1. PICK e \in Int : e = u - 1 /\ e + 1 = u
    BY <1>16
  <2>2. t <= e
    BY <1>2, <1>7, <1>16, <1>17, <2>1
  <2>3. WallClock(z, e) \in Int
    BY OffsetIsAnOffset
  <2>4. F <= WallClock(z, e) /\ WallClock(z, e) < N
    <3>1. s <= e
      BY <1>2, <1>7, <1>11, <1>12, <2>2
    <3> QED
      BY <1>12, <1>16, <1>17, <2>1, <2>3, <3>1
  <2>5. R(WallClock(z, e)) = F /\ R(WallClock(z, u)) = N
    BY <1>1, <1>6, <1>16, <2>3, <2>4
  <2>6. F # N
    BY <1>1, <1>5
  <2> QED
    BY <1>2, <1>13, <2>1, <2>2, <2>5, <2>6 DEF IsLast, SamePeriod, R
<1> QED
  BY <1>10, <1>14, <1>18, <1>19

--------------------------------------------------------------------------------
\* Two ways of reading the operators of an expression that agree on each.
ReadAlike(z1, z2, expr, w1, w2, roundUp) ==
  \A i \in 0..Len(expr.math) : ~(i = 0) =>
    \A t : Apply(z1, WeekStartDay[w1], roundUp, t, expr.math[i])
             = Apply(z2, WeekStartDay[w2], roundUp, t, expr.math[i])

\* Those that agree on its anchor too agree on the expression.
LEMMA SameSteps ==
  ASSUME NEW z1, NEW z2, NEW expr, NEW now, NEW w1, NEW w2, NEW roundUp,
         Anchor(z1, expr, now) = Anchor(z2, expr, now),
         ReadAlike(z1, z2, expr, w1, w2, roundUp)
  PROVE  ParseTime(z1, expr, now, w1, roundUp) = ParseTime(z2, expr, now, w2, roundUp)
<1> DEFINE n     == Len(expr.math)
           F1(f) == [i \in 0..n |-> IF i = 0 THEN Anchor(z1, expr, now)
                                   ELSE Apply(z1, WeekStartDay[w1], roundUp, f[i - 1], expr.math[i])]
           F2(f) == [i \in 0..n |-> IF i = 0 THEN Anchor(z2, expr, now)
                                   ELSE Apply(z2, WeekStartDay[w2], roundUp, f[i - 1], expr.math[i])]
<1>1. ASSUME NEW f PROVE F1(f) = F2(f)
  BY DEF ReadAlike
<1>2. (CHOOSE f : f = F1(f)) = (CHOOSE f : f = F2(f))
  <2> HIDE DEF F1, F2
  <2> QED
    BY <1>1, Zenon
<1>3. /\ ParseTime(z1, expr, now, w1, roundUp) = (CHOOSE f : f = F1(f))[n]
      /\ ParseTime(z2, expr, now, w2, roundUp) = (CHOOSE f : f = F2(f))[n]
  BY Zenon DEF ParseTime
<1> QED
  BY <1>2, <1>3, Zenon

\* An operator of an expression.
Steps == [op : {"/", "+", "-"}, amount : Nat, unit : STRING]

\* Operators of an expression, by their places.
LEMMA PlacesOfOperators ==
  ASSUME NEW expr, expr.math \in Seq(Steps), NEW i \in 0..Len(expr.math), ~(i = 0)
  PROVE  expr.math[i] \in Operators(expr) /\ expr.math[i] \in Steps
<1>1. Len(expr.math) \in Nat /\ DOMAIN expr.math = 1..Len(expr.math)
  OBVIOUS
<1>2. i \in DOMAIN expr.math
  BY <1>1
<1> QED
  BY <1>2 DEF Operators, ToSet

\* An expression that does not depend on the zone is the same in all, and on any
\* first day of the week (describeGrafanaTimeExpr).
LEMMA ZonesDoNotMatter ==
  ASSUME NEW expr, expr.math \in Seq(Steps), Parses(expr), ~ZoneSensitive(expr),
         NEW z1, NEW z2, NEW now, NEW w1, NEW w2, NEW roundUp
  PROVE  ParseTime(z1, expr, now, w1, roundUp) = ParseTime(z2, expr, now, w2, roundUp)
<1>1. Anchor(z1, expr, now) = Anchor(z2, expr, now)
  BY DEF Parses, ZoneSensitive, ZoneAnchored, Anchor
<1>2. ASSUME NEW i \in 0..Len(expr.math), ~(i = 0), NEW t
      PROVE  Apply(z1, WeekStartDay[w1], roundUp, t, expr.math[i])
               = Apply(z2, WeekStartDay[w2], roundUp, t, expr.math[i])
  <2>1. PICK o : o = expr.math[i]
    OBVIOUS
  <2>2. o \in Operators(expr) /\ o \in Steps
    BY <1>2, <2>1, PlacesOfOperators
  <2>3. o.op \in {"+", "-"} /\ o.unit \in {"m", "h"}
    BY <2>2 DEF Parses, ZoneSensitive, Rounds, Steps, Units
  <2>4. \A n : Shift(z1, t, n, o.unit) = Shift(z2, t, n, o.unit)
    BY <2>3 DEF Shift
  <2>5. Apply(z1, WeekStartDay[w1], roundUp, t, o) = Apply(z2, WeekStartDay[w2], roundUp, t, o)
    BY <2>3, <2>4 DEF Apply
  <2> QED
    BY <2>1, <2>5
<1>3. ReadAlike(z1, z2, expr, w1, w2, roundUp)
  BY <1>2 DEF ReadAlike
<1> QED
  BY <1>1, <1>3, SameSteps

\* An expression that does not round to a week is the same on any first day of one.
LEMMA WeeksDoNotMatter ==
  ASSUME NEW expr, expr.math \in Seq(Steps), Parses(expr), ~RoundsWeek(expr),
         NEW z, NEW now, NEW w1, NEW w2, NEW roundUp
  PROVE  ParseTime(z, expr, now, w1, roundUp) = ParseTime(z, expr, now, w2, roundUp)
<1>1. ASSUME NEW i \in 0..Len(expr.math), ~(i = 0), NEW t
      PROVE  Apply(z, WeekStartDay[w1], roundUp, t, expr.math[i])
               = Apply(z, WeekStartDay[w2], roundUp, t, expr.math[i])
  <2>1. PICK o : o = expr.math[i]
    OBVIOUS
  <2>2. o \in Operators(expr) /\ o \in Steps
    BY <1>1, <2>1, PlacesOfOperators
  <2>3. o.op \in {"+", "-", "/"} /\ o.unit \in {"m", "h", "d", "w", "M", "Q", "y"}
        /\ (o.op = "/" => o.unit # "w")
    BY <2>2 DEF Parses, RoundsWeek, Steps, Units
  <2>4. ASSUME o.op = "/"
        PROVE  \A s : StartOf(z, s, o.unit, WeekStartDay[w1]) = StartOf(z, s, o.unit, WeekStartDay[w2])
    <3>1. \A day : FirstOf(day, o.unit, WeekStartDay[w1]) = FirstOf(day, o.unit, WeekStartDay[w2])
                   \/ o.unit \in {"m", "h"}
      BY <2>3, <2>4 DEF FirstOf
    <3> QED
      BY <2>3, <2>4, <3>1 DEF StartOf, RoundDown
  <2>5. ASSUME o.op = "/"
        PROVE  EndOf(z, t, o.unit, WeekStartDay[w1]) = EndOf(z, t, o.unit, WeekStartDay[w2])
    BY <2>4, <2>5 DEF EndOf
  <2>6. Apply(z, WeekStartDay[w1], roundUp, t, o) = Apply(z, WeekStartDay[w2], roundUp, t, o)
    BY <2>3, <2>4, <2>5 DEF Apply
  <2> QED
    BY <2>1, <2>6
<1>2. ReadAlike(z, z, expr, w1, w2, roundUp)
  BY <1>1 DEF ReadAlike
<1> QED
  BY <1>2, SameSteps

--------------------------------------------------------------------------------
\* A call that was not refused for its bounds.
Sensible ==
  /\ req \in Requests /\ ~NotGiven(req.from) /\ ~NotGiven(req.to)
  /\ \A e \in Exprs : Parses(e)

\* A bound, read with the settings or any others that do not matter.
LEMMA SameBound ==
  ASSUME Sensible, NEW bound \in {req.from, req.to}, NEW roundUp, NEW n, NEW days,
         NeedsZone => n = zone, NeedsWeek => days = week
  PROVE  Bound(bound, n, days, roundUp) = Bound(bound, zone, week, roundUp)
<1>1. CASE bound.input # None
  BY <1>1 DEF Bound
<1>2. CASE bound.input = None
  <2>1. PICK e : e = Expr(bound)
    OBVIOUS
  <2>2. e # None /\ e \in Exprs /\ e \in {bound.url, bound.saved}
    BY <1>2, <2>1 DEF Sensible, NotGiven, Exprs, Expr
  <2>3. Parses(e) /\ e.math \in Seq(Steps)
    <3>1. e \in {req.from.url, req.from.saved, req.to.url, req.to.saved} \ {None}
      BY <2>2
    <3> QED
      BY <2>2, <3>1, RequestsAssumption DEF Sensible, Steps
  <2>4. /\ ~NeedsZone => ~ZoneSensitive(e)
        /\ ~NeedsWeek => ~RoundsWeek(e)
    BY <2>2 DEF NeedsZone, NeedsWeek
  <2>5. ParseTime(Zone[n], e, req.now, days, roundUp) = ParseTime(Zone[zone], e, req.now, week, roundUp)
    <3>1. CASE ~ZoneSensitive(e)
      BY <2>3, <3>1, ZonesDoNotMatter
    <3>2. CASE NeedsZone /\ ~RoundsWeek(e)
      BY <2>3, <3>2, WeeksDoNotMatter
    <3>3. CASE NeedsZone /\ NeedsWeek
      BY <3>3
    <3> QED
      BY <2>4, <3>1, <3>2, <3>3
  <2> QED
    BY <1>2, <2>1, <2>5 DEF Bound
<1> QED
  BY <1>1, <1>2

--------------------------------------------------------------------------------
\* A zone of a tier is taken if the runtime knows it, a week start if it is one.
LEMMA ZoneIsUsable ==
  ASSUME NEW found
  PROVE  UsableZone(found) = IF found \in Names THEN found ELSE None
BY NamesAssumption DEF UsableZone, Normalized

\* The first of four tiers.
LEMMA FirstOfFour ==
  ASSUME NEW value, NEW source, NEW usable,
         NEW a, NEW sa, NEW b, NEW sb, NEW c, NEW sc, NEW d, NEW sd,
         \/ a \in usable /\ value = a /\ source = sa
         \/ a \notin usable /\ b \in usable /\ value = b /\ source = sb
         \/ a \notin usable /\ b \notin usable /\ c \in usable /\ value = c /\ source = sc
         \/ /\ a \notin usable /\ b \notin usable /\ c \notin usable
            /\ d \in usable /\ value = d /\ source = sd
  PROVE  FirstOfTiers(<<[v |-> a, s |-> sa], [v |-> b, s |-> sb], [v |-> c, s |-> sc],
                        [v |-> d, s |-> sd]>>, value, source, usable)
<1> DEFINE tiers == <<[v |-> a, s |-> sa], [v |-> b, s |-> sb], [v |-> c, s |-> sc],
                      [v |-> d, s |-> sd]>>
<1>1. /\ DOMAIN tiers = 1..4
      /\ tiers[1] = [v |-> a, s |-> sa] /\ tiers[2] = [v |-> b, s |-> sb]
      /\ tiers[3] = [v |-> c, s |-> sc] /\ tiers[4] = [v |-> d, s |-> sd]
  OBVIOUS
<1>2. /\ tiers[1].v = a /\ tiers[2].v = b /\ tiers[3].v = c
  BY <1>1
<1> HIDE DEF tiers
<1>3. \A i \in 1..4 : \A j \in 1..(i - 1) :
        \/ j = 1
        \/ j = 2 /\ i \in {3, 4}
        \/ j = 3 /\ i = 4
  OBVIOUS
<1>4. CASE a \in usable /\ value = a /\ source = sa
  <2>1. 1 \in DOMAIN tiers /\ \A j \in 1..(1 - 1) : FALSE
    BY <1>1
  <2> QED
    BY <1>1, <1>4, <2>1 DEF FirstOfTiers
<1>5. CASE a \notin usable /\ b \in usable /\ value = b /\ source = sb
  <2>1. 2 \in DOMAIN tiers /\ \A j \in 1..(2 - 1) : j = 1
    BY <1>1
  <2> QED
    BY <1>1, <1>2, <1>5, <2>1 DEF FirstOfTiers
<1>6. CASE a \notin usable /\ b \notin usable /\ c \in usable /\ value = c /\ source = sc
  <2>1. 3 \in DOMAIN tiers /\ \A j \in 1..(3 - 1) : j = 1 \/ j = 2
    BY <1>1
  <2> QED
    BY <1>1, <1>2, <1>6, <2>1 DEF FirstOfTiers
<1>7. CASE /\ a \notin usable /\ b \notin usable /\ c \notin usable
           /\ d \in usable /\ value = d /\ source = sd
  <2>1. 4 \in DOMAIN tiers /\ \A j \in 1..(4 - 1) : j = 1 \/ j = 2 \/ j = 3
    BY <1>1
  <2> QED
    BY <1>1, <1>2, <1>7, <2>1 DEF FirstOfTiers
<1> QED
  BY <1>4, <1>5, <1>6, <1>7 DEF tiers

\* The first of three tiers.
LEMMA FirstOfThree ==
  ASSUME NEW value, NEW source, NEW usable, NEW a, NEW sa, NEW b, NEW sb, NEW c, NEW sc,
         \/ a \in usable /\ value = a /\ source = sa
         \/ a \notin usable /\ b \in usable /\ value = b /\ source = sb
         \/ a \notin usable /\ b \notin usable /\ c \in usable /\ value = c /\ source = sc
  PROVE  FirstOfTiers(<<[v |-> a, s |-> sa], [v |-> b, s |-> sb], [v |-> c, s |-> sc]>>,
                      value, source, usable)
<1> DEFINE tiers == <<[v |-> a, s |-> sa], [v |-> b, s |-> sb], [v |-> c, s |-> sc]>>
<1>1. /\ DOMAIN tiers = 1..3
      /\ tiers[1] = [v |-> a, s |-> sa] /\ tiers[2] = [v |-> b, s |-> sb]
      /\ tiers[3] = [v |-> c, s |-> sc]
  OBVIOUS
<1>2. tiers[1].v = a /\ tiers[2].v = b
  BY <1>1
<1> HIDE DEF tiers
<1>3. CASE a \in usable /\ value = a /\ source = sa
  <2>1. 1 \in DOMAIN tiers /\ \A j \in 1..(1 - 1) : FALSE
    BY <1>1
  <2> QED
    BY <1>1, <1>3, <2>1 DEF FirstOfTiers
<1>4. CASE a \notin usable /\ b \in usable /\ value = b /\ source = sb
  <2>1. 2 \in DOMAIN tiers /\ \A j \in 1..(2 - 1) : j = 1
    BY <1>1
  <2> QED
    BY <1>1, <1>2, <1>4, <2>1 DEF FirstOfTiers
<1>5. CASE a \notin usable /\ b \notin usable /\ c \in usable /\ value = c /\ source = sc
  <2>1. 3 \in DOMAIN tiers /\ \A j \in 1..(3 - 1) : j = 1 \/ j = 2
    BY <1>1
  <2> QED
    BY <1>1, <1>2, <1>5, <2>1 DEF FirstOfTiers
<1> QED
  BY <1>3, <1>4, <1>5 DEF tiers

\* A zone is ignored if it is of a tier that was reached and is not known.
LEMMA IgnoredOfFour ==
  ASSUME NEW usable, NEW unusable, NEW a, NEW sa, NEW b, NEW sb, NEW c, NEW sc, NEW d, NEW sd,
         unusable \notin usable, d \in usable
  PROVE  LET tiers == <<[v |-> a, s |-> sa], [v |-> b, s |-> sb], [v |-> c, s |-> sc],
                        [v |-> d, s |-> sd]>>
         IN  (\E i \in DOMAIN tiers : tiers[i].v = unusable /\ \A j \in 1..i : tiers[j].v \notin usable)
               <=> \/ a = unusable
                   \/ a \notin usable /\ b = unusable
                   \/ a \notin usable /\ b \notin usable /\ c = unusable
<1> DEFINE tiers == <<[v |-> a, s |-> sa], [v |-> b, s |-> sb], [v |-> c, s |-> sc],
                      [v |-> d, s |-> sd]>>
           Reached(i) == tiers[i].v = unusable /\ \A j \in 1..i : tiers[j].v \notin usable
<1>1. DOMAIN tiers = 1..4 /\ tiers[1].v = a /\ tiers[2].v = b /\ tiers[3].v = c /\ tiers[4].v = d
  OBVIOUS
<1> HIDE DEF tiers
<1>2. Reached(1) <=> a = unusable
  <2>1. \A j \in 1..1 : j = 1
    OBVIOUS
  <2> QED
    BY <1>1, <2>1
<1>3. Reached(2) <=> a \notin usable /\ b = unusable
  <2>1. \A j : j \in 1..2 <=> j = 1 \/ j = 2
    OBVIOUS
  <2> QED
    BY <1>1, <2>1
<1>4. Reached(3) <=> a \notin usable /\ b \notin usable /\ c = unusable
  <2>1. \A j : j \in 1..3 <=> j = 1 \/ j = 2 \/ j = 3
    OBVIOUS
  <2> QED
    BY <1>1, <2>1
<1>5. ~Reached(4)
  BY <1>1
<1>6. (\E i \in DOMAIN tiers : Reached(i)) <=> Reached(1) \/ Reached(2) \/ Reached(3) \/ Reached(4)
  <2>1. \A i : i \in DOMAIN tiers <=> i = 1 \/ i = 2 \/ i = 3 \/ i = 4
    BY <1>1
  <2> HIDE DEF Reached
  <2> QED
    BY <2>1
<1>7. (\E i \in DOMAIN tiers : Reached(i))
        <=> \/ a = unusable
            \/ a \notin usable /\ b = unusable
            \/ a \notin usable /\ b \notin usable /\ c = unusable
  BY <1>2, <1>3, <1>4, <1>5, <1>6
<1> QED
  BY <1>7 DEF tiers

--------------------------------------------------------------------------------
\* What the call's own tiers say, before preferences are read.
CallZone    == IF req.urlZone \in Names THEN req.urlZone
               ELSE IF req.savedZone \in Names THEN req.savedZone ELSE None
CallSource  == IF req.urlZone \in Names THEN "url" ELSE "dashboard"
CallWeek    == IF req.savedWeek \in WeekStarts THEN req.savedWeek ELSE None
CallIgnores == req.urlZone = Unusable \/ (req.urlZone \notin Names /\ req.savedZone = Unusable)

\* While the preferences are read the call's own tiers stand.
AsCalled ==
  /\ Sensible /\ prefs = None
  /\ zone = CallZone /\ zoneSource = CallSource
  /\ week = CallWeek /\ weekSource = "dashboard"
  /\ Unusable \in ignored <=> CallIgnores

\* The settings are the tiers' and usable.
Settled == Sensible /\ Tiered /\ zone \in Names /\ week \in WeekStarts

\* The invariant of a window's resolution: what is settled at each stage.
WindowInv ==
  /\ req \in Requests
  /\ stage \in {"called", "reading", "ready", "done", "refused"}
  /\ stage \in {"called", "reading", "ready"} => window = None
  /\ stage = "called" => prefs = None
  /\ stage = "reading" => AsCalled
  /\ stage = "ready" => Settled
  /\ Resolved => /\ Settled
                 /\ window = [from |-> Bound(req.from, zone, week, FALSE),
                              to |-> Bound(req.to, zone, week, TRUE)]

\* What does not change while the request is the same.
LEMMA SameRequest ==
  ASSUME req' = req
  PROVE  /\ Exprs' = Exprs /\ (NeedsZone' <=> NeedsZone) /\ (NeedsWeek' <=> NeedsWeek)
         /\ (Sensible' <=> Sensible) /\ CallZone' = CallZone /\ CallSource' = CallSource
         /\ CallWeek' = CallWeek /\ (CallIgnores' <=> CallIgnores)
BY DEF Exprs, NeedsZone, NeedsWeek, Sensible, CallZone, CallSource, CallWeek, CallIgnores, Names

\* The call's own tiers settle the settings, or leave some to the preferences.
LEMMA TiersSettle ==
  ASSUME WindowInv, Tiers
  PROVE  WindowInv'
<1>1. PICK u, s, w : u = req.urlZone /\ s = req.savedZone /\ w = req.savedWeek
  OBVIOUS
<1>2. /\ req' = req /\ prefs' = None /\ window' = None /\ req \in Requests
  BY DEF WindowInv, Tiers
<1>3. Sensible
  BY <1>2 DEF Tiers, Sensible
<1>4. /\ UsableZone(u) = IF u \in Names THEN u ELSE None
      /\ UsableZone(s) = IF s \in Names THEN s ELSE None
      /\ UsableWeek(w) = CallWeek
  BY <1>1, ZoneIsUsable DEF UsableWeek, CallWeek
<1>5. /\ None \notin Names /\ Unusable \notin Names /\ DefaultZone \in Names
      /\ None \notin WeekStarts /\ DefaultWeek \in WeekStarts
      /\ Unset \notin Names /\ Unset \notin WeekStarts /\ Unusable # Unset
  BY NamesAssumption
<1>6. CallZone = IF UsableZone(u) # None THEN UsableZone(u) ELSE UsableZone(s)
  BY <1>1, <1>4, <1>5 DEF CallZone
<1>7. CallSource = IF UsableZone(u) # None THEN "url" ELSE "dashboard"
  BY <1>1, <1>4, <1>5 DEF CallSource
<1>8. ignored' = Unknown(u) \cup (IF UsableZone(u) = None THEN Unknown(s) ELSE {})
  BY <1>1 DEF Tiers
<1>9. Unusable \in ignored' <=> CallIgnores
  BY <1>1, <1>4, <1>5, <1>8 DEF Unknown, CallIgnores
<1>10. IF WantsPreferences(CallZone, CallWeek)
       THEN /\ stage' = "reading"
            /\ zone' = CallZone /\ zoneSource' = CallSource
            /\ week' = CallWeek /\ weekSource' = "dashboard"
       ELSE /\ stage' = "ready"
            /\ Decided(CallZone, CallSource, CallWeek, "dashboard")
  BY <1>1, <1>4, <1>6, <1>7 DEF Tiers
<1>11. CASE WantsPreferences(CallZone, CallWeek)
  <2>1. stage' = "reading" /\ AsCalled'
    BY <1>2, <1>3, <1>9, <1>10, <1>11, SameRequest DEF AsCalled
  <2> QED
    BY <1>2, <2>1 DEF WindowInv, Resolved
<1>12. CASE ~WantsPreferences(CallZone, CallWeek)
  <2>1. /\ zone' = IF CallZone = None THEN DefaultZone ELSE CallZone
        /\ zoneSource' = IF CallZone = None THEN "default" ELSE CallSource
        /\ week' = IF CallWeek = None THEN DefaultWeek ELSE CallWeek
        /\ weekSource' = IF CallWeek = None THEN "default" ELSE "dashboard"
    BY <1>10, <1>12 DEF Decided
  <2>2. FirstOfTiers(<<[v |-> u, s |-> "url"], [v |-> s, s |-> "dashboard"],
                       [v |-> Unset, s |-> "preferences"], [v |-> DefaultZone, s |-> "default"]>>,
                     zone', zoneSource', Names)
    <3>1. \/ u \in Names /\ zone' = u /\ zoneSource' = "url"
          \/ u \notin Names /\ s \in Names /\ zone' = s /\ zoneSource' = "dashboard"
          \/ /\ u \notin Names /\ s \notin Names /\ Unset \notin Names
             /\ DefaultZone \in Names /\ zone' = DefaultZone /\ zoneSource' = "default"
      BY <1>1, <1>5, <2>1 DEF CallZone, CallSource
    <3> QED
      BY <3>1, FirstOfFour
  <2>3. FirstOfTiers(<<[v |-> w, s |-> "dashboard"], [v |-> Unset, s |-> "preferences"],
                       [v |-> DefaultWeek, s |-> "default"]>>, week', weekSource', WeekStarts)
    <3>1. \/ w \in WeekStarts /\ week' = w /\ weekSource' = "dashboard"
          \/ /\ w \notin WeekStarts /\ Unset \notin WeekStarts
             /\ DefaultWeek \in WeekStarts /\ week' = DefaultWeek /\ weekSource' = "default"
      BY <1>1, <1>5, <2>1 DEF CallWeek
    <3> QED
      BY <3>1, FirstOfThree
  <2>4. (NeedsZone => zoneSource' # "default") /\ (NeedsWeek => weekSource' # "default")
    BY <1>12, <2>1 DEF WantsPreferences, Wants, CallSource
  <2> DEFINE zones == <<[v |-> u, s |-> "url"], [v |-> s, s |-> "dashboard"],
                          [v |-> Unset, s |-> "preferences"], [v |-> DefaultZone, s |-> "default"]>>
  <2>6. Unusable \in ignored' <=> \E i \in DOMAIN zones :
           zones[i].v = Unusable /\ \A j \in 1..i : zones[j].v \notin Names
    BY <1>1, <1>5, <1>9, IgnoredOfFour DEF CallIgnores
  <2>7. Tiered'
    <3>1. /\ req.urlZone = u /\ req.savedZone = s /\ req.savedWeek = w
          /\ (IF prefs' = None THEN Unset ELSE prefs'.zone) = Unset
          /\ (IF prefs' = None THEN Unset ELSE prefs'.week) = Unset
          /\ Names' = Names
      BY <1>1, <1>2 DEF Names
    <3> HIDE DEF zones
    <3> QED
      BY <1>2, <2>2, <2>3, <2>4, <2>6, <3>1, SameRequest DEF Tiered, zones
  <2>8. zone' \in Names /\ week' \in WeekStarts /\ Names' = Names
    BY <1>5, <2>1 DEF CallZone, CallWeek, Names
  <2>9. stage' = "ready" /\ Settled'
    BY <1>2, <1>3, <1>10, <1>12, <2>7, <2>8, SameRequest DEF Settled
  <2> QED
    BY <1>2, <2>9 DEF WindowInv, Resolved
<1> QED
  BY <1>11, <1>12

\* The preferences settle what the call's tiers left, the defaults the rest.
LEMMA PreferencesSettle ==
  ASSUME WindowInv, NEW user \in Preferences \cup {None}, NEW org \in Preferences \cup {None},
         PreferencesArrive(user, org)
  PROVE  WindowInv'
<1>1. PICK u, s, w, p : /\ u = req.urlZone /\ s = req.savedZone /\ w = req.savedWeek
                        /\ p = Merged(user, org)
  OBVIOUS
<1>2. /\ req' = req /\ prefs' = p /\ p # None /\ window' = None /\ stage' = "ready"
      /\ AsCalled /\ req \in Requests /\ Names' = Names
  BY <1>1, PreferencesAssumption DEF WindowInv, PreferencesArrive, Names
<1>3. /\ UsableZone(p.zone) = IF p.zone \in Names THEN p.zone ELSE None
      /\ UsableWeek(p.week) = IF p.week \in WeekStarts THEN p.week ELSE None
  BY ZoneIsUsable DEF UsableWeek
<1>4. /\ None \notin Names /\ Unusable \notin Names /\ DefaultZone \in Names
      /\ None \notin WeekStarts /\ DefaultWeek \in WeekStarts
  BY NamesAssumption
<1>5. /\ zone = CallZone /\ zoneSource = CallSource
      /\ week = CallWeek /\ weekSource = "dashboard"
      /\ Unusable \in ignored <=> CallIgnores
  BY <1>2 DEF AsCalled
<1>6. Decided(IF zone # None THEN zone ELSE UsableZone(p.zone),
              IF zone # None THEN zoneSource ELSE "preferences",
              IF week # None THEN week ELSE UsableWeek(p.week),
              IF week # None THEN weekSource ELSE "preferences")
  BY <1>2 DEF PreferencesArrive
<1>7. \/ u \in Names /\ zone = u /\ zone' = u /\ zoneSource' = "url"
      \/ u \notin Names /\ s \in Names /\ zone = s /\ zone' = s /\ zoneSource' = "dashboard"
      \/ /\ u \notin Names /\ s \notin Names /\ p.zone \in Names /\ zone = None
         /\ zone' = p.zone /\ zoneSource' = "preferences"
      \/ /\ u \notin Names /\ s \notin Names /\ p.zone \notin Names /\ zone = None
         /\ DefaultZone \in Names /\ zone' = DefaultZone /\ zoneSource' = "default"
  BY <1>1, <1>3, <1>4, <1>5, <1>6 DEF Decided, CallZone, CallSource
<1>8. \/ w \in WeekStarts /\ week' = w /\ weekSource' = "dashboard"
      \/ w \notin WeekStarts /\ p.week \in WeekStarts /\ week' = p.week /\ weekSource' = "preferences"
      \/ /\ w \notin WeekStarts /\ p.week \notin WeekStarts
         /\ DefaultWeek \in WeekStarts /\ week' = DefaultWeek /\ weekSource' = "default"
  BY <1>1, <1>3, <1>4, <1>5, <1>6 DEF Decided, CallWeek
<1>9. Unusable \in ignored' <=> \/ u = Unusable
                                \/ u \notin Names /\ s = Unusable
                                \/ u \notin Names /\ s \notin Names /\ p.zone = Unusable
  <2>1. ignored' = ignored \cup (IF zone = None THEN Unknown(p.zone) ELSE {})
    BY <1>2 DEF PreferencesArrive
  <2> QED
    BY <1>1, <1>4, <1>5, <1>7, <2>1 DEF Unknown, CallIgnores
<1> DEFINE zones == <<[v |-> u, s |-> "url"], [v |-> s, s |-> "dashboard"],
                      [v |-> p.zone, s |-> "preferences"], [v |-> DefaultZone, s |-> "default"]>>
<1>10. Unusable \in ignored' <=> \E i \in DOMAIN zones :
          zones[i].v = Unusable /\ \A j \in 1..i : zones[j].v \notin Names
  BY <1>4, <1>9, IgnoredOfFour
<1>11. FirstOfTiers(zones, zone', zoneSource', Names)
  BY <1>7, FirstOfFour
<1>12. FirstOfTiers(<<[v |-> w, s |-> "dashboard"], [v |-> p.week, s |-> "preferences"],
                      [v |-> DefaultWeek, s |-> "default"]>>, week', weekSource', WeekStarts)
  BY <1>8, FirstOfThree
<1>13. Tiered'
  <2>1. /\ req.urlZone = u /\ req.savedZone = s /\ req.savedWeek = w /\ prefs' # None
        /\ (IF prefs' = None THEN Unset ELSE prefs'.zone) = p.zone
        /\ (IF prefs' = None THEN Unset ELSE prefs'.week) = p.week
    BY <1>1, <1>2
  <2> HIDE DEF zones
  <2> QED
    BY <1>2, <1>10, <1>11, <1>12, <2>1 DEF Tiered, zones
<1>14. zone' \in Names /\ week' \in WeekStarts
  BY <1>4, <1>7, <1>8
<1>15. Settled'
  BY <1>2, <1>13, <1>14, SameRequest DEF Settled, AsCalled
<1> QED
  BY <1>2, <1>15 DEF WindowInv, Resolved

\* The window's resolution keeps its invariant.
LEMMA WindowStays ==
  ASSUME WindowInv, [WindowNext]_windowVars
  PROVE  WindowInv'
<1>1. CASE Refuse
  BY <1>1 DEF WindowInv, Refuse, Resolved
<1>2. CASE Tiers
  BY <1>2, TiersSettle
<1>3. CASE \E user, org \in Preferences \cup {None} : PreferencesArrive(user, org)
  BY <1>3, PreferencesSettle
<1>4. CASE Resolve
  <2>1. /\ req' = req /\ zone' = zone /\ zoneSource' = zoneSource /\ ignored' = ignored
        /\ week' = week /\ weekSource' = weekSource /\ prefs' = prefs
        /\ stage' \in {"done", "refused"} /\ Settled
        /\ window' = [from |-> Bound(req.from, zone, week, FALSE), to |-> Bound(req.to, zone, week, TRUE)]
    BY <1>4 DEF Resolve, WindowInv
  <2>2. Settled'
    BY <2>1, SameRequest DEF Settled, Tiered, Names
  <2>3. /\ Bound(req.from, zone, week, FALSE)' = Bound(req.from, zone, week, FALSE)
        /\ Bound(req.to, zone, week, TRUE)' = Bound(req.to, zone, week, TRUE)
    BY <2>1 DEF Bound
  <2>4. window' = [from |-> Bound(req.from, zone, week, FALSE)', to |-> Bound(req.to, zone, week, TRUE)']
    BY <2>1, <2>3
  <2> QED
    BY <2>1, <2>2, <2>4 DEF WindowInv, Settled, Sensible
<1>5. CASE UNCHANGED windowVars
  <2>1. /\ req' = req /\ zone' = zone /\ zoneSource' = zoneSource /\ ignored' = ignored
        /\ week' = week /\ weekSource' = weekSource /\ prefs' = prefs
        /\ stage' = stage /\ window' = window /\ Names' = Names
    BY <1>5 DEF windowVars, Names
  <2>2. (Settled' <=> Settled) /\ (AsCalled' <=> AsCalled) /\ (Resolved' <=> Resolved)
    BY <2>1, SameRequest DEF Settled, Tiered, AsCalled, Resolved
  <2>3. /\ Bound(req.from, zone, week, FALSE)' = Bound(req.from, zone, week, FALSE)
        /\ Bound(req.to, zone, week, TRUE)' = Bound(req.to, zone, week, TRUE)
    BY <2>1 DEF Bound
  <2> QED
    BY <2>1, <2>2, <2>3 DEF WindowInv
<1> QED
  BY <1>1, <1>2, <1>3, <1>4, <1>5 DEF WindowNext

\* The invariant holds throughout: settings are settled before the window is
\* computed from them, and stay (resolveRenderWindow).
THEOREM WindowIsSettledInTurn == WindowSpec => []WindowInv
<1>1. WindowInit => WindowInv
  BY DEF WindowInit, WindowInv, Resolved
<1> QED
  BY <1>1, WindowStays, PTL DEF WindowSpec

\* The window is what the settings reported say, and nothing else: a setting that
\* is not reported would have changed nothing, one that is comes from the tier
\* named, and preferences are read before a default is settled for
\* (resolveRenderWindow, describeGrafanaTimeExpr, fetchConnectionPreferences).
THEOREM SettingsAreAsReported == WindowSpec => []SettingsAsReported
<1>1. WindowInv => SettingsAsReported
  <2> SUFFICES ASSUME WindowInv, Resolved PROVE Tiered /\ UnreportedIsIrrelevant
    BY DEF SettingsAsReported, FirstTier, UnreportedIsIrrelevant
  <2>1. Settled /\ window = [from |-> Bound(req.from, zone, week, FALSE),
                             to |-> Bound(req.to, zone, week, TRUE)]
    BY DEF WindowInv
  <2>2. ASSUME NEW n \in IF NeedsZone THEN {zone} ELSE Names,
               NEW days \in IF NeedsWeek THEN {week} ELSE WeekStarts
        PROVE  /\ Bound(req.from, n, days, FALSE) = Bound(req.from, zone, week, FALSE)
               /\ Bound(req.to, n, days, TRUE) = Bound(req.to, zone, week, TRUE)
    <3>1. (NeedsZone => n = zone) /\ (NeedsWeek => days = week)
      BY <2>2
    <3> QED
      BY <2>1, <3>1, SameBound DEF Settled
  <2> QED
    BY <2>1, <2>2 DEF Settled, UnreportedIsIrrelevant
<1> QED
  BY <1>1, WindowIsSettledInTurn, PTL

\* Rounding names the period in the zone the call settled on, whatever its
\* transitions, if they keep midnights (KeepsMidnights): the start of a period is
\* the first of its instants and its end the last (StartOf, EndOf, ToInstant).
THEOREM PeriodsAreWhole ==
  (\A n \in Names : KeepsMidnights(Zone[n])) => (WindowSpec => []RoundingNamesThePeriod)
<1> SUFFICES ASSUME \A n \in Names : KeepsMidnights(Zone[n]) PROVE WindowSpec => []RoundingNamesThePeriod
  OBVIOUS
<1>1. WindowInv => RoundingNamesThePeriod
  <2> SUFFICES ASSUME WindowInv, Resolved, NEW u \in {"d", "w", "M", "Q", "y"}
               PROVE  LET days == WeekStartDay[week]
                      IN  /\ IsFirst(Zone[zone], StartOf(Zone[zone], req.now, u, days), req.now, u, days)
                          /\ IsLast(Zone[zone], EndOf(Zone[zone], req.now, u, days), req.now, u, days)
    BY DEF RoundingNamesThePeriod
  <2>1. zone \in Names /\ week \in WeekStarts /\ req \in Requests
    BY DEF WindowInv, Settled
  <2>2. WeekStartDay[week] \in Int
    <3>1. week \in {"saturday", "sunday", "monday"}
      BY <2>1, NamesAssumption DEF WeekStartDay
    <3> QED
      BY <3>1 DEF WeekStartDay
  <2>3. req.now \in Int /\ InCalendar(DayOf(WallClock(Zone[zone], req.now))) /\ KeepsMidnights(Zone[zone])
    BY <2>1, RequestsAssumption
  <2> QED
    BY <2>2, <2>3, PeriodsAreNamed
<1> QED
  BY <1>1, WindowIsSettledInTurn, PTL
================================================================================
