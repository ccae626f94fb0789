--------------------------- MODULE SharedFilesProofs ---------------------------
(***************************************************************************)
(* The files that processes share with no process in charge: the stamp and *)
(* the lock of the update check, the audit log with its generations, and   *)
(* the alerts.  The processes, the sizes and the times are any.            *)
(***************************************************************************)
EXTENDS UpdateClaim, AuditRotation, WebhookStore,
        FiniteSetTheorems, SequenceTheorems, TLAPS

\* The initial stamp is either absent or as old as the code can tell.
LEMMA InitInv == Init => IInv
  <1> SUFFICES ASSUME Init PROVE IInv
    OBVIOUS
  <1>1. TypeOK
    BY TimesArePositive DEF Init, TypeOK, Absent, Never, Calls
  <1> QED
    BY <1>1 DEF Init, IInv, Sound, Never

\* A call begins: what it is barred by bounds the age of the stamp.
LEMMA BeginInv ==
  ASSUME IInv, NEW p \in Proc, Begin(p)
  PROVE  IInv'
  <1> USE TimesArePositive DEF TypeOK, Absent, Never
  <1>1. TypeOK /\ \A q \in Proc : Sound(q)
    BY DEF IInv
  <1>2. TypeOK'
    <2>1. ClaimedRecently \in BOOLEAN
      BY DEF ClaimedRecently
    <2> QED
      BY <1>1, <2>1 DEF Begin, Calls
  <1>3. ASSUME NEW q \in Proc PROVE Sound(q)'
    <2>1. CASE q # p
      BY <1>1, <2>1 DEF Begin, Sound, Younger
    <2>2. CASE q = p
      <3>1. barred'[p] = ClaimedRecently /\ pc'[p] = "statStamp" /\ lag'[p] = 0
            /\ stamp' = stamp /\ claimed' = claimed
        BY <1>1 DEF Begin
      <3>2. ClaimedRecently => stamp # Absent /\ stamp < IntervalMs
        BY <1>1 DEF ClaimedRecently, Sound
      <3> QED
        BY <1>1, <2>2, <3>1, <3>2 DEF Sound, Younger
    <2> QED
      BY <2>1, <2>2
  <1> QED
    BY <1>2, <1>3 DEF IInv

\* The steps that only move a call along or touch the lock.
LEMMA LockStepsInv ==
  ASSUME IInv, NEW p \in Proc,
         StatStamp(p) \/ OpenLock(p) \/ StatLock(p) \/ UnlinkStale(p)
           \/ ReopenLock(p) \/ WriteStampFails(p) \/ Crash(p)
  PROVE  IInv'
  <1> USE TimesArePositive DEF TypeOK, Absent, Never
  <1>1. TypeOK /\ \A q \in Proc : Sound(q)
    BY DEF IInv
  <1>2. /\ UNCHANGED <<stamp, lag, claimed, barred>>
        /\ lock' \in {Absent, 0, lock}
        /\ faults' \in 0 .. MaxFaults
    BY <1>1 DEF StatStamp, OpenLock, StatLock, UnlinkStale, ReopenLock,
                WriteStampFails, Crash, Decline, CreateLock
  <1>3. \E c \in (Calls \cup {"idle"}) \ {"statStamp", "unlockTrue"} :
           /\ pc' = [pc EXCEPT ![p] = c]
           /\ barred[p] => c = "idle"
    BY <1>1 DEF StatStamp, OpenLock, StatLock, UnlinkStale, ReopenLock, WriteStampFails,
                Crash, Decline, CreateLock, Goto, Calls, Sound
  <1>4. TypeOK'
    BY <1>1, <1>2, <1>3
  <1>5. ASSUME NEW q \in Proc PROVE Sound(q)'
    BY <1>1, <1>2, <1>3 DEF Sound, Younger
  <1> QED
    BY <1>4, <1>5 DEF IInv

\* Writing the stamp resets the age everyone will read.
LEMMA WriteStampInv ==
  ASSUME IInv, NEW p \in Proc, WriteStamp(p)
  PROVE  IInv'
  <1> USE TimesArePositive DEF TypeOK, Absent, Never, WriteStamp, Goto
  <1>1. TypeOK /\ \A q \in Proc : Sound(q)
    BY DEF IInv
  <1>2. TypeOK'
    BY <1>1 DEF Calls
  <1>3. ASSUME NEW q \in Proc PROVE Sound(q)'
    BY <1>1 DEF Sound, Younger
  <1> QED
    BY <1>2, <1>3 DEF IInv

\* The claim is answered: its stamp is no older than its call.
LEMMA UnlockInv ==
  ASSUME IInv, NEW p \in Proc, Unlock(p)
  PROVE  IInv'
  <1> USE TimesArePositive DEF TypeOK, Absent, Never, Unlock, Goto
  <1>1. TypeOK /\ \A q \in Proc : Sound(q)
    BY DEF IInv
  <1>2. TypeOK'
    BY <1>1 DEF Calls
  <1>3. ASSUME NEW q \in Proc PROVE Sound(q)'
    BY <1>1 DEF Sound, Younger
  <1> QED
    BY <1>2, <1>3 DEF IInv

\* Time moves every age together, so no comparison of ages is disturbed.
LEMMA TickInv ==
  ASSUME IInv, Tick
  PROVE  IInv'
  <1> USE TimesArePositive DEF TypeOK, Absent, Never
  <1>1. TypeOK /\ \A q \in Proc : Sound(q)
    BY DEF IInv
  <1>2. \A age \in {-1} \cup 0 .. IntervalMs + MaxLag :
           Older(age, IntervalMs) \in {-1} \cup 0 .. IntervalMs + MaxLag
    BY DEF Older
  <1>3. \A age \in {-1} \cup 0 .. LockStaleMs + MaxLag :
           Older(age, LockStaleMs) \in {-1} \cup 0 .. LockStaleMs + MaxLag
    BY DEF Older
  <1>4. \A p \in Proc : lag'[p] \in 0 .. MaxLag /\ claimed'[p] \in {-1} \cup 0 .. IntervalMs - 1
    BY <1>1 DEF Tick
  <1>5. TypeOK'
    BY <1>1, <1>2, <1>3, <1>4 DEF Tick
  <1>6. ASSUME NEW q \in Proc PROVE Sound(q)'
    BY <1>1 DEF Tick, Sound, Younger, Older
  <1> QED
    BY <1>5, <1>6 DEF IInv

\* Every action of a process keeps the invariant.
LEMMA StepInv == IInv /\ [Next]_vars => IInv'
  <1> SUFFICES ASSUME IInv, [Next]_vars PROVE IInv'
    OBVIOUS
  <1>1. ASSUME NEW p \in Proc, Begin(p) PROVE IInv'
    BY <1>1, BeginInv
  <1>2. ASSUME NEW p \in Proc, Step(p) \/ WriteStampFails(p) \/ Crash(p) PROVE IInv'
    BY <1>2, LockStepsInv, WriteStampInv, UnlockInv DEF Step
  <1>3. CASE Tick
    BY <1>3, TickInv
  <1>4. CASE UNCHANGED vars
    BY <1>4 DEF vars, IInv, TypeOK, Sound, Younger
  <1> QED
    BY <1>1, <1>2, <1>3, <1>4 DEF Next

\* Processes launched within the interval of a claim never claim as well:
\* only calls that overlap can both be told to check.
THEOREM OneCheckPerInterval == Spec => []StaggeredStartsStandDown
  <1>1. IInv => StaggeredStartsStandDown
    BY DEF IInv, Sound, StaggeredStartsStandDown
  <1> QED
    BY <1>1, InitInv, StepInv, PTL DEF Spec

--------------------------------------------------------------------------------
\* A call that has not lasted longer than LOCK_STALE_MS and that nobody interrupts
\* keeps its lock: no step of anybody disturbs LockInv (updateCheckClaim.js:66-97).
LEMMA LockStep ==
  ASSUME MaxLag < LockStaleMs, IInv, LockInv, [Next]_vars
  PROVE  LockInv'
  <1> USE TimesArePositive DEF Absent, Holding, Calls
  <1>0. TypeOK
    BY DEF IInv
  <1>1. CASE faults # 0
    <2>1. faults' # 0
      BY <1>0, <1>1 DEF TypeOK, Next, Step, Begin, StatStamp, OpenLock, StatLock, UnlinkStale,
         ReopenLock, WriteStamp, Unlock, WriteStampFails, Crash, Tick, vars
    <2> QED
      BY <2>1 DEF LockInv
  <1>2. CASE faults = 0
    <2>0. /\ \A p, q \in Proc : pc[p] \in Holding /\ pc[q] \in Holding => p = q
          /\ \A p \in Proc : pc[p] \in Holding => lock # Absent /\ lock <= lag[p]
          /\ lock # Absent => \E p \in Proc : pc[p] \in Holding
          /\ \A p \in Proc : pc[p] \notin {"unlinkStale", "reopenLock"}
      BY <1>2 DEF LockInv
    <2>1. ASSUME NEW p \in Proc, Begin(p) PROVE LockInv'
      BY <1>0, <2>0, <2>1 DEF Begin, LockInv, TypeOK
    <2>2. ASSUME NEW p \in Proc, StatStamp(p) PROVE LockInv'
      BY <1>0, <2>0, <2>2 DEF StatStamp, Decline, Goto, LockInv, TypeOK
    <2>3. ASSUME NEW p \in Proc, OpenLock(p) PROVE LockInv'
      BY <1>0, <2>0, <2>3 DEF OpenLock, CreateLock, Goto, LockInv, TypeOK
    <2>4. ASSUME NEW p \in Proc, StatLock(p) PROVE LockInv'
      <3>1. lock # Absent => Younger(lock, p, LockStaleMs)
        BY <1>0, <2>0 DEF Younger, TypeOK
      <3>2. Decline(p)
        BY <2>4, <3>1 DEF StatLock
      <3> QED
        BY <1>0, <2>0, <2>4, <3>2 DEF StatLock, Decline, Goto, LockInv, TypeOK
    <2>5. ASSUME NEW p \in Proc, UnlinkStale(p) \/ ReopenLock(p) PROVE LockInv'
      BY <2>0, <2>5 DEF UnlinkStale, ReopenLock
    <2>6. ASSUME NEW p \in Proc, WriteStamp(p) PROVE LockInv'
      BY <1>0, <2>0, <2>6 DEF WriteStamp, Goto, LockInv, TypeOK
    <2>7. ASSUME NEW p \in Proc, Unlock(p) PROVE LockInv'
      BY <1>0, <2>0, <2>7 DEF Unlock, Goto, LockInv, TypeOK
    <2>8. ASSUME NEW p \in Proc, WriteStampFails(p) \/ Crash(p) PROVE LockInv'
      BY <1>2, <2>8 DEF WriteStampFails, Crash, LockInv
    <2>9. CASE Tick
      <3>1. /\ lock # Absent => lock' # Absent /\ lock' <= lock + 1
            /\ lock = Absent => lock' = Absent
        BY <1>0, <2>9 DEF Tick, Older, TypeOK
      <3>2. \A p \in Proc : pc[p] \in Holding => lag'[p] = lag[p] + 1
        BY <1>0, <2>9 DEF Tick, TypeOK
      <3>3. pc' = pc
        BY <2>9 DEF Tick
      <3>4. ASSUME NEW p \in Proc, pc'[p] \in Holding PROVE lock' # Absent /\ lock' <= lag'[p]
        <4>1. lock # Absent /\ lock <= lag[p] /\ lag'[p] = lag[p] + 1
          BY <2>0, <3>2, <3>3, <3>4
        <4>2. lock \in Int /\ lag[p] \in Int /\ lock' \in Int
          BY <1>0, <2>9 DEF TypeOK, Tick, Older
        <4> QED
          BY <3>1, <4>1, <4>2
      <3> QED
        BY <2>0, <3>1, <3>3, <3>4 DEF LockInv
    <2>10. CASE UNCHANGED vars
      BY <2>0, <2>10 DEF vars, LockInv
    <2> QED
      BY <2>1, <2>2, <2>3, <2>4, <2>5, <2>6, <2>7, <2>8, <2>9, <2>10 DEF Next, Step
  <1> QED
    BY <1>1, <1>2

\* The lock excludes while no call dies or fails to stamp, for any number of
\* processes, as long as a call ends before its lock may be taken for stale:
\* "generous by orders of magnitude on purpose" (updateCheckClaim.js:39-42).
THEOREM LockIsExclusive ==
  ASSUME MaxLag < LockStaleMs
  PROVE  Spec => []LockExcludes
  <1>1. Init => LockInv
    BY DEF Init, LockInv, Holding, Absent
  <1>2. LockInv => LockExcludes
    <2> SUFFICES ASSUME LockInv, faults = 0
                 PROVE  Cardinality({p \in Proc : pc[p] \in Holding}) <= 1
      BY DEF LockExcludes
    <2>1. \A p, q \in Proc : pc[p] \in Holding /\ pc[q] \in Holding => p = q
      BY DEF LockInv
    <2>2. CASE {p \in Proc : pc[p] \in Holding} = {}
      BY <2>2, FS_EmptySet
    <2>3. CASE {p \in Proc : pc[p] \in Holding} # {}
      <3>1. PICK h \in Proc : pc[h] \in Holding
        BY <2>3
      <3>2. {p \in Proc : pc[p] \in Holding} = {h}
        BY <2>1, <3>1
      <3>3. Cardinality({h}) = 1
        BY FS_Singleton
      <3> QED
        BY <3>2, <3>3
    <2> QED
      BY <2>2, <2>3
  <1>3. IInv /\ LockInv /\ [Next]_vars => LockInv'
    BY LockStep
  <1> QED
    BY <1>1, <1>2, <1>3, InitInv, StepInv, PTL DEF Spec

--------------------------------------------------------------------------------
\* The live log is the newest file there is: what were newer would be kept, in
\* a later slot, where files are older.
LEMMA LiveIsNewest ==
  ASSUME LogInv, name[0] # None, NEW n \in 1 .. opened
  PROVE  file[n] <= name[0]
  <1> USE KeepPositive, SizesAreNat DEF LogInv, LogTypeOK, Slots, None
  <1>1. name[0] \in 1 .. opened /\ 0 \in Slots
    BY DEF LineNumber
  <1> SUFFICES ASSUME file[n] > name[0] PROVE FALSE
    BY <1>1 DEF LineNumber
  <1>2. file[name[0]] = name[0]
    BY <1>1
  <1>3. name[0] \in 1 .. opened /\ file[name[0]] <= file[n] /\ Kept(file[name[0]])
    BY <1>1, <1>2 DEF Kept
  <1>4. PICK g \in Slots : name[g] = file[n]
    BY <1>3 DEF Kept
  <1>5. name[g] # None /\ g # 0
    BY <1>4
  <1>6. name[g] < name[0]
    BY <1>1, <1>5
  <1> QED
    BY <1>1, <1>4, <1>6

\* A log that is opened is the live one, or a new one that is newer than all.
LEMMA OpenKeepsOrder ==
  ASSUME LogInv, OpenLog
  PROVE  LogInv'
  <1> USE KeepPositive, SizesAreNat DEF LogInv, LogTypeOK, None
  <1>1. opened' = opened + 1 /\ opened' \in LineNumber /\ 0 \in Slots
    BY DEF OpenLog, LineNumber, Slots
  <1>2. /\ name'[0] = IF name[0] = None THEN opened' ELSE name[0]
        /\ \A g \in Slots : g # 0 => name'[g] = name[g]
        /\ name' \in [Slots -> LineNumber \cup {None}]
    BY <1>1 DEF OpenLog, LineNumber
  <1>3. /\ file'[opened'] = name'[0]
        /\ \A n \in 1 .. opened : file'[n] = file[n]
        /\ file' \in [LineNumber -> LineNumber \cup {None}]
    BY <1>1, <1>2 DEF OpenLog, LineNumber
  <1>4. name'[0] \in 1 .. opened' /\ \A n \in 1 .. opened : file[n] <= name'[0]
    BY <1>1, <1>2, LiveIsNewest DEF LineNumber
  <1>5. \A f : Kept(f) /\ f # None => Kept(f)'
    BY <1>1, <1>2 DEF Kept
  <1>6. \A f \in 1 .. opened : Kept(f)' => Kept(f)
    BY <1>1, <1>2 DEF Kept
  <1>a. LogTypeOK'
    BY <1>1, <1>2, <1>3 DEF OpenLog
  <1>b. \A g, h \in Slots : g < h /\ name'[g] # None /\ name'[h] # None => name'[h] < name'[g]
    BY <1>1, <1>2 DEF Slots, LineNumber
  <1>c. \A g \in Slots :
          name'[g] <= opened' /\ (name'[g] # None => file'[name'[g]] = name'[g])
    BY <1>1, <1>2, <1>3, <1>4 DEF LineNumber
  <1>d. \A n \in 1 .. opened' : file'[n] \in 1 .. opened'
    BY <1>1, <1>3, <1>4
  <1>e. \A m, n \in 1 .. opened' : m <= n => file'[m] <= file'[n]
    BY <1>1, <1>3, <1>4
  <1>f. ASSUME NEW m \in 1 .. opened', NEW n \in 1 .. opened',
               file'[m] <= file'[n], Kept(file[m])'
        PROVE  Kept(file[n])'
    <2>1. CASE n = opened'
      BY <2>1, <1>1, <1>3 DEF Kept
    <2>2. CASE n # opened' /\ m # opened'
      BY <2>2, <1>1, <1>3, <1>5, <1>6, <1>f
    <2>3. CASE n # opened' /\ m = opened'
      <3>1. file[n] = name'[0]
        BY <2>3, <1>1, <1>3, <1>4, <1>f
      <3> QED
        BY <2>3, <3>1, <1>1, <1>3 DEF Kept
    <2> QED
      BY <2>1, <2>2, <2>3
  <1>g. \A r \in Rotator : next'[r] < AuditKeep => name'[next'[r] + 1] = None
    BY <1>1, <1>2 DEF OpenLog, Slots, Done
  <1> QED
    BY <1>a, <1>b, <1>c, <1>d, <1>e, <1>f, <1>g

\* The slot that is emptied is the oldest of all, so what is lost is the oldest.
LEMMA DropKeepsOrder ==
  ASSUME LogInv, OneAtATime, NEW r \in Rotator, DropOldest(r)
  PROVE  LogInv'
  <1> USE KeepPositive, SizesAreNat DEF LogInv, LogTypeOK, None
  <1>1. /\ AuditKeep \in Slots /\ name'[AuditKeep] = None
        /\ \A g \in Slots : g # AuditKeep => name'[g] = name[g]
        /\ name' \in [Slots -> LineNumber \cup {None}]
        /\ UNCHANGED <<file, written, opened>>
    BY DEF DropOldest, Slots
  <1>2. ASSUME NEW m \in 1 .. opened, NEW n \in 1 .. opened, file[m] <= file[n], Kept(file[m])'
        PROVE  Kept(file[n])'
    <2>1. PICK g \in Slots : g # AuditKeep /\ name[g] = file[m]
      BY <1>1, <1>2 DEF Kept
    <2>2. PICK h \in Slots : name[h] = file[n]
      BY <1>2, <2>1 DEF Kept
    <2>3. name[g] # None /\ name[h] # None /\ name[g] <= name[h] /\ name[h] \in Nat
      BY <1>2, <2>1, <2>2
    <2>4. ~(name[h] < name[g])
      BY <2>1, <2>3 DEF LineNumber
    <2>5. h # AuditKeep
      BY <1>1, <2>1, <2>3, <2>4 DEF Slots
    <2> QED
      BY <1>1, <2>2, <2>5 DEF Kept
  <1>3. next' \in [Rotator -> 0 .. Done]
    BY DEF DropOldest, Done
  <1>4. ASSUME NEW s \in Rotator, next'[s] < AuditKeep PROVE name'[next'[s] + 1] = None
    <2>1. s = r /\ next'[s] = AuditKeep - 1
      BY <1>4 DEF DropOldest, OneAtATime, Done
    <2> QED
      BY <1>1, <2>1
  <1>5. LogTypeOK'
    BY <1>1, <1>3
  <1>6. \A g, h \in Slots :
          g < h /\ name'[g] # None /\ name'[h] # None => name'[h] < name'[g]
    BY <1>1
  <1>7. \A g \in Slots :
          name'[g] <= opened' /\ (name'[g] # None => file'[name'[g]] = name'[g])
    BY <1>1
  <1>8. /\ \A n \in 1 .. opened' : file'[n] \in 1 .. opened'
        /\ \A m, n \in 1 .. opened' : m <= n => file'[m] <= file'[n]
    BY <1>1
  <1>9. \A m, n \in 1 .. opened' : file'[m] <= file'[n] /\ Kept(file[m])' => Kept(file[n])'
    BY <1>1, <1>2
  <1> QED
    BY <1>4, <1>5, <1>6, <1>7, <1>8, <1>9

\* A rename takes a generation into the empty slot behind it: the order is the
\* same, and nothing is lost.
LEMMA ShiftKeepsOrder ==
  ASSUME LogInv, OneAtATime, NEW r \in Rotator, Shift(r)
  PROVE  LogInv'
  <1> USE KeepPositive, SizesAreNat DEF LogInv, LogTypeOK, None
  <1> DEFINE g == next[r]
  <1>1. /\ g \in Slots /\ g + 1 \in Slots /\ g \in Nat /\ name[g + 1] = None
        /\ UNCHANGED <<file, written, opened>>
    BY DEF Shift, Slots
  <1>2. /\ name'[g + 1] = name[g] /\ name'[g] = None
        /\ \A h \in Slots : h # g /\ h # g + 1 => name'[h] = name[h]
        /\ name' \in [Slots -> LineNumber \cup {None}]
    BY <1>1 DEF Shift
  <1>3. ASSUME NEW f, f # None
        PROVE  (\E h \in Slots : name'[h] = f) <=> (\E h \in Slots : name[h] = f)
    <2>1. ASSUME NEW h \in Slots, name[h] = f PROVE \E k \in Slots : name'[k] = f
      <3>1. h # g + 1
        BY <1>1, <1>3, <2>1
      <3> QED
        BY <1>1, <1>2, <2>1, <3>1
    <2>2. ASSUME NEW h \in Slots, name'[h] = f PROVE \E k \in Slots : name[k] = f
      <3>1. h # g
        BY <1>2, <1>3, <2>2
      <3> QED
        BY <1>1, <1>2, <2>2, <3>1
    <2> QED
      BY <2>1, <2>2
  <1>4. ASSUME NEW h \in Slots, NEW k \in Slots, h < k,
               name'[h] # None, name'[k] # None
        PROVE  name'[k] < name'[h]
    <2> DEFINE Was(i) == IF i = g + 1 THEN g ELSE i
    <2>1. h # g /\ k # g
      BY <1>2, <1>4
    <2>2. Was(h) \in Slots /\ name[Was(h)] = name'[h]
      BY <1>1, <1>2, <2>1
    <2>3. Was(k) \in Slots /\ name[Was(k)] = name'[k]
      BY <1>1, <1>2, <2>1
    <2>4. Was(h) < Was(k)
      BY <1>1, <1>4, <2>1 DEF Slots
    <2> HIDE DEF Was
    <2> QED
      BY <1>4, <2>2, <2>3, <2>4
  <1>5. \A h \in Slots :
          name'[h] <= opened /\ (name'[h] # None => file[name'[h]] = name'[h])
    BY <1>1, <1>2
  <1>6. next' \in [Rotator -> 0 .. Done]
    BY DEF Shift, Done
  <1>7. ASSUME NEW s \in Rotator, next'[s] < AuditKeep PROVE name'[next'[s] + 1] = None
    <2>1. s = r /\ g # 0 /\ next'[s] = g - 1
      BY <1>1, <1>7 DEF Shift, OneAtATime, Done
    <2> QED
      BY <1>1, <1>2, <2>1 DEF Slots
  <1>8. ASSUME NEW m \in 1 .. opened, NEW n \in 1 .. opened, file[m] <= file[n], Kept(file[m])'
        PROVE  Kept(file[n])'
    <2>1. file[m] # None /\ file[n] # None /\ file'[m] = file[m] /\ file'[n] = file[n]
      BY <1>1
    <2>2. /\ (\E h \in Slots : name'[h] = file[m]) <=> (\E h \in Slots : name[h] = file[m])
          /\ (\E h \in Slots : name'[h] = file[n]) <=> (\E h \in Slots : name[h] = file[n])
      BY <1>3, <2>1
    <2>3. Kept(file[m]) => Kept(file[n])
      BY <1>8
    <2> HIDE DEF LogInv, LogTypeOK
    <2> QED
      BY <1>8, <2>1, <2>2, <2>3 DEF Kept
  <1> QED
    BY <1>1, <1>2, <1>4, <1>5, <1>6, <1>7, <1>8

\* Every step keeps the invariant, as long as rotations take turns.
LEMMA LogStep ==
  ASSUME LogInv, OneAtATime, [LogNext]_logVars
  PROVE  LogInv'
  <1>1. CASE OpenLog
    BY <1>1, OpenKeepsOrder
  <1>2. ASSUME NEW n \in LineNumber, WriteLine(n) PROVE LogInv'
    BY <1>2 DEF WriteLine, LogInv, LogTypeOK, Kept
  <1>3. ASSUME NEW r \in Rotator, BeginRotation(r) PROVE LogInv'
    BY <1>3, KeepPositive, SizesAreNat DEF BeginRotation, LogInv, LogTypeOK, Kept, Done
  <1>4. ASSUME NEW r \in Rotator, DropOldest(r) PROVE LogInv'
    BY <1>4, DropKeepsOrder
  <1>5. ASSUME NEW r \in Rotator, Shift(r) PROVE LogInv'
    BY <1>5, ShiftKeepsOrder
  <1>6. ASSUME NEW r \in Rotator, DieRotating(r) PROVE LogInv'
    BY <1>6, KeepPositive, SizesAreNat DEF DieRotating, LogInv, LogTypeOK, Kept, Done
  <1>7. CASE UNCHANGED logVars
    BY <1>7 DEF logVars, LogInv, LogTypeOK, Kept
  <1> QED
    BY <1>1, <1>2, <1>3, <1>4, <1>5, <1>6, <1>7 DEF LogNext

\* No rename clobbers a generation, and a rotation cut short leaves no hole: of
\* the lines written, those that are lost are older than those that are kept,
\* whatever is appended in the meantime, for any number of processes and
\* generations, if no two processes rotate at the same time (retention.ts:79-112).
THEOREM OnlyTheOldestIsLost == LogSpec /\ []OneAtATime => []KeepsTheNewest
  <1>1. LogInit => LogInv
    BY KeepPositive, SizesAreNat DEF LogInit, LogInv, LogTypeOK, Slots, LineNumber, None, Done
  <1>2. LogInv /\ OneAtATime /\ [LogNext]_logVars => LogInv'
    BY LogStep
  <1>3. LogInv => KeepsTheNewest
    BY DEF LogInv, LogTypeOK, KeepsTheNewest
  <1> QED
    BY <1>1, <1>2, <1>3, PTL DEF LogSpec

--------------------------------------------------------------------------------
Bytes == Nat \X Nat

\* The line of a record: its bytes, numbered, and a newline.
LEMMA LineBytes ==
  ASSUME NEW n \in 1 .. Records
  PROVE  /\ Length[n] \in Nat \ {0}
         /\ Body(n) \in Seq(Bytes) /\ Len(Body(n)) = Length[n]
         /\ Line(n) \in Seq(Bytes) /\ Len(Line(n)) = Length[n] + 1
         /\ \A k \in 1 .. Length[n] : Line(n)[k] = <<n, k>>
         /\ Line(n)[Length[n] + 1] = NL
  <1>1. Length[n] \in Nat \ {0} /\ n \in Nat
    BY SizesPositive
  <1>2. Body(n) \in [1 .. Length[n] -> Bytes]
    BY <1>1 DEF Body, Bytes
  <1>3. Body(n) \in Seq(Bytes) /\ Len(Body(n)) = Length[n]
    BY <1>1, <1>2
  <1>4. NL \in Bytes
    BY DEF NL, Bytes
  <1>5. \A k \in 1 .. Length[n] : Body(n)[k] = <<n, k>>
    BY DEF Body
  <1> QED
    BY <1>1, <1>3, <1>4, <1>5, AppendProperties DEF Line

\* A record that is on a line of its own is read.
LEMMA WholeIsParsed ==
  ASSUME NEW n \in 1 .. Records, alerts \in Seq(Bytes), Whole(n)
  PROVE  n \in Parsed(alerts)
  <1>1. Length[n] \in Nat \ {0}
    BY LineBytes
  <1>2. PICK i \in 1 .. Len(alerts) :
          /\ i + Length[n] <= Len(alerts)
          /\ i = 1 \/ alerts[i - 1] = NL
          /\ \A k \in 1 .. Length[n] : alerts[i + k - 1] = <<n, k>>
          /\ alerts[i + Length[n]] = NL
    BY DEF Whole
  <1> DEFINE j == i + Length[n] - 1
  <1>3. j \in Nat /\ j <= Len(alerts) /\ j + 1 = i + Length[n] /\ j - i + 1 = Length[n] /\ Len(alerts) \in Nat
    BY <1>1, <1>2
  <1>4. SubSeq(alerts, i, j) = Body(n)
    <2>1. SubSeq(alerts, i, j) = [k \in 1 .. Length[n] |-> alerts[i + k - 1]]
      BY <1>2, <1>3
    <2> QED
      BY <1>2, <2>1 DEF Body
  <1> QED
    BY <1>2, <1>3, <1>4 DEF Parsed

\* What is on a line of its own stays there, whatever is appended.
LEMMA WholeLasts ==
  ASSUME alerts \in Seq(Bytes), NEW s \in Seq(Bytes), alerts' = alerts \o s,
         NEW n \in 1 .. Records, Whole(n)
  PROVE  Whole(n)'
  <1>1. Length[n] \in Nat \ {0}
    BY LineBytes
  <1>2. PICK i \in 1 .. Len(alerts) :
          /\ i + Length[n] <= Len(alerts)
          /\ i = 1 \/ alerts[i - 1] = NL
          /\ \A k \in 1 .. Length[n] : alerts[i + k - 1] = <<n, k>>
          /\ alerts[i + Length[n]] = NL
    BY DEF Whole
  <1>3. /\ Len(alerts) \in Nat /\ Len(alerts') = Len(alerts) + Len(s) /\ Len(s) \in Nat
        /\ \A k \in 1 .. Len(alerts) : alerts'[k] = alerts[k]
    BY ConcatProperties
  <1>4. i \in 1 .. Len(alerts') /\ i + Length[n] <= Len(alerts')
    BY <1>2, <1>3, <1>1
  <1>5. i = 1 \/ alerts'[i - 1] = NL
    BY <1>2, <1>3
  <1>6. \A k \in 1 .. Length[n] : alerts'[i + k - 1] = <<n, k>>
    BY <1>1, <1>2, <1>3
  <1>7. alerts'[i + Length[n]] = NL
    BY <1>1, <1>2, <1>3
  <1> QED
    BY <1>4, <1>5, <1>6, <1>7 DEF Whole

\* The types that the invariant gives.
LEMMA LossTypes ==
  ASSUME LossInv
  PROVE  /\ alerts \in Seq(Bytes) /\ writing \in Seq(Bytes)
         /\ received \in 0 .. Records /\ received \in Nat /\ cuts \in Nat
         /\ stored \subseteq 1 .. received /\ stored \subseteq 1 .. Records
  <1>1. received \in 0 .. Records /\ stored \subseteq 1 .. received /\ Records \in Nat
    BY SizesPositive DEF LossInv
  <1>2. received \in Nat /\ stored \subseteq 1 .. Records
    BY <1>1
  <1> QED
    BY <1>1, <1>2 DEF LossInv, Bytes

\* What is lost are finitely many of the records.
LEMMA LostIsFinite ==
  ASSUME LossInv
  PROVE  /\ IsFiniteSet(stored) /\ IsFiniteSet(Lost)
         /\ Cardinality(Lost) \in Nat
  <1>1. IsFiniteSet(1 .. received)
    BY FS_Interval, SizesPositive DEF LossInv
  <1> QED
    BY <1>1, FS_Subset, FS_CardinalityType DEF LossInv, Lost

\* A new webhook's line waits to be written behind what is there.
LEMMA StoreLoss ==
  ASSUME LossInv, Store
  PROVE  LossInv'
  <1> DEFINE n == received + 1
  <1>1. /\ n \in 1 .. Records /\ received' = n /\ writing' = Line(n) /\ writing = <<>>
        /\ UNCHANGED <<alerts, stored, cuts>>
    BY SizesPositive DEF Store, LossInv
  <1>2. /\ writing' \in Seq(Bytes) /\ Len(writing') = Length[n] + 1 /\ Length[n] \in Nat
        /\ writing' # <<>>
    BY <1>1, LineBytes
  <1>3. Len(alerts) \in Nat
    BY DEF LossInv
  <1>4. Begun = 0 /\ Begun' = 0 /\ Before = Len(alerts) /\ Before' = Len(alerts)
    BY <1>1, <1>2, <1>3 DEF Begun, Before
  <1>5. Lost' = Lost /\ Torn' = Torn
    BY <1>1, <1>4 DEF Lost, Torn, Whole
  <1> HIDE DEF n
  <1>6. received' # 0 /\ received' \notin stored' /\ received' \in 0 .. Records /\ stored' \subseteq 1 .. received'
    BY <1>1, SizesPositive DEF LossInv, n
  <1> QED
    BY <1>1, <1>2, <1>3, <1>4, <1>5, <1>6 DEF LossInv, Bytes

\* A write adds the next bytes of the line behind what is there.
LEMMA WriteAdds ==
  ASSUME LossInv, NEW m \in 1 .. Len(writing), WriteAlert(m)
  PROVE  /\ Len(writing) \in Nat /\ Len(alerts) \in Nat /\ m \in Nat /\ 1 <= m /\ m <= Len(writing)
         /\ received \in 1 .. Records /\ received \notin stored
         /\ Begun \in Nat /\ Before \in Nat /\ Length[received] \in Nat \ {0}
         /\ Begun = Length[received] + 1 - Len(writing) /\ Before = Len(alerts) - Begun
         /\ \A k \in 1 .. Len(writing) : writing[k] = Line(received)[Begun + k]
         /\ writing' \in Seq(Bytes) /\ Len(writing') = Len(writing) - m
         /\ \A k \in 1 .. Len(writing) - m : writing'[k] = writing[m + k]
         /\ received' = received /\ cuts' = cuts
         /\ stored' = IF writing' = <<>> THEN stored \cup {received} ELSE stored
         /\ alerts \in Seq(Bytes) /\ alerts' \in Seq(Bytes) /\ Len(alerts') = Len(alerts) + m
         /\ \E s \in Seq(Bytes) : alerts' = alerts \o s
         /\ \A k \in 1 .. Len(alerts) : alerts'[k] = alerts[k]
         /\ \A k \in 1 .. Begun + m : alerts'[Before + k] = Line(received)[k]
  <1> DEFINE s == SubSeq(writing, 1, m)
             B == Begun
             P == Before
             L == Len(writing)
             A == Len(alerts)
             R == Length[received]
  <1>1. writing \in Seq(Bytes) /\ alerts \in Seq(Bytes) /\ writing # <<>>
    BY DEF LossInv, Bytes
  <1>2. L \in Nat /\ A \in Nat /\ m \in Nat /\ 1 <= m /\ m <= L
    BY <1>1
  <1>3. received \in 1 .. Records /\ received \notin stored
    BY <1>1, SizesPositive DEF LossInv
  <1>4. B \in Nat /\ P \in Nat /\ B = R + 1 - L /\ P = A - B /\ R \in Nat \ {0}
    BY <1>1, <1>3, LineBytes DEF LossInv, Begun, Before
  <1>5. \A k \in 1 .. B : alerts[P + k] = Line(received)[k]
    BY <1>1 DEF LossInv
  <1>6. \A k \in 1 .. L : writing[k] = Line(received)[B + k]
    BY <1>1 DEF LossInv
  <1>7. s \in Seq(Bytes) /\ Len(s) = m /\ \A k \in 1 .. m : s[k] = writing[k]
    BY <1>1, <1>2, SubSeqProperties
  <1>8. writing' \in Seq(Bytes) /\ Len(writing') = L - m
    BY <1>1, <1>2, SubSeqProperties DEF WriteAlert
  <1>9. \A k \in 1 .. L - m : writing'[k] = writing[m + k]
    BY <1>1, <1>2, SubSeqProperties DEF WriteAlert
  <1>10. /\ received' = received /\ cuts' = cuts /\ alerts' = alerts \o s
         /\ stored' = IF writing' = <<>> THEN stored \cup {received} ELSE stored
    BY DEF WriteAlert
  <1> HIDE DEF s
  <1>11. alerts' \in Seq(Bytes) /\ Len(alerts') = A + m
    BY <1>1, <1>7, <1>10, ConcatProperties
  <1>12. \A k \in 1 .. A : alerts'[k] = alerts[k]
    BY <1>1, <1>7, <1>10, ConcatProperties
  <1>13. \A k \in 1 .. m : alerts'[A + k] = writing[k]
    <2> TAKE k \in 1 .. m
    <2>1. A + k \in (A + 1) .. (A + m) /\ (A + k) - A = k
      BY <1>2
    <2> QED
      BY <2>1, <1>1, <1>2, <1>7, <1>10, ConcatProperties
  <1> HIDE DEF B, P, L, A, R
  <1>14. \A k \in 1 .. B + m : alerts'[P + k] = Line(received)[k]
    <2> TAKE k \in 1 .. B + m
    <2>1. CASE k <= B
      <3>1. k \in 1 .. B /\ P + k \in 1 .. A
        BY <2>1, <1>2, <1>4
      <3> QED
        BY <3>1, <1>5, <1>12
    <2>2. CASE k > B
      <3> DEFINE i == k - B
      <3>1. i \in 1 .. m /\ i \in 1 .. L /\ P + k = A + i /\ B + i = k
        BY <2>2, <1>2, <1>4
      <3> HIDE DEF i
      <3> QED
        BY <3>1, <1>6, <1>13
    <2> QED
      BY <2>1, <2>2, <1>2, <1>4
  <1>15. \E u \in Seq(Bytes) : alerts' = alerts \o u
    BY <1>7, <1>10
  <1> QED
    BY <1>1, <1>2, <1>3, <1>4, <1>6, <1>8, <1>9, <1>10, <1>11, <1>12, <1>14, <1>15 DEF B, P, L, A, R

\* The last byte that is written of a line is its newline.
LEMMA WriteLoss ==
  ASSUME LossInv, NEW m \in 1 .. Len(writing), WriteAlert(m)
  PROVE  LossInv'
  <1> DEFINE B == Begun
             P == Before
             L == Len(writing)
             A == Len(alerts)
             R == Length[received]
  <1>1. L \in Nat /\ A \in Nat /\ m \in Nat /\ 1 <= m /\ m <= L
    BY WriteAdds
  <1>2. received \in 1 .. Records /\ received \notin stored
    BY WriteAdds
  <1>3. B \in Nat /\ P \in Nat /\ B = R + 1 - L /\ P = A - B /\ R \in Nat \ {0}
    BY WriteAdds
  <1>4. \A k \in 1 .. L : writing[k] = Line(received)[B + k]
    BY WriteAdds
  <1>5. writing' \in Seq(Bytes) /\ Len(writing') = L - m
    BY WriteAdds
  <1>6. \A k \in 1 .. L - m : writing'[k] = writing[m + k]
    BY WriteAdds
  <1>7. /\ received' = received /\ cuts' = cuts
         /\ stored' = IF writing' = <<>> THEN stored \cup {received} ELSE stored
    BY WriteAdds
  <1>8. alerts \in Seq(Bytes) /\ alerts' \in Seq(Bytes) /\ Len(alerts') = A + m
    BY WriteAdds
  <1>9. \A k \in 1 .. A : alerts'[k] = alerts[k]
    BY WriteAdds
  <1>10. \A n \in stored : n \in 1 .. Records /\ (Whole(n) => Whole(n)')
    <2> TAKE n \in stored
    <2>1. n \in 1 .. Records
      BY LossTypes
    <2>2. PICK s \in Seq(Bytes) : alerts' = alerts \o s
      BY WriteAdds
    <2> QED
      BY <2>1, <2>2, <1>8, WholeLasts
  <1>11. \A k \in 1 .. B + m : alerts'[P + k] = Line(received)[k]
    BY WriteAdds
  <1> HIDE DEF B, P, L, A, R
  <1>12. CASE m < L
    <2>1. Len(writing') # 0
      BY <1>12, <1>1, <1>5
    <2>2. writing' # <<>>
      BY <2>1, EmptySeq
    <2>3. stored' = stored
      BY <2>2, <1>7
    <2>4. Begun' = B + m
      <3>1. Begun' = R + 1 - (L - m)
        BY <2>2, <1>5, <1>7 DEF Begun, R
      <3> QED
        BY <3>1, <1>1, <1>3
    <2>5. Before' = P
      BY <2>4, <1>1, <1>3, <1>8 DEF Before
    <2>6. Torn' = Torn
      <3>1. P > 0 => P \in 1 .. A
        BY <1>1, <1>3
      <3> QED
        BY <3>1, <2>5, <1>3, <1>9 DEF Torn, P
    <2>7. Lost' \subseteq Lost
      BY <2>3, <1>10 DEF Lost
    <2>8. Cardinality(Lost') \in Nat /\ Cardinality(Lost') <= Cardinality(Lost)
      BY <2>7, LostIsFinite, FS_Subset, FS_CardinalityType
    <2>9. \A k \in 1 .. Len(writing') : writing'[k] = Line(received)[Begun' + k]
      <3> TAKE k \in 1 .. Len(writing')
      <3>1. k \in 1 .. L - m /\ m + k \in 1 .. L /\ B + (m + k) = Begun' + k
        BY <2>4, <1>1, <1>3, <1>5
      <3>2. writing'[k] = writing[m + k]
        BY <3>1, <1>6
      <3>3. writing[m + k] = Line(received)[B + (m + k)]
        BY <3>1, <1>4
      <3> QED
        BY <3>1, <3>2, <3>3
    <2>10. Cardinality(Lost') + (IF Torn' THEN 1 ELSE 0) <= cuts'
      <3>1. Cardinality(Lost) + (IF Torn THEN 1 ELSE 0) <= cuts /\ cuts' = cuts
        BY <1>7 DEF LossInv
      <3>2. Cardinality(Lost) \in Nat /\ cuts \in Nat /\ Torn \in BOOLEAN
        BY LostIsFinite, LossTypes DEF Torn
      <3> QED
        BY <3>1, <3>2, <2>6, <2>8
    <2>11. \A k \in 1 .. Begun' : alerts'[Before' + k] = Line(received)[k]
      BY <2>4, <2>5, <1>11
    <2>12. /\ received' \in 0 .. Records /\ stored' \subseteq 1 .. received' /\ cuts' \in Nat
           /\ received' # 0 /\ received' \notin stored' /\ Begun' \in Nat /\ Before' \in Nat
      <3>1. Begun' \in Nat /\ Before' \in Nat
        BY <2>4, <2>5, <1>1, <1>3
      <3>2. received # 0
        BY <1>2
      <3> QED
        BY <3>1, <3>2, <2>3, <1>2, <1>7, LossTypes
    <2>13. Line(received)' = Line(received)
      BY <1>7 DEF Line, Body
    <2> QED
      BY <2>2, <2>9, <2>10, <2>11, <2>12, <2>13, <1>5, <1>7, <1>8 DEF LossInv, Bytes
  <1>13. CASE m = L
    <2>1. writing' = <<>>
      BY <1>13, <1>1, <1>5, EmptySeq
    <2>2. stored' = stored \cup {received}
      BY <2>1, <1>7
    <2>3. Begun' = 0
      BY <2>1 DEF Begun
    <2>4. Before' = P + (R + 1) /\ B + m = R + 1
      BY <2>3, <1>13, <1>1, <1>3, <1>8 DEF Before
    <2>5. alerts'[P + (R + 1)] = NL
      <3>1. R + 1 \in 1 .. B + m
        BY <2>4, <1>3
      <3> QED
        BY <3>1, <1>2, <1>11, LineBytes DEF R
    <2>6. ~Torn'
      BY <2>4, <2>5 DEF Torn
    <2>7. ASSUME ~Torn PROVE Whole(received)'
      <3> DEFINE i == P + 1
      <3>1. /\ i \in 1 .. Len(alerts') /\ i + R <= Len(alerts') /\ i + R = P + (R + 1)
            /\ i = 1 \/ (P \in 1 .. A /\ i - 1 = P)
        BY <1>13, <1>1, <1>3, <1>8
      <3>2. i = 1 \/ alerts'[i - 1] = NL
        BY <3>1, <2>7, <1>3, <1>9 DEF Torn, P
      <3>3. \A k \in 1 .. R : alerts'[i + k - 1] = <<received, k>>
        <4> TAKE k \in 1 .. R
        <4>1. k \in 1 .. B + m /\ i + k - 1 = P + k
          BY <2>4, <1>3
        <4> QED
          BY <4>1, <1>2, <1>11, LineBytes DEF R
      <3> QED
        BY <3>1, <3>2, <3>3, <2>5, <1>7 DEF Whole, R
    <2>8. Lost' \subseteq IF Torn THEN Lost \cup {received} ELSE Lost
      BY <2>2, <2>7, <1>7, <1>10 DEF Lost
    <2>9. /\ Cardinality(Lost') \in Nat
          /\ Cardinality(Lost') <= Cardinality(Lost) + (IF Torn THEN 1 ELSE 0)
      <3>1. received \notin Lost
        BY <1>2 DEF Lost
      <3>2. IsFiniteSet(Lost \cup {received}) /\ Cardinality(Lost \cup {received}) = Cardinality(Lost) + 1
        BY <3>1, LostIsFinite, FS_AddElement
      <3> QED
        BY <2>8, <3>2, LostIsFinite, FS_Subset, FS_CardinalityType
    <2>10. Cardinality(Lost') + (IF Torn' THEN 1 ELSE 0) <= cuts'
      <3>1. Cardinality(Lost) + (IF Torn THEN 1 ELSE 0) <= cuts /\ cuts' = cuts
        BY <1>7 DEF LossInv
      <3>2. Cardinality(Lost) \in Nat /\ cuts \in Nat /\ Torn \in BOOLEAN
        BY LostIsFinite, LossTypes DEF Torn
      <3> QED
        BY <3>1, <3>2, <2>6, <2>9
    <2>11. stored' \subseteq 1 .. received' /\ received' \in 0 .. Records /\ cuts' \in Nat
      BY <2>2, <1>2, <1>7, LossTypes
    <2> QED
      BY <2>1, <2>10, <2>11, <1>5, <1>8 DEF LossInv, Bytes
  <1> QED
    BY <1>1, <1>12, <1>13

\* An append that is cut short costs the next record at most.
LEMMA CutLoss ==
  ASSUME LossInv, CutShort
  PROVE  LossInv'
  <1>1. writing' = <<>> /\ cuts' = cuts + 1 /\ UNCHANGED <<alerts, received, stored>>
    BY DEF CutShort
  <1>2. Lost' = Lost
    BY <1>1 DEF Lost, Whole
  <1>3. Torn \in BOOLEAN /\ Torn' \in BOOLEAN
    BY DEF Torn
  <1> QED
    BY <1>1, <1>2, <1>3, LostIsFinite DEF LossInv

\* No webhook has come, and nothing is lost.
LEMMA LossInit == AlertsInit => LossInv
  <1> SUFFICES ASSUME AlertsInit PROVE LossInv
    OBVIOUS
  <1>1. Lost = {} /\ ~Torn
    BY DEF AlertsInit, Lost, Torn, Before, Begun
  <1> QED
    BY <1>1, FS_EmptySet, SizesPositive DEF AlertsInit, LossInv

\* No step loses more than it is allowed to.
LEMMA LossStep == LossInv /\ [AlertsNext]_alertVars => LossInv'
  <1> SUFFICES ASSUME LossInv, [AlertsNext]_alertVars PROVE LossInv'
    OBVIOUS
  <1>1. CASE Store
    BY <1>1, StoreLoss
  <1>2. CASE CutShort
    BY <1>2, CutLoss
  <1>3. ASSUME NEW m \in 1 .. Len(writing), WriteAlert(m) PROVE LossInv'
    BY <1>3, WriteLoss
  <1>4. CASE UNCHANGED writeVars
    <2>1. UNCHANGED <<alerts, received, writing, stored, cuts>>
      BY <1>4 DEF writeVars
    <2>2. Lost' = Lost /\ Torn' = Torn /\ Begun' = Begun /\ Before' = Before
      BY <2>1 DEF Lost, Torn, Whole, Begun, Before
    <2> QED
      BY <2>1, <2>2 DEF LossInv
  <1> QED
    BY <1>1, <1>2, <1>3, <1>4 DEF AlertsNext, OpenForRead, ReadChunk, CloseRead, alertVars

\* A truncated line costs at most the record glued to it: of the webhooks that were
\* acknowledged, no more cannot be read than appends were cut short, wherever
\* these were cut, for any records (storeWebhook, parseLine).
THEOREM TornLinesCostOneEach == AlertsSpec => []LossIsBounded
  <1>1. AlertsInit => LossInv
    BY LossInit
  <1>2. LossInv /\ [AlertsNext]_alertVars => LossInv'
    BY LossStep
  <1>3. LossInv => LossIsBounded
    <2> SUFFICES ASSUME LossInv PROVE LossIsBounded
      OBVIOUS
    <2>1. ASSUME NEW n \in stored, Whole(n) PROVE n \in Parsed(alerts)
      <3>1. n \in 1 .. Records /\ alerts \in Seq(Bytes)
        BY LossTypes
      <3> QED
        BY <3>1, <2>1, WholeIsParsed
    <2>3. stored \ Parsed(alerts) \subseteq Lost
      BY <2>1 DEF Lost
    <2>2. Cardinality(stored \ Parsed(alerts)) \in Nat /\ Cardinality(stored \ Parsed(alerts)) <= Cardinality(Lost)
      BY <2>3, LostIsFinite, FS_Subset, FS_CardinalityType
    <2> QED
      BY <2>2, LostIsFinite DEF LossInv, LossIsBounded
  <1> QED
    BY <1>1, <1>2, <1>3, PTL DEF AlertsSpec

--------------------------------------------------------------------------------
\* A sequence of all the elements of a set of numbers, the largest first.
Falling(s, ns) ==
  /\ s \in Seq(ns)
  /\ \A n \in ns : \E i \in 1 .. Len(s) : s[i] = n
  /\ \A i, j \in 1 .. Len(s) : i < j => s[i] > s[j]

\* A set of numbers has a least element, and so has its first disagreement.
LEMMA LeastNat ==
  ASSUME NEW T \in SUBSET Nat, T # {}
  PROVE  \E n \in T : \A m \in T : n <= m
  <1>1. PICK n \in T : \A m \in T : ~(<<m, n>> \in OpToRel(<, Nat))
    BY NatLessThanWellFounded, WFMin
  <1>2. ASSUME NEW m \in T, m < n PROVE FALSE
    <2>1. <<m, n>> \in Nat \X Nat
      BY <1>1
    <2>2. <<m, n>>[1] < <<m, n>>[2]
      BY <1>2
    <2>3. <<m, n>> \in OpToRel(<, Nat)
      BY <2>1, <2>2, Zenon DEF OpToRel
    <2> QED
      BY <1>1, <2>3
  <1> QED
    BY <1>2

\* A sequence over a set is one over a larger set.
LEMMA SeqGrows ==
  ASSUME NEW X, NEW Y, X \subseteq Y, NEW s \in Seq(X)
  PROVE  s \in Seq(Y)
  <1>1. Len(s) \in Nat /\ s \in [1 .. Len(s) -> X]
    OBVIOUS
  <1>2. s \in [1 .. Len(s) -> Y]
    BY <1>1
  <1> QED
    BY <1>1, <1>2

\* Of two falling sequences of one set, the first is as far as it goes the second.
LEMMA FallingAgree ==
  ASSUME NEW ns \in SUBSET Nat, NEW s, NEW t, Falling(s, ns), Falling(t, ns)
  PROVE  \A i \in 1 .. Len(s) : i \in 1 .. Len(t) /\ s[i] = t[i]
  <1> DEFINE T == {i \in 1 .. Len(s) : ~(i \in 1 .. Len(t) /\ s[i] = t[i])}
  <1> SUFFICES ASSUME T # {} PROVE FALSE
    OBVIOUS
  <1>1. /\ Len(s) \in Nat /\ \A i \in 1 .. Len(s) : s[i] \in ns /\ s[i] \in Nat
        /\ Len(t) \in Nat /\ \A i \in 1 .. Len(t) : t[i] \in ns /\ t[i] \in Nat
    <2>1. s \in Seq(ns) /\ t \in Seq(ns)
      BY DEF Falling
    <2>2. /\ Len(s) \in Nat /\ \A i \in 1 .. Len(s) : s[i] \in ns
          /\ Len(t) \in Nat /\ \A i \in 1 .. Len(t) : t[i] \in ns
      BY <2>1, LenProperties
    <2> QED
      BY <2>2
  <1>2. PICK i \in T : \A m \in T : i <= m
    <2>1. T \in SUBSET Nat
      BY <1>1
    <2> QED
      BY <2>1, LeastNat
  <1>3. i \in 1 .. Len(s) /\ \A k \in 1 .. Len(s) : k < i => k \in 1 .. Len(t) /\ s[k] = t[k]
    BY <1>1, <1>2
  <1>4. PICK j \in 1 .. Len(t) : t[j] = s[i]
    BY <1>1, <1>3 DEF Falling
  <1>5. ~(j < i)
    <2> SUFFICES ASSUME j < i PROVE FALSE
      OBVIOUS
    <2>1. j \in 1 .. Len(s) /\ s[j] = s[i]
      BY <1>1, <1>3, <1>4
    <2> QED
      BY <2>1, <1>1, <1>3 DEF Falling
  <1>6. i \in 1 .. Len(t) /\ i < j
    BY <1>1, <1>2, <1>3, <1>4, <1>5
  <1>7. t[i] > s[i]
    BY <1>4, <1>6 DEF Falling
  <1>8. PICK k \in 1 .. Len(s) : s[k] = t[i]
    BY <1>1, <1>6 DEF Falling
  <1>9. CASE k < i
    <2>1. k \in 1 .. Len(t) /\ t[k] = t[i]
      BY <1>3, <1>8, <1>9
    <2> QED
      BY <2>1, <1>1, <1>6, <1>9 DEF Falling
  <1>10. CASE k = i
    BY <1>1, <1>3, <1>7, <1>8, <1>10
  <1>11. CASE k > i
    <2>1. s[i] > s[k]
      BY <1>3, <1>8, <1>11 DEF Falling
    <2> QED
      BY <2>1, <1>1, <1>3, <1>7, <1>8
  <1> QED
    BY <1>1, <1>3, <1>8, <1>9, <1>10, <1>11

\* There is only one falling sequence of a set.
LEMMA FallingIsUnique ==
  ASSUME NEW ns \in SUBSET Nat, NEW s, NEW t, Falling(s, ns), Falling(t, ns)
  PROVE  s = t
  <1>1. Len(s) \in Nat /\ Len(t) \in Nat /\ s \in Seq(ns) /\ t \in Seq(ns)
    BY DEF Falling
  <1>2. \A i \in 1 .. Len(s) : i \in 1 .. Len(t) /\ s[i] = t[i]
    BY FallingAgree
  <1>3. \A i \in 1 .. Len(t) : i \in 1 .. Len(s)
    BY FallingAgree
  <1>4. Len(s) = Len(t)
    <2>1. Len(s) > 0 => Len(s) \in 1 .. Len(t)
      BY <1>1, <1>2
    <2>2. Len(t) > 0 => Len(t) \in 1 .. Len(s)
      BY <1>1, <1>3
    <2> QED
      BY <2>1, <2>2, <1>1
  <1> QED
    BY <1>1, <1>2, <1>4, SeqEqual

\* A larger element goes before a falling sequence.
LEMMA FallingGrows ==
  ASSUME NEW ns \in SUBSET Nat, NEW ms \in SUBSET Nat, NEW s, NEW t,
         Falling(s, ns), Falling(t, ms), \A n \in ns, m \in ms : n > m
  PROVE  Falling(s \o t, ns \cup ms)
  <1> DEFINE u == s \o t
  <1>1. s \in Seq(ns \cup ms) /\ t \in Seq(ns \cup ms)
    BY SeqMonotonic DEF Falling
  <1>2. /\ u \in Seq(ns \cup ms) /\ Len(u) = Len(s) + Len(t)
        /\ \A i \in 1 .. Len(s) + Len(t) : u[i] = IF i <= Len(s) THEN s[i] ELSE t[i - Len(s)]
    BY <1>1, ConcatProperties
  <1>3. /\ Len(s) \in Nat /\ Len(t) \in Nat
        /\ \A i \in 1 .. Len(s) : s[i] \in ns
        /\ \A i \in 1 .. Len(t) : t[i] \in ms
    BY DEF Falling
  <1> HIDE DEF u
  <1>4. \A i \in 1 .. Len(s) : i \in 1 .. Len(u) /\ u[i] = s[i]
    BY <1>2, <1>3
  <1>5. \A i \in 1 .. Len(t) : Len(s) + i \in 1 .. Len(u) /\ u[Len(s) + i] = t[i]
    <2> TAKE i \in 1 .. Len(t)
    <2>1. Len(s) + i \in 1 .. Len(u) /\ ~(Len(s) + i <= Len(s)) /\ (Len(s) + i) - Len(s) = i
      BY <1>2, <1>3
    <2> QED
      BY <2>1, <1>2
  <1>6. ASSUME NEW n \in ns \cup ms PROVE \E i \in 1 .. Len(u) : u[i] = n
    <2>1. CASE n \in ns
      BY <2>1, <1>4 DEF Falling
    <2>2. CASE n \in ms
      BY <2>2, <1>5 DEF Falling
    <2> QED
      BY <2>1, <2>2
  <1>7. ASSUME NEW i \in 1 .. Len(u), NEW j \in 1 .. Len(u), i < j PROVE u[i] > u[j]
    <2>1. CASE j <= Len(s)
      <3>1. i \in 1 .. Len(s) /\ j \in 1 .. Len(s)
        BY <2>1, <1>3, <1>7
      <3> QED
        BY <3>1, <1>4, <1>7 DEF Falling
    <2>2. CASE i > Len(s)
      <3> DEFINE k == i - Len(s)
                 l == j - Len(s)
      <3>1. k \in 1 .. Len(t) /\ l \in 1 .. Len(t) /\ k < l /\ Len(s) + k = i /\ Len(s) + l = j
        BY <2>2, <1>2, <1>3, <1>7
      <3> HIDE DEF k, l
      <3>2. u[i] = t[k] /\ u[j] = t[l]
        BY <3>1, <1>5
      <3> QED
        BY <3>1, <3>2 DEF Falling
    <2>3. CASE i <= Len(s) /\ j > Len(s)
      <3> DEFINE l == j - Len(s)
      <3>1. i \in 1 .. Len(s) /\ l \in 1 .. Len(t) /\ Len(s) + l = j
        BY <2>3, <1>2, <1>3
      <3> HIDE DEF l
      <3>2. u[i] = s[i] /\ u[j] = t[l] /\ s[i] \in ns /\ t[l] \in ms
        BY <3>1, <1>3, <1>4, <1>5
      <3> QED
        BY <3>2
    <2> QED
      BY <2>1, <2>2, <2>3, <1>2, <1>3
  <1> QED
    BY <1>2, <1>6, <1>7 DEF Falling, u

\* Every set of numbers up to a bound has a falling sequence.
LEMMA FallingExists ==
  \A r \in Nat : \A ns \in SUBSET (1 .. r) : \E s : Falling(s, ns)
  <1> DEFINE T == {r \in Nat : \E ns \in SUBSET (1 .. r) : ~ \E s : Falling(s, ns)}
  <1> SUFFICES ASSUME T # {} PROVE FALSE
    OBVIOUS
  <1>1. PICK r \in T : \A m \in T : r <= m
    BY LeastNat
  <1>2. PICK ns \in SUBSET (1 .. r) : ~ \E s : Falling(s, ns)
    BY <1>1
  <1>3. Falling(<<>>, {})
    BY DEF Falling
  <1>4. r # 0 /\ r - 1 \in Nat /\ r \in Nat
    <2>1. r \in Nat
      BY <1>1
    <2>2. r # 0
      <3>1. 1 .. 0 = {}
        OBVIOUS
      <3> QED
        BY <3>1, <1>2, <1>3
    <2> QED
      BY <2>1, <2>2
  <1> DEFINE rest == ns \ {r}
  <1>5. rest \in SUBSET (1 .. (r - 1)) /\ r - 1 \notin T
    <2>1. rest \in SUBSET (1 .. (r - 1))
      BY <1>2, <1>4
    <2>2. ~(r <= r - 1)
      BY <1>4
    <2>3. r - 1 \notin T
      BY <2>2, <1>1, Zenon
    <2> QED
      BY <2>1, <2>3
  <1>6. PICK t : Falling(t, rest)
    BY <1>4, <1>5
  <1>7. CASE r \notin ns
    BY <1>2, <1>6, <1>7
  <1>8. CASE r \in ns
    <2>1. Falling(<<r>>, {r})
      BY <1>4 DEF Falling
    <2>2. \A n \in {r}, m \in rest : n > m
      BY <1>4, <1>5
    <2>3. {r} \cup rest = ns /\ rest \in SUBSET Nat /\ {r} \in SUBSET Nat
      BY <1>4, <1>5, <1>8
    <2>4. Falling(<<r>> \o t, ns)
      BY <2>1, <2>2, <2>3, <1>6, FallingGrows
    <2> QED
      BY <2>4, <1>2
  <1> QED
    BY <1>7, <1>8

\* NewestFirst is the falling sequence.
LEMMA NewestIsFalling ==
  ASSUME NEW r \in Nat, NEW ns \in SUBSET (1 .. r)
  PROVE  Falling(NewestFirst(ns), ns)
  <1> DEFINE c == Cardinality(ns)
             s == NewestFirst(ns)
  <1>1. PICK d : Falling(d, ns)
    BY FallingExists
  <1>2. /\ Len(d) \in Nat /\ d \in [1 .. Len(d) -> ns]
        /\ \A i, j \in 1 .. Len(d) : i < j => d[i] > d[j]
        /\ \A n \in ns : \E i \in 1 .. Len(d) : d[i] = n
    BY <1>1, LenProperties DEF Falling
  <1>3. \A n \in ns : n \in Nat
    OBVIOUS
  <1>4. \A i, j \in 1 .. Len(d) : d[i] = d[j] => i = j
    <2> SUFFICES ASSUME NEW i \in 1 .. Len(d), NEW j \in 1 .. Len(d), d[i] = d[j], i # j PROVE FALSE
      OBVIOUS
    <2>1. i < j \/ j < i
      BY <1>2
    <2>2. d[i] \in Nat /\ d[j] \in Nat
      BY <1>2, <1>3
    <2> QED
      BY <2>1, <2>2, <1>2
  <1>5. d \in Bijection(1 .. Len(d), ns)
    BY <1>2, <1>4 DEF Bijection, Injection, Surjection, IsInjective
  <1>6. c = Len(d)
    BY <1>2, <1>5, FS_CountingElements DEF ExistsBijection
  <1>7. /\ s \in [1 .. c -> ns]
        /\ \A i, j \in DOMAIN s : i < j => s[i] > s[j]
    <2>1. \E f \in [1 .. c -> ns] : \A i, j \in DOMAIN f : i < j => f[i] > f[j]
      BY <1>2, <1>6
    <2> QED
      BY <2>1 DEF NewestFirst
  <1> HIDE DEF s
  <1>8. c \in Nat
    BY <1>2, <1>6
  <1>9. \A i, j \in 1 .. c : i < j => s[i] > s[j]
    BY <1>7
  <1>10. \A i, j \in 1 .. c : s[i] = s[j] => i = j
    <2> SUFFICES ASSUME NEW i \in 1 .. c, NEW j \in 1 .. c, s[i] = s[j], i # j PROVE FALSE
      OBVIOUS
    <2>1. i < j \/ j < i
      BY <1>8
    <2>2. s[i] \in Nat /\ s[j] \in Nat
      BY <1>3, <1>7
    <2> QED
      BY <2>1, <2>2, <1>9
  <1>11. s \in Injection(1 .. c, ns)
    BY <1>7, <1>10 DEF Injection, IsInjective
  <1>12. IsFiniteSet(ns)
    <2>1. IsFiniteSet(1 .. r)
      BY FS_Interval
    <2> QED
      BY <2>1, FS_Subset
  <1>13. IsFiniteSet(1 .. c) /\ Cardinality(1 .. c) = c
    BY <1>8, FS_Interval
  <1>14. s \in Surjection(1 .. c, ns)
    BY <1>11, <1>12, <1>13, FS_Injection
  <1>15. s \in Seq(ns) /\ Len(s) = c
    BY <1>7, <1>8
  <1> QED
    BY <1>9, <1>14, <1>15 DEF Falling, Surjection, s

\* Nothing is listed of nothing.
LEMMA NewestOfNone == NewestFirst({}) = <<>>
  <1>1. Falling(NewestFirst({}), {})
    BY NewestIsFalling
  <1>2. Falling(<<>>, {})
    BY DEF Falling
  <1> QED
    BY <1>1, <1>2, FallingIsUnique

\* The older records are listed after the newer ones.
LEMMA NewestJoins ==
  ASSUME NEW r \in Nat, NEW ns \in SUBSET (1 .. r), NEW ms \in SUBSET (1 .. r),
         \A n \in ns, m \in ms : n > m
  PROVE  NewestFirst(ns \cup ms) = NewestFirst(ns) \o NewestFirst(ms)
  <1>1. ns \in SUBSET Nat /\ ms \in SUBSET Nat /\ ns \cup ms \in SUBSET (1 .. r)
    OBVIOUS
  <1>2. Falling(NewestFirst(ns), ns) /\ Falling(NewestFirst(ms), ms)
    BY NewestIsFalling
  <1>3. Falling(NewestFirst(ns) \o NewestFirst(ms), ns \cup ms)
    BY <1>1, <1>2, FallingGrows
  <1>4. Falling(NewestFirst(ns \cup ms), ns \cup ms)
    BY <1>1, NewestIsFalling
  <1> QED
    BY <1>1, <1>3, <1>4, FallingIsUnique

--------------------------------------------------------------------------------
\* The record that begins at byte i of the stretch from a to b.
At(bytes, a, b, n, i) ==
  /\ i + Length[n] - 1 <= b
  /\ i = a \/ bytes[i - 1] = NL
  /\ i + Length[n] - 1 = b \/ bytes[i + Length[n]] = NL
  /\ \A k \in 1 .. Length[n] : bytes[i + k - 1] = <<n, k>>

\* The records of a stretch are those that begin somewhere in it.
LEMMA RecordsAt ==
  ASSUME NEW bytes, NEW a \in Nat, NEW b \in Int
  PROVE  /\ RecordsIn(bytes, a, b) \subseteq 1 .. Records
         /\ \A n \in 1 .. Records :
              n \in RecordsIn(bytes, a, b) <=> \E i \in a .. b : At(bytes, a, b, n, i)
  <1>1. ASSUME NEW n \in 1 .. Records, NEW i \in a .. b
        PROVE  (i + Length[n] - 1) + 1 = i + Length[n]
    BY LineBytes
  <1> QED
    BY <1>1 DEF RecordsIn, At

\* Where the same bytes are, the same records are.
LEMMA RecordsShift ==
  ASSUME NEW bytes, NEW text, NEW d \in Nat, NEW a \in Nat, NEW b \in Int,
         \A k \in a .. b : bytes[k] = text[d + k]
  PROVE  RecordsIn(bytes, a, b) = RecordsIn(text, d + a, d + b)
  <1>1. ASSUME NEW n \in 1 .. Records, NEW i \in a .. b
        PROVE  At(bytes, a, b, n, i) <=> At(text, d + a, d + b, n, d + i)
    <2>1. Length[n] \in Nat \ {0} /\ i \in Int
      BY LineBytes
    <2>2. i + Length[n] - 1 <= b <=> (d + i) + Length[n] - 1 <= d + b
      BY <2>1
    <2>3. i = a \/ bytes[i - 1] = NL <=> d + i = d + a \/ text[(d + i) - 1] = NL
      <3>1. i = a <=> d + i = d + a
        BY <2>1
      <3>2. i # a => i - 1 \in a .. b /\ d + (i - 1) = (d + i) - 1
        BY <2>1
      <3> QED
        BY <3>1, <3>2
    <2>4. ASSUME i + Length[n] - 1 <= b
          PROVE  /\ (i + Length[n] - 1 = b <=> (d + i) + Length[n] - 1 = d + b)
                 /\ i + Length[n] - 1 # b => bytes[i + Length[n]] = text[(d + i) + Length[n]]
      <3>1. i + Length[n] - 1 # b => i + Length[n] \in a .. b /\ d + (i + Length[n]) = (d + i) + Length[n]
        BY <2>1, <2>4
      <3> QED
        BY <3>1, <2>1
    <2>5. ASSUME i + Length[n] - 1 <= b, NEW k \in 1 .. Length[n]
          PROVE  bytes[i + k - 1] = text[(d + i) + k - 1]
      <3>1. i + k - 1 \in a .. b /\ d + (i + k - 1) = (d + i) + k - 1
        BY <2>1, <2>5
      <3> QED
        BY <3>1
    <2> QED
      BY <2>2, <2>3, <2>4, <2>5 DEF At
  <1>2. \A i \in a .. b : d + i \in (d + a) .. (d + b)
    OBVIOUS
  <1>3. \A j \in (d + a) .. (d + b) : j - d \in a .. b /\ d + (j - d) = j
    OBVIOUS
  <1>4. ASSUME NEW n \in 1 .. Records
        PROVE  (\E i \in a .. b : At(bytes, a, b, n, i))
                 <=> (\E j \in (d + a) .. (d + b) : At(text, d + a, d + b, n, j))
    <2>1. ASSUME NEW i \in a .. b, At(bytes, a, b, n, i)
          PROVE  \E j \in (d + a) .. (d + b) : At(text, d + a, d + b, n, j)
      BY <2>1, <1>1, <1>2
    <2>2. ASSUME NEW j \in (d + a) .. (d + b), At(text, d + a, d + b, n, j)
          PROVE  \E i \in a .. b : At(bytes, a, b, n, i)
      <3>1. j - d \in a .. b /\ d + (j - d) = j
        BY <1>3
      <3>2. At(bytes, a, b, n, j - d)
        BY <2>2, <3>1, <1>1
      <3> QED
        BY <3>1, <3>2
    <2> QED
      BY <2>1, <2>2
  <1>5. d + a \in Nat /\ d + b \in Int
    OBVIOUS
  <1>6. RecordsIn(bytes, a, b) \subseteq 1 .. Records /\ RecordsIn(text, d + a, d + b) \subseteq 1 .. Records
    BY DEF RecordsIn
  <1>7. \A n \in 1 .. Records : n \in RecordsIn(bytes, a, b) <=> n \in RecordsIn(text, d + a, d + b)
    <2> TAKE n \in 1 .. Records
    <2>1. n \in RecordsIn(bytes, a, b) <=> \E i \in a .. b : At(bytes, a, b, n, i)
      BY RecordsAt
    <2>2. n \in RecordsIn(text, d + a, d + b) <=> \E j \in (d + a) .. (d + b) : At(text, d + a, d + b, n, j)
      BY <1>5, RecordsAt
    <2> QED
      BY <2>1, <2>2, <1>4
  <1> QED
    BY <1>6, <1>7

\* The same bytes at the same place have the same records.
LEMMA RecordsSame ==
  ASSUME NEW bytes, NEW text, NEW a \in Nat, NEW b \in Int,
         \A k \in a .. b : bytes[k] = text[k]
  PROVE  RecordsIn(bytes, a, b) = RecordsIn(text, a, b)
  <1> DEFINE d == 0
  <1>1. d \in Nat /\ d + a = a /\ d + b = b
    OBVIOUS
  <1>2. \A k \in a .. b : bytes[k] = text[d + k]
    OBVIOUS
  <1> HIDE DEF d
  <1>3. RecordsIn(bytes, a, b) = RecordsIn(text, d + a, d + b)
    BY <1>1, <1>2, RecordsShift
  <1> QED
    BY <1>1, <1>3

\* A stretch of bytes is parsed to the records on its lines.
LEMMA ParsedAreRecordsIn ==
  ASSUME NEW bytes \in Seq(Bytes)
  PROVE  Parsed(bytes) = RecordsIn(bytes, 1, Len(bytes))
  <1>1. Len(bytes) \in Nat
    OBVIOUS
  <1>2. ASSUME NEW n \in 1 .. Records, NEW i \in 1 .. Len(bytes), i + Length[n] - 1 <= Len(bytes)
        PROVE  SubSeq(bytes, i, i + Length[n] - 1) = Body(n)
                 <=> \A k \in 1 .. Length[n] : bytes[i + k - 1] = <<n, k>>
    <2>1. Length[n] \in Nat \ {0}
      BY LineBytes
    <2>2. (i + Length[n] - 1) - i + 1 = Length[n]
      BY <2>1
    <2>3. SubSeq(bytes, i, i + Length[n] - 1) = [k \in 1 .. Length[n] |-> bytes[i + k - 1]]
      BY <1>1, <1>2, <2>1, <2>2
    <2> QED
      BY <2>3 DEF Body
  <1> QED
    BY <1>1, <1>2 DEF Parsed, RecordsIn

\* A newline parts the lines before it from those after it.
LEMMA RecordsSplit ==
  ASSUME NEW bytes, NEW a \in Nat, NEW b \in Nat, NEW x \in a .. b, bytes[x] = NL
  PROVE  RecordsIn(bytes, a, b) = RecordsIn(bytes, x + 1, b) \cup RecordsIn(bytes, a, x - 1)
  <1>1. x \in Nat /\ a <= x /\ x <= b
    OBVIOUS
  <1>2. ASSUME NEW n \in 1 .. Records, NEW i \in a .. b, At(bytes, a, b, n, i)
        PROVE  \/ i \in (x + 1) .. b /\ At(bytes, x + 1, b, n, i)
               \/ i \in a .. (x - 1) /\ At(bytes, a, x - 1, n, i)
    <2>1. Length[n] \in Nat \ {0} /\ i \in Int /\ n # 0
      BY LineBytes
    <2>2. ~(i <= x /\ x <= i + Length[n] - 1)
      <3> SUFFICES ASSUME i <= x, x <= i + Length[n] - 1 PROVE FALSE
        OBVIOUS
      <3> DEFINE k == x - i + 1
      <3>1. k \in 1 .. Length[n] /\ i + k - 1 = x
        BY <1>1, <2>1
      <3>2. bytes[x] = <<n, k>>
        BY <1>2, <3>1 DEF At
      <3> QED
        BY <3>2, <2>1 DEF NL
    <2>3. CASE i > x
      <3>1. i \in (x + 1) .. b
        BY <2>3, <1>1, <2>1
      <3>2. i = x + 1 \/ bytes[i - 1] = NL
        BY <2>3, <1>1, <1>2, <2>1 DEF At
      <3> QED
        BY <3>1, <3>2, <1>2 DEF At
    <2>4. CASE i + Length[n] - 1 < x
      <3>1. i \in a .. (x - 1) /\ i + Length[n] - 1 <= x - 1
        BY <2>4, <1>1, <2>1
      <3>2. i + Length[n] - 1 = x - 1 \/ bytes[i + Length[n]] = NL
        BY <2>4, <1>1, <1>2, <2>1 DEF At
      <3> QED
        BY <3>1, <3>2, <1>2 DEF At
    <2> QED
      BY <2>2, <2>3, <2>4, <1>1, <2>1
  <1>3. ASSUME NEW n \in 1 .. Records, NEW i \in (x + 1) .. b, At(bytes, x + 1, b, n, i)
        PROVE  i \in a .. b /\ At(bytes, a, b, n, i)
    <2>1. i \in a .. b
      BY <1>1
    <2>2. i = x + 1 => i - 1 = x
      BY <1>1
    <2> QED
      BY <1>3, <2>1, <2>2 DEF At
  <1>4. ASSUME NEW n \in 1 .. Records, NEW i \in a .. (x - 1), At(bytes, a, x - 1, n, i)
        PROVE  i \in a .. b /\ At(bytes, a, b, n, i)
    <2>1. Length[n] \in Nat \ {0} /\ i \in a .. b
      BY <1>1, LineBytes
    <2>2. i + Length[n] - 1 <= b
      BY <1>1, <1>4, <2>1 DEF At
    <2>3. i + Length[n] - 1 = x - 1 => i + Length[n] = x
      BY <1>1, <2>1
    <2> QED
      BY <1>4, <2>1, <2>2, <2>3 DEF At
  <1>5. x + 1 \in Nat /\ x - 1 \in Int
    BY <1>1
  <1>6. \A n \in 1 .. Records :
          (\E i \in a .. b : At(bytes, a, b, n, i))
            <=> \/ \E i \in (x + 1) .. b : At(bytes, x + 1, b, n, i)
                \/ \E i \in a .. (x - 1) : At(bytes, a, x - 1, n, i)
    BY <1>2, <1>3, <1>4
  <1>7. \A n \in 1 .. Records :
          n \in RecordsIn(bytes, a, b) <=> n \in RecordsIn(bytes, x + 1, b) \cup RecordsIn(bytes, a, x - 1)
    <2> TAKE n \in 1 .. Records
    <2>1. n \in RecordsIn(bytes, a, b) <=> \E i \in a .. b : At(bytes, a, b, n, i)
      BY RecordsAt
    <2>2. n \in RecordsIn(bytes, x + 1, b) <=> \E i \in (x + 1) .. b : At(bytes, x + 1, b, n, i)
      BY <1>5, RecordsAt
    <2>3. n \in RecordsIn(bytes, a, x - 1) <=> \E i \in a .. (x - 1) : At(bytes, a, x - 1, n, i)
      BY <1>5, RecordsAt
    <2> QED
      BY <2>1, <2>2, <2>3, <1>6
  <1>8. /\ RecordsIn(bytes, a, b) \subseteq 1 .. Records
        /\ RecordsIn(bytes, x + 1, b) \subseteq 1 .. Records /\ RecordsIn(bytes, a, x - 1) \subseteq 1 .. Records
    BY DEF RecordsIn
  <1> QED
    BY <1>7, <1>8

\* Lines further on hold newer records.
LEMMA RecordsAscend ==
  ASSUME LossInv, InOrder, NEW a \in Nat \ {0}, NEW b \in Int, NEW c \in Nat, NEW e \in 0 .. Len(alerts),
         b < c, b <= Len(alerts)
  PROVE  \A n \in RecordsIn(alerts, c, e), m \in RecordsIn(alerts, a, b) : n > m
  <1> TAKE n \in RecordsIn(alerts, c, e), m \in RecordsIn(alerts, a, b)
  <1>1. Len(alerts) \in Nat
    BY DEF LossInv
  <1>2. n \in 1 .. Records /\ m \in 1 .. Records
    BY DEF RecordsIn
  <1>3. PICK i \in c .. e : At(alerts, c, e, n, i)
    BY <1>1, <1>2, RecordsAt
  <1>4. PICK j \in a .. b : At(alerts, a, b, m, j)
    BY <1>2, RecordsAt
  <1>5. 1 \in 1 .. Length[n] /\ 1 \in 1 .. Length[m]
    <2>1. Length[n] \in Nat \ {0} /\ Length[m] \in Nat \ {0}
      BY <1>2, LineBytes
    <2> QED
      BY <2>1
  <1>6. alerts[i + 1 - 1] = <<n, 1>> /\ alerts[j + 1 - 1] = <<m, 1>>
    BY <1>3, <1>4, <1>5 DEF At
  <1>7. i + 1 - 1 = i /\ j + 1 - 1 = j /\ i \in 1 .. Len(alerts) /\ j \in 1 .. Len(alerts) /\ j < i
    BY <1>1
  <1>8. n \in Nat /\ m \in Nat /\ n # 0 /\ m # 0
    BY <1>2
  <1>9. <<n, 1>> # NL /\ <<m, 1>> # NL
    BY DEF NL
  <1>10. \/ <<m, 1>>[1] < <<n, 1>>[1]
         \/ <<m, 1>>[1] = <<n, 1>>[1] /\ <<m, 1>>[2] < <<n, 1>>[2]
    <2>1. alerts[i] = <<n, 1>> /\ alerts[j] = <<m, 1>>
      BY <1>6, <1>7
    <2>2. \/ alerts[j][1] < alerts[i][1]
          \/ alerts[j][1] = alerts[i][1] /\ alerts[j][2] < alerts[i][2]
      BY <2>1, <1>7, <1>9 DEF InOrder
    <2> QED
      BY <2>1, <2>2
  <1> QED
    BY <1>8, <1>10

\* The bytes of the line under way come last, in their order, each once.
LEMMA WriteInOrder ==
  ASSUME LossInv, InOrder, NEW m \in 1 .. Len(writing), WriteAlert(m)
  PROVE  InOrder'
  <1> DEFINE B == Begun
             P == Before
             A == Len(alerts)
             R == Length[received]
  <1>0. /\ A \in Nat /\ B \in Nat /\ P \in Nat /\ m \in Nat /\ R \in Nat /\ Len(writing) \in Nat
        /\ P = A - B /\ B = R + 1 - Len(writing) /\ m <= Len(writing)
    BY WriteAdds, Zenon
  <1> HIDE DEF A, B, R, P
  <1>1. A \in Nat /\ B \in Nat /\ P \in Nat /\ P + B = A /\ m \in Nat /\ R \in Nat /\ B + m <= R + 1
    BY <1>0
  <1>2. received \in 1 .. Records /\ received \in Nat /\ received' = received /\ Len(alerts') = A + m
    <2>1. received \in 1 .. Records /\ received' = received /\ Len(alerts') = Len(alerts) + m
      BY WriteAdds, Zenon
    <2> QED
      BY <2>1, LossTypes DEF A
  <1>3. \A k \in 1 .. A : alerts'[k] = alerts[k]
    BY WriteAdds, Zenon DEF A
  <1>4. \A k \in 1 .. B + m : alerts'[P + k] = Line(received)[k]
    BY WriteAdds, Zenon DEF B, P
  <1>5. writing # <<>>
    BY DEF LossInv
  <1>6. ASSUME NEW i \in 1 .. Len(alerts'), alerts'[i] # NL, i > P
        PROVE  alerts'[i] = <<received, i - P>>
    <2>1. i - P \in 1 .. B + m /\ P + (i - P) = i
      BY <1>1, <1>2, <1>6
    <2>2. alerts'[i] = Line(received)[i - P]
      BY <2>1, <1>4
    <2>3. i - P # R + 1
      BY <2>2, <1>2, <1>6, LineBytes DEF R
    <2>4. i - P \in 1 .. R
      BY <2>1, <2>3, <1>1
    <2> QED
      BY <2>2, <2>4, <1>2, LineBytes DEF R
  <1>7. ASSUME NEW i \in 1 .. Len(alerts'), alerts'[i] # NL, ~(i > P)
        PROVE  i \in 1 .. Len(alerts) /\ alerts'[i] = alerts[i] /\ alerts[i][1] \in 1 .. received /\ alerts[i][1] < received
    <2>1. i \in 1 .. Len(alerts)
      BY <1>1, <1>2, <1>7 DEF A
    <2>2. alerts'[i] = alerts[i]
      BY <2>1, <1>3 DEF A
    <2>3. alerts[i][1] \in 1 .. received
      BY <2>1, <2>2, <1>7 DEF InOrder
    <2>4. alerts[i][1] # received
      BY <2>1, <2>2, <1>5, <1>7 DEF InOrder, P
    <2> QED
      BY <2>1, <2>2, <2>3, <2>4, <1>2
  <1>8. ASSUME NEW i \in 1 .. Len(alerts'), alerts'[i] # NL
        PROVE  alerts'[i][1] \in 1 .. received
    BY <1>2, <1>6, <1>7, <1>8
  <1>9. ASSUME NEW i \in 1 .. Len(alerts'), NEW j \in 1 .. Len(alerts'), i < j, alerts'[i] # NL, alerts'[j] # NL
        PROVE  \/ alerts'[i][1] < alerts'[j][1]
               \/ alerts'[i][1] = alerts'[j][1] /\ alerts'[i][2] < alerts'[j][2]
    <2>0. i \in Nat /\ j \in Nat
      OBVIOUS
    <2>1. CASE i > P
      <3>1. alerts'[i] = <<received, i - P>> /\ alerts'[j] = <<received, j - P>>
        BY <2>0, <2>1, <1>1, <1>6, <1>9
      <3>2. i - P < j - P
        BY <2>0, <1>1, <1>9
      <3> QED
        BY <3>1, <3>2
    <2>2. CASE ~(i > P) /\ j > P
      <3>1. alerts'[i][1] < received /\ alerts'[j] = <<received, j - P>>
        BY <2>2, <1>6, <1>7, <1>9
      <3> QED
        BY <3>1
    <2>3. CASE ~(j > P)
      <3>1. ~(i > P)
        BY <2>0, <2>3, <1>1, <1>9
      <3>2. i \in 1 .. Len(alerts) /\ alerts'[i] = alerts[i]
        BY <3>1, <1>7, <1>9
      <3>3. j \in 1 .. Len(alerts) /\ alerts'[j] = alerts[j]
        BY <2>3, <1>7, <1>9
      <3> QED
        BY <3>2, <3>3, <1>9 DEF InOrder
    <2> QED
      BY <2>1, <2>2, <2>3
  <1>10. ASSUME writing' # <<>>, NEW i \in 1 .. Len(alerts'), alerts'[i] # NL, alerts'[i][1] = received
         PROVE  i > Before'
    <2>1. Begun' = Length[received] + 1 - Len(writing')
      BY <1>2, <1>10 DEF Begun
    <2>2. Len(writing') = Len(writing) - m
      BY WriteAdds, Zenon
    <2>5. Before' = (A + m) - (R + 1 - (Len(writing) - m))
      BY <2>1, <2>2, <1>2 DEF Before, R
    <2>3. Before' = P
      BY <2>5, <1>0
    <2>4. i > P
      BY <1>2, <1>7, <1>10
    <2> QED
      BY <2>3, <2>4
  <1> QED
    BY <1>2, <1>8, <1>9, <1>10 DEF InOrder

\* What is appended during a read is beyond what the read looks at.
LEMMA WriteUnread ==
  ASSUME LossInv, ReadInv, NEW m \in 1 .. Len(writing), WriteAlert(m)
  PROVE  ReadInv'
  <1>1. UNCHANGED <<reading, size, end, carry, out>>
    BY DEF WriteAlert, readVars
  <1>2. /\ Len(alerts) \in Nat /\ m \in Nat /\ Len(alerts') = Len(alerts) + m
        /\ \A k \in 1 .. Len(alerts) : alerts'[k] = alerts[k]
    BY WriteAdds
  <1> SUFFICES ASSUME reading PROVE ReadInv'
    BY <1>1 DEF ReadInv
  <1>3. /\ size \in 0 .. Len(alerts) /\ end \in 0 .. size
        /\ carry \in Seq(Bytes) /\ Unread \in end .. size /\ Len(carry) \in Nat
        /\ \A k \in 1 .. Len(carry) : carry[k] = alerts[end + k]
    BY DEF ReadInv, Bytes
  <1>4. Unread' = Unread /\ Unread = end + Len(carry)
    BY <1>1 DEF Unread
  <1>5. ASSUME NEW a \in Nat \ {0}
        PROVE  RecordsIn(alerts', a, size) = RecordsIn(alerts, a, size)
    <2>1. size \in Int /\ a \in Nat
      BY <1>2, <1>3
    <2>2. \A k \in a .. size : alerts'[k] = alerts[k]
      BY <1>2, <1>3
    <2> QED
      BY <2>1, <2>2, RecordsSame
  <1>6. \A k \in 1 .. Len(carry) : carry[k] = alerts'[end + k]
    <2> TAKE k \in 1 .. Len(carry)
    <2>1. end + k \in 1 .. Len(alerts)
      BY <1>2, <1>3, <1>4
    <2> QED
      BY <2>1, <1>2, <1>3
  <1>7. size \in 0 .. Len(alerts')
    BY <1>2, <1>3
  <1>8. CASE end = 0
    <2>1. out = NewestFirst(RecordsIn(alerts', 1, size))
      <3>1. out = NewestFirst(RecordsIn(alerts, 1, size))
        BY <1>8 DEF ReadInv
      <3>2. 1 \in Nat \ {0}
        OBVIOUS
      <3> QED
        BY <3>1, <3>2, <1>5
    <2> QED
      BY <2>1, <1>1, <1>3, <1>4, <1>6, <1>7, <1>8 DEF ReadInv, Bytes
  <1>9. CASE end # 0
    <2>1. Unread + 2 \in Nat \ {0}
      BY <1>3
    <2>2. out = NewestFirst(RecordsIn(alerts', Unread + 2, size))
      BY <2>1, <1>5, <1>9 DEF ReadInv
    <2>3. Unread = size \/ alerts'[Unread + 1] = NL
      <3>1. Unread # size => Unread + 1 \in 1 .. Len(alerts)
        BY <1>2, <1>3
      <3> QED
        BY <3>1, <1>2, <1>9 DEF ReadInv
    <2> QED
      BY <2>2, <2>3, <1>1, <1>3, <1>4, <1>6, <1>7, <1>9 DEF ReadInv, Bytes
  <1> QED
    BY <1>8, <1>9

\* A new webhook has no bytes in the file yet.
LEMMA StoreInOrder ==
  ASSUME LossInv, InOrder, Store
  PROVE  InOrder'
  <1>1. received' = received + 1 /\ received \in Nat /\ alerts' = alerts
    BY LossTypes DEF Store
  <1>2. \A i \in 1 .. Len(alerts) : alerts[i] # NL => alerts[i][1] \in 1 .. received /\ alerts[i][1] \in 1 .. received' /\ alerts[i][1] # received'
    BY <1>1 DEF InOrder
  <1> QED
    BY <1>1, <1>2 DEF InOrder

\* No records are on no line.
LEMMA NoneBeyond ==
  ASSUME NEW bytes, NEW a \in Nat, NEW b \in Int, b < a
  PROVE  NewestFirst(RecordsIn(bytes, a, b)) = <<>>
  <1>1. a .. b = {}
    OBVIOUS
  <1>2. RecordsIn(bytes, a, b) = {}
    BY <1>1 DEF RecordsIn
  <1> QED
    BY <1>2, NewestOfNone

\* A read begins with nothing yielded, at the end of the file.
LEMMA OpenUnread ==
  ASSUME LossInv, OpenForRead
  PROVE  ReadInv'
  <1> DEFINE A == Len(alerts)
  <1>1. A \in Nat
    BY LossTypes
  <1>2. size' = A /\ end' = A /\ carry' = <<>> /\ out' = <<>> /\ alerts' = alerts
    BY DEF OpenForRead, writeVars
  <1>3. Unread' = A
    BY <1>1, <1>2 DEF Unread
  <1> HIDE DEF A
  <1>4. A + 2 \in Nat /\ A < A + 2 /\ A \in Int
    BY <1>1
  <1>5. NewestFirst(RecordsIn(alerts, A + 2, A)) = <<>>
    BY <1>4, NoneBeyond
  <1>6. A = 0 => NewestFirst(RecordsIn(alerts, 1, A)) = <<>>
    BY NoneBeyond
  <1>7. A \in 0 .. Len(alerts) /\ A \in 0 .. A /\ A \in A .. A
    BY <1>1 DEF A
  <1> QED
    BY <1>2, <1>3, <1>5, <1>6, <1>7 DEF ReadInv

\* What a stretch of the file is parsed to.
LEMMA ParsedStretch ==
  ASSUME NEW text, NEW t \in Seq(Bytes), NEW d \in Nat,
         \A k \in 1 .. Len(t) : t[k] = text[d + k]
  PROVE  Parsed(t) = RecordsIn(text, d + 1, d + Len(t))
  <1>1. Len(t) \in Int /\ 1 \in Nat
    OBVIOUS
  <1>2. Parsed(t) = RecordsIn(t, 1, Len(t))
    BY ParsedAreRecordsIn
  <1>3. RecordsIn(t, 1, Len(t)) = RecordsIn(text, d + 1, d + Len(t))
    BY <1>1, RecordsShift
  <1> QED
    BY <1>2, <1>3

\* The lines before the newline at which the read has arrived are older than what it has yielded.
LEMMA OlderLines ==
  ASSUME LossInv, InOrder, NEW e \in 0 .. Len(alerts), NEW u \in 0 .. e, NEW a \in 1 .. (u + 1),
         u = e \/ alerts[u + 1] = NL
  PROVE  NewestFirst(RecordsIn(alerts, u + 2, e)) \o NewestFirst(RecordsIn(alerts, a, u))
           = NewestFirst(RecordsIn(alerts, a, e))
  <1>1. Len(alerts) \in Nat /\ e \in Nat /\ u \in Nat /\ a \in Nat \ {0} /\ u <= e /\ e <= Len(alerts)
    BY LossTypes
  <1>2. CASE u = e
    <2>1. NewestFirst(RecordsIn(alerts, u + 2, e)) = <<>>
      BY <1>1, <1>2, NoneBeyond
    <2>2. RecordsIn(alerts, a, u) \in SUBSET (1 .. Records)
      BY DEF RecordsIn
    <2>3. NewestFirst(RecordsIn(alerts, a, u)) \in Seq(RecordsIn(alerts, a, u))
      BY <2>2, NewestIsFalling, SizesPositive DEF Falling
    <2> QED
      BY <1>2, <2>1, <2>3
  <1>3. CASE u # e
    <2> DEFINE ns == RecordsIn(alerts, u + 2, e)
               ms == RecordsIn(alerts, a, u)
    <2>1. u + 1 \in a .. e /\ (u + 1) + 1 = u + 2 /\ (u + 1) - 1 = u
      BY <1>1, <1>3
    <2>2. RecordsIn(alerts, a, e) = RecordsIn(alerts, (u + 1) + 1, e) \cup RecordsIn(alerts, a, (u + 1) - 1)
      BY <1>1, <1>3, <2>1, RecordsSplit
    <2>3. ns \in SUBSET (1 .. Records) /\ ms \in SUBSET (1 .. Records)
      BY DEF RecordsIn
    <2>4. u \in Int /\ u + 2 \in Nat /\ u < u + 2 /\ u <= Len(alerts)
      BY <1>1
    <2>5. \A n \in ns, m \in ms : n > m
      BY <1>1, <2>4, RecordsAscend
    <2> HIDE DEF ns, ms
    <2>6. NewestFirst(ns \cup ms) = NewestFirst(ns) \o NewestFirst(ms)
      BY <2>3, <2>5, NewestJoins, SizesPositive
    <2> QED
      BY <2>1, <2>2, <2>6 DEF ns, ms
  <1> QED
    BY <1>2, <1>3

\* A step back yields the lines that are now complete, and carries the rest.
LEMMA ChunkUnread ==
  ASSUME LossInv, InOrder, ReadInv, ReadChunk
  PROVE  ReadInv'
  <1> DEFINE u == Unread
             S == IF end > ChunkBytes THEN end - ChunkBytes ELSE 0
             C == SubSeq(alerts, S + 1, end) \o carry
             newlines == {i \in 1 .. Len(C) : C[i] = NL}
             cut == IF S = 0 THEN 0
                    ELSE IF newlines = {} THEN Len(C) + 1
                    ELSE CHOOSE i \in newlines : \A j \in newlines : i <= j
             rest == SubSeq(C, cut + 1, Len(C))
  <1>1. reading /\ end > 0 /\ UNCHANGED <<alerts, reading, size>>
    BY DEF ReadChunk, writeVars
  <1>10. carry' = SubSeq(C, 1, cut - 1) /\ out' = out \o NewestFirst(Parsed(rest)) /\ end' = S
    BY Zenon DEF ReadChunk
  <1>2. /\ alerts \in Seq(Bytes) /\ carry \in Seq(Bytes) /\ size \in 0 .. Len(alerts) /\ end \in 0 .. size
        /\ u \in end .. size /\ u = end + Len(carry)
        /\ \A k \in 1 .. Len(carry) : carry[k] = alerts[end + k]
    BY <1>1, LossTypes DEF ReadInv, Unread, Bytes
  <1>4. Len(alerts) \in Nat /\ Len(carry) \in Nat /\ size \in Nat /\ end \in Nat /\ u \in Nat
    BY <1>2
  <1>3. (u = size \/ alerts[u + 1] = NL) /\ out = NewestFirst(RecordsIn(alerts, u + 2, size))
    <2>1. end # 0
      BY <1>1, <1>4
    <2> QED
      BY <2>1, <1>1 DEF ReadInv
  <1>5. S \in Nat /\ S < end
    <2>1. ChunkBytes \in Nat /\ ChunkBytes # 0
      BY SizesPositive
    <2> QED
      BY <2>1, <1>1, <1>4
  <1> HIDE DEF u, S
  <1>6. /\ SubSeq(alerts, S + 1, end) \in Seq(Bytes) /\ Len(SubSeq(alerts, S + 1, end)) = end - S
        /\ \A k \in 1 .. end - S : SubSeq(alerts, S + 1, end)[k] = alerts[S + k]
    <2>1. S + 1 \in 1 .. Len(alerts) + 1 /\ end \in S .. Len(alerts)
      BY <1>2, <1>4, <1>5
    <2>2. SubSeq(alerts, S + 1, end) \in Seq(Bytes) /\ Len(SubSeq(alerts, S + 1, end)) = end - S
      BY <1>2, <1>4, <1>5, <2>1
    <2>3. \A k \in 1 .. end - S : SubSeq(alerts, S + 1, end)[k] = alerts[S + k]
      BY <1>2, <1>4, <1>5, <2>1
    <2> QED
      BY <2>2, <2>3
  <1> DEFINE front == SubSeq(alerts, S + 1, end)
  <1> HIDE DEF front
  <1>7. C \in Seq(Bytes) /\ Len(C) = u - S
    <2>1. front \o carry \in Seq(Bytes) /\ Len(front \o carry) = Len(front) + Len(carry)
      BY <1>2, <1>6, ConcatProperties DEF front
    <2> QED
      BY <2>1, <1>2, <1>4, <1>5, <1>6 DEF front
  <1>16. C = front \o carry
    BY DEF front
  <1> HIDE DEF C
  <1>8. \A k \in 1 .. u - S : C[k] = alerts[S + k]
    <2> TAKE k \in 1 .. u - S
    <2>1. front \in Seq(Bytes) /\ carry \in Seq(Bytes) /\ Len(front) = end - S /\ C = front \o carry
      BY <1>2, <1>6, <1>16 DEF front
    <2>2. CASE k <= end - S
      <3>1. k \in 1 .. end - S /\ k \in 1 .. Len(front)
        BY <2>1, <2>2, <1>4, <1>5
      <3>2. (front \o carry)[k] = front[k]
        BY <2>1, <3>1, ConcatProperties
      <3> QED
        BY <2>1, <3>1, <3>2, <1>6 DEF front
    <2>3. CASE k > end - S
      <3> DEFINE i == k - (end - S)
      <3>1. i \in 1 .. Len(carry) /\ k = Len(front) + i /\ end + i = S + k
        BY <2>1, <2>3, <1>2, <1>4, <1>5
      <3>2. (front \o carry)[k] = carry[i]
        <4>1. k \in (Len(front) + 1) .. (Len(front) + Len(carry)) /\ k - Len(front) = i
          BY <2>1, <3>1, <1>4, <1>5
        <4> QED
          BY <2>1, <4>1, ConcatProperties
      <3> HIDE DEF i
      <3> QED
        BY <2>1, <3>1, <3>2, <1>2
    <2> QED
      BY <2>2, <2>3, <1>4, <1>5
  <1>9. ASSUME NEW c \in 0 .. Len(C), NEW t, t = SubSeq(C, c + 1, Len(C)),
               (c = 0 /\ S = 0) \/ (c # 0 /\ C[c] = NL)
        PROVE  out \o NewestFirst(Parsed(t)) = NewestFirst(RecordsIn(alerts, S + c + 1, size))
    <2>1. c \in Nat /\ Len(C) \in Nat /\ c <= Len(C)
      BY <1>7
    <2>2. t \in Seq(Bytes) /\ Len(t) = Len(C) - c /\ \A k \in 1 .. Len(C) - c : t[k] = C[c + k]
      <3>1. c + 1 \in 1 .. Len(C) + 1 /\ Len(C) \in c .. Len(C)
        BY <2>1
      <3>2. t = SubSeq(C, c + 1, Len(C))
        BY <1>9
      <3> QED
        BY <2>1, <3>1, <3>2, <1>7
    <2>3. \A k \in 1 .. Len(t) : t[k] = alerts[(S + c) + k]
      <3> TAKE k \in 1 .. Len(t)
      <3>1. k \in 1 .. Len(C) - c /\ c + k \in 1 .. u - S /\ S + (c + k) = (S + c) + k
        BY <2>1, <2>2, <1>4, <1>5, <1>7
      <3> QED
        BY <3>1, <2>2, <1>8
    <2>4. S + c \in Nat /\ (S + c) + Len(t) = u
      <3>1. Len(t) = (u - S) - c
        BY <2>2, <1>7
      <3> QED
        BY <2>1, <3>1, <1>4, <1>5
    <2>5. Parsed(t) = RecordsIn(alerts, (S + c) + 1, (S + c) + Len(t))
      BY <2>2, <2>3, <2>4, ParsedStretch
    <2>6. u \in 0 .. size /\ size \in 0 .. Len(alerts) /\ (S + c) + 1 \in 1 .. (u + 1)
      BY <2>1, <2>4, <1>2, <1>4, <1>5, <1>7
    <2>7. NewestFirst(RecordsIn(alerts, u + 2, size)) \o NewestFirst(RecordsIn(alerts, (S + c) + 1, u))
            = NewestFirst(RecordsIn(alerts, (S + c) + 1, size))
      BY <2>6, <1>3, OlderLines
    <2> QED
      BY <2>4, <2>5, <2>7, <1>3
  <1>11. Len(C) \in Nat /\ newlines \subseteq 1 .. Len(C)
    BY <1>7
  <1>12. size' \in 0 .. Len(alerts') /\ end' \in 0 .. size'
    BY <1>1, <1>2, <1>4, <1>5, <1>10
  <1>13. CASE S = 0
    <2>1. cut = 0
      BY <1>13
    <2> HIDE DEF cut
    <2>2. out' = NewestFirst(RecordsIn(alerts, 1, size))
      <3>1. cut \in 0 .. Len(C) /\ S + cut + 1 = 1
        BY <2>1, <1>11, <1>13
      <3>2. (cut = 0 /\ S = 0) \/ (cut # 0 /\ C[cut] = NL)
        BY <2>1, <1>13
      <3>3. out \o NewestFirst(Parsed(rest)) = NewestFirst(RecordsIn(alerts, S + cut + 1, size))
        BY <3>1, <3>2, <1>9
      <3> QED
        BY <3>1, <3>3, <1>10
    <2>3. carry' = <<>>
      <3>1. carry' = SubSeq(C, 1, -1)
        BY <2>1, <1>10
      <3> QED
        BY <3>1, <1>7
    <2>4. Unread' = 0
      BY <2>3, <1>10, <1>13 DEF Unread
    <2> QED
      BY <2>2, <2>3, <2>4, <1>1, <1>10, <1>12, <1>13 DEF ReadInv
  <1>14. CASE S # 0 /\ newlines = {}
    <2>1. cut = Len(C) + 1
      BY <1>14
    <2> HIDE DEF cut, newlines
    <2>2. carry' = C
      BY <2>1, <1>7, <1>10, <1>11
    <2>3. Len(rest) = 0
      BY <2>1, <1>7, <1>11
    <2> HIDE DEF rest
    <2>4. Parsed(rest) = {}
      BY <2>3 DEF Parsed
    <2>5. out' = out
      <3>1. NewestFirst(Parsed(rest)) = <<>>
        BY <2>4, NewestOfNone
      <3>2. RecordsIn(alerts, u + 2, size) \in SUBSET (1 .. Records)
        BY DEF RecordsIn
      <3>3. out \in Seq(RecordsIn(alerts, u + 2, size))
        BY <3>2, <1>3, NewestIsFalling, SizesPositive DEF Falling
      <3> QED
        BY <3>1, <3>3, <1>10
    <2>6. Unread' = u
      BY <2>2, <1>4, <1>5, <1>7, <1>10 DEF Unread
    <2>7. u \in S .. size /\ \A k \in 1 .. Len(C) : C[k] = alerts[S + k]
      BY <1>2, <1>4, <1>5, <1>7, <1>8
    <2> QED
      BY <2>2, <2>5, <2>6, <2>7, <1>1, <1>3, <1>7, <1>10, <1>12, <1>14 DEF ReadInv, Bytes
  <1>15. CASE S # 0 /\ newlines # {}
    <2>1. cut \in newlines
      <3>1. newlines \in SUBSET Nat
        BY <1>11
      <3>2. \E i \in newlines : \A j \in newlines : i <= j
        BY <3>1, <1>15, LeastNat
      <3>3. cut = CHOOSE i \in newlines : \A j \in newlines : i <= j
        BY <1>15
      <3> HIDE DEF newlines, cut
      <3> QED
        BY <3>2, <3>3
    <2>2. cut \in 1 .. Len(C) /\ C[cut] = NL
      BY <2>1
    <2> HIDE DEF cut, newlines
    <2>3. cut \in Nat /\ cut # 0 /\ cut <= Len(C) /\ cut \in 0 .. Len(C)
      BY <2>2, <1>11
    <2>4. out' = NewestFirst(RecordsIn(alerts, S + cut + 1, size))
      BY <2>2, <2>3, <1>9, <1>10
    <2>5. carry' \in Seq(Bytes) /\ Len(carry') = cut - 1 /\ \A k \in 1 .. cut - 1 : carry'[k] = C[k]
      BY <2>3, <1>7, <1>10, <1>11
    <2>6. Unread' = S + (cut - 1)
      BY <2>5, <1>10 DEF Unread
    <2>7. Unread' + 2 = S + cut + 1 /\ Unread' + 1 = S + cut /\ Unread' \in S .. size
      BY <2>3, <2>6, <1>2, <1>4, <1>5, <1>7
    <2>8. alerts[Unread' + 1] = NL
      <3>1. cut \in 1 .. u - S
        BY <2>3, <1>4, <1>5, <1>7
      <3> QED
        BY <3>1, <2>2, <2>7, <1>8
    <2>9. \A k \in 1 .. Len(carry') : carry'[k] = alerts[S + k]
      <3> TAKE k \in 1 .. Len(carry')
      <3>1. k \in 1 .. cut - 1 /\ k \in 1 .. u - S
        BY <2>3, <2>5, <1>4, <1>5, <1>7
      <3> QED
        BY <3>1, <2>5, <1>8
    <2> QED
      BY <2>4, <2>5, <2>7, <2>8, <2>9, <1>1, <1>10, <1>12, <1>15 DEF ReadInv, Bytes
  <1> QED
    BY <1>13, <1>14, <1>15

\* What has been yielded is what ReadsNewestFirst asks for.
LEMMA ReadYields ==
  ASSUME LossInv, InOrder, ReadInv
  PROVE  ReadsNewestFirst
  <1> SUFFICES ASSUME reading
               PROVE  LET expected == NewestFirst(Parsed(SubSeq(alerts, 1, size))) IN
                      IF end = 0 THEN out = expected ELSE IsPrefix(out, expected)
    BY DEF ReadsNewestFirst
  <1> DEFINE text == SubSeq(alerts, 1, size)
             expected == NewestFirst(Parsed(text))
             u == Unread
  <1>1. alerts \in Seq(Bytes) /\ Len(alerts) \in Nat /\ size \in Nat /\ size <= Len(alerts) /\ end \in Nat /\ u \in end .. size
    BY LossTypes DEF ReadInv
  <1>2. text \in Seq(Bytes) /\ Len(text) = size /\ \A k \in 1 .. size : text[k] = alerts[k]
    BY <1>1
  <1> HIDE DEF text
  <1>3. Parsed(text) = RecordsIn(alerts, 1, size)
    <2>1. Parsed(text) = RecordsIn(text, 1, Len(text)) /\ size \in Int /\ 1 \in Nat
      BY <1>1, <1>2, ParsedAreRecordsIn
    <2> QED
      BY <2>1, <1>2, RecordsSame
  <1>4. CASE end = 0
    BY <1>3, <1>4 DEF ReadInv, text
  <1>5. CASE end # 0
    <2>1. (u = size \/ alerts[u + 1] = NL) /\ out = NewestFirst(RecordsIn(alerts, u + 2, size))
      BY <1>5 DEF ReadInv
    <2> HIDE DEF u
    <2>2. size \in 0 .. Len(alerts) /\ u \in 0 .. size /\ 1 \in 1 .. (u + 1)
      BY <1>1
    <2> DEFINE older == NewestFirst(RecordsIn(alerts, 1, u))
    <2>3. out \o older = expected
      BY <2>1, <2>2, <1>3, OlderLines
    <2>4. out \in Seq(1 .. Records) /\ older \in Seq(1 .. Records)
      <3>1. RecordsIn(alerts, u + 2, size) \in SUBSET (1 .. Records) /\ RecordsIn(alerts, 1, u) \in SUBSET (1 .. Records)
        BY DEF RecordsIn
      <3>2. out \in Seq(RecordsIn(alerts, u + 2, size)) /\ older \in Seq(RecordsIn(alerts, 1, u))
        <4>1. Falling(NewestFirst(RecordsIn(alerts, u + 2, size)), RecordsIn(alerts, u + 2, size))
          BY <3>1, NewestIsFalling, SizesPositive
        <4>2. Falling(older, RecordsIn(alerts, 1, u))
          BY <3>1, NewestIsFalling, SizesPositive
        <4> HIDE DEF older
        <4> QED
          BY <2>1, <4>1, <4>2, Zenon DEF Falling
      <3> HIDE DEF older
      <3> QED
        BY <3>1, <3>2, SeqGrows
    <2> HIDE DEF older, expected
    <2>5. IsPrefix(out, expected)
      BY <2>3, <2>4 DEF IsPrefix
    <2> QED
      BY <2>5, <1>5 DEF expected, text
  <1> QED
    BY <1>4, <1>5

\* A read yields the records that were in the file when it was opened, all of them
\* if it is carried through and newest first in any case, wherever its chunks begin,
\* whatever is appended during it and whatever lines are truncated, for any
\* records and any chunk size (readRecordsNewestFirst).
THEOREM ReadsAreNewestFirst == AlertsSpec => []ReadsNewestFirst
  <1> DEFINE Inv == LossInv /\ InOrder /\ ReadInv
  <1>1. AlertsInit => Inv
    <2> SUFFICES ASSUME AlertsInit PROVE Inv
      OBVIOUS
    <2>1. LossInv
      BY LossInit
    <2>2. InOrder /\ ReadInv
      BY DEF AlertsInit, InOrder, ReadInv
    <2> QED
      BY <2>1, <2>2
  <1>2. Inv /\ [AlertsNext]_alertVars => Inv'
    <2> SUFFICES ASSUME Inv, [AlertsNext]_alertVars PROVE Inv'
      OBVIOUS
    <2>1. LossInv'
      BY LossStep
    <2>2. CASE Store
      <3>1. UNCHANGED <<alerts, reading, size, end, carry, out>>
        BY <2>2 DEF Store, readVars
      <3>2. ReadInv'
        BY <3>1 DEF ReadInv, Unread
      <3> QED
        BY <2>1, <2>2, <3>2, StoreInOrder
    <2>3. CASE CutShort
      <3>1. UNCHANGED <<alerts, received, reading, size, end, carry, out>> /\ writing' = <<>>
        BY <2>3 DEF CutShort, readVars
      <3>2. ReadInv'
        BY <3>1 DEF ReadInv, Unread
      <3>3. InOrder'
        BY <3>1 DEF InOrder
      <3> QED
        BY <2>1, <3>2, <3>3
    <2>4. ASSUME NEW m \in 1 .. Len(writing), WriteAlert(m) PROVE Inv'
      BY <2>1, <2>4, WriteInOrder, WriteUnread
    <2>5. ASSUME UNCHANGED writeVars PROVE InOrder'
      <3>1. UNCHANGED <<alerts, received, writing>>
        BY <2>5 DEF writeVars
      <3>2. Before' = Before
        BY <3>1 DEF Before, Begun
      <3> QED
        BY <3>1, <3>2 DEF InOrder
    <2>6. CASE OpenForRead
      BY <2>1, <2>5, <2>6, OpenUnread DEF OpenForRead
    <2>7. CASE ReadChunk
      BY <2>1, <2>5, <2>7, ChunkUnread DEF ReadChunk
    <2>8. CASE CloseRead
      BY <2>1, <2>5, <2>8 DEF CloseRead, ReadInv
    <2>9. CASE UNCHANGED alertVars
      <3>1. UNCHANGED writeVars /\ UNCHANGED <<alerts, reading, size, end, carry, out>>
        BY <2>9 DEF alertVars, writeVars, readVars
      <3>2. ReadInv'
        BY <3>1 DEF ReadInv, Unread
      <3> QED
        BY <2>1, <2>5, <3>1, <3>2
    <2> QED
      BY <2>2, <2>3, <2>4, <2>6, <2>7, <2>8, <2>9 DEF AlertsNext
  <1>3. Inv => ReadsNewestFirst
    BY ReadYields
  <1> QED
    BY <1>1, <1>2, <1>3, PTL DEF AlertsSpec

================================================================================
