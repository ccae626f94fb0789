------------------------------ MODULE UpdateClaim ------------------------------
(***************************************************************************)
(* The election of the process that checks for updates                     *)
(* (electron/src/updateCheckClaim.js).  Several processes share a          *)
(* directory holding a stamp file and a lock file; a step is one system    *)
(* call of claimUpdateCheck(), and processes interleave between any two.   *)
(*                                                                         *)
(* Time is kept as ages: of the two files (since their mtime) and of the   *)
(* `now' each call captured when it began.  The code's test                *)
(* now - mtime < limit is then age - lag < limit, and an age may saturate  *)
(* at limit + MaxLag without changing any test's outcome.                  *)
(***************************************************************************)
EXTENDS Integers, FiniteSets

CONSTANTS Proc,        \* the processes sharing userData
          IntervalMs,  \* intervalMs, in ticks
          LockStaleMs, \* LOCK_STALE_MS, in ticks
          MaxLag,      \* bound: a call that does not die ends within MaxLag ticks
          MaxFaults    \* bound: crashes inside a call and failed stamp writes

ASSUME ProcFinite == IsFiniteSet(Proc)
ASSUME TimesArePositive ==
  /\ IntervalMs \in Nat \ {0}
  /\ LockStaleMs \in Nat \ {0}
  /\ MaxLag \in Nat
  /\ MaxFaults \in Nat

VARIABLES stamp,   \* age of last-update-check, or Absent
          lock,    \* age of last-update-check.lock, or Absent
          pc,      \* the next system call of each process
          lag,     \* ticks since the process captured `now'
          claimed, \* ticks since the process's call returned true, or Never
          barred,  \* history: the call began within the interval of a claim
          faults

vars == <<stamp, lock, pc, lag, claimed, barred, faults>>

Absent == -1
Never  == -1

Calls == {"statStamp", "openLock", "statLock", "unlinkStale", "reopenLock",
          "writeStamp", "unlockTrue", "unlockFalse"}

\* The calls made while holding the file descriptor of the lock.
Holding == {"writeStamp", "unlockTrue", "unlockFalse"}

\* now - mtime < limit, for the call of process p.
Younger(age, p, limit) == age - lag[p] < limit

Init ==
  /\ stamp \in {Absent, 0, IntervalMs}
  /\ lock = Absent
  /\ pc = [p \in Proc |-> "idle"]
  /\ lag = [p \in Proc |-> 0]
  /\ claimed = [p \in Proc |-> Never]
  /\ barred = [p \in Proc |-> FALSE]
  /\ faults = 0

\* Some process was told to check, less than the interval ago (its stamp may
\* be older than its answer by the length of its call).
ClaimedRecently == \E q \in Proc : claimed[q] # Never /\ claimed[q] + MaxLag < IntervalMs

\* A process starts and calls claimUpdateCheck(), capturing Date.now().
Begin(p) ==
  /\ pc[p] = "idle"
  /\ pc' = [pc EXCEPT ![p] = "statStamp"]
  /\ lag' = [lag EXCEPT ![p] = 0]
  /\ barred' = [barred EXCEPT ![p] = ClaimedRecently]
  /\ UNCHANGED <<stamp, lock, claimed, faults>>

Goto(p, call) == pc' = [pc EXCEPT ![p] = call]

\* return false, with no file of ours left behind.
Decline(p) ==
  /\ Goto(p, "idle")
  /\ UNCHANGED <<stamp, lock, claimed>>

\* A slip, not the code: the stamp's age is held against LOCK_STALE_MS.
StatStampAsLock(p) ==
  /\ pc[p] = "statStamp"
  /\ IF stamp # Absent /\ Younger(stamp, p, LockStaleMs)
     THEN Decline(p)
     ELSE Goto(p, "openLock") /\ UNCHANGED <<stamp, lock, claimed>>
  /\ UNCHANGED <<lag, barred, faults>>

\* statSync(stampPath): a recent stamp stands the process down, and a missing
\* one is an invitation.
StatStamp(p) ==
  /\ pc[p] = "statStamp"
  /\ IF stamp # Absent /\ Younger(stamp, p, IntervalMs)
     THEN Decline(p)
     ELSE Goto(p, "openLock") /\ UNCHANGED <<stamp, lock, claimed>>
  /\ UNCHANGED <<lag, barred, faults>>

CreateLock(p) ==
  /\ lock = Absent
  /\ lock' = 0
  /\ Goto(p, "writeStamp")
  /\ UNCHANGED <<stamp, claimed>>

\* openSync(lockPath, 'wx'): atomic, fails when the file exists.
OpenLock(p) ==
  /\ pc[p] = "openLock"
  /\ \/ CreateLock(p)
     \/ /\ lock # Absent
        /\ Goto(p, "statLock")
        /\ UNCHANGED <<stamp, lock, claimed>>
  /\ UNCHANGED <<lag, barred, faults>>

\* Slips, not the code: any lock declines; any lock is taken for stale.
StatLockDeclines(p) == pc[p] = "statLock" /\ Decline(p) /\ UNCHANGED <<lag, barred, faults>>

StatLockReclaims(p) ==
  /\ pc[p] = "statLock"
  /\ IF lock = Absent
     THEN Decline(p)
     ELSE Goto(p, "unlinkStale") /\ UNCHANGED <<stamp, lock, claimed>>
  /\ UNCHANGED <<lag, barred, faults>>

\* statSync(lockPath) after EEXIST: a young lock belongs to a live sibling; a
\* lock gone in the meantime makes statSync throw, which declines too.
StatLock(p) ==
  /\ pc[p] = "statLock"
  /\ IF lock = Absent \/ Younger(lock, p, LockStaleMs)
     THEN Decline(p)
     ELSE Goto(p, "unlinkStale") /\ UNCHANGED <<stamp, lock, claimed>>
  /\ UNCHANGED <<lag, barred, faults>>

\* unlinkSync(lockPath): removes the path, whichever lock file it names now.
UnlinkStale(p) ==
  /\ pc[p] = "unlinkStale"
  /\ IF lock = Absent
     THEN Decline(p)
     ELSE /\ lock' = Absent
          /\ Goto(p, "reopenLock")
          /\ UNCHANGED <<stamp, claimed>>
  /\ UNCHANGED <<lag, barred, faults>>

ReopenLock(p) ==
  /\ pc[p] = "reopenLock"
  /\ CreateLock(p) \/ (lock # Absent /\ Decline(p))
  /\ UNCHANGED <<lag, barred, faults>>

\* writeFileSync(stampPath): its mtime is the gate of every later call.
WriteStamp(p) ==
  /\ pc[p] = "writeStamp"
  /\ stamp' = 0
  /\ Goto(p, "unlockTrue")
  /\ UNCHANGED <<lock, lag, claimed, barred, faults>>

\* The write throws (disk full, permissions): the call will answer false.
WriteStampFails(p) ==
  /\ pc[p] = "writeStamp"
  /\ faults < MaxFaults
  /\ faults' = faults + 1
  /\ Goto(p, "unlockFalse")
  /\ UNCHANGED <<stamp, lock, lag, claimed, barred>>

\* The finally: unlink whatever the lock path names ("already gone" is
\* ignored), then return.
Unlock(p) ==
  /\ pc[p] \in {"unlockTrue", "unlockFalse"}
  /\ lock' = Absent
  /\ claimed' = IF pc[p] = "unlockTrue" THEN [claimed EXCEPT ![p] = 0] ELSE claimed
  /\ Goto(p, "idle")
  /\ UNCHANGED <<stamp, lag, barred, faults>>

\* The process is killed inside a call; a later launch reuses its slot.
Crash(p) ==
  /\ pc[p] # "idle"
  /\ faults < MaxFaults
  /\ faults' = faults + 1
  /\ Goto(p, "idle")
  /\ UNCHANGED <<stamp, lock, lag, claimed, barred>>

Older(age, limit) ==
  IF age = Absent THEN Absent ELSE IF age < limit + MaxLag THEN age + 1 ELSE age

\* Time passes for everybody.
Tick ==
  /\ \A p \in Proc : pc[p] # "idle" => lag[p] < MaxLag
  /\ stamp' = Older(stamp, IntervalMs)
  /\ lock' = Older(lock, LockStaleMs)
  /\ lag' = [p \in Proc |-> IF pc[p] = "idle" THEN 0 ELSE lag[p] + 1]
  /\ claimed' = [p \in Proc |-> IF claimed[p] = Never \/ claimed[p] + 1 >= IntervalMs
                                THEN Never ELSE claimed[p] + 1]
  /\ UNCHANGED <<pc, barred, faults>>

Step(p) ==
  \/ StatStamp(p) \/ OpenLock(p) \/ StatLock(p) \/ UnlinkStale(p)
  \/ ReopenLock(p) \/ WriteStamp(p) \/ Unlock(p)

Next ==
  \/ \E p \in Proc : Begin(p) \/ Step(p) \/ WriteStampFails(p) \/ Crash(p)
  \/ Tick

Spec == Init /\ [][Next]_vars

(***************************************************************************)
(* A running process makes its next call, time passes, and sessions keep   *)
(* being opened (each launch calls once): what the header relies on with   *)
(* "the next process, or the next session, tries again".                   *)
(***************************************************************************)
FairSpec ==
  /\ Spec
  /\ WF_vars(Tick)
  /\ \A p \in Proc : WF_vars(Step(p)) /\ WF_vars(Begin(p))

--------------------------------------------------------------------------------
\* Types of the files' ages and of the processes' positions.
TypeOK ==
  /\ stamp \in {Absent} \cup 0 .. IntervalMs + MaxLag
  /\ lock \in {Absent} \cup 0 .. LockStaleMs + MaxLag
  /\ pc \in [Proc -> Calls \cup {"idle"}]
  /\ lag \in [Proc -> 0 .. MaxLag]
  /\ claimed \in [Proc -> {Never} \cup 0 .. IntervalMs - 1]
  /\ barred \in [Proc -> BOOLEAN]
  /\ faults \in 0 .. MaxFaults

\* Staggered starts produce one check per interval: a call that begins within
\* the interval of somebody's claim stands down at the stamp, however it
\* interleaves with others and whoever dies in between.
StaggeredStartsStandDown ==
  \A p \in Proc : barred[p] => pc[p] \in {"idle", "statStamp"}

\* The lock excludes as long as nobody dies holding it: two calls are never
\* both between creating the lock and unlinking it.  (Once a lock is orphaned,
\* the second of two reclaimers may unlink the lock the first has just taken.)
LockExcludes == faults = 0 => Cardinality({p \in Proc : pc[p] \in Holding}) <= 1

\* The strengthening behind it, process by process: a recent claim means a
\* recent stamp, since the stamp is written before the claim is answered; and
\* the age that a barred call will compute is below the interval.
Sound(p) ==
  /\ pc[p] = "unlockTrue" => stamp # Absent /\ stamp <= lag[p]
  /\ claimed[p] # Never => stamp # Absent /\ stamp <= claimed[p] + MaxLag
  /\ barred[p] /\ pc[p] = "statStamp" => stamp # Absent /\ Younger(stamp, p, IntervalMs)
  /\ barred[p] => pc[p] \in {"idle", "statStamp"}

IInv == TypeOK /\ \A p \in Proc : Sound(p)

\* The strengthening behind LockExcludes: the lock is there exactly while
\* somebody holds it, no older than the holder's call, so nobody takes it for stale.
LockInv ==
  faults = 0 =>
    /\ \A p, q \in Proc : pc[p] \in Holding /\ pc[q] \in Holding => p = q
    /\ \A p \in Proc : pc[p] \in Holding => lock # Absent /\ lock <= lag[p]
    /\ lock # Absent => \E p \in Proc : pc[p] \in Holding
    /\ \A p \in Proc : pc[p] \notin {"unlinkStale", "reopenLock"}

\* A lock left behind by a dead process is eventually removed: no crash
\* silences update checks for good.
OrphanLockReclaimed == lock # Absent ~> lock = Absent

================================================================================
