------------------------------- MODULE Semaphore -------------------------------
(***************************************************************************)
(* The counting semaphore that admits HTTP requests (src/util/semaphore.ts)*)
(*                                                                         *)
(* A task is one call of run(fn).  JavaScript is single-threaded, so a     *)
(* step is a stretch of code between two awaits:                           *)
(*   "idle"    run has not been called (or has returned);                  *)
(*   "queued"  acquire() pushed the task's resolver on `queue';            *)
(*   "granted" acquire()'s promise is resolved, but the microtask that     *)
(*             resumes run() has not run: other callers may come in first; *)
(*   "running" fn() is executing.                                          *)
(***************************************************************************)
EXTENDS Naturals, Sequences, FiniteSets

CONSTANTS Task,             \* the calls of run()
          MaxConcurrency    \* the constructor's `max'

ASSUME TaskFinite == IsFiniteSet(Task)
ASSUME MaxIsNat   == MaxConcurrency \in Nat

VARIABLES queue,            \* resolvers of the waiting tasks, oldest first
          active,           \* slots handed out
          pc                \* where each task is

vars == <<queue, active, pc>>

In(state) == {t \in Task : pc[t] = state}

Admitted == In("granted") \cup In("running")

Init ==
  /\ queue = <<>>
  /\ active = 0
  /\ pc = [t \in Task |-> "idle"]

\* acquire() with a free slot: counted at once, resumed a microtask later.
Acquire(t) ==
  /\ pc[t] = "idle"
  /\ active < MaxConcurrency
  /\ active' = active + 1
  /\ pc' = [pc EXCEPT ![t] = "granted"]
  /\ UNCHANGED queue

\* acquire() at the limit: the task waits for release() to hand it a slot.
Enqueue(t) ==
  /\ pc[t] = "idle"
  /\ ~(active < MaxConcurrency)
  /\ queue' = Append(queue, t)
  /\ pc' = [pc EXCEPT ![t] = "queued"]
  /\ UNCHANGED active

\* The microtask that resumes run() after its await: fn() starts.
Start(t) ==
  /\ pc[t] = "granted"
  /\ pc' = [pc EXCEPT ![t] = "running"]
  /\ UNCHANGED <<queue, active>>

\* A slip (issue #151), not the code: the slot is counted out while it is
\* handed over, as if the woken waiter would count itself in again.
TransferCountsOut(t) ==
  /\ queue # <<>>
  /\ queue' = Tail(queue)
  /\ pc' = [pc EXCEPT ![t] = "idle", ![Head(queue)] = "granted"]
  /\ active' = active - 1

\* A slip, not the code: pop() for shift().
TransferToNewest(t) ==
  /\ queue # <<>>
  /\ queue' = SubSeq(queue, 1, Len(queue) - 1)
  /\ pc' = [pc EXCEPT ![t] = "idle", ![queue[Len(queue)]] = "granted"]
  /\ UNCHANGED active

\* A slip, not the code: the resolver is taken off the queue and not called.
TransferWakesNobody(t) ==
  /\ queue # <<>>
  /\ queue' = Tail(queue)
  /\ pc' = [pc EXCEPT ![t] = "idle"]
  /\ UNCHANGED active

\* release() with a waiter: the slot changes hands, `active' does not move.
Transfer(t) ==
  /\ queue # <<>>
  /\ queue' = Tail(queue)
  /\ pc' = [pc EXCEPT ![t] = "idle", ![Head(queue)] = "granted"]
  /\ UNCHANGED active

\* release() with nobody waiting: the slot is given back.
GiveBack(t) ==
  /\ queue = <<>>
  /\ active' = active - 1
  /\ pc' = [pc EXCEPT ![t] = "idle"]
  /\ UNCHANGED queue

\* fn() settles, by a result or by an exception: the finally releases.
Finish(t) ==
  /\ pc[t] = "running"
  /\ Transfer(t) \/ GiveBack(t)

Next == \E t \in Task : Acquire(t) \/ Enqueue(t) \/ Start(t) \/ Finish(t)

(***************************************************************************)
(* A microtask always runs, and fn() always settles: the only fn the       *)
(* clients pass aborts its fetch after requestTimeoutMs.  Nothing makes a  *)
(* caller call.                                                            *)
(***************************************************************************)
Fairness == \A t \in Task : WF_vars(Start(t)) /\ WF_vars(Finish(t))

Spec     == Init /\ [][Next]_vars
FairSpec == Spec /\ Fairness

--------------------------------------------------------------------------------
\* Type of the three variables (queue, active, per-call position).
TypeOK ==
  /\ queue \in Seq(Task)
  /\ active \in Nat
  /\ pc \in [Task -> {"idle", "queued", "granted", "running"}]

\* `active' is exactly the number of tasks holding a slot, the woken waiter
\* that has not resumed yet included: the count never dips below occupancy.
ActiveIsOccupancy == active = Cardinality(Admitted)

\* The waiting resolvers are those of the queued tasks, each present once.
QueueHoldsTheWaiting ==
  /\ {queue[i] : i \in DOMAIN queue} = In("queued")
  /\ \A i, j \in DOMAIN queue : queue[i] = queue[j] => i = j

\* A task waits only while every slot is taken: release() never gives a slot
\* back while somebody is in the queue.
WorkConserving == queue # <<>> => active >= MaxConcurrency

\* Never more than MaxConcurrency calls of fn() in flight (issue #151: a
\* newcomer racing a wake-up must not be admitted beside the woken waiter).
ConcurrencyCap == Cardinality(In("running")) <= MaxConcurrency

\* The strengthening that is inductive.
IInv ==
  /\ TypeOK
  /\ ActiveIsOccupancy
  /\ active <= MaxConcurrency
  /\ QueueHoldsTheWaiting
  /\ WorkConserving

\* First come, first served: no newcomer is admitted past a waiting task, and
\* only the longest waiting task is woken.
FirstComeFirstServed ==
  [][\A t \in Task :
       (pc[t] # "granted" /\ pc'[t] = "granted")
         => IF queue = <<>> THEN pc[t] = "idle" ELSE t = Head(queue)]_vars

\* Every queued call is eventually run: no slot is lost, whatever settles.
WaiterRuns == \A t \in Task : pc[t] = "queued" ~> pc[t] = "running"

\* The semaphore implements the abstract limiter, a task being inside from
\* the moment fn() starts to the moment it settles.
Limiter == INSTANCE BoundedConcurrency WITH inside <- In("running")
LimiterSpec == Limiter!Spec
================================================================================
