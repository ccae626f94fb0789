---------------------------- MODULE SemaphoreProofs ----------------------------
(***************************************************************************)
(* The semaphore's inductive invariant, the concurrency cap, the order of  *)
(* service and the refinement of BoundedConcurrency, for every finite set  *)
(* of tasks and every limit.                                               *)
(***************************************************************************)
EXTENDS Semaphore, FiniteSetTheorems, TLAPS

\* What the prover needs to know of a shift of the queue: the rest is the
\* queue moved by one, and it lost exactly its head.
LEMMA TailShifts ==
  ASSUME NEW S, NEW q \in Seq(S), q # <<>>
  PROVE  /\ Tail(q) \in Seq(S)
         /\ Head(q) \in S
         /\ Head(q) = q[1]
         /\ 1 \in DOMAIN q
         /\ \A i \in DOMAIN Tail(q) : i + 1 \in DOMAIN q /\ Tail(q)[i] = q[i + 1]
         /\ \A i \in DOMAIN q : i # 1 => i - 1 \in DOMAIN Tail(q) /\ q[i] = Tail(q)[i - 1]
  OBVIOUS

\* The sets of tasks in a given state are finite.
LEMMA AdmittedFinite == IsFiniteSet(Admitted) /\ IsFiniteSet(In("running"))
  BY TaskFinite, FS_Subset DEF Admitted, In

\* The running tasks are among the admitted ones, so the count of admitted
\* tasks bounds the count of running ones.
LEMMA RunningBounded ==
  /\ Cardinality(In("running")) \in Nat
  /\ Cardinality(Admitted) \in Nat
  /\ Cardinality(In("running")) <= Cardinality(Admitted)
  <1>1. In("running") \subseteq Admitted
    BY DEF Admitted
  <1> QED
    BY <1>1, AdmittedFinite, FS_Subset, FS_CardinalityType

--------------------------------------------------------------------------------
\* Before any call the counter is zero and nobody waits.
LEMMA InitInv == Init => IInv
  <1> SUFFICES ASSUME Init PROVE IInv
    OBVIOUS
  <1>1. Admitted = {} /\ In("queued") = {}
    BY DEF Init, Admitted, In
  <1>2. TypeOK
    BY DEF Init, TypeOK
  <1> QED
    BY <1>1, <1>2, FS_EmptySet, MaxIsNat
    DEF Init, IInv, ActiveIsOccupancy, QueueHoldsTheWaiting, WorkConserving

\* Acquire and Enqueue preserve the invariant: a newcomer is either counted
\* at once or appended to the queue.
LEMMA ArrivalInv ==
  ASSUME IInv, NEW t \in Task, Acquire(t) \/ Enqueue(t)
  PROVE  IInv'
  <1> USE DEF IInv, TypeOK
  <1>1. CASE Acquire(t)
    <2> USE <1>1 DEF Acquire
    <2>1. TypeOK'
      OBVIOUS
    <2>2. Admitted' = Admitted \cup {t} /\ t \notin Admitted
      BY DEF Admitted, In
    <2>3. In("queued")' = In("queued")
      BY DEF In
    <2>4. ActiveIsOccupancy'
      BY <2>2, AdmittedFinite, FS_AddElement DEF ActiveIsOccupancy
    <2>5. (active <= MaxConcurrency)'
      BY MaxIsNat
    <2>6. QueueHoldsTheWaiting'
      BY <2>3 DEF QueueHoldsTheWaiting
    <2>7. WorkConserving'
      BY MaxIsNat DEF WorkConserving
    <2> QED
      BY <2>1, <2>4, <2>5, <2>6, <2>7
  <1>2. CASE Enqueue(t)
    <2> USE <1>2 DEF Enqueue
    <2>1. TypeOK'
      OBVIOUS
    <2>2. Admitted' = Admitted
      BY DEF Admitted, In
    <2>3. In("queued")' = In("queued") \cup {t} /\ t \notin In("queued")
      BY DEF In
    <2>4. /\ DOMAIN queue' = 1 .. Len(queue) + 1
          /\ queue'[Len(queue) + 1] = t
          /\ \A i \in 1 .. Len(queue) : queue'[i] = queue[i]
      OBVIOUS
    <2>5. QueueHoldsTheWaiting'
      BY <2>3, <2>4 DEF QueueHoldsTheWaiting
    <2>6. WorkConserving'
      BY MaxIsNat DEF WorkConserving
    <2> QED
      BY <2>1, <2>2, <2>5, <2>6 DEF ActiveIsOccupancy
  <1> QED
    BY <1>1, <1>2

\* Resuming the woken task moves it inside the admitted set.
LEMMA StartInv ==
  ASSUME IInv, NEW t \in Task, Start(t)
  PROVE  IInv'
  <1> USE DEF IInv, TypeOK, Start
  <1>1. TypeOK'
    OBVIOUS
  <1>2. Admitted' = Admitted /\ In("queued")' = In("queued")
    BY DEF Admitted, In
  <1> QED
    BY <1>1, <1>2 DEF ActiveIsOccupancy, QueueHoldsTheWaiting, WorkConserving

\* Handing the slot over keeps the occupancy: one task leaves the admitted
\* set as the head of the queue enters it.
LEMMA TransferInv ==
  ASSUME IInv, NEW t \in Task, pc[t] = "running", Transfer(t)
  PROVE  IInv'
  <1> DEFINE h == Head(queue)
  <1> USE DEF IInv, TypeOK, Transfer
  <1>1. h \in Task /\ pc[h] = "queued" /\ h # t
    BY TailShifts DEF QueueHoldsTheWaiting, In
  <1>2. TypeOK'
    BY <1>1, TailShifts
  <1>3. pc' = [x \in Task |-> IF x = h THEN "granted" ELSE IF x = t THEN "idle" ELSE pc[x]]
    BY <1>1
  <1>4. Admitted' = (Admitted \ {t}) \cup {h} /\ t \in Admitted /\ h \notin Admitted
    BY <1>1, <1>3 DEF Admitted, In
  <1>5. Cardinality(Admitted') = Cardinality(Admitted)
    <2>1. IsFiniteSet(Admitted \ {t}) /\ h \notin Admitted \ {t}
      BY <1>4, AdmittedFinite, FS_RemoveElement
    <2>2. Cardinality(Admitted \ {t}) = Cardinality(Admitted) - 1
      BY <1>4, AdmittedFinite, FS_RemoveElement
    <2>3. Cardinality((Admitted \ {t}) \cup {h}) = Cardinality(Admitted \ {t}) + 1
      BY <2>1, FS_AddElement
    <2> QED
      BY <1>4, <2>2, <2>3, RunningBounded
  <1>6. In("queued")' = In("queued") \ {h}
    BY <1>1, <1>3 DEF In
  <1>7. QueueHoldsTheWaiting'
    <2>1. \A i \in DOMAIN queue' : queue'[i] \in In("queued") \ {h}
      BY TailShifts DEF QueueHoldsTheWaiting
    <2>2. ASSUME NEW x \in In("queued") \ {h} PROVE \E i \in DOMAIN queue' : queue'[i] = x
      <3>1. PICK j \in DOMAIN queue : queue[j] = x
        BY DEF QueueHoldsTheWaiting
      <3>2. j # 1
        BY <3>1, TailShifts
      <3>3. queue \in Seq(Task) /\ queue # <<>> /\ queue' = Tail(queue)
        OBVIOUS
      <3>4. j - 1 \in DOMAIN Tail(queue) /\ queue[j] = Tail(queue)[j - 1]
        BY <3>1, <3>2, <3>3, TailShifts
      <3> QED
        BY <3>1, <3>3, <3>4
    <2>3. \A i, j \in DOMAIN queue' : queue'[i] = queue'[j] => i = j
      BY TailShifts DEF QueueHoldsTheWaiting
    <2> QED
      BY <1>6, <2>1, <2>2, <2>3 DEF QueueHoldsTheWaiting
  <1> QED
    BY <1>2, <1>5, <1>7 DEF ActiveIsOccupancy, WorkConserving

\* Giving the slot back removes exactly one admitted task.
LEMMA GiveBackInv ==
  ASSUME IInv, NEW t \in Task, pc[t] = "running", GiveBack(t)
  PROVE  IInv'
  <1> USE DEF IInv, TypeOK, GiveBack
  <1>1. Admitted' = Admitted \ {t} /\ t \in Admitted
    BY DEF Admitted, In
  <1>2. /\ Cardinality(Admitted') = Cardinality(Admitted) - 1
        /\ Cardinality(Admitted') \in Nat
    BY <1>1, AdmittedFinite, FS_RemoveElement, FS_CardinalityType
  <1>3. TypeOK'
    BY <1>2 DEF ActiveIsOccupancy
  <1>4. In("queued")' = In("queued")
    BY DEF In
  <1> QED
    BY <1>2, <1>3, <1>4, MaxIsNat
    DEF ActiveIsOccupancy, QueueHoldsTheWaiting, WorkConserving

\* One action per conjunct of Next, and the stuttering step.
LEMMA StepInv == IInv /\ [Next]_vars => IInv'
  <1> SUFFICES ASSUME IInv, [Next]_vars PROVE IInv'
    OBVIOUS
  <1>1. ASSUME NEW t \in Task, Acquire(t) \/ Enqueue(t) PROVE IInv'
    BY <1>1, ArrivalInv
  <1>2. ASSUME NEW t \in Task, Start(t) PROVE IInv'
    BY <1>2, StartInv
  <1>3. ASSUME NEW t \in Task, Finish(t) PROVE IInv'
    BY <1>3, TransferInv, GiveBackInv DEF Finish
  <1>4. CASE UNCHANGED vars
    BY <1>4 DEF vars, IInv, TypeOK, ActiveIsOccupancy, Admitted, In,
                QueueHoldsTheWaiting, WorkConserving
  <1> QED
    BY <1>1, <1>2, <1>3, <1>4 DEF Next

\* The slot accounting of the semaphore holds in every state, for any number
\* of concurrent calls and any limit.
THEOREM SlotAccounting == Spec => []IInv
  BY InitInv, StepInv, PTL DEF Spec

\* Never more than MaxConcurrency requests are in flight.
THEOREM CapIsNeverExceeded == Spec => []ConcurrencyCap
  <1>1. IInv => ConcurrencyCap
    BY RunningBounded, MaxIsNat DEF IInv, TypeOK, ActiveIsOccupancy, ConcurrencyCap
  <1> QED
    BY <1>1, SlotAccounting, PTL

--------------------------------------------------------------------------------
\* A step of one task's queueing: what becomes granted was idle with nobody
\* waiting, or was the head of the queue.
GrantsInOrder ==
  \A t \in Task : (pc[t] # "granted" /\ pc'[t] = "granted")
                    => IF queue = <<>> THEN pc[t] = "idle" ELSE t = Head(queue)

\* Calls are admitted in the order they came: nobody overtakes a waiter.
THEOREM ServedInOrder == Spec => FirstComeFirstServed
  <1>1. IInv /\ [Next]_vars => [GrantsInOrder]_vars
    <2> SUFFICES ASSUME IInv, Next PROVE GrantsInOrder
      OBVIOUS
    <2> USE DEF IInv, TypeOK
    <2>1. ASSUME NEW t \in Task, Acquire(t) PROVE GrantsInOrder
      BY <2>1, MaxIsNat DEF Acquire, GrantsInOrder, WorkConserving
    <2>2. ASSUME NEW t \in Task, Enqueue(t) \/ Start(t) PROVE GrantsInOrder
      BY <2>2 DEF Enqueue, Start, GrantsInOrder
    <2>3. ASSUME NEW t \in Task, Finish(t) PROVE GrantsInOrder
      BY <2>3, TailShifts DEF Finish, Transfer, GiveBack, GrantsInOrder
    <2> QED
      BY <2>1, <2>2, <2>3 DEF Next
  <1> QED
    BY <1>1, SlotAccounting, PTL DEF Spec, FirstComeFirstServed, GrantsInOrder

\* Every step of the semaphore is a step of the abstract limiter or leaves
\* the set of running tasks alone.
LEMMA StepRefines == IInv /\ [Next]_vars => [Limiter!Next]_(In("running"))
  <1> SUFFICES ASSUME IInv, [Next]_vars
               PROVE  Limiter!Next \/ UNCHANGED In("running")
    OBVIOUS
  <1> USE DEF IInv, TypeOK
  <1>1. ASSUME NEW t \in Task, Acquire(t) \/ Enqueue(t)
        PROVE  UNCHANGED In("running")
    BY <1>1 DEF Acquire, Enqueue, In
  <1>2. ASSUME NEW t \in Task, Start(t) PROVE Limiter!Enter(t)
    <2> USE <1>2 DEF Start
    <2>1. t \notin In("running") /\ In("running")' = In("running") \cup {t}
      BY DEF In
    <2>2. Cardinality(In("running") \cup {t}) <= Cardinality(Admitted)
      <3>1. In("running") \cup {t} \subseteq Admitted
        BY DEF Admitted, In
      <3> QED
        BY <3>1, AdmittedFinite, FS_Subset
    <2>3. Cardinality(In("running") \cup {t}) = Cardinality(In("running")) + 1
      BY <2>1, AdmittedFinite, FS_AddElement
    <2>4. Cardinality(In("running")) < MaxConcurrency
      BY <2>2, <2>3, RunningBounded, MaxIsNat DEF ActiveIsOccupancy
    <2> QED
      BY <2>1, <2>4 DEF Limiter!Enter, Limiter!Cardinality, Cardinality
  <1>3. ASSUME NEW t \in Task, Finish(t) PROVE Limiter!Leave(t)
    <2>1. CASE Transfer(t)
      <3>1. Head(queue) \in Task /\ pc[Head(queue)] = "queued" /\ Head(queue) # t
        BY <1>3, <2>1, TailShifts DEF Finish, Transfer, QueueHoldsTheWaiting, In
      <3> QED
        BY <1>3, <2>1, <3>1 DEF Finish, Transfer, In, Limiter!Leave
    <2>2. CASE GiveBack(t)
      BY <1>3, <2>2 DEF Finish, GiveBack, In, Limiter!Leave
    <2> QED
      BY <1>3, <2>1, <2>2 DEF Finish
  <1>4. CASE UNCHANGED vars
    BY <1>4 DEF vars, In
  <1> QED
    BY <1>1, <1>2, <1>3, <1>4 DEF Next, Limiter!Next

\* The semaphore implements the abstract limiter.
THEOREM SemaphoreIsALimiter == Spec => LimiterSpec
  <1>1. Init => Limiter!Init
    BY DEF Init, Limiter!Init, In
  <1> QED
    BY <1>1, StepRefines, SlotAccounting, PTL DEF Spec, LimiterSpec, Limiter!Spec
================================================================================
