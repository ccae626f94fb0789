-------------------------- MODULE BoundedConcurrency --------------------------
(***************************************************************************)
(* What a concurrency limiter promises its callers, with no mention of how *)
(* the slots are counted or who is woken next: a set of tasks is inside    *)
(* the limited region, a task enters only while fewer than MaxConcurrency  *)
(* are inside, and every task inside leaves.                               *)
(***************************************************************************)
EXTENDS Naturals, FiniteSets

CONSTANTS Task, MaxConcurrency

VARIABLE inside

Init == inside = {}

Enter(t) ==
  /\ t \notin inside
  /\ Cardinality(inside) < MaxConcurrency
  /\ inside' = inside \cup {t}

Leave(t) ==
  /\ t \in inside
  /\ inside' = inside \ {t}

Next == \E t \in Task : Enter(t) \/ Leave(t)

Spec == Init /\ [][Next]_inside
===============================================================================
