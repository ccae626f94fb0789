----------------------------- MODULE MCUpdateClaim -----------------------------
(***************************************************************************)
(* Instances of the update-check election.  IntervalMs is kept above       *)
(* LockStaleMs, as 6 hours is above a minute.                              *)
(***************************************************************************)
EXTENDS UpdateClaim, TLC

ASSUME IntervalIsLonger == IntervalMs > LockStaleMs

Symmetry == Permutations(Proc)
================================================================================
