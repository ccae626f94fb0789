--------------------------- MODULE MCConnectionStore ---------------------------
(***************************************************************************)
(* Instances of the connection store: three identifiers are enough for a   *)
(* connection being written, one already there and one more created while  *)
(* the first is in progress; two keys for a match and a creation.          *)
(***************************************************************************)
EXTENDS ConnectionStore, TLC

CONSTANTS k1, k2

E(k, a, s) == [key |-> k, auth |-> a, secret |-> s]

\* Import files: two basic entries given the shared password, and a bearer
\* entry, which never comes with a secret.
TwoManifests == {<<E(k1, "basic", TRUE), E(k2, "basic", TRUE)>>, <<E(k2, "bearer", FALSE)>>}
NoManifests  == {}

\* Whatever the form may hold.
AnyDraft == DraftOf("save")

AuthTypes == {"basic", "bearer"}

Symmetry == Permutations(Id)
================================================================================
