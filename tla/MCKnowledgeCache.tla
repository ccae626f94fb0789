---------------------------- MODULE MCKnowledgeCache ----------------------------
(***************************************************************************)
(* Instances of the knowledge cache: one dashboard above the folder that   *)
(* lookups start in, one in a folder that is nobody's ancestor, and a      *)
(* cycle of two folders.                                                   *)
(***************************************************************************)
EXTENDS KnowledgeCache, TLC

CONSTANTS d1, d2, top, f1, f2

Cycle    == [f \in Folder |-> IF f = f1 THEN f2 ELSE IF f = f2 THEN f1 ELSE None]
Elsewhere == [d \in Dash |-> IF d = d1 THEN f2 ELSE top]

\* The dashboard above gets its panel for the product by an edit.
Published == {<<d1, 1>>, <<d2, 0>>, <<d2, 1>>}

Symmetry == Permutations(Call)
================================================================================
