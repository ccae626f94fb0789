---------------------------- MODULE MCAuditRotation ----------------------------
(***************************************************************************)
(* Instances of the rotation: three generations, so that one in the middle *)
(* can be hit; lines enough for every slot and one generation dropped.     *)
(***************************************************************************)
EXTENDS AuditRotation

================================================================================
