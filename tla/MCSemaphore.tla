------------------------------ MODULE MCSemaphore ------------------------------
(***************************************************************************)
(* Five calls and two slots: two running, one woken but not resumed, and   *)
(* two more that may queue or come in fresh in every order.                *)
(***************************************************************************)
EXTENDS Semaphore

================================================================================
