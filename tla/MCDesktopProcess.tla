--------------------------- MODULE MCDesktopProcess ---------------------------
(***************************************************************************)
(* Instances of the process: the watchdog off or on (two ticks of          *)
(* silence), one request at a time, and callers enough for one who starts  *)
(* a check, one who joins it or comes during the download.                 *)
(***************************************************************************)
EXTENDS DesktopProcess

OnAndOff == {0, 2}
================================================================================
