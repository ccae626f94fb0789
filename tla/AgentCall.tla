------------------------------- MODULE AgentCall -------------------------------
(***************************************************************************)
(* What the tools of an investigation share: the Grafana connections that  *)
(* are configured when a call asks for them (ConnectionRegistry.list), the *)
(* call in flight, and the answer of the last one.                         *)
(***************************************************************************)
CONSTANTS
  Conn, Primary,            \* the Grafana connections, and the alerting panel's own
  Now                       \* the present

VARIABLES
  listed,      \* connections that are configured
  call,        \* the tool call in flight
  answer       \* the answer of the last one

Idle   == [at |-> "idle"]
Silent == [tool |-> "none"]

At(place) == call.at = place

\* The call ends, whatever of it is still under way; an error answers nothing.
Closes(with) == call' = Idle /\ answer' = with
Errs       == Closes(Silent)
Goes(to)   == call' = to /\ answer' = Silent
================================================================================
