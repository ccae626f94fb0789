------------------------------ MODULE IdleShutdown ------------------------------
(***************************************************************************)
(* How a --mcp-server process decides to stop: the idle watchdog           *)
(* (src/idleShutdown.ts), the guard on the stdio pipes that reports a      *)
(* departed client to it (src/stdioPipe.ts), their wiring                  *)
(* (src/server.ts) and the host's veto, idleShutdownGuard                  *)
(* (electron/src/main.js).                                                 *)
(*                                                                         *)
(* Everything runs on one JavaScript thread: a step is one callback (a     *)
(* timer tick, a stream event, a message, a window closing) with the       *)
(* microtasks it queues.  The clock counts watchdog ticks of recheckMs.    *)
(***************************************************************************)
EXTENDS Integers, FiniteSets

CONSTANTS Thresholds,   \* settings of IDLE_SHUTDOWN_MINUTES, in ticks
          MaxInFlight   \* bound: requests being served at once

VARIABLES idleMinutes,  \* fixed: the threshold; <= 0 disables the watchdog
          guarded,      \* fixed: TRUE, the Electron app's guard; FALSE, the CLI's exit
          clientAlive,  \* the process at the other end of the pipes
          pending,      \* stream events queued for this process
          reported,     \* stdioPipe: the client is known gone
          reason,       \* idleShutdown: why it proposes to stop
          handled,      \* idleShutdown: the decision was taken for good
          silence,      \* ticks since lastActivity
          inFlight,     \* requests received and not answered
          windows,      \* the windows open: "activity", "connections"
          downloading,  \* updater.js: downloadInProgress
          exited,
          written       \* history: the lines these parts wrote to stderr since the
                        \* last tick, but for those that logWhileConnected allows

settings   == <<idleMinutes, guarded>>
clientVars == <<clientAlive, inFlight>>
watchVars  == <<reason, handled, silence, exited>>
hostVars   == <<settings, windows, downloading>>
vars == <<clientVars, pending, reported, watchVars, hostVars, written>>

\* What the streams tell.  Errors of stdout and of stderr are handled alike: by
\* whether the code is one that tells, like the end of stdin, of a departure
\* (DISCONNECT_CODES), or not (EIO, ENOSPC).
Events  == {"departure", "fault"}
Windows == {"activity", "connections"}

Enabled == idleMinutes > 0

\* Lines are counted up to a bound that the code does not reach.
MaxWritten == 4

Init ==
  /\ idleMinutes \in Thresholds
  /\ guarded \in BOOLEAN
  /\ clientAlive = TRUE
  /\ pending = {}
  /\ reported = FALSE
  /\ reason = "idle"
  /\ handled = FALSE
  /\ silence = 0
  /\ inFlight = 0
  /\ windows = {}
  /\ downloading = FALSE
  /\ exited = FALSE
  /\ written = 0

--------------------------------------------------------------------------------
\* isDisconnectError: the events a write may come back as, if it fails.  A pipe is
\* found broken only when its reader is gone; the file or the terminal that may be
\* there instead can fail at any time.
MayFailWith == IF clientAlive THEN {"fault"} ELSE {"departure", "fault"}

\* n lines are written to stderr, of which any may fail.
Log(n, queued) ==
  \E failures \in SUBSET MayFailWith :
    /\ Cardinality(failures) <= n
    /\ pending' = queued \cup failures

Counted(n) == IF n < MaxWritten THEN n ELSE MaxWritten

\* A slip, not the code: the windows are left out.
VetoedByDownload == guarded /\ downloading

\* idleShutdownGuard: the two vetoes, an update mid-download and an open window.
Vetoed == guarded /\ (downloading \/ windows # {})

\* A slip, not the code: the latch is set whatever the host answers.
DecideForGood ==
  /\ handled' = TRUE
  /\ exited' = (exited \/ ~Vetoed)

\* onIdle and what check() makes of its answer: `false' leaves the watchdog
\* polling, anything else stops it for good, and here the process with it.
\* The guard logs one line either way.
Decide ==
  /\ handled' = (handled \/ ~Vetoed)
  /\ exited' = (exited \/ ~Vetoed)

DecideNothing == UNCHANGED <<handled, exited>>

\* check(): a disconnected client skips the clock.
Due(why, quiet) ==
  /\ Enabled
  /\ ~handled
  /\ why = "client-disconnected" \/ quiet >= idleMinutes

\* The interval fires.
Poll ==
  /\ ~exited
  /\ silence' = IF silence < idleMinutes THEN silence + 1 ELSE silence
  /\ LET lines == IF Due(reason, silence') THEN 1 ELSE 0 IN
     /\ IF Due(reason, silence') THEN Decide ELSE DecideNothing
     /\ Log(lines, pending)
     /\ written' = lines
  /\ UNCHANGED <<clientVars, reported, reason, hostVars>>

\* The report of a departure: a line, and the watchdog's check at once, which
\* may write its own.
Report(rest) ==
  /\ reported' = TRUE
  /\ reason' = IF Enabled THEN "client-disconnected" ELSE reason
  /\ LET due   == Due("client-disconnected", silence)
         lines == IF due THEN 2 ELSE 1 IN
     /\ IF due THEN Decide ELSE DecideNothing
     /\ Log(lines, rest)
     /\ written' = Counted(written + lines)

\* A slip (issue #252), not the code: nothing latches, so that every failure
\* is reported, in lines that fail in their turn.
ReportEveryTime(rest) == Report(rest)

\* A stream event, or a send, tells that the client is gone.  reportClientGone
\* logs one line and latches; a known departure is swallowed in silence.
ReportClientGone(rest) ==
  IF ~reported THEN Report(rest)
  ELSE /\ pending' = rest
       /\ UNCHANGED <<reported, reason, handled, exited, written>>

\* A slip, not the code: the fault is logged whether the client is known gone or not.
LogAnyway(rest) ==
  /\ Log(1, rest)
  /\ written' = IF reported THEN Counted(written + 1) ELSE written
  /\ UNCHANGED <<reported, reason, handled, exited>>

\* logWhileConnected: any other error is no evidence of a departure.  It gets a
\* line, which may fail like the one before, until the client is known gone.
LogWhileConnected(rest) ==
  /\ IF reported THEN pending' = rest ELSE Log(1, rest)
  /\ UNCHANGED <<reported, reason, handled, exited, written>>

StreamEvent(e) ==
  /\ ~exited
  /\ e \in pending
  /\ IF e = "fault" THEN LogWhileConnected(pending \ {e}) ELSE ReportClientGone(pending \ {e})
  /\ UNCHANGED <<clientVars, silence, hostVars>>

\* A line of anything else in the process: the updater and the logger it gives to
\* electron-updater, the tools, the app.  It concerns these parts if it fails.
OtherLine ==
  /\ ~exited
  /\ \E failure \in MayFailWith : pending' = pending \cup {failure}
  /\ UNCHANGED <<clientVars, reported, watchVars, hostVars, written>>

--------------------------------------------------------------------------------
\* Any JSON-RPC message: onmessage notes the time, then serves it.
Message ==
  /\ ~exited /\ clientAlive
  /\ inFlight < MaxInFlight
  /\ silence' = 0
  /\ inFlight' \in {inFlight, inFlight + 1}    \* a notification or a request
  /\ UNCHANGED <<clientAlive, pending, reported, reason, handled, exited, hostVars, written>>

\* A tool call being served records an activity entry: the Electron app shows
\* it in the Activity window, created if it is not there.
RecordActivity ==
  /\ ~exited /\ guarded
  /\ inFlight > 0
  /\ windows' = windows \cup {"activity"}
  /\ UNCHANGED <<clientVars, pending, reported, watchVars, settings, downloading, written>>

\* A tool call answers.  The write may fail: as an 'error' event on stdout, or in
\* send() itself, which reports a departure and throws anything else on to its
\* caller, the SDK.
Respond ==
  /\ ~exited
  /\ inFlight > 0
  /\ inFlight' = inFlight - 1
  /\ \/ "departure" \in MayFailWith /\ ReportClientGone(pending)
     \/ Log(1, pending) /\ UNCHANGED <<reported, reason, handled, exited, written>>
  /\ UNCHANGED <<clientAlive, silence, hostVars>>

\* The client exits, and both output pipes are dead.  The end of stdin tells so,
\* unless another process still holds the other end of it.
ClientLeaves ==
  /\ ~exited /\ clientAlive
  /\ clientAlive' = FALSE
  /\ pending' \in {pending, pending \cup {"departure"}}
  /\ UNCHANGED <<inFlight, reported, watchVars, hostVars, written>>

\* The user opens the Connections window from the menu, or closes a window.
OpenConnections ==
  /\ ~exited /\ guarded
  /\ windows' = windows \cup {"connections"}
  /\ UNCHANGED <<clientVars, pending, reported, watchVars, settings, downloading, written>>

CloseWindow ==
  /\ ~exited
  /\ \E w \in windows : windows' = windows \ {w}
  /\ UNCHANGED <<clientVars, pending, reported, watchVars, settings, downloading, written>>

Next ==
  \/ Poll
  \/ \E e \in Events : StreamEvent(e)
  \/ OtherLine
  \/ Message \/ RecordActivity \/ Respond \/ ClientLeaves
  \/ OpenConnections \/ CloseWindow

--------------------------------------------------------------------------------
\* Types of the watchdog's, the pipe guard's and the host's state.
TypeOK ==
  /\ idleMinutes \in Thresholds
  /\ guarded \in BOOLEAN
  /\ clientAlive \in BOOLEAN
  /\ pending \subseteq Events
  /\ reported \in BOOLEAN
  /\ reason \in {"idle", "client-disconnected"}
  /\ handled \in BOOLEAN
  /\ silence \in Nat
  /\ inFlight \in 0 .. MaxInFlight
  /\ windows \subseteq Windows
  /\ downloading \in BOOLEAN
  /\ exited \in BOOLEAN
  /\ written \in 0 .. MaxWritten

\* The watchdog never stops a process that was told not to stop by itself, nor
\* one under a user or under a live client that spoke recently, however
\* departures, windows and downloads interleave.
StopsOnlyWhenUnneeded ==
  [][handled' /\ ~handled
       => /\ Enabled
          /\ guarded => (windows' = {} /\ ~downloading)
          /\ ~clientAlive \/ silence' >= idleMinutes]_vars

\* A dead stderr does not feed on itself (#252).  Between two ticks these parts
\* write three lines at most, whatever else is written and whatever fails; not
\* counting one line for each fault as long as the client is not known to be gone.
\* So once it is known, faults no longer lead to faults.
DeadPipeGoesQuiet == written <= 3

\* An orphan goes away: once the client is gone, and windows and downloads
\* eventually stay out of the way, the process exits, even if no stream event
\* ever told it.
OrphanExits ==
  <>[](windows = {} /\ ~downloading) => (~clientAlive /\ Enabled ~> exited)
================================================================================
