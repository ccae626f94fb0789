---------------------------- MODULE DesktopProcess ----------------------------
(***************************************************************************)
(* One process of the Electron app (electron/src/main.js), or the command  *)
(* line's: the idle shutdown and the updater on one JavaScript thread.     *)
(* They share two pieces of state: the download flag, which the updater's  *)
(* events set and the shutdown guard reads, and the end of the process.    *)
(*                                                                         *)
(*   guarded  isMcpMode  the process                                       *)
(*   TRUE     TRUE       the app as an MCP server: watchdog and updater    *)
(*   TRUE     FALSE      the app's own window: updater only                *)
(*   FALSE    TRUE       the command line: watchdog only                   *)
(***************************************************************************)
EXTENDS Integers, FiniteSets

CONSTANTS Thresholds,   \* settings of IDLE_SHUTDOWN_MINUTES, in ticks
          MaxInFlight,  \* bound: requests being served at once
          Click         \* callers of checkForUpdatesNow

ASSUME ThresholdsAreInt == Thresholds \subseteq Int
ASSUME InFlightIsNat    == MaxInFlight \in Nat

VARIABLES idleMinutes, guarded, clientAlive, pending, reported, reason, handled,
          silence, inFlight, windows, written
VARIABLES isMcpMode, supported, library, launched, early, pendingVersion,
          downloadedVersion, pendingChecks, checkInFlight, manualCheckPending,
          watchedDownload, told, check, download, dialog
VARIABLES downloadInProgress, exited    \* shared

Watchdog == INSTANCE IdleShutdown WITH downloading <- downloadInProgress
Updates  == INSTANCE Updater

watchdogVars == <<idleMinutes, guarded, clientAlive, pending, reported, reason, handled,
                  silence, inFlight, windows, written>>
updatesVars  == <<isMcpMode, supported, library, launched, early, pendingVersion,
                  downloadedVersion, pendingChecks, checkInFlight, manualCheckPending,
                  watchedDownload, told, check, download, dialog>>
vars == <<watchdogVars, updatesVars, downloadInProgress, exited>>

Init ==
  /\ Watchdog!Init
  /\ Updates!Init
  /\ guarded \/ (isMcpMode /\ ~supported)
  /\ supported \/ library = "missing"    \* it is loaded by a supported build only

WatchdogStep == isMcpMode /\ Watchdog!Next /\ UNCHANGED updatesVars
UpdaterStep  == guarded /\ Updates!Next /\ UNCHANGED watchdogVars

Next == WatchdogStep \/ UpdaterStep

Polls     == isMcpMode /\ Watchdog!Poll /\ UNCHANGED updatesVars
CheckEnds == guarded /\ Updates!CheckEnds /\ UNCHANGED watchdogVars

(***************************************************************************)
(* The interval fires for as long as the process lives, and a check that   *)
(* electron-updater accepted ends: its request succeeds, fails or times    *)
(* out.  Stream events are NOT assumed to be delivered (a client's death   *)
(* may never be noticed), nor downloads to end, nor windows to be closed.  *)
(***************************************************************************)
Spec == Init /\ [][Next]_vars /\ WF_vars(Polls) /\ WF_vars(CheckEnds)

--------------------------------------------------------------------------------
\* Types of both components' state.
TypeOK == Watchdog!TypeOK /\ Updates!TypeOK

\* The watchdog never stops a process that was told not to stop by itself, nor
\* one under a window, a live client or a download that is really going on
\* (rather than flagged).
StopsOnlyWhenUnneeded ==
  [][handled' /\ ~handled
       => /\ idleMinutes > 0
          /\ guarded => (windows' = {} /\ (~early => ~download))
          /\ ~clientAlive \/ silence' >= idleMinutes]_vars

\* A dead stderr does not feed on itself (#252), except on faults while the client is
\* not known to be gone.
DeadPipeGoesQuiet == Watchdog!DeadPipeGoesQuiet

\* A process whose client is gone exits in the end, once windows and downloads
\* stay out of the way, even if no stream event ever told it.
OrphanExits ==
  <>[](windows = {} /\ ~downloadInProgress)
     => (~clientAlive /\ idleMinutes > 0 ~> exited)

\* Every click is answered where electron-updater is active.
ClickAnswered == Updates!ClickAnswered

\* Whoever was answered "downloading" hears of the download's success.
WatcherHears == Updates!WatcherHears

\* No modal that nobody asked for in an agent's session.
UnaskedNeverInterrupted == Updates!UnaskedNeverInterrupted

--------------------------------------------------------------------------------
\* The strengthening behind these.  On the watchdog's side: nothing but the
\* client's death is taken for it; and before it is known, one line at most is
\* counted.
WatchInv ==
  /\ reported \/ "departure" \in pending \/ reason = "client-disconnected"
       => ~clientAlive
  /\ written \in 0 .. (IF reported THEN 3 ELSE 1)

\* On the updater's, as long as no click overtakes the launch check: the flag is the
\* download, no check runs beside it, and what is pending is what somebody waits for.
UpdateInv ==
  /\ Updates!TypeOK
  /\ ~early =>
       /\ ~launched => ~check /\ ~download /\ ~manualCheckPending /\ ~downloadedVersion
                        /\ \A c \in Click : told[c] = "nothing"
       /\ downloadInProgress = download
       /\ ~(check /\ download)
       /\ check \/ download => supported /\ library # "missing"
       /\ download => library = "active"
       /\ checkInFlight = pendingChecks
       /\ pendingChecks => manualCheckPending /\ \E c \in Click : told[c] = "waiting"
       /\ pendingChecks /\ library = "active" => check
       /\ check /\ manualCheckPending => pendingChecks
       /\ downloadedVersion => ~check /\ ~download
       /\ watchedDownload => download /\ \E c \in Click : told[c] = "downloading"
       /\ \A c \in Click : told[c] = "downloading" =>
            /\ ~downloadedVersion
            /\ check => manualCheckPending
            /\ download => watchedDownload

IInv == WatchInv /\ UpdateInv
================================================================================
