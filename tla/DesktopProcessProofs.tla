-------------------------- MODULE DesktopProcessProofs --------------------------
(***************************************************************************)
(* What a process of the desktop app never does, for every setting of the  *)
(* watchdog, any number of callers of the update check and of requests     *)
(* being served: stop under somebody, answer reports with reports, forget a caller *)
(* who watches a download, or interrupt an agent's session unasked.        *)
(***************************************************************************)
EXTENDS DesktopProcess, TLAPS

\* What a step of the watchdog leaves alone of the updater's state.
LEMMA WatchdogLeaves ==
  ASSUME WatchdogStep, UpdateInv
  PROVE  UpdateInv' /\ UNCHANGED <<updatesVars, downloadInProgress>>
<1>1. UNCHANGED <<updatesVars, downloadInProgress>>
  BY DEF WatchdogStep, Watchdog!Next, Watchdog!Poll, Watchdog!StreamEvent, Watchdog!OtherLine,
         Watchdog!Message, Watchdog!RecordActivity, Watchdog!Respond, Watchdog!ClientLeaves,
         Watchdog!OpenConnections, Watchdog!CloseWindow, Watchdog!hostVars
<1>2. exited' \in BOOLEAN
  BY DEF WatchdogStep, Watchdog!Next, Watchdog!Poll, Watchdog!StreamEvent, Watchdog!OtherLine,
         Watchdog!Message, Watchdog!RecordActivity, Watchdog!Respond, Watchdog!ClientLeaves, Watchdog!Decide,
         Watchdog!OpenConnections, Watchdog!CloseWindow, Watchdog!ReportClientGone, Watchdog!Report,
         Watchdog!LogWhileConnected, Watchdog!DecideNothing, Watchdog!watchVars, Watchdog!Vetoed, UpdateInv, Updates!TypeOK
<1> QED
  BY <1>1, <1>2 DEF UpdateInv, Updates!TypeOK, updatesVars

\* A line that fails as a departure has no reader any more (stdioPipe.ts).
LEMMA LinesTell ==
  ASSUME NEW n, NEW queued, Watchdog!Log(n, queued), "departure" \in pending'
  PROVE  "departure" \in queued \/ ~clientAlive
BY DEF Watchdog!Log, Watchdog!MayFailWith

\* The first report of a departure writes two lines at most, and a later one none
\* (stdioPipe.ts, idleShutdown.ts).
LEMMA ReportWrites ==
  ASSUME NEW rest, Watchdog!ReportClientGone(rest), WatchInv, ~clientAlive, UNCHANGED clientAlive
  PROVE  WatchInv'
<1>1. CASE reported
  BY <1>1 DEF Watchdog!ReportClientGone, WatchInv
<1>2. CASE ~reported
  <2>1. reported' /\ written \in 0 .. 1
    BY <1>2 DEF Watchdog!ReportClientGone, Watchdog!Report, WatchInv
  <2>2. \E lines \in 1 .. 2 : written' = Watchdog!Counted(written + lines)
    BY <1>2 DEF Watchdog!ReportClientGone, Watchdog!Report
  <2>3. written' \in 0 .. 3
    BY <2>1, <2>2 DEF Watchdog!Counted, Watchdog!MaxWritten
  <2> QED
    BY <2>1, <2>3 DEF WatchInv
<1> QED
  BY <1>1, <1>2

\* A fault is no evidence of a departure (stdioPipe.ts, logWhileConnected).
LEMMA FaultKeeps ==
  ASSUME Watchdog!LogWhileConnected(pending \ {"fault"}), WatchInv, UNCHANGED clientAlive
  PROVE  WatchInv'
<1>1. CASE reported
  BY <1>1 DEF Watchdog!LogWhileConnected, WatchInv
<1>2. CASE ~reported
  <2>1. Watchdog!Log(1, pending \ {"fault"}) /\ UNCHANGED <<reported, reason, written>>
    BY <1>2 DEF Watchdog!LogWhileConnected
  <2>2. "departure" \in pending' => "departure" \in pending \/ ~clientAlive
    BY <2>1, LinesTell
  <2> QED
    BY <1>2, <2>1, <2>2 DEF WatchInv
<1> QED
  BY <1>1, <1>2

\* The watchdog's steps keep its part of the invariant.
LEMMA WatchStep ==
  ASSUME WatchInv, [Next]_vars
  PROVE  WatchInv'
<1>1. CASE UpdaterStep \/ UNCHANGED vars
  BY <1>1 DEF UpdaterStep, watchdogVars, vars, WatchInv
<1>2. CASE WatchdogStep
  <2>1. CASE Watchdog!Poll
    <3>1. written' \in 0 .. 1 /\ UNCHANGED <<clientAlive, reported, reason>>
      BY <2>1 DEF Watchdog!Poll, Watchdog!clientVars
    <3>2. "departure" \in pending' => "departure" \in pending \/ ~clientAlive
      BY <2>1, LinesTell DEF Watchdog!Poll
    <3> QED
      BY <3>1, <3>2 DEF WatchInv
  <2>2. ASSUME NEW e \in Watchdog!Events, Watchdog!StreamEvent(e) PROVE WatchInv'
    <3>1. UNCHANGED clientAlive /\ e \in pending
      BY <2>2 DEF Watchdog!StreamEvent, Watchdog!clientVars
    <3>2. CASE e = "fault"
      BY <2>2, <3>1, <3>2, FaultKeeps DEF Watchdog!StreamEvent
    <3>3. CASE e = "departure"
      BY <2>2, <3>1, <3>3, ReportWrites DEF Watchdog!StreamEvent, WatchInv
    <3> QED
      BY <3>2, <3>3 DEF Watchdog!Events
  <2>3. CASE Watchdog!Respond
    <3>1. UNCHANGED clientAlive
      BY <2>3 DEF Watchdog!Respond
    <3>2. CASE "departure" \in Watchdog!MayFailWith /\ Watchdog!ReportClientGone(pending)
      BY <3>1, <3>2, ReportWrites DEF Watchdog!MayFailWith
    <3>3. CASE Watchdog!Log(1, pending) /\ UNCHANGED <<reported, reason, written>>
      <4>1. "departure" \in pending' => "departure" \in pending \/ ~clientAlive
        BY <3>3, LinesTell
      <4> QED
        BY <3>1, <3>3, <4>1 DEF WatchInv
    <3> QED
      BY <2>3, <3>2, <3>3 DEF Watchdog!Respond
  <2>4. CASE Watchdog!ClientLeaves
    BY <2>4 DEF WatchInv, Watchdog!ClientLeaves, Watchdog!watchVars
  <2>5. CASE Watchdog!Message \/ Watchdog!RecordActivity \/ Watchdog!OpenConnections \/ Watchdog!CloseWindow
    BY <2>5 DEF WatchInv, Watchdog!Message, Watchdog!RecordActivity, Watchdog!OpenConnections,
       Watchdog!CloseWindow, Watchdog!watchVars, Watchdog!clientVars
  <2>6. CASE Watchdog!OtherLine
    BY <2>6 DEF WatchInv, Watchdog!OtherLine, Watchdog!MayFailWith, Watchdog!watchVars, Watchdog!clientVars
  <2> QED
    BY <1>2, <2>1, <2>2, <2>3, <2>4, <2>5, <2>6 DEF WatchdogStep, Watchdog!Next
<1> QED
  BY <1>1, <1>2 DEF Next

--------------------------------------------------------------------------------
\* A click that is answered, joins a check, watches a download or starts a check
\* (updater.js, checkForUpdatesNow).
LEMMA ClickKeeps ==
  ASSUME UpdateInv, NEW c \in Click,
         Updates!ClickAnsweredAtOnce(c) \/ Updates!ClickJoins(c) \/ Updates!ClickWatches(c)
           \/ Updates!ClickChecks(c)
  PROVE  UpdateInv'
<1> USE DEF Updates!MayClick, Updates!Tell, Updates!modeVars, Updates!updaterVars, Updates!checkVars,
            Updates!TypeOK, Updates!Answers
<1>1. CASE Updates!ClickAnsweredAtOnce(c)
  BY <1>1 DEF Updates!ClickAnsweredAtOnce, UpdateInv
<1>2. CASE Updates!ClickJoins(c)
  BY <1>2 DEF Updates!ClickJoins, UpdateInv
<1>3. CASE Updates!ClickWatches(c)
  BY <1>3 DEF Updates!ClickWatches, UpdateInv
<1>4. CASE Updates!ClickChecks(c)
  <2>1. CASE library = "missing" /\ UNCHANGED <<check, pendingChecks, checkInFlight>>
    BY <1>4, <2>1 DEF Updates!ClickChecks, UpdateInv
  <2>2. CASE check' /\ pendingChecks' /\ checkInFlight'
    <3>1. Updates!TypeOK'
      BY <1>4, <2>2 DEF Updates!ClickChecks, UpdateInv
    <3>2. CASE early'
      BY <3>1, <3>2 DEF UpdateInv
    <3>3. CASE ~early'
      <4>1. ~early /\ launched /\ ~checkInFlight /\ ~pendingChecks /\ ~downloadInProgress /\ supported
        BY <1>4, <3>3 DEF Updates!ClickChecks, UpdateInv
      <4>2. told' = [told EXCEPT ![c] = "waiting"] /\ library # "missing"
        BY <1>4, <2>2, <4>1 DEF Updates!ClickChecks, Updates!RunCheck
      <4>3. told'[c] = "waiting" /\ \A d \in Click : told'[d] = "downloading" => told[d] = "downloading"
        BY <4>2 DEF UpdateInv
      <4> QED
        BY <1>4, <2>2, <3>1, <4>1, <4>2, <4>3 DEF Updates!ClickChecks, UpdateInv
    <3> QED
      BY <3>2, <3>3
  <2> QED
    BY <1>4, <2>1, <2>2 DEF Updates!ClickChecks, Updates!RunCheck
<1> QED
  BY <1>1, <1>2, <1>3, <1>4

\* The launch, and the events of electron-updater (updater.js).
LEMMA EventKeeps ==
  ASSUME UpdateInv,
         Updates!Launch \/ Updates!OnUpdateAvailable \/ Updates!OnUpdateNotAvailable \/ Updates!OnError
           \/ Updates!CheckRejects \/ Updates!CheckDeclined \/ Updates!OnUpdateDownloaded \/ Updates!Respond
  PROVE  UpdateInv'
<1> USE DEF Updates!modeVars, Updates!startVars, Updates!updaterVars, Updates!checkVars,
            Updates!SettleChecks, Updates!Telling, Updates!TypeOK, Updates!Answers
<1>1. CASE Updates!Launch
  <2>1. Updates!TypeOK'
    BY <1>1 DEF Updates!Launch, Updates!RunCheck, UpdateInv
  <2>2. CASE check'
    <3>1. CASE early'
      BY <2>1, <3>1 DEF UpdateInv
    <3>2. CASE ~early'
      <4>1. /\ ~early /\ ~check /\ ~download /\ ~manualCheckPending /\ ~pendingChecks /\ ~downloadedVersion
            /\ \A c \in Click : told[c] = "nothing"
        BY <1>1, <3>2 DEF Updates!Launch, UpdateInv
      <4>2. supported /\ library # "missing"
        BY <1>1, <2>2, <4>1 DEF Updates!Launch, Updates!RunCheck
      <4> QED
        BY <1>1, <2>1, <2>2, <4>1, <4>2 DEF Updates!Launch, UpdateInv
    <3> QED
      BY <3>1, <3>2
  <2>3. CASE UNCHANGED check
    BY <1>1, <2>1, <2>3 DEF Updates!Launch, UpdateInv
  <2> QED
    BY <1>1, <2>2, <2>3 DEF Updates!Launch, Updates!RunCheck
<1>2. CASE Updates!OnUpdateAvailable
  BY <1>2 DEF Updates!OnUpdateAvailable, UpdateInv
<1>3. CASE Updates!OnUpdateNotAvailable
  BY <1>3 DEF Updates!OnUpdateNotAvailable, UpdateInv
<1>4. CASE Updates!OnError
  <2>1. Updates!TypeOK'
    BY <1>4 DEF Updates!OnError, UpdateInv
  <2>2. ASSUME ~early, NEW c \in Click, told'[c] = "downloading" PROVE told[c] = "downloading"
    BY <1>4, <2>2 DEF Updates!OnError, UpdateInv
  <2> QED
    BY <1>4, <2>1, <2>2 DEF Updates!OnError, UpdateInv
<1>5. CASE Updates!CheckRejects
  BY <1>5 DEF Updates!CheckRejects, UpdateInv
<1>6. CASE Updates!CheckDeclined
  BY <1>6 DEF Updates!CheckDeclined, UpdateInv
<1>7. CASE Updates!OnUpdateDownloaded
  BY <1>7 DEF Updates!OnUpdateDownloaded, UpdateInv
<1>8. CASE Updates!Respond
  BY <1>8 DEF Updates!Respond, UpdateInv
<1> QED
  BY <1>1, <1>2, <1>3, <1>4, <1>5, <1>6, <1>7, <1>8

\* Every step keeps the updater's part of the invariant.
LEMMA UpdateStep ==
  ASSUME UpdateInv, [Next]_vars
  PROVE  UpdateInv'
<1>1. CASE UNCHANGED vars
  BY <1>1 DEF vars, updatesVars, UpdateInv, Updates!TypeOK
<1>2. CASE UpdaterStep
  BY <1>2, ClickKeeps, EventKeeps DEF UpdaterStep, Updates!Next
<1>3. CASE WatchdogStep
  BY <1>3, WatchdogLeaves
<1> QED
  BY <1>1, <1>2, <1>3 DEF Next

\* A process that starts has a live pipe, no check under way and nobody waiting.
LEMMA InitInv == Init => IInv
<1> SUFFICES ASSUME Init PROVE IInv
  OBVIOUS
<1>1. WatchInv
  BY DEF Init, Watchdog!Init, WatchInv
<1>2. UpdateInv
  BY DEF Init, Updates!Init, UpdateInv, Updates!TypeOK, Updates!Answers
<1> QED
  BY <1>1, <1>2 DEF IInv

\* Every action of the process keeps the invariant.
LEMMA StepInv == IInv /\ [Next]_vars => IInv'
  BY WatchStep, UpdateStep DEF IInv

\* The invariant holds throughout every behaviour.
LEMMA Invariance == Spec => []IInv
  BY InitInv, StepInv, PTL DEF Spec

--------------------------------------------------------------------------------
\* The reports of a departure and of a decision are three lines between two ticks,
\* whatever else is written and whatever of it fails (stdioPipe.ts, issue #252); but
\* until the departure is known every other fault gets a line too.
THEOREM StderrGoesQuiet == Spec => []DeadPipeGoesQuiet
<1>1. IInv => DeadPipeGoesQuiet
  BY DEF IInv, WatchInv, DeadPipeGoesQuiet, Watchdog!DeadPipeGoesQuiet
<1> QED
  BY <1>1, Invariance, PTL

\* Nobody who was answered "downloading" is forgotten when the version is there
\* (updater.js, watchedDownload).
THEOREM WatchersAreTold == Spec => []WatcherHears
<1>1. IInv => WatcherHears
  BY DEF IInv, UpdateInv, WatcherHears, Updates!WatcherHears
<1> QED
  BY <1>1, Invariance, PTL

\* A step that decides to stop: with a reason, and without a veto.
Decided ==
  \E why : /\ Watchdog!Due(why, silence') /\ ~Watchdog!Vetoed
           /\ UNCHANGED <<windows, idleMinutes>>
           /\ why = "client-disconnected" => ~clientAlive

\* A report that decides does so for a client that is gone (idleShutdown.ts).
LEMMA DecidesOnReport ==
  ASSUME NEW rest, Watchdog!ReportClientGone(rest), ~clientAlive, handled', ~handled,
         UNCHANGED <<silence, Watchdog!hostVars>>
  PROVE  Decided
<1>1. ~reported /\ Watchdog!Report(rest)
  BY DEF Watchdog!ReportClientGone
<1>2. Watchdog!Due("client-disconnected", silence) /\ Watchdog!Decide
  BY <1>1 DEF Watchdog!Report, Watchdog!DecideNothing
<1>3. ~Watchdog!Vetoed
  BY <1>2 DEF Watchdog!Decide
<1>4. Watchdog!Due("client-disconnected", silence')
  BY <1>2
<1> QED
  BY <1>3, <1>4 DEF Decided, Watchdog!hostVars, Watchdog!settings

\* A step of the watchdog that decides to stop had a reason to, and nothing and
\* nobody against it (idleShutdown.ts, idleShutdownGuard of main.js).
LEMMA DecisionIsDue ==
  ASSUME IInv, [Next]_vars, handled', ~handled
  PROVE  /\ idleMinutes > 0
         /\ guarded => (windows' = {} /\ (~early => ~download))
         /\ ~clientAlive \/ silence' >= idleMinutes
<1>1. WatchdogStep
  BY DEF Next, UpdaterStep, watchdogVars, vars
<1>2. Decided
  <2>1. CASE Watchdog!Poll
    BY <2>1 DEF IInv, WatchInv, Watchdog!Poll, Watchdog!Decide, Watchdog!DecideNothing, Watchdog!hostVars,
                Watchdog!settings, Decided
  <2>2. ASSUME NEW e \in Watchdog!Events, Watchdog!StreamEvent(e) PROVE Decided
    <3>1. Watchdog!ReportClientGone(pending \ {e}) /\ "departure" \in pending
      BY <2>2 DEF Watchdog!StreamEvent, Watchdog!LogWhileConnected, Watchdog!Events
    <3>2. ~clientAlive
      BY <3>1 DEF IInv, WatchInv
    <3> QED
      BY <2>2, <3>1, <3>2, DecidesOnReport DEF Watchdog!StreamEvent
  <2>3. CASE Watchdog!Respond
    BY <2>3, DecidesOnReport DEF Watchdog!Respond, Watchdog!MayFailWith
  <2>4. ~Watchdog!Message /\ ~Watchdog!RecordActivity /\ ~Watchdog!OpenConnections
        /\ ~Watchdog!CloseWindow /\ ~Watchdog!ClientLeaves /\ ~Watchdog!OtherLine
    BY DEF Watchdog!Message, Watchdog!OtherLine, Watchdog!RecordActivity, Watchdog!OpenConnections, Watchdog!CloseWindow,
           Watchdog!ClientLeaves, Watchdog!watchVars
  <2> QED
    BY <1>1, <2>1, <2>2, <2>3, <2>4 DEF WatchdogStep, Watchdog!Next
<1>3. idleMinutes > 0 /\ (~clientAlive \/ silence' >= idleMinutes)
  BY <1>2 DEF Watchdog!Due, Watchdog!Enabled, Decided
<1>4. guarded => windows' = {} /\ ~downloadInProgress
  BY <1>2 DEF Watchdog!Vetoed, Decided
<1>5. ~early => download = downloadInProgress
  BY DEF IInv, UpdateInv
<1> QED
  BY <1>3, <1>4, <1>5

\* The watchdog never stops the process under a window, a live client that spoke
\* recently or a download, whatever the order of departures, windows and updates.
THEOREM StopIsSafe == Spec => StopsOnlyWhenUnneeded
<1>1. IInv /\ [Next]_vars =>
        [handled' /\ ~handled
          => /\ idleMinutes > 0
             /\ guarded => (windows' = {} /\ (~early => ~download))
             /\ ~clientAlive \/ silence' >= idleMinutes]_vars
  BY DecisionIsDue
<1> QED
  BY <1>1, Invariance, PTL DEF Spec, StopsOnlyWhenUnneeded

\* In an agent's session a modal appears only to somebody who was told that a
\* download is running (updater.js, 'update-downloaded').
THEOREM NobodyIsInterrupted == Spec => UnaskedNeverInterrupted
<1>1. ASSUME IInv, Next, isMcpMode, ~early, dialog' # "none", dialog = "none"
      PROVE  \E c \in Click : told[c] = "downloading"
  <2>1. ~WatchdogStep
    BY <1>1 DEF WatchdogStep, updatesVars
  <2>2. Updates!OnUpdateDownloaded
    BY <1>1, <2>1 DEF Next, UpdaterStep, Updates!Next, Updates!Launch, Updates!ClickAnsweredAtOnce,
       Updates!ClickJoins, Updates!ClickWatches, Updates!ClickChecks, Updates!OnUpdateAvailable,
       Updates!OnUpdateNotAvailable, Updates!OnError, Updates!CheckRejects, Updates!CheckDeclined,
       Updates!Respond
  <2>3. watchedDownload
    BY <1>1, <2>2 DEF Updates!OnUpdateDownloaded
  <2> QED
    BY <1>1, <2>3 DEF IInv, UpdateInv
<1>2. IInv /\ [Next]_vars =>
        [isMcpMode /\ ~early /\ dialog' # "none" /\ dialog = "none"
          => \E c \in Click : told[c] = "downloading"]_(Updates!vars)
  BY <1>1 DEF vars, updatesVars
<1> QED
  BY <1>2, Invariance, PTL DEF Spec, UnaskedNeverInterrupted, Updates!UnaskedNeverInterrupted
================================================================================
