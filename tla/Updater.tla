-------------------------------- MODULE Updater --------------------------------
(***************************************************************************)
(* The automatic and the manual update check of one process                *)
(* (electron/src/updater.js): two entry points, setupAutoUpdater() and     *)
(* checkForUpdatesNow(), onto one electron-updater, whose outcomes arrive  *)
(* as events.  A step is one event handler, one click or the launch.       *)
(*                                                                         *)
(* electron-updater is external: it joins concurrent checkForUpdates()     *)
(* calls into one, downloads what a check finds unless that download is    *)
(* already running, and reports by events and by the promise.              *)
(***************************************************************************)
EXTENDS FiniteSets

CONSTANT Click  \* the callers of checkForUpdatesNow

VARIABLES
  isMcpMode, supported, \* fixed: --mcp-server; packaged, on a supported OS
  library,            \* fixed: electron-updater is "active", "inactive" (an
                      \* unpacked AppImage) or "missing" (it fails to load)
  launched,           \* setupAutoUpdater() has run
  early,              \* history: a click came before it had
  downloadInProgress,
  pendingVersion,     \* TRUE: a version is named
  downloadedVersion,  \* TRUE: a version is on disk
  pendingChecks,      \* TRUE: the resolver of checkInFlight is queued
  checkInFlight,
  manualCheckPending,
  watchedDownload,
  told,               \* what each caller last heard, or that it is waiting
  check, download,    \* electron-updater: is a check, a download running
  dialog,             \* the modal on screen: "none", "notice", "restart?"
  exited              \* quitAndInstall() was called

updaterVars == <<downloadInProgress, pendingVersion, downloadedVersion,
                 manualCheckPending, watchedDownload>>
checkVars   == <<pendingChecks, checkInFlight, told>>
modeVars    == <<isMcpMode, supported, library>>
startVars   == <<launched, early>>
vars == <<modeVars, startVars, updaterVars, checkVars, check, download, dialog, exited>>

Init ==
  /\ isMcpMode \in BOOLEAN /\ supported \in BOOLEAN
  /\ library \in {"active", "inactive", "missing"}
  /\ launched = FALSE /\ early = FALSE
  /\ downloadInProgress = FALSE /\ pendingVersion = FALSE /\ downloadedVersion = FALSE
  /\ pendingChecks = FALSE /\ checkInFlight = FALSE
  /\ manualCheckPending = FALSE /\ watchedDownload = FALSE
  /\ told = [c \in Click |-> "nothing"]
  /\ check = FALSE /\ download = FALSE
  /\ dialog = "none" /\ exited = FALSE

--------------------------------------------------------------------------------
Answers == {"unsupported", "up-to-date", "downloading", "downloaded", "error"}

\* What callers hear: those who were `before' are told `status'.
Telling(before, status) ==
  [c \in Click |-> IF told[c] = before THEN status ELSE told[c]]

\* settleChecks: everybody holding the promise of a queued resolver is
\* answered, and its finally clears checkInFlight.
SettleChecks(status) ==
  IF pendingChecks
  THEN /\ pendingChecks' = FALSE /\ checkInFlight' = FALSE
       /\ told' = Telling("waiting", status)
  ELSE UNCHANGED checkVars

\* runCheck(wireUpdater()): joins a running check or starts one.
RunCheck == library # "missing" /\ check' = TRUE

\* setupAutoUpdater: once, after the server is up; in --mcp-server mode only
\* the winner of the election checks (UpdateClaim), and a load failure of
\* electron-updater is caught by the caller.
Launch ==
  /\ ~exited /\ ~launched
  /\ launched' = TRUE
  /\ \/ supported /\ RunCheck
     \/ /\ ~supported \/ isMcpMode \/ library = "missing"
        /\ UNCHANGED check
  /\ UNCHANGED <<modeVars, early, downloadInProgress, pendingVersion, downloadedVersion,
                 manualCheckPending, watchedDownload, checkVars, download, dialog, exited>>

\* The menu is there from the start, in --mcp-server mode while the server is
\* still starting up.
MayClick(c) ==
  /\ ~exited
  /\ launched \/ isMcpMode
  /\ told[c] # "waiting"
  /\ early' = (early \/ ~launched)

Tell(c, status) == told' = [told EXCEPT ![c] = status]

\* checkForUpdatesNow answered from state: an unsupported build, or a version
\* already on disk.
ClickAnsweredAtOnce(c) ==
  /\ MayClick(c)
  /\ \/ ~supported /\ Tell(c, "unsupported")
     \/ supported /\ downloadedVersion /\ Tell(c, "downloaded")
  /\ UNCHANGED <<modeVars, launched, updaterVars, pendingChecks, checkInFlight, check, download,
                 dialog, exited>>

\* A check asked for by a click is outstanding: the same promise is returned.
ClickJoins(c) ==
  /\ MayClick(c)
  /\ supported /\ ~downloadedVersion /\ checkInFlight
  /\ Tell(c, "waiting")
  /\ UNCHANGED <<modeVars, launched, updaterVars, pendingChecks, checkInFlight, check, download,
                 dialog, exited>>

\* A slip, not the code: the caller is not noted as watching.
ClickDoesNotWatch(c) ==
  /\ MayClick(c)
  /\ supported /\ ~downloadedVersion /\ ~checkInFlight /\ downloadInProgress
  /\ Tell(c, "downloading")
  /\ UNCHANGED <<modeVars, launched, updaterVars, pendingChecks, checkInFlight, check, download,
                 dialog, exited>>

\* A download is running and no check: answered "downloading", and marked as
\* watching, so that the completion dialog reaches this caller too.
ClickWatches(c) ==
  /\ MayClick(c)
  /\ supported /\ ~downloadedVersion /\ ~checkInFlight /\ downloadInProgress
  /\ watchedDownload' = TRUE
  /\ Tell(c, "downloading")
  /\ UNCHANGED <<modeVars, launched, downloadInProgress, pendingVersion, downloadedVersion,
                 manualCheckPending, pendingChecks, checkInFlight, check, download,
                 dialog, exited>>

\* Otherwise the feed is asked; or electron-updater fails to load, which
\* settles the promise on the spot.
ClickChecks(c) ==
  /\ MayClick(c)
  /\ supported /\ ~downloadedVersion /\ ~checkInFlight /\ ~downloadInProgress
  /\ manualCheckPending' = TRUE
  /\ \/ /\ RunCheck
        /\ pendingChecks' = TRUE /\ checkInFlight' = TRUE
        /\ Tell(c, "waiting")
     \/ /\ library = "missing"
        /\ Tell(c, "error")
        /\ UNCHANGED <<check, pendingChecks, checkInFlight>>
  /\ UNCHANGED <<modeVars, launched, downloadInProgress, pendingVersion, downloadedVersion,
                 watchedDownload, download, dialog, exited>>

--------------------------------------------------------------------------------
\* 'update-available': the download starts with this event.
OnUpdateAvailable ==
  /\ ~exited /\ library = "active" /\ check
  /\ check' = FALSE /\ download' = TRUE
  /\ downloadInProgress' = TRUE
  /\ pendingVersion' = TRUE
  /\ watchedDownload' = manualCheckPending
  /\ manualCheckPending' = FALSE
  /\ SettleChecks("downloading")
  /\ UNCHANGED <<modeVars, startVars, downloadedVersion, dialog, exited>>

\* 'update-not-available' (a feed that named a newer version goes on doing so).
OnUpdateNotAvailable ==
  /\ ~exited /\ library = "active" /\ check /\ ~download
  /\ check' = FALSE
  /\ downloadInProgress' = FALSE
  /\ pendingVersion' = FALSE
  /\ manualCheckPending' = FALSE
  /\ SettleChecks("up-to-date")
  /\ UNCHANGED <<modeVars, startVars, downloadedVersion, watchedDownload, download,
                 dialog, exited>>

\* 'error', of the check or of the download.
OnError ==
  /\ ~exited
  /\ \/ library = "active" /\ check /\ check' = FALSE /\ UNCHANGED download
     \/ download /\ download' = FALSE /\ UNCHANGED check
  /\ downloadInProgress' = FALSE
  /\ pendingVersion' = FALSE
  /\ manualCheckPending' = FALSE
  /\ watchedDownload' = FALSE
  /\ SettleChecks("error")
  /\ UNCHANGED <<modeVars, startVars, downloadedVersion, dialog, exited>>

\* A slip, not the code: the rejection is only silenced.
CheckRejectsSilently ==
  /\ ~exited /\ library = "active" /\ check
  /\ check' = FALSE
  /\ UNCHANGED <<modeVars, startVars, updaterVars, checkVars, download, dialog, exited>>

\* checkForUpdates() rejects without having emitted 'error'.
CheckRejects ==
  /\ ~exited /\ library = "active" /\ check
  /\ check' = FALSE
  /\ SettleChecks("error")
  /\ UNCHANGED <<modeVars, startVars, updaterVars, download, dialog, exited>>

\* checkForUpdates() resolves with null: electron-updater is not active in
\* this build, and no event follows.
CheckDeclined ==
  /\ ~exited /\ library = "inactive" /\ check
  /\ check' = FALSE
  /\ UNCHANGED <<modeVars, startVars, updaterVars, checkVars, download, dialog, exited>>

\* A slip, not the code: the notice is shown to whoever is there.
OnUpdateDownloadedLoudly ==
  /\ ~exited /\ download
  /\ download' = FALSE
  /\ downloadInProgress' = FALSE
  /\ pendingVersion' = FALSE
  /\ downloadedVersion' = TRUE
  /\ manualCheckPending' = FALSE
  /\ watchedDownload' = FALSE
  /\ dialog' = IF isMcpMode THEN "notice" ELSE "restart?"
  /\ SettleChecks("downloaded")
  /\ UNCHANGED <<modeVars, startVars, check, exited>>

\* 'update-downloaded': in --mcp-server mode a notice for whoever asked, and
\* otherwise the restart prompt.
OnUpdateDownloaded ==
  /\ ~exited /\ download
  /\ download' = FALSE
  /\ downloadInProgress' = FALSE
  /\ pendingVersion' = FALSE
  /\ downloadedVersion' = TRUE
  /\ manualCheckPending' = FALSE
  /\ watchedDownload' = FALSE
  /\ dialog' = IF ~isMcpMode THEN "restart?" ELSE IF watchedDownload THEN "notice" ELSE dialog
  /\ pendingChecks' = FALSE
  /\ checkInFlight' = (checkInFlight /\ ~pendingChecks)
  /\ LET heard == (IF pendingChecks THEN {"waiting"} ELSE {})
                   \cup (IF ~isMcpMode \/ watchedDownload THEN {"downloading"} ELSE {})
     IN  told' = [c \in Click |-> IF told[c] \in heard THEN "downloaded" ELSE told[c]]
  /\ UNCHANGED <<modeVars, startVars, check, exited>>

\* The user answers the modal; "Restart now" installs and quits.
Respond ==
  /\ ~exited
  /\ dialog # "none"
  /\ dialog' = "none"
  /\ exited' \in IF dialog = "restart?" THEN BOOLEAN ELSE {FALSE}
  /\ UNCHANGED <<modeVars, startVars, updaterVars, checkVars, check, download>>

CheckEnds == OnUpdateAvailable \/ OnUpdateNotAvailable \/ (OnError /\ check # check')
               \/ CheckRejects \/ CheckDeclined

Next ==
  \/ Launch
  \/ \E c \in Click : ClickAnsweredAtOnce(c) \/ ClickJoins(c) \/ ClickWatches(c) \/ ClickChecks(c)
  \/ OnUpdateAvailable \/ OnUpdateNotAvailable \/ OnError \/ CheckRejects \/ CheckDeclined
  \/ OnUpdateDownloaded \/ Respond

--------------------------------------------------------------------------------
\* Types of the updater's flags and of the modal.
TypeOK ==
  /\ {isMcpMode, supported, launched, early, downloadInProgress, pendingVersion,
      downloadedVersion, pendingChecks, checkInFlight, manualCheckPending,
      watchedDownload, check, download, exited}
       \subseteq BOOLEAN
  /\ library \in {"active", "inactive", "missing"}
  /\ told \in [Click -> {"nothing", "waiting"} \cup Answers]
  /\ dialog \in {"none", "notice", "restart?"}

\* "Never settling would leave a button spinning forever": whoever clicked is
\* answered, where electron-updater is active; and so are, since they hold one
\* promise, all who wait at that moment.
ClickAnswered ==
  library = "active" /\ (\E c \in Click : told[c] = "waiting")
    ~> (\A c \in Click : told[c] # "waiting") \/ exited

\* Whoever was answered "downloading", by the event or because a download was
\* running already, is told when the version is there (unless a click overtook
\* the launch check, whose 'update-available' then unlatches the watcher).
WatcherHears == ~early /\ downloadedVersion => \A c \in Click : told[c] # "downloading"

\* An agent's session is never interrupted by a modal nobody asked for.
UnaskedNeverInterrupted ==
  [][isMcpMode /\ ~early /\ dialog' # "none" /\ dialog = "none"
       => \E c \in Click : told[c] = "downloading"]_vars

================================================================================
