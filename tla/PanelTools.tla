------------------------------- MODULE PanelTools -------------------------------
(***************************************************************************)
(* screenshot_panel and export_panel_csv (src/tools/panelInvocation.ts,    *)
(* screenshotPanel.ts, exportPanelCsv.ts), and the hidden browser windows  *)
(* they drive (electron/src/screenshotter.js).  A capture waits at a gate; *)
(* an export goes through the browser for a panel with transformations,    *)
(* and queries the panel itself otherwise or when the browser fails.       *)
(***************************************************************************)
EXTENDS PanelReplay

CONSTANT MaxFrames          \* bound of the model: the frames a table may come in

Using(c, tool, place) == Awaiting(c, place) /\ call[c].req.tool = tool

Shared == <<now, listed, built, memo, fetches, entries, nextId, audit>>

Panel(c) == ThePanels(c)[1]

\* generatePanelCsv without the browser: a panel shown again from another has
\* nothing to query.
Direct(c, fields) ==
  Becomes(c, With(fields, IF Mirror(Panel(c)) THEN [pc |-> "audit", ok |-> FALSE]
                          ELSE [pc |-> "variables", at |-> 1, resolved |-> call[c].overrides]))

\* The window is resolved, and the connection read again, in whatever version it
\* is listed in by now.  The export's window opens before its directory is made.
PanelWindowArrives(c, ok) ==
  /\ Awaiting(c, "window") /\ call[c].req.tool # "render"
  /\ LET raw == listed[call[c].conn]
     IN  IF ~ok \/ raw = 0 THEN Fails(c) /\ UNCHANGED windows
         ELSE CASE call[c].req.tool = "png" ->
                     Becomes(c, [pc |-> "gate", raw |-> raw]) /\ UNCHANGED windows
                [] call[c].req.tool = "csv" /\ call[c].req.browser ->
                     Becomes(c, [pc |-> "directory", raw |-> raw]) /\ windows' = windows \cup {c}
                [] OTHER -> Direct(c, [raw |-> raw]) /\ UNCHANGED windows
  /\ UNCHANGED <<Shared, captures>>

--------------------------------------------------------------------------------
\* The browser.

\* captureGate admits a capture (module Semaphore), which opens its window.
Capture(c) ==
  /\ Using(c, "png", "gate")
  /\ Cardinality(captures) < MaxConcurrency
  /\ captures' = captures \cup {c}
  /\ windows' = windows \cup {c}
  /\ Becomes(c, [pc |-> "loading"])
  /\ UNCHANGED Shared

\* A slip, not the code: a window whose page failed is left open, its slot taken.
LeavesIfDone(c, ok) ==
  /\ windows' = IF ok THEN windows \ {c} ELSE windows
  /\ captures' = IF ok THEN captures \ {c} ELSE captures

\* The finally of a page, however it went: the window goes, and the slot.
Leaves(c, ok) ==
  /\ windows' = windows \ {c}
  /\ captures' = captures \ {c}

\* What a page that failed comes to: an error for a capture; an export queries
\* the panel itself and says that transformations may be missing.
Gives(c) ==
  /\ Leaves(c, FALSE)
  /\ IF call[c].req.tool = "png" THEN Fails(c) ELSE Direct(c, [note |-> TRUE])

Stays == UNCHANGED <<captures, windows>>

\* mkdtemp comes after the window and before the try: if it fails the window
\* stays open.
DirectoryMade(c, ok) ==
  /\ Using(c, "csv", "directory")
  /\ Stays
  /\ IF ok THEN Becomes(c, [pc |-> "loading"]) ELSE Direct(c, [note |-> TRUE, stranded |-> TRUE])
  /\ UNCHANGED Shared

\* loadWithTimeout.
PageLoads(c, ok) ==
  /\ Awaiting(c, "loading")
  /\ IF ok THEN Becomes(c, [pc |-> "quieting"]) /\ Stays ELSE Gives(c)
  /\ UNCHANGED Shared

\* waitForNetworkIdle.
PageQuiets(c, ok) ==
  /\ Awaiting(c, "quieting")
  /\ IF ~ok THEN Gives(c)
     ELSE /\ Becomes(c, [pc |-> IF call[c].req.tool = "png" THEN "capturing" ELSE "expanding"])
          /\ Stays
  /\ UNCHANGED Shared

PageCaptured(c, ok) ==
  /\ Awaiting(c, "capturing")
  /\ IF ok THEN Becomes(c, [pc |-> "saving", files |-> 1]) /\ Leaves(c, TRUE) ELSE Gives(c)
  /\ UNCHANGED Shared

DataOptionsExpand(c, ok) ==
  /\ Awaiting(c, "expanding")
  /\ IF ok THEN Becomes(c, [pc |-> "toggling"]) /\ Stays ELSE Gives(c)
  /\ UNCHANGED Shared

\* A panel without transformations has no toggle: nothing failed, the panel is
\* queried directly, unless the script throws or the directory cannot be removed.
TransformToggled(c, found) ==
  /\ Awaiting(c, "toggling")
  /\ \/ found = "there" /\ Becomes(c, [pc |-> "downloading"]) /\ Stays
     \/ found = "none" /\ Direct(c, <<>>) /\ Leaves(c, TRUE)
     \/ found = "failed" /\ Gives(c)
  /\ UNCHANGED Shared

\* The download is done and read, or the button is missing, the download is
\* interrupted or late, the file unreadable, or the directory cannot be removed.
Downloaded(c, ok) ==
  /\ Awaiting(c, "downloading")
  /\ IF ok THEN Becomes(c, [pc |-> "saving", files |-> 1]) /\ Leaves(c, TRUE) ELSE Gives(c)
  /\ UNCHANGED Shared

--------------------------------------------------------------------------------
\* The direct export and the files.

ExportAsks(c) ==
  /\ Using(c, "csv", "variables") /\ ~MoreToDo(c)
  /\ Resolving(c, <<Panel(c)>>)
  /\ UNCHANGED <<now, listed, built, entries, nextId, audit, captures, windows>>

\* A table comes in as many files as frames, a graph in one.
ExportAnswered(c, n) ==
  /\ Using(c, "csv", "panels") /\ Settled(c)
  /\ n = 1 \/ Panel(c).panel.type = "table"
  /\ IF call[c].jobs[1].is = "answered" THEN Becomes(c, [pc |-> "saving", files |-> n]) ELSE Fails(c)
  /\ UNCHANGED <<Shared, captures, windows>>

\* saveScreenshot, saveCsv: one file after the other.
Save(c, ok) ==
  /\ Awaiting(c, "saving")
  /\ call[c].saved < call[c].files
  /\ IF ok THEN Becomes(c, [saved |-> call[c].saved + 1]) ELSE Fails(c)
  /\ UNCHANGED <<Shared, captures, windows>>

\* The panel is entered in the activity log and the answer put together.
PanelAnswer(c) ==
  /\ Awaiting(c, "saving")
  /\ call[c].saved = call[c].files
  /\ Record(c, Panel(c).panel)
  /\ Becomes(c, [pc |-> "audit"])
  /\ UNCHANGED <<now, listed, built, memo, fetches, audit, captures, windows>>

Pages(c) ==
  \/ Capture(c)
  \/ \E ok \in BOOLEAN :
       \/ DirectoryMade(c, ok) \/ PageLoads(c, ok) \/ PageQuiets(c, ok) \/ PageCaptured(c, ok)
       \/ DataOptionsExpand(c, ok) \/ Downloaded(c, ok)
  \/ \E found \in {"there", "none", "failed"} : TransformToggled(c, found)

Exports(c) ==
  \/ \E ok \in BOOLEAN : PanelWindowArrives(c, ok) \/ Save(c, ok)
  \/ ExportAsks(c) \/ \E n \in 0..MaxFrames : ExportAnswered(c, n)
  \/ PanelAnswer(c)
================================================================================
