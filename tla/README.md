# Timebuddy: formal models

TLA+ models of Timebuddy, an MCP server that lets an agent investigate
incidents over Grafana and Graylog, and of the Electron application that
packages it. The engine is `src/` (TypeScript), the application `electron/src/`
(JavaScript); paths below are relative to the repository's root. TLC checks
small instances of each module, TLAPS proves what is said about every instance.

## 1. Inventory

### 1.1 How the system runs

One engine process serves one MCP client over stdio: from the command line
(`src/index.ts`), or as the Electron application started with `--mcp-server`.
A developer's machine runs many at once, one per session or worktree, and the
application's window besides; they share nothing but **files** (the connection
store, the caches under the data directory, the audit log, the alert file, the
update stamp) and take no lock over any of them. Inside a process there is one
JavaScript thread: what interleaves are the stretches of code between two
awaits, timers, stream events and user events. Every model takes its steps
from these two facts: a step is a system call where processes share a file, and
a stretch between awaits, or a callback, inside a process.

### 1.2 Components

| Component | State | Operations | Interacts with | Hard part | What makes it correct |
|---|---|---|---|---|---|
| Request admission `util/semaphore.ts` | count, queue of resolvers | `run`, `acquire`, `release` | both HTTP clients | a newcomer between a wake-up and its microtask | cap, order, no lost waiter |
| Update election `updateCheckClaim.js` | stamp file, lock file | `claimUpdateCheck` | many processes; the updater | interleaved system calls, death while holding the lock | one check per interval; no lock for ever |
| Connection store `connectionStore.js`, `connectionStoreCore.js` | list, encrypted secrets (two files) | upsert, delete, import, the engine's read | window, engine, other processes | crash between the files; lost updates | a listed connection authenticates; no duplicate, nothing lost |
| Idle shutdown `idleShutdown.ts`, `stdioPipe.ts`, `server.ts`, guard in `main.js` | last activity, latch, reported | poll, message, stream events, veto | client, windows, updater | stderr feeding itself; vetoes | stops only when unneeded; an orphan stops |
| Updater `updater.js`, menu in `main.js` | seven module flags, queue of checks | launch check, manual check, five events | electron-updater, election, idle shutdown | events of one check landing in another | flag exact, clicks answered, no unasked dialog |
| Audit log `security/audit.ts`, `security/retention.ts` | log and its generations | append, rotate | every tool call, every start | renames by one process among others' appends | only the oldest lines are dropped |
| Metric index `index-builder/*` | index file, map of running crawls | get or build, crawl, save | tools; other releases | await between judging the file and the map | one crawl at a time, the right schema, an answer |
| Webhook store `webhook/store.ts` | alert file | append, read newest first | listener, alert tools | torn lines, chunk boundaries, growth during a read | newest first, no loss beyond the torn line |
| Webhook listener `webhook/listener.ts` | request body | POST | webhook store | body limit, authentication | rejects before storing |
| Knowledge cache `knowledge/*` | cache file, two time-to-live maps | look up, walk folders | Grafana client, tools | concurrent load, mutate, save | an entry is of the dashboard's version |
| Atomic write `util/atomicWrite.ts` | temporary file, target | write, rename | all stores | several writers, crash | readers see whole contents |
| Connections and clients `grafana/*`, `graylog/*`, `connections/resolve.ts` | client per connection, memo of the datasource list, preferences | get, list, resolve | every tool; edits in another process | an entry that fails after its successor was made | the client of the connection as listed; no failure served again |
| Activity log `activity/activityLog.ts` | bounded log, number of the next entry | record, subscribe | tools, window | which call records, when | exactly what was inspected |
| Times `query/dateMath.ts`, `resolveRenderWindow` | none | parse, round, shift; pick zone and week start | dashboard tools, preferences | clocks that go forward and back; settings nobody reported | a period is all its instants; what is not reported did not matter |
| Dashboards `dashboards/*`, `tools/liveVariables.ts` | none | flatten, substitute, resolve variables and datasources | dashboard tools | a variable that stands for everything | a query that matches everything is said to |
| Dashboard tools `renderDashboard.ts`, `screenshotPanel.ts`, `exportPanelCsv.ts`, `panelInvocation.ts`, `electron/src/screenshotter.js` | capture gate, hidden windows | one handler per tool | all of the above, Grafana | fan-out with partial failure, windows that must close | each panel answered for; no window left |
| Investigation tools `executeQueryWindow.ts`, `validateBaseline.ts`, `detectCorrelatedAnomalies.ts`, `summarizeFindings.ts` with `analysis/*`, `query/windows.ts`, `query/stepReport.ts` | none: the agent carries answers from call to call | replay, compare, widen, conclude | Grafana, metric index, knowledge | the dashboard saved between windows, scopes searched by different calls, diluted evidence | compared alike, nothing left out, nothing dismissed |
| Agent's queries `executeAdhocQuery.ts` with the guards of `query/*` | audit line | classify, prepare, run, record | Grafana, audit log | refusals and failures at each step | the record runs again what ran |
| Log tools `searchLogs.ts`, `correlateLogs.ts` with `logs/*` | none | list sources, resolve, fetch, join | Graylog, Loki through Grafana | sources that cannot be read, streams cut short | the source meant, or none; no invented event |
| Listing tools, alerts, breakouts, configuration, CSV, redaction, windows, renderer, scripts | little | parsing, layout, user interface | | | mostly text |

`PROJECT.json` lists each with its status, and every hazard found while reading
with the line where it bites and the properties that watch it.

## 2. Plan

Order: what several actors can break first, then single-process caches, then
the tools over them with the algorithms they apply.

1. **Processes and files (done)**: `Semaphore` (implements `BoundedConcurrency`),
   `UpdateClaim`, `ConnectionStore`, `IdleShutdown` and `Updater` composed by
   `DesktopProcess`, `AuditRotation`, `MetricIndexCache`, `WebhookStore`,
   `KnowledgeCache` over `AtomicWrite`; proofs about all of them.
2. **Times (done)**: `DateMath` under `RenderWindow`; proofs of both.
3. **Dashboard tools (done)**: `Panels`, `ToolServer`, `PanelReplay`,
   `RenderDashboard` and `PanelTools`, composed by `ToolCalls`; proofs of what the
   calls share, of the log, of the variables and of a render's answer.
4. **Investigation (done)**: `AgentCall`, `Series`, `Baseline`, `QueryWindows`,
   `OwnQueries` and `LogSearches`, composed by `Investigation`; its proofs.
5. **Open**: the crawl's paging and workers under `MetricIndexCache`, a rename
   that fails in a rotation, the preferences' memo, the tag and PromQL
   breakouts.

## 3. Modules

Each module's header says what a step is; each definition's comment names the
code it translates; `PROJECT.json` "map" gives the lines. Definitions that
begin "A slip, not the code" are deliberate errors, used in no specification:
they are put in place of the definition beside them to see that the properties
notice.

### Semaphore, BoundedConcurrency
`queue` is the array of resolvers, `active` the count, `pc` where each call of
`run()` is. `release()` with a waiter transfers its slot (`Transfer`): the
woken task is *granted* until its microtask (`Start`) resumes it, and any number
of newcomers may call `Acquire` or `Enqueue` in between, which is the
interleaving of issue #151. `BoundedConcurrency` is the promise: a set of running
tasks never larger than the limit. The refinement maps `inside` to the running tasks.

### UpdateClaim
One action per system call of `claimUpdateCheck()`: examine the stamp, open
the lock exclusively, examine it, unlink it, open again, write the stamp,
unlink. Time is kept as ages, so that the state space is finite without a
clock; each call captured `now` at its start, and `lag` is how long ago.
`Crash` ends a call between any two system calls; `WriteStampFails` is the
disk's error.

### ConnectionStore
Each call is a sequence of four file operations (read the list, read the
secrets, write one, write the other), interleaved with those of other
processes and cut short by `Abort`, which stands both for a crash and for a
write that throws. A connection is its url-and-kind key and its kind of
authentication; a secret is the kind it is for, since the code decides by kind
whether a payload authenticates. A request is a save from the window's form, a delete, or the
import of a file; an import plans from one read and then runs an upsert per
entry. The engine's read is two reads.

### DesktopProcess = IdleShutdown + Updater
One process: the application as an MCP server, the application's window, or the
command line. `IdleShutdown` is the watchdog of `idleShutdown.ts`, the stream
guard of `stdioPipe.ts`, their wiring in `server.ts` and the veto of `main.js`:
what is hard is between them, since a broken stderr reports a departed client by
writing to stderr, and a veto must put the decision off without using it up. Its
clock is `silence`, in watchdog ticks. `pending` holds what the streams have yet to tell: a
`departure` (the end of stdin, or an error that only a dead reader causes) or a `fault` (any other
error: a full disk, a failing terminal). Every line may fail, this guard's own and those of the
updater, the tools and the application (`OtherLine`). `written` counts, from tick to tick, the lines that
the guard, the watchdog and the veto write to stderr, except the one that each fault gets while the client is
not known to be gone (section 5). `Updater` has the flags of `updater.js`
one by one; a click is a call of `checkForUpdatesNow`; electron-updater is the
environment, which ends a check by an event or a rejection (or, where `library`
is "inactive", by nothing at all; "missing" is a build that cannot load it), and
ends a download by an event. `early` remembers that a click came before the
launch check. The mode, the timeout and the library are chosen once, in `Init`.

Neither has a specification of its own: `DesktopProcess` instantiates both over
the two variables they share, the download flag (which the updater's events
write and the shutdown's guard reads as its veto) and the end of the process,
and states their properties together. `StopsOnlyWhenUnneeded` speaks of the
download itself, not of the flag, so it needs both halves to be right.

### AuditRotation
Slot 0 is `audit.jsonl`, slot *g* is `audit.jsonl.g`; a file is named by the line that
created it. Appends are an open and a write, so that a rename may fall
between; a rotation is one unlink and a rename per slot, in the code's order.

### MetricIndexCache
Crawls are numbered, the index file holds a crawl's number, `expired` moves the
time-to-live. `Call`, `Load`, `Decide` are the stretches of `getOrBuildIndex`
between its awaits; `Coalesce` consults the map of running crawls and starts or
joins. `Restart` ends a process with its crawl. Processes of an older release
read and write the same file with another schema.

### KnowledgeCache, AtomicWrite
A step of a call is a request to Grafana with the code that handles its answer; a
call keeps its own copy of the cache between loading and saving, as in
`lookup.ts`, where no copy is shared even inside a process. A dashboard's panels are
the number of the edit that made them. Time is kept as ages, and an entry past
the time-to-live is the same as none. `Stale` is how long an absence may last: an entry's
time-to-live and the call that reads it. `AtomicWrite` is instantiated for the
save: the temporary file is opened, written and renamed in three steps, between
which other calls save or the process dies. `settled` is a history variable: how
long ago each dashboard last changed.

### WebhookStore
The file is a sequence of bytes. An append is one or more writes that may be
cut short; a read goes back through the file in chunks, carries the part
before the first newline over to the next chunk, and never looks past the size
it found at the start.

### RenderWindow over DateMath
`DateMath` has the functions of `dateMath.ts` as operators on ticks of half an
hour: a zone is a table of transitions, as `Intl.DateTimeFormat` answers for it,
a wall clock names one instant, two or none. `RenderWindow` is
`resolveRenderWindow`: where each bound's expression comes from, whether a zone
or a week start matters at all, whether the preferences are therefore read
(`Tiers`, then `PreferencesArrive`, in between the request), and the window with
its limit (`Resolve`). `stage` is where the call is. An expression's operators are
applied by a recursive function of their place (`ParseTime`), and the rounding of a day
(`FirstOf`) and the shift of a wall clock (`Moved`) stand apart from the zone, so that the calendar can be
reasoned about without it.

### ToolCalls = RenderDashboard + PanelTools, over PanelReplay, ToolServer, Panels
A call's `pc` names the await it is at; what it has found so far are the fields of
its record. `ToolServer` is what calls share: the registry's clients, each
client's memo of the datasource list with the fetch it holds (`fetches` numbers
the requests, so that a late failure can be told from a new one), the activity
log, the audit log, the capture gate and the open windows; and the steps all
calls begin with (connection, link, board) and end with (a line in the audit
log). `Edit` and `Unlist` are another process writing the connection store.
`PanelReplay` looks up variables one by one and queries panels side by side;
`RenderDashboard` fans out over a dashboard; `PanelTools` drives a hidden window
stage by stage, each of which may fail, and has the export's second way without
one. Fields that a step adds to a call's record are joined with `With`, which
takes the first operand's field where both have one (the object spread of the
code, the other way round). `Panels` has the pure functions on a dashboard's JSON: a reference to a
datasource is a uid or a name, a query the variables it mentions. `Filter` takes the
elements of a sequence by the rank of their places (`Picked`).

### Investigation = replays, searches and verdict, with OwnQueries and LogSearches
One agent, one call at a time, as the skill that drives it works; what
interleaves with the awaits of a call is a saved dashboard (`Save`) and a removed
connection (`Unlist`). A dashboard is what its panel asks and the value of its variable; what the panel
asks is a query with the datasource that its reference comes to, and has no existence where the panel is gone.
A replay's call holds the dashboard as it is saved, which only matters while windows are to read it. `answer` is the last call's answer; `ledger` is a history
variable: the scopes searched since the agent last did something else, what they
tried, what the limit cut off, which indexes could not be read, and the products
each call worked with. `Series` has what is read from a response, `Baseline` the
statistics, in whole numbers and fractions so that each comparison is exact, with the absolute
floor of a deviation (`Epsilon`) a whole number of units (`Runs` cuts a
series at the places where it stops crossing, `ByStart` puts runs in the order of their
beginnings, `Euclid` is the code's loop on a pair of numbers);
`QueryWindows` the windows. `OwnQueries` is `execute_adhoc_query`: a query is what
its guard looks at (statements, head word, whether a literal is left open), and the
audit line is followed from the first `recordExploreUrl` to the last. The connection's address is looked
up after the datasources have been listed, when the connection may be gone (`based`). `LogSearches`
reads the sources (each connection may be unreadable), decides which one an id
means, fetches each stream up to the limit and joins; the join engine is a
library, modelled by the operator it applies. `Completions` of a world are what
reading it could have found had every connection answered: `SourceIsCertain` is
that the id means the searched source, and no other, in all of them. Without an id
the sources are listed and then resolved again under the sole one's id: between the two
a connection may be removed (or, with it, the id come to mean a Graylog
connection), so the property speaks of the first listing as it was and of the
source searched as it is.

## 4. Runs

| Run | Instance | What it shows |
|---|---|---|
| `MCSemaphore` | 5 calls, 2 slots | order, refinement of the limiter, every waiter runs |
| `MCUpdateClaim` | 3 processes, interval 3, lock age 2, 1 fault | a start after a stamp stands down; the lock excludes while nobody died; an orphaned lock is reclaimed |
| `MCConnectionStore` | 1 editor, 3 ids, 2 keys, 2 kinds, 2 import files | a listed connection authenticates, also for a reader in the middle of an edit; imports, repeated or cut short, never duplicate |
| `MCDesktopProcess` | timeout 0 or 2 ticks, 1 request at once, 2 clicks | stops only when unneeded; orphans exit; a dead pipe is reported once, and faults cease with the report; watchers hear, clicks are answered, no unasked dialog |
| `MCAuditRotation` | 3 generations, 10 lines, 1 rotator | only the oldest lines are lost |
| `MCMetricIndexCache` | 3 calls, 2 processes, 2 releases, 4 crawls | one crawl per process, own schema, everybody answered |
| `MCKnowledgeCache` | 2 calls, 2 dashboards, a cycle of 2 folders, one edit | what is returned is of the version fetched; neither a miss nor a failure outlives the time-to-live; the file is always whole |
| `MCWebhookStore` | 3 records of 2, 3 and 1 bytes, chunks of 2, 2 faults | newest first; loss bounded by the torn lines |
| `MCRenderWindow` | 4 zones, 13 presents at their transitions, 17 beginnings, 5 ends, all tiers of settings | days and longer are rounded to their first and last instants; settings are the ones reported |
| `MCRenderWindowHours` | the same | *violated*: an hour ends before it begins |
| `MCToolCalls` | 9 pairs of calls, 2 connections, 3 dashboards, 1 edit, 1 tick | every panel answered for; the activity log is what was inspected; memo and lists fresh; open variables said; windows closed; no call hangs |
| `MCInvestigation` | 2 connections, 3 dashboards, 13 responses, 11 queries, 11 log calls, 7 sets of sources | compared alike but for named edits, what recurs is common, nothing dismissed, sound step warnings, complete widening, replayable records, certain sources, honest joins |

Each run takes two minutes or so at most. The properties are the ones a hazard is behind; each
module's `TypeOK`, where it has one, is documentation of its state and holds in the
same instances, as do the inductive invariants (`IInv`, and others section 7 names), which the proofs establish.

**Why the bounds are enough.** Five calls are two running, one woken and not
resumed, and two that queue or arrive; three processes are a holder, a
reclaimer and a rival; three identifiers are one being written, one already
there and one created while the first is written; two clicks are one that
starts a check, or joins the launch's, and one that joins it or comes during
the download; a timeout of two ticks has a silence below it, and one request at
once is enough to be under way, or not, when it elapses;
three generations have one in the middle, and ten lines fill every slot and
drop one; four crawls are two per process, so that one may be superseded;
two dashboards are one on the way up the folders and one that only
the connection-wide fallback finds, and one edit may publish, change, withdraw
or delete either; a tick of the knowledge cache is a time-to-live of 15 minutes,
so its calls end within the tick they began in (`MaxSpan` is 0; the theorem is for
every `MaxSpan`, and an instance with 1, of some ten million states, showed nothing either);
chunks of two bytes against records of one, two and three put the newline on
either side of a boundary and let a record span two.

The zones of `MCRenderWindow` are the kinds there are: clocks that change at
midnight, so that a day has no midnight or two, at two o'clock, and by half an
hour; all of them keep midnights (`ZonesKeepMidnights` is evaluated), which is what the
theorem about rounding asks of a zone (section 7). The presents lie before, in and after each change and at the ends of month
and year. Two calls of `MCToolCalls` are one whose fetch or capture is under way and one
that joins it, waits for the gate or fills the log; the dashboards have panels that share an id,
rows, mirrors, every form of a reference and every kind of variable. `MCInvestigation`
has a flat series, a varying one, a peak the mean hides, missing values, missing
points and none, values on both sides of twice the absolute floor, and the three controls of the default; a query
that uses the variable and one that does not; two log connections whose ids overlap; limits of one and two against
streams of up to three lines, so that each side is cut and not cut.

The other bounds (`MaxLag`, `MaxFaults`, `MaxCuts`, `MaxInFlight`, `MaxLines`, `MaxAppends`, `MaxCrawls`,
`Records`, `LastTime`, `LastVersion`, `MaxFrames`) are named in their modules and cap counters that the code leaves
open.

Deadlock is checked in `MCSemaphore`, `MCUpdateClaim`, `MCConnectionStore`, `MCToolCalls` and
`MCInvestigation`. In `ToolCalls` it stands for liveness: no step of a call is ever
repeated, requests are aborted after a time and pages given up, so the only way
not to be answered is to have no step left; only `Done`, when every call has been
answered, goes on for ever.
The other systems may really stop: a process exits, a window is resolved, or a bound (lines,
appends, records, crawls) is used up.

## 5. What the passing runs assume, and what fails otherwise

A passing run is as strong as its instance and its conditions. Each condition
was lifted once, and the property failed; the code promises less there than a
reader might think. The first is the finding `MCRenderWindowHours`, which a run
repeats; the others were seen in the same way, and are recorded here and in the
notes of the hazards.

Times:

- **Hours that come twice** (`HoursToo`). The end of a period is the start of the
  next one, less a millisecond (`dateMath.ts:420-435`). In an hour that is repeated
  when clocks go back, the next hour is the repetition, which is rounded to the
  first of the two again: `now/h` ends before the hour begins. Minutes likewise.
- **Wall clocks that come twice, ahead of UTC** (`KeepsMidnights`). "Two instants qualify, and
  the earlier is returned" (`dateMath.ts:365-367`, `docs/BEHAVIOR.md:165-166`). `toInstant` guesses
  the offset by reading the wall clock as UTC (`:381`). East of Greenwich that is hours after
  the change, both its guesses are the offset after it, and it returns the second
  of the two instants without a look at the first (`:384`). A bound given as 01:30 on Lord Howe
  Island on 5 April 2026 is half an hour late, 02:30 in Berlin on 25 October 2026 an hour; and where
  clocks go back to midnight, as in Asia/Amman on 29 October 2021, `now/d` begins an hour
  into the day, so that `RoundingNamesThePeriod` fails in such a zone too. It surfaced in the
  proof of `PeriodsAreWhole`, whose last hypothesis on a zone (`KeepsMidnights`) excludes it.

Processes and files:

- **The stamp is not read again under the lock.** The election "elects exactly one
  process" (`updateCheckClaim.js:4, 26-29`), but one that examined the stamp before
  the winner wrote it may create the lock after the winner removed it, and both
  check. `StaggeredStartsStandDown` is about starts after the stamp.
- **A process died holding the election's lock** (`LockExcludes` requires
  `faults = 0`). Two later processes may both find the lock stale; the second
  unlinks the fresh lock of the first (`updateCheckClaim.js:68-74`) and both
  hold it.
- **Two editors of the connection store.** Each reads both files, edits, and
  writes both whole, so the later write undoes the earlier one: two processes
  importing at once lose a connection, and `ListedAuthenticates` fails without
  any crash, when one writes the list between the other's two writes
  (`connectionStore.js:54-55, 194`). The comment that an import adds and never
  removes (`connectionStore.js:298-299`) is true of one importer.
- **A connection changes its kind of authentication** (`AuthMayChange`). The new
  secret is written first, under the same id: after a crash between the two files
  the listed connection has the old kind and no secret of it, a state the comment at
  `connectionStore.js:44-49` rules out.
- **Two processes rotate the audit log** (`Rotator`). Rotation runs at every start,
  without a lock; of two that both found the log too large, one renames onto a generation
  the other has just moved, against `retention.ts:74-75, 94`. A single rename that
  fails (a file held open on Windows) is ignored as well (`:99`); it is not modelled.
- **A torn append.** The record stored after a line that was cut short continues
  that line and is lost with it, against `webhook/store.ts:36-37`; `LossIsBounded` counts one per
  torn line.
- **A dashboard comes back under its uid** (`ReusesUid`). Grafana counts its
  versions from 1 again, and the cached panels of the former dashboard are
  served when the numbers meet (`lookup.ts:61`): `ServedIsCurrent` fails.
- **The cache cannot be saved.** The `finally` of a lookup throws, and the
  answer, already computed, is lost (`lookup.ts:136-138`); the model's call then
  ends without returning it, and no property says otherwise.
- **A crawl ends between a call's reading of the file and its look at the map**
  (`metricIndex.ts:268-276`). The call starts another crawl although the file is
  fresh by then: wasted work, not a wrong answer, and no property forbids it.

The desktop process:

- **A click overtakes the launch check** (`early`). The launch check that
  follows it clears the download flag, and a second check starts over a running
  download (`main.js:457-480`): a watcher may be
  forgotten and the version downloaded again. `WatcherHears` and
  `UnaskedNeverInterrupted` are stated for `~early`;
  the menu exists a moment before the check, so the window is short.
- **electron-updater is inactive** (`library`): `ClickAnswered` is for an active
  one. An AppImage run unpacked counts as packaged, so the check is made,
  `checkForUpdates()` resolves to null without an event (which
  `updater.js:389-391` allows for), and nothing settles the click, against
  `updater.js:87-89`.
- **A call outlasts the idle timeout.** Only messages received count as activity
  (`idleShutdown.ts:120`), so a call still being served is cut off.
  `StopsOnlyWhenUnneeded` says so: a live client loses the server only after the
  configured silence, whatever is in flight.
- **Errors that tell of no departure.** An error of stdout or stderr whose code is not a
  disconnect's gets a line on stderr (`stdioPipe.ts:197-202`), without a latch: where stderr is a file on a
  full disk (ENOSPC) or a terminal that fails (EIO), each such line may cause the next error, and as long as
  nothing tells that the client is gone this goes on. The header promises silence once the client is known to
  be gone, and that holds: `DeadPipeGoesQuiet` counts every line but these, and these too from
  the report on, so that the chain ends with the first word of a departure. `send()` throws such an error on to the SDK (`:237, 241`). The
  updater and electron-updater's logger write to the same stream (`updater.js:232-234, 288, 314`);
  each of their lines may fail, which starts one such chain or one report, and is not counted as a line of
  the guard's.
- **A download fails after a click was answered "downloading".** Nobody is
  told (`updater.js:254-271`); `WatcherHears` speaks of success only.

Dashboard tools:

- **The list of datasources cannot be read while a variable is looked up.** The whole
  render fails (`liveVariables.ts:132` is outside the `try`), although the
  comment above it says that a failed lookup leaves the variable as it is and
  "only ever adds information" (`:99-103`, and `shared.ts:351-354`).
- **The directory of an export cannot be made.** The window was opened before
  (`screenshotter.js:134-147`) and nothing closes it; `WindowsAreClosed` excepts such a
  window (`stranded`). Exports also open their windows outside the capture gate
  (`panelInvocation.ts:291`).
- **A connection is edited during a capture.** It is read again after the awaits
  (`panelInvocation.ts:195`), so a window may use the newer version while the links of the answer
  were built from the older. The capture's link names the panel by its id alone, so of
  panels that share one it shows the first.

Investigation tools:

- **A product found in one call and not in the next.** `detect_correlated_anomalies`
  finds the product again in each call (`:205-214`) and sorts candidates by it
  (`:278`); where the lookup failed for the scope "product" and succeeded for
  "connection", the product's dashboards are searched by neither, although the scopes are
  described as widening (`:50-55`). `SteadyWideningIsComplete` requires one product.
- **An unreadable index, a failing candidate.** An index that cannot be read is left
  out without a word (`:243`), and a candidate whose replay failed still counts as
  checked (`:330, 378`); the property grants both.
- **The dashboard is saved while its windows are read.** Each window fetches it again
  (`shared.ts:392-417`), and only the values looked up for `$__all` are carried over
  (`executeQueryWindow.ts:190-204`: another list of hosts "would break the apples-to-apples comparison
  these baselines exist for"). Where the query, its datasource or its step was edited, or the value of a
  variable for which nothing was looked up (one that selects a single host, or whose look-up failed), the incident
  and its baseline are of different things, and no warning says so; a variable set to "All" by
  such an edit is not among those reported as open either. `ComparedAlike` names these two kinds of edits and
  says that no other makes the windows differ.
- **A connection removed while its datasources are listed.** `execute_adhoc_query` looks the
  address up afterwards (`executeAdhocQuery.ts:415`), finds none, and makes no link (`:417`); the query, whose
  client was found before, runs all the same. "Every refusal past this point lands in audit.jsonl with a
  replayable link" (`:401-404`) is not so then, nor has a query that ran one. `AuditedReplays` asks for a
  link only if there was an address (`based`), and of every link there is that it replays.
- **Controls that are flat but for rounding.** A flat baseline's deviation is a
  hundredth of its mean, but flat is a deviation of exactly zero (`baseline.ts:40`). In floating point three values of 0.1 have
  one of 1.4e-17, which is used as it is: 0.1005 is then unusual against 0.1, 0.1, 0.1, where 1.005 is common
  against 1, 1, 1. The incident need not even differ: the mean of a thousand values of 0.1 is off by
  1.4e-15, some hundred such deviations from a control of one value and of three. The model computes exactly and has none of this;
  nor does `RecurringIsCommon` speak of controls without a spread. Where the controls are zero the floor is
  absolute (1e-9), so that values below 2e-9 are no excursions, against "any nonzero point"
  (`:141-144`); the model has this, and `NothingUnusualIsDismissed` holds of it.
- **Many controls.** "A single unusual baseline window can't itself look like an anomaly"
  (`baseline.ts:83-84`). The level of one of *k* controls is at most sqrt(*k* - 1) pooled deviations from their
  mean: less than three for up to nine controls (`RecurringIsCommon`), but with ten, which a caller may
  give, the window that stands out does reach the default threshold, and so it may with fewer at a lower
  `zThreshold`.
- **One window of `validate_baseline` fails.** `Promise.all` fails the call, the
  other windows with it.
- **The wording of limits.** A score is "floored at zThreshold" by a comment
  (`correlation.ts:58-72`) where the code caps it; frames without a time are passed over in silence
  (`executor.ts:80-81`).
- **The two streams of a join** are two searches, at two moments: lines that arrive
  in between are in one of them only. Times are in the past, so late lines are few.

## 6. Fairness

- *Semaphore*: a microtask runs, and a request settles because the clients abort it
  after `requestTimeoutMs`. Nothing makes a caller call.
- *UpdateClaim*: a live process makes its next system call, time passes,
  sessions go on being started (the header's "the next process, or the next
  session, tries again"). No fairness for crashes.
- *DesktopProcess*: the watchdog's timer fires, and a check that was accepted ends. `OrphanExits` assumes, in its own statement, that windows and downloads
  stay out of the way from some time on. Nothing is assumed of the streams (the client's death may
  queue no event at all), of downloads or of the user.
- *MetricIndexCache*: reads of a file complete; requests of a crawl are answered
  or aborted. Processes may restart at any time without being obliged to.
- *ToolCalls*, *Investigation* and the others state no fairness: their properties are
  safety, and that a call is answered is what the check for deadlocks shows
  (section 4).

## 7. Proofs

Each theorem is for every value of the constants that meets the named assumptions of its
module (which each run evaluates on its instance) and the hypotheses in its own
statement. Thirty-four of the passing runs' forty properties are stated by one. A property is
seldom inductive: what follows says for each what had to be added, and why.

- `SemaphoreProofs`. The inductive invariant `IInv` says that `active` equals
  the number of admitted tasks (woken ones included), is at most the limit, that
  the queue holds exactly the waiting tasks, each once, and that nobody waits while
  a slot is free. The cap alone is not inductive: `release()` hands a slot over without
  touching the count, so the count must be tied to the occupancy. From it follow
  `CapIsNeverExceeded`, `ServedInOrder` and the refinement
  `SemaphoreIsALimiter`. Assumed: finitely many tasks, a natural limit (zero
  included).

- `SharedFilesProofs`, about `UpdateClaim`, `AuditRotation` and `WebhookStore`: files that are shared with
  nobody in charge. `OneCheckPerInterval`: a process that starts within the
  interval of another's claim stands down, for any number of processes, crashes
  and any length of the interval. The invariant (`Sound`) bounds the stamp's
  age by the age of every claim plus the longest call, which is what the code's
  order (stamp before answer) gives. `LockIsExclusive`: two calls are never both
  past the lock, as long as nobody died holding it. `LockInv` adds that the lock is
  there exactly while somebody holds it and is no older than the holder's call;
  therefore nobody finds it stale, and nobody is on the way to unlink it. That
  needs `MaxLag < LockStaleMs`: a call that lives ends before its lock counts as
  stale, which is what `updateCheckClaim.js:39-42` relies on. Assumed besides: finitely
  many processes, positive durations. `OnlyTheOldestIsLost`: of the audit lines written, those
  lost are older than those kept, for any number of generations and of processes, as long as
  no two rotate at once (with two, the property fails: section 5). The invariant says that later slots
  hold older files, that lines go to ever newer files (the live log is the newest there is,
  `LiveIsNewest`), and that a rename goes into the slot emptied before, which is why
  a rotation cut short does no harm and the next one starts with a deletion. Assumed: at least one
  generation.
  `TornLinesCostOneEach`: of the webhooks acknowledged, no more cannot be read than appends were
  cut short. `LossInv` follows the line under way byte by byte and adds to what is lost a
  torn line at the end of the file, whose price is still to be paid by the record glued to it.
  `ReadsAreNewestFirst`: a read yields what was in the file when it was opened, newest first,
  wherever the chunks begin and whatever is appended meanwhile. Two invariants are behind it:
  `InOrder` (the file has the bytes of the records in the order in which these came), and
  `ReadInv` (up to `Unread` the read has yielded nothing, beyond it the records of all lines, and
  there is a newline between). A step back splits the stretch it completes at a newline
  (`RecordsSplit`), what is behind it is newer (`RecordsAscend`), and a set has one falling
  sequence (`FallingIsUnique`), by which the pieces joined are the whole (`NewestJoins`). Assumed:
  records and chunks of at least one byte.

- `ConnectionStoreProofs`. `OrphansAreAllThatIsLeft`: wherever an edit is cut short, a
  listed connection that was saved with a credential has one.
  `HalfwayReadsAuthenticate`: so does what the engine reads in two reads, while an edit is
  between its two writes. `ImportIsIdempotent`: no import adds what is listed. The
  first says nothing of an edit under way, so `IInv` follows it: what is left of the plan
  fits the file (`PlanFits`: an entry that is to be added is listed nowhere, one matched to a
  connection keeps its kind), the copies about to be written differ from the files in the one
  entry only (`WriteFits`), no file knows an id before it is drawn (`OnlyDrawn`), and
  a reader's copy agrees with the list on whatever is still listed (`ReaderAgrees`). All three
  assume one editor (`OneEditor`) that keeps each connection's kind of authentication
  (`~AuthMayChange`): without either they are false (section 5). The entries of a manifest
  have distinct keys, which `validateImportManifest` sees to (`ManifestsAssumption`).

- `DesktopProcessProofs`. `StderrGoesQuiet`: between two ticks the guard, the watchdog and the
  veto write three lines at most, whatever else is written and whatever fails, not counting the line each fault gets
  while the client is not known to be gone. `StopIsSafe`: the watchdog stops nothing that is in use.
  `WatchersAreTold`: whoever was told "downloading" hears of the end of a
  download that succeeds. `NobodyIsInterrupted`: no dialog in an agent's session unless somebody
  asked. `WatchInv` ties the lines written to whether the departure has been
  reported, which only the client's death brings about: before the report a tick has one line (the veto's),
  the report adds two, and its failure reports nothing further. `UpdateInv`
  ties the module's flags to what electron-updater is really doing: the download flag
  is the download (so the veto vetoes what it should), no check runs beside a
  download, a pending click has a check that answers it, and whoever waits for a download has
  one that is watched. `UpdateInv` holds as long as no click overtakes the launch check, and
  the properties speak of that case only (section 5).

- `QueryInputsProofs`, about what a query needs before Grafana is asked for it. Of the
  metric index: `OneCrawlAtATime`, `NobodyWaitsInVain`,
  `SchemasKeptApart`: the map of running crawls is exact in every process, a
  call waits only on a crawl of its own process that still runs, and releases
  never serve each other's index. The invariant adds that crawls not yet started
  have no state and no readers (`OnlyStarted`), without which a new crawl could
  take over an index somebody holds. Assumed: every call runs in one process, at
  least one crawl.
  Of the window: `SettingsAreAsReported`, the zone and the week start a call reports are each
  the first of the tiers that can be used, and any other would have given the same window
  where one is not reported. `WindowInv` says what stands at each stage: while preferences are
  read, what the call's own tiers gave; once settled, the whole list of tiers; at the end, that the
  window is computed from the settings. That a setting does not matter is proved of
  expressions: two ways of reading one that agree on its anchor and on each operator agree on
  it (`SameSteps`), and operators that neither round nor shift by days agree in all zones
  (`ZonesDoNotMatter`, `WeeksDoNotMatter`).
  `PeriodsAreWhole`: the start of a day, week, month, quarter or year is its first instant and the
  end its last, in any zone whose changes keep midnights. The argument has two halves. The
  calendar's is about days alone: each lies in a period whose days are all rounded to the
  first of them and whose next begins the day after (`Days`, `Weeks`, `Monthly`). The
  zone's is about midnights alone: around an instant there is one change of the clocks at most
  (`OneChange`), so that `ToInstant` of a midnight parts the instants in those whose wall
  clocks are before it and those whose are not (`MidnightParts`). `KeepsMidnights` asks that offsets are less
  than a day and changes less than half of one, that changes are two days apart, that no midnight is
  skipped or repeated except at the edge of what the clocks skip or repeat, and that clocks
  set back to midnight are behind UTC then. There are zones that do not: one that skips a
  whole day (Samoa in 2011), one whose clocks go over midnight from one minute past it (St John's
  until 2011), and Amman's (section 5). Nothing is said of them. Assumed besides: a
  calendar of months in order (`CalendarAssumption`), which reaches a year to
  either side of the present (`RequestsAssumption`).

- `KnowledgeCacheProofs`. `AlwaysWhole`: the cache file is never half-written,
  for any number of calls that save at once, fail or die. `AnswersAreCurrent`:
  what a call returns is what the dashboard said when it was fetched. Neither is
  inductive: the panels a call trusts may come from its own copy, loaded long
  ago, or from a file that another call, with an older copy still, renamed into
  place. The invariant `IInv` therefore speaks of every copy, those of
  running calls, of temporary files and of the file: each is `Honest` (the version of
  a cached panel is at most Grafana's, and at the same version it has Grafana's
  content), and a temporary file about to be renamed is whole. Edits keep it
  because they raise the version; deletions too, unless a dashboard comes back under the
  same uid, with its versions counted from 1 again. So the second theorem assumes
  `~ReusesUid`, and `Honest` is conditional on it, so that the first needs no
  assumption beyond the module's own (a tree of folders, natural bounds, no dashboard whose
  uid stands for none).
  `AbsenceDoesNotLast`, under the same condition: a lookup that misses what is
  published, or that fails because a dashboard is gone, does so for no longer than an
  entry lives and a call lasts. `RInv` says of every copy that its fresh entries are true of each
  dashboard that has not changed since they were made (`Sound`), and of every call
  (`Recent`) that what is due to be found is still to be tried, and that nothing still to
  be tried was deleted long ago; an entry and a dashboard's last change grow older
  together (`OlderIsSound`), so copies may replace each other in any order. That the dashboard
  the walk found is left out of the list is right only because it was tried and
  had nothing, which is where the honesty of the panels is needed again.

- `ToolCallsProofs`. `MemoKeepsUp`: a client's memo is its newest request for the
  datasources, unless that failed. `ListsServedAreFresh`: a list that is served was asked
  for within the time-to-live, through the connection as it was when the call began.
  `PagesCloseTheirWindows`: windows are those of the pages under way, and no more are captured
  than the gate admits, but for an export whose directory could not be made.
  `LogIsWhatWasInspected`: the activity log holds the last of the panels queried or captured, each
  once, numbered without a gap, and no other. `OpenIsSaid`: a query matches everything for a
  variable exactly if the answer says so. `EveryPanelIsInTheAnswer`: each panel of a dashboard is in
  the answer of a render exactly once, as what became of it. The steps
  of a call are some forty; `CallStep` says all that these properties need to know of one (which
  place it leaves and enters, that what it leaves alone stays, that a call keeps its connection), is proved
  of each action, and is all the invariant's proof uses. `Remembers` gives the newest
  request by a witness, which a late failure of an older one does not change: an entry is
  removed only if it is still that request's (`client.ts:230-233`).
  The last three are about what one call does, so they have a summary of a step of their own,
  `Traces`, and an invariant of their own, `TInv`. The log's half (`LogSound`) counts: the
  next number is one more than the number of pairs of a call and a panel that was
  inspected, and every entry is of such a pair. That an entry is new when it is written
  needs that a panel settles once, and so that no two jobs of a call are of one
  panel (`CallSound`); that a call which failed has no jobs is what makes an entry's call one
  that was answered. The variables' half (`VariablesSound`) speaks of the loop of
  `materializeVariables` halfway: it is said of the variables before the one in hand, and
  the selection of the others is still that of the request. This is where a variable
  computed twice, or the overrides of another, would show. `VaryingTells` is its
  step; `SelectionDecides` says that what is asked depends on the selection alone.
  The answer's part (`AnswerSound`) is that a render's jobs are the panels it is to query, in
  order, and that its answer is put together of them once they have settled. The property counts
  panels in the nested rows of a dashboard on one side and entries of four joined lists on the
  other. `FlattenedAll` says what a flattened dashboard holds and `PickedPlaces` what a filter
  keeps, by the ranks of the places; the four lists are at four parts of the flattened places
  (`EveryPlace`), so that each entry has its panel's place and each place its entry
  (`Listed`, `ReportedSo`), and sets so paired count alike (`CountedAlike`).
  Assumed: a time-to-live of at least one tick, links of the known kinds; for the last
  three also a natural `MaxEntries`, limits that are numbers and queried panels that differ (a
  panel stands for its JSON, place on the dashboard included, and rows list panels: `PanelsAssumption`), variables of distinct
  names, as Grafana's editor sees to (`VariablesAssumption`), and that no query's
  values include `$__all`, which only a selection does (`ResultsAssumption`).

- `InvestigationProofs`. `WideningCompletes`: once every scope has been searched by
  calls that worked with one product, each panel that shares the metric was tried, cut
  off by the limit, or is of a connection that is gone or unreadable. `JoinsStayTrue`: an
  event that a join reports is one the whole streams would have reported, and all of
  them where no stream was cut. `RecordsStayReplayable`: each link in an audit line runs what was
  sent, or what was asked where nothing was, and there is one unless the connection was removed before it was made. `WindowsAskAlike`: windows that are compared
  asked the same of the same hosts, unless the query was edited while they were read, or the variable where
  nothing was looked up. `OnlyTheSourceMeant`: whatever the connections that could not
  be read would have answered, the id means the source searched and no other. `WarningsAreProof`:
  a replay that is warned that its step was not used was spaced by another. `NothingOutsideIsDismissed`: an
  alert is not dismissed while a point of the incident lies outside its baseline's band. The first is not inductive: the property
  speaks of what is over, when all scopes are in the ledger, and says nothing of a
  search under way. `IInv` adds for each scope in the ledger that some product covers
  it (`LedgerInv`), and for a running call what it has found so far (`CallInv`): that it
  covers the scope it was asked for, minus what could not be read; that what its windows
  were asked is what the next would be asked, as long as no edit excuses it (`ReadsAlike`); that the source it has was certain, and the first listing left no choice.
  A removal of a connection keeps it because what is gone need not be covered. Certainty
  rests on two lemmas: an id is of a connection's source only if the
  connection's own id begins it (`IdOfSplit`), so that an unreadable connection that
  could hold another meaning is among those the code refuses over
  (`DenotedIsCertain`); and the least completion, in which unreadable connections hold nothing, shows
  that what is sole in all of them is sole in the one that was read (`LeastCompletion`). The
  joins need that a page is a part
  of what it was cut from (`PagesAreParts`) and that each join is monotone or was
  refused (`JoinsOfParts`). The last two are about numbers, and about what an answer was computed
  from: `FoundInv` ties the answer, and what a call carries to it, to the response it was
  given. A used step divides every gap between points, however many are missing
  (`SpacedByItsStep`); what divides two numbers divides what Euclid's algorithm makes of them
  (`GcdKeepsMultiples`, after showing that the equation of that recursion has a solution,
  `EuclidGoesOn`), and so the divisor of all gaps (`GapsAreMultiples`), by which the warning judges. A
  dismissal is a comparison without excursions; without excursions there are no runs, without runs no
  places off the band on either side (`CrossingsMakeRuns`, `QuietIsInside`). Assumed: `ScopesAssumption` (related panels are of
  their connection), `LogsAssumption` (limits are numbers, selectors are declared),
  `SourcesAssumption` and `WorldsAssumption` (finitely many connections and datasources, no
  empty uid, which `lokiIdSplits` would not read as one), `NullAssumption`,
  `ResponsesAssumption` (times are whole numbers, steps positive).

What stays with TLC, and why:

- liveness (`WaiterRuns`, `OrphanLockReclaimed`, `OrphanExits`,
  `ClickAnswered`, `CallAnswered`), which needs ENABLED;
- `RecurringIsCommon`: it compares products of sums over whole series, which is arithmetic
  beyond the solver; the run takes the default's three controls;
- `HoursToo`, which is false (section 5).

Where a proof needs induction over a sequence or a number, it is by the least
counterexample: a set of natural numbers that is not empty has a least (`LeastNat`), and a function
given by a recursive equation exists because its finite beginnings do and agree (`Recursion`). The prover does not see into
`SelectSeq`, `SortSeq` and the folds, nor into functions of two arguments; definitions the proofs
reach take places and pairs instead.

CASE expressions are written with guards that exclude each other (`Verdict`, `Magnitude`,
`Prepared`, `Shift` and others), in the order in which the code asks: the prover reads CASE as a choice
of any true guard.

## 8. What is not modelled

Contents: query text beyond what its guard looks at, the JSON of a dashboard beyond
references, variables and steps, log lines beyond their join keys, encryption, links. The guards'
scanners are abstracted to what a query is made of, so that they read a literal right is taken for
granted; floating point is replaced by exact fractions, so that rounding is not seen, neither at a threshold
nor in a deviation that would be zero without it (section 5). Not modelled at all: the tools that read a list and return it, related
dashboards and panel text, alert payloads, the tag and PromQL breakouts, the
listener's HTTP side, the crawl's paging and workers (a dashboard added or
removed meanwhile may fall on a page boundary, `metricIndex.ts:71`), a client made anew by an
edit with a semaphore of its own (`grafana/client.ts:92`), the sweep of
old screenshots, failures of a single rename, the parsing of the environment (a
concurrency of zero is accepted, `config.ts:315`, and then every request waits for ever), the user interface, CSV layout and
redaction: see the notes in `PROJECT.json`. Writes that replace a file are taken as atomic outside
`KnowledgeCache`: a finished temporary file is renamed over the target, which is
what `AtomicWrite` models and `CacheIsWhole` checks.
