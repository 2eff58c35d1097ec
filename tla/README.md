# Verification of morgue

TLA+ models of morgue, a program that unpacks and decompiles binaries by running
external tools, with the properties that are checked by TLC on small instances and
those that are proved with TLAPS for every instance. File and line references are to
the Go sources of the repository.

1. [The system](#1-the-system)
2. [Plan](#2-plan)
3. [Modules](#3-modules)
4. [Runs](#4-runs)
5. [Fairness](#5-fairness)
6. [Proofs](#6-proofs)
7. [Where the code and its text disagree](#7-where-the-code-and-its-text-disagree)
8. [What is not modelled](#8-what-is-not-modelled)
9. [Running the checks](#9-running-the-checks)

## 1. The system

One executable is a window (Wails), a command line (Cobra) and, while the window is
open, an HTTP server on 127.0.0.1:19876 that the command line's `morgue api ...` uses.
All of them drive the same engine.

    window ---bindings---+                                +--> recon (classify one file)
                         v                                |
    HTTP API --> PipelineService --> Engine.Run --> recipes --> external tools
       |             ^  events (chan)   |   ^             |        (processes)
       |             |  drainer         |   +- nested run |
       v             +------------------+     (installer) +--> AssetRipper (HTTP server)
    EventBroadcaster <-- hooks on window events
       |
       +--> ToolsService --> tools.Manager --> disk: <tools>/<name>/, .version, lock, cache

### Components

Each entry gives the state a component keeps, its operations, what is hard about it,
and what makes it correct.

**Pipeline service** (`services/pipeline_service.go`). One mutex over a status, the
cancel function and the pause gate of the one job that may run. `Run` is called in a
goroutine per request, tests `Running` under the mutex, releases it, and runs the
engine for hours; a drainer goroutine copies the engine's events into the status.
`Stop`, `Pause`, `Resume`, `GetStatus` come at any time. Hard: two requests that race,
controls that arrive between any two of `Run`'s critical sections, events that are
still in the channel when the engine has returned, a drainer that dies. Correct: one
engine at a time; controls reach the engine that runs; a terminal status is final;
stopped jobs give the service back.

**Pause gate** (`engine/types.go`). A channel, replaced on `Pause` and closed on
`Resume`; a waiter takes it under the lock and waits outside. Hard: `Resume` and
`Pause` between the two. Correct: nobody waits for a channel that nobody will close,
and what the gate does and what the status shows agree.

**Engine** (`engine/pipeline.go`, `emitter.go`). A scan, a pass that classifies every
file, a pass that prepares and executes, with native files postponed and run as a
batch of two phases, and nested runs over what an installer was unpacked to. Hard:
which of a dozen early returns and `continue`s is taken, in combination with `Stop`,
`Pause` and recursion. Correct: every file is accounted for once; "done" is said once,
last; nesting is bounded; one target's failure is its own; `Stop` and `Pause` hold.

**Recipes** (`recipe/*.go`). Step sequences of external tools, reporting on two
channels (progress and log lines) which a forwarder merges into the events. Hard: two
channels and one `select`, closing them, a forwarder that dies. Correct: order per
channel, nothing lost before the target's last event, the engine stuck in one case only
(section 7).

**External processes** (`util/exec.go`, `recipe/assetripper.go`). A scanner over the
child's standard output, `Wait`, cancellation that kills the child; AssetRipper is a
server whose lines a goroutine forwards while the recipe talks to it over HTTP. Hard:
pipe buffers, descendants that keep the pipe, lines too long for the scanner, a
goroutine that outlives its caller. Correct: no output lost; calls return; no line is
sent to a channel that is closed.

**HTTP API and event stream** (`api/*.go`). `EventBroadcaster` keeps a table of client
channels under a read-write lock; handlers, senders and `Shutdown` run concurrently.
Hard: closing channels that others send to; clients that stop reading or connect late.
Correct: no send on a closed channel, senders never wait, everybody is disconnected.
The other handlers are calls of the services; the settings handler reads, changes and
writes the configuration without a lock.

**Tools service** (`services/tools_service.go`). A table of active operations keyed by
tool and a change channel that is closed and replaced at each change; installs of one
tool or of all, deletions, the update at start-up, runtimes that tools need. Clients
long-poll. Hard: several requests on one tool, failures in the middle of a list,
changes between two polls, progress under keys of its own. Correct: no operation on a tool
is shown for ever, requests end, and waits that no runtime's download disturbs.

**Tool manager** (`tools/*.go`). Keeps its state on disk only: a directory per tool,
`.version`, `tools.lock.json`, a release cache. Installs download (with resume),
extract, stamp. Hard: failure or crash at any step, retries over what a failed attempt
left, deletion in between, two processes. Correct: what `Check` finds is complete and,
but for one case, the version recorded.

**Self update** (`selfupdate/updater.go`, `services/update_service.go`). Downloads and
verifies a release, renames the running program aside, the new one into place, rolls
back on failure, cleans up at the next start; a window then starts the new program in
its own place. Hard: a crash between two renames, two processes that update at once,
progress through a bounded channel. Correct: there is always a program to start, whole
and never older than before.

**Shared files** (`config/config.go`, `tools/lock.go`, `tools/github.go`). Three JSON
files which threads of several processes read, change and write back: the settings with
no lock at all, the lock file of tools and the release cache under a mutex of the
process. Hard: lost updates, files seen while they are written, a cache entry of any age
used when the network fails. Correct: a writer leaves what is not its own alone, and what
is taken from the cache is not older than it may be.

**Command line** (`cli/*.go`). `morgue run` and its watch mode drive an engine of their
own and print the summary they find on disk; `morgue api ...` is a client of an open
window and polls until it is told that its run is over. Hard: the status polled is shared
with other runs; the view may be left before the engine ends. Correct: what is printed is
about the run that was asked for.

**Entry and browser runtime** (`cmd/morgue/main.go`, `webview2/*.go`). Argument dispatch,
then the window, for which a browser runtime may have to be found or installed in one of
two ways. Hard: downloads tried again, cut off or left torn by another window. Correct:
the window opens with a runtime or not at all.

**Recipes' steps and algorithms** (`recipe/*.go`). Each recipe is a sequence of numbered
steps which leave products in an output directory that outlives the run: the next run
finds markers, trees and dumps of one that failed or was killed. Hard: which failure is
fatal, which falls back, what is believed of an earlier run. Correct: markers are true, an
answer without error means there is source (with named exceptions), and a step that says
Success is whole. Inside them, `nsis.go` walks the instruction table of an installer, `csplit.go` splits one large
C file into records with a catalog.

**Window front end** (`frontend/src`). The page starts what the user chooses by itself,
awaits calls of the service and folds the events of every run into one phase. Hard: events
that arrive after a reset, or before the answer that started a run; a path that is read
after an await. Correct: it starts only what was chosen, each choice once, and does not show
work for ever.

**Scanner, recon, skip list, gamedata, odin, terminal interface, instructions**:
sequential transformations of bytes and text, and rendering, without state of their own.

The full list with sources and status is `components` in `PROJECT.json`; the hazards,
each at its line, are `hazards`.

## 2. Plan

In order of what the program's correctness hangs on.

| | module | models | composes / refines |
|-|--------|--------|--------------------|
| 1 | `PipelineService` | service, gate, drainer | its engines implement `EngineContract` |
| 2 | `EngineRun` | passes, batches, nesting, controls | implements `EngineContract` |
| 3 | `RecipeForwarder` | two channels, one `select` | between 2 and the drainer of 1 |
| 4 | `StreamingExec` | one external process | |
| 5 | `RipperExport` | AssetRipper as a server | extends 4 |
| 5a | `RecipeOutput` | what a recipe says while it runs | extends 3 and 5 |
| 6 | `EventBroadcaster` | event stream and its shutdown | |
| 7 | `ToolsService` | operations table, long polls | |
| 8 | `ToolInstall` | one tool's directory on disk | |
| 9 | `SelfUpdate` | renames, rollback, crash, clean-up, relaunch | implements `AtomicReplace` |
| 10 | `GuiStart` | start of the window, browser runtime | |
| 11 | `SharedFiles` | settings, lock file, release cache | |
| 12 | `CommandLine` | `api run --wait`, `run`, watch | service as a contract |
| 13 | `HomePage` | the window's page, its calls and events | service as a contract |
| 14 | `BaseDir` | the processes and what they share | extends 9 to 13 |
| 15 | `RecipeRun` and a module per family of recipes | step machines over an output directory that outlives runs | |
| 16 | `NsisUnpack`, `Csplit` | instruction walk, splitting of C | `NsisUnpack` extends `RecipeRun` |
| 17 | `AllRecipes` | any recipe, killed anywhere, run again | extends 15 and 16 |

All of these are done. Left, in order:

- the names of output directories (`pipeline.go:1007`) and the grouping of files, as
  operators against a definition, and so `isNewer` and the selection of assets;
- the composition of `ToolsService` with the disk of `ToolInstall`: an answer about a tool
  reads one after the other (`tools_service.go:89`);
- what each of two installers of one tool records (`manager.go:195`), which needs
  properties weaker than `RecordedIsThere`;
- the timeouts of the server (`server.go:69`);
- in the proofs: what `ToolsService` promises each request, and the typing and the safety
  of `CommandLine` and `HomePage` beyond the properties of the runs.

The runs are kept few: a module to come joins the run of the module it extends or
composes. Modules to be proved about have no RECURSIVE operator, name their assumptions
on constants, and have one action per operation.

## 3. Modules

### PipelineService

Every submitted job is a process `j` with a program counter; everything `Run` creates
(context, gate, channel, drainer) is indexed by the job, so the model does not assume
that one job runs at a time.

| state | code |
|-------|------|
| `status`, `cancel`, `pause` | the fields under `PipelineService.mu` |
| `pc[j]` | where the goroutine of `Run` is |
| `gateOf[j]` | the gate read again at line 76 and given to the engine |
| `gatePaused[j]`, `held[j]` | the gate's channel is open; the engine holds such a channel |
| `cancelled[j]` | `ctx` |
| `events[j]`, `closed[j]`, `drainer[j]` | lines 73 and 83-113 |
| `left[j]`, `failed[j]` | the engine: targets to work on, its error |

`Run` is split where it releases the mutex: the answer of the handler, the busy test
with the claim, loading the configuration, `GrabGate` (line 75), then the engine, which
is reduced to what the service sees of it: a scan event, rounds that look at the
context, capture the gate's channel, wait, send `execute` events and the final `done`.
A target that was prepared comes to the gate a second time, and a cancellation at the gate
ends the run or, in a nested call, a round of its caller. `Contract(j)` maps this engine
to `EngineContract`.
The engine blocks when the channel is full. A drainer step applies one event to the
status; it may die (its `recover` swallows the panic), after which nobody receives.
`Stop`, `Pause`, `Resume` are one action each, as they hold the mutex throughout.

### EngineRun

`stack` holds a frame per active call of `Run`; a frame has the listed files, the files
still to look at, the tasks, the postponed native files, the batch and the results.
`phase` names the loop the top call is in and `step` where it is in that loop's
prelude: the context test, the capture of the gate's channel, the wait, then the
body. Kinds of files stand for recipes: `nsis` may unpack into a tree, which pushes a
frame while the depth allows it; `native` files are postponed; `dotnet` stands for
every recipe without a special case; `skipped` for what gets no recipe. Each
preparation (runtimes, tools) and each execution may fail.

### EngineContract

What a caller of `Engine.Run` may rely on, and all that `PipelineService` says of it: a run
scans, then goes in rounds (`check`, `capture`, `wait`, `work`), sends its one "done" event
and returns; it fails only when its scan failed or its context was cancelled, and it waits
at the gate only while the gate is closed. `EngineRun` implements it (`KeepsContract`, a
property of run `engine` and a theorem): `At` says where a stack of calls is, seen from
outside. A nested scan, a batch and a lone native file are `work`; the return of a nested
call is a `check` of its caller's loop; errors of nested calls do not show. Every engine of
`PipelineService` implements it, too, so the two modules fit together. The native file that
is left alone in its call is executed without a look at the gate or the context
(`pipeline.go:353`, section 7): the contract has that as a round of its own, `Unchecked`,
and so has `PipelineService`. So `KeepsContract` holds for any listing.

### RecipeForwarder

The recipe's goroutine with its two bounded channels, the forwarder and the event
channel. A message is its number in its channel, `out` the history of what was sent;
`CompleteIsLast` says that it ends with the target's last event and, if the forwarder did
not die, holds every message of either channel once and in order.
`SeeClosed` can be repeated: a closed channel stays ready in Go's `select`, and the
forwarder does not set it to nil. `executeRecipeWithFilter` has the same loop. The recipe's
sends block while a channel is full, as `ctx.Log <- ...` does: `Returns` says that the target
comes to its end, or (`Hangs`) the forwarder died and the recipe waits for room in a channel
that nobody reads any more.

### StreamingExec, RipperExport

`StreamingExec` has the child, a process the child may have started, the pipe, the
scanning goroutine and the context. Lines are `short` or `long` (beyond the scanner's
buffer). `RipperExport` extends it: the server is run by a goroutine of its own, the
recipe waits for it, exports, cancels, waits up to five seconds and returns, and the
engine closes the log channel. Its steps are those of `StreamingExec` with the other
variables unchanged, except the callback, which sends to the log channel. `RecipeOutput`
puts the channels and the server into one run; they share no variable, so `part` chooses.

### EventBroadcaster

The read-write lock is modelled as such (`readers`, `writer`), so what the code
protects by it is checked, not assumed. A sender visits the clients one by one while it
holds the lock. `once` is `sync.Once`: callers that come second wait for the first.

### ToolsService

A job is one request with an agenda of items; runtimes are put in front of the tool
that needs them. An entry is added and removed under the lock and the broadcast is a
step of its own, as in the code. The client takes the channel, waits for it or for the
timeout, and then reads the table. The Go map that `InstallAll` ranges over is modelled
by any order. `ReportedAs` is the key a progress callback uses: a tool's own name, but for a
runtime the key of its download, `DownloadKey` ("java-jre" for "java-runtime"), which no
request removes. So `NoGhostOp` and `JobsEnd` are about the entries of tools and runtimes, and
`WaitEnds`, which that key breaks, is expected to be violated (section 7).

### ToolInstall

The directory of one tool: does it exist, in which state are binary, archive and
`.version`. An installer goes through `Manager.Install` in steps between which a
deletion or a crash may come, and starts anew up to three times, as `ensureTools` does.
`Continued` and `AlreadyThere` model the download library (`grab`) from how the code
uses it: a shorter file of the same name is continued, one of the same length is
complete. A tool is `plain` (one file: Idr.exe, strings64.exe in the registry),
`zip`, or `nested` (the binary lies in a directory of the archive: ghidra,
assetstudiomod). `MCTools` puts `ToolsService` and `ToolInstall` into one module for the runs.

### SelfUpdate, AtomicReplace

A file is the version and the writer of what lies under a name: the executable, the one
with `.old`, a temporary file per process. Each process has its image (a file that runs
can be renamed, neither deleted nor overwritten), the step of `Update` it is at and, if it
is a window, the progress channel with its drainer. Windows and command lines start,
update, are closed and crash between any two steps; releases are published meanwhile.
`AtomicReplace` is what an update promises: one installed version, which a newer one
replaces in one step. The refinement mapping is

    Installed == (IF exe # NoFile THEN exe ELSE old).ver

so that between the two renames the installed program is the one moved aside.

### GuiStart

`local` is the runtime in the program's directory (absent, empty, nested, in part, whole),
`inSystem` whether the system has one, `download` the two kinds of downloaded file. Each
window goes through check, question, download with its attempts, installation (the
system's installer or the portable cabinet), second check and opening, and may be closed or
killed at any step; several windows start over one directory.

### SharedFiles

A thread reads a file, changes its copy and writes it back, in steps; `held` is the
mutexes of each process. A file that is truncated and then written can be read or be left
empty; one that is renamed into place cannot. `overlapped` records that another's write
came between a thread's reading and its writing, `prior` what the settings last were,
`published` when each release came out.

### CommandLine

`request` is the client's run in the window, `others` the runs of the window's user,
`client` where the polling client is; `PipelineService` is reduced to its busy test. `cmd`
is the engine of `morgue run` and its view, `summary` what `summary.json` holds, `printed`
what was written to standard output.

### HomePage

`page` holds the path, the path last run, the phase, and whether Home is shown; `calls` is
one record per call of `runPipeline`, with the choice of the user it stands for (a history
variable), `asked` the other answers awaited, `serving` the service as the window sees it,
`wire` the events under way. Answers and events travel separately. Effects of the page run
at once after what caused them, as in Svelte, and so belong to the same action. A call reads
the path for `Run` when the runtimes have been checked (`Given`): `moved` records that the
user has cleared or chosen the path since it began. `RunsOnlyChosen` says what `Run` is given
without that; with it, `Run` may be given an empty path, or two calls the same (section 7).

### BaseDir

Extends 9 to 13 with one instance of each. The parts share no variable, so a behaviour
exercises one of them, which `part` chooses in the first state; interleaving them would
multiply the states and add no behaviour of any part.

### RecipeRun, NativeRecipes, ManagedRecipes, UnrealRecipe, ConfuserExRecipe, NsisUnpack

`RecipeRun` is the step machine the recipes share: `pc` is the step and its phase, `disk`
the products in the output directory (none, empty, torn or whole, by which run, from what),
`writing` what the running step is changing, `indexed` what `index.json` was built from.
`Die` ends a run in any state and leaves the products being written in any state they can
be in; `NewRun` starts over the same directory. Clearing `extracted/` may leave files that
cannot be removed (`AfterClearing`), as its error is discarded. A module per family adds its steps, with
each tool missing, failing or succeeding. `NsisUnpack` adds the walk over the installer's
instructions: the current directory, the variables, the tree extracted so far.

### Csplit

The export is a sequence of lines of which the reader sees one after the other: banner,
header, body, overlong. The record being read, the file open for its bucket, the tree of
records, both catalogs and the two summaries are state; every write may fail, the split may
be killed, and the next one runs over what it left. Line ends are LF or CRLF, because the
reader used after an overlong line treats them differently: with CRLF the headers behind such
a line are `Unseen`, and `EveryFunctionIsSplit` says that no other is lost. `CatalogIsTree` compares both
catalogs with the tree, record by record: file, place in it, name and size.

## 4. Runs

| run | question | result |
|-----|----------|--------|
| `service` | one engine at a time, controls that reach it, a final terminal status and termination, for two racing jobs? | yes |
| `engine` | accounting, errors, pause, stop and termination over listings of every kind and order, and is it what `EngineContract` says? | yes, the lone native file being the one that a pause or a stop does not hold |
| `output` | order, completeness and termination of the merge; is a server's output delivered, and the server stopped on every path, even if it never exits by itself and left a process behind? | yes, but for a dead forwarder's full channel and what is behind a line over 1 MB |
| `ripper_late_line` | can a late line reach the closed log channel? | yes, it can |
| `events` | no send on a closed channel, disconnection, no waiting senders? | yes |
| `tools` | no operation on a tool for ever, requests end; no torn file, and is what is recorded there, with failures, deletion and crash? | yes, but for a tool of one file updated over the old one |
| `tools_wait_gap` | is a client told "complete" only when it is? | no |
| `tools_ghost` | does a client's wait end after a runtime was downloaded? | no |
| `install_nested` | is only a dirty directory wiped? | no |
| `install_old` | is the version recorded for a tool of one file its version? | no |
| `recipes` | is what a run takes from an earlier one, and what it says of itself, true, for ten recipes that may be killed anywhere, and for the split of C files? | yes, with the exceptions the properties name |
| `base_dir` | is an update an atomic replacement that ends; do the settings, the lock file and the cache keep what others wrote; does the window open with a runtime; is a client told, and a summary printed, of its own run; does the page run what was chosen and settle? | yes, with the exceptions the properties name |

Bounds, and why they are enough:

- `service`: two jobs (the busy test compares one pair), two targets (a round can be
  followed by another), two steps (a progress event that is not the last), a channel
  of one slot instead of 100: it is full as soon as the drainer stops once, which is
  the only thing its size decides.
- `engine`: roots of up to three files, nested trees of up to two, the code's depth of
  three. Three native files give a batch whose phases are interrupted between any two
  files; installers before and after another file give nested runs at both ends. Listings
  with a native file before others leave it alone behind them, at the root and in nested
  calls.
- `output`: channels of one and two slots with more messages than fit; a pipe of three
  lines and six lines written, by the server and a process it starts, of both kinds (within
  the scanner's buffer and over it).
- `events`: two clients, senders and callers of `Shutdown`, a channel of one slot, so
  that one unread message fills it.
- `tools`: two tools of which one needs a runtime, any of them installed at the start,
  three requests (all, start-up update, deletion), of which any two are made at once, on the
  same tools; one installer, one deletion, three attempts, one crash, for a tool of one
  file and one in an archive, absent or of an older release.
- `tools_ghost`, `tools_wait_gap`: one request, with a tool that needs a runtime and with two
  tools that need none. `install_nested`, `install_old`: one installer, three attempts.
- `recipes`: two runs over one directory (a third finds nothing the second could not
  have found), two releases of Ghidra, one embedded assembly, tables of two instructions
  (any one may spoil what the other did). The split reads seven lines over what an earlier
  split left; three addresses, of which two share a bucket; two names, one empty; caps of
  four and three lines, so that a file is closed between two records and a record is cut.
- `base_dir`, update: a window and a command line, two releases beyond the first, three
  starts, a channel of one slot. Start: two windows, two attempts per download, one start
  each. Shared files: three threads in two processes; four ticks of a clock with an expiry
  of two; two releases. Client: two other runs of the window. Page: a file and a directory,
  two choices or runs of the API, two events before a run's last, one under way at a time.

Every property of a passing run has a mutant: a change of a definition that stands for
a likely bug (a dropped guard, an off-by-one, a missing reset) under which the same run
finds the property violated.

Runs say `CHECK_DEADLOCK FALSE` because every one of these systems really stops: jobs,
requests and runs are finite and nothing is left to do when they are over. That nobody
waits for ever is stated by the liveness properties instead.

## 5. Fairness

Weak fairness of a goroutine's next step is what Go's scheduler gives. More is assumed
only where the code gives more, less where somebody else decides:

- `select` with several ready arms picks one at random, so an arm that stays ready, or
  is ready again and again, is picked in the end: strong fairness of the forwarder's
  arms (`RecipeForwarder`) and of a handler's leaving (`EventBroadcaster`).
- An install reports progress finitely often before it returns (downloads are finite
  and bounded in their attempts): strong fairness of its return (`ToolsService`), and so
  of the end of a download in `SelfUpdate`.
- AssetRipper's server owes nothing: `ServerStopped` must hold without its exit. The
  program's side of it is weakly fair, and so is a process the server started: it writes
  and exits, or the pipe is kept open for ever (section 7).
- `HomePage` has one condition for all that the user does not decide: calls are answered,
  events arrive, runs end. Each of those is finite and none disables another, so one weak
  condition is enough. That no run is kept paused is part of it: the page's pause and
  resume buttons are not in the model.
- The user owes nothing: no fairness of `Resume`, `Stop`, a choice, a disconnection or a
  crash. Properties say "unless kept paused" instead. Nor does anybody owe the drainer's
  death.

## 6. Proofs

Eight modules prove, for all values of the constants their assumptions allow, what the
runs check on an instance: every safety property of a passing run is stated by a theorem.

`PipelineService_proof` proves, for any set of jobs, any number of targets and steps
and any channel capacity (`ConstantsAssumption`: positive numbers, and the nil value is
not a job):

| theorem | property |
|---------|----------|
| `ServiceTypeOK` | `TypeOK` |
| `ServiceSingleEngine` | `SingleEngine`: between the claim and the terminal status there is one job |
| `ServiceControllable` | `Controllable`: Stop, Pause and Resume act on the job that runs |
| `ServiceTerminalClean` | `TerminalClean`: an idle status is clean |
| `ServicePauseVisible` | `PauseVisible`: a held engine is shown as paused |
| `ServiceTerminalStable` | `TerminalStable`: no late event changes a terminal status |
| `ServiceKeepsContract` | `Contract(j)!Spec`: every engine it runs is one of `EngineContract` |

`SingleEngine` is not inductive: nothing in it says why a second job finds `Running`
set. The inductive invariant `IInv` adds

- `Owner`: an active job is the one `pause` names, `status.running` is set while it is
  active, its gate is the one its engine was given, and its context is cancelled or is
  the one `cancel` would cancel. Two active jobs would both be `pause`: that is
  `SingleEngine`; with `gateOf` it is `Controllable`.
- `DrainerPhase`: a drainer receives only from the claim to the end of its own job, so
  no event is applied to a status that is not running: that is `TerminalStable`.
- `GateShown`: a closed gate of an active job is shown, and who is held is held by a
  closed gate: that is `PauseVisible`.
- `RoundsLeft` and `StepsCounted`, which keep the counters in their types and make the
  stepper full on success.

`InitIInv` and `Invariance` prove it inductive; the step is split by process
(`StepRun` for the goroutine of a job and its drainer, `Stopped` and the cases for the
controls) and by part (`StepTypeOK`, `StepStatus`). Lemmas on the status record
(`TerminalStatus`, `AppliedStatus`, `PausedStatus`) say what each write leaves alone.

`ServiceKeepsContract` needs in addition (`EnginesInv`) that only an engine at its gate is
held, that a drainer is started before its engine, and that `cancel`, if it is not nil,
cancels the job whose gate `pause` is: so `Stop` is `Stop` for that engine, or `Resume` if
the context was cancelled before, and nothing to the engines of other jobs. The lemmas are
one per kind of step: `ServeContract` and `OthersContract` for what does not concern an
engine, `EngineContractStep` and `ControlsContract` for what does.

The other proofs:

| module | theorems | inductive invariant |
|--------|----------|---------------------|
| `EngineRun_proof` | `EngineAccountedOnce`, `EngineDoneOnce`, `EngineNestingBounded`, `EngineFailsOnlyIfStopped`; `EngineOnlyLoneRunsOn`, `EngineStopsInDepth`, `EngineKeepsContract` | `Books`: every active call has a balance, each listed file has a result or waits in one of its queues and the lengths add up; a caller that waits for a nested call keeps its balance. `Nesting`, `Errors` and `Steps` say when a call is pushed, where an error can be seen, and that a loop past its check has something to work on. For the controls, below |
| `EventBroadcaster_proof` | `EventsSendsToOpen`, `EventsClosesOnce`, `EventsGoneIsForgotten` | `LockHeld`: who is in a loop holds the lock, readers and writer exclude each other. `Members`: what a sender has still to visit is in the table and what is in the table is open. `Closer`: one caller of `Shutdown` at a time is let in |
| `RecipeOutput_proof` | `ExecFullOutput`, `RipperIsExec`, `RipperFullOutput`, `ForwarderCompleteIsLast` | `Conserved`: delivered, in the callback and in the pipe add up to what was written. `ScannerStopped`: the scanner stopped at the end of the output, after which nobody writes, or at a long line that stays at the head. `Merged`: what a channel has lost is what was sent on, in order. `Closing`: a forwarder that has ended saw both channels closed and empty |
| `Tools_proof` | `ToolsNoGhostOp` | `NoGhostOp` itself, with the domains of its functions (`Shape`): an entry that a removal leaves has another key than the removing job's item, so it belongs to another job, which keeps it |
| `Tools_proof` | `InstallTypeOK`, `InstallInstalledIsWhole`, `InstallRecordedIsThere` | `TornInv`, for any number of installers: a torn binary of one file has somebody who will go on with it, or there was a crash. `StampInv`, for one installer (`OneInstaller`) and any start: what is downloaded is what will be stamped, or a tool of one file lies over the older one's |
| `SelfUpdate_proof` | `UpdateKeepsExecutable`, `UpdateRefinesReplace` | `UInv`: `Images` (a process that is up runs the executable or the displaced one, which therefore cannot be overwritten), `Newer` (who prepares an update has a release newer than its image), `Prepared` and `Between` (what lies under the temporary name, and who has moved the executable aside), `SomeFile` (one of the two names is taken) |
| `BaseDir_proof` | `BaseDirUpdateIsAtomic`, `BaseDirKeepsExecutable`, `BaseDirOpensWithRuntime`, `BaseDirToldAfterItsRun`, `BaseDirPrintsOwnSummary`, `BaseDirLockKeepsRecords`, `BaseDirSettingKeepsOthers`, `BaseDirAnswerWasLatest`, `BaseDirRunsOnlyChosen` | one per part, below |
| `AllRecipes_proof` | `RecipesMarkersAreTrue`, `RecipesNoStaleAssets`, `RecipesNoStepLeftRunning`, `RecipesNilMeansDecompiled`, `RecipesIndexIsCurrent`, `RecipesSuccessIsWhole`, `RecipesEveryFunctionIsSplit`, `RecipesCatalogIsTree` | `RecipeInv`, `WalkInv` and `SplitInv` (`RecipesInvariant`), below |

**The controls of the engine.** `GateInv`: while a pause that met a running target holds
(`busyPause`), the engine is at work, before a gate whose channel it will find open or
holds, or in a lone native file: `EngineOnlyLoneRunsOn`, for any listings. `BegunInv` counts
what a stopped run begins: every call that returns may begin its lone file, one per level,
which gives `MaxUnpackDepth + 2` (`EngineStopsInDepth`); TLC finds a run that does begin that
many. `EngineKeepsContract` needs nothing of the listings either: a lone file behind a nested
call is the contract's `Unchecked`.

**The recipes.** `RecipeInv` is the conjunction of `RecipeTypeOK`; `RunningInv` (at most the
step under way is running, and not once it has reported); `RippedInv` and `StampInv` (an
export or an extension is changed only while there is no marker, or none that is
believed); `AssetsInv`; `DecompiledInv` (behind the required step, its status and its
source stand); `IndexInv` (behind the index, the source is the one indexed). The ten
recipes have some sixty actions. Each is shown to be `Within` its recipe: it changes the
status of its own step only and, of the products, those `Touched` names. What follows from
that alone is proved once, in the lemmas that end in `Frame`; a lemma per recipe
(`NativeKeeps` to `NsisKeeps`) proves the rest where the step concerns the property, and
`DieKeeps`, `NewRunKeeps`, `CancelKeeps` and `GhidraUpdateKeeps` the steps nobody expects.
`WalkInv`: every file record behind the walk has a place, unless a file was lost.

`SplitInv` is `OrderInv` (catalogued records are in the order of the export, the open one
comes last), `CompleteInv` (every header that is seen, `Seen`, and no other has its entry or is
the open one; lemma `SeenGrows`), `FiledInv`
(entries and files of the tree correspond, and each is listed) and `SizesInv` (a record
reaches to the next line that ends one), which an overlong line ends, as in the code. It
assumes positive caps and numeric addresses (`CsplitAssumption`), nothing of the lines.

`UpdateRefinesReplace` is the refinement: initial states map to initial states, and every
step of an update, of a clean-up or of a crash to a replacement by a newer version (the
second rename, lemma `PlacesNewer`) or to a stutter (`KeepsInstalled`).
`BaseDir` takes both theorems of `SelfUpdate` over: lemma `SpecUpdates` says that a
behaviour of `BaseDir` is one of `SelfUpdate`. For the other parts, lemma `OnlyThatPart`
leaves the steps of the part itself, and the invariants are: `GuiInv` (a window that is to
open has checked, and a runtime once there is not removed, `RuntimeStays`); `ClientInv`
(a client that saw its run running sees every state of it); `RunInv` (which run wrote the
summary the view has); `Threading` (what a thread holds and has read at each step) with
`LockInv` (a copy of the lock file is the file, while the mutex is held and nobody
overlapped), `SettingsInv` (likewise without a mutex) and `CacheInv` with `ClockInv` (an
entry, and a thread's copy of one, was the newest release at its time); `HomeInv` (`Booked`:
each call stands for a choice of its own; `Pending`: the page still has the path of a call
under which it was not changed; `Unserved`: the path the page would start is that of a choice
that no call stands for yet).

`EngineRun` assumes that listings are sequences of kinds and the cap a natural number;
`EventBroadcaster` and `RecipeForwarder` that channels have room for a message;
`StreamingExec` that the pipe has; `SharedFiles`, `GuiStart`, `SelfUpdate` and `HomePage`
that their bounds are positive and the names they set apart are no elements of their sets;
`ToolsService` that tools and runtimes are different things and that a download key is
neither. `EngineAccountedOnce` rests on lemmas about queues (`InAppend`,
`InTail`) and one for each way a file moves between the queues of a call (`AnalysedBooks`,
`TaskJudged`, `TaskQueued`, `BatchJudged`, `LoneJudged`).

`TypeOK`, `TerminalClean`, `PauseVisible`, `NestingBounded`, `DoneOnce`, `ClosesOnce` and
`GoneIsForgotten` are stated by theorems only: no run lists them, because the proofs need
them and the other properties fail first when they do.

Only model-checked is liveness (`RunEnds`, `Returns` of the engine and of the forwarder,
`ServerStopped`, `JobsEnd`, `UpdateEnds`, `WindowSettles`, `ShutdownDisconnects`,
`BroadcastReturns`), which is outside what the prover does: it has no rule for fairness and
cannot reason about ENABLED. Of the engine's `Returns` the last conjunct, the bound on what a
stopped run begins, is safety and is `EngineStopsInDepth`.

## 7. Where the code and its text disagree

Runs that expect a violation, each a behaviour of the code against a line of its text:

- `ripper_late_line`: `unity_mono.go:205` promises that a failing asset export never
  aborts the run. When `RunAssetRipperExport` returns before its goroutine, a late line
  is sent on a channel the engine has closed, and the panic ends the program.
- `tools_wait_gap`: `api_cmd.go:175` prints "All tool operations complete." when the
  table of operations was empty once, which it is between two tools of one request.
- `tools_ghost`: `api_cmd.go:142` "polls ... until no operations are busy". The download of a
  runtime reports under a key (`runtimes.go:310`, `391`, `464`) that no request removes
  (`tools_service.go:264`), so the table is never empty again and the client waits for ever.
- `install_nested`: `manager.go:197` cleans a directory whose binary is missing, but
  looks for the binary at the top only; a nested tool that works is removed before
  every update, and is gone if the update fails.
- `install_old`: `lock.go:17`, "the exact installed tag": the update of a tool of one file
  accepts or continues the old release's file (`download.go:160`) and records the new tag.

Configurations beside the runs, each of which shows one more with TLC:

| configuration | module | what fails |
|---------------|--------|------------|
| `EngineRunPaused.cfg` | `MCEngineRun` | `Pause` promises that only tools in progress run on; a native file that is the only one of its recipe is executed after all other targets without looking at the gate or the context again (`pipeline.go:353`); after Stop the same holds in every nested call, so up to `MaxUnpackDepth + 2` targets are begun (`EngineStopsInDepth`). The passing run has `OnlyLoneRunsOn` and that bound |
| `RecipesOrganized.cfg` | `AllRecipes` | `il2cpp_layout.go:49`, "so a resumed run can skip work it has already produced": the marker of organized assets is also written when what was organized is a torn export (`unity_mono.go:303`), and it stands when the export is repeated |
| `UpdateRelaunch.cfg` | `BaseDir` | `update_service.go:57`, "auto-relaunches the freshly-installed binary": an update that found nothing newer also returns without an error, and the window starts the version it runs; the successor, which carries the mark of a relaunch, quits without one of its own at its next update |
| `ClientTold.cfg` | `BaseDir` | `api_cmd.go:85`, "polls ... until it completes": "Pipeline complete." is also printed for a run that is still queued, or was refused |
| `SplitCrlf.cfg` | `AllRecipes` | `csplit.go:514`, "never aborts the pass": after an overlong line the reader leaves the CR of CRLF lines, no header is recognised and later functions are swallowed |
| `PageSecondChoice.cfg` | `BaseDir` | `Run` is given the page's path after the runtimes were checked (`HomePage.svelte:208`): chosen anew meanwhile, the call that was begun for one choice runs another, which its own call may run again |
| `SplitCap.cfg` | `AllRecipes` | `csplit.go:85`: a bucket file that is opened again forgets its size and exceeds the soft cap |
| `NsisDeleted.cfg` | `AllRecipes` | the comment on `nsisWalk`, "see every file the installer CAN write": the walk also executes deletions and renames, of branches the installer would not take |

Bounds of the passing runs that are there because the code does not do what one would
expect outside of them, and what else was met while modelling:

- External processes. A line longer than 1 MB ends the scan silently (`exec.go:124`): the
  rest of the output is lost, and a tool that goes on writing blocks for ever in a full
  pipe. So `FullOutput` counts what is unread behind such a line and `ServerStopped`
  excepts the stall. Cancelling kills the direct child only: a process it started keeps the
  pipe open and the call waiting, so it is assumed to exit.
- Tools. A failed extraction and a crash leave a truncated binary that `Check` finds
  (`download.go:316`), so `InstalledIsWhole` is about tools of one file, and about
  executions without a crash. Two installers of one tool break `RecordedIsThere`. Two
  requests for one tool share an entry in the table; the first to end removes it.
- A dead forwarder. It recovers from its panic, but nobody reads the recipe's channels from
  then on (`pipeline.go:668`): a recipe with more to say than they hold never returns, nor does
  the run. `Returns` of `RecipeForwarder` excepts it.
- Unreal. The error of clearing `extracted/` is discarded (`ue5.go:188`): files that could not
  be removed are counted, and the step says Success over them. `NoStaleAssets` excepts them.
- Service. A job submitted while another runs is answered "started" and dropped, although
  the README says that it is queued (`pipeline_service.go:46`). The terminal status has no
  number of files: the drainer copies `FilesTotal` from every event and the last one
  carries none (`pipeline_service.go:100`).
- Command line. The watch mode drops the settings for dynamic execution, control flow and
  the game data directory; after 'q' it prints an older `summary.json` and exits with zero,
  as `run` prints an older one when the new one cannot be written.
- Files. The settings file is truncated and then written: a reader in between sees it
  empty, and a crash leaves it so. So `SettingKeepsOthers` excepts what was overlapped.
- Browser runtime. The portable installation moves the runtime one level up and ignores
  what fails there; no second check follows.
- Window page. A cancelled run is shown as done, because the engine's last event arrives
  after `handleCancel` has set "cancelled" (`HomePage.svelte:161`). A cancellation while
  the runtimes are checked does not prevent the run that follows. A run that is dropped
  because an older one is still stopping leaves the window busy, or showing the older
  run's end: `WindowSettles` excepts it. A late rejection after "new file" sets the phase
  to error, so that the next file chosen is not started. An event of type error from one
  file shows the error state while the run goes on. The path last run can be set from a
  status, so that a path that is then chosen is not run. Pauses made through the API are
  not followed.
- Recipes. A torn dump of an earlier run is taken as present (`il2cpp.go:169`); the marker
  of an asset export does not say whether it was a full one; the check that Ghidra wrote a
  file is satisfied by an earlier run's (`ghidra.go`), as is that of `runToolStep` in the
  ConfuserEx recipe; class names for a package without a usmap come from an earlier run
  (`ue5.go:259`); strings and IDR are reported Success when their command could not start,
  a Java archive without a class and a game of system assemblies only over an empty directory
  too (`java.go:113`, `il2cpp.go:290`; `NilMeansDecompiled` names them).
- C splitting. A split that fails leaves new catalogs beside the old `symbols.json`.
- Installers. A variable name that is the head of a longer one is replaced inside it when
  the longer one is unassigned, against the comment "$VAR25 never eats $VAR250"; the
  fallback dump starts behind the header; destinations that are rejected are not counted
  as wanted; a required step may be Failed while the recipe returns without an error.

## 8. What is not modelled

- Byte and text formats: PE parsing, the compression of NSIS, Odin, usmap and uasset, the
  index and game data writers. They keep no state and their correctness is against formats
  that are not in the repository. Where their outcome decides a step (found, torn, empty),
  the recipes take any.
- Rendering: terminal interface, the window's other pages, instructions, console output.
- Windows specifics: job objects, break-away flags, the registry.
- Time: timeouts may fire whenever their timer runs, whatever their length. That a poll
  of 120 seconds meets the server's write timeout of 120 seconds (`server.go:69`) is left
  out for that reason.
- The contents of summaries, the names of output directories and the decisions of
  `installFailureSeverity`; which of two installers' releases a tool is; an answer about a
  tool that reads the disk and the table at two moments (section 2).
- The recipes' concurrency inside one step (their tools' output is `StreamingExec`'s), and
  two engines that write to one output directory: nothing in the code coordinates them.

## 9. Running the checks

    tlc -config PipelineService.cfg MCPipelineService.tla
    tlapm PipelineService_proof.tla

and so on for each pair of `PROJECT.json`'s `runs`. `MC*.tla` hold the constants of the
instances; `AllRecipes` and `BaseDir` have theirs in their configurations. The slowest
runs are `recipes`, with about 1.1 million states, and `base_dir`, with about 416,000
states and four liveness properties or refinements: about two and three minutes.
