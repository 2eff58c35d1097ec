------------------------------ MODULE EngineRun ------------------------------
(***************************************************************************)
(* internal/engine/pipeline.go: Engine.Run, with the nested runs it starts *)
(* over the tree an installer was unpacked to, against the user's Pause,   *)
(* Resume and Stop.                                                        *)
(*                                                                         *)
(* A call of Run is a frame.  Its first pass gives every listed file a     *)
(* verdict or a task; its second pass prepares and executes the tasks and  *)
(* queues the native ones; these run last, as a batch of two phases when   *)
(* there are several, alone when there is one.  An unpacked installer      *)
(* pushes a frame; its caller goes on with its next task when it returns.  *)
(*                                                                         *)
(* Each loop looks at the context ("check"), takes the gate's channel      *)
(* ("gate"), selects on it ("wait"), and goes on ("go").                   *)
(***************************************************************************)
EXTENDS Naturals, Sequences

CONSTANTS
  RootListings,    \* what the scan of the input may list: sequences of kinds
  NestedListings,  \* what the scan of an unpacked tree may list
  MaxUnpackDepth   \* maxUnpackDepth (3 in the code)

Kinds == {"skipped", "native", "dotnet", "nsis"}

ASSUME ListingsAssumption ==
  /\ RootListings \subseteq Seq(Kinds)
  /\ NestedListings \subseteq Seq(Kinds)
  /\ MaxUnpackDepth \in Nat

VARIABLES
  stack,      \* the active calls of Run, the innermost last
  phase,      \* where the innermost call is
  step,       \* and where in that loop's prelude
  err,        \* the error that call returns
  paused,     \* the gate's channel is open
  held,       \* Run waits on a gate channel that is still open
  cancelled,  \* the context is cancelled
  dones,      \* "done" events sent
  busyPause,  \* a Pause came while a target was executing, and still holds
  begun       \* targets begun since the context was cancelled

callVars == <<stack, phase, step, err, dones>>
ctlVars  == <<paused, held, cancelled>>
histVars == <<busyPause, begun>>
vars     == <<callVars, ctlVars, histVars>>

-----------------------------------------------------------------------------
(* Mutations: plausible bugs *)

Mut_NestedDone == TRUE
Mut_StringsReported(frame, file, verdict) ==
  [frame EXCEPT !.results = Append(@, [file |-> file, verdict |-> verdict]), !.batch = Tail(@)]
Mut_NestedErrPropagates == err
Mut_NeverHeld == FALSE
Mut_CtxIgnored == FALSE
Mut_WaiterNotFreed == held

-----------------------------------------------------------------------------
(* Frames *)

\* A file is its position in the listing.
Frame(listing) ==
  [listed |-> listing, todo |-> [i \in DOMAIN listing |-> i],
   tasks |-> << >>, natives |-> << >>, batch |-> << >>, results |-> << >>]

Depth == Len(stack) - 1            \* Options.Depth of the innermost call
Top == stack[Len(stack)]
SetTop(frame) == stack' = [stack EXCEPT ![Len(stack)] = frame]
Result(file, verdict) == [file |-> file, verdict |-> verdict]
AddResult(frame, file, verdict) ==
  [frame EXCEPT !.results = Append(@, Result(file, verdict))]
KindOf(file) == Top.listed[file]

\* What the current loop has still to visit.
Pending ==
  CASE phase = "analyse" -> Top.todo
    [] phase \in {"task", "ready"} -> Top.tasks
    [] phase \in {"strings", "ghidra"} -> Top.batch
    [] OTHER -> << >>

Loops == {"analyse", "task", "strings", "ghidra"}

Init ==
  /\ stack = << >> /\ phase = "scan" /\ step = "check" /\ err = FALSE
  /\ paused = FALSE /\ held = FALSE /\ cancelled = FALSE
  /\ dones = 0 /\ busyPause = FALSE /\ begun = 0

-----------------------------------------------------------------------------
(* Scan and return *)

Listings == IF stack = << >> THEN RootListings ELSE NestedListings

ScanFinds ==
  /\ phase = "scan"
  /\ \E listing \in Listings : stack' = Append(stack, Frame(listing))
  /\ phase' = "analyse" /\ step' = "check"
  /\ UNCHANGED <<err, dones, ctlVars, histVars>>

ScanFails ==
  /\ phase = "scan"
  /\ stack' = Append(stack, Frame(<< >>))
  /\ phase' = "return" /\ err' = TRUE
  /\ UNCHANGED <<step, dones, ctlVars, histVars>>

\* The deferred "done" event is the outermost call's alone.
SendsDone == Depth = 0

ReturnOuter ==
  /\ phase = "return" /\ Len(stack) = 1
  /\ dones' = dones + (IF SendsDone THEN 1 ELSE 0)
  /\ phase' = "over"
  /\ UNCHANGED <<stack, step, err, ctlVars, histVars>>

\* maybeRecurseUnpack reports a nested call's error and drops it.
ErrAfterNested == FALSE

ReturnNested ==
  /\ phase = "return" /\ Len(stack) > 1
  /\ dones' = dones + (IF SendsDone THEN 1 ELSE 0)
  /\ stack' = SubSeq(stack, 1, Len(stack) - 1)
  /\ err' = ErrAfterNested
  /\ phase' = "task" /\ step' = "check"
  /\ UNCHANGED <<ctlVars, histVars>>

\* buildSummary and summary.json; a write that fails only warns.
Summarise ==
  /\ phase = "summary"
  /\ phase' = "return"
  /\ UNCHANGED <<stack, step, err, dones, ctlVars, histVars>>

-----------------------------------------------------------------------------
(* The prelude of every iteration *)

CtxDone == cancelled

Stopped ==
  /\ phase \in Loops /\ step = "check" /\ Pending # << >>
  /\ CtxDone
  /\ phase' = "return" /\ err' = TRUE
  /\ UNCHANGED <<stack, step, dones, ctlVars, histVars>>

Check ==
  /\ phase \in Loops /\ step = "check" /\ Pending # << >>
  /\ ~CtxDone
  /\ step' = "gate"
  /\ UNCHANGED <<stack, phase, err, dones, ctlVars, histVars>>

HeldBy == paused

TakeGate ==
  /\ step = "gate"
  /\ held' = HeldBy
  /\ step' = "wait"
  /\ UNCHANGED <<stack, phase, err, dones, paused, cancelled, histVars>>

PassGate ==
  /\ step = "wait" /\ ~held
  /\ step' = "go"
  /\ UNCHANGED <<stack, phase, err, dones, ctlVars, histVars>>

LeaveGate ==
  /\ step = "wait" /\ CtxDone
  /\ phase' = "return" /\ step' = "check" /\ err' = TRUE
  /\ held' = FALSE
  /\ UNCHANGED <<stack, dones, paused, cancelled, histVars>>

\* What follows a loop that is through.
AfterLoop ==
  CASE phase = "analyse" -> "task"
    [] phase = "task" /\ Len(Top.natives) > 1 -> "strings"
    [] phase = "task" /\ Len(Top.natives) = 1 -> "lone"
    [] phase = "strings" -> "ghidra"
    [] OTHER -> "summary"

EndLoop ==
  /\ phase \in Loops /\ step = "check" /\ Pending = << >>
  /\ phase' = AfterLoop
  /\ step' = IF AfterLoop = "lone" THEN "go" ELSE "check"
  /\ SetTop([Top EXCEPT !.batch = Top.natives])
  /\ UNCHANGED <<err, dones, ctlVars, histVars>>

-----------------------------------------------------------------------------
(* Pass 1: a verdict or a task for every file *)

\* A file is skipped, cannot be classified, or becomes a task.
Analysed(frame, file, readable) ==
  LET seen == [frame EXCEPT !.todo = Tail(@)]
  IN  CASE KindOf(file) = "skipped" -> AddResult(seen, file, "skipped")
        [] ~readable /\ KindOf(file) # "skipped" -> AddResult(seen, file, "failed")
        [] OTHER -> [seen EXCEPT !.tasks = Append(@, file)]

Analyse ==
  /\ phase = "analyse" /\ step = "go"
  /\ \E readable \in BOOLEAN : SetTop(Analysed(Top, Head(Top.todo), readable))
  /\ step' = "check"
  /\ UNCHANGED <<phase, err, dones, ctlVars, histVars>>

-----------------------------------------------------------------------------
(* Pass 2: prepare and execute *)

\* ensureRuntimeDeps and ensureTools.
PrepareFails ==
  /\ phase = "task" /\ step = "go"
  /\ SetTop([AddResult(Top, Head(Top.tasks), "failed") EXCEPT !.tasks = Tail(@)])
  /\ step' = "check"
  /\ UNCHANGED <<phase, err, dones, ctlVars, histVars>>

Prepared ==
  /\ phase = "task" /\ step = "go"
  /\ phase' = "ready" /\ step' = "gate"
  /\ UNCHANGED <<stack, err, dones, ctlVars, histVars>>

QueueNative ==
  /\ phase = "ready" /\ step = "go"
  /\ KindOf(Head(Top.tasks)) = "native"
  /\ SetTop([Top EXCEPT !.natives = Append(@, Head(Top.tasks)), !.tasks = Tail(@)])
  /\ phase' = "task" /\ step' = "check"
  /\ UNCHANGED <<err, dones, ctlVars, histVars>>

\* executeRecipe or executeRecipeWithFilter is called.
Begin ==
  /\ step = "go"
  /\ \/ phase = "ready" /\ KindOf(Head(Top.tasks)) # "native"
     \/ phase \in {"strings", "ghidra", "lone"}
  /\ step' = "busy"
  /\ begun' = IF cancelled THEN begun + 1 ELSE begun
  /\ UNCHANGED <<stack, phase, err, dones, ctlVars, busyPause>>

CanRecurse == Depth < MaxUnpackDepth

\* A non-native recipe returned.  An installer that left files in extracted/
\* is entered unless the depth cap is reached.
EndReady ==
  /\ phase = "ready" /\ step = "busy"
  /\ \E verdict \in {"ok", "failed"}, extracted \in BOOLEAN :
       LET file == Head(Top.tasks)
           enters == verdict = "ok" /\ KindOf(file) = "nsis" /\ extracted /\ CanRecurse
       IN  /\ SetTop([AddResult(Top, file, verdict) EXCEPT !.tasks = Tail(@)])
           /\ phase' = IF enters THEN "scan" ELSE "task"
  /\ step' = "check"
  /\ UNCHANGED <<err, dones, ctlVars, histVars>>

\* A strings phase returned: its result is dropped, its error only reported.
AfterStrings(frame, file, verdict) == [frame EXCEPT !.batch = Tail(@)]

EndStrings ==
  /\ phase = "strings" /\ step = "busy"
  /\ \E verdict \in {"ok", "failed"} :
       SetTop(AfterStrings(Top, Head(Top.batch), verdict))
  /\ step' = "check"
  /\ UNCHANGED <<phase, err, dones, ctlVars, histVars>>

EndGhidra ==
  /\ phase = "ghidra" /\ step = "busy"
  /\ \E verdict \in {"ok", "failed"} :
       SetTop([AddResult(Top, Head(Top.batch), verdict) EXCEPT !.batch = Tail(@)])
  /\ step' = "check"
  /\ UNCHANGED <<phase, err, dones, ctlVars, histVars>>

EndLone ==
  /\ phase = "lone" /\ step = "busy"
  /\ \E verdict \in {"ok", "failed"} : SetTop(AddResult(Top, Head(Top.natives), verdict))
  /\ phase' = "summary" /\ step' = "check"
  /\ UNCHANGED <<err, dones, ctlVars, histVars>>

-----------------------------------------------------------------------------
(* The user's controls, through PipelineService *)

Pause ==
  /\ phase # "over" /\ ~paused
  /\ paused' = TRUE
  /\ busyPause' = (step = "busy")
  /\ UNCHANGED <<callVars, held, cancelled, begun>>

HeldAfterResume == FALSE

Resume ==
  /\ phase # "over" /\ paused
  /\ paused' = FALSE /\ held' = HeldAfterResume /\ busyPause' = FALSE
  /\ UNCHANGED <<callVars, cancelled, begun>>

Stop ==
  /\ phase # "over" /\ ~cancelled
  /\ paused' = FALSE /\ held' = HeldAfterResume /\ busyPause' = FALSE
  /\ cancelled' = TRUE
  /\ UNCHANGED <<callVars, begun>>

-----------------------------------------------------------------------------
Run ==
  \/ ScanFinds \/ ScanFails \/ ReturnOuter \/ ReturnNested \/ Summarise
  \/ Stopped \/ Check \/ TakeGate \/ PassGate \/ LeaveGate \/ EndLoop
  \/ Analyse \/ PrepareFails \/ Prepared \/ QueueNative
  \/ Begin \/ EndReady \/ EndStrings \/ EndGhidra \/ EndLone

Next == Run \/ Pause \/ Resume \/ Stop

Spec == Init /\ [][Next]_vars
FairSpec == Spec /\ WF_vars(Run)

-----------------------------------------------------------------------------
(* Properties *)

Files == Nat \ {0}
Frames == [listed : Seq(Kinds), todo : Seq(Files), tasks : Seq(Files), natives : Seq(Files),
           batch : Seq(Files),
           results : Seq([file : Files, verdict : {"skipped", "failed", "ok"}])]

TypeOK ==
  /\ stack \in Seq(Frames)
  /\ phase \in Loops \cup {"scan", "ready", "lone", "summary", "return", "over"}
  /\ step \in {"check", "gate", "wait", "go", "busy"}
  /\ dones \in Nat /\ begun \in Nat
  /\ {err, paused, held, cancelled, busyPause} \subseteq BOOLEAN

\* When a call is about to write its summary, every file its scan listed has
\* exactly one verdict, whatever the order of batches, failures and nested
\* runs: nothing is lost between the passes and nothing is counted twice.
AccountedOnce ==
  phase = "summary" =>
    /\ Len(Top.results) = Len(Top.listed)
    /\ \A file \in DOMAIN Top.listed : \E i \in DOMAIN Top.results : Top.results[i].file = file

\* "done" is sent once, by the outermost call, when everything is over: the
\* window never finishes while a nested run is still executing.
DoneOnce == dones = (IF phase = "over" THEN 1 ELSE 0)

\* Nested installers never go deeper than the cap.
NestingBounded == Len(stack) <= MaxUnpackDepth + 1

\* The job fails only if the user stopped it or its own scan failed; a
\* failing nested run or recipe never fails it.
FailsOnlyIfStopped ==
  phase = "over" /\ err => cancelled \/ stack[1].listed = << >>

\* While a Pause that met an executing target holds, and once a stopped run
\* has begun the target that was past its check, nothing is begun but a native
\* file that is left alone in its call: no gate and no check is before that
\* one (hazard at pipeline.go:353), one is before every other.
OnlyLoneRunsOn ==
  [][step # "busy" /\ step' = "busy" /\ (busyPause \/ begun > 0) => phase = "lone"]_vars

\* pipeline_service.go:149, "Tools in progress run to completion", read as that
\* none is begun after them: the code begins a native file left alone.
NoBeginWhilePaused == [][step # "busy" /\ step' = "busy" => ~busyPause]_vars

\* What PipelineService, and the user behind it, see of a run, whatever is
\* nested in it: rounds behind the context and the gate, a round behind
\* neither for a native file left alone, an end, an error only after a stop or
\* a failed scan.
InRound ==
  IF step \in {"go", "busy"} THEN "work"
  ELSE IF step = "gate" THEN "capture" ELSE step

At ==
  CASE phase = "scan" -> IF stack = << >> THEN "scan" ELSE "work"
    [] phase = "return" -> IF Len(stack) = 1 THEN "last" ELSE "check"
    [] phase = "over" -> "over"
    [] OTHER -> InRound

Failed == err /\ Len(stack) = 1

Contract == INSTANCE EngineContract WITH at <- At, failed <- Failed

KeepsContract == Contract!Spec

\* A run that is not kept paused returns, and so does a stopped one, which
\* begins at most the target that had already passed its check and the native
\* file left alone in each call that returns.
Returns ==
  /\ []<>(phase = "over" \/ paused)
  /\ (cancelled ~> phase = "over") /\ [](begun <= MaxUnpackDepth + 2)

=============================================================================
