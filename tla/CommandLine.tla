----------------------------- MODULE CommandLine -----------------------------
(***************************************************************************)
(* The two ways to decompile from a terminal.  "morgue api run --wait"     *)
(* (internal/cli/api_cmd.go) asks the window that is open, through its API *)
(* (internal/api/handlers.go), and polls until it is told that the run is  *)
(* over; "morgue run" (run.go, watch.go) runs an engine of its own and     *)
(* prints the summary.json that it finds in the output directory.          *)
(***************************************************************************)
EXTENDS Naturals

CONSTANT MaxOthers      \* runs that the user of the window starts meanwhile
ASSUME OthersAssumption == MaxOthers \in Nat

VARIABLES
  server,   \* the window and its API server: "up" or "down"
  request,  \* the client's run in the window: "none", "queued", then "running",
            \* "stopping" and "over", or "refused"
  others,   \* runs of the window's user: [left, running]
  client,   \* "start", "sleep", "told" (it printed "Pipeline complete.") or "error"
  saw,      \* the client was once answered while its run was the one that runs
  cmd,      \* morgue run: [mode, at, engine, quit]
  summary,  \* summary.json: [run, success]; the runs of this directory are numbered
  printed,  \* the summary on standard output
  exit      \* "none", "zero" or "error"

commandVars == <<server, request, others, client, saw, cmd, summary, printed, exit>>
clientVars == <<server, request, others, client, saw>>
runVars == <<cmd, summary, printed, exit>>

-----------------------------------------------------------------------------
(* The window.  PipelineService.Run is reduced to its test for a run that  *)
(* is not over (PipelineService models the rest).                          *)
Active(r) == r \in {"running", "stopping"}
Busy == Active(request) \/ others.running
\* GetStatus: a run that was told to stop goes on running until it returns.
Mut_StopIsOver == request = "running" \/ others.running
ShownRunning == Busy

\* handleRun answers "started" and leaves the call to a goroutine.
PostRun ==
  /\ client = "start"
  /\ IF server = "up" THEN request' = "queued" /\ client' = "sleep"
                      ELSE client' = "error" /\ UNCHANGED request
  /\ UNCHANGED <<server, others, saw>>

ServiceRun ==
  /\ server = "up" /\ request = "queued"
  /\ request' = IF Busy THEN "refused" ELSE "running"
  /\ UNCHANGED <<server, others, client, saw>>

StopRun ==
  /\ server = "up" /\ request = "running"
  /\ request' = "stopping"
  /\ UNCHANGED <<server, others, client, saw>>

EngineEnds ==
  /\ server = "up" /\ Active(request)
  /\ request' = "over"
  /\ UNCHANGED <<server, others, client, saw>>

OtherRun ==
  /\ server = "up"
  /\ \/ others.left > 0 /\ ~Busy /\ others' = [left |-> others.left - 1, running |-> TRUE]
     \/ others.running /\ others' = [others EXCEPT !.running = FALSE]
  /\ UNCHANGED <<server, request, client, saw>>

WindowQuits ==
  /\ server = "up" /\ server' = "down"
  /\ UNCHANGED <<request, others, client, saw>>

-----------------------------------------------------------------------------
(* The client sleeps a second and asks; the first status that is not       *)
(* running is the end.                                                     *)
Poll ==
  /\ client = "sleep"
  /\ client' = CASE server = "down" -> "error"
                 [] server = "up" /\ ShownRunning -> "sleep"
                 [] server = "up" /\ ~ShownRunning -> "told"
  /\ saw' = (saw \/ (server = "up" /\ ShownRunning /\ Active(request)))
  /\ UNCHANGED <<server, request, others>>

ClientNext ==
  PostRun \/ ServiceRun \/ StopRun \/ EngineEnds \/ OtherRun \/ WindowQuits \/ Poll

-----------------------------------------------------------------------------
(* morgue run.  --watch needs a terminal, and is ignored with --quiet.     *)
Modes == {"plain", "quiet", "watch"}
NoSummary == [run |-> 0, success |-> 0]

\* Engine.Run: an error, with no summary, or a summary, unless it cannot be
\* written, which is a warning.
EngineReturns ==
  /\ cmd.at = "engine" /\ cmd.engine = "running"
  /\ \/ cmd' = [cmd EXCEPT !.engine = "err"] /\ UNCHANGED summary
     \/ /\ cmd' = [cmd EXCEPT !.engine = "nil"]
        /\ \E n \in 0..1 : summary' = [run |-> 2, success |-> n]
     \/ cmd' = [cmd EXCEPT !.engine = "unwritten"] /\ UNCHANGED summary
  /\ UNCHANGED <<printed, exit>>

\* Run: the engine's error is the command's.
Mut_ErrorIgnored == cmd' = [cmd EXCEPT !.at = "summary"] /\ UNCHANGED <<summary, printed, exit>>
PlainReturns ==
  IF cmd.engine = "err"
    THEN cmd' = [cmd EXCEPT !.at = "exited"] /\ exit' = "error" /\ UNCHANGED <<summary, printed>>
    ELSE cmd' = [cmd EXCEPT !.at = "summary"] /\ UNCHANGED <<summary, printed, exit>>

AfterEngine ==
  /\ cmd.mode # "watch" /\ cmd.at = "engine" /\ cmd.engine # "running"
  /\ PlainReturns

\* RunWatch: the view ends when the engine has returned, or when the user
\* presses q, and nobody stops the engine then.
ViewEnds ==
  /\ cmd.mode = "watch" /\ cmd.at = "engine"
  /\ \E q \in BOOLEAN :
       /\ q \/ cmd.engine # "running"
       /\ cmd' = [cmd EXCEPT !.at = "summary", !.quit = q]
  /\ UNCHANGED <<summary, printed, exit>>

\* Without a summary.json there is nothing to print and that is no error;
\* only Run looks whether anything was decompiled.
PrintSummary ==
  /\ cmd.at = "summary"
  /\ printed' = summary
  /\ exit' = CASE cmd.mode # "watch" /\ summary.run > 0 /\ summary.success = 0 -> "error"
               [] cmd.mode = "watch" /\ cmd.engine = "err" -> "error"
               [] OTHER -> "zero"
  /\ cmd' = [cmd EXCEPT !.at = "exited"]
  /\ UNCHANGED summary

RunNext == EngineReturns \/ AfterEngine \/ ViewEnds \/ PrintSummary

-----------------------------------------------------------------------------
CommandInit ==
  /\ server \in {"up", "down"} /\ request = "none"
  /\ others = [left |-> MaxOthers, running |-> FALSE]
  /\ client = "start" /\ saw = FALSE
  /\ cmd \in [mode : Modes, at : {"engine"}, engine : {"running"}, quit : {FALSE}]
  /\ summary \in {NoSummary, [run |-> 1, success |-> 1]}     \* an earlier run's, perhaps
  /\ printed = NoSummary /\ exit = "none"

-----------------------------------------------------------------------------
(* A client that has once seen its run is told that it is complete only    *)
(* after the run has returned, whoever stops it and whatever else the      *)
(* window runs before and after (api_cmd.go, APIRunWait).                  *)
ToldAfterItsRun == (client = "told" /\ saw) => request = "over"

(* The summary that "morgue run" and a watched run print is the run's own, *)
(* not the one an earlier run left in the directory, unless the engine     *)
(* could not write it or, in the view, was quit or failed.                 *)
PrintsOwnSummary ==
  printed.run = 1 =>
    \/ cmd.engine = "unwritten"
    \/ cmd.mode = "watch" /\ (cmd.quit \/ cmd.engine = "err")

(* Stated for a disagreement, api_cmd.go:87, "polls until it completes":   *)
(* a client that was told so had its run, and the run is over.             *)
ToldTheRunIsOver == client = "told" => request = "over"
=============================================================================
