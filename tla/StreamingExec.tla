---------------------------- MODULE StreamingExec ----------------------------
(***************************************************************************)
(* internal/util/exec.go: runCmdStreaming, which runs an external tool and *)
(* hands each line of its standard output to a callback.                   *)
(*                                                                         *)
(* Three parties: the goroutine that scans the pipe and then waits, the    *)
(* child, and the processes the child starts (a launcher script starting a *)
(* Java virtual machine), which inherit its pipes.  Cancelling the context *)
(* kills the child alone.  The pipe is bounded: a writer blocks on a full  *)
(* one.  Scan gives up at a line longer than its buffer of 1 MB.           *)
(***************************************************************************)
EXTENDS Naturals, Sequences

CONSTANTS
  PipeCap,     \* lines the pipe holds before a writer blocks
  MaxLines,    \* lines written, a bound of the model
  LineKinds,   \* {"short"}, or {"short", "long"} with lines over 1 MB
  MayFork      \* whether the child may start a process of its own

ASSUME ExecAssumption ==
  /\ PipeCap \in Nat \ {0}
  /\ MaxLines \in Nat
  /\ LineKinds \subseteq {"short", "long"}
  /\ MayFork \in BOOLEAN

VARIABLES
  ctxDone,    \* the context is cancelled
  child,      \* "running", "exited" or "killed"
  helper,     \* the child's own process: "none", "running", "exited"
  written,    \* lines written so far
  pipe,       \* the lines in the pipe
  reader,     \* "scan", "line" (in onLine), "wait", "returned"
  delivered   \* lines handed to onLine and kept in the result

execVars == <<ctxDone, child, helper, written, pipe, reader, delivered>>

-----------------------------------------------------------------------------
(* Mutations: plausible bugs *)

Mut_ExitIsEOF == ~(child = "running" \/ helper = "running")

-----------------------------------------------------------------------------
ExecInit ==
  /\ ctxDone = FALSE
  /\ child = "running" /\ helper = "none"
  /\ written = 0 /\ pipe = << >>
  /\ reader = "scan" /\ delivered = 0

-----------------------------------------------------------------------------
(* The processes *)

Writers == child = "running" \/ helper = "running"

Fork ==
  /\ MayFork
  /\ child = "running" /\ helper = "none"
  /\ helper' = "running"
  /\ UNCHANGED <<ctxDone, child, written, pipe, reader, delivered>>

\* Once the call has returned, a write meets a broken pipe.
Write ==
  /\ Writers /\ reader # "returned"
  /\ written < MaxLines /\ Len(pipe) < PipeCap
  /\ \E kind \in LineKinds : pipe' = Append(pipe, kind)
  /\ written' = written + 1
  /\ UNCHANGED <<ctxDone, child, helper, reader, delivered>>

\* A process ends when it has written what it had to write.
AllWritten == written = MaxLines

ChildExits ==
  /\ child = "running" /\ AllWritten
  /\ child' = "exited"
  /\ UNCHANGED <<ctxDone, helper, written, pipe, reader, delivered>>

HelperExits ==
  /\ helper = "running" /\ AllWritten
  /\ helper' = "exited"
  /\ UNCHANGED <<ctxDone, child, written, pipe, reader, delivered>>

-----------------------------------------------------------------------------
(* The context *)

Cancel ==
  /\ ~ctxDone
  /\ ctxDone' = TRUE
  /\ UNCHANGED <<child, helper, written, pipe, reader, delivered>>

KillDue == ctxDone

\* CommandContext's watcher kills the child when the context is done.
Kill ==
  /\ KillDue
  /\ child = "running"
  /\ child' = "killed"
  /\ UNCHANGED <<ctxDone, helper, written, pipe, reader, delivered>>

-----------------------------------------------------------------------------
(* The calling goroutine *)

AfterLine == pipe' = Tail(pipe)

ScanLine ==
  /\ reader = "scan"
  /\ pipe # << >> /\ Head(pipe) = "short"
  /\ AfterLine
  /\ reader' = "line"
  /\ UNCHANGED <<ctxDone, child, helper, written, delivered>>

\* Scan returns false; scanner.Err() is not looked at.
ScanTooLong ==
  /\ reader = "scan"
  /\ pipe # << >> /\ Head(pipe) = "long"
  /\ reader' = "wait"
  /\ UNCHANGED <<ctxDone, child, helper, written, pipe, delivered>>

AtEOF == pipe = << >> /\ ~Writers

ScanEOF ==
  /\ reader = "scan"
  /\ AtEOF
  /\ reader' = "wait"
  /\ UNCHANGED <<ctxDone, child, helper, written, pipe, delivered>>

OnLine ==
  /\ reader = "line"
  /\ reader' = "scan"
  /\ delivered' = delivered + 1
  /\ UNCHANGED <<ctxDone, child, helper, written, pipe>>

\* Wait waits for the child, then for the end of standard error, which the
\* child's own processes hold as well.
WaitReturns ==
  /\ reader = "wait" /\ ~Writers
  /\ reader' = "returned"
  /\ UNCHANGED <<ctxDone, child, helper, written, pipe, delivered>>

-----------------------------------------------------------------------------
Scanning == ScanLine \/ ScanTooLong \/ ScanEOF
Processes == Fork \/ Write \/ ChildExits \/ HelperExits
ExecNext == Processes \/ Cancel \/ Kill \/ Scanning \/ OnLine \/ WaitReturns

ExecSpec == ExecInit /\ [][ExecNext]_execVars

-----------------------------------------------------------------------------
(* Properties *)

TypeOK ==
  /\ ctxDone \in BOOLEAN
  /\ child \in {"running", "exited", "killed"}
  /\ helper \in {"none", "running", "exited"}
  /\ written \in 0 .. MaxLines /\ delivered \in 0 .. MaxLines
  /\ pipe \in Seq(LineKinds) /\ Len(pipe) <= PipeCap
  /\ reader \in {"scan", "line", "wait", "returned"}

\* The comment on RunCmdStreaming, "Returns the full CmdResult after
\* completion": when the call returns, every line written was delivered, also
\* what was still in the pipe when the tool exited or was killed; only a line
\* over 1 MB, and what follows it, is left unread.
Unread(lines) == lines # << >> => Head(lines) = "long"

FullOutput ==
  reader = "returned" => delivered + Len(pipe) = written /\ Unread(pipe)

\* The scanner gave up at a long line and the pipe has filled up behind it: a
\* writer waits for the reader, and the reader for the writer's end.
Stalled == reader = "wait" /\ Len(pipe) = PipeCap /\ Head(pipe) = "long"

=============================================================================
