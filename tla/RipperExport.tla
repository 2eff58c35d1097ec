----------------------------- MODULE RipperExport -----------------------------
(***************************************************************************)
(* internal/recipe/assetripper.go: RunAssetRipperExport, called by the     *)
(* Unity recipes.  AssetRipper is a server: a goroutine of its own runs    *)
(* StreamingExec on it and sends its lines to the recipe's log channel,    *)
(* the recipe's goroutine waits until it answers, drives the export and    *)
(* stops it.  When the recipe is over, executeRecipe closes that channel.  *)
(*                                                                         *)
(* A forwarder that lives empties the log channel (RecipeForwarder), so a  *)
(* send on it is a step; one that died from a panic is not modelled here.  *)
(***************************************************************************)
EXTENDS StreamingExec

VARIABLES
  main,       \* the recipe's goroutine
  logClosed,  \* close(logCh) in executeRecipe
  panicked    \* a send on the closed channel: the program is gone

ripperVars == <<execVars, main, logClosed, panicked>>

-----------------------------------------------------------------------------
(* Mutations: plausible bugs *)

Mut_NoDeferredCancel == UNCHANGED execVars

-----------------------------------------------------------------------------
RInit == ExecInit /\ main = "polling" /\ logClosed = FALSE /\ panicked = FALSE

\* The server writes until it is killed; it may also crash, and it may have
\* started a process of its own.
Lifted(A) == ~panicked /\ A /\ UNCHANGED <<main, logClosed, panicked>>
Server == Lifted(Processes) \/ Lifted(Kill) \/ Lifted(Scanning) \/ Lifted(WaitReturns)

\* The callback logs the line, or drops it: at most one line a second.
ServerLine ==
  /\ ~panicked
  /\ OnLine
  /\ panicked' \in {FALSE, logClosed}
  /\ UNCHANGED <<main, logClosed>>

Cancelled == ctxDone' = TRUE /\ UNCHANGED <<child, helper, written, pipe, reader, delivered>>

\* The user stops the run: launchCtx derives from the recipe's context.
UserStops ==
  /\ ~panicked
  /\ Cancel
  /\ UNCHANGED <<main, logClosed, panicked>>

Answers ==
  /\ ~panicked /\ main = "polling" /\ child = "running"
  /\ main' = "exporting"
  /\ UNCHANGED <<execVars, logClosed, panicked>>

DeferredCancel == Cancelled

\* No answer within 60 s, or the context is done: return err, and with it the
\* deferred cancel.
NotReady ==
  /\ ~panicked /\ main = "polling"
  /\ DeferredCancel
  /\ main' = "recipe"
  /\ UNCHANGED <<logClosed, panicked>>

\* The export succeeded or failed; cancel().
Exported ==
  /\ ~panicked /\ main = "exporting"
  /\ Cancelled
  /\ main' = "stopping"
  /\ UNCHANGED <<logClosed, panicked>>

\* The select between errCh and five seconds.
ServerGone == main = "stopping" /\ reader = "returned"
FiveSeconds == main = "stopping"

Stopped ==
  /\ ~panicked /\ (ServerGone \/ FiveSeconds)
  /\ main' = "recipe"
  /\ UNCHANGED <<execVars, logClosed, panicked>>

RecipeOver ==
  /\ ~panicked /\ main = "recipe"
  /\ main' = "over"
  /\ logClosed' = TRUE
  /\ UNCHANGED <<execVars, panicked>>

-----------------------------------------------------------------------------
RNext == Server \/ ServerLine \/ UserStops \/ Answers \/ NotReady \/ Exported
         \/ Stopped \/ RecipeOver

RSpec == RInit /\ [][RNext]_ripperVars

RFairness ==
  /\ WF_ripperVars(ServerLine) /\ WF_ripperVars(Lifted(Kill)) /\ WF_ripperVars(Lifted(Scanning \/ WaitReturns))
  /\ WF_ripperVars(Lifted(helper = "running" /\ (Write \/ HelperExits)))

FairRSpec == RSpec /\ RFairness

-----------------------------------------------------------------------------
(* Properties *)

\* "Stop the server regardless of export result": once the recipe goes on
\* without the server, the server's goroutine ends (if the program lives), also
\* when the server left a process behind; only one that fills the pipe behind a
\* line over 1 MB keeps it.
ServerStopped ==
  main = "recipe" ~> reader = "returned" \/ panicked \/ (helper = "running" /\ Stalled)

\* unity_mono.go:205, "an export failure logs + reports but never aborts the
\* run": no line of the server is sent after the log channel was closed.
NeverAborts == ~panicked

=============================================================================
