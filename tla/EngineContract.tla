---------------------------- MODULE EngineContract --------------------------
(***************************************************************************)
(* What Engine.Run promises PipelineService, which runs it, and the user   *)
(* who controls it.  Nested calls, batches and preparations are hidden: a  *)
(* run scans, then goes in rounds, each of which looks at the context,     *)
(* takes the gate's channel, waits for it and works, but for a native file *)
(* that is left alone, on which it works at once; it ends once, and fails  *)
(* only when its scan did or the context was cancelled.                    *)
(***************************************************************************)
EXTENDS Naturals

VARIABLES
  at,         \* where the run is
  failed,     \* the error it returns
  paused,     \* the gate is closed
  held,       \* the run waits on a channel of the gate that is open
  cancelled,  \* the context is cancelled
  dones       \* "done" events sent

controls == <<paused, held, cancelled>>
vars     == <<at, failed, controls, dones>>

Init ==
  /\ at = "scan" /\ dones = 0
  /\ failed = FALSE /\ paused = FALSE /\ held = FALSE /\ cancelled = FALSE

Goto(from, to) == at = from /\ at' = to

Scan ==
  /\ \E to \in {"check", "last"} : Goto("scan", to) /\ failed' = (to = "last")
  /\ UNCHANGED <<controls, dones>>

Stopped ==
  /\ cancelled
  /\ Goto("check", "last") /\ failed' = TRUE
  /\ UNCHANGED <<controls, dones>>

Round ==
  /\ ~cancelled
  /\ Goto("check", "capture")
  /\ UNCHANGED <<failed, controls, dones>>

\* The native file that is alone in its call is executed with no look at the
\* context or the gate (pipeline.go:350).
Unchecked ==
  /\ Goto("check", "work")
  /\ UNCHANGED <<failed, controls, dones>>

NoMore ==
  /\ Goto("check", "last")
  /\ UNCHANGED <<failed, controls, dones>>

Capture ==
  /\ Goto("capture", "wait")
  /\ held' = paused
  /\ UNCHANGED <<failed, paused, cancelled, dones>>

Pass ==
  /\ ~held
  /\ Goto("wait", "work")
  /\ UNCHANGED <<failed, controls, dones>>

\* Cancelled at the gate: the run fails, unless this ends a nested call only.
Leave ==
  /\ cancelled
  /\ \E to \in {"check", "last"} : Goto("wait", to) /\ failed' = (to = "last")
  /\ held' = FALSE
  /\ UNCHANGED <<paused, cancelled, dones>>

\* A target that was prepared passes the gate again before it is executed.
Work ==
  /\ \E to \in {"check", "capture"} : Goto("work", to)
  /\ UNCHANGED <<failed, controls, dones>>

Done ==
  /\ Goto("last", "over")
  /\ dones' = dones + 1
  /\ UNCHANGED <<failed, controls>>

Run == Scan \/ Stopped \/ Round \/ Unchecked \/ NoMore \/ Capture \/ Pass \/ Leave \/ Work \/ Done

-----------------------------------------------------------------------------
(* The user, at any time *)

Pause ==
  /\ paused' = TRUE
  /\ UNCHANGED <<at, failed, held, cancelled, dones>>

Resume ==
  /\ paused' = FALSE /\ held' = FALSE
  /\ UNCHANGED <<at, failed, cancelled, dones>>

Stop ==
  /\ paused' = FALSE /\ held' = FALSE /\ cancelled' = TRUE
  /\ UNCHANGED <<at, failed, dones>>

Next == Run \/ Pause \/ Resume \/ Stop

Spec == Init /\ [][Next]_vars
=============================================================================
