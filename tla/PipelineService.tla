--------------------------- MODULE PipelineService ---------------------------
(***************************************************************************)
(* internal/services/pipeline_service.go: the one pipeline a running       *)
(* morgue instance has.  Jobs arrive from POST /api/run and from the GUI;  *)
(* each is a goroutine calling Run.  Stop, Pause, Resume and GetStatus are *)
(* called at any time from other goroutines.                               *)
(*                                                                         *)
(* A job that gets the pipeline owns, for its lifetime, a cancellable      *)
(* context, a PauseGate, a bounded events channel and a drainer goroutine. *)
(* All of them are indexed by the job, so that nothing here assumes that   *)
(* only one job runs: that is SingleEngine, a theorem.                     *)
(*                                                                         *)
(* The engine is that of EngineContract, which EngineRun implements: scan, *)
(* then a number of rounds that look at the context, pass the pause gate   *)
(* and work on one target, then the deferred "done" event.                 *)
(***************************************************************************)
EXTENDS Naturals, Sequences

CONSTANTS
  Jobs,      \* calls of Run, one per submitted job
  None,      \* a nil cancel function or a nil gate pointer
  Targets,   \* rounds of the engine, the targets its scan found
  Steps,     \* steps of a recipe, the Total of its progress events
  Cap        \* capacity of the events channel (100 in the code)

ASSUME ConstantsAssumption ==
  /\ None \notin Jobs
  /\ Targets \in Nat \ {0}
  /\ Steps \in Nat \ {0}
  /\ Cap \in Nat \ {0}

VARIABLES
  pc,          \* where each job's goroutine is
  left,        \* targets its engine has still to work on
  failed,      \* its engine returned an error
  events,      \* its events channel
  closed,      \* close(events) happened
  drainer,     \* "off", "recv", "exited", or "dead" after a recovered panic
  cancelled,   \* its context is cancelled
  gatePaused,  \* its PauseGate's channel is open, i.e. paused
  held,        \* its engine holds a gate channel that is still open
  gateOf,      \* the gate its engine was given (line 76)
  status,      \* PipelineService.status
  cancel,      \* PipelineService.cancel: the job whose context it cancels
  pause        \* PipelineService.pause: the job that created the gate

jobVars  == <<pc, left, failed>>
chanVars == <<events, closed, drainer>>
gateVars == <<gatePaused, held, gateOf>>
svcVars  == <<status, cancel, pause>>
vars     == <<jobVars, chanVars, cancelled, gateVars, svcVars>>

-----------------------------------------------------------------------------
(* Data *)

\* A PipelineEvent: step 0 stands for a nil Progress.
Event(phase, total, step) == [phase |-> phase, total |-> total, step |-> step]
Events == [phase : {"scan", "execute", "done"},
           total : 0 .. Targets, step : 0 .. Steps]

EmptyStatus == [running |-> FALSE, paused |-> FALSE, phase |-> "",
                total |-> 0, step |-> 0, stepTotal |-> 0]

Status == [running : BOOLEAN, paused : BOOLEAN,
           phase : {"", "starting", "scan", "execute", "done", "error"},
           total : 0 .. Targets, step : 0 .. Steps, stepTotal : {0, Steps}]

EnginePcs == {"scan", "scanned", "check", "capture", "wait", "work", "last"}
Active(j) == pc[j] \in EnginePcs \cup {"load", "grab", "close", "await", "finish"}
Pcs == {"new", "answered", "dropped", "over", "load", "grab",
        "close", "await", "finish"} \cup EnginePcs

Init ==
  /\ pc = [j \in Jobs |-> "new"]
  /\ left = [j \in Jobs |-> Targets]
  /\ failed = [j \in Jobs |-> FALSE]
  /\ events = [j \in Jobs |-> << >>]
  /\ closed = [j \in Jobs |-> FALSE]
  /\ drainer = [j \in Jobs |-> "off"]
  /\ cancelled = [j \in Jobs |-> FALSE]
  /\ gatePaused = [j \in Jobs |-> FALSE]
  /\ held = [j \in Jobs |-> FALSE]
  /\ gateOf = [j \in Jobs |-> None]
  /\ status = EmptyStatus
  /\ cancel = None
  /\ pause = None

Goto(j, from, to) == pc[j] = from /\ pc' = [pc EXCEPT ![j] = to]

-----------------------------------------------------------------------------
(* Mutations: plausible bugs, each replacing the definition it names in a  *)
(* sensitivity run of the model checker.                                   *)

Mut_BusyNever == FALSE
Mut_AwaitNothing(j) == TRUE
Mut_CtxIgnored(j) == FALSE
Mut_HolderKept(g) == gatePaused' = [gatePaused EXCEPT ![g] = FALSE] /\ UNCHANGED held
Mut_StopForgetsGate ==
  /\ pause # None
  /\ cancel # None
  /\ cancelled' = [cancelled EXCEPT ![cancel] = TRUE]
  /\ cancel' = None /\ pause' = None
  /\ UNCHANGED <<jobVars, chanVars, gateVars, status>>

-----------------------------------------------------------------------------
(* Run, in the job's goroutine *)

\* POST /api/run answers "started" and runs the job in a goroutine.
HandleRun(j) ==
  /\ Goto(j, "new", "answered")
  /\ UNCHANGED <<left, failed, chanVars, cancelled, gateVars, svcVars>>

Busy == status.running

\* The first critical section of Run: a busy service drops the job silently.
RunBusy(j) ==
  /\ Busy
  /\ Goto(j, "answered", "dropped")
  /\ UNCHANGED <<left, failed, chanVars, cancelled, gateVars, svcVars>>

RunStart(j) ==
  /\ ~Busy
  /\ Goto(j, "answered", "load")
  /\ cancel' = j
  /\ pause' = j
  /\ status' = [EmptyStatus EXCEPT !.running = TRUE, !.phase = "starting"]
  /\ UNCHANGED <<left, failed, chanVars, cancelled, gateVars>>

\* config.Load fails: resetStatus, Run returns.
LoadFails(j) ==
  /\ Goto(j, "load", "over")
  /\ status' = EmptyStatus
  /\ cancel' = None
  /\ pause' = None
  /\ UNCHANGED <<left, failed, chanVars, cancelled, gateVars>>

\* config.Load succeeds; the events channel is made.
LoadOk(j) ==
  /\ Goto(j, "load", "grab")
  /\ UNCHANGED <<left, failed, chanVars, cancelled, gateVars, svcVars>>

\* The second critical section reads s.pause back; the drainer is started
\* and the engine called with that gate.
GrabGate(j) ==
  /\ Goto(j, "grab", "scan")
  /\ gateOf' = [gateOf EXCEPT ![j] = pause]
  /\ drainer' = [drainer EXCEPT ![j] = "recv"]
  /\ UNCHANGED <<left, failed, events, closed, cancelled, gatePaused, held, svcVars>>

Close(j) ==
  /\ Goto(j, "close", "await")
  /\ closed' = [closed EXCEPT ![j] = TRUE]
  /\ UNCHANGED <<left, failed, events, drainer, cancelled, gateVars, svcVars>>

Drained(j) == drainer[j] \in {"exited", "dead"}

AwaitDrained(j) ==
  /\ Drained(j)
  /\ Goto(j, "await", "finish")
  /\ UNCHANGED <<left, failed, chanVars, cancelled, gateVars, svcVars>>

Terminal(s, ok) ==
  [s EXCEPT !.running = FALSE, !.paused = FALSE,
            !.phase = IF ok THEN "done" ELSE "error",
            !.step = IF ok /\ s.stepTotal > 0 THEN s.stepTotal ELSE @]

FinishStatus(j) ==
  /\ Goto(j, "finish", "over")
  /\ status' = Terminal(status, ~failed[j])
  /\ cancel' = None
  /\ pause' = None
  /\ UNCHANGED <<left, failed, chanVars, cancelled, gateVars>>

-----------------------------------------------------------------------------
(* eng.Run, in the same goroutine *)

\* A blocking send on the events channel.
Send(j, ev) ==
  /\ Len(events[j]) < Cap
  /\ events' = [events EXCEPT ![j] = Append(@, ev)]
  /\ UNCHANGED <<closed, drainer>>

Scan(j) ==
  /\ Goto(j, "scan", "scanned")
  /\ Send(j, Event("scan", 0, 0))
  /\ UNCHANGED <<left, failed, cancelled, gateVars, svcVars>>

ScanFails(j) ==
  /\ Goto(j, "scanned", "last")
  /\ Send(j, Event("scan", 0, 0))
  /\ failed' = [failed EXCEPT ![j] = TRUE]
  /\ UNCHANGED <<left, cancelled, gateVars, svcVars>>

ScanFinds(j) ==
  /\ Goto(j, "scanned", "check")
  /\ Send(j, Event("scan", Targets, 0))
  /\ UNCHANGED <<left, failed, cancelled, gateVars, svcVars>>

\* The loop's `select { case <-ctx.Done(): return ctx.Err(); default: }`.
CheckCancelled(j) ==
  /\ left[j] > 0 /\ cancelled[j]
  /\ Goto(j, "check", "last")
  /\ failed' = [failed EXCEPT ![j] = TRUE]
  /\ UNCHANGED <<left, chanVars, cancelled, gateVars, svcVars>>

CheckOk(j) ==
  /\ left[j] > 0 /\ ~cancelled[j]
  /\ Goto(j, "check", "capture")
  /\ UNCHANGED <<left, failed, chanVars, cancelled, gateVars, svcVars>>

\* A native target left alone is executed with no look at the context or the
\* gate before it.
Unchecked(j) ==
  /\ left[j] > 0
  /\ Goto(j, "check", "work")
  /\ UNCHANGED <<left, failed, chanVars, cancelled, gateVars, svcVars>>

NoMoreTargets(j) ==
  /\ left[j] = 0
  /\ Goto(j, "check", "last")
  /\ UNCHANGED <<left, failed, chanVars, cancelled, gateVars, svcVars>>

\* WaitIfPaused takes the gate's channel under the gate's mutex ...
GateShut(j) == gateOf[j] # None /\ gatePaused[gateOf[j]]

CaptureGate(j) ==
  /\ Goto(j, "capture", "wait")
  /\ held' = [held EXCEPT ![j] = GateShut(j)]
  /\ UNCHANGED <<left, failed, chanVars, cancelled, gatePaused, gateOf, svcVars>>

\* ... and selects between that channel and the context.
GatePassed(j) ==
  /\ ~held[j]
  /\ Goto(j, "wait", "work")
  /\ UNCHANGED <<left, failed, chanVars, cancelled, gateVars, svcVars>>

CtxDone(j) == cancelled[j]

\* The engine fails, or a nested run ends and with it its caller's round.
GateCancelled(j) ==
  /\ CtxDone(j)
  /\ \/ Goto(j, "wait", "last") /\ failed' = [failed EXCEPT ![j] = TRUE] /\ UNCHANGED left
     \/ Goto(j, "wait", "check") /\ left' = [left EXCEPT ![j] = @ - 1] /\ UNCHANGED failed
  /\ held' = [held EXCEPT ![j] = FALSE]
  /\ UNCHANGED <<chanVars, cancelled, gatePaused, gateOf, svcVars>>

\* The recipe reports one of its steps on the way.  A target that was prepared
\* passes the gate again before it is executed.
AfterWork(j) == {"check"} \cup (IF left[j] > 1 THEN {"capture"} ELSE {})

Work(j) ==
  /\ \E next \in AfterWork(j) : Goto(j, "work", next)
  /\ \E step \in 1 .. Steps : Send(j, Event("execute", 0, step))
  /\ left' = [left EXCEPT ![j] = @ - 1]
  /\ UNCHANGED <<failed, cancelled, gateVars, svcVars>>

\* The deferred send of the terminal event, on every return.
SendDone(j) ==
  /\ Goto(j, "last", "close")
  /\ Send(j, Event("done", 0, 0))
  /\ UNCHANGED <<left, failed, cancelled, gateVars, svcVars>>

-----------------------------------------------------------------------------
(* The drainer goroutine *)

ApplyEvent(s, ev) ==
  [s EXCEPT !.phase = ev.phase, !.total = ev.total,
            !.step = IF ev.step > 0 THEN ev.step ELSE @,
            !.stepTotal = IF ev.step > 0 THEN Steps ELSE @]

\* Receive one event, apply it under the lock, emit it to the window.  The
\* emission may panic; the deferred recover ends the drainer.
Drain(j) ==
  /\ drainer[j] = "recv"
  /\ events[j] # << >>
  /\ status' = ApplyEvent(status, Head(events[j]))
  /\ events' = [events EXCEPT ![j] = Tail(@)]
  /\ \E after \in {"recv", "dead"} : drainer' = [drainer EXCEPT ![j] = after]
  /\ UNCHANGED <<jobVars, closed, cancelled, gateVars, cancel, pause>>

DrainerExits(j) ==
  /\ drainer[j] = "recv"
  /\ closed[j] /\ events[j] = << >>
  /\ drainer' = [drainer EXCEPT ![j] = "exited"]
  /\ UNCHANGED <<jobVars, events, closed, cancelled, gateVars, svcVars>>

-----------------------------------------------------------------------------
(* Controls *)

\* PauseGate.Resume closes the gate's channel, which frees whoever holds it.
OpenGate(g) ==
  /\ gatePaused' = [gatePaused EXCEPT ![g] = FALSE]
  /\ held' = [j \in Jobs |-> held[j] /\ gateOf[j] # g]

Stop ==
  /\ pause # None \/ cancel # None
  /\ IF pause # None THEN OpenGate(pause) ELSE UNCHANGED <<gatePaused, held>>
  /\ cancelled' = IF cancel # None THEN [cancelled EXCEPT ![cancel] = TRUE]
                                   ELSE cancelled
  /\ cancel' = None
  /\ UNCHANGED <<jobVars, chanVars, gateOf, status, pause>>

ShowPaused(s) == [s EXCEPT !.paused = TRUE]

Pause ==
  /\ status.running /\ pause # None
  /\ gatePaused' = [gatePaused EXCEPT ![pause] = TRUE]
  /\ status' = ShowPaused(status)
  /\ UNCHANGED <<jobVars, chanVars, cancelled, held, gateOf, cancel, pause>>

Resume ==
  /\ pause # None
  /\ gatePaused[pause]
  /\ OpenGate(pause)
  /\ status' = [status EXCEPT !.paused = FALSE]
  /\ UNCHANGED <<jobVars, chanVars, cancelled, gateOf, cancel, pause>>

-----------------------------------------------------------------------------
Serve(j) ==
  \/ RunBusy(j) \/ RunStart(j) \/ LoadFails(j) \/ LoadOk(j) \/ GrabGate(j)
  \/ Close(j) \/ AwaitDrained(j) \/ FinishStatus(j)

Engine(j) ==
  \/ Scan(j) \/ ScanFails(j) \/ ScanFinds(j)
  \/ CheckCancelled(j) \/ CheckOk(j) \/ Unchecked(j) \/ NoMoreTargets(j)
  \/ CaptureGate(j) \/ GatePassed(j) \/ GateCancelled(j)
  \/ Work(j) \/ SendDone(j)

Consume(j) == Drain(j) \/ DrainerExits(j)

Next ==
  \/ \E j \in Jobs : HandleRun(j) \/ Serve(j) \/ Engine(j) \/ Consume(j)
  \/ Stop \/ Pause \/ Resume

Spec == Init /\ [][Next]_vars

\* The Go scheduler runs every goroutine that can run; users owe nothing.
Fairness == \A j \in Jobs : WF_vars(Serve(j) \/ Engine(j)) /\ WF_vars(Consume(j))

FairSpec == Spec /\ Fairness

-----------------------------------------------------------------------------
(* Properties *)

TypeOK ==
  /\ pc \in [Jobs -> Pcs]
  /\ left \in [Jobs -> 0 .. Targets]
  /\ failed \in [Jobs -> BOOLEAN]
  /\ events \in [Jobs -> Seq(Events)]
  /\ closed \in [Jobs -> BOOLEAN]
  /\ drainer \in [Jobs -> {"off", "recv", "exited", "dead"}]
  /\ cancelled \in [Jobs -> BOOLEAN]
  /\ gatePaused \in [Jobs -> BOOLEAN]
  /\ held \in [Jobs -> BOOLEAN]
  /\ gateOf \in [Jobs -> Jobs \cup {None}]
  /\ status \in Status
  /\ cancel \in Jobs \cup {None}
  /\ pause \in Jobs \cup {None}

\* However submissions race, at most one job is between its acquisition of
\* the service and its terminal status: Run's test of status.Running is a
\* mutual exclusion although the mutex is released for the whole run.
SingleEngine == \A i, j \in Jobs : Active(i) /\ Active(j) => i = j

\* Stop, Pause and Resume act on the job that runs: its engine waits at the
\* very gate the service points to, and its context is cancelled or is the
\* one Stop would cancel.
Controllable ==
  \A j \in Jobs : pc[j] \in EnginePcs =>
    /\ gateOf[j] = j /\ pause = j
    /\ cancelled[j] \/ cancel = j

\* An idle service shows a clean terminal status, whatever Pause, Stop and
\* late events did: not paused, a terminal phase, a full stepper on success,
\* and no cancel function or gate left behind.
TerminalClean ==
  ~status.running =>
    /\ ~status.paused
    /\ status.phase \in {"", "done", "error"}
    /\ (status.phase = "done" => status.step = status.stepTotal)
    /\ cancel = None /\ pause = None

\* A terminal status stays until the next job starts: no event still in the
\* channel is applied after finishStatus (the comment on `drained`).
TerminalStable ==
  [][~status.running => status' = status
                        \/ (status'.running /\ status'.phase = "starting")]_vars

\* An engine is never blocked by a gate the status does not show as paused.
PauseVisible ==
  \A j \in Jobs : pc[j] = "wait" /\ held[j] => status.running /\ status.paused

\* A stopped job gives the service back, and so does one that nobody keeps
\* paused: a Resume frees the engine even when a Pause follows before it runs
\* again.  Only a drainer that died of a panic can leave the engine blocked, on
\* a full channel.
RunEnds ==
  \A j \in Jobs :
    /\ (cancelled[j] /\ Active(j)) ~> (~Active(j) \/ drainer[j] = "dead")
    /\ []<>(~Active(j) \/ drainer[j] = "dead" \/ gatePaused[j])

\* Every engine the service runs is an engine of EngineContract, and the
\* controls the service is given act on it as on one that runs alone.
At(j) ==
  IF drainer[j] = "off" \/ pc[j] = "scanned" THEN "scan"
  ELSE IF pc[j] \in {"close", "await", "finish", "over"} THEN "over"
  ELSE pc[j]

Contract(j) ==
  INSTANCE EngineContract WITH
    at <- At(j), failed <- failed[j], dones <- IF At(j) = "over" THEN 1 ELSE 0,
    paused <- gatePaused[j], held <- held[j], cancelled <- cancelled[j]

=============================================================================
