------------------------ MODULE PipelineService_proof ------------------------
(***************************************************************************)
(* Proofs about PipelineService, for any set of jobs, any number of        *)
(* targets and steps and any channel capacity.                             *)
(*                                                                         *)
(* SingleEngine is not inductive.  What makes it so is Owner: the gate     *)
(* pointer s.pause names the one active job, status.Running is set exactly *)
(* as long as it is, and a drainer receives only between GrabGate and the  *)
(* end of its job.                                                         *)
(***************************************************************************)
EXTENDS PipelineService, TLAPS

Owner ==
  /\ \A j \in Jobs : Active(j) => status.running /\ pause = j
  /\ \A j \in Jobs : Active(j) => cancelled[j] \/ cancel = j
  /\ \A j \in Jobs : pc[j] \in EnginePcs => gateOf[j] = j
  /\ pause # None => Active(pause)

DrainerPhase ==
  /\ \A j \in Jobs : pc[j] \in {"new", "answered", "load", "grab"} => drainer[j] = "off"
  /\ \A j \in Jobs : drainer[j] = "recv" => Active(j) /\ pc[j] # "finish"

GateShown ==
  /\ \A j \in Jobs : pc[j] \in {"new", "answered"} => ~gatePaused[j]
  /\ \A j \in Jobs : Active(j) /\ gatePaused[j] => status.paused
  /\ \A j \in Jobs : pc[j] = "wait" /\ held[j] => gatePaused[j]

RoundsLeft == \A j \in Jobs : pc[j] \in {"capture", "wait", "work"} => left[j] > 0

StepsCounted == status.stepTotal = 0 => status.step = 0

IInv == TypeOK /\ Owner /\ DrainerPhase /\ GateShown
        /\ RoundsLeft /\ StepsCounted /\ TerminalClean

-----------------------------------------------------------------------------
(* Operators on the status and on events *)

\* The fields of the empty status and of the one a job starts with.
LEMMA InitialStatus ==
  /\ EmptyStatus \in Status
  /\ [EmptyStatus EXCEPT !.running = TRUE, !.phase = "starting"] \in Status
<1>1. 0 \in 0 .. Targets /\ 0 \in 0 .. Steps
  BY ConstantsAssumption
<1>2. EmptyStatus \in Status
  BY <1>1 DEF EmptyStatus, Status
<1>3. QED
  BY <1>2 DEF Status

\* finishStatus yields a clean terminal status.
LEMMA TerminalStatus ==
  ASSUME NEW s \in Status, s.stepTotal = 0 => s.step = 0, NEW ok \in BOOLEAN
  PROVE  /\ Terminal(s, ok) \in Status
         /\ ~Terminal(s, ok).running /\ ~Terminal(s, ok).paused
         /\ Terminal(s, ok).phase \in {"done", "error"}
         /\ Terminal(s, ok).phase = "done" => Terminal(s, ok).step = Terminal(s, ok).stepTotal
         /\ Terminal(s, ok).stepTotal = 0 => Terminal(s, ok).step = 0
<1> DEFINE step == IF ok /\ s.stepTotal > 0 THEN s.stepTotal ELSE s.step
           t == [s EXCEPT !.running = FALSE, !.paused = FALSE,
                          !.phase = IF ok THEN "done" ELSE "error", !.step = step]
<1>1. Terminal(s, ok) = t
  BY DEF Terminal, Status
<1>2. s.step \in Nat /\ s.stepTotal \in Nat /\ step \in 0 .. Steps
  <2>1. s.step \in 0 .. Steps /\ s.stepTotal \in 0 .. Steps
    <3>1. s.step \in 0 .. Steps /\ s.stepTotal \in {0, Steps}
      BY DEF Status
    <3> QED
      BY <3>1, ConstantsAssumption
  <2>2. step = s.stepTotal \/ step = s.step
    OBVIOUS
  <2> QED
    BY <2>1, <2>2, ConstantsAssumption
<1>3. t \in Status
  BY <1>2 DEF Status
<1>4. /\ ~t.running /\ ~t.paused /\ t.step = step /\ t.stepTotal = s.stepTotal
      /\ t.phase = IF ok THEN "done" ELSE "error"
  BY DEF Status
<1> HIDE DEF t
<1>5. t.phase = "done" => t.step = t.stepTotal
  BY <1>2, <1>4
<1>6. t.stepTotal = 0 => t.step = 0
  BY <1>2, <1>4
<1> QED
  BY <1>1, <1>3, <1>4, <1>5, <1>6

\* The drainer changes neither flag, and never shows a step of no recipe.
LEMMA AppliedStatus ==
  ASSUME NEW s \in Status, s.stepTotal = 0 => s.step = 0, NEW ev \in Events
  PROVE  /\ ApplyEvent(s, ev) \in Status
         /\ ApplyEvent(s, ev).running = s.running /\ ApplyEvent(s, ev).paused = s.paused
         /\ ApplyEvent(s, ev).stepTotal = 0 => ApplyEvent(s, ev).step = 0
  BY ConstantsAssumption DEF ApplyEvent, Status, Events

\* Pause and Resume change the paused flag alone.
LEMMA PausedStatus ==
  ASSUME NEW s \in Status, NEW b \in BOOLEAN
  PROVE  /\ [s EXCEPT !.paused = b] \in Status
         /\ [s EXCEPT !.paused = b].running = s.running
         /\ [s EXCEPT !.paused = b].paused = b
         /\ [s EXCEPT !.paused = b].step = s.step
         /\ [s EXCEPT !.paused = b].stepTotal = s.stepTotal
  BY DEF Status

\* The events the engine sends.
LEMMA SentEvents ==
  /\ Event("scan", 0, 0) \in Events
  /\ Event("scan", Targets, 0) \in Events
  /\ Event("done", 0, 0) \in Events
  /\ \A k \in 1 .. Steps : Event("execute", 0, k) \in Events
  BY ConstantsAssumption DEF Event, Events

-----------------------------------------------------------------------------
\* The initial state satisfies the inductive invariant.
LEMMA InitIInv == Init => IInv
<1> SUFFICES ASSUME Init PROVE IInv
  OBVIOUS
<1>1. TypeOK
  <2>1. events \in [Jobs -> Seq(Events)]
    BY DEF Init
  <2> QED
    BY <2>1, InitialStatus, ConstantsAssumption DEF Init, TypeOK, Pcs, EnginePcs
<1>2. Owner /\ DrainerPhase /\ GateShown
  BY DEF Init, Owner, DrainerPhase, GateShown, Active, EnginePcs
<1>3. RoundsLeft /\ StepsCounted /\ TerminalClean
  BY DEF Init, RoundsLeft, StepsCounted, TerminalClean, EmptyStatus
<1> QED
  BY <1>1, <1>2, <1>3 DEF IInv

\* Types are preserved by every step.
LEMMA StepTypeOK == TypeOK /\ RoundsLeft /\ StepsCounted /\ [Next]_vars => TypeOK'
<1> SUFFICES ASSUME TypeOK, RoundsLeft, StepsCounted, [Next]_vars PROVE TypeOK'
  OBVIOUS
<1> USE ConstantsAssumption
<1> USE DEF StepsCounted, jobVars, chanVars, gateVars, svcVars, Goto
<1>1. ASSUME NEW j \in Jobs, Serve(j) \/ HandleRun(j) PROVE TypeOK'
  <2>1. CASE HandleRun(j) \/ RunBusy(j) \/ LoadOk(j) \/ AwaitDrained(j) \/ Close(j)
    BY <2>1 DEF TypeOK, Pcs, HandleRun, RunBusy, LoadOk, AwaitDrained, Close
  <2>2. CASE RunStart(j)
    BY <2>2, InitialStatus DEF TypeOK, Pcs, RunStart
  <2>3. CASE LoadFails(j)
    BY <2>3, InitialStatus DEF TypeOK, Pcs, LoadFails
  <2>4. CASE GrabGate(j)
    BY <2>4 DEF TypeOK, Pcs, EnginePcs, GrabGate
  <2>5. CASE FinishStatus(j)
    <3>1. status' \in Status
      BY <2>5, TerminalStatus DEF TypeOK, FinishStatus
    <3> QED
      BY <2>5, <3>1 DEF TypeOK, Pcs, FinishStatus
  <2> QED
    BY <1>1, <2>1, <2>2, <2>3, <2>4, <2>5 DEF Serve
<1>2. ASSUME NEW j \in Jobs, Engine(j) PROVE TypeOK'
  <2>1. ASSUME NEW ev \in Events, Send(j, ev)
        PROVE  /\ events' \in [Jobs -> Seq(Events)]
               /\ UNCHANGED <<closed, drainer>>
    BY <2>1 DEF TypeOK, Send
  <2>2. CASE Scan(j) \/ ScanFinds(j) \/ SendDone(j) \/ ScanFails(j)
    BY <2>1, <2>2, SentEvents
    DEF TypeOK, Pcs, EnginePcs, Scan, ScanFinds, SendDone, ScanFails
  <2>3. CASE Work(j)
    <3>1. left' \in [Jobs -> 0 .. Targets]
      BY <2>3 DEF TypeOK, RoundsLeft, Work, AfterWork
    <3> QED
      BY <2>1, <2>3, <3>1, SentEvents DEF TypeOK, Pcs, EnginePcs, Work, AfterWork
  <2>4. CASE CheckCancelled(j) \/ CheckOk(j) \/ Unchecked(j) \/ NoMoreTargets(j)
    BY <2>4 DEF TypeOK, Pcs, EnginePcs, CheckCancelled, CheckOk, Unchecked, NoMoreTargets
  <2>5. CASE CaptureGate(j) \/ GatePassed(j)
    BY <2>5 DEF TypeOK, Pcs, EnginePcs, CaptureGate, GateShut, GatePassed
  <2>6. CASE GateCancelled(j)
    <3>1. left' \in [Jobs -> 0 .. Targets]
      <4>1. pc[j] = "wait" /\ (left' = left \/ left' = [left EXCEPT ![j] = left[j] - 1])
        BY <2>6 DEF GateCancelled
      <4>2. left[j] - 1 \in 0 .. Targets
        BY <4>1 DEF TypeOK, RoundsLeft
      <4> QED
        BY <4>1, <4>2 DEF TypeOK
    <3> QED
      BY <2>6, <3>1 DEF TypeOK, Pcs, EnginePcs, GateCancelled
  <2> QED
    BY <1>2, <2>2, <2>3, <2>4, <2>5, <2>6 DEF Engine
<1>3. ASSUME NEW j \in Jobs, Consume(j) PROVE TypeOK'
  <2>1. CASE Drain(j)
    <3>1. events[j] \in Seq(Events) /\ events[j] # << >>
      BY <2>1 DEF Drain, TypeOK
    <3>2. Head(events[j]) \in Events /\ Tail(events[j]) \in Seq(Events)
      BY <3>1
    <3>3. status' \in Status
      BY <2>1, <3>2, AppliedStatus DEF Drain, TypeOK
    <3> QED
      BY <2>1, <3>2, <3>3 DEF Drain, TypeOK
  <2>2. CASE DrainerExits(j)
    BY <2>2 DEF TypeOK, DrainerExits
  <2> QED
    BY <1>3, <2>1, <2>2 DEF Consume
<1>4. CASE Stop
  BY <1>4 DEF TypeOK, Stop, OpenGate
<1>5. CASE Pause
  BY <1>5, PausedStatus DEF TypeOK, Pause, ShowPaused
<1>6. CASE Resume
  BY <1>6, PausedStatus DEF TypeOK, Resume, OpenGate
<1>7. CASE UNCHANGED vars
  BY <1>7 DEF TypeOK, vars
<1> QED
  BY <1>1, <1>2, <1>3, <1>4, <1>5, <1>6, <1>7 DEF Next

-----------------------------------------------------------------------------
\* Opening a gate frees its holders and nobody else.
LEMMA OpenedGate ==
  ASSUME TypeOK, NEW g \in Jobs, OpenGate(g)
  PROVE  \A j \in Jobs : /\ gatePaused'[j] <=> gatePaused[j] /\ j # g
                         /\ held'[j] <=> held[j] /\ gateOf[j] # g
<1> SUFFICES ASSUME NEW j \in Jobs
             PROVE  /\ gatePaused'[j] <=> gatePaused[j] /\ j # g
                    /\ held'[j] <=> held[j] /\ gateOf[j] # g
  OBVIOUS
<1>1. gatePaused'[j] <=> gatePaused[j] /\ j # g
  BY DEF OpenGate, TypeOK
<1>2. held'[j] <=> held[j] /\ gateOf[j] # g
  BY DEF OpenGate
<1> QED
  BY <1>1, <1>2

\* Stop cancels the context it has the cancel function of, and opens the
\* gate it points to.
LEMMA Stopped ==
  ASSUME TypeOK, Stop
  PROVE  \A j \in Jobs :
           /\ cancelled[j] \/ cancel = j => cancelled'[j]
           /\ gatePaused'[j] => gatePaused[j]
           /\ held'[j] => held[j]
           /\ held'[j] /\ gateOf[j] = j => (gatePaused'[j] <=> gatePaused[j])
<1>1. \A j \in Jobs : cancelled[j] \/ cancel = j => cancelled'[j]
  <2>1. CASE cancel = None
    BY <2>1, ConstantsAssumption DEF Stop
  <2>2. CASE cancel # None
    BY <2>2 DEF Stop, TypeOK
  <2> QED
    BY <2>1, <2>2
<1>2. CASE pause = None
  BY <1>1, <1>2 DEF Stop
<1>3. CASE pause # None
  <2>1. OpenGate(pause) /\ pause \in Jobs
    BY <1>3 DEF Stop, TypeOK
  <2> QED
    BY <1>1, <2>1, OpenedGate
<1> QED
  BY <1>2, <1>3

\* Every step keeps the running job the owner of the service, its drainer in
\* step with it, and a shut gate shown.
LEMMA StepRun ==
  IInv /\ [Next]_vars => Owner' /\ DrainerPhase' /\ GateShown' /\ RoundsLeft'
<1> SUFFICES ASSUME IInv, [Next]_vars
             PROVE  Owner' /\ DrainerPhase' /\ GateShown' /\ RoundsLeft'
  OBVIOUS
<1> USE DEF IInv, TypeOK, Owner, DrainerPhase, GateShown, RoundsLeft, Active, EnginePcs,
            jobVars, chanVars, gateVars, svcVars, Goto
<1>1. ASSUME NEW j \in Jobs, Serve(j) \/ HandleRun(j)
      PROVE  Owner' /\ DrainerPhase' /\ GateShown' /\ RoundsLeft'
  <2>1. CASE HandleRun(j) \/ RunBusy(j) \/ LoadOk(j) \/ AwaitDrained(j) \/ Close(j)
    BY <2>1 DEF HandleRun, RunBusy, LoadOk, AwaitDrained, Drained, Close
  <2>2. CASE RunStart(j)
    BY <2>2 DEF RunStart, Busy, EmptyStatus
  <2>3. CASE LoadFails(j)
    BY <2>3 DEF LoadFails
  <2>4. CASE GrabGate(j)
    BY <2>4 DEF GrabGate
  <2>5. CASE FinishStatus(j)
    BY <2>5 DEF FinishStatus
  <2> QED
    BY <1>1, <2>1, <2>2, <2>3, <2>4, <2>5 DEF Serve
<1>2. ASSUME NEW j \in Jobs, Engine(j)
      PROVE  Owner' /\ DrainerPhase' /\ GateShown' /\ RoundsLeft'
  <2>1. CASE Scan(j) \/ ScanFinds(j) \/ SendDone(j) \/ ScanFails(j)
    BY <2>1 DEF Scan, ScanFinds, SendDone, ScanFails, Send
  <2>2. CASE Work(j)
    BY <2>2 DEF Work, AfterWork, Send
  <2>3. CASE CheckCancelled(j) \/ CheckOk(j) \/ NoMoreTargets(j)
    BY <2>3 DEF CheckCancelled, CheckOk, NoMoreTargets
  <2>7. CASE Unchecked(j)
    BY <2>7 DEF Unchecked
  <2>4. CASE CaptureGate(j)
    BY <2>4 DEF CaptureGate, GateShut
  <2>5. CASE GatePassed(j)
    BY <2>5 DEF GatePassed
  <2>6. CASE GateCancelled(j)
    <3>1. PICK to \in {"last", "check"} : pc' = [pc EXCEPT ![j] = to]
      BY <2>6 DEF GateCancelled
    <3>2. /\ pc[j] = "wait" /\ held' = [held EXCEPT ![j] = FALSE]
          /\ \A i \in Jobs : i # j => left'[i] = left[i]
          /\ UNCHANGED <<chanVars, cancelled, gatePaused, gateOf, svcVars>>
      BY <2>6 DEF GateCancelled
    <3> QED
      BY <3>1, <3>2
  <2> QED
    BY <1>2, <2>1, <2>2, <2>3, <2>4, <2>5, <2>6, <2>7 DEF Engine
<1>3. ASSUME NEW j \in Jobs, Consume(j)
      PROVE  Owner' /\ DrainerPhase' /\ GateShown' /\ RoundsLeft'
  <2>1. CASE Drain(j)
    <3>1. events[j] \in Seq(Events) /\ events[j] # << >>
      BY <2>1 DEF Drain
    <3>2. Head(events[j]) \in Events
      BY <3>1
    <3>3. status'.running = status.running /\ status'.paused = status.paused
      BY <2>1, <3>2, AppliedStatus DEF Drain, StepsCounted
    <3> QED
      BY <2>1, <3>3 DEF Drain
  <2>2. CASE DrainerExits(j)
    BY <2>2 DEF DrainerExits
  <2> QED
    BY <1>3, <2>1, <2>2 DEF Consume
<1>4. CASE Stop
  <2>1. UNCHANGED <<jobVars, chanVars, gateOf, status, pause>>
    BY <1>4 DEF Stop
  <2>2. \A j \in Jobs :
           /\ cancelled[j] \/ cancel = j => cancelled'[j]
           /\ gatePaused'[j] => gatePaused[j]
           /\ held'[j] => held[j]
           /\ held'[j] /\ gateOf[j] = j => (gatePaused'[j] <=> gatePaused[j])
    BY <1>4, Stopped
  <2>4. Owner' /\ DrainerPhase' /\ RoundsLeft'
    BY <2>1, <2>2
  <2>5. GateShown'
    BY <2>1, <2>2
  <2> QED
    BY <2>4, <2>5
<1>5. CASE Pause
  <2>1. UNCHANGED <<jobVars, chanVars, cancelled, held, gateOf, cancel, pause>>
    BY <1>5 DEF Pause
  <2>2. status'.running = status.running /\ status'.paused
    BY <1>5, PausedStatus DEF Pause, ShowPaused
  <2>3. pause \in Jobs /\ gatePaused' = [gatePaused EXCEPT ![pause] = TRUE]
    BY <1>5 DEF Pause
  <2>4. Owner' /\ DrainerPhase' /\ RoundsLeft'
    BY <2>1, <2>2
  <2>5. Active(pause)
    BY <1>5 DEF Pause
  <2>6. GateShown'
    BY <2>1, <2>2, <2>3, <2>5
  <2> QED
    BY <2>4, <2>6
<1>6. CASE Resume
  <2>1. UNCHANGED <<jobVars, chanVars, cancelled, gateOf, cancel, pause>>
    BY <1>6 DEF Resume
  <2>2. status'.running = status.running /\ pause \in Jobs
    BY <1>6, PausedStatus DEF Resume
  <2>3. \A j \in Jobs : /\ gatePaused'[j] <=> gatePaused[j] /\ j # pause
                        /\ held'[j] <=> held[j] /\ gateOf[j] # pause
    BY <1>6, <2>2, OpenedGate DEF Resume
  <2>4. Owner' /\ DrainerPhase' /\ RoundsLeft'
    BY <2>1, <2>2
  <2>5. GateShown'
    BY <2>1, <2>3
  <2> QED
    BY <2>4, <2>5
<1>7. CASE UNCHANGED vars
  BY <1>7 DEF vars
<1> QED
  BY <1>1, <1>2, <1>3, <1>4, <1>5, <1>6, <1>7 DEF Next

\* Every step keeps an idle service clean, and its status as it was.
LEMMA StepStatus ==
  IInv /\ [Next]_vars =>
    /\ StepsCounted' /\ TerminalClean'
    /\ ~status.running => \/ status' = status
                          \/ status'.running /\ status'.phase = "starting"
<1> DEFINE Goal == /\ StepsCounted' /\ TerminalClean'
                   /\ ~status.running => \/ status' = status
                                         \/ status'.running /\ status'.phase = "starting"
<1> SUFFICES ASSUME IInv, [Next]_vars PROVE Goal
  OBVIOUS
<1>0. status \in Status /\ StepsCounted /\ TerminalClean
  BY DEF IInv, TypeOK
<1> USE DEF StepsCounted, TerminalClean, svcVars
<1>1. ASSUME NEW j \in Jobs, FinishStatus(j) PROVE Goal
  <2>1. status' = Terminal(status, ~failed[j]) /\ cancel' = None /\ pause' = None
    BY <1>1 DEF FinishStatus
  <2>2. status.running
    BY <1>1 DEF FinishStatus, Goto, IInv, Owner, Active
  <2>3. failed[j] \in BOOLEAN
    BY DEF IInv, TypeOK
  <2>4. (~failed[j]) \in BOOLEAN
    BY <2>3, Zenon
  <2> QED
    BY <1>0, <2>1, <2>2, <2>4, TerminalStatus
<1>2. ASSUME NEW j \in Jobs, LoadFails(j) PROVE Goal
  <2>1. status.running
    BY <1>2 DEF LoadFails, Goto, IInv, Owner, Active
  <2> QED
    BY <1>2, <2>1 DEF LoadFails, EmptyStatus
<1>3. ASSUME NEW j \in Jobs, RunStart(j) PROVE Goal
  BY <1>3 DEF RunStart, EmptyStatus
<1>4. ASSUME NEW j \in Jobs, Drain(j) PROVE Goal
  <2>1. events[j] \in Seq(Events) /\ events[j] # << >>
    BY <1>4 DEF Drain, IInv, TypeOK
  <2>2. Head(events[j]) \in Events
    BY <2>1
  <2>3. status.running
    BY <1>4 DEF Drain, IInv, Owner, DrainerPhase
  <2> QED
    BY <1>0, <1>4, <2>2, <2>3, AppliedStatus DEF Drain
<1>5. CASE Stop
  BY <1>0, <1>5 DEF Stop
<1>6. CASE Pause
  BY <1>0, <1>6, PausedStatus DEF Pause, ShowPaused
<1>7. CASE Resume
  <2>1. status.running
    BY <1>0, <1>7 DEF Resume
  <2> QED
    BY <1>0, <1>7, <2>1, PausedStatus DEF Resume
<1>8. ASSUME UNCHANGED svcVars PROVE Goal
  BY <1>0, <1>8
<1> HIDE DEF Goal
<1>9. ASSUME NEW j \in Jobs, Serve(j) \/ HandleRun(j) PROVE Goal
  BY <1>1, <1>2, <1>3, <1>8, <1>9
  DEF Serve, HandleRun, RunBusy, LoadOk, GrabGate, Close, AwaitDrained
<1>10. ASSUME NEW j \in Jobs, Engine(j) PROVE Goal
  BY <1>8, <1>10
  DEF Engine, Scan, ScanFails, ScanFinds, CheckCancelled, CheckOk, Unchecked, NoMoreTargets,
      CaptureGate, GatePassed, GateCancelled, Work, SendDone
<1>11. ASSUME NEW j \in Jobs, Consume(j) PROVE Goal
  BY <1>4, <1>8, <1>11 DEF Consume, DrainerExits
<1>12. CASE UNCHANGED vars
  BY <1>8, <1>12 DEF vars
<1> QED
  BY <1>5, <1>6, <1>7, <1>9, <1>10, <1>11, <1>12 DEF Next

-----------------------------------------------------------------------------
\* IInv is an invariant of the service.
LEMMA Invariance == Spec => []IInv
<1>1. IInv /\ [Next]_vars => IInv'
  BY StepTypeOK, StepRun, StepStatus DEF IInv
<1> QED
  BY InitIInv, <1>1, PTL DEF Spec

\* Every variable of the service keeps its type, in every interleaving.
THEOREM ServiceTypeOK == Spec => []TypeOK
<1>1. IInv => TypeOK
  BY DEF IInv
<1> QED
  BY Invariance, <1>1, PTL

\* However many jobs are submitted and however they race, two of them never
\* run an engine at the same time.
THEOREM ServiceSingleEngine == Spec => []SingleEngine
<1>1. IInv => SingleEngine
  BY DEF IInv, Owner, SingleEngine
<1> QED
  BY Invariance, <1>1, PTL

\* Stop, Pause and Resume always reach the engine that runs.
THEOREM ServiceControllable == Spec => []Controllable
<1>1. IInv => Controllable
  BY DEF IInv, Owner, Controllable, Active
<1> QED
  BY Invariance, <1>1, PTL

\* An idle service always shows a clean terminal status.
THEOREM ServiceTerminalClean == Spec => []TerminalClean
<1>1. IInv => TerminalClean
  BY DEF IInv
<1> QED
  BY Invariance, <1>1, PTL

\* An engine blocked at its gate is always shown as paused.
THEOREM ServicePauseVisible == Spec => []PauseVisible
<1>1. IInv => PauseVisible
  BY DEF IInv, Owner, GateShown, PauseVisible, Active, EnginePcs
<1> QED
  BY Invariance, <1>1, PTL

\* No event still in a channel overwrites a terminal status.
THEOREM ServiceTerminalStable == Spec => TerminalStable
<1>1. IInv /\ [Next]_vars =>
        [~status.running => status' = status
                            \/ (status'.running /\ status'.phase = "starting")]_vars
  BY StepStatus
<1> QED
  BY Invariance, <1>1, PTL DEF Spec, TerminalStable

-----------------------------------------------------------------------------
(* The contract of the engines it runs *)

\* Between the start of the drainer and the deferred "done", and nowhere else,
\* an engine waits or has failed; Stop cancels no job but the gate's.
Started == EnginePcs \cup {"close", "await", "finish", "over"}

EnginesInv ==
  /\ \A j \in Jobs : held[j] => pc[j] = "wait"
  /\ \A j \in Jobs : failed[j] => pc[j] \in {"last", "close", "await", "finish", "over"}
  /\ \A j \in Jobs : drainer[j] # "off" => pc[j] \in Started
  /\ \A j \in Jobs : pc[j] \in EnginePcs \cup {"close", "await", "finish"} => drainer[j] # "off"
  /\ cancel # None => cancel = pause

LEMMA InitEngines == Init => EnginesInv
  BY DEF Init, EnginesInv, Started, EnginePcs

LEMMA StepEngines == IInv /\ EnginesInv /\ [Next]_vars => EnginesInv'
<1> SUFFICES ASSUME IInv, EnginesInv, [Next]_vars PROVE EnginesInv'
  OBVIOUS
<1>0. TypeOK
  BY DEF IInv
<1> USE <1>0 DEF TypeOK, EnginesInv, Started, EnginePcs, jobVars, chanVars, gateVars, svcVars, Goto
<1>1. ASSUME NEW j \in Jobs, Serve(j) \/ HandleRun(j) PROVE EnginesInv'
  <2>1. CASE HandleRun(j) \/ RunBusy(j) \/ LoadOk(j) \/ AwaitDrained(j) \/ Close(j)
    BY <2>1 DEF HandleRun, RunBusy, LoadOk, AwaitDrained, Close
  <2>2. CASE RunStart(j) \/ LoadFails(j)
    BY <2>2 DEF RunStart, LoadFails
  <2>3. CASE GrabGate(j)
    BY <2>3 DEF GrabGate
  <2>4. CASE FinishStatus(j)
    BY <2>4 DEF FinishStatus
  <2> QED
    BY <1>1, <2>1, <2>2, <2>3, <2>4 DEF Serve
<1>2. ASSUME NEW j \in Jobs, Engine(j) PROVE EnginesInv'
  <2>1. CASE Scan(j) \/ ScanFinds(j) \/ SendDone(j) \/ ScanFails(j)
    BY <2>1 DEF Scan, ScanFinds, SendDone, ScanFails, Send
  <2>2. CASE Work(j)
    <3>1. PICK to \in {"check", "capture"} : pc[j] = "work" /\ pc' = [pc EXCEPT ![j] = to]
      BY <2>2 DEF Work, AfterWork
    <3>2. UNCHANGED <<failed, drainer, held, cancel, pause>>
      BY <2>2 DEF Work, Send
    <3> QED
      BY <3>1, <3>2
  <2>3. CASE CheckCancelled(j)
    BY <2>3 DEF CheckCancelled
  <2>4. CASE CheckOk(j) \/ Unchecked(j) \/ NoMoreTargets(j)
    <3>1. UNCHANGED <<failed, drainer, held, cancel, pause>>
      BY <2>4 DEF CheckOk, Unchecked, NoMoreTargets
    <3>2. CASE CheckOk(j)
      BY <3>1, <3>2 DEF CheckOk
    <3>3. CASE NoMoreTargets(j)
      BY <3>1, <3>3 DEF NoMoreTargets
    <3>4. CASE Unchecked(j)
      BY <3>1, <3>4 DEF Unchecked
    <3> QED
      BY <2>4, <3>2, <3>3, <3>4
  <2>5. CASE CaptureGate(j)
    BY <2>5 DEF CaptureGate
  <2>6. CASE GatePassed(j)
    <3>1. pc[j] = "wait" /\ ~held[j] /\ pc' = [pc EXCEPT ![j] = "work"]
      BY <2>6 DEF GatePassed
    <3>2. UNCHANGED <<failed, drainer, held, cancel, pause>>
      BY <2>6 DEF GatePassed
    <3> QED
      BY <3>1, <3>2
  <2>7. CASE GateCancelled(j)
    <3>1. \/ pc' = [pc EXCEPT ![j] = "last"]
          \/ pc' = [pc EXCEPT ![j] = "check"] /\ failed' = failed
      BY <2>7 DEF GateCancelled
    <3>2. /\ pc[j] = "wait" /\ held' = [held EXCEPT ![j] = FALSE]
          /\ \A i \in Jobs : i # j => failed'[i] = failed[i]
          /\ UNCHANGED <<chanVars, cancelled, gatePaused, gateOf, svcVars>>
      BY <2>7 DEF GateCancelled
    <3> QED
      BY <3>1, <3>2
  <2> QED
    BY <1>2, <2>1, <2>2, <2>3, <2>4, <2>5, <2>6, <2>7 DEF Engine
<1>3. ASSUME NEW j \in Jobs, Consume(j) PROVE EnginesInv'
  BY <1>3 DEF Consume, Drain, DrainerExits
<1>4. CASE Stop
  <2>1. \A j \in Jobs : held'[j] => held[j]
    BY <1>4, Stopped
  <2> QED
    BY <1>4, <2>1 DEF Stop
<1>5. CASE Pause
  BY <1>5 DEF Pause
<1>6. CASE Resume
  BY <1>6 DEF Resume, OpenGate
<1>7. CASE UNCHANGED vars
  BY <1>7 DEF vars
<1> QED
  BY <1>1, <1>2, <1>3, <1>4, <1>5, <1>6, <1>7 DEF Next

LEMMA AlwaysEngines == Spec => []EnginesInv
  BY InitEngines, StepEngines, Invariance, PTL DEF Spec

\* The steps of a job that are none of its engine's.
LEMMA ServeContract ==
  ASSUME IInv, EnginesInv, NEW i \in Jobs, NEW j \in Jobs, HandleRun(i) \/ Serve(i)
  PROVE  UNCHANGED Contract(j)!vars
<1>1. UNCHANGED <<failed, cancelled, gatePaused, held>>
  BY DEF Serve, HandleRun, RunBusy, RunStart, LoadFails, LoadOk, GrabGate, Close,
         AwaitDrained, FinishStatus, gateVars, svcVars
<1>2. At(j)' = At(j)
  <2>1. CASE i # j
    <3>1. pc'[j] = pc[j] /\ drainer'[j] = drainer[j]
      BY <2>1 DEF Serve, HandleRun, RunBusy, RunStart, LoadFails, LoadOk, GrabGate, Close,
         AwaitDrained, FinishStatus, chanVars, Goto, IInv, TypeOK
    <3>2. QED
      BY <3>1 DEF At
  <2>2. CASE i = j
    <3>1. CASE GrabGate(j)
      <4>1. pc[j] = "grab" /\ pc'[j] = "scan" /\ drainer'[j] = "recv"
        BY <3>1 DEF GrabGate, Goto, IInv, TypeOK
      <4>2. drainer[j] = "off"
        BY <4>1 DEF EnginesInv, IInv, DrainerPhase
      <4>3. QED
        BY <4>1, <4>2 DEF At
    <3>2. CASE Close(j) \/ AwaitDrained(j) \/ FinishStatus(j)
      <4>1. /\ pc[j] \in {"close", "await", "finish"} /\ pc'[j] \in {"await", "finish", "over"}
            /\ drainer'[j] = drainer[j]
        BY <3>2 DEF Close, AwaitDrained, FinishStatus, chanVars, Goto, IInv, TypeOK
      <4>2. drainer[j] # "off"
        BY <4>1 DEF EnginesInv
      <4>3. QED
        BY <4>1, <4>2 DEF At
    <3>3. CASE HandleRun(j) \/ RunBusy(j) \/ RunStart(j) \/ LoadFails(j) \/ LoadOk(j)
      <4>1. /\ pc[j] \in {"new", "answered", "load"} /\ drainer'[j] = drainer[j]
        BY <3>3 DEF HandleRun, RunBusy, RunStart, LoadFails, LoadOk, chanVars, Goto
      <4>2. drainer[j] = "off"
        BY <4>1 DEF IInv, DrainerPhase
      <4>3. QED
        BY <4>1, <4>2 DEF At
    <3>4. QED
      BY <2>2, <3>1, <3>2, <3>3 DEF Serve
  <2>3. QED
    BY <2>1, <2>2
<1>3. QED
  BY <1>1, <1>2 DEF Contract!vars, Contract!controls

\* The steps of an engine are its contract's.
LEMMA EngineContractStep ==
  ASSUME IInv, EnginesInv, NEW j \in Jobs, Engine(j)
  PROVE  Contract(j)!Run \/ UNCHANGED Contract(j)!vars
<1>1. /\ pc[j] \in EnginePcs /\ pc'[j] \in EnginePcs \cup {"close"}
      /\ drainer[j] # "off" /\ drainer' = drainer /\ gateOf[j] = j
      /\ UNCHANGED <<gatePaused, cancelled>>
  <2>1. pc[j] \in EnginePcs /\ pc'[j] \in EnginePcs \cup {"close"}
    BY DEF Engine, Scan, ScanFails, ScanFinds, CheckCancelled, CheckOk, Unchecked, NoMoreTargets, CaptureGate,
           GatePassed, GateCancelled, Work, AfterWork, SendDone, Goto, EnginePcs, IInv, TypeOK
  <2>2. drainer' = drainer
    BY DEF Engine, Scan, ScanFails, ScanFinds, CheckCancelled, CheckOk, Unchecked, NoMoreTargets, CaptureGate,
           GatePassed, GateCancelled, Work, SendDone, Send, chanVars
  <2>3. UNCHANGED <<gatePaused, cancelled>>
    BY DEF Engine, Scan, ScanFails, ScanFinds, CheckCancelled, CheckOk, Unchecked, NoMoreTargets, CaptureGate,
           GatePassed, GateCancelled, Work, SendDone, gateVars
  <2>4. QED
    BY <2>1, <2>2, <2>3 DEF EnginesInv, IInv, Owner
<1>2. /\ At(j) = IF pc[j] = "scanned" THEN "scan" ELSE pc[j]
      /\ At(j)' = IF pc'[j] = "scanned" THEN "scan"
                  ELSE IF pc'[j] = "close" THEN "over" ELSE pc'[j]
  BY <1>1 DEF At, EnginePcs
<1>3. ~failed[j] \/ pc[j] = "last"
  BY <1>1 DEF EnginesInv, EnginePcs
<1> USE DEF Contract!controls, Contract!Goto, Contract!Run, Contract!vars, Goto
<1>4. CASE Scan(j)
  BY <1>1, <1>2, <1>4 DEF Scan, gateVars, IInv, TypeOK
<1>5. CASE ScanFails(j)
  BY <1>1, <1>2, <1>3, <1>5 DEF ScanFails, gateVars, IInv, TypeOK, Contract!Scan
<1>6. CASE ScanFinds(j)
  BY <1>1, <1>2, <1>3, <1>6 DEF ScanFinds, gateVars, IInv, TypeOK, Contract!Scan
<1>7. CASE CheckCancelled(j)
  BY <1>1, <1>2, <1>7 DEF CheckCancelled, gateVars, IInv, TypeOK, Contract!Stopped
<1>8. CASE CheckOk(j)
  BY <1>1, <1>2, <1>8 DEF CheckOk, gateVars, IInv, TypeOK, Contract!Round
<1>9. CASE NoMoreTargets(j)
  BY <1>1, <1>2, <1>9 DEF NoMoreTargets, gateVars, IInv, TypeOK, Contract!NoMore
<1>10. CASE CaptureGate(j)
  BY <1>1, <1>2, <1>10, ConstantsAssumption DEF CaptureGate, GateShut, IInv, TypeOK, Contract!Capture
<1>11. CASE GatePassed(j)
  BY <1>1, <1>2, <1>11 DEF GatePassed, gateVars, IInv, TypeOK, Contract!Pass
<1>12. CASE GateCancelled(j)
  <2>1. pc[j] = "wait" /\ cancelled[j] /\ held'[j] = FALSE /\ ~failed[j]
    BY <1>3, <1>12 DEF GateCancelled, CtxDone, IInv, TypeOK
  <2>2. \/ pc'[j] = "last" /\ failed'[j] = TRUE
        \/ pc'[j] = "check" /\ failed'[j] = FALSE
    BY <1>12, <2>1 DEF GateCancelled, IInv, TypeOK
  <2>3. \E to \in {"check", "last"} : At(j)' = to /\ failed'[j] = (to = "last")
    BY <1>2, <2>2
  <2>4. At(j) = "wait" /\ At(j)' # "over"
    BY <1>2, <2>1, <2>2
  <2> QED
    BY <1>1, <2>1, <2>3, <2>4 DEF Contract!Leave
<1>13. CASE Work(j)
  BY <1>1, <1>2, <1>13 DEF Work, AfterWork, gateVars, IInv, TypeOK, Contract!Work
<1>14. CASE SendDone(j)
  BY <1>1, <1>2, <1>14 DEF SendDone, gateVars, IInv, TypeOK, Contract!Done
<1>15. CASE Unchecked(j)
  BY <1>1, <1>2, <1>15 DEF Unchecked, gateVars, IInv, TypeOK, Contract!Unchecked
<1>16. QED
  BY <1>4, <1>5, <1>6, <1>7, <1>8, <1>9, <1>10, <1>11, <1>12, <1>13, <1>14, <1>15 DEF Engine

\* The drainers, and the engines of other jobs, do nothing to a job's engine.
LEMMA OthersContract ==
  ASSUME IInv, EnginesInv, NEW i \in Jobs, NEW j \in Jobs, Consume(i) \/ (i # j /\ Engine(i))
  PROVE  UNCHANGED Contract(j)!vars
<1>1. CASE Consume(i)
  <2>1. UNCHANGED <<pc, failed, cancelled, gatePaused, held>>
    BY <1>1 DEF Consume, Drain, DrainerExits, jobVars, gateVars
  <2>2. drainer[j] = "off" <=> drainer'[j] = "off"
    BY <1>1 DEF Consume, Drain, DrainerExits, IInv, TypeOK
  <2>3. At(j)' = At(j)
    BY <2>1, <2>2 DEF At
  <2> QED
    BY <2>1, <2>3 DEF Contract!vars, Contract!controls
<1>2. CASE i # j /\ Engine(i)
  <2>1. UNCHANGED <<drainer, gatePaused, cancelled>>
    BY <1>2 DEF Engine, Scan, ScanFails, ScanFinds, CheckCancelled, CheckOk, Unchecked, NoMoreTargets, CaptureGate,
           GatePassed, GateCancelled, Work, SendDone, Send, chanVars, gateVars
  <2>2. pc'[j] = pc[j]
    BY <1>2 DEF Engine, Scan, ScanFails, ScanFinds, CheckCancelled, CheckOk, Unchecked, NoMoreTargets, CaptureGate,
           GatePassed, GateCancelled, Work, SendDone, Goto, IInv, TypeOK
  <2>3. failed'[j] = failed[j] /\ held'[j] = held[j]
    BY <1>2 DEF Engine, Scan, ScanFails, ScanFinds, CheckCancelled, CheckOk, Unchecked, NoMoreTargets, CaptureGate,
           GatePassed, GateCancelled, Work, SendDone, gateVars, IInv, TypeOK
  <2>4. At(j)' = At(j)
    BY <2>1, <2>2 DEF At
  <2> QED
    BY <2>1, <2>3, <2>4 DEF Contract!vars, Contract!controls
<1> QED
  BY <1>1, <1>2

\* Pause, Resume and Stop of the service are those of the one engine it has
\* the gate of, and nothing to the engines of other jobs.
LEMMA ControlsContract ==
  ASSUME IInv, EnginesInv, NEW j \in Jobs, Pause \/ Resume \/ Stop
  PROVE  \/ Contract(j)!Pause \/ Contract(j)!Resume \/ Contract(j)!Stop
         \/ UNCHANGED Contract(j)!vars
<1>1. UNCHANGED <<pc, failed, drainer>>
  BY DEF Pause, Resume, Stop, jobVars, chanVars
<1>2. At(j)' = At(j)
  BY <1>1 DEF At
<1>3. held[j] => gateOf[j] = j
  BY DEF EnginesInv, IInv, Owner, EnginePcs
<1>4. ASSUME NEW g \in Jobs, OpenGate(g)
      PROVE  /\ g = j => gatePaused'[j] = FALSE /\ held'[j] = FALSE
             /\ g # j => gatePaused'[j] = gatePaused[j] /\ held'[j] = held[j]
  BY <1>3, <1>4 DEF OpenGate, IInv, TypeOK
<1> USE DEF Contract!vars, Contract!controls
<1>5. CASE Pause
  BY <1>1, <1>2, <1>5 DEF Pause, IInv, TypeOK, Contract!Pause
<1>6. CASE Resume
  <2>1. pause \in Jobs /\ OpenGate(pause) /\ cancelled' = cancelled
    BY <1>6 DEF Resume, IInv, TypeOK
  <2> QED
    BY <1>1, <1>2, <1>4, <2>1 DEF Contract!Resume
<1>7. CASE Stop
  <2>1. CASE cancel = j
    <3>1. pause = j /\ OpenGate(j) /\ cancelled'[j] = TRUE
      BY <1>7, <2>1, ConstantsAssumption DEF Stop, EnginesInv, IInv, TypeOK
    <3> QED
      BY <1>1, <1>2, <1>4, <3>1 DEF Contract!Stop
  <2>2. CASE cancel # j
    <3>1. cancelled'[j] = cancelled[j]
      BY <1>7, <2>2 DEF Stop, IInv, TypeOK
    <3>2. CASE pause = None
      BY <1>1, <1>2, <1>7, <3>1, <3>2 DEF Stop
    <3>3. CASE pause # None
      <4>1. pause \in Jobs /\ OpenGate(pause)
        BY <1>7, <3>3 DEF Stop, IInv, TypeOK
      <4> QED
        BY <1>1, <1>2, <1>4, <3>1, <4>1 DEF Contract!Resume
    <3> QED
      BY <3>2, <3>3
  <2> QED
    BY <2>1, <2>2
<1> QED
  BY <1>5, <1>6, <1>7

\* Every engine the service runs keeps the contract EngineRun proves of
\* Engine.Run, and the controls of the service are that engine's.
THEOREM ServiceKeepsContract ==
  ASSUME NEW j \in Jobs
  PROVE  Spec => Contract(j)!Spec
<1>1. Init => Contract(j)!Init
  <2> SUFFICES ASSUME Init PROVE Contract(j)!Init
    OBVIOUS
  <2>1. /\ At(j) = "scan" /\ failed[j] = FALSE
        /\ gatePaused[j] = FALSE /\ held[j] = FALSE /\ cancelled[j] = FALSE
    BY DEF Init, At
  <2> QED
    BY <2>1 DEF Contract!Init
<1>2. IInv /\ EnginesInv /\ [Next]_vars => [Contract(j)!Next]_(Contract(j)!vars)
  <2> SUFFICES ASSUME IInv, EnginesInv, [Next]_vars
               PROVE  Contract(j)!Next \/ UNCHANGED Contract(j)!vars
    OBVIOUS
  <2>1. ASSUME NEW i \in Jobs, HandleRun(i) \/ Serve(i) \/ Engine(i) \/ Consume(i)
        PROVE  Contract(j)!Next \/ UNCHANGED Contract(j)!vars
    <3>1. CASE HandleRun(i) \/ Serve(i)
      BY <3>1, ServeContract
    <3>2. CASE Consume(i) \/ (i # j /\ Engine(i))
      BY <3>2, OthersContract
    <3>3. CASE i = j /\ Engine(i)
      <4>1. Engine(j)
        BY <3>3
      <4> QED
        BY <4>1, EngineContractStep DEF Contract!Next
    <3>4. CASE Engine(i)
      BY <3>2, <3>3, <3>4
    <3> QED
      BY <2>1, <3>1, <3>2, <3>4
  <2>2. CASE Pause \/ Resume \/ Stop
    BY <2>2, ControlsContract DEF Contract!Next
  <2>3. CASE UNCHANGED vars
    <3>1. At(j)' = At(j)
      BY <2>3 DEF vars, jobVars, chanVars, At
    <3> QED
      BY <2>3, <3>1 DEF vars, jobVars, gateVars, Contract!vars, Contract!controls
  <2> QED
    BY <2>1, <2>2, <2>3 DEF Next
<1> QED
  BY <1>1, <1>2, Invariance, AlwaysEngines, PTL DEF Spec, Contract!Spec

=============================================================================
