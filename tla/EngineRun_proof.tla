--------------------------- MODULE EngineRun_proof ---------------------------
(***************************************************************************)
(* Proofs about EngineRun, for any input, any unpacked trees and any depth *)
(* cap.                                                                    *)
(*                                                                         *)
(* AccountedOnce speaks of the moment a summary is written.  It is carried *)
(* there by a balance of every active call (Books): each listed file has a *)
(* result or waits in one of the call's queues, and these hold no more     *)
(* entries than there are files.  A call that waits for a nested one keeps *)
(* its balance, the nested one starts with a balance of its own.           *)
(*                                                                         *)
(* A native file that is alone in its call is begun behind no gate and no  *)
(* check.  Every other target waits behind one: where a paused or stopped  *)
(* run may be before it begins another is GateInv and the first part of    *)
(* BegunInv, the rest of which bounds what a stopped run still begins by   *)
(* one target for every active call.                                       *)
(***************************************************************************)
EXTENDS EngineRun, TLAPS

Size(queue) == Len(queue)
In(file, queue) == \E i \in DOMAIN queue : queue[i] = file
Judged(results, file) == \E i \in DOMAIN results : results[i].file = file

\* rest is the queue in which the native files of the frame wait.
Accounted(frame, rest) ==
  /\ Size(frame.results) + Size(frame.todo) + Size(frame.tasks) + Size(rest) = Size(frame.listed)
  /\ \A file \in DOMAIN frame.listed :
       Judged(frame.results, file) \/ In(file, frame.todo) \/ In(file, frame.tasks) \/ In(file, rest)

Waiting(frame) == frame.todo = << >> /\ Accounted(frame, frame.natives)

Batches == {"strings", "ghidra", "lone", "summary"}
Idle == {"scan", "return", "over"}

Rest ==
  CASE phase = "ghidra" -> Top.batch
    [] phase = "summary" -> << >>
    [] OTHER -> Top.natives

Books ==
  /\ \A i \in 1 .. Len(stack) - 1 : Waiting(stack[i])
  /\ phase = "scan" => \A i \in 1 .. Len(stack) : Waiting(stack[i])
  /\ phase \notin Idle => Accounted(Top, Rest)
  /\ phase \notin Idle \cup {"analyse"} => Top.todo = << >>
  /\ phase \in Batches => Top.tasks = << >>

Nesting ==
  /\ phase = "scan" => Len(stack) <= MaxUnpackDepth
  /\ phase # "scan" => Len(stack) >= 1
  /\ phase = "over" => Len(stack) = 1
  /\ Len(stack) <= MaxUnpackDepth + 1

Errors == err => phase \in {"return", "over"} /\ (cancelled \/ Top.listed = << >>)

Steps ==
  /\ phase \in Idle \cup {"summary"} => step = "check"
  /\ phase = "lone" => step \in {"go", "busy"} /\ Len(Top.natives) = 1
  /\ phase = "ready" => step # "check"
  /\ step # "check" => phase = "lone" \/ Pending # << >>

IInv == TypeOK /\ Books /\ Nesting /\ DoneOnce /\ Errors /\ Steps

-----------------------------------------------------------------------------
(* Queues *)

LEMMA InAppend ==
  ASSUME NEW queue \in Seq(Files), NEW x \in Files
  PROVE  /\ Append(queue, x) \in Seq(Files)
         /\ Size(Append(queue, x)) = Size(queue) + 1
         /\ In(x, Append(queue, x))
         /\ \A y : In(y, queue) => In(y, Append(queue, x))
<1> DEFINE longer == Append(queue, x)
<1>1. longer \in Seq(Files) /\ Len(longer) = Len(queue) + 1
  OBVIOUS
<1>2. \A i \in DOMAIN queue : i \in DOMAIN longer /\ longer[i] = queue[i]
  OBVIOUS
<1>3. Len(longer) \in DOMAIN longer /\ longer[Len(longer)] = x
  OBVIOUS
<1>4. QED
  BY <1>1, <1>2, <1>3 DEF In, Size

LEMMA InTail ==
  ASSUME NEW queue \in Seq(Files), queue # << >>
  PROVE  /\ Head(queue) \in Files
         /\ Tail(queue) \in Seq(Files)
         /\ Size(Tail(queue)) = Size(queue) - 1
         /\ \A y : In(y, queue) => y = Head(queue) \/ In(y, Tail(queue))
<1>1. /\ Head(queue) \in Files /\ Head(queue) = queue[1]
      /\ Tail(queue) \in Seq(Files) /\ Len(Tail(queue)) = Len(queue) - 1
  OBVIOUS
<1>2. \A i \in DOMAIN queue \ {1} :
        i - 1 \in DOMAIN Tail(queue) /\ Tail(queue)[i - 1] = queue[i]
  OBVIOUS
<1>3. QED
  BY <1>1, <1>2 DEF In, Size

LEMMA InEmpty == Size(<< >>) = 0 /\ \A x : ~In(x, << >>)
  BY DEF In, Size

-----------------------------------------------------------------------------
(* Frames *)

Verdicts == {"skipped", "failed", "ok"}

\* A new call has all its files to look at.
LEMMA FrameBooks ==
  ASSUME NEW listing \in Seq(Kinds)
  PROVE  /\ Frame(listing) \in Frames
         /\ Accounted(Frame(listing), << >>)
         /\ Frame(listing).natives = << >> /\ Frame(listing).listed = listing
<1> DEFINE order == [i \in DOMAIN listing |-> i]
<1>1. DOMAIN listing = 1 .. Len(listing) /\ Len(listing) \in Nat
  OBVIOUS
<1>2. order \in Seq(Files) /\ Len(order) = Len(listing)
  BY <1>1 DEF Files
<1>3. \A x \in DOMAIN listing : In(x, order)
  BY DEF In
<1>4. << >> \in Seq(Files) /\ << >> \in Seq([file : Files, verdict : Verdicts]) /\ Len(<< >>) = 0
  OBVIOUS
<1>5. Frame(listing) \in Frames
  BY <1>2, <1>4 DEF Frame, Frames, Verdicts
<1>6. QED
  <2>1. Size(Frame(listing).results) + Size(Frame(listing).todo) + Size(Frame(listing).tasks)
          + Size(<< >>) = Size(Frame(listing).listed)
    BY <1>1, <1>2, <1>4 DEF Frame, Size
  <2>2. QED
    BY <1>3, <1>5, <2>1 DEF Frame, Accounted

Verdict == [file : Files, verdict : Verdicts]

\* A result added to the others judges its file and un-judges none.
LEMMA ResultAdded ==
  ASSUME NEW results \in Seq(Verdict), NEW file \in Files, NEW verdict \in Verdicts
  PROVE  /\ Append(results, Result(file, verdict)) \in Seq(Verdict)
         /\ Size(Append(results, Result(file, verdict))) = Size(results) + 1
         /\ Judged(Append(results, Result(file, verdict)), file)
         /\ \A x : Judged(results, x) => Judged(Append(results, Result(file, verdict)), x)
<1> DEFINE r == Result(file, verdict)
           longer == Append(results, r)
<1>1. r \in Verdict /\ r.file = file
  BY DEF Result, Verdict
<1> HIDE DEF r
<1>2. longer \in Seq(Verdict) /\ Len(longer) = Len(results) + 1
  BY <1>1
<1>3. \A i \in DOMAIN results : i \in DOMAIN longer /\ longer[i] = results[i]
  BY <1>1
<1>4. Len(longer) \in DOMAIN longer /\ longer[Len(longer)] = r
  BY <1>1
<1>5. QED
  BY <1>1, <1>2, <1>3, <1>4 DEF Judged, Size, r

\* The types of a frame's queues.
LEMMA FrameTypes ==
  ASSUME NEW f \in Frames
  PROVE  /\ f.results \in Seq(Verdict) /\ Size(f.results) \in Nat
         /\ f.todo \in Seq(Files) /\ Size(f.todo) \in Nat
         /\ f.tasks \in Seq(Files) /\ Size(f.tasks) \in Nat
         /\ f.natives \in Seq(Files) /\ Size(f.natives) \in Nat
         /\ f.batch \in Seq(Files) /\ Size(f.batch) \in Nat
         /\ Size(f.listed) \in Nat
  BY DEF Frames, Verdict, Verdicts, Size

\* Pass 1 moves the first file to look at to a result or to the tasks.
LEMMA AnalysedBooks ==
  ASSUME NEW f \in Frames, f.todo # << >>, Accounted(f, f.natives),
         NEW readable \in BOOLEAN,
         NEW g, g = Analysed(f, Head(f.todo), readable)
  PROVE  g \in Frames /\ Accounted(g, g.natives)
<1> DEFINE file == Head(f.todo)
<1>1. /\ file \in Files /\ Tail(f.todo) \in Seq(Files)
      /\ Size(Tail(f.todo)) = Size(f.todo) - 1
      /\ \A x : In(x, f.todo) => x = file \/ In(x, Tail(f.todo))
  BY InTail, FrameTypes
<1>2. ASSUME NEW verdict \in Verdicts,
             g = AddResult([f EXCEPT !.todo = Tail(@)], file, verdict)
      PROVE  g \in Frames /\ Accounted(g, g.natives)
  <2>1. /\ g.results = Append(f.results, Result(file, verdict))
        /\ g.todo = Tail(f.todo) /\ g.tasks = f.tasks
        /\ g.natives = f.natives /\ g.listed = f.listed
    BY <1>2 DEF AddResult, Frames
  <2>2. /\ g.results \in Seq(Verdict)
        /\ Size(g.results) = Size(f.results) + 1
        /\ Judged(g.results, file)
        /\ \A x : Judged(f.results, x) => Judged(g.results, x)
    <3>1. f.results \in Seq(Verdict)
      BY FrameTypes
    <3>2. LET longer == Append(f.results, Result(file, verdict))
          IN  /\ longer \in Seq(Verdict) /\ Size(longer) = Size(f.results) + 1
              /\ Judged(longer, file)
              /\ \A x : Judged(f.results, x) => Judged(longer, x)
      BY <1>1, <3>1, ResultAdded
    <3>3. QED
      BY <2>1, <3>2
  <2>3. g \in Frames
    BY <1>1, <1>2, <2>1, <2>2 DEF AddResult, Frames, Verdict, Verdicts
  <2>4. Accounted(g, g.natives)
    <3>1. Size(g.results) + Size(g.todo) + Size(g.tasks) + Size(g.natives) = Size(g.listed)
      BY <1>1, <2>1, <2>2, FrameTypes DEF Accounted
    <3>2. \A x \in DOMAIN g.listed :
          Judged(g.results, x) \/ In(x, g.todo) \/ In(x, g.tasks) \/ In(x, g.natives)
      BY <1>1, <2>1, <2>2 DEF Accounted
    <3>3. QED
      BY <3>1, <3>2 DEF Accounted
  <2>5. QED
    BY <2>3, <2>4
<1>3. ASSUME g = [[f EXCEPT !.todo = Tail(@)] EXCEPT !.tasks = Append(@, file)]
      PROVE  g \in Frames /\ Accounted(g, g.natives)
  <2>1. /\ g.results = f.results /\ g.todo = Tail(f.todo) /\ g.tasks = Append(f.tasks, file)
        /\ g.natives = f.natives /\ g.listed = f.listed
    BY <1>3 DEF Frames
  <2>2. /\ g.tasks \in Seq(Files) /\ Size(g.tasks) = Size(f.tasks) + 1
        /\ In(file, g.tasks) /\ \A x : In(x, f.tasks) => In(x, g.tasks)
    BY <1>1, <2>1, InAppend, FrameTypes
  <2>3. g \in Frames
    BY <1>1, <1>3, <2>1, <2>2 DEF Frames
  <2>4. Accounted(g, g.natives)
    <3>1. Size(g.results) + Size(g.todo) + Size(g.tasks) + Size(g.natives) = Size(g.listed)
      BY <1>1, <2>1, <2>2, FrameTypes DEF Accounted
    <3>2. \A x \in DOMAIN g.listed :
          Judged(g.results, x) \/ In(x, g.todo) \/ In(x, g.tasks) \/ In(x, g.natives)
      BY <1>1, <2>1, <2>2 DEF Accounted, Judged
    <3>3. QED
      BY <3>1, <3>2 DEF Accounted
  <2>5. QED
    BY <2>3, <2>4
<1>4. QED
  BY <1>2, <1>3 DEF Analysed, Verdicts

\* A task that failed to prepare, or was executed, becomes a result.
LEMMA TaskJudged ==
  ASSUME NEW f \in Frames, f.tasks # << >>, Accounted(f, f.natives),
         NEW verdict \in {"failed", "ok"},
         NEW g, g = [AddResult(f, Head(f.tasks), verdict) EXCEPT !.tasks = Tail(@)]
  PROVE  g \in Frames /\ Accounted(g, g.natives) /\ g.todo = f.todo
<1> DEFINE file == Head(f.tasks)
<1>1. /\ file \in Files /\ Tail(f.tasks) \in Seq(Files)
      /\ Size(Tail(f.tasks)) = Size(f.tasks) - 1
      /\ \A x : In(x, f.tasks) => x = file \/ In(x, Tail(f.tasks))
  BY InTail, FrameTypes
<1>2. /\ g.results = Append(f.results, Result(file, verdict))
      /\ g.todo = f.todo /\ g.tasks = Tail(f.tasks)
      /\ g.natives = f.natives /\ g.listed = f.listed
  BY DEF AddResult, Frames
<1>3. /\ g.results \in Seq(Verdict)
      /\ Size(g.results) = Size(f.results) + 1
      /\ Judged(g.results, file)
      /\ \A x : Judged(f.results, x) => Judged(g.results, x)
  <2>1. verdict \in Verdicts /\ f.results \in Seq(Verdict)
    BY FrameTypes DEF Verdicts
  <2>2. LET longer == Append(f.results, Result(file, verdict))
        IN  /\ longer \in Seq(Verdict) /\ Size(longer) = Size(f.results) + 1
            /\ Judged(longer, file)
            /\ \A x : Judged(f.results, x) => Judged(longer, x)
    BY <1>1, <2>1, ResultAdded
  <2>3. QED
    BY <1>2, <2>2
<1>4. g \in Frames
  BY <1>1, <1>2, <1>3 DEF AddResult, Frames, Verdict, Verdicts
<1>5. Accounted(g, g.natives)
  <2>1. Size(g.results) + Size(g.todo) + Size(g.tasks) + Size(g.natives) = Size(g.listed)
    BY <1>1, <1>2, <1>3, FrameTypes DEF Accounted
  <2>2. \A x \in DOMAIN g.listed :
        Judged(g.results, x) \/ In(x, g.todo) \/ In(x, g.tasks) \/ In(x, g.natives)
    BY <1>1, <1>2, <1>3 DEF Accounted
  <2>3. QED
    BY <2>1, <2>2 DEF Accounted
<1>6. QED
  BY <1>2, <1>4, <1>5

\* A native task joins the native files.
LEMMA TaskQueued ==
  ASSUME NEW f \in Frames, f.tasks # << >>, Accounted(f, f.natives),
         NEW g, g = [f EXCEPT !.natives = Append(@, Head(f.tasks)), !.tasks = Tail(@)]
  PROVE  g \in Frames /\ Accounted(g, g.natives) /\ g.todo = f.todo
<1> DEFINE file == Head(f.tasks)
<1>1. /\ file \in Files /\ Tail(f.tasks) \in Seq(Files)
      /\ Size(Tail(f.tasks)) = Size(f.tasks) - 1
      /\ \A x : In(x, f.tasks) => x = file \/ In(x, Tail(f.tasks))
  BY InTail, FrameTypes
<1>2. /\ g.results = f.results /\ g.todo = f.todo /\ g.tasks = Tail(f.tasks)
      /\ g.natives = Append(f.natives, file) /\ g.listed = f.listed
  BY DEF Frames
<1>3. /\ g.natives \in Seq(Files) /\ Size(g.natives) = Size(f.natives) + 1
      /\ In(file, g.natives) /\ \A x : In(x, f.natives) => In(x, g.natives)
  BY <1>1, <1>2, InAppend, FrameTypes
<1>4. g \in Frames
  BY <1>1, <1>2, <1>3 DEF Frames
<1>5. Accounted(g, g.natives)
  <2>1. Size(g.results) + Size(g.todo) + Size(g.tasks) + Size(g.natives) = Size(g.listed)
    BY <1>1, <1>2, <1>3, FrameTypes DEF Accounted
  <2>2. \A x \in DOMAIN g.listed :
        Judged(g.results, x) \/ In(x, g.todo) \/ In(x, g.tasks) \/ In(x, g.natives)
    BY <1>1, <1>2, <1>3 DEF Accounted, Judged
  <2>3. QED
    BY <2>1, <2>2 DEF Accounted
<1>6. QED
  BY <1>2, <1>4, <1>5

\* In the last phase of the batch a native file becomes a result.
LEMMA BatchJudged ==
  ASSUME NEW f \in Frames, f.batch # << >>, Accounted(f, f.batch),
         NEW verdict \in {"failed", "ok"},
         NEW g, g = [AddResult(f, Head(f.batch), verdict) EXCEPT !.batch = Tail(@)]
  PROVE  g \in Frames /\ Accounted(g, g.batch) /\ g.todo = f.todo /\ g.tasks = f.tasks
<1> DEFINE file == Head(f.batch)
<1>1. /\ file \in Files /\ Tail(f.batch) \in Seq(Files)
      /\ Size(Tail(f.batch)) = Size(f.batch) - 1
      /\ \A x : In(x, f.batch) => x = file \/ In(x, Tail(f.batch))
  BY InTail, FrameTypes
<1>2. /\ g.results = Append(f.results, Result(file, verdict))
      /\ g.todo = f.todo /\ g.tasks = f.tasks
      /\ g.batch = Tail(f.batch) /\ g.listed = f.listed
  BY DEF AddResult, Frames
<1>3. /\ g.results \in Seq(Verdict)
      /\ Size(g.results) = Size(f.results) + 1
      /\ Judged(g.results, file)
      /\ \A x : Judged(f.results, x) => Judged(g.results, x)
  <2>1. verdict \in Verdicts /\ f.results \in Seq(Verdict)
    BY FrameTypes DEF Verdicts
  <2>2. LET longer == Append(f.results, Result(file, verdict))
        IN  /\ longer \in Seq(Verdict) /\ Size(longer) = Size(f.results) + 1
            /\ Judged(longer, file)
            /\ \A x : Judged(f.results, x) => Judged(longer, x)
    BY <1>1, <2>1, ResultAdded
  <2>3. QED
    BY <1>2, <2>2
<1>4. g \in Frames
  BY <1>1, <1>2, <1>3 DEF AddResult, Frames, Verdict, Verdicts
<1>5. Accounted(g, g.batch)
  <2>1. Size(g.results) + Size(g.todo) + Size(g.tasks) + Size(g.batch) = Size(g.listed)
    BY <1>1, <1>2, <1>3, FrameTypes DEF Accounted
  <2>2. \A x \in DOMAIN g.listed :
        Judged(g.results, x) \/ In(x, g.todo) \/ In(x, g.tasks) \/ In(x, g.batch)
    BY <1>1, <1>2, <1>3 DEF Accounted
  <2>3. QED
    BY <2>1, <2>2 DEF Accounted
<1>6. QED
  BY <1>2, <1>4, <1>5

\* The native file that is alone becomes a result.
LEMMA LoneJudged ==
  ASSUME NEW f \in Frames, Len(f.natives) = 1, Accounted(f, f.natives),
         NEW verdict \in {"failed", "ok"},
         NEW g, g = AddResult(f, Head(f.natives), verdict)
  PROVE  g \in Frames /\ Accounted(g, << >>) /\ g.todo = f.todo /\ g.tasks = f.tasks
<1> DEFINE file == Head(f.natives)
<1>1. f.natives # << >> /\ f.natives \in Seq(Files) /\ Size(f.natives) = 1
  BY DEF Frames, Size
<1>2. /\ file \in Files /\ \A x : In(x, f.natives) => x = file
  BY <1>1 DEF In
<1>3. /\ g.results = Append(f.results, Result(file, verdict))
      /\ g.todo = f.todo /\ g.tasks = f.tasks /\ g.listed = f.listed
  BY DEF AddResult, Frames
<1>4. /\ g.results \in Seq(Verdict)
      /\ Size(g.results) = Size(f.results) + 1
      /\ Judged(g.results, file)
      /\ \A x : Judged(f.results, x) => Judged(g.results, x)
  <2>1. verdict \in Verdicts /\ f.results \in Seq(Verdict)
    BY FrameTypes DEF Verdicts
  <2>2. LET longer == Append(f.results, Result(file, verdict))
        IN  /\ longer \in Seq(Verdict) /\ Size(longer) = Size(f.results) + 1
            /\ Judged(longer, file)
            /\ \A x : Judged(f.results, x) => Judged(longer, x)
    BY <1>2, <2>1, ResultAdded
  <2>3. QED
    BY <1>3, <2>2
<1>5. g \in Frames
  BY <1>3, <1>4 DEF AddResult, Frames, Verdict, Verdicts
<1>6. Accounted(g, << >>)
  <2>1. Size(g.results) + Size(g.todo) + Size(g.tasks) + Size(<< >>) = Size(g.listed)
    BY <1>1, <1>3, <1>4, InEmpty, FrameTypes DEF Accounted
  <2>2. \A x \in DOMAIN g.listed :
        Judged(g.results, x) \/ In(x, g.todo) \/ In(x, g.tasks) \/ In(x, << >>)
    BY <1>2, <1>3, <1>4, InEmpty DEF Accounted
  <2>3. QED
    BY <2>1, <2>2 DEF Accounted
<1>7. QED
  BY <1>3, <1>5, <1>6

-----------------------------------------------------------------------------
(* Steps that leave the calls as they are *)

LEMMA PreludeKeeps ==
  ASSUME IInv, Check \/ TakeGate \/ PassGate \/ Begin \/ Pause \/ Resume \/ Stop
  PROVE  IInv'
<1>1. stack' = stack /\ phase' = phase /\ err' = err /\ dones' = dones
  BY DEF Check, TakeGate, PassGate, Begin, Pause, Resume, Stop, callVars
<1>2. Top' = Top /\ Pending' = Pending /\ Rest' = Rest
  BY <1>1 DEF Top, Pending, Rest
<1>3. TypeOK'
  <2>1. CASE Check \/ TakeGate \/ PassGate
    BY <1>1, <2>1 DEF IInv, TypeOK, Check, TakeGate, PassGate, HeldBy, ctlVars, histVars
  <2>2. CASE Begin
    BY <1>1, <2>2 DEF IInv, TypeOK, Begin, ctlVars
  <2>3. CASE Pause
    <3>1. busyPause' \in BOOLEAN
      BY <2>3 DEF Pause
    <3>2. QED
      BY <1>1, <2>3, <3>1 DEF IInv, TypeOK, Pause, callVars
  <2>4. CASE Resume \/ Stop
    BY <1>1, <2>4 DEF IInv, TypeOK, Resume, Stop, HeldAfterResume, callVars
  <2>5. QED
    BY <2>1, <2>2, <2>3, <2>4
<1>4. Books' /\ Nesting' /\ DoneOnce'
  BY <1>1, <1>2 DEF IInv, Books, Nesting, DoneOnce
<1>5. Errors'
  BY <1>1, <1>2 DEF IInv, TypeOK, Errors, Check, TakeGate, PassGate, Begin, Pause, Resume, Stop,
              ctlVars, callVars
<1>6. Steps'
  BY <1>1, <1>2 DEF IInv, TypeOK, Steps, Loops, Idle, Check, TakeGate, PassGate, Begin,
              Pause, Resume, Stop, callVars
<1>7. QED
  BY <1>3, <1>4, <1>5, <1>6 DEF IInv

\* The early returns and the end of the outermost call.
LEMMA LeavingKeeps ==
  ASSUME IInv, Stopped \/ LeaveGate \/ Summarise \/ ReturnOuter
  PROVE  IInv'
<1>1. stack' = stack /\ Top' = Top /\ phase' \in {"return", "over"} /\ step' = "check"
  BY DEF Stopped, LeaveGate, Summarise, ReturnOuter, Top, IInv, Steps, Idle
<1>2. TypeOK'
  <2>1. CASE Stopped \/ LeaveGate \/ Summarise
    BY <1>1, <2>1 DEF IInv, TypeOK, Stopped, LeaveGate, Summarise, ctlVars, histVars
  <2>2. CASE ReturnOuter
    BY <1>1, <2>2 DEF IInv, TypeOK, ReturnOuter, ctlVars, histVars
  <2>3. QED
    BY <2>1, <2>2
<1>3. Books'
  BY <1>1 DEF IInv, Books, Idle, Batches
<1>4. Nesting'
  BY <1>1 DEF IInv, TypeOK, Nesting, Loops, Stopped, LeaveGate, Summarise, ReturnOuter, Steps, Idle
<1>5. DoneOnce'
  BY <1>1 DEF IInv, TypeOK, DoneOnce, Loops, Stopped, LeaveGate, Summarise, ReturnOuter, SendsDone,
              Depth, Steps, Idle
<1>6. Errors'
  BY <1>1 DEF IInv, Errors, Loops, Stopped, LeaveGate, Summarise, ReturnOuter, CtxDone, ctlVars
<1>7. Steps'
  BY <1>1 DEF Steps, Idle
<1>8. QED
  BY <1>2, <1>3, <1>4, <1>5, <1>6, <1>7 DEF IInv

\* A task whose runtimes and tools are there is looked at again at the gate.
LEMMA PreparedKeeps ==
  ASSUME IInv, Prepared
  PROVE  IInv'
<1>1. /\ stack' = stack /\ Top' = Top
      /\ phase = "task" /\ phase' = "ready" /\ step = "go" /\ step' = "gate"
  BY DEF Prepared, Top
<1>2. Pending' = Pending /\ Rest' = Rest
  BY <1>1 DEF Pending, Rest
<1>3. TypeOK' /\ Nesting' /\ DoneOnce' /\ Errors'
  BY <1>1 DEF IInv, TypeOK, Nesting, DoneOnce, Errors, Prepared, ctlVars, histVars
<1>4. Books'
  BY <1>1, <1>2 DEF IInv, Books, Idle, Batches
<1>5. Steps'
  BY <1>1, <1>2 DEF IInv, Steps, Idle
<1>6. QED
  BY <1>3, <1>4, <1>5 DEF IInv

-----------------------------------------------------------------------------
(* Steps that change the innermost call *)

LEMMA TopSwapped ==
  ASSUME stack \in Seq(Frames), Len(stack) >= 1, NEW g \in Frames, SetTop(g)
  PROVE  /\ stack' \in Seq(Frames) /\ Len(stack') = Len(stack)
         /\ Top' = g
         /\ \A i \in 1 .. Len(stack) - 1 : stack'[i] = stack[i]
  BY DEF SetTop, Top

LEMMA TopIsFrame ==
  ASSUME stack \in Seq(Frames), Len(stack) >= 1
  PROVE  Top \in Frames
  BY DEF Top

LEMMA AnalyseKeeps ==
  ASSUME IInv, Analyse
  PROVE  IInv'
<1>1. phase = "analyse" /\ phase' = "analyse" /\ step = "go" /\ step' = "check"
  BY DEF Analyse
<1>2. Top \in Frames /\ Len(stack) >= 1 /\ Top.todo # << >> /\ Accounted(Top, Top.natives)
  BY <1>1, TopIsFrame DEF IInv, TypeOK, Nesting, Steps, Pending, Books, Idle, Rest
<1>3. PICK readable \in BOOLEAN : SetTop(Analysed(Top, Head(Top.todo), readable))
  BY DEF Analyse
<1>4. PICK g : g = Analysed(Top, Head(Top.todo), readable)
  OBVIOUS
<1>5. g \in Frames /\ Accounted(g, g.natives) /\ SetTop(g)
  BY <1>2, <1>3, <1>4, AnalysedBooks
<1>6. /\ stack' \in Seq(Frames) /\ Len(stack') = Len(stack) /\ Top' = g
      /\ \A i \in 1 .. Len(stack) - 1 : stack'[i] = stack[i]
  BY <1>2, <1>5, TopSwapped DEF IInv, TypeOK
<1>7. TypeOK' /\ Nesting' /\ DoneOnce' /\ Errors'
  BY <1>1, <1>6 DEF IInv, TypeOK, Nesting, DoneOnce, Errors, Analyse, ctlVars, histVars
<1>8. Books'
  BY <1>1, <1>5, <1>6 DEF IInv, Books, Idle, Batches, Rest
<1>9. Steps'
  BY <1>1 DEF Steps, Idle
<1>10. QED
  BY <1>7, <1>8, <1>9 DEF IInv

\* Whatever becomes of the first task, the call goes on with the next one, or
\* with a nested call if the depth cap allows.
LEMMA TaskEnds ==
  ASSUME IInv, phase \in {"task", "ready"}, step # "check",
         NEW g \in Frames, SetTop(g), Accounted(g, g.natives), g.todo = Top.todo,
         phase' = "task" \/ (phase' = "scan" /\ Len(stack) <= MaxUnpackDepth),
         step' = "check", err' = err, dones' = dones,
         UNCHANGED <<ctlVars, histVars>>
  PROVE  IInv'
<1>1. Len(stack) >= 1
  BY DEF IInv, Nesting
<1>2. /\ stack' \in Seq(Frames) /\ Len(stack') = Len(stack) /\ Top' = g
      /\ \A i \in 1 .. Len(stack) - 1 : stack'[i] = stack[i]
  BY <1>1, TopSwapped DEF IInv, TypeOK
<1>3. TypeOK' /\ Nesting' /\ DoneOnce' /\ Errors'
  BY <1>2 DEF IInv, TypeOK, Loops, Nesting, DoneOnce, Errors, ctlVars, histVars
<1>4. Waiting(g)
  BY DEF IInv, Books, Waiting, Idle
<1>5. \A i \in 1 .. Len(stack') : Waiting(stack'[i])
  <2>1. stack'[Len(stack')] = g
    BY <1>2 DEF Top
  <2>2. \A i \in 1 .. Len(stack) - 1 : Waiting(stack'[i])
    BY <1>2 DEF IInv, Books
  <2>3. QED
    BY <1>1, <1>2, <1>4, <2>1, <2>2 DEF IInv, TypeOK
<1>6. Books'
  BY <1>2, <1>4, <1>5 DEF IInv, TypeOK, Books, Idle, Batches, Rest, Waiting
<1>7. Steps'
  BY DEF Steps, Idle
<1>8. QED
  BY <1>3, <1>6, <1>7 DEF IInv

LEMMA TaskKeeps ==
  ASSUME IInv, PrepareFails \/ QueueNative \/ EndReady
  PROVE  IInv'
<1>1. phase \in {"task", "ready"} /\ step # "check" /\ step' = "check"
  BY DEF PrepareFails, QueueNative, EndReady
<1>2. Top \in Frames /\ Top.tasks # << >> /\ Accounted(Top, Top.natives)
  BY <1>1, TopIsFrame DEF IInv, TypeOK, Nesting, Steps, Pending, Books, Idle, Rest
<1>3. CASE PrepareFails
  <2>1. PICK g : g = [AddResult(Top, Head(Top.tasks), "failed") EXCEPT !.tasks = Tail(@)]
    OBVIOUS
  <2>2. g \in Frames /\ Accounted(g, g.natives) /\ g.todo = Top.todo
    BY <1>2, <2>1, TaskJudged
  <2>3. SetTop(g) /\ phase' = "task" /\ UNCHANGED <<err, dones, ctlVars, histVars>>
    BY <1>3, <2>1 DEF PrepareFails
  <2>4. QED
    BY <1>1, <2>2, <2>3, TaskEnds
<1>4. CASE QueueNative
  <2>1. PICK g : g = [Top EXCEPT !.natives = Append(@, Head(Top.tasks)), !.tasks = Tail(@)]
    OBVIOUS
  <2>2. g \in Frames /\ Accounted(g, g.natives) /\ g.todo = Top.todo
    BY <1>2, <2>1, TaskQueued
  <2>3. SetTop(g) /\ phase' = "task" /\ UNCHANGED <<err, dones, ctlVars, histVars>>
    BY <1>4, <2>1 DEF QueueNative
  <2>4. QED
    BY <1>1, <2>2, <2>3, TaskEnds
<1>5. CASE EndReady
  <2>1. PICK verdict \in {"ok", "failed"} :
          /\ SetTop([AddResult(Top, Head(Top.tasks), verdict) EXCEPT !.tasks = Tail(@)])
          /\ phase' = "task" \/ (phase' = "scan" /\ CanRecurse)
    BY <1>5 DEF EndReady
  <2>2. PICK g : g = [AddResult(Top, Head(Top.tasks), verdict) EXCEPT !.tasks = Tail(@)]
    OBVIOUS
  <2>3. g \in Frames /\ Accounted(g, g.natives) /\ g.todo = Top.todo
    BY <1>2, <2>2, TaskJudged
  <2>4. CanRecurse => Len(stack) <= MaxUnpackDepth
    BY ListingsAssumption DEF CanRecurse, Depth, IInv, TypeOK
  <2>5. SetTop(g) /\ UNCHANGED <<err, dones, ctlVars, histVars>>
    BY <1>5, <2>1, <2>2 DEF EndReady
  <2>6. QED
    BY <1>1, <2>1, <2>3, <2>4, <2>5, TaskEnds
<1>6. QED
  BY <1>3, <1>4, <1>5

\* The batch: the result of the first phase is dropped, the second one's is
\* added; a native file that is alone has one phase.
LEMMA BatchEnds ==
  ASSUME IInv, phase \in Batches, step' = "check",
         NEW g \in Frames, SetTop(g), g.todo = Top.todo, g.tasks = Top.tasks,
         \/ phase = "strings" /\ phase' = "strings" /\ Accounted(g, g.natives)
         \/ phase = "ghidra" /\ phase' = "ghidra" /\ Accounted(g, g.batch)
         \/ phase = "lone" /\ phase' = "summary" /\ Accounted(g, << >>),
         UNCHANGED <<err, dones, ctlVars, histVars>>
  PROVE  IInv'
<1>1. Len(stack) >= 1
  BY DEF IInv, Nesting, Batches
<1>2. /\ stack' \in Seq(Frames) /\ Len(stack') = Len(stack) /\ Top' = g
      /\ \A i \in 1 .. Len(stack) - 1 : stack'[i] = stack[i]
  BY <1>1, TopSwapped DEF IInv, TypeOK
<1>3. TypeOK' /\ Nesting' /\ DoneOnce' /\ Errors'
  BY <1>2 DEF IInv, TypeOK, Loops, Nesting, DoneOnce, Errors, Batches, ctlVars, histVars
<1>4. Books'
  BY <1>2 DEF IInv, Books, Idle, Batches, Rest
<1>5. Steps'
  BY DEF Steps, Idle
<1>6. QED
  BY <1>3, <1>4, <1>5 DEF IInv

LEMMA BatchKeeps ==
  ASSUME IInv, EndStrings \/ EndGhidra \/ EndLone
  PROVE  IInv'
<1>1. phase \in {"strings", "ghidra", "lone"} /\ step = "busy" /\ step' = "check"
  BY DEF EndStrings, EndGhidra, EndLone
<1>2. Top \in Frames /\ Accounted(Top, Rest)
  BY <1>1, TopIsFrame DEF IInv, TypeOK, Nesting, Books, Idle
<1>3. CASE EndStrings
  <2>1. phase = "strings" /\ Top.batch # << >>
    BY <1>3 DEF EndStrings, IInv, Steps, Pending
  <2>2. PICK g : g = [Top EXCEPT !.batch = Tail(@)]
    OBVIOUS
  <2>3. Tail(Top.batch) \in Seq(Files)
    BY <1>2, <2>1 DEF Frames
  <2>4. /\ g \in Frames /\ g.todo = Top.todo /\ g.tasks = Top.tasks
        /\ g.results = Top.results /\ g.natives = Top.natives /\ g.listed = Top.listed
    BY <1>2, <2>2, <2>3 DEF Frames
  <2>5. Accounted(g, g.natives)
    BY <1>2, <2>1, <2>4 DEF Accounted, Judged, Rest
  <2>6. SetTop(g) /\ phase' = phase /\ UNCHANGED <<err, dones, ctlVars, histVars>>
    BY <1>3, <2>2 DEF EndStrings, AfterStrings
  <2>7. QED
    BY <1>1, <2>1, <2>4, <2>5, <2>6, BatchEnds DEF Batches
<1>4. CASE EndGhidra
  <2>1. phase = "ghidra" /\ Top.batch # << >>
    BY <1>4 DEF EndGhidra, IInv, Steps, Pending
  <2>2. PICK verdict \in {"ok", "failed"} :
          SetTop([AddResult(Top, Head(Top.batch), verdict) EXCEPT !.batch = Tail(@)])
    BY <1>4 DEF EndGhidra
  <2>3. PICK g : g = [AddResult(Top, Head(Top.batch), verdict) EXCEPT !.batch = Tail(@)]
    OBVIOUS
  <2>4. Accounted(Top, Top.batch)
    BY <1>2, <2>1 DEF Rest
  <2>5. g \in Frames /\ Accounted(g, g.batch) /\ g.todo = Top.todo /\ g.tasks = Top.tasks
    BY <1>2, <2>1, <2>3, <2>4, BatchJudged
  <2>6. SetTop(g) /\ phase' = phase /\ UNCHANGED <<err, dones, ctlVars, histVars>>
    BY <1>4, <2>2, <2>3 DEF EndGhidra
  <2>7. QED
    BY <1>1, <2>1, <2>5, <2>6, BatchEnds DEF Batches
<1>5. CASE EndLone
  <2>1. phase = "lone" /\ Len(Top.natives) = 1
    BY <1>5 DEF EndLone, IInv, Steps
  <2>2. PICK verdict \in {"ok", "failed"} :
          SetTop(AddResult(Top, Head(Top.natives), verdict))
    BY <1>5 DEF EndLone
  <2>3. PICK g : g = AddResult(Top, Head(Top.natives), verdict)
    OBVIOUS
  <2>4. Accounted(Top, Top.natives)
    BY <1>2, <2>1 DEF Rest
  <2>5. g \in Frames /\ Accounted(g, << >>) /\ g.todo = Top.todo /\ g.tasks = Top.tasks
    BY <1>2, <2>1, <2>3, <2>4, LoneJudged
  <2>6. SetTop(g) /\ phase' = "summary" /\ UNCHANGED <<err, dones, ctlVars, histVars>>
    BY <1>5, <2>2, <2>3 DEF EndLone
  <2>7. QED
    BY <1>1, <2>1, <2>5, <2>6, BatchEnds DEF Batches
<1>6. QED
  BY <1>3, <1>4, <1>5

\* Between the loops no file moves; the loop that ends has left its queue
\* empty, the next one's batch is made of the native files.
LEMMA EndLoopKeeps ==
  ASSUME IInv, EndLoop
  PROVE  IInv'
<1>1. phase \in Loops /\ step = "check" /\ Pending = << >>
  BY DEF EndLoop
<1>2. Len(stack) >= 1 /\ Top \in Frames /\ Accounted(Top, Rest)
  BY <1>1, TopIsFrame DEF IInv, TypeOK, Nesting, Books, Idle, Loops
<1>3. PICK g : g = [Top EXCEPT !.batch = Top.natives]
  OBVIOUS
<1>4. /\ g \in Frames /\ g.todo = Top.todo /\ g.tasks = Top.tasks /\ g.results = Top.results
      /\ g.natives = Top.natives /\ g.batch = Top.natives /\ g.listed = Top.listed
  BY <1>2, <1>3 DEF Frames
<1>5. \A rest : Accounted(Top, rest) => Accounted(g, rest)
  BY <1>4 DEF Accounted, Judged
<1>6. /\ stack' \in Seq(Frames) /\ Len(stack') = Len(stack) /\ Top' = g
      /\ \A i \in 1 .. Len(stack) - 1 : stack'[i] = stack[i]
  BY <1>2, <1>3, <1>4, TopSwapped DEF IInv, TypeOK, EndLoop
<1>7. /\ phase' = AfterLoop
      /\ \/ phase = "analyse" /\ phase' = "task"
         \/ phase = "task" /\ phase' = "strings"
         \/ phase = "task" /\ phase' = "lone" /\ Len(Top.natives) = 1
         \/ phase = "task" /\ phase' = "summary" /\ Top.natives = << >>
         \/ phase = "strings" /\ phase' = "ghidra"
         \/ phase = "ghidra" /\ phase' = "summary"
  <2>1. Len(Top.natives) = 0 => Top.natives = << >>
    BY <1>2 DEF Frames
  <2>2. Len(Top.natives) = 0 \/ Len(Top.natives) = 1 \/ Len(Top.natives) > 1
    <3>1. Len(Top.natives) \in Nat
      BY <1>2 DEF Frames
    <3>2. \A n \in Nat : n = 0 \/ n = 1 \/ n > 1
      OBVIOUS
    <3>3. QED
      BY <3>1, <3>2
  <2>3. CASE phase # "task"
    BY <1>1, <2>3 DEF EndLoop, AfterLoop, Loops
  <2>4. CASE phase = "task"
    BY <2>1, <2>2, <2>4 DEF EndLoop, AfterLoop
  <2>5. QED
    BY <2>3, <2>4
<1>8. step' = IF phase' = "lone" THEN "go" ELSE "check"
  BY <1>7 DEF EndLoop
<1>9. TypeOK' /\ Nesting' /\ DoneOnce' /\ Errors'
  BY <1>1, <1>6, <1>7, <1>8
  DEF IInv, TypeOK, Loops, Nesting, DoneOnce, Errors, EndLoop, ctlVars, histVars
<1>10. Books'
  <2>1. CASE phase = "analyse" \/ phase = "task" \/ phase = "strings"
    BY <1>1, <1>2, <1>4, <1>5, <1>6, <1>7, <2>1
    DEF IInv, Books, Idle, Batches, Rest, Pending
  <2>2. CASE phase = "ghidra"
    BY <1>1, <1>2, <1>4, <1>5, <1>6, <1>7, <2>2
    DEF IInv, Books, Idle, Batches, Rest, Pending
  <2>3. QED
    BY <1>7, <2>1, <2>2
<1>11. Steps'
  BY <1>4, <1>6, <1>7, <1>8 DEF Steps, Idle
<1>12. QED
  BY <1>9, <1>10, <1>11 DEF IInv

-----------------------------------------------------------------------------
(* Steps that begin or end a call *)

LEMMA CallPushed ==
  ASSUME stack \in Seq(Frames), NEW g \in Frames, stack' = Append(stack, g)
  PROVE  /\ stack' \in Seq(Frames) /\ Len(stack') = Len(stack) + 1
         /\ Top' = g
         /\ \A i \in 1 .. Len(stack) : stack'[i] = stack[i]
  BY DEF Top

\* The caller, if there is one, waits with its balance.
LEMMA ScanKeeps ==
  ASSUME IInv, ScanFinds \/ ScanFails
  PROVE  IInv'
<1>1. phase = "scan" /\ step' = "check" /\ dones' = dones
  BY DEF ScanFinds, ScanFails, IInv, Steps, Idle
<1>2. PICK listing \in Seq(Kinds) :
        /\ stack' = Append(stack, Frame(listing))
        /\ \/ phase' = "analyse" /\ err' = err
           \/ phase' = "return" /\ err' = TRUE /\ listing = << >>
  <2>1. CASE ScanFinds
    BY <2>1, ListingsAssumption DEF ScanFinds, Listings
  <2>2. CASE ScanFails
    <3>1. << >> \in Seq(Kinds)
      OBVIOUS
    <3>2. QED
      BY <2>2, <3>1 DEF ScanFails
  <2>3. QED
    BY <2>1, <2>2
<1>3. PICK g : g = Frame(listing)
  OBVIOUS
<1>4. /\ g \in Frames /\ Accounted(g, << >>)
      /\ g.natives = << >> /\ g.listed = listing
  BY <1>3, FrameBooks
<1>5. /\ stack' \in Seq(Frames) /\ Len(stack') = Len(stack) + 1 /\ Top' = g
      /\ \A i \in 1 .. Len(stack) : stack'[i] = stack[i]
  BY <1>2, <1>3, <1>4, CallPushed DEF IInv, TypeOK
<1>6. Len(stack) \in Nat /\ Len(stack) <= MaxUnpackDepth
  BY <1>1 DEF IInv, TypeOK, Nesting
<1>7. TypeOK'
  BY <1>1, <1>2, <1>5 DEF IInv, TypeOK, Loops, ScanFinds, ScanFails, ctlVars, histVars
<1>8. Nesting' /\ DoneOnce'
  BY <1>1, <1>2, <1>5, <1>6, ListingsAssumption DEF IInv, Nesting, DoneOnce
<1>9. Errors'
  BY <1>1, <1>2, <1>4, <1>5 DEF IInv, Errors
<1>10. Books'
  <2>1. \A i \in 1 .. Len(stack') - 1 : Waiting(stack'[i])
    BY <1>1, <1>5, <1>6 DEF IInv, Books
  <2>2. QED
    BY <1>2, <1>4, <1>5, <2>1 DEF Books, Idle, Batches, Rest
<1>11. Steps'
  BY <1>1, <1>2 DEF Steps, Idle
<1>12. QED
  BY <1>7, <1>8, <1>9, <1>10, <1>11 DEF IInv

\* The caller goes on with the balance it waited with.
LEMMA ReturnNestedKeeps ==
  ASSUME IInv, ReturnNested
  PROVE  IInv'
<1>1. /\ phase = "return" /\ phase' = "task" /\ step' = "check" /\ err' = FALSE
      /\ stack' = SubSeq(stack, 1, Len(stack) - 1)
      /\ Len(stack) > 1 /\ stack \in Seq(Frames) /\ Len(stack) \in Nat
  BY DEF ReturnNested, ErrAfterNested, IInv, TypeOK
<1>2. /\ stack' \in Seq(Frames) /\ Len(stack') = Len(stack) - 1
      /\ \A i \in 1 .. Len(stack) - 1 : stack'[i] = stack[i]
  BY <1>1
<1>3. Top' = stack[Len(stack) - 1] /\ Waiting(Top')
  BY <1>1, <1>2 DEF Top, IInv, Books
<1>4. dones' = dones
  BY <1>1 DEF ReturnNested, SendsDone, Depth, IInv, TypeOK
<1>5. TypeOK' /\ DoneOnce' /\ Errors' /\ Steps'
  <2>1. TypeOK'
    BY <1>1, <1>2, <1>4 DEF IInv, TypeOK, Loops, ReturnNested, ctlVars, histVars
  <2>2. DoneOnce'
    BY <1>1, <1>4 DEF IInv, DoneOnce
  <2>3. Errors' /\ Steps'
    BY <1>1 DEF Errors, Steps, Idle
  <2>4. QED
    BY <2>1, <2>2, <2>3
<1>6. Nesting'
  <2>1. Len(stack) <= MaxUnpackDepth + 1 /\ MaxUnpackDepth \in Nat
    BY ListingsAssumption DEF IInv, Nesting
  <2>2. QED
    BY <1>1, <1>2, <2>1 DEF Nesting
<1>7. Books'
  BY <1>1, <1>2, <1>3 DEF IInv, Books, Idle, Batches, Rest, Waiting
<1>8. QED
  BY <1>5, <1>6, <1>7 DEF IInv

-----------------------------------------------------------------------------
LEMMA InitIInv == Init => IInv
<1> SUFFICES ASSUME Init
             PROVE  IInv
  OBVIOUS
<1>1. stack \in Seq(Frames) /\ Len(stack) = 0
  BY DEF Init
<1>2. TypeOK
  BY <1>1 DEF Init, TypeOK
<1>3. Books /\ Nesting /\ DoneOnce /\ Errors /\ Steps
  BY <1>1, ListingsAssumption DEF Init, Books, Nesting, DoneOnce, Errors, Steps, Idle, Batches
<1>4. QED
  BY <1>2, <1>3 DEF IInv

LEMMA Invariance == IInv /\ [Next]_vars => IInv'
<1> SUFFICES ASSUME IInv, [Next]_vars
             PROVE  IInv'
  OBVIOUS
<1>1. CASE Next
  BY <1>1, PreludeKeeps, LeavingKeeps, PreparedKeeps, AnalyseKeeps, TaskKeeps, BatchKeeps,
     EndLoopKeeps, ScanKeeps, ReturnNestedKeeps
  DEF Next, Run
<1>2. CASE UNCHANGED vars
  <2>1. Top' = Top /\ Pending' = Pending /\ Rest' = Rest
    BY <1>2 DEF vars, callVars, Top, Pending, Rest
  <2>2. QED
    BY <1>2, <2>1 DEF vars, callVars, ctlVars, histVars, IInv, TypeOK, Books, Nesting,
                      DoneOnce, Errors, Steps
<1>3. QED
  BY <1>1, <1>2

LEMMA AlwaysIInv == Spec => []IInv
  BY InitIInv, Invariance, PTL DEF Spec

-----------------------------------------------------------------------------
\* Every variable of Engine.Run and its nested calls keeps its type.
THEOREM EngineTypeOK == Spec => []TypeOK
<1>1. IInv => TypeOK
  BY DEF IInv
<1>2. QED
  BY <1>1, AlwaysIInv, PTL

\* Whatever is scanned, fails, recurses or is stopped: when a call of Run
\* comes to its summary, each file it listed has exactly one result.
THEOREM EngineAccountedOnce == Spec => []AccountedOnce
<1>1. ASSUME IInv, phase = "summary"
      PROVE  /\ Len(Top.results) = Len(Top.listed)
             /\ \A file \in DOMAIN Top.listed :
                  \E i \in DOMAIN Top.results : Top.results[i].file = file
  <2>1. Top \in Frames
    BY <1>1, TopIsFrame DEF IInv, TypeOK, Nesting
  <2>2. Top.todo = << >> /\ Top.tasks = << >> /\ Accounted(Top, << >>)
    BY <1>1 DEF IInv, Books, Idle, Batches, Rest
  <2>3. Size(Top.results) = Size(Top.listed)
    BY <2>1, <2>2, InEmpty, FrameTypes DEF Accounted
  <2>4. QED
    BY <2>2, <2>3, InEmpty DEF Accounted, Judged, Size
<1>2. IInv => AccountedOnce
  BY <1>1 DEF AccountedOnce
<1>3. QED
  BY <1>2, AlwaysIInv, PTL

\* The "done" event is sent once, at the end of the outermost call, however
\* deep installers were nested.
THEOREM EngineDoneOnce == Spec => []DoneOnce
<1>1. IInv => DoneOnce
  BY DEF IInv
<1>2. QED
  BY <1>1, AlwaysIInv, PTL

\* An installer in an installer in an installer: never more calls of Run are
\* active than the cap allows, for any cap and any unpacked trees.
THEOREM EngineNestingBounded == Spec => []NestingBounded
<1>1. IInv => NestingBounded
  BY DEF IInv, Nesting, NestingBounded
<1>2. QED
  BY <1>1, AlwaysIInv, PTL

\* The error of a recipe or of a nested call never becomes the job's error.
THEOREM EngineFailsOnlyIfStopped == Spec => []FailsOnlyIfStopped
<1>1. IInv => FailsOnlyIfStopped
  BY DEF IInv, Nesting, Errors, FailsOnlyIfStopped, Top
<1>2. QED
  BY <1>1, AlwaysIInv, PTL

-----------------------------------------------------------------------------
(* Pause and Stop *)

\* A run that was paused at an executing target comes to the closed gate
\* before it begins another, but for the native file that is left alone.
GateInv ==
  /\ busyPause => paused
  /\ busyPause => step \in {"busy", "check", "gate"} \/ (step = "wait" /\ held) \/ phase = "lone"

\* How many targets a stopped run may still begin, for any listings: the one
\* past its check, and the native file left alone in each call that returns.
AloneBegun == phase = "lone" /\ step = "busy"
Ending == phase \in {"summary", "return", "over"} \/ AloneBegun

BegunInv ==
  /\ begun > 0 => cancelled /\ (step \in {"busy", "check"} \/ phase = "lone")
  /\ phase \in {"scan", "ready"} => begun <= 1
  /\ phase # "scan" => begun + Len(stack) <= MaxUnpackDepth + (IF Ending THEN 3 ELSE 2)

-----------------------------------------------------------------------------
LEMMA GateStep ==
  ASSUME IInv, GateInv, [Next]_vars
  PROVE  GateInv'
<1>1. CASE Next
  <2>1. CASE Run
    <3>1. paused' = paused /\ busyPause' = busyPause
      BY <2>1 DEF Run, ScanFinds, ScanFails, ReturnOuter, ReturnNested, Summarise, Stopped, Check,
                  TakeGate, PassGate, LeaveGate, EndLoop, Analyse, PrepareFails, Prepared,
                  QueueNative, Begin, EndReady, EndStrings, EndGhidra, EndLone, ctlVars, histVars
    <3>2. CASE ~busyPause
      BY <3>1, <3>2 DEF GateInv
    <3>3. CASE busyPause /\ (ScanFinds \/ ReturnNested \/ Stopped \/ LeaveGate \/ Analyse \/ PrepareFails
                              \/ QueueNative \/ EndReady \/ EndStrings \/ EndGhidra \/ EndLone)
      BY <3>1, <3>3 DEF GateInv, ScanFinds, ReturnNested, Stopped, LeaveGate, Analyse, PrepareFails,
                        QueueNative, EndReady, EndStrings, EndGhidra, EndLone, IInv, Steps, Loops
    <3>4. CASE busyPause /\ (ScanFails \/ ReturnOuter \/ Summarise)
      BY <3>1, <3>4 DEF GateInv, ScanFails, ReturnOuter, Summarise, IInv, Steps, Idle
    <3>5. CASE busyPause /\ (Check \/ TakeGate \/ PassGate \/ Prepared \/ Begin)
      <4>1. CASE Check \/ TakeGate
        BY <3>1, <3>5, <4>1 DEF GateInv, Check, TakeGate, HeldBy
      <4>2. CASE PassGate \/ Begin
        BY <3>1, <3>5, <4>2 DEF GateInv, PassGate, Begin
      <4>3. CASE Prepared
        BY <3>1, <3>5, <4>3 DEF GateInv, Prepared
      <4>4. QED
        BY <3>5, <4>1, <4>2, <4>3
    <3>6. CASE busyPause /\ EndLoop
      BY <3>1, <3>6 DEF GateInv, EndLoop
    <3>7. QED
      BY <2>1, <3>2, <3>3, <3>4, <3>5, <3>6 DEF Run
  <2>2. CASE Pause
    BY <2>2 DEF GateInv, Pause, callVars
  <2>3. CASE Resume \/ Stop
    BY <2>3 DEF GateInv, Resume, Stop
  <2>4. QED
    BY <1>1, <2>1, <2>2, <2>3 DEF Next
<1>2. CASE UNCHANGED vars
  BY <1>2 DEF vars, callVars, ctlVars, histVars, GateInv
<1>3. QED
  BY <1>1, <1>2

LEMMA AlwaysGateInv == Spec => []GateInv
<1>1. Init => GateInv
  BY DEF Init, GateInv
<1>2. IInv /\ GateInv /\ [Next]_vars => GateInv'
  BY GateStep
<1>3. QED
  BY <1>1, <1>2, AlwaysIInv, PTL DEF Spec

LEMMA TopSet ==
  ASSUME stack \in Seq(Frames), stack' \in Seq(Frames), Len(stack) >= 1, NEW g, SetTop(g)
  PROVE  /\ Len(stack') = Len(stack) /\ Top' = g
         /\ \A i \in 1 .. Len(stack) - 1 : stack'[i] = stack[i]
  BY DEF SetTop, Top

LEMMA BegunStep ==
  ASSUME IInv, IInv', BegunInv, [Next]_vars
  PROVE  BegunInv'
<1>1. /\ Len(stack) \in Nat /\ Len(stack') \in Nat /\ MaxUnpackDepth \in Nat
      /\ begun \in Nat /\ begun' \in Nat
      /\ Len(stack') <= MaxUnpackDepth + 1
      /\ phase = "scan" => Len(stack) <= MaxUnpackDepth
  BY ListingsAssumption DEF IInv, TypeOK, Nesting
<1>2. ASSUME begun' = 0
      PROVE  BegunInv'
  BY <1>1, <1>2 DEF BegunInv
<1>3. ASSUME begun' = begun, cancelled' = cancelled, begun > 0, Len(stack') = Len(stack),
             Check \/ TakeGate \/ PassGate \/ Prepared \/ LeaveGate \/ Analyse \/ PrepareFails
             \/ QueueNative
      PROVE  BegunInv'
  <2>1. step \in {"busy", "check"} \/ phase = "lone"
    BY <1>3 DEF BegunInv
  <2>2. CASE Check
    BY <1>3, <2>2 DEF BegunInv, Check, CtxDone
  <2>3. CASE TakeGate \/ PassGate \/ LeaveGate
    BY <2>1, <2>3 DEF TakeGate, PassGate, LeaveGate, IInv, Steps
  <2>4. CASE Prepared \/ Analyse \/ PrepareFails \/ QueueNative
    BY <2>1, <2>4 DEF Prepared, Analyse, PrepareFails, QueueNative
  <2>5. QED
    BY <1>3, <2>2, <2>3, <2>4
<1>4. CASE Next
  <2>1. CASE Pause \/ Resume \/ Stop
    <3>1. stack' = stack /\ phase' = phase /\ step' = step /\ begun' = begun
          /\ (cancelled => cancelled')
      BY <2>1 DEF Pause, Resume, Stop, callVars
    <3>2. QED
      BY <3>1 DEF BegunInv, Ending, AloneBegun
  <2>2. CASE Begin
    <3>1. /\ stack' = stack /\ phase' = phase /\ cancelled' = cancelled
          /\ step = "go" /\ step' = "busy" /\ phase \in {"ready", "strings", "ghidra", "lone"}
          /\ begun' = (IF cancelled THEN begun + 1 ELSE begun)
      BY <2>2 DEF Begin, ctlVars
    <3>2. phase # "lone" => begun = 0
      BY <1>1, <3>1 DEF BegunInv
    <3>3. begun' > 0 => cancelled'
      BY <3>1 DEF BegunInv
    <3>4. phase # "lone" => begun' <= 1
      BY <3>1, <3>2
    <3>5. phase = "lone" => begun' + Len(stack') <= MaxUnpackDepth + 3
      BY <1>1, <3>1 DEF BegunInv, Ending, AloneBegun
    <3>6. CASE phase = "lone"
      BY <3>1, <3>3, <3>5, <3>6 DEF BegunInv, Ending, AloneBegun
    <3>7. CASE phase # "lone"
      <4>1. begun' + Len(stack') <= MaxUnpackDepth + 2
        BY <1>1, <3>4, <3>7
      <4>2. QED
        BY <1>1, <3>1, <3>3, <3>4, <3>7, <4>1 DEF BegunInv, Ending, AloneBegun
    <3>8. QED
      BY <3>6, <3>7
  <2>3. CASE Check \/ TakeGate \/ PassGate \/ Prepared \/ LeaveGate \/ Analyse \/ PrepareFails
             \/ QueueNative
    <3>1. begun' = begun /\ cancelled' = cancelled
      BY <2>3 DEF Check, TakeGate, PassGate, Prepared, LeaveGate, Analyse, PrepareFails, QueueNative,
                  ctlVars, histVars
    <3>2. Len(stack') = Len(stack)
      BY <1>1, <2>3 DEF Check, TakeGate, PassGate, Prepared, LeaveGate, Analyse, PrepareFails,
                        QueueNative, SetTop, IInv, TypeOK
    <3>3. QED
      BY <1>1, <1>2, <1>3, <2>3, <3>1, <3>2
  <2>4. CASE Stopped \/ Summarise \/ ReturnOuter
    <3>1. /\ stack' = stack /\ begun' = begun /\ cancelled' = cancelled
          /\ phase # "scan" /\ phase' \in {"return", "over"} /\ step' = "check"
      BY <2>4 DEF Stopped, Summarise, ReturnOuter, Loops, ctlVars, histVars, IInv, Steps, Idle
    <3>2. QED
      BY <1>1, <3>1 DEF BegunInv, Ending, AloneBegun
  <2>5. CASE EndStrings \/ EndGhidra \/ EndLone
    <3>1. /\ Len(stack') = Len(stack) /\ begun' = begun /\ cancelled' = cancelled /\ step' = "check"
      BY <1>1, <2>5 DEF EndStrings, EndGhidra, EndLone, SetTop, IInv, TypeOK, ctlVars, histVars
    <3>2. CASE EndLone
      BY <1>1, <3>1, <3>2 DEF BegunInv, Ending, AloneBegun, EndLone
    <3>3. CASE EndStrings \/ EndGhidra
      <4>1. phase \in {"strings", "ghidra"} /\ phase' = phase
        BY <3>3 DEF EndStrings, EndGhidra
      <4>2. QED
        BY <1>1, <3>1, <4>1 DEF BegunInv, Ending, AloneBegun
    <3>4. QED
      BY <2>5, <3>2, <3>3
  <2>6. CASE EndReady
    <3>1. /\ Len(stack') = Len(stack) /\ begun' = begun /\ cancelled' = cancelled /\ step' = "check"
          /\ phase = "ready" /\ phase' \in {"task", "scan"}
      BY <1>1, <2>6 DEF EndReady, SetTop, IInv, TypeOK, ctlVars, histVars
    <3>2. QED
      BY <1>1, <3>1 DEF BegunInv, Ending, AloneBegun
  <2>7. CASE EndLoop
    <3>1. /\ Len(stack') = Len(stack) /\ begun' = begun /\ cancelled' = cancelled
          /\ phase \in Loops /\ phase' \in {"task", "strings", "lone", "ghidra", "summary"}
          /\ step' = "check" \/ (step' = "go" /\ phase' = "lone")
      BY <1>1, <2>7 DEF EndLoop, AfterLoop, Loops, SetTop, IInv, TypeOK, ctlVars, histVars
    <3>2. QED
      BY <1>1, <3>1 DEF BegunInv, Ending, AloneBegun, Loops
  <2>8. CASE ScanFinds \/ ScanFails
    <3>1. /\ begun' = begun /\ cancelled' = cancelled
          /\ phase = "scan" /\ phase' \in {"analyse", "return"} /\ step' = "check"
      BY <2>8 DEF ScanFinds, ScanFails, IInv, Steps, Idle, ctlVars, histVars
    <3>2. QED
      BY <1>1, <3>1 DEF BegunInv
  <2>9. CASE ReturnNested
    <3>1. /\ begun' = begun /\ cancelled' = cancelled /\ phase' = "task" /\ step' = "check"
          /\ phase = "return" /\ Len(stack') = Len(stack) - 1
      BY <1>1, <2>9 DEF ReturnNested, IInv, TypeOK, ctlVars, histVars
    <3>2. QED
      BY <1>1, <3>1 DEF BegunInv, Ending, AloneBegun
  <2>10. QED
    BY <1>4, <2>1, <2>2, <2>3, <2>4, <2>5, <2>6, <2>7, <2>8, <2>9 DEF Next, Run
<1>5. CASE UNCHANGED vars
  BY <1>5 DEF vars, callVars, ctlVars, histVars, BegunInv, Ending, AloneBegun
<1>6. QED
  BY <1>4, <1>5

LEMMA AlwaysBegunInv == Spec => []BegunInv
<1>1. Init => BegunInv
  <2> SUFFICES ASSUME Init PROVE BegunInv
    OBVIOUS
  <2>1. phase = "scan" /\ begun = 0
    BY DEF Init
  <2>2. QED
    BY <2>1 DEF BegunInv
<1>2. IInv /\ IInv' /\ BegunInv /\ [Next]_vars => BegunInv'
  BY BegunStep
<1>3. QED
  BY <1>1, <1>2, AlwaysIInv, PTL DEF Spec

-----------------------------------------------------------------------------
(* The contract *)

\* Where a run is, in the words of its contract.
LEMMA AtInRound ==
  ASSUME phase \notin Idle
  PROVE  /\ step \in {"go", "busy"} => At = "work"
         /\ step = "gate" => At = "capture"
         /\ step \in {"check", "wait"} => At = step
  BY DEF At, InRound, Idle

LEMMA AtOutside ==
  /\ phase = "scan" => At = IF stack = << >> THEN "scan" ELSE "work"
  /\ phase = "return" => At = IF Len(stack) = 1 THEN "last" ELSE "check"
  /\ phase = "over" => At = "over"
  BY DEF At, InRound

\* Errors are seen at the end only, and a nested call's never.
LEMMA FailedAt ==
  ASSUME IInv
  PROVE  phase \notin {"return", "over"} => ~Failed
  BY DEF IInv, Errors, Failed

LEMMA ContractControls ==
  ASSUME Pause \/ Resume \/ Stop
  PROVE  Contract!Pause \/ Contract!Resume \/ Contract!Stop
<1>1. stack' = stack /\ phase' = phase /\ step' = step /\ err' = err /\ dones' = dones
  BY DEF Pause, Resume, Stop, callVars
<1>3. At' = At /\ Failed' = Failed
  BY <1>1 DEF At, InRound, Failed
<1>4. CASE Pause
  BY <1>1, <1>3, <1>4 DEF Pause, Contract!Pause
<1>5. CASE Resume
  BY <1>1, <1>3, <1>5 DEF Resume, HeldAfterResume, Contract!Resume
<1>6. CASE Stop
  BY <1>1, <1>3, <1>6 DEF Stop, HeldAfterResume, Contract!Stop
<1>7. QED
  BY <1>4, <1>5, <1>6

\* The prelude of a round is the contract's.
LEMMA ContractPrelude ==
  ASSUME IInv, IInv', Check \/ TakeGate \/ PassGate
  PROVE  Contract!Round \/ Contract!Capture \/ Contract!Pass
<1>1. stack' = stack /\ phase' = phase /\ err' = err /\ dones' = dones
  BY DEF Check, TakeGate, PassGate
<1>2. phase \notin Idle /\ Failed' = Failed
  BY <1>1 DEF Check, TakeGate, PassGate, IInv, Steps, Idle, Loops, Failed
<1>3. CASE Check
  <2>1. step = "check" /\ step' = "gate"
    BY <1>3 DEF Check
  <2>2. At = "check" /\ At' = "capture"
    BY <1>1, <1>2, <2>1, AtInRound DEF At, InRound, Idle
  <2>3. QED
    BY <1>1, <1>2, <1>3, <2>2 DEF Check, CtxDone, ctlVars, Contract!Round, Contract!Goto, Contract!controls
<1>4. CASE TakeGate
  <2>1. step = "gate" /\ step' = "wait"
    BY <1>4 DEF TakeGate
  <2>2. At = "capture" /\ At' = "wait"
    BY <1>1, <1>2, <2>1, AtInRound DEF At, InRound, Idle
  <2>3. QED
    BY <1>1, <1>2, <1>4, <2>2 DEF TakeGate, HeldBy, Contract!Capture, Contract!Goto
<1>5. CASE PassGate
  <2>1. step = "wait" /\ step' = "go"
    BY <1>5 DEF PassGate
  <2>2. At = "wait" /\ At' = "work"
    BY <1>1, <1>2, <2>1, AtInRound DEF At, InRound, Idle
  <2>3. QED
    BY <1>1, <1>2, <1>5, <2>2 DEF PassGate, ctlVars, Contract!Pass, Contract!Goto, Contract!controls
<1>6. QED
  BY <1>3, <1>4, <1>5

\* The returns of a nested call end a round, those of the outermost the run.
LEMMA ContractLeaving ==
  ASSUME IInv, IInv', Stopped \/ LeaveGate \/ Summarise \/ ReturnOuter
  PROVE  \/ Contract!Stopped \/ Contract!Leave \/ Contract!NoMore \/ Contract!Done
         \/ UNCHANGED Contract!vars
<1>1. /\ stack' = stack /\ Len(stack) \in Nat /\ Len(stack) >= 1 /\ phase # "scan"
      /\ paused' = paused /\ cancelled' = cancelled
  BY DEF Stopped, LeaveGate, Summarise, ReturnOuter, Loops, IInv, TypeOK, Nesting, Steps, Idle, ctlVars
<1>2. CASE ReturnOuter
  <2>1. At = "last" /\ At' = "over" /\ Failed' = Failed
    BY <1>1, <1>2, AtOutside DEF ReturnOuter, At, InRound, Failed
  <2>2. dones' = dones + 1 /\ held' = held
    BY <1>2 DEF ReturnOuter, SendsDone, Depth, ctlVars
  <2>3. QED
    BY <1>1, <2>1, <2>2 DEF Contract!Done, Contract!Goto, Contract!controls
<1>3. CASE Stopped \/ LeaveGate \/ Summarise
  <2>1. phase' = "return" /\ dones' = dones /\ phase \notin Idle
    BY <1>3 DEF Stopped, LeaveGate, Summarise, Loops, IInv, Steps, Idle
  <2>2. At' = IF Len(stack) = 1 THEN "last" ELSE "check"
    BY <1>1, <2>1 DEF At, InRound
  <2>3. ~Failed /\ (Failed' <=> err' /\ Len(stack) = 1)
    BY <1>1, <2>1, FailedAt DEF Failed, Idle
  <2>4. CASE Stopped
    <3>1. step = "check" /\ err' = TRUE /\ cancelled /\ held' = held
      BY <2>4 DEF Stopped, CtxDone, ctlVars
    <3>2. At = "check"
      BY <2>1, <3>1, AtInRound
    <3>3. CASE Len(stack) = 1
      BY <1>1, <2>1, <2>2, <2>3, <3>1, <3>2, <3>3 DEF Contract!Stopped, Contract!Goto, Contract!controls, Failed
    <3>4. CASE Len(stack) # 1
      BY <1>1, <2>1, <2>2, <2>3, <3>1, <3>2, <3>4 DEF Contract!vars, Contract!controls, Failed
    <3>5. QED
      BY <3>3, <3>4
  <2>5. CASE LeaveGate
    <3>1. step = "wait" /\ err' = TRUE /\ cancelled /\ held' = FALSE
      BY <2>5 DEF LeaveGate, CtxDone
    <3>2. At = "wait"
      BY <2>1, <3>1, AtInRound
    <3>3. Failed' = (At' = "last")
      BY <2>2, <2>3, <3>1 DEF Failed
    <3>4. QED
      BY <1>1, <2>1, <2>2, <3>1, <3>2, <3>3 DEF Contract!Leave, Contract!Goto
  <2>6. CASE Summarise
    <3>1. step = "check" /\ err' = err /\ held' = held
      BY <2>6 DEF Summarise, ctlVars, IInv, Steps
    <3>2. At = "check"
      BY <2>1, <3>1, AtInRound
    <3>3. Failed' = Failed
      BY <1>1, <3>1 DEF Failed
    <3>4. CASE Len(stack) = 1
      BY <1>1, <2>1, <2>2, <3>1, <3>2, <3>3, <3>4 DEF Contract!NoMore, Contract!Goto, Contract!controls
    <3>5. CASE Len(stack) # 1
      BY <1>1, <2>1, <2>2, <3>1, <3>2, <3>3, <3>5 DEF Contract!vars, Contract!controls
    <3>6. QED
      BY <3>4, <3>5
  <2>7. QED
    BY <1>3, <2>4, <2>5, <2>6
<1>4. QED
  BY <1>2, <1>3

\* Work ends, goes on, or comes to the second gate of a prepared target.
LEMMA ContractWork ==
  ASSUME IInv, IInv',
         \/ Analyse \/ PrepareFails \/ Prepared \/ QueueNative \/ Begin \/ EndReady
         \/ EndStrings \/ EndGhidra \/ EndLone
  PROVE  Contract!Work \/ UNCHANGED Contract!vars
<1>1. /\ phase \notin Idle /\ step \in {"go", "busy"}
      /\ dones' = dones /\ UNCHANGED ctlVars
  BY DEF Analyse, PrepareFails, Prepared, QueueNative, Begin, EndReady, EndStrings, EndGhidra, EndLone, Idle
<1>2. At = "work"
  BY <1>1, AtInRound
<1>3. phase' \notin {"return", "over"}
  BY DEF Analyse, PrepareFails, Prepared, QueueNative, Begin, EndReady, EndStrings, EndGhidra, EndLone
<1>4. ~Failed /\ ~Failed' /\ Failed' = Failed
  <2>1. ~Failed
    BY <1>1, FailedAt DEF Idle
  <2>2. ~Failed'
    BY <1>3 DEF IInv, Errors, Failed
  <2>3. QED
    BY <2>1, <2>2 DEF Failed
<1>5. At' \in {"work", "check", "capture"}
  <2>1. CASE Prepared
    <3>1. phase' = "ready" /\ step' = "gate"
      BY <2>1 DEF Prepared
    <3>2. QED
      BY <3>1 DEF At, InRound
  <2>2. CASE Begin
    <3>1. phase' \notin Idle /\ step' = "busy"
      BY <1>1, <2>2 DEF Begin
    <3>2. QED
      BY <3>1 DEF At, InRound, Idle
  <2>3. CASE Analyse \/ PrepareFails \/ QueueNative \/ EndStrings \/ EndGhidra \/ EndLone
    <3>1. phase' \notin Idle \cup {"lone"} /\ step' = "check"
      BY <2>3 DEF Analyse, PrepareFails, QueueNative, EndStrings, EndGhidra, EndLone, Idle
    <3>2. QED
      BY <3>1 DEF At, InRound, Idle
  <2>4. CASE EndReady
    <3>1. phase' \in {"task", "scan"} /\ step' = "check"
      BY <2>4 DEF EndReady
    <3>2. stack' # << >>
      <4>1. PICK g : SetTop(g)
        BY <2>4 DEF EndReady
      <4>2. Len(stack) \in Nat /\ Len(stack) >= 1 /\ stack \in Seq(Frames) /\ stack' \in Seq(Frames)
        BY <1>1 DEF IInv, TypeOK, Nesting, Idle
      <4>3. Len(stack') = Len(stack)
        BY <4>1, <4>2, TopSet
      <4>4. QED
        BY <4>2, <4>3
    <3>3. QED
      BY <3>1, <3>2 DEF At, InRound
  <2>5. QED
    BY <2>1, <2>2, <2>3, <2>4
<1>6. QED
  BY <1>1, <1>2, <1>4, <1>5 DEF ctlVars, Contract!Work, Contract!Goto, Contract!controls, Contract!vars

\* Between its loops a call stays at its check; the native file that is alone
\* follows unchecked.
LEMMA ContractEndLoop ==
  ASSUME IInv, IInv', EndLoop
  PROVE  Contract!Unchecked \/ UNCHANGED Contract!vars
<1>1. /\ phase \in Loops /\ step = "check" /\ phase' = AfterLoop
      /\ step' = (IF AfterLoop = "lone" THEN "go" ELSE "check")
      /\ dones' = dones /\ UNCHANGED ctlVars
  BY DEF EndLoop
<1>2. phase' \in {"task", "strings", "lone", "ghidra", "summary"}
  BY <1>1 DEF AfterLoop, Loops
<1>3. Failed' = Failed
  <2>1. ~Failed
    BY <1>1, FailedAt DEF Loops
  <2>2. ~Failed'
    BY <1>2 DEF IInv, Errors, Failed
  <2>3. QED
    BY <2>1, <2>2 DEF Failed
<1>4. At = "check"
  BY <1>1, AtInRound DEF Loops, Idle
<1>5. At' = IF AfterLoop = "lone" THEN "work" ELSE "check"
  BY <1>1, <1>2 DEF At, InRound
<1>6. QED
  BY <1>1, <1>3, <1>4, <1>5
  DEF ctlVars, Contract!Unchecked, Contract!Goto, Contract!vars, Contract!controls

\* The first scan is the contract's, a nested one is work.
LEMMA ContractCalls ==
  ASSUME IInv, IInv', ScanFinds \/ ScanFails \/ ReturnNested
  PROVE  Contract!Scan \/ Contract!Work \/ UNCHANGED Contract!vars
<1>1. /\ Len(stack) \in Nat /\ stack \in Seq(Frames) /\ stack' \in Seq(Frames)
      /\ (stack = << >> <=> Len(stack) = 0)
  BY DEF IInv, TypeOK
<1>2. CASE ScanFinds \/ ScanFails
  <2>1. /\ phase = "scan" /\ dones' = dones /\ UNCHANGED ctlVars
        /\ Len(stack') = Len(stack) + 1 /\ ~Failed
        /\ \/ phase' = "analyse" /\ step' = "check"
           \/ phase' = "return" /\ err' = TRUE
    <3>1. \E g : stack' = Append(stack, g)
      BY <1>2 DEF ScanFinds, ScanFails
    <3>2. Len(stack') = Len(stack) + 1
      BY <1>1, <3>1
    <3>3. phase = "scan" /\ dones' = dones /\ UNCHANGED ctlVars
      BY <1>2 DEF ScanFinds, ScanFails
    <3>4. \/ phase' = "analyse" /\ step' = "check"
          \/ phase' = "return" /\ err' = TRUE
      BY <1>2 DEF ScanFinds, ScanFails
    <3>5. ~Failed
      BY <3>3, FailedAt
    <3>6. QED
      BY <3>2, <3>3, <3>4, <3>5
  <2>2. At = IF stack = << >> THEN "scan" ELSE "work"
    BY <2>1, AtOutside
  <2>3. CASE phase' = "analyse" /\ step' = "check"
    <3>1. At' = "check"
      BY <2>3 DEF At, InRound
    <3>2. ~Failed'
      BY <2>3 DEF IInv, Errors, Failed
    <3>3. Failed' = Failed /\ Failed' = FALSE
      BY <2>1, <3>2 DEF Failed
    <3>4. QED
      BY <2>1, <2>2, <3>1, <3>3
      DEF ctlVars, Contract!Scan, Contract!Work, Contract!Goto, Contract!controls
  <2>4. CASE phase' = "return" /\ err' = TRUE
    <3>1. At' = IF Len(stack') = 1 THEN "last" ELSE "check"
      BY <2>4 DEF At, InRound
    <3>2. Failed' = (Len(stack') = 1)
      BY <2>4 DEF Failed
    <3>3. CASE stack = << >>
      BY <1>1, <2>1, <2>2, <3>1, <3>2, <3>3 DEF ctlVars, Contract!Scan, Contract!Goto, Contract!controls
    <3>4. CASE stack # << >>
      <4>0. Len(stack) # 0 /\ Len(stack') # 1
        BY <1>1, <2>1, <3>4
      <4>1. At = "work" /\ At' = "check" /\ Failed' = FALSE
        BY <2>2, <3>1, <3>2, <3>4, <4>0
      <4>2. Failed' = Failed
        BY <2>1, <4>1 DEF Failed
      <4>3. QED
        BY <2>1, <4>1, <4>2 DEF ctlVars, Contract!Work, Contract!Goto, Contract!controls
    <3>5. QED
      BY <3>3, <3>4
  <2>5. QED
    BY <2>1, <2>3, <2>4
<1>3. CASE ReturnNested
  <2>1. /\ phase = "return" /\ Len(stack) > 1 /\ phase' = "task" /\ step' = "check"
        /\ UNCHANGED ctlVars /\ dones' = dones /\ Len(stack) # 1
    BY <1>1, <1>3 DEF ReturnNested, SendsDone, Depth, IInv, TypeOK
  <2>2. At = "check"
    BY <2>1, AtOutside
  <2>5. At' = "check"
    BY <2>1 DEF At, InRound
  <2>6. Failed' = Failed
    <3>1. ~Failed
      BY <2>1 DEF Failed
    <3>2. ~Failed'
      BY <1>3 DEF ReturnNested, ErrAfterNested, Failed
    <3>3. QED
      BY <3>1, <3>2 DEF Failed
  <2>7. QED
    BY <2>1, <2>2, <2>5, <2>6 DEF ctlVars, Contract!vars, Contract!controls
<1>4. QED
  BY <1>2, <1>3

\* Only Begin makes a step busy.
LEMMA StepBegins ==
  ASSUME [Next]_vars, step # "busy", step' = "busy"
  PROVE  step = "go"
<1>1. CASE Next
  <2>1. CASE Run
    <3>1. CASE ScanFinds \/ ReturnNested \/ Stopped \/ Check \/ TakeGate \/ PassGate \/ LeaveGate
      BY <3>1 DEF ScanFinds, ReturnNested, Stopped, Check, TakeGate, PassGate, LeaveGate
    <3>2. CASE ScanFails \/ ReturnOuter \/ Summarise
      BY <3>2 DEF ScanFails, ReturnOuter, Summarise
    <3>3. CASE EndLoop \/ Analyse \/ PrepareFails \/ Prepared \/ QueueNative
      BY <3>3 DEF EndLoop, Analyse, PrepareFails, Prepared, QueueNative
    <3>4. CASE EndReady \/ EndStrings \/ EndGhidra \/ EndLone \/ Begin
      BY <3>4 DEF EndReady, EndStrings, EndGhidra, EndLone, Begin
    <3>5. QED
      BY <2>1, <3>1, <3>2, <3>3, <3>4 DEF Run
  <2>2. CASE Pause \/ Resume \/ Stop
    BY <2>2 DEF Pause, Resume, Stop, callVars
  <2>3. QED
    BY <1>1, <2>1, <2>2 DEF Next
<1>2. CASE UNCHANGED vars
  BY <1>2 DEF vars, callVars
<1>3. QED
  BY <1>1, <1>2

-----------------------------------------------------------------------------
\* While a Pause that met an executing target holds, and after a stop, no
\* target is begun but the native file that is alone in its call, for any
\* listings: a gate or a check is before every other one.
THEOREM EngineOnlyLoneRunsOn == Spec => OnlyLoneRunsOn
<1>1. GateInv /\ BegunInv /\ [Next]_vars =>
        [step # "busy" /\ step' = "busy" /\ (busyPause \/ begun > 0) => phase = "lone"]_vars
  <2> SUFFICES ASSUME GateInv, BegunInv, [Next]_vars, step # "busy", step' = "busy",
                      busyPause \/ begun > 0
               PROVE  phase = "lone"
    OBVIOUS
  <2>1. step = "go"
    BY StepBegins
  <2>2. QED
    BY <2>1 DEF GateInv, BegunInv
<1>2. QED
  BY <1>1, AlwaysGateInv, AlwaysBegunInv, PTL DEF Spec, OnlyLoneRunsOn

\* The safety part of Returns: every call that returns may still begin the
\* native file left alone in it, so a stopped run begins up to two targets
\* more than installers may be nested.
THEOREM EngineStopsInDepth == Spec => [](begun <= MaxUnpackDepth + 2)
<1>1. IInv /\ BegunInv => begun <= MaxUnpackDepth + 2
  <2> SUFFICES ASSUME IInv, BegunInv PROVE begun <= MaxUnpackDepth + 2
    OBVIOUS
  <2>1. /\ Len(stack) \in Nat /\ begun \in Nat /\ MaxUnpackDepth \in Nat
        /\ phase # "scan" => Len(stack) >= 1
    BY ListingsAssumption DEF IInv, TypeOK, Nesting
  <2>2. QED
    BY <2>1 DEF BegunInv
<1>2. QED
  BY <1>1, AlwaysIInv, AlwaysBegunInv, PTL

\* Engine.Run implements its contract: what is nested in a run, batched or
\* prepared shows outside only as more work in its rounds.
THEOREM EngineKeepsContract == Spec => KeepsContract
<1>1. Init => Contract!Init
  BY DEF Init, Contract!Init, At, InRound, Failed
<1>2. IInv /\ IInv' /\ [Next]_vars => [Contract!Next]_Contract!vars
  <2> SUFFICES ASSUME IInv, IInv', [Next]_vars
               PROVE  Contract!Next \/ UNCHANGED Contract!vars
    OBVIOUS
  <2>1. CASE Next
    BY <2>1, ContractControls, ContractPrelude, ContractLeaving, ContractWork, ContractEndLoop,
       ContractCalls
    DEF Next, Run, Contract!Next, Contract!Run
  <2>2. CASE UNCHANGED vars
    <3>2. At' = At /\ Failed' = Failed
      BY <2>2 DEF vars, callVars, At, InRound, Failed
    <3>3. QED
      BY <2>2, <3>2 DEF vars, callVars, ctlVars, Contract!vars, Contract!controls
  <2>3. QED
    BY <2>1, <2>2
<1>3. QED
  BY <1>1, <1>2, AlwaysIInv, PTL DEF Spec, KeepsContract, Contract!Spec

==============================================================================
