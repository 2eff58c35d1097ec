------------------------- MODULE RecipeOutput_proof -------------------------
(***************************************************************************)
(* Proofs about what a recipe sends and what its tools write.              *)
(*                                                                         *)
(* StreamingExec, for any capacity of the pipe, any number of lines and    *)
(* with or without processes of the child's own, by itself and under       *)
(* RipperExport.  FullOutput speaks of the end only.  What carries it      *)
(* there: no line is lost between writer, pipe and callback (Conserved),   *)
(* and once the scanner has stopped, it did so at the end of the output,   *)
(* after which nobody writes, or at a long line, which stays at the head   *)
(* (ScannerStopped).                                                       *)
(*                                                                         *)
(* RecipeForwarder, for any capacities and any numbers of messages.        *)
(* CompleteIsLast speaks of the end, too.  What carries it there: at every *)
(* moment the messages a channel has lost are those the events channel was *)
(* sent, in their order (Merged), and a forwarder that has ended saw both  *)
(* channels closed and empty, and a closed one is sent nothing (Closing).  *)
(***************************************************************************)
EXTENDS RecipeOutput, TLAPS

InCallback == IF reader = "line" THEN 1 ELSE 0

Conserved == delivered + InCallback + Len(pipe) = written

ScannerStopped ==
  reader \in {"wait", "returned"} => Unread(pipe) /\ (pipe = << >> => ~Writers)

ExecInv == TypeOK /\ Conserved /\ ScannerStopped

-----------------------------------------------------------------------------
LEMMA InitExecInv == ExecInit => ExecInv
<1> SUFFICES ASSUME ExecInit
             PROVE  ExecInv
  OBVIOUS
<1>1. /\ pipe \in Seq(LineKinds)
      /\ Len(pipe) = 0
  BY DEF ExecInit
<1>2. Len(pipe) <= PipeCap /\ 0 \in 0 .. MaxLines
  BY <1>1, ExecAssumption
<1>3. TypeOK
  BY <1>1, <1>2 DEF ExecInit, TypeOK
<1>4. Conserved /\ ScannerStopped
  BY <1>1 DEF ExecInit, Conserved, InCallback, ScannerStopped
<1>5. QED
  BY <1>3, <1>4 DEF ExecInv

\* A writer appends behind what is there: the head of a pipe that holds
\* something is the same as before.
LEMMA WriteKeeps ==
  ASSUME ExecInv, Write
  PROVE  ExecInv'
<1>1. PICK kind \in LineKinds : pipe' = Append(pipe, kind)
  BY DEF Write
<1>2. /\ pipe' \in Seq(LineKinds)
      /\ Len(pipe') = Len(pipe) + 1
      /\ pipe' # << >>
      /\ pipe # << >> => Head(pipe') = Head(pipe)
  BY <1>1 DEF ExecInv, TypeOK
<1>3. written' = written + 1 /\ written' \in 0 .. MaxLines /\ Len(pipe') <= PipeCap
  BY <1>2, ExecAssumption DEF Write, ExecInv, TypeOK
<1>4. TypeOK'
  BY <1>2, <1>3 DEF Write, ExecInv, TypeOK
<1>5. Conserved'
  BY <1>2, <1>3 DEF Write, ExecInv, TypeOK, Conserved, InCallback
<1>6. ScannerStopped'
  BY <1>2 DEF Write, ExecInv, ScannerStopped, Unread, Writers
<1>7. QED
  BY <1>4, <1>5, <1>6 DEF ExecInv

\* The scanner takes the first line: one line fewer in the pipe, one in the
\* callback.
LEMMA ScanLineKeeps ==
  ASSUME ExecInv, ScanLine
  PROVE  ExecInv'
<1>1. /\ pipe' \in Seq(LineKinds)
      /\ Len(pipe') = Len(pipe) - 1
  BY DEF ExecInv, TypeOK, ScanLine, AfterLine
<1>2. Len(pipe) \in Nat /\ Len(pipe') \in Nat
  BY <1>1 DEF ExecInv, TypeOK
<1>3. TypeOK'
  BY <1>1, <1>2, ExecAssumption DEF ExecInv, TypeOK, ScanLine
<1>4. Conserved'
  BY <1>1, <1>2 DEF ExecInv, TypeOK, ScanLine, Conserved, InCallback
<1>5. ScannerStopped'
  BY DEF ScanLine, ScannerStopped
<1>6. QED
  BY <1>3, <1>4, <1>5 DEF ExecInv

\* The callback keeps the line: what is delivered stays within what was
\* written, which only Conserved knows.
LEMMA OnLineKeeps ==
  ASSUME ExecInv, OnLine
  PROVE  ExecInv'
<1>1. Len(pipe) \in Nat
  BY DEF ExecInv, TypeOK
<1>2. delivered + 1 + Len(pipe) = written
  BY DEF ExecInv, OnLine, Conserved, InCallback
<1>3. delivered' \in 0 .. MaxLines
  BY <1>1, <1>2, ExecAssumption DEF ExecInv, TypeOK, OnLine
<1>4. TypeOK' /\ Conserved' /\ ScannerStopped'
  BY <1>1, <1>2, <1>3 DEF ExecInv, TypeOK, OnLine, Conserved, InCallback, ScannerStopped
<1>5. QED
  BY <1>4 DEF ExecInv

-----------------------------------------------------------------------------
LEMMA ExecInvariance == ExecInv /\ [ExecNext]_execVars => ExecInv'
<1> SUFFICES ASSUME ExecInv, [ExecNext]_execVars
             PROVE  ExecInv'
  OBVIOUS
<1>1. CASE Fork
  BY <1>1 DEF Fork, ExecInv, TypeOK, Conserved, InCallback, ScannerStopped, Writers
<1>2. CASE Write
  BY <1>2, WriteKeeps
<1>3. CASE ChildExits \/ HelperExits \/ Kill
  BY <1>3 DEF ChildExits, HelperExits, Kill, ExecInv, TypeOK, Conserved, InCallback,
              ScannerStopped, Writers
<1>4. CASE Cancel
  BY <1>4 DEF Cancel, ExecInv, TypeOK, Conserved, InCallback, ScannerStopped, Writers
<1>5. CASE ScanLine
  BY <1>5, ScanLineKeeps
<1>6. CASE ScanTooLong \/ ScanEOF
  BY <1>6 DEF ScanTooLong, ScanEOF, AtEOF, ExecInv, TypeOK, Conserved, InCallback,
              ScannerStopped, Unread, Writers
<1>7. CASE OnLine
  BY <1>7, OnLineKeeps
<1>8. CASE WaitReturns
  BY <1>8 DEF WaitReturns, ExecInv, TypeOK, Conserved, InCallback, ScannerStopped, Writers
<1>9. CASE UNCHANGED execVars
  BY <1>9 DEF execVars, ExecInv, TypeOK, Conserved, InCallback, ScannerStopped, Writers
<1>10. QED
  BY <1>1, <1>2, <1>3, <1>4, <1>5, <1>6, <1>7, <1>8, <1>9 DEF ExecNext, Processes, Scanning

LEMMA AlwaysExecInv == ExecSpec => []ExecInv
  BY InitExecInv, ExecInvariance, PTL DEF ExecSpec

-----------------------------------------------------------------------------
\* Every variable of runCmdStreaming's three parties keeps its type: the pipe
\* never holds more than its capacity, no more lines are delivered than written.
THEOREM ExecTypeOK == ExecSpec => []TypeOK
<1>1. ExecInv => TypeOK
  BY DEF ExecInv
<1>2. QED
  BY <1>1, AlwaysExecInv, PTL

\* When runCmdStreaming returns, every line any process wrote was handed to
\* the callback, except a line over the scanner's buffer and what follows it.
THEOREM ExecFullOutput == ExecSpec => []FullOutput
<1>1. ExecInv => FullOutput
  <2> SUFFICES ASSUME ExecInv, reader = "returned"
               PROVE  delivered + Len(pipe) = written /\ Unread(pipe)
    BY DEF FullOutput
  <2>1. delivered + Len(pipe) = written
    BY DEF ExecInv, TypeOK, Conserved, InCallback
  <2>2. Unread(pipe)
    BY DEF ExecInv, ScannerStopped
  <2>3. QED
    BY <2>1, <2>2
<1>2. QED
  BY <1>1, AlwaysExecInv, PTL

-----------------------------------------------------------------------------
\* Every step of an asset export is a step of its server's process and the
\* goroutine that reads it, or leaves them as they are: a second cancellation
\* changes nothing.
LEMMA CancelledTwice ==
  ASSUME ExecInv, Cancelled
  PROVE  Cancel \/ UNCHANGED execVars
<1>1. CASE ctxDone
  BY <1>1 DEF Cancelled, execVars
<1>2. CASE ~ctxDone
  BY <1>2 DEF Cancelled, Cancel
<1>3. QED
  BY <1>1, <1>2

LEMMA RipperStep ==
  ASSUME ExecInv, [RNext]_ripperVars
  PROVE  [ExecNext]_execVars
<1>1. CASE Server
  BY <1>1 DEF Server, Lifted, ExecNext
<1>2. CASE ServerLine
  BY <1>2 DEF ServerLine, ExecNext
<1>3. CASE UserStops
  BY <1>3 DEF UserStops, ExecNext
<1>4. CASE NotReady \/ Exported
  BY <1>4, CancelledTwice DEF NotReady, Exported, DeferredCancel, ExecNext
<1>5. CASE Answers \/ Stopped \/ RecipeOver
  BY <1>5 DEF Answers, Stopped, RecipeOver
<1>6. CASE UNCHANGED ripperVars
  BY <1>6 DEF ripperVars
<1>7. QED
  BY <1>1, <1>2, <1>3, <1>4, <1>5, <1>6 DEF RNext

\* The asset export is a run of the streaming call: whatever RunAssetRipperExport
\* does around it, its process, pipe and reader behave as StreamingExec says.
THEOREM RipperIsExec == RSpec => ExecSpec
<1>1. RInit => ExecInit
  BY DEF RInit
<1>2. ExecInv /\ [RNext]_ripperVars => [ExecNext]_execVars
  BY RipperStep
<1>3. ExecInv /\ [RNext]_ripperVars => ExecInv'
  BY <1>2, ExecInvariance
<1>4. QED
  BY <1>1, <1>2, <1>3, InitExecInv, PTL DEF RSpec, ExecSpec

\* The same of the server that exports a game's assets: a call that returns,
\* also long after the recipe has gone on, has delivered what was written.
THEOREM RipperFullOutput == RSpec => []FullOutput
  BY RipperIsExec, ExecFullOutput, PTL

-----------------------------------------------------------------------------
(* The forwarder *)

ForwarderTypeOK ==
  /\ recipe \in Channels \cup {"running", "closing", "awaiting", "reporting", "returned"}
  /\ sent \in [Channels -> Nat]
  /\ queue \in [Channels -> Seq(Nat)]
  /\ closed \in [Channels -> BOOLEAN]
  /\ open \in [Channels -> BOOLEAN]
  /\ forwarder \in {"recv", "exited", "dead"}
  /\ out \in Seq([chan : Channels \cup {"complete"}, n : Nat])
  /\ pending \in Nat

\* How many of a channel's messages have left it.
Gone(c) == sent[c] - Len(queue[c])

Merged ==
  \A c \in Channels :
    /\ Gone(c) \in Nat
    /\ \A k \in 1 .. Len(queue[c]) : queue[c][k] = Gone(c) + k
    /\ {out[i].n : i \in Forwarded(c)} = 1 .. Gone(c)
    /\ \A i, j \in Forwarded(c) : i < j => out[i].n < out[j].n

Closing ==
  /\ recipe \in Channels \cup {"running"} => \A c \in Channels : ~closed[c]
  /\ recipe \in {"reporting", "returned"} => forwarder # "recv"
  /\ recipe = "returned" => Last(out) = Complete
  /\ \A c \in Channels : ~open[c] => closed[c] /\ queue[c] = << >>
  /\ forwarder = "exited" => \A c \in Channels : ~open[c]

ForwarderInv == ForwarderTypeOK /\ Merged /\ Closing

LEMMA InitForwarderInv == Init => ForwarderInv
  BY DEF Init, ForwarderInv, ForwarderTypeOK, Merged, Closing, Gone, Forwarded, Channels

LEMMA MergedKept ==
  ASSUME Merged, UNCHANGED <<sent, queue, out>>
  PROVE  Merged'
<1>1. \A c \in Channels : Gone(c)' = Gone(c) /\ Forwarded(c)' = Forwarded(c)
  BY DEF Gone, Forwarded
<1>2. QED
  BY <1>1 DEF Merged

\* A message goes through: the queue grows at its end by the next number.
LEMMA SendGoesThroughKeeps ==
  ASSUME ForwarderInv, NEW c \in Channels, SendGoesThrough(c)
  PROVE  ForwarderInv'
<1>1. /\ sent' = [sent EXCEPT ![c] = sent[c] + 1]
      /\ queue' = [queue EXCEPT ![c] = Append(queue[c], sent[c] + 1)]
      /\ out' = out
  BY DEF SendGoesThrough
<1>2. /\ sent[c] \in Nat /\ queue[c] \in Seq(Nat)
      /\ Append(queue[c], sent[c] + 1) \in Seq(Nat)
      /\ Len(Append(queue[c], sent[c] + 1)) = Len(queue[c]) + 1
  BY DEF ForwarderInv, ForwarderTypeOK
<1>3. ForwarderTypeOK'
  BY <1>1, <1>2 DEF SendGoesThrough, ForwarderInv, ForwarderTypeOK
<1>4. Merged'
  <2> SUFFICES ASSUME NEW d \in Channels
               PROVE  /\ Gone(d)' = Gone(d)
                      /\ \A k \in 1 .. Len(queue'[d]) : queue'[d][k] = Gone(d) + k
    BY <1>1 DEF ForwarderInv, Merged, Forwarded
  <2>1. CASE d # c
    BY <1>1, <2>1 DEF ForwarderInv, ForwarderTypeOK, Merged, Gone
  <2>2. CASE d = c
    <3>1. sent'[c] = sent[c] + 1 /\ queue'[c] = Append(queue[c], sent[c] + 1)
      BY <1>1 DEF ForwarderInv, ForwarderTypeOK
    <3>2. Gone(c)' = Gone(c)
      BY <1>2, <3>1 DEF Gone
    <3>3. \A k \in 1 .. Len(queue[c]) : queue'[c][k] = Gone(c) + k
      BY <1>2, <3>1 DEF ForwarderInv, Merged
    <3>4. queue'[c][Len(queue[c]) + 1] = Gone(c) + (Len(queue[c]) + 1)
      BY <1>2, <3>1 DEF Gone
    <3>5. QED
      BY <1>2, <2>2, <3>1, <3>2, <3>3, <3>4
  <2>3. QED
    BY <2>1, <2>2
<1>5. Closing'
  BY DEF SendGoesThrough, ForwarderInv, Closing
<1>6. QED
  BY <1>3, <1>4, <1>5 DEF ForwarderInv

\* A message moves from the head of its queue to the end of what was sent.
LEMMA ForwardKeeps ==
  ASSUME ForwarderInv, NEW c \in Channels, Forward(c)
  PROVE  ForwarderInv'
<1> DEFINE ev == Message(c, Head(queue[c]))
<1>1. /\ queue[c] # << >>
      /\ queue' = [queue EXCEPT ![c] = Tail(queue[c])]
      /\ out' = Append(out, ev)
      /\ sent' = sent
  BY DEF Forward, SendEvent, Received
<1>2. /\ sent[c] \in Nat /\ queue[c] \in Seq(Nat)
      /\ Head(queue[c]) \in Nat /\ Head(queue[c]) = queue[c][1]
      /\ Tail(queue[c]) \in Seq(Nat)
      /\ Len(Tail(queue[c])) = Len(queue[c]) - 1
      /\ Len(queue[c]) \in Nat \ {0}
      /\ \A k \in 1 .. Len(queue[c]) - 1 : Tail(queue[c])[k] = queue[c][k + 1]
  BY <1>1 DEF ForwarderInv, ForwarderTypeOK
<1>3. /\ ev \in [chan : Channels \cup {"complete"}, n : Nat]
      /\ ev.chan = c /\ ev.n = Gone(c) + 1
  BY <1>2 DEF Message, ForwarderInv, Merged
<1>4. /\ out \in Seq([chan : Channels \cup {"complete"}, n : Nat])
      /\ out' \in Seq([chan : Channels \cup {"complete"}, n : Nat])
      /\ DOMAIN out' = 1 .. Len(out) + 1 /\ DOMAIN out = 1 .. Len(out) /\ Len(out) \in Nat
      /\ \A i \in 1 .. Len(out) : out'[i] = out[i]
      /\ out'[Len(out) + 1] = ev
  BY <1>1, <1>3 DEF ForwarderInv, ForwarderTypeOK
<1>5. ForwarderTypeOK'
  <2>1. queue' \in [Channels -> Seq(Nat)]
    BY <1>1, <1>2 DEF ForwarderInv, ForwarderTypeOK
  <2>2. pending' \in Nat
    BY DEF Forward, SendEvent, ForwarderInv, ForwarderTypeOK
  <2>3. QED
    BY <1>4, <2>1, <2>2 DEF Forward, ForwarderInv, ForwarderTypeOK
<1>6. Merged'
  <2> SUFFICES ASSUME NEW d \in Channels
               PROVE  /\ Gone(d)' \in Nat
                      /\ \A k \in 1 .. Len(queue'[d]) : queue'[d][k] = Gone(d)' + k
                      /\ {out'[i].n : i \in Forwarded(d)'} = 1 .. Gone(d)'
                      /\ \A i, j \in Forwarded(d)' : i < j => out'[i].n < out'[j].n
    BY DEF Merged
  <2>1. CASE d # c
    <3>1. Gone(d)' = Gone(d) /\ queue'[d] = queue[d]
      BY <1>1, <2>1 DEF Gone, ForwarderInv, ForwarderTypeOK
    <3>2. Forwarded(d)' = Forwarded(d)
      BY <1>3, <1>4, <2>1 DEF Forwarded
    <3>3. \A i \in Forwarded(d) : out'[i] = out[i]
      BY <1>4 DEF Forwarded
    <3>4. QED
      BY <3>1, <3>2, <3>3 DEF ForwarderInv, Merged
  <2>2. CASE d = c
    <3>1. /\ queue'[c] = Tail(queue[c])
          /\ Gone(c)' = Gone(c) + 1
          /\ Gone(c) \in Nat
      BY <1>1, <1>2 DEF Gone, ForwarderInv, ForwarderTypeOK, Merged
    <3>2. Forwarded(c)' = Forwarded(c) \cup {Len(out) + 1}
      BY <1>3, <1>4 DEF Forwarded
    <3>3. \A i \in Forwarded(c) : i \in 1 .. Len(out) /\ out'[i] = out[i]
      BY <1>4 DEF Forwarded
    <3>4. \A k \in 1 .. Len(queue'[c]) : queue'[c][k] = Gone(c)' + k
      BY <1>2, <3>1 DEF ForwarderInv, Merged
    <3>5. /\ {out[i].n : i \in Forwarded(c)} = 1 .. Gone(c)
          /\ \A i, j \in Forwarded(c) : i < j => out[i].n < out[j].n
      BY DEF ForwarderInv, Merged
    <3>6. {out'[i].n : i \in Forwarded(c)'} = {out[i].n : i \in Forwarded(c)} \cup {Gone(c) + 1}
      BY <1>3, <1>4, <3>2, <3>3
    <3>7. {out'[i].n : i \in Forwarded(c)'} = 1 .. Gone(c)'
      BY <3>1, <3>5, <3>6
    <3>8. ASSUME NEW i \in Forwarded(c)', NEW j \in Forwarded(c)', i < j
          PROVE  out'[i].n < out'[j].n
      <4>1. i \in Forwarded(c)
        BY <1>4, <3>2, <3>3, <3>8
      <4>2. out[i].n \in 1 .. Gone(c)
        BY <4>1, <3>5
      <4>3. CASE j \in Forwarded(c)
        BY <4>1, <4>3, <3>3, <3>5, <3>8
      <4>4. CASE j = Len(out) + 1
        <5>1. out'[i].n = out[i].n
          BY <4>1, <3>3
        <5>2. out'[j].n = Gone(c) + 1
          BY <4>4, <1>3, <1>4
        <5>3. QED
          BY <4>2, <5>1, <5>2, <3>1
      <4>5. QED
        BY <3>2, <4>3, <4>4
    <3>9. QED
      BY <2>2, <3>1, <3>4, <3>7, <3>8
  <2>3. QED
    BY <2>1, <2>2
<1>7. Closing'
  BY <1>1 DEF Forward, ForwarderInv, ForwarderTypeOK, Closing, KeepsForwarding, Channels
<1>8. QED
  BY <1>5, <1>6, <1>7 DEF ForwarderInv

\* The target's last event is the last that is sent; it is on no channel of
\* the recipe.
LEMMA SendCompleteKeeps ==
  ASSUME ForwarderInv, SendComplete
  PROVE  ForwarderInv'
<1>1. /\ out' = Append(out, Complete)
      /\ sent' = sent /\ queue' = queue
  BY DEF SendComplete, SendEvent
<1>2. /\ Complete \in [chan : Channels \cup {"complete"}, n : Nat]
      /\ Complete.chan \notin Channels
  BY DEF Complete, Channels
<1>3. /\ out' \in Seq([chan : Channels \cup {"complete"}, n : Nat])
      /\ Len(out') = Len(out) + 1
      /\ DOMAIN out' = 1 .. Len(out) + 1 /\ DOMAIN out = 1 .. Len(out) /\ Len(out) \in Nat
      /\ \A i \in 1 .. Len(out) : out'[i] = out[i]
      /\ out'[Len(out) + 1] = Complete
  BY <1>1, <1>2 DEF ForwarderInv, ForwarderTypeOK
<1>4. ForwarderTypeOK'
  BY <1>1, <1>3 DEF SendComplete, SendEvent, ForwarderInv, ForwarderTypeOK
<1>5. Merged'
  <2>1. \A d \in Channels : Gone(d)' = Gone(d) /\ Forwarded(d)' = Forwarded(d)
    BY <1>1, <1>2, <1>3 DEF Gone, Forwarded
  <2>2. \A d \in Channels : \A i \in Forwarded(d) : out'[i] = out[i]
    BY <1>3 DEF Forwarded
  <2>3. \A d \in Channels : {out'[i].n : i \in Forwarded(d)'} = {out[i].n : i \in Forwarded(d)}
    BY <2>1, <2>2
  <2>4. QED
    BY <1>1, <2>1, <2>2, <2>3 DEF ForwarderInv, Merged
<1>6. Last(out') = Complete
  BY <1>3 DEF Last, ForwarderInv, ForwarderTypeOK
<1>7. Closing'
  BY <1>6 DEF SendComplete, ForwarderInv, Closing, Channels
<1>8. QED
  BY <1>4, <1>5, <1>7 DEF ForwarderInv

LEMMA ForwarderInvariance == ForwarderInv /\ [Next]_vars => ForwarderInv'
<1> SUFFICES ASSUME ForwarderInv, [Next]_vars
             PROVE  ForwarderInv'
  OBVIOUS
<1>1. ASSUME NEW c \in Channels, RecipeSends(c) \/ SendGoesThrough(c)
      PROVE  ForwarderInv'
  <2>1. CASE RecipeSends(c)
    <3>1. Merged'
      BY <2>1, MergedKept DEF RecipeSends, ForwarderInv
    <3>2. recipe = "running" /\ recipe' = c /\ UNCHANGED <<sent, queue, closed, open, forwarder, out, pending>>
      BY <2>1 DEF RecipeSends
    <3>3. ForwarderTypeOK'
      BY <3>2 DEF ForwarderInv, ForwarderTypeOK
    <3>4. Closing'
      BY <3>2 DEF ForwarderInv, Closing, Channels
    <3>5. QED
      BY <3>1, <3>3, <3>4 DEF ForwarderInv
  <2>2. CASE SendGoesThrough(c)
    BY <2>2, SendGoesThroughKeeps
  <2>3. QED
    BY <1>1, <2>1, <2>2
<1>2. ASSUME NEW c \in Channels, Forward(c)
      PROVE  ForwarderInv'
  BY <1>2, ForwardKeeps
<1>3. CASE SendComplete
  BY <1>3, SendCompleteKeeps
<1>4. CASE RecipeReturns \/ AwaitForwarder
  <2>1. recipe' \in {"closing", "reporting"} /\ UNCHANGED <<sent, queue, closed, open, forwarder, out, pending>>
    BY <1>4 DEF RecipeReturns, AwaitForwarder
  <2>2. Merged'
    BY <2>1, MergedKept DEF ForwarderInv
  <2>3. recipe' = "reporting" => forwarder' # "recv"
    BY <1>4 DEF RecipeReturns, AwaitForwarder, ForwarderDone
  <2>4. ForwarderTypeOK' /\ Closing'
    BY <2>1, <2>3 DEF ForwarderInv, ForwarderTypeOK, Closing, Channels
  <2>5. QED
    BY <2>2, <2>4 DEF ForwarderInv
<1>5. CASE CloseChannel
  BY <1>5, MergedKept DEF CloseChannel, ForwarderInv, ForwarderTypeOK, Closing, Channels
<1>6. ASSUME NEW c \in Channels, SeeClosed(c)
      PROVE  ForwarderInv'
  BY <1>6, MergedKept DEF SeeClosed, ForwarderInv, ForwarderTypeOK, Closing
<1>7. CASE ForwarderExits
  BY <1>7, MergedKept DEF ForwarderExits, KeepsForwarding, ForwarderInv, ForwarderTypeOK,
                          Closing, Channels
<1>8. CASE DrainEvent
  BY <1>8, MergedKept DEF DrainEvent, ForwarderInv, ForwarderTypeOK, Closing
<1>9. CASE UNCHANGED vars
  BY <1>9, MergedKept DEF vars, ForwarderInv, ForwarderTypeOK, Closing
<1>10. QED
  BY <1>1, <1>2, <1>3, <1>4, <1>5, <1>6, <1>7, <1>8, <1>9
     DEF Next, EngineSide, ForwarderSide

LEMMA AlwaysForwarderInv == Spec => []ForwarderInv
  BY InitForwarderInv, ForwarderInvariance, PTL DEF Spec

\* Whatever the select chooses and wherever the forwarder dies, the target's
\* last event follows every message of its recipe, each sent once and in the
\* order of its channel.
THEOREM ForwarderCompleteIsLast == Spec => []CompleteIsLast
<1>1. ForwarderInv => CompleteIsLast
  <2> SUFFICES ASSUME ForwarderInv, recipe = "returned"
               PROVE  /\ Last(out) = Complete
                      /\ forwarder = "exited" => \A c \in Channels : AllInOrder(c)
    BY DEF CompleteIsLast
  <2>1. Last(out) = Complete
    BY DEF ForwarderInv, Closing
  <2>2. ASSUME forwarder = "exited", NEW c \in Channels
        PROVE  AllInOrder(c)
    <3>1. queue[c] = << >> /\ sent[c] \in Nat
      BY <2>2 DEF ForwarderInv, ForwarderTypeOK, Closing
    <3>2. Gone(c) = sent[c]
      BY <3>1 DEF Gone
    <3>3. QED
      BY <3>2 DEF ForwarderInv, Merged, AllInOrder
  <2>3. QED
    BY <2>1, <2>2
<1>2. QED
  BY <1>1, AlwaysForwarderInv, PTL

=============================================================================
