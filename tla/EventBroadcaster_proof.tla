------------------------ MODULE EventBroadcaster_proof ------------------------
(***************************************************************************)
(* Proofs about EventBroadcaster, for any set of clients, senders and      *)
(* callers of Shutdown and any capacity of the channels.                   *)
(*                                                                         *)
(* Why no send meets a closed channel: a sender that is in its loop holds  *)
(* the lock for reading, so nobody holds it for writing (LockHeld); a      *)
(* channel is closed, and the table changed, only by who does; so what a   *)
(* sender has still to visit is in the table, and what is in the table is  *)
(* open (Members).                                                         *)
(***************************************************************************)
EXTENDS EventBroadcaster, FiniteSetTheorems, TLAPS

LockHeld ==
  /\ \A b \in Senders : b \in readers <=> sender[b] = "sending"
  /\ \A k \in Stoppers : k \in writer <=> stopper[k] = "closing"
  /\ readers = {} \/ writer = {}

Members ==
  /\ \A c \in clients : handler[c] \in {"select", "write", "leaving"} /\ ~chClosed[c]
  /\ \A c \in Clients : chClosed[c] => handler[c] # "new"
  /\ \A b \in Senders : sender[b] = "sending" => todo[b] \subseteq clients

Closing(k) == stopper[k] \in {"lock", "closing"}

Closer ==
  /\ \A k \in Stoppers : Closing(k) => once = "running"
  /\ \A k, l \in Stoppers : Closing(k) /\ Closing(l) => k = l

IInv == TypeOK /\ LockHeld /\ Members /\ Closer

-----------------------------------------------------------------------------
LEMMA InitIInv == Init => IInv
<1> SUFFICES ASSUME Init
             PROVE  IInv
  OBVIOUS
<1>1. << >> \in Seq(Senders) /\ Len(<< >>) <= Cap
  BY BroadcasterAssumption
<1>2. TypeOK
  BY <1>1 DEF Init, TypeOK
<1>3. LockHeld /\ Members /\ Closer
  BY DEF Init, LockHeld, Members, Closer, Closing
<1>4. QED
  BY <1>2, <1>3 DEF IInv

\* The handlers' goroutines: only Register and Left touch what the lock
\* protects, and both need it free.
LEMMA ServeKeeps ==
  ASSUME IInv, NEW c \in Clients, Serve(c) \/ Disconnect(c)
  PROVE  IInv'
<1>1. CASE Register(c)
  <2>1. \A b \in Senders : sender[b] # "sending"
    BY <1>1 DEF Register, Free, IInv, LockHeld
  <2>2. ~chClosed[c]
    BY <1>1 DEF Register, Handler, IInv, TypeOK, Members
  <2>3. TypeOK'
    BY <1>1 DEF Register, Handler, IInv, TypeOK, clientVars, senderVars, stopVars
  <2>4. Members'
    BY <1>1, <2>1, <2>2
    DEF Register, Handler, IInv, TypeOK, Members, clientVars, senderVars
  <2>5. LockHeld' /\ Closer'
    BY <1>1 DEF Register, IInv, LockHeld, Closer, Closing, senderVars, stopVars
  <2>6. QED
    BY <2>3, <2>4, <2>5 DEF IInv
<1>2. CASE ReceiveMessage(c)
  <2>1. /\ Tail(queue[c]) \in Seq(Senders)
        /\ Len(Tail(queue[c])) <= Cap
    BY <1>2, BroadcasterAssumption DEF ReceiveMessage, IInv, TypeOK
  <2>2. TypeOK'
    BY <1>2, <2>1 DEF ReceiveMessage, Handler, IInv, TypeOK, senderVars, stopVars
  <2>3. LockHeld' /\ Members' /\ Closer'
    BY <1>2 DEF ReceiveMessage, Handler, IInv, TypeOK, LockHeld, Members, Closer, Closing,
                senderVars, stopVars
  <2>4. QED
    BY <2>2, <2>3 DEF IInv
<1>3. CASE ReceiveClosed(c)
  BY <1>3 DEF ReceiveClosed, Handler, IInv, TypeOK, LockHeld, Members, Closer, Closing,
              clientVars, senderVars, stopVars
<1>4. CASE WriteOut(c)
  <2>1. TypeOK'
    BY <1>4 DEF WriteOut, Handler, IInv, TypeOK, senderVars, stopVars
  <2>2. LockHeld' /\ Members' /\ Closer'
    BY <1>4 DEF WriteOut, Handler, IInv, TypeOK, LockHeld, Members, Closer, Closing,
                senderVars, stopVars
  <2>3. QED
    BY <2>1, <2>2 DEF IInv
<1>5. CASE Leave(c)
  BY <1>5 DEF Leave, Handler, IInv, TypeOK, LockHeld, Members, Closer, Closing,
              clientVars, senderVars, stopVars
<1>6. CASE Left(c)
  <2>1. \A b \in Senders : sender[b] # "sending"
    BY <1>6 DEF Left, Free, IInv, LockHeld
  <2>2. TypeOK' /\ Members'
    BY <1>6, <2>1 DEF Left, Unregister, Handler, IInv, TypeOK, Members,
                      clientVars, senderVars, stopVars
  <2>3. LockHeld' /\ Closer'
    BY <1>6 DEF Left, IInv, LockHeld, Closer, Closing, senderVars, stopVars
  <2>4. QED
    BY <2>2, <2>3 DEF IInv
<1>7. CASE Disconnect(c)
  BY <1>7 DEF Disconnect, IInv, TypeOK, LockHeld, Members, Closer, Closing,
              senderVars, stopVars
<1>8. QED
  BY <1>1, <1>2, <1>3, <1>4, <1>5, <1>6, <1>7 DEF Serve, Receive

\* Broadcast: the table is copied into todo and does not change until the
\* lock is released.
LEMMA BroadcastKeeps ==
  ASSUME IInv, NEW b \in Senders, Broadcast(b)
  PROVE  IInv'
<1>1. CASE LockForReading(b)
  BY <1>1 DEF LockForReading, MayRead, IInv, TypeOK, LockHeld, Members, Closer, Closing,
              clientVars, stopVars
<1>2. ASSUME NEW c \in Clients, SendOrDrop(b, c)
      PROVE  IInv'
  <2>1. queue' \in [Clients -> Seq(Senders)] /\ \A d \in Clients : Len(queue'[d]) <= Cap
    <3>1. CASE HasRoom(c)
      <4>1. /\ Append(queue[c], b) \in Seq(Senders)
            /\ Len(Append(queue[c], b)) <= Cap
        BY <3>1, BroadcasterAssumption DEF HasRoom, IInv, TypeOK
      <4>2. queue' = [queue EXCEPT ![c] = Append(queue[c], b)]
        BY <1>2, <3>1 DEF SendOrDrop
      <4>3. QED
        BY <4>1, <4>2 DEF IInv, TypeOK
    <3>2. CASE ~HasRoom(c)
      BY <1>2, <3>2 DEF SendOrDrop, IInv, TypeOK
    <3>3. QED
      BY <3>1, <3>2
  <2>2. TypeOK'
    BY <1>2, <2>1 DEF SendOrDrop, IInv, TypeOK, stopVars
  <2>3. LockHeld' /\ Members' /\ Closer'
    BY <1>2 DEF SendOrDrop, IInv, TypeOK, LockHeld, Members, Closer, Closing, stopVars
  <2>4. QED
    BY <2>2, <2>3 DEF IInv
<1>3. CASE UnlockReading(b)
  BY <1>3 DEF UnlockReading, IInv, TypeOK, LockHeld, Members, Closer, Closing,
              clientVars, stopVars
<1>4. QED
  BY <1>1, <1>2, <1>3 DEF Broadcast

\* Shutdown: who closes holds the lock for writing, so nobody is sending.
LEMMA ShutdownKeeps ==
  ASSUME IInv, NEW k \in Stoppers, Shutdown(k)
  PROVE  IInv'
<1>1. CASE CloseShutdown(k)
  <2>1. \A l \in Stoppers : ~Closing(l)
    BY <1>1 DEF CloseShutdown, FirstCall, IInv, Closer
  <2>2. Closer'
    BY <1>1, <2>1 DEF CloseShutdown, IInv, TypeOK, Closer, Closing
  <2>3. TypeOK' /\ LockHeld' /\ Members'
    BY <1>1 DEF CloseShutdown, IInv, TypeOK, LockHeld, Members, clientVars, senderVars
  <2>4. QED
    BY <2>2, <2>3 DEF IInv
<1>2. CASE LockForClosing(k)
  <2>1. \A l \in Stoppers : stopper[l] # "closing"
    BY <1>2 DEF LockForClosing, Free, IInv, LockHeld
  <2>2. LockHeld'
    BY <1>2, <2>1 DEF LockForClosing, Free, IInv, TypeOK, LockHeld, senderVars
  <2>3. TypeOK' /\ Members' /\ Closer'
    BY <1>2 DEF LockForClosing, IInv, TypeOK, Members, Closer, Closing,
                clientVars, senderVars
  <2>4. QED
    BY <2>2, <2>3 DEF IInv
<1>3. ASSUME NEW c \in Clients, CloseClient(k, c)
      PROVE  IInv'
  <2>1. \A b \in Senders : sender[b] # "sending"
    BY <1>3 DEF CloseClient, IInv, LockHeld
  <2>2. TypeOK' /\ Members'
    BY <1>3, <2>1 DEF CloseClient, IInv, TypeOK, Members, senderVars, stopVars
  <2>3. LockHeld' /\ Closer'
    BY <1>3 DEF CloseClient, IInv, LockHeld, Closer, Closing, senderVars, stopVars
  <2>4. QED
    BY <2>2, <2>3 DEF IInv
<1>4. CASE ShutdownDone(k)
  <2>1. \A l \in Stoppers : l # k => ~Closing(l)
    BY <1>4 DEF ShutdownDone, IInv, Closer, Closing
  <2>2. LockHeld' /\ Closer'
    BY <1>4, <2>1 DEF ShutdownDone, IInv, TypeOK, LockHeld, Closer, Closing, senderVars
  <2>3. TypeOK' /\ Members'
    BY <1>4 DEF ShutdownDone, IInv, TypeOK, Members, clientVars, senderVars
  <2>4. QED
    BY <2>2, <2>3 DEF IInv
<1>5. CASE ShutdownAgain(k)
  BY <1>5 DEF ShutdownAgain, IInv, TypeOK, LockHeld, Members, Closer, Closing,
              clientVars, senderVars
<1>6. QED
  BY <1>1, <1>2, <1>3, <1>4, <1>5 DEF Shutdown

-----------------------------------------------------------------------------
LEMMA Invariance == IInv /\ [Next]_vars => IInv'
<1> SUFFICES ASSUME IInv, [Next]_vars
             PROVE  IInv'
  OBVIOUS
<1>1. CASE UNCHANGED vars
  BY <1>1 DEF vars, IInv, TypeOK, LockHeld, Members, Closer, Closing
<1>2. QED
  BY <1>1, ServeKeeps, BroadcastKeeps, ShutdownKeeps DEF Next

LEMMA AlwaysIInv == Spec => []IInv
  BY InitIInv, Invariance, PTL DEF Spec

-----------------------------------------------------------------------------
\* Every variable of the broadcaster keeps its type; in particular no channel
\* ever holds more than its capacity.
THEOREM EventsTypeOK == Spec => []TypeOK
<1>1. IInv => TypeOK
  BY DEF IInv
<1>2. QED
  BY <1>1, AlwaysIInv, PTL

\* However many goroutines broadcast while Shutdown runs, none of them ever
\* sends on a channel that Shutdown has closed.
THEOREM EventsSendsToOpen == Spec => []SendsToOpen
<1>1. IInv => SendsToOpen
  BY DEF IInv, Members, SendsToOpen
<1>2. QED
  BY <1>1, AlwaysIInv, PTL

\* However many goroutines call Shutdown, one of them closes, and when the
\* call has been made nobody is closing any more.
THEOREM EventsClosesOnce == Spec => []ClosesOnce
<1>1. ASSUME IInv
      PROVE  ClosesOnce
  <2> DEFINE S == {k \in Stoppers : stopper[k] \in {"lock", "closing"}}
  <2>1. S = {} \/ \E k \in Stoppers : S = {k}
    BY <1>1 DEF IInv, Closer, Closing
  <2>2. Cardinality(S) <= 1
    <3> HIDE DEF S
    <3>1. CASE S = {}
      BY <3>1, FS_EmptySet
    <3>2. CASE \E k \in Stoppers : S = {k}
      BY <3>2, FS_Singleton
    <3>3. QED
      BY <2>1, <3>1, <3>2
  <2>3. once = "done" => \A k \in Stoppers : stopper[k] \notin {"lock", "closing"}
    BY <1>1 DEF IInv, Closer, Closing
  <2>4. QED
    BY <2>2, <2>3 DEF ClosesOnce
<1>2. QED
  BY <1>1, AlwaysIInv, PTL

\* A client whose handler has ended is not in the table any more, and never
\* comes back.
THEOREM EventsGoneIsForgotten == Spec => []GoneIsForgotten
<1>1. IInv => GoneIsForgotten
  BY DEF IInv, Members, GoneIsForgotten
<1>2. QED
  BY <1>1, AlwaysIInv, PTL

=============================================================================
