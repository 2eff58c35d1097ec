--------------------------- MODULE EventBroadcaster ---------------------------
(***************************************************************************)
(* internal/api/events.go: server-sent events.  Every connected client has *)
(* a handler goroutine (HandleSSE) and a bounded channel; Broadcast is     *)
(* called by any number of goroutines (the hooks on the window's events,   *)
(* handleRun, handleInstallTool); Shutdown is called when the program      *)
(* quits, and "is safe to call multiple times".                            *)
(*                                                                         *)
(* A sending goroutine sends one message, which carries its name.          *)
(***************************************************************************)
EXTENDS Naturals, Sequences, FiniteSets

CONSTANTS
  Clients,   \* connections to /api/events
  Senders,   \* goroutines that call Broadcast
  Stoppers,  \* goroutines that call Shutdown
  Cap        \* capacity of a client's channel (64 in the code)

ASSUME BroadcasterAssumption == Cap \in Nat \ {0}

VARIABLES
  handler,   \* the client's goroutine
  connected, \* its request's context is not done
  queue,     \* its channel
  chClosed,  \* its channel is closed
  clients,   \* EventBroadcaster.clients
  sender,    \* where each sender is
  todo,      \* the clients its loop has still to visit
  stopper,   \* where each caller of Shutdown is
  once,      \* shutdownOnce: "free", "running" or "done"
  shutdown,  \* close(shutdown) happened
  readers,   \* goroutines holding the lock for reading
  writer     \* goroutines holding it for writing, at most one

vars == <<handler, connected, queue, chClosed, clients, sender, todo,
          stopper, once, shutdown, readers, writer>>
clientVars == <<connected, queue, chClosed>>
senderVars == <<sender, todo>>
stopVars   == <<stopper, once, shutdown>>

-----------------------------------------------------------------------------
(* Mutations: plausible bugs *)

Mut_NoReadLock == TRUE
Mut_OnlyDisconnected(c) == ~connected[c]
Mut_BlockingSend(b, c) ==
  /\ sender[b] = "sending" /\ c \in todo[b]
  /\ Len(queue[c]) < Cap
  /\ queue' = [queue EXCEPT ![c] = Append(@, b)]
  /\ todo' = [todo EXCEPT ![b] = @ \ {c}]
  /\ UNCHANGED <<handler, connected, chClosed, clients, sender, stopVars, readers, writer>>

-----------------------------------------------------------------------------
Init ==
  /\ handler = [c \in Clients |-> "new"]
  /\ connected = [c \in Clients |-> TRUE]
  /\ queue = [c \in Clients |-> << >>]
  /\ chClosed = [c \in Clients |-> FALSE]
  /\ clients = {}
  /\ sender = [b \in Senders |-> "new"]
  /\ todo = [b \in Senders |-> {}]
  /\ stopper = [k \in Stoppers |-> "new"]
  /\ once = "free" /\ shutdown = FALSE
  /\ readers = {} /\ writer = {}

Free == readers = {} /\ writer = {}

-----------------------------------------------------------------------------
(* HandleSSE *)

Handler(c, from, to) == handler[c] = from /\ handler' = [handler EXCEPT ![c] = to]

Register(c) ==
  /\ Handler(c, "new", "select")
  /\ Free
  /\ clients' = clients \cup {c}
  /\ UNCHANGED <<clientVars, senderVars, stopVars, readers, writer>>

\* A message, or the empty string a closed channel yields for ever.
ReceiveMessage(c) ==
  /\ Handler(c, "select", "write")
  /\ queue[c] # << >>
  /\ queue' = [queue EXCEPT ![c] = Tail(@)]
  /\ UNCHANGED <<connected, chClosed, clients, senderVars, stopVars, readers, writer>>

ReceiveClosed(c) ==
  /\ Handler(c, "select", "write")
  /\ queue[c] = << >> /\ chClosed[c]
  /\ UNCHANGED <<clientVars, clients, senderVars, stopVars, readers, writer>>

\* Fprint and Flush.  A failed write ends the request's context.
WriteOut(c) ==
  /\ Handler(c, "write", "select")
  /\ \E alive \in {connected[c], FALSE} : connected' = [connected EXCEPT ![c] = alive]
  /\ UNCHANGED <<queue, chClosed, clients, senderVars, stopVars, readers, writer>>

MustLeave(c) == shutdown \/ ~connected[c]

Leave(c) ==
  /\ Handler(c, "select", "leaving")
  /\ MustLeave(c)
  /\ UNCHANGED <<clientVars, clients, senderVars, stopVars, readers, writer>>

Unregister(c) == clients \ {c}

\* The deferred delete, under the lock.
Left(c) ==
  /\ Handler(c, "leaving", "gone")
  /\ Free
  /\ clients' = Unregister(c)
  /\ UNCHANGED <<clientVars, senderVars, stopVars, readers, writer>>

Disconnect(c) ==
  /\ connected[c]
  /\ connected' = [connected EXCEPT ![c] = FALSE]
  /\ UNCHANGED <<handler, queue, chClosed, clients, senderVars, stopVars, readers, writer>>

-----------------------------------------------------------------------------
(* Broadcast *)

MayRead == writer = {}

LockForReading(b) ==
  /\ sender[b] = "new"
  /\ MayRead
  /\ readers' = readers \cup {b}
  /\ sender' = [sender EXCEPT ![b] = "sending"]
  /\ todo' = [todo EXCEPT ![b] = clients]
  /\ UNCHANGED <<handler, clientVars, clients, stopVars, writer>>

HasRoom(c) == Len(queue[c]) < Cap

\* The send that drops a message rather than wait.  On a closed channel it
\* would panic: SendsToOpen.
SendOrDrop(b, c) ==
  /\ sender[b] = "sending" /\ c \in todo[b]
  /\ queue' = IF HasRoom(c) THEN [queue EXCEPT ![c] = Append(@, b)] ELSE queue
  /\ todo' = [todo EXCEPT ![b] = @ \ {c}]
  /\ UNCHANGED <<handler, connected, chClosed, clients, sender, stopVars, readers, writer>>

UnlockReading(b) ==
  /\ sender[b] = "sending" /\ todo[b] = {}
  /\ sender' = [sender EXCEPT ![b] = "sent"]
  /\ readers' = readers \ {b}
  /\ UNCHANGED <<handler, clientVars, clients, todo, stopVars, writer>>

-----------------------------------------------------------------------------
(* Shutdown *)

FirstCall == once = "free"

\* shutdownOnce lets the first caller in and the others wait for it.
CloseShutdown(k) ==
  /\ stopper[k] = "new" /\ FirstCall
  /\ once' = "running"
  /\ shutdown' = TRUE
  /\ stopper' = [stopper EXCEPT ![k] = "lock"]
  /\ UNCHANGED <<handler, clientVars, clients, senderVars, readers, writer>>

LockForClosing(k) ==
  /\ stopper[k] = "lock" /\ Free
  /\ writer' = {k}
  /\ stopper' = [stopper EXCEPT ![k] = "closing"]
  /\ UNCHANGED <<handler, clientVars, clients, senderVars, once, shutdown, readers>>

CloseClient(k, c) ==
  /\ stopper[k] = "closing" /\ c \in clients
  /\ chClosed' = [chClosed EXCEPT ![c] = TRUE]
  /\ clients' = clients \ {c}
  /\ UNCHANGED <<handler, connected, queue, senderVars, stopVars, readers, writer>>

ShutdownDone(k) ==
  /\ stopper[k] = "closing" /\ clients = {}
  /\ writer' = {}
  /\ once' = "done"
  /\ stopper' = [stopper EXCEPT ![k] = "back"]
  /\ UNCHANGED <<handler, clientVars, clients, senderVars, shutdown, readers>>

ShutdownAgain(k) ==
  /\ stopper[k] = "new" /\ once = "done"
  /\ stopper' = [stopper EXCEPT ![k] = "back"]
  /\ UNCHANGED <<handler, clientVars, clients, senderVars, once, shutdown, readers, writer>>

-----------------------------------------------------------------------------
Receive(c) == ReceiveMessage(c) \/ ReceiveClosed(c)
Serve(c) == Register(c) \/ Receive(c) \/ WriteOut(c) \/ Leave(c) \/ Left(c)
Broadcast(b) == LockForReading(b) \/ (\E c \in Clients : SendOrDrop(b, c)) \/ UnlockReading(b)
Shutdown(k) ==
  \/ CloseShutdown(k) \/ LockForClosing(k) \/ (\E c \in Clients : CloseClient(k, c))
  \/ ShutdownDone(k) \/ ShutdownAgain(k)

Next ==
  \/ \E c \in Clients : Serve(c) \/ Disconnect(c)
  \/ \E b \in Senders : Broadcast(b)
  \/ \E k \in Stoppers : Shutdown(k)

Spec == Init /\ [][Next]_vars

\* The goroutines are scheduled; the lock is asked for finitely often, so it
\* gets free; a write ends because the server has a WriteTimeout; select picks
\* among its ready arms at random, so the arm that leaves is picked in the end.
Fairness ==
  /\ \A c \in Clients : WF_vars(Register(c) \/ WriteOut(c) \/ Left(c)) /\ SF_vars(Leave(c))
  /\ \A b \in Senders : WF_vars(Broadcast(b))
  /\ \A k \in Stoppers : WF_vars(Shutdown(k))

FairSpec == Spec /\ Fairness

-----------------------------------------------------------------------------
(* Properties *)

TypeOK ==
  /\ handler \in [Clients -> {"new", "select", "write", "leaving", "gone"}]
  /\ connected \in [Clients -> BOOLEAN] /\ chClosed \in [Clients -> BOOLEAN]
  /\ queue \in [Clients -> Seq(Senders)] /\ \A c \in Clients : Len(queue[c]) <= Cap
  /\ clients \subseteq Clients
  /\ sender \in [Senders -> {"new", "sending", "sent"}]
  /\ todo \in [Senders -> SUBSET Clients]
  /\ stopper \in [Stoppers -> {"new", "lock", "closing", "back"}]
  /\ once \in {"free", "running", "done"} /\ shutdown \in BOOLEAN
  /\ readers \subseteq Senders /\ writer \subseteq Stoppers

\* No Broadcast that runs while Shutdown does ever sends on a channel that
\* Shutdown has closed, which would panic.
SendsToOpen ==
  \A b \in Senders : sender[b] = "sending" => \A c \in todo[b] : ~chClosed[c]

\* "Safe to call multiple times": of all callers of Shutdown one closes.
ClosesOnce == Cardinality({k \in Stoppers : stopper[k] \in {"lock", "closing"}}) <= 1
              /\ (once = "done" => \A k \in Stoppers : stopper[k] \notin {"lock", "closing"})

\* A handler that is gone has left nothing behind that Broadcast would fill.
GoneIsForgotten == \A c \in Clients : handler[c] = "gone" => c \notin clients

\* Shutdown disconnects every client, also one that connects after it.
ShutdownDisconnects ==
  \A c \in Clients : (shutdown /\ handler[c] # "new") ~> handler[c] = "gone"

\* Clients that do not read never hold up the goroutine that broadcasts,
\* which is the pipeline's drainer.
BroadcastReturns == \A b \in Senders : sender[b] = "sending" ~> sender[b] = "sent"

=============================================================================
