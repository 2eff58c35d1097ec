--------------------------- MODULE RecipeForwarder ---------------------------
(***************************************************************************)
(* Engine.executeRecipe and executeRecipeWithFilter: a recipe reports on   *)
(* two bounded channels, a forwarder goroutine merges them into the run's  *)
(* events channel, and when the recipe is over the engine closes both,     *)
(* waits for the forwarder and sends the target's last event itself.       *)
(*                                                                         *)
(* A message is its number in its channel.  `out` is the history of what   *)
(* was sent to the events channel; `pending` is how much of it the drainer *)
(* of PipelineService has not received yet.                                *)
(***************************************************************************)
EXTENDS Naturals, Sequences, SequencesExt

CONSTANTS
  MaxProgress, MaxLogs,      \* messages one recipe sends, bounds of the model
  ProgressCap, LogCap,       \* capacities (20 and 50 in the code)
  EventCap                   \* capacity of the events channel (100)

ASSUME CapsAssumption ==
  /\ {MaxProgress, MaxLogs} \subseteq Nat
  /\ {ProgressCap, LogCap, EventCap} \subseteq Nat \ {0}

VARIABLES
  recipe,        \* "running", the channel it is sending on, "closing",
                 \* "awaiting", "reporting", "returned"
  sent,          \* messages sent on each channel
  queue,         \* the contents of each channel
  closed,        \* whether each channel is closed
  open,          \* the forwarder's progressOpen and logOpen
  forwarder,     \* "recv", "exited", or "dead" after a recovered panic
  out, pending

vars == <<recipe, sent, queue, closed, open, forwarder, out, pending>>

Channels == {"progress", "log"}
Limit == [progress |-> MaxProgress, log |-> MaxLogs]
ChanCap == [progress |-> ProgressCap, log |-> LogCap]
Message(chan, n) == [chan |-> chan, n |-> n]
Complete == [chan |-> "complete", n |-> 0]

Init ==
  /\ recipe = "running" /\ forwarder = "recv"
  /\ sent = [c \in Channels |-> 0]
  /\ queue = [c \in Channels |-> << >>]
  /\ closed = [c \in Channels |-> FALSE]
  /\ open = [c \in Channels |-> TRUE]
  /\ out = << >> /\ pending = 0

Mut_EitherOpen == open["progress"] /\ open["log"]
Mut_AlwaysMore == TRUE

-----------------------------------------------------------------------------
(* The engine's goroutine, inside rec.Execute and after it *)

HasRoom(c) == Len(queue[c]) < ChanCap[c]

\* ctx.Progress <- p, ctx.Log <- line: the recipe waits in the send, whatever
\* happens meanwhile; it looks neither at its context nor at the forwarder.
RecipeSends(c) ==
  /\ recipe = "running" /\ sent[c] < Limit[c]
  /\ recipe' = c
  /\ UNCHANGED <<sent, queue, closed, open, forwarder, out, pending>>

SendGoesThrough(c) ==
  /\ recipe = c /\ HasRoom(c)
  /\ recipe' = "running"
  /\ sent' = [sent EXCEPT ![c] = @ + 1]
  /\ queue' = [queue EXCEPT ![c] = Append(@, sent[c] + 1)]
  /\ UNCHANGED <<closed, open, forwarder, out, pending>>

RecipeReturns ==
  /\ recipe = "running"
  /\ recipe' = "closing"
  /\ UNCHANGED <<sent, queue, closed, open, forwarder, out, pending>>

\* close(progressCh), then close(logCh).
CloseChannel ==
  /\ recipe = "closing"
  /\ IF closed["progress"]
       THEN closed' = [closed EXCEPT !["log"] = TRUE] /\ recipe' = "awaiting"
       ELSE closed' = [closed EXCEPT !["progress"] = TRUE] /\ UNCHANGED recipe
  /\ UNCHANGED <<sent, queue, open, forwarder, out, pending>>

ForwarderDone == forwarder # "recv"

AwaitForwarder ==
  /\ recipe = "awaiting"
  /\ ForwarderDone
  /\ recipe' = "reporting"
  /\ UNCHANGED <<sent, queue, closed, open, forwarder, out, pending>>

\* A blocking send on the events channel.
SendEvent(ev) ==
  /\ pending < EventCap
  /\ out' = Append(out, ev)
  /\ pending' = pending + 1

SendComplete ==
  /\ recipe = "reporting"
  /\ SendEvent(Complete)
  /\ recipe' = "returned"
  /\ UNCHANGED <<sent, queue, closed, open, forwarder>>

-----------------------------------------------------------------------------
(* The forwarder goroutine *)

KeepsForwarding == open["progress"] \/ open["log"]

Received(c) == Tail(queue[c])

\* One arm of the select; which one is Go's choice when both are ready.  A
\* channel seen closed stays ready and is received from again.
Forward(c) ==
  /\ forwarder = "recv" /\ KeepsForwarding /\ queue[c] # << >>
  /\ SendEvent(Message(c, Head(queue[c])))
  /\ queue' = [queue EXCEPT ![c] = Received(c)]
  /\ \E after \in {"recv", "dead"} : forwarder' = after
  /\ UNCHANGED <<recipe, sent, closed, open>>

SeeClosed(c) ==
  /\ forwarder = "recv" /\ KeepsForwarding
  /\ closed[c] /\ queue[c] = << >>
  /\ open' = [open EXCEPT ![c] = FALSE]
  /\ UNCHANGED <<recipe, sent, queue, closed, forwarder, out, pending>>

ForwarderExits ==
  /\ forwarder = "recv" /\ ~KeepsForwarding
  /\ forwarder' = "exited"
  /\ UNCHANGED <<recipe, sent, queue, closed, open, out, pending>>

\* The service's drainer receives an event.
DrainEvent ==
  /\ pending > 0
  /\ pending' = pending - 1
  /\ UNCHANGED <<recipe, sent, queue, closed, open, forwarder, out>>

-----------------------------------------------------------------------------
EngineSide ==
  \/ \E c \in Channels : SendGoesThrough(c)
  \/ RecipeReturns \/ CloseChannel \/ AwaitForwarder \/ SendComplete
ForwarderSide == (\E c \in Channels : Forward(c) \/ SeeClosed(c)) \/ ForwarderExits

Next == (\E c \in Channels : RecipeSends(c)) \/ EngineSide \/ ForwarderSide \/ DrainEvent

Spec == Init /\ [][Next]_vars

\* A recipe's own steps end (see StreamingExec for when they do not); the
\* goroutines are scheduled.  SeeClosed can repeat, so each arm of the select
\* is owed its turn: Go chooses among the ready arms at random.
Fairness ==
  /\ WF_vars(EngineSide) /\ WF_vars(DrainEvent) /\ WF_vars(ForwarderExits)
  /\ \A c \in Channels : SF_vars(Forward(c)) /\ SF_vars(SeeClosed(c))

FairSpec == Spec /\ Fairness

-----------------------------------------------------------------------------
(* Properties *)

Forwarded(c) == {i \in DOMAIN out : out[i].chan = c}

AllInOrder(c) ==
  /\ {out[i].n : i \in Forwarded(c)} = 1 .. sent[c]
  /\ \A i, j \in Forwarded(c) : i < j => out[i].n < out[j].n

\* Whatever the select chooses, when the target's last event is sent every
\* message of its recipe has been, each once and in its channel's order
\* (unless the forwarder had died), and nothing of this recipe follows.
CompleteIsLast ==
  recipe = "returned" =>
    /\ Last(out) = Complete
    /\ forwarder = "exited" => \A c \in Channels : AllInOrder(c)

\* A recipe that is sending or has ended gets through, and the engine past
\* its end, with one exception: a forwarder that died from a panic (which it
\* recovers and logs) reads nothing any more, and the recipe waits for ever in
\* the send after the one that filled the channel; so does the run.
Hangs == forwarder = "dead" /\ \E c \in Channels : recipe = c /\ ~HasRoom(c)

Returns == recipe # "running" ~> recipe = "returned" \/ Hangs

=============================================================================
