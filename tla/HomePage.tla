------------------------------- MODULE HomePage -------------------------------
(***************************************************************************)
(* The window's page (frontend/src: App.svelte, pages/HomePage.svelte,     *)
(* lib/pipeline.ts) in front of the pipeline service: it runs what the     *)
(* user chooses, follows the events of every run, those started through    *)
(* the API too, and shows one phase for all of them.  Calls of the service *)
(* are awaited; between a call and its answer the user and other events    *)
(* go on.  Answers and events are on ways of their own.                    *)
(*                                                                         *)
(* The phases analysis, tools and execute are "busy".                      *)
(***************************************************************************)
EXTENDS Naturals, Sequences

CONSTANTS Inputs, NoInput,   \* files and directories; the empty path
          MaxChoices,        \* bound: choices of the user and runs of the API
          MaxSent,           \* bound: events of a run before its last
          MaxWire            \* bound: events under way at a time

ASSUME HomePageAssumption ==
  /\ NoInput \notin Inputs
  /\ {MaxChoices, MaxSent, MaxWire} \subseteq Nat \ {0}

VARIABLES
  page,    \* [path, last, phase, home, starting]: inputPath, lastRunPath, the
           \* store's phase, Home is mounted, startupBusy
  asked,   \* other answers that are awaited: of PickFile, Stop, GetStatus
  chosen,  \* what the user has chosen so far
  calls,   \* of runPipeline: [path, choice, at, moved]: until Run has it, its path
           \* and whether the user has changed the page's before the call read it
  serving, \* the service: [by, call, path, stopped, left, others]
  wire     \* events on their way to the window

homeVars == <<page, asked, chosen, calls, serving, wire>>

-----------------------------------------------------------------------------
(* The effects of the page run before anything else does: lastRunPath is   *)
(* cleared with the path, and a path that is not the last one is run.      *)
AutoStarts(p) ==
  /\ p.home /\ ~p.starting /\ p.phase = "idle"
  /\ p.path \notin {NoInput, p.last}

Settles(p, choices, cs) ==
  /\ page' = CASE AutoStarts(p)                  -> [p EXCEPT !.last = p.path, !.phase = "busy"]
               [] p.home /\ p.path = NoInput     -> [p EXCEPT !.last = NoInput]
               [] OTHER                          -> p
  /\ chosen' = choices
  /\ calls' = IF AutoStarts(p)
              THEN Append(cs, [path |-> p.path, choice |-> Len(choices), at |-> "runtimes",
                               moved |-> FALSE])
              ELSE cs

Becomes(p) == Settles(p, chosen, calls)

\* The user changes the path under the calls that have not read it yet.
Moved == [k \in DOMAIN calls |-> [calls[k] EXCEPT !.moved = @ \/ calls[k].at = "runtimes"]]
Bounded == Len(chosen) + serving.others < MaxChoices
Chooses(i) ==
  /\ Bounded
  /\ Settles([page EXCEPT !.path = i], Append(chosen, i), Moved)

-----------------------------------------------------------------------------
(* The user *)

\* Dropped, or taken from the list of earlier inputs, which is never disabled.
Choose ==
  /\ page.home /\ page.path = NoInput
  /\ \E i \in Inputs : Chooses(i)
  /\ UNCHANGED <<asked, serving, wire>>

BrowseBegins ==
  /\ page.home /\ page.path = NoInput
  /\ page.phase # "busy" /\ ~page.starting
  /\ asked' = asked \union {"file"}
  /\ UNCHANGED <<page, chosen, calls, serving, wire>>

\* Whatever the page shows by now.
BrowseEnds ==
  /\ "file" \in asked /\ asked' = asked \ {"file"}
  /\ \/ \E i \in Inputs : Chooses(i)
     \/ UNCHANGED <<page, chosen, calls>>
  /\ UNCHANGED <<serving, wire>>

\* Mounted with a path, the page asks whether a run is going on.
Mounts == IF page.path # NoInput THEN asked \union {"status"} ELSE asked

Navigate ==
  /\ Becomes([page EXCEPT !.home = ~@])
  /\ asked' = IF page.home THEN asked ELSE Mounts
  /\ UNCHANGED <<serving, wire>>

\* handleCancel: Stop, and after its answer the phase.
Cancel ==
  /\ page.home /\ page.path # NoInput /\ page.phase = "busy"
  /\ asked' = asked \union {"stop"}
  /\ serving' = [serving EXCEPT !.stopped = (serving.by # "nobody")]
  /\ UNCHANGED <<page, chosen, calls, wire>>

\* handleClear, of the button "new file".
Clear ==
  /\ page.home /\ page.path # NoInput /\ page.phase \in {"done", "cancelled", "error"}
  /\ Settles([page EXCEPT !.path = NoInput, !.last = NoInput, !.phase = "idle"], chosen, Moved)
  /\ UNCHANGED <<asked, serving, wire>>

-----------------------------------------------------------------------------
(* What the window awaits *)

StartupEnds ==
  /\ page.starting
  /\ Becomes([page EXCEPT !.starting = FALSE])
  /\ UNCHANGED <<asked, serving, wire>>

Stopped ==
  /\ "stop" \in asked /\ asked' = asked \ {"stop"}
  /\ Becomes([page EXCEPT !.phase = "cancelled"])
  /\ UNCHANGED <<serving, wire>>

StatusKnown ==
  /\ "status" \in asked /\ asked' = asked \ {"status"}
  /\ Becomes([page EXCEPT !.last = IF serving.by # "nobody" THEN page.path ELSE @])
  /\ UNCHANGED <<serving, wire>>

\* A call that has handed its path over, or is over.
CallAt(k, to) == [calls EXCEPT ![k].at = to, ![k].path = NoInput, ![k].moved = FALSE]

\* runPipeline: a required runtime is missing, or Run is called with the path
\* that the page has by then.
Given(k) == [calls EXCEPT ![k].at = "run", ![k].path = page.path]

Mut_MissingIgnored(k) ==
  /\ calls[k].at = "runtimes"
  /\ calls' \in {Given(k), CallAt(k, "over")}
  /\ UNCHANGED <<page, asked, chosen, serving, wire>>

CheckRuntimes(k) ==
  /\ calls[k].at = "runtimes"
  /\ \/ calls' = Given(k) /\ UNCHANGED <<page, chosen>>
     \/ Settles([page EXCEPT !.phase = "error"], chosen, CallAt(k, "over"))
  /\ UNCHANGED <<asked, serving, wire>>

\* Run has failed: the events may have said so already.
Rejected(k) ==
  /\ calls[k].at \in {"failed", "cancelled"}
  /\ Settles([page EXCEPT !.phase = CASE page.phase \in {"done", "cancelled"} -> page.phase
                                      [] calls[k].at = "cancelled"            -> "cancelled"
                                      [] OTHER                                -> "error"],
             chosen, CallAt(k, "over"))
  /\ UNCHANGED <<asked, serving, wire>>

\* updateFromEvent: what it makes of the phase.
PhaseAfter(event) ==
  CASE event.kind = "skip" -> page.phase
    [] event.kind = "step" -> "busy"
    [] event.kind = "fail" -> "error"
    [] event.kind = "done" -> "done"

\* App.svelte: without a path the window takes that of the event, as one that
\* has been run, and shows Home.
Mut_AdoptedAsNew(event) ==
  LET p == [page EXCEPT !.phase = PhaseAfter(event), !.home = TRUE]
  IN  IF page.path = NoInput /\ event.target # NoInput THEN [p EXCEPT !.path = event.target] ELSE p

Followed(event) ==
  LET p == [page EXCEPT !.phase = PhaseAfter(event), !.home = TRUE]
  IN  IF page.path = NoInput /\ event.target # NoInput
      THEN [p EXCEPT !.path = event.target, !.last = event.target] ELSE p

Deliver ==
  /\ wire # << >> /\ wire' = Tail(wire)
  /\ Becomes(Followed(Head(wire)))
  /\ asked' = IF page.home THEN asked ELSE Mounts
  /\ UNCHANGED serving

-----------------------------------------------------------------------------
(* The service.  PipelineService models it in detail. *)

Serves(by, call, path) ==
  serving' = [serving EXCEPT !.by = by, !.call = call, !.path = path, !.left = MaxSent]

\* Run: another run is going on, the configuration cannot be read, or it runs.
RunCalled(k) ==
  /\ calls[k].at = "run"
  /\ \/ serving.by # "nobody" /\ calls' = CallAt(k, "dropped") /\ UNCHANGED serving
     \/ /\ serving.by = "nobody"
        /\ \/ calls' = CallAt(k, "failed") /\ UNCHANGED serving
           \/ calls' = CallAt(k, "served") /\ Serves("window", k, calls[k].path)
  /\ UNCHANGED <<page, asked, chosen, wire>>

RunElsewhere ==
  /\ serving.by = "nobody" /\ Bounded
  /\ \E i \in Inputs :
       serving' = [serving EXCEPT !.by = "api", !.call = 0, !.path = i,
                                  !.left = MaxSent, !.others = @ + 1]
  /\ UNCHANGED <<page, asked, chosen, calls, wire>>

\* The scan comes first; "skip" stands for every event that is not of a phase,
\* "fail" for one that carries an error.
EngineSends ==
  /\ serving.left > 0 /\ Len(wire) < MaxWire
  /\ \E kind \in IF serving.left = MaxSent THEN {"step"} ELSE {"step", "skip", "fail"} :
       wire' = Append(wire, [kind |-> kind, target |-> serving.path])
  /\ serving' = [serving EXCEPT !.left = @ - 1]
  /\ UNCHANGED <<page, asked, chosen, calls>>

\* The last event is sent on every way out of the engine.
EngineReturned ==
  /\ serving.by # "nobody" /\ serving.left < MaxSent /\ Len(wire) < MaxWire
  /\ wire' = Append(wire, [kind |-> "done", target |-> NoInput])
  /\ serving' = [serving EXCEPT !.by = "nobody", !.call = 0, !.path = NoInput,
                                !.stopped = FALSE, !.left = 0]
  /\ IF serving.by = "window"
     THEN \E end \in {"over", IF serving.stopped THEN "cancelled" ELSE "failed"} :
            calls' = CallAt(serving.call, end)
     ELSE UNCHANGED calls
  /\ UNCHANGED <<page, asked, chosen>>

-----------------------------------------------------------------------------
HomeInit ==
  /\ page = [path |-> NoInput, last |-> NoInput, phase |-> "idle", home |-> TRUE,
             starting |-> TRUE]
  /\ asked = {} /\ chosen = << >> /\ calls = << >> /\ wire = << >>
  /\ serving = [by |-> "nobody", call |-> 0, path |-> NoInput, stopped |-> FALSE,
                left |-> 0, others |-> 0]

CallNext == \E k \in DOMAIN calls : CheckRuntimes(k) \/ RunCalled(k) \/ Rejected(k)

HomeNext ==
  \/ Choose \/ BrowseBegins \/ BrowseEnds \/ Navigate \/ Cancel \/ Clear
  \/ StartupEnds \/ Stopped \/ StatusKnown \/ Deliver
  \/ CallNext \/ RunElsewhere \/ EngineSends \/ EngineReturned

\* Calls are answered, events arrive, and runs end.  All that is finite, so one
\* condition for all of it is enough.
HomeFairness == WF_homeVars(Stopped \/ Deliver \/ CallNext \/ EngineSends \/ EngineReturned)

-----------------------------------------------------------------------------
(* The page starts what the user has chosen and nothing else, each choice  *)
(* at most once, whatever arrives from runs of the API or of before,       *)
(* however often Home is left and shown again (App.svelte:42, "won't       *)
(* re-launch").  What it starts is what Run is given, after the check of   *)
(* the runtimes, unless the user has cleared or chosen the path in that    *)
(* time.  Only then Run is given the page's path of that moment            *)
(* (HomePage.svelte:208): it may be empty, an event's, or a later choice,  *)
(* which two calls may then run.                                           *)
RunsOnlyChosen ==
  \A k \in DOMAIN calls :
    LET it == calls[k]
    IN  /\ it.choice \in DOMAIN chosen
        /\ \A l \in 1 .. k - 1 : calls[l].choice # it.choice
        /\ it.at = "runtimes" \/ (it.at = "run" /\ ~it.moved) => it.path = chosen[it.choice]

(* Stated to show that exception: what Run is given is always the choice   *)
(* that its call is for.                                                   *)
RunsItsChoice ==
  \A k \in DOMAIN calls : calls[k].at = "run" => calls[k].path = chosen[calls[k].choice]

(* The window does not show work for ever: when everything has arrived it  *)
(* is idle or at an end, wherever it was cancelled, cleared and started    *)
(* anew, unless the service has dropped its last call.                     *)
WindowSettles ==
  <>[](page.phase = "busy" => calls # << >> /\ calls[Len(calls)].at = "dropped")
=============================================================================
