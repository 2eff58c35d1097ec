----------------------------- MODULE ToolsService -----------------------------
(***************************************************************************)
(* internal/services/tools_service.go: installs and deletions of tools and *)
(* runtimes, each in a goroutine of its own, with the table of active      *)
(* operations the window and the API show; and a client that waits for all *)
(* operations to end (internal/cli/api_cmd.go, APIToolsWait).              *)
(*                                                                         *)
(* A job is one request.  Its agenda is what it has still to install or    *)
(* delete.  What manager.Install leaves on disk is reduced to whether the  *)
(* tool is found afterwards.                                               *)
(***************************************************************************)
EXTENDS Naturals, Sequences, FiniteSets, SequencesExt

CONSTANTS
  Registry,         \* the tools, in the registry's order
  Runtimes,
  RuntimeDeps,      \* the runtimes each tool needs
  DownloadKey,      \* the key under which the download of a runtime reports
  Jobs,             \* the requests
  Kind,             \* of each: "install", "all", "auto" or "delete"
  ToolOf,           \* the tool of an "install" or a "delete"
  Together          \* which of the requests come in one behaviour

Tools == ToSet(Registry)
Items == Tools \cup Runtimes

ASSUME ToolsAssumption ==
  /\ Tools \cap Runtimes = {}
  /\ RuntimeDeps \in [Tools -> SUBSET Runtimes]
  /\ \A r \in Runtimes : DownloadKey[r] \notin Items
  /\ Kind \in [Jobs -> {"install", "all", "auto", "delete"}]
  /\ ToolOf \in [Jobs -> Tools]
  /\ Together \subseteq SUBSET Jobs

VARIABLES
  pc,         \* where each job's goroutine is
  agenda,     \* the items it has still to work on, the current one first
  installed,  \* what is found on disk
  activeOps,  \* the keys of ToolsService.activeOps
  client,     \* where the waiting client is
  signalled   \* the change channel it waits on is closed

vars == <<pc, agenda, installed, activeOps, client, signalled>>

-----------------------------------------------------------------------------
(* Mutations: plausible bugs *)

Mut_KeptOnFailure(j, ok) == IF ok THEN activeOps \ {Head(agenda[j])} ELSE activeOps
Mut_RetriesForever(j) == IF Kind[j] = "auto" THEN agenda[j] ELSE << >>
Mut_NoTimeout == FALSE

-----------------------------------------------------------------------------
Init ==
  /\ \E came \in Together : pc = [j \in Jobs |-> IF j \in came THEN "new" ELSE "over"]
  /\ agenda = [j \in Jobs |-> << >>]
  /\ installed \in SUBSET Items
  /\ activeOps = {}
  /\ client = "poll" /\ signalled = FALSE

Current(j) == Head(agenda[j])
Goto(j, from, to) == pc[j] = from /\ pc' = [pc EXCEPT ![j] = to]
Ready(j) == pc[j] \in {"first", "next"}     \* first: nothing shown yet
Missing(t) == IF t \in Tools THEN RuntimeDeps[t] \ installed ELSE {}

-----------------------------------------------------------------------------
(* The jobs *)

InRegistryOrder(tools) == SelectSeq(Registry, LAMBDA t : t \in tools)

\* InstallAll looks at every tool once and takes the runtimes they need first,
\* in any order: a Go map has none.
PlanAll ==
  LET pending == Tools \ installed
      needed  == UNION {RuntimeDeps[t] : t \in pending}
  IN  {r \o InRegistryOrder(pending) : r \in SetToSeqs(needed)}

\* Install and Delete are for one tool; StartupAutoUpdate goes through the
\* installed tools that have an update.
Plan(j) ==
  CASE Kind[j] = "all"  -> PlanAll
    [] Kind[j] = "auto" -> {InRegistryOrder(u) : u \in SUBSET (Tools \cap installed)}
    [] OTHER            -> {<<ToolOf[j]>>}

StartJob(j) ==
  /\ Goto(j, "new", "first")
  /\ \E plan \in Plan(j) : agenda' = [agenda EXCEPT ![j] = plan]
  /\ UNCHANGED <<installed, activeOps, client, signalled>>

EndJob(j) ==
  /\ agenda[j] = << >> /\ Ready(j)
  /\ pc' = [pc EXCEPT ![j] = "over"]
  /\ UNCHANGED <<agenda, installed, activeOps, client, signalled>>

\* A runtime that is there by now is not installed again.
SkipRuntime(j) ==
  /\ agenda[j] # << >> /\ Current(j) \in Runtimes \cap installed
  /\ Ready(j)
  /\ agenda' = [agenda EXCEPT ![j] = Tail(@)]
  /\ UNCHANGED <<pc, installed, activeOps, client, signalled>>

\* ensureRuntimeDeps installs a missing runtime before the tool.
RuntimeBefore(j) ==
  /\ agenda[j] # << >> /\ Ready(j)
  /\ Kind[j] # "delete"
  /\ \E r \in Missing(Current(j)) : agenda' = [agenda EXCEPT ![j] = <<r>> \o @]
  /\ UNCHANGED <<pc, installed, activeOps, client, signalled>>

\* A tool's download reports under the tool's own key, a runtime's (whose key
\* as an item is kind-runtime) as "dotnet-sdk", "java-jre" or "dotnet-aspnet10".
ReportedAs(i) == IF i \in Runtimes THEN DownloadKey[i] ELSE i

WithEntry(j) == activeOps \cup {Current(j)}

\* updateOp: the entry under the lock, then the broadcast.
Begin(j) ==
  /\ agenda[j] # << >> /\ Current(j) \notin Runtimes \cap installed
  /\ Kind[j] = "delete" \/ Missing(Current(j)) = {}
  /\ Ready(j) /\ pc' = [pc EXCEPT ![j] = "begun"]
  /\ activeOps' = WithEntry(j)
  /\ UNCHANGED <<agenda, installed, client, signalled>>

\* A progress callback, from within manager.Install or InstallRuntime: updateOp
\* again, under the key the callback has.
Progress(j) ==
  /\ Kind[j] # "delete"
  /\ Goto(j, "work", "begun")
  /\ activeOps' = activeOps \cup {ReportedAs(Current(j))}
  /\ UNCHANGED <<agenda, installed, client, signalled>>

BroadcastChange(j, from, to) ==
  /\ Goto(j, from, to)
  /\ signalled' = (signalled \/ client = "wait")
  /\ UNCHANGED <<agenda, installed, activeOps, client>>

WithoutEntry(j, ok) == activeOps \ {Current(j)}

\* A failing install may leave what was there, or nothing.
Outcome(j, ok) ==
  CASE Kind[j] = "delete" -> {installed \ {Current(j)}} \cup (IF ok THEN {} ELSE {installed})
    [] Kind[j] # "delete" /\ ok -> {installed \cup {Current(j)}}
    [] OTHER -> {installed, installed \ {Current(j)}}

\* manager.Install or Delete returns, with the disk as it left it.  A download
\* reports at its end at the latest, and a runtime is always downloaded.
Returned(j, ok) ==
  /\ Goto(j, "work", IF ok THEN "done" ELSE "failed")
  /\ ok /\ Current(j) \in Runtimes => ReportedAs(Current(j)) \in activeOps
  /\ installed' \in Outcome(j, ok)
  /\ UNCHANGED <<agenda, activeOps, client, signalled>>

\* StartupAutoUpdate goes on after a tool that failed, the others stop; so
\* does it when a runtime failed, with the tool that needs it.
AfterFailure(j) ==
  IF Kind[j] # "auto" THEN << >>
  ELSE IF Current(j) \in Runtimes
         THEN SubSeq(agenda[j], 1 + SelectInSeq(agenda[j], LAMBDA i : i \in Tools), Len(agenda[j]))
         ELSE Tail(agenda[j])

\* removeOp, and what is next.
RemoveOp(j, ok) ==
  /\ Goto(j, IF ok THEN "done" ELSE "failed", "removed")
  /\ activeOps' = WithoutEntry(j, ok)
  /\ agenda' = [agenda EXCEPT ![j] = IF ok THEN Tail(@) ELSE AfterFailure(j)]
  /\ UNCHANGED <<installed, client, signalled>>

-----------------------------------------------------------------------------
(* The waiting client: GET /api/tools?wait=30, again and again *)

TakeChannel ==
  /\ client = "poll"
  /\ client' = "wait" /\ signalled' = FALSE
  /\ UNCHANGED <<pc, agenda, installed, activeOps>>

Signal == client = "wait" /\ signalled
Timeout == client = "wait"

Wake ==
  /\ Signal \/ Timeout
  /\ client' = "read" /\ signalled' = FALSE
  /\ UNCHANGED <<pc, agenda, installed, activeOps>>

\* GetToolsEnriched; not busy ends the wait.
Answer ==
  /\ client = "read"
  /\ client' = IF activeOps = {} THEN "told" ELSE "poll"
  /\ UNCHANGED <<pc, agenda, installed, activeOps, signalled>>

-----------------------------------------------------------------------------
Job(j) ==
  \/ StartJob(j) \/ EndJob(j) \/ SkipRuntime(j) \/ RuntimeBefore(j) \/ Begin(j)
  \/ BroadcastChange(j, "begun", "work") \/ BroadcastChange(j, "removed", "next")
  \/ \E ok \in BOOLEAN : Returned(j, ok) \/ RemoveOp(j, ok)

Client == TakeChannel \/ Wake \/ Answer

Next == (\E j \in Jobs : Job(j) \/ Progress(j)) \/ Client

Spec == Init /\ [][Next]_vars

\* Goroutines and the client are scheduled, and its timer fires.  Installs
\* end: a job reports progress only finitely often between its other steps.
Fairness ==
  /\ WF_vars(Client)
  /\ \A j \in Jobs : WF_vars(Job(j)) /\ SF_vars(\E ok \in BOOLEAN : Returned(j, ok))

FairSpec == Spec /\ Fairness

-----------------------------------------------------------------------------
(* Properties *)

Working(j) == pc[j] \in {"begun", "work", "done", "failed"}

\* An entry of a tool or of a runtime belongs to a job that is still to remove
\* it, however jobs on one tool overlap and fail: the window never shows an
\* operation on a tool for ever.  (The entry under which the download of a
\* runtime reports is nobody's: WaitEnds.)
NoGhostOp == \A t \in activeOps \cap Items : \E j \in Jobs : Working(j) /\ Current(j) = t

\* Begun, and not through with its agenda.
InProgress(j) == Working(j) \/ (pc[j] \in {"removed", "next"} /\ agenda[j] # << >>)

\* api_cmd.go:142, "until no operations are busy", and line 175, "All tool
\* operations complete.": a client that was told so was told the truth.
ToldTheTruth ==
  [][client = "read" /\ client' = "told" => \A j \in Jobs : ~InProgress(j)]_vars

\* api_cmd.go:142, "polls the tools endpoint with long-poll until no
\* operations are busy": the wait ends.
WaitEnds == <>(client = "told")

\* What a runtime's download has left in the table.
Leftover == {ReportedAs(r) : r \in Runtimes} \cap activeOps

\* Every request ends, whatever fails, however often and in whichever job, and so
\* does the wait of the client, although a change that comes between two of
\* its polls wakes nobody; unless a runtime was downloaded meanwhile, whose
\* report stays in the table.
JobsEnd ==
  (\E j \in Jobs : pc[j] # "new") ~>
     (\A j \in Jobs : pc[j] = "over") /\ (client = "told" \/ Leftover # {})

=============================================================================
