----------------------------- MODULE Tools_proof -----------------------------
(***************************************************************************)
(* Proofs about the tools: the table of operations, and one installation.  *)
(*                                                                         *)
(* ToolsService, for any registry, any dependencies of tools on runtimes   *)
(* and any requests, of which any number may be on one tool.  The table is *)
(* keyed by tool, so the entry a job removes may be the one another job    *)
(* has put there.  It is therefore not "every working job has its entry"   *)
(* that is preserved, but the converse, NoGhostOp: an entry that a removal *)
(* leaves has another key, so another job.                                 *)
(*                                                                         *)
(* ToolInstall, for any number of attempts and of deletions, with or       *)
(* without a crash.  That no torn download stays holds for any number of   *)
(* installers.  That the version is the binary's needs that nobody else    *)
(* installs the tool (OneInstaller): two of them can write over each       *)
(* other's binary.                                                         *)
(***************************************************************************)
EXTENDS ToolsService, ToolInstall, TLAPS

Shape == DOMAIN pc = Jobs /\ DOMAIN agenda = Jobs

IInv == Shape /\ NoGhostOp

-----------------------------------------------------------------------------
\* While a job j moves and the table does not grow, every entry keeps the job
\* it had, if j stays at work on the same item or was not at work.
LEMMA EntriesKept ==
  ASSUME IInv, NEW j \in Jobs,
         activeOps' \subseteq activeOps,
         \A k \in Jobs \ {j} : pc'[k] = pc[k] /\ agenda'[k] = agenda[k],
         \/ ~Working(j)
         \/ Working(j)' /\ agenda'[j] = agenda[j]
         \/ Current(j) \notin activeOps'
  PROVE  NoGhostOp'
<1> SUFFICES ASSUME NEW t \in activeOps' \cap Items
             PROVE  \E k \in Jobs : Working(k)' /\ Current(k)' = t
  BY DEF NoGhostOp
<1>1. PICK k \in Jobs : Working(k) /\ Current(k) = t
  BY DEF IInv, NoGhostOp
<1>2. CASE k # j
  BY <1>1, <1>2 DEF Working, Current
<1>3. CASE k = j
  BY <1>1, <1>3 DEF Working, Current
<1>4. QED
  BY <1>2, <1>3

\* A job that puts its entry is at work on it.
LEMMA EntryPut ==
  ASSUME IInv, NEW j \in Jobs,
         activeOps' \cap Items \subseteq activeOps \cup {Current(j)},
         \A k \in Jobs \ {j} : pc'[k] = pc[k],
         agenda' = agenda, Working(j)'
  PROVE  NoGhostOp'
<1> SUFFICES ASSUME NEW t \in activeOps' \cap Items
             PROVE  \E k \in Jobs : Working(k)' /\ Current(k)' = t
  BY DEF NoGhostOp
<1>1. CASE t = Current(j)
  BY <1>1 DEF Current
<1>2. CASE t # Current(j)
  <2>1. PICK k \in Jobs : Working(k) /\ Current(k) = t
    BY <1>2 DEF IInv, NoGhostOp
  <2>2. k # j
    BY <1>2, <2>1
  <2>3. QED
    BY <2>1, <2>2 DEF Working, Current
<1>3. QED
  BY <1>1, <1>2

-----------------------------------------------------------------------------
LEMMA JobKeeps ==
  ASSUME IInv, NEW j \in Jobs, Job(j) \/ Progress(j)
  PROVE  IInv'
<1> USE DEF Goto, Ready
<1>1. CASE StartJob(j)
  BY <1>1, EntriesKept DEF StartJob, IInv, Shape, Working
<1>2. CASE EndJob(j)
  BY <1>2, EntriesKept DEF EndJob, IInv, Shape, Working
<1>3. CASE SkipRuntime(j)
  BY <1>3, EntriesKept DEF SkipRuntime, IInv, Shape, Working
<1>4. CASE RuntimeBefore(j)
  BY <1>4, EntriesKept DEF RuntimeBefore, IInv, Shape, Working
<1>5. CASE Begin(j)
  BY <1>5, EntryPut DEF Begin, WithEntry, IInv, Shape, Working
<1>6. CASE Progress(j)
  <2>1. activeOps' \cap Items \subseteq activeOps \cup {Current(j)}
    BY <1>6, ToolsAssumption DEF Progress, ReportedAs
  <2>2. QED
    BY <1>6, <2>1, EntryPut DEF Progress, IInv, Shape, Working
<1>7. CASE BroadcastChange(j, "begun", "work") \/ BroadcastChange(j, "removed", "next")
  BY <1>7, EntriesKept DEF BroadcastChange, IInv, Shape, Working
<1>8. ASSUME NEW ok \in BOOLEAN, Returned(j, ok)
      PROVE  IInv'
  BY <1>8, EntriesKept DEF Returned, IInv, Shape, Working
<1>9. ASSUME NEW ok \in BOOLEAN, RemoveOp(j, ok)
      PROVE  IInv'
  BY <1>9, EntriesKept DEF RemoveOp, WithoutEntry, IInv, Shape
<1>10. QED
  BY <1>1, <1>2, <1>3, <1>4, <1>5, <1>6, <1>7, <1>8, <1>9 DEF Job

LEMMA InitIInv == Init => IInv
  BY DEF Init, IInv, Shape, NoGhostOp

LEMMA Invariance == IInv /\ [Next]_vars => IInv'
<1> SUFFICES ASSUME IInv, [Next]_vars
             PROVE  IInv'
  OBVIOUS
<1>1. ASSUME NEW j \in Jobs, Job(j) \/ Progress(j)
      PROVE  IInv'
  BY <1>1, JobKeeps
<1>2. CASE Client \/ UNCHANGED vars
  BY <1>2 DEF Client, TakeChannel, Wake, Answer, vars, IInv, Shape, NoGhostOp, Working, Current
<1>3. QED
  BY <1>1, <1>2 DEF Next

-----------------------------------------------------------------------------
\* However many installs and deletions overlap on one tool, and whichever of
\* them fail, no operation on a tool is shown for ever: each entry of a tool or
\* a runtime belongs to a job that is still to remove it.
THEOREM ToolsNoGhostOp == Spec => []NoGhostOp
<1>1. IInv => NoGhostOp
  BY DEF IInv
<1>2. QED
  BY <1>1, InitIInv, Invariance, PTL DEF Spec

-----------------------------------------------------------------------------
(* Manager.Install, Delete and Check *)

OneInstaller == \A i, j \in Installers : i = j

-----------------------------------------------------------------------------
(* Any number of installers *)

StepNames == {"new", "ready", "download", "loading", "extract", "writing", "stamp", "done", "failed",
        "gaveup"}

\* A part of a file without an archive belongs to a download that is under
\* way, unless the program has crashed.
TornInv ==
  /\ step \in [Installers \cup Deleters -> StepNames]
  /\ layout = "plain" => \A i \in Installers : step[i] \notin {"extract", "writing"}
  /\ layout = "plain" /\ ~crashed /\ binary = "part" => \E i \in Installers : step[i] = "loading"

LEMMA TornInit == InstallInit => TornInv
BY InstallAssumption DEF InstallInit, TornInv, StepNames

\* A step of an installer changes its own step only.
LEMMA OwnStep ==
  ASSUME TornInv, NEW i \in Installers, Install(i)
  PROVE  /\ step' \in [Installers \cup Deleters -> StepNames]
         /\ \A p \in Installers \cup Deleters : p # i => step'[p] = step[p]
         /\ UNCHANGED <<layout, crashed>>
BY DEF Install, Prepare, FetchRelease, DownloadBegins, AlreadyThere, DownloadEnds, DownloadFails,
   ExtractBegins, ExtractEnds, ExtractFails, Stamp, GiveUp, StepTo, TornInv, StepNames

LEMMA TornInstall ==
  ASSUME TornInv, NEW i \in Installers, Install(i)
  PROVE  TornInv'
<1>1. layout = "plain" => step'[i] \notin {"extract", "writing"}
  BY DEF Install, Prepare, FetchRelease, DownloadBegins, AlreadyThere, DownloadEnds, DownloadFails,
     ExtractBegins, ExtractEnds, ExtractFails, Stamp, GiveUp, StepTo, TornInv, StepNames
<1>2. ASSUME layout = "plain", ~crashed, binary' = "part"
      PROVE  \E j \in Installers : step'[j] = "loading"
  <2>1. CASE DownloadBegins(i)
    BY <2>1 DEF DownloadBegins, StepTo, TornInv
  <2>2. CASE ~DownloadBegins(i)
    <3>1. binary = "part" /\ step[i] # "loading"
      BY <1>2, <2>2 DEF Install, Prepare, FetchRelease, AlreadyThere, DownloadEnds, DownloadFails,
         ExtractBegins, ExtractEnds, ExtractFails, Stamp, GiveUp, StepTo, TornInv, TornRemoved, disk
    <3>2. PICK j \in Installers : step[j] = "loading"
      BY <1>2, <3>1 DEF TornInv
    <3>3. QED
      BY <3>1, <3>2, OwnStep
  <2>3. QED
    BY <2>1, <2>2
<1>3. QED
  BY <1>1, <1>2, OwnStep DEF TornInv

LEMMA TornStep == TornInv /\ [InstallNext]_installVars => TornInv'
<1> SUFFICES ASSUME TornInv, [InstallNext]_installVars PROVE TornInv'
  OBVIOUS
<1>1. ASSUME NEW d \in Deleters, Delete(d)
      PROVE  TornInv'
  BY <1>1, InstallAssumption DEF Delete, StepTo, TornInv, StepNames
<1>2. CASE Crash
  BY <1>2 DEF Crash, TornInv, StepNames
<1>3. CASE UNCHANGED installVars
  BY <1>3 DEF installVars, TornInv
<1>4. QED
  BY <1>1, <1>2, <1>3, TornInstall DEF InstallNext

LEMMA TypeStep == TypeOK /\ [InstallNext]_installVars => TypeOK'
<1> SUFFICES ASSUME TypeOK, [InstallNext]_installVars PROVE TypeOK'
  OBVIOUS
<1> USE InstallAssumption DEF TypeOK
<1>1. ASSUME NEW i \in Installers, Install(i)
      PROVE  TypeOK'
  <2>1. CASE Prepare(i)
    BY <2>1 DEF Prepare
  <2>2. CASE FetchRelease(i) \/ AlreadyThere(i) \/ ExtractFails(i) \/ GiveUp(i)
    BY <2>2 DEF FetchRelease, AlreadyThere, ExtractFails, GiveUp, StepTo, disk
  <2>3. CASE DownloadBegins(i)
    BY <2>3 DEF DownloadBegins, StepTo, Continued
  <2>4. CASE DownloadEnds(i) \/ DownloadFails(i)
    BY <2>4 DEF DownloadEnds, DownloadFails, StepTo, TornRemoved
  <2>5. CASE ExtractBegins(i) \/ ExtractEnds(i)
    BY <2>5 DEF ExtractBegins, ExtractEnds, StepTo
  <2>6. CASE Stamp(i)
    BY <2>6 DEF Stamp, StepTo
  <2>7. QED
    BY <1>1, <2>1, <2>2, <2>3, <2>4, <2>5, <2>6 DEF Install
<1>2. ASSUME NEW d \in Deleters, Delete(d)
      PROVE  TypeOK'
  BY <1>2 DEF Delete, StepTo
<1>3. CASE Crash
  BY <1>3 DEF Crash, disk
<1>4. CASE UNCHANGED installVars
  BY <1>4 DEF installVars
<1>5. QED
  BY <1>1, <1>2, <1>3, <1>4 DEF InstallNext

\* The directory, the attempts and the goroutines keep their types.
THEOREM InstallTypeOK == InstallSpec => []TypeOK
<1>1. InstallInit => TypeOK
  <2> SUFFICES ASSUME InstallInit PROVE TypeOK
    OBVIOUS
  <2>1. PICK start \in Starts : layout = start[1] /\ binary = start[2]
    BY DEF InstallInit
  <2>2. layout \in {"plain", "zip", "nested"} /\ binary \in {"none", "old"}
    BY <2>1, InstallAssumption
  <2>3. attempt \in [Installers -> 0 .. Attempts]
    BY InstallAssumption DEF InstallInit
  <2>4. QED
    BY <2>2, <2>3 DEF InstallInit, TypeOK
<1>2. QED
  BY <1>1, TypeStep, PTL DEF InstallSpec

\* "Never leave a truncated binary behind": however many installers and
\* deletions of one tool there are, and wherever they fail.
THEOREM InstallInstalledIsWhole == InstallSpec => []InstalledIsWhole
<1>1. TornInv => InstalledIsWhole
  BY DEF TornInv, InstalledIsWhole, AtRest
<1>2. QED
  BY <1>1, TornInit, TornStep, PTL DEF InstallSpec

-----------------------------------------------------------------------------
(* One installer *)

\* What is there at the steps that lead to the stamp, and after it; a deletion
\* may take it away at any of them.
Recordable ==
  binary \in {"none", "new"} \/ (layout = "plain" /\ binary \in {"old", "mixed"})

StampInv ==
  /\ TornInv
  /\ \A i \in Installers :
       /\ step[i] = "loading" /\ layout = "plain" => binary \in {"none", "part", "mixed"}
       /\ step[i] = "writing" => binary \in {"none", "part"}
       /\ step[i] = "stamp" => Recordable
  /\ version = "new" => /\ Recordable
                        /\ \A i \in Installers : step[i] = "done"

LEMMA StampInit == InstallInit => StampInv
<1> SUFFICES ASSUME InstallInit PROVE StampInv
  OBVIOUS
<1>1. PICK start \in Starts : layout = start[1] /\ binary = start[2]
  BY DEF InstallInit
<1>2. binary \in {"none", "old"} /\ version = binary /\ \A i \in Installers : step[i] = "new"
  BY <1>1, InstallAssumption DEF InstallInit
<1>3. QED
  BY <1>1, <1>2, TornInit DEF StampInv

LEMMA StampInstall ==
  ASSUME StampInv, OneInstaller, NEW i \in Installers, Install(i)
  PROVE  StampInv'
<1>1. TornInv' /\ version # "new" /\ UNCHANGED layout /\ \A j \in Installers : j = i
  <2>1. step[i] # "done"
    BY DEF Install, Prepare, FetchRelease, DownloadBegins, AlreadyThere, DownloadEnds,
       DownloadFails, ExtractBegins, ExtractEnds, ExtractFails, Stamp, GiveUp, StepTo
  <2>2. QED
    BY <2>1, TornInstall, OwnStep DEF StampInv, OneInstaller
<1> USE DEF StepTo, StepNames, disk
<1>2. CASE Prepare(i)
  BY <1>1, <1>2 DEF Prepare, StampInv, Recordable, TornInv
<1>3. CASE FetchRelease(i) \/ GiveUp(i) \/ ExtractFails(i)
  BY <1>1, <1>3 DEF FetchRelease, GiveUp, ExtractFails, StampInv, Recordable, TornInv
<1>4. CASE DownloadBegins(i)
  BY <1>1, <1>4 DEF DownloadBegins, Continued, StampInv, Recordable, TornInv
<1>5. CASE AlreadyThere(i)
  BY <1>1, <1>5 DEF AlreadyThere, StampInv, Recordable, TornInv
<1>6. CASE DownloadEnds(i)
  BY <1>1, <1>6 DEF DownloadEnds, StampInv, Recordable, TornInv
<1>7. CASE DownloadFails(i)
  BY <1>1, <1>7 DEF DownloadFails, TornRemoved, StampInv, Recordable, TornInv
<1>8. CASE ExtractBegins(i)
  BY <1>1, <1>8 DEF ExtractBegins, StampInv, Recordable, TornInv
<1>9. CASE ExtractEnds(i)
  BY <1>1, <1>9 DEF ExtractEnds, StampInv, Recordable, TornInv
<1>10. CASE Stamp(i)
  BY <1>1, <1>10 DEF Stamp, StampInv, Recordable, TornInv
<1>11. QED
  BY <1>2, <1>3, <1>4, <1>5, <1>6, <1>7, <1>8, <1>9, <1>10 DEF Install

LEMMA StampStep == OneInstaller /\ StampInv /\ [InstallNext]_installVars => StampInv'
<1> SUFFICES ASSUME OneInstaller, StampInv, [InstallNext]_installVars PROVE StampInv'
  OBVIOUS
<1>1. ASSUME NEW d \in Deleters, Delete(d)
      PROVE  StampInv'
  BY <1>1, TornStep, InstallAssumption DEF InstallNext, Delete, StepTo, StampInv, Recordable, TornInv
<1>2. CASE Crash
  BY <1>2, TornStep DEF InstallNext, Crash, disk, StampInv, Recordable, TornInv
<1>3. CASE UNCHANGED installVars
  BY <1>3, TornStep DEF installVars, StampInv, Recordable
<1>4. QED
  BY <1>1, <1>2, <1>3, StampInstall DEF InstallNext

\* With one installer, from any start and through any failures, retries,
\* deletions and a crash, a tool recorded as the new release is that release;
\* only a tool of one file may be what was made of the older release's file.
THEOREM InstallRecordedIsThere ==
  ASSUME OneInstaller
  PROVE  InstallSpec => []RecordedIsThere
<1>1. StampInv => RecordedIsThere
  BY DEF StampInv, Recordable, RecordedIsThere, Found
<1>2. InstallInit => StampInv
  BY StampInit
<1>3. StampInv /\ [InstallNext]_installVars => StampInv'
  BY StampStep
<1>4. QED
  BY <1>1, <1>2, <1>3, PTL DEF InstallSpec
=============================================================================
