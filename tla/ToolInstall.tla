------------------------------ MODULE ToolInstall ------------------------------
(***************************************************************************)
(* internal/tools: Manager.Install, Delete and Check on the directory of   *)
(* one tool, step by step, with failures, retries by the engine            *)
(* (ensureTools), a deletion and a crash of the program in between.        *)
(*                                                                         *)
(* The tool has an old and a new release.  Its binary is the downloaded    *)
(* file itself ("plain"), lies in a zip ("zip"), or lies in a directory of *)
(* the zip ("nested", as ghidra's and assetstudiomod's does).              *)
(***************************************************************************)
EXTENDS Naturals

CONSTANTS
  Starts,      \* how the tool is published, and what is there at the start
  Installers,  \* goroutines that install the tool
  Deleters,    \* goroutines that delete it
  Attempts,    \* installAttempts (3 in the code)
  MayCrash     \* whether the program may crash, once

ASSUME InstallAssumption ==
  /\ Starts \subseteq {"plain", "zip", "nested"} \X {"none", "old"}
  /\ Installers \cap Deleters = {}
  /\ Attempts \in Nat \ {0}
  /\ MayCrash \in BOOLEAN

VARIABLES
  layout,    \* "plain", "zip" or "nested"
  step,        \* where each goroutine is
  attempt,   \* the attempts an installer has made
  dir,       \* the tool's directory exists
  binary,    \* "none", "part" of the new file, "old", "new", or a "mixed" file
  archive,   \* "none", "part" or "whole"
  version,   \* .version: "none", "old" or "new"
  crashed    \* the program crashed and was started again

installVars == <<layout, step, attempt, dir, binary, archive, version, crashed>>
disk == <<dir, binary, archive, version>>

-----------------------------------------------------------------------------
(* Mutations: plausible bugs *)

Mut_TornKept == UNCHANGED binary
Mut_FailureIgnored(i) ==
  /\ step[i] \in {"loading", "extract", "writing"}
  /\ step' = [step EXCEPT ![i] = "stamp"]
  /\ UNCHANGED <<layout, attempt, dir, binary, archive, version, crashed>>

-----------------------------------------------------------------------------
InstallInit ==
  /\ step = [p \in Installers \cup Deleters |-> "new"]
  /\ attempt = [i \in Installers |-> 0]
  /\ \E start \in Starts : layout = start[1] /\ binary = start[2]
  /\ dir = (binary # "none")
  /\ archive = "none" /\ crashed = FALSE
  /\ version = binary

StepTo(p, from, to) == step[p] = from /\ step' = [step EXCEPT ![p] = to]

\* Check and Resolve look for the binary in the directory and below it.
Found == binary # "none"

-----------------------------------------------------------------------------
(* Manager.Install *)

\* "Dirty state": os.Stat of the binary directly under the directory.
AtTop == binary # "none" /\ layout # "nested"

Prepare(i) ==
  /\ step[i] \in {"new", "failed"} /\ attempt[i] < Attempts
  /\ step' = [step EXCEPT ![i] = "ready"]
  /\ attempt' = [attempt EXCEPT ![i] = @ + 1]
  /\ dir' = TRUE
  /\ IF dir /\ ~AtTop
       THEN binary' = "none" /\ archive' = "none" /\ version' = "none"
       ELSE UNCHANGED <<binary, archive, version>>
  /\ UNCHANGED <<layout, crashed>>

FetchRelease(i) ==
  /\ step[i] = "ready"
  /\ \E next \in {"download", "failed"} : StepTo(i, "ready", next)
  /\ UNCHANGED <<layout, attempt, disk, crashed>>

\* grab continues a shorter file of that name that is there: the part of the
\* same file, or, for a plain binary, the old release's file.
Continued(file) ==
  CASE file \in {"none", "part"} -> "part"
    [] OTHER -> "mixed"

\* The first bytes; for a zip they go to the archive.  grab creates the
\* directory when it has gone.
DownloadBegins(i) ==
  /\ layout = "plain" => binary # "new"
  /\ StepTo(i, "download", "loading")
  /\ dir' = TRUE
  /\ IF layout = "plain"
       THEN binary' = Continued(binary) /\ UNCHANGED archive
       ELSE archive' = "part" /\ UNCHANGED binary
  /\ UNCHANGED <<layout, attempt, version, crashed>>

\* A plain file of the same length counts as downloaded already.
AlreadyThere(i) ==
  /\ layout = "plain" /\ binary \in {"old", "new", "mixed"}
  /\ StepTo(i, "download", "stamp")
  /\ UNCHANGED <<layout, attempt, disk, crashed>>

\* What was deleted meanwhile is written to a file that has no name.
DownloadEnds(i) ==
  /\ IF layout = "plain"
       THEN /\ StepTo(i, "loading", "stamp")
            /\ binary' = IF binary = "part" THEN "new" ELSE binary
            /\ UNCHANGED archive
       ELSE /\ StepTo(i, "loading", "extract")
            /\ archive' = IF archive = "part" THEN "whole" ELSE archive
            /\ UNCHANGED binary
  /\ UNCHANGED <<layout, attempt, dir, version, crashed>>

TornRemoved == binary' = "none"

\* Any error, or the context cancelled: the file is removed.
DownloadFails(i) ==
  /\ step[i] \in {"download", "loading"}
  /\ step' = [step EXCEPT ![i] = "failed"]
  /\ IF layout = "plain" THEN TornRemoved /\ UNCHANGED archive
                         ELSE archive' = "none" /\ UNCHANGED binary
  /\ UNCHANGED <<layout, attempt, dir, version, crashed>>

\* os.Create truncates what is there and the entry is copied into it.
ExtractBegins(i) ==
  /\ StepTo(i, "extract", "writing")
  /\ archive = "whole"
  /\ binary' = "part"
  /\ UNCHANGED <<layout, attempt, dir, archive, version, crashed>>

\* The entries after it make the directory anew when it has gone.
ExtractEnds(i) ==
  /\ StepTo(i, "writing", "stamp")
  /\ dir' \in {dir, TRUE}
  /\ binary' = IF binary = "part" THEN "new" ELSE binary
  /\ archive' = "none"
  /\ UNCHANGED <<layout, attempt, version, crashed>>

\* No archive, a corrupt one, or a disk that is full: the error is returned,
\* what was written stays.
ExtractFails(i) ==
  /\ step[i] \in {"extract", "writing"}
  /\ step' = [step EXCEPT ![i] = "failed"]
  /\ UNCHANGED <<layout, attempt, disk, crashed>>

\* os.WriteFile(.version), whose error is dropped; then RecordInstall.
Stamp(i) ==
  /\ StepTo(i, "stamp", "done")
  /\ version' = IF dir THEN "new" ELSE version
  /\ UNCHANGED <<layout, attempt, dir, binary, archive, crashed>>

GiveUp(i) ==
  /\ attempt[i] = Attempts
  /\ StepTo(i, "failed", "gaveup")
  /\ UNCHANGED <<layout, attempt, disk, crashed>>

-----------------------------------------------------------------------------
(* Manager.Delete, and a crash *)

Delete(d) ==
  /\ StepTo(d, "new", "done")
  /\ dir' = FALSE /\ binary' = "none" /\ archive' = "none" /\ version' = "none"
  /\ UNCHANGED <<layout, attempt, crashed>>

\* Nobody installs what is installed and up to date: what was done stays so.
Crash ==
  /\ MayCrash /\ ~crashed
  /\ crashed' = TRUE
  /\ step' = [p \in DOMAIN step |-> IF step[p] = "done" THEN "done" ELSE "new"]
  /\ attempt' = [i \in Installers |-> 0]
  /\ UNCHANGED <<layout, disk>>

-----------------------------------------------------------------------------
Install(i) ==
  \/ Prepare(i) \/ FetchRelease(i) \/ DownloadBegins(i) \/ AlreadyThere(i)
  \/ DownloadEnds(i) \/ DownloadFails(i) \/ ExtractBegins(i) \/ ExtractEnds(i)
  \/ ExtractFails(i) \/ Stamp(i) \/ GiveUp(i)

InstallNext == (\E i \in Installers : Install(i)) \/ (\E d \in Deleters : Delete(d)) \/ Crash

InstallSpec == InstallInit /\ [][InstallNext]_installVars

-----------------------------------------------------------------------------
(* Properties *)

TypeOK ==
  /\ step \in [Installers \cup Deleters ->
              {"new", "ready", "download", "loading", "extract", "writing",
               "stamp", "done", "failed", "gaveup"}]
  /\ attempt \in [Installers -> 0 .. Attempts]
  /\ {dir, crashed} \subseteq BOOLEAN /\ layout \in {"plain", "zip", "nested"}
  /\ binary \in {"none", "part", "old", "new", "mixed"}
  /\ archive \in {"none", "part", "whole"} /\ version \in {"none", "old", "new"}

AtRest == \A p \in DOMAIN step : step[p] \in {"new", "done", "gaveup"}

\* download.go:306, "Never leave a truncated binary behind for Resolve() to
\* find": when every attempt is over, a tool of one file is complete if Check
\* finds it.  (A failed extraction and a crash do leave a truncated binary.)
InstalledIsWhole == AtRest /\ layout = "plain" /\ ~crashed => binary # "part"

\* manager.go:197, "Clean dirty state: directory exists but binary is
\* missing": only a directory in which Check finds nothing is wiped.
OnlyDirtyIsCleaned ==
  [][\A i \in Installers : step[i] # "ready" /\ step'[i] = "ready" =>
       ~(Found /\ binary' = "none")]_installVars

\* lock.go:17, "records the exact installed tag": the tool is the release
\* its version stands for, through failures, retries, deletion and a crash.
VersionIsTrue == AtRest /\ Found /\ version = "new" => binary = "new"

\* What remains of it with any start: a tool recorded as the new release is
\* that release, never a part of it nor, if it is packed, the older one; only
\* where the tool is the downloaded file itself may it be the older release's
\* file, accepted as if downloaded or continued with the rest of the new one.
RecordedIsThere ==
  AtRest /\ Found /\ version = "new" =>
    binary = "new" \/ (layout = "plain" /\ binary \in {"old", "mixed"})

=============================================================================
