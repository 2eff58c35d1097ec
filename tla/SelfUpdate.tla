------------------------------ MODULE SelfUpdate ------------------------------
(***************************************************************************)
(* The program replacing itself (internal/selfupdate and                   *)
(* services/update_service.go).  Several processes may run the one         *)
(* executable: windows, which update from a button and then start the new  *)
(* binary, and command lines (`morgue self-update`), which only replace it *)
(* and report.  Each may crash between any two steps.                      *)
(*                                                                         *)
(* A file is what was written under a name: a version and its writer.  The *)
(* file system is the one the release is built for: a file some process    *)
(* runs can be renamed but neither deleted nor overwritten.                *)
(***************************************************************************)
EXTENDS Naturals, Sequences, FiniteSets

CONSTANTS Updaters,      \* the processes
          Windows,       \* those of them that are windows
          MaxVersion,    \* bound: releases are 1 .. MaxVersion
          MaxStarts,     \* bound: processes started
          ChanCap        \* capacity of a window's progress channel

ASSUME UpdateAssumption ==
    /\ Windows \subseteq Updaters
    /\ {MaxVersion, MaxStarts, ChanCap} \subseteq Nat \ {0}
    /\ {"nobody", "half", "build"} \cap Updaters = {}

NoFile == [ver |-> 0, by |-> "nobody"]
Torn   == [ver |-> 0, by |-> "half"]

VARIABLES exe,          \* the file under the executable's name
          old,          \* the file under the name with .old
          tmp,          \* the temporary file of each process's update
          image,        \* the file a process runs, NoFile when it is down
          relaunched,   \* MORGUE_RELAUNCHED is set in its environment
          ustep,        \* the step of Update a process is at
          rel,          \* the release it is updating to
          outcome,      \* what its Update or Apply returned
          queue,        \* the progress channel of a window
          shown,        \* the last phase the window showed in this update
          latest,       \* the newest published release
          starts,       \* processes started
          stranded      \* history: cut off, or failing twice, between two renames

updateVars == <<exe, old, tmp, image, relaunched, ustep, rel, outcome, queue,
                shown, latest, starts, stranded>>
files    == <<exe, old, tmp>>
progress == <<queue, shown>>
process  == <<image, relaunched, starts>>

Running(f) == \E p \in Updaters : image[p] = f /\ f # NoFile

\* os.Remove: best effort; never of a file that runs.
Removed(f) == IF Running(f) THEN {f} ELSE {f, NoFile}

\* os.Rename from one name onto another, when the file system lets it.
CanRename(from, to) == from # NoFile /\ ~Running(to)

UpdateInit ==
    /\ \E v \in 0 .. 1 : exe = [ver |-> v, by |-> "build"]
    /\ old = NoFile
    /\ tmp = [p \in Updaters |-> NoFile]
    /\ image = [p \in Updaters |-> NoFile]
    /\ relaunched = [p \in Updaters |-> FALSE]
    /\ ustep = [p \in Updaters |-> "down"]
    /\ rel = [p \in Updaters |-> 0]
    /\ outcome = [p \in Updaters |-> "none"]
    /\ queue = [p \in Updaters |-> <<>>]
    /\ shown = [p \in Updaters |-> "none"]
    /\ latest = 1
    /\ starts = 0
    /\ stranded = FALSE

To(p, s) == ustep' = [ustep EXCEPT ![p] = s]

(***************************************************************************)
(* Life of a process.                                                      *)
(***************************************************************************)
Start(p) ==
    /\ image[p] = NoFile /\ exe # NoFile /\ starts < MaxStarts
    /\ image' = [image EXCEPT ![p] = exe]
    /\ relaunched' = [relaunched EXCEPT ![p] = FALSE]
    /\ starts' = starts + 1
    /\ To(p, "starting")
    /\ UNCHANGED <<files, progress, rel, outcome, latest, stranded>>

\* Dropping the binary a previous update displaced is the first thing main does.
CleanupOld(p) ==
    /\ ustep[p] = "starting"
    /\ old' \in Removed(old)
    /\ To(p, "idle")
    /\ UNCHANGED <<exe, tmp, process, rel, outcome, progress, latest, stranded>>

\* The process is killed, or the machine stops, at any point.
Stops(p) ==
    /\ image[p] # NoFile
    /\ image' = [image EXCEPT ![p] = NoFile]
    /\ To(p, "down")
    /\ queue' = [queue EXCEPT ![p] = <<>>]
    /\ outcome' = [outcome EXCEPT ![p] = "none"]
    /\ stranded' = (stranded \/ ustep[p] \in {"place", "rollback"})
    /\ rel' = [rel EXCEPT ![p] = 0]
    /\ UNCHANGED <<files, relaunched, starts, shown, latest>>

Publish ==
    /\ latest < MaxVersion
    /\ latest' = latest + 1
    /\ UNCHANGED <<files, process, ustep, rel, outcome, progress, stranded>>

(***************************************************************************)
(* Progress: a window's Update puts each event on a channel, blocking when *)
(* it is full, and a goroutine of its own shows them; on the command line  *)
(* there is nobody to tell.                                                *)
(***************************************************************************)
Emit(p, phase) ==
    IF p \in Windows
    THEN /\ Len(queue[p]) < ChanCap
         /\ queue' = [queue EXCEPT ![p] = Append(@, phase)]
    ELSE UNCHANGED queue

Mut_LateDrain(p) ==
    /\ ustep[p] = "close" /\ queue[p] # <<>>
    /\ shown' = [shown EXCEPT ![p] = Head(queue[p])]
    /\ queue' = [queue EXCEPT ![p] = Tail(@)]
    /\ UNCHANGED <<files, process, ustep, rel, outcome, latest, stranded>>

Drain(p) ==
    /\ queue[p] # <<>>
    /\ shown' = [shown EXCEPT ![p] = Head(queue[p])]
    /\ queue' = [queue EXCEPT ![p] = Tail(@)]
    /\ UNCHANGED <<files, process, ustep, rel, outcome, latest, stranded>>

(***************************************************************************)
(* Update.                                                                 *)
(***************************************************************************)
\* A build without a version ("dev", here 0) is older than every release.
IsNewer(latestTag, current) == current = 0 \/ latestTag > current

Begin(p) ==
    /\ ustep[p] = "idle"
    /\ To(p, "lookup")
    /\ outcome' = [outcome EXCEPT ![p] = "none"]
    /\ shown' = [shown EXCEPT ![p] = "none"]
    /\ UNCHANGED <<files, process, rel, queue, latest, stranded>>

\* An error goes to Fail; no release, none for this platform and none that is
\* newer return at once, with nothing reported.
Lookup(p) ==
    /\ ustep[p] = "lookup"
    /\ \/ To(p, "fail") /\ UNCHANGED <<rel, outcome, queue>>
       \/ /\ To(p, "close")
          /\ outcome' = [outcome EXCEPT ![p] = "nil"]
          /\ UNCHANGED <<rel, queue>>
       \/ /\ IsNewer(latest, image[p].ver)
          /\ rel' = [rel EXCEPT ![p] = latest]
          /\ Emit(p, "downloading")
          /\ To(p, "download")
          /\ UNCHANGED outcome
    /\ UNCHANGED <<files, process, shown, latest, stranded>>

\* The whole archive is read into memory; each tick is one more event.
Download(p) ==
    /\ ustep[p] = "download"
    /\ \/ Emit(p, "downloading") /\ p \in Windows /\ UNCHANGED ustep
       \/ Emit(p, "installing") /\ To(p, "extract")
       \/ UNCHANGED queue /\ To(p, "fail")
    /\ UNCHANGED <<files, process, rel, outcome, shown, latest, stranded>>

\* The entry named like the running executable, whatever its directory and case.
Extract(p) ==
    /\ ustep[p] = "extract"
    /\ \E s \in {"create", "fail"} : To(p, s)
    /\ UNCHANGED <<files, process, rel, outcome, progress, latest, stranded>>

\* replaceExecutable, one file operation a step: the temporary file ...
CreateTemp(p) ==
    /\ ustep[p] = "create"
    /\ \/ To(p, "fail") /\ UNCHANGED tmp
       \/ To(p, "write") /\ tmp' = [tmp EXCEPT ![p] = Torn]
    /\ UNCHANGED <<exe, old, process, rel, outcome, progress, latest, stranded>>

WriteTemp(p) ==
    /\ ustep[p] = "write"
    /\ \/ To(p, "fail") /\ tmp' = [tmp EXCEPT ![p] = NoFile]
       \/ To(p, "remove_old") /\ tmp' = [tmp EXCEPT ![p] = [ver |-> rel[p], by |-> p]]
    /\ UNCHANGED <<exe, old, process, rel, outcome, progress, latest, stranded>>

\* ... a leftover of an earlier update ...
RemoveOld(p) ==
    /\ ustep[p] = "remove_old"
    /\ old' \in Removed(old)
    /\ To(p, "aside")
    /\ UNCHANGED <<exe, tmp, process, rel, outcome, progress, latest, stranded>>

\* Moved to a name nobody else holds, so that a leftover is never in the way.
Mut_MoveAsideAnywhere(p) ==
    /\ ustep[p] = "aside"
    /\ exe # NoFile
    /\ old' = exe /\ exe' = NoFile
    /\ To(p, "place")
    /\ UNCHANGED <<tmp, process, rel, outcome, progress, latest, stranded>>

\* ... the running binary aside ...
MoveAside(p) ==
    /\ ustep[p] = "aside"
    /\ \/ /\ CanRename(exe, old)
          /\ old' = exe /\ exe' = NoFile
          /\ To(p, "place")
          /\ UNCHANGED tmp
       \/ /\ tmp' = [tmp EXCEPT ![p] = NoFile]
          /\ To(p, "fail")
          /\ UNCHANGED <<exe, old>>
    /\ UNCHANGED <<process, rel, outcome, progress, latest, stranded>>

Mut_NoRollback(p) ==
    /\ ustep[p] = "place"
    /\ \/ /\ CanRename(tmp[p], exe)
          /\ exe' = tmp[p] /\ tmp' = [tmp EXCEPT ![p] = NoFile]
          /\ To(p, "drop_old")
       \/ To(p, "fail") /\ tmp' = [tmp EXCEPT ![p] = NoFile] /\ UNCHANGED exe
    /\ UNCHANGED <<old, process, rel, outcome, progress, latest, stranded>>

\* ... the new one in its place ...
PlaceNew(p) ==
    /\ ustep[p] = "place"
    /\ \/ /\ CanRename(tmp[p], exe)
          /\ exe' = tmp[p] /\ tmp' = [tmp EXCEPT ![p] = NoFile]
          /\ To(p, "drop_old")
       \/ To(p, "rollback") /\ UNCHANGED <<exe, tmp>>
    /\ UNCHANGED <<old, process, rel, outcome, progress, latest, stranded>>

\* ... or, when that fails, the running one back, which may fail as well.
Rollback(p) ==
    /\ ustep[p] = "rollback"
    /\ \/ /\ CanRename(old, exe)
          /\ exe' = old /\ old' = NoFile
          /\ UNCHANGED stranded
       \/ UNCHANGED <<exe, old>> /\ stranded' = TRUE
    /\ tmp' = [tmp EXCEPT ![p] = NoFile]
    /\ To(p, "fail")
    /\ UNCHANGED <<process, rel, outcome, progress, latest>>

DropOld(p) ==
    /\ ustep[p] = "drop_old"
    /\ old' \in Removed(old)
    /\ Emit(p, "done")
    /\ outcome' = [outcome EXCEPT ![p] = "nil"]
    /\ To(p, "close")
    /\ UNCHANGED <<exe, tmp, process, rel, shown, latest, stranded>>

\* Every error of Update is reported before it is returned.
Fail(p) ==
    /\ ustep[p] = "fail"
    /\ Emit(p, "error")
    /\ outcome' = [outcome EXCEPT ![p] = "error"]
    /\ To(p, "close")
    /\ UNCHANGED <<files, process, rel, shown, latest, stranded>>

\* Apply closes the channel and waits until everything on it is shown; the
\* command line has returned.  After an error the window stays as it is.
Returns(p) ==
    /\ ustep[p] = "close"
    /\ queue[p] = <<>>
    /\ IF p \in Windows
       THEN To(p, IF outcome[p] = "nil" THEN "relaunch" ELSE "idle")
            /\ UNCHANGED image
       ELSE To(p, "down") /\ image' = [image EXCEPT ![p] = NoFile]
    /\ rel' = [rel EXCEPT ![p] = 0]
    /\ UNCHANGED <<files, relaunched, starts, outcome, progress, latest, stranded>>

\* The window starts the executable again and quits; a window that was itself
\* started so only quits; one whose successor does not start stays.
Relaunch(p) ==
    /\ ustep[p] = "relaunch"
    /\ \/ /\ relaunched[p]
          /\ image' = [image EXCEPT ![p] = NoFile]
          /\ To(p, "down")
          /\ UNCHANGED <<relaunched, starts>>
       \/ /\ ~relaunched[p] /\ exe # NoFile
          /\ image' = [image EXCEPT ![p] = exe]
          /\ relaunched' = [relaunched EXCEPT ![p] = TRUE]
          /\ starts' = starts + 1
          /\ To(p, "starting")
       \/ ~relaunched[p] /\ To(p, "idle") /\ UNCHANGED process
    /\ UNCHANGED <<files, rel, outcome, progress, latest, stranded>>

UpdateStep(p) ==
    \/ CleanupOld(p) \/ Lookup(p) \/ Download(p) \/ Extract(p) \/ CreateTemp(p)
    \/ WriteTemp(p) \/ RemoveOld(p) \/ MoveAside(p) \/ PlaceNew(p) \/ Rollback(p)
    \/ DropOld(p) \/ Fail(p) \/ Returns(p) \/ Relaunch(p) \/ Drain(p)

UpdateNext ==
    \/ Publish
    \/ \E p \in Updaters : Start(p) \/ Begin(p) \/ Stops(p) \/ UpdateStep(p)

\* A running process makes its steps, and a download ends: it has a timeout.
UpdateFairness ==
    \A p \in Updaters : /\ WF_updateVars(UpdateStep(p))
                        /\ WF_updateVars(Drain(p))
                        /\ SF_updateVars(Download(p) /\ ustep' # ustep)

(***************************************************************************)
(* Properties.                                                             *)
(***************************************************************************)
\* "Any failure after that rename is rolled back, so the user is never left
\* without an executable": the name is free only while one update is between its
\* renames, unless that update was cut off there or its rollback failed too.
UserKeepsExecutable ==
    exe = NoFile => stranded \/ \E p \in Updaters : ustep[p] \in {"place", "rollback"}

\* The renames, their rollback, the clean-up at the next start and a crash at any
\* point amount to an atomic replacement by a newer version: the binary the user
\* has, under its name or displaced, is never lost, never half written and never
\* exchanged for an older one, though two updates may run at once, one of them with
\* a release that is out of date by now.  (A displaced binary that still runs cannot
\* be overwritten, so the later update stops at moving the earlier one's aside.)
Installed == (IF exe # NoFile THEN exe ELSE old).ver

Abstract == INSTANCE AtomicReplace WITH installed <- Installed

UpdateIsAtomic == Abstract!Spec

\* An update that was begun ends, whatever fails and however slowly the window
\* shows its progress: the channel is bounded and the sender blocks on it.
UpdateEnds ==
    \A p \in Updaters :
        ustep[p] = "lookup" ~> ustep[p] \in {"idle", "down", "relaunch"}

\* "On success it auto-relaunches the freshly-installed binary": what a window
\* starts in its own place is newer than what it runs.
RelaunchIsOfNewBinary ==
    [][\A p \in Updaters :
          ustep[p] = "relaunch" /\ ustep'[p] = "starting" => image'[p] # image[p]]_updateVars
=============================================================================
