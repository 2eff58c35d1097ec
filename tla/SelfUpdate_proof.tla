--------------------------- MODULE SelfUpdate_proof ---------------------------
(***************************************************************************)
(* Proofs about SelfUpdate, for any number of processes, versions, starts  *)
(* and any capacity of the progress channel: the renames of an update are  *)
(* an atomic replacement, and the executable's name is free only between   *)
(* two renames.                                                            *)
(*                                                                         *)
(* What makes it true is that every process runs one of the two files, so  *)
(* that moving the running binary aside is possible only when nobody runs  *)
(* a displaced one (Images), and that while an update is between its       *)
(* renames the displaced file is the one it runs itself, which nobody can  *)
(* remove or overwrite (Between).                                          *)
(***************************************************************************)
EXTENDS SelfUpdate, TLAPS

UpdateSpec == UpdateInit /\ [][UpdateNext]_updateVars

-----------------------------------------------------------------------------
(* The inductive invariant *)

Writers == Updaters \cup {"nobody", "half", "build"}
FilesOf == [ver : Nat, by : Writers]

\* The steps between the answer of the lookup and the second rename, and all.
Chosen == {"download", "extract", "create", "write", "remove_old", "aside", "place", "rollback"}
Steps == Chosen \cup {"down", "starting", "idle", "lookup", "drop_old", "fail", "close", "relaunch"}

Types ==
  /\ exe \in FilesOf /\ old \in FilesOf
  /\ tmp \in [Updaters -> FilesOf] /\ image \in [Updaters -> FilesOf]
  /\ ustep \in [Updaters -> Steps] /\ rel \in [Updaters -> Nat]
  /\ latest \in Nat \ {0}

\* A process that is up runs the executable or the displaced one.
Images ==
  \A p \in Updaters :
    /\ image[p] # NoFile => image[p] \in {exe, old}
    /\ ustep[p] # "down" => image[p] # NoFile

\* The release an update is to bring is newer than what runs.
Newer == \A p \in Updaters : ustep[p] \in Chosen => rel[p] > image[p].ver

\* From the time it is written to the rename, the temporary file is the
\* release, whole.
Prepared ==
  \A p \in Updaters :
    ustep[p] \in {"remove_old", "aside", "place"} => tmp[p] = [ver |-> rel[p], by |-> p]

AtRenames(p) == ustep[p] \in {"place", "rollback"}

\* One update is between its renames at a time, and it runs the file it has
\* displaced.
Between ==
  \A p \in Updaters : AtRenames(p) =>
    /\ exe = NoFile /\ old = image[p]
    /\ \A q \in Updaters : AtRenames(q) => q = p

\* One of the two files is there.
SomeFile == exe = NoFile => old # NoFile

UInv == Types /\ Images /\ Newer /\ Prepared /\ Between /\ SomeFile /\ UserKeepsExecutable

-----------------------------------------------------------------------------
(* What is common to many steps *)

\* The sentinels are files, and no process wrote them.
LEMMA Sentinels ==
  /\ NoFile \in FilesOf /\ Torn \in FilesOf
  /\ \A p \in Updaters, v \in Nat : [ver |-> v, by |-> p] \in FilesOf \ {NoFile}
BY UpdateAssumption DEF NoFile, Torn, FilesOf, Writers

\* A step of p that touches no file and no other process, and leads to no
\* rename, keeps the invariant.
LEMMA OwnStep ==
  ASSUME UInv, NEW p \in Updaters, NEW s \in Steps,
         ~AtRenames(p), image[p] # NoFile,
         s \notin Chosen \/ s \in {"download", "extract", "create", "write"},
         To(p, s), UNCHANGED <<exe, old, image, latest, stranded>>,
         tmp' \in [Updaters -> FilesOf], rel' \in [Updaters -> Nat],
         \A q \in Updaters \ {p} : tmp'[q] = tmp[q] /\ rel'[q] = rel[q],
         s \in Chosen => rel'[p] > image[p].ver
  PROVE  UInv'
<1>1. ustep' \in [Updaters -> Steps] /\ ustep'[p] = s
      /\ \A q \in Updaters \ {p} : ustep'[q] = ustep[q]
  BY DEF UInv, Types, To, Steps
<1>2. ~AtRenames(p)' /\ \A q \in Updaters \ {p} : AtRenames(q)' <=> AtRenames(q)
  BY <1>1 DEF AtRenames, Chosen
<1>3. Types' /\ Images'
  BY <1>1 DEF UInv, Types, Images
<1>4. Newer' /\ Prepared'
  BY <1>1 DEF UInv, Newer, Prepared, Chosen
<1>5. Between' /\ SomeFile'
  BY <1>2 DEF UInv, Between, SomeFile
<1>6. UserKeepsExecutable'
  BY <1>1, <1>2 DEF UInv, UserKeepsExecutable, AtRenames
<1>7. QED
  BY <1>3, <1>4, <1>5, <1>6 DEF UInv

\* What Removed leaves: the displaced file or none, and the file itself when
\* the one who removes it has nothing else to run.
LEMMA RemovedKeeps ==
  ASSUME UInv, NEW p \in Updaters, image[p] # NoFile, old' \in Removed(old)
  PROVE  /\ old' \in FilesOf /\ old' \in {old, NoFile}
         /\ (exe = NoFile => old' = old)
         /\ \A q \in Updaters : image[q] = old /\ old # NoFile => old' = old
<1>1. old' \in {old, NoFile}
  BY DEF Removed
<1>2. exe = NoFile => image[p] = old
  BY DEF UInv, Images
<1>3. \A q \in Updaters : image[q] = old /\ old # NoFile => Running(old)
  BY DEF Running
<1>4. Running(old) => old' = old
  BY DEF Removed
<1>5. QED
  BY <1>1, <1>2, <1>3, <1>4, Sentinels DEF UInv, Types

\* A step of p that removes the displaced file, or tries to.
LEMMA RemovingStep ==
  ASSUME UInv, NEW p \in Updaters, NEW s \in Steps,
         ~AtRenames(p), image[p] # NoFile,
         s \notin Chosen \/ (s = "aside" /\ ustep[p] = "remove_old"),
         To(p, s), old' \in Removed(old), UNCHANGED <<exe, tmp, image, rel, latest, stranded>>
  PROVE  UInv'
<1>1. ustep' \in [Updaters -> Steps] /\ ustep'[p] = s
      /\ \A q \in Updaters \ {p} : ustep'[q] = ustep[q]
  BY DEF UInv, Types, To, Steps
<1>2. ~AtRenames(p)' /\ \A q \in Updaters \ {p} : AtRenames(q)' <=> AtRenames(q)
  BY <1>1 DEF AtRenames, Chosen
<1>3. Types' /\ Images'
  BY <1>1, RemovedKeeps DEF UInv, Types, Images
<1>4. Newer' /\ Prepared'
  BY <1>1 DEF UInv, Newer, Prepared, Chosen
<1>5. Between' /\ SomeFile'
  BY <1>2, RemovedKeeps DEF UInv, Between, SomeFile
<1>6. UserKeepsExecutable'
  BY <1>1, <1>2 DEF UInv, UserKeepsExecutable, AtRenames
<1>7. QED
  BY <1>3, <1>4, <1>5, <1>6 DEF UInv

-----------------------------------------------------------------------------
(* Each action keeps the invariant *)

LEMMA InitInv == UpdateInit => UInv
<1> SUFFICES ASSUME UpdateInit PROVE UInv
  OBVIOUS
<1>1. exe \in FilesOf /\ exe # NoFile
  BY DEF UpdateInit, FilesOf, Writers, NoFile
<1>2. Types
  BY <1>1, Sentinels DEF UpdateInit, Types, Steps
<1>3. QED
  BY <1>1, <1>2 DEF UpdateInit, UInv, Images, Newer, Prepared, Between, SomeFile,
     UserKeepsExecutable, AtRenames, Chosen

\* A process comes up with the executable it was started from.
LEMMA StartsKeeps ==
  ASSUME UInv, NEW p \in Updaters, exe # NoFile,
         ~AtRenames(p), image' = [image EXCEPT ![p] = exe], To(p, "starting"),
         UNCHANGED <<exe, old, tmp, rel, latest, stranded>>
  PROVE  UInv'
<1>1. ustep' \in [Updaters -> Steps] /\ ustep'[p] = "starting"
      /\ \A q \in Updaters \ {p} : ustep'[q] = ustep[q]
  BY DEF UInv, Types, To, Steps
<1>2. image' \in [Updaters -> FilesOf] /\ image'[p] = exe
      /\ \A q \in Updaters \ {p} : image'[q] = image[q]
  BY DEF UInv, Types
<1>3. Types' /\ Images'
  BY <1>1, <1>2 DEF UInv, Types, Images
<1>4. Newer' /\ Prepared'
  BY <1>1, <1>2 DEF UInv, Newer, Prepared, Chosen
<1>5. Between' /\ SomeFile' /\ UserKeepsExecutable'
  BY <1>1 DEF UInv, Between, SomeFile, UserKeepsExecutable, AtRenames
<1>6. QED
  BY <1>3, <1>4, <1>5 DEF UInv

\* A process that goes down, at whatever step.
LEMMA DownKeeps ==
  ASSUME UInv, NEW p \in Updaters,
         image' = [image EXCEPT ![p] = NoFile], To(p, "down"),
         rel' \in [Updaters -> Nat], \A q \in Updaters \ {p} : rel'[q] = rel[q],
         AtRenames(p) => stranded', stranded => stranded',
         UNCHANGED <<exe, old, tmp, latest>>
  PROVE  UInv'
<1>1. ustep' \in [Updaters -> Steps] /\ ustep'[p] = "down"
      /\ \A q \in Updaters \ {p} : ustep'[q] = ustep[q]
  BY DEF UInv, Types, To, Steps
<1>2. image' \in [Updaters -> FilesOf] /\ image'[p] = NoFile
      /\ \A q \in Updaters \ {p} : image'[q] = image[q]
  BY Sentinels DEF UInv, Types
<1>3. Types' /\ Images'
  BY <1>1, <1>2 DEF UInv, Types, Images
<1>4. Newer' /\ Prepared'
  BY <1>1, <1>2 DEF UInv, Newer, Prepared, Chosen
<1>5. Between' /\ SomeFile'
  BY <1>1, <1>2 DEF UInv, Between, SomeFile, AtRenames
<1>6. UserKeepsExecutable'
  BY <1>1 DEF UInv, UserKeepsExecutable, AtRenames
<1>7. QED
  BY <1>3, <1>4, <1>5, <1>6 DEF UInv

\* The life of a process.
LEMMA LifeInv ==
  ASSUME UInv, NEW p \in Updaters,
         Start(p) \/ CleanupOld(p) \/ Stops(p) \/ Begin(p) \/ Returns(p) \/ Relaunch(p)
  PROVE  UInv'
<1> USE DEF files, process, progress
<1>1. CASE Start(p)
  <2>1. ~AtRenames(p)
    BY <1>1 DEF Start, UInv, Images, AtRenames
  <2>2. QED
    BY <1>1, <2>1, StartsKeeps DEF Start
<1>2. CASE CleanupOld(p)
  <2>1. ~AtRenames(p) /\ image[p] # NoFile
    BY <1>2 DEF CleanupOld, UInv, Images, AtRenames
  <2>2. QED
    BY <1>2, <2>1, RemovingStep DEF Steps, CleanupOld, Chosen
<1>3. CASE Stops(p)
  <2>1. rel' \in [Updaters -> Nat] /\ \A q \in Updaters \ {p} : rel'[q] = rel[q]
    BY <1>3 DEF Stops, UInv, Types
  <2>2. QED
    BY <1>3, <2>1, DownKeeps DEF Stops, AtRenames
<1>4. CASE Begin(p)
  <2>1. ~AtRenames(p) /\ image[p] # NoFile
    BY <1>4 DEF Begin, UInv, Images, AtRenames
  <2>2. QED
    BY <1>4, <2>1, OwnStep DEF Steps, Chosen, Begin, UInv, Types
<1>5. CASE Returns(p)
  <2>1. ~AtRenames(p) /\ image[p] # NoFile
    BY <1>5 DEF Returns, UInv, Images, AtRenames
  <2>2. rel' \in [Updaters -> Nat] /\ \A q \in Updaters \ {p} : rel'[q] = rel[q]
    BY <1>5 DEF Returns, UInv, Types
  <2>3. CASE p \in Windows
    <3>1. PICK s \in {"relaunch", "idle"} : To(p, s)
      BY <1>5, <2>3 DEF Returns
    <3>2. QED
      BY <1>5, <2>1, <2>2, <2>3, <3>1, OwnStep DEF Steps, Chosen, Returns, UInv, Types
  <2>4. CASE p \notin Windows
    BY <1>5, <2>1, <2>2, <2>4, DownKeeps DEF Returns
  <2>5. QED
    BY <2>3, <2>4
<1>6. CASE Relaunch(p)
  <2>1. ~AtRenames(p) /\ image[p] # NoFile
    BY <1>6 DEF Relaunch, UInv, Images, AtRenames
  <2>2. CASE To(p, "down") /\ image' = [image EXCEPT ![p] = NoFile]
    BY <1>6, <2>1, <2>2, DownKeeps DEF Relaunch, UInv, Types
  <2>3. CASE exe # NoFile /\ To(p, "starting") /\ image' = [image EXCEPT ![p] = exe]
    BY <1>6, <2>1, <2>3, StartsKeeps DEF Relaunch
  <2>4. CASE To(p, "idle") /\ UNCHANGED process
    BY <1>6, <2>1, <2>4, OwnStep DEF Steps, Chosen, Relaunch, UInv, Types
  <2>5. QED
    BY <1>6, <2>2, <2>3, <2>4 DEF Relaunch
<1>7. QED
  BY <1>1, <1>2, <1>3, <1>4, <1>5, <1>6

\* An update up to its temporary file, and its end.
LEMMA PrepareInv ==
  ASSUME UInv, NEW p \in Updaters,
         \/ Lookup(p) \/ Download(p) \/ Extract(p) \/ CreateTemp(p) \/ Fail(p)
  PROVE  UInv'
<1> USE DEF files, process, progress
<1>1. ~AtRenames(p) /\ image[p] # NoFile
  BY DEF Lookup, Download, Extract, CreateTemp, Fail, UInv, Images, AtRenames
<1>2. CASE Lookup(p)
  <2>1. CASE To(p, "fail") /\ UNCHANGED rel
    BY <1>1, <1>2, <2>1, OwnStep DEF Steps, Chosen, Lookup, UInv, Types
  <2>2. CASE To(p, "close") /\ UNCHANGED rel
    BY <1>1, <1>2, <2>2, OwnStep DEF Steps, Chosen, Lookup, UInv, Types
  <2>3. CASE /\ IsNewer(latest, image[p].ver) /\ To(p, "download")
             /\ rel' = [rel EXCEPT ![p] = latest]
    <3>1. rel' \in [Updaters -> Nat] /\ rel'[p] = latest
          /\ \A q \in Updaters \ {p} : rel'[q] = rel[q]
      BY <2>3 DEF UInv, Types
    <3>2. latest > image[p].ver
      BY <2>3 DEF IsNewer, UInv, Types, FilesOf
    <3>3. QED
      BY <1>1, <1>2, <2>3, <3>1, <3>2, OwnStep DEF Steps, Chosen, Lookup, UInv, Types
  <2>4. QED
    BY <1>2, <2>1, <2>2, <2>3 DEF Lookup
<1>3. CASE Download(p)
  <2>1. PICK s \in {"download", "extract", "fail"} : To(p, s)
    <3>1. UNCHANGED ustep => To(p, "download")
      BY <1>3 DEF Download, To, UInv, Types
    <3>2. QED
      BY <1>3, <3>1 DEF Download
  <2>2. s \in Chosen => s \in {"download", "extract"} /\ rel[p] > image[p].ver
    BY <1>3, <2>1 DEF Download, UInv, Newer, Chosen
  <2>3. s \notin Chosen \/ s \in {"download", "extract", "create", "write"}
    BY <2>1, <2>2
  <2>4. QED
    BY <1>1, <1>3, <2>1, <2>2, <2>3, OwnStep DEF Steps, Chosen, Download, UInv, Types
<1>4. CASE Extract(p)
  <2>1. PICK s \in {"create", "fail"} : To(p, s)
    BY <1>4 DEF Extract
  <2>2. rel[p] > image[p].ver /\ (s \notin Chosen \/ s \in {"download", "extract", "create", "write"})
    BY <1>4, <2>1 DEF Extract, UInv, Newer, Chosen
  <2>3. QED
    BY <1>1, <1>4, <2>1, <2>2, OwnStep DEF Steps, Chosen, Extract, UInv, Types
<1>5. CASE CreateTemp(p)
  <2>1. PICK s \in {"fail", "write"} : To(p, s)
    BY <1>5 DEF CreateTemp
  <2>2. rel[p] > image[p].ver /\ (s \notin Chosen \/ s \in {"download", "extract", "create", "write"})
    BY <1>5, <2>1 DEF CreateTemp, UInv, Newer, Chosen
  <2>3. tmp' \in [Updaters -> FilesOf] /\ \A q \in Updaters \ {p} : tmp'[q] = tmp[q]
    BY <1>5, Sentinels DEF CreateTemp, UInv, Types
  <2>4. QED
    BY <1>1, <1>5, <2>1, <2>2, <2>3, OwnStep DEF Steps, Chosen, CreateTemp, UInv, Types
<1>6. CASE Fail(p)
  BY <1>1, <1>6, OwnStep DEF Steps, Chosen, Fail, UInv, Types
<1>7. QED
  BY <1>2, <1>3, <1>4, <1>5, <1>6

\* The temporary file is written, and the leftovers go.
LEMMA WriteInv ==
  ASSUME UInv, NEW p \in Updaters, WriteTemp(p) \/ RemoveOld(p) \/ DropOld(p)
  PROVE  UInv'
<1> USE DEF files, process, progress
<1>1. ~AtRenames(p) /\ image[p] # NoFile
  BY DEF WriteTemp, RemoveOld, DropOld, UInv, Images, AtRenames
<1>2. CASE WriteTemp(p)
  <2>1. CASE To(p, "fail")
    <3>1. tmp' \in [Updaters -> FilesOf] /\ \A q \in Updaters \ {p} : tmp'[q] = tmp[q]
      BY <1>2, Sentinels DEF WriteTemp, UInv, Types
    <3>2. QED
      BY <1>1, <1>2, <2>1, <3>1, OwnStep DEF WriteTemp, Steps, Chosen, UInv, Types
  <2>2. CASE /\ To(p, "remove_old")
             /\ tmp' = [tmp EXCEPT ![p] = [ver |-> rel[p], by |-> p]]
    <3>1. tmp' \in [Updaters -> FilesOf] /\ tmp'[p] = [ver |-> rel[p], by |-> p]
          /\ \A q \in Updaters \ {p} : tmp'[q] = tmp[q]
      BY <2>2, Sentinels DEF UInv, Types
    <3>2. ustep' \in [Updaters -> Steps] /\ ustep'[p] = "remove_old"
          /\ \A q \in Updaters \ {p} : ustep'[q] = ustep[q]
      BY <2>2 DEF UInv, Types, To, Steps, Chosen
    <3>3. UNCHANGED <<exe, old, image, rel, latest, stranded>> /\ ustep[p] = "write"
      BY <1>2 DEF WriteTemp
    <3>4. Types' /\ Images' /\ Newer' /\ Prepared'
      BY <1>1, <3>1, <3>2, <3>3 DEF UInv, Types, Images, Newer, Prepared, Chosen
    <3>5. Between' /\ SomeFile' /\ UserKeepsExecutable'
      BY <1>1, <3>2, <3>3 DEF UInv, Between, SomeFile, UserKeepsExecutable, AtRenames
    <3>6. QED
      BY <3>4, <3>5 DEF UInv
  <2>3. QED
    BY <1>2, <2>1, <2>2 DEF WriteTemp
<1>3. CASE RemoveOld(p)
  BY <1>1, <1>3, RemovingStep DEF RemoveOld, Steps, Chosen
<1>4. CASE DropOld(p)
  BY <1>1, <1>4, RemovingStep DEF DropOld, Steps, Chosen
<1>5. QED
  BY <1>2, <1>3, <1>4

\* The running binary is moved aside: whoever is up runs it.
LEMMA MoveAsideInv ==
  ASSUME UInv, NEW p \in Updaters, MoveAside(p)
  PROVE  UInv'
<1> USE DEF files, process, progress
<1>1. ~AtRenames(p) /\ image[p] # NoFile /\ ustep[p] = "aside"
  BY DEF MoveAside, UInv, Images, AtRenames
<1>2. CASE To(p, "fail") /\ tmp' = [tmp EXCEPT ![p] = NoFile] /\ UNCHANGED <<exe, old>>
  <2>1. tmp' \in [Updaters -> FilesOf] /\ \A q \in Updaters \ {p} : tmp'[q] = tmp[q]
    BY <1>2, Sentinels DEF UInv, Types
  <2>2. QED
    BY <1>1, <1>2, <2>1, OwnStep DEF MoveAside, Steps, Chosen, UInv, Types
<1>3. CASE /\ CanRename(exe, old) /\ old' = exe /\ exe' = NoFile
           /\ To(p, "place") /\ UNCHANGED tmp
  <2>1. ustep' \in [Updaters -> Steps] /\ ustep'[p] = "place"
        /\ \A q \in Updaters \ {p} : ustep'[q] = ustep[q]
    BY <1>3 DEF UInv, Types, To, Steps, Chosen
  <2>2. UNCHANGED <<image, tmp, rel, latest, stranded>>
    BY <1>3 DEF MoveAside
  <2>3. exe # NoFile /\ \A q \in Updaters : image[q] \in {exe, NoFile}
    BY <1>3 DEF CanRename, Running, UInv, Images
  <2>4. \A q \in Updaters : AtRenames(q)' => q = p
    BY <2>1, <2>3 DEF UInv, Between, AtRenames
  <2>5. Types' /\ Images'
    BY <1>1, <1>3, <2>1, <2>2, <2>3, Sentinels DEF UInv, Types, Images
  <2>6. Newer' /\ Prepared'
    BY <1>1, <2>1, <2>2 DEF UInv, Newer, Prepared, Chosen
  <2>7. Between' /\ SomeFile' /\ UserKeepsExecutable'
    BY <1>1, <1>3, <2>1, <2>2, <2>3, <2>4 DEF Between, SomeFile, UserKeepsExecutable, AtRenames
  <2>8. QED
    BY <2>5, <2>6, <2>7 DEF UInv
<1>4. QED
  BY <1>2, <1>3 DEF MoveAside

\* The new file takes the free name, or the displaced one gets it back.
LEMMA PlaceInv ==
  ASSUME UInv, NEW p \in Updaters, PlaceNew(p) \/ Rollback(p)
  PROVE  UInv'
<1> USE DEF files, process, progress
<1>1. /\ AtRenames(p) /\ image[p] # NoFile /\ exe = NoFile /\ old = image[p]
      /\ \A q \in Updaters : AtRenames(q) => q = p
  BY DEF PlaceNew, Rollback, UInv, Images, Between, AtRenames
<1>2. \A q \in Updaters : image[q] \in {old, NoFile}
  BY <1>1 DEF UInv, Images
<1>3. UNCHANGED <<image, rel, latest>>
  BY DEF PlaceNew, Rollback
<1>4. CASE To(p, "rollback") /\ UNCHANGED <<exe, old, tmp, stranded>>
  <2>1. ustep' \in [Updaters -> Steps] /\ ustep'[p] = "rollback"
        /\ \A q \in Updaters \ {p} : ustep'[q] = ustep[q]
    BY <1>4 DEF UInv, Types, To, Steps, Chosen
  <2>2. rel[p] > image[p].ver
    BY <1>1 DEF UInv, Newer, AtRenames, Chosen
  <2>3. Types' /\ Images' /\ Newer' /\ Prepared'
    BY <1>1, <1>3, <1>4, <2>1, <2>2 DEF UInv, Types, Images, Newer, Prepared
  <2>4. Between' /\ SomeFile' /\ UserKeepsExecutable'
    BY <1>1, <1>3, <1>4, <2>1 DEF UInv, Between, SomeFile, UserKeepsExecutable, AtRenames
  <2>5. QED
    BY <2>3, <2>4 DEF UInv
<1>5. ASSUME To(p, "drop_old") \/ To(p, "fail"),
             tmp' = [tmp EXCEPT ![p] = NoFile], exe' \in FilesOf, old' \in FilesOf,
             \/ exe' # NoFile /\ (old' = old \/ exe' = old)
             \/ UNCHANGED <<exe, old>> /\ stranded'
      PROVE  UInv'
  <2>1. ustep' \in [Updaters -> Steps] /\ ustep'[p] \in {"drop_old", "fail"}
        /\ \A q \in Updaters \ {p} : ustep'[q] = ustep[q]
    BY <1>5 DEF UInv, Types, To, Steps, Chosen
  <2>2. tmp' \in [Updaters -> FilesOf] /\ \A q \in Updaters \ {p} : tmp'[q] = tmp[q]
    BY <1>5, Sentinels DEF UInv, Types
  <2>3. \A q \in Updaters : ~AtRenames(q)'
    BY <1>1, <2>1 DEF AtRenames
  <2>4. Types' /\ Images'
    BY <1>1, <1>2, <1>3, <1>5, <2>1, <2>2 DEF UInv, Types, Images
  <2>5. Newer' /\ Prepared'
    BY <1>3, <2>1, <2>2 DEF UInv, Newer, Prepared, Chosen
  <2>6. Between' /\ SomeFile' /\ UserKeepsExecutable'
    BY <1>1, <1>5, <2>3 DEF Between, SomeFile, UserKeepsExecutable
  <2>7. QED
    BY <2>4, <2>5, <2>6 DEF UInv
<1>6. CASE /\ PlaceNew(p) /\ exe' = tmp[p] /\ tmp' = [tmp EXCEPT ![p] = NoFile]
           /\ CanRename(tmp[p], exe) /\ To(p, "drop_old")
  <2>1. exe' \in FilesOf /\ exe' # NoFile /\ old' = old /\ old \in FilesOf
    BY <1>6 DEF PlaceNew, CanRename, UInv, Types
  <2>2. QED
    BY <1>5, <1>6, <2>1
<1>7. CASE Rollback(p)
  <2>1. tmp' = [tmp EXCEPT ![p] = NoFile] /\ To(p, "fail")
    BY <1>7 DEF Rollback
  <2>2. exe' \in FilesOf /\ old' \in FilesOf
    BY <1>7, Sentinels DEF Rollback, UInv, Types
  <2>3. \/ exe' # NoFile /\ exe' = old
        \/ UNCHANGED <<exe, old>> /\ stranded'
    BY <1>7 DEF Rollback, CanRename
  <2>4. QED
    BY <1>5, <2>1, <2>2, <2>3
<1>8. QED
  BY <1>4, <1>6, <1>7 DEF PlaceNew

\* A release is published, or the window shows an event.
LEMMA OtherInv ==
  ASSUME UInv, Publish \/ \E p \in Updaters : Drain(p)
  PROVE  UInv'
<1>1. UNCHANGED <<exe, old, tmp, image, ustep, rel, stranded>> /\ latest' \in Nat \ {0}
  BY DEF Publish, Drain, files, process, UInv, Types
<1>2. QED
  BY <1>1 DEF UInv, Types, Images, Newer, Prepared, Between, SomeFile, UserKeepsExecutable,
     AtRenames

LEMMA StepInv == UInv /\ [UpdateNext]_updateVars => UInv'
<1>1. ASSUME UInv, UNCHANGED updateVars
      PROVE  UInv'
  BY <1>1 DEF updateVars, UInv, Types, Images, Newer, Prepared, Between, SomeFile,
     UserKeepsExecutable, AtRenames
<1>2. QED
  BY <1>1, LifeInv, PrepareInv, WriteInv, MoveAsideInv, PlaceInv, OtherInv
  DEF UpdateNext, UpdateStep

LEMMA Invariance == UpdateSpec => []UInv
BY InitInv, StepInv, PTL DEF UpdateSpec

-----------------------------------------------------------------------------
(* Theorems *)

\* "The user is never left without an executable": its name is free only while
\* one update is between its renames, or after a crash or a second failure there.
THEOREM UpdateKeepsExecutable == UpdateSpec => []UserKeepsExecutable
<1>1. UInv => UserKeepsExecutable
  BY DEF UInv
<1>2. QED
  BY <1>1, Invariance, PTL

\* The release that is put in place is newer than the one that was installed.
LEMMA PlacesNewer ==
  ASSUME UInv, NEW p \in Updaters, PlaceNew(p)
  PROVE  Abstract!Replace \/ UNCHANGED Installed
<1>1. /\ exe = NoFile /\ old = image[p] /\ rel[p] > image[p].ver
      /\ tmp[p] = [ver |-> rel[p], by |-> p] /\ rel[p] \in Nat
  BY DEF PlaceNew, UInv, Between, Newer, Prepared, Types, AtRenames, Chosen
<1>2. CASE exe' = tmp[p]
  <2>1. exe' # NoFile
    BY <1>1, <1>2, Sentinels
  <2>2. Installed = image[p].ver /\ Installed' = rel[p]
    BY <1>1, <1>2, <2>1 DEF Installed
  <2>3. QED
    BY <1>1, <2>2 DEF Abstract!Replace
<1>3. CASE UNCHANGED <<exe, old>>
  BY <1>3 DEF Installed
<1>4. QED
  BY <1>2, <1>3 DEF PlaceNew

\* No other step changes the version the user has.
LEMMA KeepsInstalled ==
  ASSUME UInv, NEW p \in Updaters,
         UpdateStep(p) \/ Start(p) \/ Begin(p) \/ Stops(p), ~PlaceNew(p)
  PROVE  UNCHANGED Installed
<1> USE DEF files
<1>1. CASE UNCHANGED <<exe, old>>
  BY <1>1 DEF Installed
<1>2. CASE CleanupOld(p) \/ RemoveOld(p) \/ DropOld(p)
  <2>1. image[p] # NoFile /\ old' \in Removed(old) /\ exe' = exe
    BY <1>2 DEF CleanupOld, RemoveOld, DropOld, UInv, Images
  <2>2. QED
    BY <2>1, RemovedKeeps DEF Installed
<1>3. CASE MoveAside(p) \/ Rollback(p)
  <2>1. CASE exe # NoFile /\ old' = exe /\ exe' = NoFile
    BY <2>1 DEF Installed
  <2>2. CASE Rollback(p) /\ exe' = old /\ old # NoFile
    BY <2>2 DEF Installed, Rollback, UInv, Between, AtRenames
  <2>3. QED
    BY <1>1, <1>3, <2>1, <2>2 DEF MoveAside, Rollback, CanRename
<1>4. QED
  BY <1>1, <1>2, <1>3 DEF UpdateStep, Start, Begin, Stops, Lookup, Download, Extract, CreateTemp,
     WriteTemp, Fail, Returns, Relaunch, Drain

\* With two updates at once, crashes, failures and leftovers that cannot be
\* removed, what the files amount to is one installed version that is replaced
\* by a newer one in one step.
THEOREM UpdateRefinesReplace == UpdateSpec => UpdateIsAtomic
<1>1. UpdateInit => Abstract!Init
  BY Sentinels DEF UpdateInit, Abstract!Init, Installed, NoFile
<1>2. UInv /\ [UpdateNext]_updateVars => [Abstract!Replace]_Installed
  <2> SUFFICES ASSUME UInv, [UpdateNext]_updateVars
               PROVE  [Abstract!Replace]_Installed
    OBVIOUS
  <2>1. CASE UNCHANGED updateVars \/ Publish
    BY <2>1 DEF updateVars, Publish, files, Installed
  <2>2. ASSUME NEW p \in Updaters, Start(p) \/ Begin(p) \/ Stops(p) \/ UpdateStep(p)
        PROVE  [Abstract!Replace]_Installed
    BY <2>2, PlacesNewer, KeepsInstalled
  <2>3. QED
    BY <2>1, <2>2 DEF UpdateNext
<1>3. QED
  BY <1>1, <1>2, Invariance, PTL DEF UpdateSpec, UpdateIsAtomic, Abstract!Spec
=============================================================================
