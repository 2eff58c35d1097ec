---------------------------- MODULE UnrealRecipe ----------------------------
(***************************************************************************)
(* The recipe for Unreal Engine 5 packages (ue5.go).  Every step can be    *)
(* switched off, none is required and none ends the recipe; the later ones *)
(* read from the output directory what the earlier ones left there, in     *)
(* this run or in one before it.                                           *)
(***************************************************************************)
EXTENDS RecipeRun

(* Switched off in the settings, or begun and then without a tool, without *)
(* an input or without anything to do.                                     *)
UeSkipped(i, w) == Skip("ue5", i) \/ Begin("ue5", i, w) \/ End("ue5", i, "skipped", disk)

(* Step 0.  The directory is cleared before retoc converts the first of    *)
(* the directories with containers, so that assets of an earlier run are   *)
(* not counted.  The error of the clearing is discarded: files that cannot *)
(* be removed stay, and `of` is 1 as long as they do.                      *)
Unremoved == [kind |-> "part", run |-> disk["extracted"].run, of |-> 1]
AfterClearing == {Made("empty")} \cup (IF Files("extracted") THEN {Unremoved} ELSE {})
Mut_NotCleared ==
  \/ UeSkipped(0, {})
  \/ /\ In("ue5", 0)
     /\ disk' = Put("extracted", IF Has("extracted") THEN disk["extracted"] ELSE Made("empty"))
     /\ Goto(0, "convert", {"extracted"})
UeExtractBegin ==
  \/ UeSkipped(0, {})
  \/ /\ In("ue5", 0)
     /\ \E left \in AfterClearing : disk' = Put("extracted", left)
     /\ Goto(0, "convert", {"extracted"})

(* retoc produces nothing, some or all of the assets, with or without a    *)
(* directory that failed.  With one that failed it is a Success when files *)
(* are counted, also those that could not be removed, and a failure when   *)
(* none are: nothing is there, or only what lies outside the directories   *)
(* counted.  It is a failure too when the user stopped between two of them.*)
UeExtracted ==
  LET before == disk["extracted"]
  IN  \E ext \in {before} \cup {MadeOf(k, before.of) : k \in {"part", "whole"}}, failed \in BOOLEAN :
        \/ /\ ~failed \/ ext.kind # "empty"
           /\ EndAt("ue5", 0, "convert", "success", Put("extracted", ext))
        \/ failed /\ ext = before /\ EndAt("ue5", 0, "convert", "failed", Put("extracted", ext))
        \/ cancelled /\ EndAt("ue5", 0, "convert", "failed", Put("extracted", ext))

(* Step 1.  From the usmap (of the game or among the extracted files), or, *)
(* without one or with one that cannot be read, class names only, from the *)
(* symbols.json of an earlier run: this run writes its own in step 3.      *)
UsmapFound == opt.usmap \/ Files("extracted")
UeSdk ==
  \/ UeSkipped(1, {})
  \/ UsmapFound /\ \E s \in {"success", "failed"} : End("ue5", 1, s, disk)
  \/ Has("symbols") /\ End("ue5", 1, "success", disk)

UeStrings == UeSkipped(2, {}) \/ ExtractStrings("ue5", 2)

(* Step 3.  Ghidra on the shipping executable; a failed run is reported    *)
(* and nothing more; a failed split leaves the symbols of an earlier run.  *)
UeGhidra ==
  \/ UeSkipped(3, {"src"})
  \/ \E g \in GhidraRuns :
       \/ ~g.ok /\ End("ue5", 3, "failed", Put("src", g.src))
       \/ g.ok /\ End("ue5", 3, "success", Put("src", g.src))
       \/ g.ok /\ End("ue5", 3, "success",
                      Put2("src", g.src, "symbols", MadeOf("whole", g.src.run)))

(* Step 4 needs symbols or a usmap; the names are resolved in the symbols  *)
(* that are there.                                                         *)
UeNames ==
  \/ Skip("ue5", 4) \/ Begin("ue5", 4, {})
  \/ ~Has("symbols") /\ ~opt.usmap /\ End("ue5", 4, "skipped", disk)
  \/ /\ Has("symbols") \/ UsmapFound
     /\ End("ue5", 4, "success", disk)

(* Step 5.  One index over the decompiled source and the extracted assets. *)
UeIndex ==
  \/ Skip("ue5", 5) \/ Begin("ue5", 5, {})
  \/ ~Has("src") /\ ~Has("extracted") /\ End("ue5", 5, "skipped", disk)
  \/ Has("extracted") /\ ~Has("src") /\ End("ue5", 5, "success", disk)
  \/ Has("src") /\ BuildIndex("ue5", 5)

UeHookable ==
  \/ Skip("ue5", 6) \/ Begin("ue5", 6, {})
  \/ ~Has("symbols") /\ End("ue5", 6, "skipped", disk)
  \/ Has("symbols") /\ \E s \in {"success", "failed"} : End("ue5", 6, s, disk)

UnrealStep ==
  \/ UeExtractBegin \/ UeExtracted \/ UeSdk \/ UeStrings
  \/ UeGhidra \/ UeNames \/ UeIndex \/ UeHookable
  \/ Done("ue5", 7)

-----------------------------------------------------------------------------
(* The comment in step 0: "stale assets from a prior run can't fake a      *)
(* success".  When the step says Success, what is under extracted/ was     *)
(* produced by this run, whatever an earlier run left when it was killed.  *)
(* The one exception: files this run could not remove (the error of        *)
(* RemoveAll is discarded) are counted as if it had produced them.         *)
NoStaleAssets ==
  (recipe = "ue5" /\ status[0] = "success") =>
    disk["extracted"].run = run \/ disk["extracted"].of = 1
=============================================================================
