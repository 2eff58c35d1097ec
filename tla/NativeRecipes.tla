--------------------------- MODULE NativeRecipes ---------------------------
(***************************************************************************)
(* The recipes for binaries without managed code: native (Ghidra, with its *)
(* NativeAOT extension), delphi and java.                                  *)
(***************************************************************************)
EXTENDS RecipeRun

CONSTANT GhidraVersions    \* number of releases of Ghidra seen
VARIABLE ghidraVersion     \* the one installed now

-----------------------------------------------------------------------------
(* prepareNativeAOT, between the Running report and the export.            *)
Plain   == Goto(2, "export", {"src"})     \* Ghidra as it is
Enabled == Goto(2, "export+", {"src"})    \* with the pre-script

(* A stamp for this Ghidra: the extension is taken as it is.               *)
Mut_AnyStamp == disk["stamp"].kind # "none"
StampMatches == disk["stamp"].kind = "whole" /\ disk["stamp"].of = ghidraVersion
ExtensionReady ==
  /\ Phase("native", 2, "prepare") /\ StampMatches
  /\ Enabled /\ UNCHANGED disk

(* Tool missing, Ghidra's version unreadable: plain analysis.              *)
ExtensionUnavailable ==
  /\ Phase("native", 2, "prepare")
  /\ Plain /\ UNCHANGED disk

(* Any other stamp: the directory of the old extension is removed, file by *)
(* file, and what cannot be removed stays.                                 *)
ExtensionRemove ==
  \/ /\ Phase("native", 2, "prepare") /\ ~StampMatches
     /\ Goto(2, "remove", {"extension"}) /\ UNCHANGED disk
  \/ /\ Phase("native", 2, "remove")
     /\ \E left \in {disk["stamp"], None} : disk' = Put2("extension", None, "stamp", left)
     /\ Goto(2, "install", {"extension"})

(* copyDir: the copy may be of a release for another Ghidra (0 stands for  *)
(* it), which has to be recompiled; a copy that fails is removed again.    *)
ExtensionInstall ==
  /\ Phase("native", 2, "install")
  /\ \/ \E built \in {0, ghidraVersion} :
          /\ disk' = Put("extension", MadeOf("whole", built))
          /\ IF built = 0 THEN Goto(2, "compile", {}) ELSE Goto(2, "stamp", {"stamp"})
     \/ disk' = Put("extension", None) /\ Plain

(* The recompilation needs a JDK and the bundled sources and works in a    *)
(* temporary directory; what fails removes the extension.                  *)
ExtensionCompile ==
  /\ Phase("native", 2, "compile")
  /\ \/ disk' = disk /\ Goto(2, "jar", {"extension"})
     \/ disk' = Put("extension", None) /\ Plain

(* The jar in place is overwritten with the new classes.                   *)
ExtensionJar ==
  /\ Phase("native", 2, "jar")
  /\ \/ disk' = Put("extension", MadeOf("whole", ghidraVersion)) /\ Goto(2, "stamp", {"stamp"})
     \/ disk' = Put("extension", None) /\ Plain

(* The stamp is written last.                                              *)
ExtensionStamp ==
  /\ Phase("native", 2, "stamp")
  /\ \/ disk' = Put("stamp", MadeOf("whole", ghidraVersion)) /\ Enabled
     \/ disk' = Put("stamp", Made("part")) /\ Plain

NativeAOT ==
  \/ ExtensionReady \/ ExtensionUnavailable \/ ExtensionRemove
  \/ ExtensionInstall \/ ExtensionCompile \/ ExtensionJar \/ ExtensionStamp

-----------------------------------------------------------------------------
(* StepFilter "ghidra" reports nothing for the first two steps.            *)
NativeGhidraOnly ==
  /\ At("native", 0) /\ opt.filter = "ghidra"
  /\ pc' = <<2, "begin">>
  /\ UNCHANGED <<ret, status, writing, disk, indexed, steady>>

NativeCopy == opt.filter # "ghidra" /\ CopyOriginal("native", 0)

(* The tool is always a Success; the built-in extractor that replaces it   *)
(* can fail to read the target.                                            *)
BuiltinStrings == \E s \in {"success", "failed"} : End("native", 1, s, disk)
NativeStrings ==
  \/ Begin("native", 1, {})
  \/ End("native", 1, "success", disk)
  \/ BuiltinStrings

(* StepFilter "strings" stops after them.                                  *)
NativeStringsOnly ==
  /\ At("native", 2) /\ opt.filter = "strings"
  /\ Return("nil")
  /\ UNCHANGED <<status, writing, disk, indexed, steady>>

(* Ghidra off in the settings, or not installed: the step is Skipped and   *)
(* the PE tables are written instead (writePEExtras).                      *)
NativeNoGhidra ==
  /\ opt.filter # "strings"
  /\ Skip("native", 2) \/ End("native", 2, "skipped", disk)

NativeGhidraBegin ==
  /\ opt.filter # "strings"
  /\ Begin("native", 2, {})

(* Ghidra found: with a NativeAOT image the extension is prepared first.   *)
NativeGhidraFound ==
  /\ In("native", 2)
  /\ pc' = <<2, IF opt.aot THEN "prepare" ELSE "export">>
  /\ writing' = IF opt.aot THEN {} ELSE {"src"}
  /\ UNCHANGED <<ret, status, disk, indexed, steady>>

(* A failed run with the extension is tried once more without it, unless   *)
(* the user stopped; a failed plain run ends the recipe.                   *)
NativeGhidraEnds ==
  /\ recipe = "native" /\ pc \in {<<2, "export">>, <<2, "export+">>}
  /\ \E g \in GhidraRuns :
       /\ disk' = Put("src", g.src)
       /\ \/ g.ok /\ Report(2, "success") /\ pc' = <<2, "split">> /\ UNCHANGED ret
          \/ ~g.ok /\ pc[2] = "export+" /\ ~cancelled /\ pc' = <<2, "export">> /\ UNCHANGED <<ret, status>>
          \/ ~g.ok /\ (pc[2] = "export" \/ cancelled) /\ Report(2, "failed") /\ Return("err")
  /\ writing' = CASE pc'[2] = "idle" -> {} [] pc'[2] = "split" -> {"symbols"} [] OTHER -> {"src"}
  /\ UNCHANGED <<indexed, steady>>

(* splitAndIndexDecompiledC: the combined .c stays when it fails.          *)
NativeSplit ==
  /\ Phase("native", 2, "split")
  /\ \/ disk' = disk
     \/ disk' = Put("symbols", MadeOf("part", disk["src"].run))
     \/ disk' = Put("symbols", MadeOf("whole", disk["src"].run))
  /\ Goto(3, "begin", {})

(* The index, then names, classes, hookable functions and duplicates.      *)
NativeIndex ==
  \/ BuildIndex("native", 3)
  \/ Done("native", 4)

NativeStep ==
  \/ NativeGhidraOnly \/ NativeCopy \/ NativeStrings \/ NativeStringsOnly
  \/ NativeNoGhidra \/ NativeGhidraBegin \/ NativeGhidraFound \/ NativeGhidraEnds
  \/ NativeSplit \/ NativeIndex

-----------------------------------------------------------------------------
DelphiCopy    == CopyOriginal("delphi", 0)
DelphiStrings == ExtractStrings("delphi", 1)

(* IDR: off, not installed, a non-zero exit (Failed), or anything else     *)
(* (Success, also when the command could not be run at all).               *)
DelphiIDR ==
  \/ Skip("delphi", 2)
  \/ Begin("delphi", 2, {})
  \/ \E s \in {"skipped", "failed", "success"} : End("delphi", 2, s, disk)

(* A failed Ghidra run does not end this recipe.                           *)
DelphiGhidra ==
  \/ Skip("delphi", 3)
  \/ Begin("delphi", 3, {"src"})
  \/ End("delphi", 3, "skipped", disk)
  \/ \E g \in GhidraRuns :
       End("delphi", 3, IF g.ok THEN "success" ELSE "failed", Put("src", g.src))

DelphiIndex == BuildIndex("delphi", 4) \/ Done("delphi", 5)

DelphiStep == DelphiCopy \/ DelphiStrings \/ DelphiIDR \/ DelphiGhidra \/ DelphiIndex

-----------------------------------------------------------------------------
JavaCopy == CopyOriginal("java", 0)

(* Vineflower: without the tool, a runtime or a directory the recipe ends. *)
JavaTools == Begin("java", 1, {"src"}) \/ EndErr("java", 1, disk)

(* A run that failed is degraded output when there are .java files, also   *)
(* those of an earlier run, and an error when there are none.              *)
Mut_JavaGoesOn ==
  LET kept == IF Has("src") THEN disk["src"] ELSE Made("empty")
  IN  \/ End("java", 1, "success", Put("src", Made("whole")))
      \/ End("java", 1, "failed", Put("src", kept))
JavaDecompile ==
  LET kept == IF Has("src") THEN disk["src"] ELSE Made("empty")
      had  == Files("src")
  IN  \/ End("java", 1, "success", Put("src", Made("whole")))
      \/ End("java", 1, "success", Put("src", kept))
      \/ End("java", 1, "warn", Put("src", Made("part")))
      \/ had /\ End("java", 1, "warn", Put("src", kept))
      \/ ~had /\ EndErr("java", 1, Put("src", kept))

JavaIndex == BuildIndex("java", 2) \/ Done("java", 3)

JavaStep == JavaCopy \/ JavaTools \/ JavaDecompile \/ JavaIndex

-----------------------------------------------------------------------------
(* Ghidra is updated between two runs.                                     *)
GhidraUpdate ==
  /\ pc = Idle
  /\ ghidraVersion < GhidraVersions
  /\ ghidraVersion' = ghidraVersion + 1
  /\ UNCHANGED recipeVars

(* A stamp that is believed is true: the extension under it is whole and   *)
(* built for the Ghidra that is installed, whatever point an earlier       *)
(* preparation was killed at (prepareNativeAOT removes the old extension   *)
(* before it copies the new one and writes the stamp last).                *)
StampIsTrue ==
  StampMatches => disk["extension"] = [disk["extension"] EXCEPT !.kind = "whole", !.of = ghidraVersion]
=============================================================================
