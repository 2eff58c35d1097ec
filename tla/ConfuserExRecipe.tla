-------------------------- MODULE ConfuserExRecipe --------------------------
(***************************************************************************)
(* The recipe for obfuscated .NET assemblies (dotnet_confuserex.go).  Each *)
(* pass reads the assembly the last pass that applied has written, and a   *)
(* pass that does not apply is no failure: `stage` names the assembly the  *)
(* next pass will read.  Assemblies that the target carries inside are run *)
(* through the same passes, one by one.                                    *)
(***************************************************************************)
EXTENDS RecipeRun

CONSTANT MaxChildren   \* assemblies embedded in the target

VARIABLES
  stage,      \* "target" | "deobf" | "plain" (strings decrypted) | "cflow"
  children    \* extracted assemblies not yet recursed into

cfxVars == <<stage, children>>

(* buildDotnetTool: what is in the cache is used as it is, by every later  *)
(* run; otherwise it is built, which needs an SDK and may fail.            *)
BuildTool ==
  IF Has("cfxtool") THEN {[ok |-> TRUE, disk |-> disk], [ok |-> FALSE, disk |-> disk]}
  ELSE {[ok |-> TRUE, disk |-> Put("cfxtool", Made("whole"))], [ok |-> FALSE, disk |-> disk]}
Building == IF Has("cfxtool") THEN {} ELSE {"cfxtool"}

CfxBegins ==
  \/ At("confuserex", 0) /\ Return("err") /\ UNCHANGED <<status, writing, disk, indexed, steady, cfxVars>>
  \/ CopyOriginal("confuserex", 0) /\ stage' = "target" /\ UNCHANGED children

(* runToolStep: de4dot missing, failing or without output leaves the stage.*)
CfxDeobfuscate ==
  /\ UNCHANGED children
  /\ \/ Begin("confuserex", 1, {}) /\ UNCHANGED stage
     \/ End("confuserex", 1, "skipped", disk) /\ UNCHANGED stage
     \/ End("confuserex", 1, "success", disk) /\ stage' = "deobf"

(* No marker of an encrypted string left: Success.  Skipped when it cannot *)
(* be told; Skipped too with markers left, and cfxstrings runs after that. *)
CfxVerify ==
  /\ UNCHANGED cfxVars
  /\ \/ Begin("confuserex", 2, {})
     \/ \E s \in {"success", "skipped"} : End("confuserex", 2, s, disk)
     \/ /\ In("confuserex", 2)
        /\ Report(2, "skipped")
        /\ pc' = <<2, "decrypt">>
        /\ writing' = Building
        /\ UNCHANGED <<ret, disk, indexed, steady>>

(* cfxStringsHost: the stage changes only when something was rewritten.    *)
HostStrings ==
  /\ Phase("confuserex", 2, "decrypt")
  /\ \E b \in BuildTool :
       /\ disk' = b.disk
       /\ stage' \in {stage} \cup {s \in {"plain"} : b.ok}
  /\ Goto(3, "begin", {}) /\ UNCHANGED children

CfxStrings == ExtractStrings("confuserex", 3) /\ UNCHANGED cfxVars

(* The extractor loads the target itself and runs its module initialiser:  *)
(* only when the user allowed it.                                          *)
CfxExtract ==
  /\ UNCHANGED stage
  /\ \/ Begin("confuserex", 4, Building) /\ UNCHANGED children
     \/ ~opt.dynamic /\ End("confuserex", 4, "skipped", disk) /\ UNCHANGED children
     \/ /\ opt.dynamic
        /\ \E b \in BuildTool :
             \/ End("confuserex", 4, "skipped", b.disk) /\ UNCHANGED children
             \/ b.ok /\ End("confuserex", 4, "success", b.disk) /\ children' \in 0 .. MaxChildren

(* decompileExtracted.  Without ilspycmd nothing is done, and that is a    *)
(* Success of 0 assemblies.                                                *)
CfxChildren ==
  /\ UNCHANGED stage
  /\ \/ Begin("confuserex", 5, {}) /\ UNCHANGED children
     \/ children = 0 /\ End("confuserex", 5, "skipped", disk) /\ UNCHANGED children
     \/ children > 0 /\ End("confuserex", 5, "success", disk) /\ children' = 0
     \/ /\ children > 0 /\ In("confuserex", 5)
        /\ \E b \in BuildTool : disk' = b.disk
        /\ Goto(5, "child", {}) /\ UNCHANGED children
     \/ children = 0 /\ EndAt("confuserex", 5, "child", "success", disk) /\ UNCHANGED children

(* A child goes through de4dot, cfxstrings (only when it has encrypted     *)
(* strings) and cfxcflow, each of which may leave it as it is; one whose   *)
(* directory cannot be made is passed over.                                *)
ChildPasses ==
  /\ children > 0 /\ Phase("confuserex", 5, "child")
  /\ \/ children' = children - 1 /\ Goto(5, "child", {})
     \/ UNCHANGED children /\ Goto(5, "source", {"extracted"})
  /\ UNCHANGED <<disk, stage>>

(* One that does not decompile is passed over too.                         *)
ChildDecompiled ==
  /\ Phase("confuserex", 5, "source")
  /\ children' = children - 1
  /\ \E k \in {disk["extracted"], Made("part"), Made("whole")} : disk' = Put("extracted", k)
  /\ Goto(5, "child", {}) /\ UNCHANGED stage

(* Opt-in; a result counts only when something changed and was verified.   *)
CflowPass == {stage, "cflow"}
CfxCflow ==
  /\ UNCHANGED children
  /\ \/ Begin("confuserex", 6, IF opt.cflow THEN Building ELSE {}) /\ UNCHANGED stage
     \/ ~opt.cflow /\ End("confuserex", 6, "skipped", disk) /\ UNCHANGED stage
     \/ opt.cflow /\ \E b \in BuildTool, s \in CflowPass :
          /\ stage' = s
          /\ \/ s = stage /\ End("confuserex", 6, "skipped", b.disk)
             \/ s = "cflow" /\ b.ok /\ End("confuserex", 6, "success", b.disk)

CfxDecompile ==
  /\ UNCHANGED cfxVars
  /\ \/ Begin("confuserex", 7, {"src"})
     \/ EndErr("confuserex", 7, disk)
     \/ EndErr("confuserex", 7, Put("src", Made("part")))
     \/ End("confuserex", 7, "success", Put("src", Made("whole")))

CfxIndex == (BuildIndex("confuserex", 8) \/ Done("confuserex", 9)) /\ UNCHANGED cfxVars

ConfuserExStep ==
  \/ CfxBegins \/ CfxDeobfuscate \/ CfxVerify \/ HostStrings \/ CfxStrings
  \/ CfxExtract \/ CfxChildren \/ ChildPasses \/ ChildDecompiled \/ CfxCflow \/ CfxDecompile \/ CfxIndex

=============================================================================
