----------------------------- MODULE AllRecipes -----------------------------
(***************************************************************************)
(* Runs of the recipes over one output directory: any recipe, any run      *)
(* killed at any point, and a next run that finds what it left; and the    *)
(* split of Ghidra's export (Csplit), one step of such a run, by itself:   *)
(* it reads and writes nothing that another step of the recipes touches.   *)
(***************************************************************************)
EXTENDS NativeRecipes, ManagedRecipes, UnrealRecipe, ConfuserExRecipe, NsisUnpack, Csplit

VARIABLE part

runVars == <<recipeVars, ghidraVersion, cfxVars, nsisVars>>
vars == <<part, runVars, csplitVars>>

Init ==
  /\ RecipeInit
  /\ ghidraVersion = 1
  /\ stage = "target" /\ children = 0
  /\ NsisInit
  /\ CsplitInit
  /\ part \in {"recipe", "split"}
  /\ IF part = "recipe" THEN tree = <<>> ELSE recipe = "native"

RunNext ==
  \/ NewRun /\ stage' = "target" /\ children' = 0 /\ UNCHANGED <<ghidraVersion, nsisVars>>
  \/ (Cancel \/ Die) /\ UNCHANGED <<ghidraVersion, cfxVars, nsisVars>>
  \/ GhidraUpdate /\ UNCHANGED <<cfxVars, nsisVars>>
  \/ (NativeStep \/ NativeAOT \/ DelphiStep \/ JavaStep) /\ UNCHANGED <<ghidraVersion, cfxVars, nsisVars>>
  \/ (DotnetStep \/ MonoStep \/ Companion \/ Il2cppStep) /\ UNCHANGED <<ghidraVersion, cfxVars, nsisVars>>
  \/ UnrealStep /\ UNCHANGED <<ghidraVersion, cfxVars, nsisVars>>
  \/ ConfuserExStep /\ UNCHANGED <<ghidraVersion, nsisVars>>
  \/ NsisStep /\ UNCHANGED <<ghidraVersion, cfxVars>>

Next ==
  \/ part = "recipe" /\ RunNext /\ UNCHANGED <<part, csplitVars>>
  \/ part = "split" /\ CsplitNext /\ UNCHANGED <<part, runVars>>

Spec == Init /\ [][Next]_vars

-----------------------------------------------------------------------------
(* A marker on disk is true whatever run was killed, stopped or failed:    *)
(* the one of an asset export stands over a whole export (stageDone), the  *)
(* stamp of the Ghidra extension over the one built for the Ghidra that is *)
(* installed (prepareNativeAOT).                                           *)
MarkersAreTrue == RippedIsTrue /\ StampIsTrue

(* A recipe that returns, with an error or without, leaves no step of its  *)
(* stepper at Running, unless the user stopped it.                         *)
NoStepLeftRunning ==
  (ret \in {"nil", "err"} /\ ~cancelled) => \A i \in Steps : status[i] # "running"

(* A recipe whose decompilation is a required step returns without an      *)
(* error only when the step says it has decompiled and a file of source is *)
(* on disk (LeftSource), with these exceptions: a jar without a class and  *)
(* a game of system assemblies only are a Success over an empty directory; *)
(* and the native recipe goes on without Ghidra, with the step Skipped.    *)
(* The strings phase of a batch run ends before that step.                 *)
LeftSource ==
  LET s == status[RequiredStep[recipe]]
  IN  \/ s \in {"success", "warn"} /\ Files("src")
      \/ recipe \in {"java", "il2cpp"} /\ s = "success" /\ disk["src"].kind = "empty"
      \/ recipe = "native" /\ s = "skipped"
StringsPhase == recipe = "native" /\ opt.filter = "strings"
NilMeansDecompiled ==
  (ret = "nil" /\ recipe \in DOMAIN RequiredStep /\ ~StringsPhase) => LeftSource

(* When the index step says Success, index.json describes the source the   *)
(* run leaves, not the tree an earlier run or an earlier step had left.    *)
IndexIsCurrent ==
  (ret = "nil" /\ recipe \in DOMAIN IndexStep /\ status[IndexStep[recipe]] = "success" /\ Has("src"))
     => indexed = disk["src"]
=============================================================================
