------------------------------- MODULE MCTools -------------------------------
(***************************************************************************)
(* Registries, requests and starts for ToolsService and ToolInstall.  The  *)
(* table of operations knows nothing of the directory of a tool but        *)
(* whether an installation failed, so a behaviour exercises one of them,   *)
(* which its first state chooses.                                          *)
(***************************************************************************)
EXTENDS ToolsService, ToolInstall

CONSTANT Parts
VARIABLE part

toolsVars == <<part, vars, installVars>>

\* All requests are over, nobody waits.
Quiet ==
  /\ pc = [j \in Jobs |-> "over"] /\ agenda = [j \in Jobs |-> << >>]
  /\ installed = {} /\ activeOps = {}
  /\ client = "told" /\ signalled = FALSE

ToolsInit ==
  /\ part \in Parts
  /\ InstallInit
  /\ IF part = "requests" THEN Init ELSE Quiet

ToolsNext ==
  \/ part = "requests" /\ Next /\ UNCHANGED <<part, installVars>>
  \/ part = "directory" /\ InstallNext /\ UNCHANGED <<part, vars>>

ToolsSpec == ToolsInit /\ [][ToolsNext]_toolsVars /\ Fairness

-----------------------------------------------------------------------------
MCGhidra == <<"ghidra">>
MCTwoTools == <<"ghidra", "strings">>
MCDownloadKey == [r \in Runtimes |-> "java-jre"]
MCDeps == [t \in Tools |-> IF t = "ghidra" THEN Runtimes ELSE {}]

MCMixed == [j1 |-> "all", j2 |-> "auto", j3 |-> "delete"]
MCAll == [j1 |-> "all"]
MCInstall == [j1 |-> "install"]
MCOnly == {Jobs}
MCPairs == {{"j1", "j2"}, {"j1", "j3"}, {"j2", "j3"}}
MCOnGhidra == [j \in Jobs |-> "ghidra"]

MCFlat == {"plain", "zip"} \X {"none", "old"}
MCNested == {"nested"} \X {"none", "old"}
MCPlain == {<<"plain", "old">>}
=============================================================================
