-------------------------------- MODULE BaseDir -------------------------------
(***************************************************************************)
(* The processes of the program, windows and command lines, and what they  *)
(* share: the executable (SelfUpdate), the browser runtime beside it       *)
(* (GuiStart), the settings, the lock file and the release cache           *)
(* (SharedFiles), the window's API and an output directory (CommandLine),   *)
(* and the page of the window (HomePage).                                  *)
(* No step of one part reads or writes what another has, so each behaviour *)
(* exercises one part, which its first state chooses.                      *)
(***************************************************************************)
EXTENDS SelfUpdate, GuiStart, SharedFiles, CommandLine, HomePage

CONSTANTS w, f, c,                 \* the window, its settings page, the command line
          mode, token, t1, t2      \* settings and tools

VARIABLE part

vars == <<part, updateVars, guiVars, sharedVars, commandVars, homeVars>>

Init ==
    /\ part \in {"update", "start", "settings", "lock", "cache", "client", "terminal", "page"}
    /\ UpdateInit /\ GuiInit /\ SharedInit /\ CommandInit /\ HomeInit
    \* What no step of the part reads starts one way only.
    /\ part # "update" => exe.ver = 0
    /\ part # "start" => ~inSystem
    /\ part # "settings" => cfg = Defaults
    /\ part # "lock" => lock = NoTools
    /\ part # "client" => server = "up"
    /\ part # "terminal" => cmd.mode = "plain" /\ summary = NoSummary

UpdatePart ==
    /\ part = "update" /\ UpdateNext
    /\ UNCHANGED <<part, guiVars, sharedVars, commandVars, homeVars>>

StartPart ==
    /\ part = "start" /\ GuiNext
    /\ UNCHANGED <<part, updateVars, sharedVars, commandVars, homeVars>>

SharedPart ==
    /\ \/ part = "settings" /\ SettingsNext
       \/ part = "lock" /\ LockNext
       \/ part = "cache" /\ CacheNext
       \/ part \in {"settings", "lock", "cache"} /\ \E p \in {"window", "command line"} : Killed(p)
    /\ UNCHANGED <<part, updateVars, guiVars, commandVars, homeVars>>

CommandPart ==
    /\ \/ part = "client" /\ ClientNext /\ UNCHANGED runVars
       \/ part = "terminal" /\ RunNext /\ UNCHANGED clientVars
    /\ UNCHANGED <<part, updateVars, guiVars, sharedVars, homeVars>>

PagePart ==
    /\ part = "page" /\ HomeNext
    /\ UNCHANGED <<part, updateVars, guiVars, sharedVars, commandVars>>

Next == UpdatePart \/ StartPart \/ SharedPart \/ CommandPart \/ PagePart

Spec == Init /\ [][Next]_vars /\ UpdateFairness /\ HomeFairness
=============================================================================
