------------------------------- MODULE GuiStart -------------------------------
(***************************************************************************)
(* How the window comes up (cmd/morgue/main.go, runGUI) when the browser   *)
(* runtime it needs may be missing (internal/webview2): it is looked for   *)
(* in the program's directory and in the system, and installed on request. *)
(* Several windows may be started over one directory; each may be closed   *)
(* or killed at any step.                                                  *)
(***************************************************************************)
EXTENDS Naturals

CONSTANTS Starters,      \* windows that are started
          Attempts,      \* downloads tried (downloadFile)
          MaxTries       \* bound: starts of each

ASSUME GuiStartAssumption == {Attempts, MaxTries} \subseteq Nat \ {0}

VARIABLES local,        \* webview2-runtime: absent, empty, nested, partial or whole
          inSystem,     \* the runtime is installed in the system
          download,     \* the downloaded file of each kind: none, partial, whole
          gstep,        \* where the start of a window is
          tries,        \* attempts of the download under way
          begun,        \* starts so far
          browser       \* the runtime the window was opened with

guiVars == <<local, inSystem, download, gstep, tries, begun, browser>>

Kinds == {"setup", "cab"}

GuiInit ==
    /\ local = "absent"
    /\ inSystem \in BOOLEAN
    /\ download = [k \in Kinds |-> "none"]
    /\ gstep = [w \in Starters |-> "down"]
    /\ tries = [w \in Starters |-> 0]
    /\ begun = [w \in Starters |-> 0]
    /\ browser = [w \in Starters |-> "none"]

Turns(w, s) == gstep' = [gstep EXCEPT ![w] = s]

\* CheckAvailable: the local runtime comes first; one that is only in part there
\* may be taken for a runtime or not.
LocalVersion == CASE local = "whole" -> {TRUE}
                  [] local = "partial" -> BOOLEAN
                  [] OTHER -> {FALSE}

CheckAvailable(w) ==
    \E found \in LocalVersion :
        LET which == IF found THEN "local" ELSE IF inSystem THEN "system" ELSE "none"
        IN /\ browser' = [browser EXCEPT ![w] = which]
           /\ Turns(w, IF which # "none" THEN "open"
                       ELSE IF gstep[w] = "down" THEN "dialog" ELSE "failed")

StartGUI(w) ==
    /\ gstep[w] = "down" /\ begun[w] < MaxTries
    /\ begun' = [begun EXCEPT ![w] = @ + 1]
    /\ CheckAvailable(w)
    /\ UNCHANGED <<local, inSystem, download, tries>>

\* The user chooses; the portable installation first makes its directory.
ShowInstallDialog(w) ==
    /\ gstep[w] = "dialog"
    /\ \/ Turns(w, "down") /\ UNCHANGED local
       \/ Turns(w, "setup") /\ UNCHANGED local
       \/ /\ Turns(w, "cab")
          /\ local' = IF local = "absent" THEN "empty" ELSE local
    /\ tries' = [tries EXCEPT ![w] = 0]
    /\ UNCHANGED <<inSystem, download, begun, browser>>

\* One attempt of doDownload.  What is there is removed, the new file is written
\* and removed again when that fails; so it is when the last attempt has failed.
Fails(w, kind) ==
    /\ tries' = [tries EXCEPT ![w] = @ + 1]
    /\ Turns(w, IF tries[w] + 1 = Attempts THEN "failed" ELSE kind)

Attempt(w, kind) ==
    /\ gstep[w] = kind
    /\ \/ /\ download' = [download EXCEPT ![kind] = "partial"]
          /\ Turns(w, IF kind = "setup" THEN "copy setup" ELSE "copy cab")
          /\ UNCHANGED tries
       \/ /\ Fails(w, kind)
          /\ download' = IF tries[w] + 1 = Attempts
                         THEN [download EXCEPT ![kind] = "none"] ELSE download
    /\ UNCHANGED <<local, inSystem, begun, browser>>

Copied(w, kind) ==
    /\ gstep[w] = IF kind = "setup" THEN "copy setup" ELSE "copy cab"
    /\ \/ /\ download' = [download EXCEPT ![kind] = "whole"]
          /\ Turns(w, IF kind = "setup" THEN "run setup" ELSE "expand")
          /\ UNCHANGED tries
       \/ download' = [download EXCEPT ![kind] = "none"] /\ Fails(w, kind)
    /\ UNCHANGED <<local, inSystem, begun, browser>>

\* The bootstrapper does what it does, or the user refuses it; its file goes, and
\* the check is made again.
RunSetup(w) ==
    /\ gstep[w] = "run setup"
    /\ \/ /\ inSystem' \in {inSystem, inSystem \/ download["setup"] = "whole"}
          /\ Turns(w, "check again")
       \/ Turns(w, "failed") /\ UNCHANGED inSystem
    /\ download' = [download EXCEPT !["setup"] = "none"]
    /\ UNCHANGED <<local, tries, begun, browser>>

CheckAgain(w) ==
    /\ gstep[w] = "check again"
    /\ CheckAvailable(w)
    /\ UNCHANGED <<local, inSystem, download, tries, begun>>

Mut_ExpandUnchecked(w) ==
    /\ gstep[w] = "expand"
    /\ local' = IF download["cab"] # "whole" THEN local
                ELSE IF local = "whole" THEN "whole" ELSE "nested"
    /\ Turns(w, "flatten")
    /\ UNCHANGED <<download, inSystem, tries, begun, browser>>

\* expand.exe puts the runtime into a directory of its own under the target; it
\* fails on a cabinet that is not whole.
Expand(w) ==
    /\ gstep[w] = "expand"
    /\ \/ /\ download["cab"] = "whole"
          /\ local' = IF local = "whole" THEN "whole" ELSE "nested"
          /\ Turns(w, "flatten")
          /\ UNCHANGED download
       \/ /\ Turns(w, "failed")
          /\ download' = [download EXCEPT !["cab"] = "none"]
          /\ UNCHANGED local
    /\ UNCHANGED <<inSystem, tries, begun, browser>>

\* Everything in that directory is moved up, one entry after the other and with
\* no look at errors; the window then opens without a second check.
Flatten(w) ==
    /\ gstep[w] = "flatten"
    /\ local' \in IF local = "nested" THEN {"nested", "partial", "whole"} ELSE {local}
    /\ download' = [download EXCEPT !["cab"] = "none"]
    /\ browser' = [browser EXCEPT ![w] = "local"]
    /\ Turns(w, "open")
    /\ UNCHANGED <<inSystem, tries, begun>>

\* A failed installation ends the program after a message, and a window is closed.
Leave(w) ==
    /\ gstep[w] \in {"failed", "open"}
    /\ Turns(w, "down")
    /\ UNCHANGED <<local, inSystem, download, tries, begun, browser>>

\* Killed: in the middle of the moves the runtime is left in part.
Dies(w) ==
    /\ gstep[w] \notin {"down", "open"}
    /\ local' \in IF gstep[w] = "flatten" /\ local = "nested"
                  THEN {"nested", "partial"} ELSE {local}
    /\ Turns(w, "down")
    /\ UNCHANGED <<inSystem, download, tries, begun, browser>>

GuiNext ==
    \E w \in Starters :
        \/ StartGUI(w) \/ ShowInstallDialog(w) \/ RunSetup(w) \/ CheckAgain(w)
        \/ Expand(w) \/ Flatten(w) \/ Leave(w) \/ Dies(w)
        \/ \E k \in Kinds : Attempt(w, k) \/ Copied(w, k)

(***************************************************************************)
(* Property.                                                               *)
(***************************************************************************)
\* No window opens without a runtime: whatever was answered, downloaded by whom and
\* cut off where, one that opens was told of the system's runtime or finds at least
\* something of the local one, never the empty directory that a portable
\* installation makes before its download and a failed one leaves behind.
OpensWithRuntime ==
    \A w \in Starters :
        gstep[w] = "open" => \/ browser[w] = "system" /\ inSystem
                             \/ browser[w] = "local" /\ local \notin {"absent", "empty"}
=============================================================================
