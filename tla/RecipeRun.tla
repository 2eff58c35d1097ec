------------------------------ MODULE RecipeRun ------------------------------
(***************************************************************************)
(* What the recipes share: a sequence of numbered steps that report their  *)
(* status, the products they leave in the output directory, and the fact   *)
(* that the directory outlives a run.  The next run over the same target   *)
(* finds what the last one left, also when that one was killed in the      *)
(* middle of a step.  A recipe module adds one action per step.            *)
(***************************************************************************)
EXTENDS Naturals, FiniteSets, Sequences

CONSTANT MaxRuns    \* runs over one output directory
ASSUME MaxRunsAssumption == MaxRuns \in Nat \ {0}

VARIABLES
  recipe,     \* the recipe that matched the target
  opt,        \* what the user asked for in this run
  run,        \* number of the run, 0 before the first
  pc,         \* <<step, phase>> of Execute
  ret,        \* what Execute answered: "none" | "nil" | "err" | "died"
  status,     \* the last status reported for each step
  writing,    \* products the running step is changing
  disk,       \* product -> what is on disk
  indexed,    \* the sources index.json was built from
  cancelled   \* ctx.Ctx is done

steady == <<recipe, opt, run, cancelled>>
recipeVars == <<recipe, opt, run, pc, ret, status, writing, disk, indexed, cancelled>>

Recipes  == {"native", "delphi", "java", "dotnet", "confuserex", "mono",
             "il2cpp", "companion", "ue5", "nsis"}
LastStep == 8
Steps    == 0 .. LastStep

(* Of a step that others depend on the last status is kept; of the rest,   *)
(* whether it runs or has ended.                                           *)
RequiredStep == [native |-> 2, dotnet |-> 2, mono |-> 2, il2cpp |-> 2, java |-> 1, confuserex |-> 7]
IndexStep == [native |-> 3, delphi |-> 4, java |-> 2, dotnet |-> 3, mono |-> 3, il2cpp |-> 6,
              ue5 |-> 5, confuserex |-> 8]
Kept(r, i) ==
  \/ r \in DOMAIN RequiredStep /\ i = RequiredStep[r]
  \/ r \in DOMAIN IndexStep /\ i = IndexStep[r]
  \/ r = "ue5" /\ i = 0
  \/ r = "nsis" /\ i = 3
Idle     == <<0, "idle">>

(* The products that decide what a later step or run does; what is only    *)
(* written (the copy of the target, strings.txt, name_resolution.json,     *)
(* hookable.json, the decoded Odin values) is left out.                    *)
Products == {"src", "symbols", "stamp", "extension", "export", "ripped",
             "gamedata", "organized", "cs", "dll", "extracted", "cfxtool"}

(* A product is missing, an empty directory, torn or whole; `run` is the   *)
(* run that wrote it last, `of` what it was made from.                     *)
None == [kind |-> "none", run |-> 0, of |-> 0]
Made(k) == [kind |-> k, run |-> run, of |-> 0]
MadeOf(k, x) == [kind |-> k, run |-> run, of |-> x]
Has(p)   == disk[p].kind # "none"
Files(p) == disk[p].kind \in {"part", "whole"}
Put(p, v) == [disk EXCEPT ![p] = v]
Put2(p, v, q, w) == [disk EXCEPT ![p] = v, ![q] = w]

(* What the user may ask for: the phase of a batch run, the asset export   *)
(* and the full one, to execute the target, to unflatten its control flow; *)
(* and what the target is: a .NET NativeAOT image, a package with a usmap. *)
Default == [filter |-> "all", assets |-> TRUE, full |-> FALSE, dynamic |-> FALSE,
            cflow |-> FALSE, aot |-> FALSE, usmap |-> FALSE]
Options(r) ==
  CASE r = "native" -> {[Default EXCEPT !.filter = f, !.aot = a] :
                          f \in {"all", "strings", "ghidra"}, a \in BOOLEAN}
    [] r = "mono"   -> {[Default EXCEPT !.assets = a] : a \in BOOLEAN}
    [] r = "il2cpp" -> {[Default EXCEPT !.assets = a, !.full = f] : a, f \in BOOLEAN}
    [] r = "ue5"    -> {[Default EXCEPT !.usmap = u] : u \in BOOLEAN}
    [] r = "confuserex" -> {[Default EXCEPT !.dynamic = d, !.cflow = c] : d, c \in BOOLEAN}
    [] OTHER        -> {Default}

-----------------------------------------------------------------------------
Phase(r, i, ph) == recipe = r /\ pc = <<i, ph>>
At(r, i) == Phase(r, i, "begin")
In(r, i) == Phase(r, i, "run")

Report(i, s) ==
  status' = [status EXCEPT ![i] = IF s = "running" \/ Kept(recipe, i) THEN s ELSE "ended"]
Return(v)    == ret' = v /\ pc' = Idle
Goto(i, ph, w) ==
  pc' = <<i, ph>> /\ writing' = w /\ UNCHANGED <<ret, status, indexed, steady>>

(* report(i, Running): the step's tool starts and may change `w`.          *)
Begin(r, i, w) ==
  /\ At(r, i)
  /\ Report(i, "running")
  /\ pc' = <<i, "run">>
  /\ writing' = w
  /\ UNCHANGED <<ret, disk, indexed, steady>>

(* The step reports Skipped without having begun.                          *)
Skip(r, i) ==
  /\ At(r, i)
  /\ Report(i, "skipped")
  /\ pc' = <<i + 1, "begin">>
  /\ UNCHANGED <<ret, writing, disk, indexed, steady>>

(* The step ends with status `s`, leaving `d`, and Execute goes on.        *)
EndAt(r, i, ph, s, d) ==
  /\ Phase(r, i, ph)
  /\ Report(i, s)
  /\ pc' = <<i + 1, "begin">>
  /\ writing' = {}
  /\ disk' = d
  /\ UNCHANGED <<ret, indexed, steady>>
End(r, i, s, d) == EndAt(r, i, "run", s, d)

(* The step fails and Execute returns its error.                           *)
ErrAt(r, i, ph, d) ==
  /\ Phase(r, i, ph)
  /\ Report(i, "failed")
  /\ Return("err")
  /\ writing' = {}
  /\ disk' = d
  /\ UNCHANGED <<indexed, steady>>
EndErr(r, i, d) == ErrAt(r, i, "run", d)

(* Execute reaches its last line.                                          *)
Done(r, n) ==
  /\ At(r, n)
  /\ Return("nil")
  /\ UNCHANGED <<status, writing, disk, indexed, steady>>

(* "Copy original" (and its twins): a failed copy ends the recipe.         *)
CopyOriginal(r, i) == Begin(r, i, {}) \/ End(r, i, "success", disk) \/ EndErr(r, i, disk)

(* The strings tool: Skipped without it; a command that cannot be started, *)
(* or that fails, is reported as Success all the same.                     *)
ExtractStrings(r, i) ==
  Begin(r, i, {}) \/ \E s \in {"skipped", "success"} : End(r, i, s, disk)

(* buildIndexWith: index.json is rewritten from the tree as it is now.     *)
Mut_IndexOnce(r, i) ==
  \/ Begin(r, i, {})
  \/ indexed # None /\ End(r, i, "success", disk)
  \/ /\ indexed = None /\ Has("src") /\ In(r, i)
     /\ Report(i, "success")
     /\ pc' = <<i + 1, "begin">>
     /\ writing' = {}
     /\ indexed' = disk["src"]
     /\ UNCHANGED <<ret, disk, steady>>
BuildIndex(r, i) ==
  \/ Begin(r, i, {})
  \/ ~Has("src") /\ End(r, i, "skipped", disk)
  \/ Has("src") /\ End(r, i, "failed", disk)
  \/ /\ Has("src") /\ In(r, i)
     /\ Report(i, "success")
     /\ pc' = <<i + 1, "begin">>
     /\ writing' = {}
     /\ indexed' = disk["src"]
     /\ UNCHANGED <<ret, disk, steady>>

-----------------------------------------------------------------------------
(* The environment of analyzeHeadless and its temporary directories: the   *)
(* run may end here, before src/ exists.                                   *)
GhidraSetup == {[src |-> disk["src"], ok |-> FALSE]}

(* analyzeHeadless itself.  It may fail with or without a torn .c; it may  *)
(* exit 0 although its export script died, with the .c of an earlier run,  *)
(* with the part the script had flushed, or (staged under a short path and *)
(* not copied back) with nothing new.                                      *)
GhidraExport ==
  LET kept == IF Has("src") THEN disk["src"] ELSE Made("empty")
  IN  {[src |-> s, exit0 |-> e] : s \in {kept, Made("part")}, e \in BOOLEAN}
        \cup {[src |-> Made("whole"), exit0 |-> TRUE]}

(* The export counts when the command ended well and a non-empty .c is     *)
(* there, whichever run wrote it.                                          *)
GhidraRuns ==
  GhidraSetup \cup
  {[src |-> e.src, ok |-> e.exit0 /\ e.src.kind \in {"part", "whole"}] : e \in GhidraExport}

-----------------------------------------------------------------------------
(* The next run over the same output directory.                            *)
NewRun ==
  /\ pc = Idle /\ run < MaxRuns
  /\ run' = run + 1
  /\ opt' \in Options(recipe)
  /\ pc' = <<0, "begin">>
  /\ ret' = "none"
  /\ status' = [i \in Steps |-> "pending"]
  /\ cancelled' = FALSE
  /\ UNCHANGED <<recipe, writing, disk, indexed>>

(* The user stops the run: commands are killed, Execute goes on.           *)
Cancel ==
  /\ pc # Idle /\ ~cancelled
  /\ cancelled' = TRUE
  /\ UNCHANGED <<recipe, opt, run, pc, ret, status, writing, disk, indexed>>

(* The process is killed: what the step was writing may be left torn.      *)
Die ==
  /\ pc # Idle
  /\ \E torn \in SUBSET writing :
       disk' = [p \in Products |-> IF p \in torn THEN Made("part") ELSE disk[p]]
  /\ Return("died")
  /\ writing' = {}
  /\ UNCHANGED <<status, indexed, steady>>

RecipeInit ==
  /\ recipe \in Recipes
  /\ opt = Default
  /\ run = 0
  /\ pc = Idle
  /\ ret = "none"
  /\ status = [i \in Steps |-> "pending"]
  /\ writing = {}
  /\ disk = [p \in Products |-> None]
  /\ indexed = None
  /\ cancelled = FALSE
=============================================================================
