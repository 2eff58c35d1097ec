----------------------------- MODULE NsisUnpack -----------------------------
(***************************************************************************)
(* The recipe for Nullsoft installers (nsis.go).  The installer's script   *)
(* is a table of instructions; the recipe walks it once, from the first to *)
(* the last, follows no branch, and does to the output tree what the file  *)
(* instructions would do to the disk.  What cannot be walked is dumped     *)
(* record by record.                                                       *)
(***************************************************************************)
EXTENDS RecipeRun, SequencesExt

CONSTANT MaxEntries   \* instructions in a table

VARIABLES
  script,   \* the entry table of the target
  walk      \* nsisWalk: what one pass over it changes

nsisVars == <<script, walk>>

(* A name is the sequence of its segments.  $VAR2 and $VAR25 are variables *)
(* of the script, $INSTDIR stands for the root of the extracted tree.      *)
Block(op, n, b) == [op |-> op, name |-> n, to |-> <<>>, block |-> b]
Instr(op, n)    == Block(op, n, "none")
Instructions ==
  {Instr("setoutpath", <<"a">>), Instr("delete", <<"f">>), Instr("rmdir", <<"$INSTDIR", "a">>),
   [Instr("rename", <<"f">>) EXCEPT !.to = <<"..", "g">>],
   Instr("assign", <<"$VAR2">>), Instr("assign", <<"$VAR25">>),
   Instr("action", <<>>), Instr("branch", <<>>), Instr("unknown", <<>>),
   Block("uninstaller", <<"$INSTDIR", "u">>, "good")}
  \cup {Block("extract", n, b) : n \in {<<"f">>, <<"$VAR25", "f">>, <<"$INSTDIR">>}, b \in {"good", "bad"}}
FileOps == {"extract", "uninstaller"}

NsisInit ==
  /\ script \in IF recipe = "nsis" THEN UNION {[1 .. n -> Instructions] : n \in 1 .. MaxEntries} ELSE {<<>>}
  /\ walk = [at |-> 1, cwd |-> <<>>, vars |-> {}, tree |-> {}, written |-> {}, nowhere |-> {},
             wanted |-> 0, files |-> 0]

-----------------------------------------------------------------------------
(* str: every assigned variable (its value is "v") is replaced, the longer *)
(* names first; $VAR2, once assigned, is also the head of a $VAR25 that is *)
(* not.                                                                    *)
Str(name) ==
  [i \in DOMAIN name |->
     CASE name[i] = "$VAR25" /\ "$VAR25" \in walk.vars -> "v"
       [] name[i] = "$VAR25" /\ "$VAR2" \in walk.vars  -> "v5"
       [] name[i] = "$VAR2" /\ "$VAR2" \in walk.vars   -> "v"
       [] OTHER -> name[i]]

(* nsisVarSegment, sanitizeRel: the installation's root is the tree's, any *)
(* other variable a directory of its own, ".." is dropped.                 *)
VarSegment(seg) ==
  IF seg = "$INSTDIR" THEN "" ELSE IF seg \in {"$VAR2", "$VAR25"} THEN "_var" ELSE seg
SanitizeRel(p) == SelectSeq([i \in DOMAIN p |-> VarSegment(p[i])], LAMBDA s : s \notin {"", ".."})

(* filepath.Join resolves a leading ".." against the current directory.    *)
Join(dir, name) ==
  IF name # <<>> /\ Head(name) = ".." /\ dir # <<>> THEN Front(dir) \o Tail(name) ELSE dir \o name

(* dst: where a name ends up; <<>> is nowhere.                             *)
Dst(name) ==
  LET s == Str(name)
  IN  IF s # <<>> /\ Head(s) \in {"$INSTDIR", "$VAR2", "$VAR25"} THEN SanitizeRel(s)
      ELSE SanitizeRel(Join(walk.cwd, s))

(* writeData: a block that is out of bounds or cannot be decompressed is   *)
(* not written; a good one is, unless the disk refuses.                    *)
Written(e) == IF e.block = "good" THEN BOOLEAN ELSE {FALSE}

(* EW_EXTRACTFILE and EW_WRITEUNINSTALLER.                                 *)
Mut_CountsUnwritten(e) ==
  \E ok \in Written(e) :
    walk' = [walk EXCEPT !.at = @ + 1, !.wanted = @ + 1, !.files = @ + 1,
               !.tree = @ \cup {t \in {Dst(e.name)} : ok}, !.written = @ \cup {w \in {<<walk.at, Dst(e.name)>>} : ok}]
WriteFile(e) ==
  IF Dst(e.name) = <<>> THEN walk' = [walk EXCEPT !.at = @ + 1, !.nowhere = @ \cup {walk.at}]
  ELSE \E ok \in Written(e) :
         walk' = [walk EXCEPT !.at = @ + 1, !.wanted = @ + 1,
                    !.files   = IF ok THEN @ + 1 ELSE @,
                    !.tree    = @ \cup {t \in {Dst(e.name)} : ok},
                    !.written = @ \cup {w \in {<<walk.at, Dst(e.name)>>} : ok}]

(* The other instructions that touch the tree or the state of the walk.    *)
Under(t, d) == Len(t) >= Len(d) /\ SubSeq(t, 1, Len(d)) = d
Apply(e) ==
  LET d == Dst(e.name)  to == Dst(e.to)
      w == [walk EXCEPT !.at = @ + 1]
  IN  CASE e.op = "setoutpath" -> [w EXCEPT !.cwd = SanitizeRel(Str(e.name))]
        [] e.op = "assign"     -> [w EXCEPT !.vars = @ \cup {e.name[1]}]
        [] e.op = "delete"     -> [w EXCEPT !.tree = @ \ {d}]
        [] e.op = "rmdir"      -> [w EXCEPT !.tree = IF d = <<>> THEN @ ELSE {t \in @ : ~Under(t, d)}]
        [] e.op = "rename"     -> [w EXCEPT !.tree = IF d \in @ /\ to # <<>> THEN (@ \ {d}) \cup {to} ELSE @]
        [] OTHER               -> w

-----------------------------------------------------------------------------
NsisCopy == CopyOriginal("nsis", 0) /\ UNCHANGED nsisVars

(* The header is not where recon found it, unreadable, or cut short; a     *)
(* tampered signature is repaired on a copy.                               *)
NsisLocate ==
  /\ Begin("nsis", 1, {}) \/ End("nsis", 1, "success", disk) \/ EndErr("nsis", 1, disk)
  /\ UNCHANGED nsisVars

(* decompressNSIS tries three methods, each on the archive as its header   *)
(* bounds it or, when that is wrong, up to the signature of the file.      *)
Decompressed == {"LZMA", "deflate", "bzip2", "unknown"}
NsisDecompress ==
  /\ UNCHANGED nsisVars
  /\ \/ Begin("nsis", 2, {})
     \/ \E m \in Decompressed :
          \/ m # "unknown" /\ End("nsis", 2, "success", disk)
          \/ /\ m = "unknown" /\ In("nsis", 2)
             /\ Report(2, "failed") /\ Return("nil")
             /\ UNCHANGED <<writing, disk, indexed, steady>>

(* extractStructured: a table that is not inside the header is not walked. *)
NsisExtractBegin ==
  /\ Begin("nsis", 3, {}) \/ EndErr("nsis", 3, disk)
     \/ \E ph \in {"walk", "raw"} : In("nsis", 3) /\ Goto(3, ph, {}) /\ UNCHANGED disk
  /\ UNCHANGED script
  /\ walk' = [at |-> 1, cwd |-> <<>>, vars |-> {}, tree |-> {}, written |-> {}, nowhere |-> {},
              wanted |-> 0, files |-> 0]

NsisEntry ==
  /\ Phase("nsis", 3, "walk") /\ walk.at <= Len(script)
  /\ IF script[walk.at].op \in FileOps THEN WriteFile(script[walk.at]) ELSE walk' = Apply(script[walk.at])
  /\ UNCHANGED <<script, recipeVars>>

(* Complete, degraded, or nothing written: then the raw records.           *)
NsisWalked ==
  /\ walk.at > Len(script) /\ UNCHANGED nsisVars
  /\ \/ walk.files > 0
        /\ EndAt("nsis", 3, "walk", IF walk.files < walk.wanted THEN "warn" ELSE "success", disk)
     \/ walk.files = 0 /\ Phase("nsis", 3, "walk") /\ Goto(3, "raw", {}) /\ UNCHANGED disk

(* extractRawRecords over a region of words, each the size (in words) of   *)
(* the record after it: a size that is zero or too large is stepped over,  *)
(* word by word.  <<records, headers skipped>>                             *)
Regions == [1 .. MaxEntries + 1 -> 0 .. MaxEntries + 1]
RawRecords(region) ==
  LET from[pos \in 1 .. 2 * MaxEntries + 3] ==
        IF pos > Len(region) THEN <<0, 0>>
        ELSE IF region[pos] = 0 \/ pos + region[pos] > Len(region)
             THEN LET r == from[pos + 1] IN <<r[1], r[2] + 1>>
             ELSE LET r == from[pos + 1 + region[pos]] IN <<r[1] + 1, r[2]>>
  IN  from[1]

(* What was read is only written when the disk takes it.                   *)
NsisRaw ==
  /\ EndAt("nsis", 3, "raw", "warn", disk)
  /\ \E region \in Regions : \E n \in 0 .. RawRecords(region)[1] :
       walk' = [walk EXCEPT !.files = n, !.tree = @ \cup {<<"_raw">> : k \in 1 .. n}]
  /\ UNCHANGED script

NsisStep ==
  \/ NsisCopy \/ NsisLocate \/ NsisDecompress
  \/ NsisExtractBegin \/ NsisEntry \/ NsisWalked \/ NsisRaw
  \/ Done("nsis", 4) /\ UNCHANGED nsisVars

-----------------------------------------------------------------------------
FileRecords == {k \in DOMAIN script : script[k].op \in FileOps}

(* "A structured walk that dropped records is degraded output": when the   *)
(* extraction says Success, every file record of the table that has a      *)
(* place in the tree was written to it.                                    *)
SuccessIsWhole ==
  (recipe = "nsis" /\ status[3] = "success") =>
    FileRecords \subseteq {w[1] : w \in walk.written} \cup walk.nowhere

(* The comment on nsisWalk: "the goal is to see every file the installer   *)
(* CAN write".  After a Success the tree has a file for every destination  *)
(* that was written, whatever later instructions did.                      *)
EveryFileIsSeen ==
  (recipe = "nsis" /\ status[3] = "success") =>
    Cardinality(walk.tree) >= Cardinality({w[2] : w \in walk.written})
=============================================================================
