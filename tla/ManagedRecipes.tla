--------------------------- MODULE ManagedRecipes ---------------------------
(***************************************************************************)
(* The recipes for managed code: a clean .NET assembly (dotnet_generic),   *)
(* a Unity Mono assembly (unity_mono) and a Unity IL2CPP build (il2cpp,    *)
(* with the dumpers of il2cpp_inspector).  The Unity recipes leave marker  *)
(* files, so that a later run skips the stage they stand for.              *)
(***************************************************************************)
EXTENDS RecipeRun

(* ilspycmd on one assembly: as a project; when that fails src/ is emptied *)
(* and it is run without -p; when that fails too, type by type.            *)
IlspyProject(r, i) ==
  \/ Begin(r, i, {"src"})
  \/ EndErr(r, i, disk)
  \/ End(r, i, "success", Put("src", Made("whole")))
  \/ In(r, i) /\ disk' = Put("src", Made("empty")) /\ Goto(i, "flat", {"src"})

IlspyFlat(r, i) ==
  \/ EndAt(r, i, "flat", "success", Put("src", Made("whole")))
  \/ /\ Phase(r, i, "flat")
     /\ \E k \in {"empty", "part"} : disk' = Put("src", Made(k))
     /\ Goto(i, "types", {"src"})

(* The list of types fails or is empty; none of them, some or all succeed. *)
Mut_Silent(r, i) ==
  \/ /\ Phase(r, i, "types") /\ Return("err")
     /\ UNCHANGED <<status, writing, disk, indexed, steady>>
  \/ \E k \in {"part", "whole"} : EndAt(r, i, "types", "success", Put("src", Made(k)))
PerTypeFallback(r, i) ==
  \/ ErrAt(r, i, "types", disk)
  \/ \E k \in {"empty", "part"} : ErrAt(r, i, "types", Put("src", Made(k)))
  \/ \E k \in {"part", "whole"} : EndAt(r, i, "types", "success", Put("src", Made(k)))

DotnetStep ==
  \/ CopyOriginal("dotnet", 0)
  \/ ExtractStrings("dotnet", 1)
  \/ IlspyProject("dotnet", 2) \/ IlspyFlat("dotnet", 2) \/ PerTypeFallback("dotnet", 2)
  \/ BuildIndex("dotnet", 3)
  \/ Done("dotnet", 4)

-----------------------------------------------------------------------------
(* RunAssetRipperExport and what its caller does about it: assets not      *)
(* wanted, no tool, no data directory; exported before; an export that     *)
(* failed, which never ends the recipe; one that succeeded, marked after.  *)
RipperExport(r, i) ==
  \/ Begin(r, i, {})
  \/ End(r, i, "skipped", disk)
  \/ opt.assets /\ Has("ripped") /\ End(r, i, "success", disk)
  \/ /\ In(r, i) /\ opt.assets /\ ~Has("ripped")
     /\ Goto(i, "export", {"export"}) /\ UNCHANGED disk
  \/ EndAt(r, i, "export", "failed", disk)
  \/ EndAt(r, i, "export", "failed", Put("export", Made("part")))
  \/ /\ Phase(r, i, "export")
     /\ disk' = Put("export", [Made("whole") EXCEPT !.of = IF opt.full THEN 1 ELSE 0])
     /\ Goto(i, "mark", {})
  \/ \E m \in {disk, Put("ripped", Made("whole"))} : EndAt(r, i, "mark", "success", m)

(* gamedata.Organize over the export that is there, marked when it is      *)
(* done; an organized tree is left as it is, and the recipe returns.       *)
MonoOrganize ==
  \/ Begin("mono", 5, {})
  \/ ~Has("export") /\ End("mono", 5, "skipped", disk)
  \/ /\ In("mono", 5) /\ Has("export") /\ Has("organized")
     /\ Report(5, "skipped") /\ Return("nil")
     /\ UNCHANGED <<writing, disk, indexed, steady>>
  \/ /\ In("mono", 5) /\ Has("export") /\ ~Has("organized")
     /\ Goto(5, "organize", {"gamedata"}) /\ UNCHANGED disk
  \/ EndAt("mono", 5, "organize", "failed", Put("gamedata", Made("part")))
  \/ /\ Phase("mono", 5, "organize")
     /\ disk' = Put("gamedata", MadeOf("whole", IF disk["export"].kind = "whole" THEN 1 ELSE 0))
     /\ Goto(5, "mark", {})
  \/ EndAt("mono", 5, "mark", "success", Put("organized", Made("whole")))

MonoStep ==
  \/ CopyOriginal("mono", 0)
  \/ ExtractStrings("mono", 1)
  \/ IlspyProject("mono", 2) \/ IlspyFlat("mono", 2) \/ PerTypeFallback("mono", 2)
  \/ BuildIndex("mono", 3)
  \/ RipperExport("mono", 4)
  \/ MonoOrganize
  \/ Done("mono", 6)

-----------------------------------------------------------------------------
(* global-metadata.dat as a target of its own: every step is Skipped.      *)
Companion ==
  /\ At("companion", 0)
  /\ status' = [i \in Steps |-> "skipped"]
  /\ Return("nil")
  /\ UNCHANGED <<writing, disk, indexed, steady>>

(* No metadata next to the binary: an error before any step begins.        *)
Il2cppNoMetadata ==
  /\ At("il2cpp", 0)
  /\ Return("err")
  /\ UNCHANGED <<status, writing, disk, indexed, steady>>

(* A dump counts as present when il2cpp.cs is there and dump/dll is not    *)
(* empty, whatever run left them and in whatever state.                    *)
DumpPresent == Has("cs") /\ Files("dll")

(* dumperOrder: the inspector first when it is installed and knows the     *)
(* metadata version, last when it does not; "+" has the other one to try.  *)
Il2cppDump ==
  \/ Begin("il2cpp", 1, {})
  \/ EndErr("il2cpp", 1, disk)
  \/ DumpPresent /\ End("il2cpp", 1, "success", disk)
  \/ /\ In("il2cpp", 1) /\ ~DumpPresent
     /\ \E first \in {"legacy", "inspector+", "legacy+"} : Goto(1, first, {"cs", "dll"})
     /\ UNCHANGED disk

(* One dumper: it leaves what was there, or some or all of its output; it  *)
(* counts when it did not report an error and dump/dll has files, and      *)
(* otherwise the next one runs.                                            *)
Dumped(ph) ==
  LET kept == [dll |-> disk["dll"], cs |-> disk["cs"], err |-> FALSE]
      made == {[dll |-> Made(k), cs |-> disk["cs"], err |-> FALSE] : k \in {"part", "whole"}}
      runs == IF ph \in {"legacy", "legacy+"} THEN {kept} \cup made
              ELSE {kept, [dll |-> Made("part"), cs |-> Made("part"), err |-> FALSE],
                          [dll |-> Made("whole"), cs |-> Made("whole"), err |-> FALSE]} \cup made
  IN  {[o EXCEPT !.err = e] : o \in runs, e \in BOOLEAN}

Il2cppDumper ==
  \E ph \in {"legacy", "legacy+", "inspector", "inspector+"} :
    /\ Phase("il2cpp", 1, ph)
    /\ \E o \in Dumped(ph) :
         LET ok == ~o.err /\ o.dll.kind \in {"part", "whole"}
             d  == Put2("dll", o.dll, "cs", o.cs)
         IN  \/ ok /\ EndAt("il2cpp", 1, ph, "success", d)
             \/ ~ok /\ ph \in {"legacy", "inspector"} /\ ErrAt("il2cpp", 1, ph, d)
             \/ /\ ~ok /\ ph \in {"legacy+", "inspector+"}
                /\ disk' = d
                /\ Goto(1, IF ph = "legacy+" THEN "inspector" ELSE "legacy", {"cs", "dll"})

(* One ilspycmd per assembly that is not the system's: none, some or all   *)
(* of them succeed; a stop while paused returns from the middle of the     *)
(* loop, with the step still Running.                                      *)
Il2cppDecompile ==
  \/ Begin("il2cpp", 2, {"src"})
  \/ EndErr("il2cpp", 2, disk)
  \/ EndErr("il2cpp", 2, Put("src", Made("part")))
  \/ \E k \in {"empty", "part", "whole"} : End("il2cpp", 2, "success", Put("src", Made(k)))
  \/ /\ In("il2cpp", 2) /\ cancelled
     /\ Return("err") /\ writing' = {}
     /\ disk' = Put("src", Made("part"))
     /\ UNCHANGED <<status, indexed, steady>>

(* Odin: every .asset file is decoded behind a recover(); one that cannot  *)
(* be decoded is left out, and the step is a Success whatever was decoded. *)
Il2cppOdin ==
  \/ Begin("il2cpp", 4, {})
  \/ ~Files("export") /\ End("il2cpp", 4, "skipped", disk)
  \/ Has("export") /\ End("il2cpp", 4, "success", disk)

Il2cppStep ==
  \/ Il2cppNoMetadata
  \/ CopyOriginal("il2cpp", 0)
  \/ Il2cppDump \/ Il2cppDumper
  \/ Il2cppDecompile
  \/ RipperExport("il2cpp", 3)
  \/ Il2cppOdin
  \/ ExtractStrings("il2cpp", 5)
  \/ BuildIndex("il2cpp", 6)
  \/ Done("il2cpp", 7)

-----------------------------------------------------------------------------
(* A .ripped marker stands for an export that came to its end: the tree    *)
(* under it is never a torn one, whatever run was killed or failed.        *)
RippedIsTrue == Has("ripped") => disk["export"].kind = "whole"

(* The comment on stageDone: a resumed run skips work that has already     *)
(* been produced.  The tree an .organized marker stands for would then be  *)
(* the organized form of a whole export.                                   *)
OrganizedIsOfWhole == Has("organized") => disk["gamedata"].of = 1
=============================================================================
