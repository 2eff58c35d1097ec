--------------------------- MODULE AllRecipes_proof ---------------------------
(***************************************************************************)
(* Proofs about AllRecipes, for any number of runs, releases of Ghidra,    *)
(* embedded assemblies and instructions, and for exports of any length:    *)
(* the safety properties of the recipes, of the walk over an installer's   *)
(* script and of the split of Ghidra's export.                             *)
(*                                                                         *)
(* The runs of the recipes have one invariant (RecipeInv).  Its parts say  *)
(* what must hold while a step is under way for the properties to hold     *)
(* when the recipe returns, or is killed: a marker is false only while     *)
(* what it stands for is not touched (RippedInv, StampInv), and what a     *)
(* step has achieved is not undone by those after it (DecompiledInv,       *)
(* IndexInv).  Every step of every recipe is Within its recipe: it changes *)
(* the status of its own step only and, of the products, those that        *)
(* Touched names; what follows from that alone is proved once (the lemmas  *)
(* that end in Frame).  The walk and the split have an invariant each      *)
(* (WalkInv, SplitInv), over variables that nothing else changes.          *)
(***************************************************************************)
EXTENDS AllRecipes, TLAPS

-----------------------------------------------------------------------------
(* The invariant of the runs                                                *)

Statuses == {"pending", "running", "skipped", "success", "failed", "warn", "ended"}
Product  == [kind : {"none", "empty", "part", "whole"}, run : Nat, of : Nat]

RecipeTypeOK ==
  /\ recipe \in Recipes
  /\ run \in Nat
  /\ pc[1] \in Nat
  /\ ret \in {"none", "nil", "err", "died"}
  /\ status \in [Steps -> Statuses]
  /\ writing \subseteq Products
  /\ disk \in [Products -> Product]
  /\ indexed \in Product
  /\ cancelled \in BOOLEAN
  /\ ghidraVersion \in Nat

\* Between two steps no step is running; within one, that step at most, and
\* not once it has reported its end.
RunningInv ==
  /\ pc # Idle =>
       \A i \in Steps : status[i] = "running" => i = pc[1] /\ pc[2] \notin {"begin", "split", "decrypt"}
  /\ NoStepLeftRunning
  /\ ret # "none" => pc = Idle

\* An export is written, and known to be whole, only while there is no marker.
RippedInv ==
  /\ RippedIsTrue
  /\ "ripped" \notin writing
  /\ "export" \in writing => ~Has("ripped")
  /\ <<recipe, pc>> \in {<<"mono", <<4, "export">>>>, <<"il2cpp", <<3, "export">>>>} => ~Has("ripped")
  /\ <<recipe, pc>> \in {<<"mono", <<4, "mark">>>>, <<"il2cpp", <<3, "mark">>>>} =>
       disk["export"].kind = "whole" /\ writing = {}

\* The extension is changed only under a stamp that is not believed.
StampInv ==
  /\ StampIsTrue
  /\ disk["stamp"].of <= ghidraVersion
  /\ "extension" \in writing => ~StampMatches
  /\ recipe = "native" /\ pc[1] = 2 /\ pc[2] \in {"remove", "install", "compile", "jar", "stamp"} =>
       ~StampMatches
  /\ recipe = "native" /\ pc = <<2, "stamp">> =>
       /\ disk["extension"].kind = "whole" /\ disk["extension"].of = ghidraVersion
       /\ writing = {"stamp"}

AssetsInv ==
  /\ NoStaleAssets
  /\ recipe = "ue5" /\ pc = <<0, "convert">> =>
       disk["extracted"].run = run \/ disk["extracted"].of = 1

DecompiledInv ==
  /\ NilMeansDecompiled
  /\ recipe \in DOMAIN RequiredStep /\ pc # Idle /\ pc[1] > RequiredStep[recipe] => LeftSource
  /\ recipe = "native" /\ pc = <<2, "split">> => LeftSource

IndexInv ==
  /\ IndexIsCurrent
  /\ recipe \in DOMAIN IndexStep /\ pc # Idle /\ status[IndexStep[recipe]] = "success" =>
       pc[1] > IndexStep[recipe] /\ (Has("src") => indexed = disk["src"])

RecipeInv ==
  RecipeTypeOK /\ RunningInv /\ RippedInv /\ StampInv /\ AssetsInv /\ DecompiledInv /\ IndexInv

Touched(r, i) ==
  CASE r = "native"     -> IF i = 2 THEN {"src", "symbols", "stamp", "extension"} ELSE {}
    [] r = "delphi"     -> IF i = 3 THEN {"src"} ELSE {}
    [] r = "java"       -> IF i = 1 THEN {"src"} ELSE {}
    [] r = "dotnet"     -> IF i = 2 THEN {"src"} ELSE {}
    [] r = "mono"       -> IF i = 2 THEN {"src"} ELSE IF i = 4 THEN {"export", "ripped"}
                           ELSE IF i = 5 THEN {"gamedata", "organized"} ELSE {}
    [] r = "il2cpp"     -> IF i = 1 THEN {"cs", "dll"} ELSE IF i = 2 THEN {"src"}
                           ELSE IF i = 3 THEN {"export", "ripped"} ELSE {}
    [] r = "ue5"        -> IF i = 0 THEN {"extracted"} ELSE IF i = 3 THEN {"src", "symbols"} ELSE {}
    [] r = "confuserex" -> IF i \in {2, 4, 6} THEN {"cfxtool"} ELSE IF i = 5 THEN {"cfxtool", "extracted"}
                           ELSE IF i = 7 THEN {"src"} ELSE {}
    [] OTHER -> {}

\* What any step of recipe r does: it goes on by a step at most, or returns, and
\* changes the status of that step and the products it writes, no others.
Goes(r) ==
  /\ pc # Idle /\ recipe = r
  /\ pc' = Idle \/ ret' = ret
  /\ pc' = Idle \/ pc'[1] \in {pc[1], pc[1] + 1} \/ (r = "native" /\ pc[1] = 0 /\ pc'[1] = 2)
Marks(r) ==
  /\ \A j \in Steps : j # pc[1] => status'[j] = status[j]
  /\ r \in DOMAIN IndexStep /\ pc[1] # IndexStep[r] => indexed' = indexed
Writes(r) ==
  /\ UNCHANGED <<recipe, opt, run, cancelled>>
  /\ \A p \in Products \ Touched(r, pc[1]) : disk'[p] = disk[p] /\ (p \in writing' => p \in writing)
Decides(r) ==
  r \in DOMAIN RequiredStep \ {"native"} /\ ret' = "nil" => ret = "nil" \/ pc[1] > RequiredStep[r]

Within(r) == Goes(r) /\ Marks(r) /\ Writes(r) /\ Decides(r)

-----------------------------------------------------------------------------
(* What holds of every recipe                                               *)

\* What a step puts on disk is a product, and the disk stays one.
LEMMA ProductTypes ==
  ASSUME RecipeTypeOK
  PROVE  /\ None \in Product
         /\ \A k \in {"empty", "part", "whole"} : Made(k) \in Product
         /\ \A k \in {"empty", "part", "whole"}, x \in Nat :
              MadeOf(k, x) \in Product /\ [Made(k) EXCEPT !.of = x] \in Product
         /\ \A p \in Products : disk[p] \in Product /\ disk[p].run \in Nat
         /\ \A p \in Products, v \in Product : Put(p, v) \in [Products -> Product]
         /\ \A p, q \in Products, v, w \in Product : Put2(p, v, q, w) \in [Products -> Product]
<1>1. run \in Nat /\ disk \in [Products -> Product]
  BY DEF RecipeTypeOK
<1>2. /\ \A p \in Products : disk[p] \in Product /\ disk[p].run \in Nat
      /\ \A p \in Products, v \in Product : Put(p, v) \in [Products -> Product]
      /\ \A p, q \in Products, v, w \in Product : Put2(p, v, q, w) \in [Products -> Product]
  BY <1>1 DEF Put, Put2, Product
<1>3. /\ None \in Product
      /\ \A k \in {"empty", "part", "whole"} : Made(k) \in Product
      /\ \A k \in {"empty", "part", "whole"}, x \in Nat :
           MadeOf(k, x) \in Product /\ [Made(k) EXCEPT !.of = x] \in Product
  BY <1>1 DEF None, Made, MadeOf, Product
<1>4. QED
  BY <1>2, <1>3

\* So do the products of a Ghidra run, of a build of a helper tool and of a dumper.
LEMMA GhidraTypes ==
  ASSUME RecipeTypeOK
  PROVE  \A g \in GhidraRuns : g.src \in Product /\ g.src.run \in Nat /\ g.ok \in BOOLEAN
<1>1. /\ disk["src"] \in Product /\ Made("empty") \in Product
      /\ Made("part") \in Product /\ Made("whole") \in Product
  BY ProductTypes DEF Products
<1>2. ASSUME NEW e \in GhidraExport
      PROVE  e.src \in Product /\ e.exit0 \in BOOLEAN
  <2> DEFINE kept == IF Has("src") THEN disk["src"] ELSE Made("empty")
  <2>1. kept \in Product
    BY <1>1
  <2>2. CASE e = [src |-> Made("whole"), exit0 |-> TRUE]
    BY <1>1, <2>2
  <2>3. CASE \E s \in {kept, Made("part")}, b \in BOOLEAN : e = [src |-> s, exit0 |-> b]
    BY <1>1, <2>1, <2>3
  <2> HIDE DEF kept
  <2>4. QED
    BY <2>2, <2>3 DEF GhidraExport, kept
<1>3. ASSUME NEW g \in GhidraRuns
      PROVE  g.src \in Product /\ g.ok \in BOOLEAN
  <2>1. CASE g = [src |-> disk["src"], ok |-> FALSE]
    BY <1>1, <2>1
  <2>2. CASE \E e \in GhidraExport :
               g = [src |-> e.src, ok |-> e.exit0 /\ e.src.kind \in {"part", "whole"}]
    BY <1>2, <2>2
  <2>3. QED
    BY <2>1, <2>2 DEF GhidraRuns, GhidraSetup
<1>4. QED
  BY <1>3 DEF Product

LEMMA BuildTypes ==
  ASSUME RecipeTypeOK
  PROVE  \A b \in BuildTool : b.disk \in [Products -> Product]
<1>1. disk \in [Products -> Product] /\ Put("cfxtool", Made("whole")) \in [Products -> Product]
  BY ProductTypes DEF Products, RecipeTypeOK
<1>2. QED
  BY <1>1 DEF BuildTool

LEMMA DumpTypes ==
  ASSUME RecipeTypeOK, NEW ph
  PROVE  \A o \in Dumped(ph) : o.dll \in Product /\ o.cs \in Product /\ o.err \in BOOLEAN
<1>1. disk["dll"] \in Product /\ disk["cs"] \in Product /\ Made("part") \in Product /\ Made("whole") \in Product
  BY ProductTypes DEF Products
<1>2. QED
  BY <1>1 DEF Dumped

\* A step other than the one that writes the index leaves it current: it does not
\* change the sources any more.
LEMMA IndexFrame ==
  ASSUME RecipeTypeOK, IndexInv, NEW r \in DOMAIN IndexStep, Within(r), pc[1] # IndexStep[r], ret = "none"
  PROVE  IndexInv'
<1>1. IndexStep[r] \in Steps /\ "src" \in Products
  BY DEF IndexStep, Steps, LastStep, Products
<1>2. recipe' = r /\ status'[IndexStep[r]] = status[IndexStep[r]] /\ indexed' = indexed
  BY <1>1 DEF Within, Goes, Marks, Writes, Decides, IndexStep
<1>3. ASSUME status[IndexStep[r]] = "success"
      PROVE  pc[1] > IndexStep[r] /\ disk'["src"] = disk["src"] /\ (Has("src") => indexed = disk["src"])
  <2>1. pc[1] > IndexStep[r] /\ (Has("src") => indexed = disk["src"])
    BY <1>3 DEF IndexInv, Within, Goes
  <2>2. disk'["src"] = disk["src"]
    BY <1>1, <2>1 DEF Within, Goes, Marks, Writes, Decides, Touched, IndexStep, Products
  <2>3. QED
    BY <2>1, <2>2
<1>4. pc' # Idle /\ pc[1] > IndexStep[r] => pc'[1] > IndexStep[r]
  BY DEF Within, Goes, IndexStep, RecipeTypeOK
<1>5. QED
  BY <1>2, <1>3, <1>4 DEF IndexInv, IndexIsCurrent, Has

\* A step other than the required one leaves it done, and does not return nil before.
LEMMA DecompiledFrame ==
  ASSUME RecipeTypeOK, DecompiledInv, NEW r \in DOMAIN RequiredStep \ {"native"}, Within(r),
         pc[1] # RequiredStep[r], ret = "none"
  PROVE  DecompiledInv'
<1>1. RequiredStep[r] \in Steps /\ RequiredStep[r] \in Nat /\ "src" \in Products
  BY DEF RequiredStep, Steps, LastStep, Products
<1>2. recipe' = r /\ status'[RequiredStep[r]] = status[RequiredStep[r]]
  BY <1>1 DEF Within, Goes, Marks, Writes, Decides, RequiredStep
<1>3. ASSUME pc[1] > RequiredStep[r]
      PROVE  LeftSource'
  <2>1. disk'["src"] = disk["src"]
    BY <1>1, <1>3 DEF Within, Goes, Marks, Writes, Decides, Touched, RequiredStep, Products
  <2>2. QED
    BY <1>2, <1>3, <2>1 DEF DecompiledInv, LeftSource, Files, Within, Goes
<1>4. pc' # Idle /\ pc'[1] > RequiredStep[r] => pc[1] > RequiredStep[r]
  BY <1>1 DEF Within, Goes, RecipeTypeOK
<1>5. ret' = "nil" => pc[1] > RequiredStep[r]
  BY DEF Within, Goes, Marks, Writes, Decides
<1>6. QED
  BY <1>2, <1>3, <1>4, <1>5 DEF DecompiledInv, NilMeansDecompiled

\* Only the Unity recipes have an export, only the native one an extension.
LEMMA RippedFrame ==
  ASSUME RippedInv, NEW r \in Recipes \ {"mono", "il2cpp"}, Within(r)
  PROVE  RippedInv'
<1>1. /\ "export" \in Products \ Touched(r, pc[1]) /\ "ripped" \in Products \ Touched(r, pc[1])
      /\ recipe' = r
  BY DEF Touched, Products, Recipes, Within, Goes, Writes
<1>2. QED
  BY <1>1 DEF Within, Writes, RippedInv, RippedIsTrue, Has

LEMMA StampFrame ==
  ASSUME StampInv, NEW r \in Recipes \ {"native"}, Within(r), UNCHANGED ghidraVersion
  PROVE  StampInv'
<1>1. /\ "stamp" \in Products \ Touched(r, pc[1]) /\ "extension" \in Products \ Touched(r, pc[1])
      /\ recipe' = r
  BY DEF Touched, Products, Recipes, Within, Goes, Writes
<1>2. QED
  BY <1>1 DEF Within, Writes, StampInv, StampIsTrue, StampMatches

-----------------------------------------------------------------------------
(* The recipes.  A leaf has the vocabulary of RecipeRun, in which all their
   steps are written, expanded; the actions are named where they are used.   *)

USE DEF CopyOriginal, ExtractStrings, BuildIndex, Skip, Done, Begin, End, EndAt, EndErr, ErrAt,
  Goto, Return, Report, Phase, At, In, Steps, LastStep, Idle, steady

\* native: Ghidra, with the extension for NativeAOT prepared before it.
LEMMA NativeKeeps ==
  ASSUME RecipeInv, UNCHANGED ghidraVersion, NativeStep \/ NativeAOT
  PROVE  RecipeInv' /\ Within("native")
<1> USE DEF RecipeInv
<1>1. Within("native")
  <2> USE DEF NativeStep, NativeAOT, NativeGhidraOnly, NativeCopy, NativeStrings,
     BuiltinStrings, NativeStringsOnly, NativeNoGhidra, NativeGhidraBegin, NativeGhidraFound,
     NativeGhidraEnds, NativeSplit, NativeIndex, ExtensionReady, ExtensionUnavailable,
     ExtensionRemove, ExtensionInstall, ExtensionCompile, ExtensionJar, ExtensionStamp, Plain,
     Enabled
  <2>1. Goes("native")
    BY DEF Goes
  <2>2. Marks("native")
    BY DEF Marks, IndexStep, RecipeTypeOK
  <2>3. Writes("native")
    BY DEF Writes, Touched, Put, Put2, RecipeTypeOK
  <2>4. Decides("native")
    BY DEF Decides, RequiredStep
  <2>5. QED
    BY <2>1, <2>2, <2>3, <2>4 DEF Within
<1>2. ret = "none"
  BY <1>1 DEF RunningInv, Within, Goes
<1>3. RecipeTypeOK' /\ RunningInv'
  <2>1. recipe' \in Recipes /\ run' \in Nat /\ cancelled' \in BOOLEAN /\ pc'[1] \in Nat
    BY <1>1 DEF Within, Goes, Writes, RecipeTypeOK
  <2>2. /\ \A g \in GhidraRuns : Put("src", g.src) \in [Products -> Product]
        /\ \A x \in {0, ghidraVersion} : Put("extension", MadeOf("whole", x)) \in [Products -> Product]
        /\ \A left \in {disk["stamp"], None} :
             Put2("extension", None, "stamp", left) \in [Products -> Product]
        /\ Put("extension", None) \in [Products -> Product]
        /\ Put("stamp", MadeOf("whole", ghidraVersion)) \in [Products -> Product]
        /\ Put("stamp", Made("part")) \in [Products -> Product]
        /\ \A k \in {"part", "whole"} :
             Put("symbols", MadeOf(k, disk["src"].run)) \in [Products -> Product]
    <3>1. \A g \in GhidraRuns : Put("src", g.src) \in [Products -> Product]
      BY ProductTypes, GhidraTypes DEF Products, RecipeTypeOK, Put, Put2
    <3>2. \A x \in {0, ghidraVersion} : Put("extension", MadeOf("whole", x)) \in [Products -> Product]
      BY ProductTypes, GhidraTypes DEF Products, RecipeTypeOK, Put, Put2
    <3>3. \A left \in {disk["stamp"], None} : Put2("extension", None, "stamp", left) \in [Products -> Product]
      BY ProductTypes, GhidraTypes DEF Products, RecipeTypeOK, Put, Put2
    <3>4. Put("extension", None) \in [Products -> Product] /\ Put("stamp", Made("part")) \in [Products -> Product]
      BY ProductTypes, GhidraTypes DEF Products, RecipeTypeOK, Put, Put2
    <3>5. Put("stamp", MadeOf("whole", ghidraVersion)) \in [Products -> Product]
      BY ProductTypes, GhidraTypes DEF Products, RecipeTypeOK, Put, Put2
    <3>6. \A k \in {"part", "whole"} : Put("symbols", MadeOf(k, disk["src"].run)) \in [Products -> Product]
      BY ProductTypes, GhidraTypes DEF Products, RecipeTypeOK, Put, Put2
    <3>7. QED
      BY <3>1, <3>2, <3>3, <3>4, <3>5, <3>6
  <2> USE DEF NativeStep, NativeAOT, NativeGhidraOnly, NativeCopy, NativeStrings,
     BuiltinStrings, NativeStringsOnly, NativeNoGhidra, NativeGhidraBegin, NativeGhidraFound,
     NativeGhidraEnds, NativeSplit, NativeIndex, ExtensionReady, ExtensionUnavailable,
     ExtensionRemove, ExtensionInstall, ExtensionCompile, ExtensionJar, ExtensionStamp, Plain,
     Enabled
  <2>3. ret' \in {"none", "nil", "err", "died"} /\ status' \in [Steps -> Statuses]
    BY DEF RecipeTypeOK, Statuses
  <2>4. writing' \subseteq Products /\ indexed' \in Product
    BY DEF RecipeTypeOK, Products
  <2>5. disk' \in [Products -> Product]
    BY <2>2 DEF RecipeTypeOK
  <2>6. RunningInv'
    BY DEF RunningInv, NoStepLeftRunning, RecipeTypeOK, Statuses
  <2>7. QED
    BY <2>1, <2>3, <2>4, <2>5, <2>6 DEF RecipeTypeOK
<1>4. RippedInv'
  BY <1>1, RippedFrame DEF Recipes
<1>5. StampInv'
  <2>1. CASE NativeStep
    <3>1. \A p \in {"stamp", "extension"} : disk'[p] = disk[p]
      <4>1. \A v : /\ Put("src", v)["stamp"] = disk["stamp"] /\ Put("src", v)["extension"] = disk["extension"]
                   /\ Put("symbols", v)["stamp"] = disk["stamp"]
                   /\ Put("symbols", v)["extension"] = disk["extension"]
        BY DEF Put, RecipeTypeOK, Products
      <4>2. QED
        BY <2>1, <4>1 DEF NativeStep, NativeGhidraOnly, NativeCopy, NativeStrings,
           BuiltinStrings, NativeStringsOnly, NativeNoGhidra, NativeGhidraBegin,
           NativeGhidraFound, NativeGhidraEnds, NativeSplit, NativeIndex
    <3>2. "extension" \in writing' => "extension" \in writing
      BY <2>1 DEF NativeStep, NativeGhidraOnly, NativeCopy, NativeStrings, BuiltinStrings,
         NativeStringsOnly, NativeNoGhidra, NativeGhidraBegin, NativeGhidraFound,
         NativeGhidraEnds, NativeSplit, NativeIndex
    <3>3. pc'[1] = 2 => pc'[2] \notin {"remove", "install", "compile", "jar", "stamp"}
      BY <2>1 DEF NativeStep, NativeGhidraOnly, NativeCopy, NativeStrings, BuiltinStrings,
         NativeStringsOnly, NativeNoGhidra, NativeGhidraBegin, NativeGhidraFound,
         NativeGhidraEnds, NativeSplit, NativeIndex
    <3>4. disk'["stamp"] = disk["stamp"] /\ disk'["extension"] = disk["extension"]
      BY <3>1
    <3>5. StampMatches' = StampMatches /\ StampIsTrue'
      BY <3>4 DEF StampInv, StampIsTrue, StampMatches
    <3>6. /\ disk'["stamp"].of <= ghidraVersion'
          /\ "extension" \in writing' => ~StampMatches'
      BY <3>2, <3>4, <3>5 DEF StampInv
    <3>7. ~(recipe' = "native" /\ pc'[1] = 2 /\ pc'[2] \in {"remove", "install", "compile", "jar", "stamp"})
      BY <3>3
    <3>8. pc' # <<2, "stamp">>
      BY <3>3
    <3>9. QED
      BY <3>5, <3>6, <3>7, <3>8 DEF StampInv
  <2>2. CASE ExtensionReady \/ ExtensionUnavailable
    <3>1. disk' = disk /\ "extension" \notin writing' /\ pc'[2] \in {"export", "export+"}
      BY <2>2 DEF ExtensionReady, ExtensionUnavailable, Plain, Enabled
    <3>2. QED
      BY <3>1 DEF StampInv, StampIsTrue, StampMatches
  <2>3. CASE ExtensionRemove
    BY <2>3 DEF StampInv, StampIsTrue, StampMatches, ExtensionRemove, Plain, Enabled, Put2,
       None, Products, RecipeTypeOK
  <2>4. CASE ExtensionInstall
    BY <2>4 DEF StampInv, StampIsTrue, StampMatches, ExtensionInstall, Plain, Enabled, Put,
       None, MadeOf, Products, RecipeTypeOK
  <2>5. CASE ExtensionCompile \/ ExtensionJar
    BY <2>5 DEF StampInv, StampIsTrue, StampMatches, ExtensionCompile, ExtensionJar, Plain,
       Enabled, Put, None, MadeOf, Products, RecipeTypeOK
  <2>6. CASE ExtensionStamp
    <3>1. /\ disk["extension"].kind = "whole" /\ disk["extension"].of = ghidraVersion
          /\ disk["extension"] \in Product /\ ghidraVersion \in Nat
      BY <2>6 DEF ExtensionStamp, StampInv, RecipeTypeOK, Products
    <3>2. /\ \A v : Put("stamp", v)["extension"] = disk["extension"] /\ Put("stamp", v)["stamp"] = v
          /\ MadeOf("whole", ghidraVersion).of = ghidraVersion
          /\ Made("part").kind # "whole" /\ Made("part").of = 0
      BY DEF Put, Made, MadeOf, RecipeTypeOK, Products
    <3>3. /\ disk'["extension"] = disk["extension"]
          /\ disk'["stamp"] \in {MadeOf("whole", ghidraVersion), Made("part")}
          /\ "extension" \notin writing' /\ pc'[2] \in {"export", "export+"}
      BY <2>6, <3>2 DEF ExtensionStamp, Plain, Enabled
    <3>4. disk["extension"] = [disk["extension"] EXCEPT !.kind = "whole", !.of = ghidraVersion]
      BY <3>1 DEF Product
    <3>5. StampIsTrue'
      BY <3>3, <3>4 DEF StampIsTrue
    <3>6. disk'["stamp"].of <= ghidraVersion'
      BY <3>1, <3>2, <3>3
    <3>7. QED
      BY <3>3, <3>5, <3>6 DEF StampInv
  <2>7. QED
    BY <2>1, <2>2, <2>3, <2>4, <2>5, <2>6 DEF NativeAOT
<1>6. AssetsInv'
  BY <1>1 DEF AssetsInv, NoStaleAssets, Within, Goes, Writes
<1>7. DecompiledInv'
  <2>1. recipe = "native" /\ recipe' = "native" /\ opt' = opt /\ RequiredStep["native"] = 2
    BY <1>1 DEF Within, Goes, Writes, RequiredStep
  <2>2. CASE pc[1] > 2
    <3>1. LeftSource /\ status'[2] = status[2]
      BY <1>1, <2>1, <2>2 DEF DecompiledInv, Within, Goes, Marks, RequiredStep
    <3>2. disk'["src"] = disk["src"]
      BY <1>1, <2>2 DEF Within, Writes, Touched, Products
    <3>3. LeftSource'
      BY <2>1, <3>1, <3>2 DEF LeftSource, Files
    <3>4. QED
      BY <2>1, <3>3 DEF DecompiledInv, NilMeansDecompiled
  <2>3. CASE pc[1] < 2
    <3>1. pc' = Idle \/ pc'[1] <= 2
      BY <1>1, <2>3 DEF Within, Goes, RecipeTypeOK
    <3>2. ret' # "nil" /\ pc' # <<2, "split">>
      BY <1>2, <2>3 DEF NativeStep, NativeAOT, NativeGhidraOnly, NativeCopy, NativeStrings,
         BuiltinStrings, NativeStringsOnly, NativeNoGhidra, NativeGhidraBegin,
         NativeGhidraFound, NativeGhidraEnds, NativeSplit, NativeIndex, ExtensionReady,
         ExtensionUnavailable, ExtensionRemove, ExtensionInstall, ExtensionCompile,
         ExtensionJar, ExtensionStamp, Plain, Enabled, RecipeTypeOK
    <3>3. QED
      BY <1>3, <2>1, <3>1, <3>2 DEF DecompiledInv, NilMeansDecompiled, RecipeTypeOK
  <2>4. CASE pc[1] = 2
    <3>1. /\ \A g \in GhidraRuns : g.ok => g.src.kind \in {"part", "whole"}
          /\ \A v : Put("src", v)["src"] = v /\ Put("symbols", v)["src"] = disk["src"]
      <4>1. ASSUME NEW g \in GhidraRuns, g.ok
            PROVE  g.src.kind \in {"part", "whole"}
        <5>1. g # [src |-> disk["src"], ok |-> FALSE]
          BY <4>1
        <5>2. PICK e \in GhidraExport :
                g = [src |-> e.src, ok |-> e.exit0 /\ e.src.kind \in {"part", "whole"}]
          BY <5>1 DEF GhidraRuns, GhidraSetup
        <5>3. QED
          BY <4>1, <5>2
      <4>2. \A v : Put("src", v)["src"] = v /\ Put("symbols", v)["src"] = disk["src"]
        BY DEF Put, RecipeTypeOK, Products
      <4>3. QED
        BY <4>1, <4>2
    <3>2. ret' = "nil" => opt.filter = "strings"
      BY <1>2, <2>4 DEF NativeStep, NativeAOT, NativeGhidraOnly, NativeCopy, NativeStrings,
         BuiltinStrings, NativeStringsOnly, NativeNoGhidra, NativeGhidraBegin,
         NativeGhidraFound, NativeGhidraEnds, NativeSplit, NativeIndex, ExtensionReady,
         ExtensionUnavailable, ExtensionRemove, ExtensionInstall, ExtensionCompile,
         ExtensionJar, ExtensionStamp, Plain, Enabled
    <3>3. ASSUME pc' # Idle, pc'[1] > 2 \/ pc' = <<2, "split">>
          PROVE  LeftSource'
      <4>1. CASE NativeNoGhidra
        BY <2>1, <2>4, <4>1 DEF NativeNoGhidra, LeftSource, Kept, RequiredStep, RecipeTypeOK
      <4>2. CASE NativeGhidraEnds
        BY <2>1, <2>4, <3>1, <3>3, <4>2 DEF NativeGhidraEnds, LeftSource, Files, Kept,
           RequiredStep, RecipeTypeOK
      <4>3. CASE NativeSplit
        <5>1. LeftSource /\ status' = status /\ disk'["src"] = disk["src"]
          BY <2>1, <3>1, <4>3 DEF NativeSplit, DecompiledInv
        <5>2. QED
          BY <2>1, <5>1 DEF LeftSource, Files
      <4>4. QED
        BY <2>4, <3>3, <4>1, <4>2, <4>3 DEF NativeStep, NativeAOT, NativeGhidraOnly,
           NativeCopy, NativeStrings, BuiltinStrings, NativeStringsOnly, NativeGhidraBegin,
           NativeGhidraFound, NativeIndex, ExtensionReady, ExtensionUnavailable,
           ExtensionRemove, ExtensionInstall, ExtensionCompile, ExtensionJar, ExtensionStamp,
           Plain, Enabled
    <3>4. QED
      BY <2>1, <3>2, <3>3 DEF DecompiledInv, NilMeansDecompiled, StringsPhase
  <2>5. QED
    BY <2>2, <2>3, <2>4 DEF RecipeTypeOK
<1>8. IndexInv'
  <2>1. CASE pc[1] # 3
    BY <1>1, <1>2, <2>1, IndexFrame DEF IndexStep
  <2>2. CASE pc[1] = 3
    BY <2>2 DEF IndexInv, IndexIsCurrent, RequiredStep, IndexStep, Kept, RecipeTypeOK, Has,
       NativeStep, NativeAOT, NativeGhidraOnly, NativeCopy, NativeStrings, BuiltinStrings,
       NativeStringsOnly, NativeNoGhidra, NativeGhidraBegin, NativeGhidraFound,
       NativeGhidraEnds, NativeSplit, NativeIndex, ExtensionReady, ExtensionUnavailable,
       ExtensionRemove, ExtensionInstall, ExtensionCompile, ExtensionJar, ExtensionStamp,
       Plain, Enabled
  <2>3. QED
    BY <2>1, <2>2
<1>9. QED
  BY <1>1, <1>3, <1>4, <1>5, <1>6, <1>7, <1>8

\* delphi: nothing of it is required, and a failed Ghidra run goes on.
LEMMA DelphiKeeps ==
  ASSUME RecipeInv, UNCHANGED ghidraVersion, DelphiStep
  PROVE  RecipeInv' /\ Within("delphi")
<1> USE DEF RecipeInv
<1>1. Within("delphi")
  <2> USE DEF DelphiStep, DelphiCopy, DelphiStrings, DelphiIDR, DelphiGhidra, DelphiIndex
  <2>1. Goes("delphi")
    BY DEF Goes
  <2>2. Marks("delphi")
    BY DEF Marks, IndexStep, RecipeTypeOK
  <2>3. Writes("delphi")
    BY DEF Writes, Touched, Put, Put2, RecipeTypeOK
  <2>4. Decides("delphi")
    BY DEF Decides, RequiredStep
  <2>5. QED
    BY <2>1, <2>2, <2>3, <2>4 DEF Within
<1>2. ret = "none"
  BY <1>1 DEF RunningInv, Within, Goes
<1>3. RecipeTypeOK' /\ RunningInv'
  <2>1. recipe' \in Recipes /\ run' \in Nat /\ cancelled' \in BOOLEAN /\ pc'[1] \in Nat
    BY <1>1 DEF Within, Goes, Writes, RecipeTypeOK
  <2>2. \A g \in GhidraRuns : Put("src", g.src) \in [Products -> Product]
    BY ProductTypes, GhidraTypes DEF Products, RecipeTypeOK
  <2> USE DEF DelphiStep, DelphiCopy, DelphiStrings, DelphiIDR, DelphiGhidra, DelphiIndex
  <2>3. ret' \in {"none", "nil", "err", "died"} /\ status' \in [Steps -> Statuses]
    BY DEF RecipeTypeOK, Statuses
  <2>4. writing' \subseteq Products /\ indexed' \in Product
    BY DEF RecipeTypeOK, Products
  <2>5. disk' \in [Products -> Product]
    BY <2>2 DEF RecipeTypeOK
  <2>6. RunningInv'
    BY DEF RunningInv, NoStepLeftRunning, RecipeTypeOK, Statuses
  <2>7. QED
    BY <2>1, <2>3, <2>4, <2>5, <2>6 DEF RecipeTypeOK
<1>4. RippedInv'
  BY <1>1, RippedFrame DEF Recipes
<1>5. StampInv'
  BY <1>1, StampFrame DEF Recipes
<1>6. AssetsInv'
  BY <1>1 DEF AssetsInv, NoStaleAssets, Within, Goes, Writes
<1>7. DecompiledInv'
  BY <1>1 DEF DecompiledInv, NilMeansDecompiled, RequiredStep, Within, Goes, Writes
<1>8. IndexInv'
  <2>1. CASE pc[1] # 4
    BY <1>1, <1>2, <2>1, IndexFrame DEF IndexStep
  <2>2. CASE pc[1] = 4
    BY <2>2 DEF IndexInv, IndexIsCurrent, RequiredStep, IndexStep, Kept, RecipeTypeOK, Has,
       DelphiStep, DelphiCopy, DelphiStrings, DelphiIDR, DelphiGhidra, DelphiIndex
  <2>3. QED
    BY <2>1, <2>2
<1>9. QED
  BY <1>1, <1>3, <1>4, <1>5, <1>6, <1>7, <1>8

\* java: one decompiler, which may leave degraded output.
LEMMA JavaKeeps ==
  ASSUME RecipeInv, UNCHANGED ghidraVersion, JavaStep
  PROVE  RecipeInv' /\ Within("java")
<1> USE DEF RecipeInv
<1>1. Within("java")
  <2> USE DEF JavaStep, JavaCopy, JavaTools, JavaDecompile, JavaIndex
  <2>1. Goes("java")
    BY DEF Goes
  <2>2. Marks("java")
    BY DEF Marks, IndexStep, RecipeTypeOK
  <2>3. Writes("java")
    BY DEF Writes, Touched, Put, Put2, RecipeTypeOK
  <2>4. Decides("java")
    BY DEF Decides, RequiredStep
  <2>5. QED
    BY <2>1, <2>2, <2>3, <2>4 DEF Within
<1>2. ret = "none"
  BY <1>1 DEF RunningInv, Within, Goes
<1>3. RecipeTypeOK' /\ RunningInv'
  <2>1. recipe' \in Recipes /\ run' \in Nat /\ cancelled' \in BOOLEAN /\ pc'[1] \in Nat
    BY <1>1 DEF Within, Goes, Writes, RecipeTypeOK
  <2>2. /\ Put("src", disk["src"]) \in [Products -> Product]
        /\ \A k \in {"empty", "part", "whole"} : Put("src", Made(k)) \in [Products -> Product]
    BY ProductTypes DEF Products, RecipeTypeOK
  <2> USE DEF JavaStep, JavaCopy, JavaTools, JavaDecompile, JavaIndex
  <2>3. ret' \in {"none", "nil", "err", "died"} /\ status' \in [Steps -> Statuses]
    BY DEF RecipeTypeOK, Statuses
  <2>4. writing' \subseteq Products /\ indexed' \in Product
    BY DEF RecipeTypeOK, Products
  <2>5. disk' \in [Products -> Product]
    BY <2>2 DEF RecipeTypeOK
  <2>6. RunningInv'
    BY DEF RunningInv, NoStepLeftRunning, RecipeTypeOK, Statuses
  <2>7. QED
    BY <2>1, <2>3, <2>4, <2>5, <2>6 DEF RecipeTypeOK
<1>4. RippedInv'
  BY <1>1, RippedFrame DEF Recipes
<1>5. StampInv'
  BY <1>1, StampFrame DEF Recipes
<1>6. AssetsInv'
  BY <1>1 DEF AssetsInv, NoStaleAssets, Within, Goes, Writes
<1>7. DecompiledInv'
  <2>1. CASE pc[1] # 1
    BY <1>1, <1>2, <2>1, DecompiledFrame DEF RequiredStep
  <2>2. CASE pc[1] = 1
    <3>1. recipe' = "java" /\ ret' # "nil"
      BY <1>1, <1>2, <2>2 DEF Within, Goes, Writes, Decides, RequiredStep
    <3>2. ASSUME pc' # Idle, pc'[1] = 2
          PROVE  \/ status'[1] \in {"success", "warn"} /\ disk'["src"].kind \in {"part", "whole"}
                 \/ status'[1] = "success" /\ disk'["src"].kind = "empty"
      <4>1. \A k : Made(k).kind = k
        BY DEF Made
      <4>2. \A v : Put("src", v)["src"] = v
        BY DEF Put, RecipeTypeOK, Products
      <4>3. disk["src"].kind \in {"none", "empty", "part", "whole"}
        BY DEF RecipeTypeOK, Products, Product
      <4>4. QED
        BY <2>2, <3>2, <4>1, <4>2, <4>3 DEF RequiredStep, Kept, RecipeTypeOK, Has, Files,
           JavaStep, JavaCopy, JavaTools, JavaDecompile, JavaIndex
    <3>3. QED
      BY <1>1, <2>2, <3>1, <3>2 DEF DecompiledInv, NilMeansDecompiled, LeftSource, Files,
         RequiredStep, Within, Goes, Writes
  <2>3. QED
    BY <2>1, <2>2
<1>8. IndexInv'
  <2>1. CASE pc[1] # 2
    BY <1>1, <1>2, <2>1, IndexFrame DEF IndexStep
  <2>2. CASE pc[1] = 2
    BY <2>2 DEF IndexInv, IndexIsCurrent, RequiredStep, IndexStep, Kept, RecipeTypeOK, Has,
       JavaStep, JavaCopy, JavaTools, JavaDecompile, JavaIndex
  <2>3. QED
    BY <2>1, <2>2
<1>9. QED
  BY <1>1, <1>3, <1>4, <1>5, <1>6, <1>7, <1>8

\* dotnet_generic: ilspycmd, in three attempts.
LEMMA DotnetKeeps ==
  ASSUME RecipeInv, UNCHANGED ghidraVersion, DotnetStep
  PROVE  RecipeInv' /\ Within("dotnet")
<1> USE DEF RecipeInv
<1>1. Within("dotnet")
  <2> USE DEF DotnetStep, IlspyProject, IlspyFlat, PerTypeFallback
  <2>1. Goes("dotnet")
    BY DEF Goes
  <2>2. Marks("dotnet")
    BY DEF Marks, IndexStep, RecipeTypeOK
  <2>3. Writes("dotnet")
    BY DEF Writes, Touched, Put, Put2, RecipeTypeOK
  <2>4. Decides("dotnet")
    BY DEF Decides, RequiredStep
  <2>5. QED
    BY <2>1, <2>2, <2>3, <2>4 DEF Within
<1>2. ret = "none"
  BY <1>1 DEF RunningInv, Within, Goes
<1>3. RecipeTypeOK' /\ RunningInv'
  <2>1. recipe' \in Recipes /\ run' \in Nat /\ cancelled' \in BOOLEAN /\ pc'[1] \in Nat
    BY <1>1 DEF Within, Goes, Writes, RecipeTypeOK
  <2>2. \A k \in {"empty", "part", "whole"} : Put("src", Made(k)) \in [Products -> Product]
    BY ProductTypes DEF Products, RecipeTypeOK
  <2> USE DEF DotnetStep, IlspyProject, IlspyFlat, PerTypeFallback
  <2>3. ret' \in {"none", "nil", "err", "died"} /\ status' \in [Steps -> Statuses]
    BY DEF RecipeTypeOK, Statuses
  <2>4. writing' \subseteq Products /\ indexed' \in Product
    BY DEF RecipeTypeOK, Products
  <2>5. disk' \in [Products -> Product]
    BY <2>2 DEF RecipeTypeOK
  <2>6. RunningInv'
    BY DEF RunningInv, NoStepLeftRunning, RecipeTypeOK, Statuses
  <2>7. QED
    BY <2>1, <2>3, <2>4, <2>5, <2>6 DEF RecipeTypeOK
<1>4. RippedInv'
  BY <1>1, RippedFrame DEF Recipes
<1>5. StampInv'
  BY <1>1, StampFrame DEF Recipes
<1>6. AssetsInv'
  BY <1>1 DEF AssetsInv, NoStaleAssets, Within, Goes, Writes
<1>7. DecompiledInv'
  <2>1. CASE pc[1] # 2
    BY <1>1, <1>2, <2>1, DecompiledFrame DEF RequiredStep
  <2>2. CASE pc[1] = 2
    <3>1. recipe' = "dotnet" /\ ret' # "nil"
      BY <1>1, <1>2, <2>2 DEF Within, Goes, Writes, Decides, RequiredStep
    <3>2. ASSUME pc' # Idle, pc'[1] = 3
          PROVE  status'[2] \in {"success", "warn"} /\ disk'["src"].kind \in {"part", "whole"}
      <4>1. \A k : Made(k).kind = k
        BY DEF Made
      <4>2. \A v : Put("src", v)["src"] = v
        BY DEF Put, RecipeTypeOK, Products
      <4>3. QED
        BY <2>2, <3>2, <4>1, <4>2 DEF RequiredStep, Kept, RecipeTypeOK, Has, Files,
           DotnetStep, IlspyProject, IlspyFlat, PerTypeFallback
    <3>3. QED
      BY <1>1, <2>2, <3>1, <3>2 DEF DecompiledInv, NilMeansDecompiled, LeftSource, Files,
         RequiredStep, Within, Goes, Writes
  <2>3. QED
    BY <2>1, <2>2
<1>8. IndexInv'
  <2>1. CASE pc[1] # 3
    BY <1>1, <1>2, <2>1, IndexFrame DEF IndexStep
  <2>2. CASE pc[1] = 3
    BY <2>2 DEF IndexInv, IndexIsCurrent, RequiredStep, IndexStep, Kept, RecipeTypeOK, Has,
       DotnetStep, IlspyProject, IlspyFlat, PerTypeFallback
  <2>3. QED
    BY <2>1, <2>2
<1>9. QED
  BY <1>1, <1>3, <1>4, <1>5, <1>6, <1>7, <1>8

\* unity_mono: the export and its organized form, each under a marker.
LEMMA MonoKeeps ==
  ASSUME RecipeInv, UNCHANGED ghidraVersion, MonoStep
  PROVE  RecipeInv' /\ Within("mono")
<1> USE DEF RecipeInv
<1>1. Within("mono")
  <2> USE DEF MonoStep, IlspyProject, IlspyFlat, PerTypeFallback, RipperExport, MonoOrganize
  <2>1. Goes("mono")
    BY DEF Goes
  <2>2. Marks("mono")
    BY DEF Marks, IndexStep, RecipeTypeOK
  <2>3. Writes("mono")
    BY DEF Writes, Touched, Put, Put2, RecipeTypeOK
  <2>4. Decides("mono")
    BY DEF Decides, RequiredStep
  <2>5. QED
    BY <2>1, <2>2, <2>3, <2>4 DEF Within
<1>2. ret = "none"
  BY <1>1 DEF RunningInv, Within, Goes
<1>3. RecipeTypeOK' /\ RunningInv'
  <2>1. recipe' \in Recipes /\ run' \in Nat /\ cancelled' \in BOOLEAN /\ pc'[1] \in Nat
    BY <1>1 DEF Within, Goes, Writes, RecipeTypeOK
  <2>2. /\ \A k \in {"empty", "part", "whole"}, p \in {"src", "export", "ripped", "gamedata", "organized"} :
             Put(p, Made(k)) \in [Products -> Product]
        /\ \A x \in {0, 1} : /\ Put("export", [Made("whole") EXCEPT !.of = x]) \in [Products -> Product]
                             /\ Put("gamedata", MadeOf("whole", x)) \in [Products -> Product]
    <3>1. \A k \in {"empty", "part", "whole"}, p \in {"src", "export", "ripped", "gamedata", "organized"} :
           Put(p, Made(k)) \in [Products -> Product]
      BY ProductTypes DEF Products, RecipeTypeOK, Put, Put2
    <3>2. \A x \in {0, 1} : Put("export", [Made("whole") EXCEPT !.of = x]) \in [Products -> Product]
      BY ProductTypes DEF Products, RecipeTypeOK, Put, Put2
    <3>3. \A x \in {0, 1} : Put("gamedata", MadeOf("whole", x)) \in [Products -> Product]
      BY ProductTypes DEF Products, RecipeTypeOK, Put, Put2
    <3>4. QED
      BY <3>1, <3>2, <3>3
  <2> USE DEF MonoStep, IlspyProject, IlspyFlat, PerTypeFallback, RipperExport, MonoOrganize
  <2>3. ret' \in {"none", "nil", "err", "died"} /\ status' \in [Steps -> Statuses]
    BY DEF RecipeTypeOK, Statuses
  <2>4. writing' \subseteq Products /\ indexed' \in Product
    BY DEF RecipeTypeOK, Products
  <2>5. disk' \in [Products -> Product]
    BY <2>2 DEF RecipeTypeOK
  <2>6. RunningInv'
    BY DEF RunningInv, NoStepLeftRunning, RecipeTypeOK, Statuses
  <2>7. QED
    BY <2>1, <2>3, <2>4, <2>5, <2>6 DEF RecipeTypeOK
<1>4. RippedInv'
  BY DEF RippedInv, RippedIsTrue, RecipeTypeOK, Put, Put2, Made, Has, Products, MonoStep,
     IlspyProject, IlspyFlat, PerTypeFallback, RipperExport, MonoOrganize
<1>5. StampInv'
  BY <1>1, StampFrame DEF Recipes
<1>6. AssetsInv'
  BY <1>1 DEF AssetsInv, NoStaleAssets, Within, Goes, Writes
<1>7. DecompiledInv'
  <2>1. CASE pc[1] # 2
    BY <1>1, <1>2, <2>1, DecompiledFrame DEF RequiredStep
  <2>2. CASE pc[1] = 2
    <3>1. recipe' = "mono" /\ ret' # "nil"
      BY <1>1, <1>2, <2>2 DEF Within, Goes, Writes, Decides, RequiredStep
    <3>2. ASSUME pc' # Idle, pc'[1] = 3
          PROVE  status'[2] \in {"success", "warn"} /\ disk'["src"].kind \in {"part", "whole"}
      <4>1. \A k : Made(k).kind = k
        BY DEF Made
      <4>2. \A v : Put("src", v)["src"] = v
        BY DEF Put, RecipeTypeOK, Products
      <4>3. QED
        BY <2>2, <3>2, <4>1, <4>2 DEF RequiredStep, Kept, RecipeTypeOK, Has, Files,
           MonoStep, IlspyProject, IlspyFlat, PerTypeFallback, RipperExport, MonoOrganize
    <3>3. QED
      BY <1>1, <2>2, <3>1, <3>2 DEF DecompiledInv, NilMeansDecompiled, LeftSource, Files,
         RequiredStep, Within, Goes, Writes
  <2>3. QED
    BY <2>1, <2>2
<1>8. IndexInv'
  <2>1. CASE pc[1] # 3
    BY <1>1, <1>2, <2>1, IndexFrame DEF IndexStep
  <2>2. CASE pc[1] = 3
    BY <2>2 DEF IndexInv, IndexIsCurrent, RequiredStep, IndexStep, Kept, RecipeTypeOK, Has,
       MonoStep, IlspyProject, IlspyFlat, PerTypeFallback, RipperExport, MonoOrganize
  <2>3. QED
    BY <2>1, <2>2
<1>9. QED
  BY <1>1, <1>3, <1>4, <1>5, <1>6, <1>7, <1>8

\* il2cpp: a dump, the assemblies in it, and the export under a marker.
LEMMA Il2cppKeeps ==
  ASSUME RecipeInv, UNCHANGED ghidraVersion, Il2cppStep
  PROVE  RecipeInv' /\ Within("il2cpp")
<1> USE DEF RecipeInv
<1>1. Within("il2cpp")
  <2> USE DEF Il2cppStep, Il2cppNoMetadata, Il2cppDump, Il2cppDumper, Il2cppDecompile,
     RipperExport, Il2cppOdin, DumpPresent
  <2>1. Goes("il2cpp")
    BY DEF Goes
  <2>2. Marks("il2cpp")
    BY DEF Marks, IndexStep, RecipeTypeOK
  <2>3. Writes("il2cpp")
    BY DEF Writes, Touched, Put, Put2, RecipeTypeOK
  <2>4. Decides("il2cpp")
    BY DEF Decides, RequiredStep
  <2>5. QED
    BY <2>1, <2>2, <2>3, <2>4 DEF Within
<1>2. ret = "none"
  BY <1>1 DEF RunningInv, Within, Goes
<1>3. RecipeTypeOK' /\ RunningInv'
  <2>1. recipe' \in Recipes /\ run' \in Nat /\ cancelled' \in BOOLEAN /\ pc'[1] \in Nat
    BY <1>1 DEF Within, Goes, Writes, RecipeTypeOK
  <2>2. /\ \A k \in {"empty", "part", "whole"}, p \in {"src", "export", "ripped"} :
             Put(p, Made(k)) \in [Products -> Product]
        /\ \A x \in {0, 1} : Put("export", [Made("whole") EXCEPT !.of = x]) \in [Products -> Product]
        /\ \A ph : \A o \in Dumped(ph) : Put2("dll", o.dll, "cs", o.cs) \in [Products -> Product]
    <3>1. \A k \in {"empty", "part", "whole"}, p \in {"src", "export", "ripped"} :
           Put(p, Made(k)) \in [Products -> Product]
      BY ProductTypes, DumpTypes DEF Products, RecipeTypeOK, Put, Put2
    <3>2. \A x \in {0, 1} : Put("export", [Made("whole") EXCEPT !.of = x]) \in [Products -> Product]
      BY ProductTypes, DumpTypes DEF Products, RecipeTypeOK, Put, Put2
    <3>3. \A ph : \A o \in Dumped(ph) : Put2("dll", o.dll, "cs", o.cs) \in [Products -> Product]
      BY ProductTypes, DumpTypes DEF Products, RecipeTypeOK, Put, Put2
    <3>4. QED
      BY <3>1, <3>2, <3>3
  <2> USE DEF Il2cppStep, Il2cppNoMetadata, Il2cppDump, Il2cppDumper, Il2cppDecompile,
     RipperExport, Il2cppOdin, DumpPresent
  <2>3. ret' \in {"none", "nil", "err", "died"} /\ status' \in [Steps -> Statuses]
    BY DEF RecipeTypeOK, Statuses
  <2>4. writing' \subseteq Products /\ indexed' \in Product
    BY DEF RecipeTypeOK, Products
  <2>5. disk' \in [Products -> Product]
    BY <2>2 DEF RecipeTypeOK
  <2>6. RunningInv'
    BY DEF RunningInv, NoStepLeftRunning, RecipeTypeOK, Statuses
  <2>7. QED
    BY <2>1, <2>3, <2>4, <2>5, <2>6 DEF RecipeTypeOK
<1>4. RippedInv'
  BY DEF RippedInv, RippedIsTrue, RecipeTypeOK, Put, Put2, Made, Has, Products, Il2cppStep,
     Il2cppNoMetadata, Il2cppDump, Il2cppDumper, Il2cppDecompile, RipperExport, Il2cppOdin,
     DumpPresent
<1>5. StampInv'
  BY <1>1, StampFrame DEF Recipes
<1>6. AssetsInv'
  BY <1>1 DEF AssetsInv, NoStaleAssets, Within, Goes, Writes
<1>7. DecompiledInv'
  <2>1. CASE pc[1] # 2
    BY <1>1, <1>2, <2>1, DecompiledFrame DEF RequiredStep
  <2>2. CASE pc[1] = 2
    <3>1. recipe' = "il2cpp" /\ ret' # "nil"
      BY <1>1, <1>2, <2>2 DEF Within, Goes, Writes, Decides, RequiredStep
    <3>2. ASSUME pc' # Idle, pc'[1] = 3
          PROVE  \/ status'[2] \in {"success", "warn"} /\ disk'["src"].kind \in {"part", "whole"}
                 \/ status'[2] = "success" /\ disk'["src"].kind = "empty"
      <4>1. \A k : Made(k).kind = k
        BY DEF Made
      <4>2. \A v : Put("src", v)["src"] = v
        BY DEF Put, RecipeTypeOK, Products
      <4>3. QED
        BY <2>2, <3>2, <4>1, <4>2 DEF RequiredStep, Kept, RecipeTypeOK, Has, Files,
           Il2cppStep, Il2cppNoMetadata, Il2cppDump, Il2cppDumper, Il2cppDecompile,
           RipperExport, Il2cppOdin, DumpPresent
    <3>3. QED
      BY <1>1, <2>2, <3>1, <3>2 DEF DecompiledInv, NilMeansDecompiled, LeftSource, Files,
         RequiredStep, Within, Goes, Writes
  <2>3. QED
    BY <2>1, <2>2
<1>8. IndexInv'
  <2>1. CASE pc[1] # 6
    BY <1>1, <1>2, <2>1, IndexFrame DEF IndexStep
  <2>2. CASE pc[1] = 6
    BY <2>2 DEF IndexInv, IndexIsCurrent, RequiredStep, IndexStep, Kept, RecipeTypeOK, Has,
       Il2cppStep, Il2cppNoMetadata, Il2cppDump, Il2cppDumper, Il2cppDecompile, RipperExport,
       Il2cppOdin, DumpPresent
  <2>3. QED
    BY <2>1, <2>2
<1>9. QED
  BY <1>1, <1>3, <1>4, <1>5, <1>6, <1>7, <1>8

\* ue5: every step optional, the first one over a cleared directory.
LEMMA UnrealKeeps ==
  ASSUME RecipeInv, UNCHANGED ghidraVersion, UnrealStep
  PROVE  RecipeInv' /\ Within("ue5")
<1> USE DEF RecipeInv
<1>1. Within("ue5")
  <2> USE DEF UnrealStep, UeSkipped, UeExtractBegin, UeExtracted, UeSdk, UeStrings, UeGhidra,
     UeNames, UeIndex, UeHookable
  <2>1. Goes("ue5")
    BY DEF Goes
  <2>2. Marks("ue5")
    BY DEF Marks, IndexStep, RecipeTypeOK
  <2>3. Writes("ue5")
    BY DEF Writes, Touched, Put, Put2, RecipeTypeOK
  <2>4. Decides("ue5")
    BY DEF Decides, RequiredStep
  <2>5. QED
    BY <2>1, <2>2, <2>3, <2>4 DEF Within
<1>2. ret = "none"
  BY <1>1 DEF RunningInv, Within, Goes
<1>3. RecipeTypeOK' /\ RunningInv'
  <2>1. recipe' \in Recipes /\ run' \in Nat /\ cancelled' \in BOOLEAN /\ pc'[1] \in Nat
    BY <1>1 DEF Within, Goes, Writes, RecipeTypeOK
  <2>2. /\ Put("extracted", disk["extracted"]) \in [Products -> Product]
        /\ \A v \in AfterClearing : Put("extracted", v) \in [Products -> Product]
        /\ \A k \in {"part", "whole"} :
             Put("extracted", MadeOf(k, disk["extracted"].of)) \in [Products -> Product]
        /\ \A g \in GhidraRuns :
             /\ Put("src", g.src) \in [Products -> Product]
             /\ Put2("src", g.src, "symbols", MadeOf("whole", g.src.run)) \in [Products -> Product]
    <3>1. Put("extracted", disk["extracted"]) \in [Products -> Product]
      BY ProductTypes, GhidraTypes DEF Products, RecipeTypeOK, Put, Put2
    <3>2. /\ \A v \in AfterClearing : Put("extracted", v) \in [Products -> Product]
          /\ \A k \in {"part", "whole"} :
               Put("extracted", MadeOf(k, disk["extracted"].of)) \in [Products -> Product]
      <4>1. disk["extracted"].of \in Nat /\ disk["extracted"].run \in Nat
        BY DEF RecipeTypeOK, Products, Product
      <4>2. Made("empty") \in Product /\ Unremoved \in Product
        BY <4>1 DEF RecipeTypeOK, Made, Unremoved, Product
      <4>3. \A k \in {"part", "whole"} : MadeOf(k, disk["extracted"].of) \in Product
        BY <4>1, ProductTypes
      <4>4. QED
        BY <4>2, <4>3, ProductTypes DEF AfterClearing, Products
    <3>3. \A g \in GhidraRuns : Put("src", g.src) \in [Products -> Product]
      BY ProductTypes, GhidraTypes DEF Products, RecipeTypeOK, Put, Put2
    <3>4. \A g \in GhidraRuns : Put2("src", g.src, "symbols", MadeOf("whole", g.src.run)) \in [Products -> Product]
      BY ProductTypes, GhidraTypes DEF Products, RecipeTypeOK, Put, Put2
    <3>5. QED
      BY <3>1, <3>2, <3>3, <3>4
  <2> USE DEF UnrealStep, UeSkipped, UeExtractBegin, UeExtracted, UeSdk, UeStrings, UeGhidra,
     UeNames, UeIndex, UeHookable
  <2>3. ret' \in {"none", "nil", "err", "died"} /\ status' \in [Steps -> Statuses]
    BY DEF RecipeTypeOK, Statuses
  <2>4. writing' \subseteq Products /\ indexed' \in Product
    BY DEF RecipeTypeOK, Products
  <2>5. disk' \in [Products -> Product]
    <3>1. CASE UeExtracted
      BY <2>2, <3>1 DEF RecipeTypeOK
    <3>2. CASE UeExtractBegin
      BY <2>2, <3>2 DEF RecipeTypeOK
    <3>3. CASE ~UeExtracted /\ ~UeExtractBegin
      BY <2>2, <3>3 DEF RecipeTypeOK
    <3>4. QED
      BY <3>1, <3>2, <3>3
  <2>6. RunningInv'
    BY DEF RunningInv, NoStepLeftRunning, RecipeTypeOK, Statuses
  <2>7. QED
    BY <2>1, <2>3, <2>4, <2>5, <2>6 DEF RecipeTypeOK
<1>4. RippedInv'
  BY <1>1, RippedFrame DEF Recipes
<1>5. StampInv'
  BY <1>1, StampFrame DEF Recipes
<1>6. AssetsInv'
  <2>1. CASE pc[1] # 0
    BY <1>1, <2>1 DEF AssetsInv, NoStaleAssets, Within, Goes, Marks, Writes, Touched,
       Products, RecipeTypeOK
  <2>2. CASE UeExtractBegin
    <3>1. \A v \in AfterClearing : v.run = run \/ v.of = 1
      BY DEF AfterClearing, Unremoved, Made
    <3>2. \A v : Put("extracted", v)["extracted"] = v
      BY DEF Put, RecipeTypeOK, Products
    <3>3. QED
      BY <2>2, <3>1, <3>2 DEF UeExtractBegin, UeSkipped, AssetsInv, NoStaleAssets, Kept,
         RequiredStep, IndexStep, RecipeTypeOK, RunningInv
  <2>3. CASE UeExtracted
    <3>1. \A v : Put("extracted", v)["extracted"] = v
      BY DEF Put, RecipeTypeOK, Products
    <3>2. pc = <<0, "convert">> /\ recipe = "ue5" /\ pc' = <<1, "begin">> /\ run' = run
      BY <2>3 DEF UeExtracted
    <3>3. disk'["extracted"].run = run \/ disk'["extracted"].of = 1
      BY <2>3, <3>1, <3>2 DEF UeExtracted, MadeOf, AssetsInv
    <3>4. QED
      BY <3>2, <3>3 DEF AssetsInv, NoStaleAssets
  <2>4. CASE pc[1] = 0 /\ ~UeExtractBegin /\ ~UeExtracted
    BY <2>4 DEF UnrealStep, UeSkipped, UeSdk, UeStrings, UeGhidra, UeNames, UeIndex, UeHookable
  <2>5. QED
    BY <2>1, <2>2, <2>3, <2>4
<1>7. DecompiledInv'
  BY <1>1 DEF DecompiledInv, NilMeansDecompiled, RequiredStep, Within, Goes, Writes
<1>8. IndexInv'
  <2>1. CASE pc[1] # 5
    BY <1>1, <1>2, <2>1, IndexFrame DEF IndexStep
  <2>2. CASE pc[1] = 5
    <3>1. UeIndex
      BY <2>2 DEF UnrealStep, UeSkipped, UeExtractBegin, UeExtracted, UeSdk, UeStrings,
         UeGhidra, UeNames, UeHookable
    <3>2. QED
      BY <2>2, <3>1 DEF UeIndex, IndexInv, IndexIsCurrent, RequiredStep, IndexStep, Kept,
         RecipeTypeOK, Has
  <2>3. QED
    BY <2>1, <2>2
<1>9. QED
  BY <1>1, <1>3, <1>4, <1>5, <1>6, <1>7, <1>8

\* confuserex: a chain of passes, each of which may not apply.
LEMMA ConfuserExKeeps ==
  ASSUME RecipeInv, UNCHANGED ghidraVersion, ConfuserExStep
  PROVE  RecipeInv' /\ Within("confuserex")
<1> USE DEF RecipeInv
<1>1. Within("confuserex")
  <2> USE DEF ConfuserExStep, CfxBegins, CfxDeobfuscate, CfxVerify, HostStrings, CfxStrings,
     CfxExtract, CfxChildren, ChildPasses, ChildDecompiled, CfxCflow, CfxDecompile, CfxIndex
  <2>1. Goes("confuserex")
    BY DEF Goes, BuildTool, Building
  <2>2. Marks("confuserex")
    BY DEF Marks, IndexStep, RecipeTypeOK, BuildTool, Building
  <2>3. Writes("confuserex")
    BY DEF Writes, Touched, Put, Put2, RecipeTypeOK, BuildTool, Building
  <2>4. Decides("confuserex")
    BY DEF Decides, RequiredStep, BuildTool, Building
  <2>5. QED
    BY <2>1, <2>2, <2>3, <2>4 DEF Within
<1>2. ret = "none"
  BY <1>1 DEF RunningInv, Within, Goes
<1>3. RecipeTypeOK' /\ RunningInv'
  <2>1. recipe' \in Recipes /\ run' \in Nat /\ cancelled' \in BOOLEAN /\ pc'[1] \in Nat
    BY <1>1 DEF Within, Goes, Writes, RecipeTypeOK
  <2>2. /\ \A b \in BuildTool : b.disk \in [Products -> Product]
        /\ Put("extracted", disk["extracted"]) \in [Products -> Product]
        /\ \A k \in {"part", "whole"}, p \in {"src", "extracted"} : Put(p, Made(k)) \in [Products -> Product]
    BY ProductTypes, BuildTypes DEF Products, RecipeTypeOK
  <2> USE DEF ConfuserExStep, CfxBegins, CfxDeobfuscate, CfxVerify, HostStrings, CfxStrings,
     CfxExtract, CfxChildren, ChildPasses, ChildDecompiled, CfxCflow, CfxDecompile, CfxIndex
  <2>3. ret' \in {"none", "nil", "err", "died"} /\ status' \in [Steps -> Statuses]
    BY DEF RecipeTypeOK, Statuses
  <2>4. writing' \subseteq Products /\ indexed' \in Product
    BY DEF RecipeTypeOK, Products, Building
  <2>5. disk' \in [Products -> Product]
    BY <2>2 DEF RecipeTypeOK
  <2>6. RunningInv'
    BY DEF RunningInv, NoStepLeftRunning, RecipeTypeOK, Statuses, BuildTool, Building
  <2>7. QED
    BY <2>1, <2>3, <2>4, <2>5, <2>6 DEF RecipeTypeOK
<1>4. RippedInv'
  BY <1>1, RippedFrame DEF Recipes
<1>5. StampInv'
  BY <1>1, StampFrame DEF Recipes
<1>6. AssetsInv'
  BY <1>1 DEF AssetsInv, NoStaleAssets, Within, Goes, Writes
<1>7. DecompiledInv'
  <2>1. CASE pc[1] # 7
    BY <1>1, <1>2, <2>1, DecompiledFrame DEF RequiredStep
  <2>2. CASE pc[1] = 7
    <3>1. recipe' = "confuserex" /\ ret' # "nil"
      BY <1>1, <1>2, <2>2 DEF Within, Goes, Writes, Decides, RequiredStep
    <3>2. ASSUME pc' # Idle, pc'[1] = 8
          PROVE  status'[7] \in {"success", "warn"} /\ disk'["src"].kind \in {"part", "whole"}
      <4>1. \A k : Made(k).kind = k
        BY DEF Made
      <4>2. \A v : Put("src", v)["src"] = v
        BY DEF Put, RecipeTypeOK, Products
      <4>3. QED
        BY <2>2, <3>2, <4>1, <4>2 DEF RequiredStep, Kept, RecipeTypeOK, Has, Files,
           ConfuserExStep, CfxBegins, CfxDeobfuscate, CfxVerify, HostStrings, CfxStrings,
           CfxExtract, CfxChildren, ChildPasses, ChildDecompiled, CfxCflow, CfxDecompile,
           CfxIndex, BuildTool, Building
    <3>3. QED
      BY <1>1, <2>2, <3>1, <3>2 DEF DecompiledInv, NilMeansDecompiled, LeftSource, Files,
         RequiredStep, Within, Goes, Writes
  <2>3. QED
    BY <2>1, <2>2
<1>8. IndexInv'
  <2>1. CASE pc[1] # 8
    BY <1>1, <1>2, <2>1, IndexFrame DEF IndexStep
  <2>2. CASE pc[1] = 8
    BY <2>2 DEF IndexInv, IndexIsCurrent, RequiredStep, IndexStep, Kept, RecipeTypeOK, Has,
       ConfuserExStep, CfxBegins, CfxDeobfuscate, CfxVerify, HostStrings, CfxStrings,
       CfxExtract, CfxChildren, ChildPasses, ChildDecompiled, CfxCflow, CfxDecompile,
       CfxIndex, BuildTool, Building
  <2>3. QED
    BY <2>1, <2>2
<1>9. QED
  BY <1>1, <1>3, <1>4, <1>5, <1>6, <1>7, <1>8

\* The companion file: every step Skipped at once.
LEMMA CompanionKeeps ==
  ASSUME RecipeInv, UNCHANGED ghidraVersion, Companion
  PROVE  RecipeInv'
<1> USE DEF RecipeInv, Companion
<1>1. RecipeTypeOK'
  BY DEF RecipeTypeOK, Statuses, Recipes
<1>2. RunningInv'
  BY DEF RunningInv, NoStepLeftRunning, RecipeTypeOK, Statuses
<1>3. RippedInv' /\ StampInv' /\ AssetsInv'
  BY DEF RippedInv, RippedIsTrue, StampInv, StampIsTrue, StampMatches, AssetsInv, NoStaleAssets,
     Has
<1>4. DecompiledInv' /\ IndexInv'
  BY DEF DecompiledInv, NilMeansDecompiled, IndexInv, IndexIsCurrent, RequiredStep, IndexStep
<1>5. QED
  BY <1>1, <1>2, <1>3, <1>4

\* nsis: the steps of its recipe, an instruction of the script aside, do what those
\* of the others do.
LEMMA NsisActions ==
  ASSUME NsisStep
  PROVE  \/ NsisCopy \/ NsisLocate \/ NsisDecompress \/ NsisExtractBegin
         \/ Phase("nsis", 3, "walk") /\ UNCHANGED recipeVars
         \/ NsisWalked \/ NsisRaw \/ Done("nsis", 4)
BY DEF NsisStep, NsisEntry

LEMMA NsisWithin ==
  ASSUME RecipeTypeOK, NsisStep, ~UNCHANGED recipeVars
  PROVE  Within("nsis")
<1> USE DEF Within, Goes, Marks, Writes, Decides, IndexStep, RequiredStep, Touched, RecipeTypeOK
<1>1. CASE NsisCopy
  BY <1>1 DEF NsisCopy
<1>2. CASE NsisLocate
  BY <1>2 DEF NsisLocate
<1>3. CASE NsisDecompress
  BY <1>3 DEF NsisDecompress
<1>4. CASE NsisExtractBegin
  BY <1>4 DEF NsisExtractBegin
<1>5. CASE NsisWalked
  BY <1>5 DEF NsisWalked
<1>6. CASE NsisRaw
  BY <1>6 DEF NsisRaw
<1>7. CASE Done("nsis", 4)
  BY <1>7
<1>8. QED
  BY <1>1, <1>2, <1>3, <1>4, <1>5, <1>6, <1>7, NsisActions

LEMMA NsisKeeps ==
  ASSUME RecipeInv, UNCHANGED ghidraVersion, NsisStep
  PROVE  RecipeInv'
<1> USE DEF RecipeInv
<1>1. CASE UNCHANGED recipeVars
  BY <1>1 DEF recipeVars, RecipeTypeOK, RunningInv, NoStepLeftRunning, RippedInv, RippedIsTrue,
     StampInv, StampIsTrue, StampMatches, AssetsInv, NoStaleAssets, DecompiledInv,
     NilMeansDecompiled, LeftSource, StringsPhase, Files, IndexInv, IndexIsCurrent, Has
<1>2. CASE ~UNCHANGED recipeVars
  <2>1. Within("nsis")
    BY <1>2, NsisWithin
  <2>2. /\ ret' \in {"none", "nil", "err"} /\ status' \in [Steps -> Statuses]
        /\ disk' = disk /\ writing' \subseteq writing /\ indexed' = indexed
    <3> USE DEF RecipeTypeOK, Statuses
    <3>1. CASE NsisCopy \/ NsisLocate
      BY <3>1, <2>1 DEF NsisCopy, NsisLocate, RunningInv, Within, Goes
    <3>2. CASE NsisDecompress
      BY <3>2, <2>1 DEF NsisDecompress, RunningInv, Within, Goes
    <3>3. CASE NsisExtractBegin
      BY <3>3, <2>1 DEF NsisExtractBegin, RunningInv, Within, Goes
    <3>4. CASE NsisWalked \/ NsisRaw \/ Done("nsis", 4)
      BY <3>4, <2>1 DEF NsisWalked, NsisRaw, RunningInv, Within, Goes
    <3>5. QED
      BY <1>2, <3>1, <3>2, <3>3, <3>4, NsisActions
  <2>3. RecipeTypeOK'
    BY <2>1, <2>2 DEF RecipeTypeOK, Within, Goes, Writes
  <2>4. RunningInv'
    <3> USE DEF RunningInv, NoStepLeftRunning, RecipeTypeOK, Statuses
    <3>1. CASE NsisCopy
      BY <3>1 DEF NsisCopy
    <3>2. CASE NsisLocate
      BY <3>2 DEF NsisLocate
    <3>3. CASE NsisDecompress
      BY <3>3 DEF NsisDecompress
    <3>4. CASE NsisExtractBegin
      BY <3>4 DEF NsisExtractBegin
    <3>5. CASE NsisWalked
      BY <3>5 DEF NsisWalked
    <3>6. CASE NsisRaw
      BY <3>6 DEF NsisRaw
    <3>7. CASE Done("nsis", 4)
      BY <3>7
    <3>8. QED
      BY <1>2, <3>1, <3>2, <3>3, <3>4, <3>5, <3>6, <3>7, NsisActions
  <2>5. RippedInv' /\ StampInv'
    BY <2>1, RippedFrame, StampFrame DEF Recipes
  <2>6. AssetsInv' /\ DecompiledInv' /\ IndexInv'
    BY <2>1 DEF AssetsInv, NoStaleAssets, DecompiledInv, NilMeansDecompiled, IndexInv,
       IndexIsCurrent, RequiredStep, IndexStep, Within, Goes, Writes
  <2>7. QED
    BY <2>3, <2>4, <2>5, <2>6
<1>3. QED
  BY <1>1, <1>2

\* Between two steps: the next run, a stop, the process killed, Ghidra updated.
LEMMA NewRunKeeps ==
  ASSUME RecipeInv, UNCHANGED ghidraVersion, NewRun
  PROVE  RecipeInv'
<1> USE DEF RecipeInv, NewRun
<1>1. RecipeTypeOK'
  <2>1. status' \in [Steps -> Statuses] /\ pc'[1] \in Nat
    BY DEF Statuses
  <2>2. run' \in Nat /\ disk' = disk
    BY DEF RecipeTypeOK
  <2>3. QED
    BY <2>1, <2>2 DEF RecipeTypeOK
<1>2. RunningInv'
  BY DEF RunningInv, NoStepLeftRunning, RecipeTypeOK
<1>3. RippedInv' /\ StampInv'
  BY DEF RippedInv, RippedIsTrue, StampInv, StampIsTrue, StampMatches, Has
<1>4. AssetsInv'
  BY DEF AssetsInv, NoStaleAssets
<1>5. DecompiledInv' /\ IndexInv'
  BY DEF DecompiledInv, NilMeansDecompiled, IndexInv, IndexIsCurrent, RequiredStep, IndexStep
<1>6. QED
  BY <1>1, <1>2, <1>3, <1>4, <1>5

LEMMA CancelKeeps ==
  ASSUME RecipeInv, UNCHANGED ghidraVersion, Cancel
  PROVE  RecipeInv'
BY DEF RecipeInv, Cancel, RecipeTypeOK, RunningInv, NoStepLeftRunning, RippedInv, RippedIsTrue,
   StampInv, StampIsTrue, StampMatches, AssetsInv, NoStaleAssets, DecompiledInv,
   NilMeansDecompiled, LeftSource, StringsPhase, Files, IndexInv, IndexIsCurrent, Has

LEMMA DieKeeps ==
  ASSUME RecipeInv, UNCHANGED ghidraVersion, Die
  PROVE  RecipeInv'
<1> USE DEF RecipeInv
<1>1. PICK torn \in SUBSET writing :
        disk' = [p \in Products |-> IF p \in torn THEN Made("part") ELSE disk[p]]
  BY DEF Die
<1>2. /\ pc # Idle /\ pc' = Idle /\ ret' = "died" /\ writing' = {}
      /\ UNCHANGED <<status, indexed, recipe, run, cancelled>>
  BY DEF Die
<1>3. Made("part") \in Product /\ Made("part").kind = "part" /\ Made("part").of = 0 /\ Made("part").run = run
  BY DEF Made, Product, RecipeTypeOK
<1>4. \A p \in Products : disk'[p] = IF p \in torn THEN Made("part") ELSE disk[p]
  BY <1>1
<1>5. RecipeTypeOK'
  <2>1. disk' \in [Products -> Product]
    BY <1>1, <1>3 DEF RecipeTypeOK
  <2>2. QED
    BY <1>2, <2>1 DEF RecipeTypeOK
<1>6. RunningInv'
  BY <1>2 DEF RunningInv, NoStepLeftRunning
<1>7. RippedInv'
  <2>1. "ripped" \notin torn /\ ("export" \in torn => ~Has("ripped"))
    BY <1>1 DEF RippedInv
  <2>2. disk'["ripped"] = disk["ripped"] /\ ("export" \notin torn => disk'["export"] = disk["export"])
    BY <1>4, <2>1 DEF Products
  <2>3. QED
    BY <1>2, <2>1, <2>2 DEF RippedInv, RippedIsTrue, Has
<1>8. StampInv'
  <2>1. "extension" \in torn => ~StampMatches
    BY <1>1 DEF StampInv
  <2>2. /\ disk'["stamp"] = IF "stamp" \in torn THEN Made("part") ELSE disk["stamp"]
        /\ "extension" \notin torn => disk'["extension"] = disk["extension"]
    BY <1>4 DEF Products
  <2>3. StampMatches' => StampMatches /\ "extension" \notin torn
    BY <1>3, <2>1, <2>2 DEF StampMatches
  <2>4. StampIsTrue'
    BY <2>2, <2>3 DEF StampInv, StampIsTrue
  <2>5. disk'["stamp"].of <= ghidraVersion'
    BY <1>3, <2>2 DEF StampInv, RecipeTypeOK
  <2>6. QED
    BY <1>2, <2>4, <2>5 DEF StampInv
<1>9. AssetsInv'
  BY <1>2, <1>3, <1>4 DEF AssetsInv, NoStaleAssets, Products
<1>10. DecompiledInv' /\ IndexInv'
  BY <1>2 DEF DecompiledInv, NilMeansDecompiled, IndexInv, IndexIsCurrent
<1>11. QED
  BY <1>5, <1>6, <1>7, <1>8, <1>9, <1>10

LEMMA GhidraUpdateKeeps ==
  ASSUME RecipeInv, GhidraUpdate
  PROVE  RecipeInv'
<1> USE DEF RecipeInv, GhidraUpdate, recipeVars
<1>1. RecipeTypeOK' /\ RunningInv' /\ RippedInv'
  BY DEF RecipeTypeOK, RunningInv, NoStepLeftRunning, RippedInv, RippedIsTrue, Has
<1>2. AssetsInv' /\ DecompiledInv' /\ IndexInv'
  BY DEF AssetsInv, NoStaleAssets, DecompiledInv, NilMeansDecompiled, LeftSource, StringsPhase,
     Files, IndexInv, IndexIsCurrent, Has
<1>3. StampInv'
  <2>1. disk["stamp"].of \in Nat /\ disk' = disk /\ writing' = writing
    BY DEF RecipeTypeOK, Products, Product
  <2>2. ~StampMatches' /\ disk'["stamp"].of <= ghidraVersion'
    BY <2>1 DEF StampInv, StampMatches, RecipeTypeOK
  <2>3. QED
    BY <2>2 DEF StampInv, StampIsTrue
<1>4. QED
  BY <1>1, <1>2, <1>3

\* The first state.
LEMMA InitKeeps ==
  ASSUME Init
  PROVE  RecipeInv
<1> USE DEF Init, RecipeInit
<1>1. \A p \in Products : disk[p] = None /\ disk[p].kind = "none" /\ disk[p].of = 0
  BY DEF None
<1>2. RecipeTypeOK
  BY DEF RecipeTypeOK, Statuses, None, Product
<1>3. RunningInv /\ AssetsInv
  BY DEF RunningInv, NoStepLeftRunning, AssetsInv, NoStaleAssets
<1>4. RippedInv /\ StampInv
  BY <1>1 DEF RippedInv, RippedIsTrue, StampInv, StampIsTrue, StampMatches, Has, Products
<1>5. DecompiledInv /\ IndexInv
  BY DEF DecompiledInv, NilMeansDecompiled, IndexInv, IndexIsCurrent, RequiredStep, IndexStep
<1>6. QED
  BY <1>2, <1>3, <1>4, <1>5 DEF RecipeInv

-----------------------------------------------------------------------------
(* The walk over the script of an installer                                 *)

\* The table and the fields of the walk over it.
WalkTypeOK ==
  /\ Len(script) \in Nat /\ DOMAIN script = 1 .. Len(script)
  /\ DOMAIN walk = {"at", "cwd", "vars", "tree", "written", "nowhere", "wanted", "files"}
  /\ walk.at \in Nat \ {0} /\ {walk.wanted, walk.files} \subseteq Nat

Placed == {w[1] : w \in walk.written} \cup walk.nowhere

\* As long as no file was lost every file record that was passed has its
\* place, and the extraction has said Success only when it is behind it.
WalkInv ==
  /\ WalkTypeOK
  /\ SuccessIsWhole
  /\ recipe = "nsis" /\ pc # Idle /\ status[3] = "success" => pc[1] > 3
  /\ recipe = "nsis" /\ pc = <<3, "walk">> =>
       /\ walk.files <= walk.wanted
       /\ walk.files = walk.wanted => {k \in FileRecords : k < walk.at} \subseteq Placed

\* A step of another recipe does not touch the walk.
LEMMA WalkFrame ==
  ASSUME RecipeTypeOK, WalkInv, UNCHANGED nsisVars, NEW r, Within(r), r # "nsis"
  PROVE  WalkInv'
BY DEF WalkInv, WalkTypeOK, Placed, SuccessIsWhole, FileRecords, nsisVars, Within, Goes, Writes

\* A file instruction: what is not written is missing in the count.
LEMMA WriteFilePlaces ==
  ASSUME WalkTypeOK, WriteFile(script[walk.at])
  PROVE  /\ WalkTypeOK' \/ script' # script
         /\ walk'.at = walk.at + 1
         /\ walk.files <= walk.wanted =>
              /\ walk'.files <= walk'.wanted
              /\ walk'.files = walk'.wanted =>
                   walk.files = walk.wanted /\ Placed \cup {walk.at} \subseteq Placed'
<1> DEFINE d == Dst(script[walk.at].name)
<1> HIDE DEF d
<1>1. CASE d = <<>>
  <2>1. walk' = [walk EXCEPT !.at = @ + 1, !.nowhere = @ \cup {walk.at}]
    BY <1>1 DEF WriteFile, d
  <2>2. QED
    BY <2>1 DEF WalkTypeOK, Placed
<1>2. CASE d # <<>>
  <2>1. PICK ok \in BOOLEAN :
          walk' = [walk EXCEPT !.at = @ + 1, !.wanted = @ + 1,
                     !.files   = IF ok THEN @ + 1 ELSE @,
                     !.tree    = @ \cup {t \in {d} : ok},
                     !.written = @ \cup {w \in {<<walk.at, d>>} : ok}]
    BY <1>2 DEF WriteFile, Written, d
  <2>2. /\ DOMAIN walk' = DOMAIN walk /\ walk'.at = walk.at + 1 /\ walk'.wanted = walk.wanted + 1
        /\ walk'.files = IF ok THEN walk.files + 1 ELSE walk.files
        /\ walk'.written = walk.written \cup {w \in {<<walk.at, d>>} : ok}
        /\ walk'.nowhere = walk.nowhere
    BY <2>1 DEF WalkTypeOK
  <2>3. Placed \subseteq Placed' /\ (ok => walk.at \in Placed')
    <3>1. walk.written \subseteq walk'.written /\ (ok => <<walk.at, d>> \in walk'.written)
      BY <2>2
    <3>2. <<walk.at, d>>[1] = walk.at
      OBVIOUS
    <3>3. QED
      BY <2>2, <3>1, <3>2 DEF Placed
  <2>4. WalkTypeOK' \/ script' # script
    BY <2>2 DEF WalkTypeOK
  <2>5. QED
    BY <2>2, <2>3, <2>4 DEF WalkTypeOK
<1>3. QED
  BY <1>1, <1>2

\* The other instructions leave the counts and the places alone.
LEMMA ApplyKeeps ==
  ASSUME WalkTypeOK, NEW e, walk' = Apply(e)
  PROVE  /\ WalkTypeOK' \/ script' # script
         /\ walk'.at = walk.at + 1 /\ walk'.files = walk.files /\ walk'.wanted = walk.wanted
         /\ Placed' = Placed
<1>1. /\ DOMAIN walk' = DOMAIN walk /\ walk'.at = walk.at + 1
      /\ walk'.files = walk.files /\ walk'.wanted = walk.wanted
      /\ walk'.written = walk.written /\ walk'.nowhere = walk.nowhere
  BY DEF Apply, WalkTypeOK
<1>2. QED
  BY <1>1 DEF WalkTypeOK, Placed

\* One instruction, and the end of the table.
LEMMA EntryKeeps ==
  ASSUME RecipeTypeOK, WalkInv, NsisEntry
  PROVE  WalkInv'
<1>1. /\ recipe = "nsis" /\ pc = <<3, "walk">> /\ UNCHANGED <<script, recipe, pc, status>>
      /\ walk.at \in DOMAIN script
  <2>1. Phase("nsis", 3, "walk") /\ UNCHANGED <<script, recipe, pc, status>> /\ walk.at <= Len(script)
    BY DEF NsisEntry, recipeVars
  <2>2. walk.at \in DOMAIN script
    BY <2>1 DEF WalkInv, WalkTypeOK
  <2>3. QED
    BY <2>1, <2>2
<1>2. status[3] # "success" /\ FileRecords' = FileRecords
  BY <1>1 DEF WalkInv, FileRecords
<1>3. /\ WalkTypeOK' /\ walk'.at = walk.at + 1 /\ walk'.files <= walk'.wanted
      /\ walk'.files = walk'.wanted =>
           walk.files = walk.wanted /\ Placed \cup ({walk.at} \cap FileRecords) \subseteq Placed'
  <2>1. CASE script[walk.at].op \in FileOps
    BY <1>1, <2>1, WriteFilePlaces DEF NsisEntry, WalkInv
  <2>2. CASE script[walk.at].op \notin FileOps
    BY <1>1, <2>2, ApplyKeeps DEF NsisEntry, WalkInv, FileRecords
  <2>3. QED
    BY <2>1, <2>2
<1>4. ASSUME walk'.files = walk'.wanted, NEW k \in FileRecords, k < walk'.at
      PROVE  k \in Placed'
  <2>1. k < walk.at \/ k = walk.at
    BY <1>3, <1>4 DEF WalkInv, WalkTypeOK, FileRecords
  <2>2. QED
    BY <1>1, <1>3, <1>4, <2>1 DEF WalkInv
<1>5. QED
  BY <1>1, <1>2, <1>3, <1>4 DEF WalkInv, SuccessIsWhole

LEMMA WalkedKeeps ==
  ASSUME RecipeTypeOK, WalkInv, NsisWalked
  PROVE  WalkInv'
<1>1. recipe = "nsis" /\ pc = <<3, "walk">> /\ recipe' = recipe /\ UNCHANGED nsisVars /\ walk.at > Len(script)
  BY DEF NsisWalked
<1>2. WalkTypeOK' /\ FileRecords' = FileRecords /\ Placed' = Placed
  BY <1>1 DEF WalkInv, WalkTypeOK, FileRecords, Placed, nsisVars
<1>3. status[3] # "success"
  BY <1>1 DEF WalkInv
<1>4. /\ pc' \in {<<4, "begin">>, <<3, "raw">>}
      /\ status'[3] = "success" => walk.files >= walk.wanted /\ pc' = <<4, "begin">>
  BY <1>1, <1>3 DEF NsisWalked, RecipeTypeOK, WalkInv, WalkTypeOK
<1>5. ASSUME status'[3] = "success"
      PROVE  FileRecords \subseteq Placed
  <2>1. walk.files = walk.wanted
    BY <1>1, <1>4, <1>5 DEF WalkInv, WalkTypeOK
  <2>2. \A k \in FileRecords : k < walk.at
    BY <1>1 DEF FileRecords, WalkInv, WalkTypeOK
  <2>3. QED
    BY <1>1, <2>1, <2>2 DEF WalkInv
<1>6. QED
  BY <1>1, <1>2, <1>4, <1>5 DEF WalkInv, SuccessIsWhole, Placed

\* The walk through the steps of the recipe.
LEMMA NsisWalkKeeps ==
  ASSUME RecipeInv, WalkInv, NsisStep
  PROVE  WalkInv'
<1>0. RecipeTypeOK
  BY DEF RecipeInv
<1> USE DEF RecipeTypeOK, WalkInv, WalkTypeOK, SuccessIsWhole, FileRecords, Placed, nsisVars, Kept
<1>1. CASE NsisCopy
  BY <1>0, <1>1 DEF NsisCopy
<1>2. CASE NsisLocate
  BY <1>0, <1>2 DEF NsisLocate
<1>3. CASE NsisDecompress
  BY <1>0, <1>3 DEF NsisDecompress
<1>4. CASE NsisExtractBegin
  BY <1>0, <1>4 DEF NsisExtractBegin
<1>5. CASE NsisEntry
  BY <1>0, <1>5, EntryKeeps
<1>6. CASE NsisWalked
  BY <1>0, <1>6, WalkedKeeps
<1>7. CASE NsisRaw
  BY <1>0, <1>7 DEF NsisRaw
<1>8. CASE Done("nsis", 4) /\ UNCHANGED nsisVars
  BY <1>0, <1>8
<1>9. QED
  BY <1>1, <1>2, <1>3, <1>4, <1>5, <1>6, <1>7, <1>8 DEF NsisStep

LEMMA WalkInit ==
  ASSUME Init
  PROVE  WalkInv
<1>1. Len(script) \in Nat /\ DOMAIN script = 1 .. Len(script)
  <2>1. CASE script = <<>>
    BY <2>1
  <2>2. CASE recipe = "nsis"
    <3>1. PICK n \in 1 .. MaxEntries : script \in [1 .. n -> Instructions]
      BY <2>2 DEF Init, NsisInit
    <3>2. script \in Seq(Instructions)
      BY <3>1
    <3>3. QED
      BY <3>2
  <2>3. QED
    BY <2>1, <2>2 DEF Init, NsisInit
<1>2. QED
  BY <1>1 DEF Init, RecipeInit, NsisInit, WalkInv, WalkTypeOK, SuccessIsWhole

\* Every step of a run keeps the two.
LEMMA RunKeeps ==
  ASSUME RecipeInv, WalkInv, RunNext
  PROVE  RecipeInv' /\ WalkInv'
<1> USE DEF Recipes
<1>0. RecipeTypeOK
  BY DEF RecipeInv
<1>1. CASE NewRun /\ UNCHANGED <<ghidraVersion, nsisVars>>
  <2>1. RecipeInv'
    BY <1>1, NewRunKeeps
  <2>2. WalkInv'
    BY <1>1 DEF NewRun, WalkInv, WalkTypeOK, SuccessIsWhole, FileRecords, Placed, nsisVars
  <2>3. QED
    BY <2>1, <2>2
<1>2. CASE (Cancel \/ Die) /\ UNCHANGED <<ghidraVersion, nsisVars>>
  <2>1. RecipeInv'
    BY <1>2, CancelKeeps, DieKeeps
  <2>2. UNCHANGED <<recipe, status, nsisVars>> /\ (pc' = pc \/ pc' = Idle)
    BY <1>2 DEF Cancel, Die
  <2>3. WalkInv'
    BY <2>2 DEF WalkInv, WalkTypeOK, SuccessIsWhole, FileRecords, Placed, nsisVars
  <2>4. QED
    BY <2>1, <2>3
<1>3. CASE GhidraUpdate /\ UNCHANGED nsisVars
  <2>1. RecipeInv'
    BY <1>3, GhidraUpdateKeeps
  <2>2. WalkInv'
    BY <1>3 DEF GhidraUpdate, recipeVars, WalkInv, WalkTypeOK, SuccessIsWhole, FileRecords,
       Placed, nsisVars
  <2>3. QED
    BY <2>1, <2>2
<1>4. CASE (NativeStep \/ NativeAOT) /\ UNCHANGED <<ghidraVersion, nsisVars>>
  BY <1>0, <1>4, NativeKeeps, WalkFrame
<1>5. CASE DelphiStep /\ UNCHANGED <<ghidraVersion, nsisVars>>
  BY <1>0, <1>5, DelphiKeeps, WalkFrame
<1>6. CASE JavaStep /\ UNCHANGED <<ghidraVersion, nsisVars>>
  BY <1>0, <1>6, JavaKeeps, WalkFrame
<1>7. CASE DotnetStep /\ UNCHANGED <<ghidraVersion, nsisVars>>
  BY <1>0, <1>7, DotnetKeeps, WalkFrame
<1>8. CASE MonoStep /\ UNCHANGED <<ghidraVersion, nsisVars>>
  BY <1>0, <1>8, MonoKeeps, WalkFrame
<1>9. CASE Il2cppStep /\ UNCHANGED <<ghidraVersion, nsisVars>>
  BY <1>0, <1>9, Il2cppKeeps, WalkFrame
<1>10. CASE UnrealStep /\ UNCHANGED <<ghidraVersion, nsisVars>>
  BY <1>0, <1>10, UnrealKeeps, WalkFrame
<1>11. CASE ConfuserExStep /\ UNCHANGED <<ghidraVersion, nsisVars>>
  BY <1>0, <1>11, ConfuserExKeeps, WalkFrame
<1>12. CASE Companion /\ UNCHANGED <<ghidraVersion, nsisVars>>
  <2>1. RecipeInv'
    BY <1>12, CompanionKeeps
  <2>2. WalkInv'
    BY <1>12 DEF Companion, WalkInv, WalkTypeOK, SuccessIsWhole, FileRecords, Placed, nsisVars
  <2>3. QED
    BY <2>1, <2>2
<1>13. CASE NsisStep /\ UNCHANGED ghidraVersion
  BY <1>13, NsisKeeps, NsisWalkKeeps
<1>14. QED
  BY <1>1, <1>2, <1>3, <1>4, <1>5, <1>6, <1>7, <1>8, <1>9, <1>10, <1>11, <1>12, <1>13 DEF RunNext

-----------------------------------------------------------------------------
(* The split of Ghidra's export                                             *)

Lines   == {Banner, Total} \cup Signature \cup Body \cup {Header(a) : a \in Addresses}
Known   == Names \cup {""}
Entries == [at : Nat, addr : Nat, name : Known, bytes : Nat, file : Nat \X Nat]
Records == [run : Nat, at : Nat, kept : Nat]
OpenRecords ==
  [at : Nat \ {0}, addr : Nat, name : Known, sigPending : BOOLEAN, bytes : Nat, kept : Nat,
   capped : BOOLEAN, calls : SUBSET {"callee"}]

SplitTypeOK ==
  /\ DOMAIN split = {"run", "ret", "eol"} /\ split.run \in Nat
  /\ input \in Seq(Lines)
  /\ reader \in {"scan", "fallback"}
  /\ open = NoRecord \/ open \in OpenRecords
  /\ DOMAIN writer = {"bucket", "index", "written", "open"} /\ {writer.bucket, writer.index} \subseteq Nat
  /\ \A f \in DOMAIN tree : tree[f] \in Seq(Records)
  /\ catalog \in Seq(Entries)
  /\ symbols \in Seq(Nat \X Known)
  /\ DOMAIN summary = {"json", "index"}

Ongoing == split.ret \in {"running", "nil"}
IsOpen  == open # NoRecord
Stops   == {i \in DOMAIN input : input[i].kind \in {"header", "total"}}

\* What is open, and what is listed, begins with a header of the input, and
\* the catalog has them in their order.
OrderInv ==
  /\ IsOpen => open.at \in Headers /\ open.addr = input[open.at].arg
  /\ \A k \in DOMAIN catalog :
       /\ catalog[k].at \in Headers /\ catalog[k].addr = input[catalog[k].at].arg
       /\ IsOpen => catalog[k].at < open.at
  /\ \A j, k \in DOMAIN catalog : j < k => catalog[j].at < catalog[k].at

\* Every header that is seen has its entry or is the one of the record that is
\* open; the second reader is at work once there was an overlong line.
HadLong == \E j \in DOMAIN input : input[j].kind = "long"
Seen    == Headers \ Unseen
CompleteInv ==
  /\ reader = "fallback" <=> HadLong
  /\ Seen = Listed \cup IF IsOpen THEN {open.at} ELSE {}

FiledInv == EntriesAreFiled /\ FilesAreListed /\ SymbolsAreListed

\* The sizes, of what is listed and of what is open, until an overlong line.
SizesInv ==
  /\ \A k \in DOMAIN catalog :
       LET e == catalog[k].at + catalog[k].bytes
       IN  /\ e \in Stops \/ (split.ret = "nil" /\ e = Len(input) + 1)
           /\ \A i \in Stops : i > catalog[k].at => i >= e
  /\ IsOpen => open.at + open.bytes = Len(input) + 1 /\ \A i \in Stops : i <= open.at

SplitInv ==
  /\ SplitTypeOK
  /\ Ongoing => OrderInv /\ CompleteInv /\ FiledInv /\ (reader = "scan" => SizesInv)
  /\ split.ret = "nil" =>
       ~IsOpen /\ summary.json = Sums(split.run, catalog, symbols) /\ summary.index = summary.json

\* The lines of an export.
LEMMA LineKinds ==
  ASSUME NEW l \in NextLines
  PROVE  /\ l \in Lines
         /\ l.kind = "header" => l.arg \in Addresses
         /\ l.kind = "sig" => l.arg \in Known
         /\ l.kind = "text" => l.arg \in {"", "callee"}
<1> USE DEF Banner, Total, Long, Header, Line, Signature, Body
<1>1. CASE l \in {Header(a) : a \in Addresses}
  <2>1. PICK a \in Addresses : l = Header(a)
    BY <1>1
  <2>2. l.kind = "header" /\ l.arg = a
    BY <2>1
  <2>3. l \in Lines
    BY <1>1 DEF Lines
  <2>4. QED
    BY <2>2, <2>3
<1>2. CASE l \in Signature
  BY <1>2 DEF Lines, Known
<1>3. CASE l \in Body \cup {Banner, Total}
  <2>1. l \in Lines
    BY <1>3 DEF Lines
  <2>2. \A x : /\ Line(x, "").kind = x /\ Line(x, "").arg = ""
               /\ Line(x, "callee").kind = x /\ Line(x, "callee").arg = "callee"
    OBVIOUS
  <2>3. l \in {Line("text", ""), Line("text", "callee"), Line("long", ""), Line("banner", ""), Line("total", "")}
    BY <1>3
  <2> HIDE DEF Line
  <2>4. QED
    BY <2>1, <2>2, <2>3
<1>4. QED
  BY <1>1, <1>2, <1>3 DEF NextLines

\* A record that is begun has the type of one, and keeps it with every line.
LEMMA StartedOpen ==
  ASSUME SplitTypeOK, NEW a \in Addresses
  PROVE  /\ Started(a) \in OpenRecords /\ Started(a) # NoRecord
         /\ Started(a).at = Len(input) + 1 /\ Started(a).addr = a /\ Started(a).bytes = 1
<1>1. Len(input) \in Nat /\ a \in Nat
  BY CsplitAssumption DEF SplitTypeOK
<1>2. Started(a) \in OpenRecords /\ Started(a).at = Len(input) + 1 /\ Started(a).addr = a /\ Started(a).bytes = 1
  BY <1>1 DEF Started, OpenRecords, Known
<1>3. NoRecord.at = 0
  BY DEF NoRecord
<1>4. QED
  BY <1>1, <1>2, <1>3

LEMMA AppendOpen ==
  ASSUME SplitTypeOK, open # NoRecord, NEW l \in NextLines
  PROVE  LET r == AppendLine(open, l, Delivered(l))
         IN  /\ r \in OpenRecords /\ r # NoRecord
             /\ r.at = open.at /\ r.addr = open.addr /\ r.bytes = open.bytes + Delivered(l)
<1> DEFINE r == AppendLine(open, l, Delivered(l))
<1>1. open \in OpenRecords /\ RecordCap \in Nat /\ Delivered(l) \in Nat
  BY CsplitAssumption DEF SplitTypeOK, Delivered, LongLine
<1>2. Refs(open, l) \subseteq {"callee"}
  BY LineKinds DEF Refs
<1> DEFINE name == IF open.sigPending /\ l.kind = "sig" THEN l.arg ELSE open.name
           kept == open.kept + (IF open.capped THEN 0 ELSE IF open.kept >= RecordCap THEN 1 ELSE Delivered(l))
           capped == open.kept >= RecordCap
           calls == open.calls \cup Refs(open, l)
<1>3. name \in Known
  BY <1>1, LineKinds DEF OpenRecords
<1>4. kept \in Nat /\ capped \in BOOLEAN /\ calls \in SUBSET {"callee"}
  BY <1>1, <1>2 DEF OpenRecords
<1>5. /\ r \in OpenRecords
      /\ r.at = open.at /\ r.addr = open.addr /\ r.bytes = open.bytes + Delivered(l)
  <2>1. r = [open EXCEPT !.bytes = open.bytes + Delivered(l), !.name = name, !.sigPending = FALSE,
                         !.capped = capped, !.kept = kept, !.calls = calls]
    BY <1>1 DEF AppendLine, OpenRecords
  <2> HIDE DEF r, name, kept, capped, calls
  <2>2. r = [at |-> open.at, addr |-> open.addr, name |-> name, sigPending |-> FALSE,
             bytes |-> open.bytes + Delivered(l), kept |-> kept, capped |-> capped, calls |-> calls]
    BY <1>1, <2>1 DEF OpenRecords
  <2>3. open.at \in Nat \ {0} /\ open.addr \in Nat /\ open.bytes + Delivered(l) \in Nat
    BY <1>1 DEF OpenRecords
  <2>4. QED
    BY <1>3, <1>4, <2>2, <2>3 DEF OpenRecords
<1>6. NoRecord.at = 0 /\ open.at # 0
  BY <1>1 DEF NoRecord, OpenRecords
<1>7. QED
  BY <1>5, <1>6

\* The file that the writer has open for a record.
LEMMA FileTypes ==
  ASSUME SplitTypeOK, open \in OpenRecords
  PROVE  LET w == FileFor(open.addr)
         IN  /\ DOMAIN w = {"bucket", "index", "written", "open"} /\ {w.bucket, w.index} \subseteq Nat
             /\ FileOf(w) \in Nat \X Nat /\ Content(FileOf(w)) \in Seq(Records)
<1>1. bucketFor(open.addr) \in Nat
  BY DEF bucketFor, OpenRecords
<1>2. LET w == FileFor(open.addr)
      IN  DOMAIN w = {"bucket", "index", "written", "open"} /\ {w.bucket, w.index} \subseteq Nat
  BY <1>1 DEF FileFor, SplitTypeOK
<1>3. \A f : Content(f) \in Seq(Records)
  BY DEF Content, SplitTypeOK
<1>4. QED
  BY <1>2, <1>3 DEF FileOf

\* What a flush does when every write succeeds.
LEMMA FlushAll ==
  ASSUME SplitTypeOK, open # NoRecord, Flush(Len(Sinks))
  PROVE  \E f \in Nat \X Nat :
           /\ DOMAIN tree' = DOMAIN tree \cup {f}
           /\ \A g \in DOMAIN tree \ {f} : tree'[g] = tree[g]
           /\ tree'[f] = Append(Content(f), [run |-> split.run, at |-> open.at, kept |-> open.kept])
           /\ catalog' = Append(catalog, Entry(open, f))
           /\ symbols' = Append(symbols, <<open.addr, open.name>>)
<1> DEFINE f == FileOf(FileFor(open.addr))
<1>1. open \in OpenRecords
  BY DEF SplitTypeOK
<1>2. f \in Nat \X Nat
  BY <1>1, FileTypes
<1>3. Len(Sinks) = 4
  BY DEF Sinks
<1> HIDE DEF f
<1>4. /\ tree' = [g \in DOMAIN tree \cup {f} |->
                   IF g # f THEN tree[g]
                   ELSE Append(Content(f), [run |-> split.run, at |-> open.at, kept |-> open.kept])]
      /\ catalog' = Append(catalog, Entry(open, f))
      /\ symbols' = Append(symbols, <<open.addr, open.name>>)
  BY <1>3 DEF Flush, OldContent, f
<1>5. QED
  BY <1>2, <1>4

\* A flush, whatever writes of it succeed, keeps the types.
LEMMA FlushTypes ==
  ASSUME SplitTypeOK, open # NoRecord, NEW done \in 0 .. 4, Flush(done)
  PROVE  /\ DOMAIN writer' = {"bucket", "index", "written", "open"}
         /\ {writer'.bucket, writer'.index} \subseteq Nat
         /\ \A g \in DOMAIN tree' : tree'[g] \in Seq(Records)
         /\ catalog' \in Seq(Entries)
         /\ symbols' \in Seq(Nat \X Known)
<1> DEFINE w == FileFor(open.addr)
           f == FileOf(w)
           rec == [run |-> split.run, at |-> open.at, kept |-> open.kept]
<1>1. open \in OpenRecords /\ split.run \in Nat
  BY DEF SplitTypeOK
<1>2. /\ DOMAIN w = {"bucket", "index", "written", "open"} /\ {w.bucket, w.index} \subseteq Nat
      /\ f \in Nat \X Nat /\ Content(f) \in Seq(Records)
  BY <1>1, FileTypes
<1>3. rec \in Records /\ Entry(open, f) \in Entries /\ <<open.addr, open.name>> \in Nat \X Known
  BY <1>1, <1>2 DEF Records, Entries, Entry, OpenRecords
<1> HIDE DEF w, f, rec
<1>4. /\ tree' = tree \/ tree' = [g \in DOMAIN tree \cup {f} |-> IF g # f THEN tree[g] ELSE Append(Content(f), rec)]
      /\ writer' = writer \/ writer' = [w EXCEPT !.written = @ + open.kept + 1]
  BY DEF Flush, OldContent, w, f, rec
<1>5. /\ catalog' \in {catalog, Append(catalog, Entry(open, f))}
      /\ symbols' \in {symbols, Append(symbols, <<open.addr, open.name>>)}
  BY DEF Flush, w, f
<1>6. catalog' \in Seq(Entries) /\ symbols' \in Seq(Nat \X Known)
  <2>1. catalog' \in Seq(Entries)
    <3> DEFINE x == Entry(open, f)
    <3>1. x \in Entries /\ catalog \in Seq(Entries) /\ catalog' \in {catalog, Append(catalog, x)}
      BY <1>3, <1>5 DEF SplitTypeOK
    <3> HIDE DEF x
    <3>2. QED
      BY <3>1
  <2>2. symbols' \in Seq(Nat \X Known)
    <3> DEFINE S == Nat \X Known
               x == <<open.addr, open.name>>
    <3>1. x \in S /\ symbols \in Seq(S) /\ symbols' \in {symbols, Append(symbols, x)}
      BY <1>3, <1>5 DEF SplitTypeOK
    <3> HIDE DEF S, x
    <3>2. symbols' \in Seq(S)
      BY <3>1
    <3>3. QED
      BY <3>2 DEF S
  <2>3. QED
    BY <2>1, <2>2
<1>7. Append(Content(f), rec) \in Seq(Records)
  BY <1>2, <1>3
<1>8. \A g \in DOMAIN tree' : tree'[g] \in Seq(Records)
  <2>1. \A g \in DOMAIN tree : tree[g] \in Seq(Records)
    BY DEF SplitTypeOK
  <2>2. QED
    BY <1>4, <1>7, <2>1
<1>9. DOMAIN writer' = {"bucket", "index", "written", "open"} /\ {writer'.bucket, writer'.index} \subseteq Nat
  <2>1. CASE writer' = writer
    BY <2>1 DEF SplitTypeOK
  <2>2. CASE writer' = [w EXCEPT !.written = @ + open.kept + 1]
    <3>1. DOMAIN writer' = DOMAIN w /\ writer'.bucket = w.bucket /\ writer'.index = w.index
      BY <1>2, <2>2
    <3>2. QED
      BY <1>2, <3>1
  <2>3. QED
    BY <1>4, <2>1, <2>2
<1>10. QED
  BY <1>6, <1>8, <1>9

\* One that succeeds keeps the files and the catalogs the same records.
LEMMA FlushFiles ==
  ASSUME SplitTypeOK, FiledInv, open # NoRecord, Flush(Len(Sinks)), split'.run = split.run,
         \A k \in DOMAIN catalog : catalog[k].at < open.at
  PROVE  FiledInv'
<1>1. PICK f \in Nat \X Nat :
        /\ DOMAIN tree' = DOMAIN tree \cup {f}
        /\ \A g \in DOMAIN tree \ {f} : tree'[g] = tree[g]
        /\ tree'[f] = Append(Content(f), [run |-> split.run, at |-> open.at, kept |-> open.kept])
        /\ catalog' = Append(catalog, Entry(open, f))
        /\ symbols' = Append(symbols, <<open.addr, open.name>>)
  BY FlushAll
<1> DEFINE rec == [run |-> split.run, at |-> open.at, kept |-> open.kept]
           n == Len(catalog)
           m == Len(Content(f))
<1>2. open \in OpenRecords /\ split.run \in Nat /\ Content(f) \in Seq(Records)
      /\ rec \in Records /\ rec.run = split.run /\ rec.at = open.at
  BY DEF SplitTypeOK, Content, Records, OpenRecords
<1>3. /\ n \in Nat /\ DOMAIN catalog = 1 .. n /\ DOMAIN catalog' = 1 .. (n + 1)
      /\ \A k \in 1 .. n : catalog'[k] = catalog[k]
      /\ catalog'[n + 1] = Entry(open, f)
      /\ Entry(open, f).at = open.at /\ Entry(open, f).file = f
      /\ Entry(open, f).addr = open.addr /\ Entry(open, f).name = open.name
  <2>1. Entry(open, f) \in Entries /\ catalog \in Seq(Entries)
    BY <1>2 DEF Entry, Entries, OpenRecords, SplitTypeOK
  <2>2. QED
    BY <1>1, <2>1 DEF Entry
<1>4. /\ m \in Nat /\ DOMAIN tree'[f] = 1 .. (m + 1) /\ tree'[f][m + 1] = rec
      /\ \A j \in 1 .. m : tree'[f][j] = Content(f)[j]
  BY <1>1, <1>2
<1> HIDE DEF n, m, rec
<1>5. \* the records of the old tree are those of the new one but the last of f
      /\ \A g \in DOMAIN tree : \A j \in DOMAIN tree[g] :
           g \in DOMAIN tree' /\ j \in DOMAIN tree'[g] /\ tree'[g][j] = tree[g][j]
      /\ \A g \in DOMAIN tree' : \A j \in DOMAIN tree'[g] :
           \/ g \in DOMAIN tree /\ j \in DOMAIN tree[g] /\ tree'[g][j] = tree[g][j]
           \/ g = f /\ j = m + 1
  <2>1. f \in DOMAIN tree => Content(f) = tree[f] /\ DOMAIN tree[f] = 1 .. m
    BY <1>2 DEF Content, m
  <2>2. f \notin DOMAIN tree => m = 0
    BY DEF Content, m
  <2>3. ASSUME NEW g \in DOMAIN tree, NEW j \in DOMAIN tree[g]
        PROVE  g \in DOMAIN tree' /\ j \in DOMAIN tree'[g] /\ tree'[g][j] = tree[g][j]
    <3>1. CASE g = f
      BY <1>1, <1>4, <2>1, <2>3, <3>1
    <3>2. CASE g # f
      BY <1>1, <2>3, <3>2
    <3>3. QED
      BY <3>1, <3>2
  <2>4. ASSUME NEW g \in DOMAIN tree', NEW j \in DOMAIN tree'[g]
        PROVE  \/ g \in DOMAIN tree /\ j \in DOMAIN tree[g] /\ tree'[g][j] = tree[g][j]
               \/ g = f /\ j = m + 1
    <3>1. CASE g = f
      <4>1. j \in 1 .. m \/ j = m + 1
        BY <1>4, <2>4, <3>1
      <4>2. CASE j \in 1 .. m
        BY <1>4, <2>1, <2>2, <3>1, <4>2
      <4>3. QED
        BY <3>1, <4>1, <4>2
    <3>2. CASE g # f
      BY <1>1, <2>4, <3>2
    <3>3. QED
      BY <3>1, <3>2
  <2>5. QED
    BY <2>3, <2>4
<1>6. EntriesAreFiled'
  <2> SUFFICES ASSUME NEW k \in 1 .. (n + 1)
               PROVE  /\ catalog'[k].file \in DOMAIN tree'
                      /\ \E j \in DOMAIN tree'[catalog'[k].file] :
                           /\ tree'[catalog'[k].file][j].run = split'.run
                           /\ tree'[catalog'[k].file][j].at = catalog'[k].at
    BY <1>3 DEF EntriesAreFiled
  <2>1. CASE k = n + 1
    <3>1. catalog'[k].file = f /\ catalog'[k].at = open.at /\ f \in DOMAIN tree'
      BY <1>1, <1>3, <2>1
    <3>2. m + 1 \in DOMAIN tree'[f] /\ tree'[f][m + 1].run = split'.run /\ tree'[f][m + 1].at = open.at
      BY <1>2, <1>4
    <3>3. QED
      BY <3>1, <3>2
  <2>2. CASE k \in 1 .. n
    BY <1>3, <1>5, <2>2 DEF FiledInv, EntriesAreFiled
  <2>3. QED
    BY <1>3, <2>1, <2>2
<1>7. FilesAreListed'
  <2>1. \A g \in DOMAIN tree : \A j \in DOMAIN tree[g] :
          /\ tree[g][j].run = split.run /\ tree[g][j].at # open.at
          /\ \E k \in 1 .. n : catalog[k].at = tree[g][j].at /\ catalog[k].file = g
    <3> SUFFICES ASSUME NEW g \in DOMAIN tree, NEW j \in DOMAIN tree[g]
                 PROVE  /\ tree[g][j].run = split.run /\ tree[g][j].at # open.at
                        /\ \E k \in 1 .. n : catalog[k].at = tree[g][j].at /\ catalog[k].file = g
      OBVIOUS
    <3>1. /\ tree[g][j].run = split.run
          /\ \E k \in DOMAIN catalog : catalog[k].at = tree[g][j].at /\ catalog[k].file = g
      BY DEF FiledInv, FilesAreListed
    <3>2. \A k \in DOMAIN catalog : catalog[k].at # open.at
      <4>1. open.at \in Nat
        BY <1>2 DEF OpenRecords
      <4>2. \A k \in DOMAIN catalog : catalog[k] \in Entries
        BY DEF SplitTypeOK
      <4>3. \A k \in DOMAIN catalog : catalog[k].at \in Nat
        BY <4>2 DEF Entries
      <4>4. QED
        BY <4>1, <4>3
    <3>3. QED
      BY <1>3, <3>1, <3>2
  <2>2. ASSUME NEW g \in DOMAIN tree', NEW j \in DOMAIN tree'[g]
        PROVE  /\ tree'[g][j].run = split'.run
               /\ \E k \in 1 .. (n + 1) : catalog'[k].at = tree'[g][j].at /\ catalog'[k].file = g
    <3>1. CASE g \in DOMAIN tree /\ j \in DOMAIN tree[g] /\ tree'[g][j] = tree[g][j]
      BY <1>3, <2>1, <3>1
    <3>2. CASE g = f /\ j = m + 1
      BY <1>2, <1>3, <1>4, <3>2
    <3>3. QED
      BY <1>5, <3>1, <3>2
  <2>3. ASSUME NEW g \in DOMAIN tree', NEW j \in DOMAIN tree'[g],
               NEW h \in DOMAIN tree', NEW i \in DOMAIN tree'[h], tree'[h][i].at = tree'[g][j].at
        PROVE  h = g /\ i = j
    <3>1. tree'[f][m + 1].at = open.at
      BY <1>2, <1>4
    <3>2. CASE g = f /\ j = m + 1
      BY <1>5, <2>1, <2>3, <3>1, <3>2
    <3>3. CASE h = f /\ i = m + 1
      BY <1>5, <2>1, <2>3, <3>1, <3>3
    <3>4. CASE ~(g = f /\ j = m + 1) /\ ~(h = f /\ i = m + 1)
      BY <1>5, <2>3, <3>4 DEF FiledInv, FilesAreListed
    <3>5. QED
      BY <3>2, <3>3, <3>4
  <2>4. QED
    BY <1>3, <2>2, <2>3 DEF FilesAreListed
<1>8. SymbolsAreListed'
  <2>1. /\ Len(symbols) = n /\ symbols \in Seq(Nat \X Known) /\ <<open.addr, open.name>> \in Nat \X Known
        /\ \A k \in 1 .. n : symbols[k] = <<catalog[k].addr, catalog[k].name>>
    BY <1>2, <1>3 DEF FiledInv, SymbolsAreListed, SplitTypeOK, OpenRecords, n
  <2>2. /\ Len(symbols') = n + 1 /\ symbols'[n + 1] = <<open.addr, open.name>>
        /\ \A k \in 1 .. n : symbols'[k] = symbols[k]
    BY <1>1, <1>3, <2>1
  <2>3. Len(catalog') = n + 1
    BY <1>1, <1>3 DEF n, SplitTypeOK
  <2>4. QED
    BY <1>3, <2>1, <2>2, <2>3 DEF SymbolsAreListed
<1>9. QED
  BY <1>6, <1>7, <1>8 DEF FiledInv

\* One line more: the lines before it stay where they are.
LEMMA OneLineMore ==
  ASSUME SplitTypeOK, NEW l \in NextLines, input' = Append(input, l)
  PROVE  /\ Len(input) \in Nat /\ Len(input') = Len(input) + 1 /\ input' \in Seq(Lines)
         /\ input'[Len(input) + 1] = l
         /\ \A i \in Headers \cup Stops : i \in 1 .. Len(input) /\ input'[i] = input[i]
         /\ Headers' = Headers \cup IF l.kind = "header" THEN {Len(input) + 1} ELSE {}
         /\ Stops' = Stops \cup IF l.kind \in {"header", "total"} THEN {Len(input) + 1} ELSE {}
<1>1. l \in Lines /\ input \in Seq(Lines)
  BY LineKinds DEF SplitTypeOK
<1>2. /\ Len(input) \in Nat /\ DOMAIN input = 1 .. Len(input)
      /\ input' \in Seq(Lines) /\ Len(input') = Len(input) + 1 /\ DOMAIN input' = 1 .. (Len(input) + 1)
      /\ input'[Len(input) + 1] = l /\ \A i \in 1 .. Len(input) : input'[i] = input[i]
  BY <1>1
<1>3. /\ \A i \in Headers \cup Stops : i \in 1 .. Len(input) /\ input'[i] = input[i]
      /\ Headers' = Headers \cup IF l.kind = "header" THEN {Len(input) + 1} ELSE {}
  BY <1>2 DEF Headers, Stops
<1>4. Stops' = Stops \cup IF l.kind \in {"header", "total"} THEN {Len(input) + 1} ELSE {}
  BY <1>2 DEF Stops
<1>5. QED
  BY <1>2, <1>3, <1>4

\* Of the headers the line is one more that is seen, when it is taken for one.
LEMMA SeenGrows ==
  ASSUME SplitTypeOK, reader = "fallback" <=> HadLong, NEW l \in NextLines, split' = split,
         input' = Append(input, l)
  PROVE  /\ Seen' = Seen \cup IF IsHeader(l) THEN {Len(input) + 1} ELSE {}
         /\ HadLong' <=> HadLong \/ l.kind = "long"
<1> DEFINE n == Len(input)
<1>1. l \in Lines /\ input \in Seq(Lines)
  BY LineKinds DEF SplitTypeOK
<1>2. /\ n \in Nat /\ DOMAIN input = 1 .. n /\ DOMAIN input' = 1 .. (n + 1)
      /\ input'[n + 1] = l /\ \A i \in 1 .. n : input'[i] = input[i]
  BY <1>1
<1> HIDE DEF n
<1>3. HadLong' <=> HadLong \/ l.kind = "long"
  BY <1>2 DEF HadLong
<1>4. ASSUME NEW i \in 1 .. n
      PROVE  i \in Seen' <=> i \in Seen
  <2>1. i \in Headers' <=> i \in Headers
    BY <1>2 DEF Headers
  <2>2. \A j \in 1 .. (i - 1) : input'[j] = input[j]
    BY <1>2
  <2>3. QED
    BY <2>1, <2>2 DEF Seen, Unseen
<1>5. n + 1 \in Seen' <=> IsHeader(l)
  <2>1. (\E j \in 1 .. ((n + 1) - 1) : input'[j].kind = "long") <=> HadLong
    BY <1>2 DEF HadLong
  <2>2. n + 1 \in Headers' <=> l.kind = "header"
    BY <1>2 DEF Headers
  <2>3. QED
    BY <2>1, <2>2 DEF Seen, Unseen, IsHeader
<1>6. Seen \subseteq 1 .. n /\ Seen' \subseteq 1 .. (n + 1)
  BY <1>2 DEF Seen, Headers
<1>7. ASSUME NEW i
      PROVE  i \in Seen' <=> i \in Seen \/ (IsHeader(l) /\ i = n + 1)
  <2>1. CASE i \in 1 .. n
    BY <1>2, <1>4, <2>1
  <2>2. CASE i = n + 1
    <3>1. n + 1 \notin Seen
      BY <1>2, <1>6
    <3>2. QED
      BY <1>5, <2>2, <3>1
  <2>3. CASE i \notin 1 .. (n + 1)
    <3>1. n + 1 \in 1 .. (n + 1) /\ 1 .. n \subseteq 1 .. (n + 1)
      BY <1>2
    <3>2. i # n + 1
      BY <2>3, <3>1
    <3>3. i \notin Seen /\ i \notin Seen'
      BY <1>6, <2>3, <3>1
    <3>4. QED
      BY <3>2, <3>3
  <2>4. QED
    <3>1. i \in 1 .. (n + 1) => i \in 1 .. n \/ i = n + 1
      BY <1>2
    <3>2. QED
      BY <2>1, <2>2, <2>3, <3>1
<1>8. Seen' = Seen \cup IF IsHeader(l) THEN {n + 1} ELSE {}
  BY <1>7
<1>9. QED
  BY <1>3, <1>8 DEF n

\* A flush that succeeds lists the record that is open, after all others.
LEMMA FlushLists ==
  ASSUME SplitTypeOK, OrderInv, FiledInv, Flushed(TRUE), split'.run = split.run
  PROVE  /\ FiledInv'
         /\ Len(catalog) \in Nat /\ DOMAIN catalog = 1 .. Len(catalog)
         /\ DOMAIN catalog' = IF IsOpen THEN 1 .. (Len(catalog) + 1) ELSE 1 .. Len(catalog)
         /\ \A k \in DOMAIN catalog : catalog'[k] = catalog[k]
         /\ IsOpen => LET e == catalog'[Len(catalog) + 1]
                      IN  e.at = open.at /\ e.addr = open.addr /\ e.bytes = open.bytes
<1>1. Len(catalog) \in Nat /\ DOMAIN catalog = 1 .. Len(catalog) /\ catalog \in Seq(Entries)
  BY DEF SplitTypeOK
<1>2. CASE open = NoRecord
  <2>1. UNCHANGED <<tree, catalog, symbols>>
    BY <1>2 DEF Flushed, NoFlush
  <2>2. FiledInv'
    BY <2>1 DEF FiledInv, EntriesAreFiled, FilesAreListed, SymbolsAreListed
  <2>3. QED
    BY <1>1, <1>2, <2>1, <2>2 DEF IsOpen
<1>3. CASE open # NoRecord
  <2>1. Flush(Len(Sinks))
    BY <1>3 DEF Flushed
  <2>2. FiledInv'
    BY <1>3, <2>1, FlushFiles DEF OrderInv, IsOpen
  <2>3. PICK f \in Nat \X Nat : catalog' = Append(catalog, Entry(open, f))
    BY <1>3, <2>1, FlushAll
  <2>4. Entry(open, f) \in Entries /\ Entry(open, f).at = open.at /\ Entry(open, f).addr = open.addr
        /\ Entry(open, f).bytes = open.bytes
    BY <1>3 DEF SplitTypeOK, OpenRecords, Entry, Entries
  <2>5. /\ DOMAIN catalog' = 1 .. (Len(catalog) + 1) /\ catalog'[Len(catalog) + 1] = Entry(open, f)
        /\ \A k \in DOMAIN catalog : catalog'[k] = catalog[k]
    BY <1>1, <2>3, <2>4
  <2>6. QED
    BY <1>1, <1>3, <2>2, <2>4, <2>5 DEF IsOpen
<1>4. QED
  BY <1>2, <1>3

LEMMA ListedGrows ==
  ASSUME SplitTypeOK, OrderInv, FiledInv, Flushed(TRUE), split'.run = split.run
  PROVE  Listed' = Listed \cup IF IsOpen THEN {open.at} ELSE {}
<1>1. CASE ~IsOpen
  <2>1. catalog' = catalog
    BY <1>1 DEF Flushed, NoFlush, IsOpen
  <2>2. QED
    BY <1>1, <2>1 DEF Listed
<1>2. CASE IsOpen
  <2> DEFINE n == Len(catalog)
  <2>1. /\ n \in Nat /\ DOMAIN catalog = 1 .. n /\ DOMAIN catalog' = 1 .. (n + 1)
        /\ \A k \in 1 .. n : catalog'[k] = catalog[k]
        /\ catalog'[n + 1].at = open.at
    BY <1>2, FlushLists
  <2> HIDE DEF n
  <2>2. QED
    BY <1>2, <2>1 DEF Listed
<1>3. QED
  BY <1>1, <1>2

LEMMA FlushedTypes ==
  ASSUME SplitTypeOK, NEW ok \in BOOLEAN, Flushed(ok)
  PROVE  /\ DOMAIN writer' = {"bucket", "index", "written", "open"}
         /\ {writer'.bucket, writer'.index} \subseteq Nat
         /\ \A g \in DOMAIN tree' : tree'[g] \in Seq(Records)
         /\ catalog' \in Seq(Entries)
         /\ symbols' \in Seq(Nat \X Known)
<1>1. Len(Sinks) = 4
  BY DEF Sinks
<1>2. CASE NoFlush
  BY <1>2 DEF NoFlush, SplitTypeOK
<1>3. CASE \E done \in 0 .. 4 : open # NoRecord /\ Flush(done)
  BY <1>3, FlushTypes
<1>4. QED
  BY <1>1, <1>2, <1>3 DEF Flushed

LEMMA ReadTypes ==
  ASSUME SplitTypeOK, NEW l \in NextLines, ReadLine(l)
  PROVE  SplitTypeOK'
<1>1. /\ DOMAIN split' = {"run", "ret", "eol"} /\ split'.run \in Nat
      /\ reader' \in {"scan", "fallback"} /\ summary' = summary
  BY DEF ReadLine, SplitTypeOK
<1>2. input' \in Seq(Lines)
  BY OneLineMore DEF ReadLine
<1>3. open' = NoRecord \/ open' \in OpenRecords
  <2>1. l.kind = "header" => Started(l.arg) \in OpenRecords
    BY LineKinds, StartedOpen
  <2>2. open # NoRecord => AppendLine(open, l, Delivered(l)) \in OpenRecords
    BY AppendOpen
  <2>3. QED
    BY <2>1, <2>2 DEF ReadLine, IsHeader
<1>4. /\ DOMAIN writer' = {"bucket", "index", "written", "open"}
      /\ {writer'.bucket, writer'.index} \subseteq Nat
      /\ \A g \in DOMAIN tree' : tree'[g] \in Seq(Records)
      /\ catalog' \in Seq(Entries) /\ symbols' \in Seq(Nat \X Known)
  <2>1. (\E ok \in BOOLEAN : Flushed(ok)) \/ NoFlush
    BY DEF ReadLine
  <2>2. CASE NoFlush
    BY <2>2 DEF NoFlush, SplitTypeOK
  <2>3. QED
    BY <2>1, <2>2, FlushedTypes
<1>5. QED
  BY <1>1, <1>2, <1>3, <1>4 DEF SplitTypeOK

\* A line that ends the record that is open, and may begin the next one.
LEMMA BoundaryKeeps ==
  ASSUME SplitInv, split.ret = "running", NEW l \in NextLines, split' = split, input' = Append(input, l),
         reader' = reader, Flushed(TRUE),
         \/ IsHeader(l) /\ open' = Started(l.arg)
         \/ ~IsHeader(l) /\ l.kind = "total" /\ open' = NoRecord
  PROVE  OrderInv' /\ CompleteInv' /\ FiledInv' /\ (reader' = "scan" => SizesInv')
<1> DEFINE n == Len(input)
           m == Len(catalog)
<1>1. SplitTypeOK /\ OrderInv /\ CompleteInv /\ FiledInv /\ (reader = "scan" => SizesInv)
  BY DEF SplitInv, Ongoing
<1>2. /\ n \in Nat /\ Len(input') = n + 1 /\ input'[n + 1] = l
      /\ \A i \in Headers \cup Stops : i \in 1 .. n /\ input'[i] = input[i]
      /\ Headers' = Headers \cup IF l.kind = "header" THEN {n + 1} ELSE {}
      /\ Stops' = Stops \cup {n + 1}
  BY <1>1, OneLineMore DEF IsHeader
<1>3. /\ FiledInv'
      /\ m \in Nat /\ DOMAIN catalog = 1 .. m
      /\ DOMAIN catalog' = IF IsOpen THEN 1 .. (m + 1) ELSE 1 .. m
      /\ \A k \in 1 .. m : catalog'[k] = catalog[k]
      /\ IsOpen => /\ catalog'[m + 1].at = open.at /\ catalog'[m + 1].addr = open.addr
                   /\ catalog'[m + 1].bytes = open.bytes
  BY <1>1, FlushLists
<1>4. Listed' = Listed \cup IF IsOpen THEN {open.at} ELSE {}
  BY <1>1, ListedGrows
<1>5. /\ IsOpen' <=> IsHeader(l)
      /\ IsHeader(l) => l.kind = "header" /\ open'.at = n + 1 /\ open'.addr = l.arg /\ open'.bytes = 1
  BY <1>1, LineKinds, StartedOpen DEF IsOpen, IsHeader
<1>6. /\ \A k \in 1 .. m : catalog[k].at \in Nat /\ catalog[k].bytes \in Nat
      /\ IsOpen => open.at \in Nat /\ open.bytes \in Nat
  <2>1. \A k \in 1 .. m : catalog[k] \in Entries
    BY <1>1, <1>3 DEF SplitTypeOK
  <2>2. IsOpen => open \in OpenRecords
    BY <1>1 DEF SplitTypeOK, IsOpen
  <2>3. QED
    BY <2>1, <2>2 DEF Entries, OpenRecords
<1> HIDE DEF n, m
<1>7. OrderInv'
  <2>1. IsOpen' => open'.at \in Headers' /\ open'.addr = input'[open'.at].arg
    BY <1>2, <1>5
  <2>2. ASSUME NEW k \in DOMAIN catalog'
        PROVE  /\ catalog'[k].at \in Headers' /\ catalog'[k].addr = input'[catalog'[k].at].arg
               /\ IsOpen' => catalog'[k].at < open'.at
    <3>1. CASE k \in 1 .. m
      BY <1>1, <1>2, <1>3, <1>5, <3>1 DEF OrderInv
    <3>2. CASE IsOpen /\ k = m + 1
      BY <1>1, <1>2, <1>3, <1>5, <3>2 DEF OrderInv
    <3>3. k \in 1 .. m \/ (IsOpen /\ k = m + 1)
      BY <1>3
    <3>4. QED
      BY <3>1, <3>2, <3>3
  <2>3. ASSUME NEW j \in DOMAIN catalog', NEW k \in DOMAIN catalog', j < k
        PROVE  catalog'[j].at < catalog'[k].at
    BY <1>1, <1>3, <2>3 DEF OrderInv
  <2>4. QED
    BY <2>1, <2>2, <2>3 DEF OrderInv
<1>8. CompleteInv'
  <2>1. /\ Seen' = Seen \cup IF IsHeader(l) THEN {n + 1} ELSE {}
        /\ HadLong' <=> HadLong \/ l.kind = "long"
    BY <1>1, SeenGrows DEF CompleteInv, n
  <2>2. l.kind # "long"
    BY DEF IsHeader
  <2>3. QED
    BY <1>1, <1>4, <1>5, <2>1, <2>2 DEF CompleteInv
<1>9. ASSUME reader' = "scan"
      PROVE  SizesInv'
  <2>1. SizesInv
    BY <1>1, <1>9
  <2>2. ASSUME NEW k \in DOMAIN catalog'
        PROVE  LET e == catalog'[k].at + catalog'[k].bytes
               IN  e \in Stops' /\ \A i \in Stops' : i > catalog'[k].at => i >= e
    <3>1. CASE k \in 1 .. m
      <4> DEFINE e == catalog[k].at + catalog[k].bytes
      <4>1. e \in Stops /\ \A i \in Stops : i > catalog[k].at => i >= e
        BY <1>3, <2>1, <3>1 DEF SizesInv
      <4>2. e <= n + 1
        BY <1>2, <4>1
      <4>3. QED
        BY <1>2, <1>3, <3>1, <4>1, <4>2
    <3>2. CASE IsOpen /\ k = m + 1
      <4>1. open.at + open.bytes = n + 1 /\ \A i \in Stops : i <= open.at
        BY <2>1, <3>2 DEF SizesInv, n
      <4>2. QED
        BY <1>2, <1>3, <1>6, <3>2, <4>1
    <3>3. k \in 1 .. m \/ (IsOpen /\ k = m + 1)
      BY <1>3
    <3>4. QED
      BY <3>1, <3>2, <3>3
  <2>3. IsOpen' => open'.at + open'.bytes = Len(input') + 1 /\ \A i \in Stops' : i <= open'.at
    BY <1>2, <1>5
  <2>4. QED
    BY <2>2, <2>3 DEF SizesInv
<1>10. QED
  BY <1>3, <1>7, <1>8, <1>9

\* Any other line goes to the record that is open, if there is one.
LEMMA LineKeeps ==
  ASSUME SplitInv, split.ret = "running", NEW l \in NextLines, split' = split, input' = Append(input, l),
         reader' = IF l.kind = "long" THEN "fallback" ELSE reader, NoFlush,
         ~IsHeader(l), l.kind # "total",
         open' = IF open = NoRecord THEN NoRecord ELSE AppendLine(open, l, Delivered(l))
  PROVE  OrderInv' /\ CompleteInv' /\ FiledInv' /\ (reader' = "scan" => SizesInv')
<1> DEFINE n == Len(input)
<1>1. SplitTypeOK /\ OrderInv /\ CompleteInv /\ FiledInv /\ (reader = "scan" => SizesInv)
  BY DEF SplitInv, Ongoing
<1>2. /\ n \in Nat /\ Len(input') = n + 1
      /\ \A i \in Headers \cup Stops : i \in 1 .. n /\ input'[i] = input[i]
      /\ Headers' = Headers \cup IF l.kind = "header" THEN {n + 1} ELSE {}
      /\ Stops' = Stops \cup IF l.kind \in {"header", "total"} THEN {n + 1} ELSE {}
  BY <1>1, OneLineMore
<1>3. UNCHANGED <<tree, catalog, symbols>> /\ Listed' = Listed
  BY DEF NoFlush, Listed
<1>4. /\ IsOpen' <=> IsOpen
      /\ IsOpen => open'.at = open.at /\ open'.addr = open.addr /\ open'.bytes = open.bytes + Delivered(l)
  BY <1>1, AppendOpen DEF IsOpen
<1> HIDE DEF n
<1>5. FiledInv'
  BY <1>1, <1>3 DEF FiledInv, EntriesAreFiled, FilesAreListed, SymbolsAreListed
<1>6. OrderInv'
  BY <1>1, <1>2, <1>3, <1>4 DEF OrderInv
<1>7. CompleteInv'
  <2>1. Seen' = Seen /\ (HadLong' <=> HadLong \/ l.kind = "long")
    BY <1>1, SeenGrows DEF CompleteInv
  <2>2. reader' = "fallback" <=> HadLong'
    BY <1>1, <2>1 DEF CompleteInv
  <2>3. QED
    BY <1>1, <1>3, <1>4, <2>1, <2>2 DEF CompleteInv
<1>8. ASSUME reader' = "scan"
      PROVE  SizesInv'
  <2>1. reader = "scan" /\ SizesInv /\ Delivered(l) = 1 /\ Stops' = Stops
    BY <1>1, <1>2, <1>8 DEF Delivered, IsHeader
  <2>2. IsOpen => open.at \in Nat /\ open.bytes \in Nat
    BY <1>1 DEF SplitTypeOK, OpenRecords, IsOpen
  <2>3. IsOpen' => open'.at + open'.bytes = Len(input') + 1 /\ \A i \in Stops' : i <= open'.at
    BY <1>2, <1>4, <2>1, <2>2 DEF SizesInv, n
  <2>4. \A k \in DOMAIN catalog' :
          LET e == catalog'[k].at + catalog'[k].bytes
          IN  e \in Stops' /\ \A i \in Stops' : i > catalog'[k].at => i >= e
    BY <1>3, <2>1 DEF SizesInv
  <2>5. QED
    BY <2>3, <2>4 DEF SizesInv
<1>9. QED
  BY <1>5, <1>6, <1>7, <1>8

LEMMA ReadKeeps ==
  ASSUME SplitInv, split.ret = "running", NEW l \in NextLines, ReadLine(l)
  PROVE  SplitInv'
<1>1. SplitTypeOK /\ SplitTypeOK'
  BY ReadTypes DEF SplitInv
<1>2. PICK ok \in BOOLEAN :
        /\ split' = IF ok THEN split ELSE [split EXCEPT !.ret = "err"]
        /\ IF IsHeader(l) \/ l.kind = "total"
             THEN /\ Flushed(ok)
                  /\ open' = IF IsHeader(l) THEN Started(l.arg) ELSE NoRecord
             ELSE /\ ok /\ NoFlush
                  /\ open' = IF open = NoRecord THEN NoRecord ELSE AppendLine(open, l, Delivered(l))
  BY DEF ReadLine
<1>3. CASE ok = FALSE
  <2>1. split'.ret = "err"
    BY <1>1, <1>2, <1>3 DEF SplitTypeOK
  <2>2. QED
    BY <1>1, <2>1 DEF SplitInv, Ongoing
<1>4. CASE ok = TRUE
  <2>1. split' = split /\ input' = Append(input, l) /\ reader' = IF l.kind = "long" THEN "fallback" ELSE reader
    BY <1>2, <1>4 DEF ReadLine
  <2>2. CASE IsHeader(l) \/ l.kind = "total"
    <3>1. Flushed(TRUE) /\ reader' = reader
      BY <1>2, <1>4, <2>1, <2>2 DEF IsHeader
    <3>2. OrderInv' /\ CompleteInv' /\ FiledInv' /\ (reader' = "scan" => SizesInv')
      BY <1>2, <2>1, <2>2, <3>1, BoundaryKeeps
    <3>3. QED
      BY <1>1, <2>1, <3>2 DEF SplitInv
  <2>3. CASE ~(IsHeader(l) \/ l.kind = "total")
    <3>1. OrderInv' /\ CompleteInv' /\ FiledInv' /\ (reader' = "scan" => SizesInv')
      BY <1>2, <2>1, <2>3, LineKeeps
    <3>2. QED
      BY <1>1, <2>1, <3>1 DEF SplitInv
  <2>4. QED
    BY <2>2, <2>3
<1>5. QED
  BY <1>3, <1>4

LEMMA EndKeeps ==
  ASSUME SplitInv, EndOfInput
  PROVE  SplitInv'
<1>1. /\ SplitTypeOK /\ OrderInv /\ CompleteInv /\ FiledInv /\ (reader = "scan" => SizesInv)
      /\ split.ret = "running" /\ UNCHANGED <<input, reader>> /\ open' = NoRecord
  BY DEF SplitInv, Ongoing, EndOfInput, Running
<1>2. PICK ok \in BOOLEAN, last \in 0 .. 2 :
        LET wrong == ~ok \/ catalog' = <<>>
            sums == Sums(split.run, catalog', symbols')
        IN  /\ Flushed(ok)
            /\ split' = [split EXCEPT !.ret = IF wrong \/ last < 2 THEN "err" ELSE "nil"]
            /\ summary' = [json |-> IF wrong \/ last < 1 THEN summary.json ELSE sums,
                           index |-> IF wrong \/ last < 2 THEN summary.index ELSE sums]
  BY DEF EndOfInput
<1>3. /\ DOMAIN split' = {"run", "ret", "eol"} /\ split'.run = split.run /\ split'.eol = split.eol
      /\ split'.ret \in {"err", "nil"}
      /\ split'.ret = "nil" => /\ ok /\ summary'.json = Sums(split.run, catalog', symbols')
                               /\ summary'.index = summary'.json
      /\ DOMAIN summary' = {"json", "index"}
  BY <1>1, <1>2 DEF SplitTypeOK
<1>4. SplitTypeOK'
  <2>1. /\ DOMAIN writer' = {"bucket", "index", "written", "open"}
        /\ {writer'.bucket, writer'.index} \subseteq Nat
        /\ \A g \in DOMAIN tree' : tree'[g] \in Seq(Records)
        /\ catalog' \in Seq(Entries) /\ symbols' \in Seq(Nat \X Known)
    BY <1>1, <1>2, FlushedTypes
  <2>2. QED
    BY <1>1, <1>3, <2>1 DEF SplitTypeOK
<1>5. CASE split'.ret = "err"
  BY <1>4, <1>5 DEF SplitInv, Ongoing
<1>6. CASE split'.ret = "nil"
  <2> DEFINE n == Len(input)
             m == Len(catalog)
  <2>1. Flushed(TRUE)
    BY <1>2, <1>3, <1>6
  <2>2. /\ FiledInv'
        /\ m \in Nat /\ DOMAIN catalog = 1 .. m
        /\ DOMAIN catalog' = IF IsOpen THEN 1 .. (m + 1) ELSE 1 .. m
        /\ \A k \in 1 .. m : catalog'[k] = catalog[k]
        /\ IsOpen => /\ catalog'[m + 1].at = open.at /\ catalog'[m + 1].addr = open.addr
                     /\ catalog'[m + 1].bytes = open.bytes
    BY <1>1, <1>3, <2>1, FlushLists
  <2>3. Listed' = Listed \cup IF IsOpen THEN {open.at} ELSE {}
    BY <1>1, <1>3, <2>1, ListedGrows
  <2>4. ~IsOpen' /\ Headers' = Headers /\ Stops' = Stops /\ Len(input') = n
    BY <1>1 DEF IsOpen, Headers, Stops
  <2>5. n \in Nat /\ \A i \in Stops : i \in 1 .. n
    BY <1>1 DEF SplitTypeOK, Stops
  <2> HIDE DEF n, m
  <2>6. OrderInv'
    <3>1. ASSUME NEW k \in DOMAIN catalog'
          PROVE  catalog'[k].at \in Headers /\ catalog'[k].addr = input[catalog'[k].at].arg
      <4>1. CASE k \in 1 .. m
        BY <1>1, <2>2, <4>1 DEF OrderInv
      <4>2. CASE IsOpen /\ k = m + 1
        BY <1>1, <2>2, <4>2 DEF OrderInv
      <4>3. QED
        BY <2>2, <4>1, <4>2
    <3>2. ASSUME NEW j \in DOMAIN catalog', NEW k \in DOMAIN catalog', j < k
          PROVE  catalog'[j].at < catalog'[k].at
      BY <1>1, <2>2, <3>2 DEF OrderInv
    <3>3. QED
      BY <1>1, <2>4, <3>1, <3>2 DEF OrderInv
  <2>7. CompleteInv'
    <3>1. Seen' = Seen /\ (HadLong' <=> HadLong)
      BY <1>1, <1>3 DEF Seen, Unseen, Headers, HadLong
    <3>2. QED
      BY <1>1, <2>3, <2>4, <3>1 DEF CompleteInv
  <2>8. ASSUME reader' = "scan"
        PROVE  SizesInv'
    <3>1. SizesInv
      BY <1>1, <2>8
    <3>2. ASSUME NEW k \in DOMAIN catalog'
          PROVE  LET e == catalog'[k].at + catalog'[k].bytes
                 IN  /\ e \in Stops \/ e = n + 1
                     /\ \A i \in Stops : i > catalog'[k].at => i >= e
      <4>1. CASE k \in 1 .. m
        BY <1>1, <2>2, <3>1, <4>1 DEF SizesInv
      <4>2. CASE IsOpen /\ k = m + 1
        <5>1. open.at + open.bytes = n + 1 /\ \A i \in Stops : i <= open.at
          BY <3>1, <4>2 DEF SizesInv, n
        <5>2. open.at \in Nat
          BY <1>1, <4>2 DEF SplitTypeOK, OpenRecords, IsOpen
        <5>3. QED
          BY <2>2, <2>5, <4>2, <5>1, <5>2
      <4>3. k \in 1 .. m \/ (IsOpen /\ k = m + 1)
        BY <2>2
      <4>4. QED
        BY <4>1, <4>2, <4>3
    <3>3. QED
      BY <1>6, <2>4, <3>2 DEF SizesInv
  <2>9. summary'.json = Sums(split'.run, catalog', symbols') /\ summary'.index = summary'.json
    BY <1>3, <1>6
  <2>10. QED
    BY <1>4, <1>6, <2>2, <2>4, <2>6, <2>7, <2>8, <2>9 DEF SplitInv
<1>7. QED
  BY <1>3, <1>5, <1>6

\* A split starts over, one is killed.
LEMMA StartKeeps ==
  ASSUME SplitInv, StartSplit
  PROVE  SplitInv'
<1>1. PICK n \in 0 .. Len(Sinks), eol \in {"lf", "crlf"} :
        /\ split' = [run |-> split.run + 1, eol |-> eol,
                     ret |-> IF n = Len(Sinks) THEN "running" ELSE "err"]
        /\ Cleared(n)
  BY DEF StartSplit
<1>2. /\ input' = <<>> /\ reader' = "scan" /\ open' = NoRecord /\ writer' = NoFile /\ summary' = summary
      /\ SplitTypeOK /\ Len(Sinks) = 4
  BY DEF StartSplit, SplitInv, Sinks
<1>3. SplitTypeOK'
  <2>1. DOMAIN split' = {"run", "ret", "eol"} /\ split'.run \in Nat
    BY <1>1, <1>2 DEF SplitTypeOK
  <2>2. input' \in Seq(Lines) /\ DOMAIN summary' = {"json", "index"}
    BY <1>2 DEF SplitTypeOK
  <2>3. DOMAIN writer' = {"bucket", "index", "written", "open"} /\ {writer'.bucket, writer'.index} \subseteq Nat
    BY <1>2 DEF NoFile
  <2>4. catalog' \in Seq(Entries) /\ symbols' \in Seq(Nat \X Known)
    BY <1>1, <1>2 DEF Cleared, SplitTypeOK
  <2>5. \A f \in DOMAIN tree' : tree'[f] \in Seq(Records)
    BY <1>1, <1>2 DEF Cleared, SplitTypeOK
  <2>6. QED
    BY <1>2, <2>1, <2>2, <2>3, <2>4, <2>5 DEF SplitTypeOK
<1>4. CASE n # Len(Sinks)
  BY <1>1, <1>3, <1>4 DEF SplitInv, Ongoing
<1>5. CASE n = Len(Sinks)
  <2>1. tree' = <<>> /\ catalog' = <<>> /\ symbols' = <<>> /\ split'.ret = "running" /\ ~IsOpen'
    BY <1>1, <1>2, <1>5 DEF Cleared, IsOpen
  <2>2. DOMAIN input' = {} /\ DOMAIN catalog' = {} /\ DOMAIN tree' = {} /\ Len(symbols') = Len(catalog')
    BY <1>2, <2>1
  <2>3. OrderInv' /\ CompleteInv' /\ SizesInv'
    BY <1>2, <2>1, <2>2 DEF OrderInv, CompleteInv, SizesInv, Seen, HadLong, Headers,
       Stops, Listed
  <2>4. FiledInv'
    BY <2>2 DEF FiledInv, EntriesAreFiled, FilesAreListed, SymbolsAreListed
  <2>5. QED
    BY <1>3, <2>1, <2>3, <2>4 DEF SplitInv
<1>6. QED
  BY <1>4, <1>5

LEMMA KillKeeps ==
  ASSUME SplitInv, KillSplit
  PROVE  SplitInv'
<1>1. SplitTypeOK
  BY DEF SplitInv
<1>2. catalog' \in Seq(Entries) /\ symbols' \in Seq(Nat \X Known)
  <2>1. \A S : \A s \in Seq(S), n \in Nat : n <= Len(s) => SubSeq(s, 1, n) \in Seq(S)
    OBVIOUS
  <2>2. QED
    BY <1>1, <2>1 DEF KillSplit, SplitTypeOK
<1>3. split'.ret = "killed" /\ DOMAIN split' = DOMAIN split /\ split'.run = split.run
  BY <1>1 DEF KillSplit, SplitTypeOK
<1>4. SplitTypeOK'
  BY <1>1, <1>2, <1>3 DEF KillSplit, SplitTypeOK
<1>5. QED
  BY <1>3, <1>4 DEF SplitInv, Ongoing

\* The first state, and every step.
LEMMA SplitInit ==
  ASSUME CsplitInit
  PROVE  SplitInv
<1>1. split.ret = "none" /\ split.run = 0 /\ DOMAIN split = {"run", "ret", "eol"}
  BY DEF CsplitInit
<1> DEFINE rec == [run |-> 0, at |-> 2, kept |-> 2]
           entry == [at |-> 2, addr |-> 0, name |-> "", bytes |-> 2, file |-> <<0, 0>>]
<1>2. /\ catalog \in {<<>>, <<entry>>} /\ symbols \in {<<>>, <<<<0, "">>>>}
      /\ tree = <<>> \/ tree = [f \in {<<0, 0>>} |-> <<rec>>]
  BY DEF CsplitInit
<1>3. entry \in Entries /\ <<0, "">> \in Nat \X Known /\ rec \in Records
  BY DEF Entries, Known, Records
<1> HIDE DEF rec, entry
<1>4. \A S : <<>> \in Seq(S) /\ \A x \in S : <<x>> \in Seq(S)
  OBVIOUS
<1>5. catalog \in Seq(Entries) /\ symbols \in Seq(Nat \X Known)
  <2>1. catalog \in Seq(Entries)
    BY <1>2, <1>3, <1>4
  <2>2. symbols \in Seq(Nat \X Known)
    <3> DEFINE S == Nat \X Known
               x == <<0, "">>
    <3>1. x \in S /\ symbols \in {<<>>, <<x>>}
      BY <1>2, <1>3
    <3> HIDE DEF S, x
    <3>2. symbols \in Seq(S)
      BY <1>4, <3>1
    <3>3. QED
      BY <3>2 DEF S
  <2>3. QED
    BY <2>1, <2>2
<1>6. \A f \in DOMAIN tree : tree[f] \in Seq(Records)
  <2>1. CASE tree = <<>>
    <3>1. DOMAIN tree = {}
      BY <2>1
    <3>2. QED
      BY <3>1
  <2>2. CASE tree = [f \in {<<0, 0>>} |-> <<rec>>]
    <3>1. \A f \in DOMAIN tree : tree[f] = <<rec>>
      BY <2>2
    <3>2. QED
      BY <1>3, <1>4, <3>1
  <2>3. QED
    BY <1>2, <2>1, <2>2
<1>7. SplitTypeOK
  <2>1. input = <<>> /\ reader = "scan" /\ open = NoRecord /\ writer = NoFile
    BY DEF CsplitInit
  <2>2. DOMAIN writer = {"bucket", "index", "written", "open"} /\ {writer.bucket, writer.index} \subseteq Nat
    BY <2>1 DEF NoFile
  <2>3. DOMAIN summary = {"json", "index"}
    BY DEF CsplitInit
  <2>4. QED
    BY <1>1, <1>4, <1>5, <1>6, <2>1, <2>2, <2>3 DEF SplitTypeOK
<1>8. QED
  BY <1>1, <1>7 DEF SplitInv, Ongoing

LEMMA SplitKeeps ==
  ASSUME SplitInv, [CsplitNext]_csplitVars
  PROVE  SplitInv'
<1>1. CASE StartSplit
  BY <1>1, StartKeeps
<1>2. CASE NextLine
  BY <1>2, ReadKeeps DEF NextLine, Running
<1>3. CASE EndOfInput
  BY <1>3, EndKeeps
<1>4. CASE KillSplit
  BY <1>4, KillKeeps
<1>5. CASE UNCHANGED csplitVars
  BY <1>5 DEF csplitVars, SplitInv, SplitTypeOK, Ongoing, OrderInv, CompleteInv, FiledInv,
     SizesInv, EntriesAreFiled, FilesAreListed, SymbolsAreListed, IsOpen, Seen, Unseen, HadLong,
     Headers, Stops, Listed
<1>6. QED
  BY <1>1, <1>2, <1>3, <1>4, <1>5 DEF CsplitNext

\* What the invariant says of a split that has succeeded.
LEMMA SplitIsWhole ==
  ASSUME SplitInv
  PROVE  EveryFunctionIsSplit /\ CatalogIsTree
<1> SUFFICES ASSUME split.ret = "nil"
             PROVE  EveryFunctionIsSplit /\ CatalogIsTree
  BY DEF EveryFunctionIsSplit, CatalogIsTree
<1>1. /\ OrderInv /\ CompleteInv /\ FiledInv /\ (reader = "scan" => SizesInv) /\ ~IsOpen
      /\ summary.json = Sums(split.run, catalog, symbols) /\ summary.index = summary.json
  BY DEF SplitInv, Ongoing
<1>2. EveryFunctionIsSplit
  BY <1>1 DEF OrderInv, CompleteInv, EveryFunctionIsSplit, Seen
<1>3. ASSUME reader = "scan"
      PROVE  SizesReachTheEnd
  <2> SUFFICES ASSUME NEW k \in DOMAIN catalog
               PROVE  LET e == catalog[k].at + catalog[k].bytes
                      IN  e \in Ends /\ \A i \in Ends : i > catalog[k].at => i >= e
    BY DEF SizesReachTheEnd
  <2> DEFINE e == catalog[k].at + catalog[k].bytes
             n == Len(input)
  <2>1. (e \in Stops \/ e = n + 1) /\ \A i \in Stops : i > catalog[k].at => i >= e
    BY <1>1, <1>3 DEF SizesInv
  <2>2. Ends = Stops \cup {n + 1} /\ n \in Nat /\ \A i \in Stops : i \in 1 .. n
    BY DEF Ends, Stops, SplitInv, SplitTypeOK
  <2>3. QED
    BY <2>1, <2>2
<1>4. QED
  BY <1>1, <1>2, <1>3 DEF CatalogIsTree, FiledInv

-----------------------------------------------------------------------------
(* The specification                                                        *)

\* The three invariants are inductive: a step of the runs leaves the split
\* alone and the other way round.
THEOREM RecipesInvariant == Spec => [](RecipeInv /\ WalkInv /\ SplitInv)
<1>1. Init => RecipeInv /\ WalkInv /\ SplitInv
  BY InitKeeps, WalkInit, SplitInit DEF Init
<1>2. RecipeInv /\ WalkInv /\ SplitInv /\ [Next]_vars => (RecipeInv /\ WalkInv /\ SplitInv)'
  <2> SUFFICES ASSUME RecipeInv, WalkInv, SplitInv, [Next]_vars
               PROVE  RecipeInv' /\ WalkInv' /\ SplitInv'
    OBVIOUS
  <2>1. RunNext \/ UNCHANGED runVars
    BY DEF Next, vars
  <2>2. ASSUME UNCHANGED runVars
        PROVE  RecipeInv' /\ WalkInv'
    <3>1. UNCHANGED <<recipe, opt, run, pc, ret, status, writing, disk, indexed, cancelled,
                     ghidraVersion, script, walk>>
      BY <2>2 DEF runVars, recipeVars, nsisVars
    <3>2. RecipeTypeOK' /\ RunningInv' /\ RippedInv'
      BY <3>1 DEF RecipeInv, RecipeTypeOK, RunningInv, NoStepLeftRunning, RippedInv,
         RippedIsTrue, Has
    <3>3. StampInv' /\ AssetsInv'
      BY <3>1 DEF RecipeInv, StampInv, StampIsTrue, StampMatches, AssetsInv, NoStaleAssets
    <3>4. DecompiledInv' /\ IndexInv'
      BY <3>1 DEF RecipeInv, DecompiledInv, NilMeansDecompiled, LeftSource, StringsPhase, Files,
         IndexInv, IndexIsCurrent, Has
    <3>5. WalkInv'
      BY <3>1 DEF WalkInv, WalkTypeOK, SuccessIsWhole, FileRecords, Placed
    <3>6. QED
      BY <3>2, <3>3, <3>4, <3>5 DEF RecipeInv
  <2>3. RecipeInv' /\ WalkInv'
    BY <2>1, <2>2, RunKeeps
  <2>4. [CsplitNext]_csplitVars
    BY DEF Next, vars
  <2>5. SplitInv'
    BY <2>4, SplitKeeps
  <2>6. QED
    BY <2>3, <2>5
<1>3. QED
  BY <1>1, <1>2, PTL DEF Spec

\* A marker on disk is true, whatever run was killed, stopped or failed (stageDone,
\* prepareNativeAOT).
THEOREM RecipesMarkersAreTrue == Spec => []MarkersAreTrue
<1>1. RecipeInv => MarkersAreTrue
  BY DEF RecipeInv, RippedInv, StampInv, MarkersAreTrue
<1>2. QED
  BY <1>1, RecipesInvariant, PTL

\* When the asset step of ue5 says Success, the assets are of this run, but for
\* files that could not be removed.
THEOREM RecipesNoStaleAssets == Spec => []NoStaleAssets
<1>1. RecipeInv => NoStaleAssets
  BY DEF RecipeInv, AssetsInv
<1>2. QED
  BY <1>1, RecipesInvariant, PTL

\* A recipe that returns leaves no step at Running, unless it was stopped.
THEOREM RecipesNoStepLeftRunning == Spec => []NoStepLeftRunning
<1>1. RecipeInv => NoStepLeftRunning
  BY DEF RecipeInv, RunningInv
<1>2. QED
  BY <1>1, RecipesInvariant, PTL

\* A recipe that returns nil has done its required step and left a file of source;
\* the exceptions are those of NilMeansDecompiled.
THEOREM RecipesNilMeansDecompiled == Spec => []NilMeansDecompiled
<1>1. RecipeInv => NilMeansDecompiled
  BY DEF RecipeInv, DecompiledInv
<1>2. QED
  BY <1>1, RecipesInvariant, PTL

\* index.json describes the source that the run leaves.
THEOREM RecipesIndexIsCurrent == Spec => []IndexIsCurrent
<1>1. RecipeInv => IndexIsCurrent
  BY DEF RecipeInv, IndexInv
<1>2. QED
  BY <1>1, RecipesInvariant, PTL

\* When the extraction of an installer says Success, every file record that has a
\* place in the tree was written to it.
THEOREM RecipesSuccessIsWhole == Spec => []SuccessIsWhole
<1>1. WalkInv => SuccessIsWhole
  BY DEF WalkInv
<1>2. QED
  BY <1>1, RecipesInvariant, PTL

\* A split that succeeds has an entry for every function that is seen, in its order:
\* for all but those behind an overlong line of an export with CRLF.
THEOREM RecipesEveryFunctionIsSplit == Spec => []EveryFunctionIsSplit
<1>1. SplitInv => EveryFunctionIsSplit
  BY SplitIsWhole
<1>2. QED
  BY <1>1, RecipesInvariant, PTL

\* The catalogs of a split that succeeds list what is in the files, all of it and
\* nothing else.
THEOREM RecipesCatalogIsTree == Spec => []CatalogIsTree
<1>1. SplitInv => CatalogIsTree
  BY SplitIsWhole
<1>2. QED
  BY <1>1, RecipesInvariant, PTL
==============================================================================
