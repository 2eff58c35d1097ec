------------------------------- MODULE Csplit -------------------------------
(***************************************************************************)
(* internal/recipe/csplit.go: the combined .c that Ghidra exports is read  *)
(* line by line and split into one record per function.  A record goes to  *)
(* a file of its address bucket and to the catalogs beside it; at the end  *)
(* symbols.json and functions_index.json sum the catalogs up.  A split may *)
(* fail at every write, be killed, and be repeated over what it left.      *)
(***************************************************************************)
EXTENDS Naturals, FiniteSets, SequencesExt

CONSTANTS
  MaxLines,      \* lines of an export
  MaxSplits,     \* splits, beside the one that left what the first state shows
  Addresses,     \* addresses of functions; two of them may share a bucket
  Names,         \* what extractFuncName finds in a signature, "" for nothing
  SoftCap,       \* splitSoftCap, in lines
  RecordCap      \* maxRecordBytes, in lines

ASSUME CsplitAssumption ==
  {MaxLines, MaxSplits, SoftCap, RecordCap} \subseteq Nat \ {0} /\ Addresses \subseteq Nat

VARIABLES
  split,     \* [run, ret, eol]: the number of the split, its answer, the line ends of its input
  input,     \* the lines of the export that were read so far
  reader,    \* "scan": the scanner; "fallback": streamLinesReader after an overlong line
  open,      \* the record being read
  writer,    \* the file that bucketWriter has open
  tree,      \* functions/: file -> records
  catalog,   \* functions.ndjson
  symbols,   \* symbols.ndjson
  callers,   \* indexes/callers.csv
  summary    \* symbols.json and functions_index.json: the last split that wrote each

csplitVars == <<split, input, reader, open, writer, tree, catalog, symbols, callers, summary>>

-----------------------------------------------------------------------------
(* Lines.  Every line has size 1, an overlong one LongLine.                *)
Line(k, x)  == [kind |-> k, arg |-> x]
Banner      == Line("banner", "")
Total       == Line("total", "")
Long        == Line("long", "")
Header(a)   == Line("header", a)
Signature   == [kind : {"sig"}, arg : Names]
Body        == {Line("text", ""), Line("text", "callee"), Long}
LongLine    == 3

(* What MorgueExport prints next: the banner, for each function its        *)
(* address, its signature and its code, and the summary; a Ghidra that was *)
(* stopped leaves the file at any line.                                    *)
NextLines ==
  CASE input = <<>> -> {Banner}
    [] Last(input).kind = "header" -> Signature
    [] Last(input).kind = "total" -> {}
    [] Last(input).kind = "banner" -> {Header(a) : a \in Addresses} \cup {Total}
    [] OTHER -> {Header(a) : a \in Addresses} \cup Body \cup {Total}

(* bucketFor: the lowest twelve bits go, the next twelve are the bucket.   *)
bucketFor(a) == a % 2

(* A name that is Ghidra's own is anonymous; without a name the record     *)
(* gets FUN_<address>.                                                     *)
Anonymous(name) == name \in {"", "FUN_"}

(* The classes that cppClassOwner finds in the names of the records.       *)
cppClassOwner(name) == IF name = "C::m" THEN {"C"} ELSE {}

(* A record: the line of its header, what was read of it, what is kept of  *)
(* it in memory, whether its signature is still to come.                   *)
NoRecord == [at |-> 0]
Started(a) ==
  [at |-> Len(input) + 1, addr |-> a, name |-> "", sigPending |-> TRUE,
   bytes |-> 1, kept |-> 1, capped |-> FALSE, calls |-> {}]

(* extractRefs looks for calls in the text that is kept.                   *)
Refs(r, l) == IF l.kind = "text" /\ l.arg # "" /\ r.kept < RecordCap THEN {l.arg} ELSE {}

(* appendLine.  The catalog's size goes on counting when the text kept in  *)
(* memory has reached its cap.                                             *)
Mut_StopsCounting(r, l, size) ==
  IF r.capped THEN r
  ELSE [r EXCEPT
    !.bytes = @ + size,
    !.name = IF r.sigPending /\ l.kind = "sig" THEN l.arg ELSE @,
    !.sigPending = FALSE,
    !.capped = r.kept >= RecordCap,
    !.kept = @ + IF r.kept >= RecordCap THEN 1 ELSE size,
    !.calls = @ \cup Refs(r, l)]
AppendLine(r, l, size) ==
  [r EXCEPT
    !.bytes = @ + size,
    !.name = IF r.sigPending /\ l.kind = "sig" THEN l.arg ELSE @,
    !.sigPending = FALSE,
    !.capped = r.kept >= RecordCap,
    !.kept = @ + IF r.capped THEN 0 ELSE IF r.kept >= RecordCap THEN 1 ELSE size,
    !.calls = @ \cup Refs(r, l)]

-----------------------------------------------------------------------------
(* bucketWriter.  A file is its bucket and index; a change of bucket goes  *)
(* back to index 0, the cap is looked at before a record is written.       *)
NoFile == [bucket |-> 0, index |-> 0, written |-> 0, open |-> FALSE]
FileOf(w) == <<w.bucket, w.index>>
Content(f) == IF f \in DOMAIN tree THEN tree[f] ELSE <<>>
SizeOf(recs) == FoldSeq(LAMBDA r, n : n + r.kept + 1, 0, recs)

(* write opens a file when the bucket changes or the open file has reached *)
(* the cap, and counts what openFile finds in it.                          *)
Opens(a) == ~writer.open \/ writer.bucket # bucketFor(a) \/ writer.written >= SoftCap
FileFor(a) ==
  LET b == bucketFor(a)
      i == IF writer.open /\ writer.bucket = b THEN writer.index + 1 ELSE 0
  IN  IF Opens(a)
        THEN [bucket |-> b, index |-> i, written |-> SizeOf(Content(<<b, i>>)), open |-> TRUE]
        ELSE writer

(* openFile appends to a file that is there.                               *)
Mut_Truncates(f) == <<>>
OldContent(f) == Content(f)

Entry(r, f) == [at |-> r.at, addr |-> r.addr, name |-> r.name, bytes |-> r.bytes, file |-> f]

(* The writes of flush, in their order: the split file, functions.ndjson,  *)
(* symbols.ndjson, the indexes; those after the first that fails are not   *)
(* done.                                                                   *)
Sinks == <<"file", "catalog", "symbols", "indexes">>
Flush(done) ==
  LET w == FileFor(open.addr)
      rec == [run |-> split.run, at |-> open.at, kept |-> open.kept]
  IN  /\ IF done >= 1
           THEN /\ tree' = [f \in DOMAIN tree \cup {FileOf(w)} |->
                              IF f # FileOf(w) THEN tree[f]
                              ELSE Append(IF Opens(open.addr) THEN OldContent(f) ELSE Content(f), rec)]
                /\ writer' = [w EXCEPT !.written = @ + open.kept + 1]
           ELSE UNCHANGED <<tree, writer>>
      /\ catalog' = IF done >= 2 THEN Append(catalog, Entry(open, FileOf(w))) ELSE catalog
      /\ symbols' = IF done >= 3 THEN Append(symbols, <<open.addr, open.name>>) ELSE symbols
      /\ callers' = IF done >= 4 THEN callers \cup ({open.at} \X open.calls) ELSE callers

NoFlush == UNCHANGED <<tree, writer, catalog, symbols, callers>>

(* The record that is open is flushed, if there is one; ok says whether    *)
(* every write succeeded.                                                  *)
Flushed(ok) ==
  \/ ok /\ open = NoRecord /\ NoFlush
  \/ ok /\ open # NoRecord /\ Flush(Len(Sinks))
  \/ ~ok /\ open # NoRecord /\ \E done \in 0..(Len(Sinks) - 1) : Flush(done)

-----------------------------------------------------------------------------
Running == split.ret = "running"

(* splitDecompiledC: functions/ is cleared and the catalogs are truncated. *)
(* One of these may fail, which leaves the later ones as they were.        *)
Mut_TreeKept(n) ==
  /\ UNCHANGED tree
  /\ catalog' = IF n >= 2 THEN <<>> ELSE catalog
  /\ symbols' = IF n >= 3 THEN <<>> ELSE symbols
  /\ callers' = IF n >= 4 THEN {} ELSE callers
Cleared(n) ==
  /\ tree' = IF n >= 1 THEN <<>> ELSE tree
  /\ catalog' = IF n >= 2 THEN <<>> ELSE catalog
  /\ symbols' = IF n >= 3 THEN <<>> ELSE symbols
  /\ callers' = IF n >= 4 THEN {} ELSE callers

(* The exporter's println ends lines the way of its platform.              *)
StartSplit ==
  /\ ~Running /\ split.run < MaxSplits
  /\ \E eol \in {"lf", "crlf"}, n \in 0..Len(Sinks) :
       /\ split' = [run |-> split.run + 1, eol |-> eol,
                    ret |-> IF n = Len(Sinks) THEN "running" ELSE "err"]
       /\ Cleared(n)
  /\ input' = <<>> /\ reader' = "scan" /\ open' = NoRecord /\ writer' = NoFile
  /\ UNCHANGED summary

(* onLine is called with a line: reFuncHeader wants the address at the end *)
(* of the line, where the fallback leaves the CR of a CRLF.                *)
Mut_ScannerOnly(l) == l.kind = "header" /\ reader = "scan"
IsHeader(l) == l.kind = "header" /\ ~(reader = "fallback" /\ split.eol = "crlf")

(* streamLines.  The scanner gives up on an overlong line and what it had  *)
(* buffered of it is gone; the reader that takes over delivers the rest of *)
(* the line, and whole lines from then on.                                 *)
Delivered(l) == IF l.kind = "long" /\ reader = "scan" THEN 1
                ELSE IF l.kind = "long" THEN LongLine ELSE 1

ReadLine(l) ==
  /\ input' = Append(input, l)
  /\ reader' = IF l.kind = "long" THEN "fallback" ELSE reader
  /\ UNCHANGED <<summary>>
  /\ \E ok \in BOOLEAN :
       /\ split' = IF ok THEN split ELSE [split EXCEPT !.ret = "err"]
       /\ IF IsHeader(l) \/ l.kind = "total"
            THEN /\ Flushed(ok)
                 /\ open' = IF IsHeader(l) THEN Started(l.arg) ELSE NoRecord
            ELSE /\ ok /\ NoFlush
                 /\ open' = IF open = NoRecord THEN NoRecord ELSE AppendLine(open, l, Delivered(l))

(* The end of the input: the last flush, the guard against an export in    *)
(* which no header was recognised, symbols.json, functions_index.json.     *)
Sums(run, c, s) ==
  [run |-> run, count |-> Len(c), bytes |-> FoldSeq(LAMBDA e, n : n + e.bytes, 0, c),
   named |-> Cardinality({i \in DOMAIN s : ~Anonymous(s[i][2])}),
   classes |-> UNION {cppClassOwner(s[i][2]) : i \in DOMAIN s}]

EndOfInput ==
  /\ Running /\ input # <<>>
  /\ \E ok \in BOOLEAN, last \in 0..2 :
       /\ Flushed(ok)
       /\ LET wrong == ~ok \/ catalog' = <<>>
              sums == Sums(split.run, catalog', symbols')
          IN  /\ split' = [split EXCEPT !.ret = IF wrong \/ last < 2 THEN "err" ELSE "nil"]
              /\ summary' = [json |-> IF wrong \/ last < 1 THEN summary.json ELSE sums,
                             index |-> IF wrong \/ last < 2 THEN summary.index ELSE sums]
              /\ wrong => last = 0
  /\ open' = NoRecord
  /\ UNCHANGED <<input, reader>>

(* The process dies: the catalogs keep what their buffers had passed on.   *)
KillSplit ==
  /\ Running
  /\ split' = [split EXCEPT !.ret = "killed"]
  /\ \E n \in 0..Len(catalog) : catalog' = SubSeq(catalog, 1, n)
  /\ \E n \in 0..Len(symbols) : symbols' = SubSeq(symbols, 1, n)
  /\ open' = NoRecord
  /\ UNCHANGED <<input, reader, writer, tree, callers, summary>>

NextLine == Running /\ Len(input) < MaxLines /\ \E l \in NextLines : ReadLine(l)

CsplitInit ==
  /\ split = [run |-> 0, ret |-> "none", eol |-> "lf"]
  /\ input = <<>> /\ reader = "scan" /\ open = NoRecord /\ writer = NoFile
  /\ callers = {}
  /\ \E old \in SUBSET {0} :     \* a split of before left nothing, or one function
       LET rec == [run |-> 0, at |-> 2, kept |-> 2]
           entry == [at |-> 2, addr |-> 0, name |-> "", bytes |-> 2, file |-> <<0, 0>>]
       IN  /\ tree = IF old = {} THEN <<>> ELSE [f \in {<<0, 0>>} |-> <<rec>>]
           /\ catalog = IF old = {} THEN <<>> ELSE <<entry>>
           /\ symbols = IF old = {} THEN <<>> ELSE <<<<0, "">>>>
  /\ summary = [json |-> Sums(0, catalog, symbols), index |-> Sums(0, catalog, symbols)]

CsplitNext == StartSplit \/ NextLine \/ EndOfInput \/ KillSplit

-----------------------------------------------------------------------------
(* What the input says: the lines that begin a function, those that end    *)
(* one, and the lines that a catalog entry accounts for by its size.       *)
Headers == {i \in DOMAIN input : input[i].kind = "header"}
Ends    == {i \in DOMAIN input : input[i].kind \in {"header", "total"}} \cup {Len(input) + 1}
Listed  == {catalog[k].at : k \in DOMAIN catalog}

(* The functions behind an overlong line of an export with CRLF: there the *)
(* address is not at the end of the header line.                           *)
Unseen == {i \in Headers : split.eol = "crlf" /\ \E j \in 1 .. (i - 1) : input[j].kind = "long"}

(* A split that succeeds has one entry for every function of the export,   *)
(* in its order, also after an overlong line ("never aborts the pass",     *)
(* csplit.go:514), of which it loses the middle.  With CRLF, which Ghidra  *)
(* writes on Windows, it loses the functions that are Unseen, and no other.*)
EveryFunctionIsSplit ==
  split.ret = "nil" =>
    /\ Listed = Headers \ Unseen
    /\ \A k \in DOMAIN catalog : catalog[k].addr = input[catalog[k].at].arg
    /\ \A j, k \in DOMAIN catalog : j < k => catalog[j].at < catalog[k].at

(* The record of a catalog entry is in the file that the entry names.      *)
EntriesAreFiled ==
  \A k \in DOMAIN catalog :
    LET e == catalog[k]
    IN  /\ e.file \in DOMAIN tree
        /\ \E j \in DOMAIN tree[e.file] : tree[e.file][j].run = split.run /\ tree[e.file][j].at = e.at

(* The tree holds nothing else, in particular nothing of an earlier split, *)
(* and no record twice.                                                    *)
FilesAreListed ==
  \A f \in DOMAIN tree : \A j \in DOMAIN tree[f] :
    LET r == tree[f][j]
    IN  /\ r.run = split.run
        /\ \E k \in DOMAIN catalog : catalog[k].at = r.at /\ catalog[k].file = f
        /\ \A g \in DOMAIN tree : \A i \in DOMAIN tree[g] :
             tree[g][i].at = r.at => g = f /\ i = j

(* symbols.ndjson has the address and the name of every entry.             *)
SymbolsAreListed ==
  /\ Len(symbols) = Len(catalog)
  /\ \A k \in DOMAIN catalog : symbols[k] = <<catalog[k].addr, catalog[k].name>>

(* The sizes in the catalog, "byte length of the raw record text"          *)
(* (csplit.go:25): an entry reaches to the line that ends its function,    *)
(* also when the record exceeded the cap.                                  *)
SizesReachTheEnd ==
  \A k \in DOMAIN catalog :
    LET e == catalog[k].at + catalog[k].bytes
    IN  e \in Ends /\ \A i \in Ends : i > catalog[k].at => i >= e

(* The catalogs are the tree, and the summary counts them; of an overlong  *)
(* line a part is lost, and with it the sizes.                             *)
CatalogIsTree ==
  split.ret = "nil" =>
    /\ EntriesAreFiled /\ FilesAreListed /\ SymbolsAreListed
    /\ summary.json = Sums(split.run, catalog, symbols) /\ summary.index = summary.json
    /\ reader = "scan" => SizesReachTheEnd

(* Stated for a disagreement: with CRLF, too, every function is split.     *)
EveryFunctionOnAnyPlatform ==
  split.ret = "nil" => Headers \subseteq Listed

(* Stated for a disagreement, csplit.go:85: a file exceeds the cap by one  *)
(* record at most, also when it is opened again.                           *)
FilesKeepTheCap ==
  \A f \in DOMAIN tree : LET s == tree[f] IN Len(s) > 1 => SizeOf(Front(s)) < SoftCap
=============================================================================
