---------------------------- MODULE BaseDir_proof ----------------------------
(***************************************************************************)
(* Proofs about BaseDir, for any threads, windows, tools, settings and     *)
(* bounds: the safety properties of its parts, and the refinement of       *)
(* SelfUpdate_proof as a property of the whole.                            *)
(*                                                                         *)
(* No step of one part touches what another has (OnlyThatPart), so each    *)
(* part has an inductive invariant of its own.  For the files that are     *)
(* read, changed and written back it says that a thread which nobody has   *)
(* overlapped still holds what is in the file.                             *)
(***************************************************************************)
EXTENDS BaseDir, SelfUpdate_proof, FiniteSetTheorems

\* A step of the whole is a step of one part and a stutter of every other.
LEMMA OnlyThatPart ==
  ASSUME [Next]_vars
  PROVE  /\ part' = part
         /\ [UpdateNext]_updateVars
         /\ [GuiNext]_guiVars
         /\ [ClientNext]_clientVars
         /\ [RunNext]_runVars
         /\ SharedPart \/ UNCHANGED sharedVars
         /\ [HomeNext]_homeVars
BY DEF Next, vars, UpdatePart, StartPart, SharedPart, CommandPart, PagePart, commandVars, clientVars, runVars,
   updateVars, guiVars, sharedVars

-----------------------------------------------------------------------------
(* The executable *)

LEMMA SpecUpdates == Spec => UpdateSpec
<1>1. Init => UpdateInit
  BY DEF Init
<1>2. [Next]_vars => [UpdateNext]_updateVars
  BY OnlyThatPart
<1>3. QED
  BY <1>1, <1>2, PTL DEF Spec, UpdateSpec

\* The refinement, of the specification that is model-checked.
THEOREM BaseDirUpdateIsAtomic == Spec => UpdateIsAtomic
BY SpecUpdates, UpdateRefinesReplace, PTL

\* "The user is never left without an executable", of the same specification.
THEOREM BaseDirKeepsExecutable == Spec => []UserKeepsExecutable
BY SpecUpdates, UpdateKeepsExecutable, PTL

-----------------------------------------------------------------------------
(* The window that comes up *)

Bare == {"absent", "empty"}

\* Between its expansion and its moves there is something of the runtime.
GuiInv ==
  /\ DOMAIN gstep = Starters /\ DOMAIN browser = Starters
  /\ \A x \in Starters : gstep[x] = "flatten" => local \notin Bare
  /\ OpensWithRuntime

\* What is in the system or in the directory does not go away again.
LEMMA RuntimeStays ==
  ASSUME GuiInv, NEW x \in Starters, UNCHANGED browser,
         NEW s, s \notin {"open", "flatten"}, Turns(x, s),
         inSystem => inSystem', local \notin Bare => local' \notin Bare
  PROVE  GuiInv'
<1>1. DOMAIN gstep' = Starters /\ gstep'[x] = s
      /\ \A y \in Starters \ {x} : gstep'[y] = gstep[y]
  BY DEF GuiInv, Turns
<1>2. QED
  BY <1>1 DEF GuiInv, OpensWithRuntime, Bare

\* The window opens with what CheckAvailable has found.
LEMMA FoundIsThere ==
  ASSUME GuiInv, NEW x \in Starters, CheckAvailable(x), UNCHANGED <<local, inSystem>>
  PROVE  GuiInv'
<1>1. PICK found \in LocalVersion :
        LET which == IF found THEN "local" ELSE IF inSystem THEN "system" ELSE "none"
        IN /\ browser' = [browser EXCEPT ![x] = which]
           /\ Turns(x, IF which # "none" THEN "open"
                       ELSE IF gstep[x] = "down" THEN "dialog" ELSE "failed")
  BY DEF CheckAvailable
<1>2. found => local \notin Bare
  <2>1. CASE local = "whole"
    BY <2>1 DEF Bare
  <2>2. CASE local = "partial"
    BY <2>2 DEF Bare
  <2>3. CASE local \notin {"whole", "partial"}
    BY <2>3 DEF LocalVersion
  <2>4. QED
    BY <2>1, <2>2, <2>3
<1>3. /\ DOMAIN gstep' = Starters /\ DOMAIN browser' = Starters
      /\ \A y \in Starters \ {x} : gstep'[y] = gstep[y] /\ browser'[y] = browser[y]
      /\ gstep'[x] # "flatten"
      /\ gstep'[x] = "open" => \/ browser'[x] = "local" /\ found
                               \/ browser'[x] = "system" /\ inSystem
  BY <1>1 DEF GuiInv, Turns
<1>4. QED
  BY <1>2, <1>3 DEF GuiInv, OpensWithRuntime, Bare

LEMMA GuiStep == GuiInv /\ [GuiNext]_guiVars => GuiInv'
<1> SUFFICES ASSUME GuiInv, [GuiNext]_guiVars PROVE GuiInv'
  OBVIOUS
<1>1. CASE UNCHANGED guiVars
  BY <1>1 DEF guiVars, GuiInv, OpensWithRuntime
<1>2. ASSUME NEW x \in Starters, StartGUI(x) \/ CheckAgain(x)
      PROVE  GuiInv'
  BY <1>2, FoundIsThere DEF StartGUI, CheckAgain
<1>3. ASSUME NEW x \in Starters, ShowInstallDialog(x)
      PROVE  GuiInv'
  <2>1. PICK s \in {"down", "setup", "cab"} : Turns(x, s)
    BY <1>3 DEF ShowInstallDialog
  <2>2. local \notin Bare => local' \notin Bare
    BY <1>3 DEF ShowInstallDialog, Bare
  <2>3. QED
    BY <1>3, <2>1, <2>2, RuntimeStays DEF ShowInstallDialog
<1>4. ASSUME NEW x \in Starters, NEW k \in Kinds, Attempt(x, k) \/ Copied(x, k)
      PROVE  GuiInv'
  <2>1. PICK s \in {"copy setup", "copy cab", "run setup", "expand", "failed", "setup", "cab"} :
          Turns(x, s)
    BY <1>4 DEF Attempt, Copied, Fails, Kinds
  <2>2. UNCHANGED <<local, inSystem, browser>>
    BY <1>4 DEF Attempt, Copied
  <2>3. QED
    BY <2>1, <2>2, RuntimeStays
<1>5. ASSUME NEW x \in Starters, RunSetup(x)
      PROVE  GuiInv'
  <2>1. PICK s \in {"check again", "failed"} : Turns(x, s)
    BY <1>5 DEF RunSetup
  <2>2. inSystem => inSystem'
    BY <1>5 DEF RunSetup
  <2>3. QED
    BY <1>5, <2>1, <2>2, RuntimeStays DEF RunSetup
<1>6. ASSUME NEW x \in Starters, Expand(x)
      PROVE  GuiInv'
  <2>1. CASE Turns(x, "failed")
    BY <1>6, <2>1, RuntimeStays DEF Expand, Turns, GuiInv
  <2>2. CASE Turns(x, "flatten") /\ local' = IF local = "whole" THEN "whole" ELSE "nested"
    BY <1>6, <2>2 DEF Expand, Turns, GuiInv, OpensWithRuntime, Bare
  <2>3. QED
    BY <1>6, <2>1, <2>2 DEF Expand
<1>7. ASSUME NEW x \in Starters, Flatten(x)
      PROVE  GuiInv'
  BY <1>7 DEF Flatten, Turns, GuiInv, OpensWithRuntime, Bare
<1>8. ASSUME NEW x \in Starters, Leave(x) \/ Dies(x)
      PROVE  GuiInv'
  <2>1. local \notin Bare => local' \notin Bare
    BY <1>8 DEF Leave, Dies, Bare
  <2>2. QED
    BY <1>8, <2>1, RuntimeStays DEF Leave, Dies
<1>9. QED
  BY <1>1, <1>2, <1>3, <1>4, <1>5, <1>6, <1>7, <1>8 DEF GuiNext

\* However many windows install at once over one directory and whatever fails,
\* the one that opens has a runtime.
THEOREM BaseDirOpensWithRuntime == Spec => []OpensWithRuntime
<1>1. Init => GuiInv
  BY DEF Init, GuiInit, GuiInv, OpensWithRuntime
<1>2. GuiInv /\ [Next]_vars => GuiInv'
  BY OnlyThatPart, GuiStep
<1>3. GuiInv => OpensWithRuntime
  BY DEF GuiInv
<1>4. QED
  BY <1>1, <1>2, <1>3, PTL DEF Spec

-----------------------------------------------------------------------------
(* The command line *)

\* A client that has seen its run had asked for it, and no run is queued again.
ClientInv ==
  /\ server \in {"up", "down"}
  /\ saw => request \in {"running", "stopping", "over"} /\ client # "start"
  /\ ToldAfterItsRun

\* A client that has seen its run is told it is over only when it is.
THEOREM BaseDirToldAfterItsRun == Spec => []ToldAfterItsRun
<1>1. Init => ClientInv
  BY DEF Init, CommandInit, ClientInv, ToldAfterItsRun
<1>2. ClientInv /\ [ClientNext]_clientVars => ClientInv'
  <2> SUFFICES ASSUME ClientInv, [ClientNext]_clientVars PROVE ClientInv'
    OBVIOUS
  <2> USE DEF ClientInv, ToldAfterItsRun
  <2>1. CASE PostRun
    BY <2>1 DEF PostRun
  <2>2. CASE ServiceRun \/ StopRun \/ EngineEnds
    BY <2>2 DEF ServiceRun, StopRun, EngineEnds, Active
  <2>3. CASE OtherRun \/ WindowQuits
    BY <2>3 DEF OtherRun, WindowQuits
  <2>4. CASE Poll
    <3>1. CASE server = "up" /\ ShownRunning
      <4>1. client' = "sleep"
        BY <2>4, <3>1 DEF Poll
      <4>2. QED
        BY <2>4, <3>1, <4>1 DEF Poll, Active
    <3>2. CASE ~(server = "up" /\ ShownRunning)
      <4>1. (saw' => saw) /\ UNCHANGED <<server, request>> /\ client' # "start"
        BY <2>4, <3>2 DEF Poll
      <4>2. client' = "told" => ~Active(request)
        BY <2>4, <3>2 DEF Poll, ShownRunning, Busy
      <4>3. QED
        BY <4>1, <4>2 DEF Active
    <3>3. QED
      BY <3>1, <3>2
  <2>5. CASE UNCHANGED clientVars
    BY <2>5 DEF clientVars
  <2>6. QED
    BY <2>1, <2>2, <2>3, <2>4, <2>5 DEF ClientNext
<1>3. ClientInv => ToldAfterItsRun
  BY DEF ClientInv
<1>4. QED
  BY <1>1, <1>2, <1>3, OnlyThatPart, PTL DEF Spec

\* What is in the directory when a command is about to print, and when it has.
RunInv ==
  /\ cmd \in [mode : Modes, at : {"engine", "summary", "exited"},
             engine : {"running", "err", "nil", "unwritten"}, quit : BOOLEAN]
  /\ cmd.engine = "nil" => summary.run = 2
  /\ cmd.at = "summary" =>
       IF cmd.mode = "watch" THEN cmd.quit \/ cmd.engine # "running"
                             ELSE cmd.engine \in {"nil", "unwritten"}
  /\ cmd.at # "exited" => printed = NoSummary
  /\ PrintsOwnSummary

\* The summary a terminal run prints is its own, with the exceptions named.
THEOREM BaseDirPrintsOwnSummary == Spec => []PrintsOwnSummary
<1>1. Init => RunInv
  <2> SUFFICES ASSUME Init PROVE RunInv
    OBVIOUS
  <2>1. cmd \in [mode : Modes, at : {"engine"}, engine : {"running"}, quit : {FALSE}]
        /\ printed = NoSummary
    BY DEF Init, CommandInit
  <2>2. PICK m \in Modes : cmd = [mode |-> m, at |-> "engine", engine |-> "running", quit |-> FALSE]
    BY <2>1
  <2>3. QED
    BY <2>1, <2>2 DEF RunInv, PrintsOwnSummary, NoSummary
<1>2. RunInv /\ [RunNext]_runVars => RunInv'
  <2> SUFFICES ASSUME RunInv, [RunNext]_runVars PROVE RunInv'
    OBVIOUS
  <2>1. CASE EngineReturns
    BY <2>1 DEF EngineReturns, RunInv, PrintsOwnSummary, NoSummary
  <2>2. CASE AfterEngine
    BY <2>2 DEF AfterEngine, PlainReturns, RunInv, PrintsOwnSummary, NoSummary
  <2>3. CASE ViewEnds
    <3>1. PICK q \in BOOLEAN : /\ q \/ cmd.engine # "running"
                             /\ cmd' = [cmd EXCEPT !.at = "summary", !.quit = q]
      BY <2>3 DEF ViewEnds
    <3>2. /\ cmd'.mode = "watch" /\ cmd'.engine = cmd.engine
          /\ cmd'.at = "summary" /\ cmd'.quit = q
      BY <2>3, <3>1 DEF ViewEnds, RunInv
    <3>3. cmd' \in [mode : Modes, at : {"engine", "summary", "exited"},
                   engine : {"running", "err", "nil", "unwritten"}, quit : BOOLEAN]
      BY <3>1 DEF RunInv
    <3>4. UNCHANGED <<summary, printed>> /\ cmd.at = "engine"
      BY <2>3 DEF ViewEnds
    <3>5. cmd.quit' \/ cmd.engine' # "running"
      BY <3>1, <3>2
    <3>6. PrintsOwnSummary'
      BY <3>4 DEF RunInv, PrintsOwnSummary, NoSummary
    <3>7. QED
      BY <3>2, <3>3, <3>4, <3>5, <3>6 DEF RunInv
  <2>4. CASE PrintSummary
    BY <2>4 DEF PrintSummary, RunInv, PrintsOwnSummary, NoSummary
  <2>5. CASE UNCHANGED runVars
    BY <2>5 DEF runVars, RunInv, PrintsOwnSummary
  <2>6. QED
    BY <2>1, <2>2, <2>3, <2>4, <2>5 DEF RunNext
<1>3. RunInv => PrintsOwnSummary
  BY DEF RunInv
<1>4. QED
  BY <1>1, <1>2, <1>3, OnlyThatPart, PTL DEF Spec

-----------------------------------------------------------------------------
(* The shared files *)

Tags == {"none", "v1", "v2"}
Values == {"default", "user", "on", "off"}

\* Every thread is at a step of the part that is exercised.
Threading ==
  /\ fstep \in [Threads -> {"idle", "set", "save", "record", "call", "store"}]
  /\ DOMAIN job = Threads /\ DOMAIN copy = Threads
  /\ overlapped \in [Threads -> BOOLEAN]
  /\ \A a \in Threads :
       /\ fstep[a] \in {"set", "save"} => part = "settings"
       /\ fstep[a] = "record" => part = "lock"
       /\ fstep[a] \in {"call", "store"} => part = "cache"

LEMMA ReadIsCopied ==
  ASSUME NEW a, NEW v, copy[a] = {v}
  PROVE  Read(a) = v
BY DEF Read

LEMMA ThreadingKept ==
  ASSUME Threading, [Next]_vars
  PROVE  Threading'
<1>1. part' = part
  BY OnlyThatPart
<1>2. CASE UNCHANGED sharedVars
  BY <1>1, <1>2 DEF sharedVars, Threading
<1> USE DEF Goes, Keeps, Ends, Overlaps
<1>3. ASSUME part = "settings", NEW a \in Threads,
             SettingAsked(a) \/ SettingTruncates(a) \/ SettingSaved(a)
      PROVE  Threading'
  <2>1. CASE SettingAsked(a)
    <3>1. DOMAIN job' = Threads /\ DOMAIN copy' = Threads
      BY <2>1 DEF SettingAsked, Threading
    <3>2. overlapped' \in [Threads -> BOOLEAN]
      BY <2>1 DEF SettingAsked, Threading
    <3>3. QED
      BY <1>1, <1>3, <2>1, <3>1, <3>2 DEF SettingAsked, Threading
  <2>2. CASE SettingTruncates(a)
    BY <1>1, <1>3, <2>2 DEF SettingTruncates, Threading
  <2>3. CASE SettingSaved(a)
    BY <1>1, <1>3, <2>3 DEF SettingSaved, Threading
  <2>4. QED
    BY <1>3, <2>1, <2>2, <2>3
<1>4. ASSUME part = "lock", NEW a \in Threads, RecordBegin(a) \/ WriteLock(a)
      PROVE  Threading'
  <2>1. CASE RecordBegin(a)
    BY <1>1, <1>4, <2>1 DEF RecordBegin, Threading
  <2>2. CASE WriteLock(a)
    <3>1. overlapped' \in [Threads -> BOOLEAN]
      BY <2>2 DEF WriteLock, Threading
    <3>2. QED
      BY <1>1, <1>4, <2>2, <3>1 DEF WriteLock, Threading
  <2>3. QED
    BY <1>4, <2>1, <2>2
<1>5. CASE part = "cache" /\ CacheNext
  BY <1>1, <1>5 DEF CacheNext, Tick, Released, FetchBegin, FetchCalls, SaveReleaseCache, Threading,
     Goes, Keeps, Ends
<1>6. ASSUME NEW p, Killed(p)
      PROVE  Threading'
  BY <1>1, <1>6 DEF Killed, Threading
<1>7. QED
  BY <1>2, <1>3, <1>4, <1>5, <1>6, OnlyThatPart DEF SharedPart, SettingsNext, LockNext

\* A thread that records an installation has its process's lockMu alone, and,
\* unless the other process has written since, what the lock file says.
LockInv ==
  /\ lock = Corrupt \/ lock \in [Tools -> Tags]
  /\ \A a, b \in Threads :
       fstep[a] = "record" /\ fstep[b] = "record" /\ ProcessOf(a) = ProcessOf(b) => a = b
  /\ \A a \in Threads : fstep[a] = "record" =>
       /\ ProcessOf(a) \in held /\ job[a].val \in Tags
       /\ \E file \in [Tools -> Tags] :
            copy[a] = {file} /\ (~overlapped[a] => file = ReadLock(lock))

LEMMA ReadLockIsFile ==
  ASSUME LockInv
  PROVE  ReadLock(lock) \in [Tools -> Tags]
BY DEF LockInv, ReadLock, NoTools, Tags

LEMMA RecordBegins ==
  ASSUME Threading, LockInv, NEW a \in Threads, RecordBegin(a)
  PROVE  LockInv'
<1> DEFINE file == ReadLock(lock)
<1>1. PICK t \in Tools, tag \in {"v1", "v2"} : job' = [job EXCEPT ![a] = [key |-> t, val |-> tag]]
  BY DEF RecordBegin
<1>2. /\ file \in [Tools -> Tags] /\ copy'[a] = {file} /\ job'[a].val \in Tags
      /\ fstep'[a] = "record" /\ ProcessOf(a) \notin held
      /\ held' = held \cup {ProcessOf(a)} /\ lock' = lock
  BY <1>1, ReadLockIsFile DEF RecordBegin, Threading, MayEnter, Keeps, Goes, Tags
<1>3. \A b \in Threads \ {a} : /\ fstep'[b] = fstep[b] /\ copy'[b] = copy[b]
                               /\ job'[b] = job[b] /\ overlapped'[b] = overlapped[b]
  BY <1>1 DEF RecordBegin, Threading, Keeps, Goes
<1>4. \A b \in Threads \ {a} : fstep[b] = "record" => ProcessOf(b) # ProcessOf(a)
  BY <1>2 DEF LockInv
<1>5. \A x, y \in Threads :
        fstep'[x] = "record" /\ fstep'[y] = "record" /\ ProcessOf(x) = ProcessOf(y) => x = y
  BY <1>3, <1>4 DEF LockInv
<1>6. ReadLock(lock)' = file
  BY <1>2 DEF ReadLock
<1>7. \A b \in Threads : fstep'[b] = "record" =>
        /\ ProcessOf(b) \in held' /\ job'[b].val \in Tags
        /\ \E g \in [Tools -> Tags] : copy'[b] = {g} /\ (~overlapped'[b] => g = file)
  <2> HIDE DEF file
  <2> SUFFICES ASSUME NEW b \in Threads, fstep'[b] = "record"
               PROVE  /\ ProcessOf(b) \in held' /\ job'[b].val \in Tags
                      /\ \E g \in [Tools -> Tags] : copy'[b] = {g} /\ (~overlapped'[b] => g = file)
    OBVIOUS
  <2>1. CASE b = a
    BY <1>2, <2>1
  <2>2. CASE b # a
    BY <1>2, <1>3, <2>2 DEF LockInv, file
  <2>3. QED
    BY <2>1, <2>2
<1>8. QED
  BY <1>2, <1>5, <1>6, <1>7 DEF LockInv

\* What a thread writes is its copy with its own entry.
LEMMA LockIsCopied ==
  ASSUME Threading, LockInv, NEW a \in Threads, fstep[a] = "record"
  PROVE  /\ Read(a) \in [Tools -> Tags] /\ job[a].val \in Tags
         /\ ~overlapped[a] => Read(a) = ReadLock(lock)
<1>1. PICK file \in [Tools -> Tags] :
        copy[a] = {file} /\ (~overlapped[a] => file = ReadLock(lock))
  BY DEF LockInv
<1>2. Read(a) = file
  BY <1>1, ReadIsCopied
<1>3. QED
  BY <1>1, <1>2 DEF LockInv

LEMMA RecordWrites ==
  ASSUME Threading, LockInv, NEW a \in Threads, WriteLock(a)
  PROVE  LockInv'
<1>1. /\ fstep[a] = "record" /\ fstep'[a] = "idle" /\ held' = held \ {ProcessOf(a)}
      /\ \A b \in Threads \ {a} : /\ fstep'[b] = fstep[b] /\ copy'[b] = copy[b]
                                   /\ job'[b] = job[b]
  BY DEF WriteLock, Threading, Ends, Goes
<1>2. \A b \in Threads \ {a} : fstep[b] = "record" => ProcessOf(b) # ProcessOf(a)
  BY <1>1 DEF LockInv
<1>3. lock' = Corrupt \/ lock' \in [Tools -> Tags]
  <2>1. CASE lock' = [Read(a) EXCEPT ![job[a].key] = job[a].val]
    BY <1>1, <2>1, LockIsCopied
  <2>2. CASE lock' = lock
    BY <2>2 DEF LockInv
  <2>3. QED
    BY <2>1, <2>2 DEF WriteLock
<1>4. \A b \in Threads \ {a} : fstep[b] = "record" =>
        overlapped'[b] \/ (lock' = lock /\ (overlapped[b] => overlapped'[b]))
  BY <1>2 DEF WriteLock
<1>5. \A b \in Threads : fstep'[b] = "record" =>
        /\ ProcessOf(b) \in held' /\ job'[b].val \in Tags
        /\ \E g \in [Tools -> Tags] : copy'[b] = {g} /\ (~overlapped'[b] => g = ReadLock(lock)')
  <2> SUFFICES ASSUME NEW b \in Threads, fstep'[b] = "record"
               PROVE  /\ ProcessOf(b) \in held' /\ job'[b].val \in Tags
                      /\ \E g \in [Tools -> Tags] :
                           copy'[b] = {g} /\ (~overlapped'[b] => g = ReadLock(lock)')
    OBVIOUS
  <2>1. b # a /\ fstep[b] = "record" /\ ProcessOf(b) # ProcessOf(a)
    BY <1>1, <1>2
  <2>2. PICK g \in [Tools -> Tags] :
          copy[b] = {g} /\ (~overlapped[b] => g = ReadLock(lock))
    BY <2>1 DEF LockInv
  <2>3. ~overlapped'[b] => g = ReadLock(lock)'
    BY <1>4, <2>1, <2>2 DEF ReadLock
  <2>4. copy'[b] = {g} /\ ProcessOf(b) \in held' /\ job'[b].val \in Tags
    BY <1>1, <2>1, <2>2 DEF LockInv
  <2>5. QED
    BY <2>3, <2>4
<1>6. \A x, y \in Threads :
        fstep'[x] = "record" /\ fstep'[y] = "record" /\ ProcessOf(x) = ProcessOf(y) => x = y
  BY <1>1 DEF LockInv
<1>7. QED
  BY <1>3, <1>5, <1>6 DEF LockInv

\* A process that ends takes its own threads and its own mutex with it.
LEMMA KilledIsGone ==
  ASSUME Threading, NEW p, Killed(p)
  PROVE  /\ held' = held \ {p}
         /\ \A a \in Threads :
              IF ProcessOf(a) = p
              THEN fstep'[a] = "idle"
              ELSE fstep'[a] = fstep[a] /\ job'[a] = job[a] /\ copy'[a] = copy[a]
         /\ UNCHANGED <<cfg, prior, lock, cache, overlapped, now, published, answer>>
BY DEF Killed, Threading, settings, world

LEMMA LockStep == Threading /\ LockInv /\ [Next]_vars => LockInv'
<1> SUFFICES ASSUME Threading, LockInv, [Next]_vars PROVE LockInv'
  OBVIOUS
<1>1. CASE UNCHANGED sharedVars
  BY <1>1 DEF sharedVars, LockInv, ReadLock
<1>2. CASE part = "lock" /\ LockNext
  BY <1>2, RecordBegins, RecordWrites DEF LockNext
<1>3. CASE part \in {"settings", "cache"} /\ (SettingsNext \/ CacheNext)
  <2>1. \A a \in Threads : fstep[a] # "record" /\ fstep'[a] # "record"
    BY <1>3, ThreadingKept, OnlyThatPart DEF Threading
  <2>2. lock' = lock
    BY <1>3 DEF SettingsNext, SettingAsked, SettingTruncates, SettingSaved, CacheNext, Tick, Released,
       FetchBegin, FetchCalls, SaveReleaseCache
  <2>3. QED
    BY <2>1, <2>2 DEF LockInv
<1>4. ASSUME NEW p, Killed(p)
      PROVE  LockInv'
  <2>1. ReadLock(lock)' = ReadLock(lock)
    BY <1>4, KilledIsGone DEF ReadLock
  <2>2. QED
    BY <1>4, <2>1, KilledIsGone DEF LockInv
<1>5. QED
  BY <1>1, <1>2, <1>3, <1>4, OnlyThatPart DEF SharedPart

LEMMA ThreadingInit == Init => Threading
BY DEF Init, SharedInit, Threading

\* No installation of one process loses an entry that another wrote.
THEOREM BaseDirLockKeepsRecords == Spec => LockKeepsRecords
<1>1. Init => Threading /\ LockInv
  BY ThreadingInit DEF Init, SharedInit, LockInv, NoTools, Tags
<1>2. Threading /\ LockInv /\ [Next]_vars => Threading' /\ LockInv'
  BY ThreadingKept, LockStep
<1>3. Threading /\ LockInv /\ [Next]_vars =>
        [\A a \in Threads :
           fstep[a] = "record" /\ lock' # lock /\ fstep'[a] = "idle" /\ ~overlapped[a]
           => \A t \in Tools \ {job[a].key} : lock'[t] = ReadLock(lock)[t]]_sharedVars
  <2> SUFFICES ASSUME Threading, LockInv, [Next]_vars, NEW a \in Threads,
                      fstep[a] = "record", lock' # lock, fstep'[a] = "idle", ~overlapped[a],
                      NEW t \in Tools \ {job[a].key}
               PROVE  lock'[t] = ReadLock(lock)[t]
    OBVIOUS
  <2>1. LockNext
    BY OnlyThatPart, KilledIsGone DEF SharedPart, Threading, sharedVars
  <2>2. PICK b \in Threads : WriteLock(b)
    BY <2>1 DEF LockNext, RecordBegin
  <2>3. b = a
    BY <2>2 DEF WriteLock, Ends, Goes, Threading
  <2>4. lock' = [Read(a) EXCEPT ![job[a].key] = job[a].val]
    BY <2>2, <2>3 DEF WriteLock
  <2>5. QED
    BY <2>4, LockIsCopied
<1>4. QED
  BY <1>1, <1>2, <1>3, PTL DEF Spec, LockKeepsRecords

\* The file holds the values last written, or is cut off; a thread that changes
\* a setting has those values, unless another has written since.
SettingsInv ==
  /\ prior \in [Settings -> Values] /\ cfg \in {prior, Truncated}
  /\ \A a \in Threads : fstep[a] \in {"set", "save"} =>
       /\ job[a].val \in Values
       /\ \E v \in [Settings -> Values] : copy[a] = {v} /\ (~overlapped[a] => v = prior)

LEMMA SettingIsCopied ==
  ASSUME SettingsInv, NEW a \in Threads, fstep[a] = "save"
  PROVE  /\ Read(a) \in [Settings -> Values] /\ job[a].val \in Values
         /\ ~overlapped[a] => Read(a) = prior
<1>1. PICK v \in [Settings -> Values] : copy[a] = {v} /\ (~overlapped[a] => v = prior)
  BY DEF SettingsInv
<1>2. Read(a) = v
  BY <1>1, ReadIsCopied
<1>3. QED
  BY <1>1, <1>2 DEF SettingsInv

LEMMA SettingReads ==
  ASSUME Threading, SettingsInv, NEW a \in Threads, SettingAsked(a)
  PROVE  SettingsInv'
<1> DEFINE v == Loaded(cfg)
<1>1. PICK k \in Settings, val \in {"on", "off"} :
        job' = [job EXCEPT ![a] = [key |-> k, val |-> val]]
  BY SharedFilesAssumption DEF SettingAsked
<1>2. v \in [Settings -> Values] /\ (cfg # Truncated => v = prior)
  BY DEF SettingsInv, Loaded, Defaults, Values
<1>3. /\ copy'[a] = {v} /\ job'[a].val \in Values /\ UNCHANGED <<cfg, prior>>
      /\ overlapped'[a] = (cfg = Truncated)
  BY <1>1 DEF SettingAsked, Threading, Keeps, Values, settings
<1>4. \A b \in Threads \ {a} : /\ fstep'[b] = fstep[b] /\ copy'[b] = copy[b]
                               /\ job'[b] = job[b] /\ overlapped'[b] = overlapped[b]
  BY <1>1 DEF SettingAsked, Threading, Keeps, Goes
<1>5. \A b \in Threads : fstep'[b] \in {"set", "save"} =>
        /\ job'[b].val \in Values
        /\ \E u \in [Settings -> Values] : copy'[b] = {u} /\ (~overlapped'[b] => u = prior)
  <2> HIDE DEF v
  <2> SUFFICES ASSUME NEW b \in Threads, fstep'[b] \in {"set", "save"}
               PROVE  /\ job'[b].val \in Values
                      /\ \E u \in [Settings -> Values] :
                           copy'[b] = {u} /\ (~overlapped'[b] => u = prior)
    OBVIOUS
  <2>1. CASE b = a
    BY <1>2, <1>3, <2>1
  <2>2. CASE b # a
    BY <1>4, <2>2 DEF SettingsInv
  <2>3. QED
    BY <2>1, <2>2
<1>6. QED
  BY <1>3, <1>5 DEF SettingsInv

LEMMA SettingWrites ==
  ASSUME Threading, SettingsInv, NEW a \in Threads, SettingTruncates(a) \/ SettingSaved(a)
  PROVE  SettingsInv'
<1>1. \A b \in Threads \ {a} : /\ fstep'[b] = fstep[b] /\ copy'[b] = copy[b]
                               /\ job'[b] = job[b]
  BY DEF SettingTruncates, SettingSaved, Threading, Ends, Goes
<1>2. \A b \in Threads \ {a} :
        overlapped'[b] \/ (prior' = prior /\ (overlapped[b] => overlapped'[b]))
  BY DEF SettingTruncates, SettingSaved, Overlaps
<1>3. prior' \in [Settings -> Values] /\ cfg' \in {prior', Truncated}
  <2>1. CASE SettingTruncates(a)
    BY <2>1 DEF SettingTruncates, SettingsInv
  <2>2. CASE SettingSaved(a)
    BY <2>2, SettingIsCopied DEF SettingSaved, Changed
  <2>3. QED
    BY <2>1, <2>2
<1>4. fstep'[a] \in {"set", "save"} =>
        /\ fstep[a] = "set" /\ UNCHANGED <<prior, job, copy>>
        /\ overlapped[a] => overlapped'[a]
  BY DEF SettingTruncates, SettingSaved, Threading, Ends, Goes, Overlaps
<1>5. \A b \in Threads : fstep'[b] \in {"set", "save"} =>
        /\ job'[b].val \in Values
        /\ \E u \in [Settings -> Values] : copy'[b] = {u} /\ (~overlapped'[b] => u = prior')
  <2> SUFFICES ASSUME NEW b \in Threads, fstep'[b] \in {"set", "save"}
               PROVE  /\ job'[b].val \in Values
                      /\ \E u \in [Settings -> Values] :
                           copy'[b] = {u} /\ (~overlapped'[b] => u = prior')
    OBVIOUS
  <2>1. /\ fstep[b] \in {"set", "save"} /\ job'[b] = job[b] /\ copy'[b] = copy[b]
        /\ overlapped'[b] \/ (prior' = prior /\ (overlapped[b] => overlapped'[b]))
    BY <1>1, <1>2, <1>4
  <2>2. PICK u \in [Settings -> Values] : copy[b] = {u} /\ (~overlapped[b] => u = prior)
    BY <2>1 DEF SettingsInv
  <2>3. job[b].val \in Values
    BY <2>1 DEF SettingsInv
  <2>4. QED
    BY <2>1, <2>2, <2>3
<1>6. QED
  BY <1>3, <1>5 DEF SettingsInv

LEMMA SettingsStep == Threading /\ SettingsInv /\ [Next]_vars => SettingsInv'
<1> SUFFICES ASSUME Threading, SettingsInv, [Next]_vars PROVE SettingsInv'
  OBVIOUS
<1>1. CASE UNCHANGED sharedVars
  BY <1>1 DEF sharedVars, SettingsInv
<1>2. CASE part = "settings" /\ SettingsNext
  BY <1>2, SettingReads, SettingWrites DEF SettingsNext
<1>3. CASE part \in {"lock", "cache"} /\ (LockNext \/ CacheNext)
  <2>1. \A a \in Threads : fstep'[a] \notin {"set", "save"}
    BY <1>3, ThreadingKept, OnlyThatPart DEF Threading
  <2>2. UNCHANGED <<cfg, prior>>
    BY <1>3 DEF LockNext, RecordBegin, WriteLock, CacheNext, Tick, Released, FetchBegin, FetchCalls,
       SaveReleaseCache, settings
  <2>3. QED
    BY <2>1, <2>2 DEF SettingsInv
<1>4. ASSUME NEW p, Killed(p)
      PROVE  SettingsInv'
  BY <1>4, KilledIsGone DEF SettingsInv
<1>5. QED
  BY <1>1, <1>2, <1>3, <1>4, OnlyThatPart DEF SharedPart

\* A request for one setting leaves the others as they were written last.
THEOREM BaseDirSettingKeepsOthers == Spec => SettingKeepsOthers
<1>1. Init => Threading /\ SettingsInv
  BY ThreadingInit DEF Init, SharedInit, SettingsInv, Defaults, Values
<1>2. Threading /\ SettingsInv /\ [Next]_vars => Threading' /\ SettingsInv'
  BY ThreadingKept, SettingsStep
<1>3. Threading /\ SettingsInv /\ [Next]_vars =>
        [\A a \in Threads :
           fstep[a] = "save" /\ fstep'[a] = "idle" /\ cfg' # cfg /\ ~overlapped[a]
           => \A k \in Settings \ {job[a].key} : cfg'[k] = prior[k]]_sharedVars
  <2> SUFFICES ASSUME Threading, SettingsInv, [Next]_vars, NEW a \in Threads,
                      fstep[a] = "save", fstep'[a] = "idle", cfg' # cfg, ~overlapped[a],
                      NEW k \in Settings \ {job[a].key}
               PROVE  cfg'[k] = prior[k]
    OBVIOUS
  <2>1. SettingsNext
    BY OnlyThatPart, KilledIsGone DEF SharedPart, Threading, sharedVars
  <2>2. PICK b \in Threads : SettingAsked(b) \/ SettingTruncates(b) \/ SettingSaved(b)
    BY <2>1 DEF SettingsNext
  <2>3. b = a /\ SettingSaved(a)
    BY <2>2 DEF SettingAsked, SettingTruncates, SettingSaved, Ends, Goes, Threading
  <2>4. cfg' = [Read(a) EXCEPT ![job[a].key] = job[a].val]
    BY <2>3 DEF SettingSaved, Changed
  <2>5. QED
    BY <2>4, SettingIsCopied
<1>4. QED
  BY <1>1, <1>2, <1>3, PTL DEF Spec, SettingKeepsOthers

\* The releases are numbered, and their times are in the past.
ClockInv ==
  /\ now \in Nat /\ Current \in Nat \ {0} /\ published \in [1 .. Current -> Nat]

\* An entry names a release that was the newest at the time it carries.
Valid(e) ==
  e # NoEntry =>
    /\ e.tag \in 1 .. Current /\ e.at \in Nat /\ e.at <= now
    /\ e.tag < Current => published[e.tag + 1] >= e.at

\* So it is in the file and in what a thread has read or is to store.
CacheInv ==
  /\ ClockInv /\ Valid(cache)
  /\ \A a \in Threads : fstep[a] \in {"call", "store"} => \E e : copy[a] = {e} /\ Valid(e)
  /\ answer.live => answer.tag \in 1 .. Current /\ answer.at \in Nat /\ answer.at <= now
  /\ AnswerWasLatest

\* Time passes and releases come; what was valid stays so.
LEMMA WorldMoves ==
  ASSUME CacheInv, Tick \/ Released
  PROVE  CacheInv'
<1>1. CASE Tick
  <2>1. now' = now + 1 /\ Current' = Current /\ UNCHANGED <<cache, copy, fstep, published, answer>>
    BY <1>1 DEF Tick, Current, settings
  <2>2. \A e : Valid(e) => Valid(e)'
    BY <2>1 DEF Valid, CacheInv, ClockInv
  <2>3. ClockInv'
    BY <2>1 DEF CacheInv, ClockInv
  <2>4. QED
    BY <2>1, <2>2, <2>3 DEF CacheInv, ClockInv, AnswerWasLatest
<1>2. CASE Released
  <2>1. /\ published' = [i \in 1 .. Current + 1 |-> IF i <= Current THEN published[i] ELSE now]
        /\ UNCHANGED <<now, cache, copy, fstep, answer>>
    BY <1>2 DEF Released, settings
  <2>2. Current' = Current + 1
    <3>1. DOMAIN published' = 1 .. Current + 1
      BY <2>1
    <3>2. Cardinality(1 .. Current + 1) = Current + 1
      BY FS_Interval DEF CacheInv, ClockInv
    <3>3. QED
      BY <3>1, <3>2 DEF Current
  <2>3. ClockInv'
    BY <2>1, <2>2 DEF CacheInv, ClockInv
  <2>4. \A e : Valid(e) => Valid(e)'
    BY <2>1, <2>2 DEF Valid, CacheInv, ClockInv
  <2>5. answer.live => published'[answer.tag + 1] + TTL > answer.at
    <3> SUFFICES ASSUME answer.live PROVE published'[answer.tag + 1] + TTL > answer.at
      OBVIOUS
    <3>1. /\ answer.tag \in 1 .. Current /\ Current \in Nat /\ now \in Nat
          /\ answer.at \in Nat /\ answer.at <= now /\ TTL \in Nat \ {0}
      BY SharedFilesAssumption DEF CacheInv, ClockInv
    <3>2. CASE answer.tag = Current
      <4>1. published'[Current + 1] = now
        BY <2>1, <3>1
      <4>2. QED
        BY <3>1, <3>2, <4>1
    <3>3. CASE answer.tag # Current
      <4>1. published'[answer.tag + 1] = published[answer.tag + 1]
        BY <2>1, <3>1, <3>3
      <4>2. QED
        BY <3>3, <4>1 DEF CacheInv, AnswerWasLatest
    <3>4. QED
      BY <3>2, <3>3
  <2>6. QED
    BY <2>1, <2>2, <2>3, <2>4, <2>5 DEF CacheInv, ClockInv, AnswerWasLatest
<1>3. QED
  BY <1>1, <1>2

\* The step that answers from the file: it is less than a TTL old.
LEMMA FreshAnswers ==
  ASSUME CacheInv, Fresh(cache), answer'.live,
         answer' = [tag |-> cache.tag, at |-> now, live |-> TRUE], UNCHANGED <<now, published>>
  PROVE  /\ answer'.tag \in 1 .. Current' /\ answer'.at \in Nat /\ answer'.at <= now'
         /\ AnswerWasLatest'
<1>1. /\ cache.tag \in 1 .. Current /\ cache.at \in Nat /\ now - cache.at < TTL
      /\ cache.tag < Current => published[cache.tag + 1] >= cache.at
  <2>1. Valid(cache) /\ cache # NoEntry /\ now - cache.at < TTL
    BY DEF CacheInv, Fresh
  <2>2. QED
    BY <2>1 DEF Valid
<1>2. Current' = Current /\ published' = published
  BY DEF Current
<1>3. cache.tag < Current => published[cache.tag + 1] \in Nat
  BY <1>1 DEF CacheInv, ClockInv
<1>4. cache.tag # Current => published'[answer'.tag + 1] + TTL > answer'.at
  <2>1. SUFFICES ASSUME cache.tag # Current
                 PROVE  published[cache.tag + 1] + TTL > now
    BY <1>2
  <2>2. /\ published[cache.tag + 1] \in Nat /\ cache.at \in Nat /\ now \in Nat /\ TTL \in Nat
        /\ published[cache.tag + 1] >= cache.at /\ now - cache.at < TTL
    BY <1>1, <1>3, <2>1, SharedFilesAssumption DEF CacheInv, ClockInv
  <2>3. QED
    BY <2>2
<1>5. QED
  BY <1>1, <1>2, <1>4 DEF AnswerWasLatest, CacheInv, ClockInv

LEMMA FetchKeeps ==
  ASSUME Threading, CacheInv, NEW a \in Threads,
         FetchBegin(a) \/ FetchCalls(a) \/ SaveReleaseCache(a)
  PROVE  CacheInv'
<1>1. UNCHANGED <<now, published>> /\ Current' = Current
  BY DEF FetchBegin, FetchCalls, SaveReleaseCache, world, Current
<1>2. ClockInv' /\ \A e : Valid(e)' <=> Valid(e)
  BY <1>1 DEF Valid, CacheInv, ClockInv
<1>3. \A b \in Threads \ {a} : fstep'[b] = fstep[b] /\ copy'[b] = copy[b]
  BY DEF FetchBegin, FetchCalls, SaveReleaseCache, Threading, Ends, Goes, Keeps
<1>4. Valid(NoEntry) /\ Valid([tag |-> Current, at |-> now])
  BY DEF Valid, CacheInv, ClockInv
<1>5. fstep[a] \in {"call", "store"} => Valid(Read(a))
  <2> SUFFICES ASSUME fstep[a] \in {"call", "store"} PROVE Valid(Read(a))
    OBVIOUS
  <2>1. PICK e : copy[a] = {e} /\ Valid(e)
    BY DEF CacheInv
  <2>2. QED
    BY <2>1, ReadIsCopied
<1>6. Valid(cache)'
  <2>1. cache' \in {cache, NoEntry} \/ (fstep[a] = "store" /\ cache' = Read(a))
    BY DEF FetchBegin, FetchCalls, SaveReleaseCache
  <2>2. Valid(cache')
    BY <1>4, <1>5, <2>1 DEF CacheInv
  <2>3. QED
    BY <1>1, <2>2 DEF Valid
<1>7. fstep'[a] \in {"call", "store"} => \E e : copy'[a] = {e} /\ Valid(e)
  <2>1. CASE FetchBegin(a)
    BY <2>1 DEF FetchBegin, Threading, Keeps, Goes, CacheInv
  <2>2. CASE FetchCalls(a)
    BY <1>4, <2>2 DEF FetchCalls, Threading, Keeps, Goes, Ends
  <2>3. CASE SaveReleaseCache(a)
    BY <2>3 DEF SaveReleaseCache, Threading, Ends, Goes
  <2>4. QED
    BY <2>1, <2>2, <2>3
<1>8. /\ answer'.live => answer'.tag \in 1 .. Current' /\ answer'.at \in Nat /\ answer'.at <= now'
      /\ AnswerWasLatest'
  <2>1. CASE answer' = answer
    BY <1>1, <2>1 DEF CacheInv, AnswerWasLatest
  <2>2. CASE Fresh(cache) /\ Answers(cache.tag, TRUE)
    BY <1>1, <2>2, FreshAnswers DEF Answers
  <2>3. CASE Answers(Current, TRUE)
    BY <1>1, <2>3 DEF Answers, AnswerWasLatest, CacheInv, ClockInv
  <2>4. CASE Answers(Read(a).tag, FALSE)
    BY <2>4 DEF Answers, AnswerWasLatest
  <2>5. QED
    BY <2>1, <2>2, <2>3, <2>4 DEF FetchBegin, FetchCalls, SaveReleaseCache
<1>9. QED
  <2>1. \A b \in Threads : fstep'[b] \in {"call", "store"} => \E e : copy'[b] = {e} /\ Valid(e)
    BY <1>3, <1>7 DEF CacheInv
  <2>2. QED
    BY <1>2, <1>6, <1>8, <2>1 DEF CacheInv

LEMMA CacheStep == Threading /\ CacheInv /\ [Next]_vars => CacheInv'
<1> SUFFICES ASSUME Threading, CacheInv, [Next]_vars PROVE CacheInv'
  OBVIOUS
<1>1. CASE UNCHANGED sharedVars
  BY <1>1 DEF sharedVars, CacheInv, ClockInv, Valid, Current, AnswerWasLatest
<1>2. CASE part = "cache" /\ CacheNext
  BY <1>2, WorldMoves, FetchKeeps DEF CacheNext
<1>3. CASE part \in {"settings", "lock"} /\ (SettingsNext \/ LockNext)
  <2>1. \A a \in Threads : fstep'[a] \notin {"call", "store"}
    BY <1>3, ThreadingKept, OnlyThatPart DEF Threading
  <2>2. UNCHANGED <<now, published, cache, answer>>
    BY <1>3 DEF SettingsNext, SettingAsked, SettingTruncates, SettingSaved, LockNext, RecordBegin,
       WriteLock, world
  <2>3. QED
    BY <2>1, <2>2 DEF CacheInv, ClockInv, Valid, Current, AnswerWasLatest
<1>4. ASSUME NEW p, Killed(p)
      PROVE  CacheInv'
  <2>1. ClockInv' /\ Valid(cache)' /\ AnswerWasLatest' /\ Current' = Current
        /\ \A e : Valid(e)' <=> Valid(e)
    BY <1>4, KilledIsGone DEF CacheInv, ClockInv, Valid, Current, AnswerWasLatest
  <2>2. QED
    BY <1>4, <2>1, KilledIsGone DEF CacheInv
<1>5. QED
  BY <1>1, <1>2, <1>3, <1>4, OnlyThatPart DEF SharedPart

\* An answer that did not have to fall back is at most a TTL out of date.
THEOREM BaseDirAnswerWasLatest == Spec => []AnswerWasLatest
<1>1. Init => Threading /\ CacheInv
  <2> SUFFICES ASSUME Init PROVE CacheInv
    BY ThreadingInit
  <2>1. published = <<0>> /\ now = 0 /\ cache = NoEntry /\ answer = NoAnswer
        /\ \A a \in Threads : fstep[a] = "idle"
    BY DEF Init, SharedInit
  <2>2. Current = 1
    <3>1. DOMAIN published = {1}
      BY <2>1
    <3>2. Cardinality({1}) = 1
      BY FS_Singleton
    <3>3. QED
      BY <3>1, <3>2 DEF Current
  <2>3. QED
    BY <2>1, <2>2 DEF CacheInv, ClockInv, Valid, AnswerWasLatest, NoAnswer
<1>2. Threading /\ CacheInv /\ [Next]_vars => Threading' /\ CacheInv'
  BY ThreadingKept, CacheStep
<1>3. CacheInv => AnswerWasLatest
  BY DEF CacheInv
<1>4. QED
  BY <1>1, <1>2, <1>3, PTL DEF Spec

-----------------------------------------------------------------------------
(* The page of the window *)

Paths == Inputs \union {NoInput}
Pages == [path : Paths, last : Paths, home : BOOLEAN, starting : BOOLEAN,
          phase : {"idle", "busy", "done", "error", "cancelled"}]
Calls == [path : Paths, choice : Nat, moved : BOOLEAN,
          at : {"runtimes", "run", "over", "dropped", "failed", "cancelled", "served"}]
Wired == [kind : {"step", "skip", "fail", "done"}, target : Paths]
Services == [by : {"nobody", "window", "api"}, call : Nat, path : Paths, stopped : BOOLEAN,
             left : Int, others : Nat]

HomeTypes ==
  /\ page \in Pages /\ calls \in Seq(Calls) /\ chosen \in Seq(Paths)
  /\ wire \in Seq(Wired) /\ serving \in Services

\* The calls so far, against the choices so far.
Booked(cs, choices) ==
  \A k \in DOMAIN cs :
    /\ cs[k].choice \in DOMAIN choices
    /\ \A l \in 1 .. k - 1 : cs[l].choice # cs[k].choice
    /\ cs[k].at = "runtimes" \/ (cs[k].at = "run" /\ ~cs[k].moved)
       => cs[k].path = choices[cs[k].choice]

\* The page still has the path of a call under which it was not changed.
Pending(p, cs) ==
  \A k \in DOMAIN cs :
    cs[k].at = "runtimes" /\ ~cs[k].moved => cs[k].path = p.path /\ p.path # NoInput

\* A path that is not the last one is the last choice, and no call was for it.
Unserved(p, cs, choices) ==
  p.path \notin {NoInput, p.last} =>
    /\ choices # << >> /\ choices[Len(choices)] = p.path
    /\ \A k \in DOMAIN cs : cs[k].choice # Len(choices)

HomeInv ==
  HomeTypes /\ Booked(calls, chosen) /\ Pending(page, calls) /\ Unserved(page, calls, chosen)

\* The effects of the page keep that.
LEMMA SettlesKeeps ==
  ASSUME NEW p \in Pages, NEW cs \in Seq(Calls), NEW choices \in Seq(Paths),
         Booked(cs, choices), Pending(p, cs), Unserved(p, cs, choices), Settles(p, choices, cs)
  PROVE  /\ page' \in Pages /\ calls' \in Seq(Calls) /\ chosen' \in Seq(Paths)
         /\ Booked(calls', chosen') /\ Pending(page', calls') /\ Unserved(page', calls', chosen')
<1>1. chosen' = choices
  BY DEF Settles
<1>2. CASE AutoStarts(p)
  <2> DEFINE call == [path |-> p.path, choice |-> Len(choices), at |-> "runtimes",
                   moved |-> FALSE]
  <2>1. page' = [p EXCEPT !.last = p.path, !.phase = "busy"] /\ calls' = Append(cs, call)
    <3>1. calls' = Append(cs, call)
      BY <1>2 DEF Settles
    <3>2. page' = [p EXCEPT !.last = p.path, !.phase = "busy"]
      <4> HIDE DEF call
      <4>1. QED
        BY <1>2, SMT DEF Settles, AutoStarts
    <3>3. QED
      BY <3>1, <3>2
  <2>2. call \in Calls
    BY DEF Calls, Pages
  <2>3. choices # << >> /\ choices[Len(choices)] = p.path
        /\ \A k \in DOMAIN cs : cs[k].choice # Len(choices)
    BY <1>2 DEF AutoStarts, Unserved
  <2>4. Len(choices) \in DOMAIN choices
    BY <2>3
  <2>5. /\ calls' \in Seq(Calls) /\ DOMAIN calls' = 1 .. Len(cs) + 1
        /\ calls'[Len(cs) + 1] = call
        /\ \A k \in DOMAIN cs : calls'[k] = cs[k]
    <3> HIDE DEF call
    <3>1. QED
      BY <2>1, <2>2
  <2>6. Booked(calls', choices)
    <3>1. SUFFICES ASSUME NEW k \in DOMAIN calls'
                   PROVE  /\ calls'[k].choice \in DOMAIN choices
                          /\ \A l \in 1 .. k - 1 : calls'[l].choice # calls'[k].choice
                          /\ calls'[k].at = "runtimes" \/ (calls'[k].at = "run" /\ ~calls'[k].moved)
                             => calls'[k].path = choices[calls'[k].choice]
      BY DEF Booked
    <3>2. CASE k \in DOMAIN cs
      <4>1. \A l \in 1 .. k - 1 : l \in DOMAIN cs
        BY <3>2
      <4>2. QED
        BY <2>5, <3>2, <4>1 DEF Booked
    <3>3. CASE k \notin DOMAIN cs
      <4>1. k = Len(cs) + 1 /\ \A l \in 1 .. k - 1 : l \in DOMAIN cs
        BY <2>5, <3>1, <3>3
      <4>2. QED
        BY <2>3, <2>4, <2>5, <4>1
    <3>4. QED
      BY <3>2, <3>3
  <2>7. page' \in Pages /\ page'.path = page'.last /\ page'.path = p.path
    BY <2>1 DEF Pages
  <2>8. Pending(page', calls')
    <3>1. call.path = p.path /\ p.path # NoInput
      BY <1>2 DEF AutoStarts
    <3>2. \A k \in DOMAIN calls' : k \in DOMAIN cs \/ k = Len(cs) + 1
      BY <2>5
    <3> HIDE DEF call
    <3>3. QED
      BY <2>5, <2>7, <3>1, <3>2 DEF Pending
  <2>9. QED
    BY <1>1, <2>5, <2>6, <2>7, <2>8 DEF Unserved
<1>3. CASE ~AutoStarts(p)
  <2>1. calls' = cs /\ (page' = p \/ (p.path = NoInput /\ page' = [p EXCEPT !.last = NoInput]))
    BY <1>3 DEF Settles
  <2>2. page' \in Pages /\ page'.path = p.path /\ (page' = p \/ page'.path = NoInput)
    BY <2>1 DEF Pages, Paths
  <2>3. QED
    BY <1>1, <2>1, <2>2 DEF Pending, Unserved
<1>4. QED
  BY <1>2, <1>3

\* What keeps the calls and their choices, and makes none pending, keeps that.
LEMMA RestatedKeeps ==
  ASSUME HomeInv, NEW cs, DOMAIN cs = DOMAIN calls, cs = [l \in DOMAIN cs |-> cs[l]],
         \A l \in DOMAIN calls :
           /\ cs[l] \in Calls /\ cs[l].choice = calls[l].choice
           /\ \/ cs[l].at \notin {"runtimes", "run"}
              \/ /\ cs[l].at = calls[l].at /\ cs[l].path = calls[l].path
                 /\ calls[l].moved => cs[l].moved
              \/ /\ cs[l].at = "run" /\ calls[l].at = "runtimes" /\ cs[l].path = page.path
                 /\ cs[l].moved = calls[l].moved
  PROVE  /\ cs \in Seq(Calls) /\ Booked(cs, chosen)
         /\ \A p \in Pages : Unserved(p, calls, chosen) => Unserved(p, cs, chosen)
         /\ \A p \in Pages : p.path = page.path => Pending(p, cs)
<1>1. DOMAIN calls = 1 .. Len(calls) /\ Len(calls) \in Nat
      /\ \A l \in DOMAIN calls : calls[l] \in Calls
  BY DEF HomeInv, HomeTypes
<1>2. cs \in Seq(Calls)
  BY <1>1
<1>3. Booked(cs, chosen)
  <2>1. \A m \in DOMAIN calls : \A l \in 1 .. m - 1 : l \in DOMAIN calls
    BY <1>1
  <2>2. ASSUME NEW m \in DOMAIN calls,
               cs[m].at = "runtimes" \/ (cs[m].at = "run" /\ ~cs[m].moved)
        PROVE  cs[m].path = chosen[cs[m].choice]
    <3>1. cs[m].choice = calls[m].choice
      OBVIOUS
    <3>2. CASE /\ cs[m].at = calls[m].at /\ cs[m].path = calls[m].path
               /\ calls[m].moved => cs[m].moved
      BY <2>2, <3>1, <3>2 DEF HomeInv, Booked
    <3>3. CASE /\ cs[m].at = "run" /\ calls[m].at = "runtimes" /\ cs[m].path = page.path
               /\ cs[m].moved = calls[m].moved
      BY <2>2, <3>1, <3>3 DEF HomeInv, Booked, Pending
    <3>4. QED
      BY <2>2, <3>2, <3>3
  <2>3. QED
    BY <2>1, <2>2 DEF HomeInv, Booked
<1>4. \A p \in Pages : Unserved(p, calls, chosen) => Unserved(p, cs, chosen)
  BY DEF Unserved
<1>5. ASSUME NEW p \in Pages, p.path = page.path PROVE Pending(p, cs)
  BY <1>1, <1>5 DEF HomeInv, Pending
<1>6. QED
  BY <1>2, <1>3, <1>4, <1>5

\* A call that is past the check of the runtimes.
LEMMA CallAtKeeps ==
  ASSUME NEW k, NEW to \in {"over", "dropped", "failed", "cancelled", "served"}, HomeInv
  PROVE  /\ CallAt(k, to) \in Seq(Calls)
         /\ Booked(CallAt(k, to), chosen)
         /\ \A p \in Pages : Unserved(p, calls, chosen) => Unserved(p, CallAt(k, to), chosen)
         /\ \A p \in Pages : p.path = page.path => Pending(p, CallAt(k, to))
<1> DEFINE cs == CallAt(k, to)
<1>1. \A l \in DOMAIN calls : calls[l] \in Calls
  BY DEF HomeInv, HomeTypes
<1>2. DOMAIN cs = DOMAIN calls /\ cs = [l \in DOMAIN cs |-> cs[l]]
  BY DEF CallAt
<1>3. ASSUME NEW l \in DOMAIN calls
      PROVE  IF l = k THEN cs[l] = [calls[l] EXCEPT !.at = to, !.path = NoInput, !.moved = FALSE]
                      ELSE cs[l] = calls[l]
  BY DEF CallAt
<1>4. ASSUME NEW l \in DOMAIN calls
      PROVE  /\ cs[l] \in Calls /\ cs[l].choice = calls[l].choice
             /\ cs[l].at \notin {"runtimes", "run"} \/ cs[l] = calls[l]
  <2> HIDE DEF cs
  <2>1. QED
    BY <1>1, <1>3 DEF Calls, Paths
<1> HIDE DEF cs
<1>5. /\ cs \in Seq(Calls) /\ Booked(cs, chosen)
      /\ \A p \in Pages : Unserved(p, calls, chosen) => Unserved(p, cs, chosen)
      /\ \A p \in Pages : p.path = page.path => Pending(p, cs)
  BY <1>2, <1>4, RestatedKeeps
<1>6. QED
  BY <1>5 DEF cs

\* A call that gives Run the page's path.
LEMMA GivenKeeps ==
  ASSUME NEW k, calls[k].at = "runtimes", HomeInv
  PROVE  /\ Given(k) \in Seq(Calls) /\ Booked(Given(k), chosen)
         /\ Unserved(page, Given(k), chosen) /\ Pending(page, Given(k))
<1> DEFINE cs == Given(k)
<1>1. \A l \in DOMAIN calls : calls[l] \in Calls
  BY DEF HomeInv, HomeTypes
<1>2. DOMAIN cs = DOMAIN calls /\ cs = [l \in DOMAIN cs |-> cs[l]]
  BY DEF Given
<1>3. ASSUME NEW l \in DOMAIN calls
      PROVE  IF l = k THEN cs[l] = [calls[l] EXCEPT !.at = "run", !.path = page.path]
                      ELSE cs[l] = calls[l]
  BY DEF Given
<1>4. ASSUME NEW l \in DOMAIN calls
      PROVE  /\ cs[l] \in Calls /\ cs[l].choice = calls[l].choice
             /\ \/ cs[l] = calls[l]
                \/ /\ cs[l].at = "run" /\ calls[l].at = "runtimes" /\ cs[l].path = page.path
                   /\ cs[l].moved = calls[l].moved
  <2>1. page.path \in Paths
    BY DEF HomeInv, HomeTypes, Pages
  <2> HIDE DEF cs
  <2>2. QED
    BY <1>1, <1>3, <2>1 DEF Calls
<1> HIDE DEF cs
<1>5. page \in Pages /\ Unserved(page, calls, chosen)
  BY DEF HomeInv, HomeTypes
<1>6. /\ cs \in Seq(Calls) /\ Booked(cs, chosen)
      /\ Unserved(page, cs, chosen) /\ Pending(page, cs)
  BY <1>2, <1>4, <1>5, RestatedKeeps
<1>7. QED
  BY <1>6 DEF cs

\* When the user changes the path no call is pending that the page still has
\* the path of, whatever the path is then.
LEMMA MovedKeeps ==
  ASSUME HomeInv
  PROVE  /\ Moved \in Seq(Calls) /\ Booked(Moved, chosen)
         /\ \A p \in Pages : Unserved(p, calls, chosen) => Unserved(p, Moved, chosen)
         /\ \A p \in Pages : Pending(p, Moved)
         /\ DOMAIN Moved = DOMAIN calls
         /\ \A l \in DOMAIN calls : Moved[l].choice = calls[l].choice
<1>1. \A l \in DOMAIN calls : calls[l] \in Calls
  BY DEF HomeInv, HomeTypes
<1>2. DOMAIN Moved = DOMAIN calls /\ Moved = [l \in DOMAIN Moved |-> Moved[l]]
      /\ \A l \in DOMAIN calls :
           Moved[l] = [calls[l] EXCEPT !.moved = calls[l].moved \/ calls[l].at = "runtimes"]
  BY DEF Moved
<1>3. ASSUME NEW l \in DOMAIN calls
      PROVE  /\ Moved[l] \in Calls /\ Moved[l].choice = calls[l].choice
             /\ Moved[l].at = calls[l].at /\ Moved[l].path = calls[l].path
             /\ calls[l].moved => Moved[l].moved
             /\ calls[l].at = "runtimes" => Moved[l].moved
  <2>1. ASSUME NEW c1 \in Calls, NEW m \in BOOLEAN
        PROVE  LET c2 == [c1 EXCEPT !.moved = m]
               IN  /\ c2 \in Calls /\ c2.choice = c1.choice /\ c2.at = c1.at
                   /\ c2.path = c1.path /\ c2.moved = m
    BY DEF Calls
  <2> DEFINE m == calls[l].moved \/ calls[l].at = "runtimes"
  <2>2. calls[l] \in Calls /\ m \in BOOLEAN /\ Moved[l] = [calls[l] EXCEPT !.moved = m]
    BY <1>1, <1>2
  <2>3. /\ calls[l].moved => m
        /\ calls[l].at = "runtimes" => m
    OBVIOUS
  <2> HIDE DEF m
  <2>4. /\ Moved[l] \in Calls /\ Moved[l].choice = calls[l].choice
        /\ Moved[l].at = calls[l].at /\ Moved[l].path = calls[l].path
        /\ Moved[l].moved = m
    BY <2>1, <2>2
  <2>5. QED
    BY <2>3, <2>4, Zenon
<1>4. /\ Moved \in Seq(Calls) /\ Booked(Moved, chosen)
      /\ \A p \in Pages : Unserved(p, calls, chosen) => Unserved(p, Moved, chosen)
  BY <1>2, <1>3, RestatedKeeps
<1>5. \A p \in Pages : Pending(p, Moved)
  BY <1>2, <1>3 DEF Pending
<1>6. QED
  BY <1>2, <1>3, <1>4, <1>5

\* The service's runs, as far as the window sees them.
LEMMA RunBegins ==
  ASSUME NEW s \in Services, NEW by \in {"nobody", "window", "api"}, NEW call \in Nat,
         NEW path \in Paths, NEW left \in Int
  PROVE  [s EXCEPT !.by = by, !.call = call, !.path = path, !.left = left] \in Services
BY DEF Services

LEMMA RunBeginsElsewhere ==
  ASSUME NEW s \in Services, NEW path \in Paths, NEW left \in Int, NEW runs \in Nat
  PROVE  [s EXCEPT !.by = "api", !.call = 0, !.path = path, !.left = left,
                   !.others = runs] \in Services
BY DEF Services

LEMMA RunGoesOn ==
  ASSUME NEW s \in Services, NEW left \in Int
  PROVE  [s EXCEPT !.left = left] \in Services
BY DEF Services

LEMMA RunIsOver ==
  ASSUME NEW s \in Services, NEW path \in Paths, NEW call \in Nat, NEW left \in Int
  PROVE  [s EXCEPT !.by = "nobody", !.call = call, !.path = path, !.stopped = FALSE,
                   !.left = left] \in Services
BY DEF Services

\* A new choice is one that no call was for.
LEMMA ChoosesKeeps ==
  ASSUME HomeInv, NEW i \in Inputs, Chooses(i), UNCHANGED <<serving, wire>>
  PROVE  HomeInv'
<1> DEFINE p == [page EXCEPT !.path = i]
           choices == Append(chosen, i)
<1>1. p \in Pages /\ choices \in Seq(Paths) /\ Settles(p, choices, Moved)
  BY DEF HomeInv, HomeTypes, Pages, Paths, Chooses
<1>2. Len(choices) = Len(chosen) + 1 /\ choices[Len(choices)] = i /\ choices # << >>
      /\ \A k \in DOMAIN chosen : k \in DOMAIN choices /\ choices[k] = chosen[k] /\ k # Len(choices)
  BY DEF HomeInv, HomeTypes, Paths
<1>3. /\ Moved \in Seq(Calls) /\ Booked(Moved, chosen) /\ Pending(p, Moved)
      /\ \A l \in DOMAIN Moved : Moved[l].choice \in DOMAIN chosen
  BY <1>1, MovedKeeps DEF Booked
<1>4. Booked(Moved, choices) /\ Unserved(p, Moved, choices)
  <2>1. p.path = i
    BY DEF HomeInv, HomeTypes, Pages
  <2> HIDE DEF choices, p
  <2>2. QED
    BY <1>2, <1>3, <2>1 DEF Booked, Unserved
<1>5. QED
  <2> HIDE DEF choices, p
  <2>1. QED
    BY <1>1, <1>3, <1>4, SettlesKeeps DEF HomeInv, HomeTypes

\* Any other change of the page leaves path and last as they are, or equal, and
\* the path only where there was none.
LEMMA BecomesKeeps ==
  ASSUME HomeInv, NEW p \in Pages, p.path = page.path \/ page.path = NoInput,
         Unserved(p, calls, chosen), Becomes(p),
         serving' \in Services, wire' \in Seq(Wired)
  PROVE  HomeInv'
<1>1. Pending(p, calls)
  BY DEF HomeInv, Pending
<1>2. QED
  BY <1>1, SettlesKeeps DEF Becomes, HomeInv, HomeTypes

LEMMA HomeStep == HomeInv /\ [HomeNext]_homeVars => HomeInv'
<1> SUFFICES ASSUME HomeInv, [HomeNext]_homeVars PROVE HomeInv'
  OBVIOUS
<1> USE DEF HomeInv, HomeTypes
<1>1. CASE Choose \/ BrowseEnds
  BY <1>1, ChoosesKeeps DEF Choose, BrowseEnds
<1>2. CASE BrowseBegins
  BY <1>2 DEF BrowseBegins
<1>3. CASE Navigate
  <2>1. [page EXCEPT !.home = ~@] \in Pages /\ [page EXCEPT !.home = ~@].path = page.path
        /\ Unserved([page EXCEPT !.home = ~@], calls, chosen)
    BY DEF Pages, Unserved
  <2>2. QED
    BY <1>3, <2>1, BecomesKeeps DEF Navigate
<1>4. CASE Cancel
  BY <1>4 DEF Cancel, Services
<1>5. CASE Clear
  <2> DEFINE p == [page EXCEPT !.path = NoInput, !.last = NoInput, !.phase = "idle"]
  <2>1. p \in Pages /\ Unserved(p, Moved, chosen) /\ Settles(p, chosen, Moved)
    BY <1>5 DEF Clear, Pages, Paths, Unserved
  <2>2. Moved \in Seq(Calls) /\ Booked(Moved, chosen) /\ Pending(p, Moved)
    BY <2>1, MovedKeeps
  <2> HIDE DEF p
  <2>3. QED
    BY <1>5, <2>1, <2>2, SettlesKeeps DEF Clear
<1>6. CASE StartupEnds
  <2> DEFINE p == [page EXCEPT !.starting = FALSE]
  <2>1. p \in Pages /\ p.path = page.path /\ Unserved(p, calls, chosen) /\ Becomes(p)
    BY <1>6 DEF StartupEnds, Pages, Unserved
  <2> HIDE DEF p
  <2>2. QED
    BY <1>6, <2>1, BecomesKeeps DEF StartupEnds
<1>7. CASE Stopped
  <2> DEFINE p == [page EXCEPT !.phase = "cancelled"]
  <2>1. p \in Pages /\ p.path = page.path /\ Unserved(p, calls, chosen) /\ Becomes(p)
    BY <1>7 DEF Stopped, Pages, Unserved
  <2> HIDE DEF p
  <2>2. QED
    BY <1>7, <2>1, BecomesKeeps DEF Stopped
<1>8. CASE StatusKnown
  <2> DEFINE p == [page EXCEPT !.last = IF serving.by # "nobody" THEN page.path ELSE @]
  <2>1. p \in Pages /\ p.path = page.path /\ Unserved(p, calls, chosen) /\ Becomes(p)
    BY <1>8 DEF StatusKnown, Pages, Unserved
  <2> HIDE DEF p
  <2>2. QED
    BY <1>8, <2>1, BecomesKeeps DEF StatusKnown
<1>9. CASE Deliver
  <2> DEFINE p == Followed(Head(wire))
  <2>1. Head(wire) \in Wired /\ wire' \in Seq(Wired)
    BY <1>9 DEF Deliver
  <2>2. PhaseAfter(Head(wire)) \in {"idle", "busy", "done", "error", "cancelled"}
    BY <2>1 DEF PhaseAfter, Wired, Pages
  <2>3. /\ p \in Pages /\ Unserved(p, calls, chosen)
        /\ p.path = page.path \/ page.path = NoInput
    BY <2>1, <2>2 DEF Followed, Wired, Pages, Unserved
  <2>4. Becomes(p)
    BY <1>9 DEF Deliver
  <2> HIDE DEF p
  <2>5. QED
    BY <1>9, <2>1, <2>3, <2>4, BecomesKeeps DEF Deliver
<1>10. CASE CallNext
  <2>1. PICK k \in DOMAIN calls : CheckRuntimes(k) \/ RunCalled(k) \/ Rejected(k)
    BY <1>10 DEF CallNext
  <2>2. CASE calls[k].at = "runtimes" /\ calls' = Given(k) /\ UNCHANGED <<page, chosen, serving, wire>>
    BY <2>2, GivenKeeps
  <2>3. ASSUME NEW ph \in {"done", "cancelled", "error"},
               Settles([page EXCEPT !.phase = ph], chosen, CallAt(k, "over")),
               UNCHANGED <<serving, wire>>
        PROVE  HomeInv'
    <3> DEFINE p == [page EXCEPT !.phase = ph]
               cs == CallAt(k, "over")
    <3>1. p \in Pages /\ p.path = page.path /\ Unserved(p, calls, chosen)
      BY DEF Pages, Unserved
    <3>2. cs \in Seq(Calls) /\ Booked(cs, chosen) /\ Pending(p, cs) /\ Unserved(p, cs, chosen)
      BY <3>1, CallAtKeeps
    <3> HIDE DEF p, cs
    <3>3. Settles(p, chosen, cs)
      BY <2>3 DEF p, cs
    <3>4. QED
      BY <2>3, <3>1, <3>2, <3>3, SettlesKeeps
  <2>4. CASE RunCalled(k)
    <3>1. serving' \in Services
      <4>1. k \in Nat /\ calls[k].path \in Paths /\ MaxSent \in Int
        <5>1. calls[k] \in Calls
          OBVIOUS
        <5>2. k \in Nat
          OBVIOUS
        <5>3. MaxSent \in Int
          BY HomePageAssumption
        <5>4. QED
          BY <5>1, <5>2, <5>3 DEF Calls
      <4>2. serving' = serving
            \/ serving' = [serving EXCEPT !.by = "window", !.call = k, !.path = calls[k].path,
                                          !.left = MaxSent]
        BY <2>4 DEF RunCalled, Serves
      <4>3. QED
        <5>1. [serving EXCEPT !.by = "window", !.call = k, !.path = calls[k].path,
                              !.left = MaxSent] \in Services
          BY <4>1, RunBegins
        <5>2. QED
          BY <4>2, <5>1, Zenon
    <3>2. PICK to \in {"dropped", "failed", "served"} : calls' = CallAt(k, to)
      BY <2>4 DEF RunCalled
    <3>3. QED
      BY <2>4, <3>1, <3>2, CallAtKeeps DEF RunCalled
  <2>5. QED
    BY <2>1, <2>2, <2>3, <2>4 DEF CheckRuntimes, Rejected
<1>11. CASE RunElsewhere
  <2>1. serving' \in Services
    <3>1. PICK i \in Inputs :
            serving' = [serving EXCEPT !.by = "api", !.call = 0, !.path = i,
                                       !.left = MaxSent, !.others = serving.others + 1]
      BY <1>11, Zenon DEF RunElsewhere
    <3>2. i \in Paths /\ MaxSent \in Int /\ serving.others + 1 \in Nat
      BY HomePageAssumption DEF Paths, Services
    <3>3. [serving EXCEPT !.by = "api", !.call = 0, !.path = i, !.left = MaxSent,
                          !.others = serving.others + 1] \in Services
      BY <3>2, RunBeginsElsewhere
    <3>4. QED
      BY <3>1, <3>3, Zenon
  <2>2. QED
    BY <1>11, <2>1 DEF RunElsewhere
<1>12. CASE EngineSends
  <2>1. PICK kind \in {"step", "skip", "fail"} :
          wire' = Append(wire, [kind |-> kind, target |-> serving.path])
    BY <1>12 DEF EngineSends
  <2>2. [kind |-> kind, target |-> serving.path] \in Wired
    BY DEF Wired, Services
  <2>3. wire' \in Seq(Wired) /\ serving' \in Services
    <3>1. serving.left \in Int /\ serving' = [serving EXCEPT !.left = serving.left - 1]
      BY <1>12 DEF EngineSends, Services
    <3>2. serving' \in Services
      BY <3>1, RunGoesOn
    <3>3. QED
      BY <2>1, <2>2, <3>2
  <2>4. QED
    BY <1>12, <2>3 DEF EngineSends
<1>13. CASE EngineReturned
  <2>1. [kind |-> "done", target |-> NoInput] \in Wired
    BY DEF Wired, Paths
  <2>2. wire' \in Seq(Wired) /\ serving' \in Services
    <3>1. wire' = Append(wire, [kind |-> "done", target |-> NoInput])
          /\ serving' = [serving EXCEPT !.by = "nobody", !.call = 0, !.path = NoInput,
                                        !.stopped = FALSE, !.left = 0]
      BY <1>13 DEF EngineReturned
    <3>2. QED
      <4>1. wire' \in Seq(Wired)
        BY <2>1, <3>1
      <4>2. [serving EXCEPT !.by = "nobody", !.call = 0, !.path = NoInput,
                            !.stopped = FALSE, !.left = 0] \in Services
        <5>1. NoInput \in Paths
          BY DEF Paths
        <5>2. 0 \in Nat /\ 0 \in Int
          OBVIOUS
        <5>3. serving \in Services
          OBVIOUS
        <5>4. QED
          BY <5>1, <5>2, <5>3, RunIsOver, Zenon
      <4>3. QED
        BY <3>1, <4>1, <4>2, Zenon
  <2>3. calls' = calls \/ \E to \in {"over", "cancelled", "failed"} : calls' = CallAt(serving.call, to)
    BY <1>13 DEF EngineReturned
  <2>4. QED
    BY <1>13, <2>2, <2>3, CallAtKeeps DEF EngineReturned
<1>14. CASE UNCHANGED homeVars
  BY <1>14 DEF homeVars
<1>15. QED
  BY <1>1, <1>2, <1>3, <1>4, <1>5, <1>6, <1>7, <1>8, <1>9, <1>10, <1>11, <1>12, <1>13, <1>14
     DEF HomeNext

\* The window starts what its user has chosen, each choice once, and nothing that
\* it has only seen the events of; Run is given that choice, unless the user has
\* cleared or chosen the path while the runtimes were checked.
THEOREM BaseDirRunsOnlyChosen == Spec => []RunsOnlyChosen
<1>1. Init => HomeInv
  BY HomePageAssumption
     DEF Init, HomeInit, HomeInv, HomeTypes, Pages, Services, Paths, Booked, Pending, Unserved
<1>2. HomeInv /\ [Next]_vars => HomeInv'
  BY OnlyThatPart, HomeStep
<1>3. HomeInv => RunsOnlyChosen
  BY DEF HomeInv, Booked, RunsOnlyChosen
<1>4. QED
  BY <1>1, <1>2, <1>3, PTL DEF Spec
=============================================================================
