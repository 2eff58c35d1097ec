------------------------------ MODULE SharedFiles -----------------------------
(***************************************************************************)
(* The three small files several threads of several processes read, change *)
(* and write back: the settings (internal/config, api/handlers.go,         *)
(* services/config_service.go), the lock file of installed tools           *)
(* (tools/lock.go) and the cache of releases (tools/github.go).            *)
(*                                                                         *)
(* A file that is truncated and then written can be seen, or be left by a  *)
(* crash, empty; one that is renamed into place cannot.                    *)
(***************************************************************************)
EXTENDS Naturals, FiniteSets

CONSTANTS Threads,       \* those that use the files
          Remote,        \* those of them in a second process, the command line
          Settings,      \* setting keys
          Allowed,       \* those the API may change
          Forms,         \* the threads that are the window's own settings page
          Tools,         \* tools with an entry in the lock file
          TTL,           \* releaseCacheTTL
          MaxTime,       \* bound: ticks of the clock
          MaxRelease     \* bound: releases published

ASSUME SharedFilesAssumption ==
    /\ Remote \union Forms \subseteq Threads /\ Allowed \subseteq Settings
    /\ {TTL, MaxTime, MaxRelease} \subseteq Nat \ {0}

VARIABLES cfg,          \* the settings file: its values, or Truncated
          prior,        \* history: the last values written to it
          lock,         \* the lock file: the tag of each tool, or Corrupt
          cache,        \* the cached release: its tag and time, or NoEntry
          held,         \* lockMu and cacheMu of a process: whether they are taken
          fstep,        \* the step of a thread
          job,          \* what it is to change
          copy,         \* what it has read: nothing or one value
          overlapped,   \* history: another's write came between its read and write
          now,          \* the clock
          published,    \* history: the time of each release, the last one is current
          answer        \* the last that fetchReleaseCached returned

sharedVars == <<cfg, prior, lock, cache, held, fstep, job, copy, overlapped, now,
                published, answer>>
world    == <<now, published>>
settings == <<cfg, prior>>

Truncated == [k \in Settings |-> "cut off"]
Corrupt   == [t \in Tools |-> "corrupt"]
NoEntry   == [tag |-> 0, at |-> 0]       \* the cache is absent or cut off
NoJob     == [key |-> "none", val |-> "none"]

Defaults == [k \in Settings |-> "default"]
NoTools  == [t \in Tools |-> "none"]
NoAnswer == [tag |-> 0, at |-> 0, live |-> FALSE]

ProcessOf(a) == IF a \in Remote THEN "command line" ELSE "window"

SharedInit ==
    /\ cfg \in {Defaults, [k \in Settings |-> "user"]}
    /\ prior = cfg
    /\ lock \in {NoTools, Corrupt}
    /\ cache = NoEntry
    /\ held = {}
    /\ fstep = [a \in Threads |-> "idle"]
    /\ job = [a \in Threads |-> NoJob]
    /\ copy = [a \in Threads |-> {}]
    /\ overlapped = [a \in Threads |-> FALSE]
    /\ now = 0
    /\ published = <<0>>
    /\ answer = NoAnswer

Goes(a, s)   == fstep' = [fstep EXCEPT ![a] = s]
Keeps(a, v)  == copy' = [copy EXCEPT ![a] = {v}]
Read(a)      == CHOOSE v \in copy[a] : TRUE
\* Every other thread that has read and not yet written is overlapped.
Overlaps(a)  == overlapped' = [b \in Threads |-> overlapped[b] \/ b # a]
Ends(a)      == /\ Goes(a, "idle")
                /\ job' = [job EXCEPT ![a] = NoJob]
                /\ copy' = [copy EXCEPT ![a] = {}]

(***************************************************************************)
(* Settings.  A request changes one key (handleUpdateSettings); the window *)
(* saves the whole configuration it has loaded, with what the user changed *)
(* in it, which is again a key.  Neither takes a lock, and Save truncates  *)
(* the file before it writes.                                              *)
(***************************************************************************)
\* An absent or an empty file is the defaults.
Loaded(file) == IF file = Truncated THEN Defaults ELSE file

SettingAsked(a) ==
    /\ fstep[a] = "idle" /\ a \notin Remote
    /\ \E k \in IF a \in Forms THEN Settings ELSE Allowed, v \in {"on", "off"} :
         job' = [job EXCEPT ![a] = [key |-> k, val |-> v]]
    /\ Keeps(a, Loaded(cfg))
    /\ Goes(a, "set")
    \* Read in the middle of another's write, a file says nothing.
    /\ overlapped' = [overlapped EXCEPT ![a] = (cfg = Truncated)]
    /\ UNCHANGED <<settings, lock, cache, held, world, answer>>

Mut_ChangedOverDefaults(config, key, val) == [Defaults EXCEPT ![key] = val]

\* The value decoded over the configuration that was read; one of another type
\* than the setting's is refused and nothing is written.
Changed(config, key, val) == [config EXCEPT ![key] = val]

SettingTruncates(a) ==
    /\ fstep[a] = "set"
    /\ \/ /\ cfg' = Truncated
          /\ Goes(a, "save")
          /\ Overlaps(a)
          /\ UNCHANGED <<job, copy>>
       \/ Ends(a) /\ UNCHANGED <<cfg, overlapped>>
    /\ UNCHANGED <<prior, lock, cache, held, world, answer>>

SettingSaved(a) ==
    /\ fstep[a] = "save"
    /\ cfg' = Changed(Read(a), job[a].key, job[a].val)
    /\ prior' = cfg'
    /\ Overlaps(a)
    /\ Ends(a)
    /\ UNCHANGED <<lock, cache, held, world, answer>>

SettingsNext == \E a \in Threads : SettingAsked(a) \/ SettingTruncates(a) \/ SettingSaved(a)

(***************************************************************************)
(* RecordInstall, under the lockMu of its process.  A corrupt file is an   *)
(* empty one.  The new file is renamed into place or not written at all.   *)
(***************************************************************************)
ReadLock(file) == IF file = Corrupt THEN NoTools ELSE file

Mut_NoLockMu(a) == TRUE

MayEnter(a) == ProcessOf(a) \notin held

RecordBegin(a) ==
    /\ fstep[a] = "idle" /\ MayEnter(a)
    /\ held' = held \union {ProcessOf(a)}
    /\ \E t \in Tools, tag \in {"v1", "v2"} : job' = [job EXCEPT ![a] = [key |-> t, val |-> tag]]
    /\ Keeps(a, ReadLock(lock))
    /\ Goes(a, "record")
    /\ overlapped' = [overlapped EXCEPT ![a] = FALSE]
    /\ UNCHANGED <<settings, lock, cache, world, answer>>

WriteLock(a) ==
    /\ fstep[a] = "record"
    /\ \/ /\ lock' = [Read(a) EXCEPT ![job[a].key] = job[a].val]
          /\ overlapped' = [b \in Threads |->
                 overlapped[b] \/ ProcessOf(b) # ProcessOf(a)]
       \/ UNCHANGED <<lock, overlapped>>
    /\ held' = held \ {ProcessOf(a)}
    /\ Ends(a)
    /\ UNCHANGED <<settings, cache, world, answer>>

LockNext == \E a \in Threads : RecordBegin(a) \/ WriteLock(a)

(***************************************************************************)
(* fetchReleaseCached, under the cacheMu of its process, which is held     *)
(* over the call to the API.                                               *)
(***************************************************************************)
Current == Cardinality(DOMAIN published)

Mut_FreshForOneMore(entry) == entry # NoEntry /\ now - entry.at <= TTL

Fresh(entry) == entry # NoEntry /\ now - entry.at < TTL

Answers(tag, live) == answer' = [tag |-> tag, at |-> now, live |-> live]

FetchBegin(a) ==
    /\ fstep[a] = "idle" /\ MayEnter(a)
    /\ IF Fresh(cache)
       THEN Answers(cache.tag, TRUE) /\ UNCHANGED <<held, fstep, copy>>
       ELSE /\ held' = held \union {ProcessOf(a)}
            /\ Keeps(a, cache)
            /\ Goes(a, "call")
            /\ UNCHANGED answer
    /\ UNCHANGED <<settings, lock, cache, job, overlapped, world>>

\* Without an answer the entry that was read is used, however old it is.
FetchCalls(a) ==
    /\ fstep[a] = "call"
    /\ \/ /\ Answers(Current, TRUE)
          /\ Keeps(a, [tag |-> Current, at |-> now])
          /\ cache' = NoEntry
          /\ Goes(a, "store")
          /\ UNCHANGED <<held, job>>
       \/ /\ IF Read(a) # NoEntry THEN Answers(Read(a).tag, FALSE) ELSE UNCHANGED answer
          /\ held' = held \ {ProcessOf(a)}
          /\ Ends(a)
          /\ UNCHANGED cache
    /\ UNCHANGED <<settings, lock, overlapped, world>>

SaveReleaseCache(a) ==
    /\ fstep[a] = "store"
    /\ cache' = Read(a)
    /\ held' = held \ {ProcessOf(a)}
    /\ Ends(a)
    /\ UNCHANGED <<settings, lock, overlapped, world, answer>>

Tick ==
    /\ now < MaxTime
    /\ now' = now + 1
    /\ UNCHANGED <<settings, lock, cache, held, fstep, job, copy, overlapped, published, answer>>

Released ==
    /\ Current < MaxRelease
    /\ published' = [i \in 1 .. Current + 1 |-> IF i <= Current THEN published[i] ELSE now]
    /\ UNCHANGED <<settings, lock, cache, held, fstep, job, copy, overlapped, now, answer>>

CacheNext ==
    \/ Tick \/ Released
    \/ \E a \in Threads : FetchBegin(a) \/ FetchCalls(a) \/ SaveReleaseCache(a)

\* A process ends, with all its threads, wherever they are.
Killed(p) ==
    LET dead == {a \in Threads : ProcessOf(a) = p}
    IN /\ \E a \in dead : fstep[a] # "idle"
       /\ fstep' = [a \in Threads |-> IF a \in dead THEN "idle" ELSE fstep[a]]
       /\ job' = [a \in Threads |-> IF a \in dead THEN NoJob ELSE job[a]]
       /\ copy' = [a \in Threads |-> IF a \in dead THEN {} ELSE copy[a]]
       /\ held' = held \ {p}
       /\ UNCHANGED <<settings, lock, cache, overlapped, world, answer>>

(***************************************************************************)
(* Properties.                                                             *)
(***************************************************************************)
\* A request for one setting leaves every other as it was, the token included,
\* unless another writer came between its reading and its writing, or had been cut
\* off or was in the middle of its own: it decodes over what it has read.
SettingKeepsOthers ==
    [][\A a \in Threads :
          fstep[a] = "save" /\ fstep'[a] = "idle" /\ cfg' # cfg /\ ~overlapped[a]
          => \A k \in Settings \ {job[a].key} : cfg'[k] = prior[k]]_sharedVars

\* "The read-modify-write is mutex-guarded and preserves all existing entries":
\* of one process's installations none loses another's entry, and only the command
\* line's, in a process of its own, can cost the window's one.
LockKeepsRecords ==
    [][\A a \in Threads :
          fstep[a] = "record" /\ lock' # lock /\ fstep'[a] = "idle" /\ ~overlapped[a]
          => \A t \in Tools \ {job[a].key} : lock'[t] = ReadLock(lock)[t]]_sharedVars

\* What fetchReleaseCached returns while the API can be reached has been the newest
\* release at some time within the last hour, whoever wrote the cache and however
\* often calls have failed in between: a fallback does not make an entry younger.
AnswerWasLatest ==
    answer.live => \/ answer.tag = Current
                   \/ published[answer.tag + 1] + TTL > answer.at
=============================================================================
