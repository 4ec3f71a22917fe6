---------------------------- MODULE LocalRuntime ----------------------------
(***************************************************************************)
(* The local model of every window (bridge/LocalRuntime.ts) and the lock   *)
(* file that is to keep the windows of one user to one model.  A window is *)
(* one JavaScript thread: what stands between two awaits of its start runs *)
(* without its own stop, but not without the other windows, which may come *)
(* between any two operations on the file.                                 *)
(***************************************************************************)
EXTENDS Naturals, FiniteSets

CONSTANTS
  Windows,        \* the extension hosts; a window stands for its process id
  Crashes         \* whether an extension host may end without a stop

ASSUME RuntimeAssumption ==
  /\ Windows \cap {"absent", "stale", "invalid"} = {}
  /\ Crashes \in BOOLEAN

VARIABLES
  lock,           \* the file: absent, of a crashed window, without an id, or a window's own
  loading,        \* window -> where its start is
  engine,         \* window -> the guardian and the model it runs
  release,        \* the windows that will remove the lock
  mishap,         \* window -> what befell its last lock before the model was up
  stolen          \* a lock was removed as a dead window's that was a living one's by then

\* The last two are history: the code keeps no record of either.
lockVars == <<lock, engine, release, mishap, stolen>>
runtimeVars == <<loading, lockVars>>

Phases == {"idle", "stopping", "reading", "removing", "creating", "writing",
           "port", "loading", "failing", "loaded", "failed", "crashed"}

RuntimeTypeOK ==
  /\ lock \in Windows \cup {"absent", "stale", "invalid"}
  /\ loading \in [Windows -> Phases]
  /\ engine \in [Windows -> {"none", "up", "ending"}]
  /\ release \subseteq Windows
  /\ mishap \in [Windows -> {"none", "early", "cut"}]
  /\ stolen \in BOOLEAN

RuntimeInit ==
  /\ lock = "absent"
  /\ loading = [w \in Windows |-> "idle"]
  /\ engine = [w \in Windows |-> "none"]
  /\ release = {}
  /\ mishap = [w \in Windows |-> "none"]
  /\ stolen = FALSE

Loading(w, phase) == loading' = [loading EXCEPT ![w] = phase]

Meets(w, what) == mishap' = [mishap EXCEPT ![w] = what]

\* this.release: it removes the file, whoever wrote it.
Released(w) == /\ lock' = IF w \in release THEN "absent" ELSE lock
               /\ release' = release \ {w}

\* stop: with a process, ask it to end; without one, give the lock back, also if a start
\* holds it that has yet to spawn its process and will not be told.
StopEngine(w) ==
  \/ /\ engine[w] = "none"
     /\ Released(w)
     /\ IF loading[w] = "port" THEN Meets(w, "early") ELSE UNCHANGED mishap
     /\ UNCHANGED <<engine, stolen>>
  \/ /\ engine[w] # "none"
     /\ engine' = [engine EXCEPT ![w] = "ending"]
     /\ UNCHANGED <<lock, release, mishap, stolen>>

\* start, up to the end of its own stop.
StartRuntime(w) ==
  /\ loading[w] = "idle"
  /\ StopEngine(w)
  /\ Loading(w, "stopping")

StopReturns(w) ==
  /\ loading[w] = "stopping" /\ engine[w] = "none"
  /\ Loading(w, "reading")
  /\ UNCHANGED lockVars

\* The id of a living window, its own included, or none at all refuses the start.
ReadLock(w) ==
  /\ loading[w] = "reading"
  /\ \/ lock = "absent" /\ Loading(w, "creating")
     \/ lock = "stale"  /\ Loading(w, "removing")
     \/ lock \in Windows \cup {"invalid"} /\ Loading(w, "failed")
  /\ UNCHANGED lockVars

\* What has become of the file since it was read does not matter.
RemoveStaleLock(w) ==
  /\ loading[w] = "removing"
  /\ lock' = "absent"
  /\ stolen' = (stolen \/ lock \in Windows)
  /\ Loading(w, "creating")
  /\ UNCHANGED <<engine, release, mishap>>

\* Mutant: the file is opened for writing, whether it exists or not.
CreateLockAnyway(w) ==
  /\ loading[w] = "creating"
  /\ lock' = w
  /\ Meets(w, "none")
  /\ Loading(w, "writing")
  /\ UNCHANGED <<engine, release, stolen>>

\* openSync(lock, 'wx'): only a file that does not exist.
CreateLock(w) ==
  /\ loading[w] = "creating"
  /\ \/ /\ lock = "absent"
        /\ lock' = w
        /\ Meets(w, "none")
        /\ Loading(w, "writing")
     \/ /\ lock # "absent"
        /\ Loading(w, "failed")
        /\ UNCHANGED <<lock, mishap>>
  /\ UNCHANGED <<engine, release, stolen>>

\* The id is written into the file, the file closed, and only then release set: a write
\* that fails leaves a file without an id, a failing close one that nobody will remove.
WriteLock(w) ==
  /\ loading[w] = "writing"
  /\ \/ /\ release' = release \cup {w}
        /\ Loading(w, "port")
        /\ UNCHANGED <<lock, mishap>>
     \/ /\ lock' \in {lock, IF lock = w THEN "invalid" ELSE lock}
        /\ Meets(w, "cut")
        /\ Loading(w, "failed")
        /\ UNCHANGED release
  /\ UNCHANGED <<engine, stolen>>

\* A port has been found: spawn the process, unless the signal is aborted.  No port, or an
\* aborted signal: give the lock back.
SpawnEngine(w, aborted) ==
  /\ loading[w] = "port"
  /\ \/ /\ Released(w)
        /\ Loading(w, "failed")
        /\ UNCHANGED engine
     \/ /\ ~aborted
        /\ engine' = [engine EXCEPT ![w] = "up"]
        /\ Loading(w, "loading")
        /\ UNCHANGED <<lock, release>>
  /\ UNCHANGED <<mishap, stolen>>

EngineAnswers(w, aborted) ==
  /\ loading[w] = "loading" /\ engine[w] = "up" /\ ~aborted
  /\ Loading(w, "loaded")
  /\ UNCHANGED lockVars

\* The process is gone, its context is not the configured one, the start is aborted,
\* or five minutes are over.
LoadFails(w) ==
  /\ loading[w] = "loading"
  /\ StopEngine(w)
  /\ Loading(w, "failing")

FailureReturns(w) ==
  /\ loading[w] = "failing" /\ engine[w] = "none"
  /\ Loading(w, "failed")
  /\ UNCHANGED lockVars

\* Mutant: the end of the process does not give the lock back.
EngineClosesKeepingLock(w) ==
  /\ engine[w] # "none"
  /\ engine' = [engine EXCEPT ![w] = "none"]
  /\ UNCHANGED <<lock, loading, release, mishap, stolen>>

\* The process ends, because it was asked to or by itself.
EngineCloses(w) ==
  /\ engine[w] # "none"
  /\ engine' = [engine EXCEPT ![w] = "none"]
  /\ Released(w)
  /\ UNCHANGED <<loading, mishap, stolen>>

\* What a window's runtime does once it has been called.
RuntimeRuns(w, aborted) ==
  \/ StopReturns(w) \/ ReadLock(w) \/ RemoveStaleLock(w) \/ CreateLock(w)
  \/ WriteLock(w) \/ SpawnEngine(w, aborted)
  \/ EngineAnswers(w, aborted) \/ LoadFails(w) \/ FailureReturns(w) \/ EngineCloses(w)

\* The caller of start has its answer.
StartReturns(w) ==
  /\ loading[w] \in {"loaded", "failed"}
  /\ Loading(w, "idle")
  /\ UNCHANGED lockVars

CallStop(w) ==
  /\ loading[w] # "crashed"
  /\ StopEngine(w)
  /\ UNCHANGED loading

\* The extension host is gone.  Its guardian reads the end of its input and ends the
\* model; nobody removes the lock, which may have no id yet.
Crash(w) ==
  /\ Crashes /\ loading[w] # "crashed"
  /\ Loading(w, "crashed")
  /\ engine' = [engine EXCEPT ![w] = IF @ = "up" THEN "ending" ELSE @]
  /\ IF loading[w] = "writing"
       THEN lock' \in (IF lock = w THEN {"invalid", "stale"} ELSE {lock}) /\ Meets(w, "cut")
       ELSE lock' = (IF lock = w THEN "stale" ELSE lock) /\ UNCHANGED mishap
  /\ release' = release \ {w}
  /\ UNCHANGED stolen

RuntimeNext ==
  \E w \in Windows :
    \/ StartRuntime(w) \/ StartReturns(w) \/ CallStop(w) \/ Crash(w)
    \/ \E aborted \in BOOLEAN : RuntimeRuns(w, aborted)

RuntimeSpec == RuntimeInit /\ [][RuntimeNext]_runtimeVars
-----------------------------------------------------------------------------
\* Two windows do not both run a model that nobody has asked to end (LocalRuntime.ts:45, the
\* lock file), whatever fails, is aborted, is stopped or crashes, with two exceptions: a
\* window whose start was stopped while it waited for its port runs without the lock, and
\* once a lock has been taken for a dead window's that was a new one by then, nothing is promised.
OneModel ==
  ~stolen => \A v, w \in Windows :
    /\ engine[v] = "up" /\ mishap[v] # "early"
    /\ engine[w] = "up" /\ mishap[w] # "early"
    => v = w

\* A window that is neither starting nor running a model does not lock the others out, nor
\* itself (its next start would refuse its own id), unless the creation of its lock was
\* itself cut short: only then is there a lock without an id, or one with the id of a
\* window that will not remove it (removeLock; LocalRuntime.ts:56-58).
LockIsGivenBack ==
  /\ lock = "invalid" => \E w \in Windows : mishap[w] = "cut"
  /\ \A w \in Windows :
       lock = w => \/ loading[w] \in {"writing", "port"}
                   \/ engine[w] # "none"
                   \/ mishap[w] = "cut"
-----------------------------------------------------------------------------
\* What the sources say, and TLC finds the code does not keep; no run checks it.

\* "One model per OS user on this host, across VS Code windows/workspaces"
\* (LocalRuntime.ts:45).
OneModelPerUser ==
  \A v, w \in Windows : engine[v] = "up" /\ engine[w] = "up" => v = w
=============================================================================
