------------------------ MODULE BridgeManager_proofs ------------------------
(***************************************************************************)
(* What holds of the lock of the local model for any number of windows,    *)
(* and of a window's bridge for any settings, commands and processes,      *)
(* whatever is killed or dies at whichever await.                          *)
(***************************************************************************)
EXTENDS BridgeManager, TLAPS

(***************************************************************************)
(* The lock of the local model.                                            *)
(***************************************************************************)
AtMostTwo == \A u, v, w \in Windows : u = v \/ v = w \/ u = w
Crashed(w) == loading[w] = "crashed"

\* A lock without an id is that of a creation cut short, and of a window that is done with
\* its start the lock is too: otherwise the window of the lock is creating it, or will
\* remove it, which it stops to want only when it does, and it has a process or is about to.
HeldForAReason ==
  /\ lock = "invalid" => \E w \in Windows : mishap[w] = "cut"
  /\ \A w \in Windows :
       /\ lock = w => w \in release \/ loading[w] = "writing" \/ mishap[w] = "cut"
       /\ w \in release => loading[w] = "port" \/ engine[w] # "none"
       /\ Crashed(w) => lock # w /\ w \notin release /\ engine[w] # "up"
       /\ loading[w] \in {"reading", "removing", "creating", "writing", "port"} =>
            engine[w] = "none"

\* Who is to remove the lock, and who runs a model unless its start was stopped too early,
\* is named in it, until somebody removes the lock of another.
LockIsOwned ==
  \A w \in Windows :
    /\ ~stolen /\ w \in release => lock = w
    /\ ~stolen /\ loading[w] = "writing" => lock = w
    /\ engine[w] = "up" \/ loading[w] = "port" => w \in release \/ mishap[w] = "early"

LockInv == RuntimeTypeOK /\ HeldForAReason /\ LockIsOwned

\* The invariant holds at the start and is kept by every step.
LEMMA OwnedInit == RuntimeInit => LockInv
BY RuntimeAssumption
DEF RuntimeInit, LockInv, RuntimeTypeOK, HeldForAReason, LockIsOwned, Phases, Crashed

LEMMA OwnedStep ==
  ASSUME LockInv, [RuntimeNext]_runtimeVars
  PROVE  LockInv'
<1> USE DEF LockInv, RuntimeTypeOK, HeldForAReason, LockIsOwned, Loading, Phases, Crashed,
            lockVars
<1>1. CASE UNCHANGED runtimeVars
  BY <1>1 DEF runtimeVars
<1>2. ASSUME NEW w \in Windows, StartRuntime(w) PROVE LockInv'
  BY <1>2, RuntimeAssumption DEF StartRuntime, StopEngine, Released, Meets
<1>3. ASSUME NEW w \in Windows, StartReturns(w) PROVE LockInv'
  BY <1>3 DEF StartReturns
<1>4. ASSUME NEW w \in Windows, CallStop(w) PROVE LockInv'
  BY <1>4, RuntimeAssumption DEF CallStop, StopEngine, Released, Meets
<1>5. ASSUME NEW w \in Windows, StopReturns(w) PROVE LockInv'
  BY <1>5 DEF StopReturns
<1>6. ASSUME NEW w \in Windows, ReadLock(w) PROVE LockInv'
  BY <1>6, RuntimeAssumption DEF ReadLock
<1>7. ASSUME NEW w \in Windows, RemoveStaleLock(w) PROVE LockInv'
  BY <1>7, RuntimeAssumption DEF RemoveStaleLock
<1>8. ASSUME NEW w \in Windows, CreateLock(w) PROVE LockInv'
  BY <1>8, RuntimeAssumption DEF CreateLock, Meets
<1>9. ASSUME NEW w \in Windows, WriteLock(w) PROVE LockInv'
  BY <1>9, RuntimeAssumption DEF WriteLock, Meets
<1>10. ASSUME NEW w \in Windows, NEW aborted \in BOOLEAN, SpawnEngine(w, aborted) PROVE LockInv'
  BY <1>10, RuntimeAssumption DEF SpawnEngine, Released
<1>11. ASSUME NEW w \in Windows, NEW aborted \in BOOLEAN, EngineAnswers(w, aborted) PROVE LockInv'
  BY <1>11 DEF EngineAnswers
<1>12. ASSUME NEW w \in Windows, LoadFails(w) PROVE LockInv'
  BY <1>12, RuntimeAssumption DEF LoadFails, StopEngine, Released
<1>13. ASSUME NEW w \in Windows, FailureReturns(w) PROVE LockInv'
  BY <1>13 DEF FailureReturns
<1>14. ASSUME NEW w \in Windows, EngineCloses(w) PROVE LockInv'
  BY <1>14, RuntimeAssumption DEF EngineCloses, Released
<1>15. ASSUME NEW w \in Windows, Crash(w) PROVE LockInv'
  BY <1>15, RuntimeAssumption DEF Crash, Meets
<1>. QED
  BY <1>1, <1>2, <1>3, <1>4, <1>5, <1>6, <1>7, <1>8, <1>9, <1>10, <1>11, <1>12, <1>13, <1>14, <1>15
  DEF RuntimeNext, RuntimeRuns

LEMMA LockAlwaysOwned == RuntimeSpec => []LockInv
<1>1. RuntimeInit => LockInv
  BY OwnedInit
<1>2. LockInv /\ [RuntimeNext]_runtimeVars => LockInv'
  BY OwnedStep
<1>3. QED
  BY <1>1, <1>2, PTL DEF RuntimeSpec

\* At most one window runs a model, of any number that may crash at any step, as long as no
\* lock is taken for a dead window's that is a living one's; a window whose start was stopped
\* before it had a process is the exception OneModel names (LocalRuntime.ts, the lock file).
THEOREM OneModelAtATime == RuntimeSpec => []OneModel
<1>1. LockInv => OneModel
  BY RuntimeAssumption DEF LockInv, LockIsOwned, OneModel
<1>2. QED
  BY <1>1, LockAlwaysOwned, PTL

\* A window that does not run or start a model has left the lock to the others, whatever
\* failed, was aborted, was stopped or crashed, unless the creation of the lock itself was
\* cut short (removeLock).
THEOREM LockAlwaysGivenBack == RuntimeSpec => []LockIsGivenBack
<1>1. LockInv => LockIsGivenBack
  BY DEF LockInv, HeldForAReason, LockIsGivenBack
<1>2. QED
  BY <1>1, LockAlwaysOwned, PTL

\* A stale lock is a crashed window's, and of two windows the one that removes it is the
\* last to live: nobody has put a new one in its place.
NobodyElse ==
  /\ ~stolen
  /\ lock = "stale" => \E v \in Windows : Crashed(v)
  /\ \A w \in Windows :
       /\ Crashed(w) => Crashes
       /\ loading[w] = "removing" =>
            lock \notin Windows /\ \A v \in Windows \ {w} : Crashed(v)

LEMMA NobodyElseStep ==
  ASSUME ~Crashes \/ AtMostTwo, LockInv, NobodyElse, [RuntimeNext]_runtimeVars
  PROVE  NobodyElse'
<1> USE DEF LockInv, RuntimeTypeOK, HeldForAReason, NobodyElse, Loading, Phases, Crashed,
            lockVars
<1>1. CASE UNCHANGED runtimeVars
  BY <1>1 DEF runtimeVars
<1>2. ASSUME NEW w \in Windows, StartRuntime(w) PROVE NobodyElse'
  BY <1>2, RuntimeAssumption DEF StartRuntime, StopEngine, Released, Meets
<1>3. ASSUME NEW w \in Windows, StartReturns(w) PROVE NobodyElse'
  BY <1>3 DEF StartReturns
<1>4. ASSUME NEW w \in Windows, CallStop(w) PROVE NobodyElse'
  BY <1>4, RuntimeAssumption DEF CallStop, StopEngine, Released, Meets
<1>5. ASSUME NEW w \in Windows, StopReturns(w) PROVE NobodyElse'
  BY <1>5 DEF StopReturns
<1>6. ASSUME NEW w \in Windows, ReadLock(w) PROVE NobodyElse'
  <2>1. CASE lock = "stale"
    <3>1. PICK u \in Windows : Crashed(u)
      BY <2>1
    <3>2. u # w /\ AtMostTwo
      BY <1>6, <3>1 DEF ReadLock
    <3>3. \A v \in Windows \ {w} : v = u
      BY <3>2 DEF AtMostTwo
    <3>4. QED
      BY <1>6, <2>1, <3>1, <3>3, RuntimeAssumption DEF ReadLock
  <2>2. CASE lock # "stale"
    BY <1>6, <2>2 DEF ReadLock
  <2>3. QED
    BY <2>1, <2>2
<1>7. ASSUME NEW w \in Windows, RemoveStaleLock(w) PROVE NobodyElse'
  BY <1>7, RuntimeAssumption DEF RemoveStaleLock
<1>8. ASSUME NEW w \in Windows, CreateLock(w) PROVE NobodyElse'
  BY <1>8, RuntimeAssumption DEF CreateLock, Meets
<1>9. ASSUME NEW w \in Windows, WriteLock(w) PROVE NobodyElse'
  BY <1>9, RuntimeAssumption DEF WriteLock, Meets
<1>10. ASSUME NEW w \in Windows, NEW aborted \in BOOLEAN, SpawnEngine(w, aborted) PROVE NobodyElse'
  BY <1>10, RuntimeAssumption DEF SpawnEngine, Released
<1>11. ASSUME NEW w \in Windows, NEW aborted \in BOOLEAN, EngineAnswers(w, aborted) PROVE NobodyElse'
  BY <1>11 DEF EngineAnswers
<1>12. ASSUME NEW w \in Windows, LoadFails(w) PROVE NobodyElse'
  BY <1>12, RuntimeAssumption DEF LoadFails, StopEngine, Released
<1>13. ASSUME NEW w \in Windows, FailureReturns(w) PROVE NobodyElse'
  BY <1>13 DEF FailureReturns
<1>14. ASSUME NEW w \in Windows, EngineCloses(w) PROVE NobodyElse'
  BY <1>14, RuntimeAssumption DEF EngineCloses, Released
<1>15. ASSUME NEW w \in Windows, Crash(w) PROVE NobodyElse'
  BY <1>15, RuntimeAssumption DEF Crash, Meets
<1>. QED
  BY <1>1, <1>2, <1>3, <1>4, <1>5, <1>6, <1>7, <1>8, <1>9, <1>10, <1>11, <1>12, <1>13, <1>14, <1>15
  DEF RuntimeNext, RuntimeRuns

\* It takes a crash and a third window for a lock to be removed that is not the dead
\* window's any more (LocalRuntime.ts:53): two that read the same stale lock.
THEOREM NothingIsStolen ==
  ASSUME ~Crashes \/ AtMostTwo
  PROVE  RuntimeSpec => []~stolen
<1>1. RuntimeInit => NobodyElse
  BY RuntimeAssumption DEF RuntimeInit, NobodyElse, Crashed
<1>2. LockInv /\ NobodyElse /\ [RuntimeNext]_runtimeVars => NobodyElse'
  BY NobodyElseStep
<1>3. NobodyElse => ~stolen
  BY DEF NobodyElse
<1>4. QED
  BY <1>1, <1>2, <1>3, LockAlwaysOwned, PTL DEF RuntimeSpec

(***************************************************************************)
(* The bridge.                                                             *)
(***************************************************************************)
Live(p) == status[p] \in {"booting", "serving"}

\* What the properties need of the variables' values.
Typing ==
  /\ {child, handle, proc} \subseteq Processes \cup {None}
  /\ status \in [Processes -> {"booting", "serving", "told", "exited", "killed"}]
  /\ phase \in {"none", "port", "prepare", "runtime", "inspect", "secret", "handshake"}
  /\ {overtaken, pending} \subseteq BOOLEAN
  /\ reply \in {"none", "good", "bad"}

\* While a start is under way no bridge is in use: the handle is gone, or its process is.
StartsAlone ==
  /\ phase # "none" /\ handle # None => ~Live(handle)
  /\ phase # "handshake" /\ handle # None => handle = child
  /\ overtaken => handle = None

\* A start that has not been overtaken has told the status bar, has read the settings in
\* force, and shakes hands with the current child.
StartIsCurrent ==
  /\ overtaken => state # "starting"
  /\ phase # "none" => state # "ready"
  /\ phase = "handshake" => proc # None
  /\ reply # "none" => phase = "handshake" /\ status[proc] # "booting"
  /\ phase = "handshake" /\ ~overtaken => child = proc
  /\ phase \in {"prepare", "runtime", "inspect", "handshake"} /\ ~overtaken /\ ~pending =>
       built = settings

IInv == /\ Typing /\ StartsAlone /\ StartIsCurrent
        /\ NoOrphanBridge /\ SettingsInForce /\ StateTellsTruth

\* No process is live after a kill.
LEMMA KillEndsAll ==
  ASSUME Typing, NoOrphanBridge, EndBridge
  PROVE  /\ child' = None /\ handle' = None
         /\ status' \in [Processes -> {"booting", "serving", "told", "exited", "killed"}]
         /\ \A p \in Processes : status'[p] \notin {"booting", "serving"}
BY BridgeAssumption DEF Typing, NoOrphanBridge, EndBridge, Told

LEMMA InitInv == Init => IInv
BY BridgeAssumption
DEF Init, IInv, Typing, StartsAlone, StartIsCurrent, NoOrphanBridge, SettingsInForce,
    StateTellsTruth, Live

\* The steps of others than the start.
LEMMA OutsideStep ==
  ASSUME IInv, Restart \/ ChangeSettings \/ Cancel
  PROVE  IInv'
<1> USE BridgeAssumption
    DEF IInv, Typing, StartsAlone, StartIsCurrent, NoOrphanBridge, SettingsInForce,
        StateTellsTruth, Live, KilledState
<1>1. CASE Kill
  <2>1. EndBridge BY <1>1 DEF Kill
  <2>2. QED
    BY <1>1, <2>1, KillEndsAll DEF Kill, Restart, ChangeSettings, Cancel
<1>2. CASE Cancel
  BY <1>2 DEF Cancel, bridge
<1>3. ASSUME pending' = TRUE, UNCHANGED <<runtimeVars, bridge, startVars, state>>
      PROVE  IInv'
  BY <1>3 DEF bridge, startVars
<1>. QED
  BY <1>1, <1>2, <1>3 DEF Restart, ChangeSettings

\* A call: with a live bridge in use that is not outdated it would have been served.
LEMMA CallStep ==
  ASSUME IInv, NEW c \in Callers, Join(c) \/ Begin(c)
  PROVE  IInv'
<1> USE BridgeAssumption
    DEF IInv, Typing, StartsAlone, StartIsCurrent, NoOrphanBridge, SettingsInForce,
        StateTellsTruth, Live, KilledState
<1>1. Call(c)
  BY DEF Join, Begin
<1>2. CASE Outdated
  <2>1. EndBridge
    BY <1>1, <1>2 DEF Call, KillIfOutdated
  <2>2. QED
    BY <1>1, <1>2, <2>1, KillEndsAll DEF Call, Join, Begin
<1>3. CASE ~Outdated
  <2>1. handle # None => ~Live(handle)
    BY <1>1, <1>3 DEF Call, Reusable, HasNoExitCode
  <2>2. UNCHANGED <<bridge, settings, pending, built, proc, reply>>
    BY <1>1, <1>3 DEF Call, KillIfOutdated
  <2>3. CASE Join(c)
    BY <1>3, <2>1, <2>2, <2>3 DEF Join, bridge
  <2>4. CASE Begin(c)
    BY <1>3, <2>1, <2>2, <2>4 DEF Begin, bridge
  <2>. QED
    BY <2>3, <2>4
<1>. QED
  BY <1>2, <1>3

\* The two ways in which a start gives up.
LEMMA ThrowStep ==
  ASSUME IInv, KillAndThrow
  PROVE  IInv'
<1>1. EndBridge
  BY DEF KillAndThrow
<1>. QED
  BY <1>1, KillEndsAll, BridgeAssumption
  DEF KillAndThrow, Ended, KilledState, IInv, Typing, StartsAlone, StartIsCurrent,
      NoOrphanBridge, SettingsInForce, StateTellsTruth, Live

LEMMA CatchStep ==
  ASSUME IInv, NEW outcome, Catch(outcome), phase # "none",
         phase = "handshake" => ~Live(proc)
  PROVE  IInv'
<1> USE BridgeAssumption
    DEF Ended, IInv, Typing, StartsAlone, StartIsCurrent, NoOrphanBridge, SettingsInForce,
        StateTellsTruth, Live
<1>1. CASE EndBridge
  BY <1>1, KillEndsAll DEF Catch, bridge
<1>2. CASE overtaken /\ Ended("cancelled") /\ UNCHANGED <<bridge, state, overtaken>>
  <2>1. \A p \in Processes : ~Live(p)
    OBVIOUS
  <2>. QED
    BY <1>2, <2>1 DEF bridge
<1>. QED
  BY <1>1, <1>2 DEF Catch

\* A process is spawned where there is none.
LEMMA SpawnStep ==
  ASSUME IInv,
         \/ phase = "inspect" /\ Spawn(built)
         \/ phase = "secret" /\ Spawn(settings)
  PROVE  IInv'
<1> USE BridgeAssumption
    DEF IInv, Typing, StartsAlone, StartIsCurrent, NoOrphanBridge, SettingsInForce,
        StateTellsTruth, Live, Goes
<1>1. \A p \in Processes : ~Live(p)
  OBVIOUS
<1>2. PICK p \in Processes \ {child} :
        /\ status[p] \in {"exited", "killed"}
        /\ status' = [status EXCEPT ![p] = "booting"]
        /\ child' = p /\ proc' = p /\ reply' = "none"
        /\ built' = IF phase = "inspect" THEN built ELSE settings
        /\ Goes("handshake")
        /\ UNCHANGED handle
  BY DEF Spawn
<1>3. handle # p
  BY <1>2
<1>4. \A q \in Processes : status'[q] \in {"booting", "serving"} <=> q = p
  BY <1>1, <1>2
<1>5. Typing'
  BY <1>2
<1>6. StartsAlone'
  BY <1>2, <1>3, <1>4, <1>5
<1>7. StartIsCurrent'
  BY <1>2
<1>8. NoOrphanBridge' /\ SettingsInForce' /\ StateTellsTruth'
  BY <1>2, <1>3, <1>4
<1>. QED
  BY <1>5, <1>6, <1>7, <1>8

\* A step of the start, at each of its awaits.
LEMMA StartStep ==
  ASSUME IInv, StartProceeds
  PROVE  IInv'
<1> USE BridgeAssumption
    DEF IInv, Typing, StartsAlone, StartIsCurrent, NoOrphanBridge, SettingsInForce,
        StateTellsTruth, Live
<1>1. CASE Fails
  <2>1. PICK outcome : Catch(outcome)
    BY <1>1 DEF Fails
  <2>. QED
    BY <1>1, <2>1, CatchStep DEF Fails
<1>2. CASE PortReserved
  BY <1>2, CatchStep DEF PortReserved, Goes, bridge
<1>3. CASE Prepared
  BY <1>3, CatchStep DEF Prepared, Goes, bridge
<1>4. CASE RuntimeReturns
  <2>1. phase = "runtime" /\ ((Goes("inspect") /\ UNCHANGED <<bridge, built, proc, reply>>)
                              \/ \E outcome : Catch(outcome))
    BY <1>4 DEF RuntimeReturns
  <2>2. CASE Goes("inspect") /\ UNCHANGED <<bridge, built, proc, reply>>
    BY <2>1, <2>2 DEF Goes, bridge
  <2>3. CASE \E outcome : Catch(outcome)
    BY <2>1, <2>3, CatchStep
  <2>. QED
    BY <2>1, <2>2, <2>3
<1>5. CASE Inspected
  BY <1>5, CatchStep, SpawnStep DEF Inspected
<1>6. CASE SecretRead
  BY <1>6, SpawnStep DEF SecretRead
<1>7. CASE HealthArrives
  BY <1>7, ThrowStep DEF HealthArrives, Abandoned, Ended, HandedOut
<1>8. CASE ChildGone
  BY <1>8, CatchStep DEF ChildGone, HasNoExitCode
<1>9. CASE HandshakeTimeout
  BY <1>9, ThrowStep DEF HandshakeTimeout
<1>. QED
  BY <1>1, <1>2, <1>3, <1>4, <1>5, <1>6, <1>7, <1>8, <1>9 DEF StartProceeds

\* The processes and the local model by themselves.
LEMMA ProcessStep ==
  ASSUME IInv,
         \/ \E p \in Processes : Serves(p) \/ Exits(p) \/ CannotRun(p)
         \/ HealthSent \/ HealthLost \/ RuntimeStep
  PROVE  IInv'
<1> USE BridgeAssumption
    DEF IInv, Typing, StartsAlone, StartIsCurrent, NoOrphanBridge, SettingsInForce,
        StateTellsTruth, Live
<1>1. ASSUME NEW p \in Processes, Serves(p) PROVE IInv'
  BY <1>1 DEF Serves, startVars
<1>2. ASSUME NEW p \in Processes, Exits(p) PROVE IInv'
  BY <1>2 DEF Exits, OnExit, startVars
<1>3. ASSUME NEW p \in Processes, CannotRun(p) PROVE IInv'
  BY <1>3 DEF CannotRun, startVars
<1>4. CASE HealthSent \/ HealthLost \/ RuntimeStep
  BY <1>4 DEF HealthSent, HealthLost, RuntimeStep, bridge, startVars
<1>. QED
  BY <1>1, <1>2, <1>3, <1>4

LEMMA BridgeAlways == Spec => []IInv
<1>1. Init => IInv
  BY InitInv
<1>2. IInv /\ [Next]_vars => IInv'
  <2> SUFFICES ASSUME IInv, [Next]_vars PROVE IInv'
    OBVIOUS
  <2>1. CASE Next
    BY <2>1, OutsideStep, CallStep, StartStep, ProcessStep DEF Next
  <2>2. CASE UNCHANGED vars
    BY <2>2
    DEF vars, bridge, startVars, IInv, Typing, StartsAlone, StartIsCurrent, NoOrphanBridge,
        SettingsInForce, StateTellsTruth, Live
  <2>. QED
    BY <2>1, <2>2
<1>. QED
  BY <1>1, <1>2, PTL DEF Spec

\* No process is left running that nobody will tell to stop, whatever is killed at whichever
\* await of a start (kill, startEpoch).
THEOREM NoBridgeIsOrphaned == Spec => []NoOrphanBridge
<1>1. IInv => NoOrphanBridge
  BY DEF IInv
<1>2. QED
  BY <1>1, BridgeAlways, PTL

\* A bridge in use was built with the settings in force, unless the user is still to be asked
\* about a change of them (ensureStarted, onConfigChanged).
THEOREM SettingsAlwaysInForce == Spec => []SettingsInForce
<1>1. IInv => SettingsInForce
  BY DEF IInv
<1>2. QED
  BY <1>1, BridgeAlways, PTL

\* The status bar says "starting" only of a start there is and "ready" only of a bridge that
\* serves, whatever is killed or dies, but for the process that dies while its answer is on
\* the way (setState).
THEOREM StateAlwaysTellsTruth == Spec => []StateTellsTruth
<1>1. IInv => StateTellsTruth
  BY DEF IInv
<1>2. QED
  BY <1>1, BridgeAlways, PTL
=============================================================================
