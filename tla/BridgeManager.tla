--------------------------- MODULE BridgeManager ---------------------------
(***************************************************************************)
(* The bridge of one window (bridge/BridgeManager.ts) with the local model *)
(* it starts first when the settings ask for one.  Commands share a start, *)
(* and anything that invalidates the bridge kills it at once, whatever the *)
(* start is waiting for: the start finds out when its await returns.  The  *)
(* actions are what runs between two awaits.                               *)
(***************************************************************************)
EXTENDS LocalRuntime

CONSTANTS
  Self,           \* this window; what the others do to the lock is LocalRuntime's subject
  Callers,        \* the commands that call ensureStarted
  Processes,      \* child processes; a dead one's name is used again
  Settings,       \* what decides how a bridge is built: mode, free model, local settings
  LocalSettings,  \* those with a local model
  None

ASSUME BridgeAssumption ==
  /\ Self \in Windows
  /\ LocalSettings \subseteq Settings
  /\ None \notin Processes \cup LocalSettings

VARIABLES
  settings,       \* the configuration
  pending,        \* it has changed and nothing was killed for it (yet)
  fingerprint,    \* localFingerprint
  state,          \* what the status bar is told
  child, handle,  \* the process in use; the process whose client was handed out
  status,         \* process -> how far it is
  phase,          \* the await the start is at
  built,          \* the settings the start has read, and the bridge was built with
  signal,         \* the abort signal of the call that began it
  overtaken,      \* a kill since it began: its epoch is no longer startEpoch
  proc, reply,    \* the process it shakes hands with, and its answer under way
  waiting,        \* the callers that share it
  answer,         \* how the last start ended
  asked           \* a user or a setting asked for its end

bridge == <<child, handle, status>>
startVars == <<phase, built, signal, overtaken, proc, reply, waiting, answer, asked>>
vars == <<runtimeVars, bridge, startVars, settings, pending, fingerprint, state>>

\* Only a change of local settings is found by comparing.
Fingerprint(s) == IF s \in LocalSettings THEN s ELSE None

BridgeTypeOK ==
  /\ RuntimeTypeOK
  /\ {settings, built} \subseteq Settings
  /\ fingerprint \in LocalSettings \cup {None}
  /\ state \in {"stopped", "starting", "ready", "error"}
  /\ {child, handle, proc} \subseteq Processes \cup {None}
  /\ status \in [Processes -> {"booting", "serving", "told", "exited", "killed"}]
  /\ phase \in {"none", "port", "prepare", "runtime", "inspect", "secret", "handshake"}
  /\ signal \in {"none", "live", "aborted"}
  /\ reply \in {"none", "good", "bad"}
  /\ waiting \subseteq Callers
  /\ answer \in {"none", "handle", "dead", "cancelled", "error"}
  /\ {pending, overtaken, asked} \subseteq BOOLEAN

Init ==
  /\ RuntimeInit
  /\ settings \in Settings
  /\ pending = FALSE
  /\ fingerprint = None /\ state = "stopped"
  /\ child = None /\ handle = None
  /\ status = [p \in Processes |-> "exited"]
  /\ phase = "none" /\ built = settings /\ signal = "none" /\ overtaken = FALSE
  /\ proc = None /\ reply = "none"
  /\ waiting = {} /\ answer = "none" /\ asked = FALSE
-----------------------------------------------------------------------------
(* kill                                                                    *)

\* exitCode === null: a process that died by a signal has none.
HasNoExitCode(p) == status[p] # "exited"

Told(p) == [status EXCEPT ![p] = IF @ \in {"booting", "serving"} THEN "told" ELSE @]

\* Its part about processes; startEpoch and the state follow where it is used.
EndBridge ==
  /\ StopEngine(Self)
  /\ status' = IF child = None THEN status ELSE Told(child)
  /\ child' = None /\ handle' = None

KilledState == IF state = "error" THEN "error" ELSE "stopped"

\* kill, called by others than the start.
Kill ==
  /\ EndBridge
  /\ overtaken' = TRUE
  /\ asked' = (asked \/ phase # "none")
  /\ state' = KilledState
  /\ UNCHANGED <<loading, phase, built, signal, proc, reply, waiting, answer>>

\* restartBridgeForSettings, stop, dispose.
Restart ==
  /\ Kill
  /\ pending' = FALSE
  /\ UNCHANGED <<settings, fingerprint>>

\* The configuration changes: with a kill (the mode, a local setting, setFreeModel), or
\* without one (the user is asked first, or saveLocalModelSettings is under way).
ChangeSettings ==
  /\ settings' \in Settings \ {settings}
  /\ \/ Kill /\ pending' = FALSE
     \/ pending' = TRUE /\ UNCHANGED <<runtimeVars, bridge, startVars, state>>
  /\ UNCHANGED fingerprint
-----------------------------------------------------------------------------
(* ensureStarted                                                           *)

LocalModelGone ==
  settings \in LocalSettings /\ handle # None /\ engine[Self] = "none"

Outdated == fingerprint # Fingerprint(settings) \/ LocalModelGone

\* A usable handle is returned at once, and nothing changes.
Reusable == ~Outdated /\ handle # None /\ child # None /\ HasNoExitCode(child)

KillIfOutdated ==
  \/ Outdated /\ EndBridge
  \/ ~Outdated /\ UNCHANGED <<bridge, lockVars>>

Call(c) ==
  /\ c \notin waiting /\ ~Reusable
  /\ KillIfOutdated
  /\ fingerprint' = Fingerprint(settings)
  /\ waiting' = waiting \cup {c}
  /\ UNCHANGED <<settings, pending, loading, built, proc, reply>>

\* if (this.starting) return this.starting - also one that has been overtaken.
Join(c) ==
  /\ phase # "none"
  /\ Call(c)
  /\ overtaken' = (overtaken \/ Outdated)
  /\ asked' = (asked \/ Outdated)
  /\ state' = IF Outdated THEN KilledState ELSE state
  /\ UNCHANGED <<phase, signal, answer>>

Begin(c) ==
  /\ phase = "none"
  /\ Call(c)
  /\ phase' = "port" /\ state' = "starting"
  /\ signal' \in {"none", "live"}
  /\ overtaken' = FALSE /\ asked' = FALSE /\ answer' = "none"

\* The user cancels the call that began the start; a model that loads is stopped.
Cancel ==
  /\ phase # "none" /\ signal = "live"
  /\ signal' = "aborted" /\ asked' = TRUE
  /\ \/ loading[Self] = "loading" /\ StopEngine(Self)
     \/ loading[Self] # "loading" /\ UNCHANGED lockVars
  /\ UNCHANGED <<loading, bridge, settings, pending, fingerprint, state, phase, built,
                 overtaken, proc, reply, waiting, answer>>
-----------------------------------------------------------------------------
(* start                                                                   *)

Ended(outcome) ==
  /\ phase' = "none" /\ signal' = "none" /\ proc' = None /\ reply' = "none"
  /\ waiting' = {}
  /\ answer' = outcome
  /\ UNCHANGED <<built, asked, settings, pending, fingerprint>>

\* Mutant: the start that has been overtaken does not end the process it has spawned.
ThrowWithoutKill ==
  /\ overtaken' = TRUE
  /\ Ended("cancelled")
  /\ UNCHANGED <<lockVars, bridge, state>>

\* The start kills the bridge itself, advancing the epoch, and throws: the catch clause
\* takes that for a cancellation.
KillAndThrow ==
  /\ EndBridge
  /\ overtaken' = TRUE
  /\ state' = KilledState
  /\ Ended("cancelled")

\* The catch clause of start.
Catch(outcome) ==
  \/ /\ overtaken
     /\ Ended("cancelled")
     /\ UNCHANGED <<lockVars, bridge, state, overtaken>>
  \/ /\ ~overtaken
     /\ EndBridge
     /\ overtaken' = TRUE
     /\ state' = "error"
     /\ Ended(outcome)

Abandoned == overtaken \/ signal = "aborted"

Goes(next) ==
  /\ phase' = next
  /\ UNCHANGED <<signal, overtaken, waiting, answer, asked, settings, pending,
                 fingerprint, state>>

\* What a step of the start may throw for reasons of its own.
Fails ==
  /\ phase \in {"port", "prepare", "secret"}
  /\ \E outcome \in {"error"} \cup (IF signal = "aborted" THEN {"cancelled"} ELSE {}) :
       Catch(outcome)
  /\ UNCHANGED loading

PortReserved ==
  /\ phase = "port"
  /\ \/ /\ settings \in LocalSettings
        /\ built' = settings
        /\ Goes("prepare")
        /\ UNCHANGED <<lockVars, bridge, proc, reply>>
     \/ /\ settings \notin LocalSettings /\ ~Abandoned
        /\ Goes("secret")
        /\ UNCHANGED <<lockVars, bridge, built, proc, reply>>
     \/ /\ settings \notin LocalSettings /\ Abandoned
        /\ Catch("cancelled")
  /\ UNCHANGED loading

\* The engine is in place: load the model.
Prepared ==
  /\ phase = "prepare"
  /\ \/ /\ Abandoned
        /\ Catch("cancelled")
        /\ UNCHANGED loading
     \/ /\ ~Abandoned
        /\ StartRuntime(Self)
        /\ Goes("runtime")
        /\ UNCHANGED <<bridge, built, proc, reply>>

RuntimeStep ==
  /\ RuntimeRuns(Self, signal = "aborted")
  /\ UNCHANGED <<bridge, startVars, settings, pending, fingerprint, state>>

RuntimeReturns ==
  /\ phase = "runtime"
  /\ Loading(Self, "idle")
  /\ \/ /\ loading[Self] = "loaded"
        /\ Goes("inspect")
        /\ UNCHANGED <<lockVars, bridge, built, proc, reply>>
     \/ /\ loading[Self] = "failed"
        /\ \E outcome \in {"error"} \cup (IF signal = "aborted" THEN {"cancelled"} ELSE {}) :
             Catch(outcome)

Spawn(s) ==
  \E p \in Processes \ {child} :
    /\ status[p] \in {"exited", "killed"}
    /\ status' = [status EXCEPT ![p] = "booting"]
    /\ built' = s
    /\ child' = p /\ proc' = p /\ reply' = "none"
    /\ Goes("handshake")
    /\ UNCHANGED <<runtimeVars, handle>>

\* The model has been inspected and measured.
Inspected ==
  /\ phase = "inspect"
  /\ \/ Abandoned /\ Catch("cancelled") /\ UNCHANGED loading
     \/ ~Abandoned /\ Spawn(built)

\* The secret storage has answered.  Whether the start is still wanted is not asked.
SecretRead ==
  /\ phase = "secret"
  /\ Spawn(settings)
-----------------------------------------------------------------------------
(* The handshake and the child process                                     *)

Serves(p) ==
  /\ status[p] = "booting"
  /\ status' = [status EXCEPT ![p] = "serving"]
  /\ UNCHANGED <<runtimeVars, child, handle, startVars, settings, pending,
                 fingerprint, state>>

\* Mutant: the exit of a bridge in use is not reported.
OnExitUnreported(p) ==
  /\ handle' = (IF p = child THEN None ELSE handle)
  /\ UNCHANGED <<state, lockVars>>

\* The exit event, if the process is still the current one.
OnExit(p) ==
  \/ /\ p = child
     /\ handle' = None /\ state' = "error"
     /\ StopEngine(Self)
  \/ /\ p # child
     /\ UNCHANGED <<handle, state, lockVars>>

\* A process ends, by itself or because it was told to, with a code or by a signal;
\* nobody asks how one ended that is out of use.
Exits(p) ==
  /\ status[p] \in {"booting", "serving", "told"}
  /\ \E how \in {"exited"} \cup (IF p \in {child, proc} THEN {"killed"} ELSE {}) :
       status' = [status EXCEPT ![p] = how]
  /\ OnExit(p)
  /\ UNCHANGED <<loading, child, startVars, settings, pending, fingerprint>>

\* It could not be executed at all: an error event, and no exit event.
CannotRun(p) ==
  /\ status[p] = "booting"
  /\ status' = [status EXCEPT ![p] = "exited"]
  /\ UNCHANGED <<runtimeVars, child, handle, startVars, settings, pending,
                 fingerprint, state>>

\* /health is answered, with a contract the extension knows or with another one.
HealthSent ==
  /\ phase = "handshake" /\ reply = "none" /\ status[proc] = "serving"
  /\ reply' \in {"good", "bad"}
  /\ UNCHANGED <<runtimeVars, bridge, phase, built, signal, overtaken, proc, waiting,
                 answer, asked, settings, pending, fingerprint, state>>

HealthLost ==
  /\ reply # "none" /\ status[proc] # "serving"
  /\ reply' = "none"
  /\ UNCHANGED <<runtimeVars, bridge, phase, built, signal, overtaken, proc, waiting,
                 answer, asked, settings, pending, fingerprint, state>>

\* The answer may be that of a process that has ended since.
HandedOut == IF status[proc] = "serving" THEN "handle" ELSE "dead"

\* Mutant: the epoch is not compared after the handshake.
HealthArrivesAnyway ==
  /\ phase = "handshake" /\ reply # "none"
  /\ \/ reply = "bad" /\ KillAndThrow
     \/ /\ reply = "good"
        /\ handle' = proc /\ state' = "ready"
        /\ Ended(HandedOut)
        /\ UNCHANGED <<lockVars, child, status, overtaken>>
  /\ UNCHANGED loading

HealthArrives ==
  /\ phase = "handshake" /\ reply # "none"
  /\ \/ (reply = "bad" \/ Abandoned) /\ KillAndThrow
     \/ /\ reply = "good" /\ ~Abandoned
        /\ handle' = proc /\ state' = "ready"
        /\ Ended(HandedOut)
        /\ UNCHANGED <<lockVars, child, status, overtaken>>
  /\ UNCHANGED loading

\* Between two polls: the exit code of the child is there.
ChildGone ==
  /\ phase = "handshake" /\ reply = "none" /\ ~HasNoExitCode(proc)
  /\ Catch("error")
  /\ UNCHANGED loading

\* Mutant: only a process that is still there can be late.
TimeoutOfLiveChild ==
  /\ phase = "handshake" /\ reply = "none" /\ status[proc] \notin {"exited", "killed"}
  /\ KillAndThrow
  /\ UNCHANGED loading

\* Fifteen seconds are over.
HandshakeTimeout ==
  /\ phase = "handshake" /\ reply = "none"
  /\ KillAndThrow
  /\ UNCHANGED loading
-----------------------------------------------------------------------------
StartProceeds ==
  \/ PortReserved \/ Prepared \/ RuntimeReturns \/ Inspected \/ SecretRead
  \/ HealthArrives \/ ChildGone \/ HandshakeTimeout \/ Fails

Next ==
  \/ Restart \/ ChangeSettings \/ Cancel
  \/ \E c \in Callers : Join(c) \/ Begin(c)
  \/ StartProceeds \/ RuntimeStep
  \/ \E p \in Processes : Serves(p) \/ Exits(p) \/ CannotRun(p)
  \/ HealthSent \/ HealthLost

Spec == Init /\ [][Next]_vars

\* An await returns (the handshake and the loading have deadlines), and a process that
\* was told to end does: uvicorn at SIGTERM, the guardian kills after three seconds.
Fairness ==
  /\ WF_vars(StartProceeds)
  /\ WF_vars(RuntimeStep /\ (loading[Self] \notin {"idle", "loaded"} \/ engine[Self] = "ending"))
  /\ \A p \in Processes : WF_vars(status[p] = "told" /\ Exits(p))

FairSpec == Spec /\ Fairness
-----------------------------------------------------------------------------
\* Every process that was not told to end is the bridge in use or the one a start is
\* shaking hands with: none is left running, and none loses its handle by the end of
\* another one (BridgeManager.ts:195 and 361).
NoOrphanBridge ==
  \A p \in Processes : status[p] \in {"booting", "serving"} =>
    p = child /\ (p = handle \/ (phase = "handshake" /\ p = proc))

\* A bridge that is handed out runs with the settings in force, unless they have changed
\* without a kill: a start that was under way at the kill hands out nothing
\* (BridgeManager.ts:113, "the next `ensureStarted` respawns in the new construction").
SettingsInForce == handle # None /\ ~pending => built = settings

\* What the status bar is told: "starting" is a start, "ready" a bridge in use whose process
\* serves.  The one exception is a process that died while its last answer was on the way:
\* its exit cleared the handle, and the answer hands out another one (BridgeManager.ts:194-197).
StateTellsTruth ==
  /\ state = "ready" => /\ handle # None /\ handle = child
                        /\ status[handle] = "serving" \/ answer = "dead"
  /\ state = "starting" => phase # "none"

\* Every call of ensureStarted is answered, whatever is killed or dies meanwhile.
EveryCallAnswered == \A c \in Callers : c \in waiting ~> c \notin waiting

-----------------------------------------------------------------------------
\* What the sources say, and TLC finds the code does not keep; no run checks it.

\* "returns the live handle if the child is still alive, otherwise (re)spawns"
\* (BridgeManager.ts:138-139): a handle that is returned at once is of a living process.
ReusableIsAlive == Reusable => status[child] \notin {"exited", "killed"}

\* A start is reported as cancelled only if a user or a setting asked for its end
\* (BridgeManager.ts:14, "fatal on mismatch"; VSCODE_V1B_DESIGN.md:39, a mismatch stops
\* with an error).
CancelledForAReason == answer = "cancelled" => asked

\* Once the bridge is stopped and no start is under way, no local model stays loaded
\* (extension.ts:429, "local model stopped; memory released").
StoppedIsReleased == phase = "none" /\ child = None => engine[Self] # "up"
=============================================================================
