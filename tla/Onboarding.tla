----------------------------- MODULE Onboarding -----------------------------
(***************************************************************************)
(* What stands between a scan command and the first byte sent over the     *)
(* API: the key, the notice about the external route, the choice of a      *)
(* model mode, the free model for a key without credits (extension.ts,     *)
(* session/modelMode.ts, bridge/overrideEnv.ts); the notices a change of   *)
(* the settings is answered with (onConfigChanged,                         *)
(* session/configChangeNotice.ts); and the onboarding state the            *)
(* walkthrough shows.  The commands, the user's own edits of the settings, *)
(* Reset Extension State and the clicks on open notices interleave at      *)
(* every await.                                                            *)
(*                                                                         *)
(* The settings that are read in custom mode only (model, providerOrder,   *)
(* allowFallbacks, providerPolicy) are one setting here, called model.     *)
(***************************************************************************)
EXTENDS Naturals

CONSTANTS
  Slots,          \* bound: commands under way at the same time
  None,
  StartModes,     \* bound: the modes a behaviour starts in
  MaxCommands,    \* bound: commands in one behaviour
  MaxEvents       \* bound: edits of the settings, resets and deaths of the bridge, together

Modes == {"default", "free", "custom", "local"}
Models == {"preset", "own", "free"}      \* "free": what older builds wrote for the free mode
Keys == {"none", "set"}
Routes == {"preset", "free", "own"}

\* The notices about the settings, what their buttons write, and the commands.
Notices == [kind : {"switch", "restart", "startup"}, mode : Modes, model : Models]
Writings == {"custom", "custom done", "clear", "clear done"}
Awaits == {"idle", "key", "notice", "consented", "picker", "picked", "recorded", "wizard",
           "saved", "entry", "verify", "tier", "starting"}
Commands == [pc : Awaits, kind : {"scan", "setup", None}, route : Routes \cup {None},
             picked : Modes \cup {None}, overtaken : BOOLEAN]

ASSUME OnboardingAssumption ==
  /\ {MaxCommands, MaxEvents} \subseteq Nat /\ StartModes \subseteq Modes
  /\ None \notin Notices \cup Writings \cup {"scan"}

VARIABLES
  mode, model,    \* crepair.modelMode, crepair.model
  key,            \* SecretStorage
  chosen, ack,    \* globalState: a mode was chosen; no more notices about the route
  freeRun,        \* bridge.onFreeModel
  bridge,         \* bridge.state
  notice,         \* the open notice that still acts: the newest
  writing,        \* the notice action under way, and how far it is
  suppress,       \* suppressConfigNotices
  activation,     \* what activate() still has to do
  flow,           \* slot -> the command in it
  reset,          \* how far Reset Extension State is
  refresh,        \* the newest refreshOnboardingState call: its key when it has read it
  shown,          \* currentOnboardingState
  used            \* bounds used up

settings == <<mode, model>>
flags == <<chosen, ack>>
noticeVars == <<notice, writing, suppress, activation>>
onboardingVars == <<refresh, shown>>
vars == <<settings, key, flags, freeRun, bridge, noticeVars, flow, reset, onboardingVars, used>>

Idle == [pc |-> "idle", kind |-> None, route |-> None, picked |-> None, overtaken |-> FALSE]

Spend(bound, max) == used[bound] < max /\ used' = [used EXCEPT ![bound] = @ + 1]
-----------------------------------------------------------------------------
(* session/modelMode.ts, bridge/overrideEnv.ts                             *)

HasExplicitModel(m) == m # "preset"
ShouldPromptModelMode == ~chosen /\ mode = "default" /\ ~HasExplicitModel(model)
ShouldRecordWithoutPrompt == ~chosen /\ (mode # "default" \/ HasExplicitModel(model))
ShouldMigrateLegacyFreeModel == mode = "default" /\ model = "free"

\* configuredModelForMode, as the notice about the route shows it.
ConfiguredRoute == IF mode = "free" THEN "free" ELSE IF mode = "custom" THEN model ELSE "preset"

\* buildModeOverrideEnv with buildFreeModelEnv on top: what a bridge is spawned with.
SpawnedRoute == IF freeRun THEN "free" ELSE ConfiguredRoute

\* decideFreeSwitch: whether the bridge is to run the free model.
DecideFreeSwitch(tier) == mode = "default" /\ ~HasExplicitModel(model) /\ tier = "free"
-----------------------------------------------------------------------------
(* The onboarding state                                                    *)

OnboardingState(k) ==
  [connected |-> IF mode = "local" THEN bridge = "ready" ELSE k # "none",
   selected |-> mode # "local" /\ ~ShouldPromptModelMode,
   prepared |-> bridge = "ready"]

\* Mutant: a call already under way does for this one too.
RefreshUnlessUnderWay == refresh' = IF refresh = "idle" THEN "reading" ELSE refresh

\* refreshOnboardingState up to its await.  The calls before it are superseded: their answers
\* do nothing.
Refresh == refresh' = "reading"

RefreshReadsKey ==
  /\ refresh = "reading" /\ refresh' = key
  /\ UNCHANGED <<settings, key, flags, freeRun, bridge, noticeVars, flow, reset, shown, used>>

RefreshEnds ==
  /\ refresh \in Keys /\ refresh' = "idle"
  /\ shown' = OnboardingState(refresh)
  /\ UNCHANGED <<settings, key, flags, freeRun, bridge, noticeVars, flow, reset, used>>

\* bridge.kill: a state of "error" stays, and then nobody is told.
Kill == IF bridge = "error" THEN UNCHANGED <<bridge, refresh>>
                            ELSE bridge' = "stopped" /\ Refresh
-----------------------------------------------------------------------------
(* onConfigChanged                                                         *)

\* Mutant: a change that shows no notice of its own leaves the open one in force.
SupersededUnlessSilent(new) == notice' = IF new = None THEN notice ELSE new

\* The token: from now on an earlier notice does nothing.
Superseded(new) == notice' = new

Notice(kind) == [kind |-> kind, mode |-> mode', model |-> model']

\* decideConfigChangeNotice.  An edit back to the preset is not answered.
NoticeFor ==
  CASE suppress -> None
    [] model' # model /\ mode' \notin {"custom", "local"} ->
         IF HasExplicitModel(model') THEN Notice("switch") ELSE None
    [] bridge' = "stopped" -> None
    [] OTHER -> Notice("restart")

\* One write to the settings and the event it causes.  A change of the mode kills the bridge.
Write(mo, mod) ==
  /\ mode' = mo /\ model' = mod
  /\ IF settings' = settings
     THEN UNCHANGED <<bridge, refresh, notice>>
     ELSE /\ Refresh
          /\ bridge' = IF mo # mode /\ bridge # "error" THEN "stopped" ELSE bridge
          /\ Superseded(NoticeFor)

EditSettings ==
  /\ Spend("events", MaxEvents)
  /\ \/ \E m \in Modes \ {mode} : Write(m, model)
     \/ \E m \in Models \ {model} : Write(mode, m)
  /\ UNCHANGED <<key, flags, freeRun, writing, suppress, activation, flow, reset, shown>>

\* The user answers an open notice.  What follows counts on the settings being those shown.
Click ==
  /\ notice # None /\ notice' = None
  /\ \/ /\ notice.kind \in {"switch", "startup"}
        /\ writing' = "custom" /\ suppress' = TRUE
        /\ UNCHANGED <<bridge, refresh>>
     \/ /\ notice.kind = "startup"
        /\ writing' = "clear" /\ suppress' = TRUE
        /\ UNCHANGED <<bridge, refresh>>
     \/ notice.kind = "restart" /\ Kill /\ UNCHANGED <<writing, suppress>>
     \/ UNCHANGED <<writing, suppress, bridge, refresh>>
  /\ UNCHANGED <<settings, key, flags, freeRun, activation, flow, reset, shown, used>>

\* switchToCustomAndRestart, clearUnusedCustomSettings: the write lands.
NoticeWrites ==
  /\ \/ writing = "custom" /\ Write("custom", model) /\ writing' = "custom done"
     \/ writing = "clear" /\ Write(mode, "preset") /\ writing' = "clear done"
  /\ UNCHANGED <<key, flags, freeRun, suppress, activation, flow, reset, shown, used>>

\* Mutant: the notices stay suppressed.
NoticeDoneInSilence ==
  /\ writing \in {"custom done", "clear done"} /\ writing' = None
  /\ IF writing = "custom done" THEN Kill ELSE UNCHANGED <<bridge, refresh>>
  /\ UNCHANGED <<settings, key, flags, freeRun, notice, suppress, activation, flow, reset, shown, used>>

\* Its promise resolves.
NoticeDone ==
  /\ writing \in {"custom done", "clear done"} /\ writing' = None
  /\ suppress' = FALSE
  /\ IF writing = "custom done" THEN Kill ELSE UNCHANGED <<bridge, refresh>>
  /\ UNCHANGED <<settings, key, flags, freeRun, notice, activation, flow, reset, shown, used>>

\* migrateLegacyFreeModel: a free model of an older build becomes the free mode.
MigrateLegacyFreeModel ==
  /\ activation = "migrate"
  /\ IF ShouldMigrateLegacyFreeModel
     THEN Write("free", model) /\ activation' = "clear"
     ELSE UNCHANGED <<settings, bridge, refresh, notice>> /\ activation' = "notice"
  /\ UNCHANGED <<key, flags, freeRun, writing, suppress, flow, reset, shown, used>>

ClearLegacyFreeModel ==
  /\ activation = "clear" /\ activation' = "notice"
  /\ Write(mode, "preset")
  /\ UNCHANGED <<key, flags, freeRun, writing, suppress, flow, reset, shown, used>>

\* maybeShowStartupConfigNotice
StartupNotice ==
  /\ activation = "notice" /\ activation' = "done"
  /\ IF mode \notin {"custom", "local"} /\ HasExplicitModel(model)
     THEN UNCHANGED settings /\ Superseded(Notice("startup"))
     ELSE UNCHANGED <<settings, notice>>
  /\ UNCHANGED <<bridge, refresh, key, flags, freeRun, writing, suppress, flow, reset, shown, used>>
-----------------------------------------------------------------------------
(* The commands: a scan, Set API Key (by whatever way), Choose Model Mode, *)
(* Set Up Local.                                                           *)

Moves(s, to) == flow' = [flow EXCEPT ![s] = to]
Goes(s, pc) == Moves(s, [flow[s] EXCEPT !.pc = pc])
Ends(s) == Moves(s, Idle)

Command(s) ==
  /\ flow[s].pc = "idle"
  /\ Spend("commands", MaxCommands)
  /\ \/ mode # "local" /\ Moves(s, [Idle EXCEPT !.pc = "key", !.kind = "scan"])
     \/ Moves(s, [Idle EXCEPT !.pc = "entry", !.kind = "setup"])
     \/ Moves(s, [Idle EXCEPT !.pc = "picker", !.kind = "setup"])
     \/ Moves(s, [Idle EXCEPT !.pc = "wizard", !.kind = "setup"])
  /\ UNCHANGED <<settings, key, flags, freeRun, bridge, noticeVars, reset, onboardingVars>>

\* bridge.kill after a change of the key, which the walkthrough is told of in any case.
KillForKey == /\ bridge' = IF bridge = "error" THEN bridge ELSE "stopped"
              /\ Refresh

\* storeAndVerifyKey
StoreKey(s) ==
  /\ flow[s].pc = "entry"
  /\ key' = "set"
  /\ KillForKey
  /\ Goes(s, "verify")
  /\ UNCHANGED <<settings, flags, freeRun, noticeVars, reset, shown, used>>

ClearApiKey ==
  /\ key = "set" /\ key' = "none"
  /\ Spend("commands", MaxCommands)
  /\ KillForKey
  /\ UNCHANGED <<settings, flags, freeRun, noticeVars, flow, reset, shown>>

\* A mode is settled.
Settled(s) == \/ flow[s].kind # "scan" /\ Ends(s)
              \/ flow[s].kind = "scan" /\ Goes(s, IF mode = "local" THEN "starting" ELSE "tier")

\* maybePromptModelMode, up to its await.
MaybePrompt(s) ==
  IF ShouldRecordWithoutPrompt THEN chosen' = TRUE /\ Goes(s, "recorded") /\ UNCHANGED ack
  ELSE /\ UNCHANGED flags
       /\ IF ShouldPromptModelMode THEN Goes(s, "picker") ELSE Settled(s)

Verified(s) ==
  /\ flow[s].pc = "verify"
  /\ MaybePrompt(s)
  /\ UNCHANGED <<settings, key, freeRun, bridge, noticeVars, reset, onboardingVars, used>>

\* The key is there; confirmExternalRoute asks, unless it has been told not to.
ScanKey(s) ==
  /\ flow[s].pc = "key"
  /\ \/ key = "none" /\ Ends(s) /\ UNCHANGED flags
     \/ key # "none" /\ ack /\ MaybePrompt(s)
     \/ /\ key # "none" /\ ~ack /\ UNCHANGED flags
        /\ Moves(s, [flow[s] EXCEPT !.pc = "notice", !.route = ConfiguredRoute])
  /\ UNCHANGED <<settings, key, freeRun, bridge, noticeVars, reset, onboardingVars, used>>

\* "Continue and don't ask again" is recorded before the command goes on.
DontAskAgain(s) ==
  /\ flow[s].pc = "notice"
  /\ ack' = TRUE /\ UNCHANGED chosen
  /\ Goes(s, "consented")
  /\ UNCHANGED <<settings, key, freeRun, bridge, noticeVars, reset, onboardingVars, used>>

Consented(s) ==
  /\ flow[s].pc \in {"notice", "consented"}
  /\ MaybePrompt(s)
  /\ UNCHANGED <<settings, key, freeRun, bridge, noticeVars, reset, onboardingVars, used>>

\* chooseModelMode: the picked mode is written,
Pick(s) ==
  /\ flow[s].pc = "picker"
  /\ \E m \in {"local", "free", "default"} :
       /\ Write(m, model)
       /\ Moves(s, [flow[s] EXCEPT !.pc = "picked", !.picked = m])
  /\ UNCHANGED <<key, flags, freeRun, writing, suppress, activation, reset, shown, used>>

\* then recorded,
Record(s) ==
  /\ flow[s].pc = "picked"
  /\ chosen' = TRUE /\ UNCHANGED ack
  /\ Goes(s, "recorded")
  /\ UNCHANGED <<settings, key, freeRun, bridge, noticeVars, reset, onboardingVars, used>>

\* and the walkthrough told.  Set Up Local follows for a local model.
Recorded(s) ==
  /\ flow[s].pc = "recorded"
  /\ IF flow[s].picked = "local"
     THEN /\ freeRun' = FALSE
          /\ bridge' = IF freeRun /\ bridge # "error" THEN "stopped" ELSE bridge
          /\ Goes(s, "wizard")
     ELSE Settled(s) /\ UNCHANGED <<freeRun, bridge>>
  /\ Refresh
  /\ UNCHANGED <<settings, key, flags, noticeVars, reset, shown, used>>

\* saveLocalModelSettings writes the mode itself: onConfigChanged then stops after its first
\* line.  Nothing is written while a scan is under way.
SaveLocal(s) ==
  /\ flow[s].pc = "wizard"
  /\ ~\E r \in Slots : flow[r].pc = "starting"
  /\ mode' = "local"
  /\ IF mode # "local" THEN Refresh ELSE UNCHANGED refresh
  /\ Goes(s, "saved")
  /\ UNCHANGED <<model, key, flags, freeRun, bridge, noticeVars, reset, shown, used>>

\* The bridge is restarted for them and started at once, with a local model.
LocalIsUp(s) ==
  /\ flow[s].pc = "saved"
  /\ freeRun' = FALSE
  /\ bridge' \in {"ready", "error"}
  /\ Refresh
  /\ IF bridge' = "ready" THEN Settled(s) ELSE Ends(s)
  /\ UNCHANGED <<settings, key, flags, noticeVars, reset, shown, used>>

\* applyFreeModelSwitch: the key's tier, or that it could not be read.
TierIsKnown(s) ==
  /\ flow[s].pc = "tier"
  /\ \E tier \in {"free", "paid", "unknown"} : freeRun' = DecideFreeSwitch(tier)
  /\ IF freeRun' # freeRun THEN Kill ELSE UNCHANGED <<bridge, refresh>>
  /\ Goes(s, "starting")
  /\ UNCHANGED <<settings, key, flags, noticeVars, reset, shown, used>>

\* ensureBridgeForScan; the scan sends the file.
Send(s) ==
  /\ flow[s].pc = "starting"
  /\ mode = "local" \/ key # "none"
  /\ bridge' = "ready"
  /\ IF bridge # "ready" THEN Refresh ELSE UNCHANGED refresh
  /\ Ends(s)
  /\ UNCHANGED <<settings, key, flags, freeRun, noticeVars, reset, shown, used>>

\* Mutant: a picker that is dismissed keeps the mode there is, and the scan goes on.
GiveUpPicker(s) ==
  /\ flow[s].pc \in {"entry", "notice", "picker", "wizard", "starting"}
  /\ IF flow[s].pc = "picker" THEN Settled(s) ELSE Ends(s)
  /\ UNCHANGED <<settings, key, flags, freeRun, bridge, noticeVars, reset, onboardingVars, used>>

\* A dialog is dismissed, a scan is cancelled, a write or a start fails.
GiveUp(s) ==
  /\ flow[s].pc \in {"entry", "notice", "picker", "wizard", "starting"}
  /\ Ends(s)
  /\ UNCHANGED <<settings, key, flags, freeRun, bridge, noticeVars, reset, onboardingVars, used>>
-----------------------------------------------------------------------------
(* Reset Extension State; the bridge dies                                  *)

Reset ==
  /\ \/ /\ reset = "none" /\ Spend("events", MaxEvents)
        /\ reset' = "key" /\ key' = "none"
        /\ IF key # "none" THEN Refresh ELSE UNCHANGED refresh
        /\ UNCHANGED <<flags, freeRun, bridge, flow>>
     \/ /\ reset = "key" /\ reset' = "notice" /\ ack' = FALSE
        /\ UNCHANGED <<key, chosen, freeRun, bridge, refresh, flow, used>>
     \/ /\ reset = "notice" /\ reset' = "mode" /\ chosen' = FALSE
        /\ flow' = [s \in Slots |-> IF flow[s].pc = "idle" THEN Idle
                                    ELSE [flow[s] EXCEPT !.overtaken = TRUE]]
        /\ UNCHANGED <<key, ack, freeRun, bridge, refresh, used>>
     \/ /\ reset = "mode" /\ reset' = "none"
        /\ freeRun' = FALSE
        /\ Kill
        /\ UNCHANGED <<key, flags, flow, used>>
  /\ UNCHANGED <<settings, noticeVars, shown>>

BridgeDies ==
  /\ bridge = "ready" /\ Spend("events", MaxEvents)
  /\ bridge' = "error" /\ Refresh
  /\ UNCHANGED <<settings, key, flags, freeRun, noticeVars, flow, reset, shown>>
-----------------------------------------------------------------------------
Init ==
  /\ mode \in StartModes /\ model \in Models
  /\ key \in Keys
  /\ chosen \in BOOLEAN /\ ack \in BOOLEAN
  /\ freeRun = FALSE /\ bridge = "stopped"
  /\ notice = None /\ writing = None /\ suppress = FALSE /\ activation = "migrate"
  /\ flow = [s \in Slots |-> Idle]
  /\ reset = "none"
  /\ refresh = "reading"
  /\ shown = [connected |-> FALSE, selected |-> FALSE, prepared |-> FALSE]
  /\ used = [b \in {"commands", "events"} |-> 0]

Next ==
  \/ RefreshReadsKey \/ RefreshEnds
  \/ EditSettings \/ Click \/ NoticeWrites \/ NoticeDone \/ Reset \/ BridgeDies
  \/ MigrateLegacyFreeModel \/ ClearLegacyFreeModel \/ StartupNotice \/ ClearApiKey
  \/ \E s \in Slots :
       \/ Command(s) \/ StoreKey(s) \/ Verified(s) \/ ScanKey(s) \/ DontAskAgain(s)
       \/ Consented(s) \/ Pick(s) \/ Record(s) \/ Recorded(s) \/ SaveLocal(s) \/ LocalIsUp(s)
       \/ TierIsKnown(s) \/ Send(s) \/ GiveUp(s)

Spec == Init /\ [][Next]_vars
-----------------------------------------------------------------------------
\* The types; and the notices are suppressed exactly while one of them is being acted on
\* (suppressConfigNotices).
OnboardingTypeOK ==
  /\ suppress = (writing # None)
  /\ mode \in Modes /\ model \in Models /\ key \in Keys
  /\ {chosen, ack, freeRun, suppress} \subseteq BOOLEAN
  /\ bridge \in {"stopped", "ready", "error"}
  /\ notice \in Notices \cup {None} /\ writing \in Writings \cup {None}
  /\ activation \in {"migrate", "clear", "notice", "done"}
  /\ reset \in {"none", "key", "notice", "mode"}
  /\ refresh \in {"idle", "reading"} \cup Keys
  /\ shown \in [connected : BOOLEAN, selected : BOOLEAN, prepared : BOOLEAN]
  /\ flow \in [Slots -> Commands]

Sends(s) == flow[s].pc = "starting" /\ flow'[s].pc = "idle" /\ bridge' = "ready"

\* "A credited key never starts a billable default-model scan before the user has chosen
\* once" (scanCurrentFile): whatever is dismissed, edited or switched while the gate is open,
\* a file goes to the preset model only when a choice is on record.  A reset that takes the
\* record away while the scan is past the gate is the exception.
PaidIsChosen ==
  [][\A s \in Slots : Sends(s) /\ mode = "default" /\ SpawnedRoute = "preset"
       => chosen \/ flow[s].overtaken]_vars

\* A notice that still acts speaks of the settings there are, so that its button does what
\* it says; the exception is a mode that Set Up Local has written (the token of
\* onConfigChanged; saveLocalModelSettings).
NoticeIsTrue ==
  notice # None /\ mode # "local" => notice.mode = mode /\ notice.model = model

\* When nothing is under way, the walkthrough shows what is so; the exception is a reset
\* while the state of the bridge is "error", which nobody reports (refreshOnboardingState,
\* BridgeManager.kill).
Quiet == /\ refresh = "idle" /\ reset = "none"
         /\ \A s \in Slots : flow[s].pc # "recorded"
WalkthroughIsTrue == Quiet /\ bridge # "error" => shown = OnboardingState(key)

-----------------------------------------------------------------------------
\* What the sources say, and TLC finds the code does not keep; no run checks it.

\* The notice about the route names the model the file is then sent to (externalRouteText:
\* "matching what actually runs").
AnnouncedRouteIsUsed ==
  [][\A s \in Slots : Sends(s) /\ flow[s].route # None /\ mode # "local" /\ used["events"] = 0
       => flow[s].route = SpawnedRoute]_vars
=============================================================================
