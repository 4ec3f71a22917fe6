--------------------------- MODULE Onboarding_proofs ---------------------------
(***************************************************************************)
(* What holds of onboarding for any number of commands under way, of       *)
(* commands, of edits of the settings, of resets and of deaths of the      *)
(* bridge, from any mode.                                                  *)
(***************************************************************************)
EXTENDS Onboarding, TLAPS

(***************************************************************************)
(* Types.                                                                  *)
(***************************************************************************)
SettingsType == mode \in Modes /\ model \in Models /\ key \in Keys
                /\ {chosen, ack, freeRun, suppress} \subseteq BOOLEAN
                /\ bridge \in {"stopped", "ready", "error"}
NoticeType == /\ suppress = (writing # None)
              /\ notice \in Notices \cup {None} /\ writing \in Writings \cup {None}
              /\ activation \in {"migrate", "clear", "notice", "done"}
RefreshType == /\ reset \in {"none", "key", "notice", "mode"}
               /\ refresh \in {"idle", "reading"} \cup Keys
               /\ shown \in [connected : BOOLEAN, selected : BOOLEAN, prepared : BOOLEAN]
FlowType == flow \in [Slots -> Commands]

LEMMA TypeParts ==
  OnboardingTypeOK <=> SettingsType /\ NoticeType /\ RefreshType /\ FlowType
  BY DEF OnboardingTypeOK, SettingsType, NoticeType, RefreshType, FlowType

LEMMA TypePartsNext ==
  SettingsType' /\ NoticeType' /\ RefreshType' /\ FlowType' => OnboardingTypeOK'
<1>1. (SettingsType /\ NoticeType /\ RefreshType /\ FlowType => OnboardingTypeOK)'
  BY TypeParts, PTL
<1>2. QED
  BY <1>1

\* A change of the settings opens a notice about them, or none.
LEMMA NoticeForIs == NoticeFor \in {None, Notice("switch"), Notice("restart")}
  BY Zenon DEF NoticeFor

LEMMA NoticeIs ==
  ASSUME NEW kind \in {"switch", "restart", "startup"}
  PROVE  /\ Notice(kind).mode = mode' /\ Notice(kind).model = model'
         /\ mode' \in Modes /\ model' \in Models => Notice(kind) \in Notices
  BY DEF Notice, Notices

\* A command that goes on is one.
LEMMA CommandIs ==
  ASSUME NEW c \in Commands, NEW pc \in Awaits
  PROVE  /\ [c EXCEPT !.pc = pc] \in Commands
         /\ [c EXCEPT !.pc = pc].pc = pc /\ [c EXCEPT !.pc = pc].kind = c.kind
         /\ [c EXCEPT !.pc = pc].overtaken = c.overtaken
         /\ \A r \in Routes : [c EXCEPT !.pc = pc, !.route = r] \in Commands
         /\ \A m \in Modes : [c EXCEPT !.pc = pc, !.picked = m] \in Commands
  BY DEF Commands

LEMMA IdleIs == Idle \in Commands /\ Idle.pc = "idle"
  BY DEF Idle, Commands, Awaits

LEMMA MovesIs ==
  ASSUME FlowType, NEW s \in Slots, NEW to \in Commands, Moves(s, to)
  PROVE  FlowType' /\ flow'[s] = to /\ \A r \in Slots : r # s => flow'[r] = flow[r]
  BY DEF FlowType, Moves

LEMMA GoesIs ==
  ASSUME FlowType, NEW s \in Slots, NEW pc \in Awaits, Goes(s, pc)
  PROVE  /\ FlowType' /\ \A r \in Slots : r # s => flow'[r] = flow[r]
         /\ flow'[s].pc = pc /\ flow'[s].kind = flow[s].kind
         /\ flow'[s].overtaken = flow[s].overtaken
<1>1. flow[s] \in Commands
  BY DEF FlowType
<1>2. PICK to \in Commands : to = [flow[s] EXCEPT !.pc = pc]
  BY <1>1, CommandIs
<1>3. Moves(s, to)
  BY <1>2 DEF Goes
<1>4. to.pc = pc /\ to.kind = flow[s].kind /\ to.overtaken = flow[s].overtaken
  BY <1>1, <1>2, CommandIs
<1>5. QED
  BY <1>3, <1>4, MovesIs

LEMMA EndsIs ==
  ASSUME FlowType, NEW s \in Slots, Ends(s)
  PROVE  FlowType' /\ flow'[s].pc = "idle" /\ \A r \in Slots : r # s => flow'[r] = flow[r]
  BY MovesIs, IdleIs DEF Ends

LEMMA SettledGoes ==
  ASSUME FlowType, NEW s \in Slots, Settled(s)
  PROVE  /\ FlowType' /\ \A r \in Slots : r # s => flow'[r] = flow[r]
         /\ \/ flow'[s].pc = "idle"
            \/ /\ flow'[s].pc \in {"tier", "starting"}
               /\ flow'[s].kind = flow[s].kind /\ flow[s].kind = "scan"
               /\ flow'[s].overtaken = flow[s].overtaken
<1>1. CASE Ends(s)
  BY <1>1, EndsIs
<1>2. ASSUME flow[s].kind = "scan", NEW pc \in {"tier", "starting"}, Goes(s, pc)
      PROVE  /\ FlowType' /\ \A r \in Slots : r # s => flow'[r] = flow[r]
             /\ flow'[s].pc = pc /\ flow'[s].kind = flow[s].kind
             /\ flow'[s].overtaken = flow[s].overtaken
  BY <1>2, GoesIs DEF Awaits
<1>3. QED
  BY <1>1, <1>2 DEF Settled

LEMMA InitTypes == OnboardingAssumption /\ Init => OnboardingTypeOK
<1> SUFFICES ASSUME OnboardingAssumption, Init PROVE OnboardingTypeOK
  OBVIOUS
<1>1. SettingsType
  BY DEF Init, OnboardingAssumption, SettingsType, Modes
<1>2. NoticeType /\ RefreshType /\ FlowType
  BY IdleIs DEF Init, NoticeType, RefreshType, FlowType
<1>3. QED
  BY <1>1, <1>2, TypeParts

(***************************************************************************)
(* What a step does to each part.                                          *)
(***************************************************************************)
\* A step after which the walkthrough needs no telling: it is told, or what it shows has not
\* changed, or a command or a reset that will tell it is under way.
Told ==
  \/ refresh' = "reading"
  \/ /\ UNCHANGED <<mode, model, key, bridge, refresh, shown>>
     /\ chosen' = chosen \/ reset' # "none" \/ \E s \in Slots : flow'[s].pc = "recorded"
     /\ reset' = "none" => reset = "none" \/ bridge = "error"
     /\ \A s \in Slots : flow[s].pc = "recorded" => flow'[s].pc = "recorded"

\* The key a call has read is the key there is; and the walkthrough is right.
Walkthrough == (refresh \in Keys => refresh = key) /\ WalkthroughIsTrue

\* Past the gate a choice is on record, or the command was under way at a reset.
PastGate(c) == \/ c.pc \in {"recorded", "tier", "starting"}
               \/ c.kind = "scan" /\ c.pc \in {"wizard", "saved"}
Gate == \A s \in Slots : PastGate(flow[s]) => chosen \/ flow[s].overtaken

OnboardingInv == OnboardingTypeOK /\ NoticeIsTrue /\ Walkthrough /\ Gate

LEMMA ToldKeepsWalkthrough == Walkthrough /\ Told => Walkthrough'
<1> SUFFICES ASSUME Walkthrough, Told PROVE Walkthrough'
  OBVIOUS
<1>1. CASE refresh' = "reading"
  BY <1>1 DEF Walkthrough, WalkthroughIsTrue, Quiet, Keys
<1>2. ASSUME refresh' # "reading", Quiet', bridge' # "error"
      PROVE  shown' = OnboardingState(key)'
  <2>1. /\ UNCHANGED <<mode, model, key, bridge, refresh, shown>>
        /\ chosen' = chosen /\ Quiet
    BY <1>2 DEF Told, Quiet
  <2>2. shown = OnboardingState(key)
    BY <2>1, <1>2 DEF Walkthrough, WalkthroughIsTrue
  <2>3. QED
    BY <2>1, <2>2 DEF OnboardingState, ShouldPromptModelMode, HasExplicitModel
<1>3. refresh' # "reading" => refresh' = refresh /\ key' = key
  BY DEF Told
<1>4. QED
  BY <1>1, <1>2, <1>3 DEF Walkthrough, WalkthroughIsTrue

\* One write: the notice it opens, if any, is about the settings it leaves.
LEMMA WriteIs ==
  ASSUME OnboardingAssumption, SettingsType, NoticeType, RefreshType, NoticeIsTrue,
         NEW mo \in Modes, NEW mod \in Models, Write(mo, mod)
  PROVE  /\ mode' = mo /\ model' = mod
         /\ bridge' \in {"stopped", "ready", "error"}
         /\ notice' \in Notices \cup {None}
         /\ NoticeIsTrue'
         /\ refresh' = "reading" \/ UNCHANGED <<mode, model, bridge, refresh, notice>>
<1>1. mode' = mo /\ model' = mod /\ mode' \in Modes /\ model' \in Models
  BY DEF Write
<1>2. CASE settings' = settings
  <2>1. UNCHANGED <<mode, model, bridge, refresh, notice>>
    BY <1>2 DEF Write, settings
  <2>2. QED
    BY <1>1, <2>1 DEF SettingsType, NoticeType, NoticeIsTrue
<1>3. CASE settings' # settings
  <2>1. /\ refresh' = "reading" /\ notice' = NoticeFor
        /\ bridge' = IF mo # mode /\ bridge # "error" THEN "stopped" ELSE bridge
    BY <1>3 DEF Write, Refresh, Superseded
  <2>2. notice' \in {None, Notice("switch"), Notice("restart")}
    BY <2>1, NoticeForIs
  <2>3. notice' \in Notices \cup {None} /\ NoticeIsTrue'
    BY <1>1, <2>2, NoticeIs DEF NoticeIsTrue
  <2>4. QED
    BY <1>1, <2>1, <2>3 DEF SettingsType
<1>4. QED
  BY <1>2, <1>3

LEMMA KillIs ==
  ASSUME SettingsType, RefreshType, Kill
  PROVE  /\ bridge' \in {"stopped", "ready", "error"}
         /\ refresh' = "reading" \/ (bridge = "error" /\ UNCHANGED <<bridge, refresh>>)
  BY DEF Kill, Refresh, SettingsType

\* The settings and the notice stay, or are written once; no command moves.
LEMMA WritingKeeps ==
  ASSUME OnboardingAssumption, OnboardingInv,
         NEW mo \in Modes, NEW mod \in Models, Write(mo, mod),
         UNCHANGED <<key, chosen, ack, freeRun, flow, reset, shown>>,
         suppress' = (writing' # None), writing' \in Writings \cup {None},
         activation' \in {"migrate", "clear", "notice", "done"}
  PROVE  OnboardingInv'
<1> USE DEF OnboardingInv
<1>1. SettingsType /\ NoticeType /\ RefreshType /\ FlowType
  BY TypeParts
<1>2. /\ mode' = mo /\ model' = mod /\ bridge' \in {"stopped", "ready", "error"}
      /\ notice' \in Notices \cup {None} /\ NoticeIsTrue'
      /\ refresh' = "reading" \/ UNCHANGED <<mode, model, bridge, refresh, notice>>
  BY <1>1, WriteIs
<1>3. SettingsType'
  BY <1>1, <1>2 DEF SettingsType
<1>4. NoticeType' /\ RefreshType' /\ FlowType'
  BY <1>1, <1>2 DEF NoticeType, RefreshType, FlowType
<1>5. OnboardingTypeOK'
  BY <1>3, <1>4, TypePartsNext
<1>6. Told
  BY <1>2 DEF Told
<1>7. Gate'
  BY DEF Gate
<1>8. QED
  BY <1>2, <1>5, <1>6, <1>7, ToldKeepsWalkthrough

\* The settings and the notice stay, and no command moves.
LEMMA StillKeeps ==
  ASSUME OnboardingInv, UNCHANGED <<mode, model, chosen, flow>>,
         notice' = notice \/ notice' = None,
         SettingsType', NoticeType', RefreshType', Told
  PROVE  OnboardingInv'
<1>1. FlowType'
  BY TypeParts DEF OnboardingInv, FlowType
<1>2. OnboardingTypeOK'
  BY <1>1, TypePartsNext
<1>3. NoticeIsTrue' /\ Gate'
  BY DEF OnboardingInv, NoticeIsTrue, Gate
<1>4. QED
  BY <1>2, <1>3, ToldKeepsWalkthrough DEF OnboardingInv

\* One command moves, and the notices stay.
LEMMA MovingKeeps ==
  ASSUME OnboardingInv, NEW s \in Slots,
         FlowType', \A r \in Slots : r # s => flow'[r] = flow[r],
         UNCHANGED <<notice, writing, suppress, activation, reset, shown>>,
         mode' = "local" \/ UNCHANGED <<mode, model>>,
         chosen => chosen', SettingsType', RefreshType', Told,
         PastGate(flow'[s]) => chosen' \/ flow'[s].overtaken
  PROVE  OnboardingInv'
<1>1. NoticeType'
  BY TypeParts DEF OnboardingInv, NoticeType
<1>2. OnboardingTypeOK'
  BY <1>1, TypePartsNext
<1>3. NoticeIsTrue'
  BY DEF OnboardingInv, NoticeIsTrue
<1>4. Gate'
  BY DEF OnboardingInv, Gate
<1>5. QED
  BY <1>2, <1>3, <1>4, ToldKeepsWalkthrough DEF OnboardingInv

(***************************************************************************)
(* The settings, their notices, and the walkthrough.                       *)
(***************************************************************************)
LEMMA WritesKeep ==
  OnboardingAssumption /\ OnboardingInv
  /\ (EditSettings \/ NoticeWrites \/ MigrateLegacyFreeModel \/ ClearLegacyFreeModel)
  => OnboardingInv'
<1> SUFFICES ASSUME OnboardingAssumption, OnboardingInv,
                    EditSettings \/ NoticeWrites \/ MigrateLegacyFreeModel \/ ClearLegacyFreeModel
             PROVE  OnboardingInv'
  OBVIOUS
<1>1. SettingsType /\ NoticeType /\ RefreshType /\ FlowType
  BY TypeParts DEF OnboardingInv
<1>2. CASE EditSettings
  <2>1. UNCHANGED <<key, chosen, ack, freeRun, flow, reset, shown, writing, suppress, activation>>
    BY <1>2 DEF EditSettings, flags
  <2>2. PICK mo \in Modes, mod \in Models : Write(mo, mod)
    BY <1>1, <1>2 DEF EditSettings, SettingsType
  <2>3. QED
    BY <1>1, <2>1, <2>2, WritingKeeps DEF NoticeType
<1>3. CASE NoticeWrites
  <2>1. UNCHANGED <<key, chosen, ack, freeRun, flow, reset, shown, suppress, activation>>
    BY <1>3 DEF NoticeWrites, flags
  <2>2. PICK mo \in Modes, mod \in Models : Write(mo, mod)
    BY <1>1, <1>3 DEF NoticeWrites, SettingsType, Modes, Models
  <2>3. /\ writing \in {"custom", "clear"} /\ writing' \in {"custom done", "clear done"}
    BY <1>3 DEF NoticeWrites
  <2>4. suppress' = (writing' # None) /\ writing' \in Writings
    BY <1>1, <2>1, <2>3 DEF NoticeType, Writings, OnboardingAssumption
  <2>5. QED
    BY <1>1, <2>1, <2>2, <2>4, WritingKeeps DEF NoticeType
<1>4. CASE MigrateLegacyFreeModel
  <2>1. /\ UNCHANGED <<key, chosen, ack, freeRun, flow, reset, shown, suppress, writing>>
        /\ activation' \in {"clear", "notice"}
    BY <1>4 DEF MigrateLegacyFreeModel, flags
  <2>2. CASE ShouldMigrateLegacyFreeModel
    <3>1. "free" \in Modes /\ model \in Models /\ Write("free", model)
      BY <1>1, <1>4, <2>2 DEF MigrateLegacyFreeModel, SettingsType, Modes
    <3>2. QED
      BY <1>1, <2>1, <3>1, WritingKeeps DEF NoticeType
  <2>3. CASE ~ShouldMigrateLegacyFreeModel
    <3>1. UNCHANGED <<mode, model, bridge, refresh, notice>>
      BY <1>4, <2>3 DEF MigrateLegacyFreeModel, settings
    <3>2. SettingsType' /\ NoticeType' /\ RefreshType' /\ Told
      BY <1>1, <2>1, <3>1 DEF SettingsType, NoticeType, RefreshType, Told
    <3>3. QED
      BY <2>1, <3>1, <3>2, StillKeeps
  <2>4. QED
    BY <2>2, <2>3
<1>5. CASE ClearLegacyFreeModel
  <2>1. /\ UNCHANGED <<key, chosen, ack, freeRun, flow, reset, shown, suppress, writing>>
        /\ activation' = "notice"
    BY <1>5 DEF ClearLegacyFreeModel, flags
  <2>2. mode \in Modes /\ "preset" \in Models /\ Write(mode, "preset")
    BY <1>1, <1>5 DEF ClearLegacyFreeModel, SettingsType, Models
  <2>3. QED
    BY <1>1, <2>1, <2>2, WritingKeeps DEF NoticeType
<1>6. QED
  BY <1>2, <1>3, <1>4, <1>5

LEMMA NoticesKeep ==
  OnboardingAssumption /\ OnboardingInv /\ (Click \/ NoticeDone \/ StartupNotice) => OnboardingInv'
<1> SUFFICES ASSUME OnboardingAssumption, OnboardingInv, Click \/ NoticeDone \/ StartupNotice
             PROVE  OnboardingInv'
  OBVIOUS
<1>1. SettingsType /\ NoticeType /\ RefreshType /\ FlowType
  BY TypeParts DEF OnboardingInv
<1>2. CASE Click
  <2>1. /\ UNCHANGED <<mode, model, key, chosen, ack, freeRun, activation, flow, reset, shown>>
        /\ notice' = None
    BY <1>2 DEF Click, settings, flags
  <2>2. \/ writing' \in {"custom", "clear"} /\ suppress' = TRUE /\ UNCHANGED <<bridge, refresh>>
        \/ Kill /\ UNCHANGED <<writing, suppress>>
        \/ UNCHANGED <<writing, suppress, bridge, refresh>>
    BY <1>2 DEF Click
  <2>3. suppress' = (writing' # None) /\ writing' \in Writings \cup {None} /\ suppress' \in BOOLEAN
    BY <1>1, <2>2 DEF NoticeType, SettingsType, Writings, OnboardingAssumption
  <2>4. /\ bridge' \in {"stopped", "ready", "error"}
        /\ refresh' = "reading" \/ UNCHANGED <<bridge, refresh>>
    BY <1>1, <2>2, KillIs DEF SettingsType
  <2>5. SettingsType' /\ NoticeType' /\ RefreshType' /\ Told
    BY <1>1, <2>1, <2>3, <2>4 DEF SettingsType, NoticeType, RefreshType, Told
  <2>6. QED
    BY <2>1, <2>5, StillKeeps
<1>3. CASE NoticeDone
  <2>1. /\ UNCHANGED <<mode, model, key, chosen, ack, freeRun, notice, activation, flow, reset, shown>>
        /\ writing' = None /\ suppress' = FALSE
        /\ Kill \/ UNCHANGED <<bridge, refresh>>
    BY <1>3 DEF NoticeDone, settings, flags
  <2>2. /\ bridge' \in {"stopped", "ready", "error"}
        /\ refresh' = "reading" \/ UNCHANGED <<bridge, refresh>>
    BY <1>1, <2>1, KillIs DEF SettingsType
  <2>3. SettingsType' /\ NoticeType' /\ RefreshType' /\ Told
    BY <1>1, <2>1, <2>2 DEF SettingsType, NoticeType, RefreshType, Told
  <2>4. QED
    BY <2>1, <2>3, StillKeeps
<1>4. CASE StartupNotice
  <2>1. /\ UNCHANGED <<mode, model, bridge, refresh, key, chosen, ack, freeRun, writing, suppress,
                       flow, reset, shown>>
        /\ activation' = "done"
        /\ notice' = notice \/ notice' = Notice("startup")
    BY <1>4 DEF StartupNotice, Superseded, settings, flags
  <2>2. notice' \in Notices \cup {None} /\ NoticeIsTrue'
    BY <1>1, <2>1, NoticeIs DEF SettingsType, NoticeType, OnboardingInv, NoticeIsTrue
  <2>3. SettingsType' /\ NoticeType' /\ RefreshType' /\ FlowType' /\ Told
    BY <1>1, <2>1, <2>2 DEF SettingsType, NoticeType, RefreshType, FlowType, Told
  <2>4. OnboardingTypeOK'
    BY <2>3, TypePartsNext
  <2>5. Gate'
    BY <2>1 DEF OnboardingInv, Gate
  <2>6. QED
    BY <2>2, <2>3, <2>4, <2>5, ToldKeepsWalkthrough DEF OnboardingInv
<1>5. QED
  BY <1>2, <1>3, <1>4

LEMMA RefreshesKeep ==
  OnboardingAssumption /\ OnboardingInv /\ (RefreshReadsKey \/ RefreshEnds) => OnboardingInv'
<1> SUFFICES ASSUME OnboardingInv, RefreshReadsKey \/ RefreshEnds PROVE OnboardingInv'
  OBVIOUS
<1>1. SettingsType /\ NoticeType /\ RefreshType /\ FlowType
  BY TypeParts DEF OnboardingInv
<1>2. UNCHANGED <<mode, model, key, chosen, ack, freeRun, bridge, notice, writing, suppress,
                  activation, flow, reset>>
  BY DEF RefreshReadsKey, RefreshEnds, settings, flags, noticeVars
<1>3. \/ refresh' = key /\ shown' = shown
      \/ refresh' = "idle" /\ shown' = OnboardingState(key)
  BY DEF RefreshReadsKey, RefreshEnds, OnboardingInv, Walkthrough
<1>4. shown' \in [connected : BOOLEAN, selected : BOOLEAN, prepared : BOOLEAN]
  <2>1. OnboardingState(key) \in [connected : BOOLEAN, selected : BOOLEAN, prepared : BOOLEAN]
    BY DEF OnboardingState
  <2>2. QED
    BY <1>1, <1>3, <2>1 DEF RefreshType
<1>5. SettingsType' /\ NoticeType' /\ RefreshType' /\ FlowType'
  BY <1>1, <1>2, <1>3, <1>4 DEF SettingsType, NoticeType, RefreshType, FlowType
<1>6. OnboardingTypeOK'
  BY <1>5, TypePartsNext
<1>7. NoticeIsTrue' /\ Gate'
  BY <1>2 DEF OnboardingInv, NoticeIsTrue, Gate
<1>8. OnboardingState(key)' = OnboardingState(key)
  BY <1>2 DEF OnboardingState, ShouldPromptModelMode, HasExplicitModel
<1>9. Walkthrough'
  BY <1>1, <1>2, <1>3, <1>8 DEF Walkthrough, WalkthroughIsTrue, Quiet, Keys, SettingsType
<1>10. QED
  BY <1>6, <1>7, <1>9 DEF OnboardingInv

LEMMA KeyAndBridgeKeep ==
  OnboardingAssumption /\ OnboardingInv /\ (ClearApiKey \/ BridgeDies) => OnboardingInv'
<1> SUFFICES ASSUME OnboardingInv, ClearApiKey \/ BridgeDies PROVE OnboardingInv'
  OBVIOUS
<1>1. SettingsType /\ NoticeType /\ RefreshType /\ FlowType
  BY TypeParts DEF OnboardingInv
<1>2. /\ UNCHANGED <<mode, model, chosen, ack, freeRun, notice, writing, suppress, activation, flow,
                     reset, shown>>
      /\ refresh' = "reading" /\ key' \in {key, "none"} /\ bridge' \in {bridge, "stopped", "error"}
  BY DEF ClearApiKey, BridgeDies, KillForKey, Refresh, settings, flags, noticeVars
<1>3. SettingsType' /\ NoticeType' /\ RefreshType' /\ Told
  BY <1>1, <1>2 DEF SettingsType, NoticeType, RefreshType, Told, Keys
<1>4. QED
  BY <1>2, <1>3, StillKeeps

LEMMA ResetKeeps == OnboardingAssumption /\ OnboardingInv /\ Reset => OnboardingInv'
<1> SUFFICES ASSUME OnboardingInv, Reset PROVE OnboardingInv'
  OBVIOUS
<1>1. SettingsType /\ NoticeType /\ RefreshType /\ FlowType
  BY TypeParts DEF OnboardingInv
<1>2. UNCHANGED <<mode, model, notice, writing, suppress, activation, shown>>
  BY DEF Reset, settings, noticeVars
<1>3. ASSUME UNCHANGED <<chosen, freeRun, bridge, flow>>, key' \in {key, "none"}, ack' \in BOOLEAN,
             reset' \in {"key", "notice"}, refresh' = "reading" \/ UNCHANGED <<key, refresh>>
      PROVE  OnboardingInv'
  <2>1. SettingsType' /\ NoticeType' /\ RefreshType' /\ Told
    BY <1>1, <1>2, <1>3 DEF SettingsType, NoticeType, RefreshType, Told, Keys
  <2>2. QED
    BY <1>2, <1>3, <2>1, StillKeeps
<1>4. CASE reset = "none"
  <2>1. /\ UNCHANGED <<chosen, ack, freeRun, bridge, flow>> /\ key' = "none" /\ reset' = "key"
        /\ IF key # "none" THEN Refresh ELSE UNCHANGED refresh
    BY <1>4 DEF Reset, flags
  <2>2. QED
    BY <1>1, <1>3, <2>1 DEF Refresh, SettingsType
<1>5. CASE reset = "key"
  BY <1>3, <1>5 DEF Reset
<1>6. CASE reset = "notice"
  <2>1. /\ UNCHANGED <<key, ack, freeRun, bridge, refresh>> /\ chosen' = FALSE /\ reset' = "mode"
        /\ flow' = [s \in Slots |-> IF flow[s].pc = "idle" THEN Idle
                                    ELSE [flow[s] EXCEPT !.overtaken = TRUE]]
    BY <1>6 DEF Reset
  <2>2. ASSUME NEW s \in Slots
        PROVE  /\ flow'[s] \in Commands /\ flow'[s].pc = flow[s].pc
               /\ flow[s].pc # "idle" => flow'[s].overtaken = TRUE
               /\ flow[s].pc = "idle" => flow'[s] = Idle
    <3>1. flow[s] \in Commands
      BY <1>1 DEF FlowType
    <3>2. flow'[s] = IF flow[s].pc = "idle" THEN Idle ELSE [flow[s] EXCEPT !.overtaken = TRUE]
      BY <2>1
    <3>3. QED
      BY <3>1, <3>2, IdleIs DEF Commands
  <2>3. FlowType'
    <3> DEFINE F(s) == IF flow[s].pc = "idle" THEN Idle ELSE [flow[s] EXCEPT !.overtaken = TRUE]
    <3>1. flow' = [s \in Slots |-> F(s)]
      BY <2>1
    <3>2. \A s \in Slots : F(s) \in Commands
      BY <2>2, <3>1
    <3>3. QED
      BY <3>1, <3>2 DEF FlowType
  <2>4. SettingsType' /\ NoticeType' /\ RefreshType' /\ Told
    <3>1. SettingsType'
      BY <1>1, <1>2, <2>1 DEF SettingsType
    <3>2. NoticeType' /\ RefreshType'
      BY <1>1, <1>2, <2>1 DEF NoticeType, RefreshType
    <3>3. Told
      BY <1>2, <1>6, <2>1, <2>2 DEF Told
    <3>4. QED
      BY <3>1, <3>2, <3>3
  <2>5. OnboardingTypeOK'
    BY <2>3, <2>4, TypePartsNext
  <2>6. Gate'
    BY <2>2, IdleIs DEF Gate, PastGate, Idle
  <2>7. NoticeIsTrue'
    BY <1>2 DEF OnboardingInv, NoticeIsTrue
  <2>8. QED
    BY <2>4, <2>5, <2>6, <2>7, ToldKeepsWalkthrough DEF OnboardingInv
<1>7. CASE reset = "mode"
  <2>1. /\ UNCHANGED <<key, chosen, ack, flow>> /\ freeRun' = FALSE /\ reset' = "none" /\ Kill
    BY <1>7 DEF Reset, flags
  <2>2. /\ bridge' \in {"stopped", "ready", "error"}
        /\ refresh' = "reading" \/ (bridge = "error" /\ UNCHANGED <<bridge, refresh>>)
    BY <1>1, <2>1, KillIs
  <2>3. SettingsType' /\ NoticeType' /\ RefreshType' /\ Told
    BY <1>1, <1>2, <2>1, <2>2 DEF SettingsType, NoticeType, RefreshType, Told
  <2>4. QED
    BY <1>2, <2>1, <2>3, StillKeeps
<1>8. QED
  BY <1>4, <1>5, <1>6, <1>7 DEF Reset

(***************************************************************************)
(* The commands.                                                           *)
(***************************************************************************)
\* The gate itself: a command goes past it with a choice on record only.
LEMMA MaybePromptIs ==
  ASSUME SettingsType, FlowType, NEW s \in Slots, MaybePrompt(s)
  PROVE  /\ FlowType' /\ \A r \in Slots : r # s => flow'[r] = flow[r]
         /\ ack' \in BOOLEAN /\ chosen' \in BOOLEAN /\ (chosen => chosen')
         /\ (chosen' = chosen \/ flow'[s].pc = "recorded")
         /\ (PastGate(flow'[s]) => chosen' \/ flow'[s].overtaken)
<1> ack \in BOOLEAN /\ chosen \in BOOLEAN
  BY DEF SettingsType
<1>1. CASE ShouldRecordWithoutPrompt
  <2>1. chosen' = TRUE /\ ack' = ack /\ Goes(s, "recorded")
    BY <1>1 DEF MaybePrompt
  <2>2. QED
    BY <2>1, GoesIs DEF Awaits
<1>2. CASE ~ShouldRecordWithoutPrompt /\ ShouldPromptModelMode
  <2>1. chosen' = chosen /\ ack' = ack /\ Goes(s, "picker")
    BY <1>2 DEF MaybePrompt, flags
  <2>2. QED
    BY <2>1, GoesIs DEF Awaits, PastGate, SettingsType
<1>3. CASE ~ShouldRecordWithoutPrompt /\ ~ShouldPromptModelMode
  <2>1. chosen' = chosen /\ ack' = ack /\ Settled(s)
    BY <1>3 DEF MaybePrompt, flags
  <2>2. chosen
    BY <1>3 DEF ShouldRecordWithoutPrompt, ShouldPromptModelMode
  <2>3. QED
    BY <2>1, <2>2, SettledGoes DEF SettingsType
<1>4. QED
  BY <1>1, <1>2, <1>3

\* The steps that leave the settings, the bridge and the walkthrough alone.
LEMMA GatesKeep ==
  ASSUME OnboardingInv, NEW s \in Slots,
         UNCHANGED <<mode, model, key, freeRun, bridge, notice, writing, suppress, activation, reset,
                     refresh, shown>>,
         FlowType', \A r \in Slots : r # s => flow'[r] = flow[r],
         chosen' \in BOOLEAN, ack' \in BOOLEAN, chosen => chosen',
         chosen' = chosen \/ flow'[s].pc = "recorded",
         flow[s].pc # "recorded",
         PastGate(flow'[s]) => chosen' \/ flow'[s].overtaken
  PROVE  OnboardingInv'
<1>1. SettingsType /\ RefreshType
  BY TypeParts DEF OnboardingInv
<1>2. SettingsType'
  BY <1>1 DEF SettingsType
<1>3. RefreshType'
  BY <1>1 DEF RefreshType
<1>4. Told
  <2>1. chosen' = chosen \/ \E r \in Slots : flow'[r].pc = "recorded"
    OBVIOUS
  <2>2. \A r \in Slots : flow[r].pc = "recorded" => flow'[r].pc = "recorded"
    OBVIOUS
  <2>3. QED
    BY <2>1, <2>2 DEF Told
<1>5. QED
  BY <1>2, <1>3, <1>4, MovingKeeps

LEMMA GateSteps ==
  ASSUME OnboardingInv, NEW s \in Slots,
         Command(s) \/ Verified(s) \/ ScanKey(s) \/ DontAskAgain(s) \/ Consented(s) \/ Record(s)
         \/ GiveUp(s)
  PROVE  OnboardingInv'
<1>1. SettingsType /\ FlowType /\ flow[s] \in Commands
  BY TypeParts DEF OnboardingInv, FlowType
<1>2. UNCHANGED <<mode, model, key, freeRun, bridge, notice, writing, suppress, activation, reset,
                  refresh, shown>>
  BY DEF Command, Verified, ScanKey, DontAskAgain, Consented, Record, GiveUp,
         settings, noticeVars, onboardingVars
<1>3. flow[s].pc # "recorded"
  BY DEF Command, Verified, ScanKey, DontAskAgain, Consented, Record, GiveUp
<1>4. chosen \in BOOLEAN /\ ack \in BOOLEAN
  BY <1>1 DEF SettingsType
<1>5. ASSUME MaybePrompt(s) PROVE OnboardingInv'
  <2>1. /\ FlowType' /\ \A r \in Slots : r # s => flow'[r] = flow[r]
        /\ ack' \in BOOLEAN /\ chosen' \in BOOLEAN /\ (chosen => chosen')
        /\ (chosen' = chosen \/ flow'[s].pc = "recorded")
        /\ (PastGate(flow'[s]) => chosen' \/ flow'[s].overtaken)
    BY <1>1, <1>5, MaybePromptIs
  <2>2. QED
    BY <1>2, <1>3, <2>1, GatesKeep
<1>6. ASSUME UNCHANGED flags, Ends(s) PROVE OnboardingInv'
  <2>1. FlowType' /\ ~PastGate(flow'[s]) /\ \A r \in Slots : r # s => flow'[r] = flow[r]
    BY <1>1, <1>6, EndsIs DEF PastGate
  <2>2. chosen' = chosen /\ ack' = ack
    BY <1>6 DEF flags
  <2>3. QED
    BY <1>2, <1>3, <1>4, <2>1, <2>2, GatesKeep
<1>7. ASSUME UNCHANGED flags, NEW to \in Commands, Moves(s, to), ~PastGate(to) PROVE OnboardingInv'
  BY <1>1, <1>2, <1>3, <1>4, <1>7, MovesIs, GatesKeep DEF flags
<1>8. CASE Command(s)
  <2>1. /\ UNCHANGED flags
        /\ \E pc \in {"key", "entry", "picker", "wizard"}, kind \in {"scan", "setup"} :
             /\ pc = "wizard" => kind = "setup"
             /\ Moves(s, [Idle EXCEPT !.pc = pc, !.kind = kind])
    BY <1>8 DEF Command
  <2>2. PICK pc \in {"key", "entry", "picker", "wizard"}, kind \in {"scan", "setup"} :
             /\ pc = "wizard" => kind = "setup"
             /\ Moves(s, [Idle EXCEPT !.pc = pc, !.kind = kind])
    BY <2>1
  <2>3. PICK to : to = [Idle EXCEPT !.pc = pc, !.kind = kind]
    OBVIOUS
  <2>4. to \in Commands /\ to.pc = pc /\ to.kind = kind
    BY <2>3, IdleIs DEF Commands, Awaits
  <2>5. QED
    BY <1>7, <2>1, <2>2, <2>3, <2>4 DEF PastGate
<1>9. CASE Verified(s) \/ Consented(s)
  BY <1>5, <1>9 DEF Verified, Consented
<1>10. CASE ScanKey(s)
  <2>1. CASE Moves(s, [flow[s] EXCEPT !.pc = "notice", !.route = ConfiguredRoute]) /\ UNCHANGED flags
    <3>1. ConfiguredRoute \in Routes
      BY <1>1 DEF ConfiguredRoute, Routes, SettingsType, Models
    <3>2. PICK to : to = [flow[s] EXCEPT !.pc = "notice", !.route = ConfiguredRoute]
      OBVIOUS
    <3>3. to \in Commands /\ to.pc = "notice"
      BY <1>1, <3>1, <3>2 DEF Commands, Awaits
    <3>4. QED
      BY <1>7, <2>1, <3>2, <3>3 DEF PastGate
  <2>2. QED
    BY <1>5, <1>6, <1>10, <2>1 DEF ScanKey
<1>11. CASE DontAskAgain(s)
  <2>1. ack' = TRUE /\ chosen' = chosen /\ Goes(s, "consented")
    BY <1>11 DEF DontAskAgain
  <2>2. FlowType' /\ flow'[s].pc = "consented" /\ \A r \in Slots : r # s => flow'[r] = flow[r]
    BY <1>1, <2>1, GoesIs DEF Awaits
  <2>3. QED
    BY <1>2, <1>3, <1>4, <2>1, <2>2, GatesKeep DEF PastGate
<1>12. CASE Record(s)
  <2>1. ack' = ack /\ chosen' = TRUE /\ Goes(s, "recorded")
    BY <1>12 DEF Record
  <2>2. FlowType' /\ flow'[s].pc = "recorded" /\ \A r \in Slots : r # s => flow'[r] = flow[r]
    BY <1>1, <2>1, GoesIs DEF Awaits
  <2>3. QED
    BY <1>2, <1>3, <1>4, <2>1, <2>2, GatesKeep
<1>13. CASE GiveUp(s)
  BY <1>6, <1>13 DEF GiveUp
<1>14. QED
  BY <1>8, <1>9, <1>10, <1>11, <1>12, <1>13

\* What a move of one command says of what the walkthrough has to be told.
LEMMA ToldByMove ==
  ASSUME NEW s \in Slots, \A r \in Slots : r # s => flow'[r] = flow[r],
         refresh' = "reading" \/ flow[s].pc # "recorded",
         refresh' = "reading" \/ UNCHANGED <<mode, model, key, bridge, refresh, shown, chosen, reset>>
  PROVE  Told
  BY DEF Told

\* The user picks a mode, and it is written.
LEMMA PickKeeps ==
  ASSUME OnboardingAssumption, OnboardingInv, NEW s \in Slots, Pick(s)
  PROVE  OnboardingInv'
<1>1. SettingsType /\ NoticeType /\ RefreshType /\ FlowType /\ flow[s] \in Commands
  BY TypeParts DEF OnboardingInv, FlowType
<1>2. UNCHANGED <<key, chosen, ack, freeRun, writing, suppress, activation, reset, shown>>
  BY DEF Pick, flags
<1>3. PICK m \in {"local", "free", "default"} :
        Write(m, model) /\ Moves(s, [flow[s] EXCEPT !.pc = "picked", !.picked = m])
  BY DEF Pick
<1>4. m \in Modes /\ model \in Models
  BY <1>1 DEF Modes, SettingsType
<1>5. PICK to : to = [flow[s] EXCEPT !.pc = "picked", !.picked = m]
  OBVIOUS
<1>6. to \in Commands /\ to.pc = "picked"
  BY <1>1, <1>4, <1>5 DEF Commands, Awaits
<1>7. FlowType' /\ flow'[s].pc = "picked" /\ \A r \in Slots : r # s => flow'[r] = flow[r]
  BY <1>1, <1>3, <1>5, <1>6, MovesIs
<1>8. /\ mode' = m /\ model' = model /\ bridge' \in {"stopped", "ready", "error"}
      /\ notice' \in Notices \cup {None} /\ NoticeIsTrue'
      /\ refresh' = "reading" \/ UNCHANGED <<mode, model, bridge, refresh, notice>>
  BY <1>1, <1>3, <1>4, WriteIs DEF OnboardingInv
<1>9. SettingsType'
  BY <1>1, <1>2, <1>4, <1>8 DEF SettingsType
<1>10. NoticeType' /\ RefreshType'
  BY <1>1, <1>2, <1>8 DEF NoticeType, RefreshType
<1>11. OnboardingTypeOK'
  BY <1>7, <1>9, <1>10, TypePartsNext
<1>12. flow[s].pc # "recorded"
  BY DEF Pick
<1>13. Told
  BY <1>2, <1>7, <1>8, <1>12, ToldByMove
<1>14. Gate'
  BY <1>2, <1>7 DEF OnboardingInv, Gate, PastGate
<1>15. QED
  BY <1>8, <1>11, <1>13, <1>14, ToldKeepsWalkthrough DEF OnboardingInv

\* The steps that touch the key, the free run, the bridge or the local mode.
LEMMA MoveKeeps ==
  ASSUME OnboardingInv, NEW s \in Slots,
         FlowType', \A r \in Slots : r # s => flow'[r] = flow[r],
         UNCHANGED <<model, chosen, ack, notice, writing, suppress, activation, reset, shown>>,
         mode' \in {mode, "local"}, key' \in Keys, freeRun' \in BOOLEAN,
         bridge' \in {"stopped", "ready", "error"},
         refresh' = "reading" \/ (flow[s].pc # "recorded" /\ UNCHANGED <<mode, key, bridge, refresh>>),
         PastGate(flow'[s]) => chosen \/ flow'[s].overtaken
  PROVE  OnboardingInv'
<1>1. SettingsType /\ RefreshType
  BY TypeParts DEF OnboardingInv
<1>2. SettingsType'
  BY <1>1 DEF SettingsType, Modes
<1>3. RefreshType'
  BY <1>1 DEF RefreshType
<1>4. Told
  BY ToldByMove
<1>5. mode' = "local" \/ UNCHANGED <<mode, model>>
  OBVIOUS
<1>6. QED
  BY <1>2, <1>3, <1>4, <1>5, MovingKeeps

LEMMA SettledKeepsGate ==
  ASSUME FlowType, Gate, NEW s \in Slots, Settled(s), PastGate(flow[s]) \/ flow[s].kind # "scan"
  PROVE  /\ FlowType' /\ \A r \in Slots : r # s => flow'[r] = flow[r]
         /\ PastGate(flow'[s]) => chosen \/ flow'[s].overtaken
<1>1. CASE flow'[s].pc = "idle"
  BY <1>1, SettledGoes DEF PastGate
<1>2. CASE flow'[s].pc # "idle"
  BY <1>2, SettledGoes DEF Gate
<1>3. QED
  BY <1>1, <1>2

LEMMA BridgeSteps ==
  ASSUME OnboardingAssumption, OnboardingInv, NEW s \in Slots,
         StoreKey(s) \/ Recorded(s) \/ SaveLocal(s) \/ LocalIsUp(s) \/ TierIsKnown(s) \/ Send(s)
  PROVE  OnboardingInv'
<1>1. SettingsType /\ RefreshType /\ FlowType /\ flow[s] \in Commands /\ Gate
  BY TypeParts DEF OnboardingInv, FlowType
<1>2. UNCHANGED <<model, chosen, ack, notice, writing, suppress, activation, reset, shown>>
  BY DEF StoreKey, Recorded, SaveLocal, LocalIsUp, TierIsKnown, Send, settings, flags, noticeVars
<1>3. bridge \in {"stopped", "ready", "error"} /\ key \in Keys /\ freeRun \in BOOLEAN
  BY <1>1 DEF SettingsType
<1>4. ASSUME Ends(s)
      PROVE  /\ FlowType' /\ \A r \in Slots : r # s => flow'[r] = flow[r]
             /\ ~PastGate(flow'[s])
  BY <1>1, <1>4, EndsIs DEF PastGate
<1>5. CASE StoreKey(s)
  <2>1. /\ UNCHANGED <<mode, freeRun>> /\ key' \in Keys /\ refresh' = "reading"
        /\ bridge' \in {bridge, "stopped"}
        /\ Goes(s, "verify")
    BY <1>5 DEF StoreKey, KillForKey, Refresh, settings, Keys
  <2>2. FlowType' /\ flow'[s].pc = "verify" /\ \A r \in Slots : r # s => flow'[r] = flow[r]
    BY <1>1, <2>1, GoesIs DEF Awaits
  <2>3. QED
    BY <1>2, <1>3, <2>1, <2>2, MoveKeeps DEF PastGate
<1>6. CASE Recorded(s)
  <2>1. UNCHANGED <<mode, key>> /\ refresh' = "reading" /\ PastGate(flow[s])
    BY <1>6 DEF Recorded, Refresh, settings, PastGate
  <2>2. freeRun' \in BOOLEAN /\ bridge' \in {"stopped", "ready", "error"}
    BY <1>3, <1>6 DEF Recorded
  <2>3. /\ FlowType' /\ \A r \in Slots : r # s => flow'[r] = flow[r]
        /\ PastGate(flow'[s]) => chosen \/ flow'[s].overtaken
    <3>1. CASE Goes(s, "wizard")
      BY <1>1, <2>1, <3>1, GoesIs DEF Awaits, Gate
    <3>2. CASE Settled(s)
      BY <1>1, <2>1, <3>2, SettledKeepsGate
    <3>3. QED
      BY <1>6, <3>1, <3>2 DEF Recorded
  <2>4. QED
    BY <1>2, <1>3, <2>1, <2>2, <2>3, MoveKeeps
<1>7. CASE SaveLocal(s)
  <2>1. /\ UNCHANGED <<key, freeRun, bridge>> /\ mode' = "local" /\ flow[s].pc = "wizard"
        /\ refresh' = "reading" \/ UNCHANGED <<mode, refresh>>
        /\ Goes(s, "saved")
    BY <1>7 DEF SaveLocal, Refresh
  <2>2. /\ FlowType' /\ flow'[s].pc = "saved" /\ \A r \in Slots : r # s => flow'[r] = flow[r]
        /\ flow'[s].kind = flow[s].kind /\ flow'[s].overtaken = flow[s].overtaken
    BY <1>1, <2>1, GoesIs DEF Awaits
  <2>3. PastGate(flow'[s]) => chosen \/ flow'[s].overtaken
    BY <1>1, <2>1, <2>2 DEF Gate, PastGate
  <2>4. QED
    BY <1>2, <1>3, <2>1, <2>2, <2>3, MoveKeeps
<1>8. CASE LocalIsUp(s)
  <2>1. /\ UNCHANGED <<mode, key>> /\ refresh' = "reading" /\ freeRun' \in BOOLEAN
        /\ bridge' \in {"stopped", "ready", "error"}
        /\ PastGate(flow[s]) \/ flow[s].kind # "scan"
        /\ Settled(s) \/ Ends(s)
    BY <1>8 DEF LocalIsUp, Refresh, settings, PastGate
  <2>2. /\ FlowType' /\ \A r \in Slots : r # s => flow'[r] = flow[r]
        /\ PastGate(flow'[s]) => chosen \/ flow'[s].overtaken
    BY <1>1, <1>4, <2>1, SettledKeepsGate
  <2>3. QED
    BY <1>2, <1>3, <2>1, <2>2, MoveKeeps
<1>9. CASE TierIsKnown(s)
  <2>1. /\ UNCHANGED <<mode, key>> /\ flow[s].pc = "tier" /\ freeRun' \in BOOLEAN
        /\ Kill \/ UNCHANGED <<bridge, refresh>>
        /\ Goes(s, "starting")
    BY <1>9 DEF TierIsKnown, DecideFreeSwitch, settings
  <2>2. /\ bridge' \in {"stopped", "ready", "error"}
        /\ refresh' = "reading" \/ UNCHANGED <<bridge, refresh>>
    BY <1>1, <1>3, <2>1, KillIs
  <2>3. /\ FlowType' /\ flow'[s].pc = "starting" /\ \A r \in Slots : r # s => flow'[r] = flow[r]
        /\ flow'[s].overtaken = flow[s].overtaken
    BY <1>1, <2>1, GoesIs DEF Awaits
  <2>4. chosen \/ flow'[s].overtaken
    BY <1>1, <2>1, <2>3 DEF Gate, PastGate
  <2>5. QED
    BY <1>2, <1>3, <2>1, <2>2, <2>3, <2>4, MoveKeeps
<1>10. CASE Send(s)
  <2>1. /\ UNCHANGED <<mode, key, freeRun>> /\ flow[s].pc = "starting" /\ bridge' = "ready"
        /\ refresh' = "reading" \/ UNCHANGED <<bridge, refresh>>
        /\ Ends(s)
    BY <1>10 DEF Send, Refresh, settings
  <2>2. QED
    BY <1>2, <1>3, <1>4, <2>1, MoveKeeps
<1>11. QED
  BY <1>5, <1>6, <1>7, <1>8, <1>9, <1>10

(***************************************************************************)
(* The theorems.                                                           *)
(***************************************************************************)
LEMMA InitOnboarding == OnboardingAssumption /\ Init => OnboardingInv
<1> SUFFICES ASSUME OnboardingAssumption, Init PROVE OnboardingInv
  OBVIOUS
<1>1. OnboardingTypeOK
  BY InitTypes
<1>2. NoticeIsTrue
  BY DEF Init, NoticeIsTrue
<1>3. Walkthrough
  BY DEF Init, Walkthrough, WalkthroughIsTrue, Quiet, Keys
<1>4. Gate
  BY DEF Init, Gate, PastGate, Idle
<1>5. QED
  BY <1>1, <1>2, <1>3, <1>4 DEF OnboardingInv

LEMMA OnboardingStep == OnboardingAssumption /\ OnboardingInv /\ [Next]_vars => OnboardingInv'
<1> SUFFICES ASSUME OnboardingAssumption, OnboardingInv, [Next]_vars PROVE OnboardingInv'
  OBVIOUS
<1>1. CASE EditSettings \/ NoticeWrites \/ MigrateLegacyFreeModel \/ ClearLegacyFreeModel
  BY <1>1, WritesKeep
<1>2. CASE Click \/ NoticeDone \/ StartupNotice
  BY <1>2, NoticesKeep
<1>3. CASE RefreshReadsKey \/ RefreshEnds
  BY <1>3, RefreshesKeep
<1>4. CASE ClearApiKey \/ BridgeDies
  BY <1>4, KeyAndBridgeKeep
<1>5. CASE Reset
  BY <1>5, ResetKeeps
<1>6. ASSUME NEW s \in Slots,
             Command(s) \/ Verified(s) \/ ScanKey(s) \/ DontAskAgain(s) \/ Consented(s) \/ Record(s)
             \/ GiveUp(s)
      PROVE  OnboardingInv'
  BY <1>6, GateSteps
<1>7. ASSUME NEW s \in Slots, Pick(s) PROVE OnboardingInv'
  BY <1>7, PickKeeps
<1>8. ASSUME NEW s \in Slots,
             StoreKey(s) \/ Recorded(s) \/ SaveLocal(s) \/ LocalIsUp(s) \/ TierIsKnown(s) \/ Send(s)
      PROVE  OnboardingInv'
  BY <1>8, BridgeSteps
<1>9. CASE UNCHANGED vars
  <2>1. UNCHANGED <<mode, model, key, chosen, ack, freeRun, bridge, notice, writing, suppress,
                    activation, flow, reset, refresh, shown>>
    BY <1>9 DEF vars, settings, flags, noticeVars, onboardingVars
  <2>2. SettingsType /\ NoticeType /\ RefreshType
    BY TypeParts DEF OnboardingInv
  <2>3. SettingsType' /\ NoticeType' /\ RefreshType' /\ Told
    BY <2>1, <2>2 DEF SettingsType, NoticeType, RefreshType, Told
  <2>4. QED
    BY <2>1, <2>3, StillKeeps
<1>10. QED
  BY <1>1, <1>2, <1>3, <1>4, <1>5, <1>6, <1>7, <1>8, <1>9 DEF Next

LEMMA OnboardingAlways == Spec => []OnboardingInv
<1>1. Init => OnboardingInv
  BY InitOnboarding, OnboardingAssumption
<1>2. OnboardingInv /\ [Next]_vars => OnboardingInv'
  BY OnboardingStep, OnboardingAssumption
<1>3. QED
  BY <1>1, <1>2, PTL DEF Spec

\* The types hold, and the notices about the settings are suppressed exactly while one of
\* them is being acted on (suppressConfigNotices).
THEOREM OnboardingTypeCorrect == Spec => []OnboardingTypeOK
<1>1. OnboardingInv => OnboardingTypeOK
  BY DEF OnboardingInv
<1>2. QED
  BY <1>1, OnboardingAlways, PTL

\* However the edits of the settings, the commands that write them and the answers to open
\* notices interleave, a notice that still acts is about the settings there are, unless Set Up
\* Local has switched to the local mode since (onConfigChanged, configChangeNotice.ts).
THEOREM NoticeAlwaysTrue == Spec => []NoticeIsTrue
<1>1. OnboardingInv => NoticeIsTrue
  BY DEF OnboardingInv
<1>2. QED
  BY <1>1, OnboardingAlways, PTL

\* When nothing is under way the walkthrough shows what is so: every write to what it shows
\* supersedes the calls that may have read what was there before (refreshOnboardingState).
THEOREM WalkthroughAlwaysTrue == Spec => []WalkthroughIsTrue
<1>1. OnboardingInv => WalkthroughIsTrue
  BY DEF OnboardingInv, Walkthrough
<1>2. QED
  BY <1>1, OnboardingAlways, PTL

\* No file goes to the preset model over the API before a choice of the mode is on record,
\* whatever happens while the gate is open; only a reset that takes the record away from a
\* scan past the gate is excepted (scanCurrentFile, maybePromptModelMode).
THEOREM PaidAlwaysChosen == Spec => PaidIsChosen
<1>1. ASSUME OnboardingInv, [Next]_vars
      PROVE  [\A s \in Slots : Sends(s) /\ mode = "default" /\ SpawnedRoute = "preset"
                => chosen \/ flow[s].overtaken]_vars
  BY <1>1 DEF OnboardingInv, Gate, PastGate, Sends
<1>2. QED
  BY <1>1, OnboardingAlways, PTL DEF Spec, PaidIsChosen
=============================================================================
