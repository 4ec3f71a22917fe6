------------------------- MODULE ReviewSession_proofs -------------------------
(***************************************************************************)
(* What holds of a review session for any findings, any hunks and badges,  *)
(* any number of edits and of /repair calls: first what holds with every   *)
(* combination of the Habits, then what holds as long as no finding is     *)
(* repaired twice, then, for a Careful user, that the document is          *)
(* Original C + accepted patches.                                          *)
(***************************************************************************)
EXTENDS ReviewSession, SequenceTheorems, FiniteSetTheorems, TLAPS

\* The steps that leave the document, the text the session expects and the stale
\* machinery alone.
Quiet == UNCHANGED <<history, at, staleTimer, expected, stale, live>>

\* A text of the document is replaced by another one.
Edited == staleTimer' = (staleTimer \/ live) /\ UNCHANGED <<expected, stale, live>>

\* Every step, by what it does to the document and to the stale machinery.
LEMMA StepKinds ==
  ASSUME [Next]_vars
  PROVE  \/ Quiet
         \/ Edited
         \/ StaleTimerFires
         \/ SessionReplaced
         \/ \E op \in sent : Finish(op)
<1> USE DEF Quiet, Edited, sessionVars, editorVars, commandVars
<1>1. CASE Type
  BY <1>1 DEF Type, DocumentChanges
<1>2. CASE Undo \/ Redo
  BY <1>2 DEF Undo, Redo, Travel
<1>3. CASE DiskChange
  BY <1>3 DEF DiskChange, DocumentChanges
<1>4. CASE \E op \in sent : Land(op)
  BY <1>4 DEF Land, DocumentChanges
<1>5. CASE \E op \in sent : GiveUp(op)
  BY <1>5 DEF GiveUp
<1>6. CASE \E f \in Findings : User(f)
  BY <1>6 DEF User, ClickAccept, ClickReject, ShowDiff, GenerateRepair, RegenerateRepair,
              PipelineCall, Call
<1>7. CASE \E cmd \in Commands, f \in Findings : Bridge(cmd, f)
  <2>1. PICK cmd \in Commands, f \in Findings : Bridge(cmd, f)
    BY <1>7
  <2>2. Quiet
    BY <2>1 DEF Bridge, RepairReturns, RepairFails
  <2>3. QED
    BY <2>2
<1>8. CASE \E r \in Reasons : PickReason(r)
  BY <1>8 DEF PickReason
<1>9. CASE Confirm \/ DismissPicker \/ AcceptAllReviewed
  BY <1>9 DEF Confirm, DismissPicker, AcceptAllReviewed
<1>10. CASE StartPipeline \/ PipelineEnds
  BY <1>10 DEF StartPipeline, PipelineEnds
<1>11. CASE UNCHANGED vars
  BY <1>11 DEF vars
<1>12. QED
  BY <1>1, <1>2, <1>3, <1>4, <1>5, <1>6, <1>7, <1>8, <1>9, <1>10, <1>11 DEF Next, Event

-----------------------------------------------------------------------------
(***************************************************************************)
(* The stale flag.                                                         *)
(***************************************************************************)
LEMMA InitStaleFlag == Init => StaleFlagExact
<1> SUFFICES ASSUME Init PROVE StaleFlagExact
  OBVIOUS
<1>1. stale = FALSE /\ Doc = expected
  BY DEF Init, Doc
<1>2. QED
  BY <1>1, Zenon DEF StaleFlagExact

LEMMA NextStaleFlag == StaleFlagExact /\ [Next]_vars => StaleFlagExact'
<1> SUFFICES ASSUME StaleFlagExact, [Next]_vars PROVE StaleFlagExact'
  OBVIOUS
<1> USE DEF StaleFlagExact, Doc
<1>1. CASE Quiet
  BY <1>1 DEF Quiet
<1>2. CASE Edited
  BY <1>2 DEF Edited
<1>3. CASE StaleTimerFires
  BY <1>3 DEF StaleTimerFires
<1>4. CASE SessionReplaced
  BY <1>4 DEF SessionReplaced
<1>5. CASE \E op \in sent : Finish(op)
  BY <1>5 DEF Finish, editorVars
<1>6. QED
  BY <1>1, <1>2, <1>3, <1>4, <1>5, StepKinds

\* D-006 for every document and every sequence of edits, accepts and late answers:
\* whenever no debounce is running, a live session is flagged stale exactly if the
\* document is not the text it expects.
THEOREM StaleFlagAlwaysExact == Spec => []StaleFlagExact
  BY InitStaleFlag, NextStaleFlag, PTL DEF Spec

-----------------------------------------------------------------------------
(***************************************************************************)
(* Edits land on the expected text.                                        *)
(***************************************************************************)
\* An edit under way that nobody was asked about was built for the expected text,
\* and the document still has that text.
SentMatches == \A op \in sent : op.phase = "sent" /\ op.by # "confirmed" => Doc = expected

\* What another edit does to those under way.
LEMMA RefusedNotSent ==
  ASSUME NEW ops, NEW op \in Refused(ops)
  PROVE  op.phase # "sent"
<1>1. PICK o \in ops : op = InPhase(o, IF o.phase = "sent" THEN "refused" ELSE o.phase)
  BY DEF Refused
<1>2. op.phase = IF o.phase = "sent" THEN "refused" ELSE o.phase
  BY <1>1 DEF InPhase
<1>3. QED
  BY <1>2

LEMMA InitSentMatches == Init => SentMatches
  BY DEF Init, SentMatches

\* The batch sends nothing but edits built for hash, and only while the document
\* has it.
LEMMA BatchMatches ==
  ASSUME NEW left, NEW dec, NEW hash, NEW ops,
         RunBatch(left, dec, hash, ops), NEW op \in sent'
  PROVE  op \in ops \/ Doc = hash
  BY DEF RunBatch, AcceptGuard

LEMMA NextSentMatches == SentMatches /\ [Next]_vars => SentMatches'
<1> SUFFICES ASSUME SentMatches, [Next]_vars PROVE SentMatches'
  OBVIOUS
<1> USE DEF sessionVars, editorVars, commandVars
<1>1. CASE UNCHANGED <<sent, history, at, expected>>
  BY <1>1 DEF SentMatches, Doc
<1>2. CASE sent' = Refused(sent)
  BY <1>2, RefusedNotSent DEF SentMatches
<1>3. ASSUME NEW op \in sent, Land(op) PROVE SentMatches'
  <2>1. \A o \in sent' : o.phase # "sent"
    <3>1. sent' = Refused(sent \ {op}) \cup {InPhase(op, "landed")}
      BY <1>3 DEF Land
    <3>2. InPhase(op, "landed").phase = "landed"
      BY DEF InPhase
    <3>3. QED
      BY <3>1, <3>2, RefusedNotSent
  <2>2. QED
    BY <2>1 DEF SentMatches
<1>4. ASSUME NEW op \in sent, Finish(op) PROVE SentMatches'
  BY <1>4 DEF Finish, SentMatches, Doc
<1>5. ASSUME NEW op \in sent, GiveUp(op) PROVE SentMatches'
  <2>1. UNCHANGED <<history, at, expected>>
    BY <1>5 DEF GiveUp
  <2>2. \A o \in sent' : o \in sent \/ Doc = expected
    BY <1>5, BatchMatches DEF GiveUp
  <2>3. QED
    BY <2>1, <2>2 DEF SentMatches, Doc
<1>6. ASSUME NEW f \in Findings, ClickAccept(f) PROVE SentMatches'
  <2>1. Doc = expected /\ UNCHANGED <<history, at, expected>>
    BY <1>6 DEF ClickAccept, AcceptGuard
  <2>2. QED
    BY <2>1 DEF SentMatches, Doc
<1>7. CASE Confirm
  <2>1. UNCHANGED <<history, at, expected>>
    BY <1>7 DEF Confirm
  <2>2. \A o \in sent' : o \in sent \/ o.by = "confirmed"
    <3>1. \A f, v, dec : Application(f, v, "confirmed", dec).by = "confirmed"
      BY DEF Application
    <3>2. QED
      BY <1>7, <3>1 DEF Confirm
  <2>3. QED
    BY <2>1, <2>2 DEF SentMatches, Doc
<1>8. CASE AcceptAllReviewed
  <2>1. UNCHANGED <<history, at, expected>>
    BY <1>8 DEF AcceptAllReviewed
  <2>2. \A o \in sent' : o \in sent \/ Doc = expected
    BY <1>8, BatchMatches DEF AcceptAllReviewed
  <2>3. QED
    BY <2>1, <2>2 DEF SentMatches, Doc
<1>9. CASE Type \/ Undo \/ Redo \/ DiskChange
  BY <1>9, <1>2 DEF Type, Undo, Redo, Travel, DiskChange
<1>10. CASE \/ DismissPicker \/ StartPipeline \/ PipelineEnds
            \/ StaleTimerFires \/ SessionReplaced \/ UNCHANGED vars
  BY <1>10, <1>1 DEF DismissPicker, StartPipeline, PipelineEnds, StaleTimerFires,
                     SessionReplaced, vars
<1>11. ASSUME NEW f \in Findings, User(f) PROVE SentMatches'
  <2>1. CASE ClickAccept(f)
    BY <1>6, <2>1
  <2>2. CASE ~ClickAccept(f)
    BY <1>11, <1>1, <2>2 DEF User, ClickReject, ShowDiff, GenerateRepair, RegenerateRepair,
                             PipelineCall, Call
  <2>3. QED
    BY <2>1, <2>2
<1>12. CASE \E cmd \in Commands, f \in Findings : Bridge(cmd, f)
  BY <1>12, <1>1 DEF Bridge, RepairReturns, RepairFails
<1>13. CASE \E r \in Reasons : PickReason(r)
  BY <1>13, <1>1 DEF PickReason
<1>14. QED
  BY <1>3, <1>4, <1>5, <1>7, <1>8, <1>9, <1>10, <1>11, <1>12, <1>13 DEF Next, Event

\* The accept chain for every document and every interleaving: an edit the user was
\* not asked about is applied to nothing but the text its offsets were computed for.
THEOREM DirectEditsOnExpected == Spec => DirectAppliesToExpected
<1>1. SentMatches /\ [Next]_vars
        => [DirectLandsOnExpected]_vars
  BY DEF SentMatches, DirectLandsOnExpected
<1>2. QED
  BY <1>1, InitSentMatches, NextSentMatches, PTL DEF Spec, DirectAppliesToExpected

-----------------------------------------------------------------------------
(***************************************************************************)
(* Types.                                                                  *)
(***************************************************************************)
LEMMA InitTypeOK == Init => TypeOK
<1> SUFFICES ASSUME Init PROVE TypeOK
  OBVIOUS
<1>1. SessionType
  BY DEF Init, SessionType, MaybeVersion
<1>2. FlagType
  BY DEF Init, FlagType
<1>3. PickerType /\ SentType
  BY DEF Init, PickerType, SentType
<1>4. BatchType
  BY DEF Init, BatchType, NoBatch
<1>5. CallsType
  BY DEF Init, CallsType
<1>6. PipelineType
  BY DEF Init, PipelineType
<1>7. QED
  BY <1>1, <1>2, <1>3, <1>4, <1>5, <1>6 DEF TypeOK

\* maybeOpenFirstDiff shows a candidate of the scan or nothing.
LEMMA OpenFirstDiffType ==
  ASSUME SessionType, NEW cand \in [Findings -> MaybeVersion],
         NEW left \in SUBSET Findings, NEW phase \in {"running", "done"},
         OpenFirstDiff(cand, left, phase)
  PROVE  /\ PipelineType'
         /\ reviewed' \subseteq Findings
         /\ shown' \in [Findings -> MaybeVersion]
<1>1. PipelineType'
  <2>1. \E opened \in BOOLEAN :
          pipeline' = [phase |-> phase, left |-> left, opened |-> opened]
    BY DEF OpenFirstDiff
  <2>2. QED
    BY <2>1 DEF PipelineType
<1>2. CASE UNCHANGED <<reviewed, shown>>
  BY <1>1, <1>2 DEF SessionType
<1>3. ASSUME NEW f \in Findings,
             reviewed' = reviewed \cup {f}, shown' = [shown EXCEPT ![f] = cand[f]]
      PROVE  reviewed' \subseteq Findings /\ shown' \in [Findings -> MaybeVersion]
  BY <1>3 DEF SessionType
<1>4. QED
  BY <1>1, <1>2, <1>3 DEF OpenFirstDiff

\* So does the pipeline, which asks it or goes on without.
LEMMA FirstDiffType ==
  ASSUME SessionType, PipelineType, NEW cand \in [Findings -> MaybeVersion],
         NEW left \in SUBSET Findings, NEW phase \in {"running", "done"},
         FirstDiff(cand, left, phase)
  PROVE  /\ PipelineType'
         /\ reviewed' \subseteq Findings
         /\ shown' \in [Findings -> MaybeVersion]
<1>1. CASE live /\ ~stale /\ ~pipeline.opened
  BY <1>1, OpenFirstDiffType DEF FirstDiff
<1>2. CASE ~(live /\ ~stale /\ ~pipeline.opened)
  BY <1>2 DEF FirstDiff, PipelineType, SessionType
<1>3. QED
  BY <1>1, <1>2

\* Scan & Fix starts with a plan, or with the diffs there are.
LEMMA StartPipelineType ==
  ASSUME SessionType, StartPipeline
  PROVE  /\ PipelineType'
         /\ reviewed' \subseteq Findings
         /\ shown' \in [Findings -> MaybeVersion]
<1>1. PICK last \in Findings :
        LET left == {f \in Findings : /\ Line[f] <= Line[last]
                                      /\ candidate[f] = NoVersion
                                      /\ Alone(f)}
        IN IF left = {} THEN OpenFirstDiff(candidate, {}, "done")
           ELSE /\ pipeline' = [phase |-> "running", left |-> left, opened |-> FALSE]
                /\ UNCHANGED <<reviewed, shown>>
  BY DEF StartPipeline
<1>2. CASE OpenFirstDiff(candidate, {}, "done")
  BY <1>2, OpenFirstDiffType DEF SessionType
<1>3. ASSUME NEW left \in SUBSET Findings,
             pipeline' = [phase |-> "running", left |-> left, opened |-> FALSE],
             UNCHANGED <<reviewed, shown>>
      PROVE  /\ PipelineType'
             /\ reviewed' \subseteq Findings
             /\ shown' \in [Findings -> MaybeVersion]
  BY <1>3 DEF PipelineType, SessionType
<1>4. QED
  BY <1>1, <1>2, <1>3

LEMMA NextSessionType ==
  ASSUME TypeOK, [Next]_vars
  PROVE  SessionType'
<1> USE DEF TypeOK, sessionVars, editorVars, commandVars
<1>1. CASE UNCHANGED <<candidate, decision, override, rejectReason, reviewed, shown>>
  BY <1>1 DEF SessionType
<1>2. ASSUME NEW f \in Findings, ClickReject(f) PROVE SessionType'
  BY <1>2 DEF SessionType, ClickReject
<1>3. ASSUME NEW f \in Findings, ShowDiff(f) PROVE SessionType'
  BY <1>3 DEF SessionType, ShowDiff
<1>4. ASSUME NEW r \in Reasons, PickReason(r) PROVE SessionType'
  BY <1>4 DEF SessionType, PickReason
<1>5. ASSUME NEW op \in sent, Finish(op) PROVE SessionType'
  <2>1. op.finding \in Findings
    BY DEF SentType, OpType
  <2>2. QED
    BY <1>5, <2>1 DEF SessionType, Finish
<1>6. ASSUME NEW cmd \in Commands, NEW f \in Findings, NEW v \in Versions,
             RepairReturns(cmd, f, v)
      PROVE  SessionType'
  <2>1. [candidate EXCEPT ![f] = v] \in [Findings -> MaybeVersion]
    BY DEF SessionType, MaybeVersion
  <2>2. /\ reviewed' \subseteq Findings
        /\ shown' \in [Findings -> MaybeVersion]
    <3>1. CASE cmd = "pipeline"
      BY <1>6, <2>1, <3>1, FirstDiffType DEF RepairReturns, PipelineType
    <3>2. CASE cmd # "pipeline"
      BY <1>6, <3>2 DEF RepairReturns, SessionType
    <3>3. QED
      BY <3>1, <3>2
  <2>3. candidate' \in [Findings -> MaybeVersion]
    BY <1>6, <2>1 DEF RepairReturns, SessionType
  <2>4. /\ decision' \in [Findings -> {"pending", "accepted", "rejected"}]
        /\ override' \subseteq Findings
        /\ rejectReason' \in [Findings -> Reasons \cup {NoReason}]
    BY <1>6 DEF RepairReturns, SessionType
  <2>5. QED
    BY <2>2, <2>3, <2>4 DEF SessionType
<1>7. ASSUME NEW cmd \in Commands, NEW f \in Findings, RepairFails(cmd, f)
      PROVE  SessionType'
  <2>1. UNCHANGED <<candidate, decision, override, rejectReason>>
    BY <1>7 DEF RepairFails
  <2>2. /\ reviewed' \subseteq Findings
        /\ shown' \in [Findings -> MaybeVersion]
    <3>1. CASE cmd = "pipeline"
      BY <1>7, <3>1, FirstDiffType DEF RepairFails, PipelineType, SessionType
    <3>2. CASE cmd # "pipeline"
      BY <1>7, <3>2 DEF RepairFails, SessionType
    <3>3. QED
      BY <3>1, <3>2
  <2>3. QED
    BY <2>1, <2>2 DEF SessionType
<1>8. CASE StartPipeline \/ PipelineEnds
  <2>1. UNCHANGED <<candidate, decision, override, rejectReason>>
    BY <1>8 DEF StartPipeline, PipelineEnds
  <2>2. /\ reviewed' \subseteq Findings
        /\ shown' \in [Findings -> MaybeVersion]
    BY <1>8, FirstDiffType, StartPipelineType DEF PipelineEnds, SessionType
  <2>3. QED
    BY <2>1, <2>2 DEF SessionType
<1>9. CASE \/ Type \/ Undo \/ Redo \/ DiskChange \/ StaleTimerFires \/ SessionReplaced
           \/ Confirm \/ DismissPicker \/ AcceptAllReviewed \/ UNCHANGED vars
  BY <1>9, <1>1 DEF Type, Undo, Redo, Travel, DiskChange, StaleTimerFires, SessionReplaced,
                    Confirm, DismissPicker, AcceptAllReviewed, vars
<1>10. ASSUME NEW op \in sent, Land(op) \/ GiveUp(op) PROVE SessionType'
  BY <1>10, <1>1 DEF Land, GiveUp
<1>11. ASSUME NEW f \in Findings, \/ ClickAccept(f) \/ GenerateRepair(f)
                                  \/ RegenerateRepair(f) \/ PipelineCall(f)
       PROVE  SessionType'
  BY <1>11, <1>1 DEF ClickAccept, GenerateRepair, RegenerateRepair, PipelineCall, Call
<1>12. QED
  BY <1>2, <1>3, <1>4, <1>5, <1>6, <1>7, <1>8, <1>9, <1>10, <1>11 DEF Next, Event, User, Bridge

LEMMA NextFlagType ==
  ASSUME FlagType, [Next]_vars
  PROVE  FlagType'
<1>1. CASE Quiet
  BY <1>1 DEF Quiet, FlagType
<1>2. CASE Edited
  BY <1>2 DEF Edited, FlagType
<1>3. CASE StaleTimerFires
  BY <1>3 DEF StaleTimerFires, FlagType
<1>4. CASE SessionReplaced
  BY <1>4 DEF SessionReplaced, FlagType
<1>5. CASE \E op \in sent : Finish(op)
  BY <1>5 DEF Finish, FlagType, editorVars
<1>6. QED
  BY <1>1, <1>2, <1>3, <1>4, <1>5, StepKinds

LEMMA NextPickerType ==
  ASSUME PickerType, [Next]_vars
  PROVE  PickerType'
<1>1. CASE UNCHANGED picker
  BY <1>1 DEF PickerType
<1>2. ASSUME NEW f \in Findings, ClickAccept(f) \/ ClickReject(f) PROVE PickerType'
  BY <1>2 DEF ClickAccept, ClickReject, PickerType
<1>3. CASE Confirm \/ DismissPicker \/ \E r \in Reasons : PickReason(r)
  BY <1>3 DEF Confirm, DismissPicker, PickReason, PickerType
<1>4. CASE \/ Type \/ Undo \/ Redo \/ DiskChange \/ StaleTimerFires \/ SessionReplaced
           \/ AcceptAllReviewed \/ StartPipeline \/ PipelineEnds \/ UNCHANGED vars
  BY <1>4, <1>1 DEF Type, Undo, Redo, Travel, DiskChange, StaleTimerFires, SessionReplaced,
                    AcceptAllReviewed, StartPipeline, PipelineEnds, vars
<1>5. ASSUME NEW op \in sent, Land(op) \/ GiveUp(op) \/ Finish(op) PROVE PickerType'
  BY <1>5, <1>1 DEF Land, GiveUp, Finish
<1>6. ASSUME NEW f \in Findings, \/ ShowDiff(f) \/ GenerateRepair(f)
                                 \/ RegenerateRepair(f) \/ PipelineCall(f)
      PROVE  PickerType'
  BY <1>6, <1>1 DEF ShowDiff, GenerateRepair, RegenerateRepair, PipelineCall, Call
<1>7. CASE \E cmd \in Commands, f \in Findings : Bridge(cmd, f)
  BY <1>7, <1>1 DEF Bridge, RepairReturns, RepairFails
<1>8. QED
  BY <1>2, <1>3, <1>4, <1>5, <1>6, <1>7 DEF Next, Event, User

LEMMA ApplicationType ==
  ASSUME NEW f \in Findings, NEW v, NEW dec, NEW by \in {"click", "confirmed", "batch"}
  PROVE  OpType(Application(f, v, by, dec))
<1>1. /\ Application(f, v, by, dec).finding = f
      /\ Application(f, v, by, dec).by = by
      /\ Application(f, v, by, dec).phase \in {"sent", "nothing to do"}
  BY DEF Application
<1>2. QED
  BY <1>1 DEF OpType

LEMMA InPhaseType ==
  ASSUME NEW op, OpType(op), NEW phase \in {"sent", "refused", "landed", "nothing to do"}
  PROVE  OpType(InPhase(op, phase))
  BY DEF OpType, InPhase

LEMMA RefusedType ==
  ASSUME NEW ops, \A op \in ops : OpType(op), NEW op \in Refused(ops)
  PROVE  OpType(op)
<1>1. PICK o \in ops : op = InPhase(o, IF o.phase = "sent" THEN "refused" ELSE o.phase)
  BY DEF Refused
<1>2. OpType(o) /\ o.phase \in {"sent", "refused", "landed", "nothing to do"}
  BY DEF OpType
<1>3. QED
  BY <1>1, <1>2, InPhaseType

\* The loop of Accept all reviewed, from one await to the next.
LEMMA RunBatchType ==
  ASSUME NEW left \in SUBSET [finding : Findings, version : Versions],
         NEW dec, NEW hash, NEW ops, \A op \in ops : OpType(op),
         RunBatch(left, dec, hash, ops)
  PROVE  BatchType' /\ SentType'
<1>1. CASE batch' = NoBatch /\ sent' = ops
  BY <1>1 DEF NoBatch, BatchType, SentType
<1>2. ASSUME NEW c \in left,
             batch' = [left |-> {d \in left : Id[d.finding] > Id[c.finding]}, waiting |-> TRUE],
             sent' = ops \cup {Application(c.finding, c.version, "batch", dec)}
      PROVE  BatchType' /\ SentType'
  <2>1. OpType(Application(c.finding, c.version, "batch", dec))
    BY ApplicationType
  <2>2. SentType'
    BY <1>2, <2>1 DEF SentType
  <2>3. BatchType'
    BY <1>2 DEF BatchType
  <2>4. QED
    BY <2>2, <2>3
<1>3. QED
  BY <1>1, <1>2 DEF RunBatch

\* Edits and the batch go together: each step of the batch sends an edit.
LEMMA NextSentType ==
  ASSUME PickerType, SentType, BatchType, [Next]_vars
  PROVE  SentType' /\ BatchType'
<1> USE DEF sessionVars, editorVars, commandVars
<1>1. CASE UNCHANGED <<sent, batch>>
  BY <1>1 DEF SentType, BatchType
<1>2. CASE sent' = Refused(sent) /\ UNCHANGED batch
  <2>1. SentType'
    BY <1>2, RefusedType DEF SentType
  <2>2. QED
    BY <1>2, <2>1 DEF BatchType
<1>3. ASSUME NEW op \in sent, Land(op) PROVE SentType' /\ BatchType'
  <2>1. OpType(InPhase(op, "landed"))
    BY InPhaseType DEF SentType
  <2>2. \A o \in Refused(sent \ {op}) : OpType(o)
    BY RefusedType DEF SentType
  <2>3. SentType'
    BY <1>3, <2>1, <2>2 DEF Land, SentType
  <2>4. QED
    BY <1>3, <2>3 DEF Land, BatchType
<1>4. ASSUME NEW op \in sent, GiveUp(op) \/ Finish(op) PROVE SentType' /\ BatchType'
  <2>1. \A o \in sent \ {op} : OpType(o)
    BY DEF SentType
  <2>2. CASE op.by = "batch"
    BY <1>4, <2>1, <2>2, RunBatchType DEF GiveUp, Finish, BatchType
  <2>3. CASE op.by # "batch"
    BY <1>4, <2>1, <2>3 DEF GiveUp, Finish, SentType, BatchType
  <2>4. QED
    BY <2>2, <2>3
<1>5. ASSUME NEW f \in Findings, ClickAccept(f) PROVE SentType' /\ BatchType'
  <2>1. OpType(Application(f, candidate[f], "click", decision))
    BY ApplicationType
  <2>2. SentType'
    BY <1>5, <2>1 DEF ClickAccept, SentType
  <2>3. QED
    BY <1>5, <2>2 DEF ClickAccept, BatchType
<1>6. CASE Confirm
  <2>1. picker.finding \in Findings
    BY <1>6 DEF Confirm, PickerType, NoPicker
  <2>2. OpType(Application(picker.finding, picker.version, "confirmed", decision))
    BY <2>1, ApplicationType
  <2>3. SentType'
    BY <1>6, <2>2 DEF Confirm, SentType
  <2>4. QED
    BY <1>6, <2>3 DEF Confirm, BatchType
<1>7. CASE AcceptAllReviewed
  <2>1. Selection \in SUBSET [finding : Findings, version : Versions]
    BY DEF Selection
  <2>2. \A o \in sent : OpType(o)
    BY DEF SentType
  <2>3. QED
    BY <1>7, <2>1, <2>2, RunBatchType DEF AcceptAllReviewed
<1>8. CASE Type \/ Undo \/ Redo \/ DiskChange
  BY <1>8, <1>2 DEF Type, Undo, Redo, Travel, DiskChange
<1>9. CASE \/ DismissPicker \/ StartPipeline \/ PipelineEnds
           \/ StaleTimerFires \/ SessionReplaced \/ UNCHANGED vars
  BY <1>9, <1>1 DEF DismissPicker, StartPipeline, PipelineEnds, StaleTimerFires,
                    SessionReplaced, vars
<1>10. ASSUME NEW f \in Findings, \/ ClickReject(f) \/ ShowDiff(f) \/ GenerateRepair(f)
                                  \/ RegenerateRepair(f) \/ PipelineCall(f)
       PROVE  SentType' /\ BatchType'
  BY <1>10, <1>1 DEF ClickReject, ShowDiff, GenerateRepair, RegenerateRepair, PipelineCall, Call
<1>11. CASE \/ \E cmd \in Commands, f \in Findings : Bridge(cmd, f)
            \/ \E r \in Reasons : PickReason(r)
  BY <1>11, <1>1 DEF Bridge, RepairReturns, RepairFails, PickReason
<1>12. QED
  BY <1>3, <1>4, <1>5, <1>6, <1>7, <1>8, <1>9, <1>10, <1>11 DEF Next, Event, User

\* A call returns or fails at most once.
LEMMA NextCallsType ==
  ASSUME CallsType, [Next]_vars
  PROVE  CallsType'
<1> USE DEF sessionVars, editorVars, commandVars
<1>1. CASE UNCHANGED calls
  BY <1>1 DEF CallsType
<1>2. ASSUME NEW cmd \in Commands, NEW f \in Findings, Call(cmd, f) PROVE CallsType'
  BY <1>2 DEF Call, CallsType
<1>3. ASSUME NEW f \in Findings,
             GenerateRepair(f) \/ RegenerateRepair(f) \/ PipelineCall(f)
      PROVE  CallsType'
  BY <1>2, <1>3 DEF GenerateRepair, RegenerateRepair, PipelineCall, Commands
<1>4. ASSUME NEW cmd \in Commands, NEW f \in Findings, Bridge(cmd, f) PROVE CallsType'
  <2>1. calls[<<cmd, f>>] > 0 /\ calls' = [calls EXCEPT ![<<cmd, f>>] = @ - 1]
    BY <1>4 DEF Bridge, RepairReturns, RepairFails
  <2>2. QED
    BY <2>1 DEF CallsType
<1>5. ASSUME NEW f \in Findings, ClickAccept(f) \/ ClickReject(f) \/ ShowDiff(f)
      PROVE  CallsType'
  BY <1>5, <1>1 DEF ClickAccept, ClickReject, ShowDiff
<1>6. CASE \/ Type \/ Undo \/ Redo \/ DiskChange \/ StaleTimerFires \/ SessionReplaced
           \/ AcceptAllReviewed \/ StartPipeline \/ PipelineEnds \/ UNCHANGED vars
  BY <1>6, <1>1 DEF Type, Undo, Redo, Travel, DiskChange, StaleTimerFires, SessionReplaced,
                    AcceptAllReviewed, StartPipeline, PipelineEnds, vars
<1>7. ASSUME NEW op \in sent, Land(op) \/ GiveUp(op) \/ Finish(op) PROVE CallsType'
  BY <1>7, <1>1 DEF Land, GiveUp, Finish
<1>8. CASE Confirm \/ DismissPicker \/ \E r \in Reasons : PickReason(r)
  BY <1>8, <1>1 DEF Confirm, DismissPicker, PickReason
<1>9. QED
  BY <1>3, <1>4, <1>5, <1>6, <1>7, <1>8 DEF Next, Event, User

LEMMA NextPipelineType ==
  ASSUME TypeOK, [Next]_vars
  PROVE  PipelineType'
<1> USE DEF TypeOK, sessionVars, editorVars, commandVars
<1>1. CASE UNCHANGED pipeline
  BY <1>1 DEF PipelineType
<1>2. CASE StartPipeline
  BY <1>2, StartPipelineType
<1>3. ASSUME NEW f \in Findings, PipelineCall(f) PROVE PipelineType'
  BY <1>3 DEF PipelineCall, PipelineType
<1>4. CASE PipelineEnds
  BY <1>4, FirstDiffType DEF PipelineEnds, SessionType
<1>5. ASSUME NEW cmd \in Commands, NEW f \in Findings, NEW v \in Versions,
             RepairReturns(cmd, f, v)
      PROVE  PipelineType'
  <2>1. [candidate EXCEPT ![f] = v] \in [Findings -> MaybeVersion]
    BY DEF SessionType, MaybeVersion
  <2>2. CASE cmd = "pipeline"
    BY <1>5, <2>1, <2>2, FirstDiffType DEF RepairReturns, PipelineType
  <2>3. CASE cmd # "pipeline"
    BY <1>1, <1>5, <2>3 DEF RepairReturns
  <2>4. QED
    BY <2>2, <2>3
<1>6. ASSUME NEW cmd \in Commands, NEW f \in Findings, RepairFails(cmd, f)
      PROVE  PipelineType'
  <2>1. CASE cmd = "pipeline"
    BY <1>6, <2>1, FirstDiffType DEF RepairFails, PipelineType, SessionType
  <2>2. CASE cmd # "pipeline"
    BY <1>1, <1>6, <2>2 DEF RepairFails
  <2>3. QED
    BY <2>1, <2>2
<1>7. CASE \/ Type \/ Undo \/ Redo \/ DiskChange \/ StaleTimerFires \/ SessionReplaced
           \/ Confirm \/ DismissPicker \/ AcceptAllReviewed \/ UNCHANGED vars
  BY <1>7, <1>1 DEF Type, Undo, Redo, Travel, DiskChange, StaleTimerFires, SessionReplaced,
                    Confirm, DismissPicker, AcceptAllReviewed, vars
<1>8. ASSUME NEW op \in sent, Land(op) \/ GiveUp(op) \/ Finish(op) PROVE PipelineType'
  BY <1>8, <1>1 DEF Land, GiveUp, Finish
<1>9. ASSUME NEW f \in Findings, \/ ClickAccept(f) \/ ClickReject(f) \/ ShowDiff(f)
                                 \/ GenerateRepair(f) \/ RegenerateRepair(f)
      PROVE  PipelineType'
  BY <1>9, <1>1 DEF ClickAccept, ClickReject, ShowDiff, GenerateRepair, RegenerateRepair
<1>10. CASE \E r \in Reasons : PickReason(r)
  BY <1>10, <1>1 DEF PickReason
<1>11. QED
  BY <1>2, <1>3, <1>4, <1>5, <1>6, <1>7, <1>8, <1>9, <1>10 DEF Next, Event, User, Bridge

LEMMA NextTypeOK == TypeOK /\ [Next]_vars => TypeOK'
  BY NextSessionType, NextFlagType, NextPickerType, NextSentType, NextCallsType,
     NextPipelineType DEF TypeOK

\* Every variable keeps its type, and every edit, batch, call and dialog under way
\* is one of a finding of the scan.
THEOREM TypeCorrect == Spec => []TypeOK
  BY InitTypeOK, NextTypeOK, PTL DEF Spec

-----------------------------------------------------------------------------
(***************************************************************************)
(* Late answers.                                                           *)
(***************************************************************************)
\* For every session that a scan has replaced, whatever it was still waiting for:
\* no later answer changes its candidates or shows one of their diffs.
THEOREM LateAnswersDropped == Spec => ReplacedTakesNoAnswer
<1>1. [Next]_vars => [TakesNoAnswer]_vars
  <2> SUFFICES ASSUME Next, ~live PROVE UNCHANGED <<candidate, reviewed>>
    BY DEF TakesNoAnswer
  <2> USE DEF sessionVars, editorVars, commandVars
  <2>1. ASSUME NEW cmd \in Commands, NEW f \in Findings, Bridge(cmd, f)
        PROVE  UNCHANGED <<candidate, reviewed>>
    BY <2>1 DEF Bridge, RepairReturns, RepairFails, FirstDiff
  <2>2. CASE PipelineEnds
    BY <2>2 DEF PipelineEnds, FirstDiff
  <2>3. ASSUME NEW f \in Findings, User(f) PROVE UNCHANGED <<candidate, reviewed>>
    BY <2>3 DEF User, ClickAccept, ClickReject, ShowDiff, GenerateRepair, RegenerateRepair,
                PipelineCall
  <2>4. CASE \/ Type \/ Undo \/ Redo \/ DiskChange \/ StaleTimerFires \/ SessionReplaced
             \/ Confirm \/ DismissPicker \/ AcceptAllReviewed \/ StartPipeline
    BY <2>4 DEF Type, Undo, Redo, Travel, DiskChange, StaleTimerFires, SessionReplaced,
                Confirm, DismissPicker, AcceptAllReviewed, StartPipeline
  <2>5. ASSUME NEW op \in sent, Land(op) \/ GiveUp(op) \/ Finish(op)
        PROVE  UNCHANGED <<candidate, reviewed>>
    BY <2>5 DEF Land, GiveUp, Finish
  <2>6. CASE \E r \in Reasons : PickReason(r)
    BY <2>6 DEF PickReason
  <2>7. QED
    BY <2>1, <2>2, <2>3, <2>4, <2>5, <2>6 DEF Next, Event
<1>2. QED
  BY <1>1, PTL DEF Spec, ReplacedTakesNoAnswer

-----------------------------------------------------------------------------
(***************************************************************************)
(* Reasons.                                                                *)
(***************************************************************************)
\* Only the dialog about a reject sets a reason, and it looks again at the decision; all
\* that others do to reasons is to remove them.
LEMMA ReasonsFollow == TypeOK /\ [Next]_vars => [ReasonOfRejected]_vars
<1> SUFFICES ASSUME TypeOK, Next PROVE ReasonOfRejected
  OBVIOUS
<1> USE DEF sessionVars, editorVars, commandVars
<1>1. rejectReason \in [Findings -> Reasons \cup {NoReason}]
  BY DEF TypeOK, SessionType
<1>2. ASSUME UNCHANGED rejectReason PROVE ReasonOfRejected
  BY <1>2 DEF ReasonOfRejected
<1>3. ASSUME NEW f, rejectReason' = [rejectReason EXCEPT ![f] = NoReason] PROVE ReasonOfRejected
  BY <1>1, <1>3 DEF ReasonOfRejected
<1>4. ASSUME NEW cmd \in Commands, NEW f \in Findings, Bridge(cmd, f) PROVE ReasonOfRejected
  BY <1>2, <1>3, <1>4 DEF Bridge, RepairReturns, RepairFails
<1>5. ASSUME NEW op \in sent, Land(op) \/ GiveUp(op) \/ Finish(op) PROVE ReasonOfRejected
  BY <1>2, <1>3, <1>5 DEF Land, GiveUp, Finish
<1>6. ASSUME NEW r \in Reasons, PickReason(r) PROVE ReasonOfRejected
  BY <1>1, <1>2, <1>6 DEF PickReason, ReasonOfRejected
<1>7. ASSUME NEW f \in Findings, User(f) PROVE ReasonOfRejected
  BY <1>2, <1>7 DEF User, ClickAccept, ClickReject, ShowDiff, GenerateRepair,
                    RegenerateRepair, PipelineCall, Call
<1>8. CASE \/ Type \/ Undo \/ Redo \/ DiskChange \/ StaleTimerFires \/ SessionReplaced
           \/ Confirm \/ DismissPicker \/ AcceptAllReviewed \/ StartPipeline \/ PipelineEnds
  BY <1>2, <1>8 DEF Type, Undo, Redo, Travel, DiskChange, StaleTimerFires, SessionReplaced,
                    Confirm, DismissPicker, AcceptAllReviewed, StartPipeline, PipelineEnds
<1>9. QED
  BY <1>4, <1>5, <1>6, <1>7, <1>8 DEF Next, Event

\* Nothing that comes back late does harm, for any findings, answers and edits and every
\* interleaving: the edits nobody confirmed, the answers for a replaced session, the reasons.
THEOREM LateStepsAreAlwaysHeld == Spec => LateStepsAreHeld
<1>1. Spec => ReasonsAreOfRejected
  BY ReasonsFollow, TypeCorrect, PTL DEF Spec, ReasonsAreOfRejected
<1>2. [DirectLandsOnExpected]_vars /\ [TakesNoAnswer]_vars /\ [ReasonOfRejected]_vars
        => [DirectLandsOnExpected /\ TakesNoAnswer /\ ReasonOfRejected]_vars
  OBVIOUS
<1>3. QED
  BY <1>1, <1>2, DirectEditsOnExpected, LateAnswersDropped, PTL
     DEF DirectAppliesToExpected, ReplacedTakesNoAnswer, ReasonsAreOfRejected, LateStepsAreHeld

-----------------------------------------------------------------------------
(***************************************************************************)
(* Marks and batches.  As long as no finding is repaired a second time, a  *)
(* candidate that an accept, a batch or a dialog holds across its await is *)
(* the candidate there is: for any hunks, and whatever is typed, clicked   *)
(* again or changed on disk meanwhile.                                     *)
(***************************************************************************)
\* Out of bounds: regenerating, and two commands that repair the same finding.
RepairsOnce == Habits \cap {"regenerate", "overlap"} = {}

\* A finding is repaired once: while an answer is outstanding or planned it has none.
RepairedOnce(f) ==
  /\ calls[<<"regenerate", f>>] = 0
  /\ calls[<<"generate", f>>] + calls[<<"pipeline", f>>] <= 1
  /\ f \in pipeline.left =>
       calls[<<"generate", f>>] = 0 /\ calls[<<"pipeline", f>>] = 0 /\ candidate[f] = NoVersion
  /\ calls[<<"generate", f>>] + calls[<<"pipeline", f>>] > 0 => candidate[f] = NoVersion

RepairInv == \A f \in Findings : RepairedOnce(f)

LEMMA InitRepairInv == Init => RepairInv
BY DEF Init, RepairInv, RepairedOnce, Commands

\* An answer, or none: candidates are added to those there are, nothing else of what
\* the invariant speaks of changes, and diffs may open.
Grows == /\ \A f \in Findings : candidate[f] # NoVersion => candidate'[f] = candidate[f]
         /\ reviewed \subseteq reviewed'
         /\ UNCHANGED <<decision, override, expected, history, at, sent, batch, picker>>

\* A finding gets a candidate at most once.
LEMMA AnsweredOnce ==
  ASSUME TypeOK, RepairInv, NEW cmd \in Commands, NEW f \in Findings, calls[<<cmd, f>>] > 0
  PROVE  /\ cmd # "regenerate"
         /\ candidate[f] = NoVersion /\ f \notin pipeline.left
         /\ \A c \in Commands : calls[<<c, f>>] = IF c = cmd THEN 1 ELSE 0
<1>1. RepairedOnce(f)
  BY DEF RepairInv
<1>2. /\ calls[<<"generate", f>>] \in Nat /\ calls[<<"regenerate", f>>] \in Nat
      /\ calls[<<"pipeline", f>>] \in Nat
  BY DEF TypeOK, CallsType, Commands
<1>3. QED
  BY <1>1, <1>2 DEF RepairedOnce, Commands

LEMMA FirstDiffGrows ==
  ASSUME NEW cand, NEW left, NEW phase, FirstDiff(cand, left, phase)
  PROVE  reviewed \subseteq reviewed'
<1>1. ASSUME OpenFirstDiff(cand, left, phase) PROVE reviewed \subseteq reviewed'
  BY <1>1 DEF OpenFirstDiff
<1>2. QED
  BY <1>1 DEF FirstDiff

LEMMA BridgeGrows ==
  ASSUME TypeOK, RepairInv, NEW cmd \in Commands, NEW f \in Findings, Bridge(cmd, f)
  PROVE  Grows
<1> USE DEF editorVars
<1>1. candidate[f] = NoVersion /\ cmd # "regenerate"
  BY AnsweredOnce DEF Bridge, RepairReturns, RepairFails
<1>2. UNCHANGED <<decision, override, expected, history, at, sent, batch, picker>>
  BY <1>1 DEF Bridge, RepairReturns, RepairFails
<1>3. reviewed \subseteq reviewed'
  BY FirstDiffGrows DEF Bridge, RepairReturns, RepairFails
<1>4. \A g \in Findings : candidate[g] # NoVersion => candidate'[g] = candidate[g]
  <2>1. candidate \in [Findings -> MaybeVersion]
    BY DEF TypeOK, SessionType
  <2>2. candidate' = candidate \/ \E v \in Versions : candidate' = [candidate EXCEPT ![f] = v]
    BY DEF Bridge, RepairReturns, RepairFails
  <2>3. QED
    BY <1>1, <2>1, <2>2
<1>5. QED
  BY <1>2, <1>3, <1>4 DEF Grows

\* A repair is asked for only while none is outstanding, planned or there.
LEMMA CallOnce ==
  ASSUME TypeOK, RepairInv, NEW cmd \in {"generate", "pipeline"}, NEW f \in Findings,
         \A c \in Commands : calls[<<c, f>>] = 0,
         candidate[f] = NoVersion,
         calls' = [calls EXCEPT ![<<cmd, f>>] = @ + 1],
         pipeline'.left \subseteq pipeline.left \ {f},
         candidate' = candidate
  PROVE  RepairInv'
<1>1. calls \in [Commands \X Findings -> Nat] /\ RepairInv
  BY DEF RepairInv, TypeOK, CallsType
<1>2. ASSUME NEW g \in Findings PROVE RepairedOnce(g)'
  <2>1. RepairedOnce(g)
    BY <1>1 DEF RepairInv
  <2>2. CASE g # f
    <3>1. \A c \in Commands : calls'[<<c, g>>] = calls[<<c, g>>]
      BY <1>1, <2>2
    <3>2. QED
      BY <2>1, <3>1 DEF RepairedOnce, Commands
  <2>3. CASE g = f
    <3>1. \A c \in Commands : calls'[<<c, f>>] = IF c = cmd THEN 1 ELSE 0
      BY <1>1
    <3>2. QED
      BY <2>3, <3>1 DEF RepairedOnce, Commands
  <2>4. QED
    BY <2>2, <2>3
<1>3. QED
  BY <1>2 DEF RepairInv

\* An answer, or none, takes the call away.
LEMMA BridgeOnce ==
  ASSUME TypeOK, RepairInv, NEW cmd \in Commands, NEW f \in Findings, calls[<<cmd, f>>] > 0,
         calls' = [calls EXCEPT ![<<cmd, f>>] = @ - 1],
         pipeline'.left \subseteq pipeline.left,
         \A g \in Findings : g # f => candidate'[g] = candidate[g]
  PROVE  RepairInv'
<1>1. calls \in [Commands \X Findings -> Nat] /\ RepairInv
  BY DEF RepairInv, TypeOK, CallsType
<1>2. ASSUME NEW g \in Findings PROVE RepairedOnce(g)'
  <2>1. RepairedOnce(g)
    BY <1>1 DEF RepairInv
  <2>2. CASE g # f
    <3>1. \A c \in Commands : calls'[<<c, g>>] = calls[<<c, g>>]
      BY <1>1, <2>2
    <3>2. QED
      BY <2>1, <2>2, <3>1 DEF RepairedOnce, Commands
  <2>3. CASE g = f
    <3>1. f \notin pipeline.left /\ \A c \in Commands : calls[<<c, f>>] = IF c = cmd THEN 1 ELSE 0
      BY AnsweredOnce
    <3>2. \A c \in Commands : calls'[<<c, f>>] = 0
      BY <1>1, <3>1
    <3>3. QED
      BY <2>3, <3>1, <3>2 DEF RepairedOnce, Commands
  <2>4. QED
    BY <2>2, <2>3
<1>3. QED
  BY <1>2 DEF RepairInv

LEMMA FirstDiffLeft ==
  ASSUME NEW cand, NEW left, NEW phase, FirstDiff(cand, left, phase)
  PROVE  pipeline'.left = left
<1>1. ASSUME OpenFirstDiff(cand, left, phase) PROVE pipeline'.left = left
  BY <1>1 DEF OpenFirstDiff
<1>2. QED
  BY <1>1 DEF FirstDiff

LEMMA NextRepairInv ==
  ASSUME RepairsOnce, TypeOK, RepairInv, [Next]_vars
  PROVE  RepairInv'
<1> USE DEF sessionVars, editorVars, commandVars
<1>1. RepairInv
  OBVIOUS
<1>2. CASE UNCHANGED <<calls, pipeline, candidate>>
  BY <1>1, <1>2 DEF RepairInv, RepairedOnce
<1>3. ASSUME NEW f \in Findings, GenerateRepair(f) PROVE RepairInv'
  BY <1>3, CallOnce DEF GenerateRepair, Call, Alone, RepairsOnce
<1>4. ASSUME NEW f \in Findings, PipelineCall(f) PROVE RepairInv'
  <2>1. RepairedOnce(f) /\ f \in pipeline.left
    BY <1>1, <1>4 DEF PipelineCall, RepairInv
  <2>2. candidate[f] = NoVersion /\ \A c \in Commands : calls[<<c, f>>] = 0
    BY <2>1 DEF RepairedOnce, Commands
  <2>3. pipeline'.left = pipeline.left \ {f} /\ candidate' = candidate
        /\ calls' = [calls EXCEPT ![<<"pipeline", f>>] = @ + 1]
    BY <1>4 DEF PipelineCall, Call
  <2>4. QED
    BY <2>2, <2>3, CallOnce
<1>5. ASSUME NEW cmd \in Commands, NEW f \in Findings, Bridge(cmd, f) PROVE RepairInv'
  <2>1. calls[<<cmd, f>>] > 0 /\ calls' = [calls EXCEPT ![<<cmd, f>>] = @ - 1]
    BY <1>5 DEF Bridge, RepairReturns, RepairFails
  <2>2. pipeline'.left \subseteq pipeline.left
    BY <1>5, FirstDiffLeft DEF Bridge, RepairReturns, RepairFails
  <2>3. \A g \in Findings : g # f => candidate'[g] = candidate[g]
    BY <1>5 DEF Bridge, RepairReturns, RepairFails, TypeOK, SessionType
  <2>4. QED
    BY <2>1, <2>2, <2>3, BridgeOnce
<1>6. CASE StartPipeline
  <2>1. \A f \in pipeline'.left : candidate[f] = NoVersion /\ Alone(f)
    BY <1>6 DEF StartPipeline, OpenFirstDiff
  <2>2. \A f \in pipeline'.left : \A c \in Commands : calls[<<c, f>>] = 0
    BY <2>1 DEF Alone, RepairsOnce
  <2>3. UNCHANGED <<calls, candidate>>
    BY <1>6 DEF StartPipeline
  <2>4. QED
    BY <1>1, <2>1, <2>2, <2>3 DEF RepairInv, RepairedOnce, Commands
<1>7. CASE PipelineEnds
  <2>1. pipeline'.left = {} /\ UNCHANGED <<calls, candidate>>
    BY <1>7, FirstDiffLeft DEF PipelineEnds
  <2>2. QED
    BY <1>1, <2>1 DEF RepairInv, RepairedOnce
<1>8. CASE \/ Type \/ Undo \/ Redo \/ DiskChange \/ StaleTimerFires \/ SessionReplaced
           \/ Confirm \/ DismissPicker \/ AcceptAllReviewed \/ UNCHANGED vars
           \/ \E r \in Reasons : PickReason(r)
  BY <1>8, <1>2 DEF Type, Undo, Redo, Travel, DiskChange, StaleTimerFires, SessionReplaced,
                    Confirm, DismissPicker, AcceptAllReviewed, vars, PickReason
<1>9. ASSUME NEW op \in sent, Land(op) \/ GiveUp(op) \/ Finish(op) PROVE RepairInv'
  BY <1>9, <1>2 DEF Land, GiveUp, Finish
<1>10. ASSUME NEW f \in Findings,
              ClickAccept(f) \/ ClickReject(f) \/ ShowDiff(f) \/ RegenerateRepair(f)
       PROVE  RepairInv'
  BY <1>10, <1>2 DEF ClickAccept, ClickReject, ShowDiff, RegenerateRepair, RepairsOnce
<1>11. QED
  BY <1>3, <1>4, <1>5, <1>6, <1>7, <1>8, <1>9, <1>10 DEF Next, Event, User

\* What an accept was begun with is the candidate there is, over a warning exactly when there
\* is one.
Current(f, v) == v = candidate[f] /\ v \in Versions

HeldInv(op) == /\ Current(op.finding, op.version)
               /\ op.by = "confirmed" <=> NeedsConfirmation(op.finding, op.version)

AskedInv == picker.kind = "confirm" => /\ Current(picker.finding, picker.version)
                                       /\ NeedsConfirmation(picker.finding, picker.version)

SelectedInv(c) == Current(c.finding, c.version)

MarksInv == /\ \A op \in sent : HeldInv(op)
            /\ AskedInv
            /\ \A c \in batch.left : SelectedInv(c)
            /\ \A f \in Findings : decision[f] = "accepted" => candidate[f] # NoVersion
            /\ OverrideMarksWarnings

LEMMA InitMarksInv == Init => MarksInv
<1> SUFFICES ASSUME Init PROVE MarksInv
  OBVIOUS
<1>1. sent = {} /\ picker.kind = "none" /\ batch.left = {}
  BY DEF Init, NoPicker, NoBatch
<1>2. override = {} /\ \A f \in Findings : decision[f] = "pending"
  BY DEF Init
<1>3. QED
  BY <1>1, <1>2 DEF MarksInv, AskedInv, OverrideMarksWarnings, AcceptedOf

\* An accept goes on under way, or another takes up what the user or the batch has chosen.
Continues(op) == \E o \in sent : /\ op.finding = o.finding /\ op.version = o.version
                                 /\ op.by = o.by

\* Decisions and flags stay, candidates are added.
MarksGrow == /\ \A f \in Findings : candidate[f] # NoVersion => candidate'[f] = candidate[f]
             /\ UNCHANGED <<decision, override>>

\* What is said of a candidate goes on to hold.
LEMMA CurrentStays ==
  ASSUME ConstantsAssumption, MarksGrow, NEW f \in Findings, NEW v, Current(f, v)
  PROVE  Current(f, v)'
BY DEF MarksGrow, Current, ConstantsAssumption

\* As long as nothing is decided, every accept under way only has to be one there was, or to
\* be right.
LEMMA MarksKept ==
  ASSUME ConstantsAssumption, TypeOK, MarksInv, MarksGrow,
         picker' = picker \/ AskedInv',
         batch'.left \subseteq batch.left,
         \A op \in sent' : Continues(op) \/ HeldInv(op)'
  PROVE  MarksInv'
<1>1. \A op \in sent' : HeldInv(op)'
  <2> SUFFICES ASSUME NEW op \in sent', Continues(op) PROVE HeldInv(op)'
    OBVIOUS
  <2>1. PICK o \in sent : op.finding = o.finding /\ op.version = o.version /\ op.by = o.by
    BY DEF Continues
  <2>2. HeldInv(o) /\ o.finding \in Findings
    BY DEF MarksInv, TypeOK, SentType, OpType
  <2>3. Current(op.finding, op.version)'
    BY <2>1, <2>2, CurrentStays DEF HeldInv
  <2>4. QED
    BY <2>1, <2>2, <2>3 DEF HeldInv, MarksGrow
<1>2. AskedInv'
  <2>1. CASE picker' = picker /\ picker.kind = "confirm"
    <3>1. picker.finding \in Findings
      BY <2>1 DEF TypeOK, PickerType, NoPicker
    <3>2. Current(picker.finding, picker.version)'
      BY <2>1, <3>1, CurrentStays DEF MarksInv, AskedInv, Current
    <3>3. QED
      BY <2>1, <3>2 DEF MarksInv, AskedInv
  <2>2. QED
    BY <2>1 DEF AskedInv
<1>3. \A c \in batch'.left : SelectedInv(c)'
  <2> SUFFICES ASSUME NEW c \in batch.left PROVE SelectedInv(c)'
    OBVIOUS
  <2>1. SelectedInv(c) /\ c.finding \in Findings
    BY DEF MarksInv, TypeOK, BatchType
  <2>2. Current(c.finding, c.version)'
    BY <2>1, CurrentStays DEF SelectedInv
  <2>3. QED
    BY <2>1, <2>2 DEF SelectedInv, MarksGrow
<1>4. \A f \in Findings : decision'[f] = "accepted" => candidate'[f] # NoVersion
  BY DEF MarksInv, MarksGrow
<1>5. OverrideMarksWarnings'
  BY DEF MarksInv, MarksGrow, OverrideMarksWarnings, AcceptedOf
<1>6. QED
  BY <1>1, <1>2, <1>3, <1>4, <1>5 DEF MarksInv

\* A new accept is of the candidate its command has looked at.
LEMMA Applies ==
  ASSUME NEW f, NEW v, NEW by, NEW dec, Current(f, v),
         by = "confirmed" <=> NeedsConfirmation(f, v)
  PROVE  HeldInv(Application(f, v, by, dec))
<1>1. PICK op : op = Application(f, v, by, dec)
  OBVIOUS
<1>2. op.finding = f /\ op.version = v /\ op.by = by
  BY <1>1 DEF Application
<1>3. HeldInv(op)
  BY <1>2 DEF HeldInv
<1>4. QED
  BY <1>1, <1>3

\* The batch takes from its selection what no gate warns about.
LEMMA BatchTakes ==
  ASSUME NEW left, NEW dec, NEW hash, NEW ops, RunBatch(left, dec, hash, ops),
         \A c \in left : SelectedInv(c)
  PROVE  /\ batch'.left \subseteq left
         /\ \A op \in sent' : op \in ops \/ HeldInv(op)
<1>1. CASE batch' = NoBatch /\ sent' = ops
  BY <1>1 DEF NoBatch
<1>2. ASSUME NEW c \in left, ~NeedsConfirmation(c.finding, c.version),
             batch' = [left |-> {d \in left : Id[d.finding] > Id[c.finding]}, waiting |-> TRUE],
             sent' = ops \cup {Application(c.finding, c.version, "batch", dec)}
      PROVE  /\ batch'.left \subseteq left
             /\ \A op \in sent' : op \in ops \/ HeldInv(op)
  <2>1. HeldInv(Application(c.finding, c.version, "batch", dec))
    BY <1>2, Applies DEF SelectedInv
  <2>2. QED
    BY <1>2, <2>1
<1>3. QED
  BY <1>1, <1>2 DEF RunBatch

\* Where no candidate changes, what is right stays right.
LEMMA HeldStays ==
  ASSUME NEW op, HeldInv(op), UNCHANGED candidate
  PROVE  HeldInv(op)'
BY DEF HeldInv, Current

LEMMA FinishMarks ==
  ASSUME ConstantsAssumption, TypeOK, MarksInv, NEW op \in sent, Finish(op)
  PROVE  MarksInv'
<1> DEFINE f == op.finding
<1>1. /\ decision' = [decision EXCEPT ![f] = "accepted"]
      /\ override' = IF op.by = "confirmed" THEN override \cup {f} ELSE override
      /\ UNCHANGED <<candidate, picker>>
  BY DEF Finish
<1>2. /\ HeldInv(op) /\ f \in Findings
      /\ decision \in [Findings -> {"pending", "accepted", "rejected"}]
  BY DEF MarksInv, TypeOK, SentType, OpType, SessionType
<1>3. candidate[f] = op.version /\ op.version # NoVersion
  BY <1>2 DEF HeldInv, Current, ConstantsAssumption
<1>4. /\ batch'.left \subseteq batch.left
      /\ \A o \in sent' : o \in sent \/ HeldInv(o)
  <2>1. CASE op.by = "batch"
    <3>1. PICK dec, hash : RunBatch(batch.left, dec, hash, sent \ {op})
      BY <2>1 DEF Finish
    <3>2. QED
      BY <3>1, BatchTakes DEF MarksInv
  <2>2. CASE op.by # "batch"
    BY <2>2 DEF Finish
  <2>3. QED
    BY <2>1, <2>2
<1>5. \A o \in sent' : HeldInv(o)'
  BY <1>1, <1>4, HeldStays DEF MarksInv
<1>6. AskedInv' /\ \A c \in batch'.left : SelectedInv(c)'
  BY <1>1, <1>4 DEF MarksInv, AskedInv, SelectedInv, Current
<1>7. \A g \in Findings : decision'[g] = "accepted" => candidate'[g] # NoVersion
  BY <1>1, <1>2, <1>3 DEF MarksInv
<1>8. OverrideMarksWarnings'
  <2>1. AcceptedOf(decision)' = AcceptedOf(decision) \cup {f}
    BY <1>1, <1>2, <1>3 DEF AcceptedOf
  <2>2. ASSUME NEW g \in Findings, g # f
        PROVE  g \in override' <=> g \in AcceptedOf(decision)' /\ NeedsConfirmation(g, candidate'[g])
    BY <1>1, <2>1, <2>2 DEF MarksInv, OverrideMarksWarnings
  <2>3. op.by = "confirmed" <=> NeedsConfirmation(f, candidate[f])
    BY <1>2, <1>3 DEF HeldInv
  <2>4. f \in override => NeedsConfirmation(f, candidate[f])
    BY <1>2 DEF MarksInv, OverrideMarksWarnings
  <2>5. f \in override' <=> NeedsConfirmation(f, candidate[f])
    BY <1>1, <2>3, <2>4
  <2>6. QED
    BY <1>1, <2>1, <2>2, <2>5 DEF OverrideMarksWarnings
<1>9. QED
  BY <1>5, <1>6, <1>7, <1>8 DEF MarksInv

LEMMA RejectMarks ==
  ASSUME TypeOK, MarksInv, NEW f \in Findings, ClickReject(f)
  PROVE  MarksInv'
<1> USE DEF commandVars
<1>1. /\ decision' = [decision EXCEPT ![f] = "rejected"]
      /\ override' = override \ {f}
      /\ picker'.kind = "reason"
      /\ UNCHANGED <<candidate, sent, batch>>
  BY DEF ClickReject
<1>2. decision \in [Findings -> {"pending", "accepted", "rejected"}]
  BY DEF TypeOK, SessionType
<1>3. \A op \in sent' : HeldInv(op)'
  BY <1>1, HeldStays DEF MarksInv
<1>4. AskedInv' /\ \A c \in batch'.left : SelectedInv(c)'
  BY <1>1 DEF MarksInv, AskedInv, SelectedInv, Current
<1>5. \A g \in Findings : decision'[g] = "accepted" => candidate'[g] # NoVersion
  BY <1>1, <1>2 DEF MarksInv
<1>6. OverrideMarksWarnings'
  <2>1. AcceptedOf(decision)' = AcceptedOf(decision) \ {f}
    BY <1>1, <1>2 DEF AcceptedOf
  <2>2. QED
    BY <1>1, <2>1 DEF MarksInv, OverrideMarksWarnings
<1>7. QED
  BY <1>3, <1>4, <1>5, <1>6 DEF MarksInv

\* The commands that begin an accept.
LEMMA AcceptMarks ==
  ASSUME ConstantsAssumption, TypeOK, MarksInv,
         \/ \E f \in Findings : ClickAccept(f)
         \/ Confirm \/ AcceptAllReviewed
  PROVE  MarksInv'
<1> USE DEF sessionVars
<1>1. MarksGrow
  BY DEF ClickAccept, Confirm, AcceptAllReviewed, MarksGrow
<1>2. UNCHANGED candidate
  BY DEF ClickAccept, Confirm, AcceptAllReviewed
<1>3. ASSUME NEW f \in Findings, ClickAccept(f) PROVE MarksInv'
  <2>1. Current(f, candidate[f])
    BY <1>3 DEF ClickAccept, Offered, TypeOK, SessionType, MaybeVersion, Current
  <2>2. batch' = batch
    BY <1>3 DEF ClickAccept
  <2>3. CASE NeedsConfirmation(f, candidate[f])
    <3>1. sent' = sent /\ picker' = [kind |-> "confirm", finding |-> f, version |-> candidate[f]]
      BY <1>3, <2>3 DEF ClickAccept
    <3>2. AskedInv'
      BY <1>2, <2>1, <2>3, <3>1 DEF AskedInv, Current
    <3>3. \A op \in sent' : Continues(op)
      BY <3>1 DEF Continues
    <3>4. QED
      BY <1>1, <2>2, <3>2, <3>3, MarksKept
  <2>4. CASE ~NeedsConfirmation(f, candidate[f])
    <3>1. /\ sent' = sent \cup {Application(f, candidate[f], "click", decision)}
          /\ picker' = picker
      BY <1>3, <2>4 DEF ClickAccept
    <3>2. HeldInv(Application(f, candidate[f], "click", decision))
      BY <2>1, <2>4, Applies
    <3>3. \A op \in sent' : Continues(op) \/ HeldInv(op)'
      BY <1>2, <3>1, <3>2, HeldStays DEF Continues
    <3>4. QED
      BY <1>1, <2>2, <3>1, <3>3, MarksKept
  <2>5. QED
    BY <2>3, <2>4
<1>4. CASE Confirm
  <2>1. /\ sent' = sent \cup {Application(picker.finding, picker.version, "confirmed", decision)}
        /\ picker' = NoPicker /\ batch' = batch
        /\ picker.kind = "confirm"
    BY <1>4 DEF Confirm
  <2>2. HeldInv(Application(picker.finding, picker.version, "confirmed", decision))
    BY <2>1, Applies DEF MarksInv, AskedInv
  <2>3. \A op \in sent' : Continues(op) \/ HeldInv(op)'
    BY <1>2, <2>1, <2>2, HeldStays DEF Continues
  <2>4. AskedInv'
    BY <2>1 DEF AskedInv, NoPicker
  <2>5. QED
    BY <1>1, <2>1, <2>3, <2>4, MarksKept
<1>5. CASE AcceptAllReviewed
  <2>1. \A c \in Selection : SelectedInv(c)
    BY DEF Selection, SelectedInv, Current
  <2>2. RunBatch(Selection, decision, expected, sent) /\ picker' = picker
    BY <1>5 DEF AcceptAllReviewed
  <2>3. /\ batch'.left \subseteq Selection
        /\ \A op \in sent' : op \in sent \/ HeldInv(op)
    BY <2>1, <2>2, BatchTakes
  <2>4. \A op \in sent' : HeldInv(op)'
    BY <1>2, <2>3, HeldStays DEF MarksInv
  <2>5. AskedInv' /\ \A c \in batch'.left : SelectedInv(c)'
    BY <1>2, <2>1, <2>2, <2>3 DEF MarksInv, AskedInv, SelectedInv, Current
  <2>6. OverrideMarksWarnings' /\ \A f \in Findings : decision'[f] = "accepted" => candidate'[f] # NoVersion
    BY <1>1, <1>2 DEF MarksInv, MarksGrow, OverrideMarksWarnings, AcceptedOf
  <2>7. QED
    BY <2>4, <2>5, <2>6 DEF MarksInv
<1>6. QED
  BY <1>3, <1>4, <1>5

\* An edit keeps its candidate when the editor answers it or refuses it.
LEMMA RefusedContinue ==
  ASSUME NEW ops \in SUBSET sent, NEW op \in Refused(ops)
  PROVE  Continues(op)
<1>1. PICK o \in ops : op = InPhase(o, IF o.phase = "sent" THEN "refused" ELSE o.phase)
  BY DEF Refused
<1>2. op.finding = o.finding /\ op.version = o.version /\ op.by = o.by
  BY <1>1 DEF InPhase
<1>3. QED
  BY <1>2 DEF Continues

LEMMA NextMarksInv ==
  ASSUME RepairsOnce, ConstantsAssumption, TypeOK, RepairInv, MarksInv, [Next]_vars
  PROVE  MarksInv'
<1> USE DEF sessionVars, editorVars, commandVars
<1>1. CASE Type \/ Undo \/ Redo \/ DiskChange
  <2>1. sent' = Refused(sent) /\ UNCHANGED <<picker, batch>> /\ MarksGrow
    BY <1>1 DEF Type, Undo, Redo, Travel, DiskChange, MarksGrow
  <2>2. QED
    BY <2>1, RefusedContinue, MarksKept
<1>2. ASSUME NEW op \in sent, Land(op) PROVE MarksInv'
  <2>1. /\ sent' = Refused(sent \ {op}) \cup {InPhase(op, "landed")}
        /\ UNCHANGED <<picker, batch>> /\ MarksGrow
    BY <1>2 DEF Land, MarksGrow
  <2>2. PICK o : o = InPhase(op, "landed")
    OBVIOUS
  <2>3. Continues(o)
    BY <2>2 DEF InPhase, Continues
  <2>4. \A p \in Refused(sent \ {op}) : Continues(p)
    BY RefusedContinue
  <2>5. QED
    BY <2>1, <2>2, <2>3, <2>4, MarksKept
<1>3. ASSUME NEW op \in sent, GiveUp(op) PROVE MarksInv'
  <2>1. UNCHANGED <<candidate, picker>> /\ MarksGrow
    BY <1>3 DEF GiveUp, MarksGrow
  <2>2. /\ batch'.left \subseteq batch.left
        /\ \A o \in sent' : o \in sent \/ HeldInv(o)
    <3>1. CASE op.by = "batch"
      BY <1>3, <3>1, BatchTakes DEF GiveUp, MarksInv
    <3>2. CASE op.by # "batch"
      BY <1>3, <3>2 DEF GiveUp
    <3>3. QED
      BY <3>1, <3>2
  <2>3. \A o \in sent' : HeldInv(o)'
    BY <2>1, <2>2, HeldStays DEF MarksInv
  <2>4. QED
    BY <2>1, <2>2, <2>3, MarksKept
<1>4. ASSUME NEW op \in sent, Finish(op) PROVE MarksInv'
  BY <1>4, FinishMarks
<1>5. CASE (\E f \in Findings : ClickAccept(f)) \/ Confirm \/ AcceptAllReviewed
  BY <1>5, AcceptMarks
<1>6. ASSUME NEW f \in Findings, ClickReject(f) PROVE MarksInv'
  BY <1>6, RejectMarks
<1>7. ASSUME Grows PROVE MarksInv'
  <2>1. \A op \in sent' : Continues(op)
    BY <1>7 DEF Grows, Continues
  <2>2. MarksGrow /\ UNCHANGED <<picker, batch>>
    BY <1>7 DEF Grows, MarksGrow
  <2>3. QED
    BY <2>1, <2>2, MarksKept
<1>8. CASE DismissPicker \/ \E r \in Reasons : PickReason(r)
  <2>1. /\ UNCHANGED <<sent, batch>> /\ MarksGrow /\ picker'.kind = "none"
    BY <1>8 DEF DismissPicker, PickReason, MarksGrow, NoPicker
  <2>2. \A op \in sent' : Continues(op)
    BY <2>1 DEF Continues
  <2>3. QED
    BY <2>1, <2>2, MarksKept DEF AskedInv
<1>9. ASSUME NEW f \in Findings,
             ShowDiff(f) \/ GenerateRepair(f) \/ RegenerateRepair(f) \/ PipelineCall(f)
      PROVE  MarksInv'
  BY <1>7, <1>9 DEF ShowDiff, GenerateRepair, RegenerateRepair, PipelineCall, Call, Grows
<1>10. ASSUME NEW cmd \in Commands, NEW f \in Findings, Bridge(cmd, f) PROVE MarksInv'
  BY <1>7, <1>10, BridgeGrows
<1>11. CASE StartPipeline
  <2>1. reviewed \subseteq reviewed'
    BY <1>11 DEF StartPipeline, OpenFirstDiff
  <2>2. QED
    BY <1>7, <1>11, <2>1 DEF StartPipeline, Grows
<1>12. CASE PipelineEnds
  BY <1>7, <1>12, FirstDiffGrows DEF PipelineEnds, Grows
<1>13. CASE StaleTimerFires \/ SessionReplaced \/ UNCHANGED vars
  BY <1>7, <1>13 DEF StaleTimerFires, SessionReplaced, vars, Grows
<1>14. QED
  BY <1>1, <1>2, <1>3, <1>4, <1>5, <1>6, <1>8, <1>9, <1>10, <1>11, <1>12, <1>13
     DEF Next, Event, User

LEMMA MarksAlways ==
  ASSUME RepairsOnce
  PROVE  Spec => [](TypeOK /\ RepairInv /\ MarksInv)
<1>1. Init => TypeOK /\ RepairInv /\ MarksInv
  BY InitTypeOK, InitRepairInv, InitMarksInv
<1>2. TypeOK /\ RepairInv /\ MarksInv /\ [Next]_vars => (TypeOK /\ RepairInv /\ MarksInv)'
  BY NextTypeOK, NextRepairInv, NextMarksInv, ConstantsAssumption
<1>3. QED
  BY <1>1, <1>2, PTL DEF Spec

\* D-023 for any findings, hunks and badges: the override flag marks exactly the candidates
\* accepted over a warning, whatever clicks, rejects, batches and dialogs overlap, as long as
\* no finding is repaired twice (acceptCandidate, rejectCandidate, acceptAllReviewed).
THEOREM OverrideAlwaysMarksWarnings ==
  ASSUME RepairsOnce
  PROVE  Spec => []OverrideMarksWarnings
<1>1. MarksInv => OverrideMarksWarnings
  BY DEF MarksInv
<1>2. QED
  BY <1>1, MarksAlways, PTL

-----------------------------------------------------------------------------
(***************************************************************************)
(* The arithmetic of one accept, for plain repairs.                        *)
(***************************************************************************)
\* AcceptChain_proofs has the lemmas about Patches that the theorems need.  Those that are
\* cited speak of texts and hunks only: what its variables and constants stand for does
\* not matter.
Chain == INSTANCE AcceptChain_proofs
           WITH Candidates <- {}, Originals <- {}, Shapes <- LAMBDA c, text : {},
                original <- Original, hunks <- << >>, accepted <- << >>, landed <- << >>,
                doc <- Original

\* The operators of Patches are the same there and here.
LEMMA SameHunks ==
  \A h, g : /\ Chain!HunksConflict(h, g) <=> HunksConflict(h, g)
            /\ Chain!IsDeletion(h) <=> IsDeletion(h)
            /\ Chain!NewLines(h) = NewLines(h)
  BY DEF Chain!HunksConflict, HunksConflict, Chain!HunkRange, HunkRange,
         Chain!RangesIntersect, RangesIntersect, Chain!IsDeletion, IsDeletion,
         Chain!NewLines, NewLines, Chain!Blank, Blank

\* The same of lists.
LEMMA SameFlatten == \A s : Chain!FlattenSeq(s) = FlattenSeq(s)
  BY Zenon DEF Chain!FlattenSeq, FlattenSeq

\* The same of the stable sort.
LEMMA SameSort == \A s, ahead : Chain!SortedBy(s, ahead) = SortedBy(s, ahead)
  BY ZenonT(30) DEF Chain!SortedBy, SortedBy, Chain!PutBehind, PutBehind, Chain!Min, Min,
    Chain!InsertAt, InsertAt, Chain!FoldLeft, FoldLeft, Chain!MapThenFoldSet, MapThenFoldSet,
    Chain!Max, Max

\* The same of their elements.
LEMMA SameElements == \A s : Chain!ToSet(s) = ToSet(s)
  BY DEF Chain!ToSet, ToSet

\* The same of the composition.
LEMMA SameCompose ==
  \A original, hunks : Chain!Compose(original, hunks) = Compose(original, hunks)
  BY ZenonT(30) DEF Chain!Compose, Compose, Chain!Rows, Rows, Chain!Row, Row, Chain!Covers, Covers,
    Chain!InsertedAt, InsertedAt, Chain!ReplacedAt, ReplacedAt, Chain!TextOfOne, TextOfOne,
    Chain!NewLines, NewLines, Chain!IsDeletion, IsDeletion, Chain!Blank, Blank,
    Chain!FlattenSeq, FlattenSeq

\* The same of the edit ranges and their offsets.
LEMMA SameRanges ==
  \A hs, acc : Chain!CandidateToEditRanges(hs, acc) = CandidateToEditRanges(hs, acc)
  BY ZenonT(30) DEF Chain!CandidateToEditRanges, CandidateToEditRanges,
    Chain!HunkToEditRange, HunkToEditRange, Chain!LineOffsetForStart, LineOffsetForStart,
    Chain!LineShift, LineShift, Chain!LiesAbove, LiesAbove, Chain!HunkRange, HunkRange,
    Chain!HunkLineDelta, HunkLineDelta, Chain!NewLines, NewLines, Chain!IsDeletion, IsDeletion,
    Chain!Blank, Blank, Chain!FoldLeft, FoldLeft, Chain!MapThenFoldSet, MapThenFoldSet,
    Chain!Max, Max

\* The same of the editor.
LEMMA SameEdit ==
  \A text, edits : Chain!ApplyWorkspaceEdit(text, edits) = ApplyWorkspaceEdit(text, edits)
  BY ZenonT(30) DEF Chain!ApplyWorkspaceEdit, ApplyWorkspaceEdit, Chain!ApplyTextEdit, ApplyTextEdit,
    Chain!BottomUp, BottomUp, Chain!SortedBy, SortedBy, Chain!PutBehind, PutBehind, Chain!Min, Min,
    Chain!InsertAt, InsertAt, Chain!ToSet, ToSet, Chain!Blank, Blank,
    Chain!FoldLeft, FoldLeft, Chain!MapThenFoldSet, MapThenFoldSet, Chain!Max, Max

\* A finite set as a sequence has each element once.
LEMMA ListOfSet ==
  ASSUME NEW S, IsFiniteSet(S)
  PROVE  /\ SetToSeq(S) \in Seq(S)
         /\ ToSet(SetToSeq(S)) = S
         /\ Chain!Distinct(SetToSeq(S))
<1> DEFINE n == Cardinality(S)
           s == SetToSeq(S)
<1>1. n \in Nat /\ ExistsBijection(1..n, S)
  BY FS_CardinalityType
<1>2. \E f \in [1..n -> S] : IsInjective(f)
  BY <1>1 DEF ExistsBijection, Bijection, Injection
<1>3. s \in [1..n -> S] /\ IsInjective(s)
  BY <1>2 DEF SetToSeq
<1> HIDE DEF s
<1>4. s \in Injection(1..n, S)
  BY <1>3 DEF Injection
<1>5. IsFiniteSet(1..n) /\ Cardinality(1..n) = n
  <2>1. 0 \in Int /\ 1 \in Int /\ n \in Int
    BY <1>1
  <2>2. IsFiniteSet(1..n) /\ Cardinality(1..n) = IF 1 > n THEN 0 ELSE n - 1 + 1
    BY <2>1, FS_Interval
  <2>3. QED
    BY <1>1, <2>2
<1>6. s \in Surjection(1..n, S)
  BY <1>4, <1>5, FS_Injection
<1> HIDE DEF n
<1>7. s \in Seq(S) /\ Len(s) = n /\ DOMAIN s = 1..n
  BY <1>1, <1>3
<1>8. ToSet(s) = S
  BY <1>3, <1>6, <1>7 DEF Surjection, ToSet
<1>9. Chain!Distinct(s)
  BY <1>3, <1>7 DEF Chain!Distinct, IsInjective
<1>10. QED
  BY <1>7, <1>8, <1>9 DEF s

\* The findings of S in the order of their candidate ids.
ById(S) == SortedBy(SetToSeq(S), {p \in S \X S : Id[p[1]] < Id[p[2]]})

\* Every finding of S comes once.
LEMMA ByIdLists ==
  ASSUME ConstantsAssumption, NEW S \in SUBSET Findings
  PROVE  ById(S) \in Seq(S) /\ ToSet(ById(S)) = S /\ Chain!Distinct(ById(S))
<1> DEFINE s == SetToSeq(S)
           ahead == {p \in S \X S : Id[p[1]] < Id[p[2]]}
           r == ById(S)
<1>1. s \in Seq(S) /\ ToSet(s) = S /\ Chain!Distinct(s)
  <2>1. IsFiniteSet(S)
    BY FS_Subset DEF ConstantsAssumption
  <2>2. QED
    BY <2>1, ListOfSet
<1>2. \A f \in S : Id[f] \in Nat
  BY DEF ConstantsAssumption
<1>3. \A f, g \in S : f # g => Id[f] # Id[g]
  BY DEF ConstantsAssumption
<1>4. r = Chain!SortedBy(s, ahead)
  BY SameSort DEF ById
<1>5. \A f, g : <<f, g>> \in ahead <=> f \in S /\ g \in S /\ Id[f] < Id[g]
  OBVIOUS
<1> HIDE DEF s, ahead, r
<1>6. Chain!Linear(s, ahead)
  <2>1. DOMAIN s = 1..Len(s) /\ \A i \in 1..Len(s) : s[i] \in S
    BY <1>1
  <2>2. \A i, j \in DOMAIN s : i # j => (<<s[i], s[j]>> \in ahead \/ <<s[j], s[i]>> \in ahead)
    <3> SUFFICES ASSUME NEW i \in 1..Len(s), NEW j \in 1..Len(s), i # j
                 PROVE  <<s[i], s[j]>> \in ahead \/ <<s[j], s[i]>> \in ahead
      BY <2>1
    <3>1. s[i] \in S /\ s[j] \in S /\ s[i] # s[j]
      BY <1>1, <2>1 DEF Chain!Distinct
    <3>2. Id[s[i]] \in Nat /\ Id[s[j]] \in Nat /\ Id[s[i]] # Id[s[j]]
      BY <1>2, <1>3, <3>1
    <3>3. QED
      BY <1>5, <3>1, <3>2
  <2>3. \A x, y, z \in Chain!ToSet(s) : <<x, y>> \in ahead /\ <<y, z>> \in ahead => <<x, z>> \in ahead
    BY <1>2, <1>5
  <2>4. QED
    BY <2>2, <2>3 DEF Chain!Linear
<1>7. r \in Seq(S) /\ Len(r) = Len(s) /\ Chain!ToSet(r) = Chain!ToSet(s) /\ Chain!Ordered(r, ahead)
  BY <1>1, <1>4, <1>6, Chain!SortedBySorts
<1>8. \A i, j \in 1..Len(r) : i < j => r[i] # r[j]
  <2> SUFFICES ASSUME NEW i \in 1..Len(r), NEW j \in 1..Len(r), i < j PROVE r[i] # r[j]
    OBVIOUS
  <2>1. r[i] \in S /\ r[j] \in S /\ <<r[i], r[j]>> \in ahead
    BY <1>7 DEF Chain!Ordered
  <2>2. QED
    BY <1>2, <1>5, <2>1
<1>9. Chain!Distinct(r)
  <2>1. Len(r) \in Nat
    BY <1>7
  <2>2. QED
    BY <1>8, <2>1 DEF Chain!Distinct
<1>10. ToSet(r) = S
  BY <1>1, <1>7, SameElements
<1>11. QED
  BY <1>7, <1>9, <1>10 DEF r

\* One singleton after another.
LEMMA FlattenSingles ==
  ASSUME NEW E, NEW s \in Seq(E)
  PROVE  FlattenSeq([i \in DOMAIN s |-> <<s[i]>>]) = s
<1> DEFINE R == [i \in Nat \ {0} |-> IF i <= Len(s) THEN <<s[i]>> ELSE << >>]
           C(n) == Chain!FlattenSeq([i \in 1..n |-> R[i]])
           S == {n \in Nat : n <= Len(s) => C(n) = SubSeq(s, 1, n)}
<1>1. DOMAIN s = 1..Len(s) /\ Len(s) \in Nat
  OBVIOUS
<1>2. [i \in DOMAIN s |-> <<s[i]>>] = [i \in 1..Len(s) |-> R[i]]
  BY <1>1
<1>3. \A i \in Nat \ {0} : R[i] \in Seq(E)
  OBVIOUS
<1>4. \A n \in Nat : n + 1 <= Len(s) => R[n + 1] = <<s[n + 1]>>
  OBVIOUS
<1> HIDE DEF R
<1>5. /\ Chain!FlattenSeq([i \in 1..0 |-> R[i]]) = << >>
      /\ \A n \in Nat :
           /\ Chain!FlattenSeq([i \in 1..n |-> R[i]]) \in Seq(E)
           /\ Chain!FlattenSeq([i \in 1..n + 1 |-> R[i]])
                = Chain!FlattenSeq([i \in 1..n |-> R[i]]) \o R[n + 1]
  BY <1>3, Chain!FlattenSteps
<1>6. C(0) = << >> /\ \A n \in Nat : C(n + 1) = C(n) \o R[n + 1]
  BY <1>5
<1> HIDE DEF C
<1>7. 0 \in S
  <2>1. SubSeq(s, 1, 0) = << >>
    OBVIOUS
  <2>2. QED
    BY <1>6, <2>1
<1>8. ASSUME NEW n \in Nat, n \in S PROVE n + 1 \in S
  <2> SUFFICES ASSUME n + 1 <= Len(s) PROVE C(n + 1) = SubSeq(s, 1, n + 1)
    OBVIOUS
  <2>1. C(n) = SubSeq(s, 1, n)
    BY <1>1, <1>8
  <2>2. C(n + 1) = SubSeq(s, 1, n) \o <<s[n + 1]>>
    BY <1>4, <1>6, <2>1
  <2>3. SubSeq(s, 1, n) \o <<s[n + 1]>> = SubSeq(s, 1, n + 1)
    BY <1>1
  <2>4. QED
    BY <2>2, <2>3
<1>9. Nat \subseteq S
  <2> HIDE DEF S
  <2>1. QED
    BY <1>7, <1>8, Chain!Induction
<1>10. C(Len(s)) = s
  BY <1>1, <1>9
<1>11. QED
  BY <1>2, <1>10, SameFlatten DEF C

\* dedupeIncludes leaves a repair alone of which the document has no include.
LEMMA NothingDropped ==
  ASSUME NEW hs \in Seq(HunkShape(Fragments)), NEW text,
         \A i \in DOMAIN hs : hs[i].count = 0 =>
           \A k \in DOMAIN hs[i].repl :
             IsInclude(hs[i].repl[k]) => ~Contains(text, hs[i].repl[k])
  PROVE  DedupeIncludes(hs, text) = hs
<1> DEFINE Present(line) == IsInclude(line) /\ Contains(text, line)
           Kept(h) == IF h.count # 0 THEN h.repl ELSE Where(h.repl, LAMBDA line : ~Present(line))
           Dropped(h) == Kept(h) # h.repl /\ \A i \in DOMAIN Kept(h) : Kept(h)[i] = Blank
           left == Where(hs, LAMBDA h : ~Dropped(h))
           out == [i \in DOMAIN left |-> [left[i] EXCEPT !.repl = Kept(left[i])]]
<1>1. DedupeIncludes(hs, text) = out
  BY DEF DedupeIncludes
<1>2. ASSUME NEW i \in DOMAIN hs PROVE Kept(hs[i]) = hs[i].repl
  <2> DEFINE s == hs[i].repl
  <2>1. CASE hs[i].count # 0
    BY <2>1
  <2>2. CASE hs[i].count = 0
    <3>1. \A k \in DOMAIN s : ~Present(s[k])
      BY <2>2
    <3> HIDE DEF Present
    <3>2. [k \in DOMAIN s |-> IF ~Present(s[k]) THEN <<s[k]>> ELSE << >>]
            = [k \in DOMAIN s |-> <<s[k]>>]
      BY <3>1
    <3>3. Where(s, LAMBDA line : ~Present(line)) = FlattenSeq([k \in DOMAIN s |-> <<s[k]>>])
      BY <3>2 DEF Where
    <3>4. s \in Seq(Seq(Fragments))
      <4>1. hs[i] \in HunkShape(Fragments)
        OBVIOUS
      <4>2. QED
        BY <4>1 DEF HunkShape
    <3>5. QED
      BY <2>2, <3>3, <3>4, FlattenSingles
  <2>3. QED
    BY <2>1, <2>2
<1> HIDE DEF Kept
<1>3. \A i \in DOMAIN hs : ~Dropped(hs[i])
  BY <1>2
<1> HIDE DEF Dropped
<1>4. left = hs
  <2>1. [i \in DOMAIN hs |-> IF ~Dropped(hs[i]) THEN <<hs[i]>> ELSE << >>]
          = [i \in DOMAIN hs |-> <<hs[i]>>]
    BY <1>3
  <2>2. left = FlattenSeq([i \in DOMAIN hs |-> <<hs[i]>>])
    BY <2>1 DEF Where
  <2> HIDE DEF left
  <2>3. QED
    BY <2>2, FlattenSingles
<1>5. ASSUME NEW i \in DOMAIN hs PROVE [hs[i] EXCEPT !.repl = Kept(hs[i])] = hs[i]
  <2>1. hs[i] \in HunkShape(Fragments)
    OBVIOUS
  <2>2. QED
    BY <1>2, <2>1 DEF HunkShape
<1> HIDE DEF left
<1>6. out = [i \in DOMAIN hs |-> [hs[i] EXCEPT !.repl = Kept(hs[i])]]
  BY <1>4
<1>7. [i \in DOMAIN hs |-> [hs[i] EXCEPT !.repl = Kept(hs[i])]] = [i \in DOMAIN hs |-> hs[i]]
  BY <1>5
<1>8. [i \in DOMAIN hs |-> hs[i]] = hs
  OBVIOUS
<1>9. QED
  BY <1>1, <1>6, <1>7, <1>8

\* The lines of a composition are lines of the original or of the hunks put in.
LEMMA LinesOfComposition ==
  ASSUME NEW L, NEW o \in Seq(L), NEW H \in SUBSET Chain!HunksOver(L)
  PROVE  Compose(o, H) \in Seq(L)
<1>1. Len(o) + 1 \in Nat
  OBVIOUS
<1>2. Chain!Rows(o, H, Len(o) + 1) \in Seq(L)
  BY <1>1, Chain!RowsSteps
<1>3. Chain!Compose(o, H) \in Seq(L)
  BY <1>2 DEF Chain!Compose
<1>4. QED
  BY <1>3, SameCompose

\* What the arithmetic of one accept makes of a text is right for the candidates there
\* are: on Original C with those of S put in, the edits for one more leave a text with
\* that one put in, and another one.
ArithmeticIsRight ==
  /\ Compose(Original, {}) = Original
  /\ \A cand \in [Findings -> MaybeVersion], S \in SUBSET Findings, f \in Findings :
       f \notin S /\ Acceptables(cand, S \cup {f}) =>
         LET text == OriginalWith(cand, S)
             next == OriginalWith(cand, S \cup {f})
         IN /\ DedupeIncludes(Hunks(f, cand[f]), text) # << >>
            /\ ApplyWorkspaceEdit(text, AcceptEdits(f, cand[f], text, cand, S)) = next
            /\ next # text

CodeLines == Chain!Lines(Fragments)

\* A repair that can be put into Original C.
Fitting(hs) ==
  /\ hs \in Seq(HunkShape(Fragments)) /\ hs # << >>
  /\ Chain!Placed(CodeLines, Original, hs)
  /\ \A h \in Chain!ToSet(hs) : h.start + h.count <= Len(Original)
  /\ Chain!Filling(Chain!ToSet(hs))

\* Plain hunks are such a repair.
LEMMA PlainFits ==
  ASSUME Original \in Seq(Seq(Fragments)), NEW hs, IsPlain(hs)
  PROVE  Fitting(hs)
<1>1. /\ hs \in Seq(HunkShape(Fragments)) /\ hs # << >> /\ DOMAIN hs = 1..Len(hs)
      /\ \A i \in 1..Len(hs) : ~IsDeletion(hs[i]) /\ hs[i].start + hs[i].count <= Len(Original)
      /\ \A i, j \in 1..Len(hs) : i # j => ~HunksConflict(hs[i], hs[j])
  BY DEF IsPlain
<1>2. Len(Original) \in Nat /\ CodeLines = Seq(Fragments)
  BY DEF CodeLines, Chain!Lines
<1>3. ASSUME NEW i \in 1..Len(hs)
      PROVE  /\ hs[i] \in Chain!HunksOver(CodeLines) /\ hs[i].repl # << >>
             /\ hs[i].start \in Nat /\ hs[i].count \in Nat
  <2>1. hs[i] \in HunkShape(Fragments)
    BY <1>1
  <2>2. QED
    BY <1>2, <2>1 DEF HunkShape, Chain!HunksOver
<1>4. hs \in Seq(Chain!HunksOver(CodeLines))
  BY <1>1, <1>3
<1>5. \A i \in 1..Len(hs) : hs[i].start + hs[i].count <= Len(Original) + 1
  BY <1>1, <1>2, <1>3
<1>6. Chain!Placed(CodeLines, Original, hs)
  BY <1>1, <1>2, <1>4, <1>5, SameHunks DEF Chain!Placed
<1>7. Chain!ToSet(hs) = {hs[i] : i \in 1..Len(hs)}
  BY <1>1 DEF Chain!ToSet
<1>8. Chain!Filling(Chain!ToSet(hs))
  <2>1. ASSUME NEW i \in 1..Len(hs) PROVE Chain!NewLines(hs[i]) # << >>
    BY <1>1, <1>3, SameHunks DEF NewLines
  <2>2. QED
    BY <1>7, <2>1 DEF Chain!Filling
<1>9. QED
  BY <1>1, <1>6, <1>7, <1>8 DEF Fitting

\* Each of the candidates of S can be put in, and they keep apart.
LEMMA AcceptablesFit ==
  ASSUME RepairsArePlain, NEW cand, NEW S \in SUBSET Findings, Acceptables(cand, S)
  PROVE  /\ \A g \in S : Fitting(Hunks(g, cand[g]))
         /\ \A f, g \in S : f # g =>
              \A a \in Chain!ToSet(Hunks(f, cand[f])), b \in Chain!ToSet(Hunks(g, cand[g])) :
                ~Chain!HunksConflict(a, b)
<1>1. \A g \in S : Fitting(Hunks(g, cand[g]))
  BY PlainFits DEF RepairsArePlain, Acceptables
<1>2. ASSUME NEW f \in S, NEW g \in S, f # g,
             NEW a \in Chain!ToSet(Hunks(f, cand[f])), NEW b \in Chain!ToSet(Hunks(g, cand[g]))
      PROVE  ~Chain!HunksConflict(a, b)
  <2>1. ~CandidatesConflict(Hunks(f, cand[f]), Hunks(g, cand[g]))
    BY <1>2 DEF Acceptables
  <2>2. PICK i \in DOMAIN Hunks(f, cand[f]) : a = Hunks(f, cand[f])[i]
    BY DEF Chain!ToSet
  <2>3. PICK j \in DOMAIN Hunks(g, cand[g]) : b = Hunks(g, cand[g])[j]
    BY DEF Chain!ToSet
  <2>4. QED
    BY <2>1, <2>2, <2>3, SameHunks DEF CandidatesConflict
<1>3. QED
  BY <1>1, <1>2

\* The hunks that the offsets of an accept are computed from are those put in before.
LEMMA HunksByIdPlaced ==
  ASSUME ConstantsAssumption, RepairsArePlain, NEW cand, NEW S \in SUBSET Findings,
         Acceptables(cand, S)
  PROVE  /\ Chain!Placed(CodeLines, Original, HunksById(cand, S))
         /\ Chain!ToSet(HunksById(cand, S)) = PatchesOf(cand, S)
<1> DEFINE hk == [g \in S |-> Hunks(g, cand[g])]
           ids == ById(S)
<1>1. ids \in Seq(S) /\ ToSet(ids) = S /\ Chain!Distinct(ids)
  BY ByIdLists
<1>2. Original \in Seq(CodeLines)
  BY DEF RepairsArePlain, CodeLines, Chain!Lines
<1>3. Chain!ListsFit(CodeLines, Original, S, hk)
  BY AcceptablesFit DEF Chain!ListsFit, Fitting
<1>4. HunksById(cand, S) = Chain!AllHunks(hk, ids)
  <2>1. HunksById(cand, S) = FlattenSeq([i \in DOMAIN ids |-> Hunks(ids[i], cand[ids[i]])])
    BY DEF HunksById, ById
  <2> HIDE DEF ids
  <2>2. \A i \in DOMAIN ids : ids[i] \in S
    BY <1>1
  <2>3. [i \in DOMAIN ids |-> Hunks(ids[i], cand[ids[i]])] = [i \in DOMAIN ids |-> hk[ids[i]]]
    BY <2>2
  <2>4. QED
    BY <2>1, <2>3, SameFlatten DEF Chain!AllHunks
<1> HIDE DEF ids
<1>5. Chain!AllPlaced(CodeLines, Original, hk, ids)
  <2> HIDE DEF hk
  <2>1. QED
    BY <1>1, <1>2, <1>3, Chain!ListsPlaced
<1>6. UNION {Chain!ToSet(hk[g]) : g \in Chain!ToSet(ids)} = PatchesOf(cand, S)
  <2>1. Chain!ToSet(ids) = S
    BY <1>1, SameElements
  <2>2. \A g \in S : Chain!ToSet(hk[g]) = ToSet(Hunks(g, cand[g]))
    BY SameElements
  <2> HIDE DEF hk
  <2>3. QED
    BY <2>1, <2>2 DEF PatchesOf
<1>7. QED
  BY <1>4, <1>5, <1>6 DEF Chain!AllPlaced

\* A repair whose includes are its own loses nothing to dedupeIncludes.
LEMMA AloneIsWhole ==
  ASSUME RepairsArePlain, NEW cand, NEW S \in SUBSET Findings, NEW f \in Findings, f \notin S,
         Acceptables(cand, S \cup {f})
  PROVE  DedupeIncludes(Hunks(f, cand[f]), OriginalWith(cand, S)) = Hunks(f, cand[f])
<1> DEFINE hs == Hunks(f, cand[f])
           H == PatchesOf(cand, S)
           L == {line \in Seq(Fragments) : ~BroughtBy(f, line)}
<1>1. /\ Original \in Seq(Seq(Fragments)) /\ hs \in Seq(HunkShape(Fragments))
      /\ IncludesAlone(f, hs)
      /\ \A g \in S : /\ cand[g] \in Versions /\ Acceptable(g, cand[g])
                      /\ g \in Findings \ {f} /\ IsPlain(Hunks(g, cand[g]))
  BY DEF RepairsArePlain, Acceptables, IsPlain
<1>2. Original \in Seq(L)
  <2>1. \A i \in 1..Len(Original) : Original[i] \in L
    BY <1>1 DEF BroughtBy, Contains
  <2> HIDE DEF L
  <2>2. QED
    BY <1>1, <2>1
<1>3. H \in SUBSET Chain!HunksOver(L)
  <2> SUFFICES ASSUME NEW h \in H PROVE h \in Chain!HunksOver(L)
    OBVIOUS
  <2>1. PICK g \in S : h \in ToSet(Hunks(g, cand[g]))
    BY DEF PatchesOf
  <2>2. PICK j \in DOMAIN Hunks(g, cand[g]) : h = Hunks(g, cand[g])[j]
    BY <2>1 DEF ToSet
  <2>3. h \in HunkShape(Fragments)
    <3>1. Hunks(g, cand[g]) \in Seq(HunkShape(Fragments))
      BY <1>1 DEF IsPlain
    <3>2. QED
      BY <2>2, <3>1
  <2>4. h.repl \in Seq(Seq(Fragments))
    BY <2>3 DEF HunkShape
  <2>5. ASSUME NEW i \in 1..Len(h.repl) PROVE h.repl[i] \in L
    <3>1. Contains(h.repl, h.repl[i])
      BY DEF Contains
    <3>2. ~BroughtBy(f, h.repl[i])
      BY <1>1, <2>2, <3>1 DEF BroughtBy
    <3>3. QED
      BY <2>4, <3>2
  <2> HIDE DEF L
  <2>6. h.repl \in Seq(L)
    BY <2>4, <2>5
  <2>7. QED
    BY <2>3, <2>6 DEF HunkShape, Chain!HunksOver
<1>4. OriginalWith(cand, S) \in Seq(L)
  <2> HIDE DEF L, H
  <2>1. Compose(Original, H) \in Seq(L)
    BY <1>2, <1>3, LinesOfComposition
  <2>2. QED
    BY <2>1 DEF OriginalWith, H
<1>5. ASSUME NEW line, BroughtBy(f, line) PROVE ~Contains(OriginalWith(cand, S), line)
  <2>1. line \notin L
    BY <1>5
  <2> HIDE DEF L
  <2>2. QED
    BY <1>4, <2>1 DEF Contains
<1>6. \A i \in DOMAIN hs : hs[i].count = 0 =>
        \A k \in DOMAIN hs[i].repl :
          IsInclude(hs[i].repl[k]) => ~Contains(OriginalWith(cand, S), hs[i].repl[k])
  BY <1>1, <1>5 DEF IncludesAlone
<1> HIDE DEF hs
<1>7. DedupeIncludes(hs, OriginalWith(cand, S)) = hs
  BY <1>1, <1>6, NothingDropped
<1>8. QED
  BY <1>7 DEF hs

\* One plain repair more.
LEMMA PlainAccept ==
  ASSUME ConstantsAssumption, RepairsArePlain, NEW cand, NEW S \in SUBSET Findings,
         NEW f \in Findings, f \notin S, Acceptables(cand, S \cup {f})
  PROVE  LET text == OriginalWith(cand, S)
         IN  /\ DedupeIncludes(Hunks(f, cand[f]), text) # << >>
             /\ ApplyWorkspaceEdit(text, AcceptEdits(f, cand[f], text, cand, S))
                  = OriginalWith(cand, S \cup {f})
<1> DEFINE hs == Hunks(f, cand[f])
           acc == HunksById(cand, S)
           text == OriginalWith(cand, S)
           T == S \cup {f}
<1>1. DedupeIncludes(hs, text) = hs
  BY AloneIsWhole
<1>2. T \in SUBSET Findings /\ Acceptables(cand, T) /\ Acceptables(cand, S)
  BY DEF Acceptables
<1>3. /\ Chain!Placed(CodeLines, Original, acc)
      /\ Chain!ToSet(acc) = PatchesOf(cand, S)
  BY <1>2, HunksByIdPlaced
<1>4. /\ \A g \in T : Fitting(Hunks(g, cand[g]))
      /\ \A a, g \in T : a # g =>
           \A x \in Chain!ToSet(Hunks(a, cand[a])), y \in Chain!ToSet(Hunks(g, cand[g])) :
             ~Chain!HunksConflict(x, y)
  BY <1>2, AcceptablesFit
<1>5. ASSUME NEW x \in Chain!ToSet(acc)
      PROVE  \E g \in S : x \in Chain!ToSet(Hunks(g, cand[g]))
  <2>1. x \in PatchesOf(cand, S)
    BY <1>3
  <2>2. QED
    BY <2>1, SameElements DEF PatchesOf
<1> HIDE DEF acc
<1>6. Chain!Fresh(Fragments, Original, acc, hs)
  <2>1. Fitting(hs)
    BY <1>4
  <2>2. ASSUME NEW h \in Chain!ToSet(hs), NEW x \in Chain!ToSet(acc)
        PROVE  ~Chain!HunksConflict(h, x)
    BY <1>4, <1>5
  <2>3. Chain!Filling(Chain!ToSet(acc))
    BY <1>4, <1>5 DEF Fitting, Chain!Filling
  <2> HIDE DEF hs
  <2>4. QED
    BY <1>3, <2>1, <2>2, <2>3 DEF Fitting, Chain!Fresh, CodeLines
<1>7. hs # << >>
  BY <1>4 DEF Fitting
<1> HIDE DEF hs
<1>8. Chain!Compose(Original, Chain!ToSet(acc)) # << >>
  BY <1>6, <1>7, Chain!SomethingThere
<1>9. Chain!ApplyWorkspaceEdit(Chain!Compose(Original, Chain!ToSet(acc)),
                               Chain!CandidateToEditRanges(hs, acc))
        = Chain!Compose(Original, Chain!ToSet(acc) \cup Chain!ToSet(hs))
  BY <1>6, <1>8, Chain!EditsCompose
<1>10. text = Chain!Compose(Original, Chain!ToSet(acc))
  BY <1>3, SameCompose DEF OriginalWith
<1>11. ApplyWorkspaceEdit(text, CandidateToEditRanges(hs, acc))
         = Compose(Original, Chain!ToSet(acc) \cup Chain!ToSet(hs))
  BY <1>9, <1>10, SameCompose, SameRanges, SameEdit
<1>12. Chain!ToSet(acc) \cup Chain!ToSet(hs) = PatchesOf(cand, T)
  BY <1>3, SameElements DEF PatchesOf, hs
<1>13. AcceptEdits(f, cand[f], text, cand, S) = CandidateToEditRanges(hs, acc)
  BY <1>1 DEF AcceptEdits, hs, acc
<1>14. ApplyWorkspaceEdit(text, AcceptEdits(f, cand[f], text, cand, S)) = OriginalWith(cand, T)
  BY <1>11, <1>12, <1>13 DEF OriginalWith
<1>15. QED
  BY <1>1, <1>7, <1>14 DEF hs

\* For plain repairs of which each changes the text, the arithmetic of every accept is
\* right (applyCandidate): AcceptChain has shown it of the hunks, the candidate ids put the
\* accepted ones in some order, and which one does not matter.
THEOREM ArithmeticHolds ==
  ASSUME ConstantsAssumption, RepairsArePlain, RepairsChangeText
  PROVE  ArithmeticIsRight
<1>1. Compose(Original, {}) = Original
  <2>1. Original \in Seq(CodeLines)
    BY DEF RepairsArePlain, CodeLines, Chain!Lines
  <2>2. Chain!Compose(Original, {}) = Original
    BY <2>1, Chain!RowsOfNone
  <2>3. QED
    BY <2>2, SameCompose
<1>2. ASSUME NEW cand \in [Findings -> MaybeVersion], NEW S \in SUBSET Findings,
             NEW f \in Findings, f \notin S, Acceptables(cand, S \cup {f})
      PROVE  LET text == OriginalWith(cand, S)
                 next == OriginalWith(cand, S \cup {f})
             IN /\ DedupeIncludes(Hunks(f, cand[f]), text) # << >>
                /\ ApplyWorkspaceEdit(text, AcceptEdits(f, cand[f], text, cand, S)) = next
                /\ next # text
  <2>1. OriginalWith(cand, S \cup {f}) # OriginalWith(cand, S)
    BY <1>2 DEF RepairsChangeText
  <2>2. QED
    BY <1>2, <2>1, PlainAccept
<1>3. QED
  BY <1>1, <1>2 DEF ArithmeticIsRight

-----------------------------------------------------------------------------
(***************************************************************************)
(* Original C + accepted patches.  The session never loses count of what   *)
(* it has put into the document, whatever accepts, batches, dialogs,       *)
(* rescans, undos and late answers come between, as long as nothing of     *)
(* what Careful excludes happens; each of these alone breaks it.           *)
(***************************************************************************)
\* Out of bounds: typing or confirming while an edit is under way, a change on disk,
\* accepting what is decided, regenerating, and a second repair of a finding.
Careful == Habits \cap {"haste", "disk", "title bar", "regenerate", "overlap"} = {}

Accepted == AcceptedOf(decision)
Composed(S) == Compose(Original, PatchesOf(candidate, S))

HistoryInv == history \in Seq(ToSet(history)) /\ at \in 1..Len(history)

AcceptedInv == /\ \A f \in Findings : decision[f] = "accepted" => candidate[f] # NoVersion
               /\ Acceptables(candidate, Accepted)
               /\ expected = Composed(Accepted)

\* An accept of version v of f may be added to those dec records.
Ready(f, v, dec) == /\ f \in Findings \ AcceptedOf(dec)
                    /\ v = candidate[f] /\ v \in Versions
                    /\ Acceptable(f, v) /\ ~ConflictsWith(f, v, dec)

ReadyInv(op) ==
  op.phase # "refused" => /\ Ready(op.finding, op.version, decision)
                          /\ op.by = "confirmed" <=> NeedsConfirmation(op.finding, op.version)

\* An edit under way was built for the document as it is.
BuiltInv(op) ==
  op.phase = "sent" =>
    /\ Doc = expected
    /\ ApplyWorkspaceEdit(Doc, op.edits) = Composed(Accepted \cup {op.finding})

\* Of all edits under way one has landed, and the others have been refused.
LandedInv(op) ==
  op.phase = "landed" =>
    /\ Doc = Composed(Accepted \cup {op.finding}) /\ Doc # expected
    /\ \A o \in sent : o # op => o.phase = "refused"

OpInv(op) == op.phase # "nothing to do" /\ ReadyInv(op) /\ BuiltInv(op) /\ LandedInv(op)

OpsInv == \A op \in sent : OpInv(op)

\* The batch waits for the edit it has sent, the only one under way; what it has left
\* has been seen and comes after that one.
LeftInv(c, f) == /\ c.version = candidate[c.finding]
                 /\ c.finding \in reviewed
                 /\ decision[c.finding] # "accepted"
                 /\ Id[c.finding] > Id[f]

BatchInv ==
  \/ ~batch.waiting /\ batch = NoBatch /\ \A op \in sent : op.by # "batch"
  \/ batch.waiting /\ \E op \in sent :
       /\ sent = {op} /\ op.by = "batch" /\ op.phase # "refused"
       /\ op.finding \in reviewed
       /\ \A c \in batch.left : LeftInv(c, op.finding)

\* Nothing is under way while the user is asked, so the guard still holds when he answers.
ConfirmInv ==
  picker.kind = "confirm" =>
    /\ sent = {} /\ batch = NoBatch /\ Doc = expected
    /\ Ready(picker.finding, picker.version, decision)
    /\ NeedsConfirmation(picker.finding, picker.version)

\* What speaks of the document and of the commands, and what speaks of the candidates.
ChainInv == HistoryInv /\ AcceptedInv /\ OpsInv /\ BatchInv /\ ConfirmInv
OutputInv == TypeOK /\ ChainInv /\ RepairInv

LEMMA InitOutputInv == ASSUME ArithmeticIsRight PROVE Init => OutputInv
<1> SUFFICES ASSUME Init PROVE OutputInv
  OBVIOUS
<1>1. TypeOK
  BY InitTypeOK
<1>2. Accepted = {} /\ AcceptedOf(decision) = {}
  BY DEF Init, Accepted, AcceptedOf
<1>3. HistoryInv
  <2>1. history = <<Original>> /\ at = 1
    BY DEF Init
  <2>2. ToSet(history) = {Original}
    BY <2>1 DEF ToSet
  <2>3. QED
    BY <2>1, <2>2 DEF HistoryInv
<1>4. AcceptedInv
  <2>1. PatchesOf(candidate, {}) = {}
    BY DEF PatchesOf
  <2>2. expected = Composed(Accepted)
    BY <1>2, <2>1 DEF Init, Composed, ArithmeticIsRight
  <2>3. Acceptables(candidate, Accepted)
    BY <1>2 DEF Acceptables
  <2>4. QED
    BY <2>2, <2>3 DEF AcceptedInv, Init
<1>5. OpsInv /\ BatchInv /\ ConfirmInv
  <2>1. picker.kind = "none" /\ batch.waiting = FALSE
    BY DEF Init, NoPicker, NoBatch
  <2>2. QED
    BY <2>1 DEF Init, OpsInv, BatchInv, ConfirmInv
<1>6. RepairInv
  BY InitRepairInv
<1>7. QED
  BY <1>1, <1>3, <1>4, <1>5, <1>6 DEF OutputInv, ChainInv

\* The composition depends on nothing but the candidates it composes.
LEMMA PatchesAgree ==
  ASSUME NEW c1, NEW c2, NEW S, \A f \in S : c1[f] = c2[f]
  PROVE  PatchesOf(c1, S) = PatchesOf(c2, S)
  BY DEF PatchesOf

\* A conflict does not depend on which of the two is accepted first.
LEMMA ConflictsMutual ==
  ASSUME NEW cA, NEW cB
  PROVE  CandidatesConflict(cA, cB) <=> CandidatesConflict(cB, cA)
<1>1. ASSUME NEW a, NEW b, HunksConflict(a, b) PROVE HunksConflict(b, a)
  <2>1. CASE a.count = 0 /\ b.count = 0
    BY <1>1, <2>1 DEF HunksConflict, RangesIntersect, HunkRange
  <2>2. CASE a.count = 0 /\ b.count # 0
    BY <1>1, <2>2 DEF HunksConflict, RangesIntersect, HunkRange
  <2>3. CASE a.count # 0 /\ b.count = 0
    BY <1>1, <2>3 DEF HunksConflict, RangesIntersect, HunkRange
  <2>4. CASE a.count # 0 /\ b.count # 0
    BY <1>1, <2>4 DEF HunksConflict, RangesIntersect, HunkRange
  <2>5. QED
    BY <2>1, <2>2, <2>3, <2>4
<1>2. QED
  BY <1>1 DEF CandidatesConflict

\* An edit pushes its text on what was left of the stack.
LEMMA TextPushed ==
  ASSUME HistoryInv, NEW text, DocumentChanges(text)
  PROVE  HistoryInv' /\ Doc' = text
<1> DEFINE A == ToSet(history) \cup {text}
<1>1. history \in Seq(ToSet(history)) /\ at \in 1..Len(history) /\ Len(history) \in Nat
  BY DEF HistoryInv
<1>2. history \in Seq(A) /\ text \in A
  BY <1>1
<1>3. \A i \in 1..at : history[i] \in A
  BY <1>1, <1>2
<1>4. /\ SubSeq(history, 1, at) \in Seq(A)
      /\ Len(SubSeq(history, 1, at)) = at
  BY <1>1, <1>3, SubSeqProperties
<1>5. /\ history' \in Seq(A)
      /\ Len(history') = at + 1
      /\ history'[at + 1] = text
  BY <1>2, <1>4, <1>1, AppendProperties DEF DocumentChanges
<1>6. at' = at + 1
  BY DEF DocumentChanges
<1>7. history' \in Seq(ToSet(history'))
  <2>1. DOMAIN history' = 1..Len(history') /\ Len(history') \in Nat
    BY <1>5
  <2>2. \A i \in 1..Len(history') : history'[i] \in ToSet(history')
    BY <2>1 DEF ToSet
  <2>3. QED
    BY <1>5, <2>1, <2>2, SeqDef
<1>8. QED
  BY <1>1, <1>5, <1>6, <1>7 DEF HistoryInv, Doc

\* The guard of one more accept makes the edits of its application right.
LEMMA OneMore ==
  ASSUME ArithmeticIsRight, TypeOK, NEW dec, Acceptables(candidate, AcceptedOf(dec)),
         Doc = Composed(AcceptedOf(dec)), NEW f, NEW v, Ready(f, v, dec), NEW by
  PROVE  /\ Acceptables(candidate, AcceptedOf(dec) \cup {f})
         /\ Composed(AcceptedOf(dec) \cup {f}) # Doc
         /\ Application(f, v, by, dec).finding = f
         /\ Application(f, v, by, dec).version = v
         /\ Application(f, v, by, dec).by = by
         /\ Application(f, v, by, dec).phase = "sent"
         /\ ApplyWorkspaceEdit(Doc, Application(f, v, by, dec).edits)
              = Composed(AcceptedOf(dec) \cup {f})
<1> DEFINE S == AcceptedOf(dec)
<1>1. f \in Findings /\ f \notin S /\ candidate[f] = v /\ v \in Versions /\ Acceptable(f, v)
  BY DEF Ready
<1>2. S \in SUBSET Findings /\ candidate \in [Findings -> MaybeVersion]
  BY DEF AcceptedOf, TypeOK, SessionType
<1>3. \A g \in S : ~CandidatesConflict(Hunks(f, v), Hunks(g, candidate[g]))
  BY <1>1 DEF Ready, ConflictsWith
<1>4. Acceptables(candidate, S \cup {f})
  BY <1>1, <1>3, ConflictsMutual DEF Acceptables
<1> HIDE DEF S
<1>5. /\ DedupeIncludes(Hunks(f, v), Doc) # << >>
      /\ ApplyWorkspaceEdit(Doc, AcceptEdits(f, v, Doc, candidate, S)) = Composed(S \cup {f})
      /\ Composed(S \cup {f}) # Doc
  BY <1>1, <1>2, <1>4 DEF ArithmeticIsRight, OriginalWith, Composed, S
<1>6. QED
  BY <1>4, <1>5 DEF Application, S

\* The batch goes on with an edit for the document as it is, or ends.
LEMMA BatchStep ==
  ASSUME ArithmeticIsRight, TypeOK, AcceptedInv', ConstantsAssumption,
         UNCHANGED <<candidate, reviewed, history, at>>,
         NEW left \in SUBSET [finding : Findings, version : Versions],
         \A c \in left : /\ c.version = candidate[c.finding]
                         /\ c.finding \in reviewed
                         /\ decision'[c.finding] # "accepted",
         RunBatch(left, decision', expected', {})
  PROVE  OpsInv' /\ BatchInv'
<1>1. CASE batch' = NoBatch /\ sent' = {}
  BY <1>1 DEF OpsInv, BatchInv, NoBatch
<1>2. ASSUME NEW c \in left,
             AcceptGuard(c.finding, c.version, decision', expected'),
             ~NeedsConfirmation(c.finding, c.version),
             batch' = [left |-> {d \in left : Id[d.finding] > Id[c.finding]}, waiting |-> TRUE],
             sent' = {} \cup {Application(c.finding, c.version, "batch", decision')}
      PROVE  OpsInv' /\ BatchInv'
  <2> DEFINE S == AcceptedOf(decision')
  <2>0. PICK op : op = Application(c.finding, c.version, "batch", decision')
    OBVIOUS
  <2>1. c.finding \in Findings /\ c.version \in Versions /\ c.finding \notin S
    BY DEF AcceptedOf
  <2>2. Ready(c.finding, c.version, decision')
    BY <1>2, <2>1 DEF Ready, AcceptGuard
  <2>3. S = Accepted'
    BY DEF Accepted, AcceptedOf
  <2>4. Acceptables(candidate, S) /\ Doc = Composed(S)
    <3>1. Acceptables(candidate', Accepted') /\ expected' = Compose(Original, PatchesOf(candidate', Accepted'))
      BY DEF AcceptedInv, Composed
    <3>2. QED
      BY <1>2, <2>3, <3>1 DEF AcceptGuard, Composed
  <2>5. /\ op.finding = c.finding /\ op.version = c.version
        /\ op.by = "batch" /\ op.phase = "sent"
        /\ ApplyWorkspaceEdit(Doc, op.edits) = Composed(S \cup {c.finding})
    BY <2>0, <2>2, <2>4, OneMore
  <2> HIDE DEF S
  <2>6. sent' = {op} /\ Doc' = Doc /\ Doc = expected'
    BY <1>2, <2>0 DEF Doc, AcceptGuard
  <2>7. Ready(op.finding, op.version, decision)'
    BY <2>2, <2>5 DEF Ready, AcceptedOf, ConflictsWith
  <2>8. ApplyWorkspaceEdit(Doc', op.edits) = Compose(Original, PatchesOf(candidate', Accepted' \cup {op.finding}))
    BY <2>3, <2>5, <2>6 DEF Composed
  <2>9. OpInv(op)'
    BY <1>2, <2>5, <2>6, <2>7, <2>8 DEF OpInv, ReadyInv, BuiltInv, LandedInv, Composed
  <2>10. \A d \in batch'.left : LeftInv(d, op.finding)'
    BY <1>2, <2>5 DEF LeftInv
  <2>11. op.finding \in reviewed' /\ batch'.waiting
    BY <1>2, <2>5
  <2>12. OpsInv'
    BY <2>6, <2>9 DEF OpsInv
  <2>13. BatchInv'
    BY <2>5, <2>6, <2>10, <2>11 DEF BatchInv
  <2>14. QED
    BY <2>12, <2>13
<1>3. QED
  BY <1>1, <1>2 DEF RunBatch

\* While an edit is sent none has landed.
LEMMA NoneLanded ==
  ASSUME OpsInv, Doc = expected, NEW op \in sent
  PROVE  op.phase # "landed"
  BY DEF OpsInv, OpInv, LandedInv

LEMMA TravelChain ==
  ASSUME OutputInv, Careful, Type \/ Undo \/ Redo
  PROVE  ChainInv'
<1> USE DEF sessionVars, editorVars, commandVars
<1>1. MayType /\ UNCHANGED <<candidate, decision, override, reviewed, expected, picker, batch>>
  BY DEF Type, Undo, Redo, Travel
<1>2. sent = {} /\ sent' = {}
  <2>1. sent = {}
    BY <1>1 DEF MayType, Careful
  <2>2. Refused({}) = {}
    BY DEF Refused
  <2>3. QED
    BY <2>1, <2>2 DEF Type, Undo, Redo, Travel
<1>3. HistoryInv'
  <2>1. HistoryInv
    BY DEF OutputInv, ChainInv
  <2>2. CASE Type
    BY <2>1, <2>2, TextPushed DEF Type
  <2>3. CASE Undo \/ Redo
    BY <2>1, <2>3 DEF Undo, Redo, Travel, HistoryInv
  <2>4. QED
    BY <2>2, <2>3
<1>4. AcceptedInv'
  BY <1>1 DEF OutputInv, ChainInv, AcceptedInv, Accepted, AcceptedOf, Composed
<1>5. OpsInv'
  BY <1>2 DEF OpsInv
<1>6. BatchInv'
  BY <1>1, <1>2 DEF OutputInv, ChainInv, BatchInv
<1>7. ConfirmInv'
  <2>1. picker'.kind = "none"
    BY <1>1 DEF MayType, NoPicker
  <2>2. QED
    BY <2>1 DEF ConfirmInv
<1>8. QED
  BY <1>3, <1>4, <1>5, <1>6, <1>7 DEF ChainInv

\* What is said of the session alone holds as long as it is left alone.
SessionKept == UNCHANGED <<candidate, decision, override, reviewed, expected>>

LEMMA SessionFrame ==
  ASSUME OutputInv, SessionKept
  PROVE  /\ AcceptedInv'
         /\ Accepted' = Accepted /\ AcceptedOf(decision)' = AcceptedOf(decision)
         /\ \A S : Compose(Original, PatchesOf(candidate', S)) = Composed(S)
         /\ \A f, v : Ready(f, v, decision) => Ready(f, v, decision)'
<1> USE DEF SessionKept
<1>1. AcceptedOf(decision)' = AcceptedOf(decision)
  BY DEF AcceptedOf
<1>2. AcceptedInv'
  BY DEF OutputInv, ChainInv, AcceptedInv, Accepted, AcceptedOf, Composed
<1>3. \A f, v : Ready(f, v, decision) => Ready(f, v, decision)'
  BY DEF Ready, ConflictsWith, AcceptedOf
<1>4. QED
  BY <1>1, <1>2, <1>3 DEF Accepted, Composed

\* One more edit for the document as it is.
LEMMA SendChain ==
  ASSUME ArithmeticIsRight, OutputInv, SessionKept, UNCHANGED <<history, at, batch>>,
         batch = NoBatch, Doc = expected,
         NEW f, NEW v, Ready(f, v, decision), NEW by \in {"click", "confirmed"},
         by = "confirmed" <=> NeedsConfirmation(f, v),
         sent' = sent \cup {Application(f, v, by, decision)},
         picker'.kind # "confirm"
  PROVE  ChainInv'
<1>0. PICK op : op = Application(f, v, by, decision)
  OBVIOUS
<1>1. TypeOK /\ AcceptedInv /\ OpsInv /\ BatchInv /\ HistoryInv
  BY DEF OutputInv, ChainInv
<1>2. Acceptables(candidate, AcceptedOf(decision)) /\ Doc = Composed(AcceptedOf(decision))
  BY <1>1 DEF AcceptedInv, Accepted
<1>3. /\ op.finding = f /\ op.version = v /\ op.by = by /\ op.phase = "sent"
      /\ ApplyWorkspaceEdit(Doc, op.edits) = Composed(Accepted \cup {f})
  BY <1>0, <1>1, <1>2, OneMore DEF Accepted
<1>4. sent' = sent \cup {op} /\ Doc' = Doc /\ expected' = expected
  BY <1>0 DEF Doc, SessionKept
<1>5. OpInv(op)'
  BY <1>3, <1>4, SessionFrame DEF OpInv, ReadyInv, BuiltInv, LandedInv, Composed
<1>6. ASSUME NEW o \in sent PROVE OpInv(o)'
  <2>1. OpInv(o) /\ o.phase # "landed"
    BY <1>1, NoneLanded DEF OpsInv
  <2>2. QED
    BY <1>4, <2>1, SessionFrame DEF OpInv, ReadyInv, BuiltInv, LandedInv, Composed
<1>7. OpsInv'
  BY <1>4, <1>5, <1>6 DEF OpsInv
<1>8. BatchInv'
  <2>1. \A o \in sent : o.by # "batch"
    BY <1>1 DEF BatchInv, NoBatch
  <2>2. QED
    BY <1>3, <1>4, <2>1 DEF BatchInv, NoBatch
<1>9. HistoryInv' /\ ConfirmInv'
  BY <1>1 DEF HistoryInv, ConfirmInv
<1>10. QED
  BY <1>7, <1>8, <1>9, SessionFrame DEF ChainInv

LEMMA ClickAcceptChain ==
  ASSUME ArithmeticIsRight, Careful, ConstantsAssumption, OutputInv,
         NEW f \in Findings, ClickAccept(f)
  PROVE  ChainInv'
<1> USE DEF sessionVars, editorVars
<1> DEFINE v == candidate[f]
<1>1. /\ SessionKept /\ UNCHANGED <<history, at, batch>>
      /\ Doc = expected /\ batch = NoBatch /\ picker = NoPicker
  BY DEF ClickAccept, SessionKept, AcceptGuard, Careful
<1>2. Ready(f, v, decision)
  <2>1. v \in Versions /\ decision[f] # "accepted"
    BY DEF ClickAccept, Offered, Careful, OutputInv, TypeOK, SessionType, MaybeVersion
  <2>2. QED
    BY <2>1 DEF ClickAccept, AcceptGuard, Ready, AcceptedOf
<1>3. CASE NeedsConfirmation(f, v)
  <2>1. /\ sent = {} /\ sent' = {}
        /\ picker' = [kind |-> "confirm", finding |-> f, version |-> v]
    BY <1>3 DEF ClickAccept, Careful
  <2>2. OpsInv' /\ BatchInv'
    BY <1>1, <2>1 DEF OpsInv, BatchInv, NoBatch
  <2>3. picker'.finding = f /\ picker'.version = v
    BY <2>1
  <2>4. ConfirmInv'
    BY <1>1, <1>2, <1>3, <2>1, <2>3, SessionFrame DEF ConfirmInv, Doc, SessionKept
  <2>5. HistoryInv'
    BY <1>1 DEF OutputInv, ChainInv, HistoryInv
  <2>6. QED
    BY <1>1, <2>2, <2>4, <2>5, SessionFrame DEF ChainInv
<1>4. CASE ~NeedsConfirmation(f, v)
  <2>1. /\ sent' = sent \cup {Application(f, v, "click", decision)}
        /\ picker'.kind # "confirm"
    BY <1>1, <1>4 DEF ClickAccept, NoPicker
  <2>2. QED
    BY <1>1, <1>2, <1>4, <2>1, SendChain
<1>5. QED
  BY <1>3, <1>4

LEMMA ConfirmChain ==
  ASSUME ArithmeticIsRight, OutputInv, Confirm
  PROVE  ChainInv'
<1> USE DEF sessionVars, editorVars
<1>1. /\ SessionKept /\ UNCHANGED <<history, at, batch>>
      /\ picker'.kind # "confirm"
      /\ sent' = sent \cup {Application(picker.finding, picker.version, "confirmed", decision)}
  BY DEF Confirm, SessionKept, NoPicker
<1>2. /\ batch = NoBatch /\ Doc = expected
      /\ Ready(picker.finding, picker.version, decision)
      /\ NeedsConfirmation(picker.finding, picker.version)
  BY DEF Confirm, OutputInv, ChainInv, ConfirmInv
<1>3. QED
  BY <1>1, <1>2, SendChain

\* The dialogs that record nothing of what the invariant is about.
LEMMA DialogChain ==
  ASSUME OutputInv, SessionKept, UNCHANGED <<history, at, sent, batch>>, picker' = NoPicker
  PROVE  ChainInv'
<1>1. Doc' = Doc
  BY DEF Doc
<1>2. HistoryInv'
  BY DEF OutputInv, ChainInv, HistoryInv
<1>3. OpsInv'
  BY <1>1, SessionFrame
     DEF OutputInv, ChainInv, OpsInv, OpInv, ReadyInv, BuiltInv, LandedInv, Composed, SessionKept
<1>4. BatchInv'
  BY DEF OutputInv, ChainInv, BatchInv, LeftInv, SessionKept
<1>5. ConfirmInv'
  BY DEF ConfirmInv, NoPicker
<1>6. QED
  BY <1>2, <1>3, <1>4, <1>5, SessionFrame DEF ChainInv

LEMMA LandChain ==
  ASSUME ArithmeticIsRight, OutputInv, NEW op \in sent, Land(op)
  PROVE  ChainInv'
<1> USE DEF sessionVars
<1>1. TypeOK /\ AcceptedInv /\ OpsInv /\ BatchInv /\ HistoryInv /\ ConfirmInv
  BY DEF OutputInv, ChainInv
<1>2. SessionKept /\ UNCHANGED <<picker, batch>> /\ op.phase = "sent"
  BY DEF Land, SessionKept
<1>3. /\ Doc = expected /\ Ready(op.finding, op.version, decision)
      /\ op.by = "confirmed" <=> NeedsConfirmation(op.finding, op.version)
      /\ ApplyWorkspaceEdit(Doc, op.edits) = Composed(Accepted \cup {op.finding})
  BY <1>1, <1>2 DEF OpsInv, OpInv, ReadyInv, BuiltInv
<1>4. HistoryInv' /\ Doc' = Composed(Accepted \cup {op.finding})
  BY <1>1, <1>3, TextPushed DEF Land
<1>5. Composed(Accepted \cup {op.finding}) # Doc
  BY <1>1, <1>3, OneMore DEF AcceptedInv, Accepted
<1>6. PICK landed : /\ landed.finding = op.finding /\ landed.version = op.version
                    /\ landed.by = op.by /\ landed.phase = "landed"
                    /\ sent' = Refused(sent \ {op}) \cup {landed}
  BY DEF Land, InPhase
<1>7. ASSUME NEW o \in Refused(sent \ {op})
      PROVE  o.phase = "refused" /\ \E p \in sent \ {op} : o.by = p.by
  <2>1. PICK p \in sent \ {op} :
          o = InPhase(p, IF p.phase = "sent" THEN "refused" ELSE p.phase)
    BY DEF Refused
  <2>2. p.phase # "landed" /\ p.phase # "nothing to do"
    BY <1>1, <1>3, NoneLanded DEF OpsInv, OpInv
  <2>3. p.phase \in {"sent", "refused"}
    BY <1>1, <2>2 DEF TypeOK, SentType, OpType
  <2>4. o.phase = "refused" /\ o.by = p.by
    BY <2>1, <2>3 DEF InPhase
  <2>5. QED
    BY <2>4
<1>8. OpsInv'
  <2>1. OpInv(landed)'
    BY <1>2, <1>3, <1>4, <1>5, <1>6, <1>7, SessionFrame
       DEF OpInv, ReadyInv, BuiltInv, LandedInv, Composed, SessionKept
  <2>2. \A o \in Refused(sent \ {op}) : OpInv(o)'
    BY <1>7 DEF OpInv, ReadyInv, BuiltInv, LandedInv
  <2>3. QED
    BY <1>6, <2>1, <2>2 DEF OpsInv
<1>9. BatchInv'
  <2>1. CASE ~batch.waiting
    BY <1>1, <1>2, <1>6, <1>7, <2>1 DEF BatchInv
  <2>2. CASE batch.waiting
    <3>1. sent = {op} /\ op.by = "batch" /\ op.finding \in reviewed
          /\ \A c \in batch.left : LeftInv(c, op.finding)
      BY <1>1, <2>2 DEF BatchInv
    <3>2. Refused(sent \ {op}) = {}
      BY <3>1 DEF Refused
    <3>3. sent' = {landed}
      BY <1>6, <3>2
    <3>4. \A c \in batch'.left : LeftInv(c, landed.finding)'
      BY <1>2, <1>6, <3>1 DEF LeftInv, SessionKept
    <3>5. landed.finding \in reviewed' /\ landed.by = "batch" /\ landed.phase # "refused"
      BY <1>2, <1>6, <3>1 DEF SessionKept
    <3>6. QED
      BY <1>2, <2>2, <3>3, <3>4, <3>5 DEF BatchInv
  <2>3. QED
    BY <2>1, <2>2
<1>10. ConfirmInv'
  BY <1>1, <1>2 DEF ConfirmInv
<1>11. QED
  BY <1>2, <1>4, <1>8, <1>9, <1>10, SessionFrame DEF ChainInv

LEMMA AcceptAllChain ==
  ASSUME ArithmeticIsRight, Careful, ConstantsAssumption, OutputInv, AcceptAllReviewed
  PROVE  ChainInv'
<1> USE DEF sessionVars, editorVars
<1>1. /\ SessionKept /\ UNCHANGED <<history, at, picker>>
      /\ picker = NoPicker /\ sent = {}
      /\ RunBatch(Selection, decision', expected', {})
  BY DEF AcceptAllReviewed, SessionKept, Careful
<1>2. TypeOK /\ AcceptedInv' /\ HistoryInv
  BY <1>1, SessionFrame DEF OutputInv, ChainInv
<1>3. /\ Selection \in SUBSET [finding : Findings, version : Versions]
      /\ \A c \in Selection : /\ c.version = candidate[c.finding]
                              /\ c.finding \in reviewed
                              /\ decision'[c.finding] # "accepted"
  BY <1>1 DEF Selection, SessionKept
<1>4. OpsInv' /\ BatchInv'
  BY <1>1, <1>2, <1>3, BatchStep DEF SessionKept
<1>5. HistoryInv' /\ ConfirmInv'
  BY <1>1, <1>2 DEF HistoryInv, ConfirmInv, NoPicker
<1>6. QED
  BY <1>1, <1>4, <1>5, SessionFrame DEF ChainInv

LEMMA FinishChain ==
  ASSUME ArithmeticIsRight, ConstantsAssumption, OutputInv, NEW op \in sent, Finish(op)
  PROVE  ChainInv'
<1> USE DEF editorVars
<1> DEFINE f == op.finding
<1>1. TypeOK /\ AcceptedInv /\ OpsInv /\ BatchInv /\ HistoryInv /\ ConfirmInv
  BY DEF OutputInv, ChainInv
<1>2. /\ decision' = [decision EXCEPT ![f] = "accepted"]
      /\ override' = IF op.by = "confirmed" THEN override \cup {f} ELSE override
      /\ expected' = Doc
      /\ UNCHANGED <<candidate, reviewed, history, at, picker>>
  BY DEF Finish
<1>3. op.phase = "landed"
  BY <1>1 DEF Finish, OpsInv, OpInv
<1>4. /\ Ready(f, op.version, decision)
      /\ op.by = "confirmed" <=> NeedsConfirmation(f, op.version)
      /\ Doc = Composed(Accepted \cup {f})
      /\ \A o \in sent : o # op => o.phase = "refused"
  BY <1>1, <1>3 DEF OpsInv, OpInv, ReadyInv, LandedInv
<1>5. /\ f \in Findings /\ f \notin Accepted
      /\ candidate[f] = op.version /\ op.version # NoVersion
  BY <1>4 DEF Ready, Accepted
<1>6. /\ Accepted' = Accepted \cup {f}
      /\ AcceptedOf(decision)' = Accepted \cup {f}
  BY <1>1, <1>2, <1>5 DEF Accepted, AcceptedOf, TypeOK, SessionType
<1>7. AcceptedInv'
  <2>1. Acceptables(candidate, Accepted \cup {f})
    <3>1. Acceptables(candidate, Accepted)
      BY <1>1 DEF AcceptedInv
    <3>2. QED
      BY <1>4, <1>5, <3>1, ConflictsMutual DEF Ready, ConflictsWith, Acceptables, Accepted
  <2>2. expected' = Composed(Accepted)'
    BY <1>2, <1>4, <1>6 DEF Composed
  <2>3. \A g \in Findings : decision'[g] = "accepted" => candidate'[g] # NoVersion
    BY <1>1, <1>2, <1>5 DEF AcceptedInv, TypeOK, SessionType
  <2>4. Acceptables(candidate, Accepted)'
    BY <1>2, <1>6, <2>1 DEF Acceptables
  <2>5. QED
    BY <2>2, <2>3, <2>4 DEF AcceptedInv
<1>8. OpsInv' /\ BatchInv'
  <2>1. CASE op.by = "batch"
    <3>1. /\ sent = {op} /\ batch.waiting
          /\ \A c \in batch.left : LeftInv(c, f)
      BY <1>1, <2>1 DEF BatchInv
    <3>2. RunBatch(batch.left, decision', expected', {})
      BY <1>2, <2>1, <3>1 DEF Finish
    <3>3. batch.left \in SUBSET [finding : Findings, version : Versions]
      BY <1>1 DEF TypeOK, BatchType
    <3>4. ASSUME NEW c \in batch.left
          PROVE  /\ c.version = candidate[c.finding]
                 /\ c.finding \in reviewed
                 /\ decision'[c.finding] # "accepted"
      <4>1. /\ c.finding \in Findings /\ Id[c.finding] > Id[f] /\ decision[c.finding] # "accepted"
            /\ c.version = candidate[c.finding] /\ c.finding \in reviewed
        BY <3>1, <3>3 DEF LeftInv
      <4>2. c.finding # f
        BY <1>5, <4>1 DEF ConstantsAssumption
      <4>3. QED
        BY <1>1, <1>2, <4>1, <4>2 DEF TypeOK, SessionType
    <3>5. QED
      BY <1>1, <1>2, <1>7, <3>2, <3>3, <3>4, BatchStep
  <2>2. CASE op.by # "batch"
    <3>1. /\ sent' = sent \ {op} /\ batch' = batch
          /\ batch = NoBatch /\ ~batch.waiting /\ \A o \in sent : o.by # "batch"
      BY <1>1, <2>2 DEF Finish, BatchInv
    <3>2. \A o \in sent' : o.phase = "refused"
      BY <1>4, <3>1
    <3>3. OpsInv'
      BY <3>2 DEF OpsInv, OpInv, ReadyInv, BuiltInv, LandedInv
    <3>4. QED
      BY <3>1, <3>3 DEF BatchInv
  <2>3. QED
    BY <2>1, <2>2
<1>9. HistoryInv' /\ ConfirmInv'
  BY <1>1, <1>2 DEF HistoryInv, ConfirmInv
<1>10. QED
  BY <1>7, <1>8, <1>9 DEF ChainInv

LEMMA GiveUpChain ==
  ASSUME OutputInv, NEW op \in sent, GiveUp(op)
  PROVE  ChainInv'
<1> USE DEF sessionVars, editorVars
<1>1. OpsInv /\ BatchInv /\ HistoryInv /\ ConfirmInv
  BY DEF OutputInv, ChainInv
<1>2. op.phase = "refused"
  BY DEF GiveUp
<1>3. batch = NoBatch /\ ~batch.waiting /\ \A o \in sent : o.by # "batch"
  BY <1>1, <1>2 DEF BatchInv
<1>4. /\ sent' = sent \ {op} /\ SessionKept
      /\ UNCHANGED <<batch, picker, history, at>>
  BY <1>3 DEF GiveUp, SessionKept
<1>5. Doc' = Doc
  BY <1>4 DEF Doc
<1>6. OpsInv'
  BY <1>1, <1>4, <1>5, SessionFrame
     DEF OpsInv, OpInv, ReadyInv, BuiltInv, LandedInv, Composed, SessionKept
<1>7. BatchInv'
  BY <1>3, <1>4 DEF BatchInv
<1>8. HistoryInv' /\ ConfirmInv'
  BY <1>1, <1>4 DEF HistoryInv, ConfirmInv
<1>9. QED
  BY <1>4, <1>6, <1>7, <1>8, SessionFrame DEF ChainInv

LEMMA ClickRejectChain ==
  ASSUME Careful, ConstantsAssumption, OutputInv, NEW f \in Findings, ClickReject(f)
  PROVE  ChainInv'
<1> USE DEF editorVars, commandVars
<1>1. TypeOK /\ AcceptedInv /\ OpsInv /\ BatchInv /\ HistoryInv
  BY DEF OutputInv, ChainInv
<1>2. /\ decision' = [decision EXCEPT ![f] = "rejected"]
      /\ override' = override \ {f}
      /\ decision[f] = "pending"
      /\ UNCHANGED <<candidate, reviewed, expected, history, at, sent, batch>>
  BY DEF ClickReject, Offered, Careful
<1>3. Accepted' = Accepted /\ AcceptedOf(decision)' = AcceptedOf(decision) /\ Doc' = Doc
  BY <1>1, <1>2 DEF Accepted, AcceptedOf, TypeOK, SessionType, Doc
<1>4. AcceptedInv'
  <2>1. \A g \in Findings : decision'[g] = "accepted" => candidate'[g] # NoVersion
    BY <1>1, <1>2 DEF AcceptedInv, TypeOK, SessionType
  <2>2. QED
    BY <1>1, <1>2, <1>3, <2>1 DEF AcceptedInv, Composed
<1>5. \A g, v : Ready(g, v, decision) => Ready(g, v, decision)'
  BY <1>2, <1>3 DEF Ready, ConflictsWith
<1>6. OpsInv'
  BY <1>1, <1>2, <1>3, <1>5 DEF OpsInv, OpInv, ReadyInv, BuiltInv, LandedInv, Composed
<1>7. BatchInv'
  <2>1. \A c \in batch.left : \A g : LeftInv(c, g) => LeftInv(c, g)'
    BY <1>1, <1>2 DEF LeftInv, TypeOK, SessionType, BatchType
  <2>2. QED
    BY <1>1, <1>2, <2>1 DEF BatchInv
<1>8. HistoryInv'
  BY <1>1, <1>2 DEF HistoryInv
<1>9. ConfirmInv'
  BY DEF ClickReject, ConfirmInv
<1>10. QED
  BY <1>4, <1>6, <1>7, <1>8, <1>9 DEF ChainInv

LEMMA GrowsChain ==
  ASSUME ConstantsAssumption, OutputInv, Grows
  PROVE  ChainInv'
<1>1. TypeOK /\ AcceptedInv /\ OpsInv /\ BatchInv /\ HistoryInv /\ ConfirmInv
  BY DEF OutputInv, ChainInv
<1> USE DEF Grows
<1>2. /\ Accepted' = Accepted
      /\ AcceptedOf(decision)' = AcceptedOf(decision)
      /\ Accepted = AcceptedOf(decision)
      /\ Doc' = Doc
  BY <1>1 DEF Accepted, AcceptedOf, AcceptedInv, Doc
<1>3. \A g \in Accepted : candidate'[g] = candidate[g] /\ candidate[g] # NoVersion
  BY DEF Accepted, AcceptedOf
<1>4. Composed(Accepted)' = Composed(Accepted)
  BY <1>2, <1>3, PatchesAgree DEF Composed
<1>5. AcceptedInv'
  <2>1. Acceptables(candidate, Accepted)'
    BY <1>1, <1>2, <1>3 DEF AcceptedInv, Acceptables
  <2>2. QED
    BY <1>1, <1>4, <2>1 DEF AcceptedInv
<1>6. ASSUME NEW f, NEW v, Ready(f, v, decision)
      PROVE  /\ Ready(f, v, decision)'
             /\ Compose(Original, PatchesOf(candidate', Accepted \cup {f}))
                  = Composed(Accepted \cup {f})
  <2>1. candidate'[f] = candidate[f] /\ f \in Findings
    BY <1>6 DEF Ready, ConstantsAssumption
  <2>2. Ready(f, v, decision)'
    BY <1>2, <1>3, <1>6, <2>1 DEF Ready, ConflictsWith
  <2>3. \A g \in Accepted \cup {f} : candidate'[g] = candidate[g]
    BY <1>3, <2>1
  <2>4. QED
    BY <2>2, <2>3, PatchesAgree DEF Composed
<1>7. OpsInv'
  <2> SUFFICES ASSUME NEW op \in sent PROVE OpInv(op)'
    BY DEF OpsInv
  <2>1. OpInv(op)
    BY <1>1 DEF OpsInv
  <2>2. CASE op.phase = "refused"
    BY <2>2 DEF OpInv, ReadyInv, BuiltInv, LandedInv
  <2>3. CASE op.phase # "refused"
    <3>1. Ready(op.finding, op.version, decision)
      BY <2>1, <2>3 DEF OpInv, ReadyInv
    <3>2. /\ Ready(op.finding, op.version, decision)'
          /\ Compose(Original, PatchesOf(candidate', Accepted \cup {op.finding}))
               = Composed(Accepted \cup {op.finding})
      BY <1>6, <3>1
    <3>3. QED
      BY <1>2, <2>1, <3>2 DEF OpInv, ReadyInv, BuiltInv, LandedInv, Composed
  <2>4. QED
    BY <2>2, <2>3
<1>8. BatchInv'
  <2>1. ASSUME NEW c \in batch.left, NEW f, LeftInv(c, f) PROVE LeftInv(c, f)'
    <3>1. c.finding \in Findings /\ c.version \in Versions
      BY <1>1 DEF TypeOK, BatchType
    <3>2. QED
      BY <2>1, <3>1 DEF LeftInv, ConstantsAssumption
  <2>2. QED
    BY <1>1, <2>1 DEF BatchInv
<1>9. HistoryInv'
  BY <1>1 DEF HistoryInv
<1>10. ConfirmInv'
  BY <1>1, <1>2, <1>6 DEF ConfirmInv
<1>11. QED
  BY <1>5, <1>7, <1>8, <1>9, <1>10 DEF ChainInv

LEMMA NextChain ==
  ASSUME ArithmeticIsRight, Careful, ConstantsAssumption, OutputInv, [Next]_vars
  PROVE  ChainInv'
<1> USE DEF sessionVars, editorVars, commandVars
<1>1. CASE Type \/ Undo \/ Redo
  BY <1>1, TravelChain
<1>2. CASE DiskChange
  BY <1>2 DEF DiskChange, Careful
<1>3. ASSUME NEW op \in sent, Land(op) \/ GiveUp(op) \/ Finish(op) PROVE ChainInv'
  BY <1>3, LandChain, GiveUpChain, FinishChain
<1>4. CASE Confirm
  BY <1>4, ConfirmChain
<1>5. CASE DismissPicker \/ \E r \in Reasons : PickReason(r)
  <2>1. SessionKept /\ UNCHANGED <<history, at, sent, batch>> /\ picker' = NoPicker
    BY <1>5 DEF DismissPicker, PickReason, SessionKept
  <2>2. QED
    BY <2>1, DialogChain
<1>6. CASE AcceptAllReviewed
  BY <1>6, AcceptAllChain
<1>7. ASSUME NEW f \in Findings, User(f) PROVE ChainInv'
  <2>1. CASE ClickAccept(f)
    BY <2>1, ClickAcceptChain
  <2>2. CASE ClickReject(f)
    BY <2>2, ClickRejectChain
  <2>3. CASE ShowDiff(f)
    BY <2>3, GrowsChain DEF ShowDiff, Grows
  <2>4. CASE GenerateRepair(f) \/ RegenerateRepair(f) \/ PipelineCall(f)
    BY <2>4, GrowsChain DEF GenerateRepair, RegenerateRepair, PipelineCall, Call, Grows
  <2>5. QED
    BY <1>7, <2>1, <2>2, <2>3, <2>4 DEF User
<1>8. ASSUME NEW cmd \in Commands, NEW f \in Findings, Bridge(cmd, f) PROVE ChainInv'
  BY <1>8, BridgeGrows, GrowsChain DEF OutputInv
<1>9. CASE StartPipeline
  <2>1. reviewed \subseteq reviewed'
    BY <1>9 DEF StartPipeline, OpenFirstDiff
  <2>2. QED
    BY <1>9, <2>1, GrowsChain DEF StartPipeline, Grows
<1>10. CASE PipelineEnds
  BY <1>10, FirstDiffGrows, GrowsChain DEF PipelineEnds, Grows
<1>11. CASE StaleTimerFires \/ SessionReplaced \/ UNCHANGED vars
  BY <1>11, GrowsChain DEF StaleTimerFires, SessionReplaced, vars, Grows
<1>12. QED
  BY <1>1, <1>2, <1>3, <1>4, <1>5, <1>6, <1>7, <1>8, <1>9, <1>10, <1>11 DEF Next, Event

LEMMA NextOutputInv ==
  ASSUME ArithmeticIsRight, Careful
  PROVE  OutputInv /\ [Next]_vars => OutputInv'
<1> SUFFICES ASSUME OutputInv, [Next]_vars PROVE OutputInv'
  OBVIOUS
<1>1. TypeOK'
  BY NextTypeOK DEF OutputInv
<1>2. ChainInv'
  BY NextChain, ConstantsAssumption
<1>3. RepairInv'
  BY NextRepairInv, ConstantsAssumption DEF OutputInv, RepairsOnce, Careful
<1>4. QED
  BY <1>1, <1>2, <1>3 DEF OutputInv

LEMMA OutputInvAlways ==
  ASSUME ArithmeticIsRight, Careful
  PROVE  Spec => []OutputInv
  BY InitOutputInv, NextOutputInv, PTL DEF Spec

\* README:5 of the repository for any findings and badges, any plain repairs of which each
\* changes the text, and every interleaving: whenever the document is what the session expects, it
\* is Original C with the accepted candidates put in.
THEOREM OutputIsAlwaysComposition ==
  ASSUME RepairsArePlain, RepairsChangeText, Careful
  PROVE  Spec => []OutputIsComposition
<1>1. OutputInv => OutputIsComposition
  BY DEF OutputInv, ChainInv, AcceptedInv, OutputIsComposition, Composed, Accepted
<1>2. Spec => []OutputInv
  BY ArithmeticHolds, OutputInvAlways, ConstantsAssumption
<1>3. QED
  BY <1>1, <1>2, PTL

(***************************************************************************)
(* The refinement.  Land is the abstract Accept; what is recorded when the *)
(* command returns is in the document already.                             *)
(***************************************************************************)
\* The composition and the conflicts of the abstract document are those of the session.
LEMMA SameArithmetic ==
  /\ \A text, hunks : Output!Compose(text, hunks) = Compose(text, hunks)
  /\ \A h, g : Output!HunksConflict(h, g) <=> HunksConflict(h, g)
<1>1. \A text, hunks : Output!Compose(text, hunks) = Compose(text, hunks)
  BY ZenonT(30) DEF Output!Compose, Compose, Output!Rows, Rows, Output!Row, Row,
         Output!InsertedAt, InsertedAt, Output!ReplacedAt, ReplacedAt, Output!TextOfOne, TextOfOne,
         Output!NewLines, NewLines, Output!IsDeletion, IsDeletion, Output!Blank, Blank,
         Output!Covers, Covers, Output!FlattenSeq, FlattenSeq
<1>2. \A h, g : Output!HunksConflict(h, g) <=> HunksConflict(h, g)
  BY DEF Output!HunksConflict, HunksConflict, Output!HunkRange, HunkRange,
         Output!RangesIntersect, RangesIntersect
<1>3. QED
  BY <1>1, <1>2

Landed == {op.finding : op \in {o \in sent : o.phase = "landed"}}

\* The patches of the abstract document are those of the accepted candidates and of the
\* edit that has landed.
LEMMA PatchesOutOf ==
  ASSUME OutputInv
  PROVE  PatchesOut = PatchesOf(candidate, Accepted \cup Landed)
<1> DEFINE made == {<<f, candidate[f]>> : f \in AcceptedOf(decision)}
                     \cup {<<op.finding, op.version>> : op \in {o \in sent : o.phase = "landed"}}
           pairs == {<<f, candidate[f]>> : f \in Accepted \cup Landed}
<1>1. \A op \in {o \in sent : o.phase = "landed"} : op.version = candidate[op.finding]
  BY DEF OutputInv, ChainInv, OpsInv, OpInv, ReadyInv, Ready
<1>2. made = pairs
  BY <1>1 DEF Landed, Accepted
<1>3. PatchesOut = UNION {ToSet(Hunks(m[1], m[2])) : m \in made}
  BY DEF PatchesOut
<1>4. {ToSet(Hunks(m[1], m[2])) : m \in pairs}
        = {ToSet(Hunks(f, candidate[f])) : f \in Accepted \cup Landed}
  <2>1. \A f : <<f, candidate[f]>>[1] = f /\ <<f, candidate[f]>>[2] = candidate[f]
    OBVIOUS
  <2>2. ASSUME NEW m \in pairs
        PROVE  \E f \in Accepted \cup Landed : ToSet(Hunks(m[1], m[2])) = ToSet(Hunks(f, candidate[f]))
    BY <2>1
  <2>3. ASSUME NEW f \in Accepted \cup Landed
        PROVE  \E m \in pairs : ToSet(Hunks(f, candidate[f])) = ToSet(Hunks(m[1], m[2]))
    BY <2>1
  <2> HIDE DEF pairs
  <2>4. QED
    BY <2>2, <2>3
<1>5. QED
  BY <1>2, <1>3, <1>4 DEF PatchesOf

LEMMA PatchesOutOfNext ==
  OutputInv' => PatchesOut' = PatchesOf(candidate', Accepted' \cup Landed')
<1>1. OutputInv => PatchesOut = PatchesOf(candidate, Accepted \cup Landed)
  BY PatchesOutOf
<1>2. (OutputInv => PatchesOut = PatchesOf(candidate, Accepted \cup Landed))'
  BY <1>1, PTL
<1>3. QED
  BY <1>2

LEMMA NoLanding ==
  ASSUME OutputInv, Doc = expected
  PROVE  Landed = {}
  BY NoneLanded DEF Landed, OutputInv, ChainInv

LEMMA NoLandingNext == OutputInv' /\ Doc' = expected' => Landed' = {}
<1>1. OutputInv /\ Doc = expected => Landed = {}
  BY NoLanding
<1>2. (OutputInv /\ Doc = expected => Landed = {})'
  BY <1>1, PTL
<1>3. QED
  BY <1>2

\* Only Land adds to the patches.
LEMMA PatchesKept ==
  ASSUME ConstantsAssumption, OutputInv, OutputInv',
         Accepted' \cup Landed' = Accepted \cup Landed,
         \A f \in Findings : candidate[f] # NoVersion => candidate'[f] = candidate[f]
  PROVE  PatchesOut' = PatchesOut
<1>1. \A f \in Accepted \cup Landed : f \in Findings /\ candidate[f] # NoVersion
  <2>1. \A f \in Accepted : f \in Findings /\ candidate[f] # NoVersion
    BY DEF Accepted, AcceptedOf
  <2>2. \A f \in Landed : f \in Findings /\ candidate[f] # NoVersion
    <3>1. ASSUME NEW op \in sent, op.phase = "landed"
          PROVE  op.finding \in Findings /\ candidate[op.finding] # NoVersion
      <4>1. Ready(op.finding, op.version, decision)
        BY <3>1 DEF OutputInv, ChainInv, OpsInv, OpInv, ReadyInv
      <4>2. QED
        BY <4>1 DEF Ready, ConstantsAssumption
    <3>2. QED
      BY <3>1 DEF Landed
  <2>3. QED
    BY <2>1, <2>2
<1>2. PatchesOf(candidate', Accepted \cup Landed) = PatchesOf(candidate, Accepted \cup Landed)
  BY <1>1, PatchesAgree
<1>3. PatchesOut' = PatchesOf(candidate', Accepted' \cup Landed')
  BY PatchesOutOfNext
<1>4. QED
  BY <1>2, <1>3, PatchesOutOf

\* Every step of the session is a step of the abstract document, or leaves it alone.
LEMMA LandAccepts ==
  ASSUME OutputInv, OutputInv', NEW op \in sent, Land(op)
  PROVE  Output!Next
<1> DEFINE f == op.finding
           patch == ToSet(Hunks(f, op.version))
<1> USE DEF sessionVars
<1>1. /\ Doc = expected /\ Ready(f, op.version, decision)
      /\ ApplyWorkspaceEdit(Doc, op.edits) = Composed(Accepted \cup {f})
      /\ expected = Composed(Accepted)
  BY DEF Land, OutputInv, ChainInv, OpsInv, OpInv, ReadyInv, BuiltInv, AcceptedInv
<1>2. Accepted' = Accepted /\ candidate' = candidate /\ candidate[f] = op.version
  BY <1>1 DEF Land, Accepted, AcceptedOf, Ready
<1>3. Landed' = {f}
  <2>1. \A o \in Refused(sent \ {op}) : o.phase # "landed"
    <3>1. ASSUME NEW o \in Refused(sent \ {op}) PROVE o.phase # "landed"
      <4>1. PICK p \in sent \ {op} :
              o = InPhase(p, IF p.phase = "sent" THEN "refused" ELSE p.phase)
        BY DEF Refused
      <4>2. p.phase # "landed"
        BY <1>1, NoneLanded DEF OutputInv, ChainInv
      <4>3. QED
        BY <4>1, <4>2 DEF InPhase
    <3>2. QED
      BY <3>1
  <2>2. InPhase(op, "landed").phase = "landed" /\ InPhase(op, "landed").finding = f
    BY DEF InPhase
  <2>3. QED
    BY <2>1, <2>2 DEF Land, Landed
<1>4. PatchesOut = PatchesOf(candidate, Accepted)
  BY <1>1, PatchesOutOf, NoLanding
<1>5. PatchesOut' = PatchesOf(candidate, Accepted \cup {f})
  BY <1>2, <1>3, PatchesOutOfNext
<1>6. PatchesOut' = PatchesOut \cup patch
  BY <1>2, <1>4, <1>5 DEF PatchesOf
<1>7. \A h \in patch, g \in PatchesOut : ~HunksConflict(h, g)
  <2>1. \A a \in Accepted : ~CandidatesConflict(Hunks(f, op.version), Hunks(a, candidate[a]))
    BY <1>1 DEF Ready, ConflictsWith, Accepted
  <2>2. QED
    BY <1>4, <2>1 DEF PatchesOf, CandidatesConflict, ToSet
<1>8. /\ at' = at + 1
      /\ history' = Append(SubSeq(history, 1, at), Compose(Original, PatchesOut'))
  BY <1>1, <1>5 DEF Land, DocumentChanges, Composed
<1>9. Output!InStep
  BY <1>1, <1>4, SameArithmetic DEF Output!InStep, Output!Composition, Doc, Composed
<1>10. Output!Accept(patch)
  BY <1>6, <1>7, <1>8, <1>9, SameArithmetic DEF Output!Accept, Output!Becomes, Output!Composition
<1>11. f \in Findings /\ op.version \in Versions
  BY <1>1 DEF Ready
<1>12. QED
  BY <1>10, <1>11 DEF Output!Next

LEMMA OthersKeep ==
  ASSUME Careful, ConstantsAssumption, OutputInv, OutputInv', [Next]_vars,
         ~\E op \in sent : Land(op)
  PROVE  PatchesOut' = PatchesOut
<1> USE DEF sessionVars, editorVars, commandVars
<1>1. ASSUME UNCHANGED <<candidate, decision, sent>> PROVE PatchesOut' = PatchesOut
  BY <1>1 DEF PatchesOut, AcceptedOf
<1>2. ASSUME Grows PROVE PatchesOut' = PatchesOut
  <2>1. Accepted' = Accepted /\ Landed' = Landed
    BY <1>2 DEF Grows, Accepted, AcceptedOf, Landed, OutputInv, ChainInv, AcceptedInv
  <2>2. QED
    BY <1>2, <2>1, PatchesKept DEF Grows
<1>3. ASSUME UNCHANGED <<candidate, decision, expected, history, at>>, Doc = expected
      PROVE  PatchesOut' = PatchesOut
  <2>1. Landed = {} /\ Landed' = {} /\ Accepted' = Accepted
    BY <1>3, NoLanding, NoLandingNext DEF Doc, Accepted, AcceptedOf
  <2>2. QED
    BY <1>3, <2>1, PatchesKept
<1>4. CASE Type \/ Undo \/ Redo
  <2>1. sent = {} /\ Refused(sent) = {}
    BY <1>4 DEF Type, Undo, Redo, Travel, MayType, Careful, Refused
  <2>2. QED
    BY <1>1, <1>4, <2>1 DEF Type, Undo, Redo, Travel
<1>5. CASE DiskChange
  BY <1>5 DEF DiskChange, Careful
<1>6. ASSUME NEW op \in sent, GiveUp(op) PROVE PatchesOut' = PatchesOut
  <2>1. op.phase = "refused" /\ op.by # "batch"
    BY <1>6 DEF GiveUp, OutputInv, ChainInv, BatchInv
  <2>2. sent' = sent \ {op} /\ UNCHANGED <<candidate, decision>>
    BY <1>6, <2>1 DEF GiveUp
  <2>3. Landed' = Landed /\ Accepted' = Accepted
    BY <2>1, <2>2 DEF Landed, Accepted, AcceptedOf
  <2>4. QED
    BY <2>2, <2>3, PatchesKept
<1>7. ASSUME NEW op \in sent, Finish(op) PROVE PatchesOut' = PatchesOut
  <2>1. /\ decision' = [decision EXCEPT ![op.finding] = "accepted"]
        /\ candidate' = candidate /\ expected' = Doc /\ Doc' = Doc
    BY <1>7 DEF Finish, Doc
  <2>2. op.phase = "landed" /\ Ready(op.finding, op.version, decision)
        /\ \A o \in sent : o # op => o.phase = "refused"
    BY <1>7 DEF Finish, OutputInv, ChainInv, OpsInv, OpInv, ReadyInv, LandedInv
  <2>3. Landed = {op.finding}
    BY <2>2 DEF Landed
  <2>4. Landed' = {}
    BY <2>1, NoLandingNext
  <2>5. Accepted' = Accepted \cup {op.finding}
    BY <2>1, <2>2 DEF Accepted, AcceptedOf, Ready, ConstantsAssumption,
                      OutputInv, TypeOK, SessionType
  <2>6. QED
    BY <2>1, <2>3, <2>4, <2>5, PatchesKept
<1>8. CASE Confirm \/ AcceptAllReviewed
  <2>1. CASE Confirm
    BY <1>3, <2>1 DEF Confirm, OutputInv, ChainInv, ConfirmInv
  <2>2. CASE AcceptAllReviewed
    <3>1. sent = {} /\ UNCHANGED <<candidate, decision, expected, history, at>>
      BY <2>2 DEF AcceptAllReviewed, Careful
    <3>2. CASE Doc = expected
      BY <1>3, <3>1, <3>2
    <3>3. CASE Doc # expected
      <4>1. sent' = {}
        BY <2>2, <3>1, <3>3 DEF AcceptAllReviewed, RunBatch, AcceptGuard
      <4>2. QED
        BY <1>1, <3>1, <4>1
    <3>4. QED
      BY <3>2, <3>3
  <2>3. QED
    BY <1>8, <2>1, <2>2
<1>9. CASE DismissPicker \/ \E r \in Reasons : PickReason(r)
  BY <1>1, <1>9 DEF DismissPicker, PickReason
<1>10. ASSUME NEW f \in Findings, User(f) PROVE PatchesOut' = PatchesOut
  <2>1. CASE ClickAccept(f)
    BY <1>3, <2>1 DEF ClickAccept, AcceptGuard
  <2>2. CASE ClickReject(f)
    <3>1. decision' = [decision EXCEPT ![f] = "rejected"] /\ decision[f] = "pending"
          /\ UNCHANGED <<candidate, sent>>
      BY <2>2 DEF ClickReject, Offered, Careful
    <3>2. Accepted' = Accepted /\ Landed' = Landed
      BY <3>1 DEF Accepted, AcceptedOf, Landed, OutputInv, TypeOK, SessionType
    <3>3. QED
      BY <3>1, <3>2, PatchesKept
  <2>3. CASE ShowDiff(f) \/ GenerateRepair(f) \/ RegenerateRepair(f) \/ PipelineCall(f)
    BY <1>1, <2>3 DEF ShowDiff, GenerateRepair, RegenerateRepair, PipelineCall, Call
  <2>4. QED
    BY <1>10, <2>1, <2>2, <2>3 DEF User
<1>11. ASSUME NEW cmd \in Commands, NEW f \in Findings, Bridge(cmd, f)
       PROVE  PatchesOut' = PatchesOut
  BY <1>2, <1>11, BridgeGrows DEF OutputInv
<1>12. CASE StartPipeline \/ PipelineEnds \/ StaleTimerFires \/ SessionReplaced \/ UNCHANGED vars
  BY <1>1, <1>12 DEF StartPipeline, PipelineEnds, StaleTimerFires, SessionReplaced, vars
<1>13. QED
  BY <1>4, <1>5, <1>6, <1>7, <1>8, <1>9, <1>10, <1>11, <1>12 DEF Next, Event

LEMMA StepImplements ==
  ASSUME Careful, ConstantsAssumption, OutputInv, OutputInv', [Next]_vars
  PROVE  [Output!Next]_(Output!outputVars)
<1> USE DEF sessionVars, editorVars, commandVars
<1>1. CASE \E op \in sent : Land(op)
  BY <1>1, LandAccepts
<1>2. CASE ~\E op \in sent : Land(op)
  <2>1. PatchesOut' = PatchesOut
    BY <1>2, OthersKeep
  <2>2. CASE Type
    BY <2>1, <2>2 DEF Type, DocumentChanges, Doc, Output!Next, Output!Type, Output!Becomes
  <2>3. CASE Undo \/ Redo
    <3>1. at' \in {at - 1, at + 1} /\ history' = history
      BY <2>3 DEF Undo, Redo, Travel
    <3>2. at' \in 1..Len(history)
      BY <3>1 DEF OutputInv, ChainInv, HistoryInv
    <3>3. QED
      BY <2>1, <3>1, <3>2 DEF Output!Next, Output!Travel
  <2>4. CASE ~(Type \/ Undo \/ Redo)
    <3>1. UNCHANGED <<history, at>>
      <4>1. ~DiskChange
        BY DEF DiskChange, Careful
      <4>2. ASSUME NEW op \in sent, GiveUp(op) \/ Finish(op) PROVE UNCHANGED <<history, at>>
        BY <4>2 DEF GiveUp, Finish
      <4>3. ASSUME NEW f \in Findings, User(f) PROVE UNCHANGED <<history, at>>
        BY <4>3 DEF User, ClickAccept, ClickReject, ShowDiff, GenerateRepair,
                    RegenerateRepair, PipelineCall, Call
      <4>4. ASSUME NEW cmd \in Commands, NEW f \in Findings, Bridge(cmd, f)
            PROVE  UNCHANGED <<history, at>>
        BY <4>4 DEF Bridge, RepairReturns, RepairFails
      <4>5. CASE \/ Confirm \/ DismissPicker \/ AcceptAllReviewed \/ StartPipeline
                 \/ PipelineEnds \/ StaleTimerFires \/ SessionReplaced \/ UNCHANGED vars
                 \/ \E r \in Reasons : PickReason(r)
        BY <4>5 DEF Confirm, DismissPicker, AcceptAllReviewed, StartPipeline, PipelineEnds,
                    StaleTimerFires, SessionReplaced, vars, PickReason
      <4>6. QED
        BY <1>2, <2>4, <4>1, <4>2, <4>3, <4>4, <4>5 DEF Next, Event
    <3>2. QED
      BY <2>1, <3>1 DEF Output!outputVars
  <2>5. QED
    BY <2>2, <2>3, <2>4
<1>3. QED
  BY <1>1, <1>2

\* The session implements the abstract document, in the same generality: each accept is one
\* undo step from Original C with the patches so far to Original C with one more that
\* conflicts with none of them, and nothing else the session does changes text or patches.
THEOREM ImplementsOutput ==
  ASSUME RepairsArePlain, RepairsChangeText, Careful
  PROVE  Spec => ImplementsAcceptedOutput
<1>1. Init => Output!Init
  <2> SUFFICES ASSUME Init PROVE Output!Init
    OBVIOUS
  <2>1. AcceptedOf(decision) = {} /\ sent = {}
    BY DEF Init, AcceptedOf
  <2>2. PatchesOut = {}
    BY <2>1 DEF PatchesOut
  <2>3. QED
    BY <2>2 DEF Init, Output!Init
<1>2. OutputInv /\ OutputInv' /\ [Next]_vars => [Output!Next]_(Output!outputVars)
  BY StepImplements, ConstantsAssumption
<1>3. Spec => []OutputInv
  BY ArithmeticHolds, OutputInvAlways, ConstantsAssumption
<1>4. QED
  BY <1>1, <1>2, <1>3, PTL DEF Spec, Output!Spec, ImplementsAcceptedOutput
=============================================================================
