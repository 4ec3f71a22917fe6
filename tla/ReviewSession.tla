---------------------------- MODULE ReviewSession ----------------------------
(***************************************************************************)
(* One scan session of the extension: the ScanSession object, the scanned  *)
(* document, and the commands that work on both (extension.ts).  Commands  *)
(* are asynchronous and nothing serialises them: a step below is what runs *)
(* between two awaits, so the steps of several commands, the editor's      *)
(* answers, the user's typing and the debounced stale check interleave.    *)
(*                                                                         *)
(* A candidate's id is a hash of function, finding and revision            *)
(* (repair.py:2267), so a finding has one id however often it is repaired; *)
(* the maps ScanSession keys by candidate id are keyed by finding here,    *)
(* and what /repair returned is a version.  A content hash is modelled by  *)
(* the text it is the hash of.                                             *)
(***************************************************************************)
EXTENDS Patches, FiniteSets

CONSTANTS
  Findings,       \* the violations of the scan
  Line,           \* finding -> its start_line: the order of the review queue
  Id,             \* finding -> its candidate id: the order of Accept all reviewed
  Versions,       \* what /repair may answer for a finding
  NoVersion,      \* no candidate has been generated
  Hunks(_, _),    \* Hunks(f, v): the hunks of a candidate
  Fragments,      \* what the lines of the scanned text and the hunks are made of
  Badge(_, _),    \* Badge(f, v): its candidateBadge
  Reasons,        \* reject reasons
  NoReason,
  Original,       \* the scanned text (snapshot.content)
  UserLine,       \* a line the user types
  Habits,         \* what may happen besides accepting, see Habit
  MaxChanges,     \* bound: document texts in one behaviour
  MaxCalls,       \* bound: /repair calls in one behaviour
  MaxSent         \* bound: workspace edits under way

\* The parts of the environment a run may leave out:
\*   "type"       the user types, undoes and redoes while no command is waiting
\*   "haste"      while the editor has still to answer an edit he types, opens a
\*                warning to confirm, or accepts both singly and in a batch
\*   "disk"       the file changes on disk and the editor reloads it
\*   "title bar"  Accept and Reject in the title bar of a decided candidate's diff
\*   "regenerate" Regenerate, which the tree offers for every candidate
\*   "pipeline"   Scan & Fix generates in the background
\*   "overlap"    a second /repair for a finding while one is planned or under way
\*   "batch"      Accept all reviewed
\*   "rescan"     another scan, or Reset, replaces the session
AllHabits == {"type", "haste", "disk", "title bar", "regenerate",
              "pipeline", "overlap", "batch", "rescan"}

ASSUME ConstantsAssumption ==
  /\ NoVersion \notin Versions
  /\ NoReason \notin Reasons
  /\ Habits \subseteq AllHabits
  /\ IsFiniteSet(Findings)
  /\ Line \in [Findings -> Nat] /\ Id \in [Findings -> Nat]
  /\ \A f, g \in Findings : f # g => Line[f] # Line[g] /\ Id[f] # Id[g]
  /\ MaxChanges \in Nat /\ MaxCalls \in Nat /\ MaxSent \in Nat

VARIABLES
  \* ScanSession
  candidate,      \* _candidates: finding -> version
  decision,       \* _decisions: "pending" stands for absent
  override,       \* _acceptedWithWarning
  rejectReason,   \* _rejectReasons
  reviewed,       \* _reviewed
  expected,       \* _expectedHash
  stale,          \* _stale
  live,           \* the session is still the one extension.ts holds
  \* the editor
  history, at,    \* the texts on the undo stack, and the current one
  staleTimer,     \* the debounce of onDocumentChanged is running
  picker,         \* the QuickPick that is open
  \* commands under way
  sent,           \* applyCandidate calls that have not returned
  batch,          \* what is left of Accept all reviewed
  calls,          \* /repair calls under way: <<command, finding>> -> how many
  pipeline,       \* the auto-repair run of Scan & Fix and what it has left
  \* history variables
  shown,          \* finding -> the version last displayed as a diff
  called          \* /repair calls made so far

sessionVars == <<candidate, decision, override, rejectReason, reviewed, expected, stale, live>>
editorVars  == <<history, at, staleTimer>>
commandVars == <<sent, batch, calls, pipeline, called>>
vars == <<sessionVars, editorVars, picker, commandVars, shown>>

Doc == history[at]
Commands == {"generate", "regenerate", "pipeline"}
NoPicker == [kind |-> "none"]
NoBatch == [left |-> {}, waiting |-> FALSE]

Init ==
  /\ candidate = [f \in Findings |-> NoVersion]
  /\ decision = [f \in Findings |-> "pending"]
  /\ override = {}
  /\ rejectReason = [f \in Findings |-> NoReason]
  /\ reviewed = {}
  /\ expected = Original
  /\ stale = FALSE
  /\ live = TRUE
  /\ history = <<Original>>
  /\ at = 1
  /\ staleTimer = FALSE
  /\ picker = NoPicker
  /\ sent = {}
  /\ batch = NoBatch
  /\ calls = [c \in Commands \X Findings |-> 0]
  /\ pipeline = [phase |-> "planned", left |-> {}, opened |-> FALSE]
  /\ shown = [f \in Findings |-> NoVersion]
  /\ called = 0

(***************************************************************************)
(* The accept guard and the edit it lets through.  Both read the session   *)
(* as it is at that moment, so the decisions are a parameter.              *)
(***************************************************************************)
HasDiff(f, v) == Badge(f, v) # "no_fix"
Acceptable(f, v) == Badge(f, v) \in {"repair_ready", "insufficient_evidence", "review_required"}
NeedsConfirmation(f, v) == Badge(f, v) = "review_required"

AcceptedOf(dec) == {f \in Findings : dec[f] = "accepted" /\ candidate[f] # NoVersion}

\* Mutant: the accepted candidates are read before the last accept is recorded.
ConflictsWithRecorded(f, v, dec) ==
  \E g \in AcceptedOf(decision) \ {f} : CandidatesConflict(Hunks(f, v), Hunks(g, candidate[g]))

ConflictsWith(f, v, dec) ==
  \E g \in AcceptedOf(dec) \ {f} : CandidatesConflict(Hunks(f, v), Hunks(g, candidate[g]))

\* Mutant: the guard without its stale check.
GuardNotStale(f, v, dec, hash) == Acceptable(f, v) /\ ~ConflictsWith(f, v, dec)

\* evaluateAcceptGuard: hash is the expected one.
AcceptGuard(f, v, dec, hash) == /\ Doc = hash
                                /\ Acceptable(f, v)
                                /\ ~ConflictsWith(f, v, dec)

\* The hunks of the candidates of S, in the order of their ids.
HunksById(cand, S) ==
  LET ids == SortedBy(SetToSeq(S), {p \in S \X S : Id[p[1]] < Id[p[2]]})
  IN FlattenSeq([i \in DOMAIN ids |-> Hunks(ids[i], cand[ids[i]])])

\* The edits that accept version v of f on a text, when those of S have been accepted.
AcceptEdits(f, v, text, cand, S) ==
  CandidateToEditRanges(DedupeIncludes(Hunks(f, v), text), HunksById(cand, S))

\* applyCandidate up to its await.  The edits are computed here, once, for the text
\* the document has now; the editor refuses them when the text changes first.
Application(f, v, by, dec) ==
  [finding |-> f, version |-> v, by |-> by,
   phase |-> IF DedupeIncludes(Hunks(f, v), Doc) = << >> THEN "nothing to do" ELSE "sent",
   edits |-> AcceptEdits(f, v, Doc, candidate, AcceptedOf(dec))]

\* An await of a promise that is already resolved comes back before any event.
Microtask == \E op \in sent : op.phase = "nothing to do"

(***************************************************************************)
(* The document.  Every change is an undo step, arms the stale check of a  *)
(* live session, and invalidates the edits that have not landed.           *)
(***************************************************************************)
InPhase(op, phase) == [finding |-> op.finding, version |-> op.version, by |-> op.by,
                       edits |-> op.edits, phase |-> phase]

Refused(ops) == {InPhase(op, IF op.phase = "sent" THEN "refused" ELSE op.phase) : op \in ops}

DocumentChanges(text) ==
  /\ history' = Append(SubSeq(history, 1, at), text)
  /\ at' = at + 1
  /\ staleTimer' = (staleTimer \/ live)

\* The bound on texts; an edit that has been sent is never held back by it.
RoomFor == Len(history) + Cardinality(sent) < MaxChanges

MayType == /\ picker = NoPicker
           /\ "type" \in Habits
           /\ sent = {} \/ "haste" \in Habits

Type == /\ MayType /\ RoomFor
        /\ DocumentChanges(<<UserLine>> \o Doc)
        /\ sent' = Refused(sent)
        /\ UNCHANGED <<sessionVars, picker, batch, calls, pipeline, called, shown>>

\* Mutant: undo and redo are not watched.
TravelUnwatched(to) ==
  /\ MayType
  /\ at' = to
  /\ sent' = Refused(sent)
  /\ UNCHANGED <<sessionVars, history, staleTimer, picker, batch, calls, pipeline, called, shown>>

\* Undo and redo move along the stack; one accept is one step of it.
Travel(to) ==
  /\ MayType
  /\ at' = to
  /\ staleTimer' = (staleTimer \/ live)
  /\ sent' = Refused(sent)
  /\ UNCHANGED <<sessionVars, history, picker, batch, calls, pipeline, called, shown>>

Undo == at > 1 /\ Travel(at - 1)
Redo == at < Len(history) /\ Travel(at + 1)

\* Takes no focus, so it leaves an open picker alone.
DiskChange ==
  /\ "disk" \in Habits /\ RoomFor
  /\ DocumentChanges(<<UserLine>> \o Doc)
  /\ sent' = Refused(sent)
  /\ UNCHANGED <<sessionVars, picker, batch, calls, pipeline, called, shown>>

\* Mutant: the document is compared with the pristine snapshot.
StaleTimerFiresPristine ==
  /\ staleTimer
  /\ staleTimer' = FALSE
  /\ stale' = (Doc # Original)
  /\ UNCHANGED <<candidate, decision, override, rejectReason, reviewed, expected, live,
                 history, at, picker, commandVars, shown>>

\* onDocumentChanged: the timer's callback.
StaleTimerFires ==
  /\ staleTimer
  /\ staleTimer' = FALSE
  /\ stale' = (Doc # expected)
  /\ UNCHANGED <<candidate, decision, override, rejectReason, reviewed, expected, live,
                 history, at, picker, commandVars, shown>>

(***************************************************************************)
(* Accept.  The guard is evaluated and the edit computed without an await  *)
(* between them, unless a judgment gate failed and the user is asked.      *)
(***************************************************************************)
\* The tree offers Accept and Reject for pending candidates; the title bar of an
\* open diff offers them always.
Offered(f) == /\ candidate[f] # NoVersion
              /\ \/ decision[f] = "pending"
                 \/ "title bar" \in Habits /\ f \in reviewed

ClickAccept(f) ==
  LET v == candidate[f]
  IN /\ live /\ picker = NoPicker
     /\ Offered(f)
     /\ AcceptGuard(f, v, decision, expected)
     /\ batch = NoBatch \/ "haste" \in Habits
     /\ Cardinality(sent) < MaxSent /\ RoomFor
     /\ IF NeedsConfirmation(f, v)
        THEN /\ sent = {} \/ "haste" \in Habits
             /\ picker' = [kind |-> "confirm", finding |-> f, version |-> v]
             /\ UNCHANGED sent
        ELSE /\ sent' = sent \cup {Application(f, v, "click", decision)}
             /\ UNCHANGED picker
     /\ UNCHANGED <<sessionVars, editorVars, batch, calls, pipeline, called, shown>>

\* After the confirmation nothing of the guard is evaluated again, and it does not
\* matter whether the session is still live.
Confirm ==
  /\ picker.kind = "confirm"
  /\ sent' = sent \cup {Application(picker.finding, picker.version, "confirmed", decision)}
  /\ picker' = NoPicker
  /\ UNCHANGED <<sessionVars, editorVars, batch, calls, pipeline, called, shown>>

\* Escape, or a click elsewhere: every command that asked gives up.
DismissPicker ==
  /\ picker # NoPicker
  /\ picker' = NoPicker
  /\ UNCHANGED <<sessionVars, editorVars, commandVars, shown>>

\* The editor applies an edit built for the text it has, and says so.
Land(op) ==
  /\ op.phase = "sent"
  /\ DocumentChanges(ApplyWorkspaceEdit(Doc, op.edits))
  /\ sent' = Refused(sent \ {op}) \cup {InPhase(op, "landed")}
  /\ UNCHANGED <<sessionVars, picker, batch, calls, pipeline, called, shown>>

(***************************************************************************)
(* Accept all reviewed: a loop over a selection made once, with an await   *)
(* at every candidate it applies.                                          *)
(***************************************************************************)
Selection ==
  {c \in [finding : Findings, version : Versions] :
     LET f == c.finding
     IN /\ c.version = candidate[f] /\ Acceptable(f, c.version)
        /\ decision[f] = "pending"
        /\ f \in reviewed}

\* Mutant: a warning does not keep the batch from a candidate.
RunBatchOverWarnings(left, dec, hash, ops) ==
  LET ready == {c \in left : AcceptGuard(c.finding, c.version, dec, hash)}
  IN \/ ready = {} /\ batch' = NoBatch /\ sent' = ops
     \/ \E c \in ready :
          /\ \A d \in ready : Id[c.finding] <= Id[d.finding]
          /\ batch' = [left |-> {d \in left : Id[d.finding] > Id[c.finding]}, waiting |-> TRUE]
          /\ sent' = ops \cup {Application(c.finding, c.version, "batch", dec)}

\* The loop from one await to the next, in the order of the ids: a stale document
\* ends it, a conflict or a warning skips the candidate.  ops are the applications
\* of other commands.
RunBatch(left, dec, hash, ops) ==
  LET ready == {c \in left : /\ AcceptGuard(c.finding, c.version, dec, hash)
                             /\ ~NeedsConfirmation(c.finding, c.version)}
  IN \/ ready = {} /\ batch' = NoBatch /\ sent' = ops
     \/ \E c \in ready :
          /\ \A d \in ready : Id[c.finding] <= Id[d.finding]
          /\ batch' = [left |-> {d \in left : Id[d.finding] > Id[c.finding]}, waiting |-> TRUE]
          /\ sent' = ops \cup {Application(c.finding, c.version, "batch", dec)}

AcceptAllReviewed ==
  /\ "batch" \in Habits
  /\ live /\ picker = NoPicker /\ batch = NoBatch
  /\ sent = {} \/ "haste" \in Habits
  /\ Cardinality(sent) < MaxSent /\ RoomFor
  /\ Selection # {}
  /\ RunBatch(Selection, decision, expected, sent)
  /\ UNCHANGED <<sessionVars, editorVars, picker, calls, pipeline, called, shown>>

(***************************************************************************)
(* The rest of an accept, when applyCandidate returns.                     *)
(***************************************************************************)
Finish(op) ==
  LET f == op.finding
      dec == [decision EXCEPT ![f] = "accepted"]
      overWarning == op.by = "confirmed"
  IN /\ op.phase \in {"landed", "nothing to do"}
     /\ decision' = dec
     /\ override' = IF overWarning THEN override \cup {f} ELSE override
     /\ rejectReason' = IF overWarning THEN rejectReason
                        ELSE [rejectReason EXCEPT ![f] = NoReason]
     /\ expected' = Doc
     /\ stale' = FALSE
     /\ IF op.by = "batch" THEN RunBatch(batch.left, dec, Doc, sent \ {op})
        ELSE sent' = sent \ {op} /\ UNCHANGED batch
     /\ UNCHANGED <<candidate, reviewed, live, editorVars, picker, calls, pipeline, called, shown>>

\* Mutant: what applyEdit answers is ignored.
GiveUpRecords(op) ==
  /\ op.phase = "refused"
  /\ decision' = [decision EXCEPT ![op.finding] = "accepted"]
  /\ IF op.by = "batch" THEN RunBatch(batch.left, decision', expected, sent \ {op})
     ELSE sent' = sent \ {op} /\ UNCHANGED batch
  /\ UNCHANGED <<candidate, override, rejectReason, reviewed, expected, stale, live,
                 editorVars, picker, calls, pipeline, called, shown>>

\* Mutant: a refused edit leaves the loop hanging.
GiveUpHangs(op) ==
  /\ op.phase = "refused"
  /\ sent' = sent \ {op}
  /\ UNCHANGED <<sessionVars, editorVars, picker, batch, calls, pipeline, called, shown>>

\* The document had changed: nothing was applied, nothing is recorded.
GiveUp(op) ==
  /\ op.phase = "refused"
  /\ IF op.by = "batch" THEN RunBatch(batch.left, decision, expected, sent \ {op})
     ELSE sent' = sent \ {op} /\ UNCHANGED batch
  /\ UNCHANGED <<sessionVars, editorVars, picker, calls, pipeline, called, shown>>

(***************************************************************************)
(* Reject: the decision first, then the optional reason.                   *)
(***************************************************************************)
ClickReject(f) ==
  /\ live /\ picker = NoPicker
  /\ Offered(f)
  /\ decision' = [decision EXCEPT ![f] = "rejected"]
  /\ override' = override \ {f}
  /\ picker' = [kind |-> "reason", finding |-> f]
  /\ UNCHANGED <<candidate, rejectReason, reviewed, expected, stale, live,
                 editorVars, commandVars, shown>>

\* Mutant: the decision is not looked at again after the dialog.
PickReasonUnchecked(r) ==
  /\ picker.kind = "reason"
  /\ picker' = NoPicker
  /\ rejectReason' = [rejectReason EXCEPT ![picker.finding] = r]
  /\ UNCHANGED <<candidate, decision, override, reviewed, expected, stale, live,
                 editorVars, commandVars, shown>>

PickReason(r) ==
  /\ picker.kind = "reason"
  /\ picker' = NoPicker
  /\ rejectReason' = IF live /\ decision[picker.finding] = "rejected"
                     THEN [rejectReason EXCEPT ![picker.finding] = r] ELSE rejectReason
  /\ UNCHANGED <<candidate, decision, override, reviewed, expected, stale, live,
                 editorVars, commandVars, shown>>

ShowDiff(f) ==
  /\ live /\ picker = NoPicker
  /\ candidate[f] # NoVersion /\ HasDiff(f, candidate[f])
  /\ reviewed' = reviewed \cup {f}
  /\ shown' = [shown EXCEPT ![f] = candidate[f]]
  /\ UNCHANGED <<candidate, decision, override, rejectReason, expected, stale, live,
                 editorVars, picker, commandVars>>

(***************************************************************************)
(* Generate, regenerate and the background pipeline.                       *)
(***************************************************************************)
\* Nothing in the code keeps two commands from repairing the same finding.
Alone(f) == "overlap" \in Habits \/ \A cmd \in Commands : calls[<<cmd, f>>] = 0

Call(cmd, f) ==
  /\ called < MaxCalls
  /\ called' = called + 1
  /\ calls' = [calls EXCEPT ![<<cmd, f>>] = @ + 1]
  /\ UNCHANGED <<sessionVars, editorVars, picker, sent, batch, shown>>

GenerateRepair(f) ==
  /\ live /\ picker = NoPicker
  /\ ~stale
  /\ candidate[f] = NoVersion
  /\ Alone(f) /\ ("overlap" \in Habits \/ f \notin pipeline.left)
  /\ Call("generate", f)
  /\ UNCHANGED pipeline

RegenerateRepair(f) ==
  /\ "regenerate" \in Habits
  /\ live /\ picker = NoPicker
  /\ ~stale
  /\ candidate[f] # NoVersion
  /\ Alone(f)
  /\ Call("regenerate", f)
  /\ UNCHANGED pipeline

\* maybeOpenFirstDiff: the first pending diff opens by itself, unless a diff is in
\* front already.
OpenFirstDiff(cand, left, phase) ==
  LET queue == {f \in Findings : /\ cand[f] # NoVersion /\ HasDiff(f, cand[f])
                                 /\ decision[f] = "pending"}
      goesOn(opened) == pipeline' = [phase |-> phase, left |-> left, opened |-> opened]
  IN \/ queue = {} /\ goesOn(FALSE) /\ UNCHANGED <<reviewed, shown>>
     \/ goesOn(TRUE) /\ UNCHANGED <<reviewed, shown>>
     \/ \E f \in queue :
          /\ \A g \in queue : Line[f] <= Line[g]
          /\ goesOn(TRUE)
          /\ reviewed' = reviewed \cup {f}
          /\ shown' = [shown EXCEPT ![f] = cand[f]]

\* The pipeline looks for one after every call and at its end, until one is open.
FirstDiff(cand, left, phase) ==
  IF live /\ ~stale /\ ~pipeline.opened
  THEN OpenFirstDiff(cand, left, phase)
  ELSE /\ pipeline' = [phase |-> phase, left |-> left, opened |-> pipeline.opened]
       /\ UNCHANGED <<reviewed, shown>>

\* Scan & Fix: every finding without a candidate, or only the first ones in the
\* file (the cost limit).  With none of them left it still opens a diff.
StartPipeline ==
  /\ "pipeline" \in Habits
  /\ live /\ pipeline.phase = "planned"
  /\ \E last \in Findings :
       LET left == {f \in Findings : /\ Line[f] <= Line[last]
                                     /\ candidate[f] = NoVersion
                                     /\ Alone(f)}
       IN IF left = {} THEN OpenFirstDiff(candidate, {}, "done")
          ELSE /\ pipeline' = [phase |-> "running", left |-> left, opened |-> FALSE]
               /\ UNCHANGED <<reviewed, shown>>
  /\ UNCHANGED <<candidate, decision, override, rejectReason, expected, stale, live,
                 editorVars, picker, sent, batch, calls, called>>

PipelineIdle == pipeline.phase = "running" /\ \A f \in Findings : calls[<<"pipeline", f>>] = 0

\* Whether the finding has a candidate by now is not looked at again.
PipelineCall(f) ==
  /\ PipelineIdle
  /\ f \in pipeline.left /\ \A g \in pipeline.left : Line[f] <= Line[g]
  /\ live /\ ~stale
  /\ Call("pipeline", f)
  /\ pipeline' = [phase |-> "running", left |-> pipeline.left \ {f},
                  opened |-> pipeline.opened]

PipelineEnds ==
  /\ PipelineIdle
  /\ pipeline.left = {} \/ ~live \/ stale
  /\ FirstDiff(candidate, {}, "done")
  /\ UNCHANGED <<candidate, decision, override, rejectReason, expected, stale, live,
                 editorVars, picker, sent, batch, calls, called>>

\* Mutant: nobody looks whether the session is still the live one.
RepairReturnsAnyway(cmd, f, v) ==
  /\ calls[<<cmd, f>>] > 0
  /\ calls' = [calls EXCEPT ![<<cmd, f>>] = @ - 1]
  /\ candidate' = [candidate EXCEPT ![f] = v]
  /\ UNCHANGED <<decision, override, rejectReason, reviewed, expected, stale, live,
                 editorVars, picker, sent, batch, pipeline, called, shown>>

\* Mutant: a call that has returned may return once more.
RepairReturnsAgain(cmd, f, v) ==
  /\ called > 0
  /\ calls' = [calls EXCEPT ![<<cmd, f>>] = @ - 1]
  /\ candidate' = [candidate EXCEPT ![f] = v]
  /\ UNCHANGED <<decision, override, rejectReason, reviewed, expected, stale, live,
                 editorVars, picker, sent, batch, pipeline, called, shown>>

\* An answer for a session that has been replaced is dropped.
RepairReturns(cmd, f, v) ==
  LET cand == [candidate EXCEPT ![f] = v]
  IN /\ calls[<<cmd, f>>] > 0
     /\ calls' = [calls EXCEPT ![<<cmd, f>>] = @ - 1]
     /\ candidate' = IF live THEN cand ELSE candidate
     /\ IF live /\ cmd = "regenerate"
        THEN /\ decision' = [decision EXCEPT ![f] = "pending"]
             /\ override' = override \ {f}
             /\ rejectReason' = [rejectReason EXCEPT ![f] = NoReason]
        ELSE UNCHANGED <<decision, override, rejectReason>>
     /\ IF cmd = "pipeline" THEN FirstDiff(cand, pipeline.left, "running")
        ELSE UNCHANGED <<reviewed, shown, pipeline>>
     /\ UNCHANGED <<expected, stale, live, editorVars, picker, sent, batch, called>>

\* An error; or the user's cancel, which also ends the pipeline.
RepairFails(cmd, f) ==
  /\ calls[<<cmd, f>>] > 0
  /\ calls' = [calls EXCEPT ![<<cmd, f>>] = @ - 1]
  /\ IF cmd = "pipeline"
     THEN \E left \in {pipeline.left, {}} : FirstDiff(candidate, left, "running")
     ELSE UNCHANGED <<reviewed, shown, pipeline>>
  /\ UNCHANGED <<candidate, decision, override, rejectReason, expected, stale, live,
                 editorVars, picker, sent, batch, called>>

\* Another scan returns, or Reset Extension State; the timer is no longer this
\* session's.
SessionReplaced ==
  /\ "rescan" \in Habits
  /\ live
  /\ live' = FALSE
  /\ staleTimer' = FALSE
  /\ UNCHANGED <<candidate, decision, override, rejectReason, reviewed, expected, stale,
                 history, at, picker, commandVars, shown>>

-----------------------------------------------------------------------------
User(f) == \/ ClickAccept(f) \/ ClickReject(f) \/ ShowDiff(f)
           \/ GenerateRepair(f) \/ RegenerateRepair(f) \/ PipelineCall(f)

Bridge(cmd, f) == RepairFails(cmd, f) \/ \E v \in Versions : RepairReturns(cmd, f, v)

Event ==
  \/ \E f \in Findings : User(f)
  \/ \E cmd \in Commands, f \in Findings : Bridge(cmd, f)
  \/ \E r \in Reasons : PickReason(r)
  \/ Confirm \/ DismissPicker \/ AcceptAllReviewed
  \/ StartPipeline \/ PipelineEnds
  \/ Type \/ Undo \/ Redo \/ DiskChange \/ StaleTimerFires \/ SessionReplaced
  \/ \E op \in sent : Land(op) \/ GiveUp(op)

Next == \/ \E op \in sent : Finish(op)
        \/ ~Microtask /\ Event

Spec == Init /\ [][Next]_vars

\* The editor answers every edit, the continuation then runs, and the user pauses
\* long enough for the debounce.
Fairness == /\ WF_vars(\E op \in sent : Finish(op))
            /\ WF_vars(~Microtask /\ \E op \in sent : Land(op) \/ GiveUp(op))
            /\ WF_vars(~Microtask /\ StaleTimerFires)

FairSpec == Spec /\ Fairness
-----------------------------------------------------------------------------
MaybeVersion == Versions \cup {NoVersion}

SessionType == /\ candidate \in [Findings -> MaybeVersion]
               /\ decision \in [Findings -> {"pending", "accepted", "rejected"}]
               /\ override \subseteq Findings
               /\ rejectReason \in [Findings -> Reasons \cup {NoReason}]
               /\ reviewed \subseteq Findings
               /\ shown \in [Findings -> MaybeVersion]

FlagType == stale \in BOOLEAN /\ live \in BOOLEAN /\ staleTimer \in BOOLEAN

PickerType == \/ picker = NoPicker
              \/ picker.kind \in {"confirm", "reason"} /\ picker.finding \in Findings

OpType(op) == /\ op.finding \in Findings
              /\ op.by \in {"click", "confirmed", "batch"}
              /\ op.phase \in {"sent", "refused", "landed", "nothing to do"}

SentType == \A op \in sent : OpType(op)

BatchType == /\ batch.left \subseteq [finding : Findings, version : Versions]
             /\ batch.waiting \in BOOLEAN

CallsType == calls \in [Commands \X Findings -> Nat]

PipelineType == /\ pipeline.phase \in {"planned", "running", "done"}
                /\ pipeline.left \subseteq Findings
                /\ pipeline.opened \in BOOLEAN

TypeOK == /\ SessionType /\ FlagType /\ PickerType /\ SentType
          /\ BatchType /\ CallsType /\ PipelineType

\* An accept between the editor's answer and its continuation.
Landing == \E op \in sent : op.phase = "landed"

\* D-006: once the debounce has run, the session says stale exactly when the
\* document is not the text it expects, whatever accepts, undos and late answers
\* came before (onDocumentChanged, refreshStale and the refresh after an accept).
StaleFlagExact == live /\ ~staleTimer => stale = (Doc # expected)

\* The hunks of the candidates of S.
PatchesOf(cand, S) == UNION {ToSet(Hunks(f, cand[f])) : f \in S}

\* The candidates of S are repairs a user may accept together.
Acceptables(cand, S) ==
  /\ \A f \in S : cand[f] \in Versions /\ Acceptable(f, cand[f])
  /\ \A f, g \in S : f # g => ~CandidatesConflict(Hunks(f, cand[f]), Hunks(g, cand[g]))

\* A repair as the adapter makes it (_diff_to_hunks and the #include hunk next to it):
\* its hunks lie in the text, above the end of its last line, keep apart, and leave no
\* empty text.
IsPlain(hs) ==
  /\ hs \in Seq(HunkShape(Fragments)) /\ hs # << >>
  /\ \A i \in DOMAIN hs : ~IsDeletion(hs[i]) /\ hs[i].start + hs[i].count <= Len(Original)
  /\ \A i, j \in DOMAIN hs : i # j => ~HunksConflict(hs[i], hs[j])

\* line is neither in the scanned text nor brought by another finding's repair.
BroughtBy(f, line) ==
  /\ ~Contains(Original, line)
  /\ \A g \in Findings \ {f}, v \in Versions : Acceptable(g, v) =>
       \A i \in DOMAIN Hunks(g, v) : ~Contains(Hunks(g, v)[i].repl, line)

\* Every #include that a repair inserts is its own.
IncludesAlone(f, hs) ==
  \A i \in DOMAIN hs : hs[i].count = 0 =>
    \A k \in DOMAIN hs[i].repl : IsInclude(hs[i].repl[k]) => BroughtBy(f, hs[i].repl[k])

\* The repairs for which the arithmetic is right: AcceptChain shows what happens to others.
RepairsArePlain ==
  /\ Original \in Seq(Seq(Fragments))
  /\ \A f \in Findings, v \in Versions : Acceptable(f, v) =>
       IsPlain(Hunks(f, v)) /\ IncludesAlone(f, Hunks(f, v))

\* Original C with the candidates of S put in.
OriginalWith(cand, S) == Compose(Original, PatchesOf(cand, S))

\* Every repair changes the text, whatever was accepted before: none undoes others.
RepairsChangeText ==
  \A cand \in [Findings -> MaybeVersion], S \in SUBSET Findings, f \in Findings :
    f \notin S /\ Acceptables(cand, S \cup {f})
      => OriginalWith(cand, S \cup {f}) # OriginalWith(cand, S)

\* README:5, "the output is always Original C + accepted patches": whenever the
\* document is what the session expects, it is Original C with the hunks of the
\* accepted candidates, as they are now, put in.
OutputIsComposition ==
  Doc = expected /\ ~Landing
    => Doc = Compose(Original, PatchesOf(candidate, AcceptedOf(decision)))

\* D-023: the override flag, which the tree and the exported report show, marks
\* exactly the accepted candidates a judgment gate warned about: no other path
\* accepts one, and none keeps the flag after a reject or a regenerate.
OverrideMarksWarnings ==
  \A f \in Findings :
    f \in override <=> f \in AcceptedOf(decision) /\ NeedsConfirmation(f, candidate[f])

\* An edit lands only on the text the session expects, so the offsets of its hunks
\* are right (the chain of expected hashes, VSCODE_V1B_DESIGN §5).  An edit that was confirmed
\* over a warning is excepted: the guard is not repeated after the dialog, and the text may
\* have changed on disk meanwhile.
DirectLandsOnExpected ==
  \A op \in sent :
    op.by # "confirmed" /\ op.phase = "sent" /\ InPhase(op, "landed") \in sent' => Doc = expected
DirectAppliesToExpected == [][DirectLandsOnExpected]_vars

\* D-006: what a scan has replaced is discarded; answers that arrive for it later
\* change none of its candidates, and show no diff of them.
TakesNoAnswer == ~live => UNCHANGED <<candidate, reviewed>>
ReplacedTakesNoAnswer == [][TakesNoAnswer]_vars

\* A reason is recorded for nothing but a candidate that is still rejected in a
\* session that is still live when the reason dialog closes (rejectCandidate looks
\* again after its await; a regenerate or a rescan may have come between).
ReasonOfRejected ==
  \A f \in Findings : rejectReason'[f] \notin {rejectReason[f], NoReason}
                         => live /\ decision[f] = "rejected"
ReasonsAreOfRejected == [][ReasonOfRejected]_vars

\* Whatever has been asked for and however late it comes back: an edit nobody had to confirm
\* lands only on the text the session expects (D-022), an answer changes nothing in a session
\* that has been replaced (D-006), and a reason is recorded for nothing but a candidate still
\* rejected.
LateStepsAreHeld == [][DirectLandsOnExpected /\ TakesNoAnswer /\ ReasonOfRejected]_vars

\* An edit of the scanned file is flagged or undone, or its scan is replaced.
EditIsFlagged == (live /\ Doc # expected) ~> (stale \/ Doc = expected \/ ~live)

\* Accept all reviewed comes to its end, whatever it applies, skips or is refused.
BatchEnds == [](batch.waiting => <>(~batch.waiting))

\* The hunks in the document by the session's doing: those of the accepted candidates
\* and of an edit that has landed and is not recorded yet.
PatchesOut ==
  LET made == {<<f, candidate[f]>> : f \in AcceptedOf(decision)}
                \cup {<<op.finding, op.version>> : op \in {o \in sent : o.phase = "landed"}}
  IN UNION {ToSet(Hunks(m[1], m[2])) : m \in made}

Output == INSTANCE AcceptedOutput
            WITH texts <- history, at <- at, patches <- PatchesOut,
                 Answers <- {ToSet(Hunks(f, v)) : f \in Findings, v \in Versions}

\* README:5 as a refinement: seen from outside, the session is a document that only the
\* user changes, but for accepts; each of these is one undo step, starts from Original C
\* with the patches accepted before and leads to Original C with one more, and is never
\* taken back.  What is accepted and what the document holds move in one step.
ImplementsAcceptedOutput == Output!Spec

-----------------------------------------------------------------------------
\* What the docs say, and TLC finds the code does not keep; no run checks it.

\* Accept all reviewed takes candidates whose own diff has been displayed (D-014,
\* STATE_MODEL.md:66-67), not what a repair by the same id has become since.
BatchAppliesShown ==
  \A op \in sent : op.by = "batch" /\ op.phase = "sent" => shown[op.finding] = op.version
=============================================================================
