----------------------------- MODULE ReviewQueue -----------------------------
(***************************************************************************)
(* What the reviewer looks at while a session is decided: the diff editors *)
(* and the queue that the title bar steps through, the results tree, the   *)
(* lenses over a proposal, the diagnostics (extension.ts, "diff review     *)
(* queue"; session/reviewQueue.ts; ui/).  Every command keeps some of them *)
(* up to date by hand, and the long ones return to a screen the reviewer   *)
(* has changed meanwhile.                                                  *)
(*                                                                         *)
(* The texts, the guards on them, override flags, reasons and the reviewed *)
(* mark are ReviewSession's: here a candidate is the proposal its diff     *)
(* shows, an accept may be refused for any reason, and the document is     *)
(* "edited" when it is not the one the session expects.  The queue is the  *)
(* violations 1 .. N by line.  A candidate's id is that of its finding,    *)
(* also in the session after a rescan (repair.py, candidate_id).           *)
(***************************************************************************)
EXTENDS Naturals

CONSTANTS
  N,
  Proposals,      \* what a repair may propose
  NoFix,          \* a candidate without hunks
  Old,            \* the text of a diff rendered in an earlier session
  None,
  Slots,          \* bound: commands under way at the same time
  MaxCommands,    \* bound: commands in one behaviour
  MaxMoves,       \* bound: what the reviewer does to the editors, and edits of the document
  MaxScans        \* bound: sessions in one behaviour

Finding == 1 .. N
Candidates == Proposals \cup {NoFix}

ASSUME QueueAssumption ==
  /\ {N, MaxCommands, MaxMoves} \subseteq Nat /\ MaxScans \in Nat \ {0}
  /\ {Old, None, NoFix} \cap Proposals = {} /\ None \notin Finding \cup {Old, NoFix}

VARIABLES
  scan,           \* the session, counted
  cand, decision, \* finding -> its candidate, the decision about it
  edited, stale,  \* the document is not the expected one; the flag
  timer,          \* a stale check is due
  tree,           \* what the results tree has rendered
  notice,         \* the diagnostics are the one notice that the results are stale
  hidden,         \* otherwise: the findings without a diagnostic
  open, active,   \* the findings whose diff is open; the one in the active editor
  preview,        \* the one the next diff opened takes the place of
  doc, lens,      \* open diff -> the proposal in its right pane, that of its lenses
  flow,           \* slot -> the command in it
  pipe,           \* the auto-repair pipeline
  commands, moves

session == <<scan, cand, decision>>
document == <<edited, stale, timer>>
diagnostics == <<notice, hidden>>
windows == <<open, active, preview, doc>>
editors == <<windows, lens>>
limits == <<commands, moves>>
vars == <<session, document, tree, diagnostics, editors, flow, pipe, limits>>

\* at: the session a command was given in; then: what follows the closing of a diff.
Idle == [pc |-> "idle", f |-> None, at |-> 0, title |-> FALSE, decided |-> FALSE,
         then |-> "end", next |-> None, left |-> {}]
NoPipe == [pc |-> "idle", at |-> 0, left |-> {}, opened |-> FALSE]

Accepted == {f \in Finding : decision[f] = "accepted"}
HasDiff(f) == cand[f] \in Proposals
Rendered == [cand |-> cand, decision |-> decision, stale |-> stale]
Batching == \E s \in Slots : flow[s].pc = "batch"

ReviewTypeOK ==
  /\ scan \in 1 .. MaxScans
  /\ cand \in [Finding -> Candidates \cup {None}]
  /\ decision \in [Finding -> {"pending", "accepted", "rejected"}]
  /\ \A f \in Finding : cand[f] = None => decision[f] = "pending"
  /\ {edited, stale, timer, notice} \subseteq BOOLEAN
  /\ hidden \subseteq Finding
  /\ open \subseteq Finding /\ {active, preview} \subseteq open \cup {None}
  /\ doc \in [Finding -> Candidates \cup {Old, None}]
  /\ lens \in [Finding -> Candidates \cup {None}]
  /\ flow \in [Slots -> [pc : {"idle", "applying", "reason", "generating", "regenerating",
                               "repaired", "closing", "opening", "batch"},
                         f : Finding \cup {None}, at : 0 .. MaxScans, title : BOOLEAN,
                         decided : BOOLEAN, then : {"end", "open", "complete"},
                         next : Finding \cup {None}, left : SUBSET Finding]]
  /\ pipe \in [pc : {"idle", "planning", "looping", "asking", "ending"}, at : 0 .. MaxScans,
               left : SUBSET Finding, opened : BOOLEAN]
-----------------------------------------------------------------------------
(* session/reviewQueue.ts                                                  *)

Smallest(S) == {f \in S : \A g \in S : f <= g}

\* diffableQueue, nextPendingDiffable: the first one that is pending after the current one,
\* from the start when that is not in the queue; none or one.
NextPending(c, d, current) ==
  LET from == IF current = None THEN 0 ELSE IF c[current] \in Proposals THEN current ELSE 0
  IN Smallest({g \in Finding : g > from /\ c[g] \in Proposals /\ d[g] = "pending"})

FirstPending(c, d) == NextPending(c, d, None)
-----------------------------------------------------------------------------
(* The views                                                               *)

\* What the rows of a finding and of its candidate offer, as they were last rendered.
FindingItem(f) == IF tree.cand[f] = None THEN {"generate"} ELSE {"regenerate"}
CandidateItem(f) ==
  LET diffable == tree.cand[f] \in Proposals
      pending == tree.decision[f] = "pending"
  IN {c \in {"show", "accept", "reject", "regenerate"} :
        /\ tree.cand[f] # None
        /\ c \in {"show", "accept"} => diffable
        /\ c \in {"accept", "reject"} => pending}
Offers(command, f) == command \in FindingItem(f) \cup CandidateItem(f)

TreeRefreshed == tree' = [cand |-> cand', decision |-> decision', stale |-> stale']

\* ValidationLensProvider: the lenses of the diffs in S are asked for again, at the latest
\* when a diff is opened.
Relensed(S) == lens' = [f \in Finding |-> IF f \notin open' THEN None
                                          ELSE IF f \in S THEN cand'[f] ELSE lens[f]]
LensesRefreshed == Relensed(open')

\* CRepairContentProvider.invalidate: an open diff is rendered again.
Invalidated(f) == doc' = [doc EXCEPT ![f] = IF f \in open THEN cand'[f] ELSE None]

\* refreshDiagnosticsExcludingAccepted, with the status bar set to ready: of the session
\* there is now, whichever it is.
DiagnosticsRefreshed ==
  /\ notice' = FALSE
  /\ hidden' = {f \in Finding : decision'[f] = "accepted"}

\* showCandidateDiff: an open diff is shown as it is; a new one is rendered, in the preview
\* editor if there is one.
Show(f) ==
  /\ active' = f
  /\ IF f \in open THEN UNCHANGED <<open, preview, doc>>
     ELSE /\ open' = (open \ {preview}) \cup {f} /\ preview' = f
          /\ doc' = [g \in Finding |-> IF g = f THEN cand'[f] ELSE IF g = preview THEN None ELSE doc[g]]

\* An editor is closed; if it was the active one the editor makes another one active.
Closed(f) ==
  /\ open' = open \ {f}
  /\ preview' = IF preview = f THEN None ELSE preview
  /\ IF active = f THEN active' \in open' \cup {None} ELSE UNCHANGED active
  /\ doc' = [doc EXCEPT ![f] = None]

\* openCandidateDiff
OpenCandidateDiff(f) == /\ IF cand'[f] = None THEN UNCHANGED windows ELSE Show(f)
                        /\ Relensed(open' \ open)

\* closeActiveDiffEditor: whatever diff is active by now.
CloseActiveDiff == /\ IF active = None THEN UNCHANGED windows ELSE Closed(active)
                   /\ Relensed({})
-----------------------------------------------------------------------------
(* The commands, from the tree (f is the node's finding) or from the title *)
(* bar (f is the active diff's).                                           *)

Moves(s, to) == flow' = [flow EXCEPT ![s] = to]
Ends(s) == Moves(s, Idle)

Given(s) ==
  /\ flow[s].pc = "idle" /\ commands < MaxCommands
  /\ commands' = commands + 1 /\ UNCHANGED moves
By(f, title) == title => f = active
Command(pc, f, title) == [Idle EXCEPT !.pc = pc, !.f = f, !.at = scan, !.title = title]
IsLive(s) == flow[s].at = scan

\* advanceQueueAfter, up to its first await.
Advance(s, f, decided) ==
  LET next == NextPending(cand', decision', f)
      closing == [Idle EXCEPT !.pc = "closing", !.f = f, !.at = scan]
  IN CASE next # {} -> \E g \in next : Moves(s, [closing EXCEPT !.then = "open", !.next = g])
       [] next = {} /\ ~decided /\ decision'[f] = "pending" -> Ends(s)
       [] OTHER -> Moves(s, [closing EXCEPT !.then = "complete"])

Closes(s) ==
  /\ flow[s].pc = "closing"
  /\ CloseActiveDiff
  /\ IF flow[s].then = "open" THEN Moves(s, [flow[s] EXCEPT !.pc = "opening"]) ELSE Ends(s)
  /\ UNCHANGED <<session, document, tree, diagnostics, pipe, limits>>

OpensNext(s) ==
  /\ flow[s].pc = "opening"
  /\ UNCHANGED <<session, document, tree, diagnostics, pipe, limits>>
  /\ OpenCandidateDiff(flow[s].next)
  /\ Ends(s)

ShowDiff(f) ==
  /\ commands < MaxCommands /\ commands' = commands + 1
  /\ Offers("show", f) /\ HasDiff(f)
  /\ UNCHANGED <<session, document, tree, diagnostics, flow, pipe, moves>>
  /\ OpenCandidateDiff(f)

NextDiff(s) ==
  /\ active # None /\ Given(s)
  /\ UNCHANGED <<session, document, tree, diagnostics, editors, pipe>>
  /\ Advance(s, active, FALSE)

\* acceptCandidate, once its guard has let it pass: the confirmation and the edit follow.
Accept(s, f, title) ==
  /\ By(f, title) /\ HasDiff(f) /\ ~edited /\ Given(s)
  /\ title \/ Offers("accept", f)
  /\ Moves(s, [Command("applying", f, title) EXCEPT !.decided = decision[f] = "accepted"])
  /\ UNCHANGED <<session, document, tree, diagnostics, editors, pipe>>

\* acceptCurrentDiff goes on if the decision has become "accepted" since it began.
AcceptReturns(s) ==
  IF flow[s].title /\ IsLive(s) /\ ~flow[s].decided /\ decision'[flow[s].f] = "accepted"
  THEN Advance(s, flow[s].f, TRUE) ELSE Ends(s)

\* Mutant: the decision is recorded in whatever session there is.
RecordedAnyway(s, f) ==
  /\ decision' = [decision EXCEPT ![f] = "accepted"]
  /\ edited' = ~IsLive(s) /\ timer' = TRUE
  /\ stale' = (stale /\ ~IsLive(s))
  /\ UNCHANGED <<scan, cand>>

\* The edit has landed.  It is the session of the command that records it: in a session that
\* has come meanwhile the document is just edited.
Recorded(s, f) ==
  /\ decision' = IF IsLive(s) THEN [decision EXCEPT ![f] = "accepted"] ELSE decision
  /\ edited' = ~IsLive(s) /\ timer' = TRUE
  /\ stale' = (stale /\ ~IsLive(s))
  /\ UNCHANGED <<scan, cand>>

AcceptLands(s) ==
  /\ flow[s].pc = "applying"
  /\ Recorded(s, flow[s].f)
  /\ DiagnosticsRefreshed /\ TreeRefreshed /\ Invalidated(flow[s].f)
  /\ AcceptReturns(s)
  /\ UNCHANGED <<open, active, preview, lens, pipe, limits>>

\* The confirmation is dismissed or the edit refused.
AcceptFails(s) ==
  /\ flow[s].pc = "applying"
  /\ UNCHANGED <<session, document, tree, diagnostics, editors, pipe, limits>>
  /\ AcceptReturns(s)

\* Mutant: the tree is left to the refresh that may follow.
RejectUnrendered(s, f, title) ==
  /\ By(f, title) /\ cand[f] # None /\ Given(s)
  /\ title \/ Offers("reject", f)
  /\ decision' = [decision EXCEPT ![f] = "rejected"]
  /\ UNCHANGED <<scan, cand, document, tree, diagnostics, editors, pipe>>
  /\ Moves(s, IF title THEN Command("reason", f, title) ELSE Idle)

\* rejectCandidate; the reason it asks for is ReviewSession's.
Reject(s, f, title) ==
  /\ By(f, title) /\ cand[f] # None /\ Given(s)
  /\ title \/ Offers("reject", f)
  /\ decision' = [decision EXCEPT ![f] = "rejected"]
  /\ UNCHANGED <<scan, cand, document, diagnostics, editors, pipe>>
  /\ TreeRefreshed
  /\ Moves(s, IF title THEN Command("reason", f, title) ELSE Idle)

\* rejectCurrentDiff goes on in whatever session there is.
ReasonAsked(s) ==
  /\ flow[s].pc = "reason"
  /\ UNCHANGED <<session, document, tree, diagnostics, editors, pipe, limits>>
  /\ Advance(s, flow[s].f, TRUE)

\* generateRepair, from the tree or as a quick fix of a diagnostic.
Generate(s, f) ==
  /\ cand[f] = None /\ ~stale /\ Given(s)
  /\ Offers("generate", f) \/ (~notice /\ f \notin hidden)
  /\ Moves(s, Command("generating", f, FALSE))
  /\ UNCHANGED <<session, document, tree, diagnostics, editors, pipe>>

\* regenerateRepair; refused while the results are stale, and the title bar then shows the
\* diff again.
Regenerate(s, f, title) ==
  /\ By(f, title) /\ cand[f] # None /\ Given(s)
  /\ title \/ Offers("regenerate", f)
  /\ IF stale THEN title /\ Moves(s, Command("repaired", f, title))
              ELSE Moves(s, Command("regenerating", f, title))
  /\ UNCHANGED <<session, document, tree, diagnostics, editors, pipe>>

Generated(s) ==
  /\ flow[s].pc = "generating" /\ IsLive(s)
  /\ \E c \in Candidates : cand' = [cand EXCEPT ![flow[s].f] = c]
  /\ UNCHANGED <<scan, decision, document, diagnostics, open, active, preview, doc, pipe, limits>>
  /\ LensesRefreshed /\ TreeRefreshed
  /\ Ends(s)

\* Mutant: the diff goes on showing the proposal before.
RegeneratedUnseen(s) ==
  /\ flow[s].pc = "regenerating" /\ IsLive(s)
  /\ \E c \in Candidates : cand' = [cand EXCEPT ![flow[s].f] = c]
  /\ decision' = [decision EXCEPT ![flow[s].f] = "pending"]
  /\ UNCHANGED <<scan, document, diagnostics, open, active, preview, doc, pipe, limits>>
  /\ LensesRefreshed /\ TreeRefreshed
  /\ Moves(s, IF flow[s].title THEN [flow[s] EXCEPT !.pc = "repaired"] ELSE Idle)

Regenerated(s) ==
  /\ flow[s].pc = "regenerating" /\ IsLive(s)
  /\ \E c \in Candidates : cand' = [cand EXCEPT ![flow[s].f] = c]
  /\ decision' = [decision EXCEPT ![flow[s].f] = "pending"]
  /\ UNCHANGED <<scan, document, diagnostics, open, active, preview, pipe, limits>>
  /\ Invalidated(flow[s].f) /\ LensesRefreshed /\ TreeRefreshed
  /\ Moves(s, IF flow[s].title THEN [flow[s] EXCEPT !.pc = "repaired"] ELSE Idle)

\* The request fails, is cancelled, or answers for a session that is gone.
NotRepaired(s) ==
  /\ flow[s].pc \in {"generating", "regenerating"}
  /\ Moves(s, IF flow[s].title THEN [flow[s] EXCEPT !.pc = "repaired"] ELSE Idle)
  /\ UNCHANGED <<session, document, tree, diagnostics, editors, pipe, limits>>

\* regenerateCurrentDiff, when regenerateRepair has returned.
Repaired(s) ==
  /\ flow[s].pc = "repaired"
  /\ UNCHANGED <<session, document, tree, diagnostics, pipe, limits>>
  /\ CASE ~IsLive(s) -> Ends(s) /\ UNCHANGED editors
       [] IsLive(s) /\ ~HasDiff(flow[s].f) ->
            Moves(s, [flow[s] EXCEPT !.pc = "closing"]) /\ UNCHANGED editors
       [] OTHER -> Ends(s) /\ OpenCandidateDiff(flow[s].f)
-----------------------------------------------------------------------------
(* acceptAllReviewed                                                       *)

\* The reviewed ones are some of the pending.
AcceptAll(s) ==
  /\ Given(s)
  /\ \E chosen \in SUBSET {f \in Finding : HasDiff(f) /\ decision[f] = "pending"} :
       /\ chosen # {}
       /\ Moves(s, [Idle EXCEPT !.pc = "batch", !.at = scan, !.left = chosen])
  /\ UNCHANGED <<session, document, tree, diagnostics, editors, pipe>>

\* One candidate is applied and recorded, or skipped.
BatchAccepts(s) ==
  /\ flow[s].pc = "batch" /\ flow[s].left # {}
  /\ \E f \in Smallest(flow[s].left) :
       /\ Moves(s, [flow[s] EXCEPT !.left = @ \ {f}])
       /\ \/ UNCHANGED <<session, document, doc>>
          \/ Recorded(s, f) /\ (IsLive(s) => ~edited) /\ Invalidated(f)
  /\ UNCHANGED <<tree, diagnostics, open, active, preview, lens, pipe, limits>>

\* All are done, or the guard finds the document changed.
BatchEnds(s) ==
  /\ flow[s].pc = "batch" /\ (flow[s].left = {} \/ edited)
  /\ Ends(s)
  /\ UNCHANGED <<session, document, editors, pipe, limits>>
  /\ DiagnosticsRefreshed /\ TreeRefreshed
-----------------------------------------------------------------------------
(* runAutoRepairPipeline                                                   *)

\* maybeOpenFirstDiff, with whether the queue is now on display.
MaybeOpenFirst(then) ==
  LET first == FirstPending(cand', decision')
  IN IF active # None \/ first = {}
     THEN UNCHANGED windows /\ pipe' = [then EXCEPT !.opened = active # None]
     ELSE (\E f \in first : Show(f)) /\ pipe' = [then EXCEPT !.opened = TRUE]

PipeIsLive == pipe.at = scan
PipeOpens(then) == IF pipe.opened \/ stale THEN pipe' = then /\ UNCHANGED windows
                                           ELSE MaybeOpenFirst(then)

\* All that have no candidate, those among the first few, or none.
PipelineStarts ==
  /\ pipe.pc = "planning"
  /\ UNCHANGED <<session, document, tree, diagnostics, flow, limits>>
  /\ \E k \in 0 .. N :
       LET missing == {f \in 1 .. k : cand[f] = None}
       IN CASE ~PipeIsLive \/ k = 0 -> pipe' = NoPipe /\ UNCHANGED windows
            [] PipeIsLive /\ k > 0 /\ missing = {} -> MaybeOpenFirst(NoPipe)
            [] OTHER -> /\ pipe' = [pipe EXCEPT !.pc = "looping", !.left = missing]
                        /\ UNCHANGED windows
  /\ Relensed(open' \ open)

\* It stops at a rescan, at stale results, when it is cancelled and when it is through.
PipelineGoesOn ==
  /\ pipe.pc = "looping"
  /\ \/ /\ pipe.left # {} /\ PipeIsLive /\ ~stale
        /\ pipe' = [pipe EXCEPT !.pc = "asking"]
     \/ pipe' = [pipe EXCEPT !.pc = "ending"]
  /\ UNCHANGED <<session, document, tree, diagnostics, editors, flow, limits>>

\* A repair is stored; its failure is put up with.  Then the first diff is opened.
OneDone == [pipe EXCEPT !.pc = "looping", !.left = @ \ Smallest(@)]

PipelineRepairs ==
  /\ pipe.pc = "asking" /\ PipeIsLive
  /\ \E f \in Smallest(pipe.left), c \in Candidates : cand' = [cand EXCEPT ![f] = c]
  /\ UNCHANGED <<scan, decision, document, diagnostics, flow, limits>>
  /\ TreeRefreshed
  /\ PipeOpens(OneDone) /\ LensesRefreshed

PipelineFails ==
  /\ pipe.pc = "asking" /\ PipeIsLive
  /\ UNCHANGED <<session, document, tree, diagnostics, flow, limits>>
  /\ PipeOpens(OneDone) /\ Relensed(open' \ open)

\* It is cancelled, or its session is gone.
PipelineBreaks ==
  /\ pipe.pc = "asking"
  /\ pipe' = [pipe EXCEPT !.pc = "ending"]
  /\ UNCHANGED <<session, document, tree, diagnostics, editors, flow, limits>>

PipelineEnds ==
  /\ pipe.pc = "ending"
  /\ UNCHANGED <<session, document, tree, diagnostics, flow, limits>>
  /\ IF PipeIsLive THEN PipeOpens(NoPipe) ELSE pipe' = NoPipe /\ UNCHANGED windows
  /\ Relensed(open' \ open)
-----------------------------------------------------------------------------
(* A rescan; the reviewer types, turns to another editor, closes one.      *)

\* runScanWithConfirmed: a new session with the same findings, of which a pipeline may
\* follow.  What was typed while it ran is ScanFlow's.
Rescanned ==
  /\ scan < MaxScans /\ scan' = scan + 1
  /\ cand' = [f \in Finding |-> None] /\ decision' = [f \in Finding |-> "pending"]
  /\ edited' = FALSE /\ stale' = FALSE /\ UNCHANGED timer
  /\ notice' = FALSE /\ hidden' = {}
  /\ UNCHANGED <<open, active, preview, flow, limits>>
  /\ doc' = [f \in Finding |-> IF f \in open THEN Old ELSE None]
  /\ LensesRefreshed /\ TreeRefreshed
  /\ IF pipe.pc = "idle" THEN pipe' \in {NoPipe, [NoPipe EXCEPT !.pc = "planning", !.at = scan']}
                         ELSE UNCHANGED pipe

Moved == moves < MaxMoves /\ moves' = moves + 1 /\ UNCHANGED commands

Type ==
  /\ Moved
  /\ edited' \in BOOLEAN /\ timer' = TRUE
  /\ UNCHANGED <<session, stale, tree, diagnostics, editors, flow, pipe>>

\* onDocumentChanged, when the timer fires.
StaleCheck ==
  /\ timer /\ timer' = FALSE
  /\ stale' = edited
  /\ UNCHANGED <<session, edited, editors, flow, pipe, limits>>
  /\ IF stale = edited THEN UNCHANGED <<tree, diagnostics>>
     ELSE /\ IF edited THEN notice' = TRUE /\ UNCHANGED hidden ELSE DiagnosticsRefreshed
          /\ TreeRefreshed

Focus ==
  /\ Moved
  /\ active' \in (open \cup {None}) \ {active}
  /\ UNCHANGED <<session, document, tree, diagnostics, open, preview, doc, lens, flow, pipe>>

CloseEditor ==
  /\ Moved
  /\ UNCHANGED <<session, document, tree, diagnostics, flow, pipe>>
  /\ \E f \in open : Closed(f) /\ Relensed({})

\* A preview editor becomes one that stays.
Pin ==
  /\ preview # None /\ Moved /\ preview' = None
  /\ UNCHANGED <<session, document, tree, diagnostics, open, active, doc, lens, flow, pipe>>
-----------------------------------------------------------------------------
\* A session is installed; some repairs may have been generated from the tree.
Init ==
  /\ scan = 1
  /\ cand \in [Finding -> Candidates \cup {None}] /\ decision = [f \in Finding |-> "pending"]
  /\ edited = FALSE /\ stale = FALSE /\ timer = FALSE
  /\ tree = Rendered
  /\ notice = FALSE /\ hidden = {}
  /\ open = {} /\ active = None /\ preview = None
  /\ doc = [f \in Finding |-> None] /\ lens = [f \in Finding |-> None]
  /\ flow = [s \in Slots |-> Idle]
  /\ pipe \in {NoPipe, [NoPipe EXCEPT !.pc = "planning", !.at = 1]}
  /\ commands = 0 /\ moves = 0

Next ==
  \/ PipelineStarts \/ PipelineGoesOn \/ PipelineRepairs \/ PipelineFails \/ PipelineBreaks
  \/ PipelineEnds \/ Rescanned \/ Type \/ StaleCheck \/ Focus \/ CloseEditor \/ Pin
  \/ \E f \in Finding : ShowDiff(f)
  \/ \E s \in Slots :
       \/ Closes(s) \/ OpensNext(s) \/ NextDiff(s) \/ AcceptLands(s) \/ AcceptFails(s)
       \/ ReasonAsked(s) \/ Generated(s) \/ Regenerated(s) \/ NotRepaired(s) \/ Repaired(s)
       \/ AcceptAll(s) \/ BatchAccepts(s) \/ BatchEnds(s)
       \/ \E f \in Finding : \/ Generate(s, f)
                             \/ \E title \in BOOLEAN : \/ Accept(s, f, title)
                                                       \/ Reject(s, f, title)
                                                       \/ Regenerate(s, f, title)

Spec == Init /\ [][Next]_vars
-----------------------------------------------------------------------------
TreeIsTrue == ~Batching => tree = Rendered
LensesAreTrue == \A f \in open : lens[f] = cand[f]
DiagnosticsAreTrue ==
  ~Batching => /\ notice => stale
               /\ ~notice => Accepted \subseteq hidden

\* Whatever the order in which commands, answers, rescans and stale checks come: the tree
\* shows the candidates and decisions there are, the lenses the validations of the current
\* candidate, and no diagnostic stands on a finding whose repair was accepted.  Only a batch
\* under way is behind (tree.refresh, validationLens.refresh,
\* refreshDiagnosticsExcludingAccepted).
ShownIsTrue == TreeIsTrue /\ LensesAreTrue /\ DiagnosticsAreTrue

\* A request made before may answer for a finding that has been given a candidate since.
Overtaken(f) == f \in pipe.left \/ \E s \in Slots : flow[s].pc = "generating" /\ flow[s].f = f
DiffsFollow ==
  \A f \in open \cap open' :
    doc[f] = cand[f] => doc'[f] = cand'[f] \/ scan' # scan \/ Overtaken(f)
LateSteps == {s \in Slots : flow'[s] # flow[s] /\ (flow[s].pc = "batch" \/ ~IsLive(s))}
StaleStaysShown ==
  /\ ~stale /\ stale' => notice'
  /\ notice /\ stale' /\ scan' = scan => notice' \/ LateSteps # {}

\* An open diff that shows the current proposal goes on to do so when that is regenerated or
\* accepted, and the notice that the results are stale stays as long as they are; except
\* that a rescan or a second answer for the same finding leaves open diffs behind, and that a
\* batch, or an accept from before a rescan, takes the notice away (contentProvider.invalidate,
\* setStaleDiagnostic).
ShowingIsKept == [][DiffsFollow /\ StaleStaysShown]_vars

-----------------------------------------------------------------------------
\* What the sources say, and TLC finds the code does not keep; no run checks it.

\* "When stale, clear all Diagnostics and replace them with one stale notice"
\* (docs/VSCODE_V1B_DESIGN.md:56).
StaleIsShown == stale => notice

\* What closes a diff for a command closes the diff the command was given for ("Close the
\* current crepair diff", advanceQueueAfter).
ClosesItsOwn ==
  [][\A s \in Slots : flow[s].pc = "closing" /\ flow'[s].pc # "closing"
       => open \ open' \subseteq {flow[s].f}]_vars

\* The review is declared complete when nothing pending remains (acceptCurrentDiff).
CompleteMeansDecided ==
  [][\A s \in Slots : flow[s].pc = "closing" /\ flow[s].then = "complete" /\ flow'[s].pc = "idle"
       => FirstPending(cand, decision) = {}]_vars
=============================================================================
