------------------------- MODULE ReviewQueue_proofs -------------------------
(***************************************************************************)
(* What the reviewer is shown, for any number of findings, proposals,      *)
(* commands under way, sessions and moves of the reviewer.                 *)
(***************************************************************************)
EXTENDS ReviewQueue, TLAPS

(***************************************************************************)
(* Types.                                                                  *)
(***************************************************************************)
Commands == [pc : {"idle", "applying", "reason", "generating", "regenerating",
                   "repaired", "closing", "opening", "batch"},
             f : Finding \cup {None}, at : 0 .. MaxScans, title : BOOLEAN,
             decided : BOOLEAN, then : {"end", "open", "complete"},
             next : Finding \cup {None}, left : SUBSET Finding]
Pipes == [pc : {"idle", "planning", "looping", "asking", "ending"}, at : 0 .. MaxScans,
          left : SUBSET Finding, opened : BOOLEAN]

SessionType ==
  /\ scan \in 1 .. MaxScans
  /\ cand \in [Finding -> Candidates \cup {None}]
  /\ decision \in [Finding -> {"pending", "accepted", "rejected"}]
  /\ \A f \in Finding : cand[f] = None => decision[f] = "pending"
NoticesType ==
  /\ edited \in BOOLEAN /\ stale \in BOOLEAN /\ timer \in BOOLEAN /\ notice \in BOOLEAN
  /\ hidden \subseteq Finding
WindowsType ==
  /\ open \subseteq Finding /\ {active, preview} \subseteq open \cup {None}
  /\ doc \in [Finding -> Candidates \cup {Old, None}]
LensType == lens \in [Finding -> Candidates \cup {None}]
FlowType == flow \in [Slots -> Commands]
PipeType == pipe \in Pipes

\* A command is from this session or an earlier one and knows its finding.  What it is about
\* to record as accepted has a candidate, if its session is still the one there is.
Sound(c) ==
  /\ c.at <= scan
  /\ c.pc \notin {"idle", "batch"} => c.f \in Finding
  /\ c.pc = "opening" \/ c.then = "open" => c.next \in Finding
  /\ c.at = scan /\ c.pc = "applying" => cand[c.f] # None
  /\ c.at = scan /\ c.pc = "batch" => \A f \in c.left : cand[f] # None
InFlight == \A s \in Slots : Sound(flow[s])

ReviewInv == ReviewTypeOK /\ InFlight /\ ShownIsTrue

LEMMA TypeParts ==
  ReviewTypeOK <=> /\ SessionType /\ NoticesType /\ WindowsType /\ LensType
                   /\ FlowType /\ PipeType
<1>1. NoticesType <=> {edited, stale, timer, notice} \subseteq BOOLEAN /\ hidden \subseteq Finding
  BY DEF NoticesType
<1>2. QED
  BY <1>1
  DEF ReviewTypeOK, SessionType, WindowsType, LensType, FlowType, PipeType, Commands, Pipes

LEMMA TypePartsNext ==
  SessionType' /\ NoticesType' /\ WindowsType' /\ LensType' /\ FlowType' /\ PipeType'
  => ReviewTypeOK'
<1>1. (SessionType /\ NoticesType /\ WindowsType /\ LensType /\ FlowType /\ PipeType
       => ReviewTypeOK)'
  BY TypeParts, PTL
<1>2. QED
  BY <1>1

(***************************************************************************)
(* The editors.                                                            *)
(***************************************************************************)
\* What is rendered stays, or is rendered again.
Rerendered == \A f \in open \cap open' : doc'[f] = doc[f] \/ doc'[f] = cand'[f]

LEMMA ShowIs ==
  ASSUME WindowsType, cand' \in [Finding -> Candidates \cup {None}], NEW f \in Finding, Show(f)
  PROVE  WindowsType' /\ Rerendered
<1>1. CASE f \in open
  BY <1>1 DEF Show, WindowsType, Rerendered
<1>2. CASE f \notin open
  <2>1. /\ active' = f /\ open' = (open \ {preview}) \cup {f} /\ preview' = f
        /\ doc' = [g \in Finding |-> IF g = f THEN cand'[f] ELSE IF g = preview THEN None ELSE doc[g]]
    BY <1>2 DEF Show
  <2>2. \A g \in Finding : doc'[g] = IF g = f THEN cand'[f] ELSE IF g = preview THEN None ELSE doc[g]
    BY <2>1
  <2>3. \A g \in Finding : doc'[g] \in Candidates \cup {Old, None}
    BY <2>2 DEF WindowsType
  <2>4. doc' \in [Finding -> Candidates \cup {Old, None}]
    BY <2>1, <2>3
  <2>5. Rerendered
    BY <2>1, <2>2 DEF Rerendered, WindowsType
  <2>6. QED
    BY <2>1, <2>4, <2>5 DEF WindowsType
<1>3. QED
  BY <1>1, <1>2

LEMMA ClosedIs ==
  ASSUME WindowsType, NEW f \in Finding, Closed(f)
  PROVE  WindowsType' /\ Rerendered /\ open' \subseteq open
<1>1. /\ open' = open \ {f} /\ preview' = IF preview = f THEN None ELSE preview
      /\ IF active = f THEN active' \in open' \cup {None} ELSE UNCHANGED active
      /\ doc' = [doc EXCEPT ![f] = None]
  BY DEF Closed
<1>2. doc' \in [Finding -> Candidates \cup {Old, None}]
  BY <1>1 DEF WindowsType
<1>3. QED
  BY <1>1, <1>2 DEF WindowsType, Rerendered

LEMMA InvalidatedIs ==
  ASSUME WindowsType, cand' \in [Finding -> Candidates \cup {None}], NEW f \in Finding,
         Invalidated(f), UNCHANGED <<open, active, preview>>
  PROVE  /\ WindowsType' /\ Rerendered
         /\ f \in open => doc'[f] = cand'[f]
         /\ \A g \in Finding : g # f => doc'[g] = doc[g]
<1>1. doc' = [doc EXCEPT ![f] = IF f \in open THEN cand'[f] ELSE None]
  BY DEF Invalidated
<1>2. doc' \in [Finding -> Candidates \cup {Old, None}]
  BY <1>1 DEF WindowsType
<1>3. QED
  BY <1>1, <1>2 DEF WindowsType, Rerendered

LEMMA RelensedIs ==
  ASSUME LensType, LensesAreTrue, WindowsType', cand' \in [Finding -> Candidates \cup {None}],
         NEW S, Relensed(S), \A f \in open' \ S : f \in open /\ cand'[f] = cand[f]
  PROVE  LensType' /\ LensesAreTrue'
<1>1. \A f \in Finding : lens'[f] = IF f \notin open' THEN None
                                   ELSE IF f \in S THEN cand'[f] ELSE lens[f]
  BY DEF Relensed
<1>2. \A f \in Finding : lens'[f] \in Candidates \cup {None}
  BY <1>1 DEF LensType
<1>3. LensType'
  BY <1>2 DEF Relensed, LensType
<1>4. QED
  BY <1>1, <1>3 DEF LensesAreTrue, WindowsType

LEMMA WindowsStay ==
  ASSUME WindowsType, UNCHANGED windows
  PROVE  WindowsType' /\ Rerendered /\ UNCHANGED <<open, active, preview, doc>>
BY DEF windows, WindowsType, Rerendered

\* A diff is opened or closed; the candidates stay.
LEMMA OpeningIs ==
  ASSUME WindowsType, LensType, LensesAreTrue, SessionType, UNCHANGED cand,
         NEW f \in Finding, OpenCandidateDiff(f)
  PROVE  WindowsType' /\ Rerendered /\ LensType' /\ LensesAreTrue'
<1>1. cand' \in [Finding -> Candidates \cup {None}]
  BY DEF SessionType
<1>2. WindowsType' /\ Rerendered
  BY <1>1, WindowsStay, ShowIs DEF OpenCandidateDiff
<1>3. QED
  BY <1>1, <1>2, RelensedIs DEF OpenCandidateDiff

LEMMA ClosingIs ==
  ASSUME WindowsType, LensType, LensesAreTrue, SessionType, UNCHANGED cand, CloseActiveDiff
  PROVE  WindowsType' /\ Rerendered /\ LensType' /\ LensesAreTrue'
<1>1. cand' \in [Finding -> Candidates \cup {None}]
  BY DEF SessionType
<1>2. WindowsType' /\ Rerendered /\ open' \subseteq open
  BY WindowsStay, ClosedIs DEF CloseActiveDiff, WindowsType
<1>3. QED
  BY <1>1, <1>2, RelensedIs DEF CloseActiveDiff

(***************************************************************************)
(* The commands.                                                           *)
(***************************************************************************)
LEMMA IdleIs ==
  ASSUME SessionType
  PROVE  Idle \in Commands /\ Sound(Idle) /\ Idle.pc = "idle" /\ Idle.then = "end"
BY QueueAssumption DEF Idle, Commands, SessionType, Sound

\* The next one in the queue is a finding.
LEMMA NextIs ==
  ASSUME NEW c, NEW d, NEW f
  PROVE  NextPending(c, d, f) \subseteq Finding
BY DEF NextPending, Smallest

LEMMA CommandIs ==
  ASSUME SessionType, NEW pc \in {"applying", "reason", "generating", "regenerating", "repaired"},
         NEW f \in Finding, NEW title \in BOOLEAN, pc = "applying" => cand[f] # None
  PROVE  /\ Command(pc, f, title) \in Commands /\ Sound(Command(pc, f, title))
         /\ \A b \in BOOLEAN : /\ [Command(pc, f, title) EXCEPT !.decided = b] \in Commands
                               /\ Sound([Command(pc, f, title) EXCEPT !.decided = b])
<1>1. scan \in 0 .. MaxScans
  BY DEF SessionType
<1>2. PICK c : c = Command(pc, f, title)
  OBVIOUS
<1>3. c \in Commands /\ c.pc = pc /\ c.f = f /\ c.at = scan /\ c.then = "end"
  BY <1>1, <1>2, IdleIs DEF Command, Commands
<1>4. Sound(c)
  BY <1>1, <1>3 DEF Sound
<1>5. ASSUME NEW b \in BOOLEAN
      PROVE  [c EXCEPT !.decided = b] \in Commands /\ Sound([c EXCEPT !.decided = b])
  <2>1. PICK e : e = [c EXCEPT !.decided = b]
    OBVIOUS
  <2>2. e \in Commands /\ e.pc = pc /\ e.f = f /\ e.at = scan /\ e.then = "end"
    BY <1>3, <2>1 DEF Commands
  <2>3. Sound(e)
    BY <1>1, <2>2 DEF Sound
  <2>4. QED
    BY <2>1, <2>2, <2>3
<1>6. QED
  BY <1>2, <1>3, <1>4, <1>5

\* What is still under way once the session has gone on with the same candidates, or with
\* more of them.
LEMMA SoundStays ==
  ASSUME SessionType, scan' = scan, \A f \in Finding : cand[f] # None => cand'[f] # None,
         NEW c \in Commands, Sound(c)
  PROVE  Sound(c)'
BY QueueAssumption DEF Sound, Commands, SessionType

LEMMA InFlightStays ==
  ASSUME SessionType, FlowType, InFlight, UNCHANGED <<scan, flow>>,
         \A f \in Finding : cand[f] # None => cand'[f] # None
  PROVE  FlowType' /\ InFlight'
<1>1. ASSUME NEW s \in Slots PROVE Sound(flow[s])'
  <2>1. PICK c \in Commands : c = flow[s]
    BY DEF FlowType
  <2>2. Sound(c)'
    BY <2>1, SoundStays DEF InFlight
  <2>3. QED
    BY <2>1, <2>2 DEF Sound
<1>2. QED
  BY <1>1 DEF FlowType, InFlight

\* One command moves on.  Only the end of a batch ends one.
LEMMA MovesIs ==
  ASSUME SessionType, FlowType, InFlight, scan' = scan,
         \A f \in Finding : cand[f] # None => cand'[f] # None,
         NEW s \in Slots, NEW to \in Commands, Sound(to), Moves(s, to)
  PROVE  /\ FlowType' /\ InFlight' /\ flow'[s] = to
         /\ flow[s].pc # "batch" \/ to.pc = "batch" => (Batching => Batching')
<1>1. /\ flow'[s] = to /\ \A r \in Slots : r # s => flow'[r] = flow[r]
      /\ flow' \in [Slots -> Commands]
  BY DEF FlowType, Moves
<1>2. ASSUME NEW r \in Slots PROVE Sound(flow[r])'
  <2>1. PICK c \in Commands : c = flow'[r] /\ Sound(c)
    BY <1>1 DEF FlowType, InFlight
  <2>2. Sound(c)'
    BY <2>1, SoundStays
  <2>3. QED
    BY <2>1, <2>2 DEF Sound
<1>3. QED
  BY <1>1, <1>2 DEF FlowType, InFlight, Batching

\* advanceQueueAfter ends, or goes on to close what is open.
LEMMA AdvanceIs ==
  ASSUME SessionType, NEW s \in Slots, NEW f \in Finding, NEW decided, Advance(s, f, decided)
  PROVE  \E to \in Commands : Moves(s, to) /\ Sound(to) /\ to.pc \in {"idle", "closing"}
<1>1. scan \in 0 .. MaxScans
  BY DEF SessionType
<1>2. PICK closing : closing = [Idle EXCEPT !.pc = "closing", !.f = f, !.at = scan]
  OBVIOUS
<1>3. closing \in Commands /\ closing.pc = "closing" /\ closing.f = f /\ closing.at = scan
  BY <1>1, <1>2, IdleIs DEF Commands
<1>4. \/ \E g \in NextPending(cand', decision', f) :
           Moves(s, [closing EXCEPT !.then = "open", !.next = g])
      \/ Ends(s)
      \/ Moves(s, [closing EXCEPT !.then = "complete"])
  BY Zenon, <1>2 DEF Advance
<1>5. ASSUME NEW to \in Commands, to.pc = "closing", to.f = f, to.at = scan,
             to.then = "open" => to.next \in Finding
      PROVE  Sound(to)
  BY <1>1, <1>5 DEF Sound
<1>6. CASE Ends(s)
  BY <1>6, IdleIs DEF Ends
<1>7. CASE Moves(s, [closing EXCEPT !.then = "complete"])
  <2>1. PICK to : to = [closing EXCEPT !.then = "complete"]
    OBVIOUS
  <2>2. to \in Commands /\ to.pc = "closing" /\ to.f = f /\ to.at = scan /\ to.then = "complete"
    BY <1>3, <2>1 DEF Commands
  <2>3. QED
    BY <1>5, <1>7, <2>1, <2>2
<1>8. ASSUME NEW g \in Finding, Moves(s, [closing EXCEPT !.then = "open", !.next = g])
      PROVE  \E to \in Commands : Moves(s, to) /\ Sound(to) /\ to.pc \in {"idle", "closing"}
  <2>1. PICK to : to = [closing EXCEPT !.then = "open", !.next = g]
    OBVIOUS
  <2>2. to \in Commands /\ to.pc = "closing" /\ to.f = f /\ to.at = scan /\ to.next = g
    BY <1>3, <1>8, <2>1 DEF Commands
  <2>3. QED
    BY <1>5, <1>8, <2>1, <2>2
<1>9. QED
  BY <1>4, <1>6, <1>7, <1>8, NextIs

(***************************************************************************)
(* What a step may do to what is shown.                                    *)
(***************************************************************************)
Shows == DiffsFollow /\ StaleStaysShown

\* Candidates, decisions and flag stay, and with them the tree and the diagnostics.
LEMMA NothingNewIsShown ==
  ASSUME TreeIsTrue, DiagnosticsAreTrue, UNCHANGED <<scan, cand, decision, stale, tree, notice, hidden>>,
         Batching => Batching', Rerendered, NoticesType
  PROVE  TreeIsTrue' /\ DiagnosticsAreTrue' /\ Shows
<1>1. TreeIsTrue'
  BY DEF TreeIsTrue, Rendered
<1>2. DiagnosticsAreTrue'
  BY DEF DiagnosticsAreTrue, Accepted
<1>3. DiffsFollow
  BY DEF DiffsFollow, Rerendered
<1>4. StaleStaysShown
  BY DEF StaleStaysShown, NoticesType
<1>5. QED
  BY <1>1, <1>2, <1>3, <1>4 DEF Shows

\* The steps that touch neither the session nor what is shown of it.
LEMMA QuietKeeps ==
  ASSUME ReviewInv, UNCHANGED <<scan, cand, decision, stale, tree, notice, hidden>>,
         Batching => Batching', FlowType', InFlight', PipeType', NoticesType',
         WindowsType', Rerendered, LensType', LensesAreTrue'
  PROVE  ReviewInv' /\ Shows
<1>1. SessionType /\ NoticesType
  BY TypeParts DEF ReviewInv
<1>2. SessionType'
  BY <1>1 DEF SessionType
<1>3. TreeIsTrue' /\ DiagnosticsAreTrue' /\ Shows
  BY <1>1, NothingNewIsShown DEF ReviewInv, ShownIsTrue
<1>4. ReviewTypeOK'
  BY <1>2, TypePartsNext
<1>5. QED
  BY <1>3, <1>4 DEF ReviewInv, ShownIsTrue

\* Those that do not touch the editors either: one command moves on.
LEMMA OneMovesQuietly ==
  ASSUME ReviewInv, UNCHANGED <<session, document, tree, diagnostics, editors, pipe>>,
         NEW s \in Slots, flow[s].pc # "batch", NEW to \in Commands, Sound(to), Moves(s, to)
  PROVE  ReviewInv' /\ Shows
<1>1. SessionType /\ NoticesType /\ WindowsType /\ LensType /\ FlowType /\ PipeType
  BY TypeParts DEF ReviewInv
<1>2. UNCHANGED <<scan, cand, decision, edited, stale, timer, tree, notice, hidden, open, active,
                  preview, doc, lens, pipe>>
  BY DEF session, document, diagnostics, editors, windows
<1>3. FlowType' /\ InFlight' /\ (Batching => Batching')
  BY <1>1, <1>2, MovesIs DEF ReviewInv
<1>4. NoticesType' /\ PipeType'
  BY <1>1, <1>2 DEF NoticesType, PipeType
<1>5. WindowsType' /\ Rerendered
  BY <1>1, <1>2, WindowsStay DEF windows
<1>6. LensType' /\ LensesAreTrue'
  BY <1>1, <1>2 DEF LensType, ReviewInv, ShownIsTrue, LensesAreTrue
<1>7. QED
  BY <1>2, <1>3, <1>4, <1>5, <1>6, QuietKeeps

LEMMA Parts ==
  ReviewInv => /\ SessionType /\ NoticesType /\ WindowsType /\ LensType /\ FlowType /\ PipeType
               /\ InFlight /\ TreeIsTrue /\ LensesAreTrue /\ DiagnosticsAreTrue
BY TypeParts DEF ReviewInv, ShownIsTrue

LEMMA FlowIs ==
  ASSUME ReviewInv, NEW s \in Slots
  PROVE  flow[s] \in Commands /\ Sound(flow[s])
BY Parts DEF FlowType, InFlight

\* What a command does next: it ends, or goes on for its finding.
LEMMA EndsIs ==
  ASSUME SessionType, NEW s \in Slots, Ends(s)
  PROVE  \E to \in Commands : Moves(s, to) /\ Sound(to) /\ to.pc \in {"idle", "closing"}
BY IdleIs DEF Ends

LEMMA GoesOnIs ==
  ASSUME NEW c \in Commands, Sound(c), c.pc \notin {"idle", "batch"}, SessionType,
         NEW pc \in {"repaired", "closing"}
  PROVE  [c EXCEPT !.pc = pc] \in Commands /\ Sound([c EXCEPT !.pc = pc])
<1>1. PICK to : to = [c EXCEPT !.pc = pc]
  OBVIOUS
<1>2. to \in Commands /\ to.pc = pc /\ to.f = c.f /\ to.at = c.at /\ to.then = c.then /\ to.next = c.next
  BY <1>1 DEF Commands
<1>3. Sound(to)
  BY <1>2 DEF Sound
<1>4. QED
  BY <1>1, <1>2, <1>3

LEMMA AcceptReturnsIs ==
  ASSUME ReviewInv, NEW s \in Slots, flow[s].pc = "applying", AcceptReturns(s)
  PROVE  \E to \in Commands : Moves(s, to) /\ Sound(to) /\ to.pc \in {"idle", "closing"}
<1>1. flow[s].f \in Finding /\ SessionType
  BY FlowIs, Parts DEF Sound
<1>2. Advance(s, flow[s].f, TRUE) \/ Ends(s)
  BY DEF AcceptReturns
<1>3. QED
  BY <1>1, <1>2, AdvanceIs, EndsIs

LEMMA QuietSteps ==
  ASSUME ReviewInv, NEW s \in Slots,
         \/ NextDiff(s) \/ AcceptFails(s) \/ ReasonAsked(s) \/ NotRepaired(s) \/ AcceptAll(s)
         \/ \E f \in Finding : \/ Generate(s, f)
                               \/ \E title \in BOOLEAN : Accept(s, f, title) \/ Regenerate(s, f, title)
  PROVE  ReviewInv' /\ Shows
<1>1. SessionType /\ WindowsType /\ flow[s] \in Commands /\ Sound(flow[s])
  BY Parts, FlowIs
<1>2. UNCHANGED <<session, document, tree, diagnostics, editors, pipe>>
  BY DEF NextDiff, AcceptFails, ReasonAsked, NotRepaired, AcceptAll, Generate, Accept, Regenerate
<1>3. flow[s].pc # "batch"
  BY DEF NextDiff, AcceptFails, ReasonAsked, NotRepaired, AcceptAll, Generate, Accept, Regenerate, Given
<1>4. ASSUME NEW to \in Commands, Sound(to), Moves(s, to)
      PROVE  ReviewInv' /\ Shows
  BY <1>2, <1>3, <1>4, OneMovesQuietly
<1>5. CASE NextDiff(s)
  BY <1>1, <1>4, <1>5, AdvanceIs DEF NextDiff, WindowsType
<1>6. CASE AcceptFails(s)
  BY <1>4, <1>6, AcceptReturnsIs DEF AcceptFails
<1>7. CASE ReasonAsked(s)
  BY <1>1, <1>4, <1>7, AdvanceIs DEF ReasonAsked, Sound
<1>8. CASE NotRepaired(s)
  BY <1>1, <1>4, <1>8, GoesOnIs, IdleIs DEF NotRepaired
<1>9. CASE AcceptAll(s)
  <2>1. PICK chosen \in SUBSET {f \in Finding : HasDiff(f) /\ decision[f] = "pending"} :
          Moves(s, [Idle EXCEPT !.pc = "batch", !.at = scan, !.left = chosen])
    BY <1>9 DEF AcceptAll
  <2>2. PICK to : to = [Idle EXCEPT !.pc = "batch", !.at = scan, !.left = chosen]
    OBVIOUS
  <2>3. chosen \in SUBSET Finding /\ \A f \in chosen : cand[f] # None
    BY QueueAssumption DEF HasDiff
  <2>4. scan \in 0 .. MaxScans
    BY <1>1 DEF SessionType
  <2>5. to \in Commands /\ to.pc = "batch" /\ to.at = scan /\ to.left = chosen /\ to.then = "end"
    BY <1>1, <2>2, <2>3, <2>4, IdleIs DEF Commands
  <2>6. Sound(to)
    BY <2>3, <2>4, <2>5 DEF Sound
  <2>7. QED
    BY <1>4, <2>1, <2>2, <2>5, <2>6
<1>10. ASSUME NEW f \in Finding, Generate(s, f) PROVE ReviewInv' /\ Shows
  <2>1. Moves(s, Command("generating", f, FALSE))
    BY <1>10 DEF Generate
  <2>2. QED
    BY <1>1, <1>4, <2>1, CommandIs
<1>11. ASSUME NEW f \in Finding, NEW title \in BOOLEAN, Accept(s, f, title) PROVE ReviewInv' /\ Shows
  <2>1. /\ Moves(s, [Command("applying", f, title) EXCEPT !.decided = decision[f] = "accepted"])
        /\ cand[f] # None
    BY <1>11, QueueAssumption DEF Accept, HasDiff
  <2>2. (decision[f] = "accepted") \in BOOLEAN
    OBVIOUS
  <2>3. QED
    BY <1>1, <1>4, <2>1, <2>2, CommandIs
<1>12. ASSUME NEW f \in Finding, NEW title \in BOOLEAN, Regenerate(s, f, title)
       PROVE  ReviewInv' /\ Shows
  <2>1. Moves(s, Command("repaired", f, title)) \/ Moves(s, Command("regenerating", f, title))
    BY <1>12 DEF Regenerate
  <2>2. QED
    BY <1>1, <1>4, <2>1, CommandIs
<1>13. QED
  BY <1>5, <1>6, <1>7, <1>8, <1>9, <1>10, <1>11, <1>12

(***************************************************************************)
(* The steps that open and close diffs.                                    *)
(***************************************************************************)
LEMMA EditorsKeep ==
  ASSUME ReviewInv, UNCHANGED <<session, document, tree, diagnostics>>,
         Batching => Batching', FlowType', InFlight', PipeType',
         WindowsType', Rerendered, LensType', LensesAreTrue'
  PROVE  ReviewInv' /\ Shows
<1>1. UNCHANGED <<scan, cand, decision, edited, stale, timer, tree, notice, hidden>>
  BY DEF session, document, diagnostics
<1>2. NoticesType'
  BY <1>1, Parts DEF NoticesType
<1>3. QED
  BY <1>1, <1>2, QuietKeeps

LEMMA FlowStays ==
  ASSUME ReviewInv, UNCHANGED <<scan, cand, flow>>
  PROVE  FlowType' /\ InFlight' /\ (Batching => Batching')
<1>1. FlowType' /\ InFlight'
  BY Parts, InFlightStays
<1>2. QED
  BY <1>1 DEF Batching

LEMMA DiffSteps ==
  ASSUME ReviewInv, NEW s \in Slots, Closes(s) \/ OpensNext(s) \/ Repaired(s)
  PROVE  ReviewInv' /\ Shows
<1>1. /\ SessionType /\ WindowsType /\ LensType /\ LensesAreTrue /\ FlowType /\ PipeType /\ InFlight
      /\ flow[s] \in Commands /\ Sound(flow[s])
  BY Parts, FlowIs
<1>2. UNCHANGED <<session, document, tree, diagnostics, pipe>>
  BY DEF Closes, OpensNext, Repaired
<1>3. UNCHANGED <<scan, cand>> /\ PipeType'
  BY <1>1, <1>2 DEF session, PipeType
<1>4. flow[s].pc # "batch"
  BY DEF Closes, OpensNext, Repaired
<1>5. ASSUME NEW to \in Commands, Sound(to), Moves(s, to), CloseActiveDiff
      PROVE  ReviewInv' /\ Shows
  <2>1. FlowType' /\ InFlight' /\ (Batching => Batching')
    BY <1>1, <1>3, <1>4, <1>5, MovesIs
  <2>2. WindowsType' /\ Rerendered /\ LensType' /\ LensesAreTrue'
    BY <1>1, <1>3, <1>5, ClosingIs
  <2>3. QED
    BY <1>2, <1>3, <2>1, <2>2, EditorsKeep
<1>6. ASSUME NEW f \in Finding, Ends(s), OpenCandidateDiff(f)
      PROVE  ReviewInv' /\ Shows
  <2>1. FlowType' /\ InFlight' /\ (Batching => Batching')
    BY <1>1, <1>3, <1>4, <1>6, MovesIs, IdleIs DEF Ends
  <2>2. WindowsType' /\ Rerendered /\ LensType' /\ LensesAreTrue'
    BY <1>1, <1>3, <1>6, OpeningIs
  <2>3. QED
    BY <1>2, <1>3, <2>1, <2>2, EditorsKeep
<1>7. CASE Closes(s)
  <2>1. CASE flow[s].then = "open"
    <3>1. PICK to : to = [flow[s] EXCEPT !.pc = "opening"]
      OBVIOUS
    <3>2. flow[s].pc = "closing" /\ Moves(s, to) /\ CloseActiveDiff
      BY <1>7, <2>1, <3>1 DEF Closes
    <3>3. to \in Commands /\ to.pc = "opening" /\ to.f = flow[s].f /\ to.at = flow[s].at
          /\ to.next = flow[s].next
      BY <1>1, <3>1 DEF Commands
    <3>4. Sound(to)
      BY <1>1, <2>1, <3>2, <3>3 DEF Sound
    <3>5. QED
      BY <1>5, <3>2, <3>3, <3>4
  <2>2. CASE flow[s].then # "open"
    BY <1>1, <1>5, <1>7, <2>2, IdleIs DEF Closes, Ends
  <2>3. QED
    BY <2>1, <2>2
<1>8. CASE OpensNext(s)
  BY <1>1, <1>6, <1>8 DEF OpensNext, Sound
<1>9. CASE Repaired(s)
  <2>1. \/ Ends(s) /\ UNCHANGED editors
        \/ Moves(s, [flow[s] EXCEPT !.pc = "closing"]) /\ UNCHANGED editors
        \/ Ends(s) /\ OpenCandidateDiff(flow[s].f)
    BY Zenon, <1>9 DEF Repaired
  <2>2. flow[s].pc = "repaired" /\ flow[s].f \in Finding
    BY <1>1, <1>9 DEF Repaired, Sound
  <2>3. ASSUME NEW to \in Commands, Sound(to), Moves(s, to), UNCHANGED editors
        PROVE  ReviewInv' /\ Shows
    BY <1>2, <1>4, <2>3, OneMovesQuietly
  <2>4. CASE Ends(s) /\ UNCHANGED editors
    BY <1>1, <2>3, <2>4, IdleIs DEF Ends
  <2>5. CASE Moves(s, [flow[s] EXCEPT !.pc = "closing"]) /\ UNCHANGED editors
    BY <1>1, <2>2, <2>3, <2>5, GoesOnIs
  <2>6. QED
    BY <1>6, <2>1, <2>2, <2>4, <2>5
<1>10. QED
  BY <1>7, <1>8, <1>9

LEMMA ReviewerSteps ==
  ASSUME ReviewInv, Focus \/ CloseEditor \/ Pin \/ \E f \in Finding : ShowDiff(f)
  PROVE  ReviewInv' /\ Shows
<1>1. SessionType /\ WindowsType /\ LensType /\ LensesAreTrue /\ FlowType /\ PipeType /\ InFlight
  BY Parts
<1>2. UNCHANGED <<session, document, tree, diagnostics, flow, pipe>>
  BY DEF Focus, CloseEditor, Pin, ShowDiff
<1>3. UNCHANGED <<scan, cand, flow, pipe>> /\ PipeType'
  BY <1>1, <1>2 DEF session, PipeType
<1>4. FlowType' /\ InFlight' /\ (Batching => Batching')
  BY <1>3, FlowStays
<1>5. CASE Focus \/ Pin
  <2>1. /\ open' = open /\ doc' = doc /\ lens' = lens
        /\ {active', preview'} \subseteq open \cup {None}
    BY <1>1, <1>5 DEF Focus, Pin, WindowsType
  <2>2. WindowsType' /\ Rerendered /\ LensType' /\ LensesAreTrue'
    BY <1>1, <1>3, <2>1 DEF WindowsType, Rerendered, LensType, LensesAreTrue
  <2>3. QED
    BY <1>2, <1>3, <1>4, <2>2, EditorsKeep
<1>6. CASE CloseEditor
  <2>1. PICK f \in Finding : Closed(f) /\ Relensed({})
    BY <1>1, <1>6 DEF CloseEditor, WindowsType
  <2>2. WindowsType' /\ Rerendered /\ open' \subseteq open
    BY <1>1, <2>1, ClosedIs
  <2>3. LensType' /\ LensesAreTrue'
    BY <1>1, <1>3, <2>1, <2>2, RelensedIs DEF SessionType
  <2>4. QED
    BY <1>2, <1>3, <1>4, <2>2, <2>3, EditorsKeep
<1>7. ASSUME NEW f \in Finding, ShowDiff(f) PROVE ReviewInv' /\ Shows
  <2>1. WindowsType' /\ Rerendered /\ LensType' /\ LensesAreTrue'
    BY <1>1, <1>3, <1>7, OpeningIs DEF ShowDiff
  <2>2. QED
    BY <1>2, <1>3, <1>4, <2>1, EditorsKeep
<1>8. QED
  BY <1>5, <1>6, <1>7

(***************************************************************************)
(* The pipeline.                                                           *)
(***************************************************************************)
LEMMA PipesAre ==
  ASSUME SessionType, NEW p \in Pipes
  PROVE  /\ NoPipe \in Pipes
         /\ \A pc \in {"asking", "ending"} : [p EXCEPT !.pc = pc] \in Pipes
         /\ \A left \in SUBSET Finding : [p EXCEPT !.pc = "looping", !.left = left] \in Pipes
         /\ \A b \in BOOLEAN : [p EXCEPT !.opened = b] \in Pipes
<1>1. 0 \in 0 .. MaxScans
  BY QueueAssumption
<1>2. NoPipe \in Pipes
  BY <1>1 DEF NoPipe, Pipes
<1>3. /\ \A pc \in {"asking", "ending"} : [p EXCEPT !.pc = pc] \in Pipes
      /\ \A b \in BOOLEAN : [p EXCEPT !.opened = b] \in Pipes
  BY DEF Pipes
<1>4. ASSUME NEW left \in SUBSET Finding
      PROVE  [p EXCEPT !.pc = "looping", !.left = left] \in Pipes
  BY <1>4 DEF Pipes
<1>5. QED
  BY <1>2, <1>3, <1>4

LEMMA PipeOpensIs ==
  ASSUME SessionType, WindowsType, cand' \in [Finding -> Candidates \cup {None}],
         NEW then \in Pipes,
         PipeOpens(then) \/ MaybeOpenFirst(then) \/ (pipe' = then /\ UNCHANGED windows)
  PROVE  PipeType' /\ WindowsType' /\ Rerendered
<1>1. CASE pipe' = then /\ UNCHANGED windows
  BY <1>1, WindowsStay DEF PipeType
<1>2. CASE MaybeOpenFirst(then)
  <2>1. \/ UNCHANGED windows /\ pipe' = [then EXCEPT !.opened = active # None]
        \/ /\ \E f \in FirstPending(cand', decision') : Show(f)
           /\ pipe' = [then EXCEPT !.opened = TRUE]
    BY <1>2 DEF MaybeOpenFirst
  <2>2. (active # None) \in BOOLEAN
    OBVIOUS
  <2>3. PipeType'
    BY <2>1, <2>2, PipesAre DEF PipeType
  <2>4. FirstPending(cand', decision') \subseteq Finding
    BY NextIs DEF FirstPending
  <2>5. QED
    BY <2>1, <2>3, <2>4, WindowsStay, ShowIs
<1>3. QED
  BY <1>1, <1>2 DEF PipeOpens

LEMMA OneDoneIs ==
  ASSUME SessionType, PipeType
  PROVE  OneDone \in Pipes
<1>1. pipe.left \ Smallest(pipe.left) \in SUBSET Finding
  BY DEF PipeType, Pipes
<1>2. OneDone = [pipe EXCEPT !.pc = "looping", !.left = pipe.left \ Smallest(pipe.left)]
  BY DEF OneDone
<1>3. QED
  BY <1>1, <1>2, PipesAre DEF PipeType

LEMMA PipelineSteps ==
  ASSUME ReviewInv,
         PipelineStarts \/ PipelineGoesOn \/ PipelineFails \/ PipelineBreaks \/ PipelineEnds
  PROVE  ReviewInv' /\ Shows
<1>1. SessionType /\ WindowsType /\ LensType /\ LensesAreTrue /\ PipeType /\ pipe \in Pipes
  BY Parts DEF PipeType
<1>2. UNCHANGED <<session, document, tree, diagnostics, flow>>
  BY DEF PipelineStarts, PipelineGoesOn, PipelineFails, PipelineBreaks, PipelineEnds
<1>3. UNCHANGED <<scan, cand>> /\ cand' \in [Finding -> Candidates \cup {None}]
  BY <1>1, <1>2 DEF session, SessionType
<1>4. FlowType' /\ InFlight' /\ (Batching => Batching')
  BY <1>2, <1>3, FlowStays
<1>5. ASSUME NEW then \in Pipes,
             PipeOpens(then) \/ MaybeOpenFirst(then) \/ (pipe' = then /\ UNCHANGED windows),
             Relensed(open' \ open)
      PROVE  ReviewInv' /\ Shows
  <2>1. PipeType' /\ WindowsType' /\ Rerendered
    BY <1>1, <1>3, <1>5, PipeOpensIs
  <2>2. LensType' /\ LensesAreTrue'
    BY <1>1, <1>3, <1>5, <2>1, RelensedIs
  <2>3. QED
    BY <1>2, <1>4, <2>1, <2>2, EditorsKeep
<1>6. ASSUME NEW then \in Pipes, pipe' = then, UNCHANGED editors
      PROVE  ReviewInv' /\ Shows
  <2>1. WindowsType' /\ Rerendered /\ PipeType'
    BY <1>1, <1>6, WindowsStay DEF editors, PipeType
  <2>2. LensType' /\ LensesAreTrue'
    BY <1>1, <1>3, <1>6 DEF editors, windows, LensType, LensesAreTrue
  <2>3. QED
    BY <1>2, <1>4, <2>1, <2>2, EditorsKeep
<1>7. CASE PipelineStarts
  <2>1. PICK k \in 0 .. N :
          \/ pipe' = NoPipe /\ UNCHANGED windows
          \/ MaybeOpenFirst(NoPipe)
          \/ /\ pipe' = [pipe EXCEPT !.pc = "looping", !.left = {f \in 1 .. k : cand[f] = None}]
             /\ UNCHANGED windows
    BY Zenon, <1>7 DEF PipelineStarts
  <2>2. {f \in 1 .. k : cand[f] = None} \in SUBSET Finding
    BY QueueAssumption DEF Finding
  <2>3. Relensed(open' \ open)
    BY <1>7 DEF PipelineStarts
  <2>4. QED
    BY <1>1, <1>5, <2>1, <2>2, <2>3, PipesAre
<1>8. CASE PipelineGoesOn \/ PipelineBreaks
  BY <1>1, <1>6, <1>8, PipesAre DEF PipelineGoesOn, PipelineBreaks
<1>9. CASE PipelineFails
  BY <1>1, <1>5, <1>9, OneDoneIs DEF PipelineFails
<1>10. CASE PipelineEnds
  BY <1>1, <1>5, <1>10, PipesAre DEF PipelineEnds
<1>11. QED
  BY <1>7, <1>8, <1>9, <1>10

(***************************************************************************)
(* The steps that change what is to be shown.                              *)
(***************************************************************************)
LEMMA Assembled ==
  ASSUME SessionType', NoticesType', WindowsType', LensType', FlowType', PipeType', InFlight',
         TreeIsTrue', LensesAreTrue', DiagnosticsAreTrue'
  PROVE  ReviewInv'
BY TypePartsNext DEF ReviewInv, ShownIsTrue

LEMMA TreeTold == TreeRefreshed => TreeIsTrue'
BY DEF TreeRefreshed, TreeIsTrue, Rendered

LEMMA DiagnosticsTold ==
  DiagnosticsRefreshed => DiagnosticsAreTrue' /\ notice' \in BOOLEAN /\ hidden' \subseteq Finding
                          /\ notice' = FALSE
BY DEF DiagnosticsRefreshed, DiagnosticsAreTrue, Accepted

\* A candidate is stored.
LEMMA Stored ==
  ASSUME SessionType, NEW f \in Finding, NEW c \in Candidates, cand' = [cand EXCEPT ![f] = c],
         scan' = scan, decision' = decision \/ decision' = [decision EXCEPT ![f] = "pending"]
  PROVE  /\ SessionType' /\ cand' \in [Finding -> Candidates \cup {None}]
         /\ \A g \in Finding : cand[g] # None => cand'[g] # None
         /\ \A g \in Finding : g # f => cand'[g] = cand[g]
         /\ Accepted' \subseteq Accepted
<1>1. c # None
  BY QueueAssumption DEF Candidates
<1>2. cand' \in [Finding -> Candidates \cup {None}]
  BY DEF SessionType
<1>3. \A g \in Finding : cand'[g] = (IF g = f THEN c ELSE cand[g])
  BY DEF SessionType
<1>4. \A g \in Finding : decision'[g] = decision[g] \/ decision'[g] = "pending"
  BY DEF SessionType
<1>5. decision' \in [Finding -> {"pending", "accepted", "rejected"}]
  BY DEF SessionType
<1>6. SessionType'
  BY <1>1, <1>2, <1>3, <1>4, <1>5 DEF SessionType
<1>7. QED
  BY <1>1, <1>2, <1>3, <1>4, <1>6 DEF Accepted

\* Whoever stores it, an answer leaves the diagnostics as they are.
LEMMA StoredIsShown ==
  ASSUME ReviewInv, UNCHANGED <<scan, document, diagnostics>>, Batching => Batching',
         Accepted' \subseteq Accepted, DiffsFollow
  PROVE  NoticesType' /\ DiagnosticsAreTrue' /\ Shows
<1>1. UNCHANGED <<edited, stale, timer, notice, hidden>> /\ NoticesType /\ DiagnosticsAreTrue
  BY Parts DEF document, diagnostics
<1>2. NoticesType' /\ DiagnosticsAreTrue'
  BY <1>1 DEF NoticesType, DiagnosticsAreTrue
<1>3. StaleStaysShown
  BY <1>1 DEF StaleStaysShown, NoticesType
<1>4. QED
  BY <1>2, <1>3 DEF Shows

LEMMA GeneratedKeeps ==
  ASSUME ReviewInv, NEW s \in Slots, Generated(s)
  PROVE  ReviewInv' /\ Shows
<1>1. /\ SessionType /\ WindowsType /\ LensType /\ LensesAreTrue /\ FlowType /\ PipeType /\ InFlight
      /\ flow[s] \in Commands /\ Sound(flow[s])
  BY Parts, FlowIs
<1>2. /\ UNCHANGED <<scan, decision, document, diagnostics, open, active, preview, doc, pipe>>
      /\ flow[s].pc = "generating" /\ LensesRefreshed /\ TreeRefreshed /\ Ends(s)
  BY DEF Generated
<1>3. PICK f \in Finding : f = flow[s].f
  BY <1>1, <1>2 DEF Sound
<1>4. PICK c \in Candidates : cand' = [cand EXCEPT ![f] = c]
  BY <1>3 DEF Generated
<1>5. /\ SessionType' /\ cand' \in [Finding -> Candidates \cup {None}]
      /\ \A g \in Finding : cand[g] # None => cand'[g] # None
      /\ \A g \in Finding : g # f => cand'[g] = cand[g]
      /\ Accepted' \subseteq Accepted
  BY <1>1, <1>2, <1>4, Stored
<1>6. FlowType' /\ InFlight' /\ (Batching => Batching')
  BY <1>1, <1>2, <1>5, MovesIs, IdleIs DEF Ends
<1>7. WindowsType' /\ PipeType'
  BY <1>1, <1>2 DEF WindowsType, PipeType
<1>8. LensType' /\ LensesAreTrue'
  BY <1>1, <1>2, <1>5, <1>7, RelensedIs DEF LensesRefreshed
<1>9. DiffsFollow
  BY <1>1, <1>2, <1>3, <1>5 DEF DiffsFollow, Overtaken, WindowsType
<1>10. NoticesType' /\ DiagnosticsAreTrue' /\ Shows
  BY <1>2, <1>5, <1>6, <1>9, StoredIsShown
<1>11. QED
  BY <1>2, <1>5, <1>6, <1>7, <1>8, <1>10, TreeTold, Assembled

LEMMA RegeneratedKeeps ==
  ASSUME ReviewInv, NEW s \in Slots, Regenerated(s)
  PROVE  ReviewInv' /\ Shows
<1>1. /\ SessionType /\ WindowsType /\ LensType /\ LensesAreTrue /\ FlowType /\ PipeType /\ InFlight
      /\ flow[s] \in Commands /\ Sound(flow[s])
  BY Parts, FlowIs
<1>2. /\ UNCHANGED <<scan, document, diagnostics, open, active, preview, pipe>>
      /\ flow[s].pc = "regenerating" /\ LensesRefreshed /\ TreeRefreshed
      /\ Moves(s, IF flow[s].title THEN [flow[s] EXCEPT !.pc = "repaired"] ELSE Idle)
  BY DEF Regenerated
<1>3. PICK f \in Finding : f = flow[s].f
  BY <1>1, <1>2 DEF Sound
<1>4. PICK c \in Candidates : cand' = [cand EXCEPT ![f] = c]
  BY <1>3 DEF Regenerated
<1>5. decision' = [decision EXCEPT ![f] = "pending"] /\ Invalidated(f)
  BY <1>3 DEF Regenerated
<1>6. /\ SessionType' /\ cand' \in [Finding -> Candidates \cup {None}]
      /\ \A g \in Finding : cand[g] # None => cand'[g] # None
      /\ \A g \in Finding : g # f => cand'[g] = cand[g]
      /\ Accepted' \subseteq Accepted
  BY <1>1, <1>2, <1>4, <1>5, Stored
<1>7. FlowType' /\ InFlight' /\ (Batching => Batching')
  <2>1. PICK to \in Commands : Moves(s, to) /\ Sound(to)
    BY <1>1, <1>2, GoesOnIs, IdleIs
  <2>2. QED
    BY <1>1, <1>2, <1>6, <2>1, MovesIs
<1>8. /\ WindowsType' /\ PipeType'
      /\ f \in open => doc'[f] = cand'[f]
      /\ \A g \in Finding : g # f => doc'[g] = doc[g]
  BY <1>1, <1>2, <1>5, <1>6, InvalidatedIs DEF PipeType
<1>9. LensType' /\ LensesAreTrue'
  BY <1>1, <1>2, <1>6, <1>8, RelensedIs DEF LensesRefreshed
<1>10. DiffsFollow
  BY <1>1, <1>6, <1>8 DEF DiffsFollow, WindowsType
<1>11. NoticesType' /\ DiagnosticsAreTrue' /\ Shows
  BY <1>2, <1>6, <1>7, <1>10, StoredIsShown
<1>12. QED
  BY <1>2, <1>6, <1>7, <1>8, <1>9, <1>11, TreeTold, Assembled

LEMMA PipelineRepairsKeeps ==
  ASSUME ReviewInv, PipelineRepairs
  PROVE  ReviewInv' /\ Shows
<1>1. SessionType /\ WindowsType /\ LensType /\ LensesAreTrue /\ FlowType /\ PipeType /\ InFlight
  BY Parts
<1>2. /\ UNCHANGED <<scan, decision, document, diagnostics, flow>>
      /\ TreeRefreshed /\ PipeOpens(OneDone) /\ LensesRefreshed
  BY DEF PipelineRepairs
<1>3. PICK f \in Finding, c \in Candidates : f \in pipe.left /\ cand' = [cand EXCEPT ![f] = c]
  BY <1>1 DEF PipelineRepairs, Smallest, PipeType, Pipes
<1>4. /\ SessionType' /\ cand' \in [Finding -> Candidates \cup {None}]
      /\ \A g \in Finding : cand[g] # None => cand'[g] # None
      /\ \A g \in Finding : g # f => cand'[g] = cand[g]
      /\ Accepted' \subseteq Accepted
  BY <1>1, <1>2, <1>3, Stored
<1>5. FlowType' /\ InFlight'
  BY <1>1, <1>2, <1>4, InFlightStays
<1>6. Batching => Batching'
  BY <1>2 DEF Batching
<1>7. PipeType' /\ WindowsType' /\ Rerendered
  BY <1>1, <1>2, <1>4, OneDoneIs, PipeOpensIs
<1>8. LensType' /\ LensesAreTrue'
  BY <1>1, <1>2, <1>4, <1>7, RelensedIs DEF LensesRefreshed
<1>9. DiffsFollow
  BY <1>1, <1>3, <1>4, <1>7 DEF DiffsFollow, Rerendered, Overtaken, WindowsType
<1>10. NoticesType' /\ DiagnosticsAreTrue' /\ Shows
  BY <1>2, <1>4, <1>6, <1>9, StoredIsShown
<1>11. QED
  BY <1>2, <1>4, <1>5, <1>7, <1>8, <1>10, TreeTold, Assembled

\* A decision is recorded; the candidates and the editors' windows stay.
LEMMA RejectKeeps ==
  ASSUME ReviewInv, NEW s \in Slots, NEW f \in Finding, NEW title \in BOOLEAN, Reject(s, f, title)
  PROVE  ReviewInv' /\ Shows
<1>1. /\ SessionType /\ WindowsType /\ LensType /\ LensesAreTrue /\ FlowType /\ PipeType /\ InFlight
  BY Parts
<1>2. /\ UNCHANGED <<scan, cand, document, diagnostics, editors, pipe>> /\ TreeRefreshed
      /\ decision' = [decision EXCEPT ![f] = "rejected"] /\ cand[f] # None
      /\ flow[s].pc = "idle"
      /\ Moves(s, IF title THEN Command("reason", f, title) ELSE Idle)
  BY DEF Reject, Given
<1>3. UNCHANGED <<open, active, preview, doc, lens>> /\ Rerendered
  BY <1>2 DEF editors, windows, Rerendered
<1>4. SessionType' /\ Accepted' \subseteq Accepted
  BY <1>1, <1>2 DEF SessionType, Accepted
<1>5. FlowType' /\ InFlight' /\ (Batching => Batching')
  <2>1. PICK to \in Commands : Moves(s, to) /\ Sound(to)
    BY <1>1, <1>2, CommandIs, IdleIs
  <2>2. QED
    BY <1>1, <1>2, <2>1, MovesIs
<1>6. WindowsType' /\ PipeType' /\ LensType' /\ LensesAreTrue'
  BY <1>1, <1>2, <1>3 DEF WindowsType, PipeType, LensType, LensesAreTrue
<1>7. DiffsFollow
  BY <1>2, <1>3 DEF DiffsFollow
<1>8. NoticesType' /\ DiagnosticsAreTrue' /\ Shows
  BY <1>2, <1>4, <1>5, <1>7, StoredIsShown
<1>9. QED
  BY <1>2, <1>4, <1>5, <1>6, <1>8, TreeTold, Assembled

\* An accept that has landed is recorded in its own session.
LEMMA RecordedIs ==
  ASSUME ReviewInv, NEW s \in Slots, NEW f \in Finding, IsLive(s) => cand[f] # None,
         Recorded(s, f), Invalidated(f), UNCHANGED <<open, active, preview, lens, pipe>>
  PROVE  /\ SessionType' /\ WindowsType' /\ LensType' /\ LensesAreTrue' /\ PipeType' /\ DiffsFollow
         /\ UNCHANGED <<scan, cand>>
         /\ edited' \in BOOLEAN /\ stale' \in BOOLEAN /\ timer' \in BOOLEAN
         /\ (stale' => stale /\ ~IsLive(s))
<1>1. SessionType /\ NoticesType /\ WindowsType /\ LensType /\ LensesAreTrue /\ PipeType
  BY Parts
<1>2. /\ UNCHANGED <<scan, cand>>
      /\ decision' = IF IsLive(s) THEN [decision EXCEPT ![f] = "accepted"] ELSE decision
      /\ edited' = ~IsLive(s) /\ timer' = TRUE /\ stale' = (stale /\ ~IsLive(s))
  BY DEF Recorded
<1>3. SessionType'
  BY <1>1, <1>2 DEF SessionType
<1>4. edited' \in BOOLEAN /\ timer' \in BOOLEAN
  BY <1>2 DEF IsLive
<1>5. stale' \in BOOLEAN /\ (stale' => stale /\ ~IsLive(s))
  BY <1>2
<1>6. cand' \in [Finding -> Candidates \cup {None}]
  BY <1>1, <1>2 DEF SessionType
<1>7. /\ WindowsType' /\ Rerendered
  BY <1>1, <1>6, InvalidatedIs
<1>8. LensType' /\ LensesAreTrue' /\ PipeType'
  BY <1>1, <1>2 DEF LensType, LensesAreTrue, PipeType
<1>9. DiffsFollow
  BY <1>2, <1>7 DEF DiffsFollow, Rerendered
<1>10. QED
  BY <1>2, <1>3, <1>4, <1>5, <1>7, <1>8, <1>9

LEMMA AcceptLandsKeeps ==
  ASSUME ReviewInv, NEW s \in Slots, AcceptLands(s)
  PROVE  ReviewInv' /\ Shows
<1>1. /\ SessionType /\ NoticesType /\ FlowType /\ InFlight
      /\ flow[s] \in Commands /\ Sound(flow[s])
  BY Parts, FlowIs
<1>2. /\ flow[s].pc = "applying" /\ DiagnosticsRefreshed /\ TreeRefreshed /\ AcceptReturns(s)
      /\ UNCHANGED <<open, active, preview, lens, pipe>>
  BY DEF AcceptLands
<1>3. PICK f \in Finding : f = flow[s].f
  BY <1>1, <1>2 DEF Sound
<1>4. Recorded(s, f) /\ Invalidated(f)
  BY <1>3 DEF AcceptLands
<1>5. IsLive(s) => cand[f] # None
  BY <1>1, <1>2, <1>3 DEF IsLive, Sound
<1>6. /\ SessionType' /\ WindowsType' /\ LensType' /\ LensesAreTrue' /\ PipeType' /\ DiffsFollow
      /\ UNCHANGED <<scan, cand>>
      /\ edited' \in BOOLEAN /\ stale' \in BOOLEAN /\ timer' \in BOOLEAN
      /\ (stale' => stale /\ ~IsLive(s))
  BY <1>2, <1>4, <1>5, RecordedIs
<1>7. PICK to \in Commands : Moves(s, to) /\ Sound(to) /\ to.pc \in {"idle", "closing"}
  BY <1>2, AcceptReturnsIs
<1>8. FlowType' /\ InFlight' /\ flow'[s] = to
  BY <1>1, <1>6, <1>7, MovesIs
<1>9. NoticesType' /\ DiagnosticsAreTrue'
  BY <1>2, <1>6, DiagnosticsTold DEF NoticesType
<1>10. flow'[s] # flow[s]
  BY <1>2, <1>7, <1>8
<1>11. StaleStaysShown
  BY <1>6, <1>10 DEF StaleStaysShown, LateSteps
<1>12. QED
  BY <1>2, <1>6, <1>8, <1>9, <1>11, TreeTold, Assembled DEF Shows

\* The batch: while it is under way the tree and the diagnostics wait for its end.
LEMMA BatchAcceptsKeeps ==
  ASSUME ReviewInv, NEW s \in Slots, BatchAccepts(s)
  PROVE  ReviewInv' /\ Shows
<1>1. /\ SessionType /\ NoticesType /\ WindowsType /\ LensType /\ LensesAreTrue /\ FlowType /\ PipeType
      /\ InFlight /\ flow[s] \in Commands /\ Sound(flow[s])
  BY Parts, FlowIs
<1>2. /\ flow[s].pc = "batch" /\ UNCHANGED <<tree, diagnostics, open, active, preview, lens, pipe>>
  BY DEF BatchAccepts
<1>3. PICK f \in flow[s].left :
        /\ Moves(s, [flow[s] EXCEPT !.left = @ \ {f}])
        /\ \/ UNCHANGED <<session, document, doc>>
           \/ Recorded(s, f) /\ Invalidated(f)
  BY DEF BatchAccepts, Smallest
<1>4. f \in Finding /\ (IsLive(s) => cand[f] # None)
  BY <1>1, <1>2 DEF Commands, Sound, IsLive
<1>5. /\ SessionType' /\ WindowsType' /\ LensType' /\ LensesAreTrue' /\ PipeType' /\ DiffsFollow
      /\ UNCHANGED <<scan, cand>>
      /\ edited' \in BOOLEAN /\ stale' \in BOOLEAN /\ timer' \in BOOLEAN
      /\ (stale' => stale)
  <2>1. CASE UNCHANGED <<session, document, doc>>
    <3>1. UNCHANGED <<scan, cand, decision, edited, stale, timer, doc>>
      BY <2>1 DEF session, document
    <3>2. SessionType' /\ DiffsFollow
      BY <1>1, <3>1 DEF SessionType, DiffsFollow
    <3>3. WindowsType' /\ LensType' /\ LensesAreTrue' /\ PipeType'
      BY <1>1, <1>2, <3>1 DEF WindowsType, LensType, LensesAreTrue, PipeType
    <3>4. QED
      BY <1>1, <3>1, <3>2, <3>3 DEF NoticesType
  <2>2. CASE Recorded(s, f) /\ Invalidated(f)
    BY <1>2, <1>4, <2>2, RecordedIs
  <2>3. QED
    BY <1>3, <2>1, <2>2
<1>6. PICK to : to = [flow[s] EXCEPT !.left = @ \ {f}]
  OBVIOUS
<1>7. /\ to \in Commands /\ to.pc = "batch" /\ to.at = flow[s].at /\ to.left = flow[s].left \ {f}
      /\ to.then = flow[s].then /\ to.next = flow[s].next
  BY <1>1, <1>2, <1>6 DEF Commands
<1>8. Sound(to)
  BY <1>1, <1>2, <1>7 DEF Sound
<1>9. FlowType' /\ InFlight' /\ flow'[s] = to
  BY <1>1, <1>3, <1>5, <1>6, <1>7, <1>8, MovesIs
<1>10. Batching'
  BY <1>7, <1>9 DEF Batching
<1>11. NoticesType' /\ TreeIsTrue' /\ DiagnosticsAreTrue'
  BY <1>1, <1>2, <1>5, <1>10 DEF NoticesType, TreeIsTrue, DiagnosticsAreTrue, diagnostics
<1>12. StaleStaysShown
  BY <1>1, <1>2, <1>5 DEF StaleStaysShown, diagnostics, NoticesType
<1>13. QED
  BY <1>5, <1>9, <1>11, <1>12, Assembled DEF Shows

LEMMA BatchEndsKeeps ==
  ASSUME ReviewInv, NEW s \in Slots, BatchEnds(s)
  PROVE  ReviewInv' /\ Shows
<1>1. SessionType /\ NoticesType /\ WindowsType /\ LensType /\ LensesAreTrue /\ FlowType /\ PipeType /\ InFlight
  BY Parts
<1>2. /\ flow[s].pc = "batch" /\ UNCHANGED <<session, document, editors, pipe>>
      /\ DiagnosticsRefreshed /\ TreeRefreshed /\ Ends(s)
  BY DEF BatchEnds
<1>3. UNCHANGED <<scan, cand, decision, edited, stale, timer, open, active, preview, doc, lens, pipe>>
  BY <1>2 DEF session, document, editors, windows
<1>4. FlowType' /\ InFlight' /\ flow'[s] = Idle
  BY <1>1, <1>2, <1>3, MovesIs, IdleIs DEF Ends
<1>5. SessionType' /\ WindowsType' /\ LensType' /\ LensesAreTrue' /\ PipeType' /\ DiffsFollow
  BY <1>1, <1>3 DEF SessionType, WindowsType, LensType, LensesAreTrue, PipeType, DiffsFollow
<1>6. NoticesType' /\ DiagnosticsAreTrue'
  BY <1>1, <1>2, <1>3, DiagnosticsTold DEF NoticesType
<1>7. flow'[s] # flow[s]
  BY <1>1, <1>2, <1>4, IdleIs
<1>8. StaleStaysShown
  BY <1>1, <1>2, <1>3, <1>7 DEF StaleStaysShown, LateSteps, NoticesType
<1>9. QED
  BY <1>2, <1>4, <1>5, <1>6, <1>8, TreeTold, Assembled DEF Shows

\* A rescan: the commands under way are from an earlier session now.
LEMMA RescannedKeeps ==
  ASSUME ReviewInv, Rescanned
  PROVE  ReviewInv' /\ Shows
<1>1. SessionType /\ NoticesType /\ WindowsType /\ LensType /\ LensesAreTrue /\ FlowType /\ PipeType /\ InFlight
  BY Parts
<1>2. /\ scan < MaxScans /\ scan' = scan + 1
      /\ cand' = [f \in Finding |-> None] /\ decision' = [f \in Finding |-> "pending"]
      /\ edited' = FALSE /\ stale' = FALSE /\ timer' = timer
      /\ notice' = FALSE /\ hidden' = {}
      /\ UNCHANGED <<open, active, preview, flow>>
      /\ doc' = [f \in Finding |-> IF f \in open THEN Old ELSE None]
      /\ LensesRefreshed /\ TreeRefreshed
  BY DEF Rescanned
<1>3. scan' \in 1 .. MaxScans /\ scan' \in 0 .. MaxScans /\ scan' > scan /\ scan' # scan
  BY <1>1, <1>2, QueueAssumption DEF SessionType
<1>4. SessionType' /\ cand' \in [Finding -> Candidates \cup {None}]
  BY <1>2, <1>3 DEF SessionType
<1>5. NoticesType' /\ DiagnosticsAreTrue' /\ Shows
  <2>1. Accepted' = {}
    BY <1>2 DEF Accepted
  <2>2. NoticesType' /\ DiagnosticsAreTrue'
    BY <1>1, <1>2, <2>1 DEF NoticesType, DiagnosticsAreTrue
  <2>3. DiffsFollow /\ StaleStaysShown
    BY <1>2, <1>3 DEF DiffsFollow, StaleStaysShown
  <2>4. QED
    BY <2>2, <2>3 DEF Shows
<1>6. ASSUME NEW s \in Slots PROVE Sound(flow[s])'
  <2>1. PICK c \in Commands : c = flow[s] /\ Sound(c)
    BY <1>1 DEF FlowType, InFlight
  <2>2. c.at < scan'
    BY <1>1, <1>3, <2>1 DEF Commands, Sound, SessionType
  <2>3. QED
    BY <1>1, <1>2, <1>3, <2>1, <2>2 DEF Sound, Commands
<1>7. FlowType' /\ InFlight'
  BY <1>1, <1>2, <1>6 DEF FlowType, InFlight
<1>8. WindowsType'
  BY <1>1, <1>2 DEF WindowsType
<1>9. LensType' /\ LensesAreTrue'
  BY <1>1, <1>2, <1>4, <1>8, RelensedIs DEF LensesRefreshed
<1>10. PipeType'
  <2>1. pipe' \in {pipe, NoPipe, [NoPipe EXCEPT !.pc = "planning", !.at = scan']}
    BY DEF Rescanned
  <2>2. NoPipe \in Pipes
    BY <1>1, PipesAre DEF PipeType
  <2>3. [NoPipe EXCEPT !.pc = "planning", !.at = scan'] \in Pipes
    BY <1>3, <2>2 DEF Pipes
  <2>4. QED
    BY <1>1, <2>1, <2>2, <2>3 DEF PipeType
<1>11. QED
  BY <1>2, <1>4, <1>5, <1>7, <1>8, <1>9, <1>10, TreeTold, Assembled

\* The reviewer types, and later the flag is brought up to date.
LEMMA DocumentSteps ==
  ASSUME ReviewInv, Type \/ StaleCheck
  PROVE  ReviewInv' /\ Shows
<1>1. /\ SessionType /\ NoticesType /\ WindowsType /\ LensType /\ LensesAreTrue /\ FlowType /\ PipeType
      /\ InFlight /\ TreeIsTrue /\ DiagnosticsAreTrue
  BY Parts
<1>2. UNCHANGED <<session, editors, flow, pipe>>
  BY DEF Type, StaleCheck
<1>3. UNCHANGED <<scan, cand, decision, open, active, preview, doc, lens, flow, pipe>>
  BY <1>2 DEF session, editors, windows
<1>4. FlowType' /\ InFlight' /\ (Batching => Batching')
  BY <1>3, FlowStays
<1>5. SessionType' /\ WindowsType' /\ LensType' /\ LensesAreTrue' /\ PipeType' /\ DiffsFollow /\ Rerendered
  BY <1>1, <1>3
  DEF SessionType, WindowsType, LensType, LensesAreTrue, PipeType, DiffsFollow, Rerendered
<1>6. CASE Type
  <2>1. UNCHANGED <<stale, tree, notice, hidden>> /\ edited' \in BOOLEAN /\ timer' = TRUE
    BY <1>6 DEF Type, diagnostics
  <2>2. NoticesType'
    BY <1>1, <2>1 DEF NoticesType
  <2>3. QED
    BY <1>3, <1>4, <1>5, <2>1, <2>2, QuietKeeps
<1>7. CASE StaleCheck
  <2>1. stale' = edited /\ edited' = edited /\ timer' = FALSE
    BY <1>7 DEF StaleCheck
  <2>2. CASE stale = edited
    <3>1. UNCHANGED <<stale, tree, notice, hidden>>
      BY <1>7, <2>1, <2>2 DEF StaleCheck, diagnostics
    <3>2. NoticesType'
      BY <1>1, <2>1, <3>1 DEF NoticesType
    <3>3. QED
      BY <1>3, <1>4, <1>5, <3>1, <3>2, QuietKeeps
  <2>3. CASE stale # edited /\ edited
    <3>1. notice' = TRUE /\ hidden' = hidden /\ TreeRefreshed
      BY <1>7, <2>3 DEF StaleCheck
    <3>2. NoticesType' /\ DiagnosticsAreTrue' /\ StaleStaysShown
      BY <1>1, <2>1, <2>3, <3>1 DEF NoticesType, DiagnosticsAreTrue, StaleStaysShown
    <3>3. QED
      BY <1>4, <1>5, <3>1, <3>2, TreeTold, Assembled DEF Shows
  <2>4. CASE stale # edited /\ ~edited
    <3>1. DiagnosticsRefreshed /\ TreeRefreshed
      BY <1>7, <2>4 DEF StaleCheck
    <3>2. NoticesType' /\ DiagnosticsAreTrue' /\ StaleStaysShown
      BY <1>1, <2>1, <2>4, <3>1, DiagnosticsTold DEF NoticesType, StaleStaysShown
    <3>3. QED
      BY <1>4, <1>5, <3>1, <3>2, TreeTold, Assembled DEF Shows
  <2>5. QED
    BY <2>2, <2>3, <2>4
<1>8. QED
  BY <1>6, <1>7

(***************************************************************************)
(* The theorems.                                                           *)
(***************************************************************************)
LEMMA ReviewInit == Init => ReviewInv
<1> SUFFICES ASSUME Init PROVE ReviewInv
  OBVIOUS
<1> USE QueueAssumption
<1>1. SessionType /\ NoticesType /\ WindowsType /\ LensType
  <2>1. 1 \in 1 .. MaxScans
    OBVIOUS
  <2>2. SessionType
    BY <2>1 DEF Init, SessionType
  <2>3. NoticesType /\ WindowsType /\ LensType
    BY DEF Init, NoticesType, WindowsType, LensType
  <2>4. QED
    BY <2>2, <2>3
<1>2. FlowType /\ InFlight
  BY <1>1, IdleIs DEF Init, FlowType, InFlight
<1>3. PipeType
  <2>1. 0 \in 0 .. MaxScans /\ 1 \in 0 .. MaxScans
    BY <1>1 DEF SessionType
  <2>2. NoPipe \in Pipes
    BY <2>1 DEF NoPipe, Pipes
  <2>3. [NoPipe EXCEPT !.pc = "planning", !.at = 1] \in Pipes
    BY <2>1, <2>2 DEF Pipes
  <2>4. QED
    BY <2>2, <2>3 DEF Init, PipeType
<1>4. ShownIsTrue
  BY DEF Init, ShownIsTrue, TreeIsTrue, LensesAreTrue, DiagnosticsAreTrue, Accepted
<1>5. QED
  BY <1>1, <1>2, <1>3, <1>4, TypeParts DEF ReviewInv

LEMMA ReviewStep == ReviewInv /\ Next => ReviewInv' /\ Shows
<1> SUFFICES ASSUME ReviewInv, Next PROVE ReviewInv' /\ Shows
  OBVIOUS
<1>1. CASE PipelineStarts \/ PipelineGoesOn \/ PipelineFails \/ PipelineBreaks \/ PipelineEnds
  BY <1>1, PipelineSteps
<1>2. CASE PipelineRepairs
  BY <1>2, PipelineRepairsKeeps
<1>3. CASE Rescanned
  BY <1>3, RescannedKeeps
<1>4. CASE Type \/ StaleCheck
  BY <1>4, DocumentSteps
<1>5. CASE Focus \/ CloseEditor \/ Pin \/ \E f \in Finding : ShowDiff(f)
  BY <1>5, ReviewerSteps
<1>6. ASSUME NEW s \in Slots, Closes(s) \/ OpensNext(s) \/ Repaired(s) PROVE ReviewInv' /\ Shows
  BY <1>6, DiffSteps
<1>7. ASSUME NEW s \in Slots,
             NextDiff(s) \/ AcceptFails(s) \/ ReasonAsked(s) \/ NotRepaired(s) \/ AcceptAll(s)
      PROVE  ReviewInv' /\ Shows
  BY <1>7, QuietSteps
<1>8. ASSUME NEW s \in Slots, NEW f \in Finding, Generate(s, f) PROVE ReviewInv' /\ Shows
  BY <1>8, QuietSteps
<1>9. ASSUME NEW s \in Slots, NEW f \in Finding, NEW title \in BOOLEAN,
             Accept(s, f, title) \/ Regenerate(s, f, title)
      PROVE  ReviewInv' /\ Shows
  BY <1>9, QuietSteps
<1>10. ASSUME NEW s \in Slots, NEW f \in Finding, NEW title \in BOOLEAN, Reject(s, f, title)
       PROVE  ReviewInv' /\ Shows
  BY <1>10, RejectKeeps
<1>11. ASSUME NEW s \in Slots,
              AcceptLands(s) \/ Generated(s) \/ Regenerated(s) \/ BatchAccepts(s) \/ BatchEnds(s)
       PROVE  ReviewInv' /\ Shows
  BY <1>11, AcceptLandsKeeps, GeneratedKeeps, RegeneratedKeeps, BatchAcceptsKeeps, BatchEndsKeeps
<1>12. QED
  BY <1>1, <1>2, <1>3, <1>4, <1>5, <1>6, <1>7, <1>8, <1>9, <1>10, <1>11 DEF Next

LEMMA ReviewStays == ReviewInv /\ UNCHANGED vars => ReviewInv'
<1> SUFFICES ASSUME ReviewInv, UNCHANGED vars PROVE ReviewInv'
  OBVIOUS
<1>1. UNCHANGED <<session, document, tree, diagnostics, scan, cand, flow, pipe>> /\ UNCHANGED editors
  BY DEF vars, session
<1>2. FlowType' /\ InFlight' /\ (Batching => Batching')
  BY <1>1, FlowStays
<1>3. WindowsType' /\ Rerendered /\ PipeType'
  BY <1>1, Parts, WindowsStay DEF editors, PipeType
<1>4. LensType' /\ LensesAreTrue'
  BY <1>1, Parts DEF editors, windows, LensType, LensesAreTrue
<1>5. QED
  BY <1>1, <1>2, <1>3, <1>4, EditorsKeep

LEMMA ReviewAlways == Spec => []ReviewInv
<1>1. ReviewInv /\ [Next]_vars => ReviewInv'
  BY ReviewStep, ReviewStays
<1>2. QED
  BY <1>1, ReviewInit, PTL DEF Spec

\* The types, and that a finding without a candidate has not been decided.
THEOREM ReviewTypeCorrect == Spec => []ReviewTypeOK
<1>1. ReviewInv => ReviewTypeOK
  BY DEF ReviewInv
<1>2. QED
  BY <1>1, ReviewAlways, PTL

\* The tree, the lenses and the diagnostics are those of the session there is, whatever was
\* under way when it came: every command refreshes by hand what its step makes untrue, and
\* only a batch leaves that to its end (tree.refresh, validationLens.refresh,
\* refreshDiagnosticsExcludingAccepted).
THEOREM ShownAlwaysTrue == Spec => []ShownIsTrue
<1>1. ReviewInv => ShownIsTrue
  BY DEF ReviewInv
<1>2. QED
  BY <1>1, ReviewAlways, PTL

\* An open diff follows its proposal, and the notice of stale results stays, with the
\* exceptions the property names (contentProvider.invalidate, setStaleDiagnostic).
THEOREM ShowingAlwaysKept == Spec => ShowingIsKept
<1>1. ReviewInv /\ [Next]_vars => [DiffsFollow /\ StaleStaysShown]_vars
  BY ReviewStep DEF Shows
<1>2. QED
  BY <1>1, ReviewAlways, PTL DEF Spec, ShowingIsKept
=============================================================================
