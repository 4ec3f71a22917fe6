----------------------------- MODULE AcceptChain -----------------------------
(***************************************************************************)
(* Accepting repair candidates one after another on the live document,     *)
(* with nothing else happening: the offset chain of VSCODE_V1B_DESIGN §5.  *)
(* Every candidate's hunks are in Original C coordinates; an accept moves  *)
(* them by what the earlier accepts inserted and removed above them, so    *)
(* the order in which candidates are accepted must not matter.  One step   *)
(* is one whole accept: guard, #include filter, offsets, WorkspaceEdit and *)
(* decision (ReviewSession takes it apart).                                *)
(***************************************************************************)
EXTENDS Patches, FiniteSets

CONSTANTS Candidates,   \* candidate ids
          Fragments,    \* what lines are made of
          Originals,    \* the texts that may have been scanned
          Shapes(_, _)  \* Shapes(c, text): the hunk sequences c may have on text

\* A text has at least one line.  The hunks of a candidate are the unequal blocks of
\* one difflib run over the lines of the text (adapter/repair.py, _diff_to_hunks),
\* perhaps with an #include hunk behind them that is left out when it meets another
\* (_include_hunk_overlaps): they stay within the text, or go below its last line,
\* and no two of them conflict.
ASSUME ShapesAssumption ==
  \A text \in Originals :
    /\ text \in Seq(Seq(Fragments)) /\ text # << >>
    /\ \A c \in Candidates : \A hs \in Shapes(c, text) :
         /\ hs \in Seq(HunkShape(Fragments))
         /\ \A i \in DOMAIN hs : hs[i].start + hs[i].count <= Len(text) + 1
         /\ \A i, j \in DOMAIN hs : i # j => ~HunksConflict(hs[i], hs[j])

VARIABLES original,     \* the snapshot the candidates were generated for
          hunks,        \* candidate -> its hunks
          accepted,     \* the accepted candidates, in the order of acceptance
          landed,       \* history: the hunks the editor was given, of all accepts
          doc           \* the live document
vars == <<original, hunks, accepted, landed, doc>>

Init == /\ original \in Originals
        /\ hunks \in {f \in [Candidates -> UNION {Shapes(c, original) : c \in Candidates}] :
                        \A c \in Candidates : f[c] \in Shapes(c, original)}
        /\ accepted = << >>
        /\ landed = << >>
        /\ doc = original

AcceptedHunks == FlattenSeq([i \in DOMAIN accepted |-> hunks[accepted[i]]])

\* D-004: first accepted wins; a candidate that meets an accepted one is refused.
NoConflict(c) ==
  \A i \in DOMAIN accepted : ~CandidatesConflict(hunks[c], hunks[accepted[i]])

\* Mutant: the filter looks at the scanned text.
AcceptFilteredBySnapshot(c) ==
  LET kept == DedupeIncludes(hunks[c], original)
  IN /\ ~Contains(accepted, c)
     /\ NoConflict(c)
     /\ doc' = ApplyWorkspaceEdit(doc, CandidateToEditRanges(kept, AcceptedHunks))
     /\ landed' = landed \o kept
     /\ accepted' = Append(accepted, c)
     /\ UNCHANGED <<original, hunks>>

\* applyCandidate: the filter looks at the document as it is now, and nothing is
\* sent to the editor when it leaves nothing.
Accept(c) ==
  LET kept == DedupeIncludes(hunks[c], doc)
  IN /\ ~Contains(accepted, c)
     /\ NoConflict(c)
     /\ doc' = IF kept = << >> THEN doc
               ELSE ApplyWorkspaceEdit(doc, CandidateToEditRanges(kept, AcceptedHunks))
     /\ landed' = landed \o kept
     /\ accepted' = Append(accepted, c)
     /\ UNCHANGED <<original, hunks>>

Next == \E c \in Candidates : Accept(c)

Spec == Init /\ [][Next]_vars
-----------------------------------------------------------------------------
TypeOK == /\ original \in Originals
          /\ DOMAIN hunks = Candidates
          /\ accepted \in Seq(Candidates)

\* D-004: of any two hunks of different accepted candidates exactly one lies above
\* the other in Original C, at every line the offsets are computed for
\* (rangesIntersect against lineOffsetForStart): the shift of one by the other is
\* never counted twice and never lost, in whatever order they were accepted.
AcceptedOrdered ==
  \A i, j \in DOMAIN accepted : i # j =>
    \A a \in ToSet(hunks[accepted[i]]), b \in ToSet(hunks[accepted[j]]) :
      LiesAbove(a, b.start) # LiesAbove(b, a.start)

\* README:5, "the output is always Original C + accepted patches": whatever the
\* order of the accepts, the offsets computed from the hunks alone put every
\* accepted hunk where Original C has its lines (lineOffsetForStart,
\* hunkToEditRange, toTextEdit).  What the #include filter drops is not put in.
OutputIsComposition == doc = Compose(original, ToSet(landed))

\* The cases in which the code does not keep it: a hunk that deletes lines, a
\* candidate of which the #include filter dropped a hunk or a line, and a hunk that
\* takes the last line of the text or goes below it (the last line is the empty one
\* behind a final newline; without that, the last line of code).
SomeDeletion == \E i \in DOMAIN landed : IsDeletion(landed[i])
SomeDropped == landed # AcceptedHunks
EndReached == \E i \in DOMAIN landed : landed[i].start + landed[i].count > Len(original)

\* In every other case it does.
OutputIsCompositionElsewhere ==
  SomeDeletion \/ SomeDropped \/ EndReached \/ OutputIsComposition

\* An insertion above the first line of a replacement is no conflict for
\* rangesIntersect; both then start at the same line.
SharedStart ==
  \E i, j \in DOMAIN AcceptedHunks : i # j /\ AcceptedHunks[i].start = AcceptedHunks[j].start

\* The export (STATE_MODEL §6) applies all accepted hunks to the snapshot in one
\* go, in descending order of start_line, "so that no offset is needed"; the order
\* decides unless two hunks start together.
ExportIsCompositionElsewhere ==
  SharedStart \/ ApplyHunks(original, AcceptedHunks) = Compose(original, ToSet(AcceptedHunks))

\* No #include line comes twice in a text.
OnceEach(text) ==
  \A i, j \in DOMAIN text : IsInclude(text[i]) /\ text[i] = text[j] => i = j

\* D-026: accepting candidates that bring the same #include one after another
\* leaves the document with one copy of it, also when one of them moved the other.
NoDuplicateInclude == OnceEach(doc)

\* The #include lines of a candidate are inserted and not written over other lines
\* (the filter only looks at insertions), each of them once.
BringsOnce(hs) ==
  \A i \in DOMAIN hs : \A k \in DOMAIN hs[i].repl : IsInclude(hs[i].repl[k]) =>
    /\ hs[i].count = 0
    /\ \A j \in DOMAIN hs : \A m \in DOMAIN hs[j].repl :
         hs[j].repl[m] = hs[i].repl[k] => j = i /\ m = k

\* What NoDuplicateInclude takes for granted: the scanned text has no #include twice
\* and none on an unfinished last line, and the candidates bring theirs once.
IncludesOnce ==
  \A text \in Originals :
    /\ OnceEach(text) /\ ~IsInclude(text[Len(text)])
    /\ \A c \in Candidates : \A hs \in Shapes(c, text) : BringsOnce(hs)
=============================================================================
