------------------------------- MODULE Patches -------------------------------
(***************************************************************************)
(* The patch arithmetic every part of C Repair shares: the hunk, conflict  *)
(* and composition functions of packages/core/src/patches.js, the          *)
(* translation of a hunk into an edit of a live document (ui/model.ts),    *)
(* the #include filter (apply/dedupeIncludes.ts) and what VS Code does     *)
(* with the edits it is given.                                             *)
(*                                                                         *)
(* A text is the sequence of lines that split('\n') returns, so a text     *)
(* that ends in a newline has Blank as its last line.  A line is a         *)
(* sequence of fragments: Blank is the empty one, and gluing two lines is  *)
(* \o.  A hunk is [start, count, repl] in Original C coordinates           *)
(* (1-indexed); repl is replacement_text.split('\n'), so the empty text is *)
(* <<Blank>>.                                                              *)
(***************************************************************************)
EXTENDS Integers, Sequences, SequencesExt

CONSTANT IncludeFragments   \* the fragments that start an #include line

Blank == << >>

\* CONTRACT §2.4: start_line and line_count are integers, 1-indexed.  Lines are made of
\* the fragments F.
HunkShape(F) == [start : Nat \ {0}, count : Nat, repl : Seq(Seq(F)) \ {<< >>}]

IsInclude(line) == line # Blank /\ Head(line) \in IncludeFragments

(***************************************************************************)
(* Occupied ranges and conflicts.                                          *)
(***************************************************************************)
HunkRange(h) ==
  IF h.count = 0
  THEN [start |-> h.start, end |-> h.start, insert |-> TRUE]
  ELSE [start |-> h.start, end |-> h.start + h.count - 1, insert |-> FALSE]

\* Mutant: an insertion above the last line of a replacement is let through.
RangesIntersectButLast(a, b) ==
  \/ a.insert /\ b.insert /\ a.start = b.start
  \/ a.insert /\ ~b.insert /\ a.start > b.start /\ a.start < b.end
  \/ ~a.insert /\ b.insert /\ b.start > a.start /\ b.start < a.end
  \/ ~a.insert /\ ~b.insert /\ a.start <= b.end /\ b.start <= a.end

RangesIntersect(a, b) ==
  \/ a.insert /\ b.insert /\ a.start = b.start
  \/ a.insert /\ ~b.insert /\ a.start > b.start /\ a.start <= b.end
  \/ ~a.insert /\ b.insert /\ b.start > a.start /\ b.start <= a.end
  \/ ~a.insert /\ ~b.insert /\ a.start <= b.end /\ b.start <= a.end

HunksConflict(ha, hb) == RangesIntersect(HunkRange(ha), HunkRange(hb))

\* Candidates are given by their hunk sequences.
CandidatesConflict(cA, cB) ==
  \E i \in DOMAIN cA, j \in DOMAIN cB : HunksConflict(cA[i], cB[j])

(***************************************************************************)
(* applyHunks: splice the hunks into the text, lowest in the file first.   *)
(***************************************************************************)
IsDeletion(h) == h.repl = <<Blank>> /\ h.count > 0

NewLines(h) == IF IsDeletion(h) THEN << >> ELSE h.repl

\* lines.splice(idx, n, ...repl): both indices are clamped to the array.
Splice(lines, idx, n, repl) ==
  SubSeq(lines, 1, IF idx < Len(lines) THEN idx ELSE Len(lines))
    \o repl \o SubSeq(lines, idx + n + 1, Len(lines))

\* Array.prototype.sort is stable: e goes before the first element that has not
\* to stay ahead of it.
PutBehind(s, e, ahead) ==
  InsertAt(s, Min((1..Len(s) + 1) \ {i \in DOMAIN s : <<s[i], e>> \in ahead}), e)

SortedBy(s, ahead) == FoldLeft(LAMBDA sorted, e : PutBehind(sorted, e, ahead), << >>, s)

\* Mutant: the first hunk of the file comes first.
AscendingByStart(hunks) ==
  SortedBy(hunks, {p \in ToSet(hunks) \X ToSet(hunks) : p[1].start <= p[2].start})

\* The stable sort by descending start_line.
DescendingByStart(hunks) ==
  SortedBy(hunks, {p \in ToSet(hunks) \X ToSet(hunks) : p[1].start >= p[2].start})

PutIn(text, h) == Splice(text, h.start - 1, h.count, NewLines(h))

ApplyHunks(lines, hunks) == FoldLeft(PutIn, lines, DescendingByStart(hunks))

(***************************************************************************)
(* Offsets: the same hunk on a document other candidates already changed.  *)
(***************************************************************************)
HunkLineDelta(h) == Len(NewLines(h)) - h.count

\* Mutant: an insertion does not move the line it is put above.
LiesStrictlyAbove(h, startLine) ==
  LET r == HunkRange(h)
  IN IF r.insert THEN r.start < startLine ELSE r.end < startLine

\* An accepted hunk that lies above a line moves it; an insertion at the line
\* itself counts as above it.
LiesAbove(h, startLine) ==
  LET r == HunkRange(h)
  IN IF r.insert THEN r.start <= startLine ELSE r.end < startLine

LineShift(h, startLine) ==
  IF LiesAbove(h, startLine) THEN HunkLineDelta(h) ELSE 0

LineOffsetForStart(startLine, acceptedHunks) ==
  FoldLeft(LAMBDA off, h : off + LineShift(h, startLine), 0, acceptedHunks)

\* Rows are 0-indexed; every edit runs from the start of a row to the start of
\* a row, and its text always ends in a newline.
HunkToEditRange(h, offset) ==
  LET row == h.start - 1 + offset
  IN [startLine |-> row, endLine |-> row + h.count,
      text |-> h.repl \o <<Blank>>, insert |-> h.count = 0]

CandidateToEditRanges(hunks, acceptedHunks) ==
  [i \in DOMAIN hunks |->
     HunkToEditRange(hunks[i], LineOffsetForStart(hunks[i].start, acceptedHunks))]

(***************************************************************************)
(* dedupeIncludes: an #include line the document has is not inserted again *)
(***************************************************************************)
\* SelectSeq by its result: the prover has no definition of the standard operator.
Where(s, Test(_)) ==
  FlattenSeq([i \in DOMAIN s |-> IF Test(s[i]) THEN <<s[i]>> ELSE << >>])

DedupeIncludes(hunks, doc) ==
  LET Present(line) == IsInclude(line) /\ Contains(doc, line)
      Kept(h) == IF h.count # 0 THEN h.repl
                 ELSE Where(h.repl, LAMBDA line : ~Present(line))
      Dropped(h) == Kept(h) # h.repl /\ \A i \in DOMAIN Kept(h) : Kept(h)[i] = Blank
      survivors == Where(hunks, LAMBDA h : ~Dropped(h))
  IN [i \in DOMAIN survivors |-> [survivors[i] EXCEPT !.repl = Kept(survivors[i])]]

(***************************************************************************)
(* VS Code: validateRange moves a position below the last line to its end, *)
(* and a WorkspaceEdit applies all its edits to the text it was built for. *)
(***************************************************************************)
ApplyTextEdit(doc, e) ==
  LET n      == Len(doc)
      before == IF e.startLine < n THEN SubSeq(doc, 1, e.startLine)
                                   ELSE SubSeq(doc, 1, n - 1)
      head   == IF e.startLine < n THEN Blank ELSE doc[n]
      tail   == IF e.endLine < n THEN SubSeq(doc, e.endLine + 1, n) ELSE <<Blank>>
  IN before \o <<head \o Head(e.text)>> \o SubSeq(e.text, 2, Len(e.text) - 1) \o tail

\* Bottom-up, so that no edit moves another; of two edits that start together
\* the insertion ends up above, and insertions keep their order.
BottomUp(edits) ==
  SortedBy(edits, {p \in ToSet(edits) \X ToSet(edits) :
                     \/ p[1].startLine > p[2].startLine
                     \/ p[1].startLine = p[2].startLine /\ ~p[1].insert /\ p[2].insert})

ApplyWorkspaceEdit(doc, edits) ==
  FoldLeft(ApplyTextEdit, doc, BottomUp(edits))

(***************************************************************************)
(* The reference: Original C with a set of hunks put in, line by line.     *)
(***************************************************************************)
Covers(h, i) == h.count > 0 /\ h.start <= i /\ i < h.start + h.count

TextOfOne(hunks) == IF hunks = {} THEN << >> ELSE NewLines(CHOOSE h \in hunks : TRUE)

InsertedAt(hunks, i) == TextOfOne({h \in hunks : h.count = 0 /\ h.start = i})

ReplacedAt(hunks, i) == TextOfOne({h \in hunks : h.count > 0 /\ h.start = i})

\* What becomes of line i of the original, or of the place below its last one.
Row(original, hunks, i) ==
  InsertedAt(hunks, i) \o ReplacedAt(hunks, i)
    \o (IF i > Len(original) \/ \E h \in hunks : Covers(h, i) THEN << >> ELSE <<original[i]>>)

Rows(original, hunks, n) == FlattenSeq([i \in 1..n |-> Row(original, hunks, i)])

Compose(original, hunks) == Rows(original, hunks, Len(original) + 1)
=============================================================================
