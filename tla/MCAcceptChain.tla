---------------------------- MODULE MCAcceptChain ----------------------------
(***************************************************************************)
(* Hunk shapes for AcceptChain.  A replacement has one or two lines of its *)
(* candidate's own; starts, counts and lengths are enumerated in full.     *)
(***************************************************************************)
EXTENDS AcceptChain, TLC

CONSTANTS MaxLines,     \* lines of Original C, without the final newline
          MaxText,      \* lines of a replacement text
          FinalNewline, \* may Original C end in a newline; may it not
          Kinds         \* of the shapes below

TextLines(n) == [i \in 1..n |-> <<ToString(i)>>]
MCOriginals ==
  {IF nl THEN Append(TextLines(MaxLines), Blank) ELSE TextLines(MaxLines) : nl \in FinalNewline}

MCFragments ==
  {ToString(i) : i \in 1..MaxLines} \cup {ToString(i) : i \in 1..MaxText}
    \cup Candidates \cup IncludeFragments

\* The lines candidate c writes.
TextOf(c, k) == [i \in 1..k |-> <<c, ToString(i)>>]

\* What difflib yields: an insertion before any line a final newline leaves
\* room for, or a replacement of lines that exist.
Inserts(c, text) ==
  {[start |-> s, count |-> 0, repl |-> TextOf(c, k)] : s \in 1..Len(text), k \in 1..MaxText}
Replaces(c) ==
  {[start |-> r[1], count |-> r[2], repl |-> TextOf(c, r[3])] :
     r \in {q \in (1..MaxLines) \X (1..MaxLines) \X (1..MaxText) : q[1] + q[2] - 1 <= MaxLines}}
Deletions ==
  {[start |-> r[1], count |-> r[2], repl |-> <<Blank>>] :
     r \in {q \in (1..MaxLines) \X (1..MaxLines) : q[1] + q[2] - 1 <= MaxLines}}
\* Below the last line.  Behind a final newline difflib puts it there when an empty
\* line further up matched the last one.
AppendAtEnd(c, text) ==
  {[start |-> Len(text) + 1, count |-> 0, repl |-> TextOf(c, 1)]}
\* An inserted header every candidate may bring, before line 1 or line 2.
Headers == {[start |-> s, count |-> 0, repl |-> <<<<"#include">>>>] : s \in {1, 2}}

HunksOf(c, text) ==
  UNION {IF "insert" \in Kinds THEN Inserts(c, text) ELSE {},
         IF "replace" \in Kinds THEN Replaces(c) ELSE {},
         IF "delete" \in Kinds THEN Deletions ELSE {},
         IF "append" \in Kinds THEN AppendAtEnd(c, text) ELSE {}}

\* Two hunks of one candidate come in order and leave a line between them; only an
\* #include hunk comes last, wherever it goes.
Pairs(S) ==
  LET short == {h \in S : Len(h.repl) = 1}
  IN {<<p[1], p[2]>> : p \in {q \in short \X short : q[1].start + q[1].count < q[2].start}}

MCShapes(c, text) ==
  LET S == HunksOf(c, text)
      heads == {<<i>> : i \in Headers}
      fixes == UNION {{<<i, h>>, <<h, i>>} : i \in Headers, h \in {r \in Replaces(c) : r.start > 2}}
  IN UNION {{<<h>> : h \in S},
            IF "pairs" \in Kinds THEN Pairs(S) ELSE {},
            IF "headers" \in Kinds THEN heads \cup fixes ELSE {}}

\* The proof that no #include comes twice takes this of the candidates.
ASSUME MCIncludesOnce == IncludesOnce
=============================================================================
