--------------------------- MODULE MCReviewSession ---------------------------
(***************************************************************************)
(* A scanned file of three lines and the candidates of its two or three    *)
(* findings.                                                               *)
(***************************************************************************)
EXTENDS ReviewSession

MCOriginal == << <<"1">>, <<"2">>, <<"3">>, Blank >>
MCUserLine == <<"typed">>
Include == <<"#include">>
MCFragments == {"#include", "1", "2", "3", "a", "b", "c", "d", "e", "g"}

MCLine == [f \in Findings |-> CASE f = "f1" -> 2 [] f = "f2" -> 3 [] f = "f3" -> 4]
MCId   == [f \in Findings |-> CASE f = "f1" -> 3 [] f = "f2" -> 1 [] f = "f3" -> 2]

Replace(s, n, text) == [start |-> s, count |-> n, repl |-> text]
Insert(s, text) == Replace(s, 0, text)

\* f1 brings an include and grows line 2 to two lines.  f2 replaces line 3 and a
\* judgment gate warns about it, or it is no fix at all.  f3 inserts above line 3,
\* or replaces lines 2 and 3 and conflicts with both.
MCHunks(f, v) ==
  CASE f = "f1" /\ v = "v1" -> << Insert(1, <<Include>>), Replace(2, 1, << <<"a">>, <<"b">> >>) >>
    [] f = "f1" /\ v = "v2" -> << Replace(2, 2, << <<"c">> >>) >>
    [] f = "f2" /\ v = "v1" -> << Replace(3, 1, << <<"d">> >>) >>
    [] f = "f2" /\ v = "v2" -> << >>
    [] f = "f3" /\ v = "v1" -> << Insert(3, << <<"e">> >>) >>
    [] OTHER                -> << Replace(2, 2, << <<"g">> >>) >>

\* For the liveness run: f1 without its include, so that no step computes with two hunks.
MCSingleHunks(f, v) ==
  IF f = "f1" THEN << Replace(2, 1, << <<"a">>, <<"b">> >>) >> ELSE MCHunks(f, v)

MCBadge(f, v) ==
  CASE f = "f2" /\ v = "v1" -> "review_required"
    [] f = "f2" /\ v = "v2" -> "no_fix"
    [] OTHER -> "repair_ready"

\* The proofs about the document assume this of the repairs; it holds of these.
ASSUME MCRepairsArePlain == RepairsArePlain
ASSUME MCRepairsChangeText == RepairsChangeText
=============================================================================
