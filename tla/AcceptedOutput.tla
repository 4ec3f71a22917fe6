--------------------------- MODULE AcceptedOutput ---------------------------
(***************************************************************************)
(* What a scan session promises about the document (README.md:5 of the     *)
(* repository: "the output is always Original C + accepted patches"),      *)
(* without saying how: a document with its undo stack, and the patches     *)
(* accepted so far.  Accepting is one undo step, it is possible only on    *)
(* the text the session itself has made, and what it makes of it is        *)
(* Original C with one more patch.  Everything else that happens to the    *)
(* document is the user's doing.  No patch is ever taken back; undo takes  *)
(* its text away, which is a text the session does not accept into.        *)
(***************************************************************************)
EXTENDS Patches

CONSTANTS
  Original,       \* the scanned text
  Answers,        \* the patches a user may be offered: sets of hunks
  UserLine        \* a line the user types

VARIABLES
  texts, at,      \* the undo stack and the current text in it
  patches         \* the hunks accepted so far

outputVars == <<texts, at, patches>>

Composition(hunks) == Compose(Original, hunks)

InStep == texts[at] = Composition(patches)

Becomes(text) == texts' = Append(SubSeq(texts, 1, at), text)

Init == texts = <<Original>> /\ at = 1 /\ patches = {}

Accept(patch) == /\ at' = at + 1
                 /\ InStep
                 /\ \A h \in patch, g \in patches : ~HunksConflict(h, g)
                 /\ patches' = patches \cup patch
                 /\ Becomes(Composition(patches'))

Type == /\ at' = at + 1
        /\ Becomes(<<UserLine>> \o texts[at])
        /\ UNCHANGED patches

Travel == /\ at' \in {at - 1, at + 1} \cap 1..Len(texts)
          /\ UNCHANGED <<texts, patches>>

Next == Type \/ Travel \/ \E patch \in Answers : Accept(patch)

Spec == Init /\ [][Next]_outputVars
=============================================================================
