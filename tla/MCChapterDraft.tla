--------------------------- MODULE MCChapterDraft ---------------------------
(***************************************************************************)
(* Model checking ChapterDraft: the acceptances of either kind share one   *)
(* key and so do the confirmations, so calls of one kind are               *)
(* interchangeable.                                                        *)
(***************************************************************************)
EXTENDS ChapterDraft, TLC

OneKey == [c \in Keyed |-> "k"]

CallSymmetry ==
    Permutations(Edits) \cup Permutations(Inserts) \cup Permutations(Adopts) \cup Permutations(Confirms)
=============================================================================
