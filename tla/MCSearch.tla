------------------------------ MODULE MCSearch ------------------------------
(* Small instances of Search for TLC.                                      *)
EXTENDS SearchProofs, SequencesExt

(* The posting lists there can be: every non-empty set of documents.       *)
AllPostings == {SetToSortSeq(S, <) : S \in (SUBSET Docs) \ {{}}}

(* A .cfg has no negative numbers.                                         *)
SomeOffsets == {-1, 0, 1}
=============================================================================
