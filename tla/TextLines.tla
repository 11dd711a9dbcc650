------------------------------ MODULE TextLines ------------------------------
(***************************************************************************)
(* What std::string::find, substr and std::getline do with a text, a       *)
(* sequence of characters.                                                 *)
(***************************************************************************)
EXTENDS Integers, Sequences, FiniteSets, SequencesExt, FiniteSetsExt

Places(s, c) == {i \in 1..Len(s) : s[i] = c}
Before(s, i) == SubSeq(s, 1, i - 1)
After(s, i)  == SubSeq(s, i + 1, Len(s))

(* The elements that are in T, in order.                                   *)
Those(s, T) ==
  FlattenSeq([i \in 1..Len(s) |-> IF s[i] \in T THEN <<s[i]>> ELSE <<>>])

(* The pieces between separators, one more than there are separators.      *)
Cut(s, separator) ==
  LET n == Len(separator)
      Rest[from \in 1..(Len(s) + 1)] ==
        LET found == {i \in from..(Len(s) - n + 1) :
                        SubSeq(s, i, i + n - 1) = separator}
        IN  IF found = {} THEN <<SubSeq(s, from, Len(s))>>
            ELSE <<SubSeq(s, from, Min(found) - 1)>> \o Rest[Min(found) + n]
  IN  Rest[1]

(* The pieces that an ending character ends.                               *)
Ended(s, c) == Front(Cut(s, <<c>>))

(* No piece follows a separator that ends the text.                        *)
Pieces(s, separator) ==
  LET cut == Cut(s, separator)
  IN  IF Last(cut) = <<>> THEN Front(cut) ELSE cut

(* getline until the end of the text                                       *)
Lines(s) == Pieces(s, <<"\n">>)
=============================================================================
