---------------------------- MODULE MCConfigParser ----------------------------
(* Files of three sections, so that a grandchild's items are looked up;    *)
(* a section stands on one line with its braces, or on lines of its own.    *)
EXTENDS ConfigParser, TLC

CONSTANTS a, b, v, w   \* items and values

Texts ==
  { <<[item |-> a, value |-> v]>>,
    <<[item |-> a, value |-> NoValue], [item |-> a, value |-> v]>>,
    <<[item |-> b, value |-> w], [item |-> a, value |-> w]>>,
    <<>> }

MCSections ==
  {[tag |-> t, name |-> n, parent |-> p, lines |-> l, opens |-> inline, closes |-> inline] :
     t \in Tags, n \in Names, p \in Names \cup {NoName}, l \in Texts,
     inline \in BOOLEAN}

Symmetry == Permutations(Names) \cup Permutations(Tags)
=============================================================================
