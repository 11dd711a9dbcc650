--------------------------- MODULE MCSearchdQueries ---------------------------
(* Two kinds of attributes stand for four: enough for one to be refused    *)
(* that was written before, or after, one that is loaded.  A filter by     *)
(* nothing, or by a name of one kind and an unknown one; an answer that    *)
(* shows both kinds, or one.                                               *)
EXTENDS SearchdQueriesProofs

CONSTANTS Uint, Strings

MCKindOrder == <<Uint, Strings>>
MCFilterKinds == {{}, {Strings, Nowhere}}
MCShownKinds == {{Uint}, {Uint, Strings}}
=============================================================================
