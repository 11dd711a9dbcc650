---------------------------- MODULE MCIndexFormat ----------------------------
(* For IndexFormat: tokens of up to one byte more than the buffer has, in  *)
(* every order, with one or two documents; names and texts that may be     *)
(* empty.                                                                  *)
EXTENDS Naturals, Sequences

MCId(str) == <<Len(str), 0, 0, 0, 0, 0, 0, 0>>

MCBeyond == {<<>>, <<9>>}

Tokens == {<<1>>, <<2, 1>>, <<2, 1, 2>>, <<1, 1, 2, 2>>}

Few  == [local_id |-> 0, hits |-> <<0, 1, 5>>]
Many == [local_id |-> 300, hits |-> <<0, 2, 5, 9, 3, 1, 0>>]

Entries(str) == {[str |-> str, docs |-> d] : d \in {<<Few>>, <<Few, Many>>}}
SomeTokens == UNION {Entries(str) : str \in Tokens}

MCInverters ==
  {<<>>} \cup {<<t>> : t \in SomeTokens} \cup
  {p \in {<<t, u>> : t \in SomeTokens, u \in SomeTokens} : p[1].str # p[2].str}

SomeTexts == {<<>>, <<3>>, <<3, 0, 4>>}
UpToTwo(S) == {<<>>} \cup {<<a>> : a \in S} \cup {<<a, b>> : a \in S, b \in S}

MCSummaries ==
  [l \in {"number", "string"} |->
     {[names |-> n, docs |-> d] :
        n \in {<<>>, <<<<3>>, <<4, 5>>>>},
        d \in IF l = "number" THEN UpToTwo({<<>>, <<7>>, <<0, 70000>>})
              ELSE UpToTwo(UpToTwo(SomeTexts) \ {<<>>})}]
=============================================================================
