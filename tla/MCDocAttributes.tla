--------------------------- MODULE MCDocAttributes ---------------------------
(* Results of three or four columns and up to two rows. Configured names   *)
(* repeat, have two types or are no columns; two words have the same hash; *)
(* with UChar = 8 the hits and the numbers of a document may overflow, and *)
(* nine fields share ids; with IntMax = 7 the number -1 is stored as 15.   *)
EXTENDS DocAttributes

MCStrings == {"x", "y", "z"}
MCHash == [s \in MCStrings |-> IF s = "z" THEN 2 ELSE 1]

Word(str, pos) == [str |-> str, pos |-> pos]

MCValues ==
  { [words |-> <<Word("x", 1), Word("z", 2), Word("x", 10)>>,
     uint |-> 7, float |-> 7, multi |-> <<7>>, string |-> "007"],
    [words |-> <<Word("y", 3), Word("x", 4)>>,
     uint |-> 0, float |-> 0, multi |-> <<7, 0, 7, 7>>, string |-> "y x"],
    [words |-> <<>>,
     uint |-> -1, float |-> -1, multi |-> <<-1>>, string |-> "-1"] }

MCPrinted ==
  [uint  |-> 0 :> "0" @@ 7 :> "7" @@ 15 :> "15",
   float |-> 0 :> "0.000000" @@ 7 :> "7.000000" @@ -1 :> "-1.000000"]

MCFormats == {"xml", "json", "text"}

Source(uint, float, multi, string, field) ==
  [uint |-> uint, float |-> float, multi |-> multi, string |-> string,
   field |-> field]

MCSources ==
  { Source(<<"id">>, <<>>, <<>>, <<"title", "cat">>, <<"title">>),
    Source(<<"cat", "id">>, <<"id">>, <<>>, <<"cat">>, <<"cat", "title">>),
    Source(<<"id", "id">>, <<"cat">>, <<"title", "id">>, <<"title", "title">>,
           <<"title", "cat", "title">>),
    Source(<<"id">>, <<>>, <<"cat">>, <<>>, <<"nope">>),
    Source(<<"id">>, <<>>, <<>>, <<>>,
           [i \in 1..8 |-> "cat"] \o <<"title">>) }

MCHeaders ==
  { <<"id", "title", "cat">>, <<"cat", "title", "id">>,
    <<"title", "cat", "id", "title">> }

Pieces ==
  {[key |-> k, values |-> v] :
     k \in {"id", "cat", "title", "nope"},
     v \in {<<"7">>, <<"0", "y x">>}} \cup
  { [key |-> "id", values |-> <<>>],
    [key |-> "id", values |-> <<"15">>], [key |-> "id", values |-> <<"-1">>],
    [key |-> "id", values |-> <<"7.000000">>],
    [key |-> "cat", values |-> <<"0.000000", "007">>] }

MCFilters ==
  {<<>>} \cup {<<p>> : p \in Pieces} \cup
  {<<p, q>> : p \in Pieces, q \in {r \in Pieces : r.key = "cat"}}
=============================================================================
