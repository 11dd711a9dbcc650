---------------------------- MODULE MCRequestText ----------------------------
(* For RequestText: parameters "q" and "t" (query and filter) with every   *)
(* separator, blanks, a stray "%", a digit and NUL, as they are and        *)
(* escaped.                                                                *)
EXTENDS Naturals, Sequences

Sent(bytes) == [i \in 1..Len(bytes) |-> [byte |-> bytes[i], escaped |-> FALSE]]

MCMethods  == [get |-> <<71>>, post |-> <<80>>, other |-> <<72>>]
MCVersions == {<<49, 46, 49>>}

Field(name, before, value, after) ==
  [name |-> name, before |-> before, value |-> value, after |-> after]

MCHeaders ==
  { <<Field(<<76>>, <<32>>, <<53>>, <<>>), Field(<<76>>, <<>>, <<54>>, <<>>),
      Field(<<72>>, <<9, 32>>, <<103, 58, 103>>, <<32>>)>> }

MCChunks ==
  {Sent(b) : b \in {<<c>> : c \in {32, 37, 38, 43, 44, 49, 58, 59, 61, 103}} \cup
                   {<<113, 61>>, <<116, 61>>}} \cup
  {<<[byte |-> b, escaped |-> TRUE]>> : b \in {0, 32, 37, 38, 59, 103}}

(* "", "t=g:", "q=g&t=g:g;"                                                *)
MCBegun == {Sent(b) : b \in
  {<<>>, <<116, 61, 103, 58>>,
   <<113, 61, 103, 38, 116, 61, 103, 58, 103, 59>>}}

MCKeyText  == [query |-> <<113>>, filter |-> <<116>>]
MCDefaults == [query |-> <<>>]
=============================================================================
