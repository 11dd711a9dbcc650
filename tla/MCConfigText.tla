----------------------------- MODULE MCConfigText -----------------------------
(* Heads, items and braces for ConfigText, each written in several ways.   *)
EXTENDS Sequences

WithoutName(gap, rest) ==
  [tag |-> <<"t">>, gap |-> gap, name |-> <<>>, parent |-> <<>>, rest |-> rest]
WithName(gap, after) ==
  [tag |-> <<"t">>, gap |-> gap, name |-> <<"n">>, parent |-> <<>>,
   rest |-> <<"n">> \o after]
WithParent(colon, after) ==
  [tag |-> <<"t">>, gap |-> <<" ">>, name |-> <<"n">>, parent |-> <<"p">>,
   rest |-> <<"n">> \o colon \o <<"p">> \o after]

Comment == <<"#", " ", "}", "{", "\n">>

MCHeads ==
  {WithoutName(gap, <<"{", "\n">>) : gap \in
     {<<>>, <<" ">>, <<" ", "\t">>, <<"\n">>, <<" ", "\n", "\n", "\t">>}} \cup
  {WithName(gap, <<"{">>) : gap \in {<<" ">>, <<"\t", "\n", " ">>}} \cup
  {WithName(<<" ">>, <<" ", "{">> \o Comment),
   WithParent(<<":">>, <<"{">>), WithParent(<<" ", ":", " ">>, <<"\n", "{", "\n">>)}

Way(txt, item, value) == [text |-> txt, item |-> item, value |-> value]

MCItems ==
  { Way(<<"i", "=", "v", "\n">>, <<"i">>, <<"v">>),
    Way(<<" ", "i", " ", "=", "\t", "v", "=", "v", " ">> \o Comment,
             <<"i">>, <<"v", "=", "v">>),
    Way(<<"\"", "i", "\"", "=", "'", " ", "v", "'", " ", "/", "/", "\n">>,
             <<"i">>, <<" ", "v">>),
    Way(<<"\n">> \o Comment \o <<"i", " ", "=", " ", "\n">>, <<"i">>, <<>>),
    Way(<<"i", "=", "v">>, <<"i">>, <<"v">>) }

MCBraces == {<<"}">>, <<" ", "}", " ", "/", "/", "}", "\n">>}
=============================================================================
