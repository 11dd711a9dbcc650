------------------------------ MODULE ConfigText ------------------------------
(***************************************************************************)
(* How LookaConfigParser (looka_config_parser.cpp) reads the text of a     *)
(* configuration file: comments and blanks, sections, heads, items.  What  *)
(* it does with the sections (parents, duplicates, lookups) is in module   *)
(* ConfigParser.                                                           *)
(*                                                                         *)
(* The author of the file writes a head, items, a brace; text is a         *)
(* sequence of characters.                                                 *)
(***************************************************************************)
EXTENDS TextLines

CONSTANTS
  Heads,     (* ways to write a head: [tag, gap, name, parent, rest], where *)
             (* gap stands before the name, or before "{" if there is none  *)
  Items,     (* ways to write an item: [text, item, value]                  *)
  Braces,    (* ways to write "}"                                           *)
  MaxSections, MaxItems   (* bounds: of a file                              *)

VARIABLES
  text,      (* the file                                                    *)
  meant,     (* its sections, [head, items]                                 *)
  inside     (* whether the last one is still open                          *)

vars == <<text, meant, inside>>

-----------------------------------------------------------------------------
(* Characters and strings                                                  *)

IsSpace(c) == c \in {" ", "\t", "\r", "\n"}
IsEmphasize(c) == c \in {"'", "\""}

(* Mutant of Trim: blanks are left before the text.                        *)
TrimRight(s) ==
  LET kept == {i \in 1..Len(s) : ~IsSpace(s[i])}
  IN  IF s = <<>> \/ kept = {} THEN s ELSE SubSeq(s, 1, Max(kept))

(* Of a text of blanks the last one is left.                               *)
Trim(s) ==
  LET kept == {i \in 1..Len(s) : ~IsSpace(s[i])}
  IN  IF s = <<>> THEN s
      ELSE IF kept = {} THEN <<Last(s)>>
      ELSE SubSeq(s, Min(kept), Max(kept))

(* From the first "#" or "//" on.                                          *)
DelComment(s) ==
  LET marks == Places(s, "#") \cup
               {i \in 1..(Len(s) - 1) : s[i] = "/" /\ s[i + 1] = "/"}
  IN  IF marks = {} THEN s ELSE Before(s, Min(marks))

RemoveEmphasize(s) ==
  IF s # <<>> /\ IsEmphasize(s[1]) /\ Last(s) = s[1]
  THEN SubSeq(s, 2, Len(s) - 1) ELSE s

-----------------------------------------------------------------------------
(* Sections                                                                *)

(* LoadConfig: the lines without comments, unless nothing is left.         *)
PureString(s) ==
  LET pure == [i \in 1..Len(Lines(s)) |-> Trim(DelComment(Lines(s)[i]))]
  IN  FlattenSeq([i \in 1..Len(pure) |->
        IF pure[i] = <<>> THEN <<>> ELSE Append(pure[i], "\n")])

Invalid == [tag |-> "invalid"]  (* an error is reported                     *)
Thrown  == [tag |-> "thrown"]   (* substr throws: the program ends          *)

(* A word, and behind the first blank name and parent.                     *)
ParseSectionHead(head) ==
  LET blanks == {i \in 1..Len(head) : IsSpace(head[i])}
      tag    == Before(head, Min(blanks))
      info   == Trim(After(head, Min(blanks)))
      colon  == Min(Places(info, ":"))
      name   == IF Places(info, ":") = {} THEN Trim(info)
                ELSE Trim(Before(info, colon))
      parent == IF Places(info, ":") = {} THEN <<>> ELSE Trim(After(info, colon))
  IN  IF blanks = {} THEN Thrown
      ELSE IF \/ tag = <<>>
              \/ Places(info, ":") # {} /\ (name = <<>> \/ parent = <<>>)
              \/ \E i \in 1..Len(name) : IsSpace(name[i])
              \/ \E i \in 1..Len(parent) : IsSpace(parent[i])
      THEN Invalid
      ELSE [tag |-> tag, name |-> name, parent |-> parent]

(* AnalyseItem: nothing, or an item with its value.                        *)
AnalyseItem(line) ==
  LET new   == Trim(DelComment(line))
      pos   == Min(Places(new, "="))
      item  == RemoveEmphasize(Trim(Before(new, pos)))
  IN  IF Places(new, "=") = {} THEN <<>>
      ELSE IF item = <<>> THEN <<>>
      ELSE <<[item  |-> item,
              value |-> RemoveEmphasize(Trim(After(new, pos)))]>>

(* ParseSectionConfig, of a text that "}" ended.                           *)
ParseSection(section) ==
  LET open == Min(Places(section, "{"))
      head == ParseSectionHead(Before(section, open))
      conf == After(section, open)
  IN  IF Cardinality(Places(section, "{")) # 1 \/ Before(section, open) = <<>>
      THEN Invalid
      ELSE IF head \in {Invalid, Thrown} THEN head
      ELSE IF conf = <<>> THEN Invalid
      ELSE [tag |-> head.tag, name |-> head.name, parent |-> head.parent,
            items |-> FlattenSeq([i \in 1..Len(Lines(conf)) |->
                                    AnalyseItem(Lines(conf)[i])])]

(* ParsePureConfig: what each "}" ends; text behind the last one is not    *)
(* looked at. ("}" is Trim's last character, and so not blank.)            *)
ParsePureConfig(pure) ==
  LET ended == Ended(pure, "}")
  IN  [i \in 1..Len(ended) |->
         ParseSection(Front(Trim(Append(ended[i], "}"))))]

-----------------------------------------------------------------------------
(* The author                                                              *)

Init == text = <<>> /\ meant = <<>> /\ inside = FALSE

WriteHead(head) ==
  /\ ~inside
  /\ text' = text \o head.tag \o head.gap \o head.rest
  /\ meant' = Append(meant, [head |-> head, items |-> <<>>])
  /\ inside' = TRUE

Written == FoldSeq(LAMBDA sec, n : n + Len(sec.items), 0, meant)

(* An item begins a line, or follows the "{".                              *)
WriteItem(item) ==
  /\ inside /\ Last(text) \in {"{", "\n"}
  /\ Written < MaxItems
  /\ text' = text \o item.text
  /\ meant' = [meant EXCEPT ![Len(meant)].items =
                 Append(@, [item |-> item.item, value |-> item.value])]
  /\ UNCHANGED inside

(* Something stands between the braces: an empty section is refused.       *)
WriteBrace(brace) ==
  /\ inside
  /\ Last(text) # "{" \/ Head(brace) # "}"
  /\ text' = text \o brace
  /\ inside' = FALSE
  /\ UNCHANGED meant

Next ==
  \/ /\ Len(meant) < MaxSections
     /\ \E head \in Heads : WriteHead(head)
  \/ \E item \in Items : WriteItem(item)
  \/ \E brace \in Braces : WriteBrace(brace)

Spec == Init /\ [][Next]_vars

-----------------------------------------------------------------------------
(* Properties                                                              *)

(* A head without a name, and on its line not just one blank before "{".   *)
Misread(head) ==
  head.name = <<>> /\ "\n" \notin ToSet(head.gap) /\ Len(head.gap) # 1

(* However the author spaces, quotes, comments and breaks the lines, the   *)
(* sections that are read are those that were meant, with their names,     *)
(* parents, items and values, in order.  Only "searchd{" and "searchd  {"  *)
(* are not read: nothing, or a second blank, stands where the name would.  *)
(* (A "#" or "//" begins a comment inside quotes too, so that no value can *)
(* have one: it would be cut there. No item of Items has one.)             *)
SectionsAreRead ==
  ~inside =>
    LET read == ParsePureConfig(PureString(text))
    IN  /\ Len(read) = Len(meant)
        /\ \A k \in 1..Len(meant) :
             IF Misread(meant[k].head) THEN read[k] \in {Invalid, Thrown}
             ELSE read[k] = [tag    |-> meant[k].head.tag,
                             name   |-> meant[k].head.name,
                             parent |-> meant[k].head.parent,
                             items  |-> meant[k].items]
=============================================================================
