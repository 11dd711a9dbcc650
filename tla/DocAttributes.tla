---------------------------- MODULE DocAttributes ----------------------------
(***************************************************************************)
(* What searchd does with the attributes module Indexing stores: a request *)
(* filters documents by them (LookaRequest::ParseFilter and LookaSearchd:: *)
(* DropByFilter), and an answer shows them (LookaResultPacker). Both find  *)
(* an attribute by its name with GetAttrNameIndex.                         *)
(***************************************************************************)
EXTENDS Indexing

CONSTANTS
  Filters, (* values of the parameter "filter": sequences of [key, values]  *)
  Printed, (* "%u" and "%f": [uint, float] of numbers to texts              *)
  Formats  (* values of the parameter "dataformat", whatever their case;    *)
           (* "xml" if it is not given                                      *)

ASSUME DocAttributesAssumption ==
  Filters \subseteq Seq([key : STRING \ {""}, values : Seq(STRING)])

DocAttrType == <<"uint", "float", "multi", "string">>

(* Mutant of GetAttrType: the first type that has the name.                *)
GetAttrTypeFirst(name) ==
  LET found == {i \in 1..4 : Configured(name, source[DocAttrType[i]])}
  IN  IF found = {} THEN "none"
      ELSE DocAttrType[CHOOSE i \in found : \A j \in found : i <= j]

(* GetAttrNameIndex: the last type that has the name, in the order of      *)
(* DocAttrType; break leaves the inner loop only.                          *)
GetAttrType(name) ==
  LET found == {i \in 1..4 : Configured(name, source[DocAttrType[i]])}
  IN  IF found = {} THEN "none"
      ELSE DocAttrType[CHOOSE i \in found : \A j \in found : j <= i]

GetAttrIndex(name) == FieldIndex(name, source[GetAttrType(name)])

-----------------------------------------------------------------------------
(* Filters                                                                 *)

(* Mutant of ParseFilter: a key given again replaces the former values.    *)
ParseFilterLast(pieces) ==
  LET read == {i \in 1..Len(pieces) : pieces[i].values # <<>>}
  IN  [k \in {pieces[i].key : i \in read} |->
         pieces[CHOOSE i \in read :
                  pieces[i].key = k /\ \A j \in read : pieces[j].key = k => j <= i].values]

(* "key:value,value;key:value": pieces that have not one colon or no value *)
(* are skipped, a key given again adds its values.                         *)
ParseFilter(pieces) ==
  LET read == {i \in 1..Len(pieces) : pieces[i].values # <<>>}
  IN  [k \in {pieces[i].key : i \in read} |->
         FlattenSeq([i \in 1..Len(pieces) |->
                       IF pieces[i].key = k THEN pieces[i].values ELSE <<>>])]

(* A multi attribute is read like a number.                                *)
Text(attr, name) ==
  LET kind == GetAttrType(name)
      x    == attr[kind][GetAttrIndex(name)]
  IN  CASE kind \in {"uint", "multi"} -> Printed.uint[x]
        [] kind = "float"  -> Printed.float[x]
        [] kind = "string" -> x

DropByFilter(attr, filter) ==
  \E k \in DOMAIN filter :
    /\ GetAttrType(k) # "none"
    /\ Text(attr, k) \notin ToSet(filter[k])

-----------------------------------------------------------------------------
(* Answers                                                                 *)

(* The names an answer shows, as the configuration of the source has them  *)
(* for their type.                                                         *)
Shown(kind) ==
  {name \in ToSet(source[kind]) : GetAttrType(name) = kind}

GetResultPacker(format) == IF format \in {"json", "xml"} THEN format ELSE "basic"

(* static_cast<int> of a uint32_t.                                         *)
AsInt(number) == IF number > IntMax THEN number - UInt ELSE number

(* A document's part of an answer: the JSON packer writes a number as the  *)
(* uint32_t it is, the XML packer as an int; the basic packer's answer is  *)
(* empty.                                                                  *)
Item(format, attr) ==
  LET packer == GetResultPacker(format)
  IN  [name \in IF packer = "basic" THEN {}
                ELSE Shown("uint") \cup Shown("string") |->
         LET stored == attr[GetAttrType(name)][GetAttrIndex(name)]
         IN  IF packer = "xml" /\ GetAttrType(name) = "uint" THEN AsInt(stored)
             ELSE stored]

-----------------------------------------------------------------------------
(* Properties                                                              *)

(* The type in which a name is looked up is the last that is configured.   *)
TypeOfName(name) ==
  IF Configured(name, source.string) THEN "string"
  ELSE IF Configured(name, source.multi) THEN "multi"
  ELSE IF Configured(name, source.float) THEN "float"
  ELSE IF Configured(name, source.uint) THEN "uint"
  ELSE "none"

(* What a filter compares of a row: a number is printed without a sign, so *)
(* that -1 is the largest there is. A multi attribute is always 0: its     *)
(* numbers stand behind the places of the names ("todo: fix multi value"). *)
Said(row, name) ==
  LET value == row[LastColumn(name)]
  IN  CASE TypeOfName(name) = "string" -> value.string
        [] TypeOfName(name) = "multi"  -> Printed.uint[0]
        [] TypeOfName(name) = "float"  -> Printed.float[value.float]
        [] TypeOfName(name) = "uint"   -> Printed.uint[value.uint % UInt]

(* No type has so many names that a uint8_t does not count them.           *)
NamesFit == \A kind \in Kinds : Len(source[kind]) < UChar

(* A filter lets a document pass if and only if for each attribute it      *)
(* names it gives the text of the document's own row among its values, in  *)
(* whatever order columns, names and pieces stand and however often. Names *)
(* that are not configured do not matter. What a document has of a type    *)
(* is taken to fit the uint8_t it is counted with.                         *)
FiltersAreExact ==
  \A d \in 1..Len(rows), pieces \in Filters :
    NamesFit /\ Len(MultiSlots(rows[d])) < UChar =>
      (DropByFilter(summary[d], ParseFilter(pieces)) <=>
        \E i \in 1..Len(pieces) :
          /\ pieces[i].values # <<>> /\ TypeOfName(pieces[i].key) # "none"
          /\ \A j \in 1..Len(pieces) :
               pieces[j].key = pieces[i].key =>
                 Said(rows[d], pieces[i].key) \notin ToSet(pieces[j].values))

(* An answer in XML or JSON shows every configured number and text of a    *)
(* document's own row, but for a name that is also configured with a later *)
(* type. In XML a number is the one that was read in the row, whatever its *)
(* sign; in JSON a negative one is shown as the uint32_t it was stored as. *)
(* An answer in any other format shows nothing.                            *)
AnswersShowTheRow ==
  \A d \in 1..Len(rows), format \in Formats : NamesFit =>
    Item(format, summary[d]) =
      [name \in {n \in ToSet(source.uint) \cup ToSet(source.string) :
                   /\ format \in {"xml", "json"}
                   /\ TypeOfName(n) \in {"uint", "string"}} |->
         LET value == rows[d][LastColumn(name)]
         IN  CASE TypeOfName(name) = "string" -> value.string
               [] TypeOfName(name) = "uint" /\ format = "xml" -> value.uint
               [] TypeOfName(name) = "uint" /\ format = "json" ->
                    value.uint % UInt]
=============================================================================
