------------------------------- MODULE Indexing -------------------------------
(***************************************************************************)
(* LookaIndexer::DoIndex from the first row to the last: ProcessDoc turns  *)
(* a row into the attributes of a document and into one entry of the       *)
(* posting list of each of its tokens. What DoIndex writes afterwards is   *)
(* in module IndexFiles, what searchd looks for in it in module Search.    *)
(*                                                                         *)
(* A value is given by what the code reads in it: the words the segmenter  *)
(* finds (text and position), the number atoi and atof find, the numbers   *)
(* between commas, and the text itself. Float stands for the floats.       *)
(***************************************************************************)
EXTENDS Integers, Sequences, SequencesExt

CONSTANTS
  Strings,  (* the words' texts                                             *)
  Hash,     (* ComputeTokenID: [Strings -> Nat]                             *)
  Values,   (* [words, uint, float, multi, string]                          *)
  Sources,  (* configured lists of names: [uint, float, multi, string, field] *)
  Headers,  (* names of the columns of a result                             *)
  UChar,    (* the number of values of uint8_t, 256                         *)
  IntMax,   (* the largest int                                              *)
  MaxDocs   (* bound: rows of a result                                      *)

Kinds == {"uint", "float", "multi", "string"}
UInt == 2 * (IntMax + 1) (* the number of values of uint32_t *)
Zero == [uint |-> 0, float |-> 0, string |-> ""]

ASSUME IndexingAssumption ==
  /\ Hash \in [Strings -> Nat]
  /\ UChar \in Nat \ {0} /\ IntMax \in Nat /\ MaxDocs \in Nat
  /\ \A v \in Values :
       /\ v.words \in Seq([str : Strings, pos : Nat])
       /\ v.uint \in -IntMax - 1..IntMax
       /\ v.multi \in Seq(-IntMax - 1..IntMax)
  /\ \A s \in Sources : \A list \in Kinds \cup {"field"} : s[list] \in Seq(STRING)
  /\ Headers \subseteq Seq(STRING)

VARIABLES
  source,    (* m_source_cfg                                                *)
  columns,   (* the names of the fields                                     *)
  pc,        (* "fetching" rows or "writing" the files                      *)
  ldocid,    (* the id of the next document                                 *)
  inverter,  (* per token the entries of the documents that have it         *)
  summary,   (* the attributes of the documents                             *)
  rows       (* history: the rows that were processed                       *)

vars == <<source, columns, pc, ldocid, inverter, summary, rows>>

-----------------------------------------------------------------------------
(* Columns and configured names                                            *)

Configured(name, list) == \E i \in 1..Len(list) : list[i] = name

(* IsInFields: the first place of a name.                                  *)
FieldIndex(name, list) ==
  CHOOSE i \in 1..Len(list) :
    list[i] = name /\ \A j \in 1..(i - 1) : list[j] # name

(* CheckFields: every configured name is a column.                         *)
Checked(list) == \A i \in 1..Len(list) : Configured(list[i], columns)

LastColumn(name) ==
  CHOOSE c \in 1..Len(columns) :
    columns[c] = name /\ \A d \in (c + 1)..Len(columns) : columns[d] # name

-----------------------------------------------------------------------------
(* Attributes                                                              *)

(* What is stored of a value: "(uint32_t)atoi", atof, or the text.         *)
Cell(kind, value) ==
  IF kind = "uint" THEN value.uint % UInt ELSE value[kind]

(* Mutant of Slots: values are pushed behind the places of the names.      *)
SlotsPushed(kind, row) ==
  [i \in 1..Len(source[kind]) |-> Zero[kind]] \o
  [i \in 1..Len(source[kind]) |->
     Cell(kind, row[LastColumn(source[kind][i])])]

(* uv, fv, sv: a column's value goes to the first place of its name.       *)
Slots(kind, row) ==
  LET list == source[kind]
  IN  [i \in 1..Len(list) |->
         IF FieldIndex(list[i], list) = i
         THEN Cell(kind, row[LastColumn(list[i])])
         ELSE Zero[kind]]

(* mv: a zero for each name, then the numbers of all columns.              *)
MultiSlots(row) ==
  [i \in 1..Len(source.multi) |-> 0] \o
  FlattenSeq([c \in 1..Len(columns) |->
                IF Configured(columns[c], source.multi)
                THEN [j \in 1..Len(row[c].multi) |-> row[c].multi[j] % UInt]
                ELSE <<>>])

(* "size" is a uint8_t, and so many values are written to the file.        *)
Stored(data) == SubSeq(data, 1, Len(data) % UChar)

Attributes(row) ==
  [uint   |-> Stored(Slots("uint", row)),
   float  |-> Stored(Slots("float", row)),
   multi  |-> Stored(MultiSlots(row)),
   string |-> Stored(Slots("string", row))]

-----------------------------------------------------------------------------
(* Tokens                                                                  *)

(* Mutant of Words: the words of every column.                             *)
WordsOfAll(row) ==
  FlattenSeq([c \in 1..Len(columns) |->
    [j \in 1..Len(row[c].words) |->
       [str |-> row[c].words[j].str, pos |-> row[c].words[j].pos % UChar,
        field |-> 1]]])

(* The words of the columns that are searched, as they are added to        *)
(* tokenHits: a position is a uint8_t.                                     *)
Words(row) ==
  FlattenSeq([c \in 1..Len(columns) |->
    IF ~Configured(columns[c], source.field) THEN <<>>
    ELSE [j \in 1..Len(row[c].words) |->
            [str |-> row[c].words[j].str, pos |-> row[c].words[j].pos % UChar,
             field |-> FieldIndex(columns[c], source.field)]]])

(* tokenHits: Token's operator < compares the hashes alone, and the text   *)
(* of a key is that of the first word that has its hash.                   *)
Tokens(words) ==
  {words[i].str : i \in
     {i \in 1..Len(words) :
        \A j \in 1..(i - 1) : Hash[words[j].str] # Hash[words[i].str]}}

(* static_cast<FieldID>: a uint8_t. Fields that are UChar apart share one. *)
FieldID(field) == (field - 1) % UChar
SharedBy(id)   == {f \in 1..Len(source.field) : FieldID(f) = id}

(* The positions of a token in some fields, as the words come.             *)
Positions(token, fields, words) ==
  FlattenSeq([i \in 1..Len(words) |->
    IF Hash[words[i].str] = Hash[token] /\ words[i].field \in fields
    THEN <<words[i].pos>> ELSE <<>>])

(* HitPos: field and count, a uint8_t each, and the positions.             *)
HitPos(id, positions) == <<id, Len(positions) % UChar>> \o positions

(* Mutant of Hits: an entry for every field id.                            *)
HitsOfAllFields(token, words) ==
  FlattenSeq([f \in 1..Len(source.field) |->
    IF f > UChar THEN <<>>
    ELSE HitPos(FieldID(f), Positions(token, SharedBy(FieldID(f)), words))])

(* hits: the field ids that have the token, in ascending order; they are   *)
(* those of the first UChar fields.                                        *)
Hits(token, words) ==
  FlattenSeq([f \in 1..Len(source.field) |->
    LET positions == Positions(token, SharedBy(FieldID(f)), words)
    IN  IF f > UChar \/ positions = <<>> THEN <<>>
        ELSE HitPos(FieldID(f), positions)])

(* hits_size is a uint8_t, and so many bytes of hits are written.          *)
DocInvert(id, token, words) ==
  [local_id |-> id, hits |-> Stored(Hits(token, words))]

-----------------------------------------------------------------------------
Init ==
  /\ source \in Sources /\ columns \in Headers
  /\ pc = "fetching"
  /\ ldocid = 0
  /\ inverter = [t \in Strings |-> <<>>]
  /\ summary = <<>>
  /\ rows = <<>>

CheckFields == \A list \in {"uint", "float", "multi", "string", "field"} :
                 Checked(source[list])

(* Mutant of ProcessDoc: the id is not counted up.                         *)
ProcessDocAgain(row) ==
  /\ pc = "fetching" /\ CheckFields
  /\ LET words == Words(row)
     IN  inverter' = [t \in Strings |->
           IF t \in Tokens(words)
           THEN Append(inverter[t], DocInvert(ldocid, t, words))
           ELSE inverter[t]]
  /\ summary' = Append(summary, Attributes(row))
  /\ rows' = Append(rows, row)
  /\ UNCHANGED <<source, columns, pc, ldocid>>

(* A row is fetched and processed.                                         *)
ProcessDoc(row) ==
  /\ pc = "fetching" /\ CheckFields
  /\ LET words == Words(row)
     IN  inverter' = [t \in Strings |->
           IF t \in Tokens(words)
           THEN Append(inverter[t], DocInvert(ldocid, t, words))
           ELSE inverter[t]]
  /\ summary' = Append(summary, Attributes(row))
  /\ ldocid' = ldocid + 1
  /\ rows' = Append(rows, row)
  /\ UNCHANGED <<source, columns, pc>>

(* "[Unknown column '%s']" in the first row, the end of the rows, or an    *)
(* error while they are fetched: what there is is written.                 *)
EndOfRows ==
  /\ pc = "fetching"
  /\ pc' = "writing"
  /\ UNCHANGED <<source, columns, ldocid, inverter, summary, rows>>

Next ==
  \/ /\ ldocid < MaxDocs
     /\ \E row \in [1..Len(columns) -> Values] : ProcessDoc(row)
  \/ EndOfRows

Spec == Init /\ [][Next]_vars

-----------------------------------------------------------------------------
(* DocInvert::GetHits: a round of its loop reads the field, the count and  *)
(* the positions at cur_size and goes on behind them.                      *)
NextHit(bytes, read) ==
  LET at == read.cur_size
  IN  IF at >= Len(bytes) THEN read
      ELSE [cur_size |-> at + 2 + bytes[at + 2],
            h |-> Append(read.h,
                    [field |-> bytes[at + 1],
                     pos   |-> SubSeq(bytes, at + 3, at + 2 + bytes[at + 2])])]

GetHits(bytes) ==
  LET read[n \in 0..Len(bytes)] ==
        IF n = 0 THEN [cur_size |-> 0, h |-> <<>>]
        ELSE NextHit(bytes, read[n - 1])
  IN  read[Len(bytes)].h

-----------------------------------------------------------------------------
(* Properties                                                              *)

TypeOK ==
  /\ source \in Sources /\ columns \in Headers
  /\ pc \in {"fetching", "writing"}
  /\ ldocid \in 0..MaxDocs
  /\ DOMAIN inverter = Strings
  /\ rows \in Seq([1..Len(columns) -> Values]) /\ Len(rows) = ldocid

(* What Search takes for granted: a posting list ascends strictly, and     *)
(* whatever it names has attributes in the summary.                        *)
PostingsAscend ==
  \A t \in Strings : \A i \in 1..Len(inverter[t]) :
    /\ inverter[t][i].local_id \in 0..(Len(summary) - 1)
    /\ \A j \in 1..(i - 1) : inverter[t][j].local_id < inverter[t][i].local_id

(* A word of a searched column of a row, before which no word of that row  *)
(* has its hash.                                                           *)
Has(row, token) ==
  \E c \in 1..Len(columns) : \E j \in 1..Len(row[c].words) :
    /\ Configured(columns[c], source.field)
    /\ row[c].words[j].str = token
    /\ \A d \in 1..c : \A k \in 1..Len(row[d].words) :
         (Configured(columns[d], source.field) /\ (d < c \/ k < j))
           => Hash[row[d].words[k].str] # Hash[token]

(* A document is in the posting list of a token if and only if one of its  *)
(* searched columns has it, however the columns are ordered and repeated,  *)
(* and but for words whose hash is that of an earlier word of the row.     *)
PostingsExact ==
  \A t \in Strings, d \in 1..Len(rows) :
    Has(rows[d], t) <=> \E i \in 1..Len(inverter[t]) :
                          inverter[t][i].local_id = d - 1

(* The fields that have a token, each with its positions there.            *)
FieldsOf(token, words) ==
  FlattenSeq([f \in 1..Len(source.field) |->
    LET positions == Positions(token, {f}, words)
    IN  IF positions = <<>> THEN <<>>
        ELSE <<[field |-> f - 1, pos |-> positions]>>])

(* As long as they fit a uint8_t, and as no more fields are searched than  *)
(* it can tell apart, the hits read back are the positions of the token in *)
(* each searched field that has it, in the fields' order.                  *)
HitsReadBack ==
  \A t \in Strings : \A i \in 1..Len(inverter[t]) :
    LET posting == inverter[t][i]
        words   == Words(rows[posting.local_id + 1])
    IN  Len(source.field) <= UChar /\ Len(Hits(t, words)) < UChar =>
          GetHits(posting.hits) = FieldsOf(t, words)

(* Inductive, with TypeOK: the lists and the summary have one place per    *)
(* document, and a row's tokens are listed under its id.                   *)
IsSequence(s) == Len(s) \in Nat /\ s = [i \in 1..Len(s) |-> s[i]]

Inv ==
  /\ TypeOK
  /\ IsSequence(summary) /\ Len(summary) = ldocid
  /\ \A t \in Strings : IsSequence(inverter[t])
  /\ PostingsAscend
  /\ \A t \in Strings, d \in 1..Len(rows) :
       t \in Tokens(Words(rows[d])) <=> \E i \in 1..Len(inverter[t]) :
                                         inverter[t][i].local_id = d - 1
=============================================================================
