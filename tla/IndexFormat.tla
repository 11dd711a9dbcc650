----------------------------- MODULE IndexFormat -----------------------------
(***************************************************************************)
(* The bytes of the index's files (looka_file.cpp): what LookaIndexWriter  *)
(* puts into a file, and what LookaIndexReader makes of it, record by      *)
(* record.  Module IndexFiles treats a file as one value; this one says    *)
(* what is in it, and what is read from one that was torn.                 *)
(*                                                                         *)
(* There are three layouts: that of the inverted index, that of numbers    *)
(* (uint, float and multi attributes), and that of strings.                *)
(***************************************************************************)
EXTENDS Integers, Sequences, SequencesExt

CONSTANTS
  Inverters,  (* sequences of [str, docs], docs of [local_id, hits]         *)
  Summaries,  (* [names, docs] by layout: "number" and "string"             *)
  BUFF_SIZE,  (* the buffer for a token                                     *)
  Id(_),      (* the 8 bytes of ComputeTokenID of a text                    *)
  Junk,       (* a byte of memory that nobody has written                   *)
  Beyond      (* what may stand behind the buffer before the next NUL       *)

(* What a byte holds, and what an unsigned int does.                       *)
Byte == 0..255
IsU32(n) == n \in Nat /\ n \div 16777216 \in Byte

(* What one run of the indexer has in memory: each token once, with some   *)
(* documents; sizes that the types of the code hold.                       *)
IsToken(t) ==
  /\ t.str \in Seq(Byte) /\ IsU32(Len(t.str))
  /\ Id(t.str) \in Seq(Byte) /\ Len(Id(t.str)) = 8
  /\ t.docs \in Seq(ToSet(t.docs)) /\ t.docs # <<>> /\ IsU32(Len(t.docs))
  /\ \A j \in 1..Len(t.docs) :
       /\ t.docs[j] = [local_id |-> t.docs[j].local_id, hits |-> t.docs[j].hits]
       /\ IsU32(t.docs[j].local_id)
       /\ t.docs[j].hits \in Seq(Byte) /\ Len(t.docs[j].hits) \in Byte

AreTexts(texts) ==
  /\ texts \in Seq(Seq(Byte)) /\ Len(texts) \in Byte
  /\ \A i \in 1..Len(texts) : IsU32(Len(texts[i]))

AreNumbers(values) ==
  /\ values \in Seq(Nat) /\ Len(values) \in Byte
  /\ \A i \in 1..Len(values) : IsU32(values[i])

ASSUME FormatAssumption ==
  /\ Junk \in Byte /\ BUFF_SIZE \in Nat
  /\ \A inverter \in Inverters :
       /\ inverter \in Seq(ToSet(inverter))
       /\ \A i \in 1..Len(inverter) :
            /\ IsToken(inverter[i])
            /\ \A j \in 1..(i - 1) : inverter[j].str # inverter[i].str
  /\ \A l \in {"number", "string"} : \A summary \in Summaries[l] :
       /\ AreTexts(summary.names)
       /\ summary.docs \in Seq(ToSet(summary.docs)) /\ IsU32(Len(summary.docs))
       /\ \A d \in 1..Len(summary.docs) :
            IF l = "string" THEN AreTexts(summary.docs[d])
            ELSE AreNumbers(summary.docs[d])

VARIABLES
  layout,   (* "index", "number" or "string"                                *)
  written,  (* what the indexer has in memory                               *)
  bytes,    (* the bytes of the file                                        *)
  label,    (* "writing", "reading", "done", or "undefined"                 *)
  at,       (* how many bytes have been read                                *)
  left,     (* the records that follow the head: docinvert_count, count     *)
  token,    (* the text of the token whose entries are being read           *)
  read      (* what searchd has in memory                                   *)

formatVars == <<layout, written, bytes, label, at, left, token, read>>

FormatInit ==
  /\ \/ layout = "index" /\ written \in Inverters
     \/ layout \in {"number", "string"} /\ written \in Summaries[layout]
  /\ bytes = <<>> /\ label = "writing"
  /\ at = 0 /\ left = 0 /\ token = <<>>
  /\ read = IF layout = "index" THEN <<>> ELSE [names |-> <<>>, docs |-> <<>>]

-----------------------------------------------------------------------------
(* Numbers and structures in memory                                        *)

U32(n) ==
  <<n % 256, (n \div 256) % 256, (n \div 65536) % 256, n \div 16777216>>
Number(b) == b[1] + 256 * (b[2] + 256 * (b[3] + 256 * b[4]))

(* A structure whose last member is an array: in a DocInvert the hits      *)
(* begin in the structure's last three bytes, which are padding.           *)
SizeofDocInvert == 8
HitsOffset == 5

(* Mutant of DocInvert: the hits are put behind the structure.             *)
DocInvertBehind(doc) ==
  U32(doc.local_id) \o <<Len(doc.hits)>> \o <<Junk, Junk, Junk>> \o doc.hits

(* The memory of a DocInvert, as ProcessDoc fills it.                      *)
DocInvertOf(doc) ==
  U32(doc.local_id) \o <<Len(doc.hits)>> \o doc.hits \o <<Junk, Junk, Junk>>

HitsSize(memory) == memory[HitsOffset]

(* local_id and hits, as searchd finds them in that memory.                *)
Posting(memory) ==
  [local_id |-> Number(memory),
   hits     |-> SubSeq(memory, HitsOffset + 1, HitsOffset + HitsSize(memory))]

(* AttrString and AttrNames: the lengths, and the texts in the same array  *)
(* behind them, with a byte after each that is not written.                *)
AttrString(texts) ==
  [size |-> Len(texts),
   data |-> FlattenSeq([i \in 1..Len(texts) |-> U32(Len(texts[i]))]) \o
            FlattenSeq([i \in 1..Len(texts) |-> Append(texts[i], Junk)])]

Length(data, i) == Number(SubSeq(data, 4 * i - 3, 4 * i))

(* Mutant of Offset: the byte after each text is forgotten.                *)
OffsetTight(size, data, n) ==
  LET end[i \in 0..n] == IF i = 0 THEN 4 * size ELSE end[i - 1] + Length(data, i)
  IN  end[n]

(* Where the n-th text ends.                                               *)
Offset(size, data, n) ==
  LET end[i \in 0..n] ==
        IF i = 0 THEN 4 * size ELSE end[i - 1] + Length(data, i) + 1
  IN  end[n]

(* AttrString::GetString, counted from 1.                                  *)
GetString(a, i) ==
  LET pos == Offset(a.size, a.data, i - 1)
  IN  SubSeq(a.data, pos + 1, pos + Length(a.data, i))

-----------------------------------------------------------------------------
(* LookaIndexWriter                                                        *)

InvertBytes(doc) ==
  LET invert == DocInvertOf(doc)
  IN  SubSeq(invert, 1, SizeofDocInvert + HitsSize(invert))

InvertsOf(t) == [j \in 1..Len(t.docs) |-> InvertBytes(t.docs[j])]

TokenBytes(t) ==
  Id(t.str) \o U32(Len(t.str)) \o t.str \o U32(Len(t.docs)) \o
  FlattenSeq(InvertsOf(t))

FileOfIndex(inverter) ==
  FlattenSeq([i \in 1..Len(inverter) |-> TokenBytes(inverter[i])])

(* size, and the lengths and texts it counts                               *)
StringsIn(a) == <<a.size>> \o SubSeq(a.data, 1, Offset(a.size, a.data, a.size))

AttrBytes(values) ==
  IF layout = "string" THEN StringsIn(AttrString(values))
  ELSE <<Len(values)>> \o FlattenSeq([j \in 1..Len(values) |-> U32(values[j])])

FileOfSummary(summary) ==
  U32(Len(summary.docs)) \o StringsIn(AttrString(summary.names)) \o
  FlattenSeq([i \in 1..Len(summary.docs) |-> AttrBytes(summary.docs[i])])

Write ==
  /\ label = "writing"
  /\ bytes' = IF layout = "index" THEN FileOfIndex(written)
             ELSE FileOfSummary(written)
  /\ label' = "reading"
  /\ UNCHANGED <<layout, written, at, left, token, read>>

(* The indexer is interrupted, or the disk is full.                        *)
WriteTorn ==
  /\ label = "writing"
  /\ LET whole == IF layout = "index" THEN FileOfIndex(written)
                  ELSE FileOfSummary(written)
     IN  \E n \in 0..(Len(whole) - 1) : bytes' = SubSeq(whole, 1, n)
  /\ label' = "reading"
  /\ UNCHANGED <<layout, written, at, left, token, read>>

-----------------------------------------------------------------------------
(* LookaIndexReader::ReadIndexFromFile                                     *)

Behind(n) == SubSeq(bytes, at + n + 1, Len(bytes))

(* The bytes up to and with the number of the token's entries.             *)
TokenLength == Number(Behind(8))
TokenHead   == 12 + TokenLength + 4

ReadingToken == layout = "index" /\ label = "reading" /\ left = 0 /\ at < Len(bytes)

(* std::string(buf): the buffer was cleared, but a token that fills it has *)
(* no NUL behind it. None has one inside, as tokens come from C strings.   *)
Buffered(chars) ==
  IF Len(chars) < BUFF_SIZE THEN {chars} ELSE {chars \o b : b \in Beyond}

(* They are all there, and the text goes into the buffer.                  *)
HasToken ==
  at + 12 <= Len(bytes) /\ TokenLength <= BUFF_SIZE /\ at + TokenHead <= Len(bytes)

ReadToken ==
  /\ ReadingToken /\ HasToken
  /\ token' \in Buffered(SubSeq(bytes, at + 13, at + 12 + TokenLength))
  /\ left' = Number(Behind(TokenHead - 4))
  /\ at' = at + TokenHead
  /\ UNCHANGED <<layout, written, bytes, label, read>>

ReadingInvert == layout = "index" /\ label = "reading" /\ left > 0

(* The structure, then as many bytes as its hits_size says.                *)
InvertSize == SizeofDocInvert + HitsSize(Behind(0))

HasInvert ==
  at + SizeofDocInvert <= Len(bytes) /\ at + InvertSize <= Len(bytes)

(* LookaInverter::Add: behind the entries the token has.                   *)
Add(inverter, str, doc) ==
  LET entries == IF str \in DOMAIN inverter THEN inverter[str] ELSE <<>>
  IN  [s \in DOMAIN inverter \cup {str} |->
         IF s = str THEN Append(entries, doc) ELSE inverter[s]]

(* They are read into one piece of memory; inverter->Add.                  *)
ReadInvert ==
  /\ ReadingInvert /\ HasInvert
  /\ LET doc == Posting(SubSeq(bytes, at + 1, at + InvertSize))
     IN  /\ at' = at + InvertSize
         /\ read' = Add(read, token, doc)
  /\ left' = left - 1
  /\ UNCHANGED <<layout, written, bytes, label, token>>

EndOfIndex ==
  /\ layout = "index" /\ label = "reading" /\ left = 0 /\ at >= Len(bytes)
  /\ label' = "done"
  /\ UNCHANGED <<layout, written, bytes, at, left, token, read>>

-----------------------------------------------------------------------------
(* LookaIndexReader::ReadSummaryFromFile                                   *)

(* The size, the lengths and the texts that begin n bytes further on.      *)
HasStrings(n) ==
  LET size == Behind(n)[1]
  IN  /\ at + n + 1 <= Len(bytes)
      /\ at + n + 1 + 4 * size <= Len(bytes)
      /\ at + n + 1 + Offset(size, Behind(n + 1), size) <= Len(bytes)

StringAttr(n) ==
  LET size == Behind(n)[1]
  IN  [size |-> size,
       data |-> SubSeq(Behind(n + 1), 1, Offset(size, Behind(n + 1), size))]

ReadingNames == layout # "index" /\ label = "reading" /\ at = 0

(* The count, by which the summary is sized, and the attributes' names.    *)
ReadNames ==
  /\ ReadingNames
  /\ HasStrings(4)
  /\ left' = Number(bytes)
  /\ read' = [read EXCEPT !.names = StringAttr(4)]
  /\ at' = 5 + Len(StringAttr(4).data)
  /\ UNCHANGED <<layout, written, bytes, label, token>>

ReadingAttr == layout # "index" /\ label = "reading" /\ at > 0 /\ left > 0

HasNumbers == at + 1 <= Len(bytes) /\ at + 1 + 4 * Behind(0)[1] <= Len(bytes)

Numbers ==
  [size |-> Behind(0)[1],
   data |-> [j \in 1..Behind(0)[1] |-> Number(Behind(4 * j - 3))]]

ReadTexts ==
  /\ ReadingAttr /\ layout = "string" /\ HasStrings(0)
  /\ read' = [read EXCEPT !.docs = Append(@, StringAttr(0))]
  /\ at' = at + 1 + Len(StringAttr(0).data)
  /\ left' = left - 1
  /\ UNCHANGED <<layout, written, bytes, label, token>>

ReadNumbers ==
  /\ ReadingAttr /\ layout = "number" /\ HasNumbers
  /\ read' = [read EXCEPT !.docs = Append(@, Numbers)]
  /\ at' = at + 1 + 4 * Numbers.size
  /\ left' = left - 1
  /\ UNCHANGED <<layout, written, bytes, label, token>>

EndOfSummary ==
  /\ layout # "index" /\ label = "reading" /\ at > 0 /\ left = 0
  /\ label' = "done"
  /\ UNCHANGED <<layout, written, bytes, at, left, token, read>>

-----------------------------------------------------------------------------
(* A read goes past the end of a torn file, where nobody looks, and leaves *)
(* what it should have read uninitialised; or past the end of the buffer.  *)
Undefined ==
  /\ \/ ReadingToken /\ ~HasToken
     \/ ReadingInvert /\ ~HasInvert
     \/ ReadingNames /\ ~HasStrings(4)
     \/ ReadingAttr /\ ~(IF layout = "string" THEN HasStrings(0) ELSE HasNumbers)
  /\ label' = "undefined"
  /\ UNCHANGED <<layout, written, bytes, at, left, token, read>>

FormatNext ==
  \/ Write \/ WriteTorn
  \/ ReadToken \/ ReadInvert \/ EndOfIndex
  \/ ReadNames \/ ReadTexts \/ ReadNumbers \/ EndOfSummary
  \/ Undefined

FormatSpec == FormatInit /\ [][FormatNext]_formatVars

-----------------------------------------------------------------------------
(* Properties                                                              *)

Lists ==
  [s \in {written[i].str : i \in 1..Len(written)} |->
     (CHOOSE t \in ToSet(written) : t.str = s).docs]

StoredTexts(a) == [i \in 1..a.size |-> GetString(a, i)]

ValuesOf(attr) == IF layout = "string" THEN StoredTexts(attr) ELSE attr.data

(* If no token fills the buffer, searchd has the posting lists the indexer *)
(* had, in order and with their hits, whatever the order of the tokens; of *)
(* a file that was torn it has true postings only, up to where it was torn.*)
PostingsReadBack ==
  layout = "index" /\ (\A s \in DOMAIN Lists : Len(s) < BUFF_SIZE) =>
    /\ \A s \in DOMAIN read :
         s \in DOMAIN Lists /\ IsPrefix(read[s], Lists[s])
    /\ label = "done" /\ bytes = FileOfIndex(written) => read = Lists
    /\ label = "undefined" => bytes # FileOfIndex(written)

(* The names, numbers and texts that GetString and data[] give are those   *)
(* that were stored, empty texts and documents without any included; only  *)
(* a torn file leaves some out.                                            *)
AttributesReadBack ==
  layout # "index" =>
    /\ at > 0 => StoredTexts(read.names) = written.names
    /\ \A d \in 1..Len(read.docs) : ValuesOf(read.docs[d]) = written.docs[d]
    /\ label = "done" => Len(read.docs) = Len(written.docs)
    /\ label = "undefined" => bytes # FileOfSummary(written)

(* What the indexer wrote, searchd reads.                                  *)
FilesReadBack == PostingsReadBack /\ AttributesReadBack
=============================================================================
