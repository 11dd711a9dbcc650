------------------------- MODULE HttpConnectionProofs -------------------------
(***************************************************************************)
(* Proofs about HttpConnection for every stream, every way to cut it and   *)
(* every size of the buffers and budgets.                                  *)
(***************************************************************************)
EXTENDS HttpConnection, SequenceTheorems, WellFoundedInduction, TLAPS

-----------------------------------------------------------------------------
(* The inductive invariant.                                                *)

BuffersTyped ==
  /\ ahead \in Seq(Symbols) /\ behind \in Seq(Symbols)
  /\ header \in Seq(Symbols)

(* Reading, whatever is gone from the budget was waited; writing starts    *)
(* with a new one.                                                         *)
BudgetKept ==
  /\ pc \in {"header", "content", "process", "terminated"} =>
       status = 0 /\ waited + timeout = HTTP_READ_TIMEOUT
  /\ pc \in {"send", "done"} =>
       status # 0 /\ waited + timeout <= HTTP_READ_TIMEOUT + HTTP_WRITE_TIMEOUT

(* What the buffer is of the stream.                                       *)
BufferedStream ==
  Textual =>
    /\ pc = "header" => ahead = SubSeq(request.stream, 1, consumed)
    /\ pc = "content" =>
         /\ HeaderLength # 0 /\ header = SentHeader /\ HasLength(SentHeader)
         /\ HeaderLength <= consumed
         /\ request.length >= 0 => left = Needed - consumed
         /\ request.length < 0 => left > Len(request.stream) - consumed
         /\ ahead = SubSeq(request.stream, HeaderLength + 1, consumed)

Inv ==
  /\ TypeOK /\ BuffersTyped /\ BudgetKept /\ BufferedStream
  /\ HandlerGetsRequest /\ RefusedOnlyForCause /\ AbandonedOnlyForCause

-----------------------------------------------------------------------------
(* The operators on streams.                                               *)

LEMMA LeastExists ==
  ASSUME NEW T \in SUBSET Nat, T # {}
  PROVE  \E m \in T : \A l \in T : m <= l
  <1>1. PICK m \in T : \A l \in T : ~(<<l, m>> \in OpToRel(<, Nat))
    BY NatLessThanWellFounded, WFMin
  <1>2. \A l \in T : ~(l < m)
    BY <1>1 DEF OpToRel
  <1> QED
    BY <1>2

LEMMA HeaderEndIsFirst ==
  ASSUME NEW s \in Seq(Symbols)
  PROVE  /\ HeaderEnd(s) \in 0..Len(s)
         /\ HeaderEnd(s) # 0 =>
              /\ HeaderEnd(s) >= 2
              /\ s[HeaderEnd(s) - 1] = CRLF /\ s[HeaderEnd(s)] = CRLF
         /\ \A k \in 2..Len(s) : s[k - 1] = CRLF /\ s[k] = CRLF =>
              HeaderEnd(s) # 0 /\ HeaderEnd(s) <= k
  <1> DEFINE ends == {k \in 2..Len(s) : s[k - 1] = CRLF /\ s[k] = CRLF}
  <1>1. Len(s) \in Nat
    BY LenProperties
  <1>2. CASE ends = {}
    BY <1>1, <1>2 DEF HeaderEnd
  <1>3. CASE ends # {}
    <2>0. ends \in SUBSET Nat
      BY <1>1
    <2>1. \E m \in ends : \A l \in ends : m <= l
      BY <1>3, <2>0, LeastExists
    <2>2. HeaderEnd(s) = CHOOSE k \in ends : \A l \in ends : k <= l
      BY <1>3 DEF HeaderEnd
    <2>3. HeaderEnd(s) \in ends /\ \A l \in ends : HeaderEnd(s) <= l
      BY <2>1, <2>2
    <2> QED
      BY <1>1, <2>3
  <1> QED
    BY <1>2, <1>3

(* An empty line found in what has been read is the first of the stream.   *)
LEMMA HeaderEndOfPrefix ==
  ASSUME NEW s \in Seq(Symbols), NEW c \in 0..Len(s)
  PROVE  /\ HeaderEnd(SubSeq(s, 1, c)) # 0 =>
              HeaderEnd(s) = HeaderEnd(SubSeq(s, 1, c))
         /\ HeaderEnd(SubSeq(s, 1, c)) = 0 =>
              HeaderEnd(s) = 0 \/ c < HeaderEnd(s)
  <1> DEFINE p == SubSeq(s, 1, c)
  <1>1. Len(s) \in Nat /\ c \in Nat /\ \A i \in 1..c : s[i] \in Symbols
    BY LenProperties, ElementOfSeq
  <1>2. p \in Seq(Symbols) /\ Len(p) = c /\ \A i \in 1..c : p[i] = s[i]
    BY <1>1, SubSeqProperties
  <1> HIDE DEF p
  <1>3. HeaderEnd(p) \in 0..c
        /\ (HeaderEnd(p) # 0 =>
              /\ HeaderEnd(p) >= 2
              /\ s[HeaderEnd(p) - 1] = CRLF /\ s[HeaderEnd(p)] = CRLF)
    BY <1>1, <1>2, HeaderEndIsFirst
  <1>4. \A k \in 2..c : s[k - 1] = CRLF /\ s[k] = CRLF =>
          HeaderEnd(p) # 0 /\ HeaderEnd(p) <= k
    BY <1>1, <1>2, HeaderEndIsFirst
  <1>5. HeaderEnd(p) # 0 => HeaderEnd(s) = HeaderEnd(p)
    BY <1>1, <1>3, <1>4, HeaderEndIsFirst
  <1>6. HeaderEnd(p) = 0 => HeaderEnd(s) = 0 \/ c < HeaderEnd(s)
    BY <1>1, <1>3, <1>4, HeaderEndIsFirst
  <1> QED
    BY <1>5, <1>6 DEF p

LEMMA CStringKeepsText ==
  ASSUME NEW s \in Seq(Symbols)
  PROVE  /\ CString(s) \in Seq(Symbols)
         /\ (\A k \in 1..Len(s) : s[k] # NUL) => CString(s) = s
  <1> DEFINE nuls == {k \in 1..Len(s) : s[k] = NUL}
  <1>1. Len(s) \in Nat /\ \A i \in 1..Len(s) : s[i] \in Symbols
    BY LenProperties, ElementOfSeq
  <1>2. CASE nuls = {}
    BY <1>2 DEF CString
  <1>3. CASE nuls # {}
    <2> DEFINE m == CHOOSE k \in nuls : \A l \in nuls : k <= l
    <2>0. nuls \in SUBSET Nat
      BY <1>1
    <2>1. m \in nuls
      <3>1. \E k \in nuls : \A l \in nuls : k <= l
        <4> HIDE DEF nuls
        <4> QED
          BY <1>3, <2>0, LeastExists
      <3> QED
        BY <3>1
    <2>2. CString(s) = SubSeq(s, 1, m - 1)
      BY <1>3 DEF CString
    <2> HIDE DEF m
    <2>3. SubSeq(s, 1, m - 1) \in Seq(Symbols)
      BY <1>1, <2>1, SubSeqProperties
    <2> QED
      BY <2>1, <2>2, <2>3
  <1> QED
    BY <1>2, <1>3

(* A chunk read behind c symbols of a stream of text extends what of the   *)
(* stream was there.                                                       *)
LEMMA ChunkExtends ==
  ASSUME NEW s \in Seq(Symbols), NEW c \in Nat, NEW n \in Nat, c + n <= Len(s)
  PROVE  LET chunk == CString(SubSeq(s, c + 1, c + n))
         IN  /\ chunk \in Seq(Symbols)
             /\ \A m \in 1..c+1 : (\A k \in 1..Len(s) : s[k] # NUL) =>
                  SubSeq(s, m, c) \o chunk = SubSeq(s, m, c + n)
  <1> DEFINE cut == SubSeq(s, c + 1, c + n)
  <1>1. Len(s) \in Nat /\ \A i \in 1..Len(s) : s[i] \in Symbols
    BY LenProperties, ElementOfSeq
  <1>2. /\ cut \in Seq(Symbols) /\ Len(cut) = n
        /\ \A i \in 1..n : cut[i] = s[c + i]
    <2>1. /\ cut \in Seq(Symbols)
          /\ Len(cut) = IF c + 1 <= c + n THEN c + n - (c + 1) + 1 ELSE 0
          /\ \A i \in 1 .. (c + n) - (c + 1) + 1 : cut[i] = s[c + 1 + i - 1]
      <3>1. c + 1 \in Int /\ c + n \in Int /\ \A i \in (c + 1)..(c + n) : s[i] \in Symbols
        BY <1>1
      <3> QED
        BY <3>1, SubSeqProperties
    <2> QED
      BY <2>1
  <1>3. (\A k \in 1..Len(s) : s[k] # NUL) => CString(cut) = cut
    <2> HIDE DEF cut
    <2>1. ASSUME \A k \in 1..Len(s) : s[k] # NUL, NEW k \in 1..Len(cut)
          PROVE  cut[k] # NUL
      <3>1. k \in 1..n /\ c + k \in 1..Len(s)
        BY <1>1, <1>2, <2>1
      <3> QED
        BY <1>2, <2>1, <3>1
    <2> QED
      BY <1>2, <2>1, CStringKeepsText
  <1>4. \A m \in 1..c+1 : SubSeq(s, m, c) \o cut = SubSeq(s, m, c + n)
    <2> TAKE m \in 1..c+1
    <2>1. m \in 1..Len(s)+1 /\ c \in m-1..Len(s) /\ c + n \in c..Len(s)
      BY <1>1
    <2> QED
      BY <2>1, ConcatAdjacentSubSeq
  <1>5. CString(cut) \in Seq(Symbols)
    <2> HIDE DEF cut
    <2> QED
      BY <1>2, CStringKeepsText
  <1> QED
    BY <1>3, <1>4, <1>5

-----------------------------------------------------------------------------
LEMMA StreamTyped ==
  ASSUME TypeOK
  PROVE  /\ request.stream \in Seq(Symbols) /\ Len(request.stream) \in Nat
         /\ Len(request.stream) <= IntMax /\ IntMax \in Nat
         /\ request.length \in -IntMax - 1..IntMax
         /\ HeaderLength \in 0..Len(request.stream)
         /\ Needed \in Int
         /\ Needed >= HeaderLength \/ (HasLength(SentHeader) /\ request.length < 0)
  <1>1. /\ request.stream \in Seq(Symbols) /\ Len(request.stream) <= IntMax
        /\ IntMax \in Nat /\ request.length \in -IntMax - 1..IntMax
    BY ConnectionAssumption DEF TypeOK
  <1>2. Len(request.stream) \in Nat
    BY <1>1, LenProperties
  <1>3. HeaderLength \in 0..Len(request.stream)
    BY <1>1, HeaderEndIsFirst DEF HeaderLength
  <1> QED
    BY <1>1, <1>2, <1>3 DEF Needed

LEMMA PartsTyped ==
  ASSUME ahead \in Seq(Symbols)
  PROVE  /\ HeaderPart \in Seq(Symbols)
         /\ Rest \in Seq(Symbols) /\ Len(Rest) \in Nat
  <1>1. /\ Len(ahead) \in Nat /\ HeaderEnd(ahead) \in 0..Len(ahead)
        /\ \A i \in 1..Len(ahead) : ahead[i] \in Symbols
    BY LenProperties, ElementOfSeq, HeaderEndIsFirst
  <1>2. HeaderPart \in Seq(Symbols)
    BY <1>1, SubSeqProperties DEF HeaderPart
  <1>3. Rest \in Seq(Symbols)
    BY <1>1, SubSeqProperties DEF Rest
  <1> QED
    BY <1>2, <1>3, LenProperties

(* The int that is left of the length: negative only below what is there.  *)
LEMMA LeftTyped ==
  ASSUME TypeOK, ahead \in Seq(Symbols)
  PROVE  /\ Left \in Int
         /\ Left < 0 /\ request.length >= 0 => request.length < Len(Rest)
  BY StreamTyped, PartsTyped, SMTT(30) DEF Left, AsInt

(* In a request of text the header ends where the first empty line of the  *)
(* stream does, wherever read() cut it.                                    *)
LEMMA SplitsStream ==
  ASSUME Inv, Textual, HeaderRead
  PROVE  /\ HeaderLength # 0 /\ HeaderLength <= consumed
         /\ HeaderPart = SentHeader
         /\ Rest = SubSeq(request.stream, HeaderLength + 1, consumed)
         /\ Len(Rest) = consumed - HeaderLength
  <1> DEFINE s == request.stream
  <1>1. /\ s \in Seq(Symbols) /\ Len(s) \in Nat /\ consumed \in 0..Len(s)
        /\ \A i \in 1..Len(s) : s[i] \in Symbols
    BY StreamTyped, ElementOfSeq DEF Inv, TypeOK
  <1>2. ahead = SubSeq(s, 1, consumed) /\ HeaderEnd(ahead) # 0
    BY DEF Inv, BufferedStream, HeaderRead
  <1>3. HeaderLength = HeaderEnd(ahead)
    BY <1>1, <1>2, HeaderEndOfPrefix DEF HeaderLength
  <1>4. ahead \in Seq(Symbols) /\ Len(ahead) = consumed
    BY <1>1, <1>2, SubSeqProperties
  <1>5. HeaderLength \in 1..consumed
    <2>1. HeaderEnd(ahead) \in 0..Len(ahead)
      BY <1>4, HeaderEndIsFirst
    <2> QED
      BY <1>1, <1>2, <1>3, <1>4, <2>1
  <1>6. HeaderPart = SentHeader
    <2>1. SubSeq(SubSeq(s, 1, consumed), 1, HeaderLength)
            = SubSeq(s, 1 + 1 - 1, 1 + HeaderLength - 1)
      BY <1>1, <1>5, SubSeqOfSubSeq
    <2> QED
      BY <1>1, <1>2, <1>3, <1>5, <2>1 DEF HeaderPart, SentHeader
  <1>7. Rest = SubSeq(s, HeaderLength + 1, consumed)
    <2>1. CASE HeaderLength = consumed
      BY <1>3, <1>4, <1>5, <2>1, SubSeqEmpty DEF Rest
    <2>2. CASE HeaderLength < consumed
      <3>1. SubSeq(SubSeq(s, 1, consumed), HeaderLength + 1, consumed)
              = SubSeq(s, 1 + (HeaderLength + 1) - 1, 1 + consumed - 1)
        BY <1>1, <1>5, <2>2, SubSeqOfSubSeq
      <3> QED
        BY <1>1, <1>2, <1>3, <1>4, <1>5, <3>1, SMTT(30) DEF Rest
    <2> QED
      BY <1>1, <1>5, <2>1, <2>2
  <1>8. Len(Rest) = consumed - HeaderLength
    BY <1>1, <1>5, <1>7, SubSeqProperties
  <1> QED
    BY <1>1, <1>5, <1>6, <1>7, <1>8

-----------------------------------------------------------------------------
LEMMA InitInv == Init => Inv
  <1> SUFFICES ASSUME Init PROVE Inv
    OBVIOUS
  <1>1. TypeOK
    <2>1. Len(request.stream) \in Nat
      BY ConnectionAssumption, LenProperties DEF Init
    <2>2. /\ 0 \in 0..SendBuffer /\ 0 \in 0..ReplyLength
          /\ HTTP_READ_TIMEOUT \in Nat
      BY ConnectionAssumption
    <2>3. closed \in BOOLEAN
      BY DEF Init
    <2> QED
      BY <2>1, <2>2, <2>3 DEF Init, TypeOK
  <1>2. BuffersTyped /\ BudgetKept
    BY ConnectionAssumption, EmptySeq DEF Init, BuffersTyped, BudgetKept
  <1>3. BufferedStream
    <2>1. SubSeq(request.stream, 1, 0) = <<>>
      BY SubSeqEmpty
    <2> QED
      BY <2>1 DEF Init, BufferedStream
  <1>4. HandlerGetsRequest /\ RefusedOnlyForCause /\ AbandonedOnlyForCause
    BY DEF Init, HandlerGetsRequest, RefusedOnlyForCause, AbandonedOnlyForCause
  <1> QED
    BY <1>1, <1>2, <1>3, <1>4 DEF Inv

(* Reading neither outruns the stream nor the content.                     *)
LEMMA TypesKept == Inv /\ [Next]_vars => TypeOK'
  <1> SUFFICES ASSUME Inv, [Next]_vars PROVE TypeOK'
    OBVIOUS
  <1> USE DEF client, buffers, output
  <1>0. TypeOK /\ BuffersTyped /\ Len(request.stream) \in Nat
    BY StreamTyped DEF Inv
  <1>1. ASSUME ReadHeader PROVE TypeOK'
    BY <1>0, <1>1, ConnectionAssumption DEF ReadHeader, ReadOnce, Least, Readable, TypeOK
  <1>2. ASSUME RejectHeader PROVE TypeOK'
    BY <1>0, <1>2, ConnectionAssumption DEF RejectHeader, Reply, TypeOK
  <1>3. ASSUME AcceptHeader PROVE TypeOK'
    BY <1>0, <1>3 DEF AcceptHeader, TypeOK
  <1>4. ASSUME ContentBuffered PROVE TypeOK'
    BY <1>0, <1>4 DEF ContentBuffered, TypeOK
  <1>5. ASSUME BeginContent PROVE TypeOK'
    BY <1>0, <1>5, LeftTyped DEF BeginContent, BuffersTyped, TypeOK
  <1>6. ASSUME ReadContent PROVE TypeOK'
    BY <1>0, <1>6, ConnectionAssumption DEF ReadContent, NeedsContent, ReadOnce, Least, Readable, TypeOK
  <1>7. ASSUME ContentRead PROVE TypeOK'
    BY <1>0, <1>7 DEF ContentRead, TypeOK
  <1>8. ASSUME ReadFails PROVE TypeOK'
    BY <1>0, <1>8, ConnectionAssumption DEF ReadFails, Reply, TypeOK
  <1>9. ASSUME Process PROVE TypeOK'
    BY <1>0, <1>9, ConnectionAssumption DEF Process, Reply, TypeOK
  <1>10. ASSUME Write PROVE TypeOK'
    BY <1>0, <1>10, ConnectionAssumption DEF Write, Writable, Least, TypeOK
  <1>11. ASSUME WriteFails PROVE TypeOK'
    BY <1>0, <1>11 DEF WriteFails, TypeOK
  <1>12. ASSUME Tick PROVE TypeOK'
    BY <1>0, <1>12 DEF Tick, TypeOK
  <1>13. ASSUME Arrive PROVE TypeOK'
    BY <1>0, <1>13 DEF Arrive, TypeOK
  <1>14. ASSUME Leave PROVE TypeOK'
    BY <1>0, <1>14 DEF Leave, TypeOK
  <1>15. ASSUME Receive PROVE TypeOK'
    BY <1>0, <1>15, ConnectionAssumption DEF Receive, TypeOK
  <1>16. ASSUME UNCHANGED vars PROVE TypeOK'
    BY <1>0, <1>16 DEF vars, TypeOK
  <1>17. ASSUME ContentThrows PROVE TypeOK'
    BY <1>0, <1>17 DEF ContentThrows, TypeOK
  <1> QED
    BY <1>1, <1>2, <1>3, <1>4, <1>5, <1>6, <1>7, <1>8, <1>9, <1>10, <1>11,
       <1>12, <1>13, <1>14, <1>15, <1>16, <1>17 DEF Next, Thread

LEMMA BuffersStayTyped == Inv /\ [Next]_vars => BuffersTyped'
  <1> SUFFICES ASSUME Inv, [Next]_vars PROVE BuffersTyped'
    OBVIOUS
  <1> USE DEF client, buffers, output
  <1>0. /\ BuffersTyped /\ HeaderPart \in Seq(Symbols) /\ Rest \in Seq(Symbols)
        /\ <<>> \in Seq(Symbols)
    BY PartsTyped, EmptySeq DEF Inv, BuffersTyped
  <1> DEFINE chunk(n) == CString(SubSeq(request.stream, consumed + 1, consumed + n))
  <1>c. ASSUME NEW max \in Nat, NEW n \in 1..HTTP_READ_BUF_SIZE,
               n = Least(max, arrived - consumed)
        PROVE  chunk(n) \in Seq(Symbols)
    <2>1. /\ request.stream \in Seq(Symbols) /\ consumed \in Nat /\ n \in Nat
          /\ consumed + n <= Len(request.stream)
      BY <1>c, StreamTyped, ConnectionAssumption DEF Inv, TypeOK, Least
    <2> QED
      BY <2>1, ChunkExtends
  <1>1. ASSUME ReadHeader PROVE BuffersTyped'
    <2>1. PICK n \in 1..HTTP_READ_BUF_SIZE : ReadOnce(HTTP_READ_BUF_SIZE, n)
      BY <1>1 DEF ReadHeader
    <2>2. chunk(n) \in Seq(Symbols)
      BY <2>1, <1>c, ConnectionAssumption DEF ReadOnce
    <2>3. ahead \o chunk(n) \in Seq(Symbols)
      BY <1>0, <2>2, ConcatProperties DEF BuffersTyped
    <2> QED
      BY <1>0, <1>1, <2>1, <2>3 DEF ReadHeader, ReadOnce, BuffersTyped
  <1>2. ASSUME RejectHeader PROVE BuffersTyped'
    BY <1>0, <1>2 DEF RejectHeader, HeaderRead, BuffersTyped
  <1>3. ASSUME AcceptHeader PROVE BuffersTyped'
    BY <1>0, <1>3 DEF AcceptHeader, HeaderRead, BuffersTyped
  <1>4. ASSUME ContentBuffered PROVE BuffersTyped'
    <2>1. SubSeq(Rest, 1, request.length) \in Seq(Symbols)
      <3>1. /\ request.length \in Nat /\ request.length < Len(Rest)
            /\ \A i \in 1..Len(Rest) : Rest[i] \in Symbols /\ Len(Rest) \in Nat
        BY <1>0, <1>4, StreamTyped, LeftTyped, ElementOfSeq, LenProperties
           DEF ContentBuffered, Inv, BuffersTyped
      <3> QED
        BY <1>0, <3>1, LenProperties, SubSeqProperties
    <2>2. SubSeq(Rest, request.length + 1, Len(Rest)) \in Seq(Symbols)
      <3>1. /\ request.length \in Nat /\ Len(Rest) \in Nat
            /\ \A i \in 1..Len(Rest) : Rest[i] \in Symbols
        BY <1>0, <1>4, StreamTyped, ElementOfSeq, LenProperties
           DEF ContentBuffered, Inv
      <3> QED
        BY <3>1, SubSeqProperties
    <2> QED
      BY <1>0, <1>4, <2>1, <2>2
         DEF ContentBuffered, ContentExpected, HeaderRead, BuffersTyped
  <1>5. ASSUME BeginContent PROVE BuffersTyped'
    BY <1>0, <1>5 DEF BeginContent, ContentExpected, HeaderRead, BuffersTyped
  <1>6. ASSUME ReadContent PROVE BuffersTyped'
    <2>1. PICK n \in 1..HTTP_READ_BUF_SIZE :
            ReadOnce(Least(left, HTTP_READ_BUF_SIZE), n)
      BY <1>6 DEF ReadContent
    <2>2. Least(left, HTTP_READ_BUF_SIZE) \in Nat
      BY ConnectionAssumption DEF Inv, TypeOK, Least
    <2>3. chunk(n) \in Seq(Symbols)
      BY <2>1, <2>2, <1>c DEF ReadOnce
    <2>4. ahead \o chunk(n) \in Seq(Symbols)
      BY <1>0, <2>3, ConcatProperties DEF BuffersTyped
    <2> QED
      BY <1>0, <1>6, <2>1, <2>4 DEF ReadContent, ReadOnce, BuffersTyped
  <1>7. ASSUME ContentRead PROVE BuffersTyped'
    BY <1>0, <1>7 DEF ContentRead, BuffersTyped
  <1>8. ASSUME ReadFails PROVE BuffersTyped'
    BY <1>0, <1>8 DEF ReadFails, BuffersTyped
  <1>9. ASSUME Process PROVE BuffersTyped'
    BY <1>0, <1>9 DEF Process, BuffersTyped
  <1>10. ASSUME Write PROVE BuffersTyped'
    BY <1>0, <1>10 DEF Write, BuffersTyped
  <1>11. ASSUME WriteFails PROVE BuffersTyped'
    BY <1>0, <1>11 DEF WriteFails, BuffersTyped
  <1>12. ASSUME Tick PROVE BuffersTyped'
    BY <1>0, <1>12 DEF Tick, BuffersTyped
  <1>13. ASSUME Arrive PROVE BuffersTyped'
    BY <1>0, <1>13 DEF Arrive, BuffersTyped
  <1>14. ASSUME Leave PROVE BuffersTyped'
    BY <1>0, <1>14 DEF Leave, BuffersTyped
  <1>15. ASSUME Receive PROVE BuffersTyped'
    BY <1>0, <1>15 DEF Receive, BuffersTyped
  <1>16. ASSUME UNCHANGED vars PROVE BuffersTyped'
    BY <1>0, <1>16 DEF vars, BuffersTyped
  <1>17. ASSUME ContentThrows PROVE BuffersTyped'
    BY <1>0, <1>17 DEF ContentThrows, ContentExpected, HeaderRead, BuffersTyped
  <1> QED
    BY <1>1, <1>2, <1>3, <1>4, <1>5, <1>6, <1>7, <1>8, <1>9, <1>10, <1>11,
       <1>12, <1>13, <1>14, <1>15, <1>16, <1>17 DEF Next, Thread

LEMMA BudgetStaysKept == Inv /\ [Next]_vars => BudgetKept'
  <1> SUFFICES ASSUME Inv, [Next]_vars PROVE BudgetKept'
    OBVIOUS
  <1> USE DEF client, buffers, output
  <1>0. BudgetKept /\ timeout \in Nat /\ waited \in Nat
        /\ pc \in {"header", "content", "process", "send", "done", "terminated"}
        /\ HTTP_READ_TIMEOUT \in Nat /\ HTTP_WRITE_TIMEOUT \in Nat
    BY ConnectionAssumption DEF Inv, TypeOK
  <1>1. ASSUME ReadHeader PROVE BudgetKept'
    BY <1>0, <1>1 DEF ReadHeader, BudgetKept
  <1>2. ASSUME RejectHeader PROVE BudgetKept'
    BY <1>0, <1>2 DEF RejectHeader, HeaderRead, Reply, BudgetKept
  <1>3. ASSUME AcceptHeader PROVE BudgetKept'
    BY <1>0, <1>3 DEF AcceptHeader, HeaderRead, BudgetKept
  <1>4. ASSUME ContentBuffered PROVE BudgetKept'
    BY <1>0, <1>4 DEF ContentBuffered, ContentExpected, HeaderRead, BudgetKept
  <1>5. ASSUME BeginContent PROVE BudgetKept'
    BY <1>0, <1>5 DEF BeginContent, ContentExpected, HeaderRead, BudgetKept
  <1>6. ASSUME ReadContent PROVE BudgetKept'
    BY <1>0, <1>6 DEF ReadContent, BudgetKept
  <1>7. ASSUME ContentRead PROVE BudgetKept'
    BY <1>0, <1>7 DEF ContentRead, BudgetKept
  <1>8. ASSUME ReadFails PROVE BudgetKept'
    BY <1>0, <1>8 DEF ReadFails, NeedsHeader, NeedsContent, Reply, BudgetKept
  <1>9. ASSUME Process PROVE BudgetKept'
    BY <1>0, <1>9 DEF Process, Reply, BudgetKept
  <1>10. ASSUME Write PROVE BudgetKept'
    BY <1>0, <1>10 DEF Write, BudgetKept
  <1>11. ASSUME WriteFails PROVE BudgetKept'
    BY <1>0, <1>11 DEF WriteFails, BudgetKept
  <1>12. ASSUME Tick PROVE BudgetKept'
    BY <1>0, <1>12 DEF Tick, BudgetKept
  <1>13. ASSUME Arrive PROVE BudgetKept'
    BY <1>0, <1>13 DEF Arrive, BudgetKept
  <1>14. ASSUME Leave PROVE BudgetKept'
    BY <1>0, <1>14 DEF Leave, BudgetKept
  <1>15. ASSUME Receive PROVE BudgetKept'
    BY <1>0, <1>15 DEF Receive, BudgetKept
  <1>16. ASSUME UNCHANGED vars PROVE BudgetKept'
    BY <1>0, <1>16 DEF vars, BudgetKept
  <1>17. ASSUME ContentThrows PROVE BudgetKept'
    BY <1>0, <1>17 DEF ContentThrows, ContentExpected, HeaderRead, BudgetKept
  <1> QED
    BY <1>1, <1>2, <1>3, <1>4, <1>5, <1>6, <1>7, <1>8, <1>9, <1>10, <1>11,
       <1>12, <1>13, <1>14, <1>15, <1>16, <1>17 DEF Next, Thread

(* What is said of the stream does not change: the stream does not.        *)
LEMMA StreamFixed ==
  ASSUME request' = request
  PROVE  /\ HeaderLength' = HeaderLength /\ SentHeader' = SentHeader
         /\ Needed' = Needed /\ Textual' = Textual
  BY DEF HeaderLength, SentHeader, Needed, Textual

LEMMA RequestFixed == [Next]_vars => request' = request
  BY DEF Next, Thread, vars, client, ReadHeader, RejectHeader, AcceptHeader,
         ContentBuffered, ContentThrows, BeginContent, ReadContent, ContentRead, ReadFails,
         Process, Write, WriteFails, Tick, Arrive, Leave, Receive

(* The buffer stays a piece of the stream of text.                         *)
LEMMA StreamStaysBuffered ==
  Inv /\ [Next]_vars => BufferedStream' /\ HandlerGetsRequest'
  <1> SUFFICES ASSUME Inv, [Next]_vars, Textual
               PROVE  BufferedStream' /\ HandlerGetsRequest'
    BY RequestFixed, StreamFixed DEF BufferedStream, HandlerGetsRequest
  <1> USE DEF client, buffers, output
  <1>0. /\ request' = request
        /\ HeaderLength' = HeaderLength /\ SentHeader' = SentHeader
        /\ Needed' = Needed /\ Textual' = Textual
    BY RequestFixed, StreamFixed
  <1>i. BufferedStream /\ HandlerGetsRequest /\ TypeOK
    BY DEF Inv
  <1>s. /\ request.stream \in Seq(Symbols) /\ Len(request.stream) \in Nat
        /\ Len(request.stream) <= IntMax /\ IntMax \in Nat
        /\ request.length \in -IntMax - 1..IntMax
        /\ HeaderLength \in Nat /\ Needed \in Int
        /\ consumed \in Nat /\ arrived \in Nat /\ left \in Nat
        /\ consumed <= arrived /\ arrived <= Len(request.stream)
    BY <1>i, StreamTyped DEF TypeOK
  <1>h. ASSUME HeaderRead
        PROVE  /\ HeaderLength # 0 /\ HeaderLength <= consumed
               /\ HeaderPart = SentHeader
               /\ Rest = SubSeq(request.stream, HeaderLength + 1, consumed)
               /\ Len(Rest) = consumed - HeaderLength
    BY <1>h, SplitsStream
  <1>c. ASSUME NEW m \in 1..consumed + 1, NEW n \in Nat,
               consumed + n <= Len(request.stream)
        PROVE  SubSeq(request.stream, m, consumed)
                 \o CString(SubSeq(request.stream, consumed + 1, consumed + n))
               = SubSeq(request.stream, m, consumed + n)
    BY <1>c, <1>s, ChunkExtends DEF Textual
  <1>1. ASSUME ReadHeader PROVE (BufferedStream /\ HandlerGetsRequest)'
    <2>1. PICK n \in 1..HTTP_READ_BUF_SIZE : ReadOnce(HTTP_READ_BUF_SIZE, n)
      BY <1>1 DEF ReadHeader
    <2>2. n \in Nat /\ consumed + n <= Len(request.stream) /\ 1 \in 1..consumed + 1
      BY <1>s, <2>1, ConnectionAssumption DEF ReadOnce, Least
    <2>3. ahead' = SubSeq(request.stream, 1, consumed')
      BY <1>i, <1>1, <1>c, <2>1, <2>2
         DEF ReadHeader, NeedsHeader, ReadOnce, BufferedStream
    <2> QED
      BY <1>0, <1>1, <2>3
         DEF ReadHeader, NeedsHeader, BufferedStream, HandlerGetsRequest
  <1>2. ASSUME RejectHeader PROVE (BufferedStream /\ HandlerGetsRequest)'
    BY <1>0, <1>2 DEF RejectHeader, Reply, BufferedStream, HandlerGetsRequest
  <1>3. ASSUME AcceptHeader PROVE (BufferedStream /\ HandlerGetsRequest)'
    <2>1. header' = SentHeader /\ HeaderLength # 0 /\ ~HasLength(SentHeader)
      BY <1>3, <1>h DEF AcceptHeader, HeaderRead
    <2> QED
      BY <1>0, <1>3, <2>1 DEF AcceptHeader, BufferedStream, HandlerGetsRequest
  <1>4. ASSUME ContentBuffered PROVE (BufferedStream /\ HandlerGetsRequest)'
    <2> DEFINE s == request.stream
    <2>1. /\ header' = SentHeader /\ HeaderLength # 0 /\ HeaderLength <= consumed
          /\ request.length >= 0
          /\ Needed = HeaderLength + request.length /\ Needed < consumed
      BY <1>4, <1>h, <1>s, LeftTyped
         DEF ContentBuffered, ContentExpected, HeaderRead, Needed,
             Inv, BuffersTyped
    <2>2. ahead' = SubSeq(SubSeq(s, HeaderLength + 1, consumed), 1, request.length)
      BY <1>4, <1>h DEF ContentBuffered, ContentExpected
    <2>3. ahead' = SubSeq(s, HeaderLength + 1, Needed)
      <3>1. CASE request.length = 0
        BY <1>s, <2>1, <2>2, <3>1, SubSeqEmpty
      <3>2. CASE request.length > 0
        <4>1. /\ HeaderLength + 1 \in 1..Len(s) /\ consumed \in 1..Len(s)
              /\ 1 \in 1..(consumed - (HeaderLength + 1) + 1)
              /\ request.length \in 1..(consumed - (HeaderLength + 1) + 1)
          BY <1>s, <2>1, <3>2
        <4>2. ahead' = SubSeq(s, HeaderLength + 1 + 1 - 1,
                                 HeaderLength + 1 + request.length - 1)
          BY <1>s, <2>2, <4>1, SubSeqOfSubSeq
        <4>3. /\ HeaderLength + 1 + 1 - 1 = HeaderLength + 1
              /\ HeaderLength + 1 + request.length - 1 = Needed
          BY <1>s, <2>1
        <4> QED
          BY <4>2, <4>3
      <3> QED
        BY <1>s, <2>1, <3>1, <3>2
    <2> QED
      BY <1>0, <1>4, <2>1, <2>3
         DEF ContentBuffered, BufferedStream, HandlerGetsRequest
  <1>5. ASSUME BeginContent PROVE (BufferedStream /\ HandlerGetsRequest)'
    <2>1. /\ header' = SentHeader /\ HeaderLength # 0 /\ HeaderLength <= consumed
          /\ HasLength(SentHeader)
          /\ Needed = HeaderLength + request.length
          /\ ahead' = SubSeq(request.stream, HeaderLength + 1, consumed)
          /\ left' = AsInt(request.length - (consumed - HeaderLength)) /\ left' >= 0
      BY <1>5, <1>h DEF BeginContent, ContentExpected, HeaderRead, Needed, Left
    <2>2. /\ request.length >= 0 => left' = Needed - consumed
          /\ request.length < 0 => left' > Len(request.stream) - consumed
      <3> DEFINE there == consumed - HeaderLength
      <3>1. /\ there \in 0..IntMax /\ Needed - consumed = request.length - there
            /\ Len(request.stream) - consumed <= IntMax - there
        BY <1>s, <2>1
      <3> HIDE DEF there
      <3>2. /\ request.length - there < -IntMax - 1 \/ left' = request.length - there
            /\ request.length - there < -IntMax - 1 =>
                 left' = request.length - there + 2 * (IntMax + 1)
        <4>1. left' = AsInt(request.length - there)
          BY <2>1 DEF there
        <4> QED
          BY <4>1 DEF AsInt
      <3>3. request.length >= 0 => left' = Needed - consumed
        BY <1>s, <3>1, <3>2
      <3>4. request.length < 0 => left' > IntMax - there
        <4> SUFFICES ASSUME request.length < 0 PROVE left' > IntMax - there
          OBVIOUS
        <4> HIDE DEF there
        <4>1. left' >= 0 /\ there \in Int /\ IntMax \in Int /\ request.length \in Int
              /\ there >= 0 /\ request.length >= -IntMax - 1
          BY <1>s, <2>1, <3>1
        <4>2. left' # request.length - there
          BY <4>1
        <4>3. left' = request.length - there + 2 * (IntMax + 1)
          BY <4>2, <3>2
        <4> QED
          BY <4>1, <4>3
      <3> QED
        BY <1>s, <3>1, <3>2, <3>3, <3>4, SMTT(30)
    <2> QED
      BY <1>0, <1>5, <2>1, <2>2 DEF BeginContent, BufferedStream, HandlerGetsRequest
  <1>6. ASSUME ReadContent PROVE (BufferedStream /\ HandlerGetsRequest)'
    <2>1. PICK n \in 1..HTTP_READ_BUF_SIZE :
            /\ ReadOnce(Least(left, HTTP_READ_BUF_SIZE), n)
            /\ left' = left - n
      BY <1>6 DEF ReadContent
    <2>2. n \in Nat /\ consumed + n <= Len(request.stream)
      BY <1>s, <2>1, ConnectionAssumption DEF ReadOnce, Least
    <2>3. /\ pc = "content" /\ HeaderLength <= consumed
          /\ request.length >= 0 => left = Needed - consumed
          /\ request.length < 0 => left > Len(request.stream) - consumed
          /\ HeaderLength # 0 /\ header = SentHeader /\ HasLength(SentHeader)
          /\ ahead = SubSeq(request.stream, HeaderLength + 1, consumed)
      BY <1>i, <1>6 DEF ReadContent, NeedsContent, BufferedStream
    <2>4. /\ consumed' = consumed + n
          /\ ahead' = ahead \o CString(SubSeq(request.stream, consumed + 1, consumed + n))
      BY <2>1 DEF ReadOnce
    <2>5. ahead' = SubSeq(request.stream, HeaderLength + 1, consumed')
      <3>1. HeaderLength + 1 \in 1..consumed + 1
        BY <1>s, <2>3
      <3> QED
        BY <1>c, <2>2, <2>3, <2>4, <3>1
    <2>6. /\ HeaderLength <= consumed'
          /\ request.length >= 0 => left' = Needed - consumed'
          /\ request.length < 0 => left' > Len(request.stream) - consumed'
      BY <1>s, <2>1, <2>2, <2>3, <2>4
    <2> QED
      BY <1>0, <1>6, <2>3, <2>5, <2>6
         DEF ReadContent, BufferedStream, HandlerGetsRequest
  <1>7. ASSUME ContentRead PROVE (BufferedStream /\ HandlerGetsRequest)'
    <2>1. /\ header = SentHeader /\ HeaderLength # 0
          /\ request.length >= 0 /\ consumed = Needed
          /\ ahead = SubSeq(request.stream, HeaderLength + 1, consumed)
      BY <1>i, <1>s, <1>7 DEF ContentRead, NeedsContent, BufferedStream
    <2> QED
      BY <1>0, <1>7, <2>1 DEF ContentRead, BufferedStream, HandlerGetsRequest
  <1>8. ASSUME ReadFails PROVE (BufferedStream /\ HandlerGetsRequest)'
    BY <1>0, <1>8 DEF ReadFails, Reply, BufferedStream, HandlerGetsRequest
  <1>9. ASSUME Process PROVE (BufferedStream /\ HandlerGetsRequest)'
    BY <1>0, <1>9 DEF Process, Reply, BufferedStream, HandlerGetsRequest
  <1>10. ASSUME Write PROVE (BufferedStream /\ HandlerGetsRequest)'
    BY <1>0, <1>10 DEF Write, BufferedStream, HandlerGetsRequest
  <1>11. ASSUME WriteFails PROVE (BufferedStream /\ HandlerGetsRequest)'
    BY <1>0, <1>11 DEF WriteFails, BufferedStream, HandlerGetsRequest
  <1>12. ASSUME Tick PROVE (BufferedStream /\ HandlerGetsRequest)'
    BY <1>0, <1>i, <1>12 DEF Tick, BufferedStream, HandlerGetsRequest
  <1>13. ASSUME Arrive PROVE (BufferedStream /\ HandlerGetsRequest)'
    BY <1>0, <1>i, <1>13 DEF Arrive, BufferedStream, HandlerGetsRequest
  <1>14. ASSUME Leave PROVE (BufferedStream /\ HandlerGetsRequest)'
    BY <1>0, <1>i, <1>14 DEF Leave, BufferedStream, HandlerGetsRequest
  <1>15. ASSUME Receive PROVE (BufferedStream /\ HandlerGetsRequest)'
    BY <1>0, <1>i, <1>15 DEF Receive, BufferedStream, HandlerGetsRequest
  <1>16. ASSUME UNCHANGED vars PROVE (BufferedStream /\ HandlerGetsRequest)'
    BY <1>0, <1>i, <1>16 DEF vars, BufferedStream, HandlerGetsRequest
  <1>17. ASSUME ContentThrows PROVE (BufferedStream /\ HandlerGetsRequest)'
    BY <1>0, <1>17 DEF ContentThrows, BufferedStream, HandlerGetsRequest
  <1> QED
    BY <1>1, <1>2, <1>3, <1>4, <1>5, <1>6, <1>7, <1>8, <1>9, <1>10, <1>11,
       <1>12, <1>13, <1>14, <1>15, <1>16, <1>17 DEF Next, Thread

(* Refusals.                                                               *)
LEMMA RefusalsHaveCause == Inv /\ [Next]_vars => RefusedOnlyForCause'
  <1> SUFFICES ASSUME Inv, [Next]_vars, Textual PROVE RefusedOnlyForCause'
    BY RequestFixed, StreamFixed DEF RefusedOnlyForCause
  <1> USE DEF client, buffers, output
  <1>0. /\ RefusedOnlyForCause /\ BudgetKept /\ TypeOK
        /\ request' = request
        /\ HeaderLength' = HeaderLength /\ SentHeader' = SentHeader
        /\ Needed' = Needed /\ Textual' = Textual
    BY RequestFixed, StreamFixed DEF Inv
  <1>s. /\ HeaderLength \in Nat /\ Needed \in Int /\ request.length \in Int
        /\ Needed >= HeaderLength \/ (HasLength(SentHeader) /\ request.length < 0)
        /\ consumed \in Nat /\ left \in Nat /\ waited \in Nat
        /\ timeout \in Nat /\ HTTP_READ_TIMEOUT \in Nat
    BY <1>0, StreamTyped, ConnectionAssumption DEF TypeOK
  <1>1. ASSUME ReadHeader PROVE RefusedOnlyForCause'
    BY <1>0, <1>1 DEF ReadHeader, NeedsHeader, NeedsContent, HeaderRead, BudgetKept, RefusedOnlyForCause
  <1>2. ASSUME RejectHeader PROVE RefusedOnlyForCause'
    <2>1. HeaderLength # 0 /\ ~Parses(SentHeader)
      BY <1>2, SplitsStream DEF RejectHeader
    <2> QED
      BY <1>0, <2>1 DEF RefusedOnlyForCause
  <1>3. ASSUME AcceptHeader PROVE RefusedOnlyForCause'
    BY <1>0, <1>3 DEF AcceptHeader, NeedsHeader, NeedsContent, HeaderRead, BudgetKept, RefusedOnlyForCause
  <1>4. ASSUME ContentBuffered PROVE RefusedOnlyForCause'
    BY <1>0, <1>4 DEF ContentBuffered, NeedsHeader, NeedsContent, HeaderRead, BudgetKept, RefusedOnlyForCause
  <1>5. ASSUME BeginContent PROVE RefusedOnlyForCause'
    BY <1>0, <1>5 DEF BeginContent, NeedsHeader, NeedsContent, HeaderRead, BudgetKept, RefusedOnlyForCause
  <1>6. ASSUME ReadContent PROVE RefusedOnlyForCause'
    BY <1>0, <1>6 DEF ReadContent, NeedsHeader, NeedsContent, HeaderRead, BudgetKept, RefusedOnlyForCause
  <1>7. ASSUME ContentRead PROVE RefusedOnlyForCause'
    BY <1>0, <1>7 DEF ContentRead, NeedsHeader, NeedsContent, HeaderRead, BudgetKept, RefusedOnlyForCause
  <1>8. ASSUME ReadFails PROVE RefusedOnlyForCause'
    <2>1. closed \/ waited = HTTP_READ_TIMEOUT
      BY <1>0, <1>s, <1>8 DEF ReadFails, NeedsHeader, NeedsContent, BudgetKept
    <2>2. CASE NeedsHeader
      <3>1. /\ ahead = SubSeq(request.stream, 1, consumed) /\ HeaderEnd(ahead) = 0
            /\ request.stream \in Seq(Symbols)
            /\ consumed \in 0..Len(request.stream)
        BY <2>2, <1>0, StreamTyped
           DEF NeedsHeader, Inv, BufferedStream, TypeOK
      <3>2. HeaderLength = 0 \/ consumed < HeaderLength
        BY <3>1, HeaderEndOfPrefix DEF HeaderLength
      <3> QED
        BY <1>0, <1>s, <1>8, <2>1, <3>2 DEF ReadFails, RefusedOnlyForCause
    <2>3. CASE NeedsContent
      <3>1. consumed < Needed \/ (HasLength(SentHeader) /\ request.length < 0)
        BY <1>s, <2>3 DEF NeedsContent, Inv, BufferedStream
      <3> QED
        BY <1>0, <1>s, <1>8, <2>1, <3>1 DEF ReadFails, RefusedOnlyForCause
    <2> QED
      BY <1>8, <2>2, <2>3 DEF ReadFails
  <1>9. ASSUME Process PROVE RefusedOnlyForCause'
    BY <1>0, <1>9 DEF Process, Reply, RefusedOnlyForCause
  <1>10. ASSUME Write PROVE RefusedOnlyForCause'
    BY <1>0, <1>10 DEF Write, RefusedOnlyForCause
  <1>11. ASSUME WriteFails PROVE RefusedOnlyForCause'
    BY <1>0, <1>11 DEF WriteFails, RefusedOnlyForCause
  <1>12. ASSUME Tick PROVE RefusedOnlyForCause'
    BY <1>0, <1>s, <1>12 DEF Tick, RefusedOnlyForCause
  <1>13. ASSUME Arrive PROVE RefusedOnlyForCause'
    BY <1>0, <1>13 DEF Arrive, RefusedOnlyForCause
  <1>14. ASSUME Leave PROVE RefusedOnlyForCause'
    BY <1>0, <1>14 DEF Leave, RefusedOnlyForCause
  <1>15. ASSUME Receive PROVE RefusedOnlyForCause'
    BY <1>0, <1>15 DEF Receive, RefusedOnlyForCause
  <1>16. ASSUME UNCHANGED vars PROVE RefusedOnlyForCause'
    BY <1>0, <1>16 DEF vars, RefusedOnlyForCause
  <1>17. ASSUME ContentThrows PROVE RefusedOnlyForCause'
    BY <1>0, <1>17 DEF ContentThrows, RefusedOnlyForCause
  <1> QED
    BY <1>1, <1>2, <1>3, <1>4, <1>5, <1>6, <1>7, <1>8, <1>9, <1>10, <1>11,
       <1>12, <1>13, <1>14, <1>15, <1>16, <1>17 DEF Next, Thread

LEMMA AbandonedHasCause == Inv /\ [Next]_vars => AbandonedOnlyForCause'
  <1> SUFFICES ASSUME Inv, [Next]_vars PROVE AbandonedOnlyForCause'
    OBVIOUS
  <1> USE DEF client, buffers, output
  <1>0. AbandonedOnlyForCause /\ TypeOK
    BY DEF Inv
  <1>1. ASSUME ReadHeader PROVE AbandonedOnlyForCause'
    BY <1>0, <1>1 DEF ReadHeader, NeedsHeader, NeedsContent, AbandonedOnlyForCause
  <1>2. ASSUME RejectHeader PROVE AbandonedOnlyForCause'
    BY <1>0, <1>2 DEF RejectHeader, Reply, AbandonedOnlyForCause
  <1>3. ASSUME AcceptHeader PROVE AbandonedOnlyForCause'
    BY <1>0, <1>3 DEF AcceptHeader, AbandonedOnlyForCause
  <1>4. ASSUME ContentBuffered PROVE AbandonedOnlyForCause'
    BY <1>0, <1>4 DEF ContentBuffered, AbandonedOnlyForCause
  <1>5. ASSUME BeginContent PROVE AbandonedOnlyForCause'
    BY <1>0, <1>5 DEF BeginContent, AbandonedOnlyForCause
  <1>6. ASSUME ReadContent PROVE AbandonedOnlyForCause'
    BY <1>0, <1>6 DEF ReadContent, NeedsHeader, NeedsContent, AbandonedOnlyForCause
  <1>7. ASSUME ContentRead PROVE AbandonedOnlyForCause'
    BY <1>0, <1>7 DEF ContentRead, AbandonedOnlyForCause
  <1>8. ASSUME ReadFails PROVE AbandonedOnlyForCause'
    BY <1>0, <1>8 DEF ReadFails, Reply, AbandonedOnlyForCause
  <1>9. ASSUME Process PROVE AbandonedOnlyForCause'
    BY <1>0, <1>9 DEF Process, Reply, AbandonedOnlyForCause
  <1>10. ASSUME Write PROVE AbandonedOnlyForCause'
    BY <1>0, <1>10 DEF Write, AbandonedOnlyForCause
  <1>11. ASSUME WriteFails PROVE AbandonedOnlyForCause'
    BY <1>0, <1>11 DEF WriteFails, AbandonedOnlyForCause
  <1>12. ASSUME Tick PROVE AbandonedOnlyForCause'
    BY <1>0, <1>12 DEF Tick, Blocked, NeedsHeader, NeedsContent, AbandonedOnlyForCause
  <1>13. ASSUME Arrive PROVE AbandonedOnlyForCause'
    BY <1>0, <1>13 DEF Arrive, AbandonedOnlyForCause
  <1>14. ASSUME Leave PROVE AbandonedOnlyForCause'
    BY <1>0, <1>14 DEF Leave, AbandonedOnlyForCause
  <1>15. ASSUME Receive PROVE AbandonedOnlyForCause'
    BY <1>0, <1>15 DEF Receive, AbandonedOnlyForCause
  <1>16. ASSUME UNCHANGED vars PROVE AbandonedOnlyForCause'
    BY <1>0, <1>16 DEF vars, AbandonedOnlyForCause
  <1>17. ASSUME ContentThrows PROVE AbandonedOnlyForCause'
    BY <1>0, <1>17 DEF ContentThrows, AbandonedOnlyForCause
  <1> QED
    BY <1>1, <1>2, <1>3, <1>4, <1>5, <1>6, <1>7, <1>8, <1>9, <1>10, <1>11,
       <1>12, <1>13, <1>14, <1>15, <1>16, <1>17 DEF Next, Thread

THEOREM Invariance == Spec => []Inv
  <1>1. Inv /\ [Next]_vars => Inv'
    BY TypesKept, BuffersStayTyped, BudgetStaysKept, StreamStaysBuffered,
       RefusalsHaveCause, AbandonedHasCause DEF Inv
  <1> QED
    BY <1>1, InitInv, PTL DEF Spec

(* read() stays within the stream and the content within its length.       *)
THEOREM TypeCorrect == Spec => []TypeOK
  BY Invariance, PTL DEF Inv

(* However read() cuts the stream, the handler gets the request in it.     *)
THEOREM RequestReachesHandler == Spec => []HandlerGetsRequest
  BY Invariance, PTL DEF Inv

(* No good request of text is refused that came whole and in time.         *)
THEOREM RefusalsAreJustified == Spec => []RefusedOnlyForCause
  BY Invariance, PTL DEF Inv

(* No reply is cut short while the client is there and time is left.       *)
THEOREM RepliesAreFinished == Spec => []AbandonedOnlyForCause
  BY Invariance, PTL DEF Inv

(* The two budgets bound the time a thread waits for one client.           *)
THEOREM WaitingIsBounded == Spec => []WaitBounded
  <1>1. Inv => WaitBounded
    BY ConnectionAssumption DEF Inv, TypeOK, BudgetKept, WaitBounded
  <1> QED
    BY <1>1, Invariance, PTL
=============================================================================
