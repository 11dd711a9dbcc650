---------------------------- MODULE SearchProofs ----------------------------
(***************************************************************************)
(* Proofs about Search for every index, query, filter and window.          *)
(***************************************************************************)
EXTENDS Search, FiniteSetTheorems, WellFoundedInduction, TLAPS

-----------------------------------------------------------------------------
(* TokenSeek.                                                              *)

LEMMA LeastNatural ==
  ASSUME NEW S \in SUBSET Nat, S # {}
  PROVE  \E m \in S : \A n \in S : m <= n
  <1> DEFINE R == OpToRel(<, Nat)
  <1>1. IsWellFoundedOn(R, Nat)
    BY NatLessThanWellFounded
  <1>2. \E m \in S : \A n \in S : ~ (<<n, m>> \in R)
    <2> HIDE DEF R
    <2> QED
      BY <1>1, WFMin
  <1>3. \A m, n \in Nat : n < m => <<n, m>> \in R
    BY DEF OpToRel
  <1> HIDE DEF R
  <1>4. \A m, n \in Nat : ~(n < m) => m <= n
    OBVIOUS
  <1> QED
    BY <1>2, <1>3, <1>4

(* On an ascending list the scan of TokenIntersect::Seek finds the least   *)
(* document not before d, and kIllegalLocalDocID if there is none.         *)
LEMMA SeekFindsLeast ==
  ASSUME NEW list \in Postings \cup {NoDocs}, NEW d \in Nat
  PROVE  \/ /\ TokenSeek(list, d) = Illegal
            /\ \A e \in Docs : e >= d => ~HasDoc(list, e)
         \/ /\ TokenSeek(list, d) \in Docs
            /\ TokenSeek(list, d) >= d
            /\ HasDoc(list, TokenSeek(list, d))
            /\ \A e \in Docs : d <= e /\ e < TokenSeek(list, d) => ~HasDoc(list, e)
  <1> DEFINE hits == {k \in 1..Len(list) : list[k] >= d}
             first == CHOOSE k \in hits : \A l \in hits : k <= l
  <1>1. CASE list = NoDocs
    BY <1>1 DEF TokenSeek, HasDoc
  <1>2. CASE list # NoDocs /\ hits = {}
    <2>1. TokenSeek(list, d) = Illegal
      BY <1>2 DEF TokenSeek
    <2>2. \A k \in 1..Len(list) : ~(list[k] >= d)
      BY <1>2
    <2> QED
      BY <2>1, <2>2 DEF HasDoc
  <1>3. CASE list # NoDocs /\ hits # {}
    <2>1. list \in Seq(Docs) /\ Ascending(list)
      BY <1>3, SearchAssumption
    <2>2. Len(list) \in Nat /\ \A k \in 1..Len(list) : list[k] \in Docs
      BY <2>1
    <2>3. Docs \subseteq Nat /\ \A k \in 1..Len(list) : list[k] \in Nat
      BY <2>2, SearchAssumption DEF Docs
    <2>4. \E k \in hits : \A l \in hits : k <= l
      <3>1. hits \in SUBSET Nat /\ hits # {}
        BY <1>3, <2>2
      <3> HIDE DEF hits
      <3> QED
        BY <3>1, LeastNatural
    <2>5. first \in hits /\ \A l \in hits : first <= l
      BY <2>4
    <2>6. /\ first \in 1..Len(list) /\ list[first] >= d
          /\ \A l \in 1..Len(list) : list[l] >= d => first <= l
      BY <2>5
    <2>7. TokenSeek(list, d) = list[first]
      BY <1>3 DEF TokenSeek
    <2> HIDE DEF first
    <2>8. HasDoc(list, list[first])
      BY <1>3, <2>6 DEF HasDoc
    <2>9. ASSUME NEW e \in Docs, d <= e, e < list[first], HasDoc(list, e)
          PROVE  FALSE
      <3>1. PICK k \in 1..Len(list) : list[k] = e
        BY <2>9 DEF HasDoc
      <3>2. first <= k
        BY <2>3, <2>6, <2>9, <3>1
      <3>3. list[first] <= list[k]
        BY <2>1, <2>2, <2>3, <2>6, <3>1, <3>2 DEF Ascending
      <3> QED
        BY <2>2, <2>3, <2>6, <2>9, <3>1, <3>3
    <2> QED
      BY <2>2, <2>6, <2>7, <2>8, <2>9
  <1> QED
    BY <1>1, <1>2, <1>3

-----------------------------------------------------------------------------
(* The inductive invariant.                                                *)

(* The cursor never passes the last document; a candidate is a document of *)
(* every list that has been asked.                                         *)
Candidate ==
  /\ pc = "seek" => id <= NumDocs
  /\ pc = "probe" =>
       /\ id \in Docs
       /\ i \in 2..(size + 1)
       /\ \A k \in 1..(i - 1) : HasDoc(tokenInt[k], id)

Inv == TypeOK /\ Candidate /\ TotalIsExact /\ WindowIsExact

LEMMA Tokens ==
  ASSUME TypeOK
  PROVE  /\ size \in 0..MaxTokens
         /\ \A k \in 1..size : tokenInt[k] \in Postings \cup {NoDocs}
  BY SearchAssumption DEF TypeOK, size

(* What is left to show of the types once the query is kept.               *)
LEMMA TypesKept ==
  ASSUME TypeOK, UNCHANGED query, pc' \in {"seek", "probe", "done"},
         id' \in Ids, i' \in Nat \ {0}, total' \in 0..NumDocs, docs' \in Seq(Docs)
  PROVE  TypeOK'
  <1>1. PICK n \in 0..MaxTokens : tokenInt \in [1..n -> Postings \cup {NoDocs}]
    BY DEF TypeOK
  <1>2. tokenInt' = tokenInt /\ dropped' = dropped /\ offset' = offset
        /\ limit' = limit
    BY DEF query
  <1>3. tokenInt' \in [1..n -> Postings \cup {NoDocs}]
    BY <1>1, <1>2
  <1>4. dropped' \subseteq Docs /\ offset' \in Ints /\ limit' \in Ints
    BY <1>2 DEF TypeOK
  <1> QED
    BY <1>3, <1>4 DEF TypeOK

LEMMA MatchesFinite ==
  ASSUME NEW d \in Nat
  PROVE  /\ IsFiniteSet(MatchesBefore(d))
         /\ Cardinality(MatchesBefore(d)) \in 0..NumDocs
  <1>1. IsFiniteSet(Docs) /\ Cardinality(Docs) = NumDocs
    BY FS_Interval, SearchAssumption DEF Docs
  <1>2. MatchesBefore(d) \in SUBSET Docs
    BY DEF MatchesBefore, Matches
  <1> QED
    BY <1>1, <1>2, FS_Subset, FS_CardinalityType, SearchAssumption

LEMMA MatchesKept ==
  ASSUME UNCHANGED query
  PROVE  Matches' = Matches /\ \A d : MatchesBefore(d)' = MatchesBefore(d)
  BY DEF query, Matches, MatchesBefore, size

(* Passing over documents that do not match keeps count and window exact.  *)
LEMMA PassingOver ==
  ASSUME TypeOK, TotalIsExact, WindowIsExact,
         UNCHANGED <<query, total, docs>>,
         id' \in Nat, id <= id',
         \A d \in Matches : id <= d => id' <= d
  PROVE  TotalIsExact' /\ WindowIsExact'
  <1>1. Matches' = Matches /\ \A d : MatchesBefore(d)' = MatchesBefore(d)
    BY MatchesKept
  <1>2. Matches \subseteq Nat /\ id \in Nat
    BY SearchAssumption DEF TypeOK, Matches, Docs, Ids
  <1>3. MatchesBefore(id') = MatchesBefore(id)
    <2>1. \A m \in Matches : m < id' <=> m < id
      BY <1>2
    <2> QED
      BY <2>1 DEF MatchesBefore
  <1>4. MatchesBefore(id)' = MatchesBefore(id)
    BY <1>1, <1>3 DEF MatchesBefore
  <1>5. TotalIsExact'
    BY <1>4 DEF TotalIsExact
  <1>6. WindowIsExact'
    BY <1>1, <1>4
    DEF WindowIsExact, WindowEndOverflows, Ascending, query
  <1> QED
    BY <1>5, <1>6

LEMMA InitInv == Init => Inv
  <1> SUFFICES ASSUME Init PROVE Inv
    OBVIOUS
  <1> USE SearchAssumption
  <1>1. TypeOK
    BY DEF Init, TypeOK, Ids
  <1>2. Candidate
    BY DEF Init, Candidate
  <1>3. MatchesBefore(id) = {}
    BY DEF Init, MatchesBefore, Matches, Docs
  <1>4. TotalIsExact
    BY <1>3, FS_EmptySet DEF Init, TotalIsExact
  <1>5. WindowIsExact
    BY <1>3 DEF Init, WindowIsExact, Ascending
  <1> QED
    BY <1>1, <1>2, <1>4, <1>5 DEF Inv

(* When Seek is exhausted, no document from the candidate on matches.      *)
LEMMA ExhaustedInv ==
  ASSUME Inv, Exhausted, \A d \in Matches : ~(id <= d)
  PROVE  Inv'
  <1> USE SearchAssumption DEF Inv, Exhausted
  <1>1. TotalIsExact' /\ WindowIsExact'
    <2>1. id' \in Nat /\ id <= id'
      BY DEF TypeOK, Ids
    <2> QED
      BY <2>1, PassingOver
  <1>2. TypeOK'
    BY TypesKept DEF TypeOK, Ids
  <1>3. Candidate'
    BY DEF Candidate
  <1> QED
    BY <1>1, <1>2, <1>3

LEMMA NextInv == Inv /\ [Next]_vars => Inv'
  <1> SUFFICES ASSUME Inv, [Next]_vars PROVE Inv'
    OBVIOUS
  <1> USE DEF Inv
  <1>0. /\ id \in Nat /\ size \in Nat
        /\ \A k \in 1..size : tokenInt[k] \in Postings \cup {NoDocs}
        /\ NumDocs \in Nat /\ Illegal \in Nat /\ NumDocs <= Illegal
        /\ \A d \in Docs : d \in Nat /\ d < NumDocs /\ d \in Ids /\ d # Illegal
    BY Tokens, SearchAssumption DEF TypeOK, Ids, Docs
  <1>1. CASE Propose
    <2> DEFINE lead == TokenSeek(tokenInt[1], id)
    <2>1. /\ lead \in Docs /\ lead >= id /\ HasDoc(tokenInt[1], lead)
          /\ \A e \in Docs : id <= e /\ e < lead => ~HasDoc(tokenInt[1], e)
      BY <1>0, <1>1, SeekFindsLeast DEF Propose
    <2>2. \A d \in Matches : id <= d => lead <= d
      <3>1. \A d \in Matches : d \in Docs /\ HasDoc(tokenInt[1], d)
        BY <1>0, <1>1 DEF Propose, Matches
      <3> HIDE DEF lead
      <3> QED
        BY <1>0, <2>1, <3>1
    <2>3. id' = lead /\ i' = 2 /\ pc' = "probe" /\ UNCHANGED <<query, total, docs>>
      BY <1>1 DEF Propose
    <2>4. TotalIsExact' /\ WindowIsExact'
      BY <1>0, <2>1, <2>2, <2>3, PassingOver
    <2>5. TypeOK'
      BY <1>0, <2>1, <2>3, TypesKept DEF TypeOK, Ids
    <2>6. Candidate'
      BY <1>0, <1>1, <2>1, <2>3 DEF Propose, Candidate, query, size
    <2> QED
      BY <2>4, <2>5, <2>6
  <1>2. CASE ProposeNothing
    <2>1. \A d \in Matches : ~(id <= d)
      BY <1>0, <1>2, SeekFindsLeast DEF ProposeNothing, Matches
    <2> QED
      BY <1>2, <2>1, ExhaustedInv DEF ProposeNothing
  <1>3. CASE Agree
    <2>1. HasDoc(tokenInt[i], id) /\ i \in 2..size
      <3>1. i \in 2..size /\ id \in Docs
        BY <1>0, <1>3 DEF Agree, Candidate
      <3>2. TokenSeek(tokenInt[i], id) = id /\ id # Illegal
        BY <1>0, <1>3, <3>1 DEF Agree
      <3> QED
        BY <1>0, <3>1, <3>2, SeekFindsLeast
    <2>2. TotalIsExact' /\ WindowIsExact'
      BY <1>0, <1>3, PassingOver DEF Agree
    <2>3. TypeOK'
      BY <1>3, TypesKept DEF Agree, TypeOK
    <2>4. Candidate'
      <3>1. UNCHANGED <<query, id, pc>> /\ i' = i + 1 /\ pc = "probe"
        BY <1>3 DEF Agree
      <3>2. size' = size /\ tokenInt' = tokenInt
        BY <3>1 DEF query, size
      <3>3. /\ id \in Docs /\ i' \in 2..(size + 1)
            /\ \A k \in 1..(i' - 1) : HasDoc(tokenInt[k], id)
        BY <1>0, <2>1, <3>1 DEF Candidate
      <3> QED
        BY <3>1, <3>2, <3>3 DEF Candidate, HasDoc
    <2> QED
      BY <2>2, <2>3, <2>4
  <1>4. CASE Leap
    <2> DEFINE next_id == TokenSeek(tokenInt[i], id)
               lead    == TokenSeek(tokenInt[1], next_id)
    <2>1. i \in 1..size /\ 1 \in 1..size
      BY <1>0, <1>4 DEF Leap, TypeOK
    <2>2. /\ next_id \in Docs /\ next_id >= id
          /\ \A e \in Docs : id <= e /\ e < next_id => ~HasDoc(tokenInt[i], e)
      BY <1>0, <1>4, <2>1, SeekFindsLeast DEF Leap
    <2>3. /\ lead \in Docs /\ lead >= next_id /\ HasDoc(tokenInt[1], lead)
          /\ \A e \in Docs : next_id <= e /\ e < lead => ~HasDoc(tokenInt[1], e)
      BY <1>0, <1>4, <2>1, <2>2, SeekFindsLeast DEF Leap
    <2>4. id' = lead /\ i' = 2 /\ pc' = "probe" /\ UNCHANGED <<query, total, docs>>
      BY <1>4 DEF Leap
    <2>5. \A d \in Matches : id <= d => lead <= d
      <3>1. \A d \in Matches :
              d \in Docs /\ HasDoc(tokenInt[i], d) /\ HasDoc(tokenInt[1], d)
        BY <2>1 DEF Matches
      <3> HIDE DEF next_id, lead
      <3> QED
        BY <1>0, <2>2, <2>3, <3>1
    <2> HIDE DEF next_id, lead
    <2>6. TotalIsExact' /\ WindowIsExact'
      BY <1>0, <2>2, <2>3, <2>4, <2>5, PassingOver
    <2>7. TypeOK'
      BY <1>0, <2>3, <2>4, TypesKept DEF TypeOK, Ids
    <2>8. Candidate'
      BY <1>0, <2>1, <2>3, <2>4 DEF Candidate, query, size
    <2> QED
      BY <2>6, <2>7, <2>8
  <1>5. CASE LeapNowhere
    <2>1. i \in 1..size /\ 1 \in 1..size
      BY <1>0, <1>5 DEF LeapNowhere, TypeOK
    <2>2. \A d \in Matches : ~(id <= d)
      <3> DEFINE next_id == TokenSeek(tokenInt[i], id)
      <3>1. CASE next_id = Illegal
        BY <1>0, <2>1, <3>1, SeekFindsLeast DEF Matches
      <3>2. CASE next_id # Illegal /\ TokenSeek(tokenInt[1], next_id) = Illegal
        <4>1. /\ next_id \in Docs /\ next_id >= id
              /\ \A e \in Docs : id <= e /\ e < next_id => ~HasDoc(tokenInt[i], e)
          BY <1>0, <2>1, <3>2, SeekFindsLeast
        <4>2. \A e \in Docs : e >= next_id => ~HasDoc(tokenInt[1], e)
          <5>1. next_id \in Nat /\ tokenInt[1] \in Postings \cup {NoDocs}
            BY <1>0, <2>1, <4>1
          <5> HIDE DEF next_id
          <5> QED
            BY <1>0, <3>2, <5>1, SeekFindsLeast
        <4> HIDE DEF next_id
        <4> QED
          BY <1>0, <2>1, <4>1, <4>2 DEF Matches
      <3> QED
        BY <1>5, <3>1, <3>2 DEF LeapNowhere
    <2> QED
      BY <1>5, <2>2, ExhaustedInv DEF LeapNowhere
  <1>6. CASE Found
    <2>1. id \in Docs /\ id' = id + 1
      <3>1. id \in Docs /\ id' = (id + 1) % (Illegal + 1)
        BY <1>6 DEF Found, Candidate
      <3>2. id + 1 \in 0..Illegal
        BY <1>0, <3>1
      <3>3. \A a, b \in Nat : a < b => a % b = a
        OBVIOUS
      <3>4. (id + 1) % (Illegal + 1) = id + 1
        BY <1>0, <3>2, <3>3
      <3> QED
        BY <3>1, <3>4
    <2>2. /\ UNCHANGED query /\ pc' = "seek" /\ i' = i
      BY <1>6 DEF Found
    <2>3. Candidate'
      BY <1>0, <2>1, <2>2 DEF Candidate
    <2>4. CASE id \in dropped
      <3>1. UNCHANGED <<query, total, docs>> /\ id \notin Matches
        BY <1>6, <2>4 DEF Found, Matches
      <3>2. TotalIsExact' /\ WindowIsExact'
        BY <1>0, <2>1, <3>1, PassingOver DEF Matches
      <3>3. TypeOK'
        BY <1>0, <2>1, <2>2, <3>1, TypesKept DEF TypeOK, Ids
      <3> QED
        BY <2>3, <3>2, <3>3
    <2>5. CASE id \notin dropped
      <3>1. id \in Matches
        BY <1>0, <1>6, <2>1, <2>5 DEF Found, Matches, Candidate
      <3>2. MatchesBefore(id)' = MatchesBefore(id) \cup {id}
        <4>1. MatchesBefore(id)' = {m \in Matches : m < id + 1}
          BY <2>1, <2>2, MatchesKept DEF MatchesBefore
        <4>2. \A m \in Matches : m < id + 1 <=> m < id \/ m = id
          BY <1>0 DEF Matches
        <4> QED
          BY <3>1, <4>1, <4>2 DEF MatchesBefore
      <3>3. id \notin MatchesBefore(id)
        BY <1>0 DEF MatchesBefore
      <3>4. total' = total + 1
        BY <1>6, <2>5 DEF Found
      <3>5. TotalIsExact'
        BY <1>0, <3>2, <3>3, <3>4, MatchesFinite, FS_AddElement
        DEF TotalIsExact
      <3>6. WindowIsExact'
        <4> SUFFICES ASSUME ~WindowEndOverflows'
                     PROVE  /\ Ascending(docs')
                            /\ {docs'[k] : k \in 1..Len(docs')} =
                                 {d \in MatchesBefore(id)' :
                                    LET rank == Cardinality(MatchesBefore(d)')
                                    IN  offset <= rank /\ rank < offset + limit}
          BY <2>2 DEF WindowIsExact, query
        <4> DEFINE inWindow(d) == LET rank == Cardinality(MatchesBefore(d))
                                  IN  offset <= rank /\ rank < offset + limit
        <4>1. ~WindowEndOverflows
          BY <2>2 DEF WindowEndOverflows, query
        <4>2. /\ docs \in Seq(Docs) /\ Ascending(docs)
              /\ {docs[k] : k \in 1..Len(docs)} =
                   {d \in MatchesBefore(id) : inWindow(d)}
          BY <4>1 DEF WindowIsExact, TypeOK
        <4>3. docs' = IF inWindow(id) THEN Append(docs, id) ELSE docs
          BY <1>6, <2>5, <4>1
          DEF Found, TotalIsExact, BeforeWindowEnd, TypeOK, Ints
        <4>4. \A d : MatchesBefore(d)' = MatchesBefore(d)
          BY <2>2, MatchesKept
        <4>5. {d \in MatchesBefore(id)' : inWindow(d)} =
                IF inWindow(id) THEN {docs[k] : k \in 1..Len(docs)} \cup {id}
                ELSE {docs[k] : k \in 1..Len(docs)}
          BY <3>2, <4>2
        <4>6. \A k \in 1..Len(docs) : docs[k] < id
          BY <4>2 DEF MatchesBefore
        <4> HIDE DEF inWindow
        <4>7. Ascending(docs')
          BY <1>0, <2>1, <4>2, <4>3, <4>6 DEF Ascending
        <4>8. {docs'[k] : k \in 1..Len(docs')} = {d \in MatchesBefore(id)' : inWindow(d)}
          BY <2>1, <4>2, <4>3, <4>5
        <4> QED
          BY <4>4, <4>7, <4>8 DEF inWindow
      <3>7. TypeOK'
        <4>1. total' \in 0..NumDocs
          <5>1. id + 1 \in Nat /\ MatchesBefore(id)' = MatchesBefore(id + 1)
            BY <1>0, <2>1, <2>2, MatchesKept DEF MatchesBefore
          <5> QED
            BY <3>5, <5>1, MatchesFinite DEF TotalIsExact
        <4>2. docs' \in Seq(Docs)
          BY <1>6, <2>1 DEF Found, TypeOK
        <4> QED
          BY <1>0, <2>1, <2>2, <4>1, <4>2, TypesKept DEF TypeOK, Ids
      <3> QED
        BY <2>3, <3>5, <3>6, <3>7
    <2> QED
      BY <2>4, <2>5
  <1>7. CASE UNCHANGED vars
    <2>1. TotalIsExact' /\ WindowIsExact'
      BY <1>0, <1>7, PassingOver DEF vars
    <2>2. TypeOK' /\ Candidate'
      BY <1>7, TypesKept DEF vars, query, TypeOK, Candidate, size
    <2> QED
      BY <2>1, <2>2
  <1> QED
    BY <1>1, <1>2, <1>3, <1>4, <1>5, <1>6, <1>7 DEF Next

-----------------------------------------------------------------------------
(* The invariant holds of every behaviour.                                 *)
THEOREM Invariance == Spec => []Inv
  <1> QED
    BY InitInv, NextInv, PTL DEF Spec

(* Ids, counts and results stay in their types: no document is counted     *)
(* twice, or the count would pass the number of documents.                 *)
THEOREM TypeCorrect == Spec => []TypeOK
  <1>1. Inv => TypeOK
    BY DEF Inv
  <1> QED
    BY <1>1, Invariance, PTL

(* m_summary is only indexed with a document's id.                         *)
THEOREM SummaryAccessIsSafe == Spec => []SummaryInRange
  <1>1. Inv => SummaryInRange
    BY SearchAssumption DEF Inv, Candidate, SummaryInRange, Docs
  <1> QED
    BY <1>1, Invariance, PTL

(* The leapfrog counts exactly the documents that all lists have and the   *)
(* filter lets pass, for any number of lists, any index and any query.     *)
THEOREM CountIsExact == Spec => []TotalIsExact
  <1>1. Inv => TotalIsExact
    BY DEF Inv
  <1> QED
    BY <1>1, Invariance, PTL

(* The documents returned are those of the window, in ascending order.     *)
THEOREM ResultsAreTheWindow == Spec => []WindowIsExact
  <1>1. Inv => WindowIsExact
    BY DEF Inv
  <1> QED
    BY <1>1, Invariance, PTL
=============================================================================
