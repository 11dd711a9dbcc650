------------------------------- MODULE Search -------------------------------
(***************************************************************************)
(* One query in LookaSearchd::Process (searchd/looka_searchd.cpp): the     *)
(* leapfrog of LookaIntersect::Seek over the posting lists of the query's  *)
(* tokens, and the loop around it that filters the common documents,       *)
(* counts them and keeps those of the window [offset, offset + limit).     *)
(*                                                                         *)
(* The index is read-only once searchd serves, so queries do not disturb   *)
(* one another and one is enough.  A document is its local id.             *)
(***************************************************************************)
EXTENDS Integers, Sequences, FiniteSets

CONSTANTS
  NumDocs,      (* m_summary->size(): local ids are 0..NumDocs-1            *)
  Illegal,      (* kIllegalLocalDocID, the largest LocalDocID               *)
  Postings,     (* the posting lists of the index                           *)
  NoDocs,       (* the NULL GetTokenDocs returns for an unknown token       *)
  MaxTokens,    (* bound: tokens of a query                                 *)
  Offsets, Limits, (* bound: what a request says                            *)
  IntMax        (* the largest int                                          *)

Docs == 0..(NumDocs - 1)
Ids  == 0..Illegal
Ints == (-IntMax - 1)..IntMax

Ascending(s) == \A j, k \in 1..Len(s) : j < k => s[j] < s[k]

(* Documents are indexed in the order of their ids, each once per token;   *)
(* kIllegalLocalDocID is no document's id, and an int can count them.      *)
ASSUME SearchAssumption ==
  /\ NumDocs \in Nat /\ IntMax \in Nat /\ MaxTokens \in Nat
  /\ Illegal \in Nat /\ NumDocs <= Illegal /\ NumDocs <= IntMax
  /\ \A s \in Postings : s \in Seq(Docs) /\ Ascending(s)
  /\ NoDocs \notin Postings
  /\ Offsets \subseteq Ints /\ Limits \subseteq Ints

VARIABLES
  tokenInt,     (* per token its posting list, or NoDocs                    *)
  dropped,      (* the documents DropByFilter drops                         *)
  offset, limit,(* req.offset, req.limit                                    *)
  pc,           (* "seek", "probe" (the for loop of Seek) or "done"         *)
  id,           (* the document sought, or the candidate while probing      *)
  i,            (* the for loop's index, 1 for the C array's 0              *)
  total,        (* matches found so far                                     *)
  docs          (* the documents to return                                  *)

query == <<tokenInt, dropped, offset, limit>>
vars  == <<query, pc, id, i, total, docs>>

size == Len(tokenInt)

(* TokenIntersect::Seek: the first document of the list not before d.      *)
TokenSeek(list, d) ==
  LET hits == {k \in 1..Len(list) : list[k] >= d}
  IN  IF list = NoDocs \/ hits = {} THEN Illegal
      ELSE list[CHOOSE k \in hits : \A l \in hits : k <= l]

(* Seek's answer is kIllegalLocalDocID and so is Process's id.             *)
Exhausted == pc' = "done" /\ id' = Illegal /\ UNCHANGED <<query, i, total, docs>>

-----------------------------------------------------------------------------
(* SetTokens, and the start of the search.                                 *)
Init ==
  /\ \E n \in 0..MaxTokens : tokenInt \in [1..n -> Postings \cup {NoDocs}]
  /\ dropped \in SUBSET Docs
  /\ offset \in Offsets /\ limit \in Limits
  /\ pc = "seek" /\ id = 0 /\ i = 1
  /\ total = 0 /\ docs = <<>>

(* Seek is entered: the first list proposes a candidate.                   *)
Propose ==
  /\ pc = "seek" /\ size > 0
  /\ TokenSeek(tokenInt[1], id) # Illegal
  /\ id' = TokenSeek(tokenInt[1], id)
  /\ i' = 2
  /\ pc' = "probe"
  /\ UNCHANGED <<query, total, docs>>

(* No token, or the first list has no document left.                       *)
ProposeNothing ==
  /\ pc = "seek"
  /\ size > 0 => TokenSeek(tokenInt[1], id) = Illegal
  /\ Exhausted

(* List i has the candidate.                                               *)
Agree ==
  /\ pc = "probe" /\ i <= size
  /\ TokenSeek(tokenInt[i], id) = id
  /\ i' = i + 1
  /\ UNCHANGED <<query, pc, id, total, docs>>

(* Mutant of Leap: the lists before i are not asked again.                 *)
LeapOn ==
  /\ pc = "probe" /\ i <= size
  /\ TokenSeek(tokenInt[i], id) \notin {id, Illegal}
  /\ id' = TokenSeek(tokenInt[i], id)
  /\ i' = i + 1
  /\ UNCHANGED <<query, pc, total, docs>>

(* Mutant of Leap: the first list is asked from the old candidate.         *)
LeapInPlace ==
  /\ pc = "probe" /\ i <= size
  /\ TokenSeek(tokenInt[i], id) \notin {id, Illegal}
  /\ TokenSeek(tokenInt[1], id) # Illegal
  /\ id' = TokenSeek(tokenInt[1], id)
  /\ i' = 2
  /\ UNCHANGED <<query, pc, total, docs>>

(* List i goes on at a later document: the first list proposes from there, *)
(* and all other lists are asked again ("i = 1; goto again").              *)
Leap ==
  /\ pc = "probe" /\ i <= size
  /\ LET next_id == TokenSeek(tokenInt[i], id)
         lead    == TokenSeek(tokenInt[1], next_id)
     IN  /\ next_id \notin {id, Illegal} /\ lead # Illegal
         /\ id' = lead
  /\ i' = 2
  /\ UNCHANGED <<query, pc, total, docs>>

(* List i, or then the first one, has no document left.                    *)
LeapNowhere ==
  /\ pc = "probe" /\ i <= size
  /\ LET next_id == TokenSeek(tokenInt[i], id)
     IN  /\ next_id # id
         /\ next_id = Illegal \/ TokenSeek(tokenInt[1], next_id) = Illegal
  /\ Exhausted

(* offset + limit is an int: when it overflows, the comparison with it may *)
(* come out either way.                                                    *)
WindowEndOverflows == offset + limit \notin Ints

BeforeWindowEnd(t) ==
  IF WindowEndOverflows THEN BOOLEAN ELSE {t < offset + limit}

(* Mutant of Found: "[id]" for "[id++]".                                   *)
FoundAgain ==
  /\ pc = "probe" /\ i > size
  /\ id \notin dropped
  /\ total' = total + 1
  /\ pc' = "seek"
  /\ UNCHANGED <<query, id, i, docs>>

(* Mutant of Found: filtered documents are counted.                        *)
FoundUnfiltered ==
  /\ pc = "probe" /\ i > size
  /\ id' = (id + 1) % (Illegal + 1)
  /\ total' = total + 1
  /\ \E before \in BeforeWindowEnd(total) :
       docs' = IF id \notin dropped /\ total >= offset /\ before
               THEN Append(docs, id) ELSE docs
  /\ pc' = "seek"
  /\ UNCHANGED <<query, i>>

(* Seek returns the candidate: filter, count and keep it.                  *)
Found ==
  /\ pc = "probe" /\ i > size
  /\ id' = (id + 1) % (Illegal + 1)
  /\ \/ id \in dropped /\ UNCHANGED <<total, docs>>
     \/ /\ id \notin dropped
        /\ \E before \in BeforeWindowEnd(total) :
             docs' = IF total >= offset /\ before THEN Append(docs, id) ELSE docs
        /\ total' = total + 1
  /\ pc' = "seek"
  /\ UNCHANGED <<query, i>>

Next == Propose \/ ProposeNothing \/ Agree \/ Leap \/ LeapNowhere \/ Found

Spec == Init /\ [][Next]_vars

FairSpec == Spec /\ WF_vars(Next)

-----------------------------------------------------------------------------
(* Properties.                                                             *)

(* The documents every list has, and those the query matches.              *)
HasDoc(list, d) == list # NoDocs /\ \E k \in 1..Len(list) : list[k] = d

Matches ==
  {d \in Docs \ dropped : size > 0 /\ \A k \in 1..size : HasDoc(tokenInt[k], d)}

MatchesBefore(d) == {m \in Matches : m < d}

TypeOK ==
  /\ \E n \in 0..MaxTokens : tokenInt \in [1..n -> Postings \cup {NoDocs}]
  /\ dropped \subseteq Docs
  /\ offset \in Ints /\ limit \in Ints
  /\ pc \in {"seek", "probe", "done"}
  /\ id \in Ids /\ i \in Nat \ {0}
  /\ total \in 0..NumDocs
  /\ docs \in Seq(Docs)

(* m_summary is indexed with ids it has: a candidate is a document.        *)
SummaryInRange == pc = "probe" => id < NumDocs

(* However the lists leap, none of the common documents is skipped and     *)
(* none is counted twice: the count is that of the matches passed so far,  *)
(* and of all matches at the end.                                          *)
TotalIsExact == total = Cardinality(MatchesBefore(id))

(* What is returned is the window of the matches in ascending order, as    *)
(* far as the search has got: the matches whose rank is in the window.     *)
WindowIsExact ==
  ~WindowEndOverflows =>
    /\ Ascending(docs)
    /\ {docs[k] : k \in 1..Len(docs)} =
         {d \in MatchesBefore(id) :
            LET rank == Cardinality(MatchesBefore(d))
            IN  offset <= rank /\ rank < offset + limit}

(* A query comes to an end: no round of leaps goes on for ever.            *)
SearchEnds == <>(pc = "done")
=============================================================================
