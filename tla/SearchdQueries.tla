---------------------------- MODULE SearchdQueries ----------------------------
(***************************************************************************)
(* Queries on what searchd has read: module IndexFiles together with the   *)
(* handler LookaSearchd::Process (searchd/looka_searchd.cpp) and the       *)
(* packers (searchd/looka_result_packer.cpp).  Init of searchd looks at no *)
(* result, so a query may meet postings of one run, attributes of others,  *)
(* kinds that were not loaded, and documents that do not exist.            *)
(*                                                                         *)
(* The memory does not change while searchd is up: one query stands for    *)
(* those of all threads.  Which ids the lists of a query have in common is *)
(* the matter of module Search, and what a filter says that of module      *)
(* DocAttributes; here any id of a posting list may be found, and any      *)
(* document dropped.                                                       *)
(***************************************************************************)
EXTENDS IndexFiles

CONSTANTS
  Nowhere,      (* the "kind" of a name that no kind of attributes has      *)
  FilterKinds,  (* the kinds of the names in a filter                       *)
  ShownKinds,   (* the kinds of the names a packer looks up                 *)
  MaxId,        (* bound: the last id in a list that was read from torn file*)
  NoQuery       (* no query is being processed                              *)

ASSUME QueriesAssumption ==
  /\ Nowhere \notin Kinds
  /\ FilterKinds \subseteq SUBSET (Kinds \cup {Nowhere})
  /\ ShownKinds \subseteq SUBSET (Kinds \cup {Nowhere})
  /\ MaxId \in Nat
  /\ NoQuery \notin [found : SUBSET Nat, filter : FilterKinds,
                     shown : ShownKinds, kept : SUBSET Nat]

VARIABLES
  query,    (* the ids still to be looked at, the names, the documents kept *)
  crashes   (* history: the snapshots of searchds that a query crashed      *)

queryVars == <<vars, query, crashes>>

QueryInit == Init /\ query = NoQuery /\ crashes = {}

-----------------------------------------------------------------------------
(* The ids in the posting lists a run wrote.                               *)
IdsOf(r) == CASE r = Absent -> {}
              [] r = Torn   -> 0..MaxId
              [] OTHER      -> 0..docs[r] - 1

(* Mutant of Postings: the lists are read again from the file.             *)
PostingsOnDisk == IdsOf(disk[Index])

Postings == IdsOf(inverted)

(* GetAttrNameIndex walks the names of every kind, then the attribute of   *)
(* the kind that has the name is read: no pointer on this way is NULL.     *)
Reaches(names, id) ==
  names # {} =>
    /\ \A k \in Kinds : loaded[k] # Absent
    /\ \A k \in names \ {Nowhere} : id < cover[k]

(* m_summary is indexed past its end, or the names or the number of        *)
(* attributes come from a torn file: the outcome is undefined.             *)
Undefined(names, id) ==
  \/ id >= size
  \/ names # {} /\ \E k \in Kinds : loaded[k] = Torn

MayGoOn(names, id)  == Reaches(names, id) \/ id >= size
MayCrash(names, id) == ~Reaches(names, id) \/ Undefined(names, id)

-----------------------------------------------------------------------------
(* A step of the indexer, or of searchd's main: queries die with searchd.  *)
ProcessStep ==
  /\ Next
  /\ query' = IF searchd' = "up" THEN query ELSE NoQuery
  /\ UNCHANGED crashes

(* The request is parsed and segmented, its lists are found.               *)
Process ==
  /\ searchd = "up" /\ query = NoQuery
  /\ \E found \in SUBSET Postings, filter \in FilterKinds, shown \in ShownKinds :
       query' = [found |-> found, filter |-> filter, shown |-> shown, kept |-> {}]
  /\ UNCHANGED <<vars, crashes>>

Matching == query # NoQuery /\ query.found # {}

(* The document passes the filter and is in the window.                    *)
Keep ==
  /\ Matching
  /\ \E id \in query.found :
       /\ \A j \in query.found : id <= j
       /\ MayGoOn(query.filter, id)
       /\ query' = [query EXCEPT !.found = @ \ {id}, !.kept = @ \cup {id}]
  /\ UNCHANGED <<vars, crashes>>

(* It is outside the window, or dropped by the first name that misses.     *)
Drop ==
  /\ Matching
  /\ \E id \in query.found :
       /\ \A j \in query.found : id <= j
       /\ \/ MayGoOn(query.filter, id)
          \/ \E k \in query.filter : MayGoOn({k}, id)
       /\ query' = [query EXCEPT !.found = @ \ {id}]
  /\ UNCHANGED <<vars, crashes>>

(* PackResult of every document that was kept.                             *)
PackResult ==
  /\ query # NoQuery /\ query.found = {}
  /\ \A id \in query.kept : MayGoOn(query.shown, id)
  /\ query' = NoQuery
  /\ UNCHANGED <<vars, crashes>>

Crashes ==
  /\ Exit
  /\ query' = NoQuery
  /\ crashes' = crashes \cup {snapshot}

FilterCrashes ==
  /\ Matching
  /\ \E id \in query.found :
       /\ \A j \in query.found : id <= j
       /\ MayCrash(query.filter, id)
  /\ Crashes

PackResultCrashes ==
  /\ query # NoQuery /\ query.found = {}
  /\ \E id \in query.kept : MayCrash(query.shown, id)
  /\ Crashes

QueryNext ==
  \/ ProcessStep
  \/ Process \/ Keep \/ Drop \/ PackResult
  \/ FilterCrashes \/ PackResultCrashes

QuerySpec == QueryInit /\ [][QueryNext]_queryVars

-----------------------------------------------------------------------------
(* Properties                                                              *)

(* The documents of a query are read in pieces from here to the end of the *)
(* answer.  In a searchd that found a complete index undisturbed, each of  *)
(* them exists and has its attributes of every kind, all of the run the    *)
(* posting lists are of: whatever the indexer does to the files meanwhile. *)
DocumentsAreWhole ==
  query # NoQuery /\ snapshot # Absent =>
    \A id \in query.found \cup query.kept :
      /\ id < size
      /\ \A k \in Kinds : loaded[k] = inverted /\ id < cover[k]

(* No query crashes such a searchd, whatever it filters by and in whatever *)
(* format it asks for the answer.  (One that was disturbed, or found files *)
(* missing, it may: nothing between Init and here looks at what was read.) *)
QueriesAreSafe == crashes \subseteq {Absent}
=============================================================================
