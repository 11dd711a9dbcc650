------------------------------ MODULE IndexFiles ------------------------------
(***************************************************************************)
(* The five files of an index, between the indexer that replaces them      *)
(* (indexer/looka_indexer.cpp, LookaIndexWriter) and searchd, which reads  *)
(* them when it starts (searchd/looka_searchd.cpp, LookaIndexReader).      *)
(* Both are processes of their own and share nothing else.                 *)
(*                                                                         *)
(* What a file holds is named by the indexer run that wrote it; docs[r] is *)
(* the number of documents run r fetched. Reading one file is one step.    *)
(***************************************************************************)
EXTENDS Integers, Sequences, FiniteSets

CONSTANTS
  Index,          (* the file of the inverted index                         *)
  KindOrder,      (* the kinds of attributes, in the order they are written *)
  MaxRuns,        (* bound: how often the indexer is run                    *)
  DocCounts,      (* how many documents a run may fetch                     *)
  Faults          (* whether the indexer's file operations may fail         *)

Kinds == {KindOrder[i] : i \in 1..Len(KindOrder)}
Files == {Index} \cup Kinds
Runs  == 1..MaxRuns
Absent == 0       (* no such file; nothing read                             *)
Torn   == -1      (* truncated, and not completely written                  *)

ASSUME FilesAssumption ==
  /\ KindOrder \in Seq(Kinds) /\ KindOrder # <<>> /\ Index \notin Kinds
  /\ MaxRuns \in Nat /\ DocCounts \subseteq Nat
  /\ Faults \in BOOLEAN

VARIABLES
  disk,       (* what each file holds                                       *)
  run,        (* the indexer's last run                                     *)
  docs,       (* the number of documents of each run                        *)
  todo,       (* the files the indexer still has to write                   *)
  open,       (* whether it has the first of them open                      *)
  searchd,    (* "down", reading "index" or "summary", or "up"              *)
  inverted,   (* m_inverter: whose postings it holds                        *)
  size,       (* m_summary->size()                                          *)
  loaded,     (* m_attr_names: whose names each kind has, Absent for NULL   *)
  cover,      (* for how many documents m_summary has the kind's attributes *)
  unread,     (* the kinds searchd has yet to read                          *)
  snapshot    (* history: the run all files were of while searchd read them *)

indexer == <<disk, run, docs, todo, open>>
memory  == <<inverted, size, loaded, cover>>
vars    == <<indexer, searchd, memory, unread, snapshot>>

Init ==
  /\ disk = [f \in Files |-> Absent]
  /\ run = 0 /\ docs = [r \in Runs |-> 0] /\ todo = <<>> /\ open = FALSE
  /\ searchd = "down" /\ inverted = Absent /\ size = 0
  /\ loaded = [k \in Kinds |-> Absent] /\ cover = [k \in Kinds |-> 0]
  /\ unread = {} /\ snapshot = Absent

-----------------------------------------------------------------------------
(* The indexer: DoIndex                                                    *)

(* The rows are fetched until SqlFetchRow returns false, at the last row   *)
(* or at an error, or a configured field is missing.                       *)
Fetch ==
  /\ todo = <<>> /\ run < MaxRuns
  /\ run' = run + 1
  /\ \E n \in DocCounts : docs' = [docs EXCEPT ![run + 1] = n]
  /\ todo' = <<Index>> \o KindOrder
  /\ UNCHANGED <<disk, open, searchd, memory, unread, snapshot>>

(* The constructor of the ofstream truncates the file.                     *)
Open ==
  /\ todo # <<>> /\ ~open
  /\ disk' = [disk EXCEPT ![Head(todo)] = Torn]
  /\ open' = TRUE
  /\ snapshot' = IF searchd \in {"index", "summary"} THEN Absent ELSE snapshot
  /\ UNCHANGED <<run, docs, todo, searchd, memory, unread>>

Close ==
  /\ open
  /\ disk' = [disk EXCEPT ![Head(todo)] = run]
  /\ open' = FALSE
  /\ todo' = Tail(todo)
  /\ UNCHANGED <<run, docs, searchd, memory, unread, snapshot>>

(* The file cannot be opened: WriteXToFile's result is not looked at.      *)
OpenFails ==
  /\ Faults
  /\ todo # <<>> /\ ~open
  /\ todo' = Tail(todo)
  /\ UNCHANGED <<disk, run, docs, open, searchd, memory, unread, snapshot>>

(* The disk is full: nobody looks at the stream's state.                   *)
WriteFails ==
  /\ Faults
  /\ open
  /\ open' = FALSE
  /\ todo' = Tail(todo)
  /\ UNCHANGED <<disk, run, docs, searchd, memory, unread, snapshot>>

(* Mutant of Crash: the file stays open.                                   *)
CrashOpen ==
  /\ Faults
  /\ todo # <<>>
  /\ todo' = <<>>
  /\ UNCHANGED <<disk, run, docs, open, searchd, memory, unread, snapshot>>

Crash ==
  /\ Faults
  /\ todo # <<>>
  /\ todo' = <<>>
  /\ open' = FALSE
  /\ UNCHANGED <<disk, run, docs, searchd, memory, unread, snapshot>>

-----------------------------------------------------------------------------
(* searchd: LookaSearchd and its Init                                      *)

Start ==
  /\ searchd = "down"
  /\ searchd' = "index"
  /\ unread' = Kinds
  /\ snapshot' = IF run > 0 /\ \A f \in Files : disk[f] = run THEN run ELSE Absent
  /\ UNCHANGED <<indexer, memory>>

(* ReadIndexFromFile; its result is not looked at.                         *)
ReadIndex ==
  /\ searchd = "index"
  /\ inverted' = disk[Index]
  /\ searchd' = "summary"
  /\ UNCHANGED <<indexer, size, loaded, cover, unread, snapshot>>

(* What a summary file's count is read as. A torn file may have none, and  *)
(* then count is uninitialized.                                            *)
Counts(k) == IF disk[k] = Torn THEN DocCounts ELSE {docs[disk[k]]}

(* Mutant of Fits: the count is not compared.                              *)
FitsAny(count) == TRUE

(* "summary->empty()" or "summary->size() == count"                        *)
Fits(count) == size \in {0, count}

(* ReadSummaryFromFile of one kind, in the order the compiler gives the    *)
(* operands of "&".                                                        *)
LoadSummary(k) ==
  /\ searchd = "summary" /\ k \in unread
  /\ disk[k] # Absent
  /\ \E count \in Counts(k) :
       /\ Fits(count)
       /\ size' = IF size = 0 THEN count ELSE size
       /\ cover' = [cover EXCEPT ![k] = count]
  /\ loaded' = [loaded EXCEPT ![k] = disk[k]]
  /\ unread' = unread \ {k}
  /\ UNCHANGED <<indexer, searchd, inverted, snapshot>>

(* The file cannot be opened, or counts other documents than the summary.  *)
RefuseSummary(k) ==
  /\ searchd = "summary" /\ k \in unread
  /\ \/ disk[k] = Absent
     \/ disk[k] # Absent /\ \E count \in Counts(k) : ~Fits(count)
  /\ unread' = unread \ {k}
  /\ UNCHANGED <<indexer, searchd, memory, snapshot>>

(* Mutant of Serve: what is left is read later.                            *)
ServeEarly ==
  /\ searchd = "summary" /\ Cardinality(unread) < 2
  /\ searchd' = "up"
  /\ UNCHANGED <<indexer, memory, unread, snapshot>>

(* Init is over: "searchd init ok", whatever the readers returned.         *)
Serve ==
  /\ searchd = "summary" /\ unread = {}
  /\ searchd' = "up"
  /\ UNCHANGED <<indexer, memory, unread, snapshot>>

(* exit(), or a crash at any time: the memory is gone.                     *)
Exit ==
  /\ searchd # "down"
  /\ searchd' = "down" /\ inverted' = Absent /\ size' = 0
  /\ loaded' = [k \in Kinds |-> Absent] /\ cover' = [k \in Kinds |-> 0]
  /\ unread' = {} /\ snapshot' = Absent
  /\ UNCHANGED indexer

Next ==
  \/ Fetch \/ Open \/ Close \/ OpenFails \/ WriteFails \/ Crash
  \/ Start \/ ReadIndex \/ Serve \/ Exit
  \/ \E k \in Kinds : LoadSummary(k) \/ RefuseSummary(k)

Spec == Init /\ [][Next]_vars

-----------------------------------------------------------------------------
(* Properties                                                              *)

(* The variables keep their types; only the last run's files are written.  *)
TypeOK ==
  /\ disk \in [Files -> {Torn, Absent} \cup 1..run]
  /\ run \in 0..MaxRuns /\ docs \in [Runs -> {0} \cup DocCounts]
  /\ todo \in Seq(Files) /\ open \in BOOLEAN
  /\ open => todo # <<>> /\ disk[Head(todo)] = Torn
  /\ searchd \in {"down", "index", "summary", "up"}
  /\ inverted \in {Torn, Absent} \cup 1..run
  /\ size \in {0} \cup DocCounts
  /\ loaded \in [Kinds -> {Torn, Absent} \cup 1..run]
  /\ cover \in [Kinds -> {0} \cup DocCounts]
  /\ unread \subseteq Kinds
  /\ snapshot \in 0..run

(* A searchd that found a complete index, and no indexer at work on it     *)
(* while it read, serves all of that index and nothing else: in whatever   *)
(* order the kinds were read, and whatever runs failed before.             *)
ServesWholeIndex ==
  searchd = "up" /\ snapshot # Absent =>
    /\ inverted = snapshot /\ size = docs[snapshot]
    /\ \A k \in Kinds : loaded[k] = snapshot /\ cover[k] = size

(* The files of a kind may be of another run than the rest, but a kind     *)
(* that is loaded has attributes for every document of the summary, unless *)
(* its file had no documents at all; one that is not loaded has none.      *)
KindsCoverSummary ==
  \A k \in Kinds :
    /\ loaded[k] # Absent => cover[k] \in {0, size}
    /\ loaded[k] = Absent => cover[k] = 0
=============================================================================
