------------------------ MODULE SearchdQueriesProofs ------------------------
(***************************************************************************)
(* Proofs about IndexFiles and then about SearchdQueries, for any number   *)
(* of kinds, runs and documents and any names.  What the files and memory  *)
(* hold holds of the composition too: queries are steps that change none   *)
(* of it.                                                                  *)
(***************************************************************************)
EXTENDS SearchdQueries, SequenceTheorems, TLAPS

-----------------------------------------------------------------------------
(* The inductive invariant.                                                *)

RunUnderWay == todo # <<>> => run > 0

(* Memory is empty until searchd reads the index.                          *)
MemoryFresh ==
  searchd \in {"down", "index"} =>
    size = 0 /\ \A k \in Kinds : loaded[k] = Absent /\ cover[k] = 0

(* While searchd reads, its snapshot stays on disk.                        *)
SnapshotKept ==
  /\ searchd \in {"index", "summary"} /\ snapshot # Absent =>
       ~open /\ \A f \in Files : disk[f] = snapshot
  /\ searchd = "index" => unread = Kinds

(* What has been read of the snapshot.                                     *)
SnapshotRead ==
  searchd = "summary" /\ snapshot # Absent =>
    /\ inverted = snapshot
    /\ size = IF unread = Kinds THEN 0 ELSE docs[snapshot]
    /\ \A k \in Kinds \ unread :
         loaded[k] = snapshot /\ cover[k] = docs[snapshot]

Inv ==
  /\ TypeOK /\ RunUnderWay /\ MemoryFresh /\ SnapshotKept /\ SnapshotRead
  /\ ServesWholeIndex /\ KindsCoverSummary

-----------------------------------------------------------------------------
LEMMA KindsExist == Kinds # {} /\ Kinds \subseteq Files /\ Index \in Files
  <1>1. 1 \in 1..Len(KindOrder)
    BY FilesAssumption, EmptySeq, LenProperties
  <1> QED
    BY <1>1 DEF Kinds, Files

LEMMA InitInv == Init => Inv
  <1> SUFFICES ASSUME Init PROVE Inv
    OBVIOUS
  <1>1. TypeOK
    <2>1. todo \in Seq(Files) /\ open \in BOOLEAN
      BY EmptySeq DEF Init
    <2> QED
      BY <2>1, FilesAssumption DEF Init, TypeOK, Absent
  <1>2. RunUnderWay /\ MemoryFresh /\ SnapshotKept /\ SnapshotRead
    BY DEF Init, RunUnderWay, MemoryFresh, SnapshotKept, SnapshotRead
  <1>3. ServesWholeIndex /\ KindsCoverSummary
    BY DEF Init, ServesWholeIndex, KindsCoverSummary
  <1> QED
    BY <1>1, <1>2, <1>3 DEF Inv

(* The indexer's list of files loses its head or is replaced.              *)
LEMMA TodoTyped ==
  ASSUME TypeOK
  PROVE  /\ <<Index>> \o KindOrder \in Seq(Files) /\ <<>> \in Seq(Files)
         /\ todo # <<>> => Head(todo) \in Files /\ Tail(todo) \in Seq(Files)
  <1>1. KindOrder \in Seq(Files) /\ <<Index>> \in Seq(Files)
    BY FilesAssumption, KindsExist, SeqMonotonic
  <1>2. <<Index>> \o KindOrder \in Seq(Files)
    BY <1>1, ConcatProperties
  <1>3. todo # <<>> => Head(todo) \in Files /\ Tail(todo) \in Seq(Files)
    BY HeadTailProperties DEF TypeOK
  <1> QED
    BY <1>2, <1>3, EmptySeq

LEMMA TypesKept == Inv /\ [Next]_vars => TypeOK'
  <1> SUFFICES ASSUME Inv, [Next]_vars PROVE TypeOK'
    OBVIOUS
  <1> USE DEF indexer, memory
  <1>0. TypeOK
    BY DEF Inv
  <1>1. ASSUME Fetch PROVE TypeOK'
    <2>1. /\ run' \in 0..MaxRuns /\ run' = run + 1
          /\ docs' \in [Runs -> {0} \cup DocCounts]
      BY <1>0, <1>1, FilesAssumption DEF Fetch, TypeOK, Runs
    <2>2. ~open
      BY <1>0, <1>1 DEF Fetch, TypeOK
    <2> QED
      BY <1>0, <1>1, <2>1, <2>2, TodoTyped DEF Fetch, TypeOK
  <1>2. ASSUME Open PROVE TypeOK'
    <2>1. disk' \in [Files -> {Torn, Absent} \cup 1..run] /\ disk'[Head(todo)] = Torn
      BY <1>0, <1>2, TodoTyped DEF Open, TypeOK
    <2> QED
      BY <1>0, <1>2, <2>1 DEF Open, TypeOK, Absent
  <1>3. ASSUME Close PROVE TypeOK'
    <2>1. run > 0
      BY <1>0, <1>3, TodoTyped DEF Close, Inv, TypeOK, RunUnderWay
    <2>2. /\ disk' \in [Files -> {Torn, Absent} \cup 1..run]
          /\ todo' \in Seq(Files) /\ open' \in BOOLEAN /\ ~open'
      <3>1. run \in 1..run
        BY <1>0, <2>1, FilesAssumption DEF TypeOK
      <3>2. open' = FALSE
        BY <1>3 DEF Close
      <3> QED
        BY <1>0, <1>3, <3>1, <3>2, TodoTyped DEF Close, TypeOK
    <2> QED
      BY <1>0, <1>3, <2>1, <2>2 DEF Close, TypeOK
  <1>4. ASSUME OpenFails PROVE TypeOK'
    BY <1>0, <1>4, TodoTyped DEF OpenFails, TypeOK
  <1>5. ASSUME WriteFails PROVE TypeOK'
    BY <1>0, <1>5, TodoTyped DEF WriteFails, TypeOK
  <1>6. ASSUME Crash PROVE TypeOK'
    BY <1>0, <1>6, TodoTyped DEF Crash, TypeOK
  <1>7. ASSUME Start PROVE TypeOK'
    BY <1>0, <1>7 DEF Start, TypeOK, Absent
  <1>8. ASSUME ReadIndex PROVE TypeOK'
    BY <1>0, <1>8, KindsExist DEF ReadIndex, TypeOK
  <1>9. ASSUME Serve PROVE TypeOK'
    BY <1>0, <1>9 DEF Serve, TypeOK
  <1>10. ASSUME Exit PROVE TypeOK'
    BY <1>0, <1>10 DEF Exit, TypeOK, Absent
  <1>11. ASSUME NEW k \in Kinds, LoadSummary(k) PROVE TypeOK'
    <2>1. \A count \in Counts(k) : count \in {0} \cup DocCounts
      <3>1. disk[k] \in {Torn} \cup Runs
        BY <1>0, <1>11, KindsExist, FilesAssumption DEF LoadSummary, TypeOK, Runs
      <3> QED
        BY <1>0, <3>1 DEF Counts, TypeOK
    <2> QED
      BY <1>0, <1>11, <2>1, KindsExist DEF LoadSummary, TypeOK
  <1>12. ASSUME NEW k \in Kinds, RefuseSummary(k) PROVE TypeOK'
    BY <1>0, <1>12 DEF RefuseSummary, TypeOK
  <1>13. ASSUME UNCHANGED vars PROVE TypeOK'
    BY <1>0, <1>13 DEF vars, TypeOK
  <1> QED
    BY <1>1, <1>2, <1>3, <1>4, <1>5, <1>6, <1>7, <1>8, <1>9, <1>10, <1>11,
       <1>12, <1>13 DEF Next

LEMMA MemoryStaysFresh ==
  Inv /\ [Next]_vars => RunUnderWay' /\ MemoryFresh' /\ KindsCoverSummary'
  <1> SUFFICES ASSUME Inv, [Next]_vars
               PROVE  RunUnderWay' /\ MemoryFresh' /\ KindsCoverSummary'
    OBVIOUS
  <1> USE DEF indexer, memory
  <1>0. /\ RunUnderWay /\ MemoryFresh /\ KindsCoverSummary
        /\ cover \in [Kinds -> {0} \cup DocCounts]
        /\ loaded \in [Kinds -> {Torn, Absent} \cup 1..run]
        /\ run \in Nat
    BY FilesAssumption DEF Inv, TypeOK
  <1>1. ASSUME Fetch PROVE (RunUnderWay /\ MemoryFresh /\ KindsCoverSummary)'
    BY <1>0, <1>1 DEF Fetch, RunUnderWay, MemoryFresh, KindsCoverSummary
  <1>2. ASSUME Open PROVE (RunUnderWay /\ MemoryFresh /\ KindsCoverSummary)'
    BY <1>0, <1>2 DEF Open, RunUnderWay, MemoryFresh, KindsCoverSummary
  <1>3. ASSUME Close PROVE (RunUnderWay /\ MemoryFresh /\ KindsCoverSummary)'
    <2>1. todo # <<>>
      BY <1>3 DEF Close, Inv, TypeOK
    <2> QED
      BY <1>0, <1>3, <2>1 DEF Close, RunUnderWay, MemoryFresh, KindsCoverSummary
  <1>4. ASSUME OpenFails PROVE (RunUnderWay /\ MemoryFresh /\ KindsCoverSummary)'
    BY <1>0, <1>4 DEF OpenFails, RunUnderWay, MemoryFresh, KindsCoverSummary
  <1>5. ASSUME WriteFails PROVE (RunUnderWay /\ MemoryFresh /\ KindsCoverSummary)'
    <2>1. todo # <<>>
      BY <1>5 DEF WriteFails, Inv, TypeOK
    <2> QED
      BY <1>0, <1>5, <2>1 DEF WriteFails, RunUnderWay, MemoryFresh, KindsCoverSummary
  <1>6. ASSUME Crash PROVE (RunUnderWay /\ MemoryFresh /\ KindsCoverSummary)'
    BY <1>0, <1>6 DEF Crash, RunUnderWay, MemoryFresh, KindsCoverSummary
  <1>7. ASSUME Start PROVE (RunUnderWay /\ MemoryFresh /\ KindsCoverSummary)'
    BY <1>0, <1>7 DEF Start, RunUnderWay, MemoryFresh, KindsCoverSummary
  <1>8. ASSUME ReadIndex PROVE (RunUnderWay /\ MemoryFresh /\ KindsCoverSummary)'
    BY <1>0, <1>8 DEF ReadIndex, RunUnderWay, MemoryFresh, KindsCoverSummary
  <1>9. ASSUME Serve PROVE (RunUnderWay /\ MemoryFresh /\ KindsCoverSummary)'
    BY <1>0, <1>9 DEF Serve, RunUnderWay, MemoryFresh, KindsCoverSummary
  <1>10. ASSUME Exit PROVE (RunUnderWay /\ MemoryFresh /\ KindsCoverSummary)'
    BY <1>0, <1>10 DEF Exit, RunUnderWay, MemoryFresh, KindsCoverSummary
  <1>11. ASSUME NEW k \in Kinds, LoadSummary(k) PROVE (RunUnderWay /\ MemoryFresh /\ KindsCoverSummary)'
    <2>1. PICK count \in Counts(k) :
            /\ Fits(count)
            /\ size' = IF size = 0 THEN count ELSE size
            /\ cover' = [cover EXCEPT ![k] = count]
      BY <1>11 DEF LoadSummary
    <2>2. cover'[k] = count /\ loaded'[k] = disk[k] /\ size' = count
      BY <1>0, <1>11, <2>1 DEF LoadSummary, Fits
    <2>3. ASSUME NEW j \in Kinds, j # k
          PROVE  cover'[j] = cover[j] /\ loaded'[j] = loaded[j]
      BY <1>0, <1>11, <2>1, <2>3 DEF LoadSummary
    <2>4. size = 0 \/ size' = size
      BY <2>1
    <2> QED
      BY <1>0, <1>11, <2>2, <2>3, <2>4
         DEF LoadSummary, RunUnderWay, MemoryFresh, KindsCoverSummary
  <1>12. ASSUME NEW k \in Kinds, RefuseSummary(k) PROVE (RunUnderWay /\ MemoryFresh /\ KindsCoverSummary)'
    BY <1>0, <1>12 DEF RefuseSummary, RunUnderWay, MemoryFresh, KindsCoverSummary
  <1>13. ASSUME UNCHANGED vars PROVE (RunUnderWay /\ MemoryFresh /\ KindsCoverSummary)'
    BY <1>0, <1>13 DEF vars, RunUnderWay, MemoryFresh, KindsCoverSummary
  <1> QED
    BY <1>1, <1>2, <1>3, <1>4, <1>5, <1>6, <1>7, <1>8, <1>9, <1>10, <1>11,
       <1>12, <1>13 DEF Next

(* Whoever writes a file after searchd began to read takes its snapshot.   *)
LEMMA SnapshotStays == Inv /\ [Next]_vars => SnapshotKept'
  <1> SUFFICES ASSUME Inv, [Next]_vars PROVE SnapshotKept'
    OBVIOUS
  <1> USE DEF indexer, memory
  <1>0. /\ SnapshotKept /\ run \in Nat /\ open \in BOOLEAN
        /\ open => disk[Head(todo)] = Torn /\ Head(todo) \in Files
    BY FilesAssumption, TodoTyped DEF Inv, TypeOK
  <1>1. ASSUME Fetch PROVE SnapshotKept'
    BY <1>0, <1>1 DEF Fetch, SnapshotKept
  <1>2. ASSUME Open PROVE SnapshotKept'
    BY <1>0, <1>2 DEF Open, SnapshotKept, Absent
  <1>3. ASSUME Close PROVE SnapshotKept'
    BY <1>0, <1>3 DEF Close, SnapshotKept
  <1>4. ASSUME OpenFails PROVE SnapshotKept'
    BY <1>0, <1>4 DEF OpenFails, SnapshotKept
  <1>5. ASSUME WriteFails PROVE SnapshotKept'
    BY <1>0, <1>5 DEF WriteFails, SnapshotKept
  <1>6. ASSUME Crash PROVE SnapshotKept'
    BY <1>0, <1>6 DEF Crash, SnapshotKept
  <1>7. ASSUME Start PROVE SnapshotKept'
    BY <1>0, <1>7, KindsExist DEF Start, SnapshotKept, Absent, Torn
  <1>8. ASSUME ReadIndex PROVE SnapshotKept'
    BY <1>0, <1>8 DEF ReadIndex, SnapshotKept
  <1>9. ASSUME Serve PROVE SnapshotKept'
    BY <1>0, <1>9 DEF Serve, SnapshotKept
  <1>10. ASSUME Exit PROVE SnapshotKept'
    BY <1>0, <1>10 DEF Exit, SnapshotKept
  <1>11. ASSUME NEW k \in Kinds, LoadSummary(k) PROVE SnapshotKept'
    BY <1>0, <1>11 DEF LoadSummary, SnapshotKept
  <1>12. ASSUME NEW k \in Kinds, RefuseSummary(k) PROVE SnapshotKept'
    BY <1>0, <1>12 DEF RefuseSummary, SnapshotKept
  <1>13. ASSUME UNCHANGED vars PROVE SnapshotKept'
    BY <1>0, <1>13 DEF vars, SnapshotKept
  <1> QED
    BY <1>1, <1>2, <1>3, <1>4, <1>5, <1>6, <1>7, <1>8, <1>9, <1>10, <1>11,
       <1>12, <1>13 DEF Next

(* The documents of a run are counted before its files are written.        *)
LEMMA DocsFixed ==
  ASSUME Inv, [Next]_vars, snapshot # Absent
  PROVE  docs'[snapshot] = docs[snapshot]
  <1>1. snapshot \in 1..run /\ run \in 0..MaxRuns
        /\ docs \in [Runs -> {0} \cup DocCounts]
    BY DEF Inv, TypeOK, Absent
  <1>2. CASE Fetch
    BY <1>1, <1>2, FilesAssumption DEF Fetch, Runs
  <1>3. CASE docs' = docs
    BY <1>3
  <1> QED
    BY <1>2, <1>3 DEF Next, vars, indexer, Open, Close, OpenFails, WriteFails,
       Crash, Start, ReadIndex, Serve, Exit, LoadSummary, RefuseSummary

LEMMA SnapshotStaysRead ==
  Inv /\ [Next]_vars => SnapshotRead' /\ ServesWholeIndex'
  <1> SUFFICES ASSUME Inv, [Next]_vars PROVE SnapshotRead' /\ ServesWholeIndex'
    OBVIOUS
  <1> USE DEF indexer, memory
  <1>0. /\ SnapshotRead /\ ServesWholeIndex /\ SnapshotKept /\ MemoryFresh
        /\ loaded \in [Kinds -> {Torn, Absent} \cup 1..run]
        /\ cover \in [Kinds -> {0} \cup DocCounts]
        /\ unread \subseteq Kinds
        /\ snapshot # Absent => docs'[snapshot] = docs[snapshot]
    BY DocsFixed DEF Inv, TypeOK
  <1>1. ASSUME Fetch PROVE (SnapshotRead /\ ServesWholeIndex)'
    BY <1>0, <1>1 DEF Fetch, SnapshotRead, ServesWholeIndex
  <1>2. ASSUME Open PROVE (SnapshotRead /\ ServesWholeIndex)'
    BY <1>0, <1>2 DEF Open, SnapshotRead, ServesWholeIndex
  <1>3. ASSUME Close PROVE (SnapshotRead /\ ServesWholeIndex)'
    BY <1>0, <1>3 DEF Close, SnapshotRead, ServesWholeIndex
  <1>4. ASSUME OpenFails PROVE (SnapshotRead /\ ServesWholeIndex)'
    BY <1>0, <1>4 DEF OpenFails, SnapshotRead, ServesWholeIndex
  <1>5. ASSUME WriteFails PROVE (SnapshotRead /\ ServesWholeIndex)'
    BY <1>0, <1>5 DEF WriteFails, SnapshotRead, ServesWholeIndex
  <1>6. ASSUME Crash PROVE (SnapshotRead /\ ServesWholeIndex)'
    BY <1>0, <1>6 DEF Crash, SnapshotRead, ServesWholeIndex
  <1>7. ASSUME Start PROVE (SnapshotRead /\ ServesWholeIndex)'
    BY <1>0, <1>7 DEF Start, SnapshotRead, ServesWholeIndex
  <1>8. ASSUME ReadIndex PROVE (SnapshotRead /\ ServesWholeIndex)'
    BY <1>0, <1>8, KindsExist DEF ReadIndex, SnapshotKept, MemoryFresh,
       SnapshotRead, ServesWholeIndex
  <1>9. ASSUME Serve PROVE (SnapshotRead /\ ServesWholeIndex)'
    BY <1>0, <1>9, KindsExist DEF Serve, SnapshotRead, ServesWholeIndex
  <1>10. ASSUME Exit PROVE (SnapshotRead /\ ServesWholeIndex)'
    BY <1>0, <1>10 DEF Exit, SnapshotRead, ServesWholeIndex
  <1>11. ASSUME NEW k \in Kinds, LoadSummary(k) PROVE (SnapshotRead /\ ServesWholeIndex)'
    <2> SUFFICES ASSUME snapshot # Absent PROVE SnapshotRead'
      BY <1>11 DEF LoadSummary, SnapshotRead, ServesWholeIndex
    <2>1. disk[k] = snapshot /\ Counts(k) = {docs[snapshot]}
      <3>1. disk[k] = snapshot /\ snapshot # Torn
        BY <1>0, <1>11, KindsExist DEF LoadSummary, SnapshotKept, Inv, TypeOK, Torn
      <3> QED
        BY <3>1 DEF Counts
    <2>2. /\ size' = docs[snapshot]
          /\ cover' = [cover EXCEPT ![k] = docs[snapshot]]
          /\ loaded' = [loaded EXCEPT ![k] = snapshot]
      BY <1>0, <1>11, <2>1 DEF LoadSummary, Fits, SnapshotRead
    <2>3. unread' # Kinds
      BY <1>11 DEF LoadSummary
    <2> QED
      BY <1>0, <1>11, <2>2, <2>3 DEF LoadSummary, SnapshotRead
  <1>12. ASSUME NEW k \in Kinds, RefuseSummary(k) PROVE (SnapshotRead /\ ServesWholeIndex)'
    <2> SUFFICES ASSUME snapshot # Absent PROVE FALSE
      BY <1>12 DEF RefuseSummary, SnapshotRead, ServesWholeIndex
    <2>1. disk[k] = snapshot /\ snapshot # Torn
      BY <1>0, <1>12, KindsExist DEF RefuseSummary, SnapshotKept, Inv, TypeOK, Torn
    <2> QED
      BY <1>0, <1>12, <2>1 DEF RefuseSummary, Counts, Fits, SnapshotRead
  <1>13. ASSUME UNCHANGED vars PROVE (SnapshotRead /\ ServesWholeIndex)'
    BY <1>0, <1>13 DEF vars, SnapshotRead, ServesWholeIndex
  <1> QED
    BY <1>1, <1>2, <1>3, <1>4, <1>5, <1>6, <1>7, <1>8, <1>9, <1>10, <1>11,
       <1>12, <1>13 DEF Next

THEOREM Invariance == Spec => []Inv
  <1>1. Inv /\ [Next]_vars => Inv'
    BY TypesKept, MemoryStaysFresh, SnapshotStays, SnapshotStaysRead DEF Inv
  <1> QED
    BY <1>1, InitInv, PTL DEF Spec

(* No step leaves its types; a file that is open is torn.                  *)
THEOREM TypeCorrect == Spec => []TypeOK
  BY Invariance, PTL DEF Inv

(* A searchd that read a complete index undisturbed serves exactly that.   *)
THEOREM WholeIndexIsServed == Spec => []ServesWholeIndex
  BY Invariance, PTL DEF Inv

(* Whatever mix of files was read, a loaded kind fits the summary.         *)
THEOREM LoadedKindsFit == Spec => []KindsCoverSummary
  BY Invariance, PTL DEF Inv

-----------------------------------------------------------------------------
(* The composition implements IndexFiles: a query changes nothing of it,   *)
(* or ends searchd.                                                        *)
LEMMA QueryStepsAreFileSteps == [QueryNext]_queryVars => [Next]_vars
  <1>1. Crashes => Next
    BY DEF Crashes, Next
  <1> QED
    BY <1>1 DEF QueryNext, queryVars, ProcessStep, Process, Keep, Drop,
       PackResult, FilterCrashes, PackResultCrashes

THEOREM QueriesImplementFiles == QuerySpec => Spec
  BY QueryStepsAreFileSteps, PTL DEF QuerySpec, QueryInit, Spec

-----------------------------------------------------------------------------
(* The inductive invariant.                                                *)

QueryTyped ==
  /\ query = NoQuery \/ query \in [found : SUBSET Nat, filter : FilterKinds,
                                   shown : ShownKinds, kept : SUBSET Nat]
  /\ query # NoQuery => searchd = "up"

(* Documents of the run searchd found undisturbed.                         *)
QueryOfSnapshot ==
  query # NoQuery /\ snapshot # Absent =>
    \A id \in query.found \cup query.kept : id < docs[snapshot]

QueryInv == QueryTyped /\ QueryOfSnapshot /\ QueriesAreSafe

LEMMA WholeFromInv == Inv /\ QueryInv => DocumentsAreWhole
  BY DEF Inv, QueryInv, QueryTyped, QueryOfSnapshot, ServesWholeIndex, DocumentsAreWhole

(* In whole documents every name can be looked up.                         *)
LEMMA WholeIsSafe ==
  ASSUME Inv, QueryInv, query # NoQuery, snapshot # Absent,
         NEW id \in query.found \cup query.kept,
         NEW names \in SUBSET (Kinds \cup {Nowhere})
  PROVE  ~MayCrash(names, id)
  <1>1. id < size /\ \A k \in Kinds : loaded[k] = inverted /\ id < cover[k]
    BY WholeFromInv DEF DocumentsAreWhole
  <1>2. inverted = snapshot /\ snapshot \in Nat
    BY FilesAssumption DEF Inv, TypeOK, QueryInv, QueryTyped, ServesWholeIndex
  <1>3. id \in Nat /\ size \in Nat
    BY FilesAssumption DEF Inv, TypeOK, QueryInv, QueryTyped
  <1> QED
    BY <1>1, <1>2, <1>3 DEF MayCrash, Reaches, Undefined, Absent, Torn

LEMMA QueryInitInv == QueryInit => QueryInv
  BY DEF QueryInit, QueryInv, QueryTyped, QueryOfSnapshot, QueriesAreSafe

(* The lists hold natural numbers, and those of a whole index its ids.     *)
LEMMA PostingsTyped ==
  ASSUME Inv, searchd = "up"
  PROVE  /\ Postings \subseteq Nat
         /\ snapshot # Absent => \A id \in Postings : id < docs[snapshot]
  <1>0. {0} \cup DocCounts \subseteq Nat
    BY FilesAssumption
  <1>1. inverted \in {Torn, Absent} \cup Runs /\ docs \in [Runs -> {0} \cup DocCounts]
    BY FilesAssumption DEF Inv, TypeOK, Runs
  <1>2. Postings \subseteq Nat
    <2>1. CASE inverted \in {Torn, Absent}
      BY <2>1, QueriesAssumption DEF Postings, IdsOf, Absent, Torn
    <2>2. CASE inverted \in Runs
      <3>1. docs[inverted] \in Nat
        BY <1>0, <1>1, <2>2
      <3>2. inverted # Absent /\ inverted # Torn
        BY <2>2 DEF Runs, Absent, Torn
      <3> QED
        BY <3>1, <3>2 DEF Postings, IdsOf
    <2> QED
      BY <1>1, <2>1, <2>2
  <1>3. ASSUME snapshot # Absent PROVE \A id \in Postings : id < docs[snapshot]
    <2>1. inverted = snapshot /\ snapshot \in Runs /\ snapshot # Torn
      BY <1>3, FilesAssumption DEF Inv, TypeOK, ServesWholeIndex, Runs, Absent, Torn
    <2>2. docs[snapshot] \in Nat
      BY <1>0, <1>1, <2>1
    <2> QED
      BY <1>3, <2>1, <2>2 DEF Postings, IdsOf
  <1> QED
    BY <1>2, <1>3

(* While searchd stays up nothing takes its snapshot.                      *)
LEMMA SnapshotFixed ==
  ASSUME [Next]_vars, searchd = "up", searchd' = "up"
  PROVE  snapshot' = snapshot
  BY DEF Next, vars, indexer, memory, Fetch, Open, Close, OpenFails, WriteFails,
     Crash, Start, ReadIndex, Serve, Exit, LoadSummary, RefuseSummary

LEMMA QueryInvKept == Inv /\ QueryInv /\ [QueryNext]_queryVars => QueryInv'
  <1> SUFFICES ASSUME Inv, QueryInv, [QueryNext]_queryVars PROVE QueryInv'
    OBVIOUS
  <1>0. QueryTyped /\ QueryOfSnapshot /\ QueriesAreSafe
    BY DEF QueryInv
  <1>1. ASSUME ProcessStep PROVE QueryInv'
    <2>1. [Next]_vars
      BY <1>1 DEF ProcessStep
    <2>2. QueriesAreSafe'
      BY <1>0, <1>1 DEF ProcessStep, QueriesAreSafe
    <2>3. QueryTyped'
      BY <1>0, <1>1 DEF ProcessStep, QueryTyped
    <2>4. QueryOfSnapshot'
      <3> SUFFICES ASSUME query' # NoQuery, snapshot' # Absent
                   PROVE  \A id \in query'.found \cup query'.kept : id < docs'[snapshot']
        BY DEF QueryOfSnapshot
      <3>1. query' = query /\ searchd' = "up" /\ searchd = "up"
        BY <1>0, <1>1 DEF ProcessStep, QueryTyped
      <3>2. snapshot' = snapshot
        BY <2>1, <3>1, SnapshotFixed
      <3>3. docs'[snapshot] = docs[snapshot]
        BY <2>1, <3>2, DocsFixed
      <3> QED
        BY <1>0, <3>1, <3>2, <3>3 DEF QueryOfSnapshot
    <2> QED
      BY <2>2, <2>3, <2>4 DEF QueryInv
  <1>2. ASSUME Process PROVE QueryInv'
    <2>1. PICK found \in SUBSET Postings, filter \in FilterKinds, shown \in ShownKinds :
            query' = [found |-> found, filter |-> filter, shown |-> shown, kept |-> {}]
      BY <1>2 DEF Process
    <2>2. UNCHANGED <<searchd, snapshot, docs, crashes>> /\ searchd = "up"
      BY <1>2 DEF Process, vars, indexer
    <2>3. QueryTyped'
      BY <2>1, <2>2, PostingsTyped DEF QueryTyped
    <2>4. QueryOfSnapshot'
      BY <2>1, <2>2, PostingsTyped DEF QueryOfSnapshot
    <2> QED
      BY <1>0, <2>2, <2>3, <2>4 DEF QueryInv, QueriesAreSafe
  <1>3. ASSUME Keep \/ Drop PROVE QueryInv'
    <2>1. /\ query # NoQuery
          /\ UNCHANGED <<searchd, snapshot, docs, crashes>>
          /\ \E id \in query.found :
               \/ query' = [query EXCEPT !.found = @ \ {id}, !.kept = @ \cup {id}]
               \/ query' = [query EXCEPT !.found = @ \ {id}]
      BY <1>3 DEF Keep, Drop, Matching, vars, indexer
    <2>2. query \in [found : SUBSET Nat, filter : FilterKinds,
                     shown : ShownKinds, kept : SUBSET Nat]
      BY <1>0, <2>1 DEF QueryTyped
    <2>3. /\ query' \in [found : SUBSET Nat, filter : FilterKinds,
                         shown : ShownKinds, kept : SUBSET Nat]
          /\ query'.found \cup query'.kept \subseteq query.found \cup query.kept
      BY <2>1, <2>2
    <2> QED
      BY <1>0, <2>1, <2>3 DEF QueryInv, QueryTyped, QueryOfSnapshot, QueriesAreSafe
  <1>4. ASSUME PackResult PROVE QueryInv'
    BY <1>0, <1>4 DEF PackResult, vars, indexer, QueryInv, QueryTyped,
       QueryOfSnapshot, QueriesAreSafe
  <1>5. ASSUME FilterCrashes PROVE QueryInv'
    <2>1. query # NoQuery /\ \E id \in query.found : MayCrash(query.filter, id)
      BY <1>5 DEF FilterCrashes, Matching
    <2>2. query.filter \in SUBSET (Kinds \cup {Nowhere})
      BY <1>0, <2>1, QueriesAssumption DEF QueryTyped
    <2>3. snapshot = Absent
      BY <2>1, <2>2, WholeIsSafe
    <2> QED
      BY <1>0, <1>5, <2>3 DEF FilterCrashes, Crashes, QueryInv, QueryTyped,
         QueryOfSnapshot, QueriesAreSafe
  <1>6. ASSUME PackResultCrashes PROVE QueryInv'
    <2>1. query # NoQuery /\ \E id \in query.kept : MayCrash(query.shown, id)
      BY <1>6 DEF PackResultCrashes
    <2>2. query.shown \in SUBSET (Kinds \cup {Nowhere})
      BY <1>0, <2>1, QueriesAssumption DEF QueryTyped
    <2>3. snapshot = Absent
      BY <2>1, <2>2, WholeIsSafe
    <2> QED
      BY <1>0, <1>6, <2>3 DEF PackResultCrashes, Crashes, QueryInv, QueryTyped,
         QueryOfSnapshot, QueriesAreSafe
  <1>7. ASSUME UNCHANGED queryVars PROVE QueryInv'
    BY <1>0, <1>7 DEF queryVars, vars, indexer, QueryInv, QueryTyped,
       QueryOfSnapshot, QueriesAreSafe
  <1> QED
    BY <1>1, <1>2, <1>3, <1>4, <1>5, <1>6, <1>7 DEF QueryNext

THEOREM QueryInvariance == QuerySpec => [](Inv /\ QueryInv)
  <1>1. QueryInit => Inv /\ QueryInv
    BY InitInv, QueryInitInv DEF QueryInit
  <1>2. Inv /\ QueryInv /\ [QueryNext]_queryVars => (Inv /\ QueryInv)'
    <2>1. Inv /\ [Next]_vars => Inv'
      BY TypesKept, MemoryStaysFresh, SnapshotStays, SnapshotStaysRead DEF Inv
    <2> QED
      BY <2>1, QueryStepsAreFileSteps, QueryInvKept
  <1> QED
    BY <1>1, <1>2, PTL DEF QuerySpec

(* A searchd that read a complete index undisturbed has every document a   *)
(* query finds, with the attributes of every kind, until it is answered.   *)
THEOREM QueriedDocumentsAreWhole == QuerySpec => []DocumentsAreWhole
  BY QueryInvariance, WholeFromInv, PTL

(* No query crashes such a searchd.                                        *)
THEOREM QueriesNeverCrash == QuerySpec => []QueriesAreSafe
  BY QueryInvariance, PTL DEF QueryInv
=============================================================================
