---------------------------- MODULE StartupProofs ----------------------------
(***************************************************************************)
(* Proofs about Startup for any configurations and any number of searchds. *)
(***************************************************************************)
EXTENDS Startup, SequenceTheorems, WellFoundedInduction, TLAPS

-----------------------------------------------------------------------------
(* The inductive invariant.                                                *)

(* What can be written: the indexes of complete configurations.            *)
Indexes ==
  UNION {{c.indexes[n] : n \in 1..Len(c.indexes)} :
         c \in {d \in Configurations : Starts(Indexer, d)}}

Labels == {"off", "indexes", "server", "paused", "done", "refused", "crashed",
           "aborted"}

TypeOK ==
  /\ config \in Configurations
  /\ pc \in [Processes -> Labels]
  /\ own \in [Processes -> Configurations \cup {Unread}]
  /\ serves \in [Searchds -> Indexes \cup {Absent, Broken}]
  /\ disk \in [Locations -> Indexes \cup {Absent, Broken}]

(* A process that is past its configuration has one that is complete.      *)
OwnComplete ==
  \A p \in Processes :
    pc[p] \in {"indexes", "server", "paused", "done"} =>
      own[p] \in Configurations /\ Starts(p, own[p])

(* Files lie where the index they were written for says.                   *)
DiskPlaced ==
  \A f \in Locations : disk[f] \notin {Absent, Broken} => FilesOf(disk[f]) = f

(* Only a searchd that has chosen an index serves one, that of its files.  *)
ServesPlaced ==
  \A s \in Searchds :
    serves[s] \notin {Absent, Broken} =>
      /\ pc[s] \in {"server", "paused"}
      /\ Usable(own[s]) # {}
      /\ FilesOf(serves[s]) = FilesOf(Chosen(own[s]))

(* The n-th index of the indexer's configuration, once the loop is past    *)
(* it.                                                                     *)
Kept(n) ==
  LET c == own[Indexer]
  IN  c.indexes[n] \notin failed =>
        \/ disk[FilesOf(c.indexes[n])] = c.indexes[n]
        \/ \E m \in Usable(c) : Clash(c.indexes[n], c.indexes[m])

LoopKept ==
  /\ pc[Indexer] \in {"indexes", "done"} =>
       /\ at \in Nat \ {0}
       /\ \A n \in Usable(own[Indexer]) : n < at => Kept(n)
  /\ pc[Indexer] = "done" => at > Len(own[Indexer].indexes)

Inv == TypeOK /\ OwnComplete /\ DiskPlaced /\ ServesPlaced /\ LoopKept

-----------------------------------------------------------------------------
(* Indexes and their files.                                                *)

LEMMA CompleteForIndexer ==
  ASSUME NEW p \in Processes, NEW c, Starts(p, c)
  PROVE  Starts(Indexer, c)
  BY StartupAssumption DEF Starts

(* An index of a complete configuration has a name and a path.             *)
LEMMA IndexTyped ==
  ASSUME NEW c \in Configurations, Starts(Indexer, c),
         NEW n \in 1..Len(c.indexes)
  PROVE  /\ c.indexes[n] \in Indexes
         /\ FilesOf(c.indexes[n]) \in Locations
         /\ c.indexes[n] \notin {Absent, Broken}
         /\ c.indexes[n].name \in Words
         /\ c.indexes[n].items.index_path \in Seq(Words) \ {<<>>}
         /\ \A m \in 1..Len(c.indexes) :
              c.indexes[n].name = c.indexes[m].name => m = n
  <1>1. c.loads /\ "index_path" \in DOMAIN c.indexes[n].items
    BY DEF Starts, IndexComplete, HasStrings
  <1>2. c.indexes[n] \in Indexes
    BY DEF Indexes
  <1>3. FilesOf(c.indexes[n]) \in Locations
    BY DEF Locations
  <1>4. QED
    BY <1>1, <1>2, <1>3, ConfigurationAssumption

LEMMA IndexesTyped ==
  ASSUME NEW i \in Indexes
  PROVE  /\ i \notin {Absent, Broken}
         /\ FilesOf(i) \in Locations
         /\ i.name \in Words
         /\ i.items.index_path \in Seq(Words) \ {<<>>}
  <1>1. PICK c \in Configurations :
          /\ Starts(Indexer, c)
          /\ \E n \in 1..Len(c.indexes) : i = c.indexes[n]
    BY DEF Indexes
  <1>2. PICK n \in 1..Len(c.indexes) : i = c.indexes[n]
    BY <1>1
  <1>3. QED
    BY <1>1, <1>2, IndexTyped

(* Two indexes with the same files are the same index, or they clash.      *)
LEMMA FilesTellIndexes ==
  ASSUME NEW i \in Indexes, NEW j \in Indexes, FilesOf(i) = FilesOf(j)
  PROVE  SameIndex(i, j) \/ Clash(i, j)
  <1>1. \A path \in Seq(Words) \ {<<>>} : Directory(path) \in Seq(Words)
    <2>1. "/" \in Words
      BY StartupAssumption
    <2>2. \A path \in Seq(Words) : Append(path, "/") \in Seq(Words)
      BY <2>1, AppendProperties
    <2>3. QED
      BY <2>2 DEF Directory
  <1>2. \A name \in Words : FileName(name) \in Words
    BY StartupAssumption DEF FileName
  <1>3. /\ Directory(i.items.index_path) = Directory(j.items.index_path)
        /\ FileName(i.name) = FileName(j.name)
    <2>1. /\ Directory(i.items.index_path) \in Seq(Words)
          /\ Directory(j.items.index_path) \in Seq(Words)
          /\ FileName(i.name) \in Words /\ FileName(j.name) \in Words
      BY <1>1, <1>2, IndexesTyped
    <2>2. QED
      BY <2>1, AppendInjective DEF FilesOf
  <1>4. i.name = j.name \/ {i.name, j.name} = {"", "looka"}
    BY <1>3 DEF FileName
  <1>5. QED
    BY <1>3, <1>4 DEF SameIndex, Clash

(* searchd's index is one that it does not skip.                           *)
LEMMA ChosenUsable ==
  ASSUME NEW c, Usable(c) # {}
  PROVE  \E n \in Usable(c) : Chosen(c) = c.indexes[n]
  <1>1. Usable(c) \in SUBSET Nat
    BY DEF Usable
  <1>2. \E n \in Usable(c) : \A m \in Usable(c) : n <= m
    <2> DEFINE R == OpToRel(<, Nat)
    <2>1. IsWellFoundedOn(R, Nat)
      BY NatLessThanWellFounded
    <2>2. \E n \in Usable(c) : \A m \in Usable(c) : ~(<<m, n>> \in R)
      <3> HIDE DEF R
      <3> QED
        BY <1>1, <2>1, WFMin
    <2>3. \A m, n \in Nat : m < n => <<m, n>> \in R
      BY DEF OpToRel
    <2> HIDE DEF R
    <2>4. \A m, n \in Nat : ~(m < n) => n <= m
      OBVIOUS
    <2> QED
      BY <1>1, <2>2, <2>3, <2>4
  <1>3. QED
    BY <1>2 DEF Chosen

LEMMA ChosenTyped ==
  ASSUME NEW s \in Searchds, NEW c \in Configurations, Starts(s, c), Usable(c) # {}
  PROVE  Chosen(c) \in Indexes
  <1>1. Starts(Indexer, c)
    BY CompleteForIndexer DEF Processes
  <1>2. PICK n \in Usable(c) : Chosen(c) = c.indexes[n]
    BY ChosenUsable
  <1>3. QED
    BY <1>1, <1>2, IndexTyped DEF Usable

-----------------------------------------------------------------------------
(* The invariant is inductive.                                             *)

LEMMA InitInv == Init => Inv
  <1> SUFFICES ASSUME Init PROVE Inv
    OBVIOUS
  <1>1. TypeOK
    BY DEF Init, TypeOK, Labels
  <1>2. OwnComplete /\ ServesPlaced /\ LoopKept
    BY DEF Init, OwnComplete, ServesPlaced, LoopKept, Processes
  <1>3. DiskPlaced
    BY DEF Init, DiskPlaced
  <1>4. QED
    BY <1>1, <1>2, <1>3 DEF Inv

(* What LoopKept says does not change with what it does not mention.       *)
LEMMA LoopStays ==
  ASSUME LoopKept, pc'[Indexer] = pc[Indexer], own'[Indexer] = own[Indexer],
         UNCHANGED indexing
  PROVE  LoopKept'
  BY DEF LoopKept, Kept, indexing

LEMMA ServesStays ==
  ASSUME TypeOK, ServesPlaced, NEW p \in Processes,
         \A s \in Searchds : s # p =>
            pc'[s] = pc[s] /\ own'[s] = own[s] /\ serves'[s] = serves[s],
         \A s \in Searchds : s = p => serves'[s] = Absent
  PROVE  ServesPlaced'
  BY DEF ServesPlaced

(* A process is gone: signalled, refused or crashed.                       *)
LEMMA GoneInv ==
  ASSUME Inv, NEW p \in Processes, NEW label \in {"off", "refused", "crashed", "aborted"},
         Gone(p, label), UNCHANGED <<config, indexing>>
  PROVE  Inv'
  <1>1. TypeOK'
    <2>1. config' \in Configurations /\ disk' \in [Locations -> Indexes \cup {Absent, Broken}]
      BY DEF Inv, TypeOK, indexing
    <2>2. pc' \in [Processes -> Labels] /\ own' \in [Processes -> Configurations \cup {Unread}]
      BY DEF Inv, TypeOK, Gone, Goto, Labels
    <2>3. serves' \in [Searchds -> Indexes \cup {Absent, Broken}]
      <3>1. \A s \in Searchds : serves[s] \in Indexes \cup {Absent, Broken}
        BY DEF Inv, TypeOK
      <3>2. serves' = [s \in Searchds |-> IF s = p THEN Absent ELSE serves[s]]
        BY DEF Gone
      <3>3. QED
        BY <3>1, <3>2
    <2>4. QED
      BY <2>1, <2>2, <2>3 DEF TypeOK
  <1>2. /\ \A q \in Processes : q # p => pc'[q] = pc[q] /\ own'[q] = own[q]
        /\ pc'[p] = label
    BY DEF Inv, TypeOK, Gone, Goto
  <1>3. OwnComplete'
    <2>1. pc'[p] \notin {"indexes", "server", "paused", "done"}
      BY <1>2
    <2>2. QED
      BY <1>2, <2>1 DEF Inv, OwnComplete
  <1>4. DiskPlaced'
    BY DEF Inv, DiskPlaced, indexing
  <1>5. ServesPlaced'
    <2>1. \A s \in Searchds : s # p => serves'[s] = serves[s]
      BY DEF Gone
    <2>2. \A s \in Searchds : s = p => serves'[s] = Absent
      BY DEF Gone
    <2>3. QED
      BY <1>2, <2>1, <2>2, ServesStays DEF Inv, Processes
  <1>6. LoopKept'
    <2>1. CASE p = Indexer
      BY <1>2, <2>1 DEF LoopKept
    <2>2. CASE p # Indexer
      BY <1>2, <2>2, LoopStays DEF Inv, Processes
    <2>3. QED
      BY <2>1, <2>2
  <1>7. QED
    BY <1>1, <1>3, <1>4, <1>5, <1>6 DEF Inv

(* A configuration is read.                                                *)
LEMMA LaunchInv ==
  ASSUME Inv, NEW p \in Processes, Launch(p)
  PROVE  Inv'
  <1>1. /\ \A q \in Processes : q # p => pc'[q] = pc[q] /\ own'[q] = own[q]
        /\ pc'[p] = "indexes" /\ own'[p] = config
        /\ pc[p] \notin {"indexes", "server", "paused"}
    BY DEF Inv, TypeOK, Launch, Goto
  <1>2. TypeOK'
    BY DEF Inv, TypeOK, Launch, Goto, Labels, serving
  <1>3. OwnComplete'
    BY <1>1 DEF Inv, TypeOK, OwnComplete, Launch
  <1>4. DiskPlaced'
    BY DEF Inv, DiskPlaced, Launch
  <1>5. ServesPlaced'
    <2>1. p \in Searchds => serves[p] \in {Absent, Broken}
      BY <1>1 DEF Inv, ServesPlaced
    <2>2. serves' = serves
      BY DEF Launch, serving
    <2>3. QED
      BY <1>1, <2>1, <2>2 DEF Inv, ServesPlaced, Processes
  <1>6. LoopKept'
    <2>1. CASE p = Indexer
      <3>1. at' = 1 /\ pc'[Indexer] = "indexes"
        BY <1>1, <2>1 DEF Launch
      <3>2. \A n \in Usable(own[Indexer])' : ~(n < 1)
        BY DEF Usable
      <3>3. QED
        BY <3>1, <3>2 DEF LoopKept
    <2>2. CASE p # Indexer
      BY <1>1, <2>2, LoopStays DEF Inv, Processes, Launch, indexing
    <2>3. QED
      BY <2>1, <2>2
  <1>7. QED
    BY <1>2, <1>3, <1>4, <1>5, <1>6 DEF Inv

(* The loop of the indexer goes on to the next index: what lies where      *)
(* another index has its files stays there.                                *)
LEMMA LoopInv ==
  ASSUME Inv, AtIndex, UNCHANGED <<config, own, pc, serving>>, at' = at + 1,
         failed \subseteq failed',
         disk' \in [Locations -> Indexes \cup {Absent, Broken}],
         DiskPlaced',
         HasSource(own[Indexer], Current) =>
           /\ \A f \in Locations : f # FilesOf(Current) => disk'[f] = disk[f]
           /\ Current \in failed' \/ disk'[FilesOf(Current)] = Current,
         ~HasSource(own[Indexer], Current) => disk' = disk
  PROVE  Inv'
  <1> DEFINE c == own[Indexer]
  <1>1. /\ c \in Configurations /\ Starts(Indexer, c)
        /\ at \in Nat \ {0} /\ at \in 1..Len(c.indexes)
        /\ pc[Indexer] = "indexes"
        /\ \A n \in Usable(c) : n < at => Kept(n)
    <2>1. c \in Configurations /\ Starts(Indexer, c)
      BY DEF Inv, OwnComplete, AtIndex, Processes
    <2>2. Len(c.indexes) \in Nat
      BY <2>1, ConfigurationAssumption DEF Starts
    <2>3. QED
      BY <2>1, <2>2 DEF Inv, LoopKept, AtIndex
  <1>2. TypeOK' /\ OwnComplete' /\ ServesPlaced'
    BY DEF Inv, TypeOK, OwnComplete, ServesPlaced, serving
  <1>3. ASSUME NEW n \in Usable(c), n < at + 1
        PROVE  Kept(n)'
    <2>1. n \in 1..Len(c.indexes) /\ HasSource(c, c.indexes[n])
      BY DEF Usable
    <2>2. CASE n = at
      BY <2>1, <2>2 DEF Kept, Current
    <2>3. CASE n # at /\ ~HasSource(c, Current)
      <3>1. n < at
        BY <1>1, <1>3, <2>1, <2>3
      <3>2. QED
        BY <1>1, <2>3, <3>1 DEF Kept
    <2>4. CASE n # at /\ HasSource(c, Current)
      <3>1. n < at
        BY <1>1, <1>3, <2>1, <2>4
      <3>2. /\ FilesOf(c.indexes[n]) \in Locations
            /\ c.indexes[n] \in Indexes /\ Current \in Indexes
            /\ c.indexes[n].name # Current.name
        BY <1>1, <2>1, <2>4, IndexTyped DEF Current
      <3>3. CASE FilesOf(c.indexes[n]) = FilesOf(Current)
        <4>1. Clash(c.indexes[n], Current)
          BY <3>2, <3>3, FilesTellIndexes DEF SameIndex
        <4>2. at \in Usable(c) /\ Current = c.indexes[at]
          BY <1>1, <2>4 DEF Usable, Current
        <4>3. QED
          BY <4>1, <4>2 DEF Kept
      <3>4. CASE FilesOf(c.indexes[n]) # FilesOf(Current)
        <4>1. disk'[FilesOf(c.indexes[n])] = disk[FilesOf(c.indexes[n])]
          BY <2>4, <3>2, <3>4
        <4>2. QED
          BY <1>1, <3>1, <4>1 DEF Kept
      <3>5. QED
        BY <3>3, <3>4
    <2>5. QED
      BY <2>2, <2>3, <2>4
  <1>4. LoopKept'
    BY <1>1, <1>3 DEF LoopKept
  <1>5. QED
    BY <1>2, <1>4 DEF Inv

(* searchd goes on with what its Init has read, or with a server.          *)
LEMMA SearchdInv ==
  ASSUME Inv, NEW s \in Searchds,
         pc[s] \in {"indexes", "server"}, NEW label \in {"server", "paused"},
         Goto(s, label), UNCHANGED <<config, own, indexing>>,
         serves' \in [Searchds -> Indexes \cup {Absent, Broken}],
         \A t \in Searchds : t # s => serves'[t] = serves[t],
         serves'[s] \notin {Absent, Broken} =>
           /\ Usable(own[s]) # {}
           /\ FilesOf(serves'[s]) = FilesOf(Chosen(own[s]))
  PROVE  Inv'
  <1>1. /\ \A q \in Processes : q # s => pc'[q] = pc[q]
        /\ pc'[s] = label /\ s \in Processes
    BY DEF Inv, TypeOK, Goto, Processes
  <1>2. TypeOK'
    BY DEF Inv, TypeOK, Goto, Labels, indexing
  <1>3. OwnComplete'
    BY <1>1 DEF Inv, OwnComplete
  <1>4. DiskPlaced'
    BY DEF Inv, DiskPlaced, indexing
  <1>5. ServesPlaced'
    BY <1>1 DEF Inv, ServesPlaced, Processes
  <1>6. LoopKept'
    BY <1>1, LoopStays, StartupAssumption DEF Inv, Processes
  <1>7. QED
    BY <1>2, <1>3, <1>4, <1>5, <1>6 DEF Inv

LEMMA NextInv == Inv /\ [Next]_vars => Inv'
  <1> SUFFICES ASSUME Inv, [Next]_vars PROVE Inv'
    OBVIOUS
  <1>1. CASE Edit
    <2>1. LoopKept'
      BY <1>1, LoopStays DEF Inv, Edit
    <2>2. QED
      BY <1>1, <2>1 DEF Edit, Inv, TypeOK, OwnComplete, DiskPlaced,
                        ServesPlaced, indexing, serving
  <1>2. ASSUME NEW p \in Processes, Launch(p) PROVE Inv'
    BY <1>2, LaunchInv
  <1>3. ASSUME NEW p \in Processes, Refuse(p) \/ Signal(p) PROVE Inv'
    BY <1>3, GoneInv DEF Refuse, Signal
  <1>4. CASE Skip
    BY <1>4, LoopInv DEF Skip, Inv, TypeOK, DiskPlaced
  <1>5. CASE DoIndex \/ DoIndexFails
    <2>1. /\ Current \in Indexes /\ FilesOf(Current) \in Locations
          /\ AtIndex /\ HasSource(own[Indexer], Current)
      <3>1. AtIndex /\ HasSource(own[Indexer], Current)
        BY <1>5 DEF DoIndex, DoIndexFails
      <3>2. own[Indexer] \in Configurations /\ Starts(Indexer, own[Indexer])
        BY <3>1 DEF Inv, OwnComplete, AtIndex, Processes
      <3>3. at \in 1..Len(own[Indexer].indexes)
        <4>1. Len(own[Indexer].indexes) \in Nat
          BY <3>2, ConfigurationAssumption DEF Starts
        <4>2. QED
          BY <3>1, <4>1 DEF Inv, LoopKept, AtIndex
      <3>4. QED
        BY <3>1, <3>2, <3>3, IndexTyped DEF Current
    <2>2. CASE DoIndex
      <3>1. DiskPlaced' /\ disk' \in [Locations -> Indexes \cup {Absent, Broken}]
        BY <2>1, <2>2 DEF DoIndex, Inv, TypeOK, DiskPlaced
      <3>2. /\ \A f \in Locations : f # FilesOf(Current) => disk'[f] = disk[f]
            /\ disk'[FilesOf(Current)] = Current
        BY <2>1, <2>2 DEF DoIndex, Inv, TypeOK
      <3>3. QED
        BY <2>1, <2>2, <3>1, <3>2, LoopInv DEF DoIndex
    <2>3. CASE DoIndexFails
      <3>1. DiskPlaced' /\ disk' \in [Locations -> Indexes \cup {Absent, Broken}]
        BY <2>1, <2>3 DEF DoIndexFails, Inv, TypeOK, DiskPlaced
      <3>2. /\ \A f \in Locations : f # FilesOf(Current) => disk'[f] = disk[f]
            /\ Current \in failed' /\ failed \subseteq failed'
        BY <2>1, <2>3 DEF DoIndexFails, Inv, TypeOK
      <3>3. QED
        BY <2>1, <2>3, <3>1, <3>2, LoopInv DEF DoIndexFails
    <2>4. QED
      BY <1>5, <2>2, <2>3
  <1>6. CASE IndexerDone
    <2>1. /\ \A q \in Processes : q # Indexer => pc'[q] = pc[q]
          /\ pc'[Indexer] = "done" /\ pc[Indexer] = "indexes"
          /\ UNCHANGED <<config, own, at, failed, disk, serves>>
      BY <1>6 DEF IndexerDone, Inv, TypeOK, Goto, Processes, indexing, serving
    <2>2. TypeOK'
      BY <1>6 DEF IndexerDone, Inv, TypeOK, Goto, Labels, indexing, serving
    <2>3. OwnComplete' /\ DiskPlaced'
      BY <2>1 DEF Inv, OwnComplete, DiskPlaced
    <2>4. ServesPlaced'
      BY <2>1, StartupAssumption DEF Inv, ServesPlaced, Processes
    <2>5. LoopKept'
      <3>1. Len(own[Indexer].indexes) \in Nat
        BY <2>1, ConfigurationAssumption
        DEF Inv, OwnComplete, Starts, Processes
      <3>2. at > Len(own[Indexer].indexes)
        BY <1>6, <2>1, <3>1 DEF IndexerDone, AtIndex, Inv, LoopKept
      <3>3. QED
        BY <2>1, <3>2 DEF Inv, LoopKept, Kept
    <2>6. QED
      BY <2>2, <2>3, <2>4, <2>5 DEF Inv
  <1>7. ASSUME NEW s \in Searchds, ReadIndex(s) PROVE Inv'
    <2> DEFINE f == FilesOf(Chosen(own[s]))
    <2>1. own[s] \in Configurations /\ Starts(s, own[s]) /\ Usable(own[s]) # {}
      BY <1>7 DEF ReadIndex, Inv, OwnComplete, Processes
    <2>2. f \in Locations
      BY <2>1, ChosenTyped, IndexesTyped
    <2>3. /\ serves' = [serves EXCEPT ![s] = disk[f]]
          /\ disk[f] \in Indexes \cup {Absent, Broken}
          /\ disk[f] \notin {Absent, Broken} => FilesOf(disk[f]) = f
      BY <1>7, <2>2 DEF ReadIndex, Inv, TypeOK, DiskPlaced
    <2> HIDE DEF f
    <2>4. /\ serves' \in [Searchds -> Indexes \cup {Absent, Broken}]
          /\ \A t \in Searchds : t # s => serves'[t] = serves[t]
          /\ serves'[s] = disk[f]
      BY <2>3 DEF Inv, TypeOK
    <2>5. QED
      BY <1>7, <2>1, <2>3, <2>4, SearchdInv DEF ReadIndex, f
  <1>8. ASSUME NEW s \in Searchds,
               NoDictionary(s) \/ DereferenceNull(s) \/ NewThrows(s)
        PROVE  Inv'
    BY <1>8, GoneInv DEF NoDictionary, DereferenceNull, NewThrows, Processes
  <1>9. ASSUME NEW s \in Searchds, ServerStarts(s) \/ ServerFails(s)
        PROVE  Inv'
    <2>1. /\ pc[s] = "server" /\ Goto(s, "paused")
          /\ UNCHANGED <<config, own, indexing, serves>>
      BY <1>9 DEF ServerStarts, ServerFails
    <2>2. /\ serves' \in [Searchds -> Indexes \cup {Absent, Broken}]
          /\ serves'[s] \notin {Absent, Broken} =>
               /\ Usable(own[s]) # {}
               /\ FilesOf(serves'[s]) = FilesOf(Chosen(own[s]))
      BY <2>1 DEF Inv, TypeOK, ServesPlaced
    <2>3. QED
      BY <2>1, <2>2, SearchdInv
  <1>10. CASE UNCHANGED vars
    BY <1>10, LoopStays DEF vars, indexing, serving, Inv, TypeOK, OwnComplete,
                            DiskPlaced, ServesPlaced
  <1>11. QED
    BY <1>1, <1>2, <1>3, <1>4, <1>5, <1>6, <1>7, <1>8, <1>9, <1>10
    DEF Next

-----------------------------------------------------------------------------
(* Theorems                                                                *)

(* Every process runs on a complete configuration, files lie where their   *)
(* index says, and the indexer's loop leaves nothing out.                  *)
THEOREM Invariance == Spec => []Inv
  BY InitInv, NextInv, PTL DEF Spec

(* Whatever the configuration file says at which launch, and however the   *)
(* launches of indexer and searchds interleave: a searchd serves files     *)
(* that were written for the index it chose, or for one that clashes with  *)
(* it (looka_searchd_main.cpp, looka_config_index.cpp).                    *)
THEOREM OwnIndexIsServed == Spec => []ServesItsOwnIndex
  <1>1. Inv => ServesItsOwnIndex
    <2> SUFFICES ASSUME Inv, NEW s \in Searchds,
                        serves[s] \notin {Absent, Broken}
                 PROVE  \/ SameIndex(serves[s], Chosen(own[s]))
                        \/ Clash(serves[s], Chosen(own[s]))
      BY DEF ServesItsOwnIndex
    <2>1. /\ serves[s] \in Indexes /\ Usable(own[s]) # {}
          /\ FilesOf(serves[s]) = FilesOf(Chosen(own[s]))
          /\ own[s] \in Configurations /\ Starts(s, own[s])
      BY DEF Inv, TypeOK, ServesPlaced, OwnComplete, Processes
    <2>2. Chosen(own[s]) \in Indexes
      BY <2>1, ChosenTyped
    <2>3. QED
      BY <2>1, <2>2, FilesTellIndexes
  <1>2. QED
    BY <1>1, Invariance, PTL

(* When looka-indexer ends, each of its usable indexes that did not fail   *)
(* is on disk, or one that clashes with it: none is left out because of    *)
(* another one (looka_indexer_main.cpp:66-79).                             *)
THEOREM NoIndexIsLeftOut == Spec => []IndexerLeavesAll
  <1>1. Inv => IndexerLeavesAll
    <2> SUFFICES ASSUME Inv, pc[Indexer] = "done",
                        NEW n \in Usable(own[Indexer])
                 PROVE  Kept(n)
      BY DEF IndexerLeavesAll, Kept
    <2>1. Len(own[Indexer].indexes) \in Nat
      BY ConfigurationAssumption DEF Inv, OwnComplete, Starts, Processes
    <2>2. n < at
      BY <2>1 DEF Inv, LoopKept, Usable
    <2>3. QED
      BY <2>2 DEF Inv, LoopKept
  <1>2. QED
    BY <1>1, Invariance, PTL
=============================================================================
