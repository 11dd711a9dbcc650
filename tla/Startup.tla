------------------------------- MODULE Startup -------------------------------
(***************************************************************************)
(* From the configuration file to an index on disk and a server that       *)
(* listens: the two main functions and the typed configurations they build *)
(* (looka_config_source.cpp, looka_config_index.cpp,                       *)
(* looka_config_searchd.cpp).  Indexer and searchds are processes that     *)
(* each read the file when they are launched; an administrator edits it,   *)
(* launches them and stops them at any time.                               *)
(*                                                                         *)
(* A section is a function from the items it defines to their values; the  *)
(* five files of an index are one location here (module IndexFiles has     *)
(* them apart), and writing or reading it is one step.                     *)
(***************************************************************************)
EXTENDS Integers, Sequences

CONSTANTS
  Words,          (* names, and the pieces of paths                         *)
  Configurations, (* what the configuration file may say                    *)
  Indexer,        (* the process looka-indexer                              *)
  Searchds,       (* the processes looka-searchd                            *)
  UShort,         (* how many values an unsigned short has                  *)
  Absent,         (* no files                                               *)
  Broken,         (* files that are not one whole index                     *)
  Nobody,         (* the listener of a free port                            *)
  Faults          (* whether dictionaries, files and system calls may fail  *)

Processes == {Indexer} \cup Searchds
Unread == [loads |-> FALSE]              (* the configuration of no process *)

ASSUME StartupAssumption ==
  /\ Indexer \notin Searchds /\ Nobody \notin Searchds /\ Absent # Broken
  /\ UShort \in Nat \ {0} /\ Faults \in BOOLEAN
  /\ {"", "looka", "/"} \subseteq Words

(* What LoadConfig accepts has at most one index of each name (module      *)
(* ConfigParser); the value of index_path is not empty if it is there.     *)
ASSUME ConfigurationAssumption ==
  \A c \in Configurations :
    c.loads =>
      /\ Len(c.indexes) \in Nat
      /\ \A n \in 1..Len(c.indexes) :
           LET index == c.indexes[n]
           IN  /\ index.name \in Words /\ index \notin {Absent, Broken}
               /\ "index_path" \in DOMAIN index.items =>
                    index.items.index_path \in Seq(Words) \ {<<>>}
               /\ \A m \in 1..Len(c.indexes) :
                    index.name = c.indexes[m].name => m = n

-----------------------------------------------------------------------------
(* Typed configurations.  An item without a value is as one that is not    *)
(* there, and so is a number that is 0; _ERROR_EXIT ends the program.      *)

HasStrings(section, items) == items \subseteq DOMAIN section
HasInts(section, items) ==
  HasStrings(section, items) /\ \A i \in items : section[i] # 0

SourceComplete(s) ==
  /\ HasStrings(s, {"sql_host", "sql_user", "sql_db", "sql_query"})
  /\ HasInts(s, {"sql_port"})

IndexComplete(s) == HasStrings(s, {"source", "dict_path", "index_path"})

SearchdComplete(s) ==
  /\ HasInts(s, {"listen", "thread_num", "max_matches", "client_timeout",
                 "read_timeout"})
  /\ HasStrings(s, {"searchd_log", "query_log", "pid_file"})

(* A path is a sequence of pieces; "/" is one.                             *)
Directory(path) == IF path[Len(path)] = "/" THEN path ELSE Append(path, "/")

(* Mutant of FileName: every index of a directory has the same files.      *)
FileNameShared(name) == "looka"

FileName(name) == IF name = "" THEN "looka" ELSE name

(* The files of LookaConfigIndex, without their extensions.                *)
FilesOf(index) == Append(Directory(index.items.index_path), FileName(index.name))

HasSource(c, index) == \E s \in c.sources : s.name = index.items.source

(* Where in a configuration the indexes are that a program does not skip.  *)
Usable(c) == {n \in 1..Len(c.indexes) : HasSource(c, c.indexes[n])}

(* The first of them, which is searchd's.                                  *)
Chosen(c) ==
  c.indexes[CHOOSE n \in Usable(c) : \A m \in Usable(c) : n <= m]

(* Whether the program gets past its configuration.  Only searchd reads    *)
(* the section "searchd", which must be one without a name.                *)
Starts(p, c) ==
  /\ c.loads
  /\ \A s \in c.sources : SourceComplete(s.items)
  /\ \A n \in 1..Len(c.indexes) : IndexComplete(c.indexes[n].items)
  /\ p \in Searchds => "" \in DOMAIN c.searchd /\ SearchdComplete(c.searchd[""])

(* Where the indexes of the configurations that are complete lie.          *)
Locations ==
  UNION {{FilesOf(c.indexes[n]) : n \in 1..Len(c.indexes)} :
         c \in {d \in Configurations : Starts(Indexer, d)}}

VARIABLES
  config,   (* what the configuration file says now                         *)
  own,      (* what each process has read of it                             *)
  pc,       (* where each process is in main()                              *)
  at,       (* the indexer's loop index                                     *)
  failed,   (* the indexes for which DoIndex returned -1 in this run        *)
  disk,     (* the index whose files lie at each location                   *)
  serves,   (* what each searchd's Init has read                            *)
  server,   (* "none", with "threads" behind the port, or "deaf"            *)
  listener  (* the searchd that listens at each port, or Nobody             *)

indexing == <<at, failed, disk>>
serving  == <<serves, server, listener>>
vars     == <<config, own, pc, indexing, serving>>

Ports == 0..UShort - 1

Init ==
  /\ config \in Configurations
  /\ own = [p \in Processes |-> Unread]
  /\ pc = [p \in Processes |-> "off"]
  /\ at = 1 /\ failed = {}
  /\ disk = [f \in Locations |-> Absent]
  /\ serves = [s \in Searchds |-> Absent]
  /\ server = [s \in Searchds |-> "none"]
  /\ listener = [port \in Ports |-> Nobody]

Goto(p, label) == pc' = [pc EXCEPT ![p] = label]

(* The process is gone, with its memory and its sockets.                   *)
Gone(p, label) ==
  /\ Goto(p, label)
  /\ own' = [own EXCEPT ![p] = Unread]
  /\ serves' = [s \in Searchds |-> IF s = p THEN Absent ELSE serves[s]]
  /\ server' = [s \in Searchds |-> IF s = p THEN "none" ELSE server[s]]
  /\ listener' = [port \in Ports |->
                    IF listener[port] = p THEN Nobody ELSE listener[port]]

-----------------------------------------------------------------------------
(* Both programs                                                           *)

(* The configuration file is edited.                                       *)
Edit ==
  /\ config' \in Configurations \ {config}
  /\ UNCHANGED <<own, pc, indexing, serving>>

(* LoadConfig, then all sections of the tags the program reads.            *)
Launch(p) ==
  /\ pc[p] \in {"off", "refused", "done", "crashed", "aborted"}
  /\ Starts(p, config)
  /\ own' = [own EXCEPT ![p] = config]
  /\ Goto(p, "indexes")
  /\ at' = IF p = Indexer THEN 1 ELSE at
  /\ failed' = IF p = Indexer THEN {} ELSE failed
  /\ UNCHANGED <<config, disk, serving>>

(* EXIT_FAILURE, or _ERROR_EXIT of an item that is missing.                *)
Refuse(p) ==
  /\ pc[p] \in {"off", "done", "crashed", "aborted"}
  /\ ~Starts(p, config)
  /\ Gone(p, "refused")
  /\ UNCHANGED <<config, indexing>>

(* SIGTERM, SIGINT or SIGKILL, at any time: nothing after pause() is run.  *)
Signal(p) ==
  /\ pc[p] \in {"indexes", "server", "paused"}
  /\ Gone(p, "off")
  /\ UNCHANGED <<config, indexing>>

-----------------------------------------------------------------------------
(* looka-indexer: the loop over index_names                                *)

Current == own[Indexer].indexes[at]

AtIndex == pc[Indexer] = "indexes" /\ at <= Len(own[Indexer].indexes)

(* Mutant of Skip: "break" in place of "continue".                         *)
SkipAll ==
  /\ AtIndex /\ ~HasSource(own[Indexer], Current)
  /\ at' = Len(own[Indexer].indexes) + 1
  /\ UNCHANGED <<config, own, pc, failed, disk, serving>>

(* "[No such source:%s for index:%s, skipping.]"                           *)
Skip ==
  /\ AtIndex /\ ~HasSource(own[Indexer], Current)
  /\ at' = at + 1
  /\ UNCHANGED <<config, own, pc, failed, disk, serving>>

DoIndex ==
  /\ AtIndex /\ HasSource(own[Indexer], Current)
  /\ disk' = [disk EXCEPT ![FilesOf(Current)] = Current]
  /\ at' = at + 1
  /\ UNCHANGED <<config, own, pc, failed, serving>>

(* No dictionary, no connection, no rows, or files that cannot be written  *)
(* whole: DoIndex's result is not looked at.                               *)
DoIndexFails ==
  /\ Faults
  /\ AtIndex /\ HasSource(own[Indexer], Current)
  /\ \/ disk' = disk
     \/ disk' = [disk EXCEPT ![FilesOf(Current)] = Broken]
  /\ failed' = failed \cup {Current}
  /\ at' = at + 1
  /\ UNCHANGED <<config, own, pc, serving>>

IndexerDone ==
  /\ pc[Indexer] = "indexes" /\ ~AtIndex
  /\ Goto(Indexer, "done")
  /\ UNCHANGED <<config, own, indexing, serving>>

-----------------------------------------------------------------------------
(* looka-searchd: the first index that has a source, then the server       *)

(* new LookaSearchd and Init, then "break".                                *)
ReadIndex(s) ==
  /\ pc[s] = "indexes" /\ Usable(own[s]) # {}
  /\ serves' = [serves EXCEPT ![s] = disk[FilesOf(Chosen(own[s]))]]
  /\ Goto(s, "server")
  /\ UNCHANGED <<config, own, indexing, server, listener>>

(* "init segmenter failed": the constructor ends the program.              *)
NoDictionary(s) ==
  /\ Faults
  /\ pc[s] = "indexes" /\ Usable(own[s]) # {}
  /\ Gone(s, "refused")
  /\ UNCHANGED <<config, indexing>>

(* All indexes are skipped: searchd is NULL, and its m_searchd_cfg is read *)
(* for thread_num.                                                         *)
DereferenceNull(s) ==
  /\ pc[s] = "indexes" /\ Usable(own[s]) = {}
  /\ Gone(s, "crashed")
  /\ UNCHANGED <<config, indexing>>

(* listen_port becomes an unsigned short; at 0 the kernel chooses one.     *)
Port(s) == own[s].searchd[""].listen % UShort
PortsFor(s) == IF Port(s) = 0 THEN Ports \ {0} ELSE {Port(s)}

Threads(s) == own[s].searchd[""].thread_num

(* Start(): the epoll instance, the listening socket and all threads.      *)
ServerStarts(s) ==
  /\ pc[s] = "server" /\ Threads(s) > 0
  /\ \E port \in PortsFor(s) :
       /\ listener[port] = Nobody
       /\ listener' = [listener EXCEPT ![port] = s]
  /\ server' = [server EXCEPT ![s] = "threads"]
  /\ Goto(s, "paused")
  /\ UNCHANGED <<config, own, indexing, serves>>

(* Start() returns -1, which is not looked at: the port is taken, or a     *)
(* call failed before the socket listens, or no thread can be created.     *)
(* (A listening socket that epoll does not take goes unnoticed, and Start  *)
(* returns 0: module HttpServer.)                                          *)
ServerFails(s) ==
  /\ pc[s] = "server"
  /\ \/ /\ Faults \/ \A port \in PortsFor(s) : listener[port] # Nobody
        /\ UNCHANGED listener
     \/ /\ Faults /\ Threads(s) > 0
        /\ \E port \in PortsFor(s) :
             /\ listener[port] = Nobody
             /\ listener' = [listener EXCEPT ![port] = s]
  /\ server' = [server EXCEPT ![s] = "deaf"]
  /\ Goto(s, "paused")
  /\ UNCHANGED <<config, own, indexing, serves>>

(* A negative thread_num is a size_t no array can have: new throws when    *)
(* the socket already listens, and nobody catches it.                      *)
NewThrows(s) ==
  /\ pc[s] = "server" /\ Threads(s) < 0
  /\ \E port \in PortsFor(s) : listener[port] = Nobody
  /\ Gone(s, "aborted")
  /\ UNCHANGED <<config, indexing>>

Next ==
  \/ Edit
  \/ \E p \in Processes : Launch(p) \/ Refuse(p) \/ Signal(p)
  \/ Skip \/ DoIndex \/ DoIndexFails \/ IndexerDone
  \/ \E s \in Searchds :
       \/ ReadIndex(s) \/ NoDictionary(s) \/ DereferenceNull(s)
       \/ ServerStarts(s) \/ ServerFails(s) \/ NewThrows(s)

Spec == Init /\ [][Next]_vars

-----------------------------------------------------------------------------
(* Properties                                                              *)

(* Two indexes that name the same files: the one without a name is called  *)
(* "looka" on disk (looka_config_index.cpp:25).                            *)
Clash(i, j) ==
  /\ Directory(i.items.index_path) = Directory(j.items.index_path)
  /\ {i.name, j.name} = {"", "looka"}

SameIndex(i, j) ==
  /\ i.name = j.name
  /\ Directory(i.items.index_path) = Directory(j.items.index_path)

(* What a searchd has read was written for the index it chose, the first   *)
(* one with a source in its own configuration: whatever the file said when *)
(* the indexer ran, and whichever other indexes lie in the same directory, *)
(* unless the two clash.                                                   *)
ServesItsOwnIndex ==
  \A s \in Searchds :
    serves[s] \notin {Absent, Broken} =>
      \/ SameIndex(serves[s], Chosen(own[s]))
      \/ Clash(serves[s], Chosen(own[s]))

(* When looka-indexer ends, every index with a source that did not fail    *)
(* lies where searchd looks for it, unless a clashing one lies there: no   *)
(* index that is skipped or fails keeps the others from being written.     *)
IndexerLeavesAll ==
  pc[Indexer] = "done" =>
    LET c == own[Indexer]
    IN  \A n \in Usable(c) :
          c.indexes[n] \notin failed =>
            \/ disk[FilesOf(c.indexes[n])] = c.indexes[n]
            \/ \E m \in Usable(c) : Clash(c.indexes[n], c.indexes[m])

(* "[No such source:%s for index:%s, skipping.]"                           *)
(* (looka_searchd_main.cpp:90): an index without a source is skipped, it   *)
(* does not crash searchd.                                                 *)
SkippedOnly == \A s \in Searchds : pc[s] # "crashed"

(* "Run server in background thread." (looka_searchd_main.cpp:108): while  *)
(* main() pauses, threads serve the port.                                  *)
ServerRuns ==
  \A s \in Searchds : pc[s] = "paused" => server[s] = "threads"
=============================================================================
