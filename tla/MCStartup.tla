------------------------------ MODULE MCStartup ------------------------------
(* Configurations with two indexes in one directory, spelled in two ways,  *)
(* with and without sources, names and threads; two ports besides the one  *)
(* that stands for any of them, one for each searchd.                      *)
EXTENDS StartupProofs, TLC

CONSTANTS Searchd1, Searchd2

MCWords == {"", "a", "b", "looka", "data", "/"}

MCSearchds == {Searchd1, Searchd2}

Source(port) ==
  [name |-> "books",
   items |-> [sql_host |-> "h", sql_user |-> "u", sql_db |-> "d",
              sql_query |-> "q", sql_port |-> port]]

Index(name, source, path) ==
  [name |-> name,
   items |-> [source |-> source, dict_path |-> "d", index_path |-> path]]

Searchd(listen, threads) ==
  [max_matches |-> 1, client_timeout |-> 1, read_timeout |-> 1,
   searchd_log |-> "l", query_log |-> "q", pid_file |-> "p",
   listen |-> listen, thread_num |-> threads]

Here == <<"data">>
Slashed == <<"data", "/">>

Config(port, indexes, listen, threads) ==
  [loads |-> TRUE, sources |-> {Source(port)}, indexes |-> indexes,
   searchd |-> [n \in {""} |-> Searchd(listen, threads)]]

(* Two indexes in one directory behind one that is skipped; two indexes    *)
(* that clash, and a port that is 0 as an unsigned short; a number of      *)
(* threads no array can have.                                              *)
Usual == Config(1, <<Index("b", "none", Here), Index("a", "books", Here),
                     Index("", "books", Slashed)>>, 1, 1)
Clashing == Config(1, <<Index("looka", "books", Here),
                        Index("", "books", Slashed)>>, 3, 1)
Countless == Config(1, <<Index("a", "books", Here)>>, 1, -1)

(* Every index is skipped; a number that is missing and a searchd with a   *)
(* name only.                                                              *)
NoSource == Config(1, <<Index("a", "none", Here)>>, 1, 1)
NoPort   == [Config(0, <<Index("a", "books", Here)>>, 1, 1)
             EXCEPT !.searchd = [n \in {"x"} |-> Searchd(1, 1)]]

MCConfigurations == {Usual, Clashing, Countless, NoSource, NoPort}
MCUsual == {Usual}
MCSkipped == {Usual, NoSource}

Symmetry == Permutations(MCSearchds)
=============================================================================
