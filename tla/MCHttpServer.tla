---------------------------- MODULE MCHttpServer ----------------------------
(* Small instances of HttpServer for TLC.                                  *)
EXTENDS HttpServerProofs, TLC

(* Threads, clients and descriptors are interchangeable.                   *)
Symmetry == Permutations(Workers) \cup Permutations(Conns) \cup Permutations(Fds)
=============================================================================
