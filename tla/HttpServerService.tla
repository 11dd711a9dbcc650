------------------------- MODULE HttpServerService -------------------------
(* The refinement mapping from HttpServer to ConnectionService.            *)
EXTENDS HttpServer

(* A connection's socket, and the thread that serves it.                   *)
Serves(w, c) == fd[w] # NoFd /\ sock[fd[w]] = c

OwnerOf(c) ==
  IF \E w \in Workers : Serves(w, c)
  THEN CHOOSE w \in Workers : Serves(w, c)
  ELSE NoWorker

PhaseOf(c) ==
  IF client[c] # "connected" THEN client[c]
  ELSE IF OwnerOf(c) = NoWorker THEN "connected"
  ELSE IF pc[OwnerOf(c)] = "close" THEN "answered"
  ELSE "claimed"

(* A thread that has tested m_running may serve one event more.            *)
Service == INSTANCE ConnectionService WITH
  Lossy   <- "EINVAL" \in Faults,
  phase   <- [c \in Conns |-> PhaseOf(c)],
  owner   <- [c \in Conns |-> OwnerOf(c)],
  answers <- replies,
  open    <- m_running,
  armed   <- IF m_running THEN Workers
             ELSE {w \in Workers : pc[w] \in Locked \cup {"lock"}}

(* The pool of threads keeps the promises of ConnectionService: every      *)
(* connection is claimed by at most one thread, answered once, by that     *)
(* thread, and closed after the answer; only a failing accept() closes one *)
(* unanswered; after Stop() each thread serves at most one more.           *)
ImplementsConnectionService == Service!Spec
=============================================================================
