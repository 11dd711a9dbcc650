------------------------- MODULE ConnectionService -------------------------
(***************************************************************************)
(* What the thread pool of HttpServer promises about each connection,      *)
(* without epoll, events, descriptors or the mutex: at most one worker     *)
(* ever claims it, that worker answers it once and closes it afterwards; a *)
(* connection is closed unanswered only if the service is lossy.  Once the *)
(* service is stopped, each worker claims at most one connection more.     *)
(***************************************************************************)
EXTENDS Integers

CONSTANTS
  Workers, Conns,
  NoWorker,   (* the owner of a connection nobody serves                    *)
  Lossy       (* may a connection be closed without an answer?              *)

VARIABLES
  phase,      (* how far each connection is                                 *)
  owner,      (* the worker that serves it                                  *)
  answers,    (* how many answers it was given                              *)
  open,       (* has the service not been stopped?                          *)
  armed       (* the workers that may still claim a connection              *)

connections == <<phase, owner, answers>>
vars == <<connections, open, armed>>

Phases == {"new", "connected", "claimed", "answered", "closed"}

Init ==
  /\ phase = [c \in Conns |-> "new"]
  /\ owner = [c \in Conns |-> NoWorker]
  /\ answers = [c \in Conns |-> 0]
  /\ open = TRUE
  /\ armed = Workers

Move(c, from, to) == phase[c] = from /\ phase' = [phase EXCEPT ![c] = to]

Connect(c) ==
  /\ Move(c, "new", "connected")
  /\ UNCHANGED <<owner, answers, open, armed>>

Claim(w, c) ==
  /\ w \in armed /\ \A d \in Conns : owner[d] # w
  /\ Move(c, "connected", "claimed")
  /\ owner' = [owner EXCEPT ![c] = w]
  /\ armed' = IF open THEN armed ELSE armed \ {w}
  /\ UNCHANGED <<answers, open>>

Answer(w, c) ==
  /\ owner[c] = w
  /\ Move(c, "claimed", "answered")
  /\ answers' = [answers EXCEPT ![c] = @ + 1]
  /\ UNCHANGED <<owner, open, armed>>

Finish(w, c) ==
  /\ owner[c] = w
  /\ Move(c, "answered", "closed")
  /\ owner' = [owner EXCEPT ![c] = NoWorker]
  /\ UNCHANGED <<answers, open, armed>>

(* A worker may find out it has lost one in its last claim.                *)
Lose(c) ==
  /\ Lossy
  /\ Move(c, "connected", "closed")
  /\ \/ armed' = armed
     \/ ~open /\ \E w \in Workers : armed' = armed \ {w}
  /\ UNCHANGED <<owner, answers, open>>

Stop ==
  /\ open /\ open' = FALSE
  /\ armed' \in SUBSET armed
  /\ UNCHANGED connections

(* A worker gives up its last claim.                                       *)
Retire(w) ==
  /\ ~open
  /\ armed' = armed \ {w}
  /\ UNCHANGED <<connections, open>>

Next ==
  \/ \E c \in Conns : Connect(c) \/ Lose(c)
  \/ \E w \in Workers, c \in Conns : Claim(w, c) \/ Answer(w, c) \/ Finish(w, c)
  \/ Stop
  \/ \E w \in Workers : Retire(w)

Spec == Init /\ [][Next]_vars
=============================================================================
