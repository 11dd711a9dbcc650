----------------------------- MODULE HttpServer -----------------------------
(***************************************************************************)
(* The event loop of class HttpServer (http_frame/http_server.cpp): a pool *)
(* of identical threads runs Run().  One thread at a time holds            *)
(* m_epoll_mutex; it refills the shared array m_epoll_ready_events by      *)
(* epoll_wait when the array is used up, pops one event, and either        *)
(* accepts every queued connection (listening socket) or takes the socket  *)
(* out of epoll, releases the mutex, answers the request and closes the    *)
(* socket.  Sockets are registered edge-triggered.                         *)
(*                                                                         *)
(* The kernel (accept queue, descriptor table, epoll instance) and the     *)
(* clients are modelled from the way this code uses them.  What a request  *)
(* says and how its bytes are read is left to module HttpConnection.       *)
(***************************************************************************)
EXTENDS Integers, Sequences

CONSTANTS
  Workers,    (* the threads Start() creates, m_threads                     *)
  Conns,      (* client connections; a client connects at most once         *)
  Fds,        (* descriptor numbers the process has for accepted sockets    *)
  ListenFd,   (* m_listen_fd                                                *)
  NoFd,       (* HTTP_INVALID_FD                                            *)
  NoConn,     (* what a closed descriptor refers to                         *)
  NoWorker,   (* owner of the free mutex                                    *)
  MaxEvents,  (* capacity of m_epoll_ready_events, HTTP_MAX_FD              *)
  Faults      (* which system calls may fail, see FaultKinds                *)

(* EINTR: epoll_wait is interrupted (a SIGCONT is enough, no handler has   *)
(* to return).  EINVAL: accept() reads the uninitialized addr_len as a     *)
(* negative length.  ENOMEM: EPOLL_CTL_ADD fails.  EAGAIN: pthread_create  *)
(* fails.                                                                  *)
FaultKinds == {"EINTR", "EINVAL", "ENOMEM", "EAGAIN"}

AllFds == Fds \cup {ListenFd}

ASSUME ConstantsAssumption ==
  /\ ListenFd \notin Fds /\ NoFd \notin AllFds
  /\ NoConn \notin Conns
  /\ NoWorker \notin Workers
  /\ MaxEvents \in Nat \ {0}
  /\ Faults \subseteq FaultKinds

VARIABLES
  m_running,      (* m_running                                              *)
  m_epoll_mutex,  (* the thread that holds m_epoll_mutex, or NoWorker       *)
  m_event_num,    (* m_epoll_ready_event_num                                *)
  m_events,       (* m_epoll_ready_events, index 1 is the C array's 0       *)
  spawning,       (* Start() is still in its pthread_create loop            *)
  pc,             (* where each thread is in Run()                          *)
  fd,             (* Run()'s local fd of a socket being served, or NoFd     *)
  request,        (* the connection the local HttpReply was computed for    *)
  backlog,        (* kernel: completed connections accept() has not taken   *)
  sock,           (* kernel: the connection each descriptor refers to       *)
  interest,       (* kernel: descriptors registered with m_epoll_fd         *)
  ready,          (* kernel: registered descriptors with an undelivered edge*)
  client,         (* what each client has done                              *)
  sent,           (* clients whose first bytes (or FIN) have arrived        *)
  replies         (* how many times SendReply wrote to each client          *)

server  == <<m_running, m_epoll_mutex, m_event_num, m_events, spawning>>
threads == <<pc, fd, request>>
kernel  == <<backlog, sock, interest, ready>>
clients == <<client, sent, replies>>
vars    == <<server, threads, kernel, clients>>

Locked   == {"wait", "pop", "accept", "acceptmore"}
InFlight == {"handle", "send", "close"}
Labels   == {"unborn", "check", "lock", "exit"} \cup Locked \cup InFlight

(* Events epoll_wait has delivered that no thread has popped yet.          *)
Pending == {m_events[i] : i \in 1..m_event_num}

(* Edges epoll_wait would report: a client socket with an edge stays       *)
(* readable while it is registered, nobody reads it.                       *)
Reportable == {f \in ready : f = ListenFd => backlog # <<>>}

Goto(w, label) == pc' = [pc EXCEPT ![w] = label]
Unlock         == m_epoll_mutex' = NoWorker

-----------------------------------------------------------------------------
(* Start() has created the epoll instance and the listening socket and     *)
(* registered it; it is about to create the threads.  AddEvent returns 0   *)
(* whatever epoll_ctl does, so that Start() goes on with a listening       *)
(* socket that is not registered.                                          *)
Init ==
  /\ m_running = TRUE
  /\ m_epoll_mutex = NoWorker
  /\ m_event_num = 0
  /\ m_events = [i \in 1..MaxEvents |-> NoFd]
  /\ spawning = TRUE
  /\ pc = [w \in Workers |-> "unborn"]
  /\ fd = [w \in Workers |-> NoFd]
  /\ request = [w \in Workers |-> NoConn]
  /\ backlog = <<>>
  /\ sock = [f \in Fds |-> NoConn]
  /\ interest = {ListenFd} \/ ("ENOMEM" \in Faults /\ interest = {})
  /\ ready = {}
  /\ client = [c \in Conns |-> "new"]
  /\ sent = {}
  /\ replies = [c \in Conns |-> 0]

(* Start(): pthread_create of one more thread.                             *)
Spawn(w) ==
  /\ spawning /\ pc[w] = "unborn"
  /\ Goto(w, "check")
  /\ UNCHANGED <<server, fd, request, kernel, clients>>

(* Start(): pthread_create fails, Start() returns -1, main() goes on.      *)
SpawnFails ==
  /\ spawning /\ "EAGAIN" \in Faults
  /\ \E w \in Workers : pc[w] = "unborn"
  /\ spawning' = FALSE
  /\ UNCHANGED <<m_running, m_epoll_mutex, m_event_num, m_events, threads,
                 kernel, clients>>

(* Stop(), called by the owner of the server or by its destructor.         *)
Stop ==
  /\ m_running
  /\ m_running' = FALSE
  /\ UNCHANGED <<m_epoll_mutex, m_event_num, m_events, spawning, threads,
                 kernel, clients>>

-----------------------------------------------------------------------------
(* Mutant of Check: "while (true)".                                        *)
CheckNothing(w) ==
  /\ pc[w] = "check"
  /\ Goto(w, "lock")
  /\ UNCHANGED <<server, fd, request, kernel, clients>>

(* The loop condition, read without the mutex.                             *)
Check(w) ==
  /\ pc[w] = "check"
  /\ Goto(w, IF m_running THEN "lock" ELSE "exit")
  /\ UNCHANGED <<server, fd, request, kernel, clients>>

(* Mutant of Lock: "== 0", which a failed epoll_wait steps over.           *)
LockTestsZero(w) ==
  /\ pc[w] = "lock" /\ m_epoll_mutex = NoWorker
  /\ m_epoll_mutex' = w
  /\ Goto(w, IF m_event_num = 0 THEN "wait" ELSE "pop")
  /\ UNCHANGED <<m_running, m_event_num, m_events, spawning, fd, request,
                 kernel, clients>>

(* Mutant of Lock: "<= 1", the last event is overwritten.                  *)
LockTestsOne(w) ==
  /\ pc[w] = "lock" /\ m_epoll_mutex = NoWorker
  /\ m_epoll_mutex' = w
  /\ Goto(w, IF m_event_num <= 1 THEN "wait" ELSE "pop")
  /\ UNCHANGED <<m_running, m_event_num, m_events, spawning, fd, request,
                 kernel, clients>>

(* pthread_mutex_lock and the test for a used-up event array.              *)
Lock(w) ==
  /\ pc[w] = "lock" /\ m_epoll_mutex = NoWorker
  /\ m_epoll_mutex' = w
  /\ Goto(w, IF m_event_num <= 0 THEN "wait" ELSE "pop")
  /\ UNCHANGED <<m_running, m_event_num, m_events, spawning, fd, request,
                 kernel, clients>>

(* epoll_wait with timeout -1, called under the mutex: it returns once     *)
(* there is an edge to report, with as many as the array holds.  It polls  *)
(* each socket again and forgets an edge that has nothing to read: that of *)
(* a queue an earlier accept loop has already emptied.                     *)
EpollWait(w) ==
  /\ pc[w] = "wait"
  /\ \E n \in 1..MaxEvents : \E evs \in [1..n -> Reportable] :
       /\ \A i, j \in 1..n : evs[i] = evs[j] => i = j
       /\ n = MaxEvents \/ \A f \in Reportable : \E i \in 1..n : evs[i] = f
       /\ m_event_num' = n
       /\ m_events' = [i \in 1..MaxEvents |->
                         IF i <= n THEN evs[i] ELSE m_events[i]]
       /\ ready' = Reportable \ {evs[i] : i \in 1..n}
  /\ Goto(w, "pop")
  /\ UNCHANGED <<m_running, m_epoll_mutex, spawning, fd, request, backlog,
                 sock, interest, clients>>

(* Mutant of EpollInterrupted: a finite timeout, epoll_wait returns 0.     *)
EpollTimesOut(w) ==
  /\ pc[w] = "wait" /\ Reportable = {}
  /\ m_event_num' = 0
  /\ Goto(w, "pop")
  /\ UNCHANGED <<m_running, m_epoll_mutex, m_events, spawning, fd, request,
                 kernel, clients>>

(* epoll_wait returns -1; the kernel looks for events first.               *)
EpollInterrupted(w) ==
  /\ pc[w] = "wait" /\ "EINTR" \in Faults /\ Reportable = {}
  /\ m_event_num' = -1
  /\ Goto(w, "pop")
  /\ UNCHANGED <<m_running, m_epoll_mutex, m_events, spawning, fd, request,
                 kernel, clients>>

(* Mutant of PopNothing: "continue" without unlocking.                     *)
PopNothingLocked(w) ==
  /\ pc[w] = "pop" /\ m_event_num < 0
  /\ m_event_num' = m_event_num - 1
  /\ Goto(w, "check")
  /\ UNCHANGED <<m_running, m_epoll_mutex, m_events, spawning, fd, request,
                 kernel, clients>>

(* "m_epoll_ready_event_num-- < 0": a failed epoll_wait left no event.     *)
PopNothing(w) ==
  /\ pc[w] = "pop" /\ m_event_num < 0
  /\ m_event_num' = m_event_num - 1
  /\ Unlock
  /\ Goto(w, "check")
  /\ UNCHANGED <<m_running, m_events, spawning, fd, request, kernel, clients>>

(* The popped event is the listening socket's: enter the accept loop.      *)
PopListen(w) ==
  /\ pc[w] = "pop" /\ m_event_num >= 0
  /\ m_events[m_event_num] = ListenFd
  /\ m_event_num' = m_event_num - 1
  /\ Goto(w, "accept")
  /\ UNCHANGED <<m_running, m_epoll_mutex, m_events, spawning, fd, request,
                 kernel, clients>>

(* Mutant of PopClient: no DelEvent.                                       *)
PopClientRegistered(w) ==
  /\ pc[w] = "pop" /\ m_event_num >= 0
  /\ m_events[m_event_num] # ListenFd
  /\ m_event_num' = m_event_num - 1
  /\ fd' = [fd EXCEPT ![w] = m_events[m_event_num]]
  /\ Unlock
  /\ Goto(w, "handle")
  /\ UNCHANGED <<m_running, m_events, spawning, request, kernel, clients>>

(* The popped event is a client's: DelEvent, then release the mutex.       *)
PopClient(w) ==
  /\ pc[w] = "pop" /\ m_event_num >= 0
  /\ m_events[m_event_num] # ListenFd
  /\ m_event_num' = m_event_num - 1
  /\ fd' = [fd EXCEPT ![w] = m_events[m_event_num]]
  /\ interest' = interest \ {m_events[m_event_num]}
  /\ ready' = ready \ {m_events[m_event_num]}
  /\ Unlock
  /\ Goto(w, "handle")
  /\ UNCHANGED <<m_running, m_events, spawning, request, backlog, sock,
                 clients>>

-----------------------------------------------------------------------------
(* The accept loop, one iteration per step, all of it under the mutex.     *)

Accepting(w) == pc[w] \in {"accept", "acceptmore"}

(* Mutant of Accept: "if" for "while", one connection per event.           *)
AcceptOne(w) ==
  /\ Accepting(w) /\ backlog # <<>>
  /\ \E f \in Fds :
       /\ sock[f] = NoConn
       /\ sock' = [sock EXCEPT ![f] = Head(backlog)]
       /\ interest' = interest \cup {f}
       /\ ready' = IF Head(backlog) \in sent THEN ready \cup {f} ELSE ready
  /\ backlog' = Tail(backlog)
  /\ Unlock
  /\ Goto(w, "check")
  /\ UNCHANGED <<m_running, m_event_num, m_events, spawning, fd, request,
                 clients>>

(* accept() succeeds on a free descriptor; SetSocket and AddEvent follow.  *)
(* AddEvent reports at once a socket whose bytes are already there; its    *)
(* own failure goes unnoticed.                                             *)
Accept(w) ==
  /\ Accepting(w) /\ backlog # <<>>
  /\ \E f \in Fds :
       /\ sock[f] = NoConn
       /\ sock' = [sock EXCEPT ![f] = Head(backlog)]
       /\ \/ /\ interest' = interest \cup {f}
             /\ ready' = IF Head(backlog) \in sent THEN ready \cup {f}
                                                   ELSE ready
          \/ "ENOMEM" \in Faults /\ UNCHANGED <<interest, ready>>
  /\ backlog' = Tail(backlog)
  /\ Goto(w, "acceptmore")
  /\ UNCHANGED <<server, fd, request, clients>>

(* accept() fails: the queue is empty (EAGAIN) or no descriptor is free    *)
(* (EMFILE), which leaves the queue as it is.                              *)
AcceptFails(w) ==
  /\ Accepting(w)
  /\ backlog = <<>> \/ \A f \in Fds : sock[f] # NoConn
  /\ Unlock
  /\ Goto(w, "check")
  /\ UNCHANGED <<m_running, m_event_num, m_events, spawning, fd, request,
                 kernel, clients>>

(* The first accept() of a loop reads an addr_len nobody set; a negative   *)
(* one makes the kernel drop the connection it had taken.                  *)
AcceptRejects(w) ==
  /\ pc[w] = "accept" /\ "EINVAL" \in Faults /\ backlog # <<>>
  /\ \E f \in Fds : sock[f] = NoConn
  /\ backlog' = Tail(backlog)
  /\ client' = [client EXCEPT ![Head(backlog)] = "closed"]
  /\ Unlock
  /\ Goto(w, "check")
  /\ UNCHANGED <<m_running, m_event_num, m_events, spawning, fd, request,
                 sock, interest, ready, sent, replies>>

-----------------------------------------------------------------------------
(* Mutant of HandleRequest: a bad request is closed without a reply.       *)
HandleGoodRequest(w) ==
  /\ pc[w] = "handle"
  /\ request' = [request EXCEPT ![w] = sock[fd[w]]]
  /\ \E label \in {"send", "close"} : Goto(w, label)
  /\ UNCHANGED <<server, fd, kernel, clients>>

(* HandleRequest: read a request from fd and compute its reply, be it an   *)
(* error page.  A request that ends the whole process (HttpConnection's    *)
(* ContentThrows) ends the behaviour here.                                 *)
HandleRequest(w) ==
  /\ pc[w] = "handle"
  /\ request' = [request EXCEPT ![w] = sock[fd[w]]]
  /\ Goto(w, "send")
  /\ UNCHANGED <<server, fd, kernel, clients>>

(* SendReply: write the reply to fd; a failed write is only logged.        *)
SendReply(w) ==
  /\ pc[w] = "send"
  /\ replies' = [replies EXCEPT ![sock[fd[w]]] = @ + 1]
  /\ Goto(w, "close")
  /\ UNCHANGED <<server, fd, request, kernel, client, sent>>

(* close(fd): the number is free again, whatever still refers to it.       *)
Close(w) ==
  /\ pc[w] = "close"
  /\ client' = [client EXCEPT ![sock[fd[w]]] = "closed"]
  /\ sock' = [sock EXCEPT ![fd[w]] = NoConn]
  /\ interest' = interest \ {fd[w]}
  /\ ready' = ready \ {fd[w]}
  /\ fd' = [fd EXCEPT ![w] = NoFd]
  /\ request' = [request EXCEPT ![w] = NoConn]
  /\ Goto(w, "check")
  /\ UNCHANGED <<server, backlog, sent, replies>>

-----------------------------------------------------------------------------
(* Clients and the network.                                                *)

(* A connection is established: an edge on the listening socket if that is *)
(* registered.                                                             *)
Connect(c) ==
  /\ client[c] = "new"
  /\ client' = [client EXCEPT ![c] = "connected"]
  /\ backlog' = Append(backlog, c)
  /\ ready' = ready \cup ({ListenFd} \cap interest)
  /\ UNCHANGED <<server, threads, sock, interest, sent, replies>>

(* Bytes or a FIN arrive, any number of times: each is an edge on the      *)
(* socket if it is registered.                                             *)
Arrive(c) ==
  /\ client[c] = "connected"
  /\ sent' = sent \cup {c}
  /\ ready' = ready \cup {f \in Fds : f \in interest /\ sock[f] = c}
  /\ UNCHANGED <<server, threads, backlog, sock, interest, client, replies>>

-----------------------------------------------------------------------------
(* What a thread does of its own accord; interruptions come from outside.  *)
Run(w) ==
  \/ Check(w) \/ Lock(w) \/ EpollWait(w)
  \/ PopNothing(w) \/ PopListen(w) \/ PopClient(w)
  \/ Accept(w) \/ AcceptFails(w) \/ AcceptRejects(w)
  \/ HandleRequest(w) \/ SendReply(w) \/ Close(w)

Next ==
  \/ \E w \in Workers : Run(w) \/ Spawn(w) \/ EpollInterrupted(w)
  \/ SpawnFails \/ Stop
  \/ \E c \in Conns : Connect(c) \/ Arrive(c)

Spec == Init /\ [][Next]_vars

(* The operating system schedules every runnable thread, and Start() goes  *)
(* on creating threads.  Nothing is assumed of clients.                    *)
Fairness == \A w \in Workers : WF_vars(Run(w)) /\ WF_vars(Spawn(w))

FairSpec == Spec /\ Fairness

-----------------------------------------------------------------------------
(* Properties.                                                             *)

TypeOK ==
  /\ m_running \in BOOLEAN /\ spawning \in BOOLEAN
  /\ m_epoll_mutex \in Workers \cup {NoWorker}
  /\ m_event_num \in -2..MaxEvents
  /\ m_events \in [1..MaxEvents -> AllFds \cup {NoFd}]
  /\ pc \in [Workers -> Labels]
  /\ fd \in [Workers -> Fds \cup {NoFd}]
  /\ request \in [Workers -> Conns \cup {NoConn}]
  /\ backlog \in Seq(Conns)
  /\ sock \in [Fds -> Conns \cup {NoConn}]
  /\ interest \subseteq AllFds /\ ready \subseteq AllFds
  /\ client \in [Conns -> {"new", "connected", "closed"}]
  /\ sent \subseteq Conns
  /\ replies \in [Conns -> Nat]

(* Every path of the loop, "continue" included, leaves the mutex as the    *)
(* next iteration expects it: the holder is the one thread between lock    *)
(* and unlock.                                                             *)
MutexDiscipline ==
  \A w \in Workers : m_epoll_mutex = w <=> pc[w] \in Locked

(* The shared event array never holds a stale event.  Threads pop from it  *)
(* while others close sockets whose numbers the kernel hands out again, so *)
(* an event must never outlive its socket or be there twice.  The index a  *)
(* thread pops is inside the array (epoll_wait never returned 0).          *)
EventsAreLive ==
  /\ \A i, j \in 1..m_event_num :
       /\ m_events[i] \in interest
       /\ m_events[i] = m_events[j] => i = j
  /\ \A w \in Workers : pc[w] = "pop" => m_event_num # 0

Owns(w, f) == fd[w] = f /\ f # NoFd

(* Two threads never serve the same descriptor, and the descriptor a       *)
(* thread serves is open and out of epoll: however often its client        *)
(* writes, no thread is told of it again before the number is closed.      *)
ExclusiveOwnership ==
  \A w \in Workers, f \in Fds : Owns(w, f) =>
    /\ sock[f] # NoConn
    /\ f \notin interest \cup ready \cup Pending
    /\ \A v \in Workers : Owns(v, f) => v = w

(* The reply a thread has computed goes to the connection its request came *)
(* from: the number is not closed and reused between the two.              *)
ReplyToRequester ==
  \A w \in Workers : pc[w] = "send" => sock[fd[w]] = request[w]

(* Edge-triggered registration loses no request: an open socket is being   *)
(* served, or is registered with an event on its way once its client has   *)
(* sent something.  The one exception is a socket whose AddEvent failed    *)
(* unnoticed.                                                              *)
NoLostRequest ==
  \A f \in Fds : sock[f] # NoConn =>
    \/ \E w \in Workers : Owns(w, f)
    \/ f \in interest /\ (sock[f] \in sent => f \in ready \cup Pending)
    \/ f \notin interest /\ "ENOMEM" \in Faults

(* Queued connections are attended to: an event of the listening socket is *)
(* on its way, or a thread is in the accept loop.                          *)
QueueAttended ==
  \/ backlog = <<>>
  \/ ListenFd \in ready \cup Pending
  \/ \E w \in Workers : Accepting(w)

(* The accept loop ends at the first failed accept(), whatever the reason, *)
(* and the edge is gone.  Only running out of descriptors, the             *)
(* uninitialized addr_len, or a listening socket that Start() failed to    *)
(* register without noticing can therefore strand queued connections; one  *)
(* that is registered stays so.                                            *)
StrandsOnlyWhenExhausted ==
  [][ /\ ListenFd \in interest => ListenFd \in interest'
      /\ QueueAttended /\ ~QueueAttended' =>
           \/ \A f \in Fds : sock[f] # NoConn
           \/ \E w \in Workers : AcceptRejects(w)
           \/ "ENOMEM" \in Faults /\ ListenFd \notin interest ]_vars

(* With a descriptor for every client, no failing accept() or epoll_ctl(), *)
(* no request that ends the process and a server that is not stopped,      *)
(* every client that sends something is answered, however the threads are  *)
(* scheduled and epoll_wait interrupted.                                   *)
RequestsAnswered ==
  \A c \in Conns : c \in sent ~> (replies[c] = 1 \/ ~m_running)

(* Once stopped, the threads finish what they serve and then exit or       *)
(* block: Stop() does not wake epoll_wait(-1) or those behind its caller,  *)
(* but whatever wakes them later, each leaves after one round more.        *)
DrainsAfterStop ==
  ~m_running ~> [](\A w \in Workers : pc[w] \in {"unborn", "lock", "wait", "exit"})
=============================================================================
