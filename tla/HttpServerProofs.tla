-------------------------- MODULE HttpServerProofs --------------------------
(***************************************************************************)
(* Proofs about HttpServer for any number of threads, clients,             *)
(* descriptors and events, whatever may fail; last, that it implements     *)
(* ConnectionService.                                                      *)
(***************************************************************************)
EXTENDS HttpServerService, TLAPS

-----------------------------------------------------------------------------
(* The inductive invariant.                                                *)

(* A thread holds a descriptor exactly while it serves it; that descriptor *)
(* is open and unregistered; the event array is empty when it is refilled  *)
(* and not empty when an event is popped from it.                          *)
ThreadState ==
  \A w \in Workers :
    /\ fd[w] # NoFd <=> pc[w] \in InFlight
    /\ fd[w] # NoFd => sock[fd[w]] # NoConn /\ fd[w] \notin interest
    /\ pc[w] \in {"send", "close"} => request[w] = sock[fd[w]]
    /\ pc[w] = "wait" => m_event_num <= 0
    /\ pc[w] = "pop" => m_event_num \in {-1} \cup 1..MaxEvents

(* What is registered with epoll is open, and only that can have an edge;  *)
(* the listening socket is, unless registering it failed.                  *)
Registration ==
  /\ ListenFd \in interest \/ "ENOMEM" \in Faults
  /\ ready \subseteq interest
  /\ \A f \in Fds : f \in interest => sock[f] # NoConn

OwnedOnce ==
  \A v, w \in Workers : fd[v] = fd[w] /\ fd[v] # NoFd => v = w

Inv ==
  /\ TypeOK /\ MutexDiscipline /\ ThreadState
  /\ Registration /\ EventsAreLive /\ OwnedOnce /\ NoLostRequest
-----------------------------------------------------------------------------

LEMMA InitInv == Init => Inv
  <1> SUFFICES ASSUME Init PROVE Inv
    OBVIOUS
  <1> USE ConstantsAssumption
  <1>1. TypeOK
    BY DEF Init, TypeOK, AllFds, Labels
  <1>2. MutexDiscipline /\ ThreadState /\ OwnedOnce
    BY DEF Init, MutexDiscipline, ThreadState, OwnedOnce, Locked, InFlight
  <1>3. Registration /\ EventsAreLive /\ NoLostRequest
    BY DEF Init, Registration, EventsAreLive, NoLostRequest
  <1> QED
    BY <1>1, <1>2, <1>3 DEF Inv

(* A step that takes no event, no thread and no registration away from a   *)
(* socket loses no request.                                                *)
LEMMA RequestsKept ==
  ASSUME NoLostRequest, UNCHANGED <<fd, sock, interest, sent>>,
         ready \subseteq ready', Pending \subseteq Pending'
  PROVE  NoLostRequest'
  BY DEF NoLostRequest, Owns

(* What epoll_wait leaves: delivered and undelivered edges together are    *)
(* those there were to report.                                             *)
LEMMA RefillSplitsEdges ==
  ASSUME Inv, NEW w \in Workers, EpollWait(w)
  PROVE  /\ m_event_num' \in 1..MaxEvents
         /\ m_events' \in [1..MaxEvents -> AllFds \cup {NoFd}]
         /\ \A i, j \in 1..m_event_num' :
              m_events'[i] = m_events'[j] => i = j
         /\ Pending = {}
         /\ Pending' \subseteq Reportable
         /\ ready' = Reportable \ Pending'
  <1> USE ConstantsAssumption
  <1>0. PICK n \in 1..MaxEvents : \E evs \in [1..n -> Reportable] :
          /\ \A i, j \in 1..n : evs[i] = evs[j] => i = j
          /\ m_event_num' = n
          /\ m_events' = [i \in 1..MaxEvents |->
                            IF i <= n THEN evs[i] ELSE m_events[i]]
          /\ ready' = Reportable \ {evs[i] : i \in 1..n}
    BY DEF EpollWait
  <1>1. PICK evs \in [1..n -> Reportable] :
          /\ \A i, j \in 1..n : evs[i] = evs[j] => i = j
          /\ m_event_num' = n
          /\ m_events' = [i \in 1..MaxEvents |->
                            IF i <= n THEN evs[i] ELSE m_events[i]]
          /\ ready' = Reportable \ {evs[i] : i \in 1..n}
    BY <1>0
  <1>2. \A i \in 1..n : i \in 1..MaxEvents /\ m_events'[i] = evs[i]
    BY <1>1
  <1>3. m_events' \in [1..MaxEvents -> AllFds \cup {NoFd}]
    BY <1>1 DEF Inv, TypeOK, Reportable
  <1>4. Pending' = {evs[i] : i \in 1..n}
    BY <1>1, <1>2 DEF Pending
  <1>5. Pending = {}
    BY DEF Inv, TypeOK, ThreadState, EpollWait, Pending
  <1> QED
    BY <1>1, <1>2, <1>3, <1>4, <1>5

(* A pop takes one event out of the array.                                 *)
LEMMA PopTakesOne ==
  ASSUME Inv, NEW w \in Workers, pc[w] = "pop", m_event_num >= 0,
         m_event_num' = m_event_num - 1, UNCHANGED m_events
  PROVE  /\ m_event_num \in 1..MaxEvents
         /\ m_events[m_event_num] \in interest
         /\ Pending = Pending' \cup {m_events[m_event_num]}
         /\ m_events[m_event_num] \notin Pending'
  <1>1. m_event_num \in 1..MaxEvents
    BY ConstantsAssumption DEF Inv, ThreadState
  <1> QED
    BY <1>1, ConstantsAssumption DEF Inv, EventsAreLive, Pending

LEMMA NextInv == Inv /\ [Next]_vars => Inv'
  <1> SUFFICES ASSUME Inv, [Next]_vars PROVE Inv'
    OBVIOUS
  <1> USE ConstantsAssumption
  <1> USE DEF Inv, Goto, Unlock, Accepting, AllFds, Labels, Locked, InFlight,
              server, threads, kernel, clients
  <1>1. ASSUME NEW w \in Workers, Spawn(w) PROVE Inv'
    <2>1. TypeOK'
      BY <1>1 DEF Spawn, TypeOK
    <2>2. MutexDiscipline'
      BY <1>1 DEF Spawn, MutexDiscipline
    <2>3. ThreadState'
      BY <1>1 DEF Spawn, ThreadState
    <2>4. Registration' /\ EventsAreLive' /\ OwnedOnce'
      BY <1>1 DEF Spawn, Registration, EventsAreLive, OwnedOnce
    <2>5. NoLostRequest'
      BY <1>1, RequestsKept DEF Spawn, Pending
    <2> QED
      BY <2>1, <2>2, <2>3, <2>4, <2>5 DEF Inv
  <1>2. ASSUME SpawnFails PROVE Inv'
    <2>1. TypeOK'
      BY <1>2 DEF SpawnFails, TypeOK
    <2>2. MutexDiscipline' /\ ThreadState' /\ Registration' /\ EventsAreLive' /\ OwnedOnce'
      BY <1>2 DEF SpawnFails, MutexDiscipline, ThreadState, EventsAreLive, OwnedOnce, Registration
    <2>3. NoLostRequest'
      BY <1>2, RequestsKept DEF SpawnFails, Pending
    <2> QED
      BY <2>1, <2>2, <2>3 DEF Inv
  <1>3. ASSUME Stop PROVE Inv'
    <2>1. TypeOK'
      BY <1>3 DEF Stop, TypeOK
    <2>2. MutexDiscipline' /\ ThreadState' /\ Registration' /\ EventsAreLive' /\ OwnedOnce'
      BY <1>3 DEF Stop, MutexDiscipline, ThreadState, EventsAreLive, OwnedOnce, Registration
    <2>3. NoLostRequest'
      BY <1>3, RequestsKept DEF Stop, Pending
    <2> QED
      BY <2>1, <2>2, <2>3 DEF Inv
  <1>4. ASSUME NEW w \in Workers, Check(w) PROVE Inv'
    <2>1. TypeOK'
      BY <1>4 DEF Check, TypeOK
    <2>2. MutexDiscipline'
      BY <1>4 DEF Check, MutexDiscipline
    <2>3. ThreadState'
      BY <1>4 DEF Check, ThreadState
    <2>4. Registration' /\ EventsAreLive' /\ OwnedOnce'
      BY <1>4 DEF Check, Registration, EventsAreLive, OwnedOnce
    <2>5. NoLostRequest'
      BY <1>4, RequestsKept DEF Check, Pending
    <2> QED
      BY <2>1, <2>2, <2>3, <2>4, <2>5 DEF Inv
  <1>5. ASSUME NEW w \in Workers, Lock(w) PROVE Inv'
    <2>1. TypeOK'
      BY <1>5 DEF Lock, TypeOK
    <2>2. MutexDiscipline'
      BY <1>5 DEF Lock, TypeOK, MutexDiscipline
    <2>3. ThreadState'
      BY <1>5 DEF Lock, TypeOK, ThreadState
    <2>4. Registration' /\ EventsAreLive' /\ OwnedOnce'
      BY <1>5 DEF Lock, Registration, EventsAreLive, OwnedOnce
    <2>5. NoLostRequest'
      BY <1>5, RequestsKept DEF Lock, Pending
    <2> QED
      BY <2>1, <2>2, <2>3, <2>4, <2>5 DEF Inv
  <1>6. ASSUME NEW w \in Workers, EpollWait(w) PROVE Inv'
    <2>1. TypeOK'
      BY <1>6, RefillSplitsEdges DEF EpollWait, TypeOK, Reportable
    <2>2. MutexDiscipline'
      BY <1>6 DEF EpollWait, MutexDiscipline
    <2>3. ThreadState'
      BY <1>6 DEF EpollWait, TypeOK, ThreadState, MutexDiscipline
    <2>4. Registration'
      BY <1>6, RefillSplitsEdges DEF EpollWait, Registration, Reportable
    <2>5. EventsAreLive'
      <3>1. \A i \in 1..m_event_num' : m_events'[i] \in Pending'
        BY DEF Pending
      <3> QED
        BY <1>6, <3>1, RefillSplitsEdges
        DEF EpollWait, TypeOK, EventsAreLive, Registration, Reportable,
            MutexDiscipline
    <2>6. OwnedOnce'
      BY <1>6 DEF EpollWait, OwnedOnce
    <2>7. NoLostRequest'
      BY <1>6, RefillSplitsEdges
      DEF EpollWait, NoLostRequest, Owns, Reportable
    <2> QED
      BY <2>1, <2>2, <2>3, <2>4, <2>5, <2>6, <2>7 DEF Inv
  <1>7. ASSUME NEW w \in Workers, EpollInterrupted(w) PROVE Inv'
    <2>1. TypeOK'
      BY <1>7 DEF EpollInterrupted, TypeOK
    <2>2. MutexDiscipline'
      BY <1>7 DEF EpollInterrupted, MutexDiscipline
    <2>3. ThreadState'
      BY <1>7 DEF EpollInterrupted, ThreadState
    <2>4. Registration' /\ EventsAreLive' /\ OwnedOnce'
      BY <1>7 DEF EpollInterrupted, Registration, EventsAreLive, OwnedOnce
    <2>5. NoLostRequest'
      <3>1. Pending = {}
        BY <1>7 DEF EpollInterrupted, TypeOK, ThreadState, Pending
      <3> QED
        BY <1>7, <3>1, RequestsKept DEF EpollInterrupted
    <2> QED
      BY <2>1, <2>2, <2>3, <2>4, <2>5 DEF Inv
  <1>8. ASSUME NEW w \in Workers, PopNothing(w) PROVE Inv'
    <2>1. TypeOK'
      BY <1>8 DEF PopNothing, TypeOK, ThreadState
    <2>2. MutexDiscipline'
      BY <1>8 DEF PopNothing, TypeOK, MutexDiscipline
    <2>3. ThreadState'
      BY <1>8 DEF PopNothing, TypeOK, ThreadState, MutexDiscipline
    <2>4. Registration' /\ EventsAreLive' /\ OwnedOnce'
      BY <1>8 DEF PopNothing, Registration, ThreadState, EventsAreLive, OwnedOnce
    <2>5. NoLostRequest'
      <3>1. Pending = {}
        BY <1>8 DEF PopNothing, TypeOK, Pending
      <3> QED
        BY <1>8, <3>1, RequestsKept DEF PopNothing
    <2> QED
      BY <2>1, <2>2, <2>3, <2>4, <2>5 DEF Inv
  <1>9. ASSUME NEW w \in Workers, PopListen(w) PROVE Inv'
    <2>1. TypeOK'
      BY <1>9 DEF PopListen, TypeOK
    <2>2. MutexDiscipline'
      BY <1>9 DEF PopListen, MutexDiscipline
    <2>3. ThreadState'
      BY <1>9 DEF PopListen, TypeOK, ThreadState, MutexDiscipline
    <2>4. Registration' /\ EventsAreLive' /\ OwnedOnce'
      BY <1>9 DEF PopListen, TypeOK, Registration, EventsAreLive, OwnedOnce, MutexDiscipline
    <2>5. NoLostRequest'
      BY <1>9, PopTakesOne DEF PopListen, NoLostRequest, Owns
    <2> QED
      BY <2>1, <2>2, <2>3, <2>4, <2>5 DEF Inv
  <1>10. ASSUME NEW w \in Workers, PopClient(w) PROVE Inv'
    <2>1. TypeOK'
      BY <1>10 DEF PopClient, TypeOK, EventsAreLive
    <2>2. MutexDiscipline'
      BY <1>10 DEF PopClient, TypeOK, MutexDiscipline
    <2>3. ThreadState'
      <3>1. m_events[m_event_num] \in Fds
        BY <1>10, PopTakesOne DEF PopClient, TypeOK
      <3>2. \A v \in Workers : fd[v] # m_events[m_event_num]
        BY <1>10, PopTakesOne DEF PopClient, ThreadState, TypeOK
      <3>3. fd' = [fd EXCEPT ![w] = m_events[m_event_num]]
            /\ pc' = [pc EXCEPT ![w] = "handle"]
            /\ interest' = interest \ {m_events[m_event_num]}
            /\ UNCHANGED <<sock, request>>
        BY <1>10 DEF PopClient
      <3>4. sock[m_events[m_event_num]] # NoConn
        BY <1>10, <3>1, PopTakesOne DEF PopClient, Registration
      <3>5. \A v \in Workers : v # w => pc[v] \notin {"wait", "pop"}
        BY <1>10 DEF PopClient, MutexDiscipline
      <3> QED
        BY <3>1, <3>2, <3>3, <3>4, <3>5 DEF TypeOK, ThreadState
    <2>4. Registration'
      BY <1>10 DEF PopClient, Registration
    <2>5. EventsAreLive'
      BY <1>10 DEF PopClient, TypeOK, EventsAreLive, MutexDiscipline
    <2>6. OwnedOnce'
      BY <1>10 DEF PopClient, OwnedOnce, ThreadState, EventsAreLive
    <2>7. NoLostRequest'
      <3>1. ASSUME NEW f \in Fds, f \in Pending
            PROVE  f \in Pending' \/ Owns(w, f)'
        BY <1>10, <3>1, PopTakesOne DEF PopClient, TypeOK, Owns
      <3>2. \A v \in Workers : fd[v] # NoFd => v # w /\ fd'[v] = fd[v]
        BY <1>10 DEF PopClient, ThreadState
      <3> QED
        BY <1>10, <3>1, <3>2, PopTakesOne
        DEF PopClient, NoLostRequest, TypeOK, Owns
    <2> QED
      BY <2>1, <2>2, <2>3, <2>4, <2>5, <2>6, <2>7 DEF Inv
  <1>11. ASSUME NEW w \in Workers, Accept(w) PROVE Inv'
    <2>1. TypeOK'
      BY <1>11 DEF Accept, TypeOK
    <2>2. MutexDiscipline'
      BY <1>11 DEF Accept, MutexDiscipline
    <2>3. ThreadState'
      BY <1>11 DEF Accept, ThreadState
    <2>4. Registration'
      BY <1>11 DEF Accept, TypeOK, Registration
    <2>5. EventsAreLive'
      BY <1>11 DEF Accept, EventsAreLive
    <2>6. OwnedOnce'
      BY <1>11 DEF Accept, OwnedOnce
    <2>7. NoLostRequest'
      <3>1. Pending' = Pending
        BY <1>11 DEF Accept, Pending
      <3> QED
        BY <1>11, <3>1 DEF Accept, NoLostRequest, Registration, Owns
    <2> QED
      BY <2>1, <2>2, <2>3, <2>4, <2>5, <2>6, <2>7 DEF Inv
  <1>12. ASSUME NEW w \in Workers, AcceptFails(w) PROVE Inv'
    <2>1. TypeOK'
      BY <1>12 DEF AcceptFails, TypeOK
    <2>2. MutexDiscipline'
      BY <1>12 DEF AcceptFails, TypeOK, MutexDiscipline
    <2>3. ThreadState'
      BY <1>12 DEF AcceptFails, ThreadState
    <2>4. Registration' /\ EventsAreLive' /\ OwnedOnce'
      BY <1>12 DEF AcceptFails, Registration, EventsAreLive, OwnedOnce
    <2>5. NoLostRequest'
      BY <1>12, RequestsKept DEF AcceptFails, Pending
    <2> QED
      BY <2>1, <2>2, <2>3, <2>4, <2>5 DEF Inv
  <1>13. ASSUME NEW w \in Workers, AcceptRejects(w) PROVE Inv'
    <2>1. TypeOK'
      BY <1>13 DEF AcceptRejects, TypeOK
    <2>2. MutexDiscipline'
      BY <1>13 DEF AcceptRejects, TypeOK, MutexDiscipline
    <2>3. ThreadState'
      BY <1>13 DEF AcceptRejects, ThreadState
    <2>4. Registration' /\ EventsAreLive' /\ OwnedOnce'
      BY <1>13 DEF AcceptRejects, Registration, EventsAreLive, OwnedOnce
    <2>5. NoLostRequest'
      BY <1>13, RequestsKept DEF AcceptRejects, Pending
    <2> QED
      BY <2>1, <2>2, <2>3, <2>4, <2>5 DEF Inv
  <1>14. ASSUME NEW w \in Workers, HandleRequest(w) PROVE Inv'
    <2>1. TypeOK'
      BY <1>14 DEF HandleRequest, TypeOK, ThreadState
    <2>2. MutexDiscipline'
      BY <1>14 DEF HandleRequest, MutexDiscipline
    <2>3. ThreadState'
      BY <1>14 DEF HandleRequest, TypeOK, ThreadState
    <2>4. Registration' /\ EventsAreLive' /\ OwnedOnce'
      BY <1>14 DEF HandleRequest, Registration, EventsAreLive, OwnedOnce
    <2>5. NoLostRequest'
      BY <1>14, RequestsKept DEF HandleRequest, Pending
    <2> QED
      BY <2>1, <2>2, <2>3, <2>4, <2>5 DEF Inv
  <1>15. ASSUME NEW w \in Workers, SendReply(w) PROVE Inv'
    <2>1. TypeOK'
      BY <1>15 DEF SendReply, TypeOK, ThreadState
    <2>2. MutexDiscipline'
      BY <1>15 DEF SendReply, MutexDiscipline
    <2>3. ThreadState'
      BY <1>15 DEF SendReply, ThreadState
    <2>4. Registration' /\ EventsAreLive' /\ OwnedOnce'
      BY <1>15 DEF SendReply, Registration, EventsAreLive, OwnedOnce
    <2>5. NoLostRequest'
      BY <1>15, RequestsKept DEF SendReply, Pending
    <2> QED
      BY <2>1, <2>2, <2>3, <2>4, <2>5 DEF Inv
  <1>16. ASSUME NEW w \in Workers, Close(w) PROVE Inv'
    <2>1. TypeOK'
      BY <1>16 DEF Close, TypeOK
    <2>2. MutexDiscipline'
      BY <1>16 DEF Close, MutexDiscipline
    <2>3. ThreadState'
      BY <1>16 DEF Close, TypeOK, ThreadState, OwnedOnce
    <2>4. Registration'
      BY <1>16 DEF Close, Registration, ThreadState
    <2>5. EventsAreLive'
      BY <1>16 DEF Close, EventsAreLive, ThreadState
    <2>6. OwnedOnce'
      BY <1>16 DEF Close, OwnedOnce
    <2>7. NoLostRequest'
      <3>1. Pending' = Pending
        BY <1>16 DEF Close, Pending
      <3> QED
        BY <1>16, <3>1 DEF Close, NoLostRequest, TypeOK, Owns
    <2> QED
      BY <2>1, <2>2, <2>3, <2>4, <2>5, <2>6, <2>7 DEF Inv
  <1>17. ASSUME NEW c \in Conns, Connect(c) PROVE Inv'
    <2>1. TypeOK'
      BY <1>17 DEF Connect, TypeOK
    <2>2. MutexDiscipline' /\ ThreadState' /\ Registration' /\ EventsAreLive' /\ OwnedOnce'
      BY <1>17 DEF Connect, MutexDiscipline, ThreadState, EventsAreLive, OwnedOnce, Registration
    <2>3. NoLostRequest'
      BY <1>17, RequestsKept DEF Connect, Pending
    <2> QED
      BY <2>1, <2>2, <2>3 DEF Inv
  <1>18. ASSUME NEW c \in Conns, Arrive(c) PROVE Inv'
    <2>1. TypeOK'
      BY <1>18 DEF Arrive, TypeOK
    <2>2. MutexDiscipline' /\ ThreadState' /\ Registration' /\ EventsAreLive' /\ OwnedOnce'
      BY <1>18 DEF Arrive, MutexDiscipline, ThreadState, EventsAreLive, OwnedOnce, Registration
    <2>3. NoLostRequest'
      <3>1. Pending' = Pending
        BY <1>18 DEF Arrive, Pending
      <3> QED
        BY <1>18, <3>1 DEF Arrive, NoLostRequest, Owns
    <2> QED
      BY <2>1, <2>2, <2>3 DEF Inv
  <1>19. ASSUME UNCHANGED vars PROVE Inv'
    <2>1. NoLostRequest'
      BY <1>19, RequestsKept DEF vars, Pending
    <2>2. TypeOK' /\ MutexDiscipline' /\ ThreadState' /\ Registration'
      BY <1>19 DEF vars, TypeOK, MutexDiscipline, ThreadState, Registration
    <2>3. EventsAreLive' /\ OwnedOnce'
      BY <1>19 DEF vars, EventsAreLive, OwnedOnce
    <2> QED
      BY <2>1, <2>2, <2>3
  <1> QED
    BY <1>1, <1>2, <1>3, <1>4, <1>5, <1>6, <1>7, <1>8, <1>9, <1>10, <1>11,
       <1>12, <1>13, <1>14, <1>15, <1>16, <1>17, <1>18, <1>19 DEF Next, Run

(* The invariant holds of every behaviour.                                 *)
THEOREM Invariance == Spec => []Inv
  <1> QED
    BY InitInv, NextInv, PTL DEF Spec

(* No step of a thread, a client or the kernel takes a variable out of its *)
(* type: in particular the event count stays within the array and a thread *)
(* only ever serves a descriptor of an accepted socket.                    *)
THEOREM TypeCorrect == Spec => []TypeOK
  <1>1. Inv => TypeOK
    BY DEF Inv
  <1> QED
    BY <1>1, Invariance, PTL

(* The mutex is held exactly between lock and unlock, on every path.       *)
THEOREM MutexRespected == Spec => []MutexDiscipline
  <1>1. Inv => MutexDiscipline
    BY DEF Inv
  <1> QED
    BY <1>1, Invariance, PTL

(* The shared event array holds no stale and no duplicate event, and no    *)
(* thread pops outside it.                                                 *)
THEOREM NoStaleEvents == Spec => []EventsAreLive
  <1>1. Inv => EventsAreLive
    BY DEF Inv
  <1> QED
    BY <1>1, Invariance, PTL

(* A descriptor is served by at most one thread, and nobody is told of it  *)
(* while it is.                                                            *)
THEOREM OwnershipIsExclusive == Spec => []ExclusiveOwnership
  <1>1. Inv => ExclusiveOwnership
    <2> SUFFICES ASSUME Inv, NEW w \in Workers, NEW f \in Fds, Owns(w, f)
                 PROVE  /\ sock[f] # NoConn
                        /\ f \notin interest \cup ready \cup Pending
                        /\ \A v \in Workers : Owns(v, f) => v = w
      BY DEF ExclusiveOwnership
    <2>1. sock[f] # NoConn /\ f \notin interest
      BY DEF Inv, ThreadState, Owns
    <2>2. ready \cup Pending \subseteq interest
      BY DEF Inv, Registration, EventsAreLive, Pending
    <2>3. \A v \in Workers : Owns(v, f) => v = w
      BY DEF Inv, OwnedOnce, Owns
    <2> QED
      BY <2>1, <2>2, <2>3
  <1> QED
    BY <1>1, Invariance, PTL

(* A reply goes to the connection its request was read from.               *)
THEOREM RepliesReachRequesters == Spec => []ReplyToRequester
  <1>1. Inv => ReplyToRequester
    BY DEF Inv, ThreadState, ReplyToRequester
  <1> QED
    BY <1>1, Invariance, PTL

(* Unless epoll_ctl fails, an accepted connection is never forgotten.      *)
THEOREM RequestsAreKept == Spec => []NoLostRequest
  <1>1. Inv => NoLostRequest
    BY DEF Inv
  <1> QED
    BY <1>1, Invariance, PTL

-----------------------------------------------------------------------------
(* The accept queue.                                                       *)

(* A step under which the listening socket's event, if there was one,      *)
(* stays on its way or brings a thread into the accept loop.               *)
LEMMA QueueStaysAttended ==
  ASSUME Inv, [Next]_vars, QueueAttended,
         ~ \A f \in Fds : sock[f] # NoConn,
         ~ \E w \in Workers : AcceptRejects(w),
         ListenFd \in interest
  PROVE  QueueAttended'
  <1> USE ConstantsAssumption
  <1> USE DEF Inv, TypeOK, Goto, Unlock, server, threads, kernel, clients,
              AllFds, QueueAttended
  <1>1. ASSUME NEW w \in Workers, Spawn(w) PROVE QueueAttended'
    BY <1>1 DEF Spawn, Accepting, Pending
  <1>2. ASSUME SpawnFails PROVE QueueAttended'
    BY <1>2 DEF SpawnFails, Accepting, Pending
  <1>3. ASSUME Stop PROVE QueueAttended'
    BY <1>3 DEF Stop, Accepting, Pending
  <1>4. ASSUME NEW w \in Workers, Check(w) PROVE QueueAttended'
    BY <1>4 DEF Check, Accepting, Pending
  <1>5. ASSUME NEW w \in Workers, Lock(w) PROVE QueueAttended'
    BY <1>5 DEF Lock, Accepting, Pending
  <1>6. ASSUME NEW w \in Workers, EpollWait(w) PROVE QueueAttended'
    <2>1. backlog # <<>> => ~ \E v \in Workers : Accepting(v)
      BY <1>6 DEF EpollWait, Accepting, MutexDiscipline, Locked
    <2> QED
      BY <1>6, <2>1, RefillSplitsEdges DEF EpollWait, Reportable
  <1>7. ASSUME NEW w \in Workers, EpollInterrupted(w) PROVE QueueAttended'
    <2>1. Pending = {}
      BY <1>7 DEF EpollInterrupted, ThreadState, Pending
    <2> QED
      BY <1>7, <2>1 DEF EpollInterrupted, Accepting
  <1>8. ASSUME NEW w \in Workers, PopNothing(w) PROVE QueueAttended'
    <2>1. Pending = {}
      BY <1>8 DEF PopNothing, Pending
    <2> QED
      BY <1>8, <2>1 DEF PopNothing, Accepting
  <1>9. ASSUME NEW w \in Workers, PopListen(w) PROVE QueueAttended'
    BY <1>9 DEF PopListen, Accepting
  <1>10. ASSUME NEW w \in Workers, PopClient(w) PROVE QueueAttended'
    BY <1>10, PopTakesOne DEF PopClient, Accepting
  <1>11. ASSUME NEW w \in Workers, Accept(w) PROVE QueueAttended'
    BY <1>11 DEF Accept, Accepting
  <1>12. ASSUME NEW w \in Workers, AcceptFails(w) PROVE QueueAttended'
    BY <1>12 DEF AcceptFails
  <1>13. ASSUME NEW w \in Workers, HandleRequest(w) PROVE QueueAttended'
    BY <1>13 DEF HandleRequest, Accepting, Pending
  <1>14. ASSUME NEW w \in Workers, SendReply(w) PROVE QueueAttended'
    BY <1>14 DEF SendReply, Accepting, Pending
  <1>15. ASSUME NEW w \in Workers, Close(w) PROVE QueueAttended'
    BY <1>15 DEF Close, Accepting, Pending
  <1>16. ASSUME NEW c \in Conns, Connect(c) PROVE QueueAttended'
    BY <1>16 DEF Connect
  <1>17. ASSUME NEW c \in Conns, Arrive(c) PROVE QueueAttended'
    BY <1>17 DEF Arrive, Accepting, Pending
  <1>18. ASSUME UNCHANGED vars PROVE QueueAttended'
    BY <1>18 DEF vars, Accepting, Pending
  <1> QED
    BY <1>1, <1>2, <1>3, <1>4, <1>5, <1>6, <1>7, <1>8, <1>9, <1>10, <1>11,
       <1>12, <1>13, <1>14, <1>15, <1>16, <1>17, <1>18 DEF Next, Run

(* Nothing takes the listening socket out of epoll.                        *)
LEMMA ListenerStays ==
  ASSUME Inv, [Next]_vars, ListenFd \in interest
  PROVE  ListenFd \in interest'
  <1> USE ConstantsAssumption
  <1> USE DEF server, threads, kernel, clients
  <1>1. ASSUME NEW w \in Workers, PopClient(w) PROVE ListenFd \in interest'
    BY <1>1 DEF PopClient
  <1>2. ASSUME NEW w \in Workers, Accept(w) PROVE ListenFd \in interest'
    BY <1>2 DEF Accept
  <1>3. ASSUME NEW w \in Workers, Close(w) PROVE ListenFd \in interest'
    <2>1. fd[w] # ListenFd
      BY DEF Inv, TypeOK, AllFds
    <2>2. QED
      BY <1>3, <2>1 DEF Close
  <1>4. CASE interest' = interest
    BY <1>4
  <1>5. QED
    BY <1>1, <1>2, <1>3, <1>4
    DEF Next, vars, Run, Spawn, SpawnFails, Stop, Check, Lock, EpollWait,
        EpollInterrupted, PopNothing, PopListen, AcceptFails, AcceptRejects,
        HandleRequest, SendReply, Connect, Arrive

(* Only running out of descriptors, the uninitialized addr_len, or a       *)
(* listening socket that Start() never registered strands queued           *)
(* connections; one that is registered stays so.                           *)
THEOREM OnlyExhaustionStrands == Spec => StrandsOnlyWhenExhausted
  <1>1. Inv /\ [Next]_vars =>
          [ /\ ListenFd \in interest => ListenFd \in interest'
            /\ QueueAttended /\ ~QueueAttended' =>
                 \/ \A f \in Fds : sock[f] # NoConn
                 \/ \E w \in Workers : AcceptRejects(w)
                 \/ "ENOMEM" \in Faults /\ ListenFd \notin interest ]_vars
    BY QueueStaysAttended, ListenerStays DEF Inv, Registration
  <1> QED
    BY <1>1, Invariance, PTL DEF Spec, StrandsOnlyWhenExhausted

-----------------------------------------------------------------------------
(* Where connections are: in the queue or behind one descriptor, and       *)
(* connected in both places.                                               *)

Queued ==
  \A i \in 1..Len(backlog) :
    /\ client[backlog[i]] = "connected"
    /\ \A f \in Fds : sock[f] # backlog[i]
    /\ \A j \in 1..Len(backlog) : backlog[i] = backlog[j] => i = j

Open ==
  \A f \in Fds : sock[f] # NoConn =>
    /\ client[sock[f]] = "connected"
    /\ \A g \in Fds : sock[f] = sock[g] => f = g

ConnInv == Queued /\ Open

(* The owner that the mapping gives a connection is the thread that serves *)
(* it.                                                                     *)
OwnerFacts ==
  \A c \in Conns :
    /\ OwnerOf(c) \in Workers \cup {NoWorker}
    /\ \A w \in Workers : OwnerOf(c) = w <=> Serves(w, c)

-----------------------------------------------------------------------------
LEMMA InitConn == Init => ConnInv
  BY DEF Init, ConnInv, Queued, Open

LEMMA NextConn == Inv /\ ConnInv /\ [Next]_vars => ConnInv'
  <1> SUFFICES ASSUME Inv, ConnInv, [Next]_vars PROVE ConnInv'
    OBVIOUS
  <1> USE ConstantsAssumption
  <1> USE DEF Inv, TypeOK, ConnInv
  <1>1. CASE UNCHANGED <<backlog, sock, client>>
    BY <1>1 DEF Queued, Open
  <1>2. ASSUME NEW c \in Conns, Connect(c) PROVE ConnInv'
    <2>1. /\ client[c] = "new" /\ client' = [client EXCEPT ![c] = "connected"]
          /\ backlog' = Append(backlog, c) /\ sock' = sock
      BY <1>2 DEF Connect, kernel
    <2>2. /\ \A i \in 1..Len(backlog) : backlog[i] # c
          /\ \A f \in Fds : sock[f] # c
      <3>1. client[c] # "connected" /\ c # NoConn
        BY <2>1
      <3>2. QED
        BY <3>1 DEF Queued, Open
    <2>3. Queued'
      <3> SUFFICES ASSUME NEW i \in 1..Len(backlog')
                   PROVE  /\ client'[backlog'[i]] = "connected"
                          /\ \A f \in Fds : sock'[f] # backlog'[i]
                          /\ \A j \in 1..Len(backlog') :
                               backlog'[i] = backlog'[j] => i = j
        BY DEF Queued
      <3>1. Len(backlog') = Len(backlog) + 1 /\ backlog'[Len(backlog) + 1] = c
        BY <2>1
      <3>2. \A j \in 1..Len(backlog) : backlog'[j] = backlog[j] /\ backlog[j] \in Conns
        BY <2>1
      <3>3. QED
        BY <2>1, <2>2, <3>1, <3>2 DEF Queued
    <2>4. Open'
      BY <2>1, <2>2 DEF Open
    <2>5. QED
      BY <2>3, <2>4
  <1>3. ASSUME NEW w \in Workers, Accept(w) \/ AcceptRejects(w) PROVE ConnInv'
    <2> DEFINE c == Head(backlog)
    <2>1. backlog # <<>> /\ backlog' = Tail(backlog)
      BY <1>3 DEF Accept, AcceptRejects
    <2>2. /\ Len(backlog) > 0 /\ c = backlog[1] /\ c \in Conns
          /\ Len(backlog') = Len(backlog) - 1
          /\ \A i \in 1..Len(backlog') :
               i + 1 \in 1..Len(backlog) /\ backlog'[i] = backlog[i + 1]
      BY <2>1
    <2>3. /\ \A f \in Fds : sock[f] # c
          /\ client[c] = "connected"
          /\ \A i \in 1..Len(backlog') : backlog'[i] # c
      BY <2>2 DEF Queued
    <2> HIDE DEF c
    <2>4. CASE Accept(w)
      <3>1. PICK f \in Fds : sock[f] = NoConn /\ sock' = [sock EXCEPT ![f] = c]
        BY <2>4 DEF Accept, c
      <3>2. client' = client
        BY <2>4 DEF Accept, clients
      <3>3. Queued'
        <4>1. \A g \in Fds : sock'[g] \in {sock[g], c}
          BY <3>1
        <4>2. ASSUME NEW i \in 1..Len(backlog')
              PROVE  /\ client'[backlog'[i]] = "connected"
                     /\ \A g \in Fds : sock'[g] # backlog'[i]
                     /\ \A j \in 1..Len(backlog') :
                          backlog'[i] = backlog'[j] => i = j
          <5>1. i + 1 \in 1..Len(backlog) /\ backlog'[i] = backlog[i + 1]
            BY <2>2
          <5>2. client'[backlog'[i]] = "connected"
            BY <3>2, <5>1 DEF Queued
          <5>3. \A g \in Fds : sock'[g] # backlog'[i]
            BY <2>3, <4>1, <5>1 DEF Queued
          <5>4. ASSUME NEW j \in 1..Len(backlog'), backlog'[i] = backlog'[j]
                PROVE  i = j
            <6>1. j + 1 \in 1..Len(backlog) /\ backlog'[j] = backlog[j + 1]
              BY <2>2
            <6>2. i + 1 = j + 1
              BY <5>1, <5>4, <6>1 DEF Queued
            <6>3. QED
              BY <6>2
          <5>5. QED
            BY <5>2, <5>3, <5>4
        <4>3. QED
          BY <4>2 DEF Queued
      <3>4. Open'
        BY <2>2, <2>3, <3>1, <3>2 DEF Open
      <3>5. QED
        BY <3>3, <3>4
    <2>5. CASE AcceptRejects(w)
      <3>1. client' = [client EXCEPT ![c] = "closed"] /\ sock' = sock
        BY <2>5 DEF AcceptRejects, c
      <3>2. Queued'
        <4>1. ASSUME NEW i \in 1..Len(backlog')
              PROVE  /\ client'[backlog'[i]] = "connected"
                     /\ \A g \in Fds : sock'[g] # backlog'[i]
                     /\ \A j \in 1..Len(backlog') :
                          backlog'[i] = backlog'[j] => i = j
          <5>1. i + 1 \in 1..Len(backlog) /\ backlog'[i] = backlog[i + 1]
            BY <2>2
          <5>2. client'[backlog'[i]] = "connected"
            BY <2>3, <3>1, <5>1 DEF Queued
          <5>3. \A g \in Fds : sock'[g] # backlog'[i]
            BY <3>1, <5>1 DEF Queued
          <5>4. ASSUME NEW j \in 1..Len(backlog'), backlog'[i] = backlog'[j]
                PROVE  i = j
            <6>1. j + 1 \in 1..Len(backlog) /\ backlog'[j] = backlog[j + 1]
              BY <2>2
            <6>2. i + 1 = j + 1
              BY <5>1, <5>4, <6>1 DEF Queued
            <6>3. QED
              BY <6>2
          <5>5. QED
            BY <5>2, <5>3, <5>4
        <4>2. QED
          BY <4>1 DEF Queued
      <3>3. Open'
        BY <2>2, <2>3, <3>1 DEF Open
      <3>4. QED
        BY <3>2, <3>3
    <2>6. QED
      BY <1>3, <2>4, <2>5
  <1>4. ASSUME NEW w \in Workers, Close(w) PROVE ConnInv'
    <2> DEFINE f == fd[w]
    <2>1. /\ f \in Fds /\ sock[f] \in Conns
          /\ client' = [client EXCEPT ![sock[f]] = "closed"]
          /\ sock' = [sock EXCEPT ![f] = NoConn] /\ backlog' = backlog
      BY <1>4 DEF Close, ThreadState, InFlight
    <2> HIDE DEF f
    <2>2. Queued'
      <3>1. ASSUME NEW i \in 1..Len(backlog)
            PROVE  /\ backlog[i] \in Conns /\ client[backlog[i]] = "connected"
                   /\ backlog[i] # sock[f] /\ backlog[i] # NoConn
                   /\ \A g \in Fds : sock[g] # backlog[i]
        BY <2>1 DEF Queued
      <3>2. ASSUME NEW i \in 1..Len(backlog)
            PROVE  /\ client'[backlog[i]] = "connected"
                   /\ \A g \in Fds : sock'[g] # backlog[i]
        BY <2>1, <3>1
      <3>3. QED
        BY <2>1, <3>2 DEF Queued
    <2>3. Open'
      BY <2>1 DEF Open
    <2>4. QED
      BY <2>2, <2>3
  <1>5. QED
    <2>1. ASSUME NEW w \in Workers, Run(w) \/ Spawn(w) \/ EpollInterrupted(w)
          PROVE  ConnInv'
      BY <1>1, <1>3, <1>4, <2>1
      DEF Run, Spawn, EpollInterrupted, Check, Lock, EpollWait, PopNothing,
          PopListen, PopClient, AcceptFails, HandleRequest, SendReply,
          kernel, clients
    <2>2. CASE SpawnFails \/ Stop
      BY <1>1, <2>2 DEF SpawnFails, Stop, kernel, clients
    <2>3. ASSUME NEW c \in Conns, Arrive(c) PROVE ConnInv'
      BY <1>1, <2>3 DEF Arrive
    <2>4. CASE UNCHANGED vars
      BY <1>1, <2>4 DEF vars, kernel, clients
    <2>5. QED
      BY <1>2, <2>1, <2>2, <2>3, <2>4 DEF Next

(* No two threads serve one connection.                                    *)
LEMMA OwnersKnown == Inv /\ ConnInv => OwnerFacts
  <1> SUFFICES ASSUME Inv, ConnInv, NEW c \in Conns
               PROVE  /\ OwnerOf(c) \in Workers \cup {NoWorker}
                      /\ \A w \in Workers : OwnerOf(c) = w <=> Serves(w, c)
    BY DEF OwnerFacts
  <1>1. ASSUME NEW v \in Workers, NEW w \in Workers, Serves(v, c), Serves(w, c)
        PROVE  v = w
    <2>1. /\ fd[v] \in Fds /\ fd[w] \in Fds /\ sock[fd[v]] = sock[fd[w]]
          /\ sock[fd[v]] # NoConn
      BY <1>1, ConstantsAssumption DEF Serves, Inv, TypeOK
    <2>2. fd[v] = fd[w]
      BY <2>1 DEF ConnInv, Open
    <2>3. QED
      BY <1>1, <2>2 DEF Serves, Inv, OwnedOnce
  <1>2. CASE \E w \in Workers : Serves(w, c)
    BY <1>1, <1>2 DEF OwnerOf
  <1>3. CASE ~\E w \in Workers : Serves(w, c)
    BY <1>3, ConstantsAssumption DEF OwnerOf
  <1>4. QED
    BY <1>2, <1>3

-----------------------------------------------------------------------------
(* One step.                                                               *)

phase == [c \in Conns |-> PhaseOf(c)]
owner == [c \in Conns |-> OwnerOf(c)]
armed == IF m_running THEN Workers
         ELSE {w \in Workers : pc[w] \in Locked \cup {"lock"}}

(* A connection keeps its owner with the threads that serve it.            *)
LEMMA OwnerStays ==
  ASSUME OwnerFacts, OwnerFacts', NEW c \in Conns,
         \A w \in Workers : Serves(w, c)' = Serves(w, c)
  PROVE  OwnerOf(c)' = OwnerOf(c)
  BY ConstantsAssumption DEF OwnerFacts

(* Most steps change neither sockets that are served nor connections.      *)
LEMMA Quiet ==
  ASSUME OwnerFacts, OwnerFacts', client' = client,
         \A w \in Workers :
           /\ fd'[w] = fd[w]
           /\ fd[w] # NoFd => sock'[fd[w]] = sock[fd[w]]
           /\ pc'[w] = "close" <=> pc[w] = "close"
  PROVE  UNCHANGED <<phase, owner>>
  <1>1. ASSUME NEW c \in Conns
        PROVE  OwnerOf(c)' = OwnerOf(c) /\ PhaseOf(c)' = PhaseOf(c)
    <2>1. OwnerOf(c)' = OwnerOf(c)
      BY OwnerStays DEF Serves
    <2>2. OwnerOf(c) # NoWorker => OwnerOf(c) \in Workers
      BY DEF OwnerFacts
    <2>3. QED
      BY <2>1, <2>2 DEF PhaseOf
  <1>2. QED
    BY <1>1 DEF phase, owner

(* A thread that leaves the critical section without a connection gives up *)
(* its last claim; no other one without a connection arms.                 *)
LEMMA Rest ==
  ASSUME UNCHANGED <<phase, owner, replies, m_running>>, NEW w \in Workers,
         \A v \in Workers : v # w => pc'[v] = pc[v],
         \/ pc[w] \in Locked \cup {"lock"}
         \/ pc'[w] \notin Locked \cup {"lock"}
         \/ m_running
  PROVE  [Service!Next]_(Service!vars)
  <1>1. armed' = armed \/ (~m_running /\ armed' = armed \ {w})
    BY DEF armed
  <1>2. CASE armed' = armed
    BY <1>2 DEF Service!vars, Service!connections, phase, owner, armed
  <1>3. CASE ~m_running /\ armed' = armed \ {w}
    <2>1. Service!Retire(w)
      BY <1>3 DEF Service!Retire, Service!connections, phase, owner, armed
    <2>2. QED
      BY <2>1 DEF Service!Next
  <1>4. QED
    BY <1>1, <1>2, <1>3

LEMMA InitImplements == Init => Service!Init
  <1> SUFFICES ASSUME Init PROVE Service!Init
    OBVIOUS
  <1>1. \A c \in Conns : OwnerOf(c) = NoWorker /\ PhaseOf(c) = "new"
    BY DEF Init, OwnerOf, Serves, PhaseOf
  <1>2. QED
    BY <1>1 DEF Init, Service!Init

(* The thread w serves c; the other connections keep their owners.         *)
LEMMA ClaimStep ==
  ASSUME Inv, ConnInv, OwnerFacts, OwnerFacts',
         NEW w \in Workers, PopClient(w)
  PROVE  Service!Next
  <1> USE ConstantsAssumption
  <1>f. PICK f \in Fds : f = m_events[m_event_num] /\ f \in interest
    BY PopTakesOne DEF PopClient, Inv, TypeOK, AllFds
  <1>c. PICK c \in Conns : c = sock[f]
    BY <1>f DEF Inv, TypeOK, Registration
  <1>1. fd[w] = NoFd /\ pc[w] = "pop" /\ sock[f] = c /\ f \in interest
    BY <1>f, <1>c DEF PopClient, Inv, TypeOK, ThreadState, InFlight
  <1>2. /\ fd' = [fd EXCEPT ![w] = f] /\ pc' = [pc EXCEPT ![w] = "handle"]
        /\ UNCHANGED <<m_running, sock, client, replies>>
    BY <1>f DEF PopClient, Goto, clients
  <1>3. \A v \in Workers : ~Serves(v, c)
    BY <1>1 DEF Serves, Inv, TypeOK, ThreadState, ConnInv, Open
  <1>4. /\ client[c] = "connected" /\ OwnerOf(c) = NoWorker
        /\ OwnerOf(c)' = w
    <2>1. Serves(w, c)'
      BY <1>1, <1>2 DEF Serves, Inv, TypeOK
    <2>2. QED
      BY <1>1, <1>3, <2>1 DEF ConnInv, Open, OwnerFacts
  <1>5. \A d \in Conns : OwnerOf(d) # w
    BY <1>1 DEF OwnerFacts, Serves
  <1>6. ASSUME NEW d \in Conns, d # c
        PROVE  OwnerOf(d)' = OwnerOf(d) /\ PhaseOf(d)' = PhaseOf(d)
    <2>1. \A v \in Workers : Serves(v, d)' = Serves(v, d)
      BY <1>1, <1>2, <1>6 DEF Serves, Inv, TypeOK
    <2>2. OwnerOf(d)' = OwnerOf(d)
      BY <2>1, OwnerStays
    <2>3. QED
      BY <1>2, <1>5, <2>2 DEF PhaseOf, Inv, TypeOK, OwnerFacts
  <1>7. PhaseOf(c) = "connected" /\ PhaseOf(c)' = "claimed"
    BY <1>2, <1>4 DEF PhaseOf, Inv, TypeOK
  <1>8. /\ phase' = [phase EXCEPT ![c] = "claimed"] /\ phase[c] = "connected"
        /\ owner' = [owner EXCEPT ![c] = w] /\ \A d \in Conns : owner[d] # w
    BY <1>1, <1>4, <1>5, <1>6, <1>7 DEF phase, owner
  <1>9. w \in armed /\ armed' = IF m_running THEN armed ELSE armed \ {w}
    BY <1>1, <1>2 DEF armed, Locked, Inv, TypeOK
  <1>10. Service!Claim(w, c)
    BY <1>2, <1>8, <1>9
    DEF Service!Claim, Service!Move, phase, owner, armed
  <1>11. QED
    BY <1>1, <1>10 DEF Service!Next

LEMMA AnswerStep ==
  ASSUME Inv, ConnInv, OwnerFacts, OwnerFacts',
         NEW w \in Workers, SendReply(w)
  PROVE  Service!Next
  <1> USE ConstantsAssumption
  <1>c. PICK c \in Conns : c = sock[fd[w]] /\ fd[w] \in Fds
    BY DEF SendReply, Inv, TypeOK, ThreadState, InFlight
  <1>1. pc[w] = "send" /\ Serves(w, c) /\ client[c] = "connected"
    BY <1>c DEF SendReply, Inv, TypeOK, ThreadState, InFlight, Serves, ConnInv, Open
  <1>2. /\ pc' = [pc EXCEPT ![w] = "close"]
        /\ replies' = [replies EXCEPT ![c] = @ + 1]
        /\ UNCHANGED <<m_running, fd, sock, client>>
    BY <1>c DEF SendReply, Goto, server, kernel
  <1>3. \A d \in Conns : OwnerOf(d)' = OwnerOf(d)
    BY <1>2, OwnerStays DEF Serves
  <1>4. OwnerOf(c) = w
    BY <1>1 DEF OwnerFacts
  <1>5. PhaseOf(c) = "claimed" /\ PhaseOf(c)' = "answered"
    BY <1>1, <1>2, <1>3, <1>4 DEF PhaseOf, Inv, TypeOK
  <1>6. ASSUME NEW d \in Conns, d # c PROVE PhaseOf(d)' = PhaseOf(d)
    <2>1. OwnerOf(d) # w
      BY <1>1, <1>6 DEF OwnerFacts, Serves
    <2>2. QED
      BY <1>2, <1>3, <2>1 DEF PhaseOf, Inv, TypeOK, OwnerFacts
  <1>7. /\ phase' = [phase EXCEPT ![c] = "answered"] /\ phase[c] = "claimed"
        /\ owner' = owner /\ owner[c] = w
    BY <1>1, <1>3, <1>4, <1>5, <1>6 DEF phase, owner
  <1>8. armed' = armed
    BY <1>1, <1>2 DEF armed, Locked, Inv, TypeOK
  <1>9. Service!Answer(w, c)
    BY <1>2, <1>7, <1>8 DEF Service!Answer, Service!Move, phase, owner, armed
  <1>10. QED
    BY <1>1, <1>9 DEF Service!Next

LEMMA FinishStep ==
  ASSUME Inv, ConnInv, OwnerFacts, OwnerFacts',
         NEW w \in Workers, Close(w)
  PROVE  Service!Next
  <1> USE ConstantsAssumption
  <1>c. PICK f \in Fds, c \in Conns : f = fd[w] /\ c = sock[f]
    BY DEF Close, Inv, TypeOK, ThreadState, InFlight
  <1>1. pc[w] = "close" /\ Serves(w, c) /\ client[c] = "connected"
    BY <1>c DEF Close, Inv, TypeOK, ThreadState, InFlight, Serves, ConnInv, Open
  <1>2. /\ pc' = [pc EXCEPT ![w] = "check"] /\ fd' = [fd EXCEPT ![w] = NoFd]
        /\ sock' = [sock EXCEPT ![f] = NoConn]
        /\ client' = [client EXCEPT ![c] = "closed"]
        /\ UNCHANGED <<m_running, replies>>
    BY <1>c DEF Close, Goto, server
  <1>3. \A v \in Workers : v # w /\ fd[v] # NoFd => fd[v] # f /\ fd[v] \in Fds
    BY <1>c DEF Inv, TypeOK, OwnedOnce, AllFds
  <1>4. \A v \in Workers : ~Serves(v, c)'
    BY <1>c, <1>2, <1>3 DEF Serves, Inv, TypeOK, ConnInv, Open
  <1>5. OwnerOf(c) = w /\ OwnerOf(c)' = NoWorker
    BY <1>1, <1>4 DEF OwnerFacts
  <1>6. ASSUME NEW d \in Conns, d # c
        PROVE  OwnerOf(d)' = OwnerOf(d) /\ PhaseOf(d)' = PhaseOf(d)
    <2>1. ~Serves(w, d) /\ ~Serves(w, d)'
      BY <1>c, <1>2, <1>6 DEF Serves, Inv, TypeOK
    <2>2. \A v \in Workers : v # w => Serves(v, d)' = Serves(v, d)
      BY <1>1, <1>2, <1>3 DEF Serves, Inv, TypeOK
    <2>3. OwnerOf(d)' = OwnerOf(d) /\ OwnerOf(d) # w
      BY <2>1, <2>2, OwnerStays DEF OwnerFacts
    <2>4. QED
      BY <1>2, <1>6, <2>3 DEF PhaseOf, Inv, TypeOK, OwnerFacts
  <1>7. PhaseOf(c) = "answered" /\ PhaseOf(c)' = "closed"
    BY <1>1, <1>2, <1>5 DEF PhaseOf, Inv, TypeOK
  <1>8. /\ phase' = [phase EXCEPT ![c] = "closed"] /\ phase[c] = "answered"
        /\ owner' = [owner EXCEPT ![c] = NoWorker] /\ owner[c] = w
    BY <1>1, <1>5, <1>6, <1>7 DEF phase, owner
  <1>9. armed' = armed
    BY <1>1, <1>2 DEF armed, Locked, Inv, TypeOK
  <1>10. Service!Finish(w, c)
    BY <1>2, <1>8, <1>9 DEF Service!Finish, Service!Move, phase, owner, armed
  <1>11. QED
    BY <1>1, <1>10 DEF Service!Next

(* The queue's head is nobody's; dropping it costs w its last claim.       *)
LEMMA LoseStep ==
  ASSUME Inv, ConnInv, OwnerFacts, OwnerFacts',
         NEW w \in Workers, AcceptRejects(w)
  PROVE  Service!Next
  <1> USE ConstantsAssumption
  <1>c. PICK c \in Conns : c = Head(backlog) /\ backlog # <<>>
    BY DEF AcceptRejects, Inv, TypeOK
  <1>1. client[c] = "connected" /\ \A f \in Fds : sock[f] # c
    <2>1. Len(backlog) > 0 /\ c = backlog[1]
      BY <1>c DEF Inv, TypeOK
    <2>2. QED
      BY <2>1 DEF ConnInv, Queued
  <1>2. /\ pc' = [pc EXCEPT ![w] = "check"] /\ pc[w] = "accept"
        /\ client' = [client EXCEPT ![c] = "closed"]
        /\ UNCHANGED <<m_running, fd, sock, replies>> /\ "EINVAL" \in Faults
    BY <1>c DEF AcceptRejects, Goto
  <1>3. \A d \in Conns : OwnerOf(d)' = OwnerOf(d)
    BY <1>2, OwnerStays DEF Serves
  <1>4. OwnerOf(c) = NoWorker
    BY <1>1 DEF OwnerFacts, Serves, Inv, TypeOK
  <1>5. PhaseOf(c) = "connected" /\ PhaseOf(c)' = "closed"
    BY <1>1, <1>2, <1>4 DEF PhaseOf, Inv, TypeOK
  <1>6. ASSUME NEW d \in Conns, d # c PROVE PhaseOf(d)' = PhaseOf(d)
    <2>1. OwnerOf(d) # NoWorker => OwnerOf(d) # w
      BY <1>2 DEF OwnerFacts, Serves, Inv, TypeOK, ThreadState, InFlight
    <2>2. QED
      BY <1>2, <1>3, <1>6, <2>1 DEF PhaseOf, Inv, TypeOK, OwnerFacts
  <1>7. /\ phase' = [phase EXCEPT ![c] = "closed"] /\ phase[c] = "connected"
        /\ owner' = owner
    BY <1>1, <1>3, <1>5, <1>6 DEF phase, owner
  <1>8. armed' = armed \/ (~m_running /\ armed' = armed \ {w})
    BY <1>2 DEF armed, Locked, Inv, TypeOK
  <1>9. Service!Lose(c)
    BY <1>2, <1>7, <1>8 DEF Service!Lose, Service!Move, phase, owner, armed
  <1>10. QED
    BY <1>9 DEF Service!Next

LEMMA ConnectStep ==
  ASSUME Inv, ConnInv, OwnerFacts, OwnerFacts', NEW c \in Conns, Connect(c)
  PROVE  Service!Next
  <1> USE ConstantsAssumption
  <1>1. /\ client[c] = "new" /\ client' = [client EXCEPT ![c] = "connected"]
        /\ UNCHANGED <<m_running, pc, fd, sock, replies>>
    BY DEF Connect, server, threads
  <1>2. \A d \in Conns : OwnerOf(d)' = OwnerOf(d)
    BY <1>1, OwnerStays DEF Serves
  <1>3. OwnerOf(c) = NoWorker
    BY <1>1 DEF OwnerFacts, Serves, Inv, TypeOK, ConnInv, Open
  <1>4. PhaseOf(c) = "new" /\ PhaseOf(c)' = "connected"
    BY <1>1, <1>2, <1>3 DEF PhaseOf, Inv, TypeOK
  <1>5. \A d \in Conns : d # c => PhaseOf(d)' = PhaseOf(d)
    BY <1>1, <1>2 DEF PhaseOf, Inv, TypeOK
  <1>6. /\ phase' = [phase EXCEPT ![c] = "connected"] /\ phase[c] = "new"
        /\ owner' = owner
    BY <1>1, <1>2, <1>4, <1>5 DEF phase, owner
  <1>7. armed' = armed
    BY <1>1 DEF armed
  <1>8. Service!Connect(c)
    BY <1>1, <1>6, <1>7 DEF Service!Connect, Service!Move, phase, owner, armed
  <1>9. QED
    BY <1>8 DEF Service!Next

LEMMA StopStep ==
  ASSUME OwnerFacts, OwnerFacts', Stop
  PROVE  Service!Next
  <1>1. UNCHANGED <<phase, owner, replies>> /\ m_running /\ m_running' = FALSE
    BY Quiet DEF Stop, threads, kernel, clients
  <1>2. armed = Workers /\ armed' \in SUBSET armed
    BY <1>1 DEF armed
  <1>3. Service!Stop
    BY <1>1, <1>2 DEF Service!Stop, Service!connections, phase, owner, armed
  <1>4. QED
    BY <1>3 DEF Service!Next

(* The steps of a thread that no client sees.                              *)
LEMMA HiddenStep ==
  ASSUME Inv, OwnerFacts, OwnerFacts', NEW w \in Workers,
         \/ Spawn(w) \/ Check(w) \/ Lock(w) \/ EpollWait(w)
         \/ EpollInterrupted(w) \/ PopNothing(w) \/ PopListen(w)
         \/ Accept(w) \/ AcceptFails(w) \/ HandleRequest(w)
  PROVE  [Service!Next]_(Service!vars)
  <1> USE ConstantsAssumption
  <1> USE DEF Spawn, Check, Lock, EpollWait, EpollInterrupted, PopNothing,
              PopListen, Accept, AcceptFails, HandleRequest, Accepting, Goto,
              server, kernel, clients
  <1>1. UNCHANGED <<client, replies, m_running, fd>>
    OBVIOUS
  <1>2. \A v \in Workers : v # w => pc'[v] = pc[v]
    BY DEF Inv, TypeOK
  <1>3. /\ pc[w] # "close" /\ pc'[w] # "close"
        /\ \/ pc[w] \in Locked \cup {"lock"}
           \/ pc'[w] \notin Locked \cup {"lock"}
           \/ m_running
    BY DEF Inv, TypeOK, Locked
  <1>4. \A v \in Workers : fd[v] # NoFd => sock'[fd[v]] = sock[fd[v]]
    <2>1. CASE sock' = sock
      BY <2>1
    <2>2. CASE Accept(w)
      <3>1. PICK f \in Fds : /\ sock[f] = NoConn
                             /\ sock' = [sock EXCEPT ![f] = Head(backlog)]
        BY <2>2
      <3>2. QED
        BY <3>1 DEF Inv, TypeOK, ThreadState
    <2>3. QED
      BY <2>1, <2>2
  <1>5. UNCHANGED <<phase, owner>>
    BY <1>1, <1>2, <1>3, <1>4, Quiet
  <1>6. QED
    BY <1>1, <1>2, <1>3, <1>5, Rest

LEMMA StepImplements ==
  ASSUME Inv, ConnInv, OwnerFacts, OwnerFacts', [Next]_vars
  PROVE  [Service!Next]_(Service!vars)
  <1>1. ASSUME NEW w \in Workers, Run(w) \/ Spawn(w) \/ EpollInterrupted(w)
        PROVE  [Service!Next]_(Service!vars)
    BY <1>1, ClaimStep, AnswerStep, FinishStep, LoseStep, HiddenStep DEF Run
  <1>2. ASSUME NEW c \in Conns, Connect(c)
        PROVE  [Service!Next]_(Service!vars)
    BY <1>2, ConnectStep
  <1>3. CASE Stop
    BY <1>3, StopStep
  <1>4. CASE SpawnFails \/ (\E c \in Conns : Arrive(c)) \/ UNCHANGED vars
    <2>1. UNCHANGED <<client, sock, fd, pc, replies, m_running>>
      BY <1>4 DEF SpawnFails, Arrive, vars, server, threads, kernel, clients
    <2>2. UNCHANGED <<phase, owner, armed>>
      BY <2>1, Quiet DEF armed
    <2>3. QED
      BY <2>1, <2>2 DEF Service!vars, Service!connections, phase, owner, armed
  <1>5. QED
    BY <1>1, <1>2, <1>3, <1>4 DEF Next

(* Every behaviour of the pool of threads is one of ConnectionService: the *)
(* threads of Run() claim each connection at most once, answer it once and *)
(* close it afterwards, and after Stop() each serves at most one more.     *)
THEOREM ServiceImplemented == Spec => ImplementsConnectionService
  <1>1. Inv /\ ConnInv /\ [Next]_vars => ConnInv' /\ Inv'
    BY NextConn, NextInv
  <1>2. Inv /\ ConnInv /\ Inv' /\ ConnInv' /\ [Next]_vars
          => [Service!Next]_(Service!vars)
    <2>1. Inv' /\ ConnInv' => OwnerFacts'
      BY OwnersKnown, PTL
    <2>2. QED
      BY <2>1, OwnersKnown, StepImplements
  <1>3. QED
    BY <1>1, <1>2, InitInv, InitConn, InitImplements, PTL
    DEF Spec, ImplementsConnectionService, Service!Spec
=============================================================================
