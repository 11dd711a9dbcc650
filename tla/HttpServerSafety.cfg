\* Two threads, three clients, two descriptors (so that accept can run out),
\* an event array of two, and every fault.
SPECIFICATION Spec
CONSTANTS
  Workers = {w1, w2}
  Conns = {c1, c2, c3}
  Fds = {f1, f2}
  ListenFd = lfd
  NoFd = nofd
  NoConn = noconn
  NoWorker = noworker
  MaxEvents = 2
  Faults = {"EINTR", "EINVAL", "ENOMEM", "EAGAIN"}
SYMMETRY Symmetry
INVARIANTS
  EventsAreLive
  ExclusiveOwnership
  ReplyToRequester
  NoLostRequest
  Inv
PROPERTIES
  StrandsOnlyWhenExhausted
  ImplementsConnectionService
\* The server stops for good once no client is left.
CHECK_DEADLOCK FALSE
