\* As many descriptors as clients, only epoll_wait may fail (be interrupted).
SPECIFICATION FairSpec
CONSTANTS
  Workers = {w1, w2}
  Conns = {c1, c2}
  Fds = {f1, f2}
  ListenFd = lfd
  NoFd = nofd
  NoConn = noconn
  NoWorker = noworker
  MaxEvents = 2
  Faults = {"EINTR"}
PROPERTIES
  RequestsAnswered
  DrainsAfterStop
CHECK_DEADLOCK FALSE
