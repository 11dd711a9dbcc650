\* One connection: what the handler gets, refusals, and time.
SPECIFICATION FairSpec
CONSTANTS
  RequestLine = RequestLine
  ContentLength = ContentLength
  CRLF = CRLF
  NUL = NUL
  Other = Other
  Body = Body
  Symbols <- MCSymbols
  Requests <- MCRequests
  HTTP_READ_BUF_SIZE = 2
  HTTP_READ_TIMEOUT = 2
  HTTP_WRITE_TIMEOUT = 1
  ReplyLength = 2
  SendBuffer = 1
  IntMax = 8
INVARIANTS
  HandlerGetsRequest
  RefusedOnlyForCause
  AbandonedOnlyForCause
  WaitBounded
  Inv
PROPERTIES
  HandlingEnds
\* A thread that is done with its connection has nothing more to do here.
CHECK_DEADLOCK FALSE
