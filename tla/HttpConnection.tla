---------------------------- MODULE HttpConnection ----------------------------
(***************************************************************************)
(* What one thread does with one connection between taking it out of epoll *)
(* and closing it (http_frame/http_server.cpp): HandleRequest reads the    *)
(* header and the content with a common time budget and calls the handler; *)
(* SendReply writes the reply with a budget of its own.                    *)
(*                                                                         *)
(* A byte stream is a sequence of symbols, among them CRLF and NUL;        *)
(* RequestLine and ContentLength stand for lines of the header.  The       *)
(* length of a request is whatever int atoi finds in its Content-Length    *)
(* line; no client sends more than an int can count.                       *)
(***************************************************************************)
EXTENDS Integers, Sequences

CONSTANTS
  Requests,             (* what clients send: records [stream, length]      *)
  RequestLine,          (* a well-formed first line                         *)
  ContentLength,        (* the Content-Length line, saying request.length   *)
  CRLF, NUL,
  Symbols,              (* all of these, other header lines and content     *)
  HTTP_READ_BUF_SIZE,
  HTTP_READ_TIMEOUT, HTTP_WRITE_TIMEOUT, (* budgets, in ticks               *)
  ReplyLength,          (* length of a reply                                *)
  SendBuffer,           (* SO_SNDBUF                                        *)
  IntMax                (* the largest int                                  *)

ASSUME ConnectionAssumption ==
  /\ HTTP_READ_BUF_SIZE \in Nat \ {0} /\ SendBuffer \in Nat \ {0}
  /\ HTTP_READ_TIMEOUT \in Nat /\ HTTP_WRITE_TIMEOUT \in Nat
  /\ ReplyLength \in Nat \ {0} /\ IntMax \in Nat
  /\ \A r \in Requests :
       /\ r.stream \in Seq(Symbols) /\ Len(r.stream) <= IntMax
       /\ r.length \in -IntMax - 1..IntMax

VARIABLES
  request,    (* what the client sends                                      *)
  arrived,    (* how much of its stream has reached the socket              *)
  closed,     (* the client has closed or reset the connection              *)
  pc,         (* where the thread is                                        *)
  consumed,   (* how much of the stream read() has returned                 *)
  ahead, behind, (* buffer.read_buf                                         *)
  header,     (* what ParseHeader was given                                 *)
  left,       (* content still to be read                                   *)
  timeout,    (* what is left of the time budget                            *)
  waited,     (* history: ticks spent in select                             *)
  status,     (* the reply's status, 0 before there is one                  *)
  written,    (* how much of the reply write() has taken                    *)
  unread      (* how much of that the client has not taken yet              *)

client  == <<request, arrived, closed>>
buffers == <<consumed, ahead, behind, header, left>>
output  == <<written, unread>>
vars    == <<client, pc, buffers, timeout, waited, status, output>>

Least(a, b) == IF a <= b THEN a ELSE b

(* Where the first empty line of s ends, 0 if there is none.               *)
HeaderEnd(s) ==
  LET ends == {k \in 2..Len(s) : s[k - 1] = CRLF /\ s[k] = CRLF}
  IN  IF ends = {} THEN 0 ELSE CHOOSE k \in ends : \A l \in ends : k <= l

Parses(h)    == h[1] = RequestLine
HasLength(h) == \E k \in 1..Len(h) : h[k] = ContentLength

(* "buf[n] = 0; ahead += buf": what read() returned, up to its first NUL.  *)
CString(s) ==
  LET nuls == {k \in 1..Len(s) : s[k] = NUL}
  IN  IF nuls = {} THEN s
      ELSE SubSeq(s, 1, (CHOOSE k \in nuls : \A l \in nuls : k <= l) - 1)

(* What is stored in an int.                                               *)
AsInt(n) == IF n < -IntMax - 1 THEN n + 2 * (IntMax + 1) ELSE n

NeedsHeader  == pc = "header" /\ HeaderEnd(ahead) = 0
NeedsContent == pc = "content" /\ left > 0
Readable     == arrived > consumed
Writable     == unread < SendBuffer
Ended        == pc \in {"done", "terminated"}

-----------------------------------------------------------------------------
Init ==
  /\ request \in Requests /\ arrived = 0 /\ closed = FALSE
  /\ pc = "header" /\ consumed = 0
  /\ ahead = <<>> /\ behind = <<>> /\ header = <<>> /\ left = 0
  /\ timeout = HTTP_READ_TIMEOUT /\ waited = 0
  /\ status = 0 /\ written = 0 /\ unread = 0

(* read() after select(), of at most max.                                  *)
ReadOnce(max, n) ==
  /\ Readable
  /\ n = Least(max, arrived - consumed)
  /\ consumed' = consumed + n
  /\ ahead' = ahead \o CString(SubSeq(request.stream, consumed + 1, consumed + n))

(* Mutant of ReadHeader: each select gets the whole budget.                *)
ReadHeaderAnew ==
  /\ NeedsHeader
  /\ \E n \in 1..HTTP_READ_BUF_SIZE : ReadOnce(HTTP_READ_BUF_SIZE, n)
  /\ timeout' = HTTP_READ_TIMEOUT
  /\ UNCHANGED <<client, pc, behind, header, left, waited, status, output>>

(* ReadHttpHeaderTimeout: no empty line yet, read on.                      *)
ReadHeader ==
  /\ NeedsHeader
  /\ \E n \in 1..HTTP_READ_BUF_SIZE : ReadOnce(HTTP_READ_BUF_SIZE, n)
  /\ UNCHANGED <<client, pc, behind, header, left, timeout, waited, status,
                 output>>

(* The header is complete: the buffer is split behind the empty line.      *)
HeaderPart == SubSeq(ahead, 1, HeaderEnd(ahead))
Rest       == SubSeq(ahead, HeaderEnd(ahead) + 1, Len(ahead))
HeaderRead ==
  /\ pc = "header" /\ HeaderEnd(ahead) # 0
  /\ header' = HeaderPart

(* HandleRequest has a reply: SendReply starts with a new budget.          *)
Reply(code) ==
  /\ status' = code
  /\ pc' = "send"
  /\ timeout' = HTTP_WRITE_TIMEOUT

(* ParseHeader fails.                                                      *)
RejectHeader ==
  /\ HeaderRead /\ ~Parses(HeaderPart)
  /\ ahead' = HeaderPart /\ behind' = Rest
  /\ Reply(400)
  /\ UNCHANGED <<client, consumed, left, waited, output>>

(* No Content-Length line: nothing more is read.                           *)
AcceptHeader ==
  /\ HeaderRead /\ Parses(HeaderPart) /\ ~HasLength(HeaderPart)
  /\ ahead' = HeaderPart /\ behind' = Rest
  /\ pc' = "process"
  /\ UNCHANGED <<client, consumed, left, timeout, waited, status, output>>

(* ReadHttpContentTimeout's "int left = len - behind.length()".            *)
ContentExpected ==
  HeaderRead /\ Parses(HeaderPart) /\ HasLength(HeaderPart)
Left == AsInt(request.length - Len(Rest))

(* Mutant of ContentBuffered: all that follows the header is the content.  *)
ContentBufferedWhole ==
  /\ ContentExpected /\ Left < 0 /\ request.length >= 0
  /\ ahead' = Rest /\ behind' = <<>>
  /\ pc' = "process"
  /\ UNCHANGED <<client, consumed, left, timeout, waited, status, output>>

(* left < 0: the buffer holds more than the content.                       *)
ContentBuffered ==
  /\ ContentExpected /\ Left < 0 /\ request.length >= 0
  /\ ahead' = SubSeq(Rest, 1, request.length)
  /\ behind' = SubSeq(Rest, request.length + 1, Len(Rest))
  /\ pc' = "process"
  /\ UNCHANGED <<client, consumed, left, timeout, waited, status, output>>

(* left < 0 because the length is: as a size_t it is beyond any buffer,    *)
(* "behind.substr(len)" throws, nobody catches, and the process ends.      *)
ContentThrows ==
  /\ ContentExpected /\ Left < 0 /\ request.length < 0
  /\ ahead' = Rest /\ behind' = Rest
  /\ pc' = "terminated"
  /\ UNCHANGED <<client, consumed, left, timeout, waited, status, output>>

(* The buffer begins the content.                                          *)
BeginContent ==
  /\ ContentExpected /\ Left >= 0
  /\ ahead' = Rest /\ behind' = <<>>
  /\ left' = Left
  /\ pc' = "content"
  /\ UNCHANGED <<client, consumed, timeout, waited, status, output>>

(* Mutant of ReadContent: reads up to a whole buffer.                      *)
ReadContentBeyond ==
  /\ NeedsContent
  /\ \E n \in 1..HTTP_READ_BUF_SIZE :
       /\ ReadOnce(HTTP_READ_BUF_SIZE, n)
       /\ left' = left - n
  /\ UNCHANGED <<client, pc, behind, header, timeout, waited, status, output>>

(* ReadHttpContentTimeout's loop: never more than what is left.            *)
ReadContent ==
  /\ NeedsContent
  /\ \E n \in 1..HTTP_READ_BUF_SIZE :
       /\ ReadOnce(Least(left, HTTP_READ_BUF_SIZE), n)
       /\ left' = left - n
  /\ UNCHANGED <<client, pc, behind, header, timeout, waited, status, output>>

ContentRead ==
  /\ pc = "content" /\ ~NeedsContent
  /\ pc' = "process"
  /\ UNCHANGED <<client, buffers, timeout, waited, status, output>>

(* Mutant of ReadFails: gives up as soon as nothing is there to read.      *)
ReadFailsAtOnce ==
  /\ NeedsHeader \/ NeedsContent
  /\ ~Readable
  /\ Reply(400)
  /\ UNCHANGED <<client, buffers, waited, output>>

(* Mutant of ReadFails: only the client's leaving ends the wait.           *)
ReadFailsOnClose ==
  /\ NeedsHeader \/ NeedsContent
  /\ ~Readable /\ closed
  /\ Reply(400)
  /\ UNCHANGED <<client, buffers, waited, output>>

(* select() times out, or read() returns 0 or -1.                          *)
ReadFails ==
  /\ NeedsHeader \/ NeedsContent
  /\ ~Readable /\ (closed \/ timeout = 0)
  /\ Reply(400)
  /\ UNCHANGED <<client, buffers, waited, output>>

(* m_handler->Process succeeds or fails.                                   *)
Process ==
  /\ pc = "process"
  /\ \E code \in {200, 404} : Reply(code)
  /\ UNCHANGED <<client, buffers, waited, output>>

-----------------------------------------------------------------------------
(* SendReply: WriteTimeout                                                 *)

(* Mutant of Write: what one write() does not take is forgotten.           *)
WriteOnce ==
  /\ pc = "send" /\ Writable
  /\ LET n == Least(ReplyLength - written, SendBuffer - unread)
     IN  written' = written + n /\ unread' = unread + n
  /\ pc' = "done"
  /\ UNCHANGED <<client, buffers, timeout, waited, status>>

(* select() finds room and write() fills it.                               *)
Write ==
  /\ pc = "send" /\ Writable
  /\ LET n == Least(ReplyLength - written, SendBuffer - unread)
     IN  /\ written' = written + n /\ unread' = unread + n
         /\ pc' = IF written + n = ReplyLength THEN "done" ELSE "send"
  /\ UNCHANGED <<client, buffers, timeout, waited, status>>

(* write() to a connection that is gone, or no room when time is up.       *)
WriteFails ==
  /\ pc = "send"
  /\ closed \/ (~Writable /\ timeout = 0)
  /\ pc' = "done"
  /\ UNCHANGED <<client, buffers, timeout, waited, status, output>>

-----------------------------------------------------------------------------
(* The clock and the client                                                *)

Blocked ==
  \/ (NeedsHeader \/ NeedsContent) /\ ~Readable /\ ~closed
  \/ pc = "send" /\ ~Writable

(* Linux's select() subtracts the time it waited from *timeout.            *)
Tick ==
  /\ Blocked /\ timeout > 0
  /\ timeout' = timeout - 1
  /\ waited' = waited + 1
  /\ UNCHANGED <<client, pc, buffers, status, output>>

Arrive ==
  /\ ~Ended /\ ~closed
  /\ arrived < Len(request.stream)
  /\ arrived' = arrived + 1
  /\ UNCHANGED <<request, closed, pc, buffers, timeout, waited, status, output>>

(* A FIN leaves what arrived to be read, a reset discards it.              *)
Leave ==
  /\ ~Ended /\ ~closed
  /\ closed' = TRUE
  /\ arrived' \in {arrived, consumed}
  /\ UNCHANGED <<request, pc, buffers, timeout, waited, status, output>>

Receive ==
  /\ ~Ended /\ ~closed
  /\ unread > 0
  /\ unread' = unread - 1
  /\ UNCHANGED <<client, pc, buffers, timeout, waited, status, written>>

Thread ==
  \/ ReadHeader \/ RejectHeader \/ AcceptHeader
  \/ ContentBuffered \/ ContentThrows \/ BeginContent
  \/ ReadContent \/ ContentRead
  \/ ReadFails \/ Process \/ Write \/ WriteFails

Next == Thread \/ Tick \/ Arrive \/ Leave \/ Receive

Spec == Init /\ [][Next]_vars

(* The thread is scheduled and time passes; the client owes nothing.       *)
FairSpec == Spec /\ WF_vars(Thread) /\ WF_vars(Tick)

-----------------------------------------------------------------------------
(* Properties                                                              *)

(* The variables keep their types; read() never returns more than arrived, *)
(* and the content never runs over its length.                             *)
TypeOK ==
  /\ request \in Requests
  /\ arrived \in 0..Len(request.stream) /\ closed \in BOOLEAN
  /\ pc \in {"header", "content", "process", "send", "done", "terminated"}
  /\ consumed \in 0..arrived
  /\ left \in Nat
  /\ timeout \in Nat /\ waited \in Nat
  /\ status \in {0, 200, 400, 404}
  /\ written \in 0..ReplyLength /\ unread \in 0..SendBuffer

HeaderLength == HeaderEnd(request.stream)
SentHeader   == SubSeq(request.stream, 1, HeaderLength)
Needed ==
  HeaderLength + (IF HasLength(SentHeader) THEN request.length ELSE 0)
Textual == \A k \in 1..Len(request.stream) : request.stream[k] # NUL

(* A request without NUL bytes reaches the handler as it was sent, however *)
(* read() cuts the stream: the header up to its empty line and Content-    *)
(* Length bytes behind it, without what the client sent after them.  One   *)
(* of a negative length never does.                                        *)
HandlerGetsRequest ==
  pc = "process" /\ Textual =>
    /\ HeaderLength # 0 /\ header = SentHeader
    /\ HasLength(SentHeader) =>
         /\ request.length >= 0
         /\ ahead = SubSeq(request.stream, HeaderLength + 1, Needed)

(* A request without NUL bytes is refused as bad only when its first line  *)
(* is, or when a part of it had not come before the client left or the     *)
(* whole read budget was spent (of a length that is negative, something    *)
(* is always missing).                                                     *)
RefusedOnlyForCause ==
  status = 400 /\ Textual =>
    \/ HeaderLength # 0 /\ ~Parses(SentHeader)
    \/ /\ \/ HeaderLength = 0 \/ consumed < Needed
          \/ HasLength(SentHeader) /\ request.length < 0
       /\ closed \/ waited >= HTTP_READ_TIMEOUT

(* A reply is left unfinished only when the client left or the whole write *)
(* budget was spent.                                                       *)
AbandonedOnlyForCause ==
  pc = "done" /\ written < ReplyLength => closed \/ timeout = 0

(* However a client trickles its bytes, a thread waits no longer for it    *)
(* than one read budget and one write budget.                              *)
WaitBounded == waited <= HTTP_READ_TIMEOUT + HTTP_WRITE_TIMEOUT

(* Every connection gives its thread back, whatever the client does, but   *)
(* for one that announces a negative length: that may end the process.     *)
HandlingEnds ==
  <>(pc = "done" \/ (pc = "terminated" /\ request.length < 0))
=============================================================================
