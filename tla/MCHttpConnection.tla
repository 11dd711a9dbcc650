--------------------------- MODULE MCHttpConnection ---------------------------
(* Requests cut in every way by a read buffer of two symbols: headers with *)
(* and without a Content-Length line, refused, never ending and with a NUL *)
(* in them; contents shorter than, as long as and longer than announced.   *)
(* A length is 0, 1 or 2, -1, or the least int.                            *)
EXTENDS HttpConnectionProofs

CONSTANTS Other, Body   \* any other header line, a byte of content

MCSymbols == {RequestLine, ContentLength, Other, CRLF, Body, NUL}

MCHeaders ==
  { <<RequestLine, CRLF, CRLF>>,
    <<RequestLine, CRLF, ContentLength, CRLF, CRLF>>,
    <<Other, CRLF, CRLF>>,
    <<RequestLine, CRLF, Other, CRLF>>,
    <<RequestLine, NUL, CRLF, CRLF>> }
MCContents == { <<>>, <<Body>>, <<Body, Body, CRLF>>, <<CRLF, CRLF>>, <<NUL, Body>> }

MCRequests ==
  {[stream |-> h \o c, length |-> n] :
     h \in MCHeaders, c \in MCContents, n \in {0, 1, 2, -1, -IntMax - 1}}
=============================================================================
