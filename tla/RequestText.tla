----------------------------- MODULE RequestText -----------------------------
(***************************************************************************)
(* From the bytes of a request to its parameters: HttpRequestParser takes  *)
(* the header apart and decodes the URI and the content                    *)
(* (http_frame/http_request_parser.cpp), then LookaRequest splits what was *)
(* decoded (searchd/looka_request.cpp, looka_string_utils.cpp).            *)
(*                                                                         *)
(* Text is a sequence of bytes.  A client appends to its parameters what   *)
(* it likes, each byte as it is or escaped.                                *)
(***************************************************************************)
EXTENDS TextLines

CONSTANTS
  Methods,    (* [get, post, other], the bytes of each                      *)
  Versions,   (* the texts in which sscanf finds "HTTP/%u.%u"               *)
  Headers,    (* sequences of [name, before, value, after]                  *)
  Begun,      (* how a client may begin: a sequence of [byte, escaped]      *)
  Chunks,     (* what it may send next                                      *)
  MaxSent,    (* bound: how many of them it sends                           *)
  KeyText,    (* the parameters, [name |-> bytes]; "filter" is one          *)
  Defaults    (* LookaRequest(): their values, "filter" has none            *)

VARIABLES
  method,  (* of the request, a name in Methods                             *)
  fields,  (* the other lines of its header                                 *)
  sent     (* the parameters, in chunks                                     *)

requestVars == <<method, fields, sent>>

-----------------------------------------------------------------------------
(* Characters                                                              *)

Nul == 0
Space == 32
Ch == [percent |-> 37, ampersand |-> 38, plus |-> 43, comma |-> 44,
       colon |-> 58, semicolon |-> 59, equals |-> 61]
CrLf == <<13, 10>>

Digits  == 48..57
Letters == 65..90 \cup 97..122
Hex     == Digits \cup 65..70 \cup 97..102

HexValue(b) == IF b \in Digits THEN b - 48 ELSE (b % 32) + 9

(* Bytes that UrlDecode leaves escaped, because they may be sent as they   *)
(* are.                                                                    *)
LeftEscaped ==
  Digits \cup Letters \cup 38..47 \cup {33, 36, 58, 59, 61, 63, 64, 95}

-----------------------------------------------------------------------------
(* Strings                                                                 *)

(* HttpRequestParser::SplitString: a text without a separator has none.    *)
SplitString(s, separator) ==
  IF Len(Cut(s, separator)) = 1 THEN <<>> ELSE Pieces(s, separator)

Stripped(s, blanks) ==
  LET kept == {i \in 1..Len(s) : s[i] % 256 \notin blanks}
  IN  IF kept = {} THEN <<>> ELSE SubSeq(s, Min(kept), Max(kept))

(* HttpRequestParser::Trim: of a text of blanks the last one is left.      *)
Trim(s) ==
  LET stripped == Stripped(s, {9, Space})
  IN  IF stripped = <<>> /\ s # <<>> THEN <<Last(s)>> ELSE stripped

(* trim of looka_string_utils, by isspace.                                 *)
trim(s) == Stripped(s, 9..13 \cup {Space})

(* splitString of looka_string_utils, up to the first NUL.                 *)
splitString(s, char) ==
  LET nuls  == {i \in 1..Len(s) : s[i] % 256 = Nul}
      valid == IF nuls = {} THEN s ELSE SubSeq(s, 1, Min(nuls) - 1)
      split == Pieces(valid, <<char>>)
  IN  [i \in 1..Len(split) |-> trim(split[i])]

(* xsplit: the texts before and after the first separator, if there is one.*)
Splits(s, char) == char \in ToSet(s)
Left(s, char)   == Head(Cut(s, <<char>>))
Right(s, char)  == After(s, Len(Left(s, char)) + 1)

-----------------------------------------------------------------------------
(* HttpRequestParser                                                       *)

(* Mutant of UrlDecode: every escape is decoded.                           *)
UrlDecodeAll(s) ==
  LET At(i) == IF i <= Len(s) THEN s[i] ELSE Nul
      Decoded[i \in 1..(Len(s) + 3)] ==
        IF i > Len(s) THEN <<>>
        ELSE IF s[i] = Ch.plus THEN <<Space>> \o Decoded[i + 1]
        ELSE IF s[i] = Ch.percent /\ At(i + 1) \in Hex /\ At(i + 2) \in Hex
             THEN <<16 * HexValue(s[i + 1]) + HexValue(s[i + 2])>>
                    \o Decoded[i + 3]
        ELSE <<s[i]>> \o Decoded[i + 1]
  IN  Decoded[1]

UrlDecode(s) ==
  LET At(i)   == IF i <= Len(s) THEN s[i] ELSE Nul
      Code(i) == 16 * HexValue(s[i + 1]) + HexValue(s[i + 2])
      Decoded[i \in 1..(Len(s) + 1)] ==
        IF i > Len(s) THEN <<>>
        ELSE IF s[i] = Ch.plus THEN <<Space>> \o Decoded[i + 1]
        ELSE IF /\ s[i] = Ch.percent /\ At(i + 1) \in Hex /\ At(i + 2) \in Hex
                /\ Code(i) \notin LeftEscaped
             THEN <<Code(i)>> \o Decoded[i + 3]
        ELSE <<s[i]>> \o Decoded[i + 1]
  IN  Decoded[1]

Refused == [refused |-> TRUE]

(* ParseHeader: a line of three words, then names and values.              *)
ParseHeader(header) ==
  LET lines == SplitString(header, CrLf)
      words == SplitString(lines[1], <<Space>>)
      named == Those(Tail(lines), {l \in ToSet(lines) : Splits(l, Ch.colon)})
  IN  IF lines = <<>> \/ Len(words) # 3 \/ words[3] \notin Versions
      THEN Refused
      ELSE [method  |-> words[1],
            uri     |-> UrlDecode(words[2]),
            headers |-> [i \in 1..Len(named) |->
                           [name  |-> Trim(Left(named[i], Ch.colon)),
                            value |-> Trim(Right(named[i], Ch.colon))]]]

(* The first header of exactly this name.                                  *)
GetHeaderValue(headers, name) ==
  LET same == Those(headers, {h \in ToSet(headers) : h.name = name})
  IN  IF same = <<>> THEN <<>> ELSE Head(same).value

-----------------------------------------------------------------------------
(* LookaRequest                                                            *)

(* ParseFilter: the keys and values that DocAttributes goes on with.       *)
FilterPieces(val) ==
  LET Read(piece) ==
        LET kvs == splitString(piece, Ch.colon)
        IN  IF Len(kvs) # 2 THEN <<>>
            ELSE LET vs == splitString(kvs[2], Ch.comma)
                 IN  IF vs = <<>> THEN <<>>
                     ELSE <<[key |-> kvs[1], values |-> vs]>>
      pieces == splitString(val, Ch.semicolon)
  IN  FlattenSeq([i \in 1..Len(pieces) |-> Read(pieces[i])])

(* Parse, after the method: "key=value" between "&"; the last value of a   *)
(* key counts, and all filters.                                            *)
Parameters(s) ==
  LET full  == splitString(s, Ch.ampersand)
      split == Those(full, {p \in ToSet(full) :
                              Splits(p, Ch.equals) /\ Left(p, Ch.equals) # <<>>})
      Given(key) ==
        LET pairs == Those(split, {p \in ToSet(split) :
                                     trim(Left(p, Ch.equals)) = KeyText[key]})
        IN  [i \in 1..Len(pairs) |-> trim(Right(pairs[i], Ch.equals))]
  IN  IF full = <<>> THEN Refused
      ELSE [key \in DOMAIN KeyText |->
              IF key = "filter"
              THEN FlattenSeq([i \in 1..Len(Given(key)) |->
                                 FilterPieces(Given(key)[i])])
              ELSE IF Given(key) = <<>> THEN Defaults[key]
              ELSE Last(Given(key))]

(* LookaRequest::Parse: the URI of a GET, from behind its "/?", or the     *)
(* content of a POST.                                                      *)
Parse(request, content) ==
  IF request.method = Methods["get"]
  THEN IF SubSeq(request.uri, 1, 2) = <<47, 63>>
       THEN Parameters(SubSeq(request.uri, 3, Len(request.uri)))
       ELSE Refused
  ELSE IF request.method = Methods["post"] THEN Parameters(content)
  ELSE Refused

-----------------------------------------------------------------------------
(* The client                                                              *)

HexDigit(n) == IF n < 10 THEN 48 + n ELSE 55 + n
Escape(b)   == <<Ch.percent, HexDigit(b \div 16), HexDigit(b % 16)>>

RequestInit ==
  /\ method \in DOMAIN Methods
  /\ fields \in Headers
  /\ sent \in {<<begun>> : begun \in Begun}

Send(chunk) ==
  /\ Len(sent) <= MaxSent
  /\ sent' = Append(sent, chunk)
  /\ UNCHANGED <<method, fields>>

RequestNext == \E chunk \in Chunks : Send(chunk)

RequestSpec == RequestInit /\ [][RequestNext]_requestVars

(* What it sends: the parameters behind "/?" or as content.                *)
Symbols == FlattenSeq(sent)

Spelled(symbols) ==
  FlattenSeq([i \in 1..Len(symbols) |->
    IF symbols[i].escaped THEN Escape(symbols[i].byte) ELSE <<symbols[i].byte>>])

Line(field) ==
  field.name \o <<Ch.colon>> \o field.before \o field.value \o field.after \o CrLf

Header ==
  Methods[method] \o <<Space, 47>> \o
  (IF method = "get" THEN <<63>> \o Spelled(Symbols) ELSE <<>>) \o
  <<Space>> \o (CHOOSE v \in Versions : TRUE) \o CrLf \o
  FlattenSeq([i \in 1..Len(fields) |-> Line(fields[i])]) \o CrLf

-----------------------------------------------------------------------------
(* What the constants may be                                               *)

Blanks == {9, Space}
InLine == (0..255) \ {CrLf[1]}   (* bytes that do not end a line           *)

(* A line of three words, and no line of it ended by a client that does    *)
(* not escape.                                                             *)
IsWord(s) == s \in Seq(InLine \ {Space}) /\ s # <<>>

IsSent(symbol) ==
  /\ symbol \in [byte : 0..255, escaped : BOOLEAN]
  /\ symbol.escaped \/ symbol.byte \in InLine

IsField(field) ==
  /\ field \in [name   : Seq(InLine \ {Ch.colon}), value : Seq(InLine),
                before : Seq(Blanks), after : Seq(Blanks)]
  /\ Trim(field.name) = field.name
  /\ IF field.value = <<>> THEN field.before = <<>> /\ field.after = <<>>
     ELSE field.value[1] \notin Blanks /\ Last(field.value) \notin Blanks

ASSUME RequestAssumption ==
  /\ DOMAIN Methods = {"get", "post", "other"}
  /\ \A m \in DOMAIN Methods :
       IsWord(Methods[m]) /\ \A n \in DOMAIN Methods \ {m} : Methods[m] # Methods[n]
  /\ Versions # {} /\ \A v \in Versions : IsWord(v)
  /\ \A header \in Headers :
       header \in Seq(ToSet(header)) /\ \A field \in ToSet(header) : IsField(field)
  /\ \A chunk \in Begun \cup Chunks :
       chunk \in Seq(ToSet(chunk)) /\ \A symbol \in ToSet(chunk) : IsSent(symbol)
  /\ "filter" \in DOMAIN KeyText /\ "refused" \notin DOMAIN KeyText
  /\ \A key \in DOMAIN KeyText : KeyText[key] \in Seq(LeftEscaped)
  /\ \A key \in DOMAIN KeyText \ {"filter"} : Defaults[key] \in Seq(0..255)

-----------------------------------------------------------------------------
(* Properties                                                              *)

(* What the server makes of the request.                                   *)
Received ==
  IF ParseHeader(Header) = Refused THEN Refused
  ELSE Parse(ParseHeader(Header), UrlDecode(Spelled(Symbols)))

(* What the client means: 256 is added to a byte that it escaped and that  *)
(* UrlDecode decodes, so that it separates nothing.                        *)
Meant(symbols) ==
  LET Meaning(s) ==
        IF s.escaped /\ s.byte \notin LeftEscaped THEN <<256 + s.byte>>
        ELSE IF s.escaped THEN Escape(s.byte)
        ELSE IF s.byte = Ch.plus THEN <<Space>> ELSE <<s.byte>>
  IN  FlattenSeq([i \in 1..Len(symbols) |-> Meaning(symbols[i])])

(* A bare "%" and two bare digits: an escape that the client does not mean.*)
Misleading(symbols) ==
  \E i \in 1..(Len(symbols) - 2) :
    /\ \A j \in i..(i + 2) : ~symbols[j].escaped
    /\ symbols[i].byte = Ch.percent
    /\ symbols[i + 1].byte \in Hex /\ symbols[i + 2].byte \in Hex

Plain(s) == [i \in 1..Len(s) |-> s[i] % 256]

PlainFilter(filter) ==
  [key    |-> Plain(filter.key),
   values |-> [j \in 1..Len(filter.values) |-> Plain(filter.values[j])]]

PlainRequest(r) ==
  IF r = Refused THEN r
  ELSE [key \in DOMAIN r |->
          IF key # "filter" THEN Plain(r[key])
          ELSE [i \in 1..Len(r[key]) |-> PlainFilter(r[key][i])]]

(* The text is split after it has been decoded, and yet nothing that a     *)
(* client escapes separates parameters, filters or values: the server gets *)
(* the parameters the client means, whichever of them contain what, on     *)
(* both ways they are sent.  (An escaped NUL ends them, a blank in a URI   *)
(* is an error.)  The header's values are found however they are spaced.   *)
RequestsAreRead ==
  ~Misleading(Symbols) =>
    /\ Received =
         IF \/ method = "other"
            \/ method = "get" /\ [byte |-> Space, escaped |-> FALSE] \in ToSet(Symbols)
         THEN Refused
         ELSE PlainRequest(Parameters(Meant(Symbols)))
    /\ ParseHeader(Header) # Refused =>
         \A i \in 1..Len(fields) :
           (\A j \in 1..(i - 1) : fields[j].name # fields[i].name) =>
             GetHeaderValue(ParseHeader(Header).headers, fields[i].name) =
               fields[i].value
=============================================================================
