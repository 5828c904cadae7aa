-------------------------- MODULE RequestReceiver --------------------------
(***************************************************************************)
(* The parser of HTTP requests: request_receiver::receive with the         *)
(* parsers of the request line, the header fields and the chunks that it   *)
(* calls (src/include/via/http, src/src/http), driven by the loop of       *)
(* http_server::receive_handler and answered by the Handlers of the        *)
(* program, one packet at a time.                                          *)
(*                                                                         *)
(* Two parsers are fed with the same bytes.  rx gets them as the network   *)
(* delivers them, cut into packets anywhere; whole gets everything that    *)
(* the client sends before it waits for an answer as one packet.           *)
(*                                                                         *)
(* The bytes come in units: a word of capital letters, a blank, "HTTP/1.1",*)
(* CR, LF, a header field without its line end, a digit of a chunk size,   *)
(* a semicolon, and bytes that are in no name and no number.  The body of  *)
(* a request and the data of a chunk are one unit long.  Content-Length is *)
(* "length" when it announces that body, "long" when it is more than both  *)
(* max_body_size_ and MAX_LENGTH, "wrong" when it is not a number; other   *)
(* fields have their value begun, but for "other", a name and a colon.     *)
(* The limits on the lengths of lines are left out; strict_crlf_ is false  *)
(* as the server has it, the method is neither HEAD nor TRACE, and every   *)
(* request allows the connection to be kept.                               *)
(***************************************************************************)
EXTENDS Integers, FiniteSets

CONSTANTS
  MaxWhitespace,    \* max_whitespace_
  MaxHeaders,       \* max_header_number_
  MaxDigits,        \* MAX_SIZE_DIGITS
  Anywhere          \* packets are cut anywhere, or only where it is harmless

ASSUME LimitsAssumption ==
  /\ MaxWhitespace \in Nat /\ MaxHeaders \in Nat /\ MaxDigits \in Nat
  /\ Anywhere \in BOOLEAN

VARIABLES
  rx,               \* the parser that gets packets
  whole,            \* the parser that gets everything at once
  next              \* the next unit, "none" when the client waits

vars == <<rx, whole, next>>

Eol == {"cr", "lf"}
Lengths == {"length", "long", "wrong"}
Names == {"host", "chunked", "expect", "other"} \cup Lengths
Digits == {"size0", "size1"}
Units == Eol \cup Names \cup Digits
         \cup {"word", "ws", "version", "semi", "bad"}

ClearedHeaders ==
  [fields |-> {}, field |-> "name", name |-> "none", blanks |-> 0,
   cr |-> FALSE, valid |-> FALSE]

(* request_receiver::clear *)
Cleared ==
  [line |-> "method", ws |-> 0, headers |-> ClearedHeaders,
   continued |-> FALSE, chunk |-> "blank", blanks |-> 0, digits |-> 0,
   size |-> 0, trailers |-> ClearedHeaders]

(* fresh: the next unit begins a packet.  event: what receive_handler has  *)
(* been told at the last unit, and the fields of the request.              *)
NoEvent == [kind |-> "none", fields |-> {}]
Receiver == [parser |-> Cleared, fresh |-> TRUE, event |-> NoEvent]

Init == rx = Receiver /\ whole = Receiver /\ next = "none"

-----------------------------------------------------------------------------
(* request_line::parse_char: the next state and number of blanks, or fail  *)

LineState(line, ws) == [line |-> line, ws |-> ws]
Fail == LineState("fail", 0)

(* Mutant: the blanks are counted but not limited. *)
BlankUnlimited(line, ws) == LineState(line, ws)

Blank(line, ws) == IF ws > MaxWhitespace THEN Fail ELSE LineState(line, ws)

NextLine(p, u) ==
  CASE p.line = "method" /\ u = "word" -> LineState("methodRead", 0)
    [] p.line = "methodRead" /\ u = "word" -> LineState("methodRead", 0)
    [] p.line = "methodRead" /\ u = "ws" -> LineState("uri", 1)
    [] p.line = "uri" /\ u = "ws" -> Blank("uri", p.ws + 1)
    [] p.line = "uriRead" /\ u = "ws" ->
         IF p.ws + 1 > MaxWhitespace THEN Fail ELSE LineState("http", 1)
    [] p.line \in {"uri", "uriRead"} /\ u \in {"word", "version", "bad"} ->
         LineState("uriRead", p.ws)
    [] p.line = "http" /\ u = "ws" -> Blank("http", p.ws + 1)
    [] p.line = "http" /\ u = "version" -> LineState("cr", p.ws)
    [] p.line = "cr" /\ u = "cr" -> LineState("lf", p.ws)
    [] p.line \in {"cr", "lf"} /\ u = "lf" -> LineState("valid", p.ws)
    [] OTHER -> Fail

-----------------------------------------------------------------------------
(* message_headers::parse and field_line::parse                            *)
(*                                                                         *)
(* An error is "missed" when the parser has consumed the byte it is at:    *)
(* the caller takes it for a lack of data if the byte ends a packet.       *)

More(h) == [headers |-> h, error |-> "none"]
Missed(h) == [headers |-> h, error |-> "missed"]
Noticed(h) == [headers |-> h, error |-> "noticed"]

(* message_headers::add: a second Content-Length is joined to the first    *)
(* with a comma.                                                           *)
Add(fields, name) ==
  IF name \in Lengths /\ fields \cap Lengths # {}
  THEN (fields \ Lengths) \cup {"wrong"}
  ELSE fields \cup {name}

(* add(field_.name(), field_.value()), field_.clear() *)
Added(h) ==
  [h EXCEPT !.fields = Add(@, h.name), !.field = "name", !.name = "none",
            !.blanks = 0]

(* Mutant: one header field too many is accepted. *)
AddFieldUnlimited(h) == More(Added(h))

AddField(h) == IF Cardinality(Added(h).fields) > MaxHeaders
               THEN Missed(Added(h))
               ELSE More(Added(h))

(* A counter that is not looked at beyond its limit *)
Count(n, limit) == IF n > limit THEN n ELSE n + 1

(* A blank in front of the value, up to the limit *)
SkipBlank(h) ==
  LET q == [h EXCEPT !.blanks = Count(@, MaxWhitespace)] IN
  IF q.blanks > MaxWhitespace THEN Missed([q EXCEPT !.field = "error"])
                              ELSE More(q)

(* More text in the value of the field *)
Longer(h, state) ==
  [h EXCEPT !.field = state,
            !.name = IF @ \in Lengths THEN "wrong" ELSE @]

(* A line is continued if the packet goes on with a blank. *)
ParseField(h, u, peek) ==
  CASE h.field = "name" /\ u \in Names ->
         More([h EXCEPT !.field = IF u = "other" THEN "space" ELSE "value",
                        !.name = u])
    [] h.field = "space" /\ u = "ws" -> SkipBlank(h)
    [] \/ h.field = "space" /\ u \notin Eol \cup {"ws"}
       \/ h.field = "value" /\ u \notin Eol -> More(Longer(h, "value"))
    [] h.field \in {"space", "value"} /\ u = "cr" ->
         More([h EXCEPT !.field = "lf"])
    [] h.field \in {"space", "value", "lf"} /\ u = "lf" ->
         IF peek = "ws" THEN More(Longer(h, "space")) ELSE AddField(h)
    [] OTHER -> Missed(h)

(* The line end that begins a packet is taken for the blank line, whatever *)
(* the state of the field.  cr: the packet has gone through CR of it.      *)
ParseHeaders(h, u, fresh, peek) ==
  CASE h.cr /\ ~ fresh ->
         IF u = "lf" THEN More([h EXCEPT !.cr = FALSE, !.valid = TRUE])
                     ELSE Noticed(h)
    [] u \in Eol /\ (fresh \/ h.field = "name") /\ ~ (h.cr /\ ~ fresh) ->
         More([h EXCEPT !.cr = (u = "cr"), !.valid = (u = "lf")])
    [] OTHER -> ParseField([h EXCEPT !.cr = FALSE], u, peek)

-----------------------------------------------------------------------------
(* request_receiver::receive, receive_handler and the Handlers *)

Continue(p, kind, fields) ==
  [parser |-> p, event |-> [kind |-> kind, fields |-> fields]]
Incomplete(p) == [parser |-> p, event |-> NoEvent]

(* The response has been sent, which clears the parser. *)
Answer(kind, fields) == Continue(Cleared, kind, fields)

(* RX_INVALID: the rest of the packet is dropped, the connection closed. *)
Invalid == Answer("invalid", {})

(* What follows when the blank line has been read: more tells that the     *)
(* packet goes on.  A chunked request that does not wait for 100-continue  *)
(* is handed over before its chunks, and the response clears the parser;   *)
(* so does expect_continue when it refuses a request as too large.         *)
HeaderRead(p, more) ==
  LET fields == p.headers.fields
      content == fields \cap Lengths IN
  CASE "host" \notin fields -> Invalid
    [] {"host", "chunked"} \subseteq fields /\ "expect" \notin fields ->
         Answer("request", fields)
    [] {"host", "chunked", "expect"} \subseteq fields ->
         IF "long" \in fields THEN Answer("tooLarge", fields)
         ELSE Continue([p EXCEPT !.continued = TRUE], "continue", fields)
    [] "host" \in fields /\ "chunked" \notin fields
         /\ content = {"length"} -> Incomplete(p)
    [] "host" \in fields /\ "chunked" \notin fields
         /\ content \notin {{}, {"length"}} -> Invalid
    [] OTHER -> IF more THEN Invalid ELSE Answer("request", fields)

(* A parse of headers or trailers goes on, ends or fails. *)
ErrorSeen(result, more) ==
  result.error = "noticed" \/ (result.error = "missed" /\ more)

ReceiveHeader(p, u, fresh, peek) ==
  LET result == ParseHeaders(p.headers, u, fresh, peek)
      q == [p EXCEPT !.headers = result.headers]
      more == peek # "none" IN
  CASE ErrorSeen(result, more) -> Invalid
    [] ~ ErrorSeen(result, more) /\ result.headers.valid -> HeaderRead(q, more)
    [] OTHER -> Incomplete(q)

(* The chunk is complete: RX_CHUNK.  The response to the last one clears   *)
(* the parser, after any other the next call clears the chunk.             *)
ChunkRead(p) ==
  IF p.size = 0 THEN Answer("lastChunk", p.headers.fields)
  ELSE Continue([p EXCEPT !.chunk = "blank", !.blanks = 0, !.digits = 0,
                          !.size = 0], "chunk", p.headers.fields)

ReceiveTrailer(p, u, fresh, peek) ==
  LET result == ParseHeaders(p.trailers, u, fresh, peek)
      q == [p EXCEPT !.trailers = result.headers]
      more == peek # "none" IN
  CASE ErrorSeen(result, more) -> Invalid
    [] ~ ErrorSeen(result, more) /\ result.headers.valid -> ChunkRead(q)
    [] OTHER -> Incomplete(q)

(* Mutant: a packet must not end between the CR and LF after the data. *)
ChunkDataEndWhole(p, u, fresh) ==
  CASE u = "lf" /\ ~ fresh -> ChunkRead(p)
    [] u = "cr" /\ p.chunk = "dataEnd" ->
         Incomplete([p EXCEPT !.chunk = "dataLf"])
    [] OTHER -> Invalid

(* rx_chunk::parse after the data: CR, which may be missing, and LF *)
ChunkDataEnd(p, u, fresh) ==
  CASE u = "lf" -> ChunkRead(p)
    [] u = "cr" /\ (p.chunk = "dataEnd" \/ fresh) ->
         Incomplete([p EXCEPT !.chunk = "dataLf"])
    [] OTHER -> Invalid

(* chunk_header::parse_char: a byte is accepted, or refused; the caller    *)
(* takes the latter for a lack of data if the byte ends a packet.          *)
Accepted(p) == [parser |-> p, ok |-> TRUE]
Refused(p) == [parser |-> p, ok |-> FALSE]

(* The state that follows the line end of the chunk header *)
Body(p) == IF p.size = 0 THEN "trailer" ELSE "data"

(* A digit; a size of 2 is more than max_chunk_size_. *)
ChunkDigit(p, u) ==
  LET q == [p EXCEPT !.digits = Count(@, MaxDigits),
                     !.size = IF @ # 0 THEN 2
                              ELSE IF u = "size1" THEN 1 ELSE 0] IN
  IF q.digits > MaxDigits THEN Refused([q EXCEPT !.chunk = "error"])
                          ELSE Accepted([q EXCEPT !.chunk = "size"])

(* The end of the digits, of which there is at least one *)
ChunkSize(p, u) ==
  IF p.digits = 0 \/ p.size = 2 THEN Refused([p EXCEPT !.chunk = "error"])
  ELSE CASE u = "semi" ->
              Accepted([p EXCEPT !.chunk = "extBlank", !.blanks = 0])
         [] u = "cr" -> Accepted([p EXCEPT !.chunk = "lf"])
         [] OTHER -> Accepted([p EXCEPT !.chunk = Body(p)])

(* A blank in front of the size or the extension, up to the limit; only    *)
(* the one in front of the size leaves a state of error.                   *)
ChunkBlank(p) ==
  LET q == [p EXCEPT !.blanks = Count(@, MaxWhitespace)] IN
  IF q.blanks > MaxWhitespace
  THEN Refused([q EXCEPT !.chunk = IF @ = "blank" THEN "error" ELSE @])
  ELSE Accepted(q)

ChunkHeader(p, u) ==
  CASE p.chunk \in {"blank", "extBlank"} /\ u = "ws" -> ChunkBlank(p)
    [] p.chunk \in {"blank", "size"} /\ u \in Digits -> ChunkDigit(p, u)
    [] p.chunk \in {"blank", "size"} /\ u \in Eol \cup {"semi"} ->
         ChunkSize(p, u)
    [] p.chunk = "blank" /\ u \notin Digits \cup Eol \cup {"ws", "semi"} ->
         Refused([p EXCEPT !.chunk = "size"])
    [] \/ p.chunk = "extBlank" /\ u \notin Eol \cup {"ws"}
       \/ p.chunk = "ext" /\ u \notin Eol ->
         Accepted([p EXCEPT !.chunk = "ext"])
    [] p.chunk \in {"extBlank", "ext"} /\ u = "cr" ->
         Accepted([p EXCEPT !.chunk = "lf"])
    [] p.chunk \in {"extBlank", "ext", "lf"} /\ u = "lf" ->
         Accepted([p EXCEPT !.chunk = Body(p)])
    [] OTHER -> Refused(p)

(* rx_chunk::parse *)
ReceiveChunk(p, u, fresh, peek) ==
  LET header == ChunkHeader(p, u) IN
  CASE p.chunk = "trailer" -> ReceiveTrailer(p, u, fresh, peek)
    [] p.chunk = "data" -> Incomplete([p EXCEPT !.chunk = "dataEnd"])
    [] p.chunk \in {"dataEnd", "dataLf"} -> ChunkDataEnd(p, u, fresh)
    [] OTHER -> IF header.ok \/ peek = "none" THEN Incomplete(header.parser)
                                             ELSE Invalid

ReceiveLine(p, u) ==
  LET result == NextLine(p, u) IN
  IF result.line = "fail" THEN Invalid
  ELSE Incomplete([p EXCEPT !.line = result.line, !.ws = result.ws])

(* One unit is received; peek is the next one in the packet, if any.       *)
Receive(receiver, u, peek) ==
  LET p == receiver.parser
      result ==
        CASE p.line # "valid" -> ReceiveLine(p, u)
          [] p.line = "valid" /\ ~ p.headers.valid ->
               ReceiveHeader(p, u, receiver.fresh, peek)
          [] p.line = "valid" /\ p.headers.valid /\ p.continued ->
               ReceiveChunk(p, u, receiver.fresh, peek)
          [] OTHER -> Answer("request", p.headers.fields) IN
  [parser |-> result.parser, fresh |-> peek = "none",
   event |-> result.event]

-----------------------------------------------------------------------------
(* The client and the network *)

(* Units that make sense, or are a typical error, for what was sent. *)
Offer(p) ==
  CASE p.line # "valid" -> Eol \cup {"word", "ws", "version", "bad"}
    [] p.line = "valid" /\ ~ p.headers.valid ->
         Eol \cup Names \cup {"ws", "bad"}
    [] p.headers.valid /\ p.chunk = "trailer" ->
         Eol \cup {"other", "ws", "bad"}
    [] OTHER -> Eol \cup Digits \cup {"word", "ws", "semi", "bad"}

Open(receiver) == receiver.event.kind # "invalid"

(* The client sends, after it has waited for an answer. *)
Send ==
  /\ next = "none" /\ Open(rx) /\ Open(whole)
  /\ next' \in Offer(whole.parser)
  /\ UNCHANGED <<rx, whole>>

(* Where a cut between the unit just received and the next one makes a     *)
(* difference: at the end of a header line or before its continuation,     *)
(* between the line ends of a malformed one, after a byte that is wrong.   *)
HeaderCut(h, peek) ==
  \/ h.field # "name" /\ peek \in Eol
  \/ h.field = "space" /\ peek = "ws"
  \/ h.cr /\ peek # "lf"
Harmful(receiver, peek) ==
  LET p == receiver.parser IN
  \/ ~ Open(receiver)
  \/ p.line = "valid" /\ ~ p.headers.valid /\ HeaderCut(p.headers, peek)
  \/ p.chunk = "trailer" /\ HeaderCut(p.trailers, peek)
  \/ p.chunk = "dataLf" /\ peek # "lf"

(* What the client may send after the unit just received: it waits for the *)
(* answer to a whole request, and may wait for 100-continue.  One that has *)
(* not asked for it, or does not wait, sends its chunks at once.           *)
Follow(receiver) ==
  CASE receiver.event.kind \in {"request", "lastChunk"} ->
         IF /\ receiver.event.kind = "request"
            /\ "chunked" \in receiver.event.fields
         THEN Digits ELSE {"none"}
    [] receiver.event.kind = "tooLarge" -> Digits \cup {"none"}
    [] receiver.event.kind = "continue" ->
         Offer(receiver.parser) \cup {"none"}
    [] OTHER -> Offer(receiver.parser)

(* Both parsers receive the next unit.  For rx it may be the last one of a *)
(* packet.                                                                 *)
ReceiveNext ==
  /\ next # "none" /\ Open(rx) /\ Open(whole)
  /\ \E peek \in Follow(Receive(whole, next, "none")) :
       /\ next' = peek
       /\ whole' = Receive(whole, next, peek)
       /\ \E cut \in BOOLEAN :
            /\ cut => Anywhere \/ ~ Harmful(whole', peek)
            /\ rx' = Receive(rx, next, IF cut THEN "none" ELSE peek)

Next == Send \/ ReceiveNext

Spec == Init /\ [][Next]_vars

-----------------------------------------------------------------------------
(* Properties *)

HeaderStates ==
  {h \in [fields : SUBSET Names,
          field : {"name", "space", "value", "lf", "error"},
          name : Names \cup {"none"}, blanks : 0 .. MaxWhitespace + 1,
          cr : BOOLEAN, valid : BOOLEAN] :
     h.field # "name" => h.name \in Names}
ParserStates ==
  [line : {"method", "methodRead", "uri", "uriRead", "http", "cr", "lf",
           "valid"},
   ws : (0 .. MaxWhitespace) \cup {1}, headers : HeaderStates,
   continued : BOOLEAN,
   chunk : {"blank", "size", "extBlank", "ext", "lf", "trailer", "data",
            "dataEnd", "dataLf", "error"},
   blanks : 0 .. MaxWhitespace + 1, digits : 0 .. MaxDigits + 1,
   size : 0 .. 2, trailers : HeaderStates]
Events ==
  [kind : {"none", "request", "continue", "tooLarge", "chunk", "lastChunk",
           "invalid"},
   fields : SUBSET Names]
Receivers == [parser : ParserStates, fresh : BOOLEAN, event : Events]

(* Both parsers are in a state of their type. *)
TypeOK ==
  rx \in Receivers /\ whole \in Receivers /\ next \in Units \cup {"none"}

(* What a packet boundary splits makes no difference: after every unit     *)
(* the server has been told the same as if nothing had been split.         *)
SplitAgrees == rx.event = whole.event

(* A request that is accepted when it comes as one packet is accepted      *)
(* alike when it is split: only the blank line ends the header.            *)
SplitAccepted == Open(whole) => rx.event = whole.event

(* A request that is handed to the program names its host, has no more     *)
(* fields than are allowed and, unless it comes in chunks, announces a     *)
(* body that is not too long or none, split or not; one that is told to    *)
(* continue is not too long either.  (Cut after a byte that is wrong the   *)
(* excess field would be missed: see Harmful.)                             *)
AcceptedIsLegal ==
  LET fields == rx.event.fields IN
  rx.event.kind \in {"request", "continue"} =>
    /\ "host" \in fields /\ Cardinality(fields) <= MaxHeaders
    /\ "chunked" \notin fields => fields \cap {"long", "wrong"} = {}
    /\ rx.event.kind = "continue" => "long" \notin fields

=============================================================================
