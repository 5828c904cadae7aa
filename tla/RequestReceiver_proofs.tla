---------------------- MODULE RequestReceiver_proofs ----------------------
(***************************************************************************)
(* Proofs about RequestReceiver: types, what splitting a request into      *)
(* packets may change, and what an accepted request has, for any limits.   *)
(***************************************************************************)
EXTENDS RequestReceiver, FiniteSetTheorems, TLAPS

(* A header and a request line stay well typed. *)
Results ==
  [headers : HeaderStates, error : {"none", "missed", "noticed"}]
Outcomes == [parser : ParserStates, event : Events]

LEMMA ZeroBounds == 0 \in 0 .. MaxWhitespace + 1 /\ 0 \in 0 .. MaxDigits + 1
BY LimitsAssumption

LEMMA ClearedTyped == Cleared \in ParserStates
<1>1. ClearedHeaders \in HeaderStates
  BY ZeroBounds, LimitsAssumption DEF ClearedHeaders, HeaderStates
<1>2. 0 \in 0 .. MaxWhitespace
  BY LimitsAssumption
<1>3. QED
  BY <1>1, <1>2, ZeroBounds DEF Cleared, ParserStates

LEMMA NoEventTyped == NoEvent \in Events
BY DEF NoEvent, Events

LEMMA CountBounds ==
  ASSUME NEW limit \in Nat, NEW n \in 0 .. limit + 1
  PROVE  Count(n, limit) \in 0 .. limit + 1
BY DEF Count

LEMMA AddTyped ==
  ASSUME NEW fields \in SUBSET Names, NEW name \in Names
  PROVE  Add(fields, name) \in SUBSET Names
BY DEF Add, Names, Lengths

LEMMA AddFieldTyped ==
  ASSUME NEW h \in HeaderStates, h.field # "name"
  PROVE  Added(h) \in HeaderStates /\ AddField(h) \in Results
<1>1. Add(h.fields, h.name) \in SUBSET Names
  BY AddTyped DEF HeaderStates
<1>2. Added(h) \in HeaderStates
  BY <1>1, ZeroBounds DEF HeaderStates, Added
<1>3. QED
  BY <1>2 DEF AddField, Missed, More, Results

LEMMA SkipBlankTyped ==
  ASSUME NEW h \in HeaderStates, h.field = "space"
  PROVE  SkipBlank(h) \in Results
<1> DEFINE q == [h EXCEPT !.blanks = Count(@, MaxWhitespace)]
<1>1. Count(h.blanks, MaxWhitespace) \in 0 .. MaxWhitespace + 1
  BY CountBounds, LimitsAssumption DEF HeaderStates
<1>2. q \in HeaderStates /\ [q EXCEPT !.field = "error"] \in HeaderStates
  BY <1>1 DEF HeaderStates
<1> HIDE DEF q
<1>3. More(q) \in Results /\ Missed([q EXCEPT !.field = "error"]) \in Results
  BY <1>2 DEF More, Missed, Results
<1>4. QED
  BY <1>3 DEF SkipBlank, q

LEMMA LongerTyped ==
  ASSUME NEW h \in HeaderStates, h.field # "name",
         NEW state \in {"space", "value"}
  PROVE  Longer(h, state) \in HeaderStates
BY DEF HeaderStates, Longer, Names, Lengths

(* What becomes of a field, case by case. *)
LEMMA ParseFieldCases ==
  ASSUME NEW h \in HeaderStates, NEW u, NEW peek
  PROVE  LET r == ParseField(h, u, peek) IN
         \/ /\ h.field = "name" /\ u \in Names
            /\ r = More([h EXCEPT
                           !.field = IF u = "other" THEN "space" ELSE "value",
                           !.name = u])
         \/ h.field = "space" /\ u = "ws" /\ r = SkipBlank(h)
         \/ h.field # "name" /\ r = More(Longer(h, "value"))
         \/ h.field # "name" /\ r = More([h EXCEPT !.field = "lf"])
         \/ /\ h.field # "name" /\ u = "lf" /\ peek = "ws"
            /\ r = More(Longer(h, "space"))
         \/ h.field # "name" /\ u = "lf" /\ peek # "ws" /\ r = AddField(h)
         \/ r = Missed(h)
<1> DEFINE r == ParseField(h, u, peek)
<1>1. CASE h.field = "name"
  BY <1>1 DEF ParseField
<1>2. CASE h.field = "space" /\ u = "ws"
  BY <1>2 DEF ParseField
<1>3. CASE h.field \in {"space", "value", "lf"} /\ u = "lf"
  <2>1. r = IF peek = "ws" THEN More(Longer(h, "space")) ELSE AddField(h)
    BY <1>3 DEF ParseField, Eol
  <2>2. QED
    BY <1>3, <2>1
<1>4. CASE h.field \in {"space", "value"} /\ u = "cr"
  BY <1>4 DEF ParseField, Eol
<1>5. CASE \/ h.field = "space" /\ u \notin Eol \cup {"ws"}
           \/ h.field = "value" /\ u \notin Eol
  BY <1>5 DEF ParseField, Eol
<1>6. CASE h.field = "error" \/ (h.field = "lf" /\ u # "lf")
  BY <1>6 DEF ParseField
<1>7. QED
  BY <1>1, <1>2, <1>3, <1>4, <1>5, <1>6 DEF HeaderStates, Eol

(* Only the end of a line adds a field; the end of the header is not seen  *)
(* here.                                                                   *)
LEMMA FieldKept ==
  ASSUME NEW h \in HeaderStates, NEW u, NEW peek
  PROVE  LET r == ParseField(h, u, peek) IN
         \/ r.headers.fields = h.fields /\ r.headers.valid = h.valid
         \/ h.field # "name" /\ r = AddField(h)
<1> DEFINE r == ParseField(h, u, peek)
<1> DEFINE Kept(q) == q.fields = h.fields /\ q.valid = h.valid
<1> DEFINE named == [h EXCEPT
                      !.field = IF u = "other" THEN "space" ELSE "value",
                      !.name = u]
<1>1. Kept(named) /\ Kept([h EXCEPT !.field = "lf"]) /\ Kept(h)
  BY DEF HeaderStates
<1>2. Kept(Longer(h, "value")) /\ Kept(Longer(h, "space"))
  BY DEF Longer, HeaderStates
<1>3. Kept(SkipBlank(h).headers)
  BY DEF SkipBlank, More, Missed, HeaderStates
<1>4. \/ \E q \in {named, Longer(h, "value"), Longer(h, "space"),
                  [h EXCEPT !.field = "lf"]} : r = More(q)
      \/ r = SkipBlank(h) \/ r = Missed(h)
      \/ h.field # "name" /\ r = AddField(h)
  BY ParseFieldCases
<1> HIDE DEF r, named
<1>5. Kept(r.headers) \/ (h.field # "name" /\ r = AddField(h))
  <2>1. \A q : More(q).headers = q /\ Missed(q).headers = q
    BY DEF More, Missed
  <2> HIDE DEF Kept
  <2>2. QED
    BY <1>1, <1>2, <1>3, <1>4, <2>1
<1>6. QED
  BY <1>5 DEF r

LEMMA ParseFieldTyped ==
  ASSUME NEW h \in HeaderStates, NEW u, NEW peek
  PROVE  ParseField(h, u, peek) \in Results
<1> DEFINE r == ParseField(h, u, peek)
<1>1. ASSUME h.field = "name", u \in Names
      PROVE  More([h EXCEPT !.field = IF u = "other" THEN "space" ELSE "value",
                            !.name = u]) \in Results
  BY <1>1 DEF HeaderStates, More, Results
<1>2. h.field # "name" =>
        More(Longer(h, "value")) \in Results
          /\ More(Longer(h, "space")) \in Results
  BY LongerTyped DEF More, Results
<1>3. h.field # "name" => More([h EXCEPT !.field = "lf"]) \in Results
  BY DEF HeaderStates, More, Results
<1>4. Missed(h) \in Results
  BY DEF Missed, Results
<1> HIDE DEF r
<1>5. QED
  BY <1>1, <1>2, <1>3, <1>4, AddFieldTyped, SkipBlankTyped, ParseFieldCases

LEMMA ParseHeadersTyped ==
  ASSUME NEW h \in HeaderStates, NEW u, NEW fresh, NEW peek
  PROVE  ParseHeaders(h, u, fresh, peek) \in Results
<1>1. [h EXCEPT !.cr = FALSE] \in HeaderStates
  BY DEF HeaderStates
<1>2. ParseField([h EXCEPT !.cr = FALSE], u, peek) \in Results
  BY <1>1, ParseFieldTyped
<1>3. /\ More([h EXCEPT !.cr = FALSE, !.valid = TRUE]) \in Results
      /\ Noticed(h) \in Results
      /\ More([h EXCEPT !.cr = (u = "cr"), !.valid = (u = "lf")]) \in Results
  BY DEF HeaderStates, Results, More, Noticed
<1>4. QED
  BY <1>2, <1>3 DEF ParseHeaders

LEMMA LineTyped ==
  ASSUME NEW p \in ParserStates, NEW u, NextLine(p, u).line # "fail"
  PROVE  [p EXCEPT !.line = NextLine(p, u).line, !.ws = NextLine(p, u).ws]
           \in ParserStates
<1> DEFINE r == NextLine(p, u)
<1>1. /\ r.line \in {"methodRead", "uri", "uriRead", "http", "cr", "lf",
                     "valid"}
      /\ r.ws \in (0 .. MaxWhitespace) \cup {1}
  <2> DEFINE Good(x) ==
               /\ x.line \in {"methodRead", "uri", "uriRead", "http", "cr",
                              "lf", "valid"}
               /\ x.ws \in (0 .. MaxWhitespace) \cup {1}
  <2> DEFINE n == p.ws + 1
  <2>1. p.ws \in (0 .. MaxWhitespace) \cup {1} /\ p.ws \in Nat
    BY DEF ParserStates
  <2>2. MaxWhitespace \in Nat /\ n \in Nat
    BY <2>1, LimitsAssumption
  <2>3. ~ (n > MaxWhitespace) => n \in 0 .. MaxWhitespace
    BY <2>2
  <2>4. 0 \in 0 .. MaxWhitespace
    BY <2>2
  <2> HIDE DEF n
  <2>5. \A line \in {"uri", "http"} :
          Blank(line, n).line # "fail" => Good(Blank(line, n))
    BY <2>3 DEF Blank, LineState, Fail
  <2>6. CASE u = "ws"
    <3>1. \/ r = LineState("uri", 1) \/ r = Fail \/ r = LineState("http", 1)
          \/ r = Blank("uri", n) \/ r = Blank("http", n)
      BY <2>6 DEF NextLine, n
    <3>2. QED
      BY <2>5, <3>1 DEF LineState, Fail
  <2>7. CASE u # "ws"
    BY <2>1, <2>4, <2>7 DEF NextLine, LineState, Fail
  <2>8. QED
    BY <2>6, <2>7
<1> HIDE DEF r
<1>2. [p EXCEPT !.line = r.line, !.ws = r.ws] \in ParserStates
  BY <1>1 DEF ParserStates
<1>3. QED
  BY <1>2 DEF r

(* What the parser is told makes it a well-typed parser and event.         *)
LEMMA InvalidTyped == Invalid \in Outcomes
BY ClearedTyped DEF Invalid, Answer, Continue, Outcomes, Events

LEMMA HeaderReadTyped ==
  ASSUME NEW p \in ParserStates, NEW more
  PROVE  HeaderRead(p, more) \in Outcomes
<1>1. p.headers.fields \in SUBSET Names
  BY DEF ParserStates, HeaderStates
<1>2. [p EXCEPT !.continued = TRUE] \in ParserStates
  BY DEF ParserStates
<1>3. \A kind \in {"request", "tooLarge", "continue"}, q \in ParserStates :
        Continue(q, kind, p.headers.fields) \in Outcomes
  BY <1>1 DEF Continue, Outcomes, Events
<1>4. Incomplete(p) \in Outcomes
  BY NoEventTyped DEF Incomplete, Outcomes
<1>5. /\ Continue([p EXCEPT !.continued = TRUE], "continue",
                  p.headers.fields) \in Outcomes
      /\ Answer("request", p.headers.fields) \in Outcomes
      /\ Answer("tooLarge", p.headers.fields) \in Outcomes
  BY <1>2, <1>3, ClearedTyped DEF Answer
<1>6. QED
  BY <1>4, <1>5, InvalidTyped DEF HeaderRead

LEMMA ChunkReadTyped ==
  ASSUME NEW p \in ParserStates
  PROVE  ChunkRead(p) \in Outcomes
<1>1. p.headers.fields \in SUBSET Names
  BY DEF ParserStates, HeaderStates
<1>2. [p EXCEPT !.chunk = "blank", !.blanks = 0, !.digits = 0, !.size = 0]
        \in ParserStates
  <2> DEFINE q == [p EXCEPT !.blanks = 0, !.digits = 0]
  <2>1. q \in ParserStates
    BY ZeroBounds DEF ParserStates
  <2> HIDE DEF q
  <2>2. [q EXCEPT !.size = 0] \in ParserStates
    BY <2>1 DEF ParserStates
  <2> DEFINE t == [q EXCEPT !.size = 0]
  <2> HIDE DEF t
  <2>3. [t EXCEPT !.chunk = "blank"] \in ParserStates
    BY <2>2 DEF ParserStates, t
  <2>4. [t EXCEPT !.chunk = "blank"]
          = [p EXCEPT !.chunk = "blank", !.blanks = 0, !.digits = 0,
                      !.size = 0]
    BY DEF ParserStates, q, t
  <2>5. QED
    BY <2>3, <2>4
<1>3. QED
  BY <1>1, <1>2, ClearedTyped
     DEF ChunkRead, Answer, Continue, Outcomes, Events

LEMMA IncompleteTyped ==
  ASSUME NEW p \in ParserStates
  PROVE  Incomplete(p) \in Outcomes
BY NoEventTyped DEF Incomplete, Outcomes

LEMMA ReceiveHeaderTyped ==
  ASSUME NEW p \in ParserStates, NEW u, NEW fresh, NEW peek
  PROVE  ReceiveHeader(p, u, fresh, peek) \in Outcomes
<1> DEFINE result == ParseHeaders(p.headers, u, fresh, peek)
<1> DEFINE q == [p EXCEPT !.headers = result.headers]
<1>1. p.headers \in HeaderStates
  BY DEF ParserStates
<1>2. result.headers \in HeaderStates
  BY <1>1, ParseHeadersTyped DEF Results
<1> HIDE DEF result
<1>3. q \in ParserStates
  BY <1>2 DEF ParserStates
<1> HIDE DEF q
<1>4. /\ HeaderRead(q, peek # "none") \in Outcomes
      /\ Incomplete(q) \in Outcomes
  BY <1>3, HeaderReadTyped, IncompleteTyped
<1>5. QED
  BY <1>4, InvalidTyped DEF ReceiveHeader, result, q

LEMMA ReceiveTrailerTyped ==
  ASSUME NEW p \in ParserStates, NEW u, NEW fresh, NEW peek
  PROVE  ReceiveTrailer(p, u, fresh, peek) \in Outcomes
<1> DEFINE result == ParseHeaders(p.trailers, u, fresh, peek)
<1> DEFINE q == [p EXCEPT !.trailers = result.headers]
<1>1. p.trailers \in HeaderStates
  BY DEF ParserStates
<1>2. result.headers \in HeaderStates
  BY <1>1, ParseHeadersTyped DEF Results
<1> HIDE DEF result
<1>3. q \in ParserStates
  BY <1>2 DEF ParserStates
<1> HIDE DEF q
<1>4. ChunkRead(q) \in Outcomes /\ Incomplete(q) \in Outcomes
  BY <1>3, ChunkReadTyped, IncompleteTyped
<1>5. QED
  BY <1>4, InvalidTyped DEF ReceiveTrailer, result, q

LEMMA ChunkMoves ==
  ASSUME NEW p \in ParserStates,
         NEW state \in {"blank", "size", "extBlank", "ext", "lf", "trailer",
                        "data", "dataEnd", "dataLf", "error"}
  PROVE  [p EXCEPT !.chunk = state] \in ParserStates
BY DEF ParserStates

Headers == [parser : ParserStates, ok : BOOLEAN]

LEMMA ChunkDigitTyped ==
  ASSUME NEW p \in ParserStates, NEW u
  PROVE  ChunkDigit(p, u) \in Headers
<1> DEFINE size == IF p.size # 0 THEN 2 ELSE IF u = "size1" THEN 1 ELSE 0
<1> DEFINE digits == Count(p.digits, MaxDigits)
<1> DEFINE q == [p EXCEPT !.digits = digits, !.size = size]
<1>1. digits \in 0 .. MaxDigits + 1
  BY CountBounds, LimitsAssumption DEF ParserStates
<1>2. size \in 0 .. 2
  OBVIOUS
<1> HIDE DEF digits, size
<1>3. q \in ParserStates
  BY <1>1, <1>2 DEF ParserStates
<1> HIDE DEF q
<1>4. /\ [q EXCEPT !.chunk = "error"] \in ParserStates
      /\ [q EXCEPT !.chunk = "size"] \in ParserStates
  BY <1>3, ChunkMoves
<1>5. /\ Refused([q EXCEPT !.chunk = "error"]) \in Headers
      /\ Accepted([q EXCEPT !.chunk = "size"]) \in Headers
  BY <1>4 DEF Refused, Accepted, Headers
<1>6. QED
  BY <1>5 DEF ChunkDigit, q, digits, size

LEMMA ChunkBlankTyped ==
  ASSUME NEW p \in ParserStates
  PROVE  ChunkBlank(p) \in Headers
<1> DEFINE q == [p EXCEPT !.blanks = Count(@, MaxWhitespace)]
<1>1. Count(p.blanks, MaxWhitespace) \in 0 .. MaxWhitespace + 1
  BY CountBounds, LimitsAssumption DEF ParserStates
<1>2. q \in ParserStates
  BY <1>1 DEF ParserStates
<1>3. [q EXCEPT !.chunk = IF @ = "blank" THEN "error" ELSE @] \in ParserStates
  BY <1>2 DEF ParserStates
<1> HIDE DEF q
<1>4. /\ Refused([q EXCEPT !.chunk = IF @ = "blank" THEN "error" ELSE @])
            \in Headers
      /\ Accepted(q) \in Headers
  BY <1>2, <1>3 DEF Refused, Accepted, Headers
<1>5. QED
  BY <1>4 DEF ChunkBlank, q

LEMMA ChunkSizeTyped ==
  ASSUME NEW p \in ParserStates, NEW u
  PROVE  ChunkSize(p, u) \in Headers
<1>1. /\ [p EXCEPT !.chunk = "error"] \in ParserStates
      /\ [p EXCEPT !.chunk = "lf"] \in ParserStates
      /\ [p EXCEPT !.chunk = Body(p)] \in ParserStates
  BY ChunkMoves DEF Body
<1>2. [p EXCEPT !.chunk = "extBlank", !.blanks = 0] \in ParserStates
  BY ZeroBounds DEF ParserStates
<1>3. QED
  BY <1>1, <1>2 DEF ChunkSize, Refused, Accepted, Headers

LEMMA ChunkHeaderTyped ==
  ASSUME NEW p \in ParserStates, NEW u
  PROVE  ChunkHeader(p, u) \in Headers
<1>1. /\ \A state \in {"size", "ext", "lf"} :
            [p EXCEPT !.chunk = state] \in ParserStates
      /\ [p EXCEPT !.chunk = Body(p)] \in ParserStates
  BY ChunkMoves DEF Body
<1>2. /\ \A state \in {"ext", "lf"} :
            Accepted([p EXCEPT !.chunk = state]) \in Headers
      /\ Accepted([p EXCEPT !.chunk = Body(p)]) \in Headers
      /\ Refused([p EXCEPT !.chunk = "size"]) \in Headers
      /\ Refused(p) \in Headers
  BY <1>1 DEF Accepted, Refused, Headers
<1>3. QED
  BY <1>2, ChunkDigitTyped, ChunkBlankTyped, ChunkSizeTyped DEF ChunkHeader

LEMMA ReceiveChunkTyped ==
  ASSUME NEW p \in ParserStates, NEW u, NEW fresh, NEW peek
  PROVE  ReceiveChunk(p, u, fresh, peek) \in Outcomes
<1>1. \A state \in {"dataEnd", "dataLf"} :
        Incomplete([p EXCEPT !.chunk = state]) \in Outcomes
  BY ChunkMoves, IncompleteTyped
<1>2. Incomplete(ChunkHeader(p, u).parser) \in Outcomes
  BY ChunkHeaderTyped, IncompleteTyped DEF Headers
<1>3. ChunkDataEnd(p, u, fresh) \in Outcomes
  BY <1>1, ChunkReadTyped, InvalidTyped DEF ChunkDataEnd
<1>4. QED
  BY <1>1, <1>2, <1>3, ReceiveTrailerTyped, InvalidTyped DEF ReceiveChunk

LEMMA ReceiveTyped ==
  ASSUME NEW receiver \in Receivers, NEW u, NEW peek
  PROVE  Receive(receiver, u, peek) \in Receivers
<1> DEFINE p == receiver.parser
<1>1. p \in ParserStates
  BY DEF Receivers
<1> HIDE DEF p
<1>2. ReceiveLine(p, u) \in Outcomes
  BY <1>1, LineTyped, IncompleteTyped, InvalidTyped DEF ReceiveLine
<1>3. /\ ReceiveHeader(p, u, receiver.fresh, peek) \in Outcomes
      /\ ReceiveChunk(p, u, receiver.fresh, peek) \in Outcomes
  BY <1>1, ReceiveHeaderTyped, ReceiveChunkTyped
<1>4. Answer("request", p.headers.fields) \in Outcomes
  BY <1>1, ClearedTyped
     DEF Answer, Continue, Outcomes, Events, ParserStates, HeaderStates
<1>5. QED
  BY <1>2, <1>3, <1>4 DEF Receive, Outcomes, Receivers, p

-----------------------------------------------------------------------------
(* Types                                                                   *)

LEMMA OfferUnits == \A p : Offer(p) \subseteq Units
BY DEF Offer, Units, Eol, Names, Lengths, Digits

LEMMA FollowUnits == \A r : Follow(r) \subseteq Units \cup {"none"}
BY OfferUnits DEF Follow, Units, Digits

LEMMA TypeInit == Init => TypeOK
BY ClearedTyped, NoEventTyped DEF Init, TypeOK, Receiver, Receivers

LEMMA TypeNext == TypeOK /\ [Next]_vars => TypeOK'
<1> SUFFICES ASSUME TypeOK, [Next]_vars PROVE TypeOK'
  OBVIOUS
<1>1. CASE Send
  BY <1>1, OfferUnits DEF Send, TypeOK
<1>2. CASE ReceiveNext
  BY <1>2, FollowUnits, ReceiveTyped DEF ReceiveNext, TypeOK
<1>3. CASE UNCHANGED vars
  BY <1>3 DEF vars, TypeOK
<1>4. QED
  BY <1>1, <1>2, <1>3 DEF Next

(* Both parsers are always in a state of their type. *)
THEOREM ReceiverTypes == Spec => []TypeOK
BY TypeInit, TypeNext, PTL DEF Spec

-----------------------------------------------------------------------------
(* Where a packet ends makes no difference                                 *)

(* What a parser makes of a unit. *)
Result(p, u, fresh, peek) ==
  CASE p.line # "valid" -> ReceiveLine(p, u)
    [] p.line = "valid" /\ ~ p.headers.valid ->
         ReceiveHeader(p, u, fresh, peek)
    [] p.line = "valid" /\ p.headers.valid /\ p.continued ->
         ReceiveChunk(p, u, fresh, peek)
    [] OTHER -> Answer("request", p.headers.fields)

LEMMA ReceiveIs ==
  \A receiver, u, peek :
    Receive(receiver, u, peek) =
      [parser |-> Result(receiver.parser, u, receiver.fresh, peek).parser,
       fresh |-> peek = "none",
       event |-> Result(receiver.parser, u, receiver.fresh, peek).event]
BY DEF Receive, Result

(* A cut before the unit that makes no difference: Harmful of the parser.  *)
CutBefore(p, u) ==
  /\ p.line = "valid" /\ ~ p.headers.valid => ~ HeaderCut(p.headers, u)
  /\ p.chunk = "trailer" => ~ HeaderCut(p.trailers, u)
  /\ p.chunk = "dataLf" => u = "lf"

LEMMA HeadersFresh ==
  ASSUME NEW h \in HeaderStates, NEW u, NEW peek, ~ HeaderCut(h, u)
  PROVE  ParseHeaders(h, u, TRUE, peek) = ParseHeaders(h, u, FALSE, peek)
<1>1. CASE u = "lf"
  BY <1>1 DEF ParseHeaders, HeaderCut, HeaderStates, Eol, More
<1>2. CASE u # "lf"
  BY <1>2 DEF ParseHeaders, HeaderCut, HeaderStates, Eol
<1>3. QED
  BY <1>1, <1>2

LEMMA ResultFresh ==
  ASSUME NEW p \in ParserStates, NEW u, NEW peek, CutBefore(p, u)
  PROVE  Result(p, u, TRUE, peek) = Result(p, u, FALSE, peek)
<1>1. p.headers \in HeaderStates /\ p.trailers \in HeaderStates
  BY DEF ParserStates
<1>2. CASE p.line = "valid" /\ ~ p.headers.valid
  <2>1. ParseHeaders(p.headers, u, TRUE, peek)
          = ParseHeaders(p.headers, u, FALSE, peek)
    BY <1>1, <1>2, HeadersFresh DEF CutBefore
  <2>2. ReceiveHeader(p, u, TRUE, peek) = ReceiveHeader(p, u, FALSE, peek)
    BY <2>1 DEF ReceiveHeader
  <2>3. QED
    BY <1>2, <2>2 DEF Result
<1>3. CASE p.line = "valid" /\ p.headers.valid /\ p.continued
  <2>1. ReceiveChunk(p, u, TRUE, peek) = ReceiveChunk(p, u, FALSE, peek)
    <3>1. CASE p.chunk = "trailer"
      <4>1. ParseHeaders(p.trailers, u, TRUE, peek)
              = ParseHeaders(p.trailers, u, FALSE, peek)
        BY <1>1, <3>1, HeadersFresh DEF CutBefore
      <4>2. ReceiveTrailer(p, u, TRUE, peek)
              = ReceiveTrailer(p, u, FALSE, peek)
        BY <4>1 DEF ReceiveTrailer
      <4>3. QED
        BY <3>1, <4>2 DEF ReceiveChunk
    <3>2. CASE p.chunk \in {"dataEnd", "dataLf"}
      <4>1. ChunkDataEnd(p, u, TRUE) = ChunkDataEnd(p, u, FALSE)
        BY <3>2 DEF ChunkDataEnd, CutBefore
      <4>2. QED
        BY <3>2, <4>1 DEF ReceiveChunk
    <3>3. CASE p.chunk \notin {"trailer", "dataEnd", "dataLf"}
      BY <3>3 DEF ReceiveChunk
    <3>4. QED
      BY <3>1, <3>2, <3>3
  <2>2. QED
    BY <1>3, <2>1 DEF Result
<1>4. CASE p.line # "valid"
  BY <1>4 DEF Result
<1>5. CASE p.line = "valid" /\ p.headers.valid /\ ~ p.continued
  BY <1>5 DEF Result
<1>6. QED
  BY <1>2, <1>3, <1>4, <1>5

(* ... and on the boundary after it.                                       *)
LEMMA HeadersPeek ==
  ASSUME NEW h \in HeaderStates, NEW u, NEW fresh, NEW peek, ~ h.valid,
         LET r == ParseHeaders(h, u, fresh, peek)
         IN  r.headers.valid \/ ~ HeaderCut(r.headers, peek)
  PROVE  ParseHeaders(h, u, fresh, "none") = ParseHeaders(h, u, fresh, peek)
<1> DEFINE g == [h EXCEPT !.cr = FALSE]
<1>1. g \in HeaderStates /\ ~ g.valid
  BY DEF HeaderStates
<1> HIDE DEF g
<1>2. CASE ParseHeaders(h, u, fresh, peek) = ParseField(g, u, peek)
           /\ ParseHeaders(h, u, fresh, "none") = ParseField(g, u, "none")
  <2>1. CASE u = "lf" /\ peek = "ws" /\ g.field # "name"
             /\ ParseField(g, u, peek) = More(Longer(g, "space"))
    <3>1. /\ Longer(g, "space").field = "space"
          /\ ~ Longer(g, "space").valid
      BY <1>1 DEF Longer, HeaderStates
    <3>2. QED
      BY <1>2, <2>1, <3>1 DEF HeaderCut, More
  <2>2. CASE ~ (u = "lf" /\ peek = "ws")
    <3>1. ParseField(g, u, peek) = ParseField(g, u, "none")
      BY <2>2 DEF ParseField
    <3>2. QED
      BY <1>2, <3>1
  <2>3. CASE u = "lf" /\ peek = "ws"
             /\ ParseField(g, u, peek) # More(Longer(g, "space"))
    <3>1. g.field \notin {"space", "value", "lf"}
      BY <2>3 DEF ParseField, Eol
    <3>2. ParseField(g, u, peek) = ParseField(g, u, "none")
      BY <2>3, <3>1 DEF ParseField
    <3>3. QED
      BY <1>2, <3>2
  <2>4. CASE u = "lf" /\ peek = "ws" /\ g.field = "name"
    <3>1. ParseField(g, u, peek) = ParseField(g, u, "none")
      BY <2>4 DEF ParseField
    <3>2. QED
      BY <1>2, <3>1
  <2>5. QED
    BY <2>1, <2>2, <2>3, <2>4
<1>3. CASE (h.cr /\ ~ fresh)
           \/ (u \in Eol /\ (fresh \/ h.field = "name") /\ ~ (h.cr /\ ~ fresh))
  BY <1>3 DEF ParseHeaders
<1>4. CASE ~ (h.cr /\ ~ fresh)
           /\ ~ (u \in Eol /\ (fresh \/ h.field = "name")
                 /\ ~ (h.cr /\ ~ fresh))
  BY <1>2, <1>4 DEF ParseHeaders, g
<1>5. QED
  BY <1>3, <1>4

(* Trailers are only parsed after the last chunk, and never parsed twice. *)
Tidy(p) == (p.chunk = "trailer" => p.size = 0) /\ ~ p.trailers.valid

LEMMA InvalidSeen == Invalid.event.kind = "invalid"
BY DEF Invalid, Answer, Continue

LEMMA HeaderPeek ==
  ASSUME NEW p \in ParserStates, NEW u, NEW fresh, NEW peek,
         peek # "none", p.line = "valid", ~ p.headers.valid,
         ReceiveHeader(p, u, fresh, peek).event.kind # "invalid",
         CutBefore(ReceiveHeader(p, u, fresh, peek).parser, peek)
  PROVE  ReceiveHeader(p, u, fresh, "none")
           = ReceiveHeader(p, u, fresh, peek)
<1> DEFINE r == ParseHeaders(p.headers, u, fresh, peek)
<1> DEFINE q == [p EXCEPT !.headers = r.headers]
<1>1. p.headers \in HeaderStates /\ r \in Results
  BY ParseHeadersTyped DEF ParserStates
<1>2. ReceiveHeader(p, u, fresh, peek) =
        IF r.error # "none" THEN Invalid
        ELSE IF r.headers.valid THEN HeaderRead(q, TRUE) ELSE Incomplete(q)
  BY <1>1 DEF ReceiveHeader, ErrorSeen, Results
<1>3. r.error = "none"
  BY <1>2, InvalidSeen
<1>4. q.line = "valid" /\ q.headers = r.headers
  BY <1>1 DEF ParserStates
<1>5. r.headers.valid \/ ~ HeaderCut(r.headers, peek)
  <2>1. SUFFICES ASSUME ~ r.headers.valid PROVE ~ HeaderCut(r.headers, peek)
    OBVIOUS
  <2>2. ReceiveHeader(p, u, fresh, peek).parser = q
    BY <1>2, <1>3, <2>1 DEF Incomplete
  <2>3. QED
    BY <1>4, <2>1, <2>2 DEF CutBefore
<1>6. ParseHeaders(p.headers, u, fresh, "none") = r
  BY <1>1, <1>5, HeadersPeek
<1>7. ReceiveHeader(p, u, fresh, "none") =
        IF r.headers.valid THEN HeaderRead(q, FALSE) ELSE Incomplete(q)
  BY <1>3, <1>6 DEF ReceiveHeader, ErrorSeen
<1>8. CASE r.headers.valid
  <2>1. HeaderRead(q, TRUE) # Invalid
    BY <1>2, <1>3, <1>8, InvalidSeen
  <2>2. HeaderRead(q, TRUE) = HeaderRead(q, FALSE)
    <3> DEFINE fields == q.headers.fields
    <3>1. CASE /\ "host" \in fields /\ "chunked" \notin fields
               /\ fields \cap Lengths = {}
      BY <2>1, <3>1 DEF HeaderRead
    <3>2. CASE ~ (/\ "host" \in fields /\ "chunked" \notin fields
                  /\ fields \cap Lengths = {})
      <4>1. \/ "host" \notin fields
            \/ {"host", "chunked"} \subseteq fields /\ "expect" \notin fields
            \/ {"host", "chunked", "expect"} \subseteq fields
            \/ "host" \in fields /\ "chunked" \notin fields
                  /\ fields \cap Lengths = {"length"}
            \/ "host" \in fields /\ "chunked" \notin fields
                  /\ fields \cap Lengths \notin {{}, {"length"}}
        BY <3>2
      <4>2. CASE "host" \notin fields
        BY <4>2 DEF HeaderRead
      <4>3. CASE /\ {"host", "chunked"} \subseteq fields
                 /\ "expect" \notin fields
        <5>1. /\ HeaderRead(q, TRUE) = Answer("request", fields)
              /\ HeaderRead(q, FALSE) = Answer("request", fields)
          BY <4>3 DEF HeaderRead
        <5>2. QED
          BY <5>1
      <4>4. CASE {"host", "chunked", "expect"} \subseteq fields
        BY <4>4 DEF HeaderRead
      <4>5. CASE /\ "host" \in fields /\ "chunked" \notin fields
                 /\ fields \cap Lengths = {"length"}
        BY <4>5 DEF HeaderRead
      <4>6. CASE /\ "host" \in fields /\ "chunked" \notin fields
                 /\ fields \cap Lengths \notin {{}, {"length"}}
        BY <4>6 DEF HeaderRead
      <4>7. QED
        BY <4>1, <4>2, <4>3, <4>4, <4>5, <4>6
    <3>3. QED
      BY <3>1, <3>2
  <2>3. QED
    BY <1>2, <1>3, <1>7, <1>8, <2>2
<1>9. CASE ~ r.headers.valid
  BY <1>2, <1>3, <1>7, <1>9
<1>10. QED
  BY <1>8, <1>9

LEMMA TrailerPeek ==
  ASSUME NEW p \in ParserStates, NEW u, NEW fresh, NEW peek,
         peek # "none", p.chunk = "trailer", Tidy(p),
         ReceiveTrailer(p, u, fresh, peek).event.kind # "invalid",
         CutBefore(ReceiveTrailer(p, u, fresh, peek).parser, peek)
  PROVE  ReceiveTrailer(p, u, fresh, "none")
           = ReceiveTrailer(p, u, fresh, peek)
<1> DEFINE r == ParseHeaders(p.trailers, u, fresh, peek)
<1> DEFINE q == [p EXCEPT !.trailers = r.headers]
<1>1. p.trailers \in HeaderStates /\ r \in Results
  BY ParseHeadersTyped DEF ParserStates
<1>2. ReceiveTrailer(p, u, fresh, peek) =
        IF r.error # "none" THEN Invalid
        ELSE IF r.headers.valid THEN ChunkRead(q) ELSE Incomplete(q)
  BY <1>1 DEF ReceiveTrailer, ErrorSeen, Results
<1>3. r.error = "none"
  BY <1>2, InvalidSeen
<1>4. q.chunk = "trailer" /\ q.trailers = r.headers
  BY <1>1 DEF ParserStates
<1>5. r.headers.valid \/ ~ HeaderCut(r.headers, peek)
  <2>1. SUFFICES ASSUME ~ r.headers.valid PROVE ~ HeaderCut(r.headers, peek)
    OBVIOUS
  <2>2. ReceiveTrailer(p, u, fresh, peek).parser = q
    BY <1>2, <1>3, <2>1 DEF Incomplete
  <2>3. QED
    BY <1>4, <2>1, <2>2 DEF CutBefore
<1>6. ParseHeaders(p.trailers, u, fresh, "none") = r
  BY <1>1, <1>5, HeadersPeek DEF Tidy
<1>7. ReceiveTrailer(p, u, fresh, "none") =
        IF r.headers.valid THEN ChunkRead(q) ELSE Incomplete(q)
  BY <1>3, <1>6 DEF ReceiveTrailer, ErrorSeen
<1>8. QED
  BY <1>2, <1>3, <1>7

LEMMA ResultPeek ==
  ASSUME NEW p \in ParserStates, NEW u, NEW fresh, NEW peek,
         peek # "none", Tidy(p),
         Result(p, u, fresh, peek).event.kind # "invalid",
         CutBefore(Result(p, u, fresh, peek).parser, peek)
  PROVE  Result(p, u, fresh, "none") = Result(p, u, fresh, peek)
<1>1. CASE p.line = "valid" /\ ~ p.headers.valid
  <2>1. \A pk : Result(p, u, fresh, pk) = ReceiveHeader(p, u, fresh, pk)
    BY <1>1 DEF Result
  <2>2. QED
    BY <1>1, <2>1, HeaderPeek
<1>2. CASE p.line = "valid" /\ p.headers.valid /\ p.continued
  <2>1. \A pk : Result(p, u, fresh, pk) = ReceiveChunk(p, u, fresh, pk)
    BY <1>2 DEF Result
  <2>2. CASE p.chunk = "trailer"
    <3>1. \A pk :
            ReceiveChunk(p, u, fresh, pk) = ReceiveTrailer(p, u, fresh, pk)
      BY <2>2 DEF ReceiveChunk
    <3>2. QED
      BY <2>1, <2>2, <3>1, TrailerPeek
  <2>3. CASE p.chunk # "trailer"
    <3>1. ReceiveChunk(p, u, fresh, peek) # Invalid
      BY <2>1, InvalidSeen
    <3>2. QED
      BY <2>1, <2>3, <3>1 DEF ReceiveChunk
  <2>4. QED
    BY <2>2, <2>3
<1>3. CASE ~ (p.line = "valid" /\ ~ p.headers.valid)
           /\ ~ (p.line = "valid" /\ p.headers.valid /\ p.continued)
  BY <1>3 DEF Result
<1>4. QED
  BY <1>1, <1>2, <1>3

LEMMA ClearedTidy == Tidy(Cleared) /\ Tidy(Invalid.parser)
BY DEF Tidy, Cleared, ClearedHeaders, Invalid, Answer, Continue

(* The chunk header leaves the rest alone, and the trailer follows only a   *)
(* size of zero.                                                           *)
LEMMA ChunkHeaderKeeps ==
  ASSUME NEW p \in ParserStates, NEW u
  PROVE  LET q == ChunkHeader(p, u).parser IN
         /\ q.headers = p.headers /\ q.trailers = p.trailers
         /\ p.chunk # "trailer" /\ q.chunk = "trailer" => q.size = 0
<1> DEFINE Kept(r) ==
             /\ r.parser.headers = p.headers
             /\ r.parser.trailers = p.trailers
             /\ p.chunk # "trailer" /\ r.parser.chunk = "trailer"
                  => r.parser.size = 0
<1>1. Kept(ChunkBlank(p))
  BY DEF ChunkBlank, Accepted, Refused, ParserStates
<1>2. Kept(ChunkDigit(p, u))
  BY DEF ChunkDigit, Accepted, Refused, ParserStates
<1>3. /\ Kept(Accepted([p EXCEPT !.chunk = Body(p)]))
      /\ \A state \in {"lf", "ext"} :
           Kept(Accepted([p EXCEPT !.chunk = state]))
  BY DEF Accepted, Body, ParserStates
<1>4. Kept(ChunkSize(p, u))
  <2>1. /\ Kept(Refused([p EXCEPT !.chunk = "error"]))
        /\ Kept(Accepted([p EXCEPT !.chunk = "extBlank", !.blanks = 0]))
    BY DEF Accepted, Refused, ParserStates
  <2> HIDE DEF Kept
  <2>2. QED
    BY <1>3, <2>1 DEF ChunkSize
<1>5. Kept(Refused(p)) /\ Kept(Refused([p EXCEPT !.chunk = "size"]))
  BY DEF Refused, ParserStates
<1>6. Kept(ChunkHeader(p, u))
  <2> HIDE DEF Kept
  <2>1. QED
    BY <1>1, <1>2, <1>3, <1>4, <1>5 DEF ChunkHeader
<1>7. QED
  BY <1>6

LEMMA ResultTidy ==
  ASSUME NEW p \in ParserStates, NEW u, NEW fresh, NEW peek, Tidy(p)
  PROVE  Tidy(Result(p, u, fresh, peek).parser)
<1> DEFINE Kept(q) == q.chunk = p.chunk /\ q.size = p.size
                        /\ q.trailers = p.trailers
<1>1. \A q : Kept(q) => Tidy(q)
  BY DEF Tidy
<1>2. CASE p.line # "valid"
  <2> DEFINE q == [p EXCEPT !.line = NextLine(p, u).line,
                            !.ws = NextLine(p, u).ws]
  <2>1. Kept(q)
    BY DEF ParserStates
  <2>2. Tidy(q)
    BY <1>1, <2>1
  <2>3. ReceiveLine(p, u) = Invalid \/ ReceiveLine(p, u) = Incomplete(q)
    BY Zenon DEF ReceiveLine
  <2> HIDE DEF q
  <2>4. Tidy(Incomplete(q).parser)
    BY <2>2 DEF Incomplete
  <2>5. Tidy(ReceiveLine(p, u).parser)
    BY <2>3, <2>4, ClearedTidy
  <2>6. QED
    BY <1>2, <2>5 DEF Result
<1>3. CASE p.line = "valid" /\ ~ p.headers.valid
  <2> DEFINE h == ParseHeaders(p.headers, u, fresh, peek).headers
  <2> DEFINE q == [p EXCEPT !.headers = h]
  <2>1. Kept(q) /\ Kept([q EXCEPT !.continued = TRUE])
    BY DEF ParserStates
  <2>2. Tidy(q) /\ Tidy([q EXCEPT !.continued = TRUE])
    BY <1>1, <2>1
  <2> HIDE DEF q
  <2>3. Tidy(Incomplete(q).parser)
    BY <2>2 DEF Incomplete
  <2>4. \A kind, fields : Tidy(Answer(kind, fields).parser)
    BY ClearedTidy DEF Answer, Continue
  <2>5. \A fields :
          Tidy(Continue([q EXCEPT !.continued = TRUE], "continue",
                        fields).parser)
    BY <2>2 DEF Continue
  <2>6. \A more : Tidy(HeaderRead(q, more).parser)
    BY <2>3, <2>4, <2>5, ClearedTidy DEF HeaderRead
  <2>7. QED
    BY <1>3, <2>3, <2>6, ClearedTidy DEF Result, ReceiveHeader, q
<1>4. CASE p.line = "valid" /\ p.headers.valid /\ p.continued
  <2>1. Tidy(ChunkRead(p).parser)
    BY ClearedTidy DEF ChunkRead, Answer, Continue, Tidy, ParserStates
  <2>2. CASE p.chunk = "trailer"
    <3> DEFINE r == ParseHeaders(p.trailers, u, fresh, peek)
    <3> DEFINE q == [p EXCEPT !.trailers = r.headers]
    <3>1. q.chunk = p.chunk /\ q.size = p.size /\ q.trailers = r.headers
      BY DEF ParserStates
    <3>2. p.size = 0
      BY <2>2 DEF Tidy
    <3>3. Tidy(ChunkRead(q).parser)
      BY <3>1, <3>2, ClearedTidy DEF ChunkRead, Answer, Continue
    <3>4. ~ r.headers.valid => Tidy(Incomplete(q).parser)
      BY <3>1, <3>2 DEF Incomplete, Tidy
    <3> HIDE DEF r, q
    <3>5. Tidy(ReceiveTrailer(p, u, fresh, peek).parser)
      <4>1. ReceiveTrailer(p, u, fresh, peek) =
              CASE ErrorSeen(r, peek # "none") -> Invalid
                [] ~ ErrorSeen(r, peek # "none") /\ r.headers.valid ->
                     ChunkRead(q)
                [] OTHER -> Incomplete(q)
        BY DEF ReceiveTrailer, r, q
      <4>2. \/ ReceiveTrailer(p, u, fresh, peek) = Invalid
            \/ ReceiveTrailer(p, u, fresh, peek) = ChunkRead(q)
            \/ /\ ReceiveTrailer(p, u, fresh, peek) = Incomplete(q)
               /\ ~ r.headers.valid
        BY <4>1, Zenon DEF ErrorSeen
      <4>3. QED
        BY <3>3, <3>4, <4>2, ClearedTidy
    <3>6. QED
      BY <1>4, <2>2, <3>5 DEF Result, ReceiveChunk
  <2>3. CASE p.chunk # "trailer"
    <3>1. Tidy(ChunkDataEnd(p, u, fresh).parser)
      BY <2>1, ClearedTidy DEF ChunkDataEnd, Incomplete, Tidy, ParserStates
    <3>2. Tidy([p EXCEPT !.chunk = "dataEnd"])
      BY DEF Tidy, ParserStates
    <3>3. Tidy(ChunkHeader(p, u).parser)
      BY <2>3, ChunkHeaderKeeps DEF Tidy
    <3>4. QED
      BY <1>4, <2>3, <3>1, <3>2, <3>3, ClearedTidy
         DEF Result, ReceiveChunk, Incomplete
  <2>4. QED
    BY <2>2, <2>3
<1>5. CASE p.line = "valid" /\ p.headers.valid /\ ~ p.continued
  BY <1>5, ClearedTidy DEF Result, Answer, Continue
<1>6. QED
  BY <1>2, <1>3, <1>4, <1>5

(* Both parsers are in the same state; where only rx is at the beginning   *)
(* of a packet, the cut was harmless.                                      *)
SplitInv ==
  /\ rx.parser = whole.parser /\ rx.event = whole.event
  /\ Tidy(whole.parser)
  /\ whole.fresh => rx.fresh
  /\ next = "none" => whole.fresh
  /\ rx.fresh /\ ~ whole.fresh => CutBefore(whole.parser, next)

LEMMA SplitInit == Init => SplitInv
BY ClearedTidy DEF Init, SplitInv, Receiver

LEMMA SplitNext ==
  ASSUME ~ Anywhere
  PROVE  TypeOK /\ SplitInv /\ [Next]_vars => SplitInv'
<1> SUFFICES ASSUME TypeOK, SplitInv, [Next]_vars PROVE SplitInv'
  OBVIOUS
<1>1. CASE Send
  BY <1>1 DEF Send, SplitInv
<1>2. CASE ReceiveNext
  <2> DEFINE p == whole.parser
  <2>1. PICK peek : /\ next' = peek
                    /\ whole' = Receive(whole, next, peek)
                    /\ \E cut \in BOOLEAN :
                         /\ cut => ~ Harmful(whole', peek)
                         /\ rx' = Receive(rx, next,
                                          IF cut THEN "none" ELSE peek)
    BY <1>2 DEF ReceiveNext
  <2>2. PICK cut \in BOOLEAN :
          /\ cut => ~ Harmful(whole', peek)
          /\ rx' = Receive(rx, next, IF cut THEN "none" ELSE peek)
    BY <2>1
  <2>3. /\ p \in ParserStates /\ Tidy(p) /\ rx.parser = p
        /\ rx.fresh \in BOOLEAN /\ whole.fresh \in BOOLEAN
    BY DEF TypeOK, SplitInv, Receivers
  <2> DEFINE R(fresh, pk) == Result(p, next, fresh, pk)
  <2> DEFINE rxPeek == IF cut THEN "none" ELSE peek
  <2>4. /\ whole'.parser = R(whole.fresh, peek).parser
        /\ whole'.event = R(whole.fresh, peek).event
        /\ whole'.fresh = (peek = "none")
        /\ rx'.parser = R(rx.fresh, rxPeek).parser
        /\ rx'.event = R(rx.fresh, rxPeek).event
        /\ rx'.fresh = (rxPeek = "none")
    BY <2>1, <2>2, <2>3, ReceiveIs
  <2>5. \A pk : R(rx.fresh, pk) = R(whole.fresh, pk)
    <3>1. CASE rx.fresh = whole.fresh
      BY <3>1
    <3>2. CASE rx.fresh # whole.fresh
      <4>1. rx.fresh = TRUE /\ whole.fresh = FALSE /\ CutBefore(p, next)
        BY <2>3, <3>2 DEF SplitInv
      <4>2. \A pk : R(TRUE, pk) = R(FALSE, pk)
        BY <2>3, <4>1, ResultFresh
      <4> HIDE DEF R
      <4>3. QED
        BY <4>1, <4>2
    <3>3. QED
      BY <3>1, <3>2
  <2>6. cut /\ peek # "none" =>
          /\ R(whole.fresh, "none") = R(whole.fresh, peek)
          /\ CutBefore(whole'.parser, peek)
    <3>1. SUFFICES ASSUME cut, peek # "none"
                   PROVE  /\ R(whole.fresh, "none") = R(whole.fresh, peek)
                          /\ CutBefore(whole'.parser, peek)
      OBVIOUS
    <3>2. CutBefore(whole'.parser, peek) /\ whole'.event.kind # "invalid"
      BY <2>2, <3>1 DEF Harmful, CutBefore, Open
    <3>3. QED
      BY <2>3, <2>4, <3>1, <3>2, ResultPeek
  <2>7. R(rx.fresh, rxPeek) = R(whole.fresh, peek)
    BY <2>5, <2>6
  <2>8. Tidy(whole'.parser)
    BY <2>3, <2>4, ResultTidy
  <2> HIDE DEF R
  <2>9. rx'.parser = whole'.parser /\ rx'.event = whole'.event
    BY <2>4, <2>7
  <2>10. /\ whole'.fresh => rx'.fresh
         /\ next' = "none" => whole'.fresh
         /\ rx'.fresh /\ ~ whole'.fresh => CutBefore(whole'.parser, next')
    BY <2>1, <2>4, <2>6
  <2>11. QED
    BY <2>8, <2>9, <2>10 DEF SplitInv
<1>3. CASE UNCHANGED vars
  BY <1>3 DEF vars, SplitInv
<1>4. QED
  BY <1>1, <1>2, <1>3 DEF Next

(* With packets cut only where it is harmless the server is told the same  *)
(* as by the whole, whatever the limits.                                   *)
THEOREM SplitsAgree ==
  ASSUME ~ Anywhere
  PROVE  Spec => []SplitAgrees
<1>1. SplitInv => SplitAgrees
  BY DEF SplitInv, SplitAgrees
<1>2. QED
  BY <1>1, SplitInit, SplitNext, TypeInit, TypeNext, PTL DEF Spec

-----------------------------------------------------------------------------
(* What an accepted request has                                            *)

Limited(fields) == Cardinality(fields) <= MaxHeaders

Acceptable(fields) ==
  /\ "host" \in fields
  /\ "chunked" \notin fields => fields \cap {"long", "wrong"} = {}

Legal(p) ==
  /\ Limited(p.headers.fields)
  /\ p.headers.valid => Acceptable(p.headers.fields)

LegalEvent(event) ==
  event.kind \in {"request", "continue"} =>
    /\ Acceptable(event.fields) /\ Limited(event.fields)
    /\ event.kind = "continue" => "long" \notin event.fields

LegalOutcome(outcome) == Legal(outcome.parser) /\ LegalEvent(outcome.event)

LEMMA ClearedLegal == Legal(Cleared)
BY FS_EmptySet, LimitsAssumption
   DEF Legal, Limited, Cleared, ClearedHeaders

LEMMA InvalidLegal == LegalOutcome(Invalid)
BY ClearedLegal DEF LegalOutcome, LegalEvent, Invalid, Answer, Continue

LEMMA FieldsFinite ==
  ASSUME NEW fields \in SUBSET Names
  PROVE  Cardinality(fields) \in Nat
<1>1. IsFiniteSet({"host"} \cup {"chunked"})
  BY FS_Singleton, FS_AddElement
<1>2. IsFiniteSet({"expect"} \cup {"other"})
  BY FS_Singleton, FS_AddElement
<1>3. IsFiniteSet(({"length"} \cup {"long"}) \cup {"wrong"})
  <2>1. IsFiniteSet({"length"} \cup {"long"})
    BY FS_Singleton, FS_AddElement
  <2>2. QED
    BY <2>1, FS_AddElement
<1>4. IsFiniteSet(Names)
  <2> DEFINE A == {"host"} \cup {"chunked"}
  <2> DEFINE B == {"expect"} \cup {"other"}
  <2> DEFINE C == ({"length"} \cup {"long"}) \cup {"wrong"}
  <2>1. Names = (A \cup B) \cup C
    BY DEF Names, Lengths
  <2> HIDE DEF A, B, C
  <2>2. IsFiniteSet(A \cup B)
    BY <1>1, <1>2, FS_Union DEF A, B
  <2>3. IsFiniteSet(C)
    BY <1>3 DEF C
  <2>4. QED
    BY <2>1, <2>2, <2>3, FS_Union
<1>5. QED
  BY <1>4, FS_Subset, FS_CardinalityType

(* A field too many is an error. *)
LEMMA HeadersLimited ==
  ASSUME NEW h \in HeaderStates, NEW u, NEW fresh, NEW peek,
         Limited(h.fields),
         ParseHeaders(h, u, fresh, peek).error = "none"
  PROVE  Limited(ParseHeaders(h, u, fresh, peek).headers.fields)
<1> DEFINE g == [h EXCEPT !.cr = FALSE]
<1>1. g \in HeaderStates /\ g.fields = h.fields
  BY DEF HeaderStates
<1> HIDE DEF g
<1>2. ASSUME AddField(g).error = "none", g.field # "name"
      PROVE  Limited(AddField(g).headers.fields)
  <2> DEFINE added == Added(g)
  <2>1. added.fields \in SUBSET Names
    BY <1>1, <1>2, AddFieldTyped DEF HeaderStates
  <2>2. Cardinality(added.fields) \in Nat
    BY <2>1, FieldsFinite
  <2> HIDE DEF added
  <2>3. AddField(g) = IF Cardinality(added.fields) > MaxHeaders
                      THEN Missed(added) ELSE More(added)
    BY DEF AddField, added
  <2>4. ~ (Cardinality(added.fields) > MaxHeaders)
    BY <1>2, <2>3 DEF Missed
  <2>5. AddField(g).headers = added
    BY <2>3, <2>4 DEF More
  <2>6. QED
    BY <2>2, <2>4, <2>5, LimitsAssumption DEF Limited
<1>3. ASSUME ParseField(g, u, peek).error = "none"
      PROVE  Limited(ParseField(g, u, peek).headers.fields)
  <2> DEFINE r == ParseField(g, u, peek)
  <2>1. CASE g.field # "name" /\ r = AddField(g)
    BY <1>2, <1>3, <2>1
  <2>2. CASE r.headers.fields = h.fields
    BY <2>2
  <2>3. QED
    BY <1>1, <2>1, <2>2, FieldKept
<1>4. CASE ParseHeaders(h, u, fresh, peek) = ParseField(g, u, peek)
  BY <1>3, <1>4
<1>5. CASE ParseHeaders(h, u, fresh, peek) # ParseField(g, u, peek)
  <2>1. ParseHeaders(h, u, fresh, peek).headers.fields = h.fields
    BY <1>5 DEF ParseHeaders, g, More, Noticed, HeaderStates
  <2>2. QED
    BY <2>1
<1>6. QED
  BY <1>4, <1>5

(* An error is not found at the end of the header. *)
LEMMA ValidFinal ==
  ASSUME NEW h \in HeaderStates, NEW u, NEW fresh, NEW peek, ~ h.valid,
         ParseHeaders(h, u, fresh, peek).headers.valid
  PROVE  ParseHeaders(h, u, fresh, peek).error = "none"
<1> DEFINE g == [h EXCEPT !.cr = FALSE]
<1>1. g \in HeaderStates /\ ~ g.valid
  BY DEF HeaderStates
<1> HIDE DEF g
<1>2. CASE ParseHeaders(h, u, fresh, peek) = ParseField(g, u, peek)
  <2>1. ~ Added(g).valid
    BY <1>1 DEF Added, HeaderStates
  <2>2. ~ AddField(g).headers.valid
    BY <2>1 DEF AddField, More, Missed
  <2>3. ~ ParseField(g, u, peek).headers.valid
    BY <1>1, <2>2, FieldKept
  <2>4. QED
    BY <1>2, <2>3
<1>3. CASE ParseHeaders(h, u, fresh, peek) # ParseField(g, u, peek)
  BY <1>3 DEF ParseHeaders, g, More, Noticed, HeaderStates
<1>4. QED
  BY <1>2, <1>3

LEMMA HeaderReadLegal ==
  ASSUME NEW p \in ParserStates, NEW more, Limited(p.headers.fields)
  PROVE  LegalOutcome(HeaderRead(p, more))
<1> DEFINE fields == p.headers.fields
<1> DEFINE q == [p EXCEPT !.continued = TRUE]
<1>1. q.headers = p.headers
  BY DEF ParserStates
<1> HIDE DEF q
<1>2. ASSUME Acceptable(fields)
      PROVE  /\ LegalOutcome(Incomplete(p))
             /\ LegalOutcome(Answer("request", fields))
  BY <1>2, ClearedLegal
     DEF LegalOutcome, Legal, LegalEvent, Incomplete, Answer, Continue, NoEvent
<1>3. LegalOutcome(Answer("tooLarge", fields))
  BY ClearedLegal DEF LegalOutcome, LegalEvent, Answer, Continue
<1>4. ASSUME Acceptable(fields), "long" \notin fields
      PROVE  LegalOutcome(Continue(q, "continue", fields))
  BY <1>1, <1>4 DEF LegalOutcome, Legal, LegalEvent, Continue
<1>5. CASE "host" \notin fields
  BY <1>5, InvalidLegal DEF HeaderRead
<1>6. CASE {"host", "chunked"} \subseteq fields /\ "expect" \notin fields
  <2>1. HeaderRead(p, more) = Answer("request", fields)
    BY <1>6 DEF HeaderRead
  <2>2. QED
    BY <1>2, <1>6, <2>1 DEF Acceptable
<1>7. CASE {"host", "chunked", "expect"} \subseteq fields
  <2>1. HeaderRead(p, more) = IF "long" \in fields
                              THEN Answer("tooLarge", fields)
                              ELSE Continue(q, "continue", fields)
    BY <1>7 DEF HeaderRead, q
  <2>2. QED
    BY <1>3, <1>4, <1>7, <2>1 DEF Acceptable
<1>8. CASE "host" \in fields /\ "chunked" \notin fields
  <2>1. CASE fields \cap Lengths = {"length"}
    <3>1. HeaderRead(p, more) = Incomplete(p)
      BY <1>8, <2>1 DEF HeaderRead
    <3>2. Acceptable(fields)
      BY <1>8, <2>1 DEF Acceptable, Lengths
    <3>3. QED
      BY <1>2, <3>1, <3>2
  <2>2. CASE fields \cap Lengths \notin {{}, {"length"}}
    <3>1. HeaderRead(p, more) = Invalid
      BY <1>8, <2>2 DEF HeaderRead
    <3>2. QED
      BY <3>1, InvalidLegal
  <2>3. CASE fields \cap Lengths = {}
    <3>1. HeaderRead(p, more) = Invalid
            \/ HeaderRead(p, more) = Answer("request", fields)
      BY <1>8, <2>3 DEF HeaderRead
    <3>2. Acceptable(fields)
      BY <1>8, <2>3 DEF Acceptable, Lengths
    <3>3. QED
      BY <1>2, <3>1, <3>2, InvalidLegal
  <2>4. QED
    BY <2>1, <2>2, <2>3
<1>9. QED
  BY <1>5, <1>6, <1>7, <1>8

LEMMA ReceiveHeaderLegal ==
  ASSUME NEW p \in ParserStates, NEW u, NEW fresh, NEW peek, Legal(p),
         ~ p.headers.valid,
         \/ peek # "none"
         \/ ReceiveHeader(p, u, fresh, peek).event.kind # "none"
  PROVE  LegalOutcome(ReceiveHeader(p, u, fresh, peek))
<1> DEFINE r == ParseHeaders(p.headers, u, fresh, peek)
<1> DEFINE q == [p EXCEPT !.headers = r.headers]
<1> DEFINE outcome == ReceiveHeader(p, u, fresh, peek)
<1>1. p.headers \in HeaderStates /\ r \in Results
  BY ParseHeadersTyped DEF ParserStates
<1>2. q \in ParserStates /\ q.headers = r.headers
  BY <1>1 DEF ParserStates, Results
<1>3. r.error = "none" => Limited(q.headers.fields)
  BY <1>1, <1>2, HeadersLimited DEF Legal
<1>4. \/ outcome = Invalid
      \/ /\ outcome = HeaderRead(q, peek # "none")
         /\ r.headers.valid
         /\ r.error = "none" \/ (r.error = "missed" /\ peek = "none")
      \/ /\ outcome = Incomplete(q) /\ ~ r.headers.valid
         /\ r.error = "none" \/ (r.error = "missed" /\ peek = "none")
  BY <1>1 DEF ReceiveHeader, ErrorSeen, Results
<1>5. r.headers.valid /\ ~ p.headers.valid => r.error = "none"
  BY <1>1, ValidFinal
<1> HIDE DEF r, q
<1>6. ASSUME outcome = HeaderRead(q, peek # "none"), r.headers.valid,
             ~ p.headers.valid
      PROVE  LegalOutcome(outcome)
  BY <1>2, <1>3, <1>5, <1>6, HeaderReadLegal
<1>7. ASSUME outcome = Incomplete(q), ~ r.headers.valid, r.error = "none"
      PROVE  LegalOutcome(outcome)
  BY <1>2, <1>3, <1>7
     DEF LegalOutcome, Legal, LegalEvent, Incomplete, NoEvent
<1>8. ~ (outcome = Incomplete(q) /\ r.error = "missed" /\ peek = "none")
  BY DEF Incomplete, NoEvent
<1>9. QED
  BY <1>4, <1>6, <1>7, <1>8, InvalidLegal

LEMMA ReceiveChunkLegal ==
  ASSUME NEW p \in ParserStates, NEW u, NEW fresh, NEW peek, Legal(p)
  PROVE  LegalOutcome(ReceiveChunk(p, u, fresh, peek))
<1> DEFINE Kept(q) == q.headers = p.headers
<1>1. \A q : Kept(q) => LegalOutcome(Incomplete(q))
  BY DEF LegalOutcome, Legal, LegalEvent, Incomplete, NoEvent
<1>2. \A q : Kept(q) /\ Kept([q EXCEPT !.chunk = "blank", !.blanks = 0,
                                     !.digits = 0, !.size = 0])
                => LegalOutcome(ChunkRead(q))
  BY ClearedLegal
     DEF LegalOutcome, Legal, LegalEvent, ChunkRead, Answer, Continue
<1>3. /\ Kept(p)
      /\ \A state : Kept([p EXCEPT !.chunk = state])
      /\ Kept([p EXCEPT !.chunk = "blank", !.blanks = 0, !.digits = 0,
                       !.size = 0])
      /\ Kept(ChunkHeader(p, u).parser)
  BY ChunkHeaderKeeps DEF ParserStates
<1>4. LegalOutcome(ReceiveTrailer(p, u, fresh, peek))
  <2> DEFINE r == ParseHeaders(p.trailers, u, fresh, peek)
  <2> DEFINE q == [p EXCEPT !.trailers = r.headers]
  <2>1. Kept(q) /\ Kept([q EXCEPT !.chunk = "blank", !.blanks = 0,
                                  !.digits = 0, !.size = 0])
    BY DEF ParserStates
  <2>2. LegalOutcome(ChunkRead(q)) /\ LegalOutcome(Incomplete(q))
    BY <1>1, <1>2, <2>1
  <2>3. \/ ReceiveTrailer(p, u, fresh, peek) = Invalid
        \/ ReceiveTrailer(p, u, fresh, peek) = ChunkRead(q)
        \/ ReceiveTrailer(p, u, fresh, peek) = Incomplete(q)
    BY DEF ReceiveTrailer
  <2> HIDE DEF q
  <2>4. QED
    BY <2>2, <2>3, InvalidLegal
<1>5. LegalOutcome(ChunkDataEnd(p, u, fresh))
  BY <1>1, <1>2, <1>3, InvalidLegal DEF ChunkDataEnd
<1>6. QED
  BY <1>1, <1>3, <1>4, <1>5, InvalidLegal DEF ReceiveChunk

LEMMA ResultLegal ==
  ASSUME NEW p \in ParserStates, NEW u, NEW fresh, NEW peek, Legal(p),
         \/ peek # "none"
         \/ Result(p, u, fresh, peek).event.kind # "none"
  PROVE  LegalOutcome(Result(p, u, fresh, peek))
<1>1. CASE p.line # "valid"
  <2> DEFINE q == [p EXCEPT !.line = NextLine(p, u).line,
                            !.ws = NextLine(p, u).ws]
  <2>1. q.headers = p.headers
    BY DEF ParserStates
  <2>2. ReceiveLine(p, u) = Invalid \/ ReceiveLine(p, u) = Incomplete(q)
    BY Zenon DEF ReceiveLine
  <2> HIDE DEF q
  <2>3. LegalOutcome(Incomplete(q))
    BY <2>1 DEF LegalOutcome, Legal, LegalEvent, Incomplete, NoEvent
  <2>4. LegalOutcome(ReceiveLine(p, u))
    BY <2>2, <2>3, InvalidLegal
  <2>5. QED
    BY <1>1, <2>4 DEF Result
<1>2. CASE p.line = "valid" /\ ~ p.headers.valid
  <2>1. Result(p, u, fresh, peek) = ReceiveHeader(p, u, fresh, peek)
    BY <1>2 DEF Result
  <2>2. QED
    BY <1>2, <2>1, ReceiveHeaderLegal
<1>3. CASE p.line = "valid" /\ p.headers.valid /\ p.continued
  <2>1. Result(p, u, fresh, peek) = ReceiveChunk(p, u, fresh, peek)
    BY <1>3 DEF Result
  <2>2. QED
    BY <2>1, ReceiveChunkLegal
<1>4. CASE p.line = "valid" /\ p.headers.valid /\ ~ p.continued
  <2>1. Result(p, u, fresh, peek) = Answer("request", p.headers.fields)
    BY <1>4 DEF Result
  <2>2. QED
    BY <1>4, <2>1, ClearedLegal
       DEF LegalOutcome, Legal, LegalEvent, Answer, Continue
<1>5. QED
  BY <1>1, <1>2, <1>3, <1>4

LegalInv == LegalOutcome(whole)

LEMMA LegalInit == Init => LegalInv
BY ClearedLegal
   DEF Init, LegalInv, LegalOutcome, LegalEvent, Receiver, NoEvent

LEMMA LegalNext == TypeOK /\ LegalInv /\ [Next]_vars => LegalInv'
<1> SUFFICES ASSUME TypeOK, LegalInv, [Next]_vars PROVE LegalInv'
  OBVIOUS
<1>1. CASE ReceiveNext
  <2> DEFINE p == whole.parser
  <2>1. PICK peek \in Follow(Receive(whole, next, "none")) :
          whole' = Receive(whole, next, peek)
    BY <1>1 DEF ReceiveNext
  <2>2. p \in ParserStates /\ Legal(p)
    BY DEF TypeOK, Receivers, LegalInv, LegalOutcome
  <2>3. /\ whole'.parser = Result(p, next, whole.fresh, peek).parser
        /\ whole'.event = Result(p, next, whole.fresh, peek).event
    BY <2>1, ReceiveIs
  <2>4. peek # "none" \/ whole'.event.kind # "none"
    <3>1. SUFFICES ASSUME peek = "none" PROVE whole'.event.kind # "none"
      OBVIOUS
    <3>2. "none" \in Follow(whole')
      BY <2>1, <3>1
    <3>3. "none" \notin Offer(whole'.parser)
      BY OfferUnits DEF Units, Eol, Names, Lengths, Digits
    <3>4. QED
      BY <3>2, <3>3 DEF Follow
  <2>5. LegalOutcome(Result(p, next, whole.fresh, peek))
    BY <2>2, <2>3, <2>4, ResultLegal
  <2>6. QED
    BY <2>3, <2>5 DEF LegalInv, LegalOutcome
<1>2. CASE Send \/ UNCHANGED vars
  BY <1>2 DEF Send, vars, LegalInv, LegalOutcome
<1>3. QED
  BY <1>1, <1>2 DEF Next

(* With the same cuts a request that is accepted names its host and has no *)
(* more fields than are allowed.                                           *)
THEOREM AcceptedLegally ==
  ASSUME ~ Anywhere
  PROVE  Spec => []AcceptedIsLegal
<1>1. SplitInv /\ LegalInv => AcceptedIsLegal
  BY DEF SplitInv, LegalInv, LegalOutcome, LegalEvent, Limited, Acceptable,
         AcceptedIsLegal
<1>2. QED
  BY <1>1, SplitInit, SplitNext, LegalInit, LegalNext, TypeInit, TypeNext,
     PTL DEF Spec

=============================================================================
