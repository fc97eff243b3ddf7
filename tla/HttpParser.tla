----------------------------- MODULE HttpParser -----------------------------
(***************************************************************************)
(* The two parsers of HTTP requests: the finite state machine of chapter 8 *)
(* (8.6_1_finite_state_machine.cpp) and what became of it in the server of *)
(* chapter 15 (15_6_1_http_conn.cpp).  Both keep their place in a buffer   *)
(* between calls, for a request comes in pieces of any size.               *)
(*                                                                         *)
(* A buffer is a sequence of bytes, with one for a text that matters:      *)
(* "spaces" and "tabs" are correct request lines with these between their  *)
(* parts, "length" and "linger" header lines that give the length of the   *)
(* body and ask to keep the connection, "text" is anything else.  Indices  *)
(* count bytes from 0, as in the code: byte i is at place i + 1.           *)
(***************************************************************************)
EXTENDS Integers, Sequences

CONSTANTS
    Messages,          \* what a client may send
    ContentLength,     \* the number in "length"
    READ_BUFFER_SIZE   \* BUFFER_SIZE in chapter 8

Byte == {"CR", "LF", "spaces", "tabs", "length", "linger", "text"}

ASSUME ParserAssumption ==
    /\ Messages \subseteq Seq(Byte)
    /\ ContentLength \in Nat \ {0} /\ READ_BUFFER_SIZE \in Nat \ {0}

VARIABLES
    chapter,     \* whose parser this is: 8 or 15
    message,     \* what the client sends, and how much of it has been received
    sent,
    parser,      \* the buffer and the place in it
    result,      \* the last answer of process_read, or CLOSED
    cut          \* history: an answer was NO_REQUEST for want of half a body

parserVars == <<chapter, message, sent, parser, result, cut>>

ParserInit ==
    /\ chapter \in {8, 15} /\ message \in Messages /\ sent = 0
    /\ parser = [read_buf |-> <<>>, checked_idx |-> 0, start_line |-> 0, state |-> "REQUESTLINE",
                 content_length |-> 0, linger |-> FALSE, last |-> 0]
    /\ result = "NO_REQUEST" /\ cut = FALSE

Smallest(S) == CHOOSE x \in S : \A y \in S : x <= y

(***************************************************************************)
(* The reference: what a request is, of the bytes as a whole, by the       *)
(* comments of the two chapters.  A request line has blanks or tabs        *)
(* (8.6_1:106), a CR or LF out of place is an error (8.6_1:30, 77), also   *)
(* in chapter 15, whose analysis is that of 8.6 (15_6_1_http_conn.cpp:286),*)
(* and a body is complete when all of it has been read in (274).           *)
(***************************************************************************)
Received == SubSeq(message, 1, sent)
Breaks(b) == {k \in 1..Len(b)-1 : b[k] = "CR" /\ b[k + 1] = "LF"}
Misplaced(b) ==   \* a CR that no LF follows, a LF that follows no CR
    {k \in 1..Len(b) : \/ b[k] = "CR" /\ k < Len(b) /\ b[k + 1] # "LF"
                       \/ b[k] = "LF" /\ (k = 1 \/ b[k - 1] # "CR")}

\* The first empty line ends the head, unless a misplaced byte comes before.
HeadEnds(b) == {k + 1 : k \in {j \in Breaks(b) : (j = 1 \/ j - 2 \in Breaks(b))
                                                  /\ \A m \in Misplaced(b) : m > j}}
Lines(b, end) ==   \* the lines of the head, the request line too
    {SubSeq(b, p[1], p[2] - 1) : p \in
        {q \in (1..end) \X Breaks(b) :
            /\ q[1] <= q[2] /\ q[2] < end /\ (q[1] = 1 \/ q[1] - 2 \in Breaks(b))
            /\ \A j \in Breaks(b) : ~(q[1] <= j /\ j < q[2])}}

FirstLine(b) == SubSeq(b, 1, Smallest(Breaks(b)) - 1)
Bad(b) == IF Misplaced(b) # {} THEN "BAD_REQUEST" ELSE "NO_REQUEST"
RequestLine(text) == text \in {<<"tabs">>, <<"spaces">>}
BodyLength(b, end) ==
    IF chapter = 15 /\ \E line \in Lines(b, end) : line # <<>> /\ line[1] = "length"
    THEN ContentLength ELSE 0

Expected(b) ==
    IF Breaks(b) = {} \/ \E m \in Misplaced(b) : m < Smallest(Breaks(b)) THEN Bad(b)
    ELSE IF ~RequestLine(FirstLine(b)) THEN "BAD_REQUEST"
    ELSE IF HeadEnds(b) = {} THEN Bad(b)
    ELSE LET end == Smallest(HeadEnds(b))
         IN  IF Len(b) >= end + BodyLength(b, end) THEN "GET_REQUEST" ELSE "NO_REQUEST"

(***************************************************************************)
(* parse_line, the same in both.                                           *)
(***************************************************************************)
At(p, i) == p.read_buf[i + 1]
read_idx(p) == Len(p.read_buf)
Ends(p) == {i \in p.checked_idx..read_idx(p)-1 : At(p, i) \in {"CR", "LF"}}

Line(p, status, checked) == [p |-> [p EXCEPT !.checked_idx = checked], status |-> status]
LineOk(p, i) ==   \* the two bytes from i become zeros
    Line([p EXCEPT !.read_buf = [@ EXCEPT ![i + 1] = "NUL", ![i + 2] = "NUL"]], "OK", i + 2)

\* Variant: the byte behind a CR is looked at before it has come.
CarriageReturnUntested(p, i) ==
    IF i + 1 < read_idx(p) /\ At(p, i + 1) = "LF" THEN LineOk(p, i) ELSE Line(p, "BAD", i)
CarriageReturn(p, i) ==
    IF i + 1 = read_idx(p) THEN Line(p, "OPEN", i)
    ELSE IF At(p, i + 1) = "LF" THEN LineOk(p, i) ELSE Line(p, "BAD", i)

LineFeed(p, i) ==
    IF i > 1 /\ At(p, i - 1) = "CR" THEN LineOk(p, i - 1) ELSE Line(p, "BAD", i)

parse_line(p) ==
    IF Ends(p) = {} THEN Line(p, "OPEN", read_idx(p))
    ELSE LET i == Smallest(Ends(p))
         IN  IF At(p, i) = "CR" THEN CarriageReturn(p, i) ELSE LineFeed(p, i)

\* The line that starts at m_start_line, up to its first zero.
get_line(p) ==
    LET zeros == {i \in p.start_line..read_idx(p)-1 : At(p, i) = "NUL"}
    IN  SubSeq(p.read_buf, p.start_line + 1, IF zeros = {} THEN read_idx(p) ELSE Smallest(zeros))

(***************************************************************************)
(* The request line, and a header: chapter 8 splits at tabs only and looks *)
(* at no header but Host.                                                  *)
(***************************************************************************)
parse_requestline(text) == chapter = 8 /\ text = <<"tabs">>
parse_request_line(text) == chapter = 15 /\ text \in {<<"tabs">>, <<"spaces">>}

parse_headers(p, text) ==
    IF chapter = 8 THEN p
    ELSE [p EXCEPT !.linger = @ \/ text = <<"linger">>,
                   !.content_length = IF Head(text) = "length" THEN ContentLength ELSE @]

parse_content(p) == read_idx(p) >= p.content_length + p.checked_idx

(***************************************************************************)
(* process_read (parse_content in chapter 8): one line after the other.    *)
(* In chapter 15 a body that is not complete sets line_status to LINE_OPEN *)
(* and so calls parse_line, which goes over the bytes of the body.         *)
(***************************************************************************)
Goes(p, status) == [p |-> p, line_status |-> status, answer |-> "NONE"]
Answer(p, answer) == [p |-> p, line_status |-> "OK", answer |-> answer]
NoLine(status) == IF chapter = 8 /\ status = "BAD" THEN "BAD_REQUEST" ELSE "NO_REQUEST"

\* The condition of the loop, and its body for one line.
Found(p, line_status) ==
    IF p.state = "CONTENT" /\ line_status = "OK" THEN Line(p, "OK", p.checked_idx)
    ELSE parse_line(p)

Handle(before, p, text) ==
    CASE p.state = "REQUESTLINE" ->
            IF parse_requestline(text) \/ parse_request_line(text)
            THEN Goes([p EXCEPT !.state = "HEADER"], "OK") ELSE Answer(p, "BAD_REQUEST")
      [] p.state = "HEADER" /\ text # <<>> -> Goes(parse_headers(p, text), "OK")
      [] p.state = "HEADER" /\ text = <<>> ->
            IF p.content_length = 0 THEN Answer(p, "GET_REQUEST")
            ELSE Goes([p EXCEPT !.state = "CONTENT"], "OK")
      [] p.state = "CONTENT" ->
            IF parse_content(p)    \* and a zero is written behind the body
            THEN Answer([p EXCEPT !.last = before.start_line + p.content_length], "GET_REQUEST")
            ELSE Goes(p, "OPEN")

\* One round; there is no answer as long as the loop goes on.
Started(p) == [p EXCEPT !.start_line = p.checked_idx]
Round(p, line_status) ==
    LET line == Found(p, line_status)
    IN  IF line.status = "OK" THEN Handle(p, Started(line.p), get_line(line.p))
        ELSE Answer(line.p, NoLine(line.status))

\* A round without an answer goes over a byte, all but one: these are enough.
process_read(p) ==
    LET rounds == read_idx(p) + 2
        loop[n \in 0..rounds] ==
            IF n = 0 THEN Goes(p, "OK")
            ELSE LET r == loop[n - 1]
                 IN  IF r.answer = "NONE" THEN Round(r.p, r.line_status) ELSE r
    IN  loop[rounds]

(***************************************************************************)
(* The next n bytes arrive.  read of chapter 15 receives until there is    *)
(* nothing: with its buffer full it asks for no bytes, which is a close if *)
(* more have come and EAGAIN if not, and then the full buffer is parsed.   *)
(* Chapter 8 parses what it took and asks for no bytes at its next recv.   *)
(***************************************************************************)
Full(n) == read_idx(parser) + n > READ_BUFFER_SIZE

Take(n) ==
    LET p == [parser EXCEPT !.read_buf = @ \o SubSeq(message, sent + 1, sent + n)]
        done == process_read(p)
        bytes == SubSeq(message, 1, sent + n)
    IN  /\ sent' = sent + n /\ parser' = done.p /\ result' = done.answer
        /\ cut' = (cut \/ (/\ done.answer = "NO_REQUEST" /\ done.p.state = "CONTENT"
                           /\ \E end \in HeadEnds(bytes) : end < sent + n))
        /\ UNCHANGED <<chapter, message>>

Close == result' = "CLOSED" /\ UNCHANGED <<chapter, message, sent, parser, cut>>

ReadHttpConn(n) == chapter = 15 /\ IF Full(n) THEN Close ELSE Take(n)
ReadStateMachine(n) ==
    LET room == READ_BUFFER_SIZE - read_idx(parser)
    IN  chapter = 8 /\ IF room = 0 THEN Close ELSE Take(Smallest({n, room}))

\* The client may also close.  After another answer a new parser is started
\* (chapter 15), or the program ends (chapter 8).
ParserNext ==
    /\ result = "NO_REQUEST"
    /\ \/ \E n \in 1..(Len(message) - sent) : ReadHttpConn(n) \/ ReadStateMachine(n)
       \/ Close

ParserSpec == ParserInit /\ [][ParserNext]_parserVars

(***************************************************************************)
(* Properties.                                                             *)
(***************************************************************************)
\* Every variable has its type, and the indices are in order and inside the
\* buffer; the zero that is written behind a body may be one byte behind it.
ParserTypeOK ==
    /\ chapter \in {8, 15} /\ message \in Messages /\ sent \in 0..Len(message)
    /\ parser.state \in {"REQUESTLINE", "HEADER", "CONTENT"}
    /\ parser.start_line \in 0..parser.checked_idx
    /\ parser.checked_idx \in 0..read_idx(parser)
    /\ read_idx(parser) <= READ_BUFFER_SIZE /\ parser.last <= READ_BUFFER_SIZE
    /\ parser.content_length \in {0, ContentLength} /\ parser.linger \in BOOLEAN
    /\ result \in {"NO_REQUEST", "GET_REQUEST", "BAD_REQUEST", "CLOSED"} /\ cut \in BOOLEAN

\* Two places where the parsers are known not to answer what their comments say:
\* strpbrk looks for a tab only (8.6_1:105), where the comment names blanks too
\* (106); and process_read of chapter 15 answers NO_REQUEST whatever ended its
\* loop (15_6_1_http_conn.cpp:341), also a line with a syntax error.
SpacesRefused ==
    /\ chapter = 8 /\ result = "BAD_REQUEST"
    /\ Breaks(Received) # {} /\ FirstLine(Received) = <<"spaces">>
ErrorMissed ==
    /\ chapter = 15 /\ result = "NO_REQUEST"
    /\ Misplaced(Received) # {} /\ HeadEnds(Received) = {}

\* However the bytes of the head are cut into pieces, the parser answers what
\* the bytes as a whole are, and knows whether to keep the connection; its indices
\* stay inside the buffer (ParserTypeOK).  Besides the two cases above a body of
\* which only a part has come is left out (cut): see BodiesComplete.
Agrees ==
    /\ ParserTypeOK
    /\ result # "CLOSED" /\ ~cut =>
          \/ SpacesRefused \/ ErrorMissed
          \/ /\ result = Expected(Received)
             /\ result = "GET_REQUEST" =>
                   parser.linger = (chapter = 15 /\ <<"linger">> \in Lines(Received, Smallest(HeadEnds(Received))))

\* A request whose body has been read in completely is complete (comment at
\* 15_6_1_http_conn.cpp:274), also when it came in pieces (run
\* http_parser_bodies: it may never be).
BodiesComplete ==
    result = "NO_REQUEST" => Expected(Received) # "GET_REQUEST"

=============================================================================
