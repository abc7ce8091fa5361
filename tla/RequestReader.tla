----------------------------- MODULE RequestReader -----------------------------
(***************************************************************************)
(* hiw_internal_request_read_headers and hiw_request_recv: how the bytes   *)
(* of one request get from the socket through the fixed header buffer to   *)
(* the parser and to the servlet function.                                 *)
(*                                                                         *)
(* The client's bytes are a sequence of cells; recv delivers any piece of  *)
(* it. The buffer remembers of each of its cells which byte of the stream  *)
(* it holds, so that a line put together of the wrong bytes is seen.       *)
(*   "s" status line     "h" header     ":" its colon     "n" line feed    *)
(*   "L" colon of a Content-Length header    "C" of a "Connection:         *)
(*   keep-alive" header  "r" carriage return   "b" body   "t" what follows *)
(***************************************************************************)
EXTENDS Integers, Sequences, FiniteSets

CONSTANTS
    Streams,            \* what clients send
    Junk,               \* what a buffer cell may hold before it is written
    BufferSize,         \* HIW_MAX_HEADER_SIZE
    MAX_HEADERS_COUNT,  \* HIW_MAX_HEADERS_COUNT
    Requests,           \* the sizes servlets pass to hiw_request_recv
    ReadTimeout         \* whether recv may fail and succeed later

Kinds == {"s", "h", ":", "L", "C", "n", "r", "b", "t"}
Colons == {":", "L", "C"}

ASSUME ReaderAssumption ==
    /\ Streams \subseteq Seq(Kinds)
    /\ Junk \subseteq Kinds
    /\ BufferSize \in Nat \ {0}
    /\ MAX_HEADERS_COUNT \in Nat
    /\ Requests \subseteq Nat \ {0}
    /\ ReadTimeout \in BOOLEAN

VARIABLES
    stream, junk,       \* chosen once
    pc,                 \* "status", "headers": reading; "ready": returned
                        \* true; "status_only": returned true for a full
                        \* buffer; "refused": returned false; "corrupted":
                        \* wrote behind hiw_headers; "failed": the socket
                        \* failed for good while the body was read;
                        \* "out_of_step": the next request is read from
                        \* somewhere else than its start
    buf,                \* stream position held by each cell, 0 if unwritten
    bytes_read, pos,    \* locals of read_headers, pos relative to memory->ptr
    req,                \* hiw_request
    taken,              \* bytes received from the socket so far
    aligned,            \* history: recv always stopped at the end of a line,
                        \* until the empty line was in
    garbled,            \* history: a parsed line held other bytes than sent
    drawn,              \* history: body bytes taken out of buffer and socket
    body,               \* history: the stream positions handed to the servlet
    mixed               \* history: a hiw_request_recv copied read-ahead bytes
                        \* and called recv

vars == <<stream, junk, pc, buf, bytes_read, pos, req, taken, aligned, garbled,
          drawn, body, mixed>>

TypeOK ==
    /\ stream \in Streams
    /\ junk \in Junk
    /\ pc \in {"status", "headers", "ready", "status_only", "refused", "corrupted",
              "failed", "out_of_step"}
    /\ buf \in [1 .. BufferSize -> Nat]
    /\ bytes_read \in 0 .. BufferSize
    /\ pos \in Nat
    /\ req \in [headers : 0 .. MAX_HEADERS_COUNT, content_length : Int,
                content_length_remaining : Int, connection_close : BOOLEAN,
                read_ahead : Nat, read_ahead_length : Nat]
    /\ taken \in Nat
    /\ aligned \in BOOLEAN
    /\ garbled \in BOOLEAN
    /\ drawn \in Nat
    /\ body \in Seq(Nat)
    /\ mixed \in BOOLEAN

\* hiw_internal_request_reset
Reset ==
    [headers |-> 0, content_length |-> -1, content_length_remaining |-> 0,
     connection_close |-> TRUE, read_ahead |-> 0, read_ahead_length |-> 0]

Init ==
    /\ stream \in Streams
    /\ junk \in Junk
    /\ pc = "status"
    /\ buf = [i \in 1 .. BufferSize |-> 0]
    /\ bytes_read = 0
    /\ pos = 0
    /\ req = Reset
    /\ taken = 0
    /\ aligned = TRUE
    /\ garbled = FALSE
    /\ drawn = 0
    /\ body = << >>
    /\ mixed = FALSE

-------------------------------------------------------------------------------
(* Cells and lines *)

Cell(b, i) == IF b[i] = 0 THEN junk ELSE stream[b[i]]

\* hiw_string_readline on the cells behind `from` up to `to` finds a line
\* whose line feed is at nl.
IsLine(b, from, to, nl) ==
    /\ nl \in from + 1 .. to
    /\ Cell(b, nl) = "n"
    /\ \A i \in from + 1 .. nl - 1 : Cell(b, i) # "n"

NoLine(b, from, to) == \A i \in from + 1 .. to : Cell(b, i) # "n"

\* The kinds of the cells of a line, without its line feed.
Contents(from, nl) == {Cell(buf, i) : i \in from + 1 .. nl - 1}

\* The end of the empty line of the head.
IsHeadEnd(o) ==
    /\ o \in 2 .. Len(stream)
    /\ stream[o] = "n"
    /\ \/ stream[o - 1] = "n"
       \/ o > 2 /\ stream[o - 1] = "r" /\ stream[o - 2] = "n"

\* What the Content-Length header of the stream says.
ContentLength == Cardinality({i \in DOMAIN stream : stream[i] = "b"})

\* The socket holds n more bytes and they fit behind `at`.
Received(at, n) ==
    [i \in 1 .. BufferSize |-> IF i \in at + 1 .. at + n THEN taken + i - at ELSE buf[i]]

\* A piece that ends with a line feed, or behind the head.
EndsLine(n) ==
    stream[taken + n] = "n" \/ \E o \in 1 .. taken + n : IsHeadEnd(o)

Take(n) ==
    /\ n \in 1 .. BufferSize - bytes_read
    /\ n <= Len(stream) - taken
    /\ taken' = taken + n
    /\ bytes_read' = bytes_read + n
    /\ aligned' = (aligned /\ EndsLine(n))

-------------------------------------------------------------------------------
(* The first loop: recv until the status line is in. Only as many bytes as   *)
(* the last recv gave are searched, from the start of the buffer.            *)

ReadingStatus ==
    /\ pc = "status"
    /\ UNCHANGED <<stream, junk, req, garbled, drawn, body, mixed>>

\* hiw_internal_request_parse_status_line
ValidStatus(b, nl) == nl > 1 /\ \A i \in 1 .. nl - 1 : Cell(b, i) = "s"

RecvStatusLine(n) ==
    /\ ReadingStatus
    /\ Take(n)
    /\ buf' = Received(bytes_read, n)
    /\ \E nl \in 1 .. n :
        /\ IsLine(buf', 0, n, nl)
        /\ \/ ~ValidStatus(buf', nl) /\ pc' = "refused"
           \/ ValidStatus(buf', nl) /\ bytes_read' >= BufferSize /\ pc' = "status_only"
           \/ ValidStatus(buf', nl) /\ bytes_read' < BufferSize /\ pc' = "headers"
        /\ pos' = nl

RecvNoStatusLine(n) ==
    /\ ReadingStatus
    /\ Take(n)
    /\ buf' = Received(bytes_read, n)
    /\ NoLine(buf', 0, n)
    /\ pc' = IF bytes_read' >= BufferSize THEN "refused" ELSE "status"
    /\ UNCHANGED pos

-------------------------------------------------------------------------------
(* The second loop: parse the lines that are in, then recv more.             *)

ReadingHeaders ==
    /\ pc = "headers"
    /\ UNCHANGED <<stream, junk, buf, bytes_read, taken, aligned, drawn, body, mixed>>

\* Whether the cells up to nl hold the bytes the client sent there.
Intact(nl) == \A i \in pos + 1 .. nl : buf[i] = i

\* Mutant: only headers without a meaning of their own are counted.
ParseHeaderUncounted(nl) ==
    /\ ReadingHeaders
    /\ IsLine(buf, pos, bytes_read, nl)
    /\ Contents(pos, nl) \cap Colons # {}
    /\ garbled' = (garbled \/ ~Intact(nl))
    /\ pos' = nl
    /\ req' = [req EXCEPT !.headers =
                  IF Contents(pos, nl) \cap {"L", "C"} = {} THEN @ + 1 ELSE @]
    /\ UNCHANGED pc

\* A line with a colon. One header too many passes the test of the count and
\* is written behind the array, over the count itself; nothing is defined
\* from there on.
ParseHeader(nl) ==
    /\ ReadingHeaders
    /\ IsLine(buf, pos, bytes_read, nl)
    /\ Contents(pos, nl) \cap Colons # {}
    /\ garbled' = (garbled \/ ~Intact(nl))
    /\ IF req.headers = MAX_HEADERS_COUNT
       THEN pc' = "corrupted" /\ UNCHANGED <<pos, req>>
       ELSE /\ pos' = nl
            /\ req' = [req EXCEPT
                  !.headers = @ + 1,
                  !.content_length =
                      IF "L" \in Contents(pos, nl)
                      THEN ContentLength ELSE @,
                  !.connection_close =
                      IF "C" \in Contents(pos, nl) THEN FALSE ELSE @]
            /\ UNCHANGED pc

\* The empty line: what was received behind it is kept for hiw_request_recv.
ParseSeparator(nl) ==
    /\ ReadingHeaders
    /\ IsLine(buf, pos, bytes_read, nl)
    /\ nl - pos <= 2
    /\ Contents(pos, nl) \cap Colons = {}
    /\ pc' = "ready"
    /\ garbled' = (garbled \/ ~Intact(nl))
    /\ pos' = IF Contents(pos, nl) \subseteq {"r"} THEN nl ELSE pos
    /\ req' = [req EXCEPT !.content_length_remaining = req.content_length,
                          !.read_ahead = pos',
                          !.read_ahead_length = bytes_read - pos']

RefuseHeader(nl) ==
    /\ ReadingHeaders
    /\ IsLine(buf, pos, bytes_read, nl)
    /\ nl - pos > 2
    /\ Contents(pos, nl) \cap Colons = {}
    /\ pc' = "refused"
    /\ garbled' = (garbled \/ ~Intact(nl))
    /\ UNCHANGED <<pos, req>>

RefuseFull ==
    /\ ReadingHeaders
    /\ NoLine(buf, pos, bytes_read)
    /\ bytes_read = BufferSize
    /\ pc' = "refused"
    /\ UNCHANGED <<pos, req, garbled>>

\* Mutant: the free space is measured from pos.
RecvMoreFromPos(n) ==
    /\ pc = "headers"
    /\ NoLine(buf, pos, bytes_read)
    /\ n \in 1 .. BufferSize - pos
    /\ n <= Len(stream) - taken
    /\ taken' = taken + n
    /\ bytes_read' = bytes_read + n
    /\ aligned' = (aligned /\ EndsLine(n))
    /\ buf' = Received(pos, n)
    /\ UNCHANGED <<stream, junk, pc, pos, req, garbled, drawn, body, mixed>>

\* Mutant: the bytes go to the start of the memory.
RecvMoreAtStart(n) ==
    /\ pc = "headers"
    /\ NoLine(buf, pos, bytes_read)
    /\ Take(n)
    /\ buf' = Received(0, n)
    /\ UNCHANGED <<stream, junk, pc, pos, req, garbled, drawn, body, mixed>>

\* More bytes are received to pos, the start of a line that may be in partly.
RecvMore(n) ==
    /\ pc = "headers"
    /\ NoLine(buf, pos, bytes_read)
    /\ Take(n)
    /\ buf' = Received(pos, n)
    /\ UNCHANGED <<stream, junk, pc, pos, req, garbled, drawn, body, mixed>>

\* recv returned 0 or failed, in either loop.
RecvFails ==
    /\ \/ pc = "status"
       \/ pc = "headers" /\ NoLine(buf, pos, bytes_read) /\ bytes_read < BufferSize
    /\ pc' = "refused"
    /\ UNCHANGED <<stream, junk, buf, bytes_read, pos, req, taken, aligned,
                   garbled, drawn, body, mixed>>

-------------------------------------------------------------------------------
(* hiw_request_recv: first what was read ahead, then one recv for the rest. *)

Least(a, b) == IF a < b THEN a ELSE b

\* Mutant: what the servlet asks for is not clamped.
WantedUnclamped(n) == n

\* The request of the servlet, clamped to the content length.
Wanted(n) == Least(n, req.content_length_remaining)

\* The part of it that was read ahead.
Ahead(n) == Least(req.read_ahead_length, Wanted(n))

\* Mutant: the read-ahead is counted down, its start stays.
ConsumedInPlace(r) == [req EXCEPT !.read_ahead_length = @ - r]

Consumed(r) ==
    [req EXCEPT !.read_ahead = @ + r, !.read_ahead_length = @ - r]

\* What the servlet finds in its buffer: the recv starts at the beginning of
\* it, over the bytes that were copied there before.
Delivered(r, got) ==
    [i \in 1 .. r + got |->
        IF i <= got THEN taken + i
        ELSE IF i <= r THEN buf[req.read_ahead + i] ELSE 0]

ReadingBody ==
    /\ pc = "ready"
    /\ req.content_length_remaining > 0
    /\ UNCHANGED <<stream, junk, buf, bytes_read, pos, aligned, garbled>>

\* recv gives nothing only when nothing is asked of it or the client is done.
RecvBody(n) ==
    /\ ReadingBody
    /\ \E got \in 0 .. Wanted(n) - Ahead(n) :
        /\ got <= Len(stream) - taken
        /\ got = 0 => Wanted(n) = Ahead(n) \/ taken = Len(stream)
        /\ taken' = taken + got
        /\ drawn' = drawn + Ahead(n) + got
        /\ body' = body \o Delivered(Ahead(n), got)
        /\ mixed' = (mixed \/ Ahead(n) \in 1 .. Wanted(n) - 1)
        /\ req' = [Consumed(Ahead(n)) EXCEPT
                        !.content_length_remaining = @ - (Ahead(n) + got)]
    /\ UNCHANGED pc

\* recv fails, for good or until it is called again: -1 is returned and the
\* copied bytes are gone.
RecvBodyFails(n) ==
    /\ ReadingBody
    /\ Ahead(n) < Wanted(n)
    /\ req' = Consumed(Ahead(n))
    /\ drawn' = drawn + Ahead(n)
    /\ pc' \in {"failed"} \cup (IF ReadTimeout THEN {"ready"} ELSE {})
    /\ mixed' = (mixed \/ Ahead(n) > 0)
    /\ UNCHANGED <<taken, body>>

-------------------------------------------------------------------------------
(* The loop of hiw_servlet_start_filter_chain, once the servlet is done with *)
(* a keep-alive request: the reset drops what is left of the read-ahead.     *)

\* What was received from the socket ends where the request ends.
InStep ==
    \E o \in 1 .. Len(stream) :
        /\ IsHeadEnd(o)
        /\ \A p \in 1 .. o - 1 : ~IsHeadEnd(p)
        /\ taken = o + ContentLength

\* Mutant: what the servlet did not read stays in the socket.
DrainedUnchecked == TRUE

Drained == req.content_length_remaining <= 0

Reusable == pc = "ready" /\ ~req.connection_close /\ Drained

\* The cells of the buffer are left as they are: unwritten, for the next one.
NextRequest ==
    /\ Reusable
    /\ InStep
    /\ stream' \in Streams
    /\ junk' \in Junk
    /\ pc' = "status"
    /\ buf' = [i \in 1 .. BufferSize |-> 0]
    /\ bytes_read' = 0
    /\ pos' = 0
    /\ req' = Reset
    /\ taken' = 0
    /\ aligned' = TRUE
    /\ garbled' = FALSE
    /\ drawn' = 0
    /\ body' = << >>
    /\ mixed' = FALSE

NextOutOfStep ==
    /\ Reusable
    /\ ~InStep
    /\ pc' = "out_of_step"
    /\ UNCHANGED <<stream, junk, buf, bytes_read, pos, req, taken, aligned,
                   garbled, drawn, body, mixed>>

-------------------------------------------------------------------------------
Recv(n) == RecvStatusLine(n) \/ RecvNoStatusLine(n) \/ RecvMore(n)

Parse(nl) == ParseHeader(nl) \/ ParseSeparator(nl) \/ RefuseHeader(nl)

Next ==
    \/ \E n \in 1 .. BufferSize : Recv(n)
    \/ \E nl \in 1 .. BufferSize : Parse(nl)
    \/ RefuseFull
    \/ RecvFails
    \/ \E n \in Requests : RecvBody(n) \/ RecvBodyFails(n)
    \/ NextRequest
    \/ NextOutOfStep

Spec == Init /\ [][Next]_vars

-------------------------------------------------------------------------------
(* Properties *)

\* However the bytes arrive, the parser stays inside the bytes that were
\* received and recv inside the buffer, although the free space is measured
\* from bytes_read and the bytes are put at pos; and the read-ahead that is
\* left never reaches behind what was received.
BufferSafe ==
    /\ pos <= bytes_read
    /\ bytes_read <= BufferSize
    /\ req.read_ahead + req.read_ahead_length <= bytes_read

\* As long as every recv stops at the end of a line, every line the parser
\* takes is the one the client sent.
LinesFaithful == aligned => ~garbled

HeadEnd == CHOOSE o \in 1 .. Len(stream) :
    IsHeadEnd(o) /\ \A p \in 1 .. o - 1 : ~IsHeadEnd(p)

\* The split between what the parser read ahead and what is still in the
\* socket is exact, through any sequence of hiw_request_recv: together they
\* are the bytes behind the head that were not drawn yet.
ReadAheadExact ==
    pc = "ready" /\ aligned =>
        /\ taken - (HeadEnd + drawn) = req.read_ahead_length
        /\ \A i \in 1 .. req.read_ahead_length :
              buf[req.read_ahead + i] = HeadEnd + drawn + i

\* Every header line of the client is stored, and what its Content-Length and
\* Connection headers say is what the request goes by.
HeadersComplete ==
    pc = "ready" /\ aligned =>
        /\ req.headers = Cardinality({i \in DOMAIN stream : stream[i] \in Colons})
        /\ req.connection_close <=> \A i \in DOMAIN stream : stream[i] # "C"
        /\ req.content_length >= 0 <=> \E i \in DOMAIN stream : stream[i] = "L"

\* No more bytes are drawn for a request than its Content-Length, so the bytes
\* of a following request stay where they are.
NeverOverdrawn == drawn > 0 => drawn <= req.content_length

\* A connection is never reused before the end of the request that was
\* answered: no byte of its body is read as the next one. Only a client that
\* sends its next request early loses bytes of it.
ReuseInStep ==
    pc = "out_of_step" /\ aligned => taken > HeadEnd + ContentLength

\* The servlet reads the body in the order in which it was sent, as long as
\* each hiw_request_recv is answered from the read-ahead or from the socket.
BodyInOrder ==
    aligned /\ ~mixed => \A i \in 1 .. Len(body) : body[i] = HeadEnd + i

\* Drawn and still to be drawn, the body is the one that was sent.
BodyExact == ReadAheadExact /\ BodyInOrder

-------------------------------------------------------------------------------
(* What HeadersComplete, BodyExact and ReuseInStep suppose of the clients: *)
(* they send requests. The code takes a line of one letter for the empty   *)
(* line, and another colon in a line for a part of its value.              *)

\* The empty line of the head of s ends at o.
EndsHead(s, o) ==
    /\ o \in 2 .. Len(s)
    /\ s[o] = "n"
    /\ \/ s[o - 1] = "n"
       \/ o > 2 /\ s[o - 1] = "r" /\ s[o - 2] = "n"

\* i and j are line feeds of the head of s with a line between them.
HeadLine(s, i, j) ==
    /\ i \in 1 .. Len(s) /\ j \in i + 1 .. Len(s)
    /\ s[i] = "n" /\ s[j] = "n" /\ \A k \in i + 1 .. j - 1 : s[k] # "n"
    /\ \A o \in 1 .. i : ~EndsHead(s, o)

\* A line of the head that has one character is not a letter, a header line
\* has one colon, there are none behind the head, and a body is announced.
WellFormed(s) ==
    /\ \A i, j \in 1 .. Len(s) :
        HeadLine(s, i, j) =>
            /\ j = i + 2 => s[i + 1] \in Colons \cup {"r"}
            /\ \A k, l \in i + 1 .. j - 1 : s[k] \in Colons /\ s[l] \in Colons => k = l
    /\ \A o \in 1 .. Len(s) : EndsHead(s, o) => \A k \in o .. Len(s) : s[k] \notin Colons
    /\ (\E i \in 1 .. Len(s) : s[i] = "b") => \E i \in 1 .. Len(s) : s[i] = "L"

WellFormedStreams == \A s \in Streams : WellFormed(s)
===============================================================================
