--------------------------- MODULE ServletConnection ---------------------------
(***************************************************************************)
(* One accepted connection of servlet/src/hiw_servlet.c: the keep-alive    *)
(* loop of hiw_servlet_start_filter_chain and every call a servlet         *)
(* function (or a filter) can make on the request and the response.        *)
(*                                                                         *)
(* A header is its name. A body is its number of bytes. The response       *)
(* memory is measured in lines: the status line, each header and the       *)
(* separator take one each. hiw_client_sendall sends the first bytes again *)
(* after a send that took a part: the block may leave whole in length and  *)
(* wrong in its bytes, which the server does not notice.                   *)
(***************************************************************************)
EXTENDS Integers, Sequences, Functions

CONSTANTS
    AppHeaders,         \* the header names servlet code passes to write_header
    Statuses,           \* the status codes it sets; 0 means "not set"
    Lengths,            \* the content lengths it announces, of any sign
    Chunks,             \* the sizes of the body pieces it writes
    RequestLengths,     \* Content-Length of a request; -1 when it has none
    MAX_HEADERS_COUNT,  \* HIW_MAX_HEADERS_COUNT
    MAX_HEADER_SIZE,    \* HIW_MAX_HEADER_SIZE, in lines
    MaxBody             \* bound: the body bytes written in one exchange

ASSUME ConnectionAssumption ==
    /\ Statuses \subseteq Nat
    /\ Lengths \subseteq Int
    /\ Chunks \subseteq Nat
    /\ RequestLengths \subseteq Int
    /\ MAX_HEADERS_COUNT \in Nat
    /\ MAX_HEADER_SIZE \in Nat
    /\ MaxBody \in Nat

HeaderNames == AppHeaders \cup {"Content-Length", "Connection", "Server"}

ResponseFlags ==
    {"error", "headers_sent", "content_length_set", "connection_set",
     "status_code_set"}

VARIABLES
    phase,  \* "accepted": before the first request; "serving": the servlet
            \* function runs; "reuse": back at read_retry; "closed"; "crashed":
            \* hiw_memory_get was asked for more than the fixed memory holds;
            \* "killed": SIGPIPE, which the program leaves at its default
    req,    \* hiw_request: what the calls read and write of it
    resp,   \* hiw_response
    wire    \* what the client was sent since the last request was taken

vars == <<phase, req, resp, wire>>

\* What remains of a body is negative only when the header said so.
Requests ==
    {r \in [content_length : Int, content_length_remaining : Int,
            connection_close : BOOLEAN] :
        r.content_length_remaining \in Nat \cup {r.content_length}}

Responses ==
    [flags : SUBSET ResponseFlags, status_code : Nat,
     headers : Seq(HeaderNames), used : Nat, connection_close : BOOLEAN,
     content_length : Int, content_bytes_left : Int]

Wires ==
    [heads : Nat,           \* whole header blocks sent
     torn : BOOLEAN,        \* a send of the header block failed part way
     length : Nat, close : BOOLEAN,    \* what the last block announced
     body : Nat,            \* body bytes sent
     lost : BOOLEAN]        \* a block, of this request or an earlier one, told
                            \* the client something else than the server goes by

TypeOK ==
    /\ phase \in {"accepted", "serving", "reuse", "closed", "crashed", "killed"}
    /\ req \in Requests
    /\ resp \in Responses
    /\ wire \in Wires

-------------------------------------------------------------------------------
(* hiw_internal_request_reset, hiw_internal_response_reset *)

ResetRequest ==
    [content_length |-> -1, content_length_remaining |-> 0,
     connection_close |-> TRUE]

ResetResponse(close) ==
    [flags |-> {}, status_code |-> 0, headers |-> << >>, used |-> 0,
     connection_close |-> close, content_length |-> -1,
     content_bytes_left |-> 0]

QuietWire ==
    [heads |-> 0, torn |-> FALSE, length |-> 0, close |-> TRUE, body |-> 0,
     lost |-> FALSE]

\* A client that was lost once stays so.
NextWire == [QuietWire EXCEPT !.lost = wire.lost]

Init ==
    /\ phase = "accepted"
    /\ req = ResetRequest
    /\ resp = ResetResponse(TRUE)
    /\ wire = QuietWire

-------------------------------------------------------------------------------
(* The response as a value: what each call makes of it. *)

\* hiw_internal_response_error
Fail(r) == [r EXCEPT !.flags = @ \cup {"error"}]

\* Mutant: a name that is already in the block is not looked for.
CanWriteTwice(r, name) ==
    /\ "headers_sent" \notin r.flags
    /\ Len(r.headers) < MAX_HEADERS_COUNT
    /\ r.status_code # 0

\* The refusals of hiw_response_write_header.
CanWrite(r, name) ==
    /\ "headers_sent" \notin r.flags
    /\ Len(r.headers) < MAX_HEADERS_COUNT
    /\ name \notin Range(r.headers)
    /\ r.status_code # 0

\* The header goes behind the status line, which the first header writes.
Written(r, name) ==
    [r EXCEPT !.headers = Append(@, name),
              !.flags = @ \cup {"status_code_set"},
              !.used = @ + IF "status_code_set" \in r.flags THEN 1 ELSE 2]

WithHeader(r, name) == IF CanWrite(r, name) THEN Written(r, name) ELSE Fail(r)

\* hiw_response_set_content_length: only the first call counts.
WithLength(r, len) ==
    IF "content_length_set" \in r.flags THEN r
    ELSE IF ~CanWrite(r, "Content-Length") THEN Fail(r)
    ELSE [Written(r, "Content-Length") EXCEPT
            !.content_length = len,
            !.content_bytes_left = len,
            !.flags = @ \cup {"content_length_set"}]

\* Mutant: the choice is stored before the flag is looked at.
WithConnectionStored(r, close) ==
    IF "connection_set" \in r.flags THEN [r EXCEPT !.connection_close = close]
    ELSE IF ~CanWrite(r, "Connection") THEN Fail(r)
    ELSE [Written(r, "Connection") EXCEPT
            !.connection_close = close,
            !.flags = @ \cup {"connection_set"}]

\* hiw_response_set_connection_close: only the first call counts.
WithConnection(r, close) ==
    IF "connection_set" \in r.flags THEN r
    ELSE IF ~CanWrite(r, "Connection") THEN Fail(r)
    ELSE [Written(r, "Connection") EXCEPT
            !.connection_close = close,
            !.flags = @ \cup {"connection_set"}]

\* Mutant: the status is stored without a look at the flags.
WithStatusAlways(r, status) == [r EXCEPT !.status_code = status]

\* hiw_response_set_status_code
WithStatus(r, status) ==
    IF r.flags \cap {"headers_sent", "status_code_set"} # {} THEN Fail(r)
    ELSE [r EXCEPT !.status_code = status]

\* hiw_response_flush_headers up to its send: the mandatory headers, each of
\* which may be refused, then the separator.
Lengthened(r) == WithLength(r, 0)

Connected(r) ==
    IF "content_length_set" \in Lengthened(r).flags
    THEN WithConnection(Lengthened(r), Lengthened(r).connection_close)
    ELSE Lengthened(r)

Flushable(r) ==
    /\ r.status_code # 0
    /\ {"content_length_set", "connection_set"} \subseteq Connected(r).flags
    /\ CanWrite(Connected(r), "Server")

\* The response flush leaves behind when it refuses to send ...
Refused(r) == IF r.status_code = 0 THEN r ELSE Fail(Connected(r))

\* ... and the block it hands to hiw_client_sendall otherwise.
Block(r) == [Written(Connected(r), "Server") EXCEPT !.used = @ + 1]

SentHead(r) == [r EXCEPT !.flags = @ \cup {"headers_sent"}]

\* hiw_memory_get on the fixed memory never reports that it is full.
Overflows(r) == r.used > MAX_HEADER_SIZE

HeadersSent == "headers_sent" \in resp.flags

-------------------------------------------------------------------------------
(* hiw_servlet_start_filter_chain, from read_retry to the servlet function. *)

ReadRequest ==
    /\ phase \in {"accepted", "reuse"}
    /\ \E length \in RequestLengths, close \in BOOLEAN :
        /\ req' = [content_length |-> length,
                   content_length_remaining |-> length,
                   connection_close |-> close]
        /\ resp' = ResetResponse(close)
    /\ wire' = NextWire
    /\ phase' = "serving"

\* hiw_internal_request_read_headers returned false.
ReadFails ==
    /\ phase \in {"accepted", "reuse"}
    /\ req' = ResetRequest
    /\ resp' = ResetResponse(TRUE)
    /\ wire' = NextWire
    /\ phase' = "closed"

-------------------------------------------------------------------------------
(* The calls of the servlet function. *)

\* Mutant: the buffer is a byte larger than what remains, and filled.
RecvBodyOverdrawn ==
    /\ phase = "serving"
    /\ \E n \in 1 .. req.content_length_remaining + 1 :
        req' = [req EXCEPT !.content_length_remaining = @ - n]
    /\ UNCHANGED <<phase, resp, wire>>

\* hiw_request_recv: refused without remaining content, else 1..remaining
\* bytes arrive (a call that receives nothing changes nothing).
RecvBody ==
    /\ phase = "serving"
    /\ \E n \in 1 .. req.content_length_remaining :
        req' = [req EXCEPT !.content_length_remaining = @ - n]
    /\ UNCHANGED <<phase, resp, wire>>

SetStatusCode ==
    /\ phase = "serving"
    /\ \E status \in Statuses : resp' = WithStatus(resp, status)
    /\ UNCHANGED <<phase, req, wire>>

\* A call that only writes to the response memory and produced `next`.
Buffered(next) ==
    /\ resp' = next
    /\ phase' = IF Overflows(next) THEN "crashed" ELSE "serving"
    /\ UNCHANGED <<req, wire>>

WriteHeader ==
    /\ phase = "serving"
    /\ \E name \in AppHeaders : Buffered(WithHeader(resp, name))

SetContentLength ==
    /\ phase = "serving"
    /\ \E len \in Lengths : Buffered(WithLength(resp, len))

SetConnectionClose ==
    /\ phase = "serving"
    /\ \E close \in BOOLEAN : Buffered(WithConnection(resp, close))

-------------------------------------------------------------------------------
(* hiw_response_flush_headers, called by write_body_raw and after the       *)
(* servlet function. Any hiw_client_sendall may fail after some bytes; the  *)
(* failure is returned, or is a SIGPIPE that ends the process.              *)

MayFlush == HeadersSent \/ Flushable(resp)

FlushOverflows == ~HeadersSent /\ Flushable(resp) /\ Overflows(Block(resp))

MaySend == MayFlush /\ ~FlushOverflows

\* The response and the wire once the header block is out.
Flushed == IF HeadersSent THEN resp ELSE SentHead(Block(resp))

\* A negative length is announced as an unsigned one, for which the client
\* waits in vain. A block is garbled when its first bytes were sent again in
\* the place of others.
FlushedWire(garbled) ==
    IF HeadersSent THEN wire
    ELSE IF garbled \/ Block(resp).content_length < 0
    THEN [wire EXCEPT !.heads = @ + 1, !.lost = TRUE]
    ELSE [wire EXCEPT !.heads = @ + 1,
                      !.length = Block(resp).content_length,
                      !.close = Block(resp).connection_close]

\* The send of the header block failed.
TornWire == [wire EXCEPT !.torn = TRUE]

-------------------------------------------------------------------------------
(* hiw_response_write_body_raw *)

\* No content length yet, or a header that flush must add is refused.
WriteBodyRefused ==
    /\ phase = "serving"
    /\ ~HeadersSent
    /\ \/ /\ resp.content_length <= 0
          /\ Buffered(Fail(resp))
       \/ /\ resp.content_length > 0
          /\ ~Flushable(resp)
          /\ Buffered(Fail(Refused(resp)))
       \/ /\ resp.content_length > 0
          /\ FlushOverflows
          /\ Buffered(Block(resp))

\* A body call that finds the headers sent or sendable.
BodyCall == phase = "serving" /\ MaySend /\ (HeadersSent \/ resp.content_length > 0)

WriteBodyHeadFails ==
    /\ BodyCall
    /\ ~HeadersSent
    /\ resp' = Fail(Block(resp))
    /\ wire' = TornWire
    /\ phase' \in {"serving", "killed"}
    /\ UNCHANGED req

\* The bytes are sent first and counted afterwards.
Counted(r, n) ==
    LET left == IF r.content_bytes_left > 0 THEN r.content_bytes_left - n
                                            ELSE r.content_bytes_left
    IN  IF r.content_length <= 0 THEN r
        ELSE IF left < 0 THEN Fail([r EXCEPT !.content_bytes_left = left])
        ELSE [r EXCEPT !.content_bytes_left = left]

WriteBody(n) ==
    /\ BodyCall
    /\ wire.body + n <= MaxBody
    /\ resp' = Counted(Flushed, n)
    /\ \E garbled \in BOOLEAN :
        wire' = [FlushedWire(garbled) EXCEPT !.body = @ + n]
    /\ UNCHANGED <<phase, req>>

\* Mutant: the piece is counted before it is sent.
WriteBodyFailsCounted(n) ==
    /\ BodyCall
    /\ wire.body + n <= MaxBody
    /\ \E garbled \in BOOLEAN, k \in 0 .. n - 1 :
        wire' = [FlushedWire(garbled) EXCEPT !.body = @ + k]
    /\ resp' = Fail(Counted(Flushed, n))
    /\ phase' \in {"serving", "killed"}
    /\ UNCHANGED req

\* Only the first k bytes left before the send failed.
WriteBodyFails(n) ==
    /\ BodyCall
    /\ wire.body + n <= MaxBody
    /\ \E garbled \in BOOLEAN, k \in 0 .. n - 1 :
        wire' = [FlushedWire(garbled) EXCEPT !.body = @ + k]
    /\ resp' = Fail(Flushed)
    /\ phase' \in {"serving", "killed"}
    /\ UNCHANGED req

-------------------------------------------------------------------------------
(* After the servlet function returned: read_abort or read_retry. *)

Abort(r) ==
    /\ phase' = "closed"
    /\ resp' = [r EXCEPT !.connection_close = TRUE]
    /\ UNCHANGED req

\* The servlet did not read the whole request body: nothing more is sent.
FinishUnread ==
    /\ phase = "serving"
    /\ req.content_length_remaining > 0
    /\ Abort(resp)
    /\ UNCHANGED wire

\* Mutant: the request body is not looked at.
DrainedUnchecked == phase = "serving"

\* Whether the servlet function returned with the request body read.
Drained == phase = "serving" /\ req.content_length_remaining <= 0

FinishRefused ==
    /\ Drained
    /\ \/ /\ ~MayFlush
          /\ ~Overflows(Refused(resp))
          /\ Abort(Refused(resp))
          /\ UNCHANGED wire
       \/ /\ ~MayFlush
          /\ Overflows(Refused(resp))
          /\ Buffered(Refused(resp))
       \/ /\ FlushOverflows
          /\ Buffered(Block(resp))

FinishHeadFails ==
    /\ Drained
    /\ MaySend
    /\ ~HeadersSent
    /\ wire' = TornWire
    /\ \/ Abort(Fail(Block(resp)))
       \/ /\ phase' = "killed"
          /\ resp' = Fail(Block(resp))
          /\ UNCHANGED req

\* Mutant: the bytes that are still owed do not close the connection.
FinishResponseShort ==
    /\ Drained
    /\ MaySend
    /\ \E garbled \in BOOLEAN : wire' = FlushedWire(garbled)
    /\ \/ Flushed.connection_close /\ Abort(Flushed)
       \/ /\ ~Flushed.connection_close
          /\ phase' = "reuse"
          /\ resp' = Flushed
          /\ UNCHANGED req

\* The response is out: close, or go back to read_retry.
FinishResponse ==
    /\ Drained
    /\ MaySend
    /\ \E garbled \in BOOLEAN : wire' = FlushedWire(garbled)
    /\ \/ /\ \/ Flushed.content_bytes_left > 0
             \/ Flushed.connection_close
          /\ Abort(Flushed)
       \/ /\ Flushed.content_bytes_left <= 0
          /\ ~Flushed.connection_close
          /\ phase' = "reuse"
          /\ resp' = Flushed
          /\ UNCHANGED req

-------------------------------------------------------------------------------
Call ==
    \/ RecvBody
    \/ SetStatusCode
    \/ WriteHeader
    \/ SetContentLength
    \/ SetConnectionClose
    \/ WriteBodyRefused
    \/ WriteBodyHeadFails
    \/ \E n \in Chunks : WriteBody(n) \/ WriteBodyFails(n)

Finish == FinishUnread \/ FinishRefused \/ FinishHeadFails \/ FinishResponse

Next == ReadRequest \/ ReadFails \/ Call \/ Finish

Spec == Init /\ [][Next]_vars
-------------------------------------------------------------------------------
(* Properties *)

\* At most one whole header block leaves per request, body bytes only follow
\* a whole block, and after a block whose send failed nothing more is sent:
\* flush_headers can be entered again by every further write_body_raw and by
\* the loop, and only its refusals keep it from sending a second time.
HeadOnce ==
    /\ wire.heads <= 1
    /\ wire.body > 0 => wire.heads = 1
    /\ wire.torn => wire.heads = 0

\* The block that hiw_client_sendall was given carries Content-Length,
\* Connection and Server, no name twice and no more names than hiw_headers has
\* slots, whatever headers the servlet wrote under those names itself.
BlockWellFormed ==
    wire.heads > 0 =>
        /\ {"Content-Length", "Connection", "Server"} \subseteq Range(resp.headers)
        /\ IsInjective(resp.headers)
        /\ Len(resp.headers) <= MAX_HEADERS_COUNT

\* The client is sent one header block per request, whole and well formed or
\* as the last thing it is sent.
HeadSound == HeadOnce /\ BlockWellFormed

\* What the client was told is what the server goes by: after the block is
\* out no call changes the content length that write_body_raw counts against
\* or the choice between read_retry and read_abort. A client is lost, here and
\* below, from a garbled block or a negative length on.
AnnouncedIsEnforced ==
    wire.heads = 1 /\ ~wire.lost =>
        /\ wire.length = resp.content_length
        /\ phase \in {"serving", "reuse"} => wire.close = resp.connection_close

\* content_bytes_left never promises less than what the client still waits
\* for, even after sends that failed part way and were tried again.
BodyAccounted ==
    wire.heads = 1 /\ ~wire.lost =>
        wire.length <= wire.body + IF resp.content_bytes_left > 0
                                   THEN resp.content_bytes_left ELSE 0

\* read_retry is reached only when a whole block is out and the request body
\* was read to the end, and, if the client was never lost, it was told
\* keep-alive and has at least the announced body.
ReuseIsClean ==
    phase = "reuse" =>
        /\ wire.heads = 1
        /\ ~wire.lost => ~wire.close /\ wire.body >= wire.length
        /\ req.content_length_remaining <= 0

\* Once the block is out, no call of the servlet changes the status, the
\* headers or the announced length; before that, a status that was written
\* into the block stays.
HeadFrozen ==
    [][phase = "serving" /\ phase' \in {"serving", "reuse"} =>
        /\ HeadersSent => /\ resp'.status_code = resp.status_code
                          /\ resp'.headers = resp.headers
                          /\ resp'.content_length = resp.content_length
        /\ "status_code_set" \in resp.flags =>
                          resp'.status_code = resp.status_code]_vars

\* The connection implements the exchange its client relies on.
Exchange ==
    INSTANCE HttpExchange WITH
        stage <- CASE wire.lost -> "lost"
                   [] ~wire.lost /\ phase \in {"accepted", "reuse"} -> "idle"
                   [] ~wire.lost /\ phase = "serving" /\ wire.heads = 0 -> "request"
                   [] ~wire.lost /\ phase = "serving" /\ wire.heads # 0 -> "head"
                   [] OTHER -> "closed",
        due <- wire.length,
        got <- wire.body,
        close <- wire.close

ImplementsExchange == Exchange!Spec
===============================================================================
