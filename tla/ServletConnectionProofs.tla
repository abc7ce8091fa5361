------------------------ MODULE ServletConnectionProofs ------------------------
(***************************************************************************)
(* Proofs about ServletConnection, for all values of its constants: the    *)
(* type invariant, the safety invariants its run checks, the action        *)
(* property HeadFrozen and the refinement of HttpExchange.                 *)
(***************************************************************************)
EXTENDS ServletConnection, TLAPS

-------------------------------------------------------------------------------
(* Sequences of header names *)

\* Appending adds exactly one name.
LEMMA AppendRange ==
    ASSUME NEW S, NEW s \in Seq(S), NEW x \in S
    PROVE  /\ Append(s, x) \in Seq(S)
           /\ Len(Append(s, x)) = Len(s) + 1
           /\ Range(Append(s, x)) = Range(s) \cup {x}
<1>1. /\ Append(s, x) \in Seq(S)
      /\ DOMAIN Append(s, x) = 1 .. Len(s) + 1
      /\ Len(Append(s, x)) = Len(s) + 1
      /\ \A i \in 1 .. Len(s) : Append(s, x)[i] = s[i]
      /\ Append(s, x)[Len(s) + 1] = x
      /\ DOMAIN s = 1 .. Len(s)
      /\ Len(s) \in Nat
  OBVIOUS
<1>2. Range(s) \cup {x} \subseteq Range(Append(s, x))
  BY <1>1 DEF Range
<1>3. Range(Append(s, x)) \subseteq Range(s) \cup {x}
  BY <1>1 DEF Range
<1> QED BY <1>1, <1>2, <1>3

\* Appending a new name keeps the names distinct.
LEMMA AppendInjective ==
    ASSUME NEW S, NEW s \in Seq(S), NEW x \in S,
           IsInjective(s), x \notin Range(s)
    PROVE  IsInjective(Append(s, x))
<1>1. /\ DOMAIN Append(s, x) = 1 .. Len(s) + 1
      /\ \A i \in 1 .. Len(s) : Append(s, x)[i] = s[i]
      /\ Append(s, x)[Len(s) + 1] = x
      /\ DOMAIN s = 1 .. Len(s)
      /\ Len(s) \in Nat
  OBVIOUS
<1>2. \A i \in 1 .. Len(s) : s[i] # x
  BY <1>1 DEF Range
<1> QED BY <1>1, <1>2 DEF IsInjective

-------------------------------------------------------------------------------
(* The response as a value *)

\* What every response the calls can produce satisfies.
Good(r) ==
    /\ r \in Responses
    /\ IsInjective(r.headers)
    /\ Len(r.headers) <= MAX_HEADERS_COUNT
    /\ "content_length_set" \in r.flags =>
           "Content-Length" \in Range(r.headers)
    /\ "content_length_set" \notin r.flags =>
           r.content_length = -1 /\ r.content_bytes_left = 0
    /\ "connection_set" \in r.flags => "Connection" \in Range(r.headers)
    /\ "headers_sent" \notin r.flags /\ "content_length_set" \in r.flags =>
           r.content_bytes_left = r.content_length
    /\ "headers_sent" \in r.flags =>
           /\ {"content_length_set", "connection_set"} \subseteq r.flags
           /\ "Server" \in Range(r.headers)

\* What a call that only writes to the response memory may change.
Evolves(r, s) ==
    /\ Good(s)
    /\ "headers_sent" \in s.flags <=> "headers_sent" \in r.flags
    /\ r.flags \subseteq s.flags
    /\ Range(r.headers) \subseteq Range(s.headers)
    /\ "headers_sent" \in r.flags =>
           /\ s.headers = r.headers
           /\ s.status_code = r.status_code
           /\ s.content_length = r.content_length
           /\ s.content_bytes_left = r.content_bytes_left
           /\ s.connection_close = r.connection_close
    /\ "status_code_set" \in r.flags => s.status_code = r.status_code

LEMMA FailEvolves ==
    ASSUME NEW r, Good(r)
    PROVE  Evolves(r, Fail(r))
  BY DEF Good, Evolves, Fail, Responses, ResponseFlags

\* A header that is not refused is one more name of the block.
LEMMA WrittenAdds ==
    ASSUME NEW r, Good(r), NEW name \in HeaderNames, CanWrite(r, name)
    PROVE  LET w == Written(r, name)
           IN  /\ w \in Responses
               /\ IsInjective(w.headers)
               /\ Len(w.headers) <= MAX_HEADERS_COUNT
               /\ Range(w.headers) = Range(r.headers) \cup {name}
               /\ w.flags = r.flags \cup {"status_code_set"}
               /\ w.status_code = r.status_code
               /\ w.content_length = r.content_length
               /\ w.content_bytes_left = r.content_bytes_left
               /\ w.connection_close = r.connection_close
               /\ "headers_sent" \notin r.flags
<1> DEFINE w == Written(r, name)
<1>1. /\ r \in Responses
      /\ r.headers \in Seq(HeaderNames)
      /\ Len(r.headers) \in Nat
  BY DEF Good, Responses
<1>2. /\ w.headers = Append(r.headers, name)
      /\ w.flags = r.flags \cup {"status_code_set"}
      /\ w.used = r.used + IF "status_code_set" \in r.flags THEN 1 ELSE 2
      /\ w.status_code = r.status_code
      /\ w.content_length = r.content_length
      /\ w.content_bytes_left = r.content_bytes_left
      /\ w.connection_close = r.connection_close
  BY <1>1 DEF Written, Responses
<1>3. /\ w.headers \in Seq(HeaderNames)
      /\ Len(w.headers) = Len(r.headers) + 1
      /\ Range(w.headers) = Range(r.headers) \cup {name}
  BY <1>1, <1>2, AppendRange
<1>4. IsInjective(w.headers)
  BY <1>1, <1>2, AppendInjective DEF Good, CanWrite
<1>5. w \in Responses
  <2>1. w.used \in Nat
    BY <1>1, <1>2 DEF Responses
  <2> QED
    BY <1>1, <1>3, <2>1 DEF Written, Responses, ResponseFlags
<1>6. Len(w.headers) <= MAX_HEADERS_COUNT
  BY <1>1, <1>3, ConnectionAssumption DEF CanWrite
<1> QED
  BY <1>2, <1>3, <1>4, <1>5, <1>6 DEF CanWrite

LEMMA WrittenEvolves ==
    ASSUME NEW r, Good(r), NEW name \in HeaderNames, CanWrite(r, name)
    PROVE  Evolves(r, Written(r, name))
<1>. DEFINE w == Written(r, name)
<1>1. /\ w \in Responses
      /\ IsInjective(w.headers)
      /\ Len(w.headers) <= MAX_HEADERS_COUNT
      /\ Range(w.headers) = Range(r.headers) \cup {name}
      /\ w.flags = r.flags \cup {"status_code_set"}
      /\ w.status_code = r.status_code
      /\ w.content_length = r.content_length
      /\ w.content_bytes_left = r.content_bytes_left
      /\ w.connection_close = r.connection_close
      /\ "headers_sent" \notin r.flags
  BY WrittenAdds
<1>. HIDE DEF w
<1>2. Good(w)
  BY <1>1 DEF Good
<1> QED
  BY <1>1, <1>2 DEF Evolves, w

LEMMA WithHeaderEvolves ==
    ASSUME NEW r, Good(r), NEW name \in HeaderNames
    PROVE  Evolves(r, WithHeader(r, name))
  BY FailEvolves, WrittenEvolves DEF WithHeader

LEMMA WithLengthEvolves ==
    ASSUME NEW r, Good(r), NEW len \in Int
    PROVE  Evolves(r, WithLength(r, len))
<1> DEFINE s == WithLength(r, len)
           w == Written(r, "Content-Length")
<1>1. CASE "content_length_set" \in r.flags
  BY <1>1 DEF WithLength, Evolves
<1>2. CASE "content_length_set" \notin r.flags /\ ~CanWrite(r, "Content-Length")
  BY <1>2, FailEvolves DEF WithLength
<1>3. CASE "content_length_set" \notin r.flags /\ CanWrite(r, "Content-Length")
  <2>1. /\ w \in Responses
        /\ IsInjective(w.headers)
        /\ Len(w.headers) <= MAX_HEADERS_COUNT
        /\ Range(w.headers) = Range(r.headers) \cup {"Content-Length"}
        /\ w.flags = r.flags \cup {"status_code_set"}
        /\ w.status_code = r.status_code
        /\ "headers_sent" \notin r.flags
    BY <1>3, WrittenAdds DEF HeaderNames
  <2>2. s = [w EXCEPT !.content_length = len,
                      !.content_bytes_left = len,
                      !.flags = @ \cup {"content_length_set"}]
    BY <1>3 DEF WithLength
  <2> HIDE DEF w, s
  <2>3. /\ s \in Responses
        /\ s.headers = w.headers
        /\ s.flags = r.flags \cup {"status_code_set", "content_length_set"}
        /\ s.status_code = r.status_code
        /\ s.content_length = len
        /\ s.content_bytes_left = len
    <3>1. len \in Int
      OBVIOUS
    <3>2. w.flags \cup {"content_length_set"} \in SUBSET ResponseFlags
      BY <2>1 DEF Responses, ResponseFlags
    <3> QED
      BY <2>1, <2>2, <3>1, <3>2 DEF Responses
  <2>4. "connection_set" \in s.flags => "Connection" \in Range(s.headers)
    BY <2>1, <2>3 DEF Good
  <2>5. Good(s)
    BY <2>1, <2>3, <2>4 DEF Good
  <2>6. Evolves(r, s)
    BY <2>1, <2>3, <2>5 DEF Evolves
  <2> QED
    BY <2>6 DEF s
<1> QED
  BY <1>1, <1>2, <1>3

LEMMA WithConnectionEvolves ==
    ASSUME NEW r, Good(r), NEW close \in BOOLEAN
    PROVE  Evolves(r, WithConnection(r, close))
<1> DEFINE s == WithConnection(r, close)
           w == Written(r, "Connection")
<1>1. CASE "connection_set" \in r.flags
  BY <1>1 DEF WithConnection, Evolves
<1>2. CASE "connection_set" \notin r.flags /\ ~CanWrite(r, "Connection")
  BY <1>2, FailEvolves DEF WithConnection
<1>3. CASE "connection_set" \notin r.flags /\ CanWrite(r, "Connection")
  <2>1. /\ w \in Responses
        /\ IsInjective(w.headers)
        /\ Len(w.headers) <= MAX_HEADERS_COUNT
        /\ Range(w.headers) = Range(r.headers) \cup {"Connection"}
        /\ w.flags = r.flags \cup {"status_code_set"}
        /\ w.status_code = r.status_code
        /\ w.content_length = r.content_length
        /\ w.content_bytes_left = r.content_bytes_left
        /\ "headers_sent" \notin r.flags
    BY <1>3, WrittenAdds DEF HeaderNames
  <2>2. s = [w EXCEPT !.connection_close = close,
                      !.flags = @ \cup {"connection_set"}]
    BY <1>3 DEF WithConnection
  <2> HIDE DEF w, s
  <2>3. /\ s \in Responses
        /\ s.headers = w.headers
        /\ s.flags = r.flags \cup {"status_code_set", "connection_set"}
        /\ s.status_code = r.status_code
        /\ s.content_length = r.content_length
        /\ s.content_bytes_left = r.content_bytes_left
    BY <2>1, <2>2 DEF Responses, ResponseFlags
  <2>4. Good(s)
    BY <2>1, <2>3 DEF Good
  <2>5. Evolves(r, s)
    BY <2>1, <2>3, <2>4 DEF Evolves
  <2> QED
    BY <2>5 DEF s
<1> QED
  BY <1>1, <1>2, <1>3

LEMMA WithStatusEvolves ==
    ASSUME NEW r, Good(r), NEW status \in Nat
    PROVE  Evolves(r, WithStatus(r, status))
<1>1. CASE r.flags \cap {"headers_sent", "status_code_set"} # {}
  BY <1>1, FailEvolves DEF WithStatus
<1>2. CASE r.flags \cap {"headers_sent", "status_code_set"} = {}
  <2>1. WithStatus(r, status) = [r EXCEPT !.status_code = status]
    BY <1>2 DEF WithStatus
  <2>2. Good([r EXCEPT !.status_code = status])
    BY DEF Good, Responses
  <2> QED
    BY <1>2, <2>1, <2>2 DEF Evolves, Good, Responses
<1> QED
  BY <1>1, <1>2

\* One call after another is an evolution again.
LEMMA EvolvesTwice ==
    ASSUME NEW r, NEW s, NEW t, Evolves(r, s), Evolves(s, t)
    PROVE  Evolves(r, t)
  BY DEF Evolves

\* The mandatory headers that flush_headers adds before "Server".
LEMMA ConnectedEvolves ==
    ASSUME NEW r, Good(r)
    PROVE  Evolves(r, Connected(r))
<1> DEFINE l == Lengthened(r)
<1>1. Evolves(r, l)
  BY WithLengthEvolves DEF Lengthened
<1>2. Good(l) /\ l.connection_close \in BOOLEAN
  BY <1>1 DEF Evolves, Good, Responses
<1>3. Evolves(l, WithConnection(l, l.connection_close))
  BY <1>2, WithConnectionEvolves
<1>4. Evolves(r, WithConnection(l, l.connection_close))
  BY <1>1, <1>3, EvolvesTwice
<1> QED
  BY <1>1, <1>4 DEF Connected

LEMMA RefusedEvolves ==
    ASSUME NEW r, Good(r)
    PROVE  Evolves(r, Refused(r))
<1>1. Evolves(r, r)
  BY DEF Evolves
<1>2. Evolves(r, Connected(r)) /\ Good(Connected(r))
  BY ConnectedEvolves DEF Evolves
<1>3. Evolves(r, Fail(Connected(r)))
  BY <1>2, FailEvolves, EvolvesTwice
<1> QED
  BY <1>1, <1>3 DEF Refused

\* The block that is sent: its length is announced and nothing is counted yet.
LEMMA BlockReady ==
    ASSUME NEW r, Good(r), "headers_sent" \notin r.flags, Flushable(r)
    PROVE  /\ Evolves(r, Block(r))
           /\ {"content_length_set", "connection_set"} \subseteq Block(r).flags
           /\ "Server" \in Range(Block(r).headers)
           /\ Block(r).content_length \in Int
           /\ Block(r).content_bytes_left = Block(r).content_length
<1> DEFINE c == Connected(r)
           w == Written(c, "Server")
           b == Block(r)
<1>1. Evolves(r, c) /\ Good(c)
  BY ConnectedEvolves DEF Evolves
<1>2. CanWrite(c, "Server") /\ {"content_length_set", "connection_set"} \subseteq c.flags
  BY DEF Flushable
<1>3. Evolves(c, w)
  BY <1>1, <1>2, WrittenEvolves DEF HeaderNames
<1>4. Range(w.headers) = Range(c.headers) \cup {"Server"}
  BY <1>1, <1>2, WrittenAdds DEF HeaderNames
<1>5. Evolves(r, w) /\ Good(w)
  BY <1>1, <1>3, EvolvesTwice DEF Evolves
<1>6. b = [w EXCEPT !.used = @ + 1]
  BY DEF Block
<1>7. {"content_length_set", "connection_set"} \subseteq w.flags
  BY <1>2, <1>3 DEF Evolves
<1> HIDE DEF w, b
<1>8. /\ b \in Responses
      /\ b.flags = w.flags
      /\ b.headers = w.headers
      /\ b.status_code = w.status_code
      /\ b.content_length = w.content_length
      /\ b.content_bytes_left = w.content_bytes_left
      /\ b.connection_close = w.connection_close
  <2>1. w \in Responses
    BY <1>5 DEF Good
  <2> QED
    BY <2>1, <1>6 DEF Responses
<1>9. Good(b)
  BY <1>5, <1>8 DEF Good
<1>10. Evolves(r, b)
  BY <1>5, <1>8, <1>9 DEF Evolves
<1>11. "headers_sent" \notin b.flags
  BY <1>10 DEF Evolves
<1>12. b.content_length \in Int /\ b.content_bytes_left = b.content_length
  BY <1>7, <1>8, <1>9, <1>11 DEF Good, Responses
<1> QED
  BY <1>4, <1>7, <1>8, <1>10, <1>12 DEF b

LEMMA SentHeadGood ==
    ASSUME NEW r, Good(r), "headers_sent" \notin r.flags, Flushable(r)
    PROVE  LET s == SentHead(Block(r))
           IN  /\ Good(s)
               /\ "headers_sent" \in s.flags
               /\ s.content_length \in Int
               /\ s.content_bytes_left = s.content_length
               /\ s.content_length = Block(r).content_length
               /\ s.connection_close = Block(r).connection_close
<1> DEFINE b == Block(r)
           s == SentHead(b)
<1>1. /\ Good(b)
      /\ {"content_length_set", "connection_set"} \subseteq b.flags
      /\ "Server" \in Range(b.headers)
      /\ b.content_length \in Int
      /\ b.content_bytes_left = b.content_length
  BY BlockReady DEF Evolves
<1> HIDE DEF b
<1>2. /\ s.flags = b.flags \cup {"headers_sent"}
      /\ s.headers = b.headers
      /\ s.content_length = b.content_length
      /\ s.content_bytes_left = b.content_bytes_left
      /\ s.connection_close = b.connection_close
      /\ s \in Responses
  BY <1>1 DEF SentHead, Good, Responses, ResponseFlags
<1> HIDE DEF s
<1>3. Good(s)
  BY <1>1, <1>2 DEF Good
<1> QED
  BY <1>1, <1>2, <1>3 DEF s, b

\* A second attempt at the block is refused, because "Server" is there.
LEMMA NoSecondBlock ==
    ASSUME NEW r, Good(r), "Server" \in Range(r.headers)
    PROVE  ~Flushable(r)
<1>1. Range(r.headers) \subseteq Range(Connected(r).headers)
  BY ConnectedEvolves DEF Evolves
<1> QED
  BY <1>1 DEF Flushable, CanWrite

-------------------------------------------------------------------------------
(* The inductive invariant *)

\* What r says is left to send covers what the client waits for after `body`
\* bytes.
Covers(r, body) ==
    r.content_length <= body + IF r.content_bytes_left > 0
                               THEN r.content_bytes_left ELSE 0

\* The wire and the response tell the same story: flags, counters and the
\* request state agree with what was sent.
Inv ==
    /\ TypeOK
    /\ Good(resp)
    /\ wire.heads = IF HeadersSent THEN 1 ELSE 0
    /\ ~HeadersSent => wire.body = 0
    /\ wire.torn => ~HeadersSent /\ "Server" \in Range(resp.headers)
    /\ HeadersSent /\ ~wire.lost =>
           /\ wire.length = resp.content_length
           /\ phase \in {"serving", "reuse"} => wire.close = resp.connection_close
           /\ Covers(resp, wire.body)
    /\ phase = "reuse" =>
           /\ HeadersSent
           /\ ~resp.connection_close
           /\ resp.content_bytes_left <= 0
           /\ req.content_length_remaining <= 0

LEMMA ResetGood ==
    ASSUME NEW close \in BOOLEAN
    PROVE  Good(ResetResponse(close))
<1> DEFINE r == ResetResponse(close)
<1>1. << >> \in Seq(HeaderNames) /\ Len(<< >>) = 0 /\ DOMAIN << >> = {}
  OBVIOUS
<1>2. /\ r \in Responses
      /\ r.flags = {}
      /\ r.headers = << >>
      /\ r.content_length = -1
      /\ r.content_bytes_left = 0
  BY <1>1 DEF ResetResponse, Responses
<1> HIDE DEF r
<1>3. IsInjective(r.headers) /\ Len(r.headers) <= MAX_HEADERS_COUNT
  BY <1>1, <1>2, ConnectionAssumption DEF IsInjective
<1>4. Good(r)
  BY <1>2, <1>3 DEF Good
<1> QED
  BY <1>4 DEF r

\* A request that was just taken, or an aborted read: nothing is on the wire.
LEMMA FreshStep ==
    ASSUME Inv, NEW close \in BOOLEAN, req' \in Requests,
           resp' = ResetResponse(close),
           wire' = NextWire, phase' \in {"accepted", "serving", "closed"}
    PROVE  Inv'
<1>1. Good(resp') /\ resp' \in Responses /\ resp'.flags = {}
  BY ResetGood DEF Good, ResetResponse
<1>2. wire' \in Wires /\ wire'.heads = 0 /\ wire'.body = 0 /\ ~wire'.torn
  BY DEF NextWire, QuietWire, Wires, Inv, TypeOK
<1>3. TypeOK'
  BY <1>1, <1>2 DEF TypeOK
<1>4. Good(resp)'
  BY <1>1 DEF Good
<1> QED
  BY <1>1, <1>2, <1>3, <1>4 DEF Inv, HeadersSent

\* A step that sends nothing and stays clear of read_retry.
LEMMA SilentStep ==
    ASSUME Inv, phase = "serving", req' \in Requests, wire' = wire,
           phase' \in {"serving", "closed", "crashed", "killed"},
           Good(resp'),
           "headers_sent" \in resp'.flags <=> "headers_sent" \in resp.flags,
           Range(resp.headers) \subseteq Range(resp'.headers),
           HeadersSent =>
               /\ resp'.content_length = resp.content_length
               /\ resp'.content_bytes_left = resp.content_bytes_left
               /\ phase' = "serving" =>
                      resp'.connection_close = resp.connection_close
    PROVE  Inv'
<1>1. TypeOK'
  BY DEF Inv, TypeOK, Good
<1>2. Good(resp)'
  BY DEF Good
<1> QED
  BY <1>1, <1>2 DEF Inv, HeadersSent, Covers

LEMMA BufferedStep ==
    ASSUME Inv, phase = "serving", NEW next, Evolves(resp, next), Buffered(next)
    PROVE  Inv'
<1>1. req' \in Requests /\ wire' = wire /\ resp' = next
      /\ phase' \in {"serving", "crashed"}
  BY DEF Buffered, Inv, TypeOK
<1> QED
  BY <1>1, SilentStep DEF Evolves, HeadersSent

LEMMA AbortGood ==
    ASSUME NEW r, Good(r)
    PROVE  LET a == [r EXCEPT !.connection_close = TRUE]
           IN  /\ Good(a)
               /\ a.flags = r.flags
               /\ a.headers = r.headers
               /\ a.content_length = r.content_length
               /\ a.content_bytes_left = r.content_bytes_left
               /\ a.status_code = r.status_code
  BY DEF Good, Responses

LEMMA AbortStep ==
    ASSUME Inv, phase = "serving", NEW r, Evolves(resp, r), Abort(r), wire' = wire
    PROVE  Inv'
<1>1. Good(r)
  BY DEF Evolves
<1>2. /\ Good(resp')
      /\ resp'.flags = r.flags
      /\ resp'.headers = r.headers
      /\ resp'.content_length = r.content_length
      /\ resp'.content_bytes_left = r.content_bytes_left
  BY <1>1, AbortGood DEF Abort
<1>3. req' \in Requests /\ phase' = "closed"
  BY DEF Abort, Inv, TypeOK
<1> QED
  BY <1>2, <1>3, SilentStep DEF Evolves, HeadersSent

\* A header block whose send failed: the retry is refused from here on.
LEMMA TornBlock ==
    ASSUME Inv, ~HeadersSent, Flushable(resp)
    PROVE  LET b == Fail(Block(resp))
           IN  /\ Good(b)
               /\ "headers_sent" \notin b.flags
               /\ "Server" \in Range(b.headers)
<1>1. Good(resp) /\ "headers_sent" \notin resp.flags
  BY DEF Inv, HeadersSent
<1>2. /\ Evolves(resp, Block(resp))
      /\ "Server" \in Range(Block(resp).headers)
  BY <1>1, BlockReady
<1>3. Good(Block(resp))
  BY <1>2 DEF Evolves
<1>4. Evolves(Block(resp), Fail(Block(resp)))
  BY <1>3, FailEvolves
<1> QED
  BY <1>1, <1>2, <1>4 DEF Evolves

LEMMA TornStep ==
    ASSUME Inv, phase = "serving", req' \in Requests, wire' = TornWire,
           phase' \in {"serving", "closed", "killed"},
           Good(resp'), "headers_sent" \notin resp'.flags,
           "Server" \in Range(resp'.headers), ~HeadersSent
    PROVE  Inv'
<1>1. wire \in Wires /\ wire.heads = 0 /\ wire.body = 0
  BY DEF Inv, TypeOK
<1>2. wire' \in Wires /\ wire'.heads = 0 /\ wire'.body = 0
  BY <1>1 DEF TornWire, Wires
<1>3. TypeOK'
  BY <1>2 DEF TypeOK, Good
<1>4. Good(resp)'
  BY DEF Good
<1> QED
  BY <1>2, <1>3, <1>4 DEF Inv, HeadersSent

\* The response and the wire once the header block is out, whether this
\* call sent it or an earlier one did.
LEMMA FlushedFacts ==
    ASSUME Inv, phase = "serving", MaySend, NEW garbled \in BOOLEAN
    PROVE  LET w == FlushedWire(garbled)
           IN  /\ Good(Flushed)
               /\ "headers_sent" \in Flushed.flags
               /\ w \in Wires
               /\ w.heads = 1
               /\ ~w.torn
               /\ wire.lost => w.lost
               /\ ~w.lost =>
                      /\ w.length = Flushed.content_length
                      /\ w.close = Flushed.connection_close
                      /\ Covers(Flushed, w.body)
<1> DEFINE w == FlushedWire(garbled)
<1>1. CASE HeadersSent
  BY <1>1 DEF Flushed, FlushedWire, Inv, TypeOK, HeadersSent
<1>2. CASE ~HeadersSent
  <2>1. Flushable(resp) /\ Good(resp) /\ "headers_sent" \notin resp.flags
    BY <1>2 DEF MaySend, MayFlush, Inv, HeadersSent
  <2>2. ~wire.torn /\ wire \in Wires /\ wire.heads = 0 /\ wire.body = 0
    BY <1>2, <2>1, NoSecondBlock DEF Inv, TypeOK
  <2> DEFINE f == SentHead(Block(resp))
  <2>3. /\ Good(f)
        /\ "headers_sent" \in f.flags
        /\ f.content_length \in Int
        /\ f.content_bytes_left = f.content_length
        /\ f.content_length = Block(resp).content_length
        /\ f.connection_close = Block(resp).connection_close
    BY <2>1, SentHeadGood
  <2>4. Flushed = f
    BY <1>2 DEF Flushed
  <2>5. w = IF garbled \/ f.content_length < 0
            THEN [wire EXCEPT !.heads = @ + 1, !.lost = TRUE]
            ELSE [wire EXCEPT !.heads = @ + 1,
                              !.length = f.content_length,
                              !.close = f.connection_close]
    BY <1>2, <2>3 DEF FlushedWire
  <2> HIDE DEF f, w
  <2>6. f.connection_close \in BOOLEAN
    BY <2>3 DEF Good, Responses
  <2>7. CASE garbled \/ f.content_length < 0
    <3>2. w = [wire EXCEPT !.heads = @ + 1, !.lost = TRUE]
      BY <2>5, <2>7, Zenon
    <3>3. wire.heads + 1 \in Nat /\ TRUE \in BOOLEAN
      BY <2>2
    <3>4. w \in Wires
      BY <2>2, <3>2, <3>3 DEF Wires
    <3>1. w \in Wires /\ w.heads = 1 /\ ~w.torn /\ w.lost
      BY <2>2, <3>2, <3>4 DEF Wires
    <3> QED BY <2>3, <2>4, <3>1 DEF w
  <2>8. CASE ~(garbled \/ f.content_length < 0)
    <3>1. f.content_length \in Nat
      BY <2>3, <2>8
    <3>5. w = [wire EXCEPT !.heads = @ + 1,
                           !.length = f.content_length,
                           !.close = f.connection_close]
      BY <2>5, <2>8, Zenon
    <3>6. wire.heads + 1 \in Nat
      BY <2>2
    <3>2. w \in Wires
      BY <2>2, <2>6, <3>1, <3>5, <3>6 DEF Wires
    <3>3. /\ w.heads = 1 /\ ~w.torn /\ w.body = 0 /\ w.lost = wire.lost
          /\ w.length = f.content_length
          /\ w.close = f.connection_close
      BY <2>2, <3>2, <3>5 DEF Wires
    <3>4. Covers(f, 0)
      BY <2>3, <3>1 DEF Covers
    <3> QED BY <2>3, <2>4, <3>2, <3>3, <3>4 DEF w
  <2> QED
    BY <2>7, <2>8
<1> QED
  BY <1>1, <1>2

\* Counting a piece that left keeps the client's account covered.
LEMMA CountedFacts ==
    ASSUME NEW r, Good(r), "headers_sent" \in r.flags, NEW n \in Nat,
           NEW body \in Nat
    PROVE  LET c == Counted(r, n)
           IN  /\ Good(c)
               /\ "headers_sent" \in c.flags
               /\ c.headers = r.headers
               /\ c.status_code = r.status_code
               /\ c.content_length = r.content_length
               /\ c.connection_close = r.connection_close
               /\ Covers(r, body) => Covers(c, body + n)
<1> DEFINE left == IF r.content_bytes_left > 0 THEN r.content_bytes_left - n
                                               ELSE r.content_bytes_left
           s == [r EXCEPT !.content_bytes_left = left]
<1>1. r.content_length \in Int /\ r.content_bytes_left \in Int /\ left \in Int
  BY DEF Good, Responses
<1>2. Covers(r, body) =>
          r.content_length <= body + n + IF left > 0 THEN left ELSE 0
  BY <1>1 DEF Covers
<1> HIDE DEF left
<1>3. /\ s \in Responses
      /\ s.flags = r.flags
      /\ s.headers = r.headers
      /\ s.status_code = r.status_code
      /\ s.content_length = r.content_length
      /\ s.content_bytes_left = left
      /\ s.connection_close = r.connection_close
  BY <1>1 DEF Good, Responses
<1> HIDE DEF s
<1>4. Good(s)
  BY <1>3 DEF Good
<1>5. Evolves(s, Fail(s))
  BY <1>4, FailEvolves
<1>9. Covers(r, body) => Covers(s, body + n)
  BY <1>2, <1>3 DEF Covers
<1>10. Covers(r, body) => Covers(Fail(s), body + n)
  <2>1. /\ Fail(s).content_length = s.content_length
        /\ Fail(s).content_bytes_left = s.content_bytes_left
    BY <1>3 DEF Fail, Responses
  <2> QED BY <1>9, <2>1 DEF Covers
<1>6. CASE r.content_length <= 0
  BY <1>1, <1>6 DEF Counted, Covers
<1>7. CASE r.content_length > 0 /\ left < 0
  <2>1. Counted(r, n) = Fail(s)
    BY <1>1, <1>7 DEF Counted, left, s
  <2> QED
    BY <1>3, <1>5, <1>10, <2>1 DEF Evolves
<1>8. CASE r.content_length > 0 /\ ~(left < 0)
  <2>1. Counted(r, n) = s
    BY <1>1, <1>8 DEF Counted, left, s
  <2> QED
    BY <1>3, <1>4, <1>9, <2>1
<1> QED
  BY <1>1, <1>6, <1>7, <1>8

\* Body bytes leave behind a block that is out.
LEMMA BodyStep ==
    ASSUME Inv, phase = "serving", MaySend, req' \in Requests,
           phase' \in {"serving", "killed"}, NEW k \in Nat,
           NEW garbled \in BOOLEAN,
           wire' = [FlushedWire(garbled) EXCEPT !.body = @ + k],
           Good(resp'), "headers_sent" \in resp'.flags,
           resp'.content_length = Flushed.content_length,
           resp'.connection_close = Flushed.connection_close,
           ~FlushedWire(garbled).lost => Covers(resp', FlushedWire(garbled).body + k)
    PROVE  Inv'
<1> DEFINE w == FlushedWire(garbled)
<1>1. /\ w \in Wires
      /\ w.heads = 1
      /\ ~w.torn
      /\ ~w.lost => /\ w.length = Flushed.content_length
                    /\ w.close = Flushed.connection_close
  BY FlushedFacts
<1> HIDE DEF w
<1>5. wire' = [w EXCEPT !.body = @ + k] /\ (~w.lost => Covers(resp', w.body + k))
  BY DEF w
<1>7. /\ wire' \in Wires
      /\ wire'.heads = w.heads
      /\ wire'.torn = w.torn
      /\ wire'.lost = w.lost
      /\ wire'.body = w.body + k
      /\ wire'.length = w.length
      /\ wire'.close = w.close
  <2>1. w.body + k \in Nat
    BY <1>1 DEF Wires
  <2> QED BY <1>1, <1>5, <2>1 DEF Wires
<1>2. /\ wire' \in Wires
      /\ wire'.heads = 1
      /\ ~wire'.torn
      /\ wire'.lost = w.lost
      /\ wire'.body = w.body + k
      /\ ~w.lost => /\ wire'.length = resp'.content_length
                    /\ wire'.close = resp'.connection_close
  BY <1>1, <1>7
<1>6. ~wire'.lost => Covers(resp', wire'.body)
  BY <1>2, <1>5
<1>3. TypeOK'
  BY <1>2 DEF TypeOK, Good
<1>4. Good(resp)'
  BY DEF Good
<1> QED
  BY <1>2, <1>3, <1>4, <1>6 DEF Inv, HeadersSent, Covers

LEMMA InitInv == Init => Inv
<1> SUFFICES ASSUME Init PROVE Inv
  OBVIOUS
<1>2. Good(ResetResponse(TRUE)) /\ ResetResponse(TRUE).flags = {}
  BY ResetGood DEF ResetResponse
<1>3. ResetRequest \in Requests
  BY DEF ResetRequest, Requests
<1>4. QuietWire \in Wires /\ QuietWire.heads = 0 /\ QuietWire.body = 0
      /\ ~QuietWire.torn
  BY DEF QuietWire, Wires
<1>5. TypeOK
  BY <1>2, <1>3, <1>4 DEF Init, TypeOK, Good
<1> QED
  BY <1>2, <1>4, <1>5 DEF Init, Inv, HeadersSent

LEMMA NextInv == Inv /\ [Next]_vars => Inv'
<1> SUFFICES ASSUME Inv, [Next]_vars PROVE Inv'
  OBVIOUS
<1> USE ConnectionAssumption
<1>1. CASE ReadRequest
  <2>1. PICK length \in RequestLengths, close \in BOOLEAN :
          /\ req' = [content_length |-> length,
                     content_length_remaining |-> length,
                     connection_close |-> close]
          /\ resp' = ResetResponse(close)
    BY <1>1 DEF ReadRequest
  <2>2. req' \in Requests
    BY <2>1 DEF Requests
  <2> QED
    BY <1>1, <2>1, <2>2, FreshStep DEF ReadRequest
<1>2. CASE ReadFails
  <2>1. resp' = ResetResponse(TRUE)
    BY <1>2 DEF ReadFails
  <2>2. req' \in Requests
    BY <1>2 DEF ReadFails, ResetRequest, Requests
  <2> QED
    BY <1>2, <2>1, <2>2, FreshStep DEF ReadFails
<1>3. CASE RecvBody
  <2>1. req \in Requests /\ Good(resp)
    BY DEF Inv, TypeOK
  <2>2. req' \in Requests
    <3>1. PICK n \in 1 .. req.content_length_remaining :
            req' = [req EXCEPT !.content_length_remaining = @ - n]
      BY <1>3 DEF RecvBody
    <3>2. req.content_length_remaining - n \in Nat
      BY <2>1 DEF Requests
    <3> QED
      BY <2>1, <3>1, <3>2 DEF Requests
  <2>3. phase = "serving" /\ phase' = phase /\ resp' = resp /\ wire' = wire
    BY <1>3 DEF RecvBody
  <2> QED
    BY <2>1, <2>2, <2>3, SilentStep
<1>4. CASE SetStatusCode
  <2>1. PICK status \in Statuses : resp' = WithStatus(resp, status)
    BY <1>4 DEF SetStatusCode
  <2>2. Evolves(resp, resp')
    BY <2>1, WithStatusEvolves DEF Inv
  <2>3. phase = "serving" /\ phase' = phase /\ req' = req /\ wire' = wire
    BY <1>4 DEF SetStatusCode
  <2>4. req \in Requests
    BY DEF Inv, TypeOK
  <2> QED
    BY <2>2, <2>3, <2>4, SilentStep DEF Evolves, HeadersSent
<1>5. CASE WriteHeader
  <2>1. PICK name \in AppHeaders : Buffered(WithHeader(resp, name))
    BY <1>5 DEF WriteHeader
  <2>2. Evolves(resp, WithHeader(resp, name))
    BY WithHeaderEvolves DEF Inv, HeaderNames
  <2> QED
    BY <1>5, <2>1, <2>2, BufferedStep DEF WriteHeader
<1>6. CASE SetContentLength
  <2>1. PICK len \in Lengths : Buffered(WithLength(resp, len))
    BY <1>6 DEF SetContentLength
  <2>2. Evolves(resp, WithLength(resp, len))
    BY WithLengthEvolves DEF Inv
  <2> QED
    BY <1>6, <2>1, <2>2, BufferedStep DEF SetContentLength
<1>7. CASE SetConnectionClose
  <2>1. PICK close \in BOOLEAN : Buffered(WithConnection(resp, close))
    BY <1>7 DEF SetConnectionClose
  <2>2. Evolves(resp, WithConnection(resp, close))
    BY WithConnectionEvolves DEF Inv
  <2> QED
    BY <1>7, <2>1, <2>2, BufferedStep DEF SetConnectionClose
<1>8. CASE WriteBodyRefused
  <2>1. Good(resp) /\ phase = "serving" /\ ~HeadersSent
    BY <1>8 DEF WriteBodyRefused, Inv
  <2>2. Evolves(resp, Fail(resp))
    BY <2>1, FailEvolves
  <2>3. Evolves(resp, Fail(Refused(resp)))
    <3>1. Evolves(resp, Refused(resp)) /\ Good(Refused(resp))
      BY <2>1, RefusedEvolves DEF Evolves
    <3> QED
      BY <3>1, FailEvolves, EvolvesTwice
  <2>4. FlushOverflows => Evolves(resp, Block(resp))
    BY <2>1, BlockReady DEF FlushOverflows, HeadersSent
  <2>5. \/ Buffered(Fail(resp))
        \/ Buffered(Fail(Refused(resp)))
        \/ FlushOverflows /\ Buffered(Block(resp))
    BY <1>8 DEF WriteBodyRefused
  <2> QED
    BY <2>1, <2>2, <2>3, <2>4, <2>5, BufferedStep
<1>9. CASE WriteBodyHeadFails
  <2>1. ~HeadersSent /\ Flushable(resp) /\ req \in Requests
    BY <1>9 DEF WriteBodyHeadFails, BodyCall, MaySend, MayFlush, Inv, TypeOK
  <2>2. /\ Good(resp')
        /\ "headers_sent" \notin resp'.flags
        /\ "Server" \in Range(resp'.headers)
    BY <1>9, <2>1, TornBlock DEF WriteBodyHeadFails
  <2>3. /\ phase = "serving" /\ phase' \in {"serving", "killed"}
        /\ wire' = TornWire /\ req' = req
    BY <1>9 DEF WriteBodyHeadFails, BodyCall
  <2> QED
    BY <2>1, <2>2, <2>3, TornStep
<1>10. ASSUME NEW n \in Chunks, WriteBody(n) PROVE Inv'
  <2>1. /\ phase = "serving" /\ MaySend /\ phase' = phase /\ req' = req
        /\ resp' = Counted(Flushed, n)
    BY <1>10 DEF WriteBody, BodyCall
  <2>6. PICK garbled \in BOOLEAN : wire' = [FlushedWire(garbled) EXCEPT !.body = @ + n]
    BY <1>10 DEF WriteBody
  <2> DEFINE w == FlushedWire(garbled)
  <2>2. req \in Requests
    BY DEF Inv, TypeOK
  <2>3. /\ Good(Flushed)
        /\ "headers_sent" \in Flushed.flags
        /\ w \in Wires
        /\ ~w.lost => Covers(Flushed, w.body)
    BY <2>1, FlushedFacts
  <2>4. w.body \in Nat /\ n \in Nat
    BY <2>3 DEF Wires
  <2>5. /\ Good(resp')
        /\ "headers_sent" \in resp'.flags
        /\ resp'.content_length = Flushed.content_length
        /\ resp'.connection_close = Flushed.connection_close
        /\ ~w.lost => Covers(resp', w.body + n)
    BY <2>1, <2>3, <2>4, CountedFacts
  <2> QED
    BY <2>1, <2>2, <2>4, <2>5, <2>6, BodyStep
<1>11. ASSUME NEW n \in Chunks, WriteBodyFails(n) PROVE Inv'
  <2>1. /\ phase = "serving" /\ MaySend /\ phase' \in {"serving", "killed"}
        /\ req' = req /\ resp' = Fail(Flushed)
    BY <1>11 DEF WriteBodyFails, BodyCall
  <2>2. PICK garbled \in BOOLEAN, k \in 0 .. n - 1 :
            wire' = [FlushedWire(garbled) EXCEPT !.body = @ + k]
    BY <1>11 DEF WriteBodyFails
  <2> DEFINE w == FlushedWire(garbled)
  <2>3. req \in Requests /\ k \in Nat
    BY DEF Inv, TypeOK
  <2>4. /\ Good(Flushed)
        /\ "headers_sent" \in Flushed.flags
        /\ w \in Wires
        /\ ~w.lost => Covers(Flushed, w.body)
    BY <2>1, FlushedFacts
  <2>5. Evolves(Flushed, resp')
    BY <2>1, <2>4, FailEvolves
  <2>6. /\ w.body \in Nat
        /\ Flushed.content_length \in Int
        /\ Flushed.content_bytes_left \in Int
    BY <2>4 DEF Wires, Good, Responses
  <2>7. /\ Good(resp')
        /\ "headers_sent" \in resp'.flags
        /\ resp'.content_length = Flushed.content_length
        /\ resp'.content_bytes_left = Flushed.content_bytes_left
        /\ resp'.connection_close = Flushed.connection_close
    BY <2>4, <2>5 DEF Evolves
  <2>8. ~w.lost => Covers(resp', w.body + k)
    BY <2>3, <2>4, <2>6, <2>7 DEF Covers
  <2> QED
    BY <2>1, <2>2, <2>3, <2>7, <2>8, BodyStep
<1>12. CASE FinishUnread
  <2>1. Evolves(resp, resp)
    BY DEF Inv, Evolves
  <2> QED
    BY <1>12, <2>1, AbortStep DEF FinishUnread
<1>13. CASE FinishRefused
  <2>1. Good(resp) /\ phase = "serving"
    BY <1>13 DEF FinishRefused, Drained, Inv
  <2>2. Evolves(resp, Refused(resp))
    BY <2>1, RefusedEvolves
  <2>3. FlushOverflows => Evolves(resp, Block(resp))
    BY <2>1, BlockReady DEF FlushOverflows, HeadersSent
  <2>4. \/ Abort(Refused(resp)) /\ wire' = wire
        \/ Buffered(Refused(resp))
        \/ FlushOverflows /\ Buffered(Block(resp))
    BY <1>13 DEF FinishRefused
  <2> QED
    BY <2>1, <2>2, <2>3, <2>4, AbortStep, BufferedStep
<1>14. CASE FinishHeadFails
  <2> DEFINE b == Fail(Block(resp))
  <2>1. phase = "serving" /\ ~HeadersSent /\ Flushable(resp) /\ req \in Requests
    BY <1>14 DEF FinishHeadFails, Drained, MaySend, MayFlush, Inv, TypeOK
  <2>2. Good(b) /\ "headers_sent" \notin b.flags /\ "Server" \in Range(b.headers)
    BY <2>1, TornBlock
  <2>3. wire' = TornWire /\ req' = req /\ phase' \in {"closed", "killed"}
    BY <1>14 DEF FinishHeadFails, Abort
  <2>4. resp' = b \/ resp' = [b EXCEPT !.connection_close = TRUE]
    BY <1>14 DEF FinishHeadFails, Abort
  <2> HIDE DEF b
  <2>5. /\ Good(resp')
        /\ "headers_sent" \notin resp'.flags
        /\ "Server" \in Range(resp'.headers)
    BY <2>2, <2>4, AbortGood
  <2> QED
    BY <2>1, <2>3, <2>5, TornStep
<1>15. CASE FinishResponse
  <2>1. /\ phase = "serving" /\ MaySend
        /\ req.content_length_remaining <= 0 /\ req' = req
    BY <1>15 DEF FinishResponse, Drained, Abort
  <2>6. PICK garbled \in BOOLEAN : wire' = FlushedWire(garbled)
    BY <1>15 DEF FinishResponse
  <2>2. req \in Requests
    BY DEF Inv, TypeOK
  <2>3. /\ Good(Flushed)
        /\ "headers_sent" \in Flushed.flags
        /\ wire' \in Wires
        /\ wire'.heads = 1
        /\ ~wire'.torn
        /\ ~wire'.lost =>
               /\ wire'.length = Flushed.content_length
               /\ wire'.close = Flushed.connection_close
               /\ Covers(Flushed, wire'.body)
    BY <2>1, <2>6, FlushedFacts
  <2>4. CASE /\ phase' = "closed"
             /\ resp' = [Flushed EXCEPT !.connection_close = TRUE]
    <3>1. /\ Good(resp')
          /\ resp'.flags = Flushed.flags
          /\ resp'.content_length = Flushed.content_length
          /\ resp'.content_bytes_left = Flushed.content_bytes_left
      BY <2>3, <2>4, AbortGood
    <3>2. TypeOK'
      BY <2>1, <2>2, <2>3, <2>4, <3>1 DEF TypeOK, Good
    <3>3. Good(resp)'
      BY <3>1 DEF Good
    <3> QED
      BY <2>1, <2>3, <2>4, <3>1, <3>2, <3>3 DEF Inv, HeadersSent, Covers
  <2>5. CASE /\ phase' = "reuse" /\ resp' = Flushed
             /\ Flushed.content_bytes_left <= 0 /\ ~Flushed.connection_close
    <3>1. TypeOK'
      BY <2>1, <2>2, <2>3, <2>5 DEF TypeOK, Good
    <3>2. Good(resp)'
      BY <2>3, <2>5 DEF Good
    <3> QED
      BY <2>1, <2>2, <2>3, <2>5, <3>1, <3>2 DEF Inv, HeadersSent
  <2> QED
    BY <1>15, <2>4, <2>5 DEF FinishResponse, Abort
<1>16. CASE UNCHANGED vars
  BY <1>16 DEF vars, Inv, TypeOK, Good, HeadersSent, Covers
<1> QED
  BY <1>1, <1>2, <1>3, <1>4, <1>5, <1>6, <1>7, <1>8, <1>9, <1>10, <1>11,
     <1>12, <1>13, <1>14, <1>15, <1>16 DEF Next, Call, Finish

\* Every reachable state satisfies the inductive invariant.
THEOREM InvHolds == Spec => []Inv
  BY InitInv, NextInv, PTL DEF Spec

-------------------------------------------------------------------------------
(* The safety properties *)

\* TypeOK of ServletConnection holds for all constants.
THEOREM TypeCorrect == Spec => []TypeOK
<1>1. Inv => TypeOK
  BY DEF Inv
<1> QED
  BY <1>1, InvHolds, PTL

\* HeadOnce: no second header block, no body before the block, and nothing
\* after a block whose send failed.
THEOREM HeadOnceHolds == Spec => []HeadOnce
<1>1. Inv => HeadOnce
  BY DEF Inv, TypeOK, Wires, HeadOnce
<1> QED
  BY <1>1, InvHolds, PTL

\* BlockWellFormed: the mandatory headers are there, no name twice, within
\* the slots of hiw_headers.
THEOREM BlockWellFormedHolds == Spec => []BlockWellFormed
<1>1. Inv => BlockWellFormed
  BY DEF Inv, Good, BlockWellFormed, HeadersSent
<1> QED
  BY <1>1, InvHolds, PTL

\* HeadSound: the client finds at most one header block, and a well-formed one.
THEOREM HeadSoundHolds == Spec => []HeadSound
<1>1. HeadOnce /\ BlockWellFormed => HeadSound
  BY DEF HeadSound
<1> QED
  BY <1>1, HeadOnceHolds, BlockWellFormedHolds, PTL

\* AnnouncedIsEnforced: the server goes by the length and the connection
\* choice that the client was told.
THEOREM AnnouncedIsEnforcedHolds == Spec => []AnnouncedIsEnforced
<1>1. Inv => AnnouncedIsEnforced
  BY DEF Inv, AnnouncedIsEnforced
<1> QED
  BY <1>1, InvHolds, PTL

\* BodyAccounted: content_bytes_left covers what the client still waits for.
THEOREM BodyAccountedHolds == Spec => []BodyAccounted
<1>1. Inv => BodyAccounted
  BY DEF Inv, BodyAccounted, Covers
<1> QED
  BY <1>1, InvHolds, PTL

\* ReuseIsClean: read_retry only after a complete keep-alive response to a
\* request that was read to the end.
THEOREM ReuseIsCleanHolds == Spec => []ReuseIsClean
<1>1. Inv /\ phase = "reuse" /\ ~wire.lost => wire.body >= wire.length
  BY DEF Inv, TypeOK, Wires, Responses, Covers
<1>2. Inv => ReuseIsClean
  BY <1>1 DEF Inv, ReuseIsClean
<1> QED
  BY <1>2, InvHolds, PTL

-------------------------------------------------------------------------------
(* HeadFrozen *)

\* What HeadFrozen asks of the response after a step.
Frozen(s) ==
    /\ HeadersSent => /\ s.status_code = resp.status_code
                      /\ s.headers = resp.headers
                      /\ s.content_length = resp.content_length
    /\ "status_code_set" \in resp.flags => s.status_code = resp.status_code

LEMMA EvolvesFrozen ==
    ASSUME NEW s, Evolves(resp, s)
    PROVE  Frozen(s)
  BY DEF Evolves, Frozen, HeadersSent

LEMMA FlushedFrozen ==
    ASSUME Inv, MaySend
    PROVE  Frozen(Flushed)
<1>1. CASE HeadersSent
  BY <1>1 DEF Flushed, Frozen
<1>2. CASE ~HeadersSent
  <2>1. Evolves(resp, Block(resp))
    BY <1>2, BlockReady DEF Inv, MaySend, MayFlush, HeadersSent
  <2>2. Flushed.status_code = Block(resp).status_code
    BY <1>2, <2>1 DEF Flushed, SentHead, Evolves, Good, Responses
  <2> QED
    BY <1>2, <2>1, <2>2 DEF Frozen, Evolves
<1> QED
  BY <1>1, <1>2

LEMMA StepFrozen ==
    ASSUME Inv, Next, phase = "serving", phase' \in {"serving", "reuse"}
    PROVE  Frozen(resp')
<1> USE ConnectionAssumption
<1>1. Good(resp) /\ Evolves(resp, resp)
  BY DEF Inv, Evolves
<1>2. CASE RecvBody
  BY <1>1, <1>2, EvolvesFrozen DEF RecvBody
<1>3. CASE SetStatusCode
  BY <1>1, <1>3, EvolvesFrozen, WithStatusEvolves DEF SetStatusCode
<1>4. CASE WriteHeader
  BY <1>1, <1>4, EvolvesFrozen, WithHeaderEvolves
  DEF WriteHeader, Buffered, HeaderNames
<1>5. CASE SetContentLength
  BY <1>1, <1>5, EvolvesFrozen, WithLengthEvolves
  DEF SetContentLength, Buffered
<1>6. CASE SetConnectionClose
  BY <1>1, <1>6, EvolvesFrozen, WithConnectionEvolves
  DEF SetConnectionClose, Buffered
<1>7. CASE WriteBodyRefused \/ FinishRefused
  <2>1. Evolves(resp, Refused(resp)) /\ Good(Refused(resp))
    BY <1>1, RefusedEvolves DEF Evolves
  <2>2. Evolves(resp, Fail(resp)) /\ Evolves(resp, Fail(Refused(resp)))
    BY <1>1, <2>1, FailEvolves, EvolvesTwice
  <2>3. FlushOverflows => Evolves(resp, Block(resp))
    BY <1>1, BlockReady DEF FlushOverflows, HeadersSent
  <2>4. \/ resp' \in {Fail(resp), Fail(Refused(resp)), Refused(resp)}
        \/ FlushOverflows /\ resp' = Block(resp)
    BY <1>7 DEF WriteBodyRefused, FinishRefused, Buffered, Abort
  <2> QED
    BY <2>1, <2>2, <2>3, <2>4, EvolvesFrozen
<1>8. CASE WriteBodyHeadFails
  <2>1. ~HeadersSent /\ Flushable(resp) /\ resp' = Fail(Block(resp))
    BY <1>8 DEF WriteBodyHeadFails, BodyCall, MaySend, MayFlush
  <2>2. Evolves(resp, Block(resp)) /\ Good(Block(resp))
    BY <1>1, <2>1, BlockReady DEF HeadersSent, Evolves
  <2>3. Evolves(resp, Fail(Block(resp)))
    BY <2>2, FailEvolves, EvolvesTwice
  <2> QED
    BY <2>1, <2>3, EvolvesFrozen
<1>9. ASSUME NEW n \in Chunks, WriteBody(n) PROVE Frozen(resp')
  <2>1. MaySend /\ resp' = Counted(Flushed, n)
    BY <1>9 DEF WriteBody, BodyCall
  <2>2. Good(Flushed) /\ "headers_sent" \in Flushed.flags
    BY <2>1, FlushedFacts
  <2>3. 0 \in Nat /\ n \in Nat
    OBVIOUS
  <2>4. /\ resp'.headers = Flushed.headers
        /\ resp'.status_code = Flushed.status_code
        /\ resp'.content_length = Flushed.content_length
    BY <2>1, <2>2, <2>3, CountedFacts
  <2> QED
    BY <2>1, <2>4, FlushedFrozen DEF Frozen
<1>10. ASSUME NEW n \in Chunks, WriteBodyFails(n) PROVE Frozen(resp')
  <2>1. MaySend /\ resp' = Fail(Flushed)
    BY <1>10 DEF WriteBodyFails, BodyCall
  <2>2. Good(Flushed)
    BY <2>1, FlushedFacts
  <2>3. /\ resp'.headers = Flushed.headers
        /\ resp'.status_code = Flushed.status_code
        /\ resp'.content_length = Flushed.content_length
    BY <2>1, <2>2 DEF Fail, Good, Responses
  <2> QED
    BY <2>1, <2>3, FlushedFrozen DEF Frozen
<1>11. CASE FinishResponse
  BY <1>11, FlushedFrozen DEF FinishResponse, Abort
<1>12. CASE ReadRequest \/ ReadFails \/ FinishUnread \/ FinishHeadFails
  BY <1>12 DEF ReadRequest, ReadFails, FinishUnread, FinishHeadFails, Abort
<1> QED
  BY <1>2, <1>3, <1>4, <1>5, <1>6, <1>7, <1>8, <1>9, <1>10, <1>11, <1>12
  DEF Next, Call, Finish

\* HeadFrozen: after the block is out no call changes what it said.
THEOREM HeadFrozenHolds == Spec => HeadFrozen
<1> DEFINE A == phase = "serving" /\ phase' \in {"serving", "reuse"} =>
                   Frozen(resp')
<1>1. Inv /\ [Next]_vars => [A]_vars
  BY StepFrozen
<1>2. Spec => [][A]_vars
  BY <1>1, InvHolds, PTL DEF Spec
<1> QED
  BY <1>2 DEF HeadFrozen, Frozen

-------------------------------------------------------------------------------
(* ServletConnection implements HttpExchange *)

LEMMA WireTyped ==
    ASSUME Inv
    PROVE  /\ wire.heads \in {0, 1}
           /\ wire.length \in Nat
           /\ wire.body \in Nat
           /\ wire.close \in BOOLEAN
  BY DEF Inv, TypeOK, Wires

\* A step that ends the connection is the abstract Close.
LEMMA EndsClose ==
    ASSUME Inv, Inv', phase \in {"accepted", "serving", "reuse"},
           phase' \in {"closed", "crashed", "killed"},
           ~wire.lost, ~wire'.lost
    PROVE  Exchange!Close
<1>1. /\ wire.heads \in {0, 1}
      /\ wire'.length \in Nat
      /\ wire'.body \in Nat
      /\ wire'.close \in BOOLEAN
  BY WireTyped DEF Inv, TypeOK, Wires
<1> QED
  BY <1>1 DEF Exchange!Close

\* A client is lost by a block of this request or was so before, and stays so.
LEMMA LostAtHead ==
    ASSUME Inv, [Next]_vars
    PROVE  /\ wire.lost => wire'.lost
           /\ wire'.lost /\ ~wire.lost => phase = "serving" /\ wire.heads = 0
<1>1. wire \in Wires /\ (~HeadersSent => wire.heads = 0)
  BY DEF Inv, TypeOK
<1>2. CASE wire' = wire
  BY <1>2
<1>3. CASE wire' \in {NextWire, TornWire}
  <2>1. wire'.lost = wire.lost
    BY <1>1, <1>3 DEF NextWire, QuietWire, TornWire, Wires
  <2> QED BY <2>1
<1>4. ASSUME phase = "serving", NEW garbled \in BOOLEAN, NEW k \in Nat,
             wire' = FlushedWire(garbled)
             \/ wire' = [FlushedWire(garbled) EXCEPT !.body = @ + k]
      PROVE  /\ wire.lost => wire'.lost
             /\ wire'.lost /\ ~wire.lost => phase = "serving" /\ wire.heads = 0
  <2>1. CASE HeadersSent
    <3>1. FlushedWire(garbled) = wire
      BY <2>1 DEF FlushedWire
    <3>2. wire'.lost = wire.lost
      BY <1>1, <1>4, <3>1 DEF Wires
    <3> QED BY <3>2
  <2>2. CASE ~HeadersSent
    <3>1. wire.lost => FlushedWire(garbled).lost
      BY <1>1, <2>2 DEF FlushedWire, Wires
    <3>2. wire'.lost = FlushedWire(garbled).lost
      BY <1>1, <1>4, <2>2 DEF FlushedWire, Wires
    <3> QED BY <1>1, <1>4, <2>2, <3>1, <3>2
  <2> QED BY <2>1, <2>2
<1>5. \/ wire' = wire \/ wire' \in {NextWire, TornWire}
      \/ /\ phase = "serving"
         /\ \E garbled \in BOOLEAN, k \in Nat :
                \/ wire' = FlushedWire(garbled)
                \/ wire' = [FlushedWire(garbled) EXCEPT !.body = @ + k]
  <2> USE ConnectionAssumption
  <2>1. CASE ReadRequest \/ ReadFails \/ WriteBodyHeadFails \/ FinishHeadFails
    BY <2>1 DEF ReadRequest, ReadFails, WriteBodyHeadFails, FinishHeadFails
  <2>2. CASE \/ RecvBody \/ SetStatusCode \/ WriteHeader \/ SetContentLength
             \/ SetConnectionClose \/ WriteBodyRefused \/ FinishUnread
             \/ FinishRefused \/ UNCHANGED vars
    BY <2>2 DEF RecvBody, SetStatusCode, WriteHeader, SetContentLength,
                SetConnectionClose, WriteBodyRefused, FinishUnread, FinishRefused,
                Buffered, vars
  <2>3. ASSUME NEW n \in Chunks, WriteBody(n) PROVE <1>5
    BY <2>3 DEF WriteBody, BodyCall
  <2>4. ASSUME NEW n \in Chunks, WriteBodyFails(n) PROVE <1>5
    <3>1. PICK garbled \in BOOLEAN, k \in 0 .. n - 1 :
              wire' = [FlushedWire(garbled) EXCEPT !.body = @ + k]
      BY <2>4 DEF WriteBodyFails
    <3>2. k \in Nat
      OBVIOUS
    <3> QED BY <2>4, <3>1, <3>2 DEF WriteBodyFails, BodyCall
  <2>5. CASE FinishResponse
    BY <2>5 DEF FinishResponse, Drained
  <2> QED BY <2>1, <2>2, <2>3, <2>4, <2>5 DEF Next, Call, Finish
<1> QED
  BY <1>2, <1>3, <1>4, <1>5

\* Of a lost client nothing is promised.
LEMMA LostRefines ==
    ASSUME Inv, Inv', [Next]_vars, wire'.lost
    PROVE  Exchange!Lose
<1>1. /\ wire'.length \in Nat
      /\ wire'.body \in Nat
      /\ wire'.close \in BOOLEAN
  BY DEF Inv, TypeOK, Wires
<1>2. wire.lost \/ (~wire.lost /\ phase = "serving" /\ wire.heads = 0)
  BY LostAtHead
<1>3. CASE wire.lost
  BY <1>1, <1>3 DEF Exchange!Lose
<1>4. CASE ~wire.lost /\ phase = "serving" /\ wire.heads = 0
  BY <1>1, <1>4 DEF Exchange!Lose
<1> QED
  BY <1>2, <1>3, <1>4

\* A step of the servlet function that sends nothing whole stutters.
LEMMA QuietStutters ==
    ASSUME Inv, phase = "serving", phase' = "serving",
           wire'.heads = wire.heads, wire'.length = wire.length,
           wire'.body = wire.body, wire'.close = wire.close, wire'.lost = wire.lost
    PROVE  UNCHANGED Exchange!vars
  BY DEF Exchange!vars

\* A body piece of k bytes, with or without the header block.
LEMMA BodyRefines ==
    ASSUME Inv, Inv', phase = "serving", phase' = "serving", MaySend, NEW k \in Nat,
           NEW garbled \in BOOLEAN,
           wire' = [FlushedWire(garbled) EXCEPT !.body = @ + k],
           ~wire.lost, ~wire'.lost
    PROVE  Exchange!Next \/ UNCHANGED Exchange!vars
<1> DEFINE w == FlushedWire(garbled)
<1>1. w \in Wires /\ w.heads = 1
  BY FlushedFacts
<1>2. /\ wire'.heads = 1
      /\ wire'.length = w.length
      /\ wire'.body = w.body + k
      /\ wire'.close = w.close
      /\ wire'.length \in Nat
      /\ wire'.body \in Nat
      /\ wire'.close \in BOOLEAN
  BY <1>1 DEF Wires
<1>3. CASE ~HeadersSent
  <2>1. wire.heads = 0
    BY <1>3 DEF Inv
  <2>2. Exchange!SendHead
    BY <1>2, <2>1 DEF Exchange!SendHead
  <2> QED
    BY <2>2 DEF Exchange!Next
<1>4. CASE HeadersSent
  <2>1. wire.heads = 1 /\ w = wire /\ wire.body \in Nat
    BY <1>4, WireTyped DEF Inv, FlushedWire
  <2>2. CASE k = 0
    <3>1. wire'.body = wire.body
      BY <1>2, <2>1, <2>2
    <3> QED
      BY <1>2, <2>1, <3>1, QuietStutters
  <2>3. CASE k # 0
    <3>1. wire'.body > wire.body
      BY <1>2, <2>1, <2>3
    <3>2. Exchange!SendBody
      BY <1>2, <2>1, <3>1 DEF Exchange!SendBody
    <3> QED
      BY <3>2 DEF Exchange!Next
  <2> QED
    BY <2>2, <2>3
<1> QED
  BY <1>3, <1>4

\* Back at read_retry: the exchange was completed, by its last body piece or
\* by the header block alone.
LEMMA ReuseRefines ==
    ASSUME Inv, Inv', FinishResponse, phase' = "reuse", ~wire.lost, ~wire'.lost
    PROVE  Exchange!Next
<1>5. PICK garbled \in BOOLEAN : wire' = FlushedWire(garbled)
  BY DEF FinishResponse
<1>1. /\ phase = "serving" /\ MaySend
      /\ Flushed.content_bytes_left <= 0 /\ ~Flushed.connection_close
  BY DEF FinishResponse, Drained, Abort
<1>2. /\ Good(Flushed)
      /\ wire' \in Wires
      /\ wire'.length = Flushed.content_length
      /\ wire'.close = Flushed.connection_close
      /\ Covers(Flushed, wire'.body)
  BY <1>1, <1>5, FlushedFacts
<1>3. CASE HeadersSent
  <2>1. wire' = wire /\ wire.heads = 1
    BY <1>3, <1>5 DEF FlushedWire, Inv
  <2>2. wire.body >= wire.length /\ ~wire.close
    BY <1>1, <1>2, <2>1 DEF Wires, Good, Responses, Covers
  <2>3. Exchange!Complete
    BY <1>1, <2>1, <2>2 DEF Exchange!Complete, FinishResponse
  <2> QED
    BY <2>3 DEF Exchange!Next
<1>4. CASE ~HeadersSent
  <2>1. /\ Flushable(resp) /\ Good(resp) /\ "headers_sent" \notin resp.flags
        /\ wire.heads = 0 /\ wire.body = 0 /\ wire \in Wires
    BY <1>1, <1>4 DEF MaySend, MayFlush, Inv, TypeOK, HeadersSent
  <2>2. /\ Flushed.content_length \in Int
        /\ Flushed.content_bytes_left = Flushed.content_length
    BY <1>4, <2>1, SentHeadGood DEF Flushed
  <2>3. Flushed.content_length = 0
    BY <1>1, <1>2, <2>2 DEF Wires
  <2>4. wire'.length = 0 /\ wire'.close = FALSE
    BY <1>1, <1>2, <2>3 DEF Wires
  <2>5. wire'.body = 0
    BY <1>4, <1>5, <2>1 DEF FlushedWire, Wires
  <2>6. Exchange!SendEmpty
    BY <1>1, <2>1, <2>4, <2>5 DEF Exchange!SendEmpty
  <2> QED
    BY <2>6 DEF Exchange!Next
<1> QED
  BY <1>3, <1>4

LEMMA StepRefines ==
    ASSUME Inv, Inv', [Next]_vars
    PROVE  [Exchange!Next]_(Exchange!vars)
<1> USE ConnectionAssumption
<1>0. CASE wire'.lost
  BY <1>0, LostRefines DEF Exchange!Next
<1> SUFFICES ASSUME ~wire.lost, ~wire'.lost
             PROVE  [Exchange!Next]_(Exchange!vars)
  BY <1>0, LostAtHead
<1>1. CASE ReadRequest
  <2>1. wire' = QuietWire
    BY <1>1 DEF ReadRequest, NextWire, QuietWire, Inv, TypeOK, Wires
  <2>2. Exchange!TakeRequest
    BY <1>1, <2>1 DEF ReadRequest, QuietWire, Exchange!TakeRequest
  <2> QED
    BY <2>2 DEF Exchange!Next
<1>2. CASE ReadFails \/ FinishUnread
  BY <1>2, EndsClose DEF ReadFails, FinishUnread, Abort, Exchange!Next
<1>3. CASE RecvBody \/ SetStatusCode
  BY <1>3, QuietStutters DEF RecvBody, SetStatusCode
<1>4. CASE WriteHeader \/ SetContentLength \/ SetConnectionClose
           \/ WriteBodyRefused \/ FinishRefused
  <2>1. phase = "serving" /\ phase' \in {"serving", "crashed", "closed"}
        /\ wire' = wire
    BY <1>4 DEF WriteHeader, SetContentLength, SetConnectionClose,
                WriteBodyRefused, FinishRefused, Buffered, Abort, Drained
  <2> QED
    BY <2>1, QuietStutters, EndsClose DEF Exchange!Next
<1>5. CASE WriteBodyHeadFails \/ FinishHeadFails
  <2>1. phase = "serving" /\ phase' \in {"serving", "killed", "closed"}
        /\ wire' = TornWire
    BY <1>5 DEF WriteBodyHeadFails, FinishHeadFails, BodyCall, Drained, Abort
  <2>2. /\ wire'.heads = wire.heads /\ wire'.length = wire.length
        /\ wire'.body = wire.body /\ wire'.close = wire.close
        /\ wire'.lost = wire.lost
    BY <2>1 DEF TornWire, Inv, TypeOK, Wires
  <2> QED
    BY <2>1, <2>2, QuietStutters, EndsClose DEF Exchange!Next
<1>6. ASSUME NEW n \in Chunks, WriteBody(n) \/ WriteBodyFails(n)
      PROVE  [Exchange!Next]_(Exchange!vars)
  <2>1. phase = "serving" /\ MaySend /\ phase' \in {"serving", "killed"}
    BY <1>6 DEF WriteBody, WriteBodyFails, BodyCall
  <2>2. PICK garbled \in BOOLEAN, k \in Nat :
            wire' = [FlushedWire(garbled) EXCEPT !.body = @ + k]
    BY <1>6 DEF WriteBody, WriteBodyFails
  <2> QED
    BY <2>1, <2>2, BodyRefines, EndsClose DEF Exchange!Next
<1>7. CASE FinishResponse
  <2>1. phase = "serving" /\ phase' \in {"closed", "reuse"}
    BY <1>7 DEF FinishResponse, Drained, Abort
  <2> QED
    BY <1>7, <2>1, ReuseRefines, EndsClose DEF Exchange!Next
<1>8. CASE UNCHANGED vars
  BY <1>8 DEF vars, Exchange!vars
<1> QED
  BY <1>1, <1>2, <1>3, <1>4, <1>5, <1>6, <1>7, <1>8 DEF Next, Call, Finish

\* ImplementsExchange: whatever the servlet function does, the client sees
\* the exchange of HttpExchange.
THEOREM Implements == Spec => ImplementsExchange
<1>1. Init => Exchange!Init
  BY DEF Init, QuietWire, Exchange!Init
<1>2. Inv /\ Inv' /\ [Next]_vars => [Exchange!Next]_(Exchange!vars)
  BY StepRefines
<1> QED
  BY <1>1, <1>2, InvHolds, PTL DEF Spec, ImplementsExchange, Exchange!Spec
===============================================================================
