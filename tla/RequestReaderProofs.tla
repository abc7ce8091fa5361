-------------------------- MODULE RequestReaderProofs --------------------------
(***************************************************************************)
(* Theorems about RequestReader, for every stream, buffer size, delivery   *)
(* of the bytes and sequence of hiw_request_recv.                          *)
(***************************************************************************)
EXTENDS RequestReader, FiniteSetTheorems, SequenceTheorems, TLAPS

Safe == TypeOK /\ BufferSafe

LEMMA Rest ==
    ASSUME NEW a \in Nat, NEW b \in Nat PROVE a + (b - a) = b
OBVIOUS

\* The content length that is parsed is a number.
LEMMA ContentLengthType ==
    ASSUME TypeOK PROVE ContentLength \in Nat
<1>1. Len(stream) \in Nat /\ DOMAIN stream = 1 .. Len(stream)
  BY ReaderAssumption DEF TypeOK
<1>2. IsFiniteSet(1 .. Len(stream))
  BY <1>1, FS_Interval
<1>3. IsFiniteSet({i \in DOMAIN stream : stream[i] = "b"})
  BY <1>1, <1>2, FS_Subset
<1> QED
  BY <1>3, FS_CardinalityType DEF ContentLength

\* A piece that is received keeps the buffer a buffer.
LEMMA ReceivedType ==
    ASSUME TypeOK, NEW at \in Nat, NEW n \in Nat
    PROVE  Received(at, n) \in [1 .. BufferSize -> Nat]
<1>1. \A i \in 1 .. BufferSize : i \in at + 1 .. at + n => taken + i - at \in Nat
  BY ReaderAssumption DEF TypeOK
<1> QED
  BY <1>1 DEF Received, TypeOK

LEMMA TakeType ==
    ASSUME TypeOK, NEW n \in 1 .. BufferSize, Take(n)
    PROVE  /\ taken' \in Nat
           /\ bytes_read' \in 0 .. BufferSize
           /\ bytes_read' = bytes_read + n
           /\ aligned' \in BOOLEAN
BY ReaderAssumption DEF TypeOK, Take, EndsLine

LEMMA ResetType ==
    Reset \in [headers : 0 .. MAX_HEADERS_COUNT, content_length : Int,
               content_length_remaining : Int, connection_close : BOOLEAN,
               read_ahead : Nat, read_ahead_length : Nat]
<1>1. 0 \in 0 .. MAX_HEADERS_COUNT /\ -1 \in Int /\ 0 \in Int /\ 0 \in Nat
  BY ReaderAssumption
<1> QED
  BY <1>1 DEF Reset

LEMMA InitSafe == Init => Safe
<1> SUFFICES ASSUME Init PROVE Safe
  OBVIOUS
<1>1. req.read_ahead = 0 /\ req.read_ahead_length = 0
  BY DEF Init, Reset
<1>2. buf \in [1 .. BufferSize -> Nat]
  BY DEF Init
<1>3. body \in Seq(Nat)
  BY DEF Init
<1>4. 0 \in 0 .. BufferSize
  BY ReaderAssumption
<1>5. TypeOK
  BY <1>2, <1>3, <1>4, ResetType DEF Init, TypeOK
<1>6. BufferSafe
  BY <1>1, ReaderAssumption DEF Init, BufferSafe
<1> QED
  BY <1>5, <1>6 DEF Safe

LEMMA RecvSafe ==
    ASSUME Safe, NEW n \in 1 .. BufferSize, Recv(n) PROVE Safe'
<1> USE DEF Safe
<1>1. Take(n) /\ TypeOK
  BY DEF Recv, RecvStatusLine, RecvNoStatusLine, RecvMore
<1>2. /\ taken' \in Nat
      /\ bytes_read' \in 0 .. BufferSize
      /\ bytes_read' = bytes_read + n
      /\ aligned' \in BOOLEAN
  BY <1>1, TakeType
<1>3. UNCHANGED <<stream, junk, req, garbled, drawn, body, mixed>>
  BY DEF Recv, RecvStatusLine, RecvNoStatusLine, RecvMore, ReadingStatus
<1>4. buf' \in [1 .. BufferSize -> Nat]
  <2>1. n \in Nat /\ bytes_read \in Nat /\ pos \in Nat
    BY DEF TypeOK
  <2>2. buf' = Received(bytes_read, n) \/ buf' = Received(pos, n)
    BY DEF Recv, RecvStatusLine, RecvNoStatusLine, RecvMore
  <2> QED
    BY <1>1, <2>1, <2>2, ReceivedType
<1>5. /\ pc' \in {"status", "headers", "status_only", "refused"}
      /\ pos' \in Nat
      /\ pos' <= bytes_read'
  <2>1. CASE RecvStatusLine(n)
    <3>1. PICK nl \in 1 .. n : pos' = nl
      BY <2>1 DEF RecvStatusLine
    <3>2. pc' \in {"status", "headers", "status_only", "refused"}
      BY <2>1 DEF RecvStatusLine
    <3> QED
      BY <3>1, <3>2, <1>2 DEF TypeOK
  <2>2. CASE RecvNoStatusLine(n)
    BY <2>2, <1>2 DEF RecvNoStatusLine, TypeOK, BufferSafe
  <2>3. CASE RecvMore(n)
    BY <2>3, <1>2 DEF RecvMore, TypeOK, BufferSafe
  <2> QED
    BY <2>1, <2>2, <2>3 DEF Recv
<1>6. TypeOK'
  BY <1>2, <1>3, <1>4, <1>5 DEF TypeOK
<1>7. BufferSafe'
  <2>1. PICK x \in Nat, l \in Nat, b \in Nat :
            x = req.read_ahead /\ l = req.read_ahead_length /\ b = bytes_read
    BY DEF TypeOK
  <2>2. x + l <= b /\ n \in Nat
    BY <2>1 DEF BufferSafe
  <2>3. x + l <= b + n
    BY <2>2
  <2>4. req'.read_ahead + req'.read_ahead_length <= bytes_read'
    BY <1>2, <1>3, <2>1, <2>3
  <2>5. bytes_read' <= BufferSize
    BY <1>2, ReaderAssumption
  <2> QED
    BY <1>5, <2>4, <2>5 DEF BufferSafe
<1> QED
  BY <1>6, <1>7

LEMMA ParseSafe ==
    ASSUME Safe, NEW nl \in 1 .. BufferSize, Parse(nl) PROVE Safe'
<1> USE DEF Safe
<1>1. /\ UNCHANGED <<stream, junk, buf, bytes_read, taken, aligned, drawn, body, mixed>>
      /\ nl \in pos + 1 .. bytes_read
      /\ garbled' = (garbled \/ ~Intact(nl))
  BY DEF Parse, ParseHeader, ParseSeparator, RefuseHeader, ReadingHeaders, IsLine
<1>2. garbled' \in BOOLEAN
  BY <1>1 DEF TypeOK, Intact
<1>3. CASE ParseHeader(nl)
  <2>1. CASE req.headers = MAX_HEADERS_COUNT
    <3>1. pc' = "corrupted" /\ UNCHANGED <<pos, req>>
      BY <1>3, <2>1 DEF ParseHeader
    <3> QED
      BY <1>1, <1>2, <3>1 DEF TypeOK, BufferSafe
  <2>2. CASE req.headers # MAX_HEADERS_COUNT
    <3>0. PICK c \in Nat, m \in Nat : c = req.headers /\ m = MAX_HEADERS_COUNT
      BY ReaderAssumption DEF TypeOK
    <3>a. c <= m /\ c # m
      BY <2>2, <3>0 DEF TypeOK
    <3>b. c + 1 \in 0 .. m
      BY <3>a
    <3>1. req.headers + 1 \in 0 .. MAX_HEADERS_COUNT
      BY <3>0, <3>b
    <3>2. ContentLength \in Int
      BY ContentLengthType
    <3> DEFINE len == IF "L" \in Contents(pos, nl) THEN ContentLength
                                                   ELSE req.content_length
               close == IF "C" \in Contents(pos, nl) THEN FALSE
                                                     ELSE req.connection_close
    <3>3. len \in Int /\ close \in BOOLEAN
      BY <3>2 DEF TypeOK
    <3>4. /\ pos' = nl /\ pc' = pc
          /\ req' = [req EXCEPT !.headers = @ + 1, !.content_length = len,
                                !.connection_close = close]
      BY <1>3, <2>2 DEF ParseHeader
    <3> HIDE DEF len, close
    <3>5. /\ req' \in [headers : 0 .. MAX_HEADERS_COUNT, content_length : Int,
                       content_length_remaining : Int, connection_close : BOOLEAN,
                       read_ahead : Nat, read_ahead_length : Nat]
          /\ req'.read_ahead = req.read_ahead
          /\ req'.read_ahead_length = req.read_ahead_length
      BY <3>1, <3>3, <3>4 DEF TypeOK
    <3>6. pos' \in Nat /\ pos' <= bytes_read'
      BY <1>1, <3>4 DEF TypeOK
    <3> QED
      BY <1>1, <1>2, <3>4, <3>5, <3>6 DEF TypeOK, BufferSafe
  <2> QED
    BY <2>1, <2>2
<1>4. CASE ParseSeparator(nl)
  <2>1. pos' = nl \/ pos' = pos
    BY <1>4 DEF ParseSeparator
  <2>2. pos' \in Nat /\ pos' <= bytes_read /\ bytes_read - pos' \in Nat
    BY <1>1, <2>1 DEF TypeOK, BufferSafe
  <2>3. /\ pc' = "ready"
        /\ req' = [req EXCEPT !.content_length_remaining = req.content_length,
                              !.read_ahead = pos',
                              !.read_ahead_length = bytes_read - pos']
    BY <1>4 DEF ParseSeparator
  <2>4. /\ req' \in [headers : 0 .. MAX_HEADERS_COUNT, content_length : Int,
                     content_length_remaining : Int, connection_close : BOOLEAN,
                     read_ahead : Nat, read_ahead_length : Nat]
        /\ req'.read_ahead = pos'
        /\ req'.read_ahead_length = bytes_read - pos'
    BY <2>2, <2>3 DEF TypeOK
  <2>5. TypeOK'
    BY <1>1, <1>2, <2>2, <2>3, <2>4 DEF TypeOK
  <2>6. BufferSafe'
    <3>1. bytes_read' = bytes_read
      BY <1>1
    <3>2. bytes_read \in Nat /\ bytes_read <= BufferSize
      <4>1. TypeOK
        BY DEF Safe
      <4> QED
        BY <4>1, ReaderAssumption DEF TypeOK
    <3>3. pos' + (bytes_read - pos') = bytes_read
      BY <2>2, <3>2, Rest
    <3>4. req'.read_ahead + req'.read_ahead_length = bytes_read
      BY <2>4, <3>3
    <3> QED
      BY <2>2, <3>1, <3>2, <3>4 DEF BufferSafe
  <2> QED
    BY <2>5, <2>6
<1>5. CASE RefuseHeader(nl)
  BY <1>1, <1>2, <1>5 DEF RefuseHeader, TypeOK, BufferSafe
<1> QED
  BY <1>3, <1>4, <1>5 DEF Parse

-------------------------------------------------------------------------------
(* hiw_request_recv *)

\* What a call wants and what of it was read ahead.
LEMMA AheadBounds ==
    ASSUME Safe, NEW n \in Requests, req.content_length_remaining > 0
    PROVE  /\ Wanted(n) \in Nat
           /\ Wanted(n) <= req.content_length_remaining
           /\ Ahead(n) \in 0 .. Wanted(n)
           /\ Ahead(n) \in 0 .. req.read_ahead_length
           /\ Ahead(n) <= req.read_ahead_length
           /\ Ahead(n) <= req.content_length_remaining
BY ReaderAssumption DEF Safe, TypeOK, Wanted, Ahead, Least

\* Taking bytes out of the read-ahead keeps it inside the buffer.
LEMMA ConsumedType ==
    ASSUME Safe, NEW r \in 0 .. req.read_ahead_length
    PROVE  /\ Consumed(r) \in
                [headers : 0 .. MAX_HEADERS_COUNT, content_length : Int,
                 content_length_remaining : Int, connection_close : BOOLEAN,
                 read_ahead : Nat, read_ahead_length : Nat]
           /\ Consumed(r).read_ahead = req.read_ahead + r
           /\ Consumed(r).read_ahead_length = req.read_ahead_length - r
           /\ Consumed(r).content_length = req.content_length
           /\ Consumed(r).content_length_remaining = req.content_length_remaining
           /\ Consumed(r).read_ahead + Consumed(r).read_ahead_length <= bytes_read
<1>1. /\ req.read_ahead \in Nat /\ req.read_ahead_length \in Nat
      /\ req.read_ahead + req.read_ahead_length <= bytes_read
  BY DEF Safe, TypeOK, BufferSafe
<1>2. req.read_ahead + r \in Nat /\ req.read_ahead_length - r \in Nat
  BY <1>1
<1>3. req \in [headers : 0 .. MAX_HEADERS_COUNT, content_length : Int,
                content_length_remaining : Int, connection_close : BOOLEAN,
                read_ahead : Nat, read_ahead_length : Nat]
  BY DEF Safe, TypeOK
<1>4. /\ Consumed(r).read_ahead = req.read_ahead + r
      /\ Consumed(r).read_ahead_length = req.read_ahead_length - r
      /\ Consumed(r).content_length = req.content_length
      /\ Consumed(r).content_length_remaining = req.content_length_remaining
  BY <1>3 DEF Consumed
<1>5. Consumed(r) \in
         [headers : 0 .. MAX_HEADERS_COUNT, content_length : Int,
          content_length_remaining : Int, connection_close : BOOLEAN,
          read_ahead : Nat, read_ahead_length : Nat]
  BY <1>2, <1>3 DEF Consumed
<1>6. (req.read_ahead + r) + (req.read_ahead_length - r) <= bytes_read
  BY <1>1, bytes_read \in Nat DEF Safe, TypeOK
<1> QED
  BY <1>4, <1>5, <1>6

LEMMA DeliveredType ==
    ASSUME Safe, NEW r \in 0 .. req.read_ahead_length, NEW got \in Nat
    PROVE  Delivered(r, got) \in Seq(Nat)
<1>1. /\ req.read_ahead \in Nat /\ req.read_ahead_length \in Nat
      /\ req.read_ahead + req.read_ahead_length <= BufferSize
      /\ taken \in Nat
      /\ buf \in [1 .. BufferSize -> Nat]
  BY ReaderAssumption DEF Safe, TypeOK, BufferSafe
<1>2. \A i \in 1 .. r + got :
        (IF i <= got THEN taken + i
         ELSE IF i <= r THEN buf[req.read_ahead + i] ELSE 0) \in Nat
  <2>1. TAKE i \in 1 .. r + got
  <2>2. taken + i \in Nat
    BY <1>1
  <2>3. PICK x \in Nat, l \in Nat, b \in Nat :
            x = req.read_ahead /\ l = req.read_ahead_length /\ b = BufferSize
    BY <1>1, ReaderAssumption
  <2>4. x + l <= b /\ r <= l /\ 1 <= i /\ i \in Int /\ r \in Int
    BY <1>1, <2>3
  <2>5. i <= r => x + i \in 1 .. b
    BY <2>3, <2>4
  <2>6. i <= r => req.read_ahead + i \in 1 .. BufferSize
    BY <2>3, <2>5
  <2> QED
    BY <1>1, <2>2, <2>6
<1>3. r + got \in Nat
  OBVIOUS
<1> QED
  BY <1>2, <1>3 DEF Delivered

LEMMA RecvBodySafe ==
    ASSUME Safe, NEW n \in Requests, RecvBody(n) PROVE Safe'
<1>1. /\ UNCHANGED <<stream, junk, buf, bytes_read, pos, aligned, garbled, pc>>
      /\ req.content_length_remaining > 0
  BY DEF RecvBody, ReadingBody
<1>2. /\ Wanted(n) \in Nat
      /\ Ahead(n) \in 0 .. Wanted(n)
      /\ Ahead(n) <= req.read_ahead_length
  BY <1>1, AheadBounds
<1>3. Ahead(n) \in 0 .. req.read_ahead_length
  BY <1>1, AheadBounds
<1>4. PICK got \in 0 .. Wanted(n) - Ahead(n) :
        /\ taken' = taken + got
        /\ drawn' = drawn + Ahead(n) + got
        /\ body' = body \o Delivered(Ahead(n), got)
        /\ req' = [Consumed(Ahead(n)) EXCEPT
                        !.content_length_remaining = @ - (Ahead(n) + got)]
  BY DEF RecvBody
<1>5. got \in Nat
  BY <1>2
<1>6. taken' \in Nat /\ drawn' \in Nat
  <2>1. taken \in Nat /\ drawn \in Nat
    BY DEF Safe, TypeOK
  <2>2. Ahead(n) \in Nat
    BY <1>2
  <2> QED
    BY <1>4, <1>5, <2>1, <2>2
<1>7. body' \in Seq(Nat) /\ mixed' \in BOOLEAN
  <2>1. mixed' = (mixed \/ Ahead(n) \in 1 .. Wanted(n) - 1)
    BY DEF RecvBody
  <2>2. body \in Seq(Nat) /\ mixed \in BOOLEAN
    BY DEF Safe, TypeOK
  <2>3. PICK s \in Seq(Nat) : s = Delivered(Ahead(n), got)
    BY <1>3, <1>5, DeliveredType
  <2>4. body \o s \in Seq(Nat)
    BY <2>2, <2>3, ConcatProperties
  <2>5. mixed' \in BOOLEAN
    BY <2>1
  <2> QED
    BY <1>4, <2>3, <2>4, <2>5
<1>8. /\ req' \in [headers : 0 .. MAX_HEADERS_COUNT, content_length : Int,
                   content_length_remaining : Int, connection_close : BOOLEAN,
                   read_ahead : Nat, read_ahead_length : Nat]
      /\ req'.read_ahead = Consumed(Ahead(n)).read_ahead
      /\ req'.read_ahead_length = Consumed(Ahead(n)).read_ahead_length
  <2>1. Consumed(Ahead(n)).content_length_remaining - (Ahead(n) + got) \in Int
    BY <1>2, <1>3, <1>5, ConsumedType
  <2> QED
    BY <1>3, <1>4, <2>1, ConsumedType
<1>9. TypeOK'
  BY <1>1, <1>6, <1>7, <1>8 DEF Safe, TypeOK
<1>10. BufferSafe'
  BY <1>1, <1>3, <1>8, ConsumedType DEF Safe, BufferSafe
<1> QED
  BY <1>9, <1>10 DEF Safe

LEMMA RecvBodyFailsSafe ==
    ASSUME Safe, NEW n \in Requests, RecvBodyFails(n) PROVE Safe'
<1>1. /\ UNCHANGED <<stream, junk, buf, bytes_read, pos, aligned, garbled, taken, body>>
      /\ req.content_length_remaining > 0
      /\ req' = Consumed(Ahead(n))
      /\ drawn' = drawn + Ahead(n)
      /\ pc' \in {"failed", "ready"}
  BY DEF RecvBodyFails, ReadingBody
<1>2. Ahead(n) \in 0 .. req.read_ahead_length
  BY <1>1, AheadBounds
<1>3. drawn' \in Nat /\ mixed' \in BOOLEAN
  <2>1. mixed' = (mixed \/ Ahead(n) > 0)
    BY DEF RecvBodyFails
  <2> QED
    BY <1>1, <1>2, <2>1 DEF Safe, TypeOK
<1>4. TypeOK'
  BY <1>1, <1>2, <1>3, ConsumedType DEF Safe, TypeOK
<1>5. BufferSafe'
  BY <1>1, <1>2, ConsumedType DEF Safe, BufferSafe
<1> QED
  BY <1>4, <1>5 DEF Safe

-------------------------------------------------------------------------------
\* The next request of a connection starts as the first one.
LEMMA NextRequestInit == NextRequest => Init'
BY DEF NextRequest, Init, Reset

LEMMA InitSafeAgain == Init' => Safe'
BY InitSafe, PTL

LEMMA NextSafe == Safe /\ [Next]_vars => Safe'
<1> SUFFICES ASSUME Safe, [Next]_vars PROVE Safe'
  OBVIOUS
<1>1. ASSUME NEW n \in 1 .. BufferSize, Recv(n) PROVE Safe'
  BY <1>1, RecvSafe
<1>2. ASSUME NEW nl \in 1 .. BufferSize, Parse(nl) PROVE Safe'
  BY <1>2, ParseSafe
<1>3. CASE RefuseFull
  BY <1>3 DEF RefuseFull, ReadingHeaders, Safe, TypeOK, BufferSafe
<1>4. CASE RecvFails
  BY <1>4 DEF RecvFails, Safe, TypeOK, BufferSafe
<1>5. ASSUME NEW n \in Requests, RecvBody(n) PROVE Safe'
  BY <1>5, RecvBodySafe
<1>6. ASSUME NEW n \in Requests, RecvBodyFails(n) PROVE Safe'
  BY <1>6, RecvBodyFailsSafe
<1>7. CASE NextRequest
  BY <1>7, NextRequestInit, InitSafeAgain
<1>8. CASE NextOutOfStep
  BY <1>8 DEF NextOutOfStep, Safe, TypeOK, BufferSafe
<1>9. CASE UNCHANGED vars
  BY <1>9 DEF vars, Safe, TypeOK, BufferSafe
<1> QED
  BY <1>1, <1>2, <1>3, <1>4, <1>5, <1>6, <1>7, <1>8, <1>9 DEF Next

LEMMA SafeHolds == Spec => []Safe
BY InitSafe, NextSafe, PTL DEF Spec

\* Every variable keeps its type: the header count never exceeds the slots of
\* hiw_headers, bytes_read never exceeds the buffer.
THEOREM TypeCorrect == Spec => []TypeOK
<1>1. Safe => TypeOK
  BY DEF Safe
<1> QED
  BY <1>1, SafeHolds, PTL

\* However the bytes of a request are cut into recv calls, the parser stays in
\* what was received, recv in the buffer, the read-ahead in what was received.
THEOREM BufferSafeHolds == Spec => []BufferSafe
<1>1. Safe => BufferSafe
  BY DEF Safe
<1> QED
  BY <1>1, SafeHolds, PTL

-------------------------------------------------------------------------------
(* LinesFaithful: as long as recv stops at the ends of lines, the buffer is  *)
(* a copy of the stream and every recv finds it parsed to its end.           *)

Copied ==
    /\ taken = bytes_read
    /\ bytes_read <= Len(stream)
    /\ \A i \in 1 .. bytes_read : buf[i] = i
    /\ pos >= 1 /\ stream[pos] = "n"
    /\ \A o \in 1 .. pos : ~IsHeadEnd(o)
    /\ stream[bytes_read] = "n" \/ \E o \in 1 .. bytes_read : IsHeadEnd(o)

Faithful ==
    aligned =>
        /\ ~garbled
        /\ pc = "status" => taken = 0 /\ bytes_read = 0
        /\ pc = "headers" => Copied

\* What Safe says of the cells and the stream.
LEMMA CellFacts ==
    ASSUME Safe
    PROVE  /\ stream \in Seq(Kinds) /\ Len(stream) \in Nat
           /\ bytes_read \in Nat /\ pos \in Nat /\ taken \in Nat
           /\ bytes_read <= BufferSize /\ BufferSize \in Nat
           /\ pos <= bytes_read
BY ReaderAssumption DEF Safe, TypeOK, BufferSafe

\* A line that was copied faithfully ends with a line feed of the stream.
LEMMA CellIsStream ==
    ASSUME NEW b, NEW i \in Nat \ {0}, b[i] = i
    PROVE  Cell(b, i) = stream[i]
BY DEF Cell

\* A line with a colon holds no end of the head.
LEMMA HeaderIsNotEnd ==
    ASSUME Safe, Copied, NEW nl \in 1 .. BufferSize,
           IsLine(buf, pos, bytes_read, nl),
           Contents(pos, nl) \cap Colons # {}
    PROVE  stream[nl] = "n" /\ \A o \in 1 .. nl : ~IsHeadEnd(o)
<1>1. /\ nl \in pos + 1 .. bytes_read
      /\ pos \in Nat /\ bytes_read \in Nat /\ pos >= 1
  BY CellFacts DEF IsLine, Copied
<1>2. \A i \in pos + 1 .. nl : Cell(buf, i) = stream[i]
  <2>1. TAKE i \in pos + 1 .. nl
  <2>2. i \in Nat \ {0} /\ i \in 1 .. bytes_read
    BY <1>1
  <2>3. buf[i] = i
    BY <2>2 DEF Copied
  <2> QED
    BY <2>2, <2>3, CellIsStream
<1>3. stream[nl] = "n"
  BY <1>1, <1>2 DEF IsLine
<1>4. \A i \in pos + 1 .. nl - 1 : stream[i] # "n"
  BY <1>1, <1>2 DEF IsLine
<1>5. PICK c \in pos + 1 .. nl - 1 : stream[c] \in Colons
  BY <1>1, <1>2 DEF Contents
<1>6. ASSUME NEW o \in 1 .. nl, IsHeadEnd(o) PROVE FALSE
  <2>1. /\ stream[o] = "n"
        /\ \/ stream[o - 1] = "n"
           \/ o > 2 /\ stream[o - 1] = "r" /\ stream[o - 2] = "n"
    BY <1>6 DEF IsHeadEnd
  <2>2. o > pos
    BY <1>1, <1>6 DEF Copied
  <2>3. o = nl
    BY <1>1, <1>4, <2>1, <2>2
  <2>4. nl - 1 \in pos + 1 .. nl - 1
    BY <1>1, <1>5
  <2>5. stream[nl - 1] # "n"
    BY <1>4, <2>4
  <2>6. stream[nl - 1] = "r" /\ stream[nl - 2] = "n"
    BY <2>1, <2>3, <2>5
  <2>7. nl - 2 \notin pos + 1 .. nl - 1
    BY <1>4, <2>6
  <2>8. nl - 2 = pos
    BY <1>1, <2>4, <2>7
  <2>9. c = nl - 1
    BY <1>1, <1>5, <2>8
  <2> QED
    BY <1>5, <2>6, <2>9 DEF Colons
<1> QED
  BY <1>3, <1>6

\* Without a line behind pos, the copy is parsed to its end.
LEMMA ParsedToEnd ==
    ASSUME Safe, Copied, NoLine(buf, pos, bytes_read) PROVE pos = bytes_read
<1>1. pos \in Nat /\ bytes_read \in Nat /\ pos <= bytes_read
  BY CellFacts
<1>2. \A i \in pos + 1 .. bytes_read : stream[i] # "n"
  <2>1. TAKE i \in pos + 1 .. bytes_read
  <2>2. i \in Nat \ {0} /\ i \in 1 .. bytes_read
    BY <1>1
  <2>3. Cell(buf, i) # "n" /\ buf[i] = i
    BY <2>1, <2>2 DEF NoLine, Copied
  <2> QED
    BY <2>2, <2>3, CellIsStream
<1>3. CASE stream[bytes_read] = "n"
  BY <1>1, <1>2, <1>3
<1>4. CASE \E o \in 1 .. bytes_read : IsHeadEnd(o)
  <2>1. PICK o \in 1 .. bytes_read : IsHeadEnd(o)
    BY <1>4
  <2>2. stream[o] = "n"
    BY <2>1 DEF IsHeadEnd
  <2>3. o \notin pos + 1 .. bytes_read
    BY <1>2, <2>2
  <2>4. o \in 1 .. pos
    BY <1>1, <2>3
  <2> QED
    BY <2>1, <2>4 DEF Copied
<1> QED
  BY <1>3, <1>4 DEF Copied

\* Bytes that are received behind a copy make a longer copy.
LEMMA ReceivedCopy ==
    ASSUME Safe, NEW n \in 1 .. BufferSize, Take(n), taken = bytes_read,
           \A i \in 1 .. bytes_read : buf[i] = i,
           buf' = Received(bytes_read, n)
    PROVE  /\ taken' = bytes_read' /\ bytes_read' = bytes_read + n
           /\ bytes_read' <= Len(stream)
           /\ \A i \in 1 .. bytes_read' : buf'[i] = i
<1>1. /\ bytes_read \in Nat /\ BufferSize \in Nat /\ Len(stream) \in Nat
      /\ n \in 1 .. BufferSize - bytes_read
      /\ n <= Len(stream) - taken
      /\ taken' = taken + n /\ bytes_read' = bytes_read + n
  BY CellFacts DEF Take
<1>2. ASSUME NEW i \in 1 .. bytes_read + n PROVE buf'[i] = i
  <2>1. i \in 1 .. BufferSize /\ i \in Nat
    BY <1>1
  <2>2. buf'[i] = IF i \in bytes_read + 1 .. bytes_read + n
                  THEN taken + i - bytes_read ELSE buf[i]
    BY <2>1 DEF Received
  <2>3. taken + i - bytes_read = i
    BY <1>1, <2>1
  <2>4. i \notin bytes_read + 1 .. bytes_read + n => i \in 1 .. bytes_read
    BY <1>1
  <2> QED
    BY <2>2, <2>3, <2>4
<1> QED
  BY <1>1, <1>2

LEMMA StatusFaithful ==
    ASSUME Safe, Faithful, NEW n \in 1 .. BufferSize,
           RecvStatusLine(n) \/ RecvNoStatusLine(n), aligned'
    PROVE  Faithful'
<1>1. /\ pc = "status" /\ Take(n) /\ garbled' = garbled
      /\ buf' = Received(bytes_read, n) /\ stream' = stream /\ junk' = junk
  BY DEF RecvStatusLine, RecvNoStatusLine, ReadingStatus
<1>2. aligned /\ EndsLine(n)
  BY <1>1 DEF Take
<1>3. ~garbled /\ taken = 0 /\ bytes_read = 0
  BY <1>1, <1>2 DEF Faithful
<1>4. \A i \in 1 .. bytes_read : buf[i] = i
  BY <1>3
<1>5. /\ taken' = n /\ bytes_read' = n /\ n <= Len(stream)
      /\ \A i \in 1 .. n : buf'[i] = i
  BY <1>1, <1>3, <1>4, ReceivedCopy
<1>6. \A i \in 1 .. n : Cell(buf', i) = stream[i]
  BY <1>5, CellIsStream
<1>7. stream[n] = "n" \/ \E o \in 1 .. n : IsHeadEnd(o)
  BY <1>2, <1>3 DEF EndsLine
<1>8. CASE RecvNoStatusLine(n)
  <2>1. \A i \in 1 .. n : Cell(buf', i) # "n"
    BY <1>8 DEF RecvNoStatusLine, NoLine
  <2>2. \A i \in 1 .. n : stream[i] # "n"
    BY <1>6, <2>1
  <2> QED
    BY <1>7, <2>2 DEF IsHeadEnd
<1>9. CASE RecvStatusLine(n)
  <2>1. PICK nl \in 1 .. n :
          /\ IsLine(buf', 0, n, nl)
          /\ pc' \in {"refused", "status_only", "headers"}
          /\ pc' = "headers" => ValidStatus(buf', nl)
          /\ pos' = nl
    BY <1>9 DEF RecvStatusLine
  <2>2. SUFFICES ASSUME pc' = "headers" PROVE Copied'
    BY <1>1, <1>3, <2>1 DEF Faithful
  <2>3. stream[nl] = "n"
    BY <1>6, <2>1 DEF IsLine
  <2>4. nl > 1 /\ \A i \in 1 .. nl - 1 : stream[i] = "s"
    BY <1>6, <2>1, <2>2 DEF ValidStatus
  <2>5. \A o \in 1 .. nl : ~IsHeadEnd(o)
    <3>1. ASSUME NEW o \in 1 .. nl, IsHeadEnd(o) PROVE FALSE
      <4>1. /\ o >= 2 /\ stream[o] = "n"
            /\ stream[o - 1] = "n" \/ stream[o - 1] = "r"
        BY <3>1 DEF IsHeadEnd
      <4>2. o - 1 \in 1 .. nl - 1
        BY <4>1
      <4> QED
        BY <2>4, <4>1, <4>2
    <3> QED
      BY <3>1
  <2>6. \A o \in 1 .. n : IsHeadEnd(o)' <=> IsHeadEnd(o)
    BY <1>1 DEF IsHeadEnd
  <2> QED
    BY <1>1, <1>5, <1>7, <2>1, <2>3, <2>5, <2>6 DEF Copied
<1> QED
  BY <1>8, <1>9

LEMMA MoreFaithful ==
    ASSUME Safe, Faithful, NEW n \in 1 .. BufferSize, RecvMore(n), aligned'
    PROVE  Faithful'
<1>1. /\ pc = "headers" /\ Take(n) /\ NoLine(buf, pos, bytes_read)
      /\ buf' = Received(pos, n)
      /\ UNCHANGED <<stream, junk, pc, pos, garbled>>
  BY DEF RecvMore
<1>2. aligned /\ EndsLine(n)
  BY <1>1 DEF Take
<1>3. ~garbled /\ Copied
  BY <1>1, <1>2 DEF Faithful
<1>4. pos = bytes_read
  BY <1>1, <1>3, ParsedToEnd
<1>5. taken = bytes_read /\ \A i \in 1 .. bytes_read : buf[i] = i
  BY <1>3 DEF Copied
<1>6. /\ taken' = bytes_read' /\ bytes_read' = bytes_read + n
      /\ bytes_read' <= Len(stream)
      /\ \A i \in 1 .. bytes_read' : buf'[i] = i
  BY <1>1, <1>4, <1>5, ReceivedCopy
<1>7. stream[bytes_read'] = "n" \/ \E o \in 1 .. bytes_read' : IsHeadEnd(o)
  BY <1>2, <1>5, <1>6 DEF EndsLine
<1>8. \A o : IsHeadEnd(o)' <=> IsHeadEnd(o)
  BY <1>1 DEF IsHeadEnd
<1>9. Copied'
  BY <1>1, <1>3, <1>6, <1>7, <1>8 DEF Copied
<1> QED
  BY <1>1, <1>3, <1>9 DEF Faithful

LEMMA ParseFaithful ==
    ASSUME Safe, Faithful, NEW nl \in 1 .. BufferSize, Parse(nl), aligned'
    PROVE  Faithful'
<1>1. /\ pc = "headers" /\ aligned' = aligned
      /\ UNCHANGED <<stream, junk, buf, bytes_read, taken>>
      /\ IsLine(buf, pos, bytes_read, nl)
      /\ garbled' = (garbled \/ ~Intact(nl))
  BY DEF Parse, ParseHeader, ParseSeparator, RefuseHeader, ReadingHeaders
<1>2. ~garbled /\ Copied
  BY <1>1 DEF Faithful
<1>3. ~garbled'
  <2>1. \A i \in pos + 1 .. nl : i \in 1 .. bytes_read
    BY <1>1, CellFacts DEF IsLine
  <2> QED
    BY <1>1, <1>2, <2>1 DEF Intact, Copied
<1>4. CASE pc' # "headers"
  <2>1. pc' # "status"
    BY <1>1 DEF Parse, ParseHeader, ParseSeparator, RefuseHeader
  <2> QED
    BY <1>3, <1>4, <2>1 DEF Faithful
<1>5. CASE pc' = "headers"
  <2>1. Contents(pos, nl) \cap Colons # {} /\ pos' = nl
    BY <1>5 DEF Parse, ParseHeader, ParseSeparator, RefuseHeader
  <2>2. stream[nl] = "n" /\ \A o \in 1 .. nl : ~IsHeadEnd(o)
    BY <1>1, <1>2, <2>1, HeaderIsNotEnd
  <2>3. \A o : IsHeadEnd(o)' <=> IsHeadEnd(o)
    BY <1>1 DEF IsHeadEnd
  <2>4. Copied'
    BY <1>1, <1>2, <2>1, <2>2, <2>3 DEF Copied
  <2> QED
    BY <1>3, <1>5, <2>4 DEF Faithful
<1> QED
  BY <1>4, <1>5

LEMMA NextFaithful == Safe /\ Faithful /\ [Next]_vars => Faithful'
<1> SUFFICES ASSUME Safe, Faithful, [Next]_vars, aligned' PROVE Faithful'
  BY DEF Faithful
<1>1. ASSUME NEW n \in 1 .. BufferSize, Recv(n) PROVE Faithful'
  BY <1>1, StatusFaithful, MoreFaithful DEF Recv
<1>2. ASSUME NEW nl \in 1 .. BufferSize, Parse(nl) PROVE Faithful'
  BY <1>2, ParseFaithful
<1>3. CASE RefuseFull
  BY <1>3 DEF RefuseFull, ReadingHeaders, Faithful
<1>4. CASE RecvFails
  BY <1>4 DEF RecvFails, Faithful
<1>5. ASSUME NEW n \in Requests, RecvBody(n) PROVE Faithful'
  BY <1>5 DEF RecvBody, ReadingBody, Faithful
<1>6. ASSUME NEW n \in Requests, RecvBodyFails(n) PROVE Faithful'
  BY <1>6 DEF RecvBodyFails, ReadingBody, Faithful
<1>7. CASE NextRequest
  BY <1>7 DEF NextRequest, Faithful
<1>8. CASE NextOutOfStep
  BY <1>8 DEF NextOutOfStep, Faithful, Reusable
<1>9. CASE UNCHANGED vars
  BY <1>9 DEF vars, Faithful, Copied, IsHeadEnd
<1> QED
  BY <1>1, <1>2, <1>3, <1>4, <1>5, <1>6, <1>7, <1>8, <1>9 DEF Next

\* When every recv stops at the end of a line, no parsed line holds a byte
\* the client did not send at that place.
THEOREM LinesFaithfulHolds == Spec => []LinesFaithful
<1>1. Init => Faithful
  BY DEF Init, Faithful
<1>2. Faithful => LinesFaithful
  BY DEF Faithful, LinesFaithful
<1> QED
  BY <1>1, <1>2, NextFaithful, SafeHolds, PTL DEF Spec

-------------------------------------------------------------------------------
(* NeverOverdrawn: what was drawn and what remains add up.                   *)

Owed ==
    /\ pc = "ready" =>
          /\ drawn + req.content_length_remaining = req.content_length
          /\ drawn = 0 \/ req.content_length_remaining >= 0
    /\ pc = "failed" => drawn <= req.content_length
    /\ pc = "out_of_step" => drawn = 0 \/ drawn <= req.content_length
    /\ pc \notin {"ready", "failed", "out_of_step"} => drawn = 0

LEMMA InitOwed == Init => Owed
BY DEF Init, Owed

LEMMA RecvBodyOwed ==
    ASSUME Safe, Owed, NEW n \in Requests, RecvBody(n) PROVE Owed'
<1>1. /\ pc = "ready" /\ pc' = "ready"
      /\ req.content_length_remaining > 0
  BY DEF RecvBody, ReadingBody
<1>2. /\ Wanted(n) \in Nat
      /\ Wanted(n) <= req.content_length_remaining
      /\ Ahead(n) \in 0 .. Wanted(n)
      /\ Ahead(n) \in 0 .. req.read_ahead_length
  BY <1>1, AheadBounds
<1>3. PICK got \in 0 .. Wanted(n) - Ahead(n) :
        /\ drawn' = drawn + Ahead(n) + got
        /\ req' = [Consumed(Ahead(n)) EXCEPT
                        !.content_length_remaining = @ - (Ahead(n) + got)]
  BY DEF RecvBody
<1>4. /\ req'.content_length = req.content_length
      /\ req'.content_length_remaining
            = req.content_length_remaining - (Ahead(n) + got)
  BY <1>2, <1>3, ConsumedType
<1>5. /\ drawn \in Nat /\ req.content_length \in Int
      /\ req.content_length_remaining \in Int
  BY DEF Safe, TypeOK
<1>6. drawn + req.content_length_remaining = req.content_length
  BY <1>1 DEF Owed
<1>7. /\ drawn' + req'.content_length_remaining = req'.content_length
      /\ req'.content_length_remaining >= 0
  BY <1>2, <1>3, <1>4, <1>5, <1>6
<1> QED
  BY <1>1, <1>7 DEF Owed

LEMMA NextOwed ==
    ASSUME ~ReadTimeout PROVE Safe /\ Owed /\ [Next]_vars => Owed'
<1> SUFFICES ASSUME Safe, Owed, [Next]_vars PROVE Owed'
  OBVIOUS
<1>1. ASSUME NEW n \in 1 .. BufferSize, Recv(n) PROVE Owed'
  <2>1. /\ pc \in {"status", "headers"} /\ drawn' = drawn
        /\ pc' \in {"status", "headers", "status_only", "refused"}
    BY <1>1 DEF Recv, RecvStatusLine, RecvNoStatusLine, RecvMore, ReadingStatus
  <2> QED
    BY <2>1 DEF Owed
<1>2. ASSUME NEW nl \in 1 .. BufferSize, Parse(nl) PROVE Owed'
  <2>1. pc = "headers" /\ drawn' = drawn
    BY <1>2 DEF Parse, ParseHeader, ParseSeparator, RefuseHeader, ReadingHeaders
  <2>2. drawn = 0
    BY <2>1 DEF Owed
  <2>3. CASE ParseSeparator(nl)
    <3>1. /\ pc' = "ready"
          /\ req' = [req EXCEPT !.content_length_remaining = req.content_length,
                                !.read_ahead = pos',
                                !.read_ahead_length = bytes_read - pos']
      BY <2>3 DEF ParseSeparator
    <3>2. /\ req'.content_length = req.content_length
          /\ req'.content_length_remaining = req.content_length
          /\ req.content_length \in Int
      BY <3>1 DEF Safe, TypeOK
    <3> QED
      BY <2>1, <2>2, <3>1, <3>2 DEF Owed
  <2>4. CASE ParseHeader(nl) \/ RefuseHeader(nl)
    <3>1. pc' \in {"headers", "refused", "corrupted"}
      BY <2>1, <2>4 DEF ParseHeader, RefuseHeader
    <3> QED
      BY <2>1, <2>2, <3>1 DEF Owed
  <2> QED
    BY <1>2, <2>3, <2>4 DEF Parse
<1>3. CASE RefuseFull
  BY <1>3 DEF RefuseFull, ReadingHeaders, Owed
<1>4. CASE RecvFails
  BY <1>4 DEF RecvFails, Owed
<1>5. ASSUME NEW n \in Requests, RecvBody(n) PROVE Owed'
  BY <1>5, RecvBodyOwed
<1>6. ASSUME NEW n \in Requests, RecvBodyFails(n) PROVE Owed'
  <2>1. /\ pc = "ready" /\ pc' = "failed"
        /\ req.content_length_remaining > 0
        /\ req' = Consumed(Ahead(n))
        /\ drawn' = drawn + Ahead(n)
    BY <1>6 DEF RecvBodyFails, ReadingBody
  <2>2. /\ Ahead(n) \in 0 .. req.read_ahead_length
        /\ Ahead(n) <= req.content_length_remaining
    BY <2>1, AheadBounds
  <2>3. req'.content_length = req.content_length
    BY <2>1, <2>2, ConsumedType
  <2>4. /\ drawn \in Nat /\ req.content_length \in Int
        /\ req.content_length_remaining \in Int
    BY DEF Safe, TypeOK
  <2>5. drawn + req.content_length_remaining = req.content_length
    BY <2>1 DEF Owed
  <2>6. drawn' <= req'.content_length
    BY <2>1, <2>2, <2>3, <2>4, <2>5
  <2> QED
    BY <2>1, <2>6 DEF Owed
<1>7. CASE NextRequest
  BY <1>7 DEF NextRequest, Owed
<1>8. CASE NextOutOfStep
  <2>1. /\ pc = "ready" /\ pc' = "out_of_step"
        /\ drawn' = drawn /\ req' = req
    BY <1>8 DEF NextOutOfStep, Reusable
  <2>2. /\ drawn \in Nat /\ req.content_length \in Int
        /\ req.content_length_remaining \in Int
    BY DEF Safe, TypeOK
  <2>3. drawn = 0 \/ drawn <= req.content_length
    BY <2>1, <2>2 DEF Owed
  <2> QED
    BY <2>1, <2>3 DEF Owed
<1>9. CASE UNCHANGED vars
  BY <1>9 DEF vars, Owed
<1> QED
  BY <1>1, <1>2, <1>3, <1>4, <1>5, <1>6, <1>7, <1>8, <1>9 DEF Next

\* With blocking sockets, no sequence of hiw_request_recv of any sizes draws
\* more than the Content-Length of the request.
THEOREM NeverOverdrawnHolds ==
    ASSUME ~ReadTimeout PROVE Spec => []NeverOverdrawn
<1>1. Safe /\ Owed => NeverOverdrawn
  BY DEF Safe, TypeOK, Owed, NeverOverdrawn
<1> QED
  BY <1>1, InitOwed, NextOwed, SafeHolds, PTL DEF Spec

-------------------------------------------------------------------------------
(* BodyExact, HeadersComplete and ReuseInStep: what the parser made of the   *)
(* head, and what of the body is where. They are about clients that send     *)
(* requests; the code takes any line of one letter for the empty line.       *)

\* What a stream says of its request, in front of a position.
ColonsTo(p) == {i \in 1 .. p : stream[i] \in Colons}

HasBy(p, kind) == \E i \in 1 .. p : stream[i] = kind

\* The request is what the head says in front of a position.
Told(p) ==
    /\ req.headers = Cardinality(ColonsTo(p))
    /\ req.connection_close <=> ~HasBy(p, "C")
    /\ req.content_length = IF HasBy(p, "L") THEN ContentLength ELSE -1

FirstHeadEnd(h) == IsHeadEnd(h) /\ \A p \in 1 .. h - 1 : ~IsHeadEnd(p)

\* The head ends at h: what was read ahead is the front of what was taken and
\* not drawn, and as long as no call mixed, what was drawn is what was handed
\* out.
AfterHead(h) ==
    /\ FirstHeadEnd(h)
    /\ pc = "ready" =>
        /\ Told(Len(stream))
        /\ taken = h + drawn + req.read_ahead_length
        /\ \A i \in 1 .. req.read_ahead_length :
              buf[req.read_ahead + i] = h + drawn + i
        /\ drawn + req.content_length_remaining >= req.content_length
        /\ ~mixed => Len(body) = drawn
    /\ ~mixed => \A i \in 1 .. Len(body) : body[i] = h + i
    /\ pc = "out_of_step" => taken > h + ContentLength

Exact ==
    aligned =>
        /\ pc = "status" => req = Reset
        /\ pc = "headers" => Told(pos)
        /\ pc \in {"ready", "failed", "out_of_step"} => \E h \in 1 .. Len(stream) : AfterHead(h)
        /\ pc \notin {"ready", "failed", "out_of_step"} => body = << >> /\ drawn = 0

-------------------------------------------------------------------------------

\* The stream is chosen once for a request.
LEMMA SameStream ==
    ASSUME stream' = stream
    PROVE  /\ ContentLength' = ContentLength
           /\ \A p : ColonsTo(p)' = ColonsTo(p)
           /\ \A p, kind : HasBy(p, kind)' <=> HasBy(p, kind)
           /\ \A h : IsHeadEnd(h)' <=> IsHeadEnd(h)
           /\ \A h : FirstHeadEnd(h)' <=> FirstHeadEnd(h)
<1> DEFINE bytes == {i \in DOMAIN stream : stream[i] = "b"}
<1>1. bytes' = bytes
  OBVIOUS
<1>2. ContentLength' = Cardinality(bytes') /\ ContentLength = Cardinality(bytes)
  BY DEF ContentLength
<1>3. \A p : ColonsTo(p)' = ColonsTo(p)
  BY DEF ColonsTo
<1>4. \A p, kind : HasBy(p, kind)' <=> HasBy(p, kind)
  BY DEF HasBy
<1>5. \A h : IsHeadEnd(h)' <=> IsHeadEnd(h)
  BY DEF IsHeadEnd
<1>6. \A h : FirstHeadEnd(h)' <=> FirstHeadEnd(h)
  BY <1>5 DEF FirstHeadEnd
<1> HIDE DEF bytes
<1>7. ContentLength' = ContentLength
  BY <1>1, <1>2
<1> QED
  BY <1>3, <1>4, <1>5, <1>6, <1>7

\* What is told in front of a position stays told.
LEMMA SameTold ==
    ASSUME stream' = stream, req' = req, NEW p, Told(p)
    PROVE  Told(p)'
<1>1. /\ ContentLength' = ContentLength
      /\ ColonsTo(p)' = ColonsTo(p)
      /\ HasBy(p, "C")' <=> HasBy(p, "C")
      /\ HasBy(p, "L")' <=> HasBy(p, "L")
  BY SameStream
<1>2. Cardinality(ColonsTo(p)') = Cardinality(ColonsTo(p))
  BY <1>1
<1> QED
  BY <1>1, <1>2 DEF Told

\* There is one first end of a head.
LEMMA HeadEndIs ==
    ASSUME Safe, NEW h \in 1 .. Len(stream), FirstHeadEnd(h)
    PROVE  HeadEnd = h
<1>1. Len(stream) \in Nat
  BY CellFacts
<1>2. IsHeadEnd(h) /\ \A p \in 1 .. h - 1 : ~IsHeadEnd(p)
  BY DEF FirstHeadEnd
<1>3. ASSUME NEW o \in 1 .. Len(stream), IsHeadEnd(o), \A p \in 1 .. o - 1 : ~IsHeadEnd(p)
      PROVE  o = h
  <2>1. ~(o < h) /\ ~(h < o)
    BY <1>1, <1>2, <1>3
  <2> QED
    BY <1>1, <2>1
<1> QED
  BY <1>2, <1>3 DEF HeadEnd

\* A line that was copied faithfully is a line of the head.
LEMMA CopiedLine ==
    ASSUME Safe, Copied, WellFormedStreams, NEW nl \in 1 .. BufferSize,
           IsLine(buf, pos, bytes_read, nl)
    PROVE  /\ pos \in Nat \ {0} /\ nl \in pos + 1 .. Len(stream) /\ nl <= bytes_read
           /\ stream[pos] = "n" /\ stream[nl] = "n"
           /\ \A i \in pos + 1 .. nl - 1 : stream[i] # "n"
           /\ \A i \in pos + 1 .. nl - 1 : stream[i] \in Contents(pos, nl)
           /\ \A c \in Contents(pos, nl) : \E i \in pos + 1 .. nl - 1 : c = stream[i]
           /\ nl = pos + 2 => stream[pos + 1] \in Colons \cup {"r"}
           /\ \A k, l \in pos + 1 .. nl - 1 :
                stream[k] \in Colons /\ stream[l] \in Colons => k = l
<1>1. /\ nl \in pos + 1 .. bytes_read
      /\ pos \in Nat /\ bytes_read \in Nat /\ pos >= 1
      /\ bytes_read <= Len(stream) /\ Len(stream) \in Nat
      /\ stream[pos] = "n"
      /\ \A o \in 1 .. pos : ~IsHeadEnd(o)
  BY CellFacts DEF IsLine, Copied
<1>2. \A i \in pos + 1 .. nl : Cell(buf, i) = stream[i]
  <2>1. TAKE i \in pos + 1 .. nl
  <2>2. i \in Nat \ {0} /\ i \in 1 .. bytes_read
    BY <1>1
  <2>3. buf[i] = i
    BY <2>2 DEF Copied
  <2> QED
    BY <2>2, <2>3, CellIsStream
<1>3. stream[nl] = "n"
  BY <1>1, <1>2 DEF IsLine
<1>4. \A i \in pos + 1 .. nl - 1 : Cell(buf, i) = stream[i] /\ stream[i] # "n"
  <2>1. TAKE i \in pos + 1 .. nl - 1
  <2>2. i \in pos + 1 .. nl
    BY <1>1
  <2>3. Cell(buf, i) # "n"
    BY DEF IsLine
  <2> QED
    BY <1>2, <2>2, <2>3
<1>5. /\ \A i \in pos + 1 .. nl - 1 : stream[i] \in Contents(pos, nl)
      /\ \A c \in Contents(pos, nl) : \E i \in pos + 1 .. nl - 1 : c = stream[i]
  BY <1>4 DEF Contents
<1>6. \A o \in 1 .. pos : ~EndsHead(stream, o)
  BY <1>1 DEF EndsHead, IsHeadEnd
<1>7. HeadLine(stream, pos, nl)
  BY <1>1, <1>3, <1>4, <1>6 DEF HeadLine
<1>8. WellFormed(stream)
  BY DEF WellFormedStreams, Safe, TypeOK
<1>9. pos \in 1 .. Len(stream) /\ nl \in 1 .. Len(stream)
  BY <1>1
<1>10. /\ nl = pos + 2 => stream[pos + 1] \in Colons \cup {"r"}
       /\ \A k, l \in pos + 1 .. nl - 1 :
            stream[k] \in Colons /\ stream[l] \in Colons => k = l
  BY <1>7, <1>8, <1>9 DEF WellFormed
<1>11. nl \in pos + 1 .. Len(stream)
  BY <1>1
<1> QED
  BY <1>1, <1>3, <1>4, <1>5, <1>10, <1>11

\* The colons in front of a position are finitely many.
LEMMA ColonsFinite ==
    ASSUME NEW p \in Nat
    PROVE  IsFiniteSet(ColonsTo(p)) /\ Cardinality(ColonsTo(p)) \in Nat
<1>1. IsFiniteSet(1 .. p)
  BY FS_Interval
<1>2. IsFiniteSet(ColonsTo(p))
  BY <1>1, FS_Subset DEF ColonsTo
<1> QED
  BY <1>2, FS_CardinalityType

\* A header line adds one colon.
LEMMA HeaderAdds ==
    ASSUME Safe, Copied, WellFormedStreams, NEW nl \in 1 .. BufferSize,
           IsLine(buf, pos, bytes_read, nl), Contents(pos, nl) \cap Colons # {}
    PROVE  /\ Cardinality(ColonsTo(nl)) = Cardinality(ColonsTo(pos)) + 1
           /\ \A kind \in Colons :
                HasBy(nl, kind) <=> HasBy(pos, kind) \/ kind \in Contents(pos, nl)
<1>1. /\ pos \in Nat \ {0} /\ nl \in pos + 1 .. Len(stream)
      /\ stream[nl] = "n"
      /\ \A i \in pos + 1 .. nl - 1 : stream[i] \in Contents(pos, nl)
      /\ \A c \in Contents(pos, nl) : \E i \in pos + 1 .. nl - 1 : c = stream[i]
      /\ \A k, l \in pos + 1 .. nl - 1 :
           stream[k] \in Colons /\ stream[l] \in Colons => k = l
  BY CopiedLine
<1>2. PICK c \in pos + 1 .. nl - 1 : stream[c] \in Colons
  BY <1>1
<1>3. "n" \notin Colons
  BY DEF Colons
<1>4. \A i \in 1 .. nl : i \in 1 .. pos \/ i \in pos + 1 .. nl - 1 \/ i = nl
  BY <1>1
<1>5. 1 .. pos \subseteq 1 .. nl /\ pos + 1 .. nl - 1 \subseteq 1 .. nl
  BY <1>1
<1>6. ColonsTo(nl) = ColonsTo(pos) \cup {c}
  <2>1. ColonsTo(pos) \cup {c} \subseteq ColonsTo(nl)
    BY <1>2, <1>5 DEF ColonsTo
  <2>2. ASSUME NEW i \in ColonsTo(nl)
        PROVE  i \in ColonsTo(pos) \cup {c}
    <3>1. i \in 1 .. nl /\ stream[i] \in Colons
      BY DEF ColonsTo
    <3>2. i # nl
      BY <1>1, <1>3, <3>1
    <3>3. i \in pos + 1 .. nl - 1 => i = c
      BY <1>1, <1>2, <3>1
    <3> QED
      BY <1>4, <3>1, <3>2, <3>3 DEF ColonsTo
  <2> QED
    BY <2>1, <2>2
<1>7. c \notin ColonsTo(pos)
  BY <1>1, <1>2 DEF ColonsTo
<1>8. Cardinality(ColonsTo(nl)) = Cardinality(ColonsTo(pos)) + 1
  <2>1. IsFiniteSet(ColonsTo(pos))
    BY <1>1, ColonsFinite
  <2> QED
    BY <1>6, <1>7, <2>1, FS_AddElement
<1>9. ASSUME NEW kind \in Colons
      PROVE  HasBy(nl, kind) <=> HasBy(pos, kind) \/ kind \in Contents(pos, nl)
  BY <1>1, <1>3, <1>4, <1>5 DEF HasBy
<1> QED
  BY <1>8, <1>9

\* The line that ends the reading of the head is the empty one.
LEMMA SeparatorEnds ==
    ASSUME Safe, Copied, WellFormedStreams, NEW nl \in 1 .. BufferSize,
           IsLine(buf, pos, bytes_read, nl), Contents(pos, nl) \cap Colons = {},
           nl - pos <= 2
    PROVE  /\ Contents(pos, nl) \subseteq {"r"}
           /\ nl \in 1 .. Len(stream) /\ nl <= bytes_read /\ pos <= nl
           /\ FirstHeadEnd(nl)
<1>1. /\ pos \in Nat \ {0} /\ nl \in pos + 1 .. Len(stream) /\ nl <= bytes_read
      /\ stream[pos] = "n" /\ stream[nl] = "n"
      /\ \A i \in pos + 1 .. nl - 1 : stream[i] # "n"
      /\ \A i \in pos + 1 .. nl - 1 : stream[i] \in Contents(pos, nl)
      /\ \A c \in Contents(pos, nl) : \E i \in pos + 1 .. nl - 1 : c = stream[i]
      /\ nl = pos + 2 => stream[pos + 1] \in Colons \cup {"r"}
  BY CopiedLine
<1>2. nl = pos + 1 \/ nl = pos + 2
  BY <1>1
<1>3. CASE nl = pos + 1
  <2>1. pos + 1 .. nl - 1 = {}
    BY <1>1, <1>3
  <2>2. Contents(pos, nl) = {}
    BY <1>1, <2>1
  <2>3. nl - 1 = pos /\ nl \in 2 .. Len(stream)
    BY <1>1, <1>3
  <2>4. IsHeadEnd(nl)
    BY <1>1, <2>3 DEF IsHeadEnd
  <2> QED
    BY <1>1, <1>3, <2>2, <2>4 DEF FirstHeadEnd, Copied
<1>4. CASE nl = pos + 2
  <2>1. \A i : i \in pos + 1 .. nl - 1 <=> i = pos + 1
    BY <1>1, <1>4
  <2>2. stream[pos + 1] = "r"
    BY <1>1, <1>4, <2>1
  <2>3. Contents(pos, nl) \subseteq {"r"}
    BY <1>1, <2>1, <2>2
  <2>4. nl - 1 = pos + 1 /\ nl - 2 = pos /\ nl \in 2 .. Len(stream) /\ nl > 2
    BY <1>1, <1>4
  <2>5. IsHeadEnd(nl)
    BY <1>1, <2>2, <2>4 DEF IsHeadEnd
  <2>6. \A o \in 1 .. nl - 1 : ~IsHeadEnd(o)
    <3>1. ASSUME NEW o \in 1 .. nl - 1
          PROVE  o \in 1 .. pos \/ o = pos + 1
      BY <1>1, <1>4
    <3>2. ~IsHeadEnd(pos + 1)
      BY <2>2 DEF IsHeadEnd
    <3> QED
      BY <3>1, <3>2 DEF Copied
  <2>7. nl \in 1 .. Len(stream) /\ pos <= nl
    BY <1>1
  <2> QED
    BY <1>1, <2>3, <2>5, <2>6, <2>7 DEF FirstHeadEnd
<1> QED
  BY <1>2, <1>3, <1>4

\* Behind the head no colon follows.
LEMMA NoneBehind ==
    ASSUME Safe, WellFormedStreams, NEW h \in 1 .. Len(stream), IsHeadEnd(h)
    PROVE  /\ ColonsTo(h) = ColonsTo(Len(stream))
           /\ \A kind \in Colons : HasBy(h, kind) <=> HasBy(Len(stream), kind)
<1>1. Len(stream) \in Nat /\ h \in 1 .. Len(stream)
  BY CellFacts
<1>2. EndsHead(stream, h)
  BY DEF IsHeadEnd, EndsHead
<1>3. WellFormed(stream)
  BY DEF WellFormedStreams, Safe, TypeOK
<1>4. \A k \in h .. Len(stream) : stream[k] \notin Colons
  BY <1>2, <1>3 DEF WellFormed
<1>5. \A k \in 1 .. Len(stream) : k \in 1 .. h \/ k \in h .. Len(stream)
  BY <1>1
<1>6. 1 .. h \subseteq 1 .. Len(stream)
  BY <1>1
<1> QED
  BY <1>4, <1>5, <1>6 DEF ColonsTo, HasBy

\* A status line tells of no header.
LEMMA StatusExact ==
    ASSUME Safe, Faithful, Exact, NEW n \in 1 .. BufferSize,
           RecvStatusLine(n) \/ RecvNoStatusLine(n), aligned'
    PROVE  Exact'
<1>1. /\ pc = "status" /\ Take(n) /\ buf' = Received(bytes_read, n)
      /\ UNCHANGED <<stream, junk, req, drawn, body>>
  BY DEF RecvStatusLine, RecvNoStatusLine, ReadingStatus
<1>2. aligned
  BY <1>1 DEF Take
<1>3. taken = 0 /\ bytes_read = 0 /\ \A i \in 1 .. bytes_read : buf[i] = i
  BY <1>1, <1>2 DEF Faithful
<1>4. req = Reset /\ body = << >> /\ drawn = 0
  BY <1>1, <1>2 DEF Exact
<1>5. /\ n \in Nat /\ n <= Len(stream)
      /\ \A i \in 1 .. n : buf'[i] = i
  BY <1>1, <1>3, ReceivedCopy
<1>6. \A i \in 1 .. n : Cell(buf', i) = stream[i]
  BY <1>5, CellIsStream
<1>7. CASE RecvNoStatusLine(n)
  <2>1. pc' \in {"status", "refused"}
    BY <1>7 DEF RecvNoStatusLine
  <2> QED
    BY <1>1, <1>4, <2>1 DEF Exact, Reset
<1>8. CASE RecvStatusLine(n)
  <2>1. PICK nl \in 1 .. n :
          /\ IsLine(buf', 0, n, nl)
          /\ pc' \in {"refused", "status_only", "headers"}
          /\ pc' = "headers" => ValidStatus(buf', nl)
          /\ pos' = nl
    BY <1>8 DEF RecvStatusLine
  <2>2. SUFFICES ASSUME pc' = "headers" PROVE Told(pos)'
    BY <1>1, <1>4, <2>1 DEF Exact
  <2>3. stream[nl] = "n"
    BY <1>6, <2>1 DEF IsLine
  <2>4. \A i \in 1 .. nl - 1 : stream[i] = "s"
    BY <1>6, <2>1, <2>2 DEF ValidStatus
  <2>5. \A i \in 1 .. nl : i \in 1 .. nl - 1 \/ i = nl
    BY <1>5, <2>1
  <2>6. \A i \in 1 .. nl : stream[i] \notin Colons
    BY <2>3, <2>4, <2>5 DEF Colons
  <2>7. ColonsTo(nl) = {} /\ ~HasBy(nl, "C") /\ ~HasBy(nl, "L")
    BY <2>6 DEF ColonsTo, HasBy, Colons
  <2>8. Cardinality(ColonsTo(nl)) = 0
    BY <2>7, FS_EmptySet
  <2>9. req.headers = 0 /\ req.connection_close = TRUE /\ req.content_length = -1
    BY <1>4 DEF Reset
  <2>10. Told(nl)
    BY <2>7, <2>8, <2>9 DEF Told
  <2>11. Told(nl)'
    BY <1>1, <2>10, SameTold
  <2> QED
    BY <2>1, <2>11
<1> QED
  BY <1>7, <1>8

\* What a header line tells is added.
LEMMA HeaderExact ==
    ASSUME Safe, Faithful, Exact, WellFormedStreams, NEW nl \in 1 .. BufferSize,
           ParseHeader(nl), aligned'
    PROVE  Exact'
<1>1. /\ pc = "headers" /\ aligned
      /\ UNCHANGED <<stream, junk, buf, bytes_read, taken, drawn, body, mixed>>
      /\ IsLine(buf, pos, bytes_read, nl)
      /\ Contents(pos, nl) \cap Colons # {}
  BY DEF ParseHeader, ReadingHeaders
<1>2. Copied /\ Told(pos) /\ body = << >> /\ drawn = 0
  BY <1>1 DEF Faithful, Exact
<1>3. CASE req.headers = MAX_HEADERS_COUNT
  <2>1. pc' = "corrupted"
    BY <1>3 DEF ParseHeader
  <2> QED
    BY <1>1, <1>2, <2>1 DEF Exact
<1>4. CASE req.headers # MAX_HEADERS_COUNT
  <2>1. /\ pc' = "headers" /\ pos' = nl
        /\ req' = [req EXCEPT
              !.headers = @ + 1,
              !.content_length = IF "L" \in Contents(pos, nl) THEN ContentLength ELSE @,
              !.connection_close = IF "C" \in Contents(pos, nl) THEN FALSE ELSE @]
    BY <1>1, <1>4 DEF ParseHeader
  <2>2. req \in [headers : 0 .. MAX_HEADERS_COUNT, content_length : Int,
                 content_length_remaining : Int, connection_close : BOOLEAN,
                 read_ahead : Nat, read_ahead_length : Nat]
    BY DEF Safe, TypeOK
  <2>3. /\ req'.headers = req.headers + 1
        /\ req'.content_length =
              IF "L" \in Contents(pos, nl) THEN ContentLength ELSE req.content_length
        /\ req'.connection_close =
              IF "C" \in Contents(pos, nl) THEN FALSE ELSE req.connection_close
    BY <2>1, <2>2
  <2>4. /\ Cardinality(ColonsTo(nl)) = Cardinality(ColonsTo(pos)) + 1
        /\ HasBy(nl, "C") <=> HasBy(pos, "C") \/ "C" \in Contents(pos, nl)
        /\ HasBy(nl, "L") <=> HasBy(pos, "L") \/ "L" \in Contents(pos, nl)
    BY <1>1, <1>2, HeaderAdds DEF Colons
  <2>5. /\ req'.headers = Cardinality(ColonsTo(nl))
        /\ req'.connection_close <=> ~HasBy(nl, "C")
        /\ req'.content_length = IF HasBy(nl, "L") THEN ContentLength ELSE -1
    <3>1. req'.headers = Cardinality(ColonsTo(nl))
      BY <1>2, <2>3, <2>4 DEF Told
    <3>2. req'.connection_close <=> ~HasBy(nl, "C")
      BY <1>2, <2>3, <2>4 DEF Told
    <3>3. req'.content_length = IF HasBy(nl, "L") THEN ContentLength ELSE -1
      BY <1>2, <2>3, <2>4 DEF Told
    <3> QED
      BY <3>1, <3>2, <3>3
  <2>6. /\ ContentLength' = ContentLength
        /\ ColonsTo(nl)' = ColonsTo(nl)
        /\ HasBy(nl, "C")' <=> HasBy(nl, "C")
        /\ HasBy(nl, "L")' <=> HasBy(nl, "L")
    BY <1>1, SameStream
  <2>7. Cardinality(ColonsTo(nl)') = Cardinality(ColonsTo(nl))
    BY <2>6
  <2>8. Told(nl)'
    BY <2>5, <2>6, <2>7 DEF Told
  <2> QED
    BY <1>1, <1>2, <2>1, <2>8 DEF Exact
<1> QED
  BY <1>3, <1>4

\* The empty line splits what was taken.
LEMMA SeparatorExact ==
    ASSUME Safe, Faithful, Exact, WellFormedStreams, NEW nl \in 1 .. BufferSize,
           ParseSeparator(nl), aligned'
    PROVE  Exact'
<1>1. /\ pc = "headers" /\ aligned /\ pc' = "ready"
      /\ UNCHANGED <<stream, junk, buf, bytes_read, taken, drawn, body, mixed>>
      /\ IsLine(buf, pos, bytes_read, nl)
      /\ Contents(pos, nl) \cap Colons = {}
      /\ nl - pos <= 2
      /\ pos' = IF Contents(pos, nl) \subseteq {"r"} THEN nl ELSE pos
      /\ req' = [req EXCEPT !.content_length_remaining = req.content_length,
                            !.read_ahead = pos',
                            !.read_ahead_length = bytes_read - pos']
  BY DEF ParseSeparator, ReadingHeaders
<1>2. Copied /\ Told(pos) /\ body = << >> /\ drawn = 0
  BY <1>1 DEF Faithful, Exact
<1>3. /\ nl \in 1 .. Len(stream) /\ nl <= bytes_read /\ pos <= nl
      /\ FirstHeadEnd(nl) /\ Contents(pos, nl) \subseteq {"r"}
  BY <1>1, <1>2, SeparatorEnds
<1>4. pos' = nl
  BY <1>1, <1>3
<1>5. req \in [headers : 0 .. MAX_HEADERS_COUNT, content_length : Int,
               content_length_remaining : Int, connection_close : BOOLEAN,
               read_ahead : Nat, read_ahead_length : Nat]
  BY DEF Safe, TypeOK
<1>6. /\ req'.headers = req.headers
      /\ req'.content_length = req.content_length
      /\ req'.connection_close = req.connection_close
      /\ req'.content_length_remaining = req.content_length
      /\ req'.read_ahead = nl
      /\ req'.read_ahead_length = bytes_read - nl
  BY <1>1, <1>4, <1>5
<1>7. Told(Len(stream))
  <2>1. /\ pos \in Nat \ {0} /\ nl \in pos + 1 .. Len(stream)
        /\ stream[nl] = "n"
        /\ \A i \in pos + 1 .. nl - 1 : stream[i] \in Contents(pos, nl)
    BY <1>1, <1>2, CopiedLine
  <2>2. \A i \in pos + 1 .. nl : i \in pos + 1 .. nl - 1 \/ i = nl
    BY <2>1
  <2>3. "n" \notin Colons
    BY DEF Colons
  <2>4. \A i \in pos + 1 .. nl : stream[i] \notin Colons
    BY <1>1, <2>1, <2>2, <2>3
  <2>5. \A i \in 1 .. nl : i \in 1 .. pos \/ i \in pos + 1 .. nl
    BY <2>1
  <2>6. 1 .. pos \subseteq 1 .. nl
    BY <2>1
  <2>7. ColonsTo(nl) = ColonsTo(pos)
    BY <2>4, <2>5, <2>6 DEF ColonsTo
  <2>8. \A kind \in Colons : HasBy(nl, kind) <=> HasBy(pos, kind)
    BY <2>4, <2>5, <2>6 DEF HasBy
  <2>9. /\ ColonsTo(nl) = ColonsTo(Len(stream))
        /\ \A kind \in Colons : HasBy(nl, kind) <=> HasBy(Len(stream), kind)
    BY <1>3, NoneBehind DEF FirstHeadEnd
  <2>10. "C" \in Colons /\ "L" \in Colons
    BY DEF Colons
  <2>11. ColonsTo(Len(stream)) = ColonsTo(pos)
    BY <2>7, <2>9
  <2>12. /\ HasBy(Len(stream), "C") <=> HasBy(pos, "C")
         /\ HasBy(Len(stream), "L") <=> HasBy(pos, "L")
    BY <2>8, <2>9, <2>10
  <2> QED
    BY <1>2, <2>11, <2>12 DEF Told
<1>8. Told(Len(stream))'
  <2>1. /\ ContentLength' = ContentLength
        /\ ColonsTo(Len(stream))' = ColonsTo(Len(stream))
        /\ HasBy(Len(stream), "C")' <=> HasBy(Len(stream), "C")
        /\ HasBy(Len(stream), "L")' <=> HasBy(Len(stream), "L")
    <3>1. ContentLength' = ContentLength
      BY <1>1, SameStream
    <3>2. ColonsTo(Len(stream))' = ColonsTo(Len(stream))
      BY <1>1 DEF ColonsTo
    <3> QED
      BY <1>1, <3>1, <3>2 DEF HasBy
  <2>2. Cardinality(ColonsTo(Len(stream))') = Cardinality(ColonsTo(Len(stream)))
    BY <2>1
  <2> QED
    BY <1>6, <1>7, <2>1, <2>2 DEF Told
<1>9. /\ taken = bytes_read /\ bytes_read <= Len(stream)
      /\ \A i \in 1 .. bytes_read : buf[i] = i
  BY <1>2 DEF Copied
<1>10. /\ bytes_read \in Nat /\ nl \in Nat /\ Len(stream) \in Nat
       /\ req.content_length \in Int
  BY <1>5, CellFacts
<1>11. taken' = nl + drawn' + req'.read_ahead_length
  BY <1>1, <1>2, <1>3, <1>6, <1>9, <1>10
<1>12. ASSUME NEW i \in 1 .. bytes_read - nl
       PROVE  buf'[nl + i] = nl + drawn' + i
  <2>1. nl + i \in 1 .. bytes_read /\ nl + 0 + i = nl + i
    BY <1>3, <1>10
  <2> QED
    BY <1>1, <1>2, <1>9, <2>1
<1>13. drawn' + req'.content_length_remaining >= req'.content_length
  BY <1>1, <1>2, <1>6, <1>10
<1>14. body' = << >> /\ Len(body') = 0
  BY <1>1, <1>2
<1>15. FirstHeadEnd(nl)'
  BY <1>1, <1>3, SameStream
<1>16. \A i \in 1 .. req'.read_ahead_length : buf'[req'.read_ahead + i] = nl + drawn' + i
  BY <1>6, <1>12
<1>17. AfterHead(nl)'
  BY <1>1, <1>2, <1>8, <1>11, <1>13, <1>14, <1>15, <1>16 DEF AfterHead
<1>18. nl \in 1 .. Len(stream')
  BY <1>1, <1>3
<1> QED
  BY <1>1, <1>17, <1>18 DEF Exact

\* What a call gives the servlet goes on where the last one ended, unless it
\* mixed what was read ahead with what it received.
LEMMA DeliveredInOrder ==
    ASSUME Safe, NEW h \in Nat, NEW n \in Requests, NEW got \in Nat,
           req.content_length_remaining > 0,
           got \in 0 .. Wanted(n) - Ahead(n),
           taken = h + drawn + req.read_ahead_length,
           \A i \in 1 .. req.read_ahead_length :
              buf[req.read_ahead + i] = h + drawn + i,
           Ahead(n) \notin 1 .. Wanted(n) - 1
    PROVE  /\ Delivered(Ahead(n), got) \in Seq(Nat)
           /\ Len(Delivered(Ahead(n), got)) = Ahead(n) + got
           /\ \A i \in 1 .. Ahead(n) + got :
                Delivered(Ahead(n), got)[i] = h + drawn + i
<1>0. /\ req.read_ahead_length \in Nat /\ drawn \in Nat /\ taken \in Nat
      /\ Wanted(n) \in Nat /\ Ahead(n) \in 0 .. Wanted(n)
  BY AheadBounds DEF Safe, TypeOK
<1>a. PICK l \in Nat, d \in Nat, t \in Nat :
        l = req.read_ahead_length /\ d = drawn /\ t = taken
  BY <1>0
<1>b. PICK w \in Nat, r \in Nat : w = Wanted(n) /\ r = Ahead(n)
  BY <1>0
<1>1. l = req.read_ahead_length /\ w = Wanted(n) /\ r = Ahead(n) /\ d = drawn /\ t = taken
  BY <1>a, <1>b
<1>2. r \in 0 .. l /\ r <= w /\ r = Least(l, w)
  BY <1>1, AheadBounds DEF Ahead
<1>3. r = 0 \/ r = w
  BY <1>1, <1>2
<1>4. got > 0 => r = 0 /\ l = 0
  BY <1>1, <1>2, <1>3 DEF Least
<1>5. Delivered(r, got) \in Seq(Nat)
  BY <1>1, <1>2, DeliveredType
<1>6. DOMAIN Delivered(r, got) = 1 .. r + got /\ r + got \in Nat
  BY <1>1 DEF Delivered
<1>7. Len(Delivered(r, got)) = r + got
  BY <1>5, <1>6
<1>8. ASSUME NEW i \in 1 .. r + got
      PROVE  Delivered(r, got)[i] = h + drawn + i
  <2>1. Delivered(r, got)[i] = IF i <= got THEN taken + i
                               ELSE IF i <= r THEN buf[req.read_ahead + i] ELSE 0
    BY <1>8 DEF Delivered
  <2>2. CASE i <= got
    <3>1. got > 0
      BY <1>6, <2>2
    <3>2. taken + i = h + drawn + i
      BY <1>1, <1>4, <3>1
    <3> QED
      BY <2>1, <2>2, <3>2
  <2>3. CASE ~(i <= got)
    <3>1. got = 0
      BY <1>1, <1>4, <2>3
    <3>2. i \in 1 .. l /\ i <= r
      BY <1>1, <1>2, <3>1
    <3>3. buf[req.read_ahead + i] = h + drawn + i
      BY <1>1, <3>2
    <3> QED
      BY <2>1, <2>3, <3>2, <3>3
  <2> QED
    BY <2>2, <2>3
<1> QED
  BY <1>1, <1>5, <1>7, <1>8

\* What was drawn and what is owed keep their sum.
LEMMA StillOwed ==
    ASSUME NEW d \in Int, NEW r \in Int, NEW got \in Int, NEW cr \in Int
    PROVE  d + r + got + (cr - (r + got)) = d + cr
OBVIOUS

\* What was taken is still the head, what was drawn and what was read ahead.
LEMMA StillThere ==
    ASSUME NEW t \in Int, NEW h \in Int, NEW d \in Int, NEW l \in Int,
           NEW r \in Int, NEW got \in Int, t = h + d + l
    PROVE  t + got = h + (d + r + got) + (l - r)
OBVIOUS

\* hiw_request_recv, whatever it asks for and gets.
LEMMA BodyExactStep ==
    ASSUME Safe, Exact, NEW n \in Requests, RecvBody(n) \/ RecvBodyFails(n), aligned'
    PROVE  Exact'
<1>1. /\ pc = "ready" /\ aligned /\ pc' \in {"ready", "failed"}
      /\ req.content_length_remaining > 0
      /\ UNCHANGED <<stream, junk, buf, bytes_read, pos>>
  BY DEF RecvBody, RecvBodyFails, ReadingBody
<1>2. PICK h \in 1 .. Len(stream) : AfterHead(h)
  BY <1>1 DEF Exact
<1>3. /\ FirstHeadEnd(h) /\ Told(Len(stream))
      /\ taken = h + drawn + req.read_ahead_length
      /\ \A i \in 1 .. req.read_ahead_length : buf[req.read_ahead + i] = h + drawn + i
      /\ drawn + req.content_length_remaining >= req.content_length
      /\ ~mixed => Len(body) = drawn
      /\ ~mixed => \A i \in 1 .. Len(body) : body[i] = h + i
  BY <1>1, <1>2 DEF AfterHead
<1>0. Wanted(n) \in Nat /\ Ahead(n) \in 0 .. Wanted(n)
  BY <1>1, AheadBounds
<1>p. PICK r \in Nat, w \in Nat : r = Ahead(n) /\ w = Wanted(n)
  BY <1>0
<1>4. /\ w \in Nat /\ r \in Nat /\ r \in 0 .. w /\ r \in 0 .. req.read_ahead_length
      /\ r = Least(req.read_ahead_length, w)
  BY <1>1, <1>p, AheadBounds DEF Ahead
<1>5. /\ Len(stream) \in Nat /\ h \in Nat /\ taken \in Nat /\ drawn \in Nat
      /\ body \in Seq(Nat) /\ Len(body) \in Nat /\ mixed \in BOOLEAN
      /\ req.read_ahead \in Nat /\ req.read_ahead_length \in Nat
      /\ req.content_length \in Int /\ req.content_length_remaining \in Int
  BY CellFacts DEF Safe, TypeOK
<1>n. PICK t \in Nat, d \in Nat, l \in Nat, x \in Nat :
        t = taken /\ d = drawn /\ l = req.read_ahead_length /\ x = req.read_ahead
  BY <1>5
<1>m. PICK cl \in Int, cr \in Int :
        cl = req.content_length /\ cr = req.content_length_remaining
  BY <1>5
<1>s. t = h + d + l /\ d + cr >= cl /\ r \in 0 .. l /\ r \in 0 .. w /\ r = Least(l, w)
  BY <1>3, <1>4, <1>n, <1>m
<1>i. ASSUME NEW i \in 1 .. l - r
      PROVE  /\ r + i \in 1 .. l
             /\ (x + r) + i = x + (r + i)
             /\ h + (d + r) + i = h + d + (r + i)
             /\ h + (d + r + 0) + i = h + d + (r + i)
  <2>1. i \in Nat /\ 1 <= i /\ i <= l - r /\ r \in Nat /\ r <= l
    BY <1>s
  <2>2. r + i \in 1 .. l
    BY <2>1
  <2>3. h \in Nat
    BY <1>5
  <2> QED
    BY <2>1, <2>2, <2>3
<1>6. req \in [headers : 0 .. MAX_HEADERS_COUNT, content_length : Int,
               content_length_remaining : Int, connection_close : BOOLEAN,
               read_ahead : Nat, read_ahead_length : Nat]
  BY DEF Safe, TypeOK
<1> DEFINE c == Consumed(r)
<1>7. /\ c.headers = req.headers /\ c.connection_close = req.connection_close
      /\ c.content_length = req.content_length
      /\ c.content_length_remaining = req.content_length_remaining
      /\ c.read_ahead = req.read_ahead + r
      /\ c.read_ahead_length = req.read_ahead_length - r
  <2>1. c.headers = req.headers /\ c.connection_close = req.connection_close
    BY <1>6 DEF Consumed
  <2> QED
    BY <1>4, <2>1, ConsumedType
<1>8. c \in [headers : 0 .. MAX_HEADERS_COUNT, content_length : Int,
             content_length_remaining : Int, connection_close : BOOLEAN,
             read_ahead : Nat, read_ahead_length : Nat]
  BY <1>4, ConsumedType
<1> HIDE DEF c
<1>9. FirstHeadEnd(h)' /\ h \in 1 .. Len(stream')
  BY <1>1, <1>3, SameStream
<1>10. CASE RecvBodyFails(n)
  <2>1. /\ req' = c /\ drawn' = drawn + r /\ taken' = taken /\ body' = body
        /\ mixed' = (mixed \/ r > 0)
    BY <1>p, <1>10 DEF RecvBodyFails, c
  <2>2. ~mixed' => ~mixed /\ r = 0
    <3>1. r > 0 \/ r = 0
      BY <1>4
    <3> QED
      BY <2>1, <3>1
  <2>3. ~mixed' => \A i \in 1 .. Len(body') : body'[i] = h + i
    BY <1>3, <2>1, <2>2
  <2>4. ~mixed' => Len(body') = drawn'
    BY <1>3, <1>5, <2>1, <2>2
  <2>p. /\ taken' = t /\ drawn' = d + r /\ req'.read_ahead = x + r
        /\ req'.read_ahead_length = l - r /\ req'.content_length = cl
        /\ req'.content_length_remaining = cr
    BY <1>7, <1>n, <1>m, <2>1
  <2>5. taken' = h + drawn' + req'.read_ahead_length
    <3>1. t = h + (d + r) + (l - r)
      BY <1>5, <1>s
    <3> QED
      BY <2>p, <3>1
  <2>6. \A i \in 1 .. req'.read_ahead_length : buf'[req'.read_ahead + i] = h + drawn' + i
    <3> TAKE i \in 1 .. req'.read_ahead_length
    <3>1. i \in 1 .. l - r
      BY <2>p
    <3>2. /\ r + i \in 1 .. l
          /\ (x + r) + i = x + (r + i)
          /\ h + (d + r) + i = h + d + (r + i)
      BY <1>i, <3>1
    <3>3. buf[x + (r + i)] = h + d + (r + i)
      BY <1>3, <1>n, <3>2
    <3> QED
      BY <1>1, <2>p, <3>2, <3>3
  <2>7. drawn' + req'.content_length_remaining >= req'.content_length
    <3>1. d + r + cr >= cl
      BY <1>s
    <3> QED
      BY <2>p, <3>1
  <2>8. Told(Len(stream))'
    <3>1. /\ ContentLength' = ContentLength
          /\ ColonsTo(Len(stream))' = ColonsTo(Len(stream))
          /\ HasBy(Len(stream), "C")' <=> HasBy(Len(stream), "C")
          /\ HasBy(Len(stream), "L")' <=> HasBy(Len(stream), "L")
      BY <1>1, SameStream DEF ColonsTo, HasBy
    <3>2. Cardinality(ColonsTo(Len(stream))') = Cardinality(ColonsTo(Len(stream)))
      BY <3>1
    <3> QED
      BY <1>3, <1>7, <2>1, <3>1, <3>2 DEF Told
  <2>9. AfterHead(h)'
    BY <1>1, <1>9, <2>3, <2>4, <2>5, <2>6, <2>7, <2>8 DEF AfterHead
  <2> QED
    BY <1>1, <1>9, <2>9 DEF Exact
<1>11. CASE RecvBody(n)
  <2>1. PICK got \in 0 .. w - r :
          /\ taken' = taken + got
          /\ drawn' = drawn + r + got
          /\ body' = body \o Delivered(r, got)
          /\ mixed' = (mixed \/ r \in 1 .. w - 1)
          /\ req' = [c EXCEPT !.content_length_remaining = @ - (r + got)]
    BY <1>p, <1>11 DEF RecvBody, c
  <2>2. pc' = "ready" /\ got \in Nat /\ r \in Nat
    BY <1>1, <1>4, <1>11 DEF RecvBody
  <2>3. /\ req'.headers = req.headers /\ req'.connection_close = req.connection_close
        /\ req'.content_length = req.content_length
        /\ req'.content_length_remaining = req.content_length_remaining - (r + got)
        /\ req'.read_ahead = req.read_ahead + r
        /\ req'.read_ahead_length = req.read_ahead_length - r
    BY <1>7, <1>8, <2>1
  <2>4. got > 0 => l = r
    BY <1>s, <2>1, <2>2 DEF Least
  <2>p. /\ taken' = t + got /\ drawn' = d + r + got /\ req'.read_ahead = x + r
        /\ req'.read_ahead_length = l - r /\ req'.content_length = cl
        /\ req'.content_length_remaining = cr - (r + got)
    BY <1>n, <1>m, <2>1, <2>3
  <2>5. taken' = h + drawn' + req'.read_ahead_length
    <3>0. h \in Nat
      BY <1>5
    <3>1. t + got = h + (d + r + got) + (l - r)
      BY <1>s, <2>2, <3>0, StillThere
    <3> QED
      BY <2>p, <3>1
  <2>6. \A i \in 1 .. req'.read_ahead_length : buf'[req'.read_ahead + i] = h + drawn' + i
    <3> TAKE i \in 1 .. req'.read_ahead_length
    <3>1. i \in 1 .. l - r
      BY <2>p
    <3>2. got = 0
      BY <1>s, <2>2, <2>4, <3>1
    <3>3. /\ r + i \in 1 .. l
          /\ (x + r) + i = x + (r + i)
          /\ h + (d + r + 0) + i = h + d + (r + i)
      BY <1>i, <3>1
    <3>4. buf[x + (r + i)] = h + d + (r + i)
      BY <1>3, <1>n, <3>3
    <3> QED
      BY <1>1, <2>p, <3>2, <3>3, <3>4
  <2>7. drawn' + req'.content_length_remaining >= req'.content_length
    <3>1. d + r + got + (cr - (r + got)) = d + cr
      BY <2>2, StillOwed
    <3> QED
      BY <1>s, <2>p, <3>1
  <2>8. Told(Len(stream))'
    <3>1. /\ ContentLength' = ContentLength
          /\ ColonsTo(Len(stream))' = ColonsTo(Len(stream))
          /\ HasBy(Len(stream), "C")' <=> HasBy(Len(stream), "C")
          /\ HasBy(Len(stream), "L")' <=> HasBy(Len(stream), "L")
      BY <1>1, SameStream DEF ColonsTo, HasBy
    <3>2. Cardinality(ColonsTo(Len(stream))') = Cardinality(ColonsTo(Len(stream)))
      BY <3>1
    <3> QED
      BY <1>3, <2>3, <3>1, <3>2 DEF Told
  <2>9. ASSUME ~mixed'
        PROVE  Len(body') = drawn' /\ \A i \in 1 .. Len(body') : body'[i] = h + i
    <3>1. ~mixed /\ r \notin 1 .. w - 1
      BY <2>1, <2>9
    <3> DEFINE p == Delivered(r, got)
    <3>2. p \in Seq(Nat) /\ Len(p) = r + got /\ \A i \in 1 .. r + got : p[i] = h + drawn + i
      <4>1. got \in Nat /\ got \in 0 .. Wanted(n) - Ahead(n) /\ Ahead(n) \notin 1 .. Wanted(n) - 1
        BY <1>p, <2>1, <2>2, <3>1
      <4>2. h \in Nat
        BY <1>5
      <4>3. /\ Delivered(Ahead(n), got) \in Seq(Nat)
            /\ Len(Delivered(Ahead(n), got)) = Ahead(n) + got
            /\ \A i \in 1 .. Ahead(n) + got :
                 Delivered(Ahead(n), got)[i] = h + drawn + i
        BY <1>1, <1>3, <4>1, <4>2, DeliveredInOrder
      <4> QED
        BY <1>p, <4>3
    <3> HIDE DEF p
    <3>3. Len(body) = drawn /\ \A i \in 1 .. Len(body) : body[i] = h + i
      BY <1>3, <3>1
    <3>4. body' = body \o p
      BY <2>1 DEF p
    <3>0. body \in Seq(Nat)
      BY <1>5
    <3>5. /\ Len(body') = d + (r + got)
          /\ \A i \in 1 .. d : body'[i] = body[i]
          /\ \A i \in d + 1 .. d + (r + got) : body'[i] = p[i - d]
      <4>1. Len(body) = d
        BY <1>n, <3>3
      <4>2. /\ Len(body \o p) = Len(body) + Len(p)
            /\ \A i \in 1 .. Len(body) : (body \o p)[i] = body[i]
            /\ \A i \in Len(body) + 1 .. Len(body) + Len(p) :
                 (body \o p)[i] = p[i - Len(body)]
        <5>1. p \in Seq(Nat)
          BY <3>2
        <5> QED
          BY <3>0, <5>1, ConcatProperties
      <4>3. Len(p) = r + got
        BY <3>2
      <4> QED
        BY <3>4, <4>1, <4>2, <4>3
    <3>6. Len(body') = drawn'
      <4>1. d + (r + got) = d + r + got
        BY <2>2
      <4> QED
        BY <2>p, <3>5, <4>1
    <3>7. ASSUME NEW i \in 1 .. Len(body')
          PROVE  body'[i] = h + i
      <4>1. i \in Nat /\ i >= 1 /\ i <= d + (r + got)
        BY <2>2, <3>5
      <4>2. CASE i <= d
        <5>1. i \in 1 .. d
          BY <4>1, <4>2
        <5> QED
          BY <1>n, <3>3, <3>5, <5>1
      <4>3. CASE ~(i <= d)
        <5>1. i \in d + 1 .. d + (r + got) /\ i - d \in 1 .. r + got
          BY <2>2, <4>1, <4>3
        <5>2. h \in Nat
          BY <1>5
        <5>3. h + d + (i - d) = h + i
          BY <4>1, <5>2
        <5>4. p[i - d] = h + d + (i - d)
          BY <1>n, <3>2, <5>1
        <5> QED
          BY <3>5, <5>1, <5>3, <5>4
      <4> QED
        BY <4>2, <4>3
    <3> QED
      BY <3>6, <3>7
  <2>10. AfterHead(h)'
    BY <1>1, <1>9, <2>2, <2>5, <2>6, <2>7, <2>8, <2>9 DEF AfterHead
  <2> QED
    BY <1>1, <1>9, <2>2, <2>10 DEF Exact
<1> QED
  BY <1>10, <1>11

\* A connection that is reused somewhere else is one whose client sent more.
LEMMA OutOfStepExact ==
    ASSUME Safe, Exact, WellFormedStreams, NextOutOfStep, aligned'
    PROVE  Exact'
<1>1. /\ pc = "ready" /\ pc' = "out_of_step" /\ aligned
      /\ ~InStep /\ req.content_length_remaining <= 0
      /\ UNCHANGED <<stream, taken, drawn, body, mixed>>
  BY DEF NextOutOfStep, Reusable, Drained
<1>2. PICK h \in 1 .. Len(stream) : AfterHead(h)
  BY <1>1 DEF Exact
<1>3. /\ FirstHeadEnd(h) /\ Told(Len(stream))
      /\ taken = h + drawn + req.read_ahead_length
      /\ drawn + req.content_length_remaining >= req.content_length
      /\ ~mixed => \A i \in 1 .. Len(body) : body[i] = h + i
  BY <1>1, <1>2 DEF AfterHead
<1>4. PICK b \in Nat : b = ContentLength
  BY ContentLengthType DEF Safe
<1>5. Len(stream) \in Nat /\ DOMAIN stream = 1 .. Len(stream)
  BY CellFacts
<1>6. req.content_length = b \/ b = 0
  <2>1. CASE HasBy(Len(stream), "L")
    BY <1>3, <1>4, <2>1 DEF Told
  <2>2. CASE ~HasBy(Len(stream), "L")
    <3>1. WellFormed(stream)
      BY DEF WellFormedStreams, Safe, TypeOK
    <3>2. ~\E i \in 1 .. Len(stream) : stream[i] = "b"
      BY <2>2, <3>1 DEF WellFormed, HasBy
    <3>3. {i \in DOMAIN stream : stream[i] = "b"} = {}
      BY <1>5, <3>2
    <3>4. Cardinality({i \in DOMAIN stream : stream[i] = "b"}) = 0
      BY <3>3, FS_EmptySet
    <3> QED
      BY <1>4, <3>4 DEF ContentLength
  <2> QED
    BY <2>1, <2>2
<1>7. PICK t \in Nat, d \in Nat, l \in Nat :
        t = taken /\ d = drawn /\ l = req.read_ahead_length
  BY DEF Safe, TypeOK
<1>8. PICK cl \in Int, cr \in Int :
        cl = req.content_length /\ cr = req.content_length_remaining
  BY DEF Safe, TypeOK
<1>9. t = h + d + l /\ d + cr >= cl /\ cr <= 0 /\ (cl = b \/ b = 0)
  BY <1>1, <1>3, <1>6, <1>7, <1>8
<1>10. h \in Nat
  BY <1>5
<1>11. t >= h + b
  BY <1>9, <1>10
<1>12. t # h + b
  <2>1. /\ \A o \in 1 .. Len(stream) :
             FirstHeadEnd(o) => taken # o + ContentLength
    BY <1>1 DEF InStep, FirstHeadEnd
  <2> QED
    BY <1>3, <1>4, <1>7, <2>1
<1>13. taken > h + ContentLength
  BY <1>4, <1>7, <1>10, <1>11, <1>12
<1>14. ContentLength' = ContentLength /\ FirstHeadEnd(h)'
  BY <1>1, <1>3, SameStream
<1>15. AfterHead(h)'
  BY <1>1, <1>3, <1>13, <1>14 DEF AfterHead
<1>16. h \in 1 .. Len(stream')
  BY <1>1
<1> QED
  BY <1>1, <1>15, <1>16 DEF Exact

\* Nothing was told before the first byte.
LEMMA InitExact == Init => Exact
BY DEF Init, Exact

\* Every step keeps what was read exact.
LEMMA NextExact ==
    ASSUME WellFormedStreams PROVE Safe /\ Faithful /\ Exact /\ [Next]_vars => Exact'
<1> SUFFICES ASSUME Safe, Faithful, Exact, [Next]_vars, aligned' PROVE Exact'
  BY DEF Exact
<1>1. ASSUME NEW n \in 1 .. BufferSize, RecvStatusLine(n) \/ RecvNoStatusLine(n)
      PROVE  Exact'
  BY <1>1, StatusExact
<1>2. ASSUME NEW n \in 1 .. BufferSize, RecvMore(n)
      PROVE  Exact'
  <2>1. /\ pc = "headers" /\ aligned
        /\ UNCHANGED <<stream, pc, pos, req, drawn, body>>
    BY <1>2 DEF RecvMore, Take
  <2>2. Told(pos) /\ body = << >> /\ drawn = 0
    BY <2>1 DEF Exact
  <2>3. PICK p : p = pos
    OBVIOUS
  <2>4. Told(p)'
    BY <2>1, <2>2, <2>3, SameTold
  <2>5. Told(pos)'
    BY <2>1, <2>3, <2>4
  <2> QED
    BY <2>1, <2>2, <2>5 DEF Exact
<1>3. ASSUME NEW nl \in 1 .. BufferSize, ParseHeader(nl)
      PROVE  Exact'
  BY <1>3, HeaderExact
<1>4. ASSUME NEW nl \in 1 .. BufferSize, ParseSeparator(nl)
      PROVE  Exact'
  BY <1>4, SeparatorExact
<1>5. ASSUME (\E nl \in 1 .. BufferSize : RefuseHeader(nl)) \/ RefuseFull \/ RecvFails
      PROVE  Exact'
  <2>1. /\ pc \in {"status", "headers"} /\ pc' = "refused" /\ aligned
        /\ UNCHANGED <<body, drawn>>
    BY <1>5 DEF RefuseHeader, RefuseFull, RecvFails, ReadingHeaders
  <2> QED
    BY <2>1 DEF Exact
<1>6. ASSUME NEW n \in Requests, RecvBody(n) \/ RecvBodyFails(n)
      PROVE  Exact'
  BY <1>6, BodyExactStep
<1>7. CASE NextRequest
  BY <1>7 DEF NextRequest, Exact
<1>8. CASE NextOutOfStep
  BY <1>8, OutOfStepExact
<1>9. CASE UNCHANGED vars
  <2>1. UNCHANGED <<stream, junk, pc, buf, bytes_read, pos, req, taken, aligned, garbled,
                    drawn, body, mixed>>
    BY <1>9 DEF vars
  <2>2. CASE pc \in {"ready", "failed", "out_of_step"}
    <3>1. PICK h \in 1 .. Len(stream) : AfterHead(h)
      BY <2>1, <2>2 DEF Exact
    <3>2. FirstHeadEnd(h)' /\ ContentLength' = ContentLength
      BY <2>1, <3>1, SameStream DEF AfterHead
    <3>3. pc = "ready" => Told(Len(stream))'
      <4>1. PICK p : p = Len(stream)
        OBVIOUS
      <4>2. pc = "ready" => Told(p)'
        BY <2>1, <3>1, <4>1, SameTold DEF AfterHead
      <4> QED
        BY <2>1, <4>1, <4>2
    <3>4. AfterHead(h)'
      BY <2>1, <3>1, <3>2, <3>3 DEF AfterHead
    <3> QED
      BY <2>1, <2>2, <3>1, <3>4 DEF Exact
  <2>3. CASE pc \notin {"ready", "failed", "out_of_step"}
    <3>1. pc = "headers" => Told(pos)'
      <4>1. PICK p : p = pos
        OBVIOUS
      <4>2. pc = "headers" => Told(p)'
        BY <2>1, <4>1, SameTold DEF Exact
      <4> QED
        BY <2>1, <4>1, <4>2
    <3> QED
      BY <2>1, <2>3, <3>1 DEF Exact, Reset
  <2> QED
    BY <2>2, <2>3
<1> QED
  BY <1>1, <1>2, <1>3, <1>4, <1>5, <1>6, <1>7, <1>8, <1>9 DEF Next, Recv, Parse

\* What was read of a well-formed head, and where its body is, is exact.
LEMMA ExactHolds ==
    ASSUME WellFormedStreams PROVE Spec => [](Safe /\ Exact)
<1>1. Init => Faithful
  BY DEF Init, Faithful
<1> QED
  BY <1>1, InitExact, NextExact, NextFaithful, SafeHolds, PTL DEF Spec

\* Every header line of the client is counted, and its Content-Length and
\* Connection headers are what the request goes by.
THEOREM HeadersCompleteHolds ==
    ASSUME WellFormedStreams PROVE Spec => []HeadersComplete
<1>1. ASSUME Safe, Exact PROVE HeadersComplete
  <2> SUFFICES ASSUME pc = "ready", aligned
               PROVE  /\ req.headers = Cardinality({i \in DOMAIN stream : stream[i] \in Colons})
                      /\ req.connection_close <=> \A i \in DOMAIN stream : stream[i] # "C"
                      /\ req.content_length >= 0 <=> \E i \in DOMAIN stream : stream[i] = "L"
    BY DEF HeadersComplete
  <2>1. Told(Len(stream))
    BY <1>1 DEF Exact, AfterHead
  <2>2. DOMAIN stream = 1 .. Len(stream)
    BY <1>1, CellFacts
  <2>3. ColonsTo(Len(stream)) = {i \in DOMAIN stream : stream[i] \in Colons}
    BY <2>2 DEF ColonsTo
  <2>4. ContentLength \in Nat
    BY <1>1, ContentLengthType DEF Safe
  <2>5. req.headers = Cardinality({i \in DOMAIN stream : stream[i] \in Colons})
    BY <2>1, <2>3 DEF Told
  <2>6. req.connection_close <=> \A i \in DOMAIN stream : stream[i] # "C"
    BY <2>1, <2>2 DEF Told, HasBy
  <2>7. req.content_length >= 0 <=> \E i \in DOMAIN stream : stream[i] = "L"
    BY <2>1, <2>2, <2>4 DEF Told, HasBy
  <2> QED
    BY <2>5, <2>6, <2>7
<1> QED
  BY <1>1, ExactHolds, PTL

\* What was read ahead and what the socket still holds are together the bytes
\* behind the head that were not drawn, and the servlet is given the body in
\* its order by every call that does not mix the two.
THEOREM BodyExactHolds ==
    ASSUME WellFormedStreams PROVE Spec => []BodyExact
<1>1. ASSUME Safe, Exact PROVE BodyExact
  <2>1. ReadAheadExact
    <3> SUFFICES ASSUME pc = "ready", aligned
                 PROVE  /\ taken - (HeadEnd + drawn) = req.read_ahead_length
                        /\ \A i \in 1 .. req.read_ahead_length :
                              buf[req.read_ahead + i] = HeadEnd + drawn + i
      BY DEF ReadAheadExact
    <3>1. PICK h \in 1 .. Len(stream) : AfterHead(h)
      BY <1>1 DEF Exact
    <3>2. HeadEnd = h
      BY <1>1, <3>1, HeadEndIs DEF AfterHead
    <3>3. /\ taken = h + drawn + req.read_ahead_length
          /\ \A i \in 1 .. req.read_ahead_length :
                buf[req.read_ahead + i] = h + drawn + i
      BY <3>1 DEF AfterHead
    <3>4. PICK t \in Nat, d \in Nat, l \in Nat :
            t = taken /\ d = drawn /\ l = req.read_ahead_length
      BY <1>1 DEF Safe, TypeOK
    <3>5. h \in Nat
      BY <1>1, CellFacts
    <3>6. t = h + d + l => t - (h + d) = l
      BY <3>5
    <3> QED
      BY <3>2, <3>3, <3>4, <3>6
  <2>2. BodyInOrder
    <3> SUFFICES ASSUME aligned, ~mixed, NEW i \in 1 .. Len(body)
                 PROVE  body[i] = HeadEnd + i
      BY DEF BodyInOrder
    <3>1. CASE pc \in {"ready", "failed", "out_of_step"}
      <4>1. PICK h \in 1 .. Len(stream) : AfterHead(h)
        BY <1>1, <3>1 DEF Exact
      <4>2. HeadEnd = h
        BY <1>1, <4>1, HeadEndIs DEF AfterHead
      <4> QED
        BY <4>1, <4>2 DEF AfterHead
    <3>2. CASE pc \notin {"ready", "failed", "out_of_step"}
      <4>1. body = << >>
        BY <1>1, <3>2 DEF Exact
      <4>2. Len(body) = 0
        BY <4>1, EmptySeq
      <4> QED
        BY <4>2
    <3> QED
      BY <3>1, <3>2
  <2> QED
    BY <2>1, <2>2 DEF BodyExact
<1> QED
  BY <1>1, ExactHolds, PTL

\* A connection is not reused before the end of the request it served.
THEOREM ReuseInStepHolds ==
    ASSUME WellFormedStreams PROVE Spec => []ReuseInStep
<1>1. ASSUME Safe, Exact PROVE ReuseInStep
  <2> SUFFICES ASSUME pc = "out_of_step", aligned PROVE taken > HeadEnd + ContentLength
    BY DEF ReuseInStep
  <2>1. PICK h \in 1 .. Len(stream) : AfterHead(h)
    BY <1>1 DEF Exact
  <2>2. HeadEnd = h
    BY <1>1, <2>1, HeadEndIs DEF AfterHead
  <2> QED
    BY <2>1, <2>2 DEF AfterHead
<1> QED
  BY <1>1, ExactHolds, PTL
===============================================================================
