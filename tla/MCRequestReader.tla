---------------------------- MODULE MCRequestReader ----------------------------
(***************************************************************************)
(* Small instances of RequestReader: the buffer has 12 cells, two headers  *)
(* fit. Before it is written, a cell may look like a line feed, a colon or *)
(* a letter.                                                               *)
(***************************************************************************)
EXTENDS RequestReader

\* A keep-alive request with a body and the start of the next one.
WithBody ==
    <<"s", "n", "h", "L", "n", "r", "n", "b", "b", "b", "t", "t">>
TwoHeaders ==
    <<"s", "n", "h", "C", "n", "h", "L", "n", "n", "b", "b", "t", "t">>
\* Requests without a body; the third is longer than the buffer.
Plain == <<"s", "n", "h", ":", "n", "h", "h", ":", "n", "r", "n">>
Long == <<"s", "s", "n", "h", ":", "h", "n", "h", "h", "h", "h", "h", ":", "n", "n">>
\* Keep-alive requests; the second client sends the next one early.
Waits == <<"s", "n", "h", "L", "n", "C", "n", "r", "n", "b", "b", "b", "b", "b">>
Early == <<"s", "s", "n", "C", "h", "n", "n", "t", "t", "t">>
\* Requests the reader has to refuse.
Faulty == <<"s", "n", "h", "h", "n", "n">>
NoStatus == <<"h", ":", "n", "n">>
Endless == [i \in 1 .. 13 |-> "s"]
\* The client leaves before the empty line.
Broken == <<"s", "n", "h", ":", "n", "h", "h", "h">>
\* One header more than fits.
ThreeHeaders == <<"s", "n", "h", ":", "n", ":", "n", ":", "n", "n">>

MCStreams ==
    {WithBody, TwoHeaders, Plain, Long, Faulty, NoStatus, Endless, Broken,
     ThreeHeaders, Waits, Early}
MCJunk == {"n", ":", "h"}
MCRequests == {1, 2, 4}

\* The clients of this instance send what HeadersComplete, BodyExact and
\* ReuseInStep suppose.
ASSUME MCStreamsAssumption == WellFormedStreams
===============================================================================
