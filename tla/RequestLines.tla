------------------------------ MODULE RequestLines ------------------------------
(***************************************************************************)
(* What hiw_internal_request_read_headers makes of the characters of one   *)
(* line: the status line and the header lines it splits, trims and         *)
(* converts with hiw_string_*, and the number that                         *)
(* hiw_response_set_content_length writes.                                 *)
(*                                                                         *)
(* A character is a string; the name Content-Length is the one character   *)
(* "L" and the version HTTP/1.1 is "V". A hiw_string is a slice of mem,    *)
(* which goes on behind its end.                                           *)
(***************************************************************************)
EXTENDS Integers, Sequences, FiniteSets

CONSTANTS
    HeaderLines, StatusLines,   \* the lines clients send, without line feed
    Lengths,                    \* the arguments of set_content_length
    IntMax,                     \* INT_MAX
    None

IntRange == -(IntMax + 1) .. IntMax

Blanks == {"\r", "\n", " ", "\t"}
Digits == <<"0", "1", "2", "3", "4", "5", "6", "7", "8", "9">>
IsDigit(c) == \E d \in 0 .. 9 : Digits[d + 1] = c
DigitOf(c) == CHOOSE d \in 0 .. 9 : Digits[d + 1] = c

\* n without its last k decimal digits: divided by ten as often.
Rest(n, k) ==
    LET Left[i \in 0 .. k] == IF i = 0 THEN n ELSE Left[i - 1] \div 10
    IN  Left[k]

\* The k-th decimal digit of n, counted from 0 at its end.
DigitAt(n, k) == Digits[(Rest(n, k) % 10) + 1]

ASSUME LinesAssumption ==
    /\ \A l \in HeaderLines \cup StatusLines :
          l \in Seq(STRING) /\ \A i \in DOMAIN l : l[i] # "\n"
    /\ Lengths \subseteq IntRange
    /\ None \notin IntRange

\* An int has at most 32 bits.
ASSUME IntAssumption == IntMax \in Nat \ {0} /\ IntMax <= 2147483647

VARIABLES
    mem,            \* the line with its line feed
    phase,          \* "header", "status", "respond": to do; "accepted",
                    \* "invalid": a status line; "parsed", "separator",
                    \* "faulty": a header line
    strings,        \* name and value, or method and uri
    content_length, \* hiw_request.content_length
    sent            \* the length a response was given, else None

vars == <<mem, phase, strings, content_length, sent>>

Slices == [begin : 0 .. Len(mem), length : 0 .. Len(mem)]

TypeOK ==
    /\ IF phase = "respond" THEN mem = << >> ELSE mem[Len(mem)] = "\n"
    /\ phase \in {"header", "status", "respond", "accepted", "invalid",
                 "parsed", "separator", "faulty"}
    /\ strings = << >> \/ strings \in [1 .. 2 -> Slices]
    /\ content_length \in IntRange
    /\ sent \in Lengths \cup {None}

Init ==
    /\ \/ phase = "header" /\ mem \in {Append(l, "\n") : l \in HeaderLines}
       \/ phase = "status" /\ mem \in {Append(l, "\n") : l \in StatusLines}
       \/ phase = "respond" /\ mem = << >>
    /\ strings = << >>
    /\ content_length = -1
    /\ sent = None

-------------------------------------------------------------------------------
(* hiw_string and its functions *)

Empty == [begin |-> 0, length |-> 0]
End(s) == s.begin + s.length
Text(s) == SubSeq(mem, s.begin, End(s) - 1)

\* hiw_string_readline found the line feed at the end of mem.
Line == [begin |-> 1, length |-> Len(mem) - 1]

\* Where a loop forward from `from` over positions not in `stops` ends, at
\* `end` at the latest.
Forward(from, end, stops) ==
    CHOOSE i \in from .. end :
        /\ i = end \/ i \in stops
        /\ \A j \in from .. i - 1 : j \notin stops

\* Where a loop backward from before `end` ends, at `start` at the latest.
Backward(start, end, stops) ==
    IF start = end THEN end ELSE
    CHOOSE i \in start .. end - 1 :
        /\ i = start \/ i \in stops
        /\ \A j \in i + 1 .. end - 1 : j \notin stops

At(c) == {i \in DOMAIN mem : mem[i] = c}
Ink == {i \in DOMAIN mem : mem[i] \notin Blanks}

\* Mutant: what was found is not looked at.
InkedUnchecked(start, last) == [begin |-> start, length |-> last - start + 1]

\* From `start` to the character at `last`; that one tells of a blank string.
Inked(start, last) ==
    IF last \notin Ink THEN Empty
    ELSE [begin |-> start, length |-> last - start + 1]

RTrim(s) ==
    IF s.length = 0 THEN Empty
    ELSE Inked(s.begin, Backward(s.begin, End(s), Ink))

\* Of a blank string nothing is left of which to look at a last character: it
\* is the character behind the string that is looked at.
Trim(s) ==
    IF s.length = 0 THEN Empty
    ELSE LET start == Forward(s.begin, End(s), Ink)
         IN  Inked(start, Backward(start, End(s), Ink))

\* Where the k-th piece of s starts, 0 if there are fewer.
Starts(s, delim, n) ==
    LET Start[k \in 1 .. n] ==
            IF k = 1 THEN s.begin
            ELSE IF Start[k - 1] = 0 THEN 0
            ELSE LET e == Forward(Start[k - 1], End(s), At(delim))
                 IN  IF e = End(s) THEN 0 ELSE e + 1
    IN  Start

\* Mutant: the last piece, too, ends at the delimiter.
SplitAll(s, delim, n) ==
    LET start == Starts(s, delim, n)
        pieces == {k \in 1 .. n : start[k] # 0}
    IN  IF s.length = 0 THEN << >> ELSE
        [k \in 1 .. Cardinality(pieces) |->
            [begin |-> start[k],
             length |-> Forward(start[k], End(s), At(delim)) - start[k]]]

\* At most n pieces, the last of them with all the rest.
Split(s, delim, n) ==
    LET start == Starts(s, delim, n)
        pieces == {k \in 1 .. n : start[k] # 0}
        end(k) == IF k + 1 \in pieces THEN start[k + 1] - 1 ELSE End(s)
    IN  IF s.length = 0 THEN << >> ELSE
        [k \in 1 .. Cardinality(pieces) |->
            [begin |-> start[k], length |-> end(k) - start[k]]]

-------------------------------------------------------------------------------
(* Numbers *)

Signed(s) == s.length > 0 /\ mem[s.begin] = "-"

\* num = (num * 10) + digit, over the characters from `from` on.
Horner(from, end) ==
    LET Num[i \in from .. end] ==
            IF i = from THEN 0 ELSE Num[i - 1] * 10 + DigitOf(mem[i - 1])
    IN  Num[end]

\* Mutant: the digits before the first other character are stored.
StoredPartly(s, old) ==
    LET from == IF Signed(s) THEN s.begin + 1 ELSE s.begin
        num == Horner(from, Forward(from, End(s), {i \in DOMAIN mem : ~IsDigit(mem[i])}))
    IN  IF num > IntMax THEN IntRange ELSE {IF Signed(s) THEN -num ELSE num}

\* What hiw_string_toi leaves in *i, which was `old`: nothing is stored if a
\* character is no digit, and anything if the int overflows, which it also
\* does for INT_MIN.
Stored(s, old) ==
    LET from == IF Signed(s) THEN s.begin + 1 ELSE s.begin
    IN  IF \E i \in from .. End(s) - 1 : ~IsDigit(mem[i]) THEN {old}
        ELSE IF Horner(from, End(s)) > IntMax THEN IntRange
        ELSE {IF Signed(s) THEN -Horner(from, End(s)) ELSE Horner(from, End(s))}

\* The number of decimal digits of n; 10 of the digits of an int is enough.
Width(n) == CHOOSE w \in 1 .. 10 : Rest(n, w) = 0 /\ (w = 1 \/ Rest(n, w - 1) # 0)

\* The buffer of hiw_response_set_content_length, as long as "2147483647".
TempSize == Width(IntMax)

\* hiw_std_uitoc writes the low digits first, as many as fit, then mirrors.
UiToC(n, val) ==
    LET written == IF Width(val) > n THEN n ELSE Width(val)
    IN  [i \in 1 .. written |-> DigitAt(val, written - i)]

-------------------------------------------------------------------------------
(* The lines *)

Pending(p) == phase = p /\ UNCHANGED <<mem, sent>>

\* hiw_internal_request_parse_status_line
ParseStatusLine ==
    LET parts == Split(Line, " ", 3) IN
    /\ Pending("status")
    /\ IF Len(parts) = 3 /\ Text(RTrim(parts[3])) = <<"V">>
       THEN /\ phase' = "accepted"
            /\ strings' = <<RTrim(parts[1]), RTrim(parts[2])>>
       ELSE phase' = "invalid" /\ UNCHANGED strings
    /\ UNCHANGED content_length

\* A line of hiw_internal_request_read_headers.
ParseHeaderLine ==
    LET parts == Split(Line, ":", 2) IN
    /\ Pending("header")
    /\ Len(parts) = 2
    /\ phase' = "parsed"
    /\ strings' = <<Trim(parts[1]), Trim(parts[2])>>
    /\ content_length' \in
          IF Text(strings'[1]) = <<"L">> THEN Stored(strings'[2], content_length)
                                         ELSE {content_length}

\* A line without a colon ends the head, or refuses it.
ParseNoHeader ==
    /\ Pending("header")
    /\ Len(Split(Line, ":", 2)) # 2
    /\ phase' = IF Line.length <= 1 THEN "separator" ELSE "faulty"
    /\ UNCHANGED <<strings, content_length>>

\* hiw_response_set_content_length(len) converts len to an unsigned and writes
\* the header line; here a peer of the same kind reads it.
SetContentLength(len) ==
    /\ phase = "respond"
    /\ mem' = <<"L", ":", " ">> \o UiToC(TempSize, len % (2 * (IntMax + 1)))
                                \o <<"\r", "\n">>
    /\ sent' = len
    /\ phase' = "header"
    /\ UNCHANGED <<strings, content_length>>

Next ==
    \/ ParseStatusLine
    \/ ParseHeaderLine
    \/ ParseNoHeader
    \/ \E len \in Lengths : SetContentLength(len)

Spec == Init /\ [][Next]_vars

-------------------------------------------------------------------------------
(* Properties *)

\* Every variable keeps its type - a length is an int - and no string that is
\* kept of a request reaches outside of its line, although
\* hiw_string_trim looks at the character behind a blank string: behind a name
\* that is the colon, and behind a value the line feed.
InsideLine ==
    TypeOK /\ \A i \in DOMAIN strings :
        strings[i].length > 0 =>
            strings[i].begin >= 1 /\ End(strings[i]) <= Len(mem)

\* The part of mem from `from` to `to` without blanks at its ends.
Stripped(from, to) ==
    LET ink == Ink \cap (from .. to)
    IN  IF ink = {} THEN << >>
        ELSE SubSeq(mem, CHOOSE i \in ink : \A j \in ink : i <= j,
                         CHOOSE i \in ink : \A j \in ink : j <= i)

\* A header is taken apart at its first colon and only there, whatever colons
\* its value holds, and both parts lose all blanks at their ends, the carriage
\* return included. (Of a name of blanks only, the colon is taken for the name.)
\* A line counts as no header only if it has no colon.
HeaderExact ==
    /\ phase = "parsed" =>
          \E colon \in At(":") :
             /\ \A i \in At(":") : colon <= i
             /\ Text(strings[1]) = Stripped(1, colon - 1)
                \/ Stripped(1, colon - 1) = << >>
             /\ Text(strings[2]) = Stripped(colon + 1, Len(mem))
    /\ phase \in {"separator", "faulty"} => At(":") = {}

\* The line is a method, a uri without a space and the one version there is,
\* behind the spaces at i and j; any blanks may follow it.
IsStatusLine(i, j) ==
    /\ At(" ") \cap 1 .. j = {i, j} /\ i < j
    /\ mem[j + 1] = "V" /\ Stripped(j + 1, Len(mem)) = <<"V">>

\* Exactly these lines are accepted, and method and uri are what they hold.
StatusExact ==
    /\ phase = "accepted" =>
          \E i, j \in DOMAIN mem :
             /\ IsStatusLine(i, j)
             /\ i > 1 /\ i - 1 \in Ink => Text(strings[1]) = SubSeq(mem, 1, i - 1)
             /\ i + 1 < j /\ j - 1 \in Ink =>
                    Text(strings[2]) = SubSeq(mem, i + 1, j - 1)
    /\ phase = "invalid" => ~\E i, j \in DOMAIN mem : IsStatusLine(i, j)

\* Header lines and status lines are taken apart for what they are.
LineExact == HeaderExact /\ StatusExact

\* The digits of mem from `from` to `to` are those of n.
Denotes(n, from, to) ==
    \A i \in from .. to : DigitAt(n, to - i) = mem[i]

\* A Content-Length is what its digits say, or, unless they say more than an
\* int holds, is none at all: a number is never made of a part of a value.
LengthIsRead ==
    phase = "parsed" /\ content_length # -1 =>
        LET v == strings[2]
            from == IF Signed(v) THEN v.begin + 1 ELSE v.begin
            abs == IF Signed(v) THEN -content_length ELSE content_length
        IN  /\ \A i \in from .. End(v) - 1 : IsDigit(mem[i])
            /\ \/ Denotes(abs, from, End(v) - 1) /\ Rest(abs, End(v) - from) = 0
               \/ Horner(from, End(v)) > IntMax

\* Every length a response can announce is read as that length by a reader of
\* the same kind: the ten characters are enough, and no digit changes place.
LengthComesBack ==
    phase = "parsed" /\ sent # None /\ sent >= 0 => content_length = sent

\* A Content-Length means the same number to writer and reader.
LengthExact == LengthIsRead /\ LengthComesBack
===============================================================================
