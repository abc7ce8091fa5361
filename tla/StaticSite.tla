------------------------------- MODULE StaticSite -------------------------------
(***************************************************************************)
(* examples/static: static_cache_init walks the data directory and copies  *)
(* every file, with its name, into one hiw_memory; on_request answers from *)
(* there with hiw_client_sendall. Nothing is written once requests are     *)
(* served, so one request at a time stands for any number.                 *)
(*                                                                         *)
(* An address is an offset into the memory. A file is its number of bytes. *)
(***************************************************************************)
EXTENDS FileTraverse, FiniteSets, SequencesExt

CONSTANTS
    SizeOf,     \* what ftell says of each file; -1 of a link to a directory
    Capacity,   \* 64 * 1024
    IntMax,     \* INT_MAX
    Batch,      \* cache_content_capacity
    KnownSuffixes  \* the suffixes hiw_mimetype_from_suffix knows

ASSUME SiteAssumption ==
    /\ Capacity \in Nat \ {0}
    /\ IntMax \in Nat
    /\ Batch \in Nat \ {0}
    /\ \A f \in DOMAIN SizeOf : SizeOf[f] \in Nat \cup {-1}
    /\ \A t \in Trees : \A d \in DOMAIN t : \A e \in t[d] :
        ~e.dir => e.to \in DOMAIN SizeOf

VARIABLES
    phase,    \* "starting", "scanning", "serving", "refused": init failed,
              \* "released"; "behind": bytes were written behind the memory;
              \* "astray": a negative size was taken from the memory
    memory,   \* hiw_memory
    content,  \* static_cache.content, as far as it is used
    slots,    \* the elements that are allocated for it
    files,    \* the files open
    send      \* on_request: the entry, src, bytes_left and what was sent

siteVars == <<phase, memory, content, slots, files, send>>
vars == <<traverseVars, siteVars>>

NoSend == [at |-> "idle", entry |-> 0, left |-> 0, sends |-> 0, got |-> << >>]

FileNodes == DOMAIN SizeOf

TypeOK ==
    /\ phase \in {"starting", "scanning", "serving", "refused", "released",
                 "behind", "astray"}
    /\ err \in {"SUCCESS", "NOT_FOUND", "PATH_LEN"}
    /\ Range(visited) \subseteq FileNodes
    /\ dirs \in Nat
    /\ memory \in [pos : 0..Capacity, end : {Capacity}, resize_bytes : Int]
    /\ \A i \in 1..Len(content) :
        /\ content[i].file \in FileNodes
        /\ content[i].uri # << >>
        /\ content[i].length \in Nat \ {0}
    /\ slots \in Nat
    /\ files \in Nat
    /\ send.at \in {"idle", "sending", "sent", "failed", "not_found"}
    /\ send.left \in Nat

Init ==
    /\ TraverseInit
    /\ phase = "starting"
    /\ memory = [pos |-> 0, end |-> Capacity, resize_bytes |-> Capacity]
    /\ content = << >>
    /\ slots = Batch
    /\ files = 0
    /\ send = NoSend

-------------------------------------------------------------------------------
(* hiw_memory *)

ResizeEnabled(m) == m.resize_bytes <= 0

Fits(m, n) == m.pos + n <= m.end

\* Mutant: the position is one short.
GotShort(m, n) == [m EXCEPT !.pos = @ + n - 1]

Got(m, n) == [m EXCEPT !.pos = @ + n]

\* hiw_memory_get hands out memory behind the end: hiw_memory_resize refuses,
\* and that is what lets hiw_memory_get go on.
Behind(m, n) == ~Fits(m, n) /\ ~ResizeEnabled(m)

-------------------------------------------------------------------------------
(* hiw_string_suffix and the mime type *)

Suffix(s) ==
    LET dots == {i \in 1..Len(s) : s[i] = "."} IN
    IF Len(s) <= 1 THEN << >>
    ELSE IF dots = {} THEN s
    ELSE SubSeq(s, Max(dots), Len(s))

MimeType(name) ==
    IF Suffix(name) \in KnownSuffixes THEN Suffix(name) ELSE "application/octet-stream"

-------------------------------------------------------------------------------
(* static_cache_add *)

Uri(e) == SubSeq(PathOf(e), Len(BaseDir) + 1, Len(PathOf(e)))

WithName(e) == Got(memory, Len(Uri(e)))

\* A long made an int: the low bits of one that does not fit.
ToInt(x) ==
    LET low == x % (2 * (IntMax + 1)) IN
    IF x \in -IntMax - 1 .. IntMax THEN x
    ELSE IF low <= IntMax THEN low ELSE low - 2 * (IntMax + 1)

\* size, of the file that was opened
Size(f) == ToInt(SizeOf[f])

\* The files fopen may open. A path that fills its buffer has no zero at its
\* end; it goes on with what is behind the buffer, and may name any file.
Openable(e) == IF Terminated(PathOf(e)) THEN {e.to} ELSE FileNodes

Scanning(e) ==
    /\ phase = "scanning"
    /\ Visit(e)
    /\ UNCHANGED send

\* The name, or the bytes of the file, do not fit.
AddBehind(e) ==
    /\ Scanning(e)
    /\ \/ Behind(memory, Len(Uri(e)))
       \/ \E f \in Openable(e) : Behind(WithName(e), Size(f))
    /\ phase' = "behind"
    /\ UNCHANGED <<memory, content, slots, files>>

\* From 2 GiB on the size may be negative: hiw_memory_get goes back over what
\* it has handed out, and fread is asked for more than there is memory.
AddAstray(e) ==
    /\ Scanning(e)
    /\ Fits(memory, Len(Uri(e)))
    /\ \E f \in Openable(e) : SizeOf[f] > 0 /\ Size(f) < 0
    /\ phase' = "astray"
    /\ UNCHANGED <<memory, content, slots, files>>

\* fopen fails.
AddNotOpened(e) ==
    /\ Scanning(e)
    /\ Fits(memory, Len(Uri(e)))
    /\ memory' = WithName(e)
    /\ UNCHANGED <<phase, content, slots, files>>

\* The size -1 of a link to a directory gives back the last character of the
\* name of the file itself.
Opened(e, f) ==
    /\ Scanning(e)
    /\ f \in Openable(e)
    /\ Fits(memory, Len(Uri(e)))
    /\ Fits(WithName(e), Size(f))
    /\ Size(f) < 0 => SizeOf[f] < 0
    /\ memory' = Got(WithName(e), Size(f))

\* fread gives no whole element: the file is empty, a directory, or was cut
\* since. It stays open.
AddNotRead(e, f) ==
    /\ Opened(e, f)
    /\ files' = files + 1
    /\ UNCHANGED <<phase, content, slots>>

\* The table is full and cannot grow.
AddNoTable(e, f) ==
    /\ Opened(e, f)
    /\ Size(f) > 0
    /\ Len(content) % Batch = 0
    /\ UNCHANGED <<phase, content, slots, files>>

Grown == IF Len(content) % Batch = 0 THEN Len(content) + Batch ELSE slots

Add(e, f) ==
    /\ Opened(e, f)
    /\ Size(f) > 0
    /\ slots' = Grown
    /\ content' = Append(content,
            [uri |-> Uri(e), name |-> memory.pos, mime_type |-> MimeType(Uri(e)),
             memory |-> WithName(e).pos, length |-> Size(f), file |-> f])
    /\ UNCHANGED <<phase, files>>

\* file_found ignores what static_cache_add returns.
FileFound(e) ==
    \/ AddBehind(e)
    \/ AddAstray(e)
    \/ AddNotOpened(e)
    \/ \E f \in FileNodes : AddNotRead(e, f) \/ AddNoTable(e, f) \/ Add(e, f)

-------------------------------------------------------------------------------
(* static_cache_init and static_cache_release *)

Start ==
    /\ phase = "starting"
    /\ phase' = "scanning"
    /\ OpenRoot \/ OpenRootFails
    /\ UNCHANGED <<memory, content, slots, files, send>>

Scan ==
    /\ phase = "scanning"
    /\ Walk
    /\ UNCHANGED siteVars

EndScan ==
    /\ phase = "scanning"
    /\ stack = << >>
    /\ phase' = IF err = "SUCCESS" THEN "serving" ELSE "refused"
    /\ UNCHANGED <<traverseVars, memory, content, slots, files, send>>

Release ==
    /\ phase = "serving"
    /\ send.at = "idle"
    /\ phase' = "released"
    /\ content' = << >>
    /\ slots' = 0
    /\ UNCHANGED <<traverseVars, memory, files, send>>

-------------------------------------------------------------------------------
(* on_request and hiw_client_sendall *)

Served == phase = "serving" /\ UNCHANGED <<traverseVars, phase, memory, content, slots, files>>

Matches(uri) == {i \in 1..Len(content) : content[i].uri = uri}

Request(uri) ==
    /\ Served
    /\ send.at = "idle"
    /\ send' =
        IF Matches(uri) = {} THEN [NoSend EXCEPT !.at = "not_found"]
        ELSE [NoSend EXCEPT !.at = "sending", !.entry = Min(Matches(uri)),
                            !.left = content[Min(Matches(uri))].length]

Entry == content[send.entry]

\* Mutant: src is moved by what is left, and not by what was sent.
SourceByLeft == Entry.memory + send.left

\* src, which is not moved after a send.
Source == Entry.memory

\* The socket takes n of the bytes.
SendPart(n) ==
    /\ Served
    /\ send.at = "sending"
    /\ n \in 1..send.left
    /\ send' = [send EXCEPT !.left = @ - n, !.sends = @ + 1,
                            !.got = @ \o [i \in 1..n |-> Source + i - 1],
                            !.at = IF send.left = n THEN "sent" ELSE "sending"]

SendFails ==
    /\ Served
    /\ send.at = "sending"
    /\ send' = [send EXCEPT !.at = "failed"]

Answered ==
    /\ Served
    /\ send.at \in {"sent", "failed", "not_found"}
    /\ send' = NoSend

-------------------------------------------------------------------------------
Uris == {content[i].uri : i \in 1..Len(content)} \cup {<<"/">>}

Next ==
    \/ Start
    \/ Scan
    \/ \E e \in Entries : FileFound(e)
    \/ EndScan
    \/ \E uri \in Uris : Request(uri)
    \/ \E n \in 1..send.left : SendPart(n)
    \/ SendFails
    \/ Answered
    \/ Release

Spec == Init /\ [][Next]_vars

-------------------------------------------------------------------------------
(* Properties *)

Block(i) == content[i].memory .. content[i].memory + content[i].length - 1
NameBlock(i) == content[i].name .. content[i].name + Len(content[i].uri) - 1

\* Whatever files failed in between, no byte of a cached name or file is that
\* of another one, and all are inside the memory, as long as no file was behind
\* its end or gave a negative size that went astray.
BlocksApart ==
    \A i, j \in 1..Len(content) :
        /\ Block(i) \cup NameBlock(i) \subseteq 0..Capacity - 1
        /\ Block(i) \cap NameBlock(j) = {}
        /\ i # j => Block(i) \cap Block(j) = {} /\ NameBlock(i) \cap NameBlock(j) = {}

\* static_cache_add writes into a table that is large enough.
SlotsSuffice == Len(content) <= slots

\* Every variable keeps its type, and the cache writes into memory of its own.
CacheSafe == TypeOK /\ BlocksApart /\ SlotsSuffice

\* The files below each directory of a tree, with the uri each has from there.
Named(t) ==
    LET named[d \in DOMAIN t] ==
            UNION {IF ~e.dir THEN {<<<<"/">> \o e.name, e.to>>}
                   ELSE IF Ignored(e.name) THEN {}
                   ELSE {<<<<"/">> \o e.name \o p[1], p[2]>> : p \in named[e.to]} :
                     e \in t[d]}
    IN  named

Site == Named(tree)[Root]

\* The walk gives no file to the callback twice, and a walk that succeeds gave
\* it every file below the data directory.
VisitedOnce ==
    /\ \A i, j \in 1..Len(visited) : visited[i] = visited[j] => i = j
    /\ phase = "serving" => Range(visited) = {p[2] : p \in Site}

\* However a walk ends, every directory it opened is closed again.
DirsClosed == phase \notin {"scanning", "behind", "astray"} => dirs = 0

\* The walk gives every file once and every directory back.
WalkIsWhole == VisitedOnce /\ DirsClosed

\* A file whose path leaves room for its zero is found under its path below
\* the data directory, and under no other such path; its length is its own when
\* that is an int, and less when it is 4 GiB or more. The extension of its name
\* decides its mime type. (What a path that fills the buffer opens, and whose
\* bytes are found under the clipped uri, nothing says.)
FoundIsOwn ==
    \A i \in 1..Len(content) :
        /\ Terminated(BaseDir \o content[i].uri) =>
            /\ <<content[i].uri, content[i].file>> \in Site
            /\ Matches(content[i].uri) = {i}
        /\ IF SizeOf[content[i].file] <= IntMax
             THEN content[i].length = SizeOf[content[i].file]
             ELSE content[i].length < SizeOf[content[i].file]
        /\ content[i].mime_type # "application/octet-stream" =>
                \E k \in KnownSuffixes : IsSuffix(k, content[i].uri)

\* Every file has one name: there are no hard links.
OneNameEach == \A t \in Trees : \A p, q \in Named(t)[Root] : p[2] = q[2] => p = q

\* What the client is sent are bytes cached for the uri it asked for and nothing
\* else; an answer that succeeds has the announced length, and when no send
\* was partial it is all of them in their order.
AnswerIsOwn ==
    send.at \in {"sending", "sent"} =>
        /\ Range(send.got) \subseteq Block(send.entry)
        /\ Len(send.got) = Entry.length - send.left
        /\ send.sends = 1 /\ send.left = 0 =>
                send.got = [k \in 1..Entry.length |-> Entry.memory + k - 1]

\* What hiw_std.h says of dynamic memory: it resizes itself when needed.
GrowsWhenNeeded == phase # "behind"
===============================================================================
