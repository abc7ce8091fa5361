------------------------------- MODULE JsonCache -------------------------------
(***************************************************************************)
(* examples/jc/main.cpp: a store of JSON documents, one file each, behind  *)
(* a cache in memory. on_request runs on the threads of the server at the  *)
(* same time; the three operations of json_storage hold mMutex.            *)
(*                                                                         *)
(* A uri is the sequence of its characters. A document is a value; whether *)
(* it is kept inside the std::string (Short) or is larger than GET reads   *)
(* (Big) is all that is known of its size. GET and DELETE are one step     *)
(* under the lock; PUT is not, for the process may stop while it writes.   *)
(* The renamed file of a DELETE is left out: nothing reads it.             *)
(***************************************************************************)
EXTENDS Integers, Sequences, FiniteSets

CONSTANTS
    Workers,    \* the threads that run on_request
    Uris,       \* the uris the clients ask for
    Plain,      \* the characters normalize_path keeps
    Documents,  \* what a PUT received; zeros after a short body included
    Short,      \* the documents a std::string keeps in itself
    Big,        \* the documents larger than 4096 * 1024 bytes
    Absent,     \* no cache entry, no file
    Empty,      \* the string of length 0
    Torn,       \* a part of a document
    MaxOpen     \* the file descriptors the process may have

ASSUME CacheAssumption ==
    /\ Uris \subseteq Seq(Plain \cup {"/", ".", "-"})
    /\ Short \subseteq Documents
    /\ Big \subseteq Documents \ Short
    /\ {Absent, Empty, Torn} \cap Documents = {}
    /\ Cardinality({Absent, Empty, Torn}) = 3
    /\ MaxOpen \in Nat \ {0}
    /\ Workers \cap {"free", "none", "cache", "gone"} = {}

Contents == Documents \cup {Empty, Torn}

VARIABLES
    cache,   \* json_storage::mCache
    disk,    \* the file of each path
    holder,  \* the worker that holds mMutex, or "free"
    work,    \* each worker's on_request: where it is and its locals
    open,    \* the files the process has open
    last,    \* what the last PUT or DELETE that reached each file did to it: the
             \* document it wrote, Absent when it renamed the file; Torn from the
             \* opening of a PUT until its write has come to its end
    ever,    \* what each file has held while nobody wrote it, but Empty
    cut,     \* the files a PUT of which was killed, or failed to write
    leaked   \* the files GETs have left open

vars == <<cache, disk, holder, work, open, last, ever, cut, leaked>>
ghosts == <<last, ever, cut, leaked>>

-------------------------------------------------------------------------------
(* secure_path and normalize_path *)

ValidUris == {u \in Uris : u # << >> /\ u[1] = "/"}

NormalizePath(uri) ==
    [i \in 1..Len(uri) |->
        IF i = 1 THEN "/" ELSE IF uri[i] \in Plain THEN uri[i] ELSE "+"]

Paths == {NormalizePath(u) : u \in ValidUris}

-------------------------------------------------------------------------------
(* "at" is where the worker is; "value" the document it answers with: the  *)
(* view of GET, old_value of PUT and DELETE. "owner" says who owns the     *)
(* bytes a view of GET shows: the cache, the worker whose old_value took   *)
(* them over, or "gone" when they were freed.                              *)

Idle == [at |-> "idle", op |-> "none", uri |-> << >>, new |-> Absent,
         value |-> Empty, owner |-> "none", status |-> 0]

Ops == {"none", "GET", "PUT", "DELETE", "other"}

TypeOK ==
    /\ cache \in [ValidUris -> Contents \cup {Absent}]
    /\ disk \in [Paths -> Contents \cup {Absent}]
    /\ holder \in Workers \cup {"free"}
    /\ \A p \in Workers :
        /\ work[p].at \in {"idle", "writing", "answering"}
        /\ work[p].op \in Ops
        /\ work[p].uri \in Uris \cup {<< >>}
        /\ work[p].new \in Documents \cup {Absent}
        /\ work[p].value \in Contents
        /\ work[p].owner \in Workers \cup {"none", "cache", "gone"}
        /\ work[p].status \in {0, 200, 400, 404}
    /\ open \in 0..MaxOpen
    /\ last \in [Paths -> Documents \cup {Torn, Absent}]
    /\ ever \in [Paths -> SUBSET Contents]
    /\ cut \subseteq Paths
    /\ leaked \in 0..MaxOpen

Init ==
    /\ cache = [u \in ValidUris |-> Absent]
    /\ disk \in [Paths -> (Documents \ Big) \cup {Absent}]
    /\ holder = "free"
    /\ work = [p \in Workers |-> Idle]
    /\ open = 0
    /\ last = disk
    /\ ever = [f \in Paths |-> {disk[f]} \ {Absent}]
    /\ cut = {}
    /\ leaked = 0

-------------------------------------------------------------------------------
(* What happens to the bytes the views of GET show. *)

Shows(q, uri, owner) ==
    /\ work[q].at = "answering"
    /\ work[q].op = "GET"
    /\ work[q].uri = uri
    /\ work[q].owner = owner

\* The entry of the uri is moved into the old_value of p and erased: a string
\* on the heap changes its owner, one kept inside the entry is lost.
Taken(p, uri) ==
    [q \in Workers |->
        IF Shows(q, uri, "cache")
          THEN [work[q] EXCEPT !.owner =
                    IF work[q].value \in Short THEN "gone" ELSE p]
          ELSE work[q]]

\* The bytes p owns are given to another owner.
Handed(w, p, owner) ==
    [q \in Workers |->
        IF w[q].op = "GET" /\ w[q].owner = p
          THEN [w[q] EXCEPT !.owner = owner] ELSE w[q]]

Answering(op, uri, value, owner, status) ==
    [at |-> "answering", op |-> op, uri |-> uri, new |-> Absent,
     value |-> value, owner |-> owner, status |-> status]

\* Mutant: no lock is taken.
LockedNot(p) == work[p].at = "idle"

\* std::lock_guard
Locked(p) == holder = "free" /\ work[p].at = "idle"

-------------------------------------------------------------------------------
(* GET: get_view *)

ViewOf(p, uri, value) ==
    work' = [work EXCEPT ![p] =
        IF value = Empty
          THEN Answering("GET", uri, Empty, "none", 404)
          ELSE Answering("GET", uri, value, "cache", 200)]

GetCached(p, uri) ==
    /\ Locked(p)
    /\ cache[uri] # Absent
    /\ ViewOf(p, uri, cache[uri])
    /\ UNCHANGED <<cache, disk, holder, open, ghosts>>

\* There is no such file or it cannot be opened: the default value.
NotOpened(p, uri) ==
    /\ work' = [work EXCEPT ![p] =
            Answering("GET", uri, Empty, "none", 404)]
    /\ UNCHANGED cache

GetUnknown(p, uri) ==
    /\ Locked(p)
    /\ cache[uri] = Absent
    /\ NotOpened(p, uri)
    /\ UNCHANGED <<disk, holder, open, ghosts>>

\* Mutant: the file is not closed.
GetReadOpen(p, uri) ==
    /\ Locked(p)
    /\ cache[uri] = Absent
    /\ disk[NormalizePath(uri)] \notin Big \cup {Absent}
    /\ open < MaxOpen
    /\ open' = open + 1
    /\ cache' = [cache EXCEPT ![uri] = disk[NormalizePath(uri)]]
    /\ ViewOf(p, uri, disk[NormalizePath(uri)])
    /\ UNCHANGED <<disk, holder, ghosts>>

GetRead(p, uri) ==
    LET content == disk[NormalizePath(uri)] IN
    /\ Locked(p)
    /\ cache[uri] = Absent
    /\ content \notin Big \cup {Absent}
    /\ open < MaxOpen
    /\ cache' = [cache EXCEPT ![uri] = content]
    /\ ViewOf(p, uri, content)
    /\ UNCHANGED <<disk, holder, open, ghosts>>

\* The exception leaves the file open.
GetTooLarge(p, uri) ==
    /\ Locked(p)
    /\ cache[uri] = Absent
    /\ disk[NormalizePath(uri)] \in Big
    /\ open < MaxOpen
    /\ open' = open + 1
    /\ leaked' = leaked + 1
    /\ work' = [work EXCEPT ![p] =
            Answering("GET", uri, Empty, "none", 400)]
    /\ UNCHANGED <<cache, disk, holder, last, ever, cut>>

-------------------------------------------------------------------------------
(* PUT: add_view. What hiw_request_recv returns is not looked at: when it   *)
(* was a part of the body, the rest of new_data is zeros.                   *)

CachedOr(uri) == IF cache[uri] = Absent THEN Empty ELSE cache[uri]

PutOpen(p, uri, new) ==
    LET path == NormalizePath(uri) IN
    /\ Locked(p)
    /\ open < MaxOpen
    /\ open' = open + 1
    /\ holder' = p
    /\ cache' = [cache EXCEPT ![uri] = Absent]
    /\ disk' = [disk EXCEPT ![path] = Empty]
    /\ work' = [Taken(p, uri) EXCEPT ![p] =
            [at |-> "writing", op |-> "PUT", uri |-> uri, new |-> new,
             value |-> CachedOr(uri), owner |-> "none", status |-> 0]]
    /\ last' = [last EXCEPT ![path] = Torn]
    /\ UNCHANGED <<ever, cut, leaked>>

\* The exception: the entry is erased and old_value freed all the same.
PutNotOpened(p, uri, new) ==
    /\ Locked(p)
    /\ cache' = [cache EXCEPT ![uri] = Absent]
    /\ work' = [Handed(Taken(p, uri), p, "gone") EXCEPT ![p] =
            Answering("PUT", uri, Empty, "none", 400)]
    /\ UNCHANGED <<disk, holder, open, ghosts>>

Writing(p) == work[p].at = "writing"

\* Whether a PUT writes the file f.
Written(f) == \E p \in Workers : Writing(p) /\ NormalizePath(work[p].uri) = f

\* A part of the bytes reaches the file.
PutWritePart(p) ==
    LET path == NormalizePath(work[p].uri) IN
    /\ Writing(p)
    /\ disk[path] # Torn
    /\ disk' = [disk EXCEPT ![path] = Torn]
    /\ UNCHANGED <<cache, holder, work, open, ghosts>>

\* Mutant: the new content is put where the views of the old one point.
SavedNew(p) == work[p].new

\* The entry the code saves, and what is left of old_value: it was moved from.
Saved(p) == work[p].value

\* Mutant: old_value is copied into the cache.
PutEndCopied(p, whole) ==
    LET path == NormalizePath(work[p].uri) IN
    /\ Writing(p)
    /\ disk' = IF whole THEN [disk EXCEPT ![path] = work[p].new] ELSE disk
    /\ open' = open - 1
    /\ holder' = "free"
    /\ cache' = [cache EXCEPT ![work[p].uri] = Saved(p)]
    /\ work' = [Handed(work, p, "gone") EXCEPT ![p] =
            Answering("PUT", work[p].uri, Empty, "none", 200)]
    /\ last' = IF whole THEN [last EXCEPT ![path] = work[p].new] ELSE last
    /\ ever' = [ever EXCEPT ![path] = @ \cup ({disk'[path]} \ {Empty})]
    /\ cut' = IF whole THEN cut ELSE cut \cup {path}
    /\ UNCHANGED leaked

\* fwrite and fclose; neither is checked, so a full disk answers 200 too.
PutEnd(p, whole) ==
    LET path == NormalizePath(work[p].uri) IN
    /\ Writing(p)
    /\ disk' = IF whole THEN [disk EXCEPT ![path] = work[p].new] ELSE disk
    /\ open' = open - 1
    /\ holder' = "free"
    /\ cache' = [cache EXCEPT ![work[p].uri] = Saved(p)]
    /\ work' = [Handed(work, p, "cache") EXCEPT ![p] =
            Answering("PUT", work[p].uri, Empty, "none", 200)]
    /\ last' = IF whole THEN [last EXCEPT ![path] = work[p].new] ELSE last
    /\ ever' = [ever EXCEPT ![path] = @ \cup ({disk'[path]} \ {Empty})]
    /\ cut' = IF whole THEN cut ELSE cut \cup {path}
    /\ UNCHANGED leaked

-------------------------------------------------------------------------------
(* DELETE: remove_view *)

\* Mutant: the file is renamed although nothing was cached.
DeleteUnknownRenames(p, uri) ==
    /\ Locked(p)
    /\ CachedOr(uri) = Empty
    /\ cache' = [cache EXCEPT ![uri] = Absent]
    /\ disk' = [disk EXCEPT ![NormalizePath(uri)] = Absent]
    /\ work' = [Taken(p, uri) EXCEPT ![p] =
            Answering("DELETE", uri, Empty, "none", 404)]
    /\ UNCHANGED <<holder, open, ghosts>>

\* Nothing cached, or an empty string: the file is left as it is.
DeleteUnknown(p, uri) ==
    /\ Locked(p)
    /\ CachedOr(uri) = Empty
    /\ cache' = [cache EXCEPT ![uri] = Absent]
    /\ work' = [Taken(p, uri) EXCEPT ![p] =
            Answering("DELETE", uri, Empty, "none", 404)]
    /\ UNCHANGED <<disk, holder, open, ghosts>>

\* The file is renamed, whatever it holds by now, or cannot be renamed: what
\* ::rename returns is not looked at.
DeleteKnown(p, uri) ==
    LET path == NormalizePath(uri) IN
    /\ Locked(p)
    /\ CachedOr(uri) # Empty
    /\ cache' = [cache EXCEPT ![uri] = Absent]
    /\ work' = [Taken(p, uri) EXCEPT ![p] =
            Answering("DELETE", uri, CachedOr(uri), "none", 200)]
    /\ \/ /\ disk' = [disk EXCEPT ![path] = Absent]
          /\ last' = [last EXCEPT ![path] = Absent]
       \/ UNCHANGED <<disk, last>>
    /\ UNCHANGED <<holder, open, ever, cut, leaked>>

-------------------------------------------------------------------------------
(* on_request *)

\* A method the store does not know, a uri secure_path refuses, and the two
\* lengths of a PUT that are no length: 0, and -1, which resize refuses.
Refuse(p, op, uri) ==
    /\ work[p].at = "idle"
    /\ \/ op = "other"
       \/ op = "PUT"
       \/ op \in {"GET", "DELETE"} /\ uri \notin ValidUris
    /\ work' = [work EXCEPT ![p] =
            Answering("other", << >>, Empty, "none",
                      IF op = "other" THEN 404 ELSE 400)]
    /\ UNCHANGED <<cache, disk, holder, open, ghosts>>

\* The answer is written and the locals of on_request are destroyed.
Answer(p) ==
    /\ work[p].at = "answering"
    /\ work' = [Handed(work, p, "gone") EXCEPT ![p] = Idle]
    /\ UNCHANGED <<cache, disk, holder, open, ghosts>>

\* The process is stopped and started again: the files stay.
Restart ==
    /\ cache' = [u \in ValidUris |-> Absent]
    /\ work' = [p \in Workers |-> Idle]
    /\ holder' = "free"
    /\ open' = 0
    /\ ever' = [f \in Paths |-> ever[f] \cup ({disk[f]} \ {Absent, Empty})]
    /\ cut' = cut \cup {f \in Paths : Written(f)}
    /\ leaked' = 0
    /\ UNCHANGED <<disk, last>>

Get(p) ==
    \E uri \in ValidUris :
        \/ GetCached(p, uri)
        \/ GetUnknown(p, uri)
        \/ GetRead(p, uri)
        \/ GetTooLarge(p, uri)

Put(p) ==
    \/ \E uri \in ValidUris, new \in Documents :
        PutOpen(p, uri, new) \/ PutNotOpened(p, uri, new)
    \/ PutWritePart(p)
    \/ PutEnd(p, TRUE)
    \/ PutEnd(p, FALSE)

Delete(p) ==
    \E uri \in ValidUris : DeleteUnknown(p, uri) \/ DeleteKnown(p, uri)

Next ==
    \/ \E p \in Workers :
        \/ Get(p)
        \/ Put(p)
        \/ Delete(p)
        \/ \E op \in Ops \ {"none"}, uri \in Uris : Refuse(p, op, uri)
        \/ Answer(p)
    \/ Restart

Spec == Init /\ [][Next]_vars

-------------------------------------------------------------------------------
(* Properties *)

\* What the file f was left with. A part of a document is among it only when a
\* PUT of the file was killed or failed to write: nothing tells such a file
\* from a whole one, and GET caches it and answers 200 with it.
Stored(f) == IF f \in cut THEN ever[f] ELSE ever[f] \ {Torn}

\* What the cache holds, and what GET and DELETE answer with, was the content
\* of the file of that uri at a moment when no PUT was writing it: never what
\* a PUT in progress has written so far.
ServedWasStored ==
    /\ \A u \in ValidUris :
        cache[u] \in Stored(NormalizePath(u)) \cup {Absent, Empty}
    /\ \A p \in Workers :
        work[p].status = 200 /\ work[p].value # Empty =>
            work[p].value \in Stored(NormalizePath(work[p].uri))

\* Every variable keeps its type, and a view of GET that was not freed shows
\* what it showed when it was taken: it is the cached string of its uri, or the
\* string a PUT or DELETE of the same uri took over and has not destroyed yet.
ViewIsBacked ==
    TypeOK /\ \A p \in Workers :
        work[p].op = "GET" /\ work[p].status = 200 =>
            CASE work[p].owner = "cache" -> cache[work[p].uri] = work[p].value
              [] work[p].owner \in Workers ->
                    /\ work[work[p].owner].op \in {"PUT", "DELETE"}
                    /\ work[work[p].owner].uri = work[p].uri
                    /\ work[work[p].owner].value = work[p].value
              [] work[p].owner = "gone" -> TRUE

\* A document that does not fit into the std::string itself is not freed
\* under a GET by a PUT that succeeds: only the end of a DELETE and a PUT that
\* cannot open its file free it before the GET has answered.
PutKeepsViews ==
    [][\A p \in Workers :
        /\ work[p].op = "GET"
        /\ work[p].value \notin Short
        /\ work[p].owner # "gone"
        /\ work'[p].owner = "gone"
        => \E q \in Workers :
            \/ work[q].op = "DELETE" /\ work'[q].at = "idle"
            \/ work[q].at = "idle" /\ work'[q].op = "PUT" /\ work'[q].status = 400]_vars

\* A file holds the document of the last PUT that wrote it to its end, or does
\* not exist after the last DELETE that could rename it, whatever requests and
\* restarts came in between. It may hold something else only while a PUT
\* writes it, or after a PUT of it was killed or failed to write. A 200 does
\* not tell these apart: a PUT that failed to write and a DELETE that could not
\* rename the file answer it too.
Durable ==
    \A f \in Paths :
        IF last[f] = Torn THEN Written(f) \/ f \in cut ELSE disk[f] = last[f]

\* The lock is held only while a PUT writes, whatever exceptions were thrown,
\* and the open files are its file and one for every GET since the last start
\* that threw because its file was too large.
OneFileOpen ==
    /\ \A p \in Workers : Writing(p) <=> holder = p
    /\ open = Cardinality({p \in Workers : Writing(p)}) + leaked

\* What add_view's comment says: a PUT that succeeds saves the new content.
SavedIsNew ==
    [][\A p \in Workers :
        Writing(p) /\ work'[p].status = 200 =>
            cache'[work[p].uri] = work[p].new]_vars
===============================================================================
