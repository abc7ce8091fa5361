---------------------------- MODULE JsonCacheProofs ----------------------------
(***************************************************************************)
(* Proofs about JsonCache, for any number of workers, uris, documents and  *)
(* file descriptors: what the files and the cache hold, who holds the      *)
(* lock, and what the views of GET point at.                               *)
(***************************************************************************)
EXTENDS JsonCache, FiniteSetTheorems, TLAPS

-------------------------------------------------------------------------------
(* The inductive invariant *)

Owners == Workers \cup {"none", "cache", "gone"}

Jobs == [at : {"idle", "writing", "answering"}, op : Ops, uri : Uris \cup {<< >>},
         new : Documents \cup {Absent}, value : Contents, owner : Owners,
         status : {0, 200, 400, 404}]

WorkTypes == work \in [Workers -> Jobs]

TypeInv == TypeOK /\ WorkTypes

\* A file is open for the PUT that holds the lock, and for every GET that threw.
LockInv ==
    /\ \A p \in Workers : Writing(p) <=> holder = p
    /\ open = leaked + (IF holder = "free" THEN 0 ELSE 1)

\* What the locals of on_request hold on each of its lines. While a PUT writes,
\* its uri has no cache entry, and its file is expected to be torn.
JobOk(p) ==
    /\ work[p].at = "idle" => work[p].op = "none"
    /\ work[p].op \in {"GET", "PUT", "DELETE"} => work[p].uri \in ValidUris
    /\ work[p].status = 200 => work[p].uri \in ValidUris
    /\ Writing(p) => /\ work[p].op = "PUT" /\ work[p].new \in Documents
                     /\ work[p].status = 0
                     /\ cache[work[p].uri] = Absent
                     /\ disk[NormalizePath(work[p].uri)] # Absent
                     /\ last[NormalizePath(work[p].uri)] = Torn
                     /\ work[p].value \in
                            ever[NormalizePath(work[p].uri)] \cup {Empty}

JobInv == \A p \in Workers : JobOk(p)

\* A file holds what it held when nobody wrote it, unless somebody does, and
\* is torn only by a PUT that was cut off.
FileInv ==
    /\ \A f \in Paths : Written(f) \/ disk[f] \in ever[f] \cup {Absent, Empty}
    /\ \A f \in Paths : last[f] # Torn => disk[f] = last[f]
    /\ \A f \in Paths : last[f] = Torn => Written(f) \/ f \in cut
    /\ \A f \in Paths : Torn \in ever[f] => f \in cut
    /\ \A u \in ValidUris : cache[u] \in ever[NormalizePath(u)] \cup {Absent, Empty}
    /\ \A p \in Workers :
           work[p].status = 200 /\ work[p].value # Empty =>
               work[p].value \in ever[NormalizePath(work[p].uri)]

\* The bytes a view shows are the cache's, or those of a DELETE that has not
\* ended or of a PUT that still writes, or were freed.
Backed(p) ==
    \/ work[p].owner = "gone"
    \/ work[p].owner = "cache" /\ cache[work[p].uri] = work[p].value
    \/ \E q \in Workers :
           /\ work[p].owner = q
           /\ work[q].op = "DELETE" \/ Writing(q)
           /\ work[q].uri = work[p].uri
           /\ work[q].value = work[p].value

ViewInv ==
    \A p \in Workers : work[p].op = "GET" =>
        /\ work[p].at = "answering"
        /\ \/ work[p].owner = "none" /\ work[p].status # 200
           \/ work[p].status = 200 /\ work[p].value # Empty /\ Backed(p)

IInv == TypeInv /\ LockInv /\ JobInv /\ FileInv /\ ViewInv

-------------------------------------------------------------------------------
(* Values and types *)

\* A set of two elements has not three.
LEMMA TwoElements == \A a, b : Cardinality({a, b}) # 3
<1> SUFFICES ASSUME NEW a, NEW b
             PROVE  Cardinality({a, b}) # 3
  OBVIOUS
<1>1. IsFiniteSet({a}) /\ Cardinality({a}) = 1
  BY FS_Singleton
<1>2. {a} \cup {b} = {a, b}
  OBVIOUS
<1>3. Cardinality({a} \cup {b}) = IF b \in {a} THEN 1 ELSE 1 + 1
  BY <1>1, FS_AddElement
<1> QED BY <1>2, <1>3

\* Absent, Empty and Torn are three values and no documents, and what says who
\* owns a view or holds the lock is no worker.
LEMMA Apart ==
    /\ Absent # Empty /\ Absent # Torn /\ Empty # Torn
    /\ Absent \notin Documents /\ Empty \notin Documents /\ Torn \notin Documents
    /\ Absent \notin Contents /\ Empty \in Contents /\ Torn \in Contents
    /\ \A b \in Big : b \in Contents /\ b # Empty
    /\ \A p \in Workers : p \notin {"free", "none", "cache", "gone"}
<1>1. Cardinality({Absent, Empty, Torn}) = 3
  BY CacheAssumption
<1>2. Absent # Empty
  <2>1. Absent = Empty => {Absent, Empty, Torn} = {Empty, Torn}
    OBVIOUS
  <2>2. Cardinality({Empty, Torn}) # 3
    BY TwoElements
  <2> QED BY <1>1, <2>1, <2>2
<1>3. Absent # Torn
  <2>1. Absent = Torn => {Absent, Empty, Torn} = {Empty, Torn}
    OBVIOUS
  <2>2. Cardinality({Empty, Torn}) # 3
    BY TwoElements
  <2> QED BY <1>1, <2>1, <2>2
<1>4. Empty # Torn
  <2>1. Empty = Torn => {Absent, Empty, Torn} = {Absent, Torn}
    OBVIOUS
  <2>2. Cardinality({Absent, Torn}) # 3
    BY TwoElements
  <2> QED BY <1>1, <2>1, <2>2
<1> QED BY <1>2, <1>3, <1>4, CacheAssumption DEF Contents

\* The file of a uri is one of the files.
LEMMA PathOf ==
    ASSUME NEW u \in ValidUris
    PROVE  NormalizePath(u) \in Paths /\ u \in Uris
  BY DEF Paths, ValidUris

\* What is in a job.
LEMMA JobTypes ==
    ASSUME NEW w \in [Workers -> Jobs], NEW q \in Workers
    PROVE  /\ w[q].at \in {"idle", "writing", "answering"}
           /\ w[q].op \in Ops
           /\ w[q].uri \in Uris \cup {<< >>}
           /\ w[q].new \in Documents \cup {Absent}
           /\ w[q].value \in Contents
           /\ w[q].owner \in Owners
           /\ w[q].status \in {0, 200, 400, 404}
<1>1. w[q] \in Jobs
  OBVIOUS
<1> QED BY <1>1 DEF Jobs

\* A job, but for the owner of the bytes it shows, is the same in v and w.
SameJob(v, w, q) ==
    /\ v[q].at = w[q].at /\ v[q].op = w[q].op /\ v[q].uri = w[q].uri
    /\ v[q].new = w[q].new /\ v[q].value = w[q].value /\ v[q].status = w[q].status

\* What is taken out of the cache changes its owner, and nothing else.
LEMMA TakenOwners ==
    ASSUME TypeInv, NEW p \in Workers, NEW uri
    PROVE  /\ Taken(p, uri) \in [Workers -> Jobs]
           /\ \A q \in Workers :
                  /\ SameJob(Taken(p, uri), work, q)
                  /\ Taken(p, uri)[q].owner =
                         IF Shows(q, uri, "cache")
                         THEN IF work[q].value \in Short THEN "gone" ELSE p
                         ELSE work[q].owner
<1> DEFINE T(q) == IF Shows(q, uri, "cache")
                   THEN [work[q] EXCEPT !.owner =
                             IF work[q].value \in Short THEN "gone" ELSE p]
                   ELSE work[q]
<1>1. Taken(p, uri) = [q \in Workers |-> T(q)]
  BY DEF Taken
<1>2. ASSUME NEW q \in Workers
      PROVE  /\ T(q) \in Jobs
             /\ T(q).at = work[q].at /\ T(q).op = work[q].op /\ T(q).uri = work[q].uri
             /\ T(q).new = work[q].new /\ T(q).value = work[q].value
             /\ T(q).status = work[q].status
             /\ T(q).owner = IF Shows(q, uri, "cache")
                             THEN IF work[q].value \in Short THEN "gone" ELSE p
                             ELSE work[q].owner
  <2>1. work[q] \in Jobs
    BY DEF TypeInv, WorkTypes
  <2>2. PICK o \in Owners : o = IF work[q].value \in Short THEN "gone" ELSE p
    BY DEF Owners
  <2>3. T(q) = IF Shows(q, uri, "cache") THEN [work[q] EXCEPT !.owner = o] ELSE work[q]
    BY <2>2
  <2> HIDE DEF T
  <2> QED BY <2>1, <2>2, <2>3 DEF Jobs
<1> HIDE DEF T
<1> QED BY <1>1, <1>2 DEF SameJob

\* What p owns gets another owner, and nothing else changes.
LEMMA HandedOwners ==
    ASSUME NEW w \in [Workers -> Jobs], NEW p \in Workers, NEW o \in Owners
    PROVE  /\ Handed(w, p, o) \in [Workers -> Jobs]
           /\ \A q \in Workers :
                  /\ SameJob(Handed(w, p, o), w, q)
                  /\ Handed(w, p, o)[q].owner =
                         IF w[q].op = "GET" /\ w[q].owner = p THEN o ELSE w[q].owner
<1> DEFINE H(q) == IF w[q].op = "GET" /\ w[q].owner = p
                   THEN [w[q] EXCEPT !.owner = o] ELSE w[q]
<1>1. Handed(w, p, o) = [q \in Workers |-> H(q)]
  BY DEF Handed
<1>2. ASSUME NEW q \in Workers
      PROVE  /\ H(q) \in Jobs
             /\ H(q).at = w[q].at /\ H(q).op = w[q].op /\ H(q).uri = w[q].uri
             /\ H(q).new = w[q].new /\ H(q).value = w[q].value
             /\ H(q).status = w[q].status
             /\ H(q).owner = IF w[q].op = "GET" /\ w[q].owner = p THEN o ELSE w[q].owner
  <2>1. w[q] \in Jobs
    OBVIOUS
  <2> QED BY <2>1 DEF Jobs
<1> HIDE DEF H
<1> QED BY <1>1, <1>2 DEF SameJob

\* The job r of p replaces the one before, and the others are those of w.
LEMMA JobReplaced ==
    ASSUME NEW w \in [Workers -> Jobs], NEW p \in Workers, NEW r \in Jobs,
           NEW v, v = [w EXCEPT ![p] = r]
    PROVE  v \in [Workers -> Jobs] /\ v[p] = r /\ \A q \in Workers \ {p} : v[q] = w[q]
  OBVIOUS

\* The fields of an answer.
LEMMA AnswerFields ==
    ASSUME NEW op \in Ops, NEW uri \in Uris \cup {<< >>}, NEW value \in Contents,
           NEW owner \in Owners, NEW status \in {0, 200, 400, 404}
    PROVE  LET r == Answering(op, uri, value, owner, status)
           IN  /\ r \in Jobs
               /\ r.at = "answering" /\ r.op = op /\ r.uri = uri /\ r.new = Absent
               /\ r.value = value /\ r.owner = owner /\ r.status = status
  BY DEF Answering, Jobs

\* The fields of a job that has not begun.
LEMMA IdleFields ==
    /\ Idle \in Jobs
    /\ Idle.at = "idle" /\ Idle.op = "none" /\ Idle.owner = "none" /\ Idle.status = 0
    /\ Idle.value = Empty
<1>1. "none" \in Ops
  BY DEF Ops
<1> QED BY <1>1, Apart DEF Idle, Jobs, Owners

\* The types of all variables but the jobs.
StoreTypes ==
    /\ cache \in [ValidUris -> Contents \cup {Absent}]
    /\ disk \in [Paths -> Contents \cup {Absent}]
    /\ holder \in Workers \cup {"free"}
    /\ open \in 0 .. MaxOpen
    /\ last \in [Paths -> Documents \cup {Torn, Absent}]
    /\ ever \in [Paths -> SUBSET Contents]
    /\ cut \subseteq Paths
    /\ leaked \in 0 .. MaxOpen

\* The types are those of the jobs and of the rest.
LEMMA TypesApart == TypeInv <=> StoreTypes /\ WorkTypes
<1>1. StoreTypes /\ WorkTypes => TypeOK
  BY JobTypes DEF StoreTypes, WorkTypes, TypeOK, Owners
<1>2. TypeInv => StoreTypes /\ WorkTypes
  BY DEF TypeInv, TypeOK, StoreTypes
<1> QED BY <1>1, <1>2 DEF TypeInv

-------------------------------------------------------------------------------
(* Steps that do not write a file *)

\* A worker that begins is not looked at by anybody's view.
LEMMA Unseen ==
    ASSUME TypeInv, JobInv, NEW p \in Workers, work[p].at = "idle",
           NEW q \in Workers, work[q].op = "GET", Backed(q)
    PROVE  work[q].owner # p
<1>1. work[p].op = "none" /\ ~Writing(p)
  BY DEF JobInv, JobOk, Writing
<1> QED BY <1>1, Apart DEF Backed

\* GET.
LEMMA GetStep ==
    ASSUME IInv, NEW p \in Workers, Get(p)
    PROVE  IInv'
<1> USE DEF ghosts
<1>0. TypeInv /\ StoreTypes /\ work \in [Workers -> Jobs]
  BY TypesApart DEF IInv, WorkTypes
<1>1. PICK uri \in ValidUris :
          GetCached(p, uri) \/ GetUnknown(p, uri) \/ GetRead(p, uri) \/ GetTooLarge(p, uri)
  BY DEF Get
<1>2. NormalizePath(uri) \in Paths /\ uri \in Uris
  BY PathOf
<1>3. /\ holder = "free" /\ work[p].at = "idle" /\ work[p].op = "none"
      /\ \A q \in Workers : ~Writing(q)
      /\ UNCHANGED <<disk, holder, last, ever, cut>>
  BY <1>1, Apart DEF GetCached, GetUnknown, GetRead, GetTooLarge, Locked, IInv, JobInv, JobOk, LockInv
<1>4. disk[NormalizePath(uri)] \in ever[NormalizePath(uri)] \cup {Absent, Empty}
  BY <1>2, <1>3 DEF IInv, FileInv, Written
<1> DEFINE Got(v, o, st) ==
              /\ work' = [work EXCEPT ![p] = Answering("GET", uri, v, o, st)]
              /\ \/ v = Empty /\ o = "none" /\ st # 200
                 \/ v # Empty /\ o = "cache" /\ st = 200 /\ cache'[uri] = v
           Cached == \/ UNCHANGED cache
                     \/ /\ cache[uri] = Absent /\ disk[NormalizePath(uri)] # Absent
                        /\ cache' = [cache EXCEPT ![uri] = disk[NormalizePath(uri)]]
           Opened == \/ open' = open /\ leaked' = leaked
                     \/ open < MaxOpen /\ open' = open + 1 /\ leaked' = leaked + 1
<1>5a. Cached /\ Opened
  BY <1>1 DEF GetCached, GetUnknown, NotOpened, GetRead, GetTooLarge
<1>5b. \E v \in Contents, o \in {"none", "cache"}, st \in {200, 400, 404} : Got(v, o, st)
  <2>1. ASSUME NEW v \in Contents, ViewOf(p, uri, v), cache'[uri] = v
        PROVE  Got(Empty, "none", 404) \/ Got(v, "cache", 200)
    <3>1. CASE v = Empty
      <4>1. work' = [work EXCEPT ![p] = Answering("GET", uri, Empty, "none", 404)]
        BY <2>1, <3>1 DEF ViewOf
      <4> QED BY <4>1
    <3>2. CASE v # Empty
      <4>1. work' = [work EXCEPT ![p] = Answering("GET", uri, v, "cache", 200)]
        BY <2>1, <3>2 DEF ViewOf
      <4> QED BY <2>1, <3>2, <4>1
    <3> QED BY <3>1, <3>2
  <2>2. ASSUME NEW v \in Contents, ViewOf(p, uri, v), cache'[uri] = v
        PROVE  \E w \in Contents, o \in {"none", "cache"}, st \in {200, 400, 404} : Got(w, o, st)
    <3> HIDE DEF Got
    <3> QED BY <2>1, <2>2, Apart
  <2>3. CASE GetCached(p, uri)
    <3>1. cache[uri] \in Contents /\ cache'[uri] = cache[uri] /\ ViewOf(p, uri, cache[uri])
      BY <1>0, <2>3 DEF GetCached, StoreTypes
    <3> QED BY <2>2, <3>1
  <2>4. CASE GetRead(p, uri)
    <3>1. disk[NormalizePath(uri)] \in Contents
      BY <1>0, <1>2, <2>4 DEF GetRead, StoreTypes
    <3>2. cache'[uri] = disk[NormalizePath(uri)] /\ ViewOf(p, uri, disk[NormalizePath(uri)])
      BY <1>0, <2>4 DEF GetRead, StoreTypes
    <3> QED BY <2>2, <3>1, <3>2
  <2>5. CASE GetUnknown(p, uri)
    <3>1. Got(Empty, "none", 404)
      BY <2>5 DEF GetUnknown, NotOpened
    <3> HIDE DEF Got
    <3> QED BY <3>1, Apart
  <2>6. CASE GetTooLarge(p, uri)
    <3>1. Got(Empty, "none", 400)
      BY <2>6 DEF GetTooLarge
    <3> HIDE DEF Got
    <3> QED BY <3>1, Apart
  <2> QED BY <1>1, <2>3, <2>4, <2>5, <2>6
<1>5. PICK v \in Contents, o \in {"none", "cache"}, st \in {200, 400, 404} :
          /\ Got(v, o, st)
          /\ Cached
          /\ Opened
  <2> HIDE DEF Got, Cached, Opened
  <2> QED BY <1>5a, <1>5b
<1>6. PICK r \in Jobs : /\ r = Answering("GET", uri, v, o, st)
                        /\ r.at = "answering" /\ r.op = "GET" /\ r.uri = uri
                        /\ r.value = v /\ r.owner = o /\ r.status = st
  BY <1>2, AnswerFields DEF Ops, Owners
<1>7. work' \in [Workers -> Jobs] /\ work'[p] = r /\ \A q \in Workers \ {p} : work'[q] = work[q]
  <2>1. work' = [work EXCEPT ![p] = r]
    BY <1>5, <1>6
  <2> QED BY <1>0, <2>1, JobReplaced
<1>8. \A u \in ValidUris : cache'[u] = cache[u] \/ cache[u] = Absent
  BY <1>0, <1>5 DEF StoreTypes
<1>9. \A u \in ValidUris : cache'[u] \in ever[NormalizePath(u)] \cup {Absent, Empty}
  <2>1. \A u \in ValidUris : cache'[u] = cache[u] \/ (u = uri /\ cache'[u] = disk[NormalizePath(uri)])
    BY <1>0, <1>5 DEF StoreTypes
  <2> QED BY <1>4, <2>1 DEF IInv, FileInv
<1>10. StoreTypes'
  <2>1. cache' \in [ValidUris -> Contents \cup {Absent}]
    BY <1>0, <1>2, <1>5 DEF StoreTypes
  <2>2. leaked = open
    BY <1>0, <1>3 DEF StoreTypes, IInv, LockInv
  <2>3. open' \in 0 .. MaxOpen /\ leaked' \in 0 .. MaxOpen
    BY <1>0, <1>5, <2>2, CacheAssumption DEF StoreTypes
  <2> QED BY <1>0, <1>3, <2>1, <2>3 DEF StoreTypes
<1>11. \A q \in Workers : ~Writing(q)'
  BY <1>3, <1>6, <1>7 DEF Writing
<1>12. LockInv'
  <2>1. \A q \in Workers : q # "free"
    BY Apart
  <2>2. open' = leaked'
    BY <1>0, <1>3, <1>5 DEF StoreTypes, IInv, LockInv
  <2>3. leaked' \in Nat
    BY <1>10 DEF StoreTypes
  <2> QED BY <1>3, <1>11, <2>1, <2>2, <2>3 DEF LockInv
<1>13. JobInv'
  BY <1>5, <1>6, <1>7, <1>11 DEF IInv, JobInv, JobOk
<1>14. FileInv'
  <2>1. \A f \in Paths : disk[f] \in ever[f] \cup {Absent, Empty}
    BY <1>3 DEF IInv, FileInv, Written
  <2>2. r.status = 200 /\ r.value # Empty => r.value \in ever[NormalizePath(r.uri)]
    BY <1>5, <1>6, <1>9, Apart
  <2>3. \A f \in Paths : (Written(f) \/ disk[f] \in ever[f] \cup {Absent, Empty})'
    BY <1>3, <2>1
  <2>4. \A f \in Paths : (last[f] = Torn => Written(f) \/ f \in cut)'
    BY <1>3 DEF IInv, FileInv, Written
  <2> QED BY <1>3, <1>7, <1>9, <2>2, <2>3, <2>4 DEF IInv, FileInv
<1>15. ViewInv'
  <2>1. ASSUME NEW q \in Workers \ {p}, work[q].op = "GET", Backed(q), work[q].status = 200
        PROVE  Backed(q)'
    <3>1. work[q].owner # p
      BY <1>0, <1>3, <2>1, Unseen DEF IInv
    <3>2. work[q].uri \in ValidUris /\ work[q].value # Absent
      <4>1. work[q].value \in Contents
        BY <1>0, JobTypes
      <4> QED BY <2>1, <4>1, Apart DEF IInv, JobInv, JobOk
    <3>3. work'[q] = work[q]
      BY <1>7
    <3>4. CASE work[q].owner = "cache" /\ cache[work[q].uri] = work[q].value
      BY <1>8, <3>2, <3>3, <3>4 DEF Backed
    <3>5. ASSUME NEW s \in Workers, work[q].owner = s,
                 work[s].op = "DELETE" \/ Writing(s),
                 work[s].uri = work[q].uri, work[s].value = work[q].value
          PROVE  Backed(q)'
      <4>1. s # p /\ work'[s] = work[s]
        BY <1>7, <3>1, <3>5
      <4> QED BY <3>3, <3>5, <4>1 DEF Backed, Writing
    <3> QED BY <2>1, <3>3, <3>4, <3>5 DEF Backed
  <2>2. r.status = 200 => Backed(p)'
    BY <1>5, <1>6, <1>7 DEF Backed
  <2> QED BY <1>5, <1>6, <1>7, <2>1, <2>2 DEF IInv, ViewInv
<1>16. TypeInv'
  <2>1. WorkTypes'
    BY <1>7 DEF WorkTypes
  <2> QED BY <1>10, <2>1, TypesApart, PTL
<1> QED BY <1>12, <1>13, <1>14, <1>15, <1>16 DEF IInv

\* The views of an entry that p takes out of the cache are backed by p or freed.
LEMMA DroppedViews ==
    ASSUME IInv, NEW p \in Workers, work[p].at = "idle", NEW uri \in ValidUris,
           \A u \in ValidUris : cache'[u] = IF u = uri THEN Absent ELSE cache[u],
           work'[p].op # "GET",
           \A q \in Workers \ {p} :
               /\ SameJob(work', work, q)
               /\ ~Shows(q, uri, "cache") /\ work[q].owner # p =>
                      work'[q].owner = work[q].owner
               /\ Shows(q, uri, "cache") =>
                      \/ work'[q].owner = "gone"
                      \/ /\ work'[q].owner = p
                         /\ work'[p].op = "DELETE" \/ Writing(p)'
                         /\ work'[p].uri = uri
                         /\ work'[p].value = CachedOr(uri)
    PROVE  ViewInv'
<1>0. TypeInv /\ JobInv /\ work \in [Workers -> Jobs]
  BY DEF IInv, TypeInv, WorkTypes
<1>1. ASSUME NEW q \in Workers \ {p}, work[q].op = "GET", work[q].at = "answering",
             Backed(q), work[q].status = 200
      PROVE  Backed(q)'
  <2>1. work[q].owner # p
    BY <1>0, <1>1, Unseen
  <2>2. work'[q].uri = work[q].uri /\ work'[q].value = work[q].value
    BY DEF SameJob
  <2>3. CASE Shows(q, uri, "cache")
    <3>1. CASE work'[q].owner = "gone"
      BY <3>1 DEF Backed
    <3>2. CASE work'[q].owner # "gone"
      <4>1. work[q].uri = uri /\ cache[uri] = work[q].value /\ work[q].value \in Contents
        BY <1>0, <1>1, <2>3, JobTypes, Apart DEF Shows, Backed
      <4>2. work[q].value = CachedOr(uri)
        BY <4>1, Apart DEF CachedOr
      <4> QED BY <2>2, <2>3, <3>2, <4>1, <4>2 DEF Backed
    <3> QED BY <3>1, <3>2
  <2>4. CASE ~Shows(q, uri, "cache")
    <3>1. work'[q].owner = work[q].owner
      BY <2>1, <2>4
    <3>2. CASE work[q].owner = "gone"
      BY <3>1, <3>2 DEF Backed
    <3>3. CASE work[q].owner = "cache" /\ cache[work[q].uri] = work[q].value
      <4>1. work[q].uri # uri /\ work[q].uri \in ValidUris
        BY <1>0, <1>1, <2>4, <3>3 DEF Shows, JobInv, JobOk
      <4> QED BY <2>2, <3>1, <3>3, <4>1 DEF Backed
    <3>4. ASSUME NEW t \in Workers, work[q].owner = t,
                 work[t].op = "DELETE" \/ Writing(t),
                 work[t].uri = work[q].uri, work[t].value = work[q].value
          PROVE  Backed(q)'
      <4>1. t # p /\ SameJob(work', work, t)
        BY <2>1, <3>4
      <4> QED BY <2>2, <3>1, <3>4, <4>1 DEF Backed, Writing, SameJob
    <3> QED BY <1>1, <3>2, <3>3, <3>4 DEF Backed
  <2> QED BY <2>3, <2>4
<1>2. ASSUME NEW q \in Workers \ {p}, work'[q].op = "GET"
      PROVE  /\ work'[q].at = "answering"
             /\ \/ work'[q].owner = "none" /\ work'[q].status # 200
                \/ work'[q].status = 200 /\ work'[q].value # Empty /\ Backed(q)'
  <2>1. SameJob(work', work, q)
    OBVIOUS
  <2>2. work[q].op = "GET" /\ work[q].at = "answering"
    BY <1>2, <2>1 DEF SameJob, IInv, ViewInv
  <2>3. CASE work[q].owner = "none" /\ work[q].status # 200
    <3>1. work'[q].owner = "none"
      BY <2>3, Apart DEF Shows
    <3> QED BY <2>1, <2>2, <2>3, <3>1 DEF SameJob
  <2>4. CASE work[q].status = 200 /\ work[q].value # Empty /\ Backed(q)
    BY <1>1, <2>1, <2>2, <2>4 DEF SameJob
  <2> QED BY <2>2, <2>3, <2>4 DEF IInv, ViewInv
<1> QED BY <1>2 DEF ViewInv

\* DELETE, and a PUT that cannot open its file: the entry leaves the cache, and
\* its bytes are given to p or freed.
LEMMA DropStep ==
    ASSUME IInv, NEW p \in Workers,
           Delete(p) \/ \E u \in ValidUris, new \in Documents : PutNotOpened(p, u, new)
    PROVE  IInv'
<1> USE DEF ghosts
<1>0. TypeInv /\ StoreTypes /\ work \in [Workers -> Jobs]
  BY TypesApart DEF IInv, WorkTypes
<1>1. PICK uri \in ValidUris :
          \/ DeleteUnknown(p, uri) \/ DeleteKnown(p, uri)
          \/ \E new \in Documents : PutNotOpened(p, uri, new)
  BY DEF Delete
<1>2. NormalizePath(uri) \in Paths /\ uri \in Uris
  BY PathOf
<1>3. /\ holder = "free" /\ work[p].at = "idle" /\ work[p].op = "none"
      /\ \A q \in Workers : ~Writing(q)
      /\ cache' = [cache EXCEPT ![uri] = Absent]
      /\ UNCHANGED <<holder, open, ever, cut, leaked>>
  BY <1>1, Apart DEF DeleteUnknown, DeleteKnown, PutNotOpened, Locked, IInv, JobInv, JobOk, LockInv
<1>4. \/ UNCHANGED <<disk, last>>
      \/ /\ disk' = [disk EXCEPT ![NormalizePath(uri)] = Absent]
         /\ last' = [last EXCEPT ![NormalizePath(uri)] = Absent]
  BY <1>1 DEF DeleteUnknown, DeleteKnown, PutNotOpened
<1>5. CachedOr(uri) \in Contents /\ CachedOr(uri) \in ever[NormalizePath(uri)] \cup {Empty}
  <2>1. cache[uri] \in Contents \cup {Absent}
    BY <1>0 DEF StoreTypes
  <2> QED BY <2>1, Apart DEF CachedOr, IInv, FileInv
<1> DEFINE TW == Taken(p, uri)
           HW == Handed(TW, p, "gone")
<1>6. /\ TW \in [Workers -> Jobs]
      /\ \A q \in Workers :
             /\ SameJob(TW, work, q)
             /\ TW[q].owner = IF Shows(q, uri, "cache")
                              THEN IF work[q].value \in Short THEN "gone" ELSE p
                              ELSE work[q].owner
  BY <1>0, TakenOwners
<1>7. /\ HW \in [Workers -> Jobs]
      /\ \A q \in Workers :
             /\ SameJob(HW, TW, q)
             /\ HW[q].owner = IF TW[q].op = "GET" /\ TW[q].owner = p
                              THEN "gone" ELSE TW[q].owner
  <2> HIDE DEF TW
  <2> QED BY <1>6, HandedOwners DEF Owners
<1> HIDE DEF HW
<1> DEFINE Dropped(w, r) ==
              /\ work' = [w EXCEPT ![p] = r]
              /\ r.at = "answering" /\ r.op \in {"PUT", "DELETE"} /\ r.uri = uri
              /\ \A q \in Workers :
                     /\ SameJob(w, work, q)
                     /\ ~Shows(q, uri, "cache") /\ work[q].owner # p =>
                            w[q].owner = work[q].owner
                     /\ Shows(q, uri, "cache") =>
                            \/ w[q].owner = "gone"
                            \/ w[q].owner = p /\ r.op = "DELETE"
              /\ r.value = CachedOr(uri) \/ (r.op = "PUT" /\ r.value = Empty)
<1>8. PICK w \in [Workers -> Jobs], r \in Jobs : Dropped(w, r)
  <2>1. CASE DeleteUnknown(p, uri) \/ DeleteKnown(p, uri)
    <3>1. PICK st \in {200, 404}, r \in Jobs :
              /\ r = Answering("DELETE", uri, CachedOr(uri), "none", st)
              /\ work' = [TW EXCEPT ![p] = r]
              /\ r.at = "answering" /\ r.op = "DELETE" /\ r.uri = uri /\ r.value = CachedOr(uri)
      <4>1. PICK st \in {200, 404} :
                work' = [TW EXCEPT ![p] = Answering("DELETE", uri, CachedOr(uri), "none", st)]
        BY <2>1 DEF DeleteUnknown, DeleteKnown
      <4>2. PICK r \in Jobs :
                /\ r = Answering("DELETE", uri, CachedOr(uri), "none", st)
                /\ r.at = "answering" /\ r.op = "DELETE" /\ r.uri = uri
                /\ r.value = CachedOr(uri)
        <5> DEFINE r == Answering("DELETE", uri, CachedOr(uri), "none", st)
        <5>1. "DELETE" \in Ops /\ uri \in Uris \cup {<< >>} /\ "none" \in Owners
          BY <1>2 DEF Ops, Owners
        <5>2. CachedOr(uri) \in Contents
          BY <1>5
        <5>3. r \in Jobs /\ r.at = "answering" /\ r.op = "DELETE" /\ r.uri = uri
              /\ r.value = CachedOr(uri)
          BY <5>1, <5>2, AnswerFields
        <5> HIDE DEF r
        <5>4. r = Answering("DELETE", uri, CachedOr(uri), "none", st)
          BY DEF r
        <5> QED BY <5>3, <5>4
      <4> DEFINE to(a) == work' = [TW EXCEPT ![p] = a]
      <4>3. to(r)
        BY <4>1, <4>2
      <4> HIDE DEF to
      <4>4. \E a \in Jobs :
                /\ a = Answering("DELETE", uri, CachedOr(uri), "none", st)
                /\ to(a)
                /\ a.at = "answering" /\ a.op = "DELETE" /\ a.uri = uri
                /\ a.value = CachedOr(uri)
        BY <4>2, <4>3
      <4> QED BY <4>4 DEF to
    <3> HIDE DEF TW
    <3>2. \A q \in Workers :
              /\ SameJob(TW, work, q)
              /\ ~Shows(q, uri, "cache") /\ work[q].owner # p =>
                     TW[q].owner = work[q].owner
              /\ Shows(q, uri, "cache") =>
                     \/ TW[q].owner = "gone"
                     \/ TW[q].owner = p /\ r.op = "DELETE"
      BY <1>6, <3>1
    <3>3. Dropped(TW, r)
      BY <3>1, <3>2
    <3> HIDE DEF Dropped
    <3> QED BY <1>6, <3>3
  <2>2. ASSUME NEW new \in Documents, PutNotOpened(p, uri, new)
        PROVE  \E r \in Jobs :
                   /\ work' = [HW EXCEPT ![p] = r]
                   /\ r.at = "answering" /\ r.op = "PUT" /\ r.uri = uri /\ r.value = Empty
    <3>1. work' = [HW EXCEPT ![p] = Answering("PUT", uri, Empty, "none", 400)]
      BY <2>2 DEF PutNotOpened, HW
    <3>2. PICK r \in Jobs :
              /\ r = Answering("PUT", uri, Empty, "none", 400)
              /\ r.at = "answering" /\ r.op = "PUT" /\ r.uri = uri /\ r.value = Empty
      <4> DEFINE r == Answering("PUT", uri, Empty, "none", 400)
      <4>1. /\ "PUT" \in Ops /\ uri \in Uris \cup {<< >>} /\ "none" \in Owners
            /\ Empty \in Contents
        BY <1>2, Apart DEF Ops, Owners
      <4>2. r \in Jobs /\ r.at = "answering" /\ r.op = "PUT" /\ r.uri = uri /\ r.value = Empty
        BY <4>1, AnswerFields
      <4> HIDE DEF r
      <4>3. r = Answering("PUT", uri, Empty, "none", 400)
        BY DEF r
      <4> QED BY <4>2, <4>3
    <3> DEFINE to(a) == work' = [HW EXCEPT ![p] = a]
    <3>3. to(r)
      BY <3>1, <3>2
    <3>4. \E a \in Jobs :
              to(a) /\ a.at = "answering" /\ a.op = "PUT" /\ a.uri = uri /\ a.value = Empty
      <4> HIDE DEF to
      <4> QED BY <3>2, <3>3
    <3> QED BY <3>4
  <2>3. \A q \in Workers :
            /\ SameJob(HW, work, q)
            /\ ~Shows(q, uri, "cache") /\ work[q].owner # p => HW[q].owner = work[q].owner
            /\ Shows(q, uri, "cache") => HW[q].owner = "gone"
    <3> HIDE DEF TW
    <3> QED BY <1>6, <1>7 DEF SameJob, Shows
  <2>4. CASE \E new \in Documents : PutNotOpened(p, uri, new)
    <3>1. PICK r \in Jobs :
              /\ work' = [HW EXCEPT ![p] = r]
              /\ r.at = "answering" /\ r.op = "PUT" /\ r.uri = uri /\ r.value = Empty
      BY <2>2, <2>4
    <3>2. Dropped(HW, r)
      BY <2>3, <3>1
    <3> HIDE DEF Dropped
    <3> QED BY <1>7, <3>2
  <2> QED BY <1>1, <2>1, <2>4
<1>9. /\ work' \in [Workers -> Jobs] /\ work'[p] = r
      /\ \A q \in Workers \ {p} : work'[q] = w[q] /\ SameJob(work', work, q)
  <2>1. work' \in [Workers -> Jobs] /\ work'[p] = r /\ \A q \in Workers \ {p} : work'[q] = w[q]
    BY <1>8, JobReplaced
  <2> QED BY <1>8, <2>1 DEF SameJob
<1>10. \A u \in ValidUris : cache'[u] = IF u = uri THEN Absent ELSE cache[u]
  BY <1>0, <1>3 DEF StoreTypes
<1>11. TypeInv'
  <2>1. StoreTypes'
    BY <1>0, <1>2, <1>3, <1>4 DEF StoreTypes
  <2>2. WorkTypes'
    BY <1>9 DEF WorkTypes
  <2> QED BY <2>1, <2>2, TypesApart, PTL
<1>12. \A q \in Workers : ~Writing(q)'
  BY <1>3, <1>8, <1>9 DEF Writing, SameJob
<1>13. LockInv'
  BY <1>3, <1>12, Apart DEF IInv, LockInv
<1>14. JobInv'
  BY <1>8, <1>9, <1>12 DEF IInv, JobInv, JobOk, SameJob
<1>15. FileInv'
  <2>1. \A f \in Paths : disk'[f] \in ever[f] \cup {Absent, Empty}
    <3>1. \A f \in Paths : disk[f] \in ever[f] \cup {Absent, Empty}
      BY <1>3 DEF IInv, FileInv, Written
    <3> QED BY <1>0, <1>4, <3>1 DEF StoreTypes
  <2>2. \A f \in Paths : last'[f] # Torn => disk'[f] = last'[f]
    BY <1>0, <1>4 DEF StoreTypes, IInv, FileInv
  <2>3. \A u \in ValidUris : cache'[u] \in ever[NormalizePath(u)] \cup {Absent, Empty}
    BY <1>10 DEF IInv, FileInv
  <2>4. \A q \in Workers : work'[q].status = 200 /\ work'[q].value # Empty =>
                               work'[q].value \in ever[NormalizePath(work'[q].uri)]
    BY <1>5, <1>8, <1>9 DEF IInv, FileInv, SameJob
  <2>5. \A f \in Paths : last'[f] = Torn => f \in cut
    <3>1. \A f \in Paths : last[f] = Torn => f \in cut
      BY <1>3 DEF IInv, FileInv, Written
    <3> QED BY <1>0, <1>4, <3>1, Apart DEF StoreTypes
  <2>6. \A f \in Paths : Torn \in ever[f] => f \in cut
    BY DEF IInv, FileInv
  <2> QED BY <1>3, <2>1, <2>2, <2>3, <2>4, <2>5, <2>6 DEF FileInv
<1>16. ViewInv'
  <2>1. \A q \in Workers \ {p} :
            /\ ~Shows(q, uri, "cache") /\ work[q].owner # p => work'[q].owner = work[q].owner
            /\ Shows(q, uri, "cache") =>
                   \/ work'[q].owner = "gone"
                   \/ /\ work'[q].owner = p /\ work'[p].op = "DELETE"
                      /\ work'[p].uri = uri /\ work'[p].value = CachedOr(uri)
    BY <1>8, <1>9
  <2>2. work'[p].op # "GET" /\ \A q \in Workers \ {p} : SameJob(work', work, q)
    BY <1>8, <1>9
  <2> HIDE DEF Dropped
  <2> QED BY <1>3, <1>10, <2>1, <2>2, DroppedViews
<1> QED BY <1>11, <1>13, <1>14, <1>15, <1>16 DEF IInv

\* A request that is refused touches nothing.
LEMMA RefuseStep ==
    ASSUME IInv, NEW p \in Workers, NEW op \in Ops \ {"none"}, NEW u \in Uris,
           Refuse(p, op, u)
    PROVE  IInv'
<1> USE DEF ghosts
<1>0. TypeInv /\ StoreTypes /\ work \in [Workers -> Jobs]
  BY TypesApart DEF IInv, WorkTypes
<1>1. /\ work[p].at = "idle" /\ UNCHANGED <<cache, disk, holder, open, last, ever, cut, leaked>>
      /\ \E st \in {400, 404} :
             work' = [work EXCEPT ![p] = Answering("other", << >>, Empty, "none", st)]
  <2> DEFINE status == IF op = "other" THEN 404 ELSE 400
             to(st) == [work EXCEPT ![p] = Answering("other", << >>, Empty, "none", st)]
  <2>1. work[p].at = "idle" /\ UNCHANGED <<cache, disk, holder, open, last, ever, cut, leaked>>
    BY DEF Refuse
  <2>2. work' = to(status)
    BY DEF Refuse
  <2>3. status \in {400, 404}
    OBVIOUS
  <2>4. \E st \in {400, 404} : work' = to(st)
    <3> HIDE DEF status, to
    <3> QED BY <2>2, <2>3
  <2> QED BY <2>1, <2>4
<1>2. PICK r \in Jobs :
          /\ work' = [work EXCEPT ![p] = r]
          /\ r.at = "answering" /\ r.op = "other" /\ r.status # 200 /\ r.value = Empty
  <2>1. PICK st \in {400, 404} :
            work' = [work EXCEPT ![p] = Answering("other", << >>, Empty, "none", st)]
    BY <1>1
  <2> DEFINE a == Answering("other", << >>, Empty, "none", st)
  <2>2. "other" \in Ops /\ << >> \in Uris \cup {<< >>} /\ "none" \in Owners
    BY DEF Ops, Owners
  <2>3. /\ a \in Jobs /\ a.at = "answering" /\ a.op = "other"
        /\ a.status = st /\ a.value = Empty
    BY <2>2, Apart, AnswerFields
  <2>4. work' = [work EXCEPT ![p] = a] /\ a.status # 200
    BY <2>1, <2>3
  <2> HIDE DEF a
  <2> QED BY <2>3, <2>4
<1>3. work' \in [Workers -> Jobs] /\ work'[p] = r /\ \A q \in Workers \ {p} : work'[q] = work[q]
  BY <1>0, <1>2, JobReplaced
<1>4. \A q \in Workers : Writing(q)' <=> Writing(q)
  BY <1>1, <1>2, <1>3 DEF Writing
<1>5. TypeInv'
  <2>1. StoreTypes' /\ WorkTypes'
    BY <1>0, <1>1, <1>3 DEF StoreTypes, WorkTypes
  <2> QED BY <2>1, TypesApart, PTL
<1>6. LockInv'
  BY <1>1, <1>4 DEF IInv, LockInv
<1>7. JobInv'
  BY <1>1, <1>2, <1>3, <1>4 DEF IInv, JobInv, JobOk, Writing
<1>8. FileInv'
  <2>1. \A f \in Paths : Written(f)' <=> Written(f)
    BY <1>1, <1>2, <1>3 DEF Written, Writing
  <2> QED BY <1>1, <1>2, <1>3, <2>1 DEF IInv, FileInv
<1>9. ViewInv'
  <2>1. ASSUME NEW q \in Workers \ {p}, work[q].op = "GET", Backed(q)
        PROVE  Backed(q)'
    <3>1. work[q].owner # p /\ work'[q] = work[q]
      BY <1>0, <1>1, <1>3, <2>1, Unseen DEF IInv
    <3> QED BY <1>1, <1>3, <2>1, <3>1 DEF Backed, Writing
  <2> QED BY <1>2, <1>3, <2>1 DEF IInv, ViewInv
<1> QED BY <1>5, <1>6, <1>7, <1>8, <1>9 DEF IInv

\* When on_request ends, the bytes it owns are freed.
LEMMA AnswerStep ==
    ASSUME IInv, NEW p \in Workers, Answer(p)
    PROVE  IInv'
<1> USE DEF ghosts
<1>0. TypeInv /\ StoreTypes /\ work \in [Workers -> Jobs]
  BY TypesApart DEF IInv, WorkTypes
<1> DEFINE w == Handed(work, p, "gone")
<1>1. /\ work[p].at = "answering" /\ work' = [w EXCEPT ![p] = Idle]
      /\ UNCHANGED <<cache, disk, holder, open, last, ever, cut, leaked>>
  BY DEF Answer
<1>2. /\ w \in [Workers -> Jobs]
      /\ \A q \in Workers :
             /\ SameJob(w, work, q)
             /\ w[q].owner = IF work[q].op = "GET" /\ work[q].owner = p
                             THEN "gone" ELSE work[q].owner
  BY <1>0, HandedOwners DEF Owners
<1> HIDE DEF w
<1>3. /\ work' \in [Workers -> Jobs] /\ work'[p] = Idle
      /\ \A q \in Workers \ {p} :
             /\ SameJob(work', work, q)
             /\ work'[q].owner = IF work[q].op = "GET" /\ work[q].owner = p
                                 THEN "gone" ELSE work[q].owner
  <2>1. work' \in [Workers -> Jobs] /\ work'[p] = Idle /\ \A q \in Workers \ {p} : work'[q] = w[q]
    BY <1>1, <1>2, IdleFields, JobReplaced
  <2> QED BY <1>2, <2>1 DEF SameJob
<1>4. \A q \in Workers : Writing(q)' <=> Writing(q)
  BY <1>1, <1>3, IdleFields DEF Writing, SameJob
<1>5. TypeInv'
  <2>1. StoreTypes' /\ WorkTypes'
    BY <1>0, <1>1, <1>3 DEF StoreTypes, WorkTypes
  <2> QED BY <2>1, TypesApart, PTL
<1>6. LockInv'
  BY <1>1, <1>4 DEF IInv, LockInv
<1>7. JobInv'
  <2> SUFFICES ASSUME NEW q \in Workers
               PROVE  JobOk(q)'
    BY DEF JobInv
  <2>1. CASE q = p
    BY <1>3, <2>1, IdleFields DEF JobOk, Writing
  <2>2. CASE q # p
    BY <1>1, <1>3, <1>4, <2>2 DEF IInv, JobInv, JobOk, SameJob
  <2> QED BY <2>1, <2>2
<1>8. FileInv'
  <2>1. \A f \in Paths : Written(f)' <=> Written(f)
    BY <1>1, <1>3, IdleFields DEF Written, Writing, SameJob
  <2> QED BY <1>1, <1>3, <2>1, IdleFields DEF IInv, FileInv, SameJob
<1>9. ViewInv'
  <2>1. ASSUME NEW q \in Workers \ {p}, work[q].op = "GET", Backed(q)
        PROVE  Backed(q)'
    <3>1. CASE work[q].owner = p
      BY <1>3, <2>1, <3>1 DEF Backed
    <3>2. CASE work[q].owner # p
      BY <1>1, <1>3, <2>1, <3>2 DEF Backed, Writing, SameJob
    <3> QED BY <3>1, <3>2
  <2>2. \A q \in Workers \ {p} : work[q].owner = "none" => work'[q].owner = "none"
    BY <1>3, Apart
  <2> QED BY <1>3, <2>1, <2>2, IdleFields DEF IInv, ViewInv, SameJob
<1> QED BY <1>5, <1>6, <1>7, <1>8, <1>9 DEF IInv

\* A restart forgets all but the files; what they hold by now is what they hold.
LEMMA RestartStep ==
    ASSUME IInv, Restart
    PROVE  IInv'
<1>0. TypeInv /\ StoreTypes
  BY TypesApart DEF IInv
<1>1. /\ \A u \in ValidUris : cache'[u] = Absent
      /\ \A p \in Workers : work'[p] = Idle
      /\ holder' = "free" /\ open' = 0 /\ UNCHANGED <<disk, last>>
      /\ \A f \in Paths : ever'[f] = ever[f] \cup ({disk[f]} \ {Absent, Empty})
      /\ cut' = cut \cup {f \in Paths : Written(f)} /\ leaked' = 0
  BY DEF Restart
<1>2. TypeInv'
  <2>1. WorkTypes'
    BY IdleFields DEF Restart, WorkTypes
  <2>2. ever' \in [Paths -> SUBSET Contents]
    <3>1. \A f \in Paths : ever[f] \cup ({disk[f]} \ {Absent, Empty}) \in SUBSET Contents
      BY <1>0 DEF StoreTypes
    <3> QED BY <3>1 DEF Restart
  <2>3. cache' \in [ValidUris -> Contents \cup {Absent}]
    BY DEF Restart
  <2>4. StoreTypes'
    BY <1>0, <1>1, <2>2, <2>3, CacheAssumption DEF StoreTypes
  <2> QED BY <2>1, <2>4, TypesApart, PTL
<1>3. LockInv'
  BY <1>1, IdleFields, Apart DEF LockInv, Writing
<1>4. JobInv'
  BY <1>1, IdleFields DEF JobInv, JobOk, Writing
<1>5. FileInv'
  <2>1. \A f \in Paths : disk'[f] \in ever'[f] \cup {Absent, Empty}
    BY <1>1
  <2>2. \A f \in Paths : last[f] = Torn => f \in cut'
    BY <1>1 DEF IInv, FileInv
  <2>3. \A f \in Paths : Torn \in ever'[f] => f \in cut'
    BY <1>1, Apart DEF IInv, FileInv
  <2>4. \A f \in Paths : last[f] # Torn => disk[f] = last[f]
    BY DEF IInv, FileInv
  <2> QED BY <1>1, <2>1, <2>2, <2>3, <2>4, IdleFields DEF FileInv
<1>6. ViewInv'
  BY <1>1, IdleFields DEF ViewInv
<1> QED BY <1>2, <1>3, <1>4, <1>5, <1>6 DEF IInv

-------------------------------------------------------------------------------
(* A PUT writes *)

\* The PUT has the lock, and its file is torn from now on.
LEMMA PutOpenStep ==
    ASSUME IInv, NEW p \in Workers, NEW uri \in ValidUris, NEW new \in Documents,
           PutOpen(p, uri, new)
    PROVE  IInv'
<1> DEFINE TW == Taken(p, uri)
           path == NormalizePath(uri)
<1>0. TypeInv /\ StoreTypes /\ work \in [Workers -> Jobs]
  BY TypesApart DEF IInv, WorkTypes
<1>1. path \in Paths /\ uri \in Uris
  BY PathOf
<1>2. /\ holder = "free" /\ work[p].at = "idle" /\ open < MaxOpen
      /\ open' = open + 1 /\ holder' = p /\ UNCHANGED <<ever, cut, leaked>>
      /\ cache' = [cache EXCEPT ![uri] = Absent]
      /\ disk' = [disk EXCEPT ![path] = Empty]
      /\ last' = [last EXCEPT ![path] = Torn]
  BY DEF PutOpen, Locked
<1>3. \A q \in Workers : ~Writing(q)
  BY <1>2, Apart DEF IInv, LockInv
<1>4. CachedOr(uri) \in Contents /\ CachedOr(uri) \in ever[path] \cup {Empty}
  <2>1. cache[uri] \in Contents \cup {Absent}
    BY <1>0 DEF StoreTypes
  <2> QED BY <2>1, Apart DEF CachedOr, IInv, FileInv
<1>5. PICK r \in Jobs :
          /\ work' = [TW EXCEPT ![p] = r]
          /\ r.at = "writing" /\ r.op = "PUT" /\ r.uri = uri /\ r.new = new
          /\ r.value = CachedOr(uri) /\ r.status = 0
  <2> DEFINE r == [at |-> "writing", op |-> "PUT", uri |-> uri, new |-> new,
                   value |-> CachedOr(uri), owner |-> "none", status |-> 0]
  <2>1. work' = [TW EXCEPT ![p] = r]
    BY DEF PutOpen
  <2>2. r \in Jobs
    BY <1>1, <1>4 DEF Jobs, Ops, Owners
  <2>3. /\ r.at = "writing" /\ r.op = "PUT" /\ r.uri = uri /\ r.new = new
        /\ r.value = CachedOr(uri) /\ r.status = 0
    OBVIOUS
  <2> HIDE DEF r, TW
  <2> QED BY <2>1, <2>2, <2>3
<1>6. /\ TW \in [Workers -> Jobs]
      /\ \A q \in Workers :
             /\ SameJob(TW, work, q)
             /\ TW[q].owner = IF Shows(q, uri, "cache")
                              THEN IF work[q].value \in Short THEN "gone" ELSE p
                              ELSE work[q].owner
  BY <1>0, TakenOwners
<1> HIDE DEF TW, path
<1>7. /\ work' \in [Workers -> Jobs] /\ work'[p] = r
      /\ \A q \in Workers \ {p} :
             /\ SameJob(work', work, q)
             /\ work'[q].owner = IF Shows(q, uri, "cache")
                                 THEN IF work[q].value \in Short THEN "gone" ELSE p
                                 ELSE work[q].owner
  <2>1. work' \in [Workers -> Jobs] /\ work'[p] = r /\ \A q \in Workers \ {p} : work'[q] = TW[q]
    BY <1>5, <1>6, JobReplaced
  <2> QED BY <1>6, <2>1 DEF SameJob
<1>8. /\ \A u \in ValidUris : cache'[u] = IF u = uri THEN Absent ELSE cache[u]
      /\ \A f \in Paths : /\ disk'[f] = IF f = path THEN Empty ELSE disk[f]
                          /\ last'[f] = IF f = path THEN Torn ELSE last[f]
  BY <1>0, <1>2 DEF StoreTypes
<1>9. \A q \in Workers : Writing(q)' <=> q = p
  BY <1>3, <1>5, <1>7 DEF Writing, SameJob
<1>10. TypeInv'
  <2>1. cache' \in [ValidUris -> Contents \cup {Absent}]
    BY <1>0, <1>2 DEF StoreTypes
  <2>2. disk' \in [Paths -> Contents \cup {Absent}]
    BY <1>0, <1>2, Apart DEF StoreTypes
  <2>3. last' \in [Paths -> Documents \cup {Torn, Absent}]
    BY <1>0, <1>2 DEF StoreTypes
  <2>4. open' \in 0 .. MaxOpen
    BY <1>0, <1>2, CacheAssumption DEF StoreTypes
  <2>5. StoreTypes' /\ WorkTypes'
    BY <1>0, <1>2, <1>7, <2>1, <2>2, <2>3, <2>4 DEF StoreTypes, WorkTypes
  <2> QED BY <2>5, TypesApart, PTL
<1>11. LockInv'
  <2>1. open \in Nat /\ leaked \in Nat /\ p # "free"
    BY <1>0, Apart DEF StoreTypes
  <2>2. open = leaked
    BY <1>2, <2>1 DEF IInv, LockInv
  <2> QED BY <1>2, <1>9, <2>1, <2>2 DEF LockInv
<1>12. JobInv'
  <2> SUFFICES ASSUME NEW q \in Workers
               PROVE  JobOk(q)'
    BY DEF JobInv
  <2>1. CASE q = p
    BY <1>1, <1>2, <1>4, <1>5, <1>7, <1>8, <2>1, Apart DEF JobOk, path
  <2>2. CASE q # p
    BY <1>7, <1>9, <2>2 DEF IInv, JobInv, JobOk, SameJob
  <2> QED BY <2>1, <2>2
<1>13. FileInv'
  <2>1. \A f \in Paths : disk'[f] \in ever[f] \cup {Absent, Empty}
    BY <1>3, <1>8 DEF IInv, FileInv, Written
  <2>2. \A f \in Paths : last'[f] # Torn => disk'[f] = last'[f]
    BY <1>8 DEF IInv, FileInv
  <2>3. \A u \in ValidUris : cache'[u] \in ever[NormalizePath(u)] \cup {Absent, Empty}
    BY <1>8 DEF IInv, FileInv
  <2>4. \A q \in Workers : work'[q].status = 200 /\ work'[q].value # Empty =>
                               work'[q].value \in ever[NormalizePath(work'[q].uri)]
    BY <1>5, <1>7 DEF IInv, FileInv, SameJob
  <2>5. Written(path)' /\ \A f \in Paths : f # path /\ last'[f] = Torn => f \in cut
    <3>1. Written(path)'
      BY <1>5, <1>7, <1>9 DEF Written, path
    <3>2. \A f \in Paths : last[f] = Torn => f \in cut
      BY <1>3 DEF IInv, FileInv, Written
    <3> QED BY <1>8, <3>1, <3>2
  <2>6. \A f \in Paths : Torn \in ever[f] => f \in cut
    BY DEF IInv, FileInv
  <2> QED BY <1>2, <2>1, <2>2, <2>3, <2>4, <2>5, <2>6 DEF FileInv
<1>14. ViewInv'
  <2>1. Writing(p)' /\ work'[p].op # "GET" /\ work'[p].uri = uri /\ work'[p].value = CachedOr(uri)
    BY <1>5, <1>7, <1>9
  <2> QED BY <1>2, <1>7, <1>8, <2>1, DroppedViews
<1> QED BY <1>10, <1>11, <1>12, <1>13, <1>14 DEF IInv

\* The file is torn while the PUT writes.
LEMMA PutWriteStep ==
    ASSUME IInv, NEW p \in Workers, PutWritePart(p)
    PROVE  IInv'
<1> USE DEF ghosts
<1>0. TypeInv /\ StoreTypes
  BY TypesApart DEF IInv
<1>1. /\ Writing(p) /\ work[p].uri \in ValidUris
      /\ last[NormalizePath(work[p].uri)] = Torn
  BY DEF PutWritePart, IInv, JobInv, JobOk
<1>2. PICK path \in Paths : path = NormalizePath(work[p].uri)
  BY <1>1, PathOf
<1>3. /\ disk' = [disk EXCEPT ![path] = Torn]
      /\ UNCHANGED <<cache, holder, work, open, last, ever, cut, leaked>>
  BY <1>2 DEF PutWritePart
<1>4. \A f \in Paths : disk'[f] = IF f = path THEN Torn ELSE disk[f]
  BY <1>0, <1>3 DEF StoreTypes
<1>5. TypeInv'
  <2>1. disk' \in [Paths -> Contents \cup {Absent}]
    BY <1>0, <1>3, Apart DEF StoreTypes
  <2>2. StoreTypes' /\ WorkTypes'
    BY <1>0, <1>3, <2>1 DEF StoreTypes, TypeInv, WorkTypes
  <2> QED BY <2>2, TypesApart, PTL
<1>6. LockInv'
  BY <1>3 DEF IInv, LockInv, Writing
<1>7. JobInv'
  <2> SUFFICES ASSUME NEW q \in Workers
               PROVE  JobOk(q)'
    BY DEF JobInv
  <2>1. Writing(q) => disk'[NormalizePath(work[q].uri)] # Absent
    <3> SUFFICES ASSUME Writing(q)
                 PROVE  disk'[NormalizePath(work[q].uri)] # Absent
      OBVIOUS
    <3>1. work[q].uri \in ValidUris /\ disk[NormalizePath(work[q].uri)] # Absent
      BY DEF IInv, JobInv, JobOk
    <3> QED BY <1>4, <3>1, PathOf, Apart
  <2> QED BY <1>3, <2>1 DEF IInv, JobInv, JobOk, Writing
<1>8. FileInv'
  <2>1. Written(path)'
    BY <1>1, <1>2, <1>3 DEF Written, Writing
  <2>2. \A f \in Paths : Written(f)' <=> Written(f)
    BY <1>3 DEF Written, Writing
  <2>3. \A f \in Paths : last[f] # Torn => f # path
    BY <1>1, <1>2
  <2>4. \A f \in Paths : Written(f)' \/ disk'[f] \in ever[f] \cup {Absent, Empty}
    BY <1>4, <2>1, <2>2 DEF IInv, FileInv
  <2>5. \A f \in Paths : last[f] # Torn => disk'[f] = last[f]
    BY <1>4, <2>3 DEF IInv, FileInv
  <2>6. \A f \in Paths : last[f] = Torn => Written(f)' \/ f \in cut
    BY <2>2 DEF IInv, FileInv
  <2> QED BY <1>3, <2>4, <2>5, <2>6 DEF IInv, FileInv
<1>9. ViewInv'
  BY <1>3 DEF IInv, ViewInv, Backed, Writing
<1> QED BY <1>5, <1>6, <1>7, <1>8, <1>9 DEF IInv

\* The old content is cached again, whatever the file holds.
LEMMA PutEndStep ==
    ASSUME IInv, NEW p \in Workers, NEW whole \in BOOLEAN, PutEnd(p, whole)
    PROVE  IInv'
<1>0. TypeInv /\ StoreTypes /\ work \in [Workers -> Jobs]
  BY TypesApart DEF IInv, WorkTypes
<1>1. /\ Writing(p) /\ holder = p
      /\ work[p].uri \in ValidUris /\ work[p].new \in Documents /\ work[p].op = "PUT"
      /\ work[p].value \in ever[NormalizePath(work[p].uri)] \cup {Empty}
      /\ cache[work[p].uri] = Absent
      /\ disk[NormalizePath(work[p].uri)] # Absent
      /\ work[p].value \in Contents
  BY <1>0, JobTypes DEF PutEnd, IInv, JobInv, JobOk, LockInv
<1>2. PICK uri \in ValidUris, path \in Paths, new \in Documents, value \in Contents :
          /\ uri = work[p].uri /\ path = NormalizePath(uri) /\ new = work[p].new
          /\ value = work[p].value /\ value \in ever[path] \cup {Empty}
  BY <1>1, PathOf
<1> DEFINE w == Handed(work, p, "cache")
<1>3. /\ disk' = IF whole THEN [disk EXCEPT ![path] = new] ELSE disk
      /\ open' = open - 1 /\ holder' = "free"
      /\ cache' = [cache EXCEPT ![uri] = value]
      /\ last' = IF whole THEN [last EXCEPT ![path] = new] ELSE last
      /\ ever' = [ever EXCEPT ![path] = @ \cup ({disk'[path]} \ {Empty})]
      /\ work' = [w EXCEPT ![p] = Answering("PUT", uri, Empty, "none", 200)]
      /\ cut' = (IF whole THEN cut ELSE cut \cup {path}) /\ UNCHANGED leaked
  BY <1>2 DEF PutEnd, Saved
<1>4. PICK r \in Jobs :
          /\ work' = [w EXCEPT ![p] = r]
          /\ r.at = "answering" /\ r.op = "PUT" /\ r.uri = uri /\ r.value = Empty
  <2> DEFINE a == Answering("PUT", uri, Empty, "none", 200)
  <2>1. "PUT" \in Ops /\ uri \in Uris \cup {<< >>} /\ "none" \in Owners
    BY PathOf DEF Ops, Owners
  <2>2. a \in Jobs /\ a.at = "answering" /\ a.op = "PUT" /\ a.uri = uri /\ a.value = Empty
    BY <2>1, Apart, AnswerFields
  <2>3. work' = [w EXCEPT ![p] = a]
    BY <1>3
  <2> HIDE DEF a, w
  <2> QED BY <2>2, <2>3
<1>5. /\ w \in [Workers -> Jobs]
      /\ \A q \in Workers :
             /\ SameJob(w, work, q)
             /\ w[q].owner = IF work[q].op = "GET" /\ work[q].owner = p
                             THEN "cache" ELSE work[q].owner
  BY <1>0, HandedOwners DEF Owners
<1> HIDE DEF w
<1>6. /\ work' \in [Workers -> Jobs] /\ work'[p] = r
      /\ \A q \in Workers \ {p} :
             /\ SameJob(work', work, q)
             /\ work'[q].owner = IF work[q].op = "GET" /\ work[q].owner = p
                                 THEN "cache" ELSE work[q].owner
  <2>1. work' \in [Workers -> Jobs] /\ work'[p] = r /\ \A q \in Workers \ {p} : work'[q] = w[q]
    BY <1>4, <1>5, JobReplaced
  <2> QED BY <1>5, <2>1 DEF SameJob
<1>7. disk' \in [Paths -> Contents \cup {Absent}] /\ disk'[path] \in Contents
  <2>1. new \in Contents /\ disk[path] \in Contents
    BY <1>0, <1>1, <1>2 DEF StoreTypes, Contents
  <2> QED BY <1>0, <1>3, <2>1 DEF StoreTypes
<1>8. /\ \A u \in ValidUris : cache'[u] = IF u = uri THEN value ELSE cache[u]
      /\ \A f \in Paths : /\ f # path => disk'[f] = disk[f] /\ last'[f] = last[f]
                          /\ f # path => ever'[f] = ever[f]
                          /\ ever[f] \subseteq ever'[f]
      /\ ever'[path] = ever[path] \cup ({disk'[path]} \ {Empty})
  BY <1>0, <1>3 DEF StoreTypes
<1>9. \A q \in Workers : ~Writing(q)'
  <2>1. \A q \in Workers : q # p => ~Writing(q)
    BY <1>1 DEF IInv, LockInv
  <2> QED BY <1>4, <1>6, <2>1 DEF Writing, SameJob
<1>10. leaked \in Nat /\ open \in Nat /\ open = leaked + 1
  BY <1>0, <1>1, Apart DEF IInv, LockInv, StoreTypes
<1>11. TypeInv'
  <2>1. cache' \in [ValidUris -> Contents \cup {Absent}]
    BY <1>0, <1>3 DEF StoreTypes
  <2>2. last' \in [Paths -> Documents \cup {Torn, Absent}]
    BY <1>0, <1>3 DEF StoreTypes
  <2>3. ever' \in [Paths -> SUBSET Contents]
    <3>1. ever[path] \cup ({disk'[path]} \ {Empty}) \in SUBSET Contents
      BY <1>0, <1>7 DEF StoreTypes
    <3> QED BY <1>0, <1>3, <3>1 DEF StoreTypes
  <2>4. open' \in 0 .. MaxOpen
    BY <1>0, <1>3, <1>10, CacheAssumption DEF StoreTypes
  <2>5. holder' \in Workers \cup {"free"}
    BY <1>3
  <2>6. cut' \subseteq Paths /\ leaked' \in 0 .. MaxOpen
    BY <1>0, <1>3 DEF StoreTypes
  <2>7. StoreTypes' /\ WorkTypes'
    BY <1>6, <1>7, <2>1, <2>2, <2>3, <2>4, <2>5, <2>6 DEF StoreTypes, WorkTypes
  <2> QED BY <2>7, TypesApart, PTL
<1>12. LockInv'
  <2>1. open' = leaked' + 0
    BY <1>3, <1>10
  <2> QED BY <1>3, <1>9, <2>1, Apart DEF LockInv
<1>13. JobInv'
  BY <1>4, <1>6, <1>9 DEF IInv, JobInv, JobOk, SameJob
<1>14. FileInv'
  <2>1. \A f \in Paths : disk'[f] \in ever'[f] \cup {Absent, Empty}
    <3>1. ASSUME NEW f \in Paths, f # path
          PROVE  disk[f] \in ever[f] \cup {Absent, Empty}
      <4>1. ~Written(f)
        BY <1>1, <1>2, <3>1 DEF Written, IInv, LockInv
      <4> QED BY <4>1 DEF IInv, FileInv
    <3> QED BY <1>8, <3>1
  <2>2. \A f \in Paths : last'[f] # Torn => disk'[f] = last'[f]
    <3>1. last'[path] # Torn => disk'[path] = last'[path]
      BY <1>0, <1>3 DEF StoreTypes, IInv, FileInv
    <3> QED BY <1>8, <3>1 DEF IInv, FileInv
  <2>3. \A u \in ValidUris : cache'[u] \in ever'[NormalizePath(u)] \cup {Absent, Empty}
    <3> SUFFICES ASSUME NEW u \in ValidUris
                 PROVE  cache'[u] \in ever'[NormalizePath(u)] \cup {Absent, Empty}
      OBVIOUS
    <3>1. ever[NormalizePath(u)] \subseteq ever'[NormalizePath(u)]
      BY <1>8, PathOf
    <3> QED BY <1>2, <1>8, <3>1 DEF IInv, FileInv
  <2>4. ASSUME NEW q \in Workers, work'[q].status = 200, work'[q].value # Empty
        PROVE  work'[q].value \in ever'[NormalizePath(work'[q].uri)]
    <3>1. q # p /\ SameJob(work', work, q)
      BY <1>4, <1>6, <2>4
    <3>2. /\ work[q].uri \in ValidUris
          /\ work[q].value \in ever[NormalizePath(work[q].uri)]
      BY <2>4, <3>1 DEF SameJob, IInv, JobInv, JobOk, FileInv
    <3>3. ever[NormalizePath(work[q].uri)] \subseteq ever'[NormalizePath(work[q].uri)]
      BY <1>8, <3>2, PathOf
    <3> QED BY <3>1, <3>2, <3>3 DEF SameJob
  <2>5. \A f \in Paths : last'[f] = Torn => f \in cut'
    <3>1. ASSUME NEW f \in Paths, f # path, last[f] = Torn
          PROVE  f \in cut
      <4>1. ~Written(f)
        BY <1>1, <1>2, <3>1 DEF Written, IInv, LockInv
      <4> QED BY <3>1, <4>1 DEF IInv, FileInv
    <3>2. last'[path] = Torn => path \in cut'
      BY <1>0, <1>3, Apart DEF StoreTypes
    <3> QED BY <1>3, <1>8, <3>1, <3>2
  <2>6. \A f \in Paths : Torn \in ever'[f] => f \in cut'
    <3>1. \A f \in Paths : Torn \in ever[f] => f \in cut
      BY DEF IInv, FileInv
    <3>2. whole => disk'[path] # Torn
      BY <1>0, <1>3, Apart DEF StoreTypes
    <3> QED BY <1>3, <1>8, <3>1, <3>2
  <2> QED BY <2>1, <2>2, <2>3, <2>4, <2>5, <2>6 DEF FileInv
<1>15. ViewInv'
  <2>1. ASSUME NEW q \in Workers \ {p}, work[q].op = "GET", Backed(q)
        PROVE  Backed(q)'
    <3>1. SameJob(work', work, q) /\ work[q].value \in Contents /\ work[q].uri \in ValidUris
      BY <1>0, <1>6, <2>1, JobTypes DEF IInv, JobInv, JobOk
    <3>2. CASE work[q].owner = p
      <4>1. work[q].uri = uri /\ work[q].value = value
        BY <1>2, <2>1, <3>2, Apart DEF Backed
      <4> QED BY <1>6, <1>8, <2>1, <3>1, <3>2, <4>1 DEF Backed, SameJob
    <3>3. CASE work[q].owner = "gone"
      BY <1>6, <3>3, Apart DEF Backed
    <3>4. CASE work[q].owner = "cache" /\ cache[work[q].uri] = work[q].value
      <4>1. work[q].uri # uri
        BY <1>1, <1>2, <3>1, <3>4, Apart
      <4>2. work'[q].owner = "cache"
        BY <1>6, <3>4, Apart
      <4> QED BY <1>8, <3>1, <3>4, <4>1, <4>2 DEF Backed, SameJob
    <3>5. ASSUME NEW t \in Workers \ {p}, work[q].owner = t,
                 work[t].op = "DELETE" \/ Writing(t),
                 work[t].uri = work[q].uri, work[t].value = work[q].value
          PROVE  Backed(q)'
      <4>1. work[t].op = "DELETE" /\ SameJob(work', work, t)
        BY <1>1, <1>6, <3>5 DEF IInv, LockInv
      <4>2. work'[q].owner = t
        BY <1>6, <3>5
      <4> QED BY <3>1, <3>5, <4>1, <4>2 DEF Backed, SameJob
    <3> QED BY <2>1, <3>2, <3>3, <3>4, <3>5 DEF Backed
  <2>2. \A q \in Workers \ {p} : work[q].owner = "none" => work'[q].owner = "none"
    BY <1>6, Apart
  <2>3. work'[p].op # "GET"
    BY <1>4, <1>6
  <2> QED BY <1>6, <2>1, <2>2, <2>3 DEF IInv, ViewInv, SameJob
<1> QED BY <1>11, <1>12, <1>13, <1>14, <1>15 DEF IInv

-------------------------------------------------------------------------------
(* The theorems *)

\* A store that was just opened has cached nothing.
LEMMA InitIInv == Init => IInv
<1> SUFFICES ASSUME Init
             PROVE  IInv
  OBVIOUS
<1>1. /\ \A u \in ValidUris : cache[u] = Absent
      /\ \A p \in Workers : work[p] = Idle
      /\ holder = "free" /\ open = 0 /\ last = disk
      /\ \A f \in Paths : /\ disk[f] \in Documents \cup {Absent}
                          /\ ever[f] = {disk[f]} \ {Absent}
      /\ cut = {} /\ leaked = 0
  BY DEF Init
<1>2. TypeInv
  <2>1. WorkTypes
    BY IdleFields DEF Init, WorkTypes
  <2>2. disk \in [Paths -> Documents \cup {Absent}]
    BY DEF Init
  <2>3. ever \in [Paths -> SUBSET Contents]
    <3>1. \A f \in Paths : {disk[f]} \ {Absent} \in SUBSET Contents
      BY <2>2 DEF Contents
    <3> QED BY <3>1 DEF Init
  <2>4. cache \in [ValidUris -> Contents \cup {Absent}]
    BY DEF Init
  <2>5. StoreTypes
    BY <1>1, <2>2, <2>3, <2>4, CacheAssumption DEF StoreTypes, Contents
  <2> QED BY <2>1, <2>5, TypesApart
<1>3. LockInv
  BY <1>1, IdleFields, Apart DEF LockInv, Writing
<1>4. JobInv
  BY <1>1, IdleFields DEF JobInv, JobOk, Writing
<1>5. FileInv
  BY <1>1, IdleFields, Apart DEF FileInv
<1>6. ViewInv
  BY <1>1, IdleFields DEF ViewInv
<1> QED BY <1>2, <1>3, <1>4, <1>5, <1>6 DEF IInv

\* Every request, every step of a PUT and every restart keeps the invariant.
LEMMA NextIInv == IInv /\ [Next]_vars => IInv'
<1> SUFFICES ASSUME IInv, [Next]_vars
             PROVE  IInv'
  OBVIOUS
<1>1. ASSUME NEW p \in Workers, Put(p)
      PROVE  IInv'
  <2>1. ASSUME NEW u \in ValidUris, NEW new \in Documents, PutOpen(p, u, new)
        PROVE  IInv'
    BY <2>1, PutOpenStep
  <2>2. CASE \E u \in ValidUris, new \in Documents : PutNotOpened(p, u, new)
    BY <2>2, DropStep
  <2>3. CASE PutEnd(p, TRUE) \/ PutEnd(p, FALSE)
    BY <2>3, PutEndStep
  <2>4. CASE PutWritePart(p)
    BY <2>4, PutWriteStep
  <2> QED BY <1>1, <2>1, <2>2, <2>3, <2>4 DEF Put
<1>2. ASSUME NEW p \in Workers,
             \/ Get(p) \/ Delete(p) \/ Answer(p)
             \/ \E op \in Ops \ {"none"}, u \in Uris : Refuse(p, op, u)
      PROVE  IInv'
  BY <1>2, GetStep, DropStep, AnswerStep, RefuseStep
<1>3. CASE Restart
  BY <1>3, RestartStep
<1>4. CASE UNCHANGED vars
  <2>1. TypeInv'
    <3>1. StoreTypes' /\ WorkTypes'
      BY <1>4, TypesApart DEF IInv, StoreTypes, WorkTypes, vars
    <3> QED BY <3>1, TypesApart, PTL
  <2>2. LockInv' /\ JobInv'
    BY <1>4 DEF IInv, LockInv, JobInv, JobOk, Writing, vars
  <2>3. FileInv'
    BY <1>4 DEF IInv, FileInv, Written, Writing, vars
  <2>4. ViewInv'
    BY <1>4 DEF IInv, ViewInv, Backed, Writing, vars
  <2> QED BY <2>1, <2>2, <2>3, <2>4 DEF IInv
<1>5. CASE Next
  BY <1>1, <1>2, <1>3, <1>5 DEF Next
<1> QED BY <1>4, <1>5

\* The invariant holds for any number of workers, uris and documents.
THEOREM CacheInvariant == Spec => []IInv
<1>1. Init => IInv
  BY InitIInv
<1>2. IInv /\ [Next]_vars => IInv'
  BY NextIInv
<1> QED BY <1>1, <1>2, PTL DEF Spec

\* What is cached or answered was in the file at a moment when no PUT wrote it;
\* a part of a document only if a PUT of that file was cut off.
THEOREM CacheServedWasStored == Spec => []ServedWasStored
<1>1. IInv => ServedWasStored
  <2> SUFFICES ASSUME IInv
               PROVE  ServedWasStored
    OBVIOUS
  <2>1. \A f \in Paths : Stored(f) = ever[f]
    BY DEF IInv, FileInv, Stored
  <2>2. \A p \in Workers : work[p].status = 200 => work[p].uri \in ValidUris
    BY DEF IInv, JobInv, JobOk
  <2> QED BY <2>1, <2>2, PathOf DEF IInv, FileInv, ServedWasStored
<1> QED BY <1>1, CacheInvariant, PTL

\* A file is what the last PUT or DELETE that reached it made of it, through any
\* number of restarts, unless a PUT of it is being written or was cut off.
THEOREM CacheDurable == Spec => []Durable
<1>1. IInv => Durable
  BY DEF IInv, FileInv, Durable
<1> QED BY <1>1, CacheInvariant, PTL

\* The lock is held by the PUT that writes and by nobody else, whatever was
\* thrown; its file is open, and one for every GET that threw.
THEOREM CacheOneFileOpen == Spec => []OneFileOpen
<1>1. IInv => OneFileOpen
  <2> SUFFICES ASSUME IInv
               PROVE  OneFileOpen
    OBVIOUS
  <2> DEFINE writers == {p \in Workers : Writing(p)}
  <2>1. \A p \in Workers : Writing(p) <=> holder = p
    BY DEF IInv, LockInv
  <2>2. CASE holder = "free"
    <3>1. writers = {}
      BY <2>1, <2>2, Apart
    <3>2. Cardinality(writers) = 0
      BY <3>1, FS_EmptySet
    <3>3. open = 0 + leaked
      BY <2>2 DEF IInv, LockInv, TypeInv, TypeOK
    <3> QED BY <2>1, <3>2, <3>3 DEF OneFileOpen
  <2>3. CASE holder # "free"
    <3>1. holder \in Workers
      BY <2>3 DEF IInv, TypeInv, TypeOK
    <3>2. writers = {holder}
      BY <2>1, <3>1
    <3>3. Cardinality(writers) = 1
      BY <3>2, FS_Singleton
    <3>4. open = 1 + leaked
      BY <2>3 DEF IInv, LockInv, TypeInv, TypeOK
    <3> QED BY <2>1, <3>3, <3>4 DEF OneFileOpen
  <2> QED BY <2>2, <2>3
<1> QED BY <1>1, CacheInvariant, PTL

\* A view of GET shows what it showed when it was taken, until it is freed.
THEOREM CacheViewIsBacked == Spec => []ViewIsBacked
<1>1. IInv => ViewIsBacked
  <2> SUFFICES ASSUME IInv, NEW p \in Workers, work[p].op = "GET", work[p].status = 200
               PROVE  CASE work[p].owner = "cache" -> cache[work[p].uri] = work[p].value
                        [] work[p].owner \in Workers ->
                              /\ work[work[p].owner].op \in {"PUT", "DELETE"}
                              /\ work[work[p].owner].uri = work[p].uri
                              /\ work[work[p].owner].value = work[p].value
                        [] work[p].owner = "gone" -> TRUE
    BY DEF ViewIsBacked, IInv, TypeInv
  <2>1. Backed(p)
    BY DEF IInv, ViewInv
  <2>2. \A q \in Workers : Writing(q) => work[q].op = "PUT"
    BY DEF IInv, JobInv, JobOk
  <2>3. CASE work[p].owner = "cache"
    <3>1. cache[work[p].uri] = work[p].value /\ work[p].owner \notin Workers
      BY <2>1, <2>3, Apart DEF Backed
    <3> QED BY <2>3, <3>1
  <2>4. CASE work[p].owner \in Workers
    <3>1. work[p].owner # "cache" /\ work[p].owner # "gone"
      BY <2>4, Apart
    <3>2. PICK q \in Workers : /\ work[p].owner = q
                               /\ work[q].op \in {"PUT", "DELETE"}
                               /\ work[q].uri = work[p].uri
                               /\ work[q].value = work[p].value
      BY <2>1, <2>2, <3>1 DEF Backed
    <3> QED BY <3>1, <3>2
  <2>5. CASE work[p].owner = "gone"
    BY <2>5, Apart
  <2> QED BY <2>1, <2>3, <2>4, <2>5 DEF Backed
<1> QED BY <1>1, CacheInvariant, PTL


\* Only a DELETE that ends and a PUT that cannot open its file free a document
\* under a GET, unless the std::string holds it in itself.
THEOREM CachePutKeepsViews == Spec => PutKeepsViews
<1> DEFINE Freed(p) == /\ work[p].op = "GET" /\ work[p].value \notin Short
                       /\ work[p].owner # "gone" /\ work'[p].owner = "gone"
           Freer(q) == \/ work[q].op = "DELETE" /\ work'[q].at = "idle"
                       \/ /\ work[q].at = "idle" /\ work'[q].op = "PUT"
                          /\ work'[q].status = 400
<1>1. ASSUME IInv, Next, NEW p \in Workers, Freed(p)
      PROVE  \E q \in Workers : Freer(q)
  <2> USE DEF ghosts
  <2>0. /\ TypeInv /\ work \in [Workers -> Jobs]
        /\ work[p].owner = "none" \/ Backed(p)
    BY <1>1 DEF IInv, TypeInv, WorkTypes, ViewInv
  <2>1. ASSUME NEW q \in Workers, NEW w \in [Workers -> Jobs], NEW r,
               work' = [w EXCEPT ![q] = r], q # p
        PROVE  w[p].owner = "gone"
    BY <1>1, <2>1
  <2>2. ASSUME NEW q \in Workers, NEW r, r.owner # "gone", work' = [work EXCEPT ![q] = r]
        PROVE  FALSE
    BY <1>1, <2>0, <2>2
  <2>3. ASSUME NEW q \in Workers, Get(q)
        PROVE  FALSE
    <3> DEFINE to(uri, v, o, st) ==
            [work EXCEPT ![q] = Answering("GET", uri, v, o, st)]
    <3>1. ASSUME NEW uri, NEW v, NEW o \in {"none", "cache"}, NEW st,
                 work' = to(uri, v, o, st)
          PROVE  FALSE
      <4>1. Answering("GET", uri, v, o, st).owner # "gone"
        BY DEF Answering
      <4> QED BY <2>2, <3>1, <4>1
    <3>2. ASSUME NEW uri, NEW v, ViewOf(q, uri, v)
          PROVE  FALSE
      <4>1. work' = to(uri, Empty, "none", 404) \/ work' = to(uri, v, "cache", 200)
        BY <3>2 DEF ViewOf
      <4> HIDE DEF to
      <4> QED BY <3>1, <4>1
    <3>3. PICK uri \in ValidUris :
              GetCached(q, uri) \/ GetUnknown(q, uri) \/ GetRead(q, uri) \/ GetTooLarge(q, uri)
      BY <2>3 DEF Get
    <3>4. CASE GetCached(q, uri) \/ GetRead(q, uri)
      BY <3>2, <3>4 DEF GetCached, GetRead
    <3>5. CASE GetUnknown(q, uri)
      <4>1. work' = to(uri, Empty, "none", 404)
        BY <3>5 DEF GetUnknown, NotOpened
      <4> HIDE DEF to
      <4> QED BY <3>1, <4>1
    <3>6. CASE GetTooLarge(q, uri)
      <4>1. work' = to(uri, Empty, "none", 400)
        BY <3>6 DEF GetTooLarge
      <4> HIDE DEF to
      <4> QED BY <3>1, <4>1
    <3> QED BY <3>3, <3>4, <3>5, <3>6
  <2>4. ASSUME NEW q \in Workers, NEW uri \in ValidUris, NEW r, r.owner # "gone",
               work' = [Taken(q, uri) EXCEPT ![q] = r]
        PROVE  FALSE
    <3>1. Taken(q, uri) \in [Workers -> Jobs]
      BY <2>0, TakenOwners
    <3>2. q # p
      BY <1>1, <2>4, <3>1
    <3>3. Taken(q, uri)[p].owner = "gone"
      BY <2>1, <2>4, <3>1, <3>2
    <3> QED BY <1>1, <2>0, <3>3, TakenOwners, Apart
  <2>5. ASSUME NEW q \in Workers, Delete(q)
        PROVE  FALSE
    <3>1. PICK uri \in ValidUris, st \in {200, 404} :
              work' = [Taken(q, uri) EXCEPT ![q] =
                           Answering("DELETE", uri, CachedOr(uri), "none", st)]
              \/ work' = [Taken(q, uri) EXCEPT ![q] =
                              Answering("DELETE", uri, Empty, "none", st)]
      BY <2>5 DEF Delete, DeleteUnknown, DeleteKnown
    <3>2. /\ Answering("DELETE", uri, CachedOr(uri), "none", st).owner # "gone"
          /\ Answering("DELETE", uri, Empty, "none", st).owner # "gone"
      BY DEF Answering
    <3> QED BY <2>4, <3>1, <3>2
  <2>6. ASSUME NEW q \in Workers, Put(q)
        PROVE  Freer(q)
    <3>1. CASE PutWritePart(q)
      BY <1>1, <3>1 DEF PutWritePart
    <3>2. CASE PutEnd(q, TRUE) \/ PutEnd(q, FALSE)
      <4>1. work' = [Handed(work, q, "cache") EXCEPT ![q] =
                         Answering("PUT", work[q].uri, Empty, "none", 200)]
        BY <3>2 DEF PutEnd
      <4>2. Answering("PUT", work[q].uri, Empty, "none", 200).owner # "gone"
        BY DEF Answering
      <4>3. /\ Handed(work, q, "cache") \in [Workers -> Jobs]
            /\ Handed(work, q, "cache")[p].owner # "gone"
        <5>1. "cache" \in Owners
          BY DEF Owners
        <5>2. /\ Handed(work, q, "cache") \in [Workers -> Jobs]
              /\ Handed(work, q, "cache")[p].owner =
                     IF work[p].op = "GET" /\ work[p].owner = q
                     THEN "cache" ELSE work[p].owner
          BY <2>0, <5>1, HandedOwners
        <5>3. work[p].owner # "gone"
          BY <1>1
        <5> QED BY <5>2, <5>3
      <4>4. q # p
        BY <1>1, <4>1, <4>2, <4>3
      <4> QED BY <2>1, <4>1, <4>3, <4>4
    <3>3. ASSUME NEW uri \in ValidUris, NEW new \in Documents, PutOpen(q, uri, new)
          PROVE  FALSE
      <4> DEFINE r == [at |-> "writing", op |-> "PUT", uri |-> uri, new |-> new,
                       value |-> CachedOr(uri), owner |-> "none", status |-> 0]
      <4>1. r.owner # "gone"
        OBVIOUS
      <4>2. work' = [Taken(q, uri) EXCEPT ![q] = r]
        BY <3>3 DEF PutOpen
      <4> HIDE DEF r
      <4> QED BY <2>4, <4>1, <4>2
    <3>4. ASSUME NEW uri \in ValidUris, NEW new \in Documents, PutNotOpened(q, uri, new)
          PROVE  Freer(q)
      <4>1. /\ work[q].at = "idle"
            /\ work' = [Handed(Taken(q, uri), q, "gone") EXCEPT ![q] =
                            Answering("PUT", uri, Empty, "none", 400)]
        BY <3>4 DEF PutNotOpened, Locked
      <4>2. Handed(Taken(q, uri), q, "gone") \in [Workers -> Jobs]
        BY <2>0, TakenOwners, HandedOwners DEF Owners
      <4>3. work'[q] = Answering("PUT", uri, Empty, "none", 400)
        BY <4>1, <4>2
      <4> QED BY <4>1, <4>3 DEF Answering
    <3> QED BY <2>6, <3>1, <3>2, <3>3, <3>4 DEF Put
  <2>7. ASSUME NEW q \in Workers, Answer(q)
        PROVE  Freer(q)
    <3>1. work' = [Handed(work, q, "gone") EXCEPT ![q] = Idle]
      BY <2>7 DEF Answer
    <3>2. Handed(work, q, "gone") \in [Workers -> Jobs]
      BY <2>0, HandedOwners DEF Owners
    <3>3. q # p /\ work'[q].at = "idle"
      BY <1>1, <3>1, <3>2, IdleFields
    <3>4. Handed(work, q, "gone")[p].owner = "gone"
      BY <2>1, <3>1, <3>2, <3>3
    <3>5. work[p].owner = q
      BY <1>1, <2>0, <3>4, HandedOwners DEF Owners
    <3>6. work[q].op = "DELETE" \/ Writing(q)
      BY <1>1, <2>0, <3>5, Apart DEF Backed
    <3>7. ~Writing(q)
      BY <2>7 DEF Answer, Writing
    <3> QED BY <3>3, <3>6, <3>7
  <2>8. ASSUME NEW q \in Workers, NEW op \in Ops \ {"none"}, NEW uri \in Uris,
               Refuse(q, op, uri)
        PROVE  FALSE
    <3> DEFINE st == IF op = "other" THEN 404 ELSE 400
    <3>1. work' = [work EXCEPT ![q] = Answering("other", << >>, Empty, "none", st)]
      BY <2>8 DEF Refuse
    <3>2. Answering("other", << >>, Empty, "none", st).owner # "gone"
      BY DEF Answering
    <3> HIDE DEF st
    <3> QED BY <2>2, <3>1, <3>2
  <2>9. CASE Restart
    BY <1>1, <2>9, IdleFields DEF Restart
  <2> HIDE DEF Freer
  <2> QED BY <1>1, <2>3, <2>5, <2>6, <2>7, <2>8, <2>9 DEF Next
<1> DEFINE A == \A p \in Workers :
                    /\ work[p].op = "GET"
                    /\ work[p].value \notin Short
                    /\ work[p].owner # "gone"
                    /\ work'[p].owner = "gone"
                    => \E q \in Workers :
                        \/ work[q].op = "DELETE" /\ work'[q].at = "idle"
                        \/ work[q].at = "idle" /\ work'[q].op = "PUT" /\ work'[q].status = 400
<1>2. IInv /\ [Next]_vars => [A]_vars
  BY <1>1
<1>3. Spec => [][A]_vars
  <2> HIDE DEF A
  <2> QED BY <1>2, CacheInvariant, PTL DEF Spec
<1> QED BY <1>3 DEF PutKeepsViews

===============================================================================
