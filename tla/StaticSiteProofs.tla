---------------------------- MODULE StaticSiteProofs ----------------------------
(***************************************************************************)
(* Proofs about StaticSite: the walk gives every file of the tree to the   *)
(* callback once and closes every directory it opens, what is cached is    *)
(* found under its own path, the bytes of the cached files are apart and   *)
(* inside the memory, and what a request is answered with are bytes of the *)
(* file it found.                                                          *)
(*                                                                         *)
(* The first part of the inductive invariant orders the blocks: the cache  *)
(* takes memory from the front, a name and then its bytes, and what it     *)
(* gave away is behind it. A link to a directory, of which ftell says -1,  *)
(* gives one byte back; the name that was copied just before has at least  *)
(* that one. The second part divides the files of the tree among those     *)
(* that were visited and those that each call of the walk still has to     *)
(* find: readdir and the opening of a directory move them from one call to *)
(* another, and only the callback takes one away.                          *)
(***************************************************************************)
EXTENDS StaticSite, TLAPS, SequenceTheorems, WellFoundedInduction, FiniteSetTheorems

\* The characters of a path. (That "/" is a string is not known to the provers.)
Chars == STRING \cup {"/"}

\* The paths the walk opens: below the base directory, with room for "/.".
Paths ==
    {p \in Seq(Chars) : Len(BaseDir) <= Len(p) /\ Len(p) + 3 <= MAX_PATH}

Frames == [dir : DOMAIN tree, path : Paths, left : SUBSET Entries]

Blocks ==
    [uri : Seq(Chars), name : Nat, mime_type : KnownSuffixes \cup {"application/octet-stream"},
     memory : Nat, length : Nat, file : FileNodes]

Sends ==
    [at : {"idle", "sending", "sent", "failed", "not_found"}, entry : Nat, left : Nat,
     sends : Nat, got : Seq(Nat)]

\* The calls of the walk: each has one directory open.
WalkInv ==
    /\ tree \in Trees
    /\ stack \in Seq(Frames)
    /\ dirs = Len(stack)
    /\ err \in {"SUCCESS", "NOT_FOUND", "PATH_LEN"}
    /\ visited \in Seq(FileNodes)

PhaseInv ==
    /\ phase \in {"starting", "scanning", "serving", "refused", "released",
                 "behind", "astray"}
    /\ phase \notin {"scanning", "behind", "astray"} => stack = << >>
    /\ files \in Nat

\* Every entry is in front of the position, its name before its bytes, and the
\* entry after it is behind it.
BlockInv ==
    /\ memory \in [pos : 0..Capacity, end : {Capacity}, resize_bytes : {Capacity}]
    /\ content \in Seq(Blocks)
    /\ \A i \in 1..Len(content) :
        /\ Len(content[i].uri) >= 1
        /\ content[i].length >= 1
        /\ content[i].name + Len(content[i].uri) <= content[i].memory
        /\ content[i].memory + content[i].length <= memory.pos
    /\ \A i, j \in 1..Len(content) :
        i < j => content[i].memory + content[i].length <= content[j].name

\* The table has whole batches of elements.
SlotInv ==
    /\ slots \in Nat
    /\ slots % Batch = 0
    /\ Len(content) <= slots

\* What is sent comes from the front of the entry.
SendInv ==
    /\ send \in Sends
    /\ send.at # "idle" => phase = "serving"
    /\ send.at \in {"sending", "sent"} =>
        /\ send.entry \in 1..Len(content)
        /\ send.left <= Entry.length
        /\ Len(send.got) = Entry.length - send.left
        /\ \A k \in 1..Len(send.got) : send.got[k] \in Block(send.entry)
        /\ send.sends = 0 => Len(send.got) = 0
        /\ send.sends = 1 =>
            \A k \in 1..Len(send.got) : send.got[k] = Entry.memory + k - 1

IInv == WalkInv /\ PhaseInv /\ BlockInv /\ SlotInv /\ SendInv

-------------------------------------------------------------------------------
(* Entries, paths and frames *)

\* What the trees say of an entry.
LEMMA EntryTypes ==
    ASSUME tree \in Trees, NEW e \in Entries
    PROVE  /\ e.name \in Seq(Chars)
           /\ e.dir => e.to \in DOMAIN tree
           /\ ~e.dir => e.to \in FileNodes
<1>1. PICK d \in DOMAIN tree : e \in tree[d]
  BY DEF Entries
<1>2. e.name \in Seq(STRING)
  BY <1>1, TraverseAssumption
<1>3. Seq(STRING) \subseteq Seq(Chars)
  BY DEF Chars
<1> QED BY <1>1, <1>2, <1>3, TraverseAssumption, SiteAssumption DEF FileNodes

\* The base directory is a path.
LEMMA BaseTypes == BaseDir \in Seq(Chars) /\ Len(BaseDir) \in Nat
<1>1. BaseDir \in Seq(STRING)
  BY TraverseAssumption
<1>2. Seq(STRING) \subseteq Seq(Chars)
  BY DEF Chars
<1> QED BY <1>1, <1>2

\* A clipped path is a path.
LEMMA ClippedTypes ==
    ASSUME NEW p \in Seq(Chars)
    PROVE  /\ Clipped(p) \in Seq(Chars)
           /\ Len(Clipped(p)) = IF Len(p) < MAX_PATH THEN Len(p) ELSE MAX_PATH
<1>1. MAX_PATH \in Nat /\ Len(p) \in Nat
  BY TraverseAssumption
<1> DEFINE n == IF Len(p) < MAX_PATH THEN Len(p) ELSE MAX_PATH
<1>2. n \in Nat /\ n <= Len(p)
  BY <1>1
<1> HIDE DEF n
<1>3. SubSeq(p, 1, n) \in Seq(Chars) /\ Len(SubSeq(p, 1, n)) = n
  <2>1. SubSeq(p, 1, n) = [i \in 1 .. n |-> p[i]]
    BY <1>1, <1>2, Z3
  <2>2. \A i \in 1 .. n : p[i] \in Chars
    BY <1>1, <1>2
  <2>3. SubSeq(p, 1, n) \in [1 .. n -> Chars]
    BY <2>1, <2>2
  <2>4. SubSeq(p, 1, n) \in Seq(Chars)
    BY <1>2, <2>3
  <2>5. DOMAIN SubSeq(p, 1, n) = 1 .. n
    BY <2>1
  <2>6. Len(SubSeq(p, 1, n)) = n
    BY <1>2, <2>4, <2>5
  <2> QED BY <2>4, <2>6
<1> QED BY <1>3 DEF Clipped, n

\* What is on top of a stack, and what is under it.
LEMMA TopTypes ==
    ASSUME NEW S, NEW s \in Seq(S), s # << >>
    PROVE  /\ Head(s) \in S
           /\ Tail(s) \in Seq(S)
           /\ Len(s) \in Nat \ {0}
           /\ Len(Tail(s)) = Len(s) - 1
BY HeadTailProperties, LenProperties, EmptySeq

\* A sequence of one element.
LEMMA OneTypes ==
    ASSUME NEW S, NEW x \in S
    PROVE  <<x>> \in Seq(S) /\ Len(<<x>>) = 1
OBVIOUS

\* A push makes a stack one longer.
LEMMA PushTypes ==
    ASSUME NEW S, NEW s \in Seq(S), NEW x \in S
    PROVE  <<x>> \o s \in Seq(S) /\ Len(<<x>> \o s) = Len(s) + 1
<1>1. <<x>> \in Seq(S) /\ Len(<<x>>) = 1
  OBVIOUS
<1>2. <<x>> \o s \in Seq(S) /\ Len(<<x>> \o s) = Len(<<x>>) + Len(s)
  BY <1>1, ConcatProperties
<1>3. Len(s) \in Nat
  OBVIOUS
<1> QED BY <1>1, <1>2, <1>3

\* The path of an entry is longer than the base directory.
LEMMA PathTypes ==
    ASSUME WalkInv, stack # << >>, NEW e \in Entries
    PROVE  /\ PathOf(e) \in Seq(Chars)
           /\ Len(PathOf(e)) >= Len(BaseDir) + 1
           /\ RoomForDir(PathOf(e)) => PathOf(e) \in Paths
<1> DEFINE p == Head(stack).path
           q == p \o <<"/">> \o e.name
<1>1. Head(stack) \in Frames
  BY TopTypes DEF WalkInv
<1>2. p \in Seq(Chars) /\ Len(BaseDir) <= Len(p) /\ Len(p) + 3 <= MAX_PATH
  BY <1>1 DEF Frames, Paths
<1>3. e.name \in Seq(Chars)
  BY EntryTypes DEF WalkInv
<1>4. MAX_PATH \in Nat /\ Len(BaseDir) \in Nat /\ Len(p) \in Nat /\ Len(e.name) \in Nat
  BY <1>2, <1>3, BaseTypes, TraverseAssumption
<1> HIDE DEF p
<1>5. q \in Seq(Chars) /\ Len(q) = Len(p) + 1 + Len(e.name)
  <2>0. "/" \in Chars
    BY DEF Chars
  <2>1. <<"/">> \in Seq(Chars) /\ Len(<<"/">>) = 1
    BY <2>0, OneTypes
  <2>2. p \o <<"/">> \in Seq(Chars) /\ Len(p \o <<"/">>) = Len(p) + 1
    BY <1>2, <2>1, ConcatProperties
  <2> QED BY <1>3, <2>2, ConcatProperties
<1> HIDE DEF q
<1>6. Clipped(q) \in Seq(Chars) /\ Len(Clipped(q)) >= Len(BaseDir) + 1
  <2>1. Clipped(q) \in Seq(Chars)
    BY <1>5, ClippedTypes
  <2>2. Len(Clipped(q)) = IF Len(q) < MAX_PATH THEN Len(q) ELSE MAX_PATH
    BY <1>5, ClippedTypes
  <2>3. Len(q) >= Len(BaseDir) + 1 /\ MAX_PATH >= Len(BaseDir) + 1
    <3>1. PICK a \in Nat, b \in Nat, n \in Nat :
            a = Len(p) /\ b = Len(BaseDir) /\ n = Len(e.name)
      BY <1>4
    <3>2. Len(q) = a + 1 + n /\ b <= a /\ a + 3 <= MAX_PATH
      BY <1>2, <1>5, <3>1
    <3>3. MAX_PATH \in Nat
      BY <1>4
    <3>4. a + 1 + n >= b + 1 /\ MAX_PATH >= b + 1
      BY <3>2, <3>3
    <3> QED BY <3>1, <3>2, <3>4
  <2> QED BY <2>1, <2>2, <2>3
<1>7. PathOf(e) = Clipped(q)
  BY DEF PathOf, p, q
<1> QED BY <1>4, <1>6, <1>7 DEF Paths, RoomForDir

\* A uri has at least its slash.
LEMMA UriTypes ==
    ASSUME WalkInv, stack # << >>, NEW e \in Entries
    PROVE  Uri(e) \in Seq(Chars) /\ Len(Uri(e)) \in Nat /\ Len(Uri(e)) >= 1
<1> DEFINE p == PathOf(e)
           m == Len(BaseDir) + 1
<1>1. p \in Seq(Chars) /\ Len(p) >= m
  BY PathTypes
<1>2. m \in 1 .. Len(p) /\ Len(p) \in Nat
  BY <1>1, BaseTypes
<1> HIDE DEF p, m
<1>3. SubSeq(p, m, Len(p)) \in Seq(Chars) /\ Len(SubSeq(p, m, Len(p))) = Len(p) - m + 1
  BY <1>1, <1>2, SubSeqProperties
<1>4. Uri(e) = SubSeq(p, m, Len(p))
  BY DEF Uri, p, m
<1> QED BY <1>2, <1>3, <1>4

\* A uri is what the path has behind the base directory.
LEMMA UriLength ==
    ASSUME WalkInv, stack # << >>, NEW e \in Entries
    PROVE  Len(Uri(e)) = Len(PathOf(e)) - Len(BaseDir)
<1> DEFINE p == PathOf(e)
           m == Len(BaseDir) + 1
<1>1. p \in Seq(Chars) /\ Len(p) >= m
  BY PathTypes
<1>2. m \in 1 .. Len(p) /\ Len(p) \in Nat /\ Len(BaseDir) \in Nat
  BY <1>1, BaseTypes
<1> HIDE DEF p
<1>3. Len(SubSeq(p, m, Len(p))) = Len(p) - m + 1
  <2> HIDE DEF m
  <2> QED BY <1>1, <1>2, SubSeqProperties
<1>4. Uri(e) = SubSeq(p, m, Len(p))
  BY DEF Uri, p
<1> QED BY <1>2, <1>3, <1>4 DEF p

\* readdir keeps the stack a stack.
LEMMA TakenTypes ==
    ASSUME WalkInv, stack # << >>, NEW e
    PROVE  Taken(e) \in Seq(Frames) /\ Len(Taken(e)) = Len(stack)
<1> DEFINE f == [Head(stack) EXCEPT !.left = @ \ {e}]
<1>1. /\ Head(stack) \in Frames
      /\ Tail(stack) \in Seq(Frames)
      /\ Len(stack) \in Nat
      /\ Len(Tail(stack)) = Len(stack) - 1
  BY TopTypes DEF WalkInv
<1>2. f \in Frames
  BY <1>1 DEF Frames
<1> HIDE DEF f
<1>3. Taken(e) = <<f>> \o Tail(stack)
  BY DEF Taken, f
<1> QED BY <1>1, <1>2, <1>3, PushTypes

-------------------------------------------------------------------------------
(* The files of a tree *)

\* A set of natural numbers has a least element.
LEMMA LeastOf ==
    ASSUME NEW S, S \subseteq Nat, S # {}
    PROVE  \E x \in S : \A y \in S : x <= y
<1> DEFINE Less == OpToRel(<, Nat)
<1>1. IsWellFoundedOn(Less, Nat)
  BY NatLessThanWellFounded
<1>2. \A x, y \in Nat : x < y => <<x, y>> \in Less
  BY DEF OpToRel
<1> HIDE DEF Less
<1>3. PICK x \in S : \A y \in S : ~ (<<y, x>> \in Less)
  BY <1>1, WFMin
<1>4. ASSUME NEW y \in S
      PROVE  x <= y
  <2>1. x \in Nat /\ y \in Nat
    OBVIOUS
  <2>2. ~ (y < x)
    BY <1>2, <1>3, <2>1
  <2> QED BY <2>1, <2>2
<1> QED BY <1>4

\* The files of an entry, when n gives those of the directories.
EntryNames(n, e) ==
    IF ~e.dir THEN {<<<<"/">> \o e.name, e.to>>}
    ELSE IF Ignored(e.name) THEN {}
    ELSE {<<<<"/">> \o e.name \o p[1], p[2]>> : p \in n[e.to]}

DirNames(n, t, d) == UNION {EntryNames(n, e) : e \in t[d]}

\* Directories that nest finitely deep have the files that their entries say:
\* what is known of the deepest ones can be continued to the ones above.
LEMMA NamedUnfolds ==
    ASSUME NEW t \in Trees
    PROVE  Named(t) = [d \in DOMAIN t |-> DirNames(Named(t), t, d)]
<1> DEFINE N == Cardinality(DOMAIN t)
<1>1. N \in Nat
  BY NestingAssumption, FS_CardinalityType
<1> HIDE DEF N
<1>2. PICK depth \in [DOMAIN t -> 0 .. N] :
          \A d \in DOMAIN t : \A e \in t[d] :
              e.dir /\ ~Ignored(e.name) => depth[d] < depth[e.to]
  BY NestingAssumption DEF N
<1> DEFINE D(k) == {d \in DOMAIN t : depth[d] + k > N}
           Known(k) == \E g : g = [d \in D(k) |-> DirNames(g, t, d)]
           Bad == {k \in 0 .. N + 1 : ~Known(k)}
<1>3. Known(0)
  <2>1. D(0) = {}
    BY <1>1, <1>2
  <2> HIDE DEF D
  <2>2. [d \in {} |-> {}] = [d \in {} |-> DirNames([c \in {} |-> {}], t, d)]
    OBVIOUS
  <2> QED BY <2>1, <2>2
<1>4. ASSUME NEW k \in 0 .. N, Known(k)
      PROVE  Known(k + 1)
  <2>1. PICK g : g = [d \in D(k) |-> DirNames(g, t, d)]
    BY <1>4
  <2>2. D(k) \subseteq D(k + 1)
    BY <1>1, <1>2
  <2>3. ASSUME NEW d \in D(k + 1), NEW e \in t[d], e.dir, ~Ignored(e.name)
        PROVE  e.to \in D(k)
    <3>1. depth[d] < depth[e.to] /\ e.to \in DOMAIN t /\ d \in DOMAIN t
      BY <1>2, <2>3, TraverseAssumption
    <3>2. depth[d] + (k + 1) > N /\ depth[d] \in Nat /\ depth[e.to] \in Nat
      BY <1>1, <1>2, <2>3, <3>1
    <3> QED BY <1>1, <3>1, <3>2
  <2> HIDE DEF D
  <2> DEFINE h == [d \in D(k + 1) |-> DirNames(g, t, d)]
  <2>4. ASSUME NEW d \in D(k)
        PROVE  h[d] = g[d]
    BY <2>1, <2>2
  <2> HIDE DEF h
  <2>5. ASSUME NEW d \in D(k + 1), NEW e \in t[d]
        PROVE  EntryNames(h, e) = EntryNames(g, e)
    <3>1. CASE e.dir /\ ~Ignored(e.name)
      <4>1. h[e.to] = g[e.to]
        BY <2>3, <2>4, <3>1
      <4> QED BY <4>1 DEF EntryNames
    <3>2. CASE ~(e.dir /\ ~Ignored(e.name))
      BY <3>2 DEF EntryNames
    <3> QED BY <3>1, <3>2
  <2>6. ASSUME NEW d \in D(k + 1)
        PROVE  DirNames(h, t, d) = DirNames(g, t, d)
    BY <2>5 DEF DirNames
  <2>7. h = [d \in D(k + 1) |-> DirNames(h, t, d)]
    BY <2>6 DEF h
  <2> QED BY <2>7
<1>5. Bad = {}
  <2> SUFFICES ASSUME Bad # {}
               PROVE  FALSE
    OBVIOUS
  <2>1. Bad \subseteq Nat
    BY <1>1
  <2> HIDE DEF Known
  <2>2. PICK k \in Bad : \A j \in Bad : k <= j
    <3> HIDE DEF Bad
    <3> QED BY <2>1, LeastOf
  <2>3. k \in 0 .. N + 1 /\ ~Known(k) /\ k # 0
    BY <1>3, <2>2
  <2>4. k - 1 \in 0 .. N /\ k - 1 \in 0 .. N + 1 /\ ~(k <= k - 1)
    BY <1>1, <2>3
  <2>5. Known(k - 1)
    BY <2>2, <2>4
  <2>6. Known((k - 1) + 1)
    BY <1>4, <2>4, <2>5
  <2>7. (k - 1) + 1 = k
    BY <2>4
  <2> QED BY <2>3, <2>6, <2>7
<1>6. Known(N + 1)
  <2>1. N + 1 \in 0 .. N + 1
    BY <1>1
  <2> HIDE DEF Known
  <2> QED BY <1>5, <2>1
<1>7. D(N + 1) = DOMAIN t
  BY <1>1, <1>2
<1>8. \E g : g = [d \in DOMAIN t |-> DirNames(g, t, d)]
  <2> HIDE DEF D
  <2> QED BY <1>6, <1>7
<1> QED
  BY <1>8, Zenon DEF Named, DirNames, EntryNames

\* A name between a slash and what follows.
LEMMA JoinTypes ==
    ASSUME NEW n \in Seq(Chars), NEW s \in Seq(Chars)
    PROVE  /\ <<"/">> \o n \in Seq(Chars)
           /\ <<"/">> \o n \o s \in Seq(Chars)
           /\ Len(<<"/">> \o n) = 1 + Len(n)
           /\ Len(<<"/">> \o n \o s) = 1 + Len(n) + Len(s)
           /\ (<<"/">> \o n \o s)[1] = "/"
           /\ \A i \in 1 .. Len(n) : (<<"/">> \o n \o s)[i + 1] = n[i]
           /\ \A i \in 1 .. Len(s) : (<<"/">> \o n \o s)[i + 1 + Len(n)] = s[i]
<1> DEFINE h == <<"/">> \o n
           x == h \o s
<1>1. <<"/">> \in Seq(Chars) /\ Len(<<"/">>) = 1 /\ <<"/">>[1] = "/"
  <2>1. "/" \in Chars
    BY DEF Chars
  <2> QED BY <2>1, OneTypes
<1>2. /\ h \in Seq(Chars) /\ Len(h) = 1 + Len(n)
      /\ h[1] = "/"
      /\ \A i \in 2 .. 1 + Len(n) : h[i] = n[i - 1]
  <2> HIDE DEF Chars
  <2> QED BY <1>1, ConcatProperties
<1> HIDE DEF h
<1>3. Len(n) \in Nat /\ Len(s) \in Nat
  OBVIOUS
<1>4. /\ x \in Seq(Chars) /\ Len(x) = Len(h) + Len(s)
      /\ \A i \in 1 .. Len(h) : x[i] = h[i]
      /\ \A i \in Len(h) + 1 .. Len(h) + Len(s) : x[i] = s[i - Len(h)]
  <2>1. /\ x \in Seq(Chars) /\ Len(x) = Len(h) + Len(s)
        /\ \A i \in 1 .. Len(h) + Len(s) :
              x[i] = IF i <= Len(h) THEN h[i] ELSE s[i - Len(h)]
    BY <1>2, ConcatProperties
  <2> HIDE DEF x
  <2>2. PICK a \in Nat, b \in Nat : a = Len(h) /\ b = Len(s)
    BY <1>2, <1>3
  <2> QED BY <2>1, <2>2
<1> HIDE DEF x
<1>5. x[1] = "/"
  BY <1>2, <1>3, <1>4
<1>6. ASSUME NEW i \in 1 .. Len(n)
      PROVE  x[i + 1] = n[i]
  <2>1. i + 1 \in 1 .. Len(h) /\ i + 1 \in 2 .. 1 + Len(n) /\ (i + 1) - 1 = i
    BY <1>2, <1>3
  <2>2. x[i + 1] = h[i + 1] /\ h[i + 1] = n[(i + 1) - 1]
    BY <1>2, <1>4, <2>1
  <2> QED BY <2>1, <2>2
<1>7. ASSUME NEW i \in 1 .. Len(s)
      PROVE  x[i + 1 + Len(n)] = s[i]
  <2> DEFINE j == i + 1 + Len(n)
  <2>1. j \in Len(h) + 1 .. Len(h) + Len(s) /\ j - Len(h) = i
    BY <1>2, <1>3
  <2> HIDE DEF j
  <2>2. x[j] = s[j - Len(h)]
    BY <1>4, <2>1
  <2> QED BY <2>1, <2>2 DEF j
<1>8. Len(x) = 1 + Len(n) + Len(s)
  BY <1>2, <1>3, <1>4
<1> QED BY <1>2, <1>4, <1>5, <1>6, <1>7, <1>8 DEF x, h

\* What follows a name in a uri: nothing, or the next slash.
Rests == {s \in Seq(Chars) : s = << >> \/ (Len(s) > 0 /\ s[1] = "/")}

\* A uri of the tree begins with a slash, and is that of a file.
Uried == {p \in Seq(Chars) \X FileNodes : Len(p[1]) > 0 /\ p[1][1] = "/"}

\* The files of an entry have uris that begin with its name.
LEMMA EntryShape ==
    ASSUME NEW t \in Trees, NEW d \in DOMAIN t, NEW e \in t[d], NEW n,
           e.dir /\ ~Ignored(e.name) => n[e.to] \subseteq Uried,
           NEW p \in EntryNames(n, e)
    PROVE  /\ p \in Uried
           /\ \E s \in Rests : p[1] = <<"/">> \o e.name \o s
<1>1. e.name \in Seq(Chars)
  <2>1. e.name \in Seq(STRING)
    BY TraverseAssumption
  <2>2. Seq(STRING) \subseteq Seq(Chars)
    BY DEF Chars
  <2> QED BY <2>1, <2>2
<1>2. CASE ~e.dir
  <2>1. p = <<<<"/">> \o e.name, e.to>>
    BY <1>2 DEF EntryNames
  <2>2. e.to \in FileNodes
    BY <1>2, SiteAssumption DEF FileNodes
  <2>3. << >> \in Seq(Chars) /\ Len(<< >>) = 0
    BY EmptySeq
  <2>4. <<"/">> \o e.name \in Seq(Chars)
    BY <1>1, <2>3, JoinTypes
  <2>5. <<"/">> \o e.name \o << >> = <<"/">> \o e.name
    BY <2>4, ConcatEmptySeq
  <2>6. Len(<<"/">> \o e.name) = 1 + Len(e.name) /\ (<<"/">> \o e.name)[1] = "/"
    BY <1>1, <2>3, <2>5, JoinTypes
  <2>7. PICK k \in Nat : k = Len(e.name)
    BY <1>1
  <2>0. PICK u : u = <<"/">> \o e.name
    OBVIOUS
  <2>8. u \in Seq(Chars) /\ Len(u) > 0 /\ u[1] = "/"
    <3>1. Len(u) = 1 + k
      BY <2>0, <2>6, <2>7
    <3>2. Len(u) > 0
      BY <3>1
    <3> QED BY <2>0, <2>4, <2>6, <3>2
  <2>9. << >> \in Rests
    <3>1. PICK z \in Seq(Chars) : z = << >>
      BY <2>3
    <3>2. z \in Rests
      BY <3>1 DEF Rests
    <3> QED BY <3>1, <3>2
  <2>10. p[1] = u \o << >>
    BY <2>1, <2>5, <2>0
  <2>11. p = <<u, e.to>>
    BY <2>1, <2>0
  <2>12. p \in Uried
    BY <2>2, <2>8, <2>11 DEF Uried
  <2> QED BY <2>9, <2>10, <2>12, <2>0
<1>3. CASE e.dir
  <2>1. ~Ignored(e.name)
    BY <1>3 DEF EntryNames
  <2>2. PICK q \in n[e.to] : p = <<<<"/">> \o e.name \o q[1], q[2]>>
    BY <1>3, <2>1 DEF EntryNames
  <2>3. q \in Uried
    BY <1>3, <2>1
  <2>4. q[1] \in Rests /\ q[1] \in Seq(Chars) /\ q[2] \in FileNodes
    BY <2>3 DEF Uried, Rests
  <2>0. PICK u : u = <<"/">> \o e.name \o q[1]
    OBVIOUS
  <2>5. u \in Seq(Chars) /\ Len(u) = 1 + Len(e.name) + Len(q[1]) /\ u[1] = "/"
    BY <1>1, <2>4, <2>0, JoinTypes
  <2>6. PICK k \in Nat, l \in Nat : k = Len(e.name) /\ l = Len(q[1])
    BY <1>1, <2>4
  <2>7. p = <<u, q[2]>>
    BY <2>2, <2>0
  <2>8. p[1] = u /\ Len(u) > 0
    <3>1. Len(u) = 1 + k + l
      BY <2>5, <2>6
    <3>2. Len(u) > 0
      BY <3>1
    <3> QED BY <2>7, <3>2
  <2>9. p \in Uried
    BY <2>4, <2>5, <2>7, <2>8 DEF Uried
  <2> QED BY <2>4, <2>8, <2>9, <2>0
<1> QED BY <1>2, <1>3

\* All files of all directories have such uris.
LEMMA NamedTypes ==
    ASSUME NEW t \in Trees, NEW c \in DOMAIN t
    PROVE  Named(t)[c] \subseteq Uried
<1> DEFINE N == Cardinality(DOMAIN t)
<1>1. N \in Nat
  BY NestingAssumption, FS_CardinalityType
<1> HIDE DEF N
<1>2. PICK depth \in [DOMAIN t -> 0 .. N] :
          \A d \in DOMAIN t : \A e \in t[d] :
              e.dir /\ ~Ignored(e.name) => depth[d] < depth[e.to]
  BY NestingAssumption DEF N
<1> DEFINE bad == {d \in DOMAIN t : ~(Named(t)[d] \subseteq Uried)}
           S == {N - depth[d] : d \in bad}
<1> SUFFICES ASSUME bad # {}
             PROVE  FALSE
  OBVIOUS
<1>3. S \subseteq Nat /\ S # {}
  BY <1>1, <1>2
<1>4. PICK x \in S : \A y \in S : x <= y
  <2> HIDE DEF S
  <2> QED BY <1>3, LeastOf
<1>5. PICK d \in bad : x = N - depth[d]
  OBVIOUS
<1>6. d \in DOMAIN t
  BY <1>5
<1>7. ASSUME NEW e \in t[d], e.dir, ~Ignored(e.name)
      PROVE  Named(t)[e.to] \subseteq Uried
  <2>1. e.to \in DOMAIN t /\ depth[d] < depth[e.to]
    BY <1>2, <1>6, <1>7, TraverseAssumption
  <2>2. depth[d] \in Nat /\ depth[e.to] \in Nat
    BY <1>1, <1>2, <1>6, <2>1
  <2>3. ~(x <= N - depth[e.to])
    BY <1>1, <1>5, <2>1, <2>2
  <2>4. e.to \in bad => N - depth[e.to] \in S
    OBVIOUS
  <2>5. e.to \notin bad
    BY <1>4, <2>3, <2>4
  <2> QED BY <2>1, <2>5
<1>8. ASSUME NEW e \in t[d], NEW p \in EntryNames(Named(t), e)
      PROVE  p \in Uried
  BY <1>6, <1>7, <1>8, EntryShape
<1>9. Named(t)[d] = DirNames(Named(t), t, d)
  BY <1>6, NamedUnfolds
<1>10. Named(t)[d] \subseteq Uried
  BY <1>8, <1>9 DEF DirNames
<1> QED BY <1>5, <1>10

\* Two entries of a directory have no uri in common: up to the shorter name
\* they may agree, but then one goes on with a slash and the other does not.
LEMMA NamesDiffer ==
    ASSUME NEW m \in Seq(Chars), NEW n \in Seq(Chars), NEW r \in Rests, NEW s \in Rests,
           \A i \in 1 .. Len(n) : n[i] # "/",
           <<"/">> \o m \o r = <<"/">> \o n \o s
    PROVE  ~(Len(m) < Len(n))
<1> SUFFICES ASSUME Len(m) < Len(n)
             PROVE  FALSE
  OBVIOUS
<1> DEFINE x == <<"/">> \o m \o r
<1>1. r \in Seq(Chars) /\ s \in Seq(Chars) /\ Len(m) \in Nat /\ Len(n) \in Nat
      /\ Len(r) \in Nat /\ Len(s) \in Nat
  BY DEF Rests
<1>2. /\ Len(x) = 1 + Len(m) + Len(r)
      /\ \A i \in 1 .. Len(r) : x[i + 1 + Len(m)] = r[i]
  BY <1>1, JoinTypes
<1> DEFINE y == <<"/">> \o n \o s
<1>8. /\ Len(y) = 1 + Len(n) + Len(s)
      /\ \A i \in 1 .. Len(n) : y[i + 1] = n[i]
  BY <1>1, JoinTypes
<1>9. x = y
  OBVIOUS
<1> HIDE DEF x, y
<1>3. Len(r) > 0
  <2>1. 1 + Len(m) + Len(r) = 1 + Len(n) + Len(s)
    BY <1>2, <1>8, <1>9
  <2> QED BY <1>1, <2>1
<1>4. r[1] = "/"
  <2>1. Len(<< >>) = 0
    BY EmptySeq
  <2> QED BY <1>3, <2>1 DEF Rests
<1>5. 1 \in 1 .. Len(r) /\ Len(m) + 1 \in 1 .. Len(n) /\ 1 + 1 + Len(m) = (Len(m) + 1) + 1
  BY <1>1, <1>3
<1>6. x[1 + 1 + Len(m)] = r[1] /\ x[(Len(m) + 1) + 1] = n[Len(m) + 1]
  BY <1>2, <1>5, <1>8, <1>9
<1>7. n[Len(m) + 1] = "/"
  BY <1>4, <1>5, <1>6
<1> QED BY <1>5, <1>7

\* So names of the same length are the same name.
LEMMA NamesSame ==
    ASSUME NEW m \in Seq(Chars), NEW n \in Seq(Chars), NEW r \in Rests, NEW s \in Rests,
           Len(m) = Len(n), <<"/">> \o m \o r = <<"/">> \o n \o s
    PROVE  m = n
<1> DEFINE x == <<"/">> \o m \o r
           y == <<"/">> \o n \o s
<1>1. r \in Seq(Chars) /\ s \in Seq(Chars)
  BY DEF Rests
<1>2. \A i \in 1 .. Len(m) : x[i + 1] = m[i]
  BY <1>1, JoinTypes
<1>3. \A i \in 1 .. Len(n) : y[i + 1] = n[i]
  BY <1>1, JoinTypes
<1>4. x = y
  OBVIOUS
<1> HIDE DEF x, y
<1>5. \A i \in 1 .. Len(m) : m[i] = n[i]
  BY <1>2, <1>3, <1>4
<1> QED BY <1>5, SeqEqual

\* The uris of the files of two entries of a directory.
LEMMA EntriesDiffer ==
    ASSUME NEW t \in Trees, NEW d \in DOMAIN t, NEW e \in t[d], NEW f \in t[d], e # f,
           NEW p \in EntryNames(Named(t), e), NEW q \in EntryNames(Named(t), f)
    PROVE  p[1] # q[1]
<1> SUFFICES ASSUME p[1] = q[1]
             PROVE  FALSE
  OBVIOUS
<1>1. /\ e.dir => Named(t)[e.to] \subseteq Uried
      /\ f.dir => Named(t)[f.to] \subseteq Uried
  BY NamedTypes, TraverseAssumption
<1>2. PICK r \in Rests : p[1] = <<"/">> \o e.name \o r
  BY <1>1, EntryShape
<1>3. PICK s \in Rests : q[1] = <<"/">> \o f.name \o s
  BY <1>1, EntryShape
<1>4. e.name \in Seq(Chars) /\ f.name \in Seq(Chars)
  <2>1. e.name \in Seq(STRING) /\ f.name \in Seq(STRING)
    BY TraverseAssumption
  <2>2. Seq(STRING) \subseteq Seq(Chars)
    BY DEF Chars
  <2> QED BY <2>1, <2>2
<1>5. /\ e.name # f.name
      /\ \A i \in 1 .. Len(e.name) : e.name[i] # "/"
      /\ \A i \in 1 .. Len(f.name) : f.name[i] # "/"
  BY NestingAssumption
<1>6. PICK m \in Seq(Chars), n \in Seq(Chars) : m = e.name /\ n = f.name
  BY <1>4
<1>7. <<"/">> \o m \o r = <<"/">> \o n \o s
  BY <1>2, <1>3, <1>6
<1>8. ~(Len(m) < Len(n))
  BY <1>5, <1>6, <1>7, NamesDiffer
<1>9. ~(Len(n) < Len(m))
  BY <1>5, <1>6, <1>7, NamesDiffer
<1>10. Len(m) = Len(n)
  BY <1>8, <1>9
<1> QED BY <1>5, <1>6, <1>7, <1>10, NamesSame

-------------------------------------------------------------------------------
(* What a walk still has to find *)

\* The files of an entry of the directory at a path, with their paths.
EntryFiles(t, path, e) ==
    {<<path \o p[1], p[2]>> : p \in EntryNames(Named(t), e)}

\* The files of the entries that a call still has to read.
FrameFiles(t, f) == UNION {EntryFiles(t, f.path, e) : e \in f.left}

Todo(t, s) == UNION {FrameFiles(t, s[k]) : k \in 1 .. Len(s)}

PathsApart(P, Q) == \A p \in P, q \in Q : p[1] # q[1]

Apart(t, s) ==
    \A k, l \in 1 .. Len(s) :
        k # l => PathsApart(FrameFiles(t, s[k]), FrameFiles(t, s[l]))

\* The files of the tree, with their paths.
Full == {<<BaseDir \o p[1], p[2]>> : p \in Site}

\* The path of the uri was not clipped.
Whole(uri) == Terminated(BaseDir \o uri)

\* While nothing failed, a file of the tree was visited or is still to be found
\* by one of the calls, and what is cached is not found again.
TodoInv ==
    phase = "scanning" /\ err = "SUCCESS" =>
        /\ \A k \in 1 .. Len(stack) : stack[k].left \subseteq tree[stack[k].dir]
        /\ Apart(tree, stack)
        /\ Todo(tree, stack) \subseteq Full
        /\ \A p \in Full \ Todo(tree, stack) :
               \E i \in 1 .. Len(visited) : visited[i] = p[2]
        /\ \A i \in 1 .. Len(visited) :
               \E p \in Full \ Todo(tree, stack) : p[2] = visited[i]
        /\ \A i \in 1 .. Len(content) : Whole(content[i].uri) =>
               \A p \in Todo(tree, stack) : p[1] # BaseDir \o content[i].uri

\* What a cached file is.
OwnEntry(c) ==
    /\ Whole(c.uri) => <<c.uri, c.file>> \in Site
    /\ IF SizeOf[c.file] <= IntMax
         THEN c.length = SizeOf[c.file] ELSE c.length < SizeOf[c.file]
    /\ c.mime_type # "application/octet-stream" =>
           \E k \in KnownSuffixes : IsSuffix(k, c.uri)

\* What was visited and cached are files of the tree, all of them at the end.
FoundInv ==
    /\ phase = "starting" => visited = << >> /\ content = << >>
    /\ \A i \in 1 .. Len(content) : OwnEntry(content[i])
    /\ \A i, j \in 1 .. Len(content) :
           Whole(content[i].uri) /\ content[i].uri = content[j].uri => i = j
    /\ \A i \in 1 .. Len(visited) : \E p \in Site : p[2] = visited[i]
    /\ OneNameEach => \A i, j \in 1 .. Len(visited) : visited[i] = visited[j] => i = j
    /\ phase = "serving" =>
           \A p \in Site : \E i \in 1 .. Len(visited) : visited[i] = p[2]

\* A call in front of others adds the files that it has to read.
LEMMA PushTodo ==
    ASSUME NEW t, NEW S, NEW s \in Seq(S), NEW x \in S
    PROVE  /\ Todo(t, <<x>> \o s) = FrameFiles(t, x) \cup Todo(t, s)
           /\ Apart(t, <<x>> \o s) <=>
                  Apart(t, s) /\ PathsApart(FrameFiles(t, x), Todo(t, s))
<1> DEFINE u == <<x>> \o s
<1>1. PICK n \in Nat : n = Len(s)
  OBVIOUS
<1>2. Len(u) = n + 1 /\ u[1] = x /\ \A i \in 1 .. n : u[i + 1] = s[i]
  BY <1>1
<1> HIDE DEF u
<1>3. \A i \in 1 .. n + 1 : i = 1 \/ (i - 1 \in 1 .. n /\ i = (i - 1) + 1)
  BY <1>1
<1>4. \A i \in 2 .. n + 1 : i - 1 \in 1 .. n /\ u[i] = s[i - 1]
  <2> SUFFICES ASSUME NEW i \in 2 .. n + 1
               PROVE  i - 1 \in 1 .. n /\ u[i] = s[i - 1]
    OBVIOUS
  <2>1. PICK j \in 1 .. n : j = i - 1 /\ i = j + 1
    BY <1>1
  <2> QED BY <1>2, <2>1
<1>5. \A i \in 1 .. n + 1 : i = 1 \/ i \in 2 .. n + 1
  BY <1>1
<1>6. \A i \in 1 .. n : i + 1 \in 1 .. n + 1 /\ i + 1 # 1
  BY <1>1
<1>7. 1 \in 1 .. n + 1
  BY <1>1
<1> DEFINE F(c) == FrameFiles(t, c)
<1> HIDE DEF F
<1>8. ASSUME NEW p
      PROVE  (\E i \in 1 .. n + 1 : p \in F(u[i])) <=> p \in F(x) \/ \E i \in 1 .. n : p \in F(s[i])
  BY <1>2, <1>4, <1>5, <1>6, <1>7
<1>9. Todo(t, u) = FrameFiles(t, x) \cup Todo(t, s)
  <2>1. \A p : p \in Todo(t, u) <=> \E i \in 1 .. n + 1 : p \in F(u[i])
    BY <1>2 DEF Todo, F
  <2>2. \A p : p \in Todo(t, s) <=> \E i \in 1 .. n : p \in F(s[i])
    BY <1>1 DEF Todo, F
  <2>3. F(x) = FrameFiles(t, x)
    BY DEF F
  <2> QED BY <1>8, <2>1, <2>2, <2>3
<1>10. ASSUME Apart(t, u)
       PROVE  Apart(t, s) /\ PathsApart(FrameFiles(t, x), Todo(t, s))
  <2>1. \A k, l \in 1 .. n + 1 : k # l => PathsApart(F(u[k]), F(u[l]))
    BY <1>2, <1>10 DEF Apart, F
  <2>2. ASSUME NEW k \in 1 .. n, NEW l \in 1 .. n, k # l
        PROVE  PathsApart(F(s[k]), F(s[l]))
    <3>1. k + 1 \in 1 .. n + 1 /\ l + 1 \in 1 .. n + 1 /\ k + 1 # l + 1
      BY <1>1, <2>2
    <3> QED BY <1>2, <2>1, <3>1
  <2>3. ASSUME NEW p \in F(x), NEW q \in Todo(t, s)
        PROVE  p[1] # q[1]
    <3>1. PICK i \in 1 .. n : q \in F(s[i])
      BY <1>1, <2>3 DEF Todo, F
    <3>2. PathsApart(F(u[1]), F(u[i + 1]))
      BY <1>6, <1>7, <2>1
    <3> QED BY <1>2, <3>1, <3>2 DEF PathsApart
  <2> QED BY <1>1, <2>2, <2>3 DEF Apart, PathsApart, F
<1>11. ASSUME Apart(t, s), PathsApart(FrameFiles(t, x), Todo(t, s))
       PROVE  Apart(t, u)
  <2>1. \A p \in F(x) : \A i \in 1 .. n : \A q \in F(s[i]) : p[1] # q[1]
    BY <1>1, <1>11 DEF PathsApart, Todo, F
  <2>2. \A k, l \in 1 .. n : k # l => PathsApart(F(s[k]), F(s[l]))
    BY <1>1, <1>11 DEF Apart, F
  <2>3. ASSUME NEW k \in 1 .. n + 1, NEW l \in 1 .. n + 1, k # l
        PROVE  PathsApart(F(u[k]), F(u[l]))
    <3>1. CASE k = 1
      <4>1. l \in 2 .. n + 1
        BY <1>5, <2>3, <3>1
      <4>2. u[k] = x /\ u[l] = s[l - 1] /\ l - 1 \in 1 .. n
        BY <1>2, <1>4, <3>1, <4>1
      <4> QED BY <2>1, <4>2 DEF PathsApart
    <3>2. CASE l = 1
      <4>1. k \in 2 .. n + 1
        BY <1>5, <2>3, <3>2
      <4>2. u[l] = x /\ u[k] = s[k - 1] /\ k - 1 \in 1 .. n
        BY <1>2, <1>4, <3>2, <4>1
      <4> QED BY <2>1, <4>2 DEF PathsApart
    <3>3. CASE k # 1 /\ l # 1
      <4>1. k \in 2 .. n + 1 /\ l \in 2 .. n + 1
        BY <1>5, <3>3
      <4>2. PICK i \in 1 .. n, j \in 1 .. n : i = k - 1 /\ j = l - 1
        BY <1>4, <4>1
      <4>3. u[k] = s[i] /\ u[l] = s[j] /\ i # j
        BY <1>1, <1>4, <2>3, <4>1, <4>2
      <4> QED BY <2>2, <4>3
    <3> QED BY <3>1, <3>2, <3>3
  <2> QED BY <1>2, <2>3 DEF Apart, F
<1> QED BY <1>9, <1>10, <1>11 DEF u

\* Joining is associative.
LEMMA Associative ==
    ASSUME NEW S, NEW a \in Seq(S), NEW b \in Seq(S), NEW c \in Seq(S)
    PROVE  (a \o b) \o c = a \o (b \o c)
OBVIOUS

\* The uris of an entry's files are sequences of characters.
LEMMA EntryUris ==
    ASSUME NEW t \in Trees, NEW d \in DOMAIN t, NEW e \in t[d],
           NEW p \in EntryNames(Named(t), e)
    PROVE  p[1] \in Seq(Chars) /\ p[2] \in FileNodes
<1>1. e.dir => Named(t)[e.to] \subseteq Uried
  BY NamedTypes, TraverseAssumption
<1>2. p \in Uried
  BY <1>1, EntryShape
<1> QED BY <1>2 DEF Uried

\* readdir takes the files of one entry from those of a call, and no other
\* entry of the directory has their paths.
LEMMA TakenFiles ==
    ASSUME NEW t \in Trees, NEW f \in [dir : DOMAIN t, path : Seq(Chars), left : SUBSET Entries],
           f.left \subseteq t[f.dir], NEW e \in f.left, NEW g,
           g.path = f.path, g.left = f.left \ {e}
    PROVE  /\ FrameFiles(t, f) = FrameFiles(t, g) \cup EntryFiles(t, f.path, e)
           /\ PathsApart(EntryFiles(t, f.path, e), FrameFiles(t, g))
<1>2. FrameFiles(t, f) = FrameFiles(t, g) \cup EntryFiles(t, f.path, e)
  BY DEF FrameFiles
<1>3. PICK d \in DOMAIN t, path \in Seq(Chars) : d = f.dir /\ path = f.path
  OBVIOUS
<1>4. ASSUME NEW p \in EntryFiles(t, f.path, e), NEW q \in FrameFiles(t, g)
      PROVE  p[1] # q[1]
  <2>1. PICK x \in f.left : x # e /\ q \in EntryFiles(t, path, x)
    BY <1>3, <1>4 DEF FrameFiles
  <2>2. PICK a \in EntryNames(Named(t), e) : p = <<path \o a[1], a[2]>>
    BY <1>3, <1>4 DEF EntryFiles
  <2>3. PICK b \in EntryNames(Named(t), x) : q = <<path \o b[1], b[2]>>
    BY <2>1 DEF EntryFiles
  <2>4. e \in t[d] /\ x \in t[d]
    BY <1>3
  <2>5. a[1] # b[1]
    BY <2>1, <2>4, EntriesDiffer
  <2>6. a[1] \in Seq(Chars) /\ b[1] \in Seq(Chars)
    BY <2>4, EntryUris
  <2>7. path \o a[1] = path \o b[1] => a[1] = b[1]
    BY <2>6, ConcatSimplifications
  <2> QED BY <2>2, <2>3, <2>5, <2>7
<1> QED BY <1>2, <1>4 DEF PathsApart

\* The path of an entry, before it is clipped.
LEMMA JoinedPath ==
    ASSUME NEW t \in Trees, NEW d \in DOMAIN t, NEW e \in t[d], NEW path \in Seq(Chars)
    PROVE  /\ path \o <<"/">> \o e.name \in Seq(Chars)
           /\ <<"/">> \o e.name \in Seq(Chars)
           /\ path \o <<"/">> \o e.name = path \o (<<"/">> \o e.name)
<1>1. e.name \in Seq(Chars)
  <2>1. e.name \in Seq(STRING)
    BY TraverseAssumption
  <2>2. Seq(STRING) \subseteq Seq(Chars)
    BY DEF Chars
  <2> QED BY <2>1, <2>2
<1>2. <<"/">> \in Seq(Chars)
  BY OneTypes DEF Chars
<1>3. PICK a \in Seq(Chars), n \in Seq(Chars) : a = <<"/">> /\ n = e.name
  BY <1>1, <1>2
<1> HIDE DEF Chars
<1>4. (path \o a) \o n \in Seq(Chars) /\ a \o n \in Seq(Chars)
  BY ConcatProperties
<1>5. (path \o a) \o n = path \o (a \o n)
  BY Associative
<1> QED BY <1>3, <1>4, <1>5

\* A call that has read nothing has the files of its directory to read.
LEMMA AllFiles ==
    ASSUME NEW t \in Trees, NEW d \in DOMAIN t, NEW g, g.left = t[d]
    PROVE  FrameFiles(t, g) = {<<g.path \o q[1], q[2]>> : q \in Named(t)[d]}
<1> DEFINE N == Named(t)
<1>1. N[d] = UNION {EntryNames(N, x) : x \in t[d]}
  BY NamedUnfolds DEF DirNames
<1> HIDE DEF N
<1>2. ASSUME NEW p
      PROVE  p \in FrameFiles(t, g) <=>
                 \E q \in N[d] : p = <<g.path \o q[1], q[2]>>
  <2>1. p \in FrameFiles(t, g) <=>
            \E x \in t[d] : p \in EntryFiles(t, g.path, x)
    BY DEF FrameFiles
  <2>2. \A x : p \in EntryFiles(t, g.path, x) <=>
            \E q \in EntryNames(N, x) : p = <<g.path \o q[1], q[2]>>
    BY DEF EntryFiles, N
  <2>3. \A q : q \in N[d] <=> \E x \in t[d] : q \in EntryNames(N, x)
    BY <1>1
  <2> QED BY <2>1, <2>2, <2>3
<1> QED BY <1>2 DEF N

\* A call for a subdirectory has the files of its entry to read.
LEMMA SubDirFiles ==
    ASSUME NEW t \in Trees, NEW d \in DOMAIN t, NEW e \in t[d], e.dir, ~Ignored(e.name),
           NEW path \in Seq(Chars), NEW g, g.path = path \o <<"/">> \o e.name,
           g.left = t[e.to]
    PROVE  FrameFiles(t, g) = EntryFiles(t, path, e)
<1>1. e.to \in DOMAIN t
  BY TraverseAssumption
<1>3. PICK h \in Seq(Chars) : h = <<"/">> \o e.name
  BY JoinedPath
<1>4. g.path = path \o h
  BY <1>3, JoinedPath
<1>6. Named(t)[e.to] \subseteq Uried
  BY <1>1, NamedTypes
<1>7. ASSUME NEW p \in Named(t)[e.to]
      PROVE  path \o (h \o p[1]) = g.path \o p[1]
  <2>1. PICK u \in Seq(Chars) : u = p[1]
    BY <1>6 DEF Uried
  <2>2. (path \o h) \o u = path \o (h \o u)
    BY Associative
  <2> QED BY <1>4, <2>1, <2>2
<1> DEFINE N == Named(t)
<1>8. EntryNames(N, e) = {<<h \o q[1], q[2]>> : q \in N[e.to]}
  BY <1>3 DEF EntryNames
<1> HIDE DEF N
<1>9. ASSUME NEW p
      PROVE  p \in EntryFiles(t, path, e) <=>
                 \E q \in N[e.to] : p = <<g.path \o q[1], q[2]>>
  <2>1. p \in EntryFiles(t, path, e) <=>
            \E r \in EntryNames(N, e) : p = <<path \o r[1], r[2]>>
    BY DEF EntryFiles, N
  <2>2. (\E r \in EntryNames(N, e) : p = <<path \o r[1], r[2]>>) <=>
            \E q \in N[e.to] : p = <<path \o (h \o q[1]), q[2]>>
    <3>1. ASSUME NEW q
          PROVE  /\ <<h \o q[1], q[2]>>[1] = h \o q[1]
                 /\ <<h \o q[1], q[2]>>[2] = q[2]
      OBVIOUS
    <3>2. ASSUME NEW r \in EntryNames(N, e)
          PROVE  \E q \in N[e.to] : r[1] = h \o q[1] /\ r[2] = q[2]
      BY <1>8, <3>1, <3>2
    <3>3. ASSUME NEW q \in N[e.to]
          PROVE  \E r \in EntryNames(N, e) : r[1] = h \o q[1] /\ r[2] = q[2]
      BY <1>8, <3>1, <3>3
    <3> QED BY <3>2, <3>3
  <2>3. \A q \in N[e.to] : path \o (h \o q[1]) = g.path \o q[1]
    BY <1>7 DEF N
  <2> QED BY <2>1, <2>2, <2>3
<1>10. FrameFiles(t, g) = {<<g.path \o q[1], q[2]>> : q \in N[e.to]}
  BY <1>1, AllFiles DEF N
<1> QED BY <1>9, <1>10

-------------------------------------------------------------------------------
(* The walk *)

\* A walk on the same tree stays well formed when its stack, its open
\* directories, its error and what it visited do.
LEMMA WalkKept ==
    ASSUME WalkInv, tree' = tree, stack' \in Seq(Frames), dirs' = Len(stack'),
           err' \in {"SUCCESS", "NOT_FOUND", "PATH_LEN"}, visited' \in Seq(FileNodes)
    PROVE  WalkInv'
<1>1. Frames' = Frames
  BY DEF Frames, Entries
<1>2. tree' \in Trees
  BY DEF WalkInv
<1> QED BY <1>1, <1>2 DEF WalkInv

\* A directory is opened in front of the calls that are in progress.
LEMMA OpenDirKeeps ==
    ASSUME WalkInv, NEW calls \in Seq(Frames), NEW d \in DOMAIN tree, NEW p \in Seq(Chars),
           Len(calls) = dirs, Len(BaseDir) <= Len(p), OpenDir(calls, d, p)
    PROVE  WalkInv'
<1> DEFINE f == [dir |-> d, path |-> p, left |-> tree[d]]
<1>1. p \in Paths
  BY DEF OpenDir, RoomForDir, Paths
<1>2. tree[d] \subseteq Entries
  BY DEF Entries
<1>3. f \in Frames
  BY <1>1, <1>2 DEF Frames
<1>4. stack' = <<f>> \o calls /\ dirs' = dirs + 1 /\ UNCHANGED <<tree, err, visited>>
  BY DEF OpenDir
<1> HIDE DEF f
<1>5. stack' \in Seq(Frames) /\ Len(stack') = Len(calls) + 1
  BY <1>3, <1>4, PushTypes
<1>6. err' \in {"SUCCESS", "NOT_FOUND", "PATH_LEN"} /\ visited' \in Seq(FileNodes)
  BY <1>4 DEF WalkInv
<1> QED BY <1>4, <1>5, <1>6, WalkKept

\* A directory that is not opened leaves the calls that are in progress.
LEMMA OpenFailsKeeps ==
    ASSUME WalkInv, NEW calls \in Seq(Frames), NEW p, Len(calls) = dirs,
           OpenFails(calls, p)
    PROVE  WalkInv'
<1>1. /\ stack' = calls
      /\ UNCHANGED <<tree, dirs, visited>>
      /\ err' \in {"SUCCESS", "NOT_FOUND", "PATH_LEN"}
  BY DEF OpenFails
<1>2. visited' \in Seq(FileNodes)
  BY <1>1 DEF WalkInv
<1>3. dirs' = Len(stack')
  BY <1>1
<1> QED BY <1>1, <1>2, <1>3, WalkKept

\* The base directory is opened by a walk that has no call yet.
LEMMA OpenRootKeeps ==
    ASSUME WalkInv, stack = << >>, OpenRoot \/ OpenRootFails
    PROVE  WalkInv'
<1>1. Root \in DOMAIN tree
  BY TraverseAssumption DEF WalkInv
<1>2. << >> \in Seq(Frames) /\ Len(<< >>) = 0
  BY EmptySeq
<1>3. dirs = 0
  BY DEF WalkInv
<1> DEFINE p == Clipped(BaseDir)
<1>4. p \in Seq(Chars) /\ Len(p) = IF Len(BaseDir) < MAX_PATH THEN Len(BaseDir) ELSE MAX_PATH
  BY BaseTypes, ClippedTypes
<1>5. CASE OpenRoot
  <2>1. OpenDir(<< >>, Root, p)
    BY <1>5 DEF OpenRoot
  <2>2. Len(p) + 3 <= MAX_PATH
    BY <2>1 DEF OpenDir, RoomForDir
  <2> HIDE DEF p
  <2>3. Len(BaseDir) <= Len(p)
    BY <1>4, <2>2, BaseTypes, TraverseAssumption
  <2> QED BY <1>1, <1>2, <1>3, <1>4, <2>1, <2>3, OpenDirKeeps
<1>6. CASE OpenRootFails
  <2>1. OpenFails(<< >>, p)
    BY <1>6 DEF OpenRootFails
  <2> HIDE DEF p
  <2> QED BY <1>2, <1>3, <2>1, OpenFailsKeeps
<1> QED BY <1>5, <1>6

\* So is every other step of the walk.
LEMMA WalkKeeps ==
    ASSUME WalkInv, Walk
    PROVE  WalkInv'
<1>1. ASSUME NEW e \in Entries, SubDir(e)
      PROVE  /\ stack # << >>
             /\ Taken(e) \in Seq(Frames)
             /\ Len(Taken(e)) = dirs
             /\ e.to \in DOMAIN tree
             /\ PathOf(e) \in Seq(Chars)
             /\ Len(BaseDir) <= Len(PathOf(e))
  <2>1. stack # << >> /\ e.dir /\ tree \in Trees /\ dirs = Len(stack)
    BY <1>1 DEF SubDir, Walking, WalkInv
  <2>2. Taken(e) \in Seq(Frames) /\ Len(Taken(e)) = dirs
    BY <2>1, TakenTypes
  <2>3. e.to \in DOMAIN tree
    BY <2>1, EntryTypes
  <2>4. PathOf(e) \in Seq(Chars) /\ Len(PathOf(e)) >= Len(BaseDir) + 1
    BY <2>1, PathTypes
  <2>5. Len(BaseDir) <= Len(PathOf(e))
    BY <2>4, BaseTypes
  <2> QED BY <2>1, <2>2, <2>3, <2>4, <2>5
<1>2. ASSUME NEW e \in Entries, Descend(e)
      PROVE  WalkInv'
  <2>1. SubDir(e) /\ OpenDir(Taken(e), e.to, PathOf(e))
    BY <1>2 DEF Descend
  <2> QED BY <1>1, <2>1, OpenDirKeeps
<1>3. ASSUME NEW e \in Entries, DescendFails(e)
      PROVE  WalkInv'
  <2>1. SubDir(e) /\ OpenFails(Taken(e), PathOf(e))
    BY <1>3 DEF DescendFails
  <2> QED BY <1>1, <2>1, OpenFailsKeeps
<1>4. ASSUME NEW e \in Entries, Skip(e)
      PROVE  WalkInv'
  <2>1. stack # << >> /\ stack' = Taken(e) /\ UNCHANGED <<tree, dirs, err, visited>>
    BY <1>4 DEF Skip, Walking
  <2>2. stack' \in Seq(Frames) /\ Len(stack') = dirs'
    BY <2>1, TakenTypes DEF WalkInv
  <2>3. err' \in {"SUCCESS", "NOT_FOUND", "PATH_LEN"} /\ visited' \in Seq(FileNodes)
    BY <2>1 DEF WalkInv
  <2> QED BY <2>1, <2>2, <2>3, WalkKept
<1>5. CASE CloseDir \/ Unwind
  <2>1. /\ stack # << >>
        /\ stack' = Tail(stack)
        /\ dirs' = dirs - 1
        /\ UNCHANGED <<tree, err, visited>>
    BY <1>5 DEF CloseDir, Unwind, Walking
  <2>2. stack' \in Seq(Frames) /\ Len(stack') = dirs'
    BY <2>1, TopTypes DEF WalkInv
  <2>3. err' \in {"SUCCESS", "NOT_FOUND", "PATH_LEN"} /\ visited' \in Seq(FileNodes)
    BY <2>1 DEF WalkInv
  <2> QED BY <2>1, <2>2, <2>3, WalkKept
<1> QED BY <1>2, <1>3, <1>4, <1>5 DEF Walk

\* The callback is given a file.
LEMMA VisitKeeps ==
    ASSUME WalkInv, NEW e \in Entries, Visit(e)
    PROVE  /\ WalkInv'
           /\ stack # << >>
           /\ e.to \in FileNodes
<1>1. /\ stack # << >>
      /\ stack' = Taken(e)
      /\ visited' = Append(visited, e.to)
      /\ UNCHANGED <<tree, dirs, err>>
      /\ ~e.dir
  BY DEF Visit, Walking
<1>2. e.to \in FileNodes
  BY <1>1, EntryTypes DEF WalkInv
<1>3. stack' \in Seq(Frames) /\ Len(stack') = dirs'
  BY <1>1, TakenTypes DEF WalkInv
<1>4. err' \in {"SUCCESS", "NOT_FOUND", "PATH_LEN"} /\ visited' \in Seq(FileNodes)
  BY <1>1, <1>2 DEF WalkInv
<1> QED BY <1>1, <1>2, <1>3, <1>4, WalkKept

-------------------------------------------------------------------------------
(* The memory and the table *)

\* Whole batches.
LEMMA WholeBatches ==
    ASSUME NEW b \in Nat \ {0}, NEW k \in Int
    PROVE  (b * k) % b = 0
OBVIOUS

\* One batch more is whole batches again.
LEMMA OneBatchMore ==
    ASSUME NEW b \in Nat \ {0}, NEW n \in Nat, n % b = 0
    PROVE  (n + b) % b = 0
<1> DEFINE k == n \div b
<1>1. n = b * k /\ k \in Int
  OBVIOUS
<1> HIDE DEF k
<1>2. n + b = b * (k + 1) /\ k + 1 \in Int
  BY <1>1
<1>3. (b * (k + 1)) % b = 0
  BY <1>2, WholeBatches
<1> QED BY <1>2, <1>3

MemoryTypes == [pos : 0..Capacity, end : {Capacity}, resize_bytes : {Capacity}]

\* The size of a file as an int: its own, or less when that is too large.
LEMMA SizeTypes ==
    ASSUME NEW f \in FileNodes
    PROVE  /\ Size(f) \in Int
           /\ IF SizeOf[f] <= IntMax THEN Size(f) = SizeOf[f] ELSE Size(f) < SizeOf[f]
<1> DEFINE m == 2 * (IntMax + 1)
<1>1. PICK x \in Int, n \in Nat : x = SizeOf[f] /\ n = IntMax /\ x >= -1
  BY SiteAssumption DEF FileNodes
<1>2. m \in Nat \ {0} /\ m = 2 * (n + 1)
  BY <1>1
<1> HIDE DEF m
<1>3. PICK low \in Int : low = x % m /\ 0 <= low /\ low < m
  BY <1>1, <1>2
<1>4. Size(f) = IF x \in -n - 1 .. n THEN x ELSE IF low <= n THEN low ELSE low - m
  BY <1>1, <1>3 DEF Size, ToInt, m
<1> QED BY <1>1, <1>2, <1>3, <1>4

\* What is got is in front of the new position.
LEMMA GotTypes ==
    ASSUME NEW m \in MemoryTypes, NEW n \in Int, n >= -m.pos, Fits(m, n)
    PROVE  Got(m, n) \in MemoryTypes /\ Got(m, n).pos = m.pos + n
<1>1. m.pos \in 0 .. Capacity /\ m.end = Capacity /\ Capacity \in Nat
  BY SiteAssumption DEF MemoryTypes
<1>2. m.pos + n \in 0 .. Capacity
  BY <1>1 DEF Fits
<1> DEFINE p == m.pos + n
<1> HIDE DEF p
<1>3. Got(m, n) = [m EXCEPT !.pos = p]
  BY DEF Got, p
<1>4. [m EXCEPT !.pos = p] \in MemoryTypes /\ [m EXCEPT !.pos = p].pos = p
  BY <1>2 DEF MemoryTypes, p
<1> QED BY <1>3, <1>4 DEF p

\* static_cache_add got memory for the name and for the bytes behind it.
LEMMA OpenedTypes ==
    ASSUME WalkInv, BlockInv, NEW e \in Entries, NEW f \in FileNodes, Opened(e, f)
    PROVE  /\ memory' \in MemoryTypes
           /\ WithName(e).pos = memory.pos + Len(Uri(e))
           /\ memory'.pos = WithName(e).pos + Size(f)
           /\ memory'.pos >= memory.pos
           /\ memory.pos \in Nat
<1>1. /\ Visit(e)
      /\ Fits(memory, Len(Uri(e)))
      /\ Fits(WithName(e), Size(f))
      /\ Size(f) < 0 => SizeOf[f] < 0
      /\ memory' = Got(WithName(e), Size(f))
  BY DEF Opened, Scanning
<1>2. stack # << >> /\ Size(f) \in Int
  BY <1>1, VisitKeeps, SizeTypes
<1>3. Len(Uri(e)) \in Nat /\ Len(Uri(e)) >= 1
  BY <1>2, UriTypes
<1>4. memory \in MemoryTypes
  BY DEF BlockInv, MemoryTypes
<1>5. memory.pos \in Nat
  BY <1>4, SiteAssumption DEF MemoryTypes
<1>6. WithName(e) \in MemoryTypes /\ WithName(e).pos = memory.pos + Len(Uri(e))
  BY <1>1, <1>3, <1>4, <1>5, GotTypes DEF WithName
<1>10. Size(f) >= -1
  <2>1. PICK x \in Int, n \in Nat : x = SizeOf[f] /\ n = IntMax /\ x >= -1
    BY SiteAssumption DEF FileNodes
  <2>2. CASE Size(f) < 0
    <3>1. x < 0 /\ x <= n
      BY <1>1, <2>1, <2>2
    <3>2. Size(f) = x
      BY <2>1, <3>1, SizeTypes
    <3> QED BY <2>1, <3>2
  <2> QED BY <1>2, <2>2
<1>7. Size(f) \in Int /\ Size(f) >= -WithName(e).pos
  BY <1>2, <1>3, <1>5, <1>6, <1>10
<1>8. memory' \in MemoryTypes /\ memory'.pos = WithName(e).pos + Size(f)
  BY <1>1, <1>6, <1>7, GotTypes
<1>9. memory'.pos >= memory.pos
  <2>1. memory'.pos = memory.pos + Len(Uri(e)) + Size(f)
    BY <1>6, <1>8
  <2> QED BY <1>2, <1>3, <1>5, <1>10, <2>1
<1> QED BY <1>5, <1>6, <1>8, <1>9

\* The j-th of l numbers from a on is one of them.
LEMMA CountedOn ==
    ASSUME NEW a \in Nat, NEW l \in Nat, NEW j \in Int, 1 <= j, j <= l
    PROVE  a + j - 1 \in a .. a + l - 1
  OBVIOUS

\* Sending n more of what is left leaves as many less.
LEMMA SentOn ==
    ASSUME NEW l \in Nat, NEW x \in Nat, NEW q \in Nat, NEW n \in Nat, NEW len,
           q = l - x, x <= l, n <= x, len = q + n
    PROVE  x - n <= l /\ len = l - (x - n)
  OBVIOUS

\* The types of an entry.
LEMMA BlockTypes ==
    ASSUME NEW c \in Seq(Blocks), NEW i \in 1 .. Len(c)
    PROVE  /\ c[i].name \in Nat /\ c[i].memory \in Nat /\ c[i].length \in Nat
           /\ c[i].uri \in Seq(Chars) /\ Len(c[i].uri) \in Nat
           /\ c[i].file \in FileNodes
<1>1. PICK b \in Blocks : b = c[i]
  OBVIOUS
<1>2. b.name \in Nat /\ b.memory \in Nat /\ b.length \in Nat
  BY DEF Blocks
<1>3. b.uri \in Seq(Chars) /\ b.file \in FileNodes
  BY DEF Blocks
<1>4. Len(b.uri) \in Nat
  BY <1>3, LenProperties
<1> QED BY <1>1, <1>2, <1>3, <1>4

\* The blocks stay in order while the position moves on.
LEMMA BlocksKept ==
    ASSUME BlockInv, content' = content, memory' \in MemoryTypes,
           memory'.pos >= memory.pos
    PROVE  BlockInv'
<1>1. memory.pos \in Int /\ memory'.pos \in Int
  BY SiteAssumption DEF BlockInv, MemoryTypes
<1>2. ASSUME NEW i \in 1 .. Len(content)
      PROVE  content[i].memory + content[i].length <= memory'.pos
  <2>1. content[i].memory \in Nat /\ content[i].length \in Nat
    BY <1>2, BlockTypes DEF BlockInv
  <2>2. content[i].memory + content[i].length <= memory.pos
    BY <1>2 DEF BlockInv
  <2> QED BY <1>1, <2>1, <2>2
<1> QED BY <1>2 DEF BlockInv, MemoryTypes

\* A file that is added is behind all others.
LEMMA AddKeepsBlocks ==
    ASSUME WalkInv, BlockInv, NEW e \in Entries, NEW f \in FileNodes, Add(e, f)
    PROVE  BlockInv'
<1> DEFINE b == [uri |-> Uri(e), name |-> memory.pos, mime_type |-> MimeType(Uri(e)),
                 memory |-> WithName(e).pos, length |-> Size(f), file |-> f]
<1>1. /\ Opened(e, f)
      /\ Visit(e)
      /\ Size(f) > 0
      /\ content' = Append(content, b)
  BY DEF Add, Opened, Scanning
<1>2. stack # << >> /\ Size(f) \in Int
  BY <1>1, VisitKeeps, SizeTypes
<1>3. Uri(e) \in Seq(Chars) /\ Len(Uri(e)) \in Nat /\ Len(Uri(e)) >= 1
  BY <1>2, UriTypes
<1>4. /\ memory' \in MemoryTypes
      /\ WithName(e).pos = memory.pos + Len(Uri(e))
      /\ memory'.pos = WithName(e).pos + Size(f)
      /\ memory'.pos >= memory.pos
      /\ memory.pos \in Nat
  BY <1>1, OpenedTypes
<1>5. Size(f) \in Nat /\ Size(f) >= 1
  BY <1>1, <1>2
<1>6. MimeType(Uri(e)) \in KnownSuffixes \cup {"application/octet-stream"}
  BY DEF MimeType
<1>7. b \in Blocks
  BY <1>2, <1>3, <1>4, <1>5, <1>6 DEF Blocks
<1>8. /\ Len(b.uri) >= 1 /\ Len(b.uri) \in Nat
      /\ b.length >= 1
      /\ b.name + Len(b.uri) <= b.memory
      /\ b.memory + b.length <= memory'.pos
      /\ b.name = memory.pos
  BY <1>3, <1>4, <1>5
<1> HIDE DEF b
<1>9. content \in Seq(Blocks) /\ Len(content) \in Nat
  BY DEF BlockInv
<1>10. /\ content' \in Seq(Blocks)
       /\ Len(content') = Len(content) + 1
       /\ \A i \in 1 .. Len(content) : content'[i] = content[i]
       /\ content'[Len(content) + 1] = b
  BY <1>1, <1>7, <1>9, AppendProperties
<1>11. ASSUME NEW i \in 1 .. Len(content)
       PROVE  /\ Len(content[i].uri) >= 1
              /\ content[i].length >= 1
              /\ content[i].name + Len(content[i].uri) <= content[i].memory
              /\ content[i].memory + content[i].length <= memory.pos
              /\ content[i].memory + content[i].length <= memory'.pos
  <2>1. content[i].memory \in Nat /\ content[i].length \in Nat
    BY <1>9, <1>11, BlockTypes
  <2>2. memory'.pos \in Int
    BY <1>4, SiteAssumption DEF MemoryTypes
  <2>3. content[i].memory + content[i].length <= memory.pos
    BY <1>11 DEF BlockInv
  <2>4. content[i].memory + content[i].length <= memory'.pos
    BY <1>4, <2>1, <2>2, <2>3
  <2> QED BY <1>11, <2>3, <2>4 DEF BlockInv
<1>12. \A i \in 1 .. Len(content') : i \in 1 .. Len(content) \/ i = Len(content) + 1
  BY <1>9, <1>10
<1>13. ASSUME NEW i \in 1 .. Len(content')
       PROVE  /\ Len(content'[i].uri) >= 1
              /\ content'[i].length >= 1
              /\ content'[i].name + Len(content'[i].uri) <= content'[i].memory
              /\ content'[i].memory + content'[i].length <= memory'.pos
  <2>1. CASE i \in 1 .. Len(content)
    BY <1>10, <1>11, <2>1
  <2>2. CASE i = Len(content) + 1
    BY <1>8, <1>10, <2>2
  <2> QED BY <1>12, <2>1, <2>2
<1>14. ASSUME NEW i \in 1 .. Len(content'), NEW j \in 1 .. Len(content'), i < j
       PROVE  content'[i].memory + content'[i].length <= content'[j].name
  <2>1. i \in 1 .. Len(content)
    BY <1>9, <1>10, <1>14
  <2>2. CASE j \in 1 .. Len(content)
    BY <1>10, <1>14, <2>1, <2>2 DEF BlockInv
  <2>3. CASE j = Len(content) + 1
    BY <1>8, <1>10, <1>11, <2>1, <2>3
  <2> QED BY <1>12, <2>2, <2>3
<1> QED BY <1>4, <1>10, <1>13, <1>14 DEF BlockInv, MemoryTypes

\* The table has an element for the file that is added.
LEMMA AddKeepsSlots ==
    ASSUME BlockInv, SlotInv, slots' = Grown, Len(content') = Len(content) + 1
    PROVE  SlotInv'
<1>1. Batch \in Nat \ {0} /\ slots \in Nat /\ slots % Batch = 0 /\ Len(content) <= slots
  BY SiteAssumption DEF SlotInv
<1>2. PICK n \in Nat : n = Len(content)
  BY DEF BlockInv
<1>3. CASE n % Batch = 0
  <2>1. slots' = n + Batch
    BY <1>2, <1>3 DEF Grown
  <2>2. slots' % Batch = 0
    BY <1>1, <1>2, <1>3, <2>1, OneBatchMore
  <2>3. slots' \in Nat /\ n + 1 <= slots'
    BY <1>1, <2>1
  <2> QED BY <1>2, <2>2, <2>3 DEF SlotInv
<1>4. CASE n % Batch # 0
  <2>1. slots' = slots
    BY <1>2, <1>4 DEF Grown
  <2>2. n # slots
    BY <1>1, <1>4
  <2>3. n + 1 <= slots
    BY <1>1, <1>2, <2>2
  <2> QED BY <1>1, <1>2, <2>1, <2>3 DEF SlotInv
<1> QED BY <1>3, <1>4

-------------------------------------------------------------------------------
(* Requests *)

\* The smallest of some numbers is one of them.
LEMMA MinOfNats ==
    ASSUME NEW S, S \subseteq Nat, S # {}
    PROVE  Min(S) \in S
BY LeastOf DEF Min

\* Nothing is sent while the cache is filled, and what is sent stays what it is.
LEMMA SendKept ==
    ASSUME SendInv, phase # "serving", send' = send
    PROVE  SendInv'
<1>1. send.at = "idle"
  BY DEF SendInv
<1> QED BY <1>1 DEF SendInv, Sends

\* A request is sent from the start of the entry that was found.
LEMMA RequestKeeps ==
    ASSUME BlockInv, SendInv, NEW uri, Request(uri)
    PROVE  SendInv'
<1>1. phase = "serving" /\ phase' = phase /\ content' = content /\ memory' = memory
  BY DEF Request, Served
<1>2. NoSend \in Sends
  BY EmptySeq DEF NoSend, Sends
<1>3. CASE Matches(uri) = {}
  <2>1. send' = [NoSend EXCEPT !.at = "not_found"]
    BY <1>3 DEF Request
  <2>2. send' \in Sends /\ send'.at = "not_found"
    BY <1>2, <2>1 DEF Sends, NoSend
  <2> QED BY <1>1, <2>2 DEF SendInv, Sends
<1>4. CASE Matches(uri) # {}
  <2>1. Matches(uri) \subseteq Nat /\ Matches(uri) \subseteq 1 .. Len(content)
    BY DEF Matches
  <2>2. PICK m \in 1 .. Len(content) : m = Min(Matches(uri))
    BY <1>4, <2>1, MinOfNats
  <2>3. content[m].length \in Nat
    BY <2>2, BlockTypes DEF BlockInv
  <2> DEFINE n == content[m].length
  <2>4. send' = [NoSend EXCEPT !.at = "sending", !.entry = m, !.left = n]
    BY <1>4, <2>2 DEF Request
  <2>5. n \in Nat /\ n = content'[m].length
    BY <1>1, <2>3
  <2> HIDE DEF n
  <2>6. /\ send' = [at |-> "sending", entry |-> m, left |-> n, sends |-> 0, got |-> << >>]
    BY <2>4 DEF NoSend
  <2>7. send' \in Sends
    BY <2>5, <2>6, EmptySeq DEF Sends
  <2>8. /\ send'.at = "sending" /\ send'.entry = m /\ send'.left = n
        /\ send'.sends = 0 /\ send'.got = << >>
    BY <2>6
  <2>9. Len(send'.got) = 0 /\ n - n = 0
    BY <2>5, <2>8
  <2>10. Entry' = content'[m]
    BY <2>8 DEF Entry
  <2>11. send'.left <= Entry'.length /\ Len(send'.got) = Entry'.length - send'.left
    BY <2>5, <2>8, <2>9, <2>10
  <2> QED BY <1>1, <2>2, <2>7, <2>8, <2>9, <2>11 DEF SendInv
<1> QED BY <1>3, <1>4

\* A part is sent from the front of the entry, whatever was sent before it.
LEMMA SendPartKeeps ==
    ASSUME BlockInv, SendInv, NEW n, SendPart(n)
    PROVE  SendInv'
<1>1. phase = "serving" /\ phase' = phase /\ content' = content /\ memory' = memory
  BY DEF SendPart, Served
<1>2. send \in Sends /\ send.at = "sending"
  BY DEF SendPart, SendInv
<1>3. PICK m \in 1 .. Len(content) : m = send.entry
  BY <1>2 DEF SendInv
<1>4. PICK a \in Nat, l \in Nat : a = content[m].memory /\ l = content[m].length
  BY <1>3, BlockTypes DEF BlockInv
<1>5. PICK x \in Nat, k \in Nat : x = send.left /\ k = send.sends
  BY <1>2 DEF Sends
<1>6. PICK g \in Seq(Nat) : g = send.got
  BY <1>2 DEF Sends
<1>7. Entry = content[m] /\ Source = a /\ Block(m) = a .. a + l - 1
  BY <1>3, <1>4 DEF Entry, Source, Block
<1>8. n \in 1 .. x
  BY <1>5 DEF SendPart
<1>9. /\ x <= l /\ Len(g) = l - x
      /\ \A i \in 1 .. Len(g) : g[i] \in a .. a + l - 1
      /\ k = 0 => Len(g) = 0
      /\ k = 1 => \A i \in 1 .. Len(g) : g[i] = a + i - 1
  BY <1>2, <1>3, <1>4, <1>5, <1>6, <1>7 DEF SendInv
<1> DEFINE p == [i \in 1 .. n |-> a + i - 1]
           at == IF x = n THEN "sent" ELSE "sending"
<1>10. send' = [send EXCEPT !.left = x - n, !.sends = k + 1, !.got = g \o p, !.at = at]
  BY <1>5, <1>6, <1>7 DEF SendPart
<1>11. p \in Seq(Nat) /\ Len(p) = n /\ \A i \in 1 .. n : p[i] = a + i - 1
  BY <1>4, <1>8
<1> HIDE DEF p, at
<1> DEFINE h == g \o p
<1>12. /\ h \in Seq(Nat) /\ Len(h) = Len(g) + n
       /\ \A i \in 1 .. Len(g) : h[i] = g[i]
       /\ \A i \in Len(g) + 1 .. Len(g) + n : h[i] = p[i - Len(g)]
  BY <1>8, <1>11, ConcatProperties
<1> HIDE DEF h
<1>13. at \in {"sent", "sending"} /\ x - n \in Nat /\ k + 1 \in Nat
  BY <1>5, <1>8 DEF at
<1> DEFINE y == x - n
           z == k + 1
<1>14. send' = [send EXCEPT !.left = y, !.sends = z, !.got = h, !.at = at]
  BY <1>10 DEF h
<1>15. y \in Nat /\ z \in Nat
  BY <1>13
<1> HIDE DEF y, z
<1>16. send' = [at |-> at, entry |-> m, left |-> y, sends |-> z, got |-> h]
  BY <1>2, <1>3, <1>14 DEF Sends
<1>17. m \in Nat
  OBVIOUS
<1>18. send' \in Sends
  BY <1>12, <1>13, <1>15, <1>16, <1>17 DEF Sends
<1>19. ASSUME NEW i \in 1 .. Len(h)
       PROVE  h[i] \in a .. a + l - 1
  <2>1. CASE i \in 1 .. Len(g)
    BY <1>9, <1>12, <2>1
  <2>2. CASE i \in Len(g) + 1 .. Len(g) + n
    <3>1. PICK q \in Nat : q = Len(g)
      BY <1>6
    <3>2. i \in q + 1 .. q + n /\ n \in Nat
      BY <1>8, <2>2, <3>1
    <3>3. i - q \in 1 .. n
      BY <3>2
    <3>4. PICK j \in 1 .. n : j = i - q
      BY <3>3
    <3>5. h[i] = a + j - 1
      BY <1>11, <1>12, <2>2, <3>1, <3>4
    <3>6. n <= l
      BY <1>4, <1>5, <1>8, <1>9
    <3>7. j \in Int /\ 1 <= j /\ j <= l
      BY <1>4, <3>2, <3>4, <3>6
    <3>8. a + j - 1 \in a .. a + l - 1
      BY <3>7, CountedOn
    <3> QED BY <3>5, <3>8
  <2> QED BY <1>6, <1>8, <1>12, <2>1, <2>2
<1>20. ASSUME z = 1, NEW i \in 1 .. Len(h)
       PROVE  h[i] = a + i - 1
  <2>0. \A c \in Nat : c + 1 = 1 => c = 0
    OBVIOUS
  <2>1. k = 0 /\ Len(g) = 0
    BY <1>9, <1>20, <2>0 DEF z
  <2>2. i \in 1 .. n /\ i - Len(g) = i
    BY <1>8, <1>12, <2>1
  <2>3. i \in Len(g) + 1 .. Len(g) + n
    BY <1>8, <2>1, <2>2
  <2>4. h[i] = p[i - Len(g)]
    BY <1>12, <2>3
  <2> QED BY <1>11, <2>2, <2>4
<1>21. y <= l /\ Len(h) = l - y /\ z # 0
  <2>1. PICK q \in Nat : q = Len(g)
    BY <1>6
  <2>2. q = l - x /\ x <= l /\ Len(h) = q + n /\ n \in Nat /\ n <= x
    BY <1>5, <1>8, <1>9, <1>12, <2>1
  <2>3. x - n <= l /\ Len(h) = l - (x - n)
    BY <2>2, SentOn
  <2>5. k + 1 # 0
    BY <1>5
  <2> QED BY <2>3, <2>5 DEF y, z
<1>22. /\ send'.entry = m /\ send'.left = y /\ send'.sends = z
       /\ send'.got = h /\ send'.at = at
  BY <1>16
<1>23. Entry' = content[m] /\ Block(send.entry)' = a .. a + l - 1
  BY <1>1, <1>4, <1>22 DEF Entry, Block
<1>24. /\ send'.entry \in 1 .. Len(content')
       /\ send'.left <= Entry'.length
       /\ Len(send'.got) = Entry'.length - send'.left
       /\ \A i \in 1 .. Len(send'.got) : send'.got[i] \in Block(send.entry)'
       /\ send'.sends = 0 => Len(send'.got) = 0
       /\ send'.sends = 1 =>
            \A i \in 1 .. Len(send'.got) : send'.got[i] = Entry'.memory + i - 1
  BY <1>1, <1>4, <1>19, <1>20, <1>21, <1>22, <1>23
<1> QED BY <1>1, <1>18, <1>24 DEF SendInv

\* An answer that fails or is over leaves the cache alone.
LEMMA AnswerEnds ==
    ASSUME SendInv, SendFails \/ Answered
    PROVE  SendInv'
<1>1. phase = "serving" /\ phase' = phase /\ content' = content /\ memory' = memory
  BY DEF SendFails, Answered, Served
<1>2. send' \in Sends /\ send'.at \in {"failed", "idle"}
  <2>1. CASE SendFails
    <3>1. send' = [send EXCEPT !.at = "failed"] /\ send \in Sends
      BY <2>1 DEF SendFails, SendInv
    <3> QED BY <3>1 DEF Sends
  <2>2. CASE Answered
    <3>1. send' = NoSend
      BY <2>2 DEF Answered
    <3>2. << >> \in Seq(Nat)
      BY EmptySeq
    <3> QED BY <3>1, <3>2 DEF NoSend, Sends
  <2> QED BY <2>1, <2>2
<1> QED BY <1>1, <1>2 DEF SendInv

-------------------------------------------------------------------------------
(* The invariant *)

LEMMA InitInv ==
    ASSUME Init
    PROVE  IInv
<1>1. << >> \in Seq(Frames) /\ << >> \in Seq(Blocks) /\ << >> \in Seq(FileNodes)
      /\ << >> \in Seq(Nat) /\ Len(<< >>) = 0
  BY EmptySeq
<1>2. WalkInv
  BY <1>1 DEF Init, TraverseInit, WalkInv
<1>3. PhaseInv
  BY DEF Init, PhaseInv, TraverseInit
<1>4. BlockInv
  BY <1>1, SiteAssumption DEF Init, BlockInv
<1>5. SlotInv
  <2>1. Batch \in Nat \ {0}
    BY SiteAssumption
  <2>2. Batch % Batch = 0
    BY <2>1
  <2> QED BY <1>1, <2>1, <2>2 DEF Init, SlotInv
<1>6. SendInv
  BY <1>1 DEF Init, NoSend, SendInv, Sends
<1> QED BY <1>2, <1>3, <1>4, <1>5, <1>6 DEF IInv

\* A file keeps the invariant, however little of it static_cache_add took.
LEMMA FileKeeps ==
    ASSUME IInv, NEW e \in Entries, FileFound(e)
    PROVE  IInv'
<1>1. Visit(e) /\ phase = "scanning" /\ send' = send
  BY DEF FileFound, AddBehind, AddAstray, AddNotOpened, AddNotRead, AddNoTable, Add, Opened, Scanning
<1>2. WalkInv' /\ stack # << >>
  BY <1>1, VisitKeeps DEF IInv
<1>3. SendInv'
  BY <1>1, SendKept DEF IInv
<1>4. memory \in MemoryTypes /\ memory.pos \in Nat
  BY SiteAssumption DEF IInv, BlockInv, MemoryTypes
<1>5. CASE AddBehind(e) \/ AddAstray(e)
  <2>1. phase' \in {"behind", "astray"} /\ UNCHANGED <<memory, content, slots, files>>
    BY <1>5 DEF AddBehind, AddAstray
  <2>2. PhaseInv' /\ BlockInv' /\ SlotInv'
    BY <2>1 DEF IInv, PhaseInv, BlockInv, SlotInv
  <2> QED BY <1>2, <1>3, <2>2 DEF IInv
<1>6. CASE AddNotOpened(e)
  <2>1. /\ Fits(memory, Len(Uri(e))) /\ memory' = WithName(e)
        /\ UNCHANGED <<phase, content, slots, files>>
    BY <1>6 DEF AddNotOpened
  <2>2. Len(Uri(e)) \in Nat
    BY <1>2, UriTypes DEF IInv
  <2>3. memory' \in MemoryTypes /\ memory'.pos >= memory.pos
    BY <1>4, <2>1, <2>2, GotTypes DEF WithName
  <2>4. BlockInv'
    BY <2>1, <2>3, BlocksKept DEF IInv
  <2>5. PhaseInv' /\ SlotInv'
    BY <1>1, <2>1 DEF IInv, PhaseInv, SlotInv
  <2> QED BY <1>2, <1>3, <2>4, <2>5 DEF IInv
<1>7. ASSUME NEW f \in FileNodes, AddNotRead(e, f) \/ AddNoTable(e, f)
      PROVE  IInv'
  <2>1. /\ Opened(e, f) /\ files' \in {files, files + 1}
        /\ UNCHANGED <<phase, content, slots>>
    BY <1>7 DEF AddNotRead, AddNoTable
  <2>2. memory' \in MemoryTypes /\ memory'.pos >= memory.pos
    BY <2>1, OpenedTypes DEF IInv
  <2>3. BlockInv'
    BY <2>1, <2>2, BlocksKept DEF IInv
  <2>4. PhaseInv' /\ SlotInv'
    BY <1>1, <2>1 DEF IInv, PhaseInv, SlotInv
  <2> QED BY <1>2, <1>3, <2>3, <2>4 DEF IInv
<1>8. ASSUME NEW f \in FileNodes, Add(e, f)
      PROVE  IInv'
  <2>1. BlockInv'
    BY <1>8, AddKeepsBlocks DEF IInv
  <2>2. slots' = Grown /\ UNCHANGED <<phase, files>>
    BY <1>8 DEF Add
  <2>3. Len(content') = Len(content) + 1
    <3>1. PICK b : content' = Append(content, b)
      BY <1>8 DEF Add
    <3>2. content \in Seq(Blocks) /\ content' \in Seq(Blocks)
      BY <2>1 DEF IInv, BlockInv
    <3> QED BY <3>1, <3>2
  <2>4. SlotInv'
    BY <2>2, <2>3, AddKeepsSlots DEF IInv
  <2>5. PhaseInv'
    BY <1>1, <2>2 DEF IInv, PhaseInv
  <2> QED BY <1>2, <1>3, <2>1, <2>4, <2>5 DEF IInv
<1> QED BY <1>5, <1>6, <1>7, <1>8 DEF FileFound

\* While requests are answered nothing but the answer changes.
LEMMA ServedKeeps ==
    ASSUME IInv, Served, SendInv'
    PROVE  IInv'
<1>1. UNCHANGED <<tree, stack, dirs, err, visited, phase, memory, content, slots, files>>
  BY DEF Served, traverseVars
<1>2. WalkInv'
  BY <1>1, WalkKept DEF IInv, WalkInv
<1>3. PhaseInv' /\ BlockInv' /\ SlotInv'
  BY <1>1 DEF IInv, PhaseInv, BlockInv, SlotInv
<1> QED BY <1>2, <1>3 DEF IInv

LEMMA NextInv ==
    ASSUME IInv, [Next]_vars
    PROVE  IInv'
<1>1. CASE Start
  <2>1. /\ phase = "starting" /\ phase' = "scanning"
        /\ OpenRoot \/ OpenRootFails
        /\ UNCHANGED <<memory, content, slots, files, send>>
    BY <1>1 DEF Start
  <2>2. stack = << >>
    BY <2>1 DEF IInv, PhaseInv
  <2>3. WalkInv'
    BY <2>1, <2>2, OpenRootKeeps DEF IInv
  <2>4. SendInv'
    BY <2>1, SendKept DEF IInv
  <2>5. PhaseInv' /\ BlockInv' /\ SlotInv'
    BY <2>1 DEF IInv, PhaseInv, BlockInv, SlotInv
  <2> QED BY <2>3, <2>4, <2>5 DEF IInv
<1>2. CASE Scan
  <2>1. /\ phase = "scanning" /\ Walk
        /\ UNCHANGED <<phase, memory, content, slots, files, send>>
    BY <1>2 DEF Scan, siteVars
  <2>2. WalkInv'
    BY <2>1, WalkKeeps DEF IInv
  <2>3. SendInv'
    BY <2>1, SendKept DEF IInv
  <2>4. PhaseInv' /\ BlockInv' /\ SlotInv'
    BY <2>1 DEF IInv, PhaseInv, BlockInv, SlotInv
  <2> QED BY <2>2, <2>3, <2>4 DEF IInv
<1>3. ASSUME NEW e \in Entries, FileFound(e)
      PROVE  IInv'
  BY <1>3, FileKeeps
<1>4. CASE EndScan
  <2>1. /\ phase = "scanning" /\ stack = << >> /\ phase' \in {"serving", "refused"}
        /\ UNCHANGED <<tree, stack, dirs, err, visited>>
        /\ UNCHANGED <<memory, content, slots, files, send>>
    BY <1>4 DEF EndScan, traverseVars
  <2>2. WalkInv'
    BY <2>1, WalkKept DEF IInv, WalkInv
  <2>3. SendInv'
    BY <2>1, SendKept DEF IInv
  <2>4. PhaseInv' /\ BlockInv' /\ SlotInv'
    BY <2>1 DEF IInv, PhaseInv, BlockInv, SlotInv
  <2> QED BY <2>2, <2>3, <2>4 DEF IInv
<1>5. ASSUME NEW uri \in Uris, Request(uri)
      PROVE  IInv'
  <2>1. SendInv'
    BY <1>5, RequestKeeps DEF IInv
  <2> QED BY <1>5, <2>1, ServedKeeps DEF Request
<1>6. ASSUME NEW n \in 1 .. send.left, SendPart(n)
      PROVE  IInv'
  <2>1. SendInv'
    BY <1>6, SendPartKeeps DEF IInv
  <2> QED BY <1>6, <2>1, ServedKeeps DEF SendPart
<1>7. CASE SendFails \/ Answered
  <2>1. SendInv'
    BY <1>7, AnswerEnds DEF IInv
  <2> QED BY <1>7, <2>1, ServedKeeps DEF SendFails, Answered
<1>8. CASE Release
  <2>1. /\ phase = "serving" /\ send.at = "idle" /\ phase' = "released"
        /\ content' = << >> /\ slots' = 0
        /\ UNCHANGED <<tree, stack, dirs, err, visited>>
        /\ UNCHANGED <<memory, files, send>>
    BY <1>8 DEF Release, traverseVars
  <2>2. WalkInv'
    BY <2>1, WalkKept DEF IInv, WalkInv
  <2>3. << >> \in Seq(Blocks) /\ Len(<< >>) = 0
    BY EmptySeq
  <2>4. BlockInv'
    BY <2>1, <2>3 DEF IInv, BlockInv
  <2>5. 0 % Batch = 0
    BY SiteAssumption
  <2>6. SlotInv'
    BY <2>1, <2>3, <2>5 DEF SlotInv
  <2>7. SendInv'
    BY <2>1 DEF IInv, SendInv, Sends
  <2>8. PhaseInv'
    BY <2>1 DEF IInv, PhaseInv
  <2> QED BY <2>2, <2>4, <2>6, <2>7, <2>8 DEF IInv
<1>9. CASE UNCHANGED vars
  <2>1. UNCHANGED <<tree, stack, dirs, err, visited, phase, memory, content, slots, files, send>>
    BY <1>9 DEF vars, traverseVars, siteVars
  <2>2. WalkInv'
    BY <2>1, WalkKept DEF IInv, WalkInv
  <2>3. PhaseInv' /\ BlockInv' /\ SlotInv'
    BY <2>1 DEF IInv, PhaseInv, BlockInv, SlotInv
  <2>4. SendInv'
    BY <2>1 DEF IInv, SendInv, Sends, Entry, Block
  <2> QED BY <2>2, <2>3, <2>4 DEF IInv
<1> QED
  BY <1>1, <1>2, <1>3, <1>4, <1>5, <1>6, <1>7, <1>8, <1>9 DEF Next

\* The invariant holds for every tree, every file size and every capacity.
THEOREM SiteInvariant == Spec => []IInv
<1>1. Init => IInv
  BY InitInv
<1>2. IInv /\ [Next]_vars => IInv'
  BY NextInv
<1> QED BY <1>1, <1>2, PTL DEF Spec

-------------------------------------------------------------------------------
(* The walk finds every file *)

\* A path that was not clipped is the path.
LEMMA ClippedSame ==
    ASSUME NEW p \in Seq(Chars), Len(Clipped(p)) < MAX_PATH
    PROVE  Clipped(p) = p
<1>1. MAX_PATH \in Nat /\ Len(p) \in Nat
  BY TraverseAssumption
<1>2. Len(p) < MAX_PATH
  BY <1>1, ClippedTypes
<1>3. Clipped(p) = SubSeq(p, 1, Len(p))
  BY <1>2 DEF Clipped
<1> QED BY <1>3

\* readdir takes the files of its entry from what is to be found.
LEMMA TakenTodo ==
    ASSUME WalkInv, TodoInv, phase = "scanning", Walking, NEW e \in Head(stack).left
    PROVE  /\ Todo(tree, stack) =
                  Todo(tree, Taken(e)) \cup EntryFiles(tree, Head(stack).path, e)
           /\ PathsApart(EntryFiles(tree, Head(stack).path, e), Todo(tree, Taken(e)))
           /\ Apart(tree, Taken(e))
           /\ Taken(e) \in Seq(Frames)
           /\ \A k \in 1 .. Len(Taken(e)) : Taken(e)[k].left \subseteq tree[Taken(e)[k].dir]
           /\ Head(stack) \in Frames /\ tree \in Trees
           /\ e \in tree[Head(stack).dir]
<1>1. stack # << >> /\ err = "SUCCESS" /\ tree \in Trees /\ stack \in Seq(Frames)
  BY DEF Walking, WalkInv
<1>2. PICK f \in Frames, s \in Seq(Frames) : f = Head(stack) /\ s = Tail(stack)
  BY <1>1, TopTypes
<1>3. stack = <<f>> \o s
  BY <1>1, <1>2
<1>4. PICK h \in Frames : h = [f EXCEPT !.left = @ \ {e}]
  BY DEF Frames
<1>5. Taken(e) = <<h>> \o s
  BY <1>2, <1>4 DEF Taken
<1>6. /\ Apart(tree, stack)
      /\ \A k \in 1 .. Len(stack) : stack[k].left \subseteq tree[stack[k].dir]
  BY <1>1 DEF TodoInv
<1>7. /\ Todo(tree, stack) = FrameFiles(tree, f) \cup Todo(tree, s)
      /\ Apart(tree, s) /\ PathsApart(FrameFiles(tree, f), Todo(tree, s))
  BY <1>3, <1>6, PushTodo
<1>8. f.left \subseteq tree[f.dir] /\ f.dir \in DOMAIN tree
  <2>1. 1 \in 1 .. Len(stack) /\ stack[1] = f
    BY <1>1, <1>2, TopTypes
  <2>2. stack[1].left \subseteq tree[stack[1].dir]
    BY <1>6, <2>1
  <2>3. f.dir \in DOMAIN tree
    BY DEF Frames
  <2> QED BY <2>1, <2>2, <2>3
<1>9. /\ FrameFiles(tree, f) = FrameFiles(tree, h) \cup EntryFiles(tree, f.path, e)
      /\ PathsApart(EntryFiles(tree, f.path, e), FrameFiles(tree, h))
  <2>1. f \in [dir : DOMAIN tree, path : Seq(Chars), left : SUBSET Entries]
    BY DEF Frames, Paths
  <2>2. e \in f.left
    BY <1>2
  <2>3. h.path = f.path /\ h.left = f.left \ {e}
    BY <1>4 DEF Frames
  <2> QED BY <1>1, <1>8, <2>1, <2>2, <2>3, TakenFiles
<1>10. Todo(tree, Taken(e)) = FrameFiles(tree, h) \cup Todo(tree, s)
  BY <1>5, PushTodo
<1>11. Apart(tree, Taken(e))
  <2>1. PathsApart(FrameFiles(tree, h), Todo(tree, s))
    BY <1>7, <1>9 DEF PathsApart
  <2> QED BY <1>5, <1>7, <2>1, PushTodo
<1>12. PathsApart(EntryFiles(tree, f.path, e), Todo(tree, Taken(e)))
  BY <1>7, <1>9, <1>10 DEF PathsApart
<1>13. \A k \in 1 .. Len(Taken(e)) : Taken(e)[k].left \subseteq tree[Taken(e)[k].dir]
  <2>1. PICK n \in Nat : n = Len(s)
    OBVIOUS
  <2>2. /\ Len(stack) = n + 1 /\ \A i \in 1 .. n : stack[i + 1] = s[i]
        /\ Len(Taken(e)) = n + 1 /\ Taken(e)[1] = h
        /\ \A i \in 1 .. n : Taken(e)[i + 1] = s[i]
    BY <1>3, <1>5, <2>1
  <2>3. h.left \subseteq tree[h.dir]
    <3>1. h.left = f.left \ {e} /\ h.dir = f.dir
      BY <1>4 DEF Frames
    <3> QED BY <1>8, <3>1
  <2>4. ASSUME NEW k \in 1 .. n + 1, k # 1
        PROVE  Taken(e)[k].left \subseteq tree[Taken(e)[k].dir]
    <3>0. k - 1 \in 1 .. n /\ k = (k - 1) + 1
      BY <2>1, <2>4
    <3>1. PICK i \in 1 .. n : k = i + 1
      BY <3>0
    <3>2. Taken(e)[k] = stack[k] /\ k \in 1 .. Len(stack)
      BY <2>2, <2>4, <3>1
    <3> QED BY <1>6, <3>2
  <2> QED BY <2>2, <2>3, <2>4
<1>14. Taken(e) \in Seq(Frames)
  BY <1>5, PushTypes
<1>15. Todo(tree, stack) = Todo(tree, Taken(e)) \cup EntryFiles(tree, f.path, e)
  BY <1>7, <1>9, <1>10
<1>16. e \in tree[f.dir]
  BY <1>2, <1>8
<1> QED BY <1>1, <1>2, <1>11, <1>12, <1>13, <1>14, <1>15, <1>16

\* A step on the same tree that leaves as much to be found.
LEMMA TodoKept ==
    ASSUME TodoInv, phase = "scanning", err = "SUCCESS",
           UNCHANGED <<tree, visited, content>>,
           Todo(tree, stack') = Todo(tree, stack), Apart(tree, stack'),
           \A k \in 1 .. Len(stack') : stack'[k].left \subseteq tree[stack'[k].dir]
    PROVE  TodoInv'
<1>1. Full' = Full
  BY DEF Full, Site
<1>2. Todo(tree, stack)' = Todo(tree, stack)
  OBVIOUS
<1>3. Apart(tree, stack)'
  OBVIOUS
<1> QED BY <1>1, <1>2, <1>3 DEF TodoInv

\* Every step of the walk leaves the files that are not visited to be found.
LEMMA WalkTodo ==
    ASSUME WalkInv, TodoInv, phase = "scanning", Walk, UNCHANGED content
    PROVE  TodoInv'
<1>1. ASSUME NEW e \in Entries, Descend(e)
      PROVE  TodoInv'
  <2>1. /\ SubDir(e) /\ Walking /\ e \in Head(stack).left /\ e.dir /\ ~Ignored(e.name)
        /\ OpenDir(Taken(e), e.to, PathOf(e))
    BY <1>1 DEF Descend, SubDir
  <2>2. PICK f \in Frames : f = Head(stack)
    BY <2>1, TakenTodo
  <2>3. /\ Todo(tree, stack) = Todo(tree, Taken(e)) \cup EntryFiles(tree, f.path, e)
        /\ PathsApart(EntryFiles(tree, f.path, e), Todo(tree, Taken(e)))
        /\ Apart(tree, Taken(e))
        /\ Taken(e) \in Seq(Frames)
        /\ \A k \in 1 .. Len(Taken(e)) : Taken(e)[k].left \subseteq tree[Taken(e)[k].dir]
        /\ tree \in Trees /\ e \in tree[f.dir]
    BY <2>1, <2>2, TakenTodo
  <2>4. f.dir \in DOMAIN tree /\ f.path \in Seq(Chars)
    BY <2>2 DEF Frames, Paths
  <2>5. PathOf(e) = f.path \o <<"/">> \o e.name
    <3>1. PICK p \in Seq(Chars) : p = f.path \o <<"/">> \o e.name
      BY <2>3, <2>4, JoinedPath
    <3>2. PathOf(e) = Clipped(p)
      BY <2>2, <3>1 DEF PathOf
    <3>3. Len(Clipped(p)) \in Nat /\ Len(Clipped(p)) + 3 <= MAX_PATH
      <4>1. Clipped(p) \in Seq(Chars)
        BY ClippedTypes
      <4> QED BY <2>1, <3>2, <4>1 DEF OpenDir, RoomForDir
    <3>4. Len(Clipped(p)) < MAX_PATH
      BY <3>3, TraverseAssumption
    <3> QED BY <3>1, <3>2, <3>4, ClippedSame
  <2>6. PICK g : g = [dir |-> e.to, path |-> PathOf(e), left |-> tree[e.to]]
    OBVIOUS
  <2>7. FrameFiles(tree, g) = EntryFiles(tree, f.path, e)
    BY <2>1, <2>3, <2>4, <2>5, <2>6, SubDirFiles
  <2>8. stack' = <<g>> \o Taken(e) /\ UNCHANGED <<tree, err, visited>>
    BY <2>1, <2>6 DEF OpenDir
  <2>9. PICK S : S = Frames \cup {g}
    OBVIOUS
  <2>10. g \in S /\ Taken(e) \in Seq(S)
    BY <2>3, <2>9
  <2>11. Todo(tree, stack') = Todo(tree, stack)
    BY <2>3, <2>7, <2>8, <2>10, PushTodo
  <2>12. Apart(tree, stack')
    BY <2>3, <2>7, <2>8, <2>10, PushTodo
  <2>13. \A k \in 1 .. Len(stack') : stack'[k].left \subseteq tree[stack'[k].dir]
    <3>1. PICK s \in Seq(S) : s = Taken(e)
      BY <2>10
    <3>2. PICK n \in Nat : n = Len(s)
      OBVIOUS
    <3>3. /\ Len(stack') = n + 1 /\ stack'[1] = g
          /\ \A i \in 1 .. n : stack'[i + 1] = s[i]
      BY <2>8, <2>10, <3>1, <3>2
    <3>4. ASSUME NEW k \in 1 .. n + 1, k # 1
          PROVE  stack'[k].left \subseteq tree[stack'[k].dir]
      <4>1. PICK i \in 1 .. n : k = i + 1
        BY <3>2, <3>4
      <4> QED BY <2>3, <3>1, <3>2, <3>3, <4>1
    <3>5. g.left \subseteq tree[g.dir]
      BY <2>6
    <3> QED BY <3>3, <3>4, <3>5
  <2>14. err = "SUCCESS"
    BY <2>1 DEF Walking
  <2> QED BY <2>8, <2>11, <2>12, <2>13, <2>14, TodoKept
<1>2. ASSUME NEW e \in Entries, Skip(e)
      PROVE  TodoInv'
  <2>1. /\ Walking /\ e \in Head(stack).left /\ e.dir /\ Ignored(e.name)
        /\ stack' = Taken(e) /\ UNCHANGED <<tree, err, visited>>
    BY <1>2 DEF Skip
  <2>2. EntryFiles(tree, Head(stack).path, e) = {}
    BY <2>1 DEF EntryFiles, EntryNames
  <2>3. Todo(tree, stack') = Todo(tree, stack)
    BY <2>1, <2>2, TakenTodo
  <2>4. Apart(tree, stack')
    BY <2>1, TakenTodo
  <2>5. \A k \in 1 .. Len(stack') : stack'[k].left \subseteq tree[stack'[k].dir]
    BY <2>1, TakenTodo
  <2>6. err = "SUCCESS"
    BY <2>1 DEF Walking
  <2> QED BY <2>1, <2>3, <2>4, <2>5, <2>6, TodoKept
<1>3. CASE CloseDir
  <2>1. /\ stack # << >> /\ err = "SUCCESS" /\ Head(stack).left = {}
        /\ stack' = Tail(stack) /\ UNCHANGED <<tree, err, visited>>
    BY <1>3 DEF CloseDir, Walking
  <2>2. stack \in Seq(Frames)
    BY DEF WalkInv
  <2>3. PICK f \in Frames, s \in Seq(Frames) : f = Head(stack) /\ s = Tail(stack)
    BY <2>1, <2>2, TopTypes
  <2>4. stack = <<f>> \o s
    BY <2>1, <2>2, <2>3
  <2>5. /\ Todo(tree, stack) = FrameFiles(tree, f) \cup Todo(tree, s)
        /\ Apart(tree, stack) => Apart(tree, s)
    BY <2>4, PushTodo
  <2>6. FrameFiles(tree, f) = {}
    BY <2>1, <2>3 DEF FrameFiles
  <2>7. /\ Apart(tree, stack)
        /\ \A k \in 1 .. Len(stack) : stack[k].left \subseteq tree[stack[k].dir]
    BY <2>1 DEF TodoInv
  <2>8. \A k \in 1 .. Len(s) : s[k].left \subseteq tree[s[k].dir]
    <3>1. PICK n \in Nat : n = Len(s)
      OBVIOUS
    <3>2. Len(stack) = n + 1 /\ \A i \in 1 .. n : stack[i + 1] = s[i]
      BY <2>4, <3>1
    <3>3. \A i \in 1 .. n : i + 1 \in 1 .. n + 1
      BY <3>1
    <3> QED BY <2>7, <3>1, <3>2, <3>3
  <2>9. Todo(tree, stack') = Todo(tree, stack) /\ Apart(tree, stack')
    BY <2>1, <2>3, <2>5, <2>6, <2>7
  <2>10. \A k \in 1 .. Len(stack') : stack'[k].left \subseteq tree[stack'[k].dir]
    BY <2>1, <2>3, <2>8
  <2> QED BY <2>1, <2>9, <2>10, TodoKept
<1>4. ASSUME err' # "SUCCESS"
      PROVE  TodoInv'
  BY <1>4 DEF TodoInv
<1>5. ASSUME NEW e \in Entries, DescendFails(e)
      PROVE  err' # "SUCCESS"
  BY <1>5 DEF DescendFails, OpenFails
<1>6. CASE Unwind
  BY <1>4, <1>6 DEF Unwind
<1> QED BY <1>1, <1>2, <1>3, <1>4, <1>5, <1>6 DEF Walk

\* The largest of some numbers up to n is one of them.
LEMMA MaxOfNats ==
    ASSUME NEW n \in Nat, NEW S, S \subseteq 0 .. n, S # {}
    PROVE  Max(S) \in S
<1> DEFINE T == {n - y : y \in S}
<1>1. T \subseteq Nat /\ T # {}
  <2>1. \A y \in S : n - y \in Nat
    OBVIOUS
  <2>2. PICK y \in S : TRUE
    OBVIOUS
  <2>3. n - y \in T
    BY <2>2
  <2> QED BY <2>1, <2>3
<1>2. PICK t \in T : \A u \in T : t <= u
  <2> HIDE DEF T
  <2> QED BY <1>1, LeastOf
<1>3. PICK x \in S : t = n - x
  OBVIOUS
<1>4. \A y \in S : n - x <= n - y
  BY <1>2, <1>3
<1>5. \A y \in S : x >= y
  BY <1>4
<1> QED BY <1>5 DEF Max

\* What is left of a string from some place on is its suffix.
LEMMA EndIsSuffix ==
    ASSUME NEW s \in Seq(Chars), NEW m \in 1 .. Len(s) + 1
    PROVE  IsSuffix(SubSeq(s, m, Len(s)), s)
<1>1. PICK n \in Nat : n = Len(s)
  OBVIOUS
<1>2. m \in 1 .. n + 1 /\ \A i \in m .. n : s[i] \in Chars
  BY <1>1
<1>3. PICK l \in Nat : l = n - m + 1
  BY <1>1, <1>2
<1> DEFINE k == SubSeq(s, m, n)
<1>4. k \in Seq(Chars) /\ Len(k) = l /\ \A i \in 1 .. l : k[i] = s[m + i - 1]
  <2>1. /\ k \in Seq(Chars) /\ Len(k) = IF m <= n THEN n - m + 1 ELSE 0
        /\ \A i \in 1 .. n - m + 1 : k[i] = s[m + i - 1]
    BY <1>1, <1>2, SubSeqProperties
  <2> HIDE DEF k
  <2> QED BY <1>2, <1>3, <2>1
<1> HIDE DEF k
<1>5. Reverse(k) \in Seq(Chars) /\ Len(Reverse(k)) = l
      /\ \A i \in 1 .. l : Reverse(k)[i] = k[(l - i) + 1]
  BY <1>4 DEF Reverse
<1>6. Reverse(s) \in Seq(Chars) /\ Len(Reverse(s)) = n
      /\ \A i \in 1 .. n : Reverse(s)[i] = s[(n - i) + 1]
  BY <1>1 DEF Reverse
<1>7. \A i \in 1 .. l : Reverse(k)[i] = Reverse(s)[i]
  <2> SUFFICES ASSUME NEW i \in 1 .. l
               PROVE  Reverse(k)[i] = Reverse(s)[i]
    OBVIOUS
  <2>1. (l - i) + 1 \in 1 .. l /\ i \in 1 .. n /\ m + ((l - i) + 1) - 1 = (n - i) + 1
    BY <1>1, <1>2, <1>3
  <2>2. k[(l - i) + 1] = s[m + ((l - i) + 1) - 1]
    BY <1>4, <2>1
  <2> QED BY <1>5, <1>6, <2>1, <2>2
<1>8. l <= n
  BY <1>2, <1>3
<1> DEFINE a == Reverse(k)
           b == Reverse(s)
<1> HIDE DEF a, b
<1>9. SubSeq(a, 1, l) = SubSeq(b, 1, l)
  <2>1. \A i \in 1 .. l : a[i] = b[i] /\ a[i] \in Chars /\ b[i] \in Chars
    BY <1>5, <1>6, <1>7, <1>8 DEF a, b
  <2>2. /\ SubSeq(a, 1, l) \in Seq(Chars) /\ Len(SubSeq(a, 1, l)) = l
        /\ \A i \in 1 .. l : SubSeq(a, 1, l)[i] = a[i]
    BY <2>1, SubSeqProperties
  <2>3. /\ SubSeq(b, 1, l) \in Seq(Chars) /\ Len(SubSeq(b, 1, l)) = l
        /\ \A i \in 1 .. l : SubSeq(b, 1, l)[i] = b[i]
    BY <2>1, SubSeqProperties
  <2>4. \A i \in 1 .. l : SubSeq(a, 1, l)[i] = SubSeq(b, 1, l)[i]
    BY <2>1, <2>2, <2>3
  <2> QED BY <2>2, <2>3, <2>4, SeqEqual
<1>10. IsPrefix(a, b)
  BY <1>5, <1>6, <1>8, <1>9 DEF IsPrefix, a, b
<1> QED BY <1>1, <1>10 DEF IsSuffix, a, b, k

\* A mime type other than the default one is that of a suffix of the uri.
LEMMA MimeOwn ==
    ASSUME NEW s \in Seq(Chars), MimeType(s) # "application/octet-stream"
    PROVE  \E k \in KnownSuffixes : IsSuffix(k, s)
<1>1. Suffix(s) \in KnownSuffixes
  BY DEF MimeType
<1> DEFINE dots == {i \in 1 .. Len(s) : s[i] = "."}
<1>2. PICK n \in Nat : n = Len(s)
  OBVIOUS
<1>3. \E m \in 1 .. n + 1 : Suffix(s) = SubSeq(s, m, n)
  <2>1. CASE n <= 1
    <3>1. Suffix(s) = << >>
      BY <1>2, <2>1 DEF Suffix
    <3>2. n + 1 \in 1 .. n + 1 /\ n + 1 > n /\ n + 1 \in Int
      BY <1>2
    <3>3. SubSeq(s, n + 1, n) = << >>
      BY <1>2, <3>2, SubSeqEmpty
    <3> QED BY <3>1, <3>2, <3>3
  <2>2. CASE n > 1 /\ dots = {}
    <3>1. Suffix(s) = s
      BY <1>2, <2>2 DEF Suffix
    <3>2. SubSeq(s, 1, n) = s /\ 1 \in 1 .. n + 1
      BY <1>2
    <3> QED BY <3>1, <3>2
  <2>3. CASE n > 1 /\ dots # {}
    <3>1. Suffix(s) = SubSeq(s, Max(dots), n)
      <4>1. ~(Len(s) <= 1)
        BY <1>2, <2>3
      <4>2. Suffix(s) = SubSeq(s, Max(dots), Len(s))
        BY <2>3, <4>1, Zenon DEF Suffix
      <4> QED BY <1>2, <4>2
    <3>2. dots \subseteq 0 .. n /\ dots \subseteq 1 .. n + 1
      BY <1>2
    <3> HIDE DEF dots
    <3>3. Max(dots) \in dots
      BY <2>3, <3>2, MaxOfNats
    <3> QED BY <3>1, <3>2, <3>3
  <2> QED BY <1>2, <2>1, <2>2, <2>3
<1>4. IsSuffix(Suffix(s), s)
  BY <1>2, <1>3, EndIsSuffix
<1> QED BY <1>1, <1>4

\* What follows in a sequence.
LEMMA AfterBase ==
    ASSUME NEW S, NEW b \in Seq(S), NEW u \in Seq(S), Len(u) > 0
    PROVE  SubSeq(b \o u, Len(b) + 1, Len(b \o u)) = u
<1>1. PICK m \in Nat, n \in Nat : m = Len(b) /\ n = Len(u)
  OBVIOUS
<1>2. PICK x \in Seq(S) : x = b \o u
  BY ConcatProperties
<1>3. Len(x) = m + n /\ \A i \in m + 1 .. m + n : x[i] = u[i - m]
  BY <1>1, <1>2
<1> DEFINE v == SubSeq(x, m + 1, m + n)
<1>4. n > 0
  BY <1>1
<1>5. \A i \in m + 1 .. m + n : x[i] \in S
  BY <1>2, <1>3
<1>6. v \in Seq(S) /\ Len(v) = n /\ \A i \in 1 .. n : v[i] = x[m + i]
  <2>1. /\ v \in Seq(S)
        /\ Len(v) = IF m + 1 <= m + n THEN (m + n) - (m + 1) + 1 ELSE 0
        /\ \A i \in 1 .. (m + n) - (m + 1) + 1 : v[i] = x[(m + 1) + i - 1]
    BY <1>1, <1>5, SubSeqProperties
  <2> HIDE DEF v
  <2>2. \A i \in 1 .. n : (m + 1) + i - 1 = m + i
    BY <1>1
  <2>3. (m + n) - (m + 1) + 1 = n /\ m + 1 <= m + n
    BY <1>1, <1>4
  <2> QED BY <2>1, <2>2, <2>3
<1> HIDE DEF v
<1>7. ASSUME NEW i \in 1 .. n
      PROVE  v[i] = u[i]
  <2>1. m + i \in m + 1 .. m + n /\ (m + i) - m = i
    BY <1>1
  <2> QED BY <1>3, <1>6, <2>1
<1>8. v = u
  BY <1>1, <1>6, <1>7, SeqEqual
<1> QED BY <1>1, <1>2, <1>3, <1>8 DEF v

\* The uris of the tree.
LEMMA SiteTypesOf ==
    ASSUME tree \in Trees
    PROVE  Site \subseteq Uried
BY NamedTypes, TraverseAssumption DEF Site

\* The callback is given a file of the tree that was still to be found; with
\* room for the whole path its uri is the one below the data directory.
LEMMA VisitFile ==
    ASSUME WalkInv, TodoInv, phase = "scanning", NEW e \in Entries, Visit(e)
    PROVE  \E q \in Site :
              /\ q[2] = e.to
              /\ EntryFiles(tree, Head(stack).path, e) = {<<BaseDir \o q[1], e.to>>}
              /\ Whole(Uri(e)) => Terminated(PathOf(e)) /\ Uri(e) = q[1]
<1>1. Walking /\ e \in Head(stack).left /\ ~e.dir
  BY DEF Visit
<1>2. PICK f \in Frames : f = Head(stack)
  BY <1>1, TakenTodo
<1>3. tree \in Trees /\ e \in tree[f.dir] /\ f.dir \in DOMAIN tree /\ f.path \in Seq(Chars)
  BY <1>1, <1>2, TakenTodo DEF Frames, Paths
<1>4. PICK h \in Seq(Chars) : h = <<"/">> \o e.name
  BY <1>3, JoinedPath
<1>5. PICK p \in Seq(Chars) : p = f.path \o <<"/">> \o e.name /\ p = f.path \o h
  BY <1>3, <1>4, JoinedPath
<1>6. EntryFiles(tree, f.path, e) = {<<p, e.to>>}
  <2>1. EntryNames(Named(tree), e) = {<<h, e.to>>}
    BY <1>1, <1>4 DEF EntryNames
  <2>2. EntryFiles(tree, f.path, e) = {<<f.path \o h, e.to>>}
    BY <2>1 DEF EntryFiles
  <2> QED BY <1>5, <2>2
<1>7. <<p, e.to>> \in Full
  <2>1. Todo(tree, stack) = Todo(tree, Taken(e)) \cup EntryFiles(tree, f.path, e)
    BY <1>1, <1>2, TakenTodo
  <2>2. Todo(tree, stack) \subseteq Full
    BY <1>1 DEF TodoInv, Walking
  <2> QED BY <1>6, <2>1, <2>2
<1>8. PICK q \in Site : <<p, e.to>> = <<BaseDir \o q[1], q[2]>>
  BY <1>7 DEF Full
<1>9. p = BaseDir \o q[1] /\ e.to = q[2]
  BY <1>8
<1>10. PICK u \in Seq(Chars) : u = q[1] /\ Len(u) > 0
  BY <1>3, SiteTypesOf DEF Uried
<1>11. ASSUME Terminated(PathOf(e))
       PROVE  Uri(e) = u
  <2>1. PathOf(e) = Clipped(p)
    BY <1>2, <1>5 DEF PathOf
  <2>2. PathOf(e) = p
    BY <1>11, <2>1, ClippedSame DEF Terminated
  <2>3. p = BaseDir \o u
    BY <1>9, <1>10
  <2>4. SubSeq(p, Len(BaseDir) + 1, Len(p)) = u
    BY <1>10, <2>3, AfterBase, BaseTypes
  <2> QED BY <2>2, <2>4 DEF Uri
<1>12. Whole(Uri(e)) => Terminated(PathOf(e))
  <2>1. PICK b \in Seq(Chars), v \in Seq(Chars), r \in Seq(Chars) :
            b = BaseDir /\ v = Uri(e) /\ r = PathOf(e)
    BY <1>1, UriTypes, BaseTypes, PathTypes DEF Walking
  <2>2. Len(v) = Len(r) - Len(b)
    BY <1>1, <2>1, UriLength DEF Walking
  <2>3. Len(b \o v) = Len(r)
    BY <2>1, <2>2
  <2> QED BY <2>1, <2>3 DEF Whole, Terminated
<1> QED BY <1>2, <1>6, <1>9, <1>10, <1>11, <1>12

\* The uri of what was added is the one of the file that was visited.
AddedFor(e) ==
    \/ content' = content
    \/ \E b \in Blocks :
        /\ content' = Append(content, b)
        /\ Terminated(PathOf(e)) => b.file = e.to
        /\ b.uri = Uri(e) /\ b.length = Size(b.file)
        /\ b.mime_type = MimeType(Uri(e))

\* What static_cache_add leaves of the contents.
LEMMA FoundAdds ==
    ASSUME WalkInv, BlockInv, NEW e \in Entries, FileFound(e)
    PROVE  /\ Visit(e) /\ phase = "scanning" /\ phase' \in {"scanning", "behind", "astray"}
           /\ AddedFor(e)
<1>1. Visit(e) /\ phase = "scanning"
  BY DEF FileFound, AddBehind, AddAstray, AddNotOpened, AddNotRead, AddNoTable, Add, Opened, Scanning
<1>2. ASSUME NEW f \in FileNodes, Add(e, f)
      PROVE  phase' \in {"scanning", "behind", "astray"} /\ AddedFor(e)
  <2>1. /\ phase' = phase
        /\ Opened(e, f) /\ f \in Openable(e) /\ Size(f) > 0
        /\ content' = Append(content,
              [uri |-> Uri(e), name |-> memory.pos, mime_type |-> MimeType(Uri(e)),
               memory |-> WithName(e).pos, length |-> Size(f), file |-> f])
    BY <1>2 DEF Add, Opened
  <2>2. stack # << >> /\ Size(f) \in Nat
    BY <1>1, <2>1, VisitKeeps, SizeTypes
  <2>3. Uri(e) \in Seq(Chars) /\ Len(Uri(e)) \in Nat
    BY <2>2, UriTypes
  <2>4. memory.pos \in Nat /\ WithName(e).pos = memory.pos + Len(Uri(e))
    BY <2>1, OpenedTypes
  <2>5. WithName(e).pos \in Nat
    BY <2>3, <2>4
  <2>6. MimeType(Uri(e)) \in KnownSuffixes \cup {"application/octet-stream"}
    BY DEF MimeType
  <2>7. PICK b \in Blocks :
            /\ b = [uri |-> Uri(e), name |-> memory.pos, mime_type |-> MimeType(Uri(e)),
                    memory |-> WithName(e).pos, length |-> Size(f), file |-> f]
    BY <2>1, <2>2, <2>3, <2>4, <2>5, <2>6 DEF Blocks
  <2>8. /\ b.uri = Uri(e) /\ b.file = f /\ b.length = Size(f)
        /\ b.mime_type = MimeType(Uri(e))
    BY <2>7
  <2>9. content' = Append(content, b)
    BY <2>1, <2>7
  <2>10. Terminated(PathOf(e)) => f = e.to
    BY <2>1 DEF Openable
  <2> QED BY <1>1, <2>1, <2>8, <2>9, <2>10 DEF AddedFor
<1>3. CASE \/ AddBehind(e) \/ AddAstray(e) \/ AddNotOpened(e)
           \/ \E f \in FileNodes : AddNotRead(e, f) \/ AddNoTable(e, f)
  <2>1. content' = content /\ phase' \in {phase, "behind", "astray"}
    BY <1>3 DEF AddBehind, AddAstray, AddNotOpened, AddNotRead, AddNoTable
  <2> QED BY <1>1, <2>1 DEF AddedFor
<1> QED BY <1>1, <1>2, <1>3 DEF FileFound

\* A file that is visited is no longer to be found.
LEMMA VisitTodo ==
    ASSUME WalkInv, BlockInv, TodoInv, NEW e \in Entries, FileFound(e)
    PROVE  TodoInv'
<1>1. Visit(e) /\ phase = "scanning" /\ AddedFor(e)
  BY FoundAdds
<1>2. PICK q \in Site :
          /\ q[2] = e.to
          /\ EntryFiles(tree, Head(stack).path, e) = {<<BaseDir \o q[1], e.to>>}
          /\ Whole(Uri(e)) => Terminated(PathOf(e)) /\ Uri(e) = q[1]
  BY <1>1, VisitFile
<1>3. /\ Walking /\ e \in Head(stack).left
      /\ stack' = Taken(e) /\ visited' = Append(visited, e.to)
      /\ UNCHANGED <<tree, dirs, err>>
  BY <1>1 DEF Visit
<1>4. PICK w : w = <<BaseDir \o q[1], e.to>>
  OBVIOUS
<1>5. w \in Full /\ w[1] = BaseDir \o q[1] /\ w[2] = e.to
  BY <1>2, <1>4 DEF Full
<1>6. PICK T : T = Todo(tree, Taken(e))
  OBVIOUS
<1>7. /\ Todo(tree, stack) = T \cup {w}
      /\ \A p \in T : p[1] # w[1]
      /\ Apart(tree, Taken(e))
      /\ \A k \in 1 .. Len(Taken(e)) : Taken(e)[k].left \subseteq tree[Taken(e)[k].dir]
  BY <1>1, <1>2, <1>3, <1>4, <1>6, TakenTodo DEF PathsApart
<1>8. w \notin T
  BY <1>7
<1>9. err = "SUCCESS"
  BY <1>3 DEF Walking
<1>10. /\ T \subseteq Full
       /\ \A p \in Full \ (T \cup {w}) : \E i \in 1 .. Len(visited) : visited[i] = p[2]
       /\ \A i \in 1 .. Len(visited) : \E p \in Full \ (T \cup {w}) : p[2] = visited[i]
       /\ \A i \in 1 .. Len(content) : Whole(content[i].uri) =>
              \A p \in T : p[1] # BaseDir \o content[i].uri
  BY <1>1, <1>7, <1>9 DEF TodoInv
<1>11. visited \in Seq(FileNodes) /\ e.to \in FileNodes
  BY <1>1, VisitKeeps DEF WalkInv
<1>12. PICK n \in Nat : n = Len(visited)
  BY <1>11
<1>13. /\ Len(visited') = n + 1 /\ visited'[n + 1] = e.to
       /\ \A i \in 1 .. n : visited'[i] = visited[i]
  BY <1>3, <1>11, <1>12, AppendProperties
<1>14. \A i \in 1 .. n + 1 : i \in 1 .. n \/ i = n + 1
  BY <1>12
<1>15. \A i \in 1 .. n : i \in 1 .. n + 1
  BY <1>12
<1>16. n + 1 \in 1 .. n + 1
  BY <1>12
<1>17. ASSUME NEW p \in Full \ T
       PROVE  \E i \in 1 .. n + 1 : visited'[i] = p[2]
  <2>1. CASE p = w
    BY <1>5, <1>13, <1>16, <2>1
  <2>2. CASE p # w
    <3>1. PICK i \in 1 .. n : visited[i] = p[2]
      BY <1>10, <1>12, <2>2
    <3> QED BY <1>13, <1>15, <3>1
  <2> QED BY <2>1, <2>2
<1>18. ASSUME NEW i \in 1 .. n + 1
       PROVE  \E p \in Full \ T : p[2] = visited'[i]
  <2>1. CASE i = n + 1
    BY <1>5, <1>8, <1>13, <2>1
  <2>2. CASE i \in 1 .. n
    <3>1. PICK p \in Full \ (T \cup {w}) : p[2] = visited[i]
      BY <1>10, <1>12, <2>2
    <3> QED BY <1>13, <2>2, <3>1
  <2> QED BY <1>14, <2>1, <2>2
<1>19. ASSUME NEW i \in 1 .. Len(content'), Whole(content'[i].uri), NEW p \in T
       PROVE  p[1] # BaseDir \o content'[i].uri
  <2>1. CASE content' = content
    BY <1>10, <1>19, <2>1
  <2>2. CASE content' # content
    <3>1. PICK b \in Blocks :
            content' = Append(content, b) /\ b.uri = Uri(e)
      BY <1>1, <2>2 DEF AddedFor
    <3>2. Whole(b.uri) => b.uri = q[1]
      BY <1>2, <3>1
    <3>3. content \in Seq(Blocks)
      BY DEF BlockInv
    <3>4. PICK m \in Nat : m = Len(content)
      BY <3>3
    <3>5. /\ Len(content') = m + 1 /\ content'[m + 1] = b
          /\ \A j \in 1 .. m : content'[j] = content[j]
      BY <3>1, <3>3, <3>4, AppendProperties
    <3>6. CASE i = m + 1
      BY <1>5, <1>7, <1>19, <3>2, <3>5, <3>6
    <3>7. CASE i \in 1 .. m
      BY <1>10, <1>19, <3>4, <3>5, <3>7
    <3> QED BY <3>4, <3>5, <3>6, <3>7
  <2> QED BY <2>1, <2>2
<1>20. Full' = Full
  BY <1>3 DEF Full, Site
<1>21. Todo(tree, stack)' = T
  BY <1>3, <1>6
<1>22. Apart(tree, stack)'
  BY <1>3, <1>7
<1>23. \A k \in 1 .. Len(stack') : stack'[k].left \subseteq tree'[stack'[k].dir]
  BY <1>3, <1>7
<1> QED BY <1>10, <1>13, <1>17, <1>18, <1>19, <1>20, <1>21, <1>22, <1>23 DEF TodoInv

\* That every file has one name does not change.
LEMMA NamesKept == OneNameEach' <=> OneNameEach
BY DEF OneNameEach, Named

\* What is visited and cached is a file of the tree that was not found before.
LEMMA VisitFound ==
    ASSUME WalkInv, BlockInv, TodoInv, FoundInv, NEW e \in Entries, FileFound(e)
    PROVE  FoundInv'
<1>1. Visit(e) /\ phase = "scanning" /\ phase' \in {"scanning", "behind", "astray"} /\ AddedFor(e)
  BY FoundAdds
<1>2. PICK q \in Site :
          /\ q[2] = e.to
          /\ EntryFiles(tree, Head(stack).path, e) = {<<BaseDir \o q[1], e.to>>}
          /\ Whole(Uri(e)) => Terminated(PathOf(e)) /\ Uri(e) = q[1]
  BY <1>1, VisitFile
<1>3. /\ Walking /\ e \in Head(stack).left /\ err = "SUCCESS" /\ tree \in Trees
      /\ visited' = Append(visited, e.to)
      /\ tree' = tree
  BY <1>1 DEF Visit, Walking, WalkInv
<1>4. PICK w : w = <<BaseDir \o q[1], e.to>>
  OBVIOUS
<1>5. w \in Todo(tree, stack) /\ w[1] = BaseDir \o q[1] /\ w[2] = e.to
  BY <1>1, <1>2, <1>3, <1>4, TakenTodo
<1>6. q \in Uried
  BY <1>3, SiteTypesOf
<1>7. q[1] \in Seq(Chars) /\ <<q[1], q[2]>> = q
  BY <1>6 DEF Uried
<1>8. Site' = Site
  BY <1>3 DEF Site
<1>9. visited \in Seq(FileNodes) /\ e.to \in FileNodes
  BY <1>1, VisitKeeps DEF WalkInv
<1>10. PICK n \in Nat : n = Len(visited)
  BY <1>9
<1>11. /\ Len(visited') = n + 1 /\ visited'[n + 1] = e.to
       /\ \A i \in 1 .. n : visited'[i] = visited[i]
  BY <1>3, <1>9, <1>10, AppendProperties
<1>12. \A i \in 1 .. n + 1 : i \in 1 .. n \/ i = n + 1
  BY <1>10
<1>13. ASSUME NEW i \in 1 .. n + 1
       PROVE  \E p \in Site : p[2] = visited'[i]
  <2>1. \A j \in 1 .. n : \E p \in Site : p[2] = visited[j]
    BY <1>10 DEF FoundInv
  <2> QED BY <1>2, <1>11, <1>12, <2>1
<1>14. ASSUME OneNameEach, NEW i \in 1 .. n
       PROVE  visited[i] # e.to
  <2> SUFFICES ASSUME visited[i] = e.to
               PROVE  FALSE
    OBVIOUS
  <2>1. PICK p \in Full \ Todo(tree, stack) : p[2] = visited[i]
    BY <1>1, <1>3, <1>10 DEF TodoInv
  <2>2. PICK r \in Site : p = <<BaseDir \o r[1], r[2]>>
    BY <2>1 DEF Full
  <2>3. r[2] = q[2]
    BY <1>2, <2>1, <2>2
  <2>4. r = q
    BY <1>3, <1>14, <2>3 DEF OneNameEach, Site
  <2>5. p = w
    BY <1>2, <1>4, <2>2, <2>4
  <2> QED BY <1>5, <2>1, <2>5
<1>15. ASSUME OneNameEach, NEW i \in 1 .. n + 1, NEW j \in 1 .. n + 1,
              visited'[i] = visited'[j]
       PROVE  i = j
  <2>1. \A k, l \in 1 .. n : visited[k] = visited[l] => k = l
    BY <1>10, <1>15 DEF FoundInv
  <2> QED BY <1>11, <1>12, <1>14, <1>15, <2>1
<1>16. content \in Seq(Blocks)
  BY DEF BlockInv
<1>17. PICK m \in Nat : m = Len(content)
  BY <1>16
<1>18. /\ \A i \in 1 .. m : OwnEntry(content[i])
       /\ \A i, j \in 1 .. m : Whole(content[i].uri) /\ content[i].uri = content[j].uri => i = j
  BY <1>17 DEF FoundInv
<1>19. ASSUME NEW b \in Blocks, content' = Append(content, b),
              Terminated(PathOf(e)) => b.file = e.to,
              b.uri = Uri(e), b.length = Size(b.file), b.mime_type = MimeType(Uri(e))
       PROVE  /\ \A i \in 1 .. Len(content') : OwnEntry(content[i])'
              /\ \A i, j \in 1 .. Len(content') :
                     Whole(content'[i].uri) /\ content'[i].uri = content'[j].uri => i = j
  <2>1. Whole(b.uri) => b.uri = q[1] /\ b.file = e.to
    BY <1>2, <1>19
  <2>2. /\ Len(content') = m + 1 /\ content'[m + 1] = b
        /\ \A i \in 1 .. m : content'[i] = content[i]
    BY <1>16, <1>17, <1>19, AppendProperties
  <2>3. \A i \in 1 .. m + 1 : i \in 1 .. m \/ i = m + 1
    BY <1>17
  <2>4. OwnEntry(b)
    <3>1. Whole(b.uri) => <<b.uri, b.file>> \in Site
      BY <1>2, <1>7, <2>1
    <3>2. IF SizeOf[b.file] <= IntMax
            THEN b.length = SizeOf[b.file] ELSE b.length < SizeOf[b.file]
      <4>1. b.file \in FileNodes
        BY <1>19 DEF Blocks
      <4> QED BY <1>19, <4>1, SizeTypes
    <3>3. b.mime_type # "application/octet-stream" =>
              \E k \in KnownSuffixes : IsSuffix(k, b.uri)
      <4>1. b.mime_type = MimeType(b.uri) /\ b.uri \in Seq(Chars)
        BY <1>19 DEF Blocks
      <4> QED BY <4>1, MimeOwn
    <3> QED BY <3>1, <3>2, <3>3 DEF OwnEntry
  <2>5. ASSUME NEW i \in 1 .. m, Whole(content[i].uri)
        PROVE  content[i].uri # q[1]
    <3>1. w[1] # BaseDir \o content[i].uri
      BY <1>1, <1>3, <1>5, <1>17, <2>5 DEF TodoInv
    <3> QED BY <1>5, <3>1
  <2>6. \A i \in 1 .. m + 1 : OwnEntry(content'[i])
    BY <1>18, <2>2, <2>3, <2>4
  <2>7. \A i, j \in 1 .. m + 1 :
            Whole(content'[i].uri) /\ content'[i].uri = content'[j].uri => i = j
    BY <1>18, <2>1, <2>2, <2>3, <2>5
  <2>8. ASSUME NEW i \in 1 .. m + 1
        PROVE  OwnEntry(content[i])'
    BY <1>8, <2>6 DEF OwnEntry
  <2> QED BY <2>2, <2>7, <2>8
<1>20. ASSUME content' = content
       PROVE  /\ \A i \in 1 .. Len(content') : OwnEntry(content[i])'
              /\ \A i, j \in 1 .. Len(content') :
                     Whole(content'[i].uri) /\ content'[i].uri = content'[j].uri => i = j
  <2>1. ASSUME NEW i \in 1 .. m
        PROVE  OwnEntry(content[i])'
    BY <1>8, <1>18, <1>20 DEF OwnEntry
  <2> QED BY <1>17, <1>18, <1>20, <2>1
<1>21. /\ \A i \in 1 .. Len(content') : OwnEntry(content[i])'
       /\ \A i, j \in 1 .. Len(content') :
              Whole(content'[i].uri) /\ content'[i].uri = content'[j].uri => i = j
  BY <1>1, <1>19, <1>20 DEF AddedFor
<1>22. /\ \A i \in 1 .. Len(visited') : \E p \in Site' : p[2] = visited'[i]
       /\ OneNameEach' => \A i, j \in 1 .. Len(visited') : visited'[i] = visited'[j] => i = j
  BY <1>8, <1>11, <1>13, <1>15, NamesKept
<1> QED BY <1>1, <1>21, <1>22 DEF FoundInv

\* What was found stays found while the tree, the visits and the contents do.
LEMMA FoundKept ==
    ASSUME FoundInv, UNCHANGED <<tree, visited, content>>, phase' \notin {"starting", "serving"}
    PROVE  FoundInv'
<1>1. Site' = Site
  BY DEF Site
<1>2. ASSUME NEW i \in 1 .. Len(content)
      PROVE  OwnEntry(content[i])'
  BY <1>1, <1>2 DEF FoundInv, OwnEntry
<1> QED BY <1>1, <1>2, NamesKept DEF FoundInv

\* The walk begins with the whole tree to be found, and has found nothing.
LEMMA StartTodo ==
    ASSUME IInv, FoundInv, Start
    PROVE  TodoInv' /\ FoundInv'
<1>1. /\ phase = "starting" /\ phase' = "scanning" /\ (OpenRoot \/ OpenRootFails)
      /\ content' = content /\ tree \in Trees
  BY DEF Start, IInv, WalkInv
<1>2. visited = << >> /\ content = << >>
  BY <1>1 DEF FoundInv
<1>3. UNCHANGED <<tree, visited>>
  BY <1>1 DEF OpenRoot, OpenRootFails, OpenDir, OpenFails
<1>4. FoundInv'
  BY <1>1, <1>3, FoundKept
<1>5. CASE OpenRootFails
  <2>1. err' # "SUCCESS"
    BY <1>5 DEF OpenRootFails, OpenFails
  <2> QED BY <1>4, <2>1 DEF TodoInv
<1>6. CASE OpenRoot
  <2>1. OpenDir(<< >>, Root, Clipped(BaseDir))
    BY <1>6 DEF OpenRoot
  <2>2. Clipped(BaseDir) = BaseDir
    <3>1. Len(Clipped(BaseDir)) \in Nat /\ Len(Clipped(BaseDir)) + 3 <= MAX_PATH
      <4>1. Clipped(BaseDir) \in Seq(Chars)
        BY BaseTypes, ClippedTypes
      <4> QED BY <2>1, <4>1 DEF OpenDir, RoomForDir
    <3>2. Len(Clipped(BaseDir)) < MAX_PATH
      BY <3>1, TraverseAssumption
    <3> QED BY <3>2, BaseTypes, ClippedSame
  <2>3. PICK g : g = [dir |-> Root, path |-> BaseDir, left |-> tree[Root]]
    OBVIOUS
  <2>4. g.dir = Root /\ g.path = BaseDir /\ g.left = tree[Root]
    BY <2>3
  <2>5. stack' = <<g>> \o << >> /\ Root \in DOMAIN tree
    BY <1>1, <2>1, <2>2, <2>3, TraverseAssumption DEF OpenDir
  <2>0. PICK S : g \in S
    <3>1. g \in {g}
      OBVIOUS
    <3> QED BY <3>1
  <2>6. << >> \in Seq(S) /\ Len(<< >>) = 0
    BY EmptySeq
  <2>7. PICK s \in Seq(S) : s = << >> /\ Len(s) = 0
    BY <2>6
  <2>8. stack' = <<g>> \o s
    BY <2>5, <2>7
  <2>9. /\ Todo(tree, s) = {} /\ Apart(tree, s)
        /\ PathsApart(FrameFiles(tree, g), Todo(tree, s))
    BY <2>7 DEF Todo, Apart, PathsApart
  <2>10. Todo(tree, stack') = FrameFiles(tree, g) /\ Apart(tree, stack')
    <3>1. /\ Todo(tree, <<g>> \o s) = FrameFiles(tree, g) \cup Todo(tree, s)
          /\ Apart(tree, <<g>> \o s)
      BY <2>0, <2>9, PushTodo
    <3> QED BY <2>8, <2>9, <3>1
  <2>11. FrameFiles(tree, g) = Full
    <3>1. ASSUME NEW d \in DOMAIN tree, g.left = tree[d]
          PROVE  FrameFiles(tree, g) = {<<g.path \o q[1], q[2]>> : q \in Named(tree)[d]}
      BY <1>1, <3>1, AllFiles
    <3>2. FrameFiles(tree, g) = {<<g.path \o q[1], q[2]>> : q \in Named(tree)[Root]}
      BY <2>4, <2>5, <3>1
    <3> QED BY <2>4, <3>2 DEF Full, Site
  <2>12. Len(stack') = 1 /\ stack'[1] = g
    BY <2>7, <2>8
  <2>13. \A k \in 1 .. Len(stack') : stack'[k].left \subseteq tree[stack'[k].dir]
    BY <2>4, <2>12
  <2>14. Len(visited') = 0 /\ Len(content') = 0
    BY <1>1, <1>2, <1>3, <2>6
  <2>15. Full' = Full
    BY <1>3 DEF Full, Site
  <2>16. Todo(tree, stack)' = Full /\ Apart(tree, stack)'
    BY <1>3, <2>10, <2>11
  <2>17. \A k \in 1 .. Len(stack') : stack'[k].left \subseteq tree'[stack'[k].dir]
    BY <1>3, <2>13
  <2> QED BY <1>4, <2>14, <2>15, <2>16, <2>17 DEF TodoInv
<1> QED BY <1>1, <1>4, <1>5, <1>6

\* At the end of the walk nothing is left to be found.
LEMMA EndScanFinds ==
    ASSUME TodoInv, FoundInv, tree \in Trees, EndScan
    PROVE  TodoInv' /\ FoundInv'
<1>1. /\ phase = "scanning" /\ stack = << >>
      /\ phase' = IF err = "SUCCESS" THEN "serving" ELSE "refused"
      /\ UNCHANGED <<tree, err, visited, content>>
  BY DEF EndScan, traverseVars
<1>2. TodoInv'
  BY <1>1 DEF TodoInv
<1>3. CASE err # "SUCCESS"
  BY <1>1, <1>2, <1>3, FoundKept
<1>4. CASE err = "SUCCESS"
  <2>1. Todo(tree, stack) = {}
    <3>1. Len(<< >>) = 0
      BY EmptySeq
    <3> QED BY <1>1, <3>1 DEF Todo
  <2>2. ASSUME NEW p \in Site
        PROVE  \E i \in 1 .. Len(visited) : visited[i] = p[2]
    <3>1. PICK w : w = <<BaseDir \o p[1], p[2]>>
      OBVIOUS
    <3>2. w \in Full /\ w[2] = p[2]
      BY <3>1 DEF Full
    <3> QED BY <1>1, <1>4, <2>1, <3>2 DEF TodoInv
  <2>3. Site' = Site
    BY <1>1 DEF Site
  <2>4. ASSUME NEW i \in 1 .. Len(content)
        PROVE  OwnEntry(content[i])'
    BY <1>1, <2>3, <2>4 DEF FoundInv, OwnEntry
  <2>5. FoundInv'
    BY <1>1, <1>4, <2>2, <2>3, <2>4, NamesKept DEF FoundInv
  <2> QED BY <1>2, <2>5
<1> QED BY <1>3, <1>4, <1>2

\* Steps that leave the walk and the contents alone.
LEMMA NothingFound ==
    ASSUME TodoInv, FoundInv, UNCHANGED <<tree, stack, err, visited, phase, content>>
    PROVE  TodoInv' /\ FoundInv'
<1>1. Site' = Site /\ Full' = Full
  BY DEF Site, Full
<1>2. Todo(tree, stack)' = Todo(tree, stack) /\ (Apart(tree, stack)' <=> Apart(tree, stack))
  OBVIOUS
<1>3. ASSUME NEW i \in 1 .. Len(content)
      PROVE  OwnEntry(content[i])'
  BY <1>1, <1>3 DEF FoundInv, OwnEntry
<1>4. FoundInv'
  BY <1>1, <1>3, NamesKept DEF FoundInv
<1>5. TodoInv'
  BY <1>1, <1>2 DEF TodoInv
<1> QED BY <1>4, <1>5

\* Every step keeps to what is still to be found and to what was.
LEMMA NextFinds ==
    ASSUME IInv, TodoInv, FoundInv, [Next]_vars
    PROVE  TodoInv' /\ FoundInv'
<1>1. CASE Start
  BY <1>1, StartTodo
<1>2. CASE Scan
  <2>1. phase = "scanning" /\ Walk /\ UNCHANGED <<phase, content>>
    BY <1>2 DEF Scan, siteVars
  <2>2. TodoInv'
    BY <2>1, WalkTodo DEF IInv
  <2>3. UNCHANGED <<tree, visited>>
    BY <2>1 DEF Walk, Descend, DescendFails, Skip, CloseDir, Unwind, OpenDir, OpenFails
  <2>4. FoundInv'
    BY <2>1, <2>3, FoundKept
  <2> QED BY <2>2, <2>4
<1>3. ASSUME NEW e \in Entries, FileFound(e)
      PROVE  TodoInv' /\ FoundInv'
  BY <1>3, VisitTodo, VisitFound DEF IInv
<1>4. CASE EndScan
  BY <1>4, EndScanFinds DEF IInv, WalkInv
<1>5. ASSUME Served
      PROVE  TodoInv' /\ FoundInv'
  <2>1. UNCHANGED <<tree, stack, err, visited, phase, content>>
    BY <1>5 DEF Served, traverseVars
  <2> QED BY <2>1, NothingFound
<1>6. CASE Release
  <2>1. phase' = "released" /\ content' = << >> /\ UNCHANGED <<tree, visited>>
    BY <1>6 DEF Release, traverseVars
  <2>2. Len(<< >>) = 0 /\ Site' = Site
    BY <2>1, EmptySeq DEF Site
  <2>3. FoundInv'
    BY <2>1, <2>2, NamesKept DEF FoundInv
  <2> QED BY <2>1, <2>3 DEF TodoInv
<1>7. CASE UNCHANGED vars
  <2>1. UNCHANGED <<tree, stack, err, visited, phase, content>>
    BY <1>7 DEF vars, traverseVars, siteVars
  <2> QED BY <2>1, NothingFound
<1>8. ASSUME NEW uri \in Uris, Request(uri)
      PROVE  Served
  BY <1>8 DEF Request
<1>9. ASSUME NEW n \in 1 .. send.left, SendPart(n)
      PROVE  Served
  BY <1>9 DEF SendPart
<1>10. ASSUME SendFails \/ Answered
       PROVE  Served
  BY <1>10 DEF SendFails, Answered
<1> QED
  BY <1>1, <1>2, <1>3, <1>4, <1>5, <1>6, <1>7, <1>8, <1>9, <1>10 DEF Next

\* Until the walk is over, each file of the tree was visited or is still to be
\* found, and what is cached is a file of the tree.
THEOREM SiteFinds == Spec => [](IInv /\ TodoInv /\ FoundInv)
<1>1. Init => IInv /\ TodoInv /\ FoundInv
  <2>1. Len(<< >>) = 0
    BY EmptySeq
  <2>2. Init => TodoInv /\ FoundInv
    BY <2>1 DEF Init, TraverseInit, TodoInv, FoundInv
  <2> QED BY <2>2, InitInv
<1>2. IInv /\ TodoInv /\ FoundInv /\ [Next]_vars => (IInv /\ TodoInv /\ FoundInv)'
  BY NextInv, NextFinds
<1> QED BY <1>1, <1>2, PTL DEF Spec

-------------------------------------------------------------------------------
(* The properties *)

\* Blocks in order are blocks that do not meet.
LEMMA OrderedApart ==
    ASSUME IInv
    PROVE  BlocksApart
<1>1. ASSUME NEW i \in 1 .. Len(content)
      PROVE  /\ Block(i) \cup NameBlock(i) \subseteq 0 .. Capacity - 1
             /\ Block(i) \cap NameBlock(i) = {}
  <2>1. PICK a \in Nat, l \in Nat, n \in Nat, u \in Nat :
            /\ a = content[i].memory /\ l = content[i].length
            /\ n = content[i].name /\ u = Len(content[i].uri)
    BY BlockTypes DEF IInv, BlockInv
  <2>2. n + u <= a /\ a + l <= memory.pos
    BY <2>1 DEF IInv, BlockInv
  <2>3. memory.pos \in Nat /\ memory.pos <= Capacity /\ Capacity \in Nat
    BY SiteAssumption DEF IInv, BlockInv
  <2>4. Block(i) = a .. a + l - 1 /\ NameBlock(i) = n .. n + u - 1
    BY <2>1 DEF Block, NameBlock
  <2> QED BY <2>2, <2>3, <2>4
<1>2. ASSUME NEW i \in 1 .. Len(content), NEW j \in 1 .. Len(content), i < j
      PROVE  (Block(i) \cup NameBlock(i)) \cap (Block(j) \cup NameBlock(j)) = {}
  <2>1. PICK a \in Nat, l \in Nat, n \in Nat, u \in Nat :
            /\ a = content[i].memory /\ l = content[i].length
            /\ n = content[i].name /\ u = Len(content[i].uri)
    BY BlockTypes DEF IInv, BlockInv
  <2>2. PICK b \in Nat, k \in Nat, m \in Nat, v \in Nat :
            /\ b = content[j].memory /\ k = content[j].length
            /\ m = content[j].name /\ v = Len(content[j].uri)
    BY BlockTypes DEF IInv, BlockInv
  <2>3. n + u <= a /\ m + v <= b /\ a + l <= m
    BY <1>2, <2>1, <2>2 DEF IInv, BlockInv
  <2>4. /\ Block(i) = a .. a + l - 1 /\ NameBlock(i) = n .. n + u - 1
        /\ Block(j) = b .. b + k - 1 /\ NameBlock(j) = m .. m + v - 1
    BY <2>1, <2>2 DEF Block, NameBlock
  <2> QED BY <2>3, <2>4
<1>3. ASSUME NEW i \in 1 .. Len(content), NEW j \in 1 .. Len(content), i # j
      PROVE  (Block(i) \cup NameBlock(i)) \cap (Block(j) \cup NameBlock(j)) = {}
  <2>1. i < j \/ j < i
    BY <1>3 DEF IInv, BlockInv
  <2> QED BY <1>2, <2>1
<1> QED BY <1>1, <1>3 DEF BlocksApart

\* Every variable keeps its type.
LEMMA SiteTypes ==
    ASSUME IInv
    PROVE  TypeOK
<1>1. Range(visited) \subseteq FileNodes
  <2>1. visited \in Seq(FileNodes)
    BY DEF IInv, WalkInv
  <2> QED BY <2>1 DEF Range
<1>2. dirs \in Nat
  <2>1. stack \in Seq(Frames) /\ dirs = Len(stack)
    BY DEF IInv, WalkInv
  <2> QED BY <2>1
<1>3. memory \in [pos : 0..Capacity, end : {Capacity}, resize_bytes : Int]
  BY SiteAssumption DEF IInv, BlockInv
<1>4. ASSUME NEW i \in 1 .. Len(content)
      PROVE  /\ content[i].file \in FileNodes
             /\ content[i].uri # << >>
             /\ content[i].length \in Nat \ {0}
  <2>1. content[i].file \in FileNodes /\ content[i].length \in Nat
    BY <1>4, BlockTypes DEF IInv, BlockInv
  <2>2. Len(content[i].uri) >= 1 /\ content[i].length >= 1
    BY <1>4 DEF IInv, BlockInv
  <2>3. Len(<< >>) = 0
    BY EmptySeq
  <2> QED BY <2>1, <2>2, <2>3
<1>5. send.at \in {"idle", "sending", "sent", "failed", "not_found"} /\ send.left \in Nat
  BY DEF IInv, SendInv, Sends
<1> QED BY <1>1, <1>2, <1>3, <1>4, <1>5 DEF TypeOK, IInv, WalkInv, PhaseInv, SlotInv

\* No byte of a cached name or file is that of another one, all are inside the
\* memory, and the table has an element for each, whatever fails in between.
THEOREM SiteCacheSafe == Spec => []CacheSafe
<1>1. IInv => CacheSafe
  BY SiteTypes, OrderedApart DEF CacheSafe, SlotsSuffice, IInv, SlotInv
<1> QED BY <1>1, SiteInvariant, PTL

\* What a client is sent are bytes of the file that was found for it.
THEOREM SiteAnswerIsOwn == Spec => []AnswerIsOwn
<1>1. IInv => AnswerIsOwn
  <2> SUFFICES ASSUME IInv, send.at \in {"sending", "sent"}
               PROVE  /\ Range(send.got) \subseteq Block(send.entry)
                      /\ Len(send.got) = Entry.length - send.left
                      /\ send.sends = 1 /\ send.left = 0 =>
                            send.got = [k \in 1..Entry.length |-> Entry.memory + k - 1]
    BY DEF AnswerIsOwn
  <2>1. /\ send.entry \in 1..Len(content)
        /\ Len(send.got) = Entry.length - send.left
        /\ \A k \in 1..Len(send.got) : send.got[k] \in Block(send.entry)
        /\ send.sends = 1 =>
            \A k \in 1..Len(send.got) : send.got[k] = Entry.memory + k - 1
    BY DEF IInv, SendInv
  <2>2. send.got \in Seq(Nat)
    BY DEF IInv, SendInv, Sends
  <2>3. Range(send.got) \subseteq Block(send.entry)
    BY <2>1, <2>2 DEF Range
  <2>4. ASSUME send.sends = 1, send.left = 0
        PROVE  send.got = [k \in 1..Entry.length |-> Entry.memory + k - 1]
    <3>1. PICK l \in Nat : l = Entry.length
      BY <2>1, BlockTypes DEF Entry, IInv, BlockInv
    <3>2. Len(send.got) = l
      BY <2>1, <2>4, <3>1
    <3>3. \A k \in 1 .. l : send.got[k] = Entry.memory + k - 1
      BY <2>1, <2>4, <3>2
    <3>4. send.got = [k \in 1 .. l |-> send.got[k]]
      BY <2>2, <3>2
    <3> QED BY <3>1, <3>3, <3>4
  <2> QED BY <2>1, <2>3, <2>4
<1> QED BY <1>1, SiteInvariant, PTL

\* A cached file whose path was not clipped is found under it and under no other
\* such path; its length is its own when that is an int, and less when not; and
\* its mime type is one its name has.
THEOREM SiteFoundIsOwn == Spec => []FoundIsOwn
<1>1. FoundInv => FoundIsOwn
  <2> SUFFICES ASSUME FoundInv, NEW i \in 1 .. Len(content)
               PROVE  /\ OwnEntry(content[i])
                      /\ Whole(content[i].uri) => Matches(content[i].uri) = {i}
    BY DEF FoundIsOwn, OwnEntry, Whole
  <2> QED BY DEF FoundInv, Matches
<1> QED BY <1>1, SiteFinds, PTL

\* However a walk ends, every directory it opened is closed again.
THEOREM SiteDirsClosed == Spec => []DirsClosed
<1>1. IInv => DirsClosed
  <2>1. Len(<< >>) = 0
    BY EmptySeq
  <2> QED BY <2>1 DEF IInv, PhaseInv, WalkInv, DirsClosed
<1> QED BY <1>1, SiteInvariant, PTL

\* When every file has one name, the walk gives no file to the callback twice,
\* a walk that succeeds gave it every file, and every directory is closed.
THEOREM SiteWalkIsWhole ==
    ASSUME OneNameEach PROVE Spec => []WalkIsWhole
<1>1. ASSUME IInv, FoundInv PROVE VisitedOnce
  <2>1. \A i, j \in 1 .. Len(visited) : visited[i] = visited[j] => i = j
    BY <1>1, OneNameEach DEF FoundInv
  <2>2. Range(visited) = {visited[i] : i \in 1 .. Len(visited)}
    <3>1. visited \in Seq(FileNodes)
      BY <1>1 DEF IInv, WalkInv
    <3> QED BY <3>1 DEF Range
  <2>3. ASSUME phase = "serving", NEW x
        PROVE  x \in Range(visited) <=> \E p \in Site : p[2] = x
    BY <1>1, <2>2, <2>3 DEF FoundInv
  <2>4. phase = "serving" => Range(visited) = {p[2] : p \in Site}
    BY <2>3
  <2> QED BY <2>1, <2>4 DEF VisitedOnce
<1>2. VisitedOnce /\ DirsClosed => WalkIsWhole
  BY DEF WalkIsWhole
<1> QED BY <1>1, <1>2, SiteFinds, SiteDirsClosed, PTL
===============================================================================
