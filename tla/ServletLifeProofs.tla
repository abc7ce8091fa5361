--------------------------- MODULE ServletLifeProofs ---------------------------
(***************************************************************************)
(* Proofs about ServletLife, for any number of threads, of servlets made   *)
(* one after the other, of starts of each, and for filter chains of any    *)
(* length: who runs is owned, a chain is walked in order, and a context is *)
(* found where the innermost call pushed it.                               *)
(***************************************************************************)
EXTENDS ServletLife, WellFoundedInduction, TLAPS

-------------------------------------------------------------------------------
(* The inductive invariant *)

Servlets == [exists : BOOLEAN, threads : Seq(Workers),
             chain : Chains \cup {0}, starts : Nat]
CallRecords == [filter : Nat, pushed : Keys \cup {"none"}]
Contexts == [key : Keys, value : Nat]

TypeInv ==
    /\ TypeOK
    /\ servlet \in Servlets
    /\ call \in [Threads -> Seq(CallRecords)]
    /\ context \in [Threads -> Seq(Contexts)]

\* A servlet owns the workers from 1 to the last, until hiw_servlet_release has
\* come to them; the flag of each says whether there is a thread to join.
OwnInv ==
    /\ \A i \in 1 .. Len(servlet.threads) : servlet.threads[i] = i
    /\ ~servlet.exists => servlet.threads = << >>
    /\ servlet.exists => server # "none"
    /\ at \in {"starting", "serving", "joining"} => servlet.exists
    /\ \A w \in Workers :
           /\ object[w] <=> /\ w <= Len(servlet.threads)
                            /\ at = "joining" => w >= next
           /\ started[w] <=> pthread[w] # "none"
           /\ started[w] => object[w]

\* Whether t is between the first and the last line of its function.
Inside(t) == IF t = Main THEN at = "serving" ELSE pthread[t] = "running"

\* Whoever is not has no call in progress, and no context is left of him.
QuietInv ==
    \A t \in Threads : ~Inside(t) =>
        call[t] = << >> /\ context[t] = << >> /\ local[t] = "none"

\* The calls c walk a chain of n filters.
InOrder(c, n) ==
    /\ Len(c) <= n + 1
    /\ \A i \in 1 .. Len(c) :
           c[i].filter = IF Len(c) - i + 1 <= n THEN Len(c) - i + 1 ELSE 0

ChainInv == \A t \in Threads : InOrder(call[t], chain[t])

\* The contexts x are those of the calls c that pushed one and have not popped
\* it, innermost first, and at the end that of the start function, l.
Matches(x, c, l) ==
    /\ \A i \in 1 .. Len(x) :
           /\ x[i].value <= Len(c)
           /\ x[i].key = IF x[i].value = 0 THEN l
                         ELSE c[Len(c) - x[i].value + 1].pushed
           /\ \A j \in 1 .. Len(x) : j < i => x[j].value > x[i].value
    /\ \A i \in 1 .. Len(c) : c[i].pushed # "none" =>
           \E j \in 1 .. Len(x) : x[j].value = Len(c) - i + 1
    /\ l # "none" => \E j \in 1 .. Len(x) : x[j].value = 0

ContextInv == \A t \in Threads : Matches(context[t], call[t], local[t])

IInv == TypeInv /\ OwnInv /\ QuietInv /\ ChainInv /\ ContextInv

-------------------------------------------------------------------------------
(* Sequences that grow and shrink at their head, and least elements *)

\* A new head moves every element one place on.
LEMMA Prepend ==
    ASSUME NEW S, NEW s \in Seq(S), NEW x \in S
    PROVE  /\ <<x>> \o s \in Seq(S)
           /\ Len(<<x>> \o s) = Len(s) + 1
           /\ (<<x>> \o s)[1] = x
           /\ \A i \in 1 .. Len(s) : (<<x>> \o s)[i + 1] = s[i]
           /\ \A i \in 2 .. Len(s) + 1 : (<<x>> \o s)[i] = s[i - 1]
  OBVIOUS

\* Without its head every element is one place earlier.
LEMMA Behead ==
    ASSUME NEW S, NEW s \in Seq(S), s # << >>
    PROVE  /\ Tail(s) \in Seq(S)
           /\ Len(s) \in Nat \ {0}
           /\ Len(Tail(s)) = Len(s) - 1
           /\ Head(s) = s[1] /\ s[1] \in S
           /\ \A i \in 1 .. Len(s) - 1 : Tail(s)[i] = s[i + 1]
  OBVIOUS

\* Only the empty sequence has no element.
LEMMA EmptySequence ==
    ASSUME NEW S, NEW s \in Seq(S), Len(s) = 0
    PROVE  s = << >>
  OBVIOUS

\* A set of natural numbers has a least element.
LEMMA MinOfNats ==
    ASSUME NEW S, S \subseteq Nat, S # {}
    PROVE  Min(S) \in S /\ \A i \in S : Min(S) <= i
<1> DEFINE Less == OpToRel(<, Nat)
<1>1. IsWellFoundedOn(Less, Nat)
  BY NatLessThanWellFounded
<1>2. \A x, y \in Nat : x < y => <<x, y>> \in Less
  BY DEF OpToRel
<1> HIDE DEF Less
<1>3. PICK x \in S : \A y \in S : ~ (<<y, x>> \in Less)
  BY <1>1, WFMin
<1>4. ASSUME NEW y \in S
      PROVE  x <= y
  <2>1. x \in Nat /\ y \in Nat
    OBVIOUS
  <2>2. ~ (y < x)
    BY <1>2, <1>3, <2>1
  <2> QED BY <2>1, <2>2
<1> QED BY <1>4 DEF Min

-------------------------------------------------------------------------------
(* Calls and contexts as values *)

\* A context has a key and a value.
LEMMA ContextTypes ==
    ASSUME NEW x \in Seq(Contexts), NEW i \in 1 .. Len(x)
    PROVE  x[i].value \in Nat /\ x[i].key \in Keys /\ x[i].key # "none"
<1>1. x[i] \in Contexts
  OBVIOUS
<1> QED BY <1>1, LifeAssumption DEF Contexts

\* A call is that of a filter, or of number 0.
LEMMA CallTypes ==
    ASSUME NEW c \in Seq(CallRecords), NEW i \in 1 .. Len(c)
    PROVE  c[i].filter \in Nat /\ c[i].pushed \in Keys \cup {"none"}
<1>1. c[i] \in CallRecords
  OBVIOUS
<1> QED BY <1>1 DEF CallRecords

\* The next filter, or the servlet function, is called from the innermost one.
LEMMA NextInOrder ==
    ASSUME NEW n \in Nat, NEW c \in Seq(CallRecords), InOrder(c, n),
           c = << >> \/ c[1].filter > 0,
           NEW k, k = IF c = << >> THEN (IF n > 0 THEN 1 ELSE 0)
                      ELSE IF c[1].filter < n THEN c[1].filter + 1 ELSE 0
    PROVE  InOrder(<<Called(k)>> \o c, n)
<1> DEFINE d == <<Called(k)>> \o c
<1>1. Len(c) \in Nat /\ (c = << >> <=> Len(c) = 0)
  OBVIOUS
<1>2. k \in Nat
  <2>1. c # << >> => c[1].filter \in Nat
    BY <1>1, CallTypes
  <2> QED BY <2>1
<1>3. Called(k) \in CallRecords /\ Called(k).filter = k
  BY <1>2 DEF Called, CallRecords
<1>4. /\ Len(d) = Len(c) + 1
      /\ d[1] = Called(k)
      /\ \A i \in 2 .. Len(c) + 1 : d[i] = c[i - 1]
  BY <1>3, Prepend
<1> HIDE DEF d
<1>5. Len(c) <= n /\ k = IF Len(c) + 1 <= n THEN Len(c) + 1 ELSE 0
  BY <1>1 DEF InOrder
<1>6. ASSUME NEW i \in 1 .. Len(d)
      PROVE  d[i].filter = IF Len(d) - i + 1 <= n THEN Len(d) - i + 1 ELSE 0
  <2>1. CASE i = 1
    BY <1>1, <1>3, <1>4, <1>5, <2>1
  <2>2. CASE i # 1
    <3>1. i - 1 \in 1 .. Len(c) /\ d[i] = c[i - 1]
      BY <1>1, <1>4, <2>2
    <3>2. Len(c) - (i - 1) + 1 = Len(d) - i + 1
      BY <1>1, <1>4
    <3> QED BY <3>1, <3>2 DEF InOrder
  <2> QED BY <2>1, <2>2
<1> QED BY <1>1, <1>4, <1>5, <1>6 DEF InOrder, d

\* The innermost call returns.
LEMMA ReturnInOrder ==
    ASSUME NEW n \in Nat, NEW c \in Seq(CallRecords), InOrder(c, n), c # << >>
    PROVE  InOrder(Tail(c), n)
<1>1. /\ Len(c) \in Nat \ {0}
      /\ Len(Tail(c)) = Len(c) - 1
      /\ \A i \in 1 .. Len(c) - 1 : Tail(c)[i] = c[i + 1]
  BY Behead
<1>2. ASSUME NEW i \in 1 .. Len(c) - 1
      PROVE  Tail(c)[i].filter =
                 IF Len(c) - 1 - i + 1 <= n THEN Len(c) - 1 - i + 1 ELSE 0
  <2>1. i + 1 \in 1 .. Len(c) /\ Len(c) - (i + 1) + 1 = Len(c) - 1 - i + 1
    BY <1>1
  <2> QED BY <1>1, <2>1 DEF InOrder
<1> QED BY <1>1, <1>2 DEF InOrder

\* A call that notes what it pushed stays where it is in the chain.
LEMMA MarkedInOrder ==
    ASSUME NEW n \in Nat, NEW c \in Seq(CallRecords), InOrder(c, n), c # << >>,
           NEW k \in Keys \cup {"none"}
    PROVE  /\ [c EXCEPT ![1].pushed = k] \in Seq(CallRecords)
           /\ InOrder([c EXCEPT ![1].pushed = k], n)
<1> DEFINE d == [c EXCEPT ![1].pushed = k]
<1>1. Len(c) \in Nat \ {0}
  BY Behead
<1>2. c[1] \in CallRecords
  BY <1>1
<1>3. [c[1] EXCEPT !.pushed = k] \in CallRecords
  BY <1>2 DEF CallRecords
<1>4. d \in Seq(CallRecords)
  BY <1>1, <1>3
<1>5. Len(d) = Len(c) /\ \A i \in 1 .. Len(c) : d[i].filter = c[i].filter
  BY <1>1, <1>2 DEF CallRecords
<1> QED BY <1>4, <1>5 DEF InOrder

\* A new call, which has pushed nothing.
LEMMA CallMatches ==
    ASSUME NEW x \in Seq(Contexts), NEW c \in Seq(CallRecords), NEW l,
           Matches(x, c, l), NEW k \in Nat
    PROVE  Matches(x, <<Called(k)>> \o c, l)
<1> DEFINE d == <<Called(k)>> \o c
<1>1. Len(c) \in Nat
  OBVIOUS
<1>2. Called(k) \in CallRecords /\ Called(k).pushed = "none"
  BY DEF Called, CallRecords
<1>3. /\ Len(d) = Len(c) + 1
      /\ d[1] = Called(k)
      /\ \A i \in 2 .. Len(c) + 1 : d[i] = c[i - 1]
  BY <1>2, Prepend
<1> HIDE DEF d
<1>4. ASSUME NEW i \in 1 .. Len(x)
      PROVE  /\ x[i].value <= Len(d)
             /\ x[i].key = IF x[i].value = 0 THEN l ELSE d[Len(d) - x[i].value + 1].pushed
  <2>1. x[i].value \in Nat /\ x[i].value <= Len(c)
    BY ContextTypes DEF Matches
  <2>2. PICK v \in Nat, n \in Nat : v = x[i].value /\ n = Len(c) /\ v <= n
    BY <1>1, <2>1
  <2>3. v # 0 => /\ (n + 1) - v + 1 \in 2 .. n + 1
                 /\ ((n + 1) - v + 1) - 1 = n - v + 1
    BY <2>2
  <2>4. v # 0 => d[(n + 1) - v + 1] = c[n - v + 1]
    BY <1>3, <2>2, <2>3
  <2>5. x[i].key = IF v = 0 THEN l ELSE c[n - v + 1].pushed
    BY <2>2 DEF Matches
  <2>6. Len(d) = n + 1 /\ v <= n + 1
    BY <1>3, <2>2
  <2> QED BY <2>2, <2>4, <2>5, <2>6
<1>5. ASSUME NEW i \in 1 .. Len(d), d[i].pushed # "none"
      PROVE  \E j \in 1 .. Len(x) : x[j].value = Len(d) - i + 1
  <2>1. i # 1
    BY <1>2, <1>3, <1>5
  <2>2. i - 1 \in 1 .. Len(c) /\ d[i] = c[i - 1] /\ Len(c) - (i - 1) + 1 = Len(d) - i + 1
    BY <1>1, <1>3, <2>1
  <2> QED BY <1>5, <2>2 DEF Matches
<1> QED BY <1>4, <1>5 DEF Matches, d

\* A call that has pushed nothing returns.
LEMMA ReturnMatches ==
    ASSUME NEW x \in Seq(Contexts), NEW c \in Seq(CallRecords), NEW l,
           Matches(x, c, l), c # << >>, c[1].pushed = "none"
    PROVE  Matches(x, Tail(c), l)
<1> USE LifeAssumption
<1>1. /\ Len(c) \in Nat \ {0}
      /\ Len(Tail(c)) = Len(c) - 1
      /\ \A i \in 1 .. Len(c) - 1 : Tail(c)[i] = c[i + 1]
  BY Behead
<1>2. ASSUME NEW i \in 1 .. Len(x)
      PROVE  /\ x[i].value <= Len(c) - 1
             /\ x[i].key = IF x[i].value = 0 THEN l
                           ELSE Tail(c)[Len(c) - 1 - x[i].value + 1].pushed
  <2>1. x[i].value \in Nat /\ x[i].value <= Len(c) /\ x[i].key # "none"
    BY ContextTypes DEF Matches
  <2>2. x[i].value # Len(c)
    <3> SUFFICES ASSUME x[i].value = Len(c)
                 PROVE  FALSE
      OBVIOUS
    <3>1. x[i].value # 0 /\ Len(c) - x[i].value + 1 = 1
      BY <1>1
    <3>2. x[i].key = c[1].pushed
      BY <3>1 DEF Matches
    <3> QED BY <2>1, <3>2
  <2>3. x[i].value # 0 =>
            Tail(c)[Len(c) - 1 - x[i].value + 1] = c[Len(c) - x[i].value + 1]
    <3> SUFFICES ASSUME x[i].value # 0
                 PROVE  Tail(c)[Len(c) - 1 - x[i].value + 1] = c[Len(c) - x[i].value + 1]
      OBVIOUS
    <3>1. Len(c) - x[i].value \in 1 .. Len(c) - 1
      BY <1>1, <2>1, <2>2
    <3>2. Tail(c)[Len(c) - x[i].value] = c[Len(c) - x[i].value + 1]
      BY <1>1, <3>1
    <3>3. Len(c) - 1 - x[i].value + 1 = Len(c) - x[i].value
      BY <1>1, <2>1
    <3> QED BY <3>2, <3>3
  <2>4. x[i].key = IF x[i].value = 0 THEN l ELSE c[Len(c) - x[i].value + 1].pushed
    BY DEF Matches
  <2>5. x[i].value <= Len(c) - 1
    BY <1>1, <2>1, <2>2
  <2> QED BY <2>3, <2>4, <2>5
<1>3. ASSUME NEW i \in 1 .. Len(c) - 1, Tail(c)[i].pushed # "none"
      PROVE  \E j \in 1 .. Len(x) : x[j].value = Len(c) - 1 - i + 1
  <2>1. i + 1 \in 1 .. Len(c) /\ Tail(c)[i] = c[i + 1] /\ Len(c) - (i + 1) + 1 = Len(c) - 1 - i + 1
    BY <1>1
  <2> QED BY <1>3, <2>1 DEF Matches
<1> QED BY <1>1, <1>2, <1>3 DEF Matches

\* The innermost call pushes a context for k.
LEMMA PushMatches ==
    ASSUME NEW x \in Seq(Contexts), NEW c \in Seq(CallRecords), NEW l,
           Matches(x, c, l), c # << >>, c[1].pushed = "none", NEW k \in Keys
    PROVE  /\ Pushed(x, k, Len(c)) \in Seq(Contexts)
           /\ Matches(Pushed(x, k, Len(c)), [c EXCEPT ![1].pushed = k], l)
<1> USE LifeAssumption
<1> DEFINE y == Pushed(x, k, Len(c))
           d == [c EXCEPT ![1].pushed = k]
           e == [key |-> k, value |-> Len(c)]
<1>1. Len(c) \in Nat \ {0} /\ Len(x) \in Nat
  BY Behead
<1>2. e \in Contexts
  BY <1>1 DEF Contexts
<1>3. y = <<e>> \o x
  BY DEF Pushed
<1> HIDE DEF e, y
<1>4. /\ y \in Seq(Contexts)
      /\ Len(y) = Len(x) + 1
      /\ y[1] = e
      /\ \A i \in 1 .. Len(x) : y[i + 1] = x[i]
      /\ \A i \in 2 .. Len(x) + 1 : y[i] = x[i - 1]
  BY <1>2, <1>3, Prepend
<1>5. /\ Len(d) = Len(c)
      /\ d[1].pushed = k
      /\ \A i \in 1 .. Len(c) : i # 1 => d[i] = c[i]
  BY <1>1 DEF CallRecords
<1>6. e.key = k /\ e.value = Len(c)
  BY DEF e
<1> HIDE DEF d
<1>7. \A i \in 1 .. Len(x) :
          /\ x[i].value \in Nat /\ x[i].value <= Len(c) /\ x[i].value # Len(c)
          /\ x[i].key = IF x[i].value = 0 THEN l ELSE d[Len(d) - x[i].value + 1].pushed
  <2> SUFFICES ASSUME NEW i \in 1 .. Len(x)
               PROVE  /\ x[i].value \in Nat /\ x[i].value <= Len(c) /\ x[i].value # Len(c)
                      /\ x[i].key = IF x[i].value = 0 THEN l
                                    ELSE d[Len(d) - x[i].value + 1].pushed
    OBVIOUS
  <2>1. x[i].value \in Nat /\ x[i].value <= Len(c) /\ x[i].key # "none"
    BY ContextTypes DEF Matches
  <2>2. x[i].value # Len(c)
    BY <1>1, <2>1 DEF Matches
  <2>3. x[i].value # 0 => d[Len(d) - x[i].value + 1] = c[Len(c) - x[i].value + 1]
    BY <1>1, <1>5, <2>1, <2>2
  <2> QED BY <1>5, <2>1, <2>2, <2>3 DEF Matches
<1>8. ASSUME NEW i \in 1 .. Len(y)
      PROVE  /\ y[i].value <= Len(d)
             /\ y[i].key = IF y[i].value = 0 THEN l ELSE d[Len(d) - y[i].value + 1].pushed
             /\ \A j \in 1 .. Len(y) : j < i => y[j].value > y[i].value
  <2>1. CASE i = 1
    BY <1>1, <1>4, <1>5, <1>6, <2>1
  <2>2. CASE i # 1
    <3>1. i - 1 \in 1 .. Len(x) /\ y[i] = x[i - 1]
      BY <1>1, <1>4, <2>2
    <3>2. ASSUME NEW j \in 1 .. Len(y), j < i
          PROVE  y[j].value > y[i].value
      <4>1. CASE j = 1
        BY <1>1, <1>4, <1>6, <1>7, <3>1, <4>1
      <4>2. CASE j # 1
        <5>1. j - 1 \in 1 .. Len(x) /\ y[j] = x[j - 1] /\ j - 1 < i - 1
          BY <1>1, <1>4, <3>2, <4>2
        <5> QED BY <3>1, <5>1 DEF Matches
      <4> QED BY <4>1, <4>2
    <3> QED BY <1>5, <1>7, <3>1, <3>2
  <2> QED BY <2>1, <2>2
<1>9. ASSUME NEW i \in 1 .. Len(d), d[i].pushed # "none"
      PROVE  \E j \in 1 .. Len(y) : y[j].value = Len(d) - i + 1
  <2>1. CASE i = 1
    <3>1. 1 \in 1 .. Len(y) /\ y[1].value = Len(d) - i + 1
      BY <1>1, <1>4, <1>5, <1>6, <2>1
    <3> QED BY <3>1
  <2>2. CASE i # 1
    <3>1. PICK j \in 1 .. Len(x) : x[j].value = Len(c) - i + 1
      BY <1>5, <1>9, <2>2 DEF Matches
    <3>2. j + 1 \in 1 .. Len(y) /\ y[j + 1].value = Len(d) - i + 1
      BY <1>1, <1>4, <1>5, <3>1
    <3> QED BY <3>2
  <2> QED BY <2>1, <2>2
<1>10. ASSUME l # "none"
       PROVE  \E j \in 1 .. Len(y) : y[j].value = 0
  <2>1. PICK j \in 1 .. Len(x) : x[j].value = 0
    BY <1>10 DEF Matches
  <2>2. j + 1 \in 1 .. Len(y) /\ y[j + 1].value = 0
    BY <1>1, <1>4, <2>1
  <2> QED BY <2>2
<1> QED BY <1>4, <1>8, <1>9, <1>10 DEF Matches, y, d

\* The innermost call pops what it pushed, which is the innermost context.
LEMMA PopMatches ==
    ASSUME NEW x \in Seq(Contexts), NEW c \in Seq(CallRecords), NEW l,
           Matches(x, c, l), c # << >>, c[1].pushed # "none"
    PROVE  /\ Popped(x) \in Seq(Contexts)
           /\ Matches(Popped(x), [c EXCEPT ![1].pushed = "none"], l)
<1> DEFINE d == [c EXCEPT ![1].pushed = "none"]
<1>1. Len(c) \in Nat \ {0} /\ Len(x) \in Nat
  BY Behead
<1>2. PICK h \in 1 .. Len(x) : x[h].value = Len(c)
  <2>1. 1 \in 1 .. Len(c) /\ Len(c) - 1 + 1 = Len(c)
    BY <1>1
  <2> QED BY <2>1 DEF Matches
<1>3. x # << >> /\ 1 \in 1 .. Len(x)
  BY <1>1, <1>2
<1>4. x[1].value \in Nat /\ x[1].value <= Len(c)
  BY <1>3, ContextTypes DEF Matches
<1>5. h = 1
  BY <1>1, <1>2, <1>3, <1>4 DEF Matches
<1>6. /\ Popped(x) = Tail(x)
      /\ Tail(x) \in Seq(Contexts)
      /\ Len(Tail(x)) = Len(x) - 1
      /\ \A i \in 1 .. Len(x) - 1 : Tail(x)[i] = x[i + 1]
  BY <1>3, Behead DEF Popped
<1>7. /\ Len(d) = Len(c)
      /\ d[1].pushed = "none"
      /\ \A i \in 1 .. Len(c) : i # 1 => d[i] = c[i]
  BY <1>1 DEF CallRecords
<1> HIDE DEF d
<1>8. ASSUME NEW i \in 1 .. Len(Tail(x))
      PROVE  /\ Tail(x)[i].value <= Len(d)
             /\ Tail(x)[i].key = IF Tail(x)[i].value = 0 THEN l
                                 ELSE d[Len(d) - Tail(x)[i].value + 1].pushed
             /\ \A j \in 1 .. Len(Tail(x)) : j < i => Tail(x)[j].value > Tail(x)[i].value
  <2>1. i + 1 \in 1 .. Len(x) /\ Tail(x)[i] = x[i + 1] /\ 1 < i + 1
    BY <1>1, <1>6
  <2>2. x[i + 1].value \in Nat /\ x[i + 1].value < Len(c)
    BY <1>2, <1>3, <1>5, <2>1, ContextTypes DEF Matches
  <2>3. x[i + 1].value # 0 =>
            d[Len(d) - x[i + 1].value + 1] = c[Len(c) - x[i + 1].value + 1]
    BY <1>1, <1>7, <2>2
  <2>4. \A j \in 1 .. Len(Tail(x)) : j < i => Tail(x)[j].value > Tail(x)[i].value
    <3> SUFFICES ASSUME NEW j \in 1 .. Len(Tail(x)), j < i
                 PROVE  Tail(x)[j].value > Tail(x)[i].value
      OBVIOUS
    <3>1. j + 1 \in 1 .. Len(x) /\ Tail(x)[j] = x[j + 1] /\ j + 1 < i + 1
      BY <1>1, <1>6
    <3> QED BY <2>1, <3>1 DEF Matches
  <2> QED BY <1>7, <2>1, <2>2, <2>3, <2>4 DEF Matches
<1>9. ASSUME NEW v \in Nat, v # Len(c), NEW j \in 1 .. Len(x), x[j].value = v
      PROVE  \E i \in 1 .. Len(Tail(x)) : Tail(x)[i].value = v
  <2>1. j # 1
    BY <1>2, <1>5, <1>9
  <2>2. j - 1 \in 1 .. Len(Tail(x)) /\ Tail(x)[j - 1] = x[j]
    BY <1>1, <1>6, <2>1
  <2> QED BY <1>9, <2>2
<1>10. ASSUME NEW i \in 1 .. Len(d), d[i].pushed # "none"
       PROVE  \E j \in 1 .. Len(Tail(x)) : Tail(x)[j].value = Len(d) - i + 1
  <2>1. i # 1 /\ d[i] = c[i] /\ i \in 1 .. Len(c)
    BY <1>7, <1>10
  <2>2. PICK j \in 1 .. Len(x) : x[j].value = Len(c) - i + 1
    BY <1>10, <2>1 DEF Matches
  <2>3. Len(c) - i + 1 \in Nat /\ Len(c) - i + 1 # Len(c)
    BY <1>1, <2>1
  <2> QED BY <1>7, <1>9, <2>2, <2>3
<1>11. ASSUME l # "none"
       PROVE  \E j \in 1 .. Len(Tail(x)) : Tail(x)[j].value = 0
  <2>1. PICK j \in 1 .. Len(x) : x[j].value = 0
    BY <1>11 DEF Matches
  <2> QED BY <1>1, <1>9, <2>1
<1> QED BY <1>6, <1>8, <1>10, <1>11 DEF Matches, d

\* What the start function pushed is all that is left when no call is.
LEMMA LeftMatches ==
    ASSUME NEW x \in Seq(Contexts), NEW l \in Keys \cup {"none"}, Matches(x, << >>, l)
    PROVE  /\ l = "none" => x = << >>
           /\ Popped(x) = << >>
<1>1. Len(x) \in Nat
  OBVIOUS
<1>2. \A i \in 1 .. Len(x) : x[i].value = 0 /\ x[i].key = l /\ x[i].key \in Keys
  <2>1. \A i \in 1 .. Len(x) : x[i].value \in Nat /\ x[i].key \in Keys
    BY ContextTypes
  <2>2. \A i \in 1 .. Len(x) : x[i].value <= 0
    BY DEF Matches
  <2> QED BY <2>1, <2>2 DEF Matches
<1>3. Len(x) <= 1
  <2> SUFFICES ASSUME Len(x) > 1
               PROVE  FALSE
    BY <1>1
  <2>1. 1 \in 1 .. Len(x) /\ 2 \in 1 .. Len(x)
    BY <1>1
  <2> QED BY <1>2, <2>1 DEF Matches
<1>4. ASSUME l = "none"
      PROVE  x = << >>
  BY <1>1, <1>2, <1>4, LifeAssumption
<1>5. Popped(x) = << >>
  <2>1. CASE x = << >>
    BY <2>1 DEF Popped
  <2>2. CASE x # << >>
    <3>1. /\ Tail(x) \in Seq(Contexts) /\ Len(Tail(x)) = Len(x) - 1
          /\ Len(x) \in Nat \ {0}
      BY <2>2, Behead
    <3>2. Len(Tail(x)) = 0
      BY <1>3, <3>1
    <3>3. Tail(x) = << >>
      BY <3>1, <3>2, EmptySequence
    <3> QED BY <2>2, <3>3 DEF Popped
  <2> QED BY <2>1, <2>2
<1> QED BY <1>4, <1>5

\* A start function that begins pushes a context or none.
LEMMA BeginMatches ==
    ASSUME NEW k \in Keys
    PROVE  /\ Pushed(<< >>, k, 0) \in Seq(Contexts)
           /\ Matches(Pushed(<< >>, k, 0), << >>, k)
           /\ Matches(<< >>, << >>, "none")
<1> DEFINE e == [key |-> k, value |-> 0]
<1>1. e \in Contexts /\ Pushed(<< >>, k, 0) = <<e>> \o << >>
  BY DEF Pushed, Contexts
<1>2. <<e>> \o << >> = <<e>>
  OBVIOUS
<1>3. Len(<<e>>) = 1 /\ <<e>>[1] = e /\ <<e>> \in Seq(Contexts)
  BY <1>1
<1>4. Matches(<<e>>, << >>, k)
  BY <1>3 DEF Matches
<1>5. Matches(<< >>, << >>, "none")
  BY DEF Matches
<1> QED BY <1>1, <1>2, <1>3, <1>4, <1>5

-------------------------------------------------------------------------------
(* Servlets and their threads *)

RequestInv == QuietInv /\ ChainInv /\ ContextInv

\* The worker that a loop over the threads of the servlet has come to.
LEMMA CurrentWorker ==
    ASSUME TypeInv, OwnInv, next <= Len(servlet.threads)
    PROVE  Current = next /\ next \in Workers /\ next + 1 \in 1 .. MaxThreads + 1
<1>1. next \in 1 .. Len(servlet.threads)
  BY DEF TypeInv, TypeOK
<1>2. servlet.threads[next] \in Workers /\ servlet.threads[next] = next
  BY <1>1 DEF TypeInv, OwnInv, Servlets
<1>3. MaxThreads \in Nat
  BY LifeAssumption
<1> QED BY <1>2, <1>3 DEF Current, Workers

\* Main is not one of the workers.
LEMMA MainApart == Main \notin Workers /\ Main \in Threads /\ Workers \subseteq Threads
  BY LifeAssumption DEF Main, Workers, Threads

\* The types of the calls, the contexts and the keys of start functions.
RequestTypes ==
    /\ call \in [Threads -> Seq(CallRecords)]
    /\ context \in [Threads -> Seq(Contexts)]
    /\ local \in [Threads -> Keys \cup {"none"}]

\* What TypeOK says of calls and contexts is what their types say.
LEMMA TypesOfRequests ==
    ASSUME RequestTypes
    PROVE  /\ \A t \in Threads : \A i \in 1 .. Len(call[t]) :
                  /\ call[t][i].filter \in Nat
                  /\ call[t][i].pushed \in Keys \cup {"none"}
           /\ \A t \in Threads : context[t] \in Seq([key : Keys, value : Nat])
  BY CallTypes DEF RequestTypes, Contexts

\* All types, the ones of the requests apart.
ProgramTypes ==
    /\ at \in {"idle", "starting", "serving", "joining", "crashed"}
    /\ next \in 1 .. MaxThreads + 1
    /\ made \in 0 .. MaxServlets
    /\ server \in {"none", "running", "stopped"}
    /\ servlet \in Servlets
    /\ object \in [Workers -> BOOLEAN]
    /\ pthread \in [Workers -> {"none", "running", "returned"}]
    /\ started \in [Threads -> BOOLEAN]
    /\ chain \in [Threads -> Chains \cup {0}]

\* The types are those of the program and those of the requests.
LEMMA TypesApart == TypeInv <=> ProgramTypes /\ RequestTypes
<1>1. TypeInv => ProgramTypes /\ RequestTypes
  BY DEF TypeInv, TypeOK, ProgramTypes, RequestTypes
<1>2. ProgramTypes /\ RequestTypes => TypeInv
  BY TypesOfRequests DEF TypeInv, TypeOK, ProgramTypes, RequestTypes, Servlets
<1> QED BY <1>1, <1>2

\* A servlet that is started once more, with threads q, keeps its type.
LEMMA StartsMore ==
    ASSUME NEW s \in Servlets, NEW q \in Seq(Workers)
    PROVE  [s EXCEPT !.threads = q, !.starts = @ + 1] \in Servlets
<1>1. s.starts + 1 \in Nat
  BY DEF Servlets
<1> QED BY <1>1 DEF Servlets

\* The calls of the program keep their types.
LEMMA ProgramStep ==
    ASSUME TypeInv, OwnInv,
           \/ NewServlet \/ Start
           \/ \E c \in Chains : SetFilterChain(c)
           \/ Stop \/ Delete \/ Join \/ DeleteServer
    PROVE  ProgramTypes'
<1> USE LifeAssumption, MainApart
    DEF ProgramTypes, threadVars, requestVars
<1>0. ProgramTypes
  BY TypesApart
<1>1. CASE NewServlet
  <2>1. servlet' = [exists |-> TRUE, threads |-> << >>, chain |-> 0, starts |-> 0]
    BY <1>1 DEF NewServlet, NoServlet
  <2>2. servlet' \in Servlets
    BY <2>1 DEF Servlets
  <2> QED BY <1>0, <1>1, <2>2 DEF NewServlet
<1>2. ASSUME NEW c \in Chains, SetFilterChain(c)
      PROVE  ProgramTypes'
  BY <1>0, <1>2 DEF SetFilterChain, Servlets
<1>3. ASSUME NEW n \in 0 .. MaxThreads, StartNew(n)
      PROVE  ProgramTypes'
  <2> DEFINE q == [i \in 1 .. n |-> i]
  <2>1. q \in Seq(Workers)
    BY DEF Workers
  <2>2. servlet' = [servlet EXCEPT !.threads = q, !.starts = @ + 1]
    BY <1>3 DEF StartNew
  <2> HIDE DEF q
  <2>3. servlet' \in Servlets
    BY <1>0, <2>1, <2>2, StartsMore
  <2>4. object' \in [Workers -> BOOLEAN]
    BY <1>3 DEF StartNew
  <2>5. chain' \in [Threads -> Chains \cup {0}]
    BY <1>0, <1>3 DEF StartNew, Servlets
  <2> QED BY <1>0, <1>3, <2>3, <2>4, <2>5 DEF StartNew
<1>4. CASE StartAgain
  <2>1. servlet' = [servlet EXCEPT !.threads = servlet.threads, !.starts = @ + 1]
    BY <1>0, <1>4 DEF StartAgain, Servlets
  <2>2. servlet.threads \in Seq(Workers)
    BY <1>0 DEF Servlets
  <2>3. servlet' \in Servlets
    BY <1>0, <2>1, <2>2, StartsMore
  <2> QED BY <1>0, <1>4, <2>3 DEF StartAgain
<1>10. CASE StartUnlinked \/ StartThreadFails \/ SkipMain
  BY <1>0, <1>10 DEF StartUnlinked, StartThreadFails, SkipMain
<1>5. CASE SkipStarted \/ StartThread
  <2>1. Current = next /\ next \in Workers /\ next + 1 \in 1 .. MaxThreads + 1
    BY <1>5, CurrentWorker DEF SkipStarted, StartThread, Starting
  <2> QED BY <1>0, <1>5, <2>1 DEF SkipStarted, StartThread
<1>6. CASE StartMain
  BY <1>0, <1>6 DEF StartMain, Servlets
<1>7. CASE Stop \/ Delete
  BY <1>0, <1>7 DEF Stop, Delete
<1>8. CASE Join
  <2>1. Current = next /\ next \in Workers /\ next + 1 \in 1 .. MaxThreads + 1
    BY <1>8, CurrentWorker DEF Join
  <2> QED BY <1>0, <1>8, <2>1 DEF Join
<1>9. CASE DeleteServer
  <2>1. servlet' = [exists |-> FALSE, threads |-> << >>, chain |-> 0, starts |-> 0]
    BY <1>9 DEF DeleteServer, NoServlet
  <2>2. servlet' \in Servlets
    BY <2>1 DEF Servlets
  <2> QED BY <1>0, <1>9, <2>2 DEF DeleteServer
<1> QED BY <1>1, <1>2, <1>3, <1>4, <1>5, <1>6, <1>7, <1>8, <1>9, <1>10 DEF Start

\* The calls of the program keep the servlet in charge of its threads.
LEMMA ProgramOwns ==
    ASSUME TypeInv, OwnInv,
           \/ NewServlet \/ Start
           \/ \E c \in Chains : SetFilterChain(c)
           \/ Stop \/ Delete \/ Join \/ DeleteServer
    PROVE  OwnInv'
<1> USE MainApart DEF threadVars
<1>0. ProgramTypes /\ \A w \in Workers : w \in Nat \ {0}
  BY TypesApart DEF Workers
<1>1. CASE NewServlet
  <2>1. servlet' = [exists |-> TRUE, threads |-> << >>, chain |-> 0, starts |-> 0]
    BY <1>1 DEF NewServlet, NoServlet
  <2> QED BY <1>0, <1>1, <2>1 DEF NewServlet, OwnInv
<1>2. ASSUME NEW c \in Chains, SetFilterChain(c)
      PROVE  OwnInv'
  <2>1. servlet'.threads = servlet.threads /\ servlet'.exists = servlet.exists
    BY <1>0, <1>2 DEF SetFilterChain, ProgramTypes, Servlets
  <2> QED BY <1>2, <2>1 DEF SetFilterChain, OwnInv
<1>3. ASSUME NEW n \in 0 .. MaxThreads, StartNew(n)
      PROVE  OwnInv'
  <2>1. /\ servlet'.threads = [i \in 1 .. n |-> i]
        /\ servlet'.exists
        /\ Len(servlet'.threads) = n
    BY <1>0, <1>3 DEF StartNew, Startable, ProgramTypes
  <2>2. \A w \in Workers : ~object[w] /\ ~started[w]
    BY <1>0, <1>3 DEF StartNew, Startable, OwnInv
  <2>3. /\ \A w \in Workers : object'[w] <=> w <= n
        /\ at' = "starting"
        /\ UNCHANGED <<server, pthread, started>>
    BY <1>3 DEF StartNew
  <2>4. server # "none"
    BY <1>3 DEF StartNew, Startable, OwnInv
  <2> QED BY <2>1, <2>2, <2>3, <2>4 DEF OwnInv
<1>4. CASE StartAgain
  <2>1. servlet'.threads = servlet.threads /\ servlet'.exists = servlet.exists
    BY <1>0, <1>4 DEF StartAgain, ProgramTypes
  <2> QED BY <1>4, <2>1 DEF StartAgain, Startable, OwnInv
<1>5. CASE StartUnlinked \/ SkipStarted \/ StartThreadFails \/ SkipMain
  BY <1>5 DEF StartUnlinked, Startable, SkipStarted, Starting, StartThreadFails,
              SkipMain, MainTurn, OwnInv
<1>6. CASE StartThread
  <2>1. Current = next /\ next \in Workers /\ next <= Len(servlet.threads)
    BY <1>6, CurrentWorker DEF StartThread, Starting
  <2>2. /\ started' = [started EXCEPT ![next] = TRUE]
        /\ pthread' = [pthread EXCEPT ![next] = "running"]
        /\ at = "starting"
        /\ UNCHANGED <<at, server, servlet, object>>
    BY <1>6, <2>1 DEF StartThread, Starting
  <2>3. /\ started'[next] /\ pthread'[next] = "running"
        /\ \A w \in Workers : w # next => started'[w] = started[w] /\ pthread'[w] = pthread[w]
    BY <1>0, <2>1, <2>2 DEF ProgramTypes
  <2>4. object[next]
    BY <2>1, <2>2 DEF OwnInv
  <2> QED BY <2>2, <2>3, <2>4 DEF OwnInv
<1>7. CASE StartMain
  <2>1. /\ started' = [started EXCEPT ![Main] = TRUE]
        /\ at = "starting" /\ at' = "serving"
        /\ UNCHANGED <<server, servlet, object, pthread>>
    BY <1>7 DEF StartMain, MainTurn
  <2>2. \A w \in Workers : started'[w] = started[w]
    BY <1>0, <2>1 DEF ProgramTypes
  <2> QED BY <2>1, <2>2 DEF OwnInv
<1>8. CASE Stop \/ Delete
  BY <1>0, <1>8 DEF Stop, Delete, OwnInv
<1>9. CASE Join
  <2>1. Current = next /\ next \in Workers /\ next <= Len(servlet.threads)
    BY <1>9, CurrentWorker DEF Join
  <2>2. /\ object' = [object EXCEPT ![next] = FALSE]
        /\ started' = [started EXCEPT ![next] = FALSE]
        /\ pthread' = [pthread EXCEPT ![next] =
                           IF started[next] /\ @ = "returned" THEN "none" ELSE @]
        /\ started[next] => pthread[next] = "returned"
        /\ at = "joining" /\ next' = next + 1
        /\ UNCHANGED <<at, server, servlet>>
    BY <1>9, <2>1 DEF Join, Joinable
  <2>3. started[next] <=> pthread[next] # "none"
    BY <2>1 DEF OwnInv
  <2>4. /\ ~object'[next] /\ ~started'[next] /\ pthread'[next] = "none"
        /\ \A w \in Workers : w # next => /\ object'[w] = object[w]
                                          /\ started'[w] = started[w]
                                          /\ pthread'[w] = pthread[w]
    BY <1>0, <2>1, <2>2, <2>3 DEF ProgramTypes
  <2>5. \A w \in Workers : object'[w] <=> w <= Len(servlet.threads) /\ w >= next + 1
    BY <1>0, <2>1, <2>2, <2>4 DEF OwnInv, ProgramTypes
  <2> QED BY <2>2, <2>4, <2>5 DEF OwnInv
<1>10. CASE DeleteServer
  <2>1. servlet' = [exists |-> FALSE, threads |-> << >>, chain |-> 0, starts |-> 0]
    BY <1>10 DEF DeleteServer, NoServlet
  <2>2. \A w \in Workers : ~object[w]
    BY <1>0, <1>10 DEF DeleteServer, OwnInv, ProgramTypes
  <2> QED BY <1>0, <1>10, <2>1, <2>2 DEF DeleteServer, OwnInv
<1> QED BY <1>1, <1>2, <1>3, <1>4, <1>5, <1>6, <1>7, <1>8, <1>9, <1>10 DEF Start

\* A chain has a natural number of filters.
LEMMA ChainTypes ==
    ASSUME NEW f \in [Threads -> Chains \cup {0}], NEW t \in Threads
    PROVE  f[t] \in Nat
<1>1. f[t] \in Chains \cup {0}
  OBVIOUS
<1>2. \A n \in Chains : n \in Nat
  BY LifeAssumption
<1> QED BY <1>1, <1>2

\* A chain of any length is in order while no filter is called.
LEMMA NoCallInOrder == \A n \in Nat : InOrder(<< >>, n)
  BY DEF InOrder

\* A call of the program that starts no thread leaves the requests alone.
LEMMA RequestFrame ==
    ASSUME TypeInv, RequestInv, ProgramTypes', UNCHANGED requestVars,
           \A t \in Threads : Inside(t) => Inside(t)' /\ chain'[t] = chain[t]
    PROVE  RequestTypes' /\ RequestInv'
<1>1. RequestTypes'
  BY TypesApart DEF RequestTypes, requestVars
<1>2. QuietInv'
  BY DEF RequestInv, QuietInv, requestVars
<1>3. ASSUME NEW t \in Threads
      PROVE  InOrder(call'[t], chain'[t])
  <2>1. CASE Inside(t)
    <3>1. chain'[t] = chain[t] /\ call'[t] = call[t]
      BY <2>1 DEF requestVars
    <3> QED BY <3>1 DEF RequestInv, ChainInv
  <2>2. CASE ~Inside(t)
    <3>1. call'[t] = << >>
      BY <2>2 DEF RequestInv, QuietInv, requestVars
    <3>2. chain'[t] \in Nat
      BY ChainTypes DEF ProgramTypes
    <3> QED BY <3>1, <3>2, NoCallInOrder
  <2> QED BY <2>1, <2>2
<1>4. ContextInv'
  BY DEF RequestInv, ContextInv, requestVars
<1> QED BY <1>1, <1>2, <1>3, <1>4 DEF RequestInv, ChainInv

\* A thread that starts has no request yet, and a context of its own or none.
LEMMA RequestBegins ==
    ASSUME TypeInv, RequestInv, ProgramTypes', UNCHANGED call,
           NEW b \in Threads, ~Inside(b), Inside(b)', RunsWith(b),
           \A t \in Threads \ {b} : Inside(t) => Inside(t)' /\ chain'[t] = chain[t]
    PROVE  RequestTypes' /\ RequestInv'
<1>1. call[b] = << >> /\ context[b] = << >> /\ local[b] = "none"
  BY DEF RequestInv, QuietInv
<1>2. RequestTypes
  BY TypesApart
<1>3. PICK k \in Keys \cup {"none"}, x \in Seq(Contexts) :
          /\ local' = [local EXCEPT ![b] = k]
          /\ context' = [context EXCEPT ![b] = x]
          /\ Matches(x, << >>, k)
  <2>1. CASE UNCHANGED <<context, local>>
    <3>1. local' = [local EXCEPT ![b] = "none"] /\ context' = [context EXCEPT ![b] = << >>]
      BY <1>1, <1>2, <2>1 DEF RequestTypes
    <3>2. << >> \in Seq(Contexts) /\ Matches(<< >>, << >>, "none")
      BY DEF Matches
    <3> QED BY <3>1, <3>2
  <2>2. CASE \E k \in Keys : /\ local' = [local EXCEPT ![b] = k]
                             /\ context' = [context EXCEPT ![b] = Pushed(@, k, 0)]
    <3>1. PICK k \in Keys : /\ local' = [local EXCEPT ![b] = k]
                            /\ context' = [context EXCEPT ![b] = Pushed(context[b], k, 0)]
      BY <2>2
    <3>2. /\ Pushed(<< >>, k, 0) \in Seq(Contexts)
          /\ Matches(Pushed(<< >>, k, 0), << >>, k)
      BY BeginMatches
    <3>3. context' = [context EXCEPT ![b] = Pushed(<< >>, k, 0)]
      BY <1>1, <3>1
    <3> QED BY <3>1, <3>2, <3>3
  <2> QED BY <2>1, <2>2 DEF RunsWith
<1>4. /\ local'[b] = k /\ context'[b] = x
      /\ \A t \in Threads \ {b} : local'[t] = local[t] /\ context'[t] = context[t]
  BY <1>2, <1>3 DEF RequestTypes
<1>5. RequestTypes'
  BY <1>2, <1>3 DEF RequestTypes
<1>6. QuietInv'
  <2> SUFFICES ASSUME NEW t \in Threads, ~Inside(t)'
               PROVE  call'[t] = << >> /\ context'[t] = << >> /\ local'[t] = "none"
    BY DEF QuietInv
  <2>1. t # b
    OBVIOUS
  <2>2. ~Inside(t)
    BY <2>1
  <2> QED BY <1>4, <2>1, <2>2 DEF RequestInv, QuietInv
<1>7. ASSUME NEW t \in Threads
      PROVE  InOrder(call'[t], chain'[t])
  <2>1. CASE t # b /\ Inside(t)
    <3>1. chain'[t] = chain[t] /\ call'[t] = call[t]
      BY <2>1
    <3> QED BY <3>1 DEF RequestInv, ChainInv
  <2>2. CASE t = b \/ ~Inside(t)
    <3>1. call'[t] = << >>
      BY <1>1, <2>2 DEF RequestInv, QuietInv
    <3>2. chain'[t] \in Nat
      BY ChainTypes DEF ProgramTypes
    <3> QED BY <3>1, <3>2, NoCallInOrder
  <2> QED BY <2>1, <2>2
<1>8. ASSUME NEW t \in Threads
      PROVE  Matches(context'[t], call'[t], local'[t])
  <2>1. CASE t = b
    BY <1>1, <1>3, <1>4, <2>1
  <2>2. CASE t # b
    BY <1>4, <2>2 DEF RequestInv, ContextInv
  <2> QED BY <2>1, <2>2
<1> QED BY <1>5, <1>6, <1>7, <1>8 DEF RequestInv, ChainInv, ContextInv

\* The calls of the program keep what is said of the requests.
LEMMA ProgramRequests ==
    ASSUME TypeInv, OwnInv, RequestInv,
           \/ NewServlet \/ Start
           \/ \E c \in Chains : SetFilterChain(c)
           \/ Stop \/ Delete \/ Join \/ DeleteServer
    PROVE  RequestTypes' /\ RequestInv'
<1> USE MainApart DEF threadVars
<1>0. ProgramTypes /\ ProgramTypes'
  BY TypesApart, ProgramStep
<1>1. CASE \/ NewServlet
           \/ \E c \in Chains : SetFilterChain(c)
           \/ Stop \/ Delete \/ DeleteServer
           \/ StartAgain \/ StartUnlinked \/ SkipStarted \/ StartThreadFails \/ SkipMain
  <2>1. UNCHANGED <<pthread, chain>> /\ UNCHANGED requestVars
    BY <1>1 DEF NewServlet, SetFilterChain, Stop, Delete, DeleteServer, StartAgain,
                StartUnlinked, SkipStarted, StartThreadFails, SkipMain
  <2>2. at = "serving" => at' = "serving"
    BY <1>1 DEF NewServlet, SetFilterChain, Stop, Delete, DeleteServer, StartAgain,
                StartUnlinked, SkipStarted, StartThreadFails, SkipMain,
                Startable, Starting, MainTurn
  <2>3. \A t \in Threads : Inside(t) => Inside(t)' /\ chain'[t] = chain[t]
    BY <2>1, <2>2 DEF Inside
  <2> QED BY <1>0, <2>1, <2>3, RequestFrame
<1>2. ASSUME NEW n \in 0 .. MaxThreads, StartNew(n)
      PROVE  RequestTypes' /\ RequestInv'
  <2>1. /\ at = "idle" /\ servlet.threads = << >> /\ at' = "starting"
        /\ \A t \in Threads : t \notin 1 .. n => chain'[t] = chain[t]
        /\ UNCHANGED pthread /\ UNCHANGED requestVars
    BY <1>2 DEF StartNew, Startable
  <2>2. \A t \in Threads : t \in 1 .. n => t \in Workers /\ t # Main
    BY LifeAssumption DEF Workers, Main
  <2>3. \A w \in Workers : pthread[w] = "none"
    BY <2>1 DEF OwnInv, Workers
  <2>4. \A t \in Threads : ~Inside(t)
    BY <2>1, <2>3 DEF Inside, Threads
  <2> QED BY <1>0, <2>1, <2>4, RequestFrame
<1>3. CASE StartThread
  <2>1. Current = next /\ next \in Workers
    BY <1>3, CurrentWorker DEF StartThread, Starting
  <2>2. PICK b \in Workers : b = next
    BY <2>1
  <2>3. /\ at = "starting" /\ at' = at /\ UNCHANGED <<chain, call>>
        /\ ~started[b] /\ pthread' = [pthread EXCEPT ![b] = "running"]
        /\ RunsWith(b)
    BY <1>3, <2>1, <2>2 DEF StartThread, Starting
  <2>4. b \in Threads /\ b # Main
    OBVIOUS
  <2>5. pthread[b] = "none" /\ pthread'[b] = "running"
    BY <1>0, <2>3 DEF OwnInv, ProgramTypes
  <2>6. ~Inside(b) /\ Inside(b)'
    BY <2>4, <2>5 DEF Inside
  <2>7. \A t \in Threads \ {b} : Inside(t) => Inside(t)' /\ chain'[t] = chain[t]
    <3>1. \A w \in Workers : w # b => pthread'[w] = pthread[w]
      BY <1>0, <2>3 DEF ProgramTypes
    <3> QED BY <2>3, <3>1 DEF Inside, Threads
  <2> QED BY <1>0, <2>3, <2>4, <2>6, <2>7, RequestBegins
<1>4. CASE StartMain
  <2>1. /\ at = "starting" /\ at' = "serving" /\ UNCHANGED <<pthread, call>>
        /\ chain' = [chain EXCEPT ![Main] = servlet.chain]
        /\ RunsWith(Main)
    BY <1>4 DEF StartMain, MainTurn
  <2>2. ~Inside(Main) /\ Inside(Main)'
    BY <2>1 DEF Inside
  <2>3. \A t \in Threads \ {Main} : Inside(t) => Inside(t)' /\ chain'[t] = chain[t]
    BY <1>0, <2>1 DEF Inside, ProgramTypes
  <2> QED BY <1>0, <2>1, <2>2, <2>3, RequestBegins
<1>5. CASE Join
  <2>1. Current = next /\ next \in Workers
    BY <1>5, CurrentWorker DEF Join
  <2>2. /\ at = "joining" /\ at' = at /\ UNCHANGED chain /\ UNCHANGED requestVars
        /\ pthread' = [pthread EXCEPT ![next] =
                           IF started[next] /\ @ = "returned" THEN "none" ELSE @]
    BY <1>5, <2>1 DEF Join
  <2>3. \A w \in Workers : pthread[w] = "running" => pthread'[w] = "running"
    BY <1>0, <2>1, <2>2 DEF ProgramTypes
  <2>4. \A t \in Threads : Inside(t) => Inside(t)' /\ chain'[t] = chain[t]
    BY <2>2, <2>3 DEF Inside, Threads
  <2> QED BY <1>0, <2>2, <2>4, RequestFrame
<1> QED BY <1>1, <1>2, <1>3, <1>4, <1>5 DEF Start

-------------------------------------------------------------------------------
(* What a thread does *)

\* Only ThreadReturns touches the servlet and its threads, and only pthread.
LEMMA ServeOwns ==
    ASSUME TypeInv, OwnInv, NEW t \in Threads, Serve(t)
    PROVE  ProgramTypes' /\ OwnInv'
<1> USE MainApart DEF threadVars
<1>0. ProgramTypes
  BY TypesApart
<1>1. CASE ThreadReturns(t)
  <2>1. /\ Running(t) /\ UNCHANGED <<next, made, server, servlet, object, started, chain>>
        /\ IF t = Main THEN at' = "idle" /\ UNCHANGED pthread
           ELSE pthread' = [pthread EXCEPT ![t] = "returned"] /\ UNCHANGED at
    BY <1>1 DEF ThreadReturns
  <2>2. CASE t = Main
    <3>1. at' = "idle" /\ UNCHANGED pthread
      BY <2>1, <2>2
    <3>2. at = "serving"
      BY <2>1, <2>2 DEF Running
    <3>3. ProgramTypes'
      BY <1>0, <2>1, <3>1 DEF ProgramTypes
    <3>4. OwnInv'
      BY <2>1, <3>1, <3>2 DEF OwnInv
    <3> QED BY <3>3, <3>4
  <2>3. CASE t # Main
    <3>1. t \in Workers /\ pthread[t] = "running"
      BY <2>1, <2>3 DEF Running, Threads
    <3>2. /\ pthread'[t] = "returned"
          /\ \A w \in Workers : w # t => pthread'[w] = pthread[w]
      BY <1>0, <2>1, <2>3, <3>1 DEF ProgramTypes
    <3>3. ProgramTypes'
      BY <1>0, <2>1, <2>3 DEF ProgramTypes
    <3>4. OwnInv'
      BY <2>1, <2>3, <3>1, <3>2 DEF OwnInv
    <3> QED BY <3>3, <3>4
  <2> QED BY <2>2, <2>3
<1>2. CASE \/ Request(t) \/ ChainNext(t) \/ ContextPop(t) \/ Return(t)
           \/ \E k \in Keys : ContextPush(t, k)
  <2>1. UNCHANGED <<at, next, made, server, servlet, object, pthread, started, chain>>
    BY <1>2 DEF Request, ChainNext, ContextPush, ContextPop, Return
  <2> QED BY <1>0, <2>1 DEF ProgramTypes, OwnInv
<1> QED BY <1>1, <1>2 DEF Serve

\* A step of t that gives it the calls c, the contexts x and the key l.
LEMMA ServeFrame ==
    ASSUME TypeInv, RequestInv, UNCHANGED chain, NEW t \in Threads,
           NEW c \in Seq(CallRecords), NEW x \in Seq(Contexts), NEW l \in Keys \cup {"none"},
           call' = [call EXCEPT ![t] = c],
           context' = [context EXCEPT ![t] = x],
           local' = [local EXCEPT ![t] = l],
           InOrder(c, chain[t]), Matches(x, c, l),
           \A u \in Threads \ {t} : Inside(u) => Inside(u)',
           Inside(t)' \/ (c = << >> /\ x = << >> /\ l = "none")
    PROVE  RequestTypes' /\ RequestInv'
<1>1. RequestTypes
  BY TypesApart
<1>2. /\ call'[t] = c /\ context'[t] = x /\ local'[t] = l
      /\ \A u \in Threads \ {t} : /\ call'[u] = call[u]
                                  /\ context'[u] = context[u]
                                  /\ local'[u] = local[u]
  BY <1>1 DEF RequestTypes
<1>3. RequestTypes'
  BY <1>1 DEF RequestTypes
<1>4. QuietInv'
  <2> SUFFICES ASSUME NEW u \in Threads, ~Inside(u)'
               PROVE  call'[u] = << >> /\ context'[u] = << >> /\ local'[u] = "none"
    BY DEF QuietInv
  <2>1. CASE u = t
    BY <1>2, <2>1
  <2>2. CASE u # t
    <3>1. ~Inside(u)
      BY <2>2
    <3> QED BY <1>2, <2>2, <3>1 DEF RequestInv, QuietInv
  <2> QED BY <2>1, <2>2
<1>5. ASSUME NEW u \in Threads
      PROVE  InOrder(call'[u], chain'[u]) /\ Matches(context'[u], call'[u], local'[u])
  <2>1. CASE u = t
    BY <1>2, <2>1
  <2>2. CASE u # t
    BY <1>2, <2>2 DEF RequestInv, ChainInv, ContextInv
  <2> QED BY <2>1, <2>2
<1> QED BY <1>3, <1>4, <1>5 DEF RequestInv, ChainInv, ContextInv

\* What a thread does keeps what is said of the requests.
LEMMA ServeRequests ==
    ASSUME TypeInv, OwnInv, RequestInv, NEW t \in Threads, Serve(t)
    PROVE  RequestTypes' /\ RequestInv'
<1> USE MainApart DEF threadVars
<1>0. ProgramTypes /\ RequestTypes
  BY TypesApart
<1>1. PICK c \in Seq(CallRecords), x \in Seq(Contexts), l \in Keys \cup {"none"},
           n \in Nat :
          /\ c = call[t] /\ x = context[t] /\ l = local[t] /\ n = chain[t]
          /\ InOrder(c, n) /\ Matches(x, c, l)
  <2>1. call[t] \in Seq(CallRecords) /\ context[t] \in Seq(Contexts)
    BY <1>0 DEF RequestTypes
  <2>2. local[t] \in Keys \cup {"none"}
    BY <1>0 DEF RequestTypes
  <2>3. chain[t] \in Nat
    BY <1>0, ChainTypes DEF ProgramTypes
  <2> QED BY <2>1, <2>2, <2>3 DEF RequestInv, ChainInv, ContextInv
<1>2. /\ call = [call EXCEPT ![t] = c]
      /\ context = [context EXCEPT ![t] = x]
      /\ local = [local EXCEPT ![t] = l]
  BY <1>0, <1>1 DEF RequestTypes
<1>3. CASE ThreadReturns(t)
  <2>1. /\ c = << >> /\ UNCHANGED <<call, chain>> /\ StartDone(t)
        /\ IF t = Main THEN at' = "idle" /\ UNCHANGED pthread
           ELSE pthread' = [pthread EXCEPT ![t] = "returned"] /\ UNCHANGED at
    BY <1>1, <1>3 DEF ThreadReturns
  <2>2. (l = "none" => x = << >>) /\ Popped(x) = << >>
    BY <1>1, <2>1, LeftMatches
  <2>3. context' = [context EXCEPT ![t] = << >>]
    <3>1. CASE l = "none" /\ UNCHANGED context
      BY <1>2, <2>2, <3>1
    <3>2. CASE context' = [context EXCEPT ![t] = Popped(@)]
      <4>1. context' = [context EXCEPT ![t] = Popped(context[t])]
        BY <3>2
      <4> QED BY <1>1, <2>2, <4>1
    <3> QED BY <1>1, <2>1, <3>1, <3>2 DEF StartDone
  <2>4. local' = [local EXCEPT ![t] = "none"]
    BY <2>1 DEF StartDone
  <2>5. \A u \in Threads \ {t} : Inside(u) => Inside(u)'
    BY <1>0, <2>1 DEF Inside, ProgramTypes, Threads
  <2>6. << >> \in Seq(Contexts) /\ Matches(<< >>, << >>, "none")
    BY DEF Matches
  <2> QED BY <1>1, <1>2, <2>1, <2>3, <2>4, <2>5, <2>6, ServeFrame
<1>4. ASSUME \/ Request(t) \/ ChainNext(t) \/ ContextPop(t) \/ Return(t)
             \/ \E k \in Keys : ContextPush(t, k)
      PROVE  /\ Inside(t)' /\ UNCHANGED <<chain, local>>
             /\ \A u \in Threads \ {t} : Inside(u) => Inside(u)'
  <2>1. Running(t) /\ UNCHANGED <<at, pthread, chain, local>>
    BY <1>4 DEF Request, ChainNext, ContextPush, ContextPop, Return, InCall
  <2> QED BY <2>1 DEF Running, Inside
<1>5. CASE Request(t) \/ ChainNext(t)
  <2>1. PICK k \in Nat :
            /\ call' = [call EXCEPT ![t] = <<Called(k)>> \o c]
            /\ InOrder(<<Called(k)>> \o c, n)
    <3>1. CASE Request(t)
      <4>1. PICK k \in {0, 1} : k = IF n > 0 THEN 1 ELSE 0
        OBVIOUS
      <4>2. c = << >> /\ call' = [call EXCEPT ![t] = <<Called(k)>>]
        BY <1>1, <3>1, <4>1 DEF Request
      <4>3. <<Called(k)>> \o << >> = <<Called(k)>>
        OBVIOUS
      <4>4. InOrder(<<Called(k)>> \o c, n)
        BY <1>1, <4>1, <4>2, NextInOrder
      <4> QED BY <4>1, <4>2, <4>3, <4>4
    <3>2. CASE ChainNext(t)
      <4>1. c # << >> /\ Head(c).filter > 0
        BY <1>1, <3>2 DEF ChainNext, InCall
      <4>2. Head(c) = c[1] /\ c[1].filter \in Nat
        <5>1. Head(c) = c[1] /\ 1 \in 1 .. Len(c)
          BY <4>1, Behead
        <5> QED BY <5>1, CallTypes
      <4>3. PICK k \in Nat : k = IF c[1].filter < n THEN c[1].filter + 1 ELSE 0
        BY <4>2
      <4>4. call' = [call EXCEPT ![t] = <<Called(k)>> \o call[t]]
        BY <1>1, <3>2, <4>2, <4>3 DEF ChainNext, NextFilter
      <4>5. InOrder(<<Called(k)>> \o c, n)
        BY <1>1, <4>1, <4>2, <4>3, NextInOrder
      <4> QED BY <1>1, <4>4, <4>5
    <3> QED BY <1>5, <3>1, <3>2
  <2>2. Matches(x, <<Called(k)>> \o c, l)
    BY <1>1, CallMatches
  <2>3. <<Called(k)>> \o c \in Seq(CallRecords)
    <3>1. Called(k) \in CallRecords
      BY DEF Called, CallRecords
    <3> QED BY <3>1, Prepend
  <2>4. UNCHANGED context
    BY <1>5 DEF Request, ChainNext
  <2> QED BY <1>1, <1>2, <1>4, <1>5, <2>1, <2>2, <2>3, <2>4, ServeFrame
<1>6. ASSUME NEW k \in Keys, ContextPush(t, k)
      PROVE  RequestTypes' /\ RequestInv'
  <2>1. c # << >> /\ Head(c).pushed = "none"
    BY <1>1, <1>6 DEF ContextPush, InCall
  <2>2. Head(c) = c[1]
    BY <2>1, Behead
  <2> DEFINE d == [c EXCEPT ![1].pushed = k]
             y == Pushed(x, k, Len(c))
  <2>3. y \in Seq(Contexts) /\ Matches(y, d, l)
    BY <1>1, <2>1, <2>2, PushMatches
  <2>4. d \in Seq(CallRecords) /\ InOrder(d, n)
    BY <1>1, <2>1, MarkedInOrder
  <2>5. call' = [call EXCEPT ![t] = d] /\ context' = [context EXCEPT ![t] = y]
    BY <1>0, <1>1, <1>6 DEF ContextPush, RequestTypes
  <2> HIDE DEF d, y
  <2> QED BY <1>1, <1>2, <1>4, <1>6, <2>3, <2>4, <2>5, ServeFrame
<1>7. CASE ContextPop(t)
  <2>1. c # << >> /\ Head(c).pushed # "none"
    BY <1>1, <1>7 DEF ContextPop, InCall
  <2>2. Head(c) = c[1]
    BY <2>1, Behead
  <2> DEFINE d == [c EXCEPT ![1].pushed = "none"]
             y == Popped(x)
  <2>3. y \in Seq(Contexts) /\ Matches(y, d, l)
    BY <1>1, <2>1, <2>2, PopMatches
  <2>4. d \in Seq(CallRecords) /\ InOrder(d, n)
    BY <1>1, <2>1, MarkedInOrder
  <2>5. call' = [call EXCEPT ![t] = d] /\ context' = [context EXCEPT ![t] = y]
    BY <1>0, <1>1, <1>7 DEF ContextPop, RequestTypes
  <2> HIDE DEF d, y
  <2> QED BY <1>1, <1>2, <1>4, <1>7, <2>3, <2>4, <2>5, ServeFrame
<1>8. CASE Return(t)
  <2>1. /\ c # << >> /\ Head(c).pushed = "none" /\ UNCHANGED context
        /\ call' = [call EXCEPT ![t] = Tail(c)]
    BY <1>1, <1>8 DEF Return, InCall
  <2>2. Head(c) = c[1] /\ Tail(c) \in Seq(CallRecords)
    BY <2>1, Behead
  <2>3. InOrder(Tail(c), n) /\ Matches(x, Tail(c), l)
    BY <1>1, <2>1, <2>2, ReturnInOrder, ReturnMatches
  <2>4. PICK d \in Seq(CallRecords) : d = Tail(c)
    BY <2>2
  <2>5. context' = [context EXCEPT ![t] = x] /\ local' = [local EXCEPT ![t] = l]
    BY <1>2, <1>4, <1>8, <2>1
  <2> QED BY <1>1, <1>4, <1>8, <2>1, <2>3, <2>4, <2>5, ServeFrame
<1> QED BY <1>3, <1>5, <1>6, <1>7, <1>8 DEF Serve

-------------------------------------------------------------------------------
(* The theorems *)

\* Nothing runs at first.
LEMMA InitIInv == Init => IInv
<1> SUFFICES ASSUME Init
             PROVE  IInv
  OBVIOUS
<1> USE LifeAssumption, MainApart DEF Init
<1>1. ProgramTypes
  <2>1. servlet = [exists |-> FALSE, threads |-> << >>, chain |-> 0, starts |-> 0]
    BY DEF NoServlet
  <2>2. servlet \in Servlets
    BY <2>1 DEF Servlets
  <2> QED BY <2>2 DEF ProgramTypes
<1>2. RequestTypes
  BY DEF RequestTypes
<1>3. OwnInv
  <2>1. servlet.threads = << >> /\ ~servlet.exists
    BY DEF NoServlet
  <2>2. \A w \in Workers : ~(w <= Len(servlet.threads)) /\ w \in Threads
    BY <2>1 DEF Workers
  <2> QED BY <2>1, <2>2 DEF OwnInv
<1>4. QuietInv
  BY DEF QuietInv
<1>5. ChainInv
  BY NoCallInOrder DEF ChainInv
<1>6. ContextInv
  BY DEF ContextInv, Matches
<1> QED BY <1>1, <1>2, <1>3, <1>4, <1>5, <1>6, TypesApart DEF IInv

\* Every call of the program and every step of a thread keeps the invariant.
LEMMA NextIInv == IInv /\ [Next]_vars => IInv'
<1> SUFFICES ASSUME IInv, [Next]_vars
             PROVE  IInv'
  OBVIOUS
<1>0. TypeInv /\ OwnInv /\ RequestInv
  BY DEF IInv, RequestInv
<1>1. ASSUME ProgramTypes', OwnInv', RequestTypes', RequestInv'
      PROVE  IInv'
  <2>1. TypeInv'
    BY <1>1, TypesApart, PTL
  <2> QED BY <1>1, <2>1 DEF IInv, RequestInv
<1>2. CASE \/ NewServlet \/ Start
           \/ \E c \in Chains : SetFilterChain(c)
           \/ Stop \/ Delete \/ Join \/ DeleteServer
  BY <1>0, <1>1, <1>2, ProgramStep, ProgramOwns, ProgramRequests
<1>3. ASSUME NEW t \in Threads, Serve(t)
      PROVE  IInv'
  BY <1>0, <1>1, <1>3, ServeOwns, ServeRequests
<1>4. CASE UNCHANGED vars
  <2>1. ProgramTypes' /\ RequestTypes'
    BY <1>0, <1>4, TypesApart DEF ProgramTypes, RequestTypes, vars
  <2>2. OwnInv'
    BY <1>0, <1>4 DEF OwnInv, vars
  <2>3. RequestInv'
    BY <1>0, <1>4 DEF RequestInv, QuietInv, ChainInv, ContextInv, Inside, vars
  <2> QED BY <1>1, <2>1, <2>2, <2>3
<1>5. CASE Next
  <2>1. CASE \E t \in Threads : Serve(t)
    BY <1>3, <2>1
  <2> QED BY <1>2, <1>5, <2>1 DEF Next
<1> QED BY <1>4, <1>5

\* The invariant holds for any number of threads, servlets and starts.
THEOREM LifeInvariant == Spec => []IInv
<1>1. Init => IInv
  BY InitIInv
<1>2. IInv /\ [Next]_vars => IInv'
  BY NextIInv
<1> QED BY <1>1, <1>2, PTL DEF Spec

\* A thread runs only while the program holds its objects, its servlet and its
\* server, and hiw_thread.started says of a worker that it is to be joined.
THEOREM LifeOwned == Spec => []RunningIsOwned
<1>1. IInv => RunningIsOwned
  <2> SUFFICES ASSUME IInv
               PROVE  RunningIsOwned
    OBVIOUS
  <2>1. TypeOK
    BY DEF IInv, TypeInv
  <2>2. WorkersOwned
    <3>1. ASSUME NEW w \in Workers, pthread[w] # "none"
          PROVE  object[w] /\ \E i \in 1 .. Len(servlet.threads) : servlet.threads[i] = w
      <4>1. object[w] /\ w <= Len(servlet.threads)
        BY <3>1 DEF IInv, OwnInv
      <4>2. w \in 1 .. Len(servlet.threads)
        BY <4>1 DEF Workers, IInv, TypeInv, Servlets
      <4> QED BY <4>1, <4>2 DEF IInv, OwnInv
    <3> QED BY <3>1 DEF WorkersOwned, IInv, OwnInv
  <2>3. ServerOutlivesThreads
    <3>1. \A w \in Workers : pthread[w] = "running" => servlet.exists
      BY <2>2 DEF WorkersOwned, IInv, OwnInv
    <3> QED BY <3>1 DEF ServerOutlivesThreads, IInv, OwnInv
  <2>4. StartedIsJoinable
    BY DEF StartedIsJoinable, IInv, OwnInv
  <2> QED BY <2>1, <2>2, <2>3, <2>4 DEF RunningIsOwned
<1> QED BY <1>1, LifeInvariant, PTL

\* hiw_filter_chain_next walks the chain that the thread was made with in order,
\* whatever is set for the servlet meanwhile, for chains of any length.
THEOREM LifeChainInOrder == Spec => []ChainInOrder
<1>1. IInv => ChainInOrder
  BY DEF IInv, ChainInv, InOrder, ChainInOrder
<1> QED BY <1>1, LifeInvariant, PTL

\* The calls that pushed k.
Pushers(c, k) == {i \in 1 .. Len(c) : c[i].pushed = k}

\* hiw_thread_context_find looks from the innermost context outwards. The values
\* fall on the way, so what it finds first for a key is what the innermost call
\* that pushed the key has pushed.
LEMMA FindMatches ==
    ASSUME NEW x \in Seq(Contexts), NEW c \in Seq(CallRecords),
           NEW l \in Keys \cup {"none"}, Matches(x, c, l), NEW k \in Keys
    PROVE  Find(x, k) = IF Pushers(c, k) # {} THEN Len(c) - Min(Pushers(c, k)) + 1
                        ELSE IF l = k THEN 0 ELSE Null
<1> DEFINE found == {i \in 1 .. Len(x) : x[i].key = k}
           pushers == Pushers(c, k)
<1>0. pushers = {i \in 1 .. Len(c) : c[i].pushed = k}
  BY DEF Pushers
<1>1. Len(x) \in Nat /\ Len(c) \in Nat /\ k # "none"
  BY LifeAssumption
<1>2. found \subseteq Nat /\ pushers \subseteq Nat
  BY <1>0, <1>1
<1>3. Find(x, k) = IF found = {} THEN Null ELSE x[Min(found)].value
  BY DEF Find
<1>4. \A i \in 1 .. Len(x) : /\ x[i].value \in Nat /\ x[i].value <= Len(c)
                             /\ x[i].key = IF x[i].value = 0 THEN l
                                           ELSE c[Len(c) - x[i].value + 1].pushed
  BY ContextTypes DEF Matches
<1>5. \A i \in found : /\ i \in 1 .. Len(x)
                       /\ x[i].value = 0 => l = k
                       /\ x[i].value # 0 => Len(c) - x[i].value + 1 \in pushers
  BY <1>0, <1>1, <1>4
<1>6. \A i \in pushers : \E j \in found : x[j].value = Len(c) - i + 1
  <2> SUFFICES ASSUME NEW i \in pushers
               PROVE  \E j \in found : x[j].value = Len(c) - i + 1
    OBVIOUS
  <2>1. PICK j \in 1 .. Len(x) : x[j].value = Len(c) - i + 1
    BY <1>0, <1>1 DEF Matches
  <2>2. Len(c) - i + 1 # 0 /\ Len(c) - (Len(c) - i + 1) + 1 = i
    BY <1>0, <1>1
  <2>3. x[j].key = k
    BY <1>0, <1>4, <2>1, <2>2
  <2> QED BY <2>1, <2>3
<1>7. \A i, j \in 1 .. Len(x) : j < i => x[j].value > x[i].value
  BY DEF Matches
<1> HIDE DEF found, pushers
<1>8. CASE pushers # {}
  <2>1. PICK p \in pushers : p = Min(pushers) /\ \A i \in pushers : p <= i
    BY <1>2, <1>8, MinOfNats
  <2>2. PICK j \in found : x[j].value = Len(c) - p + 1
    BY <1>6, <2>1
  <2>3. found # {}
    BY <2>2
  <2>4. PICK m \in found : m = Min(found) /\ \A i \in found : m <= i
    BY <1>2, <2>3, MinOfNats
  <2>5. m \in 1 .. Len(x) /\ j \in 1 .. Len(x) /\ m <= j
    BY <1>5, <2>4
  <2>6. x[m].value >= x[j].value
    BY <1>4, <1>7, <2>5
  <2>7. p \in Nat /\ p \in 1 .. Len(c)
    BY <1>0
  <2>8. x[m].value # 0
    BY <1>1, <1>4, <2>2, <2>5, <2>6, <2>7
  <2>9. p <= Len(c) - x[m].value + 1
    BY <1>5, <2>1, <2>8
  <2>10. x[m].value = Len(c) - p + 1
    BY <1>1, <1>4, <2>2, <2>5, <2>6, <2>7, <2>9
  <2> QED BY <1>3, <1>8, <2>1, <2>3, <2>4, <2>10 DEF pushers
<1>9. CASE pushers = {} /\ l = k
  <2>1. PICK j \in 1 .. Len(x) : x[j].value = 0
    BY <1>1, <1>9 DEF Matches
  <2>2. j \in found
    BY <1>4, <1>9, <2>1 DEF found
  <2>3. PICK m \in found : m = Min(found)
    BY <1>2, <2>2, MinOfNats
  <2>4. x[m].value = 0
    BY <1>5, <1>9
  <2> QED BY <1>3, <1>9, <2>2, <2>3, <2>4 DEF pushers
<1>10. CASE pushers = {} /\ l # k
  <2>1. found = {}
    BY <1>5, <1>10
  <2> QED BY <1>3, <1>10, <2>1 DEF pushers
<1> QED BY <1>8, <1>9, <1>10

\* A find gives what the innermost call in progress pushed for its key, or else
\* the start function, for any number of calls and contexts.
THEOREM LifeFindIsInnermost == Spec => []FindIsInnermost
<1>1. IInv => FindIsInnermost
  <2> SUFFICES ASSUME IInv, NEW t \in Threads, NEW k \in Keys
               PROVE  Find(context[t], k) =
                          IF Pushers(call[t], k) # {}
                          THEN Len(call[t]) - Min(Pushers(call[t], k)) + 1
                          ELSE IF local[t] = k THEN 0 ELSE Null
    BY DEF FindIsInnermost, Pushers
  <2>1. call[t] \in Seq(CallRecords) /\ context[t] \in Seq(Contexts)
    BY DEF IInv, TypeInv
  <2>2. local[t] \in Keys \cup {"none"}
    BY DEF IInv, TypeInv, TypeOK
  <2>3. Matches(context[t], call[t], local[t])
    BY DEF IInv, ContextInv
  <2>4. PICK c \in Seq(CallRecords), x \in Seq(Contexts), l \in Keys \cup {"none"} :
            c = call[t] /\ x = context[t] /\ l = local[t]
    BY <2>1, <2>2
  <2>5. Matches(x, c, l)
    BY <2>3, <2>4
  <2> QED BY <2>4, <2>5, FindMatches
<1> QED BY <1>1, LifeInvariant, PTL
================================================================================
