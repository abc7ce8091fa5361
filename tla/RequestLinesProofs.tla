--------------------------- MODULE RequestLinesProofs ---------------------------
(***************************************************************************)
(* Theorems about RequestLines, for every line that a client may send, of  *)
(* any length and of any characters, and every int of at most 32 bits.     *)
(***************************************************************************)
EXTENDS RequestLines, SequenceTheorems, FiniteSetTheorems,
        WellFoundedInduction, TLAPS

-------------------------------------------------------------------------------
(* Loops over characters *)

\* A set of natural numbers has a least element.
LEMMA LeastOf ==
    ASSUME NEW S, S \subseteq Nat, S # {}
    PROVE  \E x \in S : \A y \in S : x <= y
<1> DEFINE Less == OpToRel(<, Nat)
<1>1. IsWellFoundedOn(Less, Nat)
  BY NatLessThanWellFounded
<1>2. \A x, y \in Nat : x < y => <<x, y>> \in Less
  BY DEF OpToRel
<1> HIDE DEF Less
<1>3. PICK x \in S : \A y \in S : ~ (<<y, x>> \in Less)
  BY <1>1, WFMin
<1>4. ASSUME NEW y \in S
      PROVE  x <= y
  <2>1. x \in Nat /\ y \in Nat
    OBVIOUS
  <2>2. ~ (y < x)
    BY <1>2, <1>3, <2>1
  <2> QED BY <2>1, <2>2
<1> QED BY <1>4

\* A bounded one has a greatest.
LEMMA GreatestOf ==
    ASSUME NEW n \in Nat, NEW S, S \subseteq 0 .. n, S # {}
    PROVE  \E x \in S : \A y \in S : y <= x
<1> DEFINE T == {n - y : y \in S}
<1>1. T \subseteq Nat /\ T # {}
  <2>1. \A y \in S : n - y \in Nat
    OBVIOUS
  <2>2. PICK y \in S : TRUE
    OBVIOUS
  <2>3. n - y \in T
    OBVIOUS
  <2> QED BY <2>1, <2>3
<1>2. PICK t \in T : \A u \in T : t <= u
  <2> HIDE DEF T
  <2> QED BY <1>1, LeastOf
<1>3. PICK x \in S : t = n - x
  OBVIOUS
<1>4. ASSUME NEW y \in S
      PROVE  y <= x
  <2>1. n - x <= n - y
    BY <1>2, <1>3
  <2>2. x \in 0 .. n /\ y \in 0 .. n
    BY <1>3
  <2> HIDE DEF T
  <2> QED BY <2>1, <2>2
<1> QED BY <1>4

\* A loop forward ends at the first stop, or at the end.
LEMMA ForwardEnds ==
    ASSUME NEW from \in Nat, NEW end \in Nat, from <= end, NEW stops
    PROVE  LET i == Forward(from, end, stops)
           IN  /\ i \in from .. end
               /\ i = end \/ i \in stops
               /\ \A j \in from .. i - 1 : j \notin stops
<1> DEFINE S == {i \in from .. end : i = end \/ i \in stops}
<1>1. S \subseteq Nat /\ end \in S
  OBVIOUS
<1>2. PICK x \in S : \A y \in S : x <= y
  <2> HIDE DEF S
  <2> QED BY <1>1, LeastOf
<1>3. x \in from .. end /\ (x = end \/ x \in stops)
  OBVIOUS
<1>4. ASSUME NEW j \in from .. x - 1
      PROVE  j \notin stops
  <2>1. j < x /\ j \in from .. end
    BY <1>3
  <2>2. j \in stops => j \in S
    BY <2>1
  <2> QED BY <1>2, <2>1, <2>2
<1> QED BY <1>3, <1>4 DEF Forward

\* A loop backward ends at the last stop, or at the start.
LEMMA BackwardEnds ==
    ASSUME NEW start \in Nat, NEW end \in Nat, start < end, NEW stops
    PROVE  LET i == Backward(start, end, stops)
           IN  /\ i \in start .. end - 1
               /\ i = start \/ i \in stops
               /\ \A j \in i + 1 .. end - 1 : j \notin stops
<1> DEFINE S == {i \in start .. end - 1 : i = start \/ i \in stops}
<1>1. S \subseteq 0 .. end /\ start \in S
  OBVIOUS
<1>2. PICK x \in S : \A y \in S : y <= x
  <2> HIDE DEF S
  <2> QED BY <1>1, GreatestOf
<1>3. x \in start .. end - 1 /\ (x = start \/ x \in stops)
  OBVIOUS
<1>4. ASSUME NEW j \in x + 1 .. end - 1
      PROVE  j \notin stops
  <2>1. x < j /\ j \in start .. end - 1
    BY <1>3
  <2>2. j \in stops => j \in S
    BY <2>1
  <2> QED BY <1>2, <2>1, <2>2
<1> QED BY <1>3, <1>4 DEF Backward

-------------------------------------------------------------------------------
(* Numbers *)

\* The character of a digit stands for a number from 0 to 9.
LEMMA DigitIs ==
    ASSUME NEW c, IsDigit(c) PROVE DigitOf(c) \in 0 .. 9
BY DEF IsDigit, DigitOf

\* Different digits are different characters.
LEMMA DigitOnce ==
    ASSUME NEW a \in 0 .. 9, NEW b \in 0 .. 9, Digits[a + 1] = Digits[b + 1]
    PROVE  a = b
<1>1. \A d \in 0 .. 9 : \/ d = 0 \/ d = 1 \/ d = 2 \/ d = 3 \/ d = 4
                        \/ d = 5 \/ d = 6 \/ d = 7 \/ d = 8 \/ d = 9
  OBVIOUS
<1>2. /\ Digits[1] = "0" /\ Digits[2] = "1" /\ Digits[3] = "2" /\ Digits[4] = "3"
      /\ Digits[5] = "4" /\ Digits[6] = "5" /\ Digits[7] = "6" /\ Digits[8] = "7"
      /\ Digits[9] = "8" /\ Digits[10] = "9"
  BY DEF Digits
<1> QED BY <1>1, <1>2

\* So the number of a digit is the one it is written for.
LEMMA DigitBack ==
    ASSUME NEW d \in 0 .. 9
    PROVE  IsDigit(Digits[d + 1]) /\ DigitOf(Digits[d + 1]) = d
<1>1. PICK e : e = DigitOf(Digits[d + 1])
  OBVIOUS
<1>2. e \in 0 .. 9 /\ Digits[e + 1] = Digits[d + 1]
  BY <1>1 DEF DigitOf
<1>3. e = d
  BY <1>2, DigitOnce
<1> QED BY <1>1, <1>3 DEF IsDigit

\* The value of the characters, one by one.
LEMMA HornerIs ==
    ASSUME NEW from \in Nat, NEW end \in Nat, from <= end
    PROVE  \E Num :
              /\ Horner(from, end) = Num[end]
              /\ Num[from] = 0
              /\ \A i \in from + 1 .. end :
                    Num[i] = Num[i - 1] * 10 + DigitOf(mem[i - 1])
<1> DEFINE Is(f, e) ==
        f = [i \in from .. e |->
                IF i = from THEN 0 ELSE f[i - 1] * 10 + DigitOf(mem[i - 1])]
<1>1. \A e \in from .. end : \E f : Is(f, e)
  <2> DEFINE Bad == {e \in from .. end : ~ \E f : Is(f, e)}
  <2> SUFFICES ASSUME Bad # {} PROVE FALSE
    OBVIOUS
  <2>1. Bad \subseteq Nat
    OBVIOUS
  <2>2. PICK x \in Bad : \A y \in Bad : x <= y
    <3> HIDE DEF Bad
    <3> QED BY <2>1, LeastOf
  <2>3. x \in from .. end /\ ~ \E f : Is(f, x)
    OBVIOUS
  <2>4. CASE x = from
    <3>1. Is([i \in from .. from |-> 0], from)
      OBVIOUS
    <3> QED BY <2>3, <2>4, <3>1
  <2>5. CASE x # from
    <3>1. x - 1 \in from .. end /\ x - 1 < x
      BY <2>3, <2>5
    <3>2. x - 1 \notin Bad
      <4> HIDE DEF Bad
      <4> QED BY <2>2, <3>1, <2>3
    <3>3. PICK g : Is(g, x - 1)
      BY <3>1, <3>2
    <3> DEFINE f == [i \in from .. x |->
                        IF i = x THEN g[x - 1] * 10 + DigitOf(mem[x - 1]) ELSE g[i]]
    <3>4. ASSUME NEW i \in from .. x, i # x, i # from
          PROVE  g[i] = g[i - 1] * 10 + DigitOf(mem[i - 1])
      <4>1. i \in from .. x - 1
        BY <2>3, <3>4
      <4> QED BY <3>3, <3>4, <4>1
    <3>5. g[from] = 0
      <4>1. from \in from .. x - 1
        BY <2>3, <2>5
      <4> QED BY <3>3, <4>1
    <3>6. ASSUME NEW i \in from .. x
          PROVE  f[i] = IF i = from THEN 0 ELSE f[i - 1] * 10 + DigitOf(mem[i - 1])
      <4>1. CASE i = from
        BY <2>5, <3>5, <4>1
      <4>2. CASE i # from
        <5>1. i - 1 \in from .. x /\ i - 1 # x
          BY <2>3, <4>2
        <5>2. f[i - 1] = g[i - 1]
          BY <5>1
        <5>3. f[i] = IF i = x THEN g[x - 1] * 10 + DigitOf(mem[x - 1]) ELSE g[i]
          OBVIOUS
        <5> QED BY <3>4, <4>2, <5>2, <5>3
      <4> QED BY <4>1, <4>2
    <3>7. Is(f, x)
      <4> DEFINE h == [i \in from .. x |->
                IF i = from THEN 0 ELSE f[i - 1] * 10 + DigitOf(mem[i - 1])]
      <4>1. \A i \in from .. x : f[i] = h[i]
        <5> HIDE DEF f
        <5> QED BY <3>6
      <4>2. f = h
        <5>1. DOMAIN f = from .. x /\ DOMAIN h = from .. x
          OBVIOUS
        <5>2. f = [i \in from .. x |-> f[i]]
          OBVIOUS
        <5>3. h = [i \in from .. x |-> h[i]]
          OBVIOUS
        <5> HIDE DEF f, h
        <5> QED BY <4>1, <5>2, <5>3
      <4> QED BY <4>2
    <3> QED BY <2>3, <3>7
  <2> QED BY <2>4, <2>5
<1> DEFINE Num == CHOOSE f : Is(f, end)
<1>2. end \in from .. end
  OBVIOUS
<1>3. Is(Num, end)
  BY <1>1, <1>2
<1>4. Horner(from, end) = Num[end]
  BY DEF Horner
<1> HIDE DEF Num
<1>5. Num[from] = 0
  BY <1>3
<1>6. \A i \in from + 1 .. end : Num[i] = Num[i - 1] * 10 + DigitOf(mem[i - 1])
  BY <1>3
<1> QED BY <1>4, <1>5, <1>6

\* The value of digits is a natural number.
LEMMA HornerNat ==
    ASSUME NEW from \in Nat, NEW end \in Nat, from <= end,
           \A i \in from .. end - 1 : IsDigit(mem[i]),
           NEW Num, Num[from] = 0,
           \A i \in from + 1 .. end : Num[i] = Num[i - 1] * 10 + DigitOf(mem[i - 1])
    PROVE  \A i \in from .. end : Num[i] \in Nat
<1> DEFINE Bad == {i \in from .. end : Num[i] \notin Nat}
<1> SUFFICES ASSUME Bad # {} PROVE FALSE
  OBVIOUS
<1>1. Bad \subseteq Nat
  OBVIOUS
<1>2. PICK x \in Bad : \A y \in Bad : x <= y
  <2> HIDE DEF Bad
  <2> QED BY <1>1, LeastOf
<1>3. x \in from .. end /\ Num[x] \notin Nat
  OBVIOUS
<1>4. x # from
  BY <1>3
<1>5. x - 1 \in from .. end - 1 /\ x - 1 < x /\ x - 1 \in from .. end /\ x \in from + 1 .. end
  BY <1>3, <1>4
<1>6. x - 1 \notin Bad
  <2> HIDE DEF Bad
  <2> QED BY <1>2, <1>3, <1>5
<1>7. Num[x - 1] \in Nat
  BY <1>5, <1>6
<1>8. DigitOf(mem[x - 1]) \in 0 .. 9
  BY <1>5, DigitIs
<1>9. PICK a \in Nat, d \in 0 .. 9 : a = Num[x - 1] /\ d = DigitOf(mem[x - 1])
  BY <1>7, <1>8
<1>10. a * 10 + d \in Nat
  OBVIOUS
<1>11. Num[x] = a * 10 + d
  BY <1>5, <1>9
<1> QED BY <1>3, <1>10, <1>11

\* What is left of n when it is divided by ten again and again.
IsLeft(f, n, k) ==
    f = [i \in 0 .. k |-> IF i = 0 THEN n ELSE f[i - 1] \div 10]

LEMMA LeftNext ==
    ASSUME NEW f, NEW n, NEW k \in Nat, IsLeft(f, n, k)
    PROVE  /\ f[0] = n
           /\ \A i \in 1 .. k : f[i] = f[i - 1] \div 10
<1>1. \A i \in 0 .. k : f[i] = IF i = 0 THEN n ELSE f[i - 1] \div 10
  BY DEF IsLeft
<1> QED BY <1>1

LEMMA LeftNat ==
    ASSUME NEW f, NEW n \in Nat, NEW k \in Nat, IsLeft(f, n, k)
    PROVE  \A i \in 0 .. k : f[i] \in Nat
<1> DEFINE Bad == {i \in 0 .. k : f[i] \notin Nat}
<1> SUFFICES ASSUME Bad # {} PROVE FALSE
  OBVIOUS
<1>1. Bad \subseteq Nat
  OBVIOUS
<1>2. PICK x \in Bad : \A y \in Bad : x <= y
  <2> HIDE DEF Bad
  <2> QED BY <1>1, LeastOf
<1>3. x \in 0 .. k /\ f[x] \notin Nat
  OBVIOUS
<1>4. f[0] = n /\ \A i \in 1 .. k : f[i] = f[i - 1] \div 10
  BY LeftNext
<1>5. x - 1 \in 0 .. k /\ x - 1 < x /\ x \in 1 .. k
  BY <1>3, <1>4
<1>6. x - 1 \notin Bad
  <2> HIDE DEF Bad
  <2> QED BY <1>2, <1>3, <1>5
<1>7. PICK a \in Nat : a = f[x - 1]
  BY <1>5, <1>6
<1>8. a \div 10 \in Nat
  OBVIOUS
<1> QED BY <1>3, <1>4, <1>5, <1>7, <1>8

\* Dividing on does not change what was left before.
LEMMA LeftSame ==
    ASSUME NEW f, NEW g, NEW n, NEW k \in Nat, NEW l \in Nat, k <= l,
           IsLeft(f, n, k), IsLeft(g, n, l)
    PROVE  \A i \in 0 .. k : f[i] = g[i]
<1> DEFINE Bad == {i \in 0 .. k : f[i] # g[i]}
<1> SUFFICES ASSUME Bad # {} PROVE FALSE
  OBVIOUS
<1>1. Bad \subseteq Nat
  OBVIOUS
<1>2. PICK x \in Bad : \A y \in Bad : x <= y
  <2> HIDE DEF Bad
  <2> QED BY <1>1, LeastOf
<1>3. x \in 0 .. k /\ f[x] # g[x]
  OBVIOUS
<1>4. f[0] = n /\ \A i \in 1 .. k : f[i] = f[i - 1] \div 10
  BY LeftNext
<1>5. g[0] = n /\ \A i \in 1 .. l : g[i] = g[i - 1] \div 10
  BY LeftNext
<1>6. x - 1 \in 0 .. k /\ x - 1 < x /\ x \in 1 .. k /\ x \in 1 .. l
  BY <1>3, <1>4, <1>5
<1>7. x - 1 \notin Bad
  <2> HIDE DEF Bad
  <2> QED BY <1>2, <1>3, <1>6
<1>8. f[x - 1] = g[x - 1]
  BY <1>6, <1>7
<1> QED BY <1>3, <1>4, <1>5, <1>6, <1>8

LEMMA LeftIs ==
    ASSUME NEW n, NEW k \in Nat PROVE \E f : IsLeft(f, n, k)
<1> DEFINE Bad == {i \in Nat : ~ \E f : IsLeft(f, n, i)}
<1> SUFFICES ASSUME Bad # {} PROVE FALSE
  OBVIOUS
<1>1. Bad \subseteq Nat
  OBVIOUS
<1>2. PICK x \in Bad : \A y \in Bad : x <= y
  <2> HIDE DEF Bad
  <2> QED BY <1>1, LeastOf
<1>3. x \in Nat /\ ~ \E f : IsLeft(f, n, x)
  OBVIOUS
<1>4. CASE x = 0
  <2>1. IsLeft([i \in 0 .. 0 |-> n], n, 0)
    BY DEF IsLeft
  <2> QED BY <1>3, <1>4, <2>1
<1>5. CASE x # 0
  <2>1. x - 1 \in Nat /\ x - 1 < x
    BY <1>3, <1>5
  <2>2. x - 1 \notin Bad
    <3> HIDE DEF Bad
    <3> QED BY <1>2, <1>3, <2>1
  <2>3. PICK g : IsLeft(g, n, x - 1)
    BY <2>1, <2>2
  <2>4. g[0] = n /\ \A i \in 1 .. x - 1 : g[i] = g[i - 1] \div 10
    BY <2>1, <2>3, LeftNext
  <2> DEFINE f == [i \in 0 .. x |-> IF i = x THEN g[x - 1] \div 10 ELSE g[i]]
             h == [i \in 0 .. x |-> IF i = 0 THEN n ELSE f[i - 1] \div 10]
  <2>5. \A i \in 0 .. x : f[i] = IF i = x THEN g[x - 1] \div 10 ELSE g[i]
    OBVIOUS
  <2>6. \A i \in 0 .. x : h[i] = IF i = 0 THEN n ELSE f[i - 1] \div 10
    <3> HIDE DEF f
    <3> QED OBVIOUS
  <2>7. f = [i \in 0 .. x |-> f[i]] /\ h = [i \in 0 .. x |-> h[i]]
    OBVIOUS
  <2> HIDE DEF f, h
  <2>8. \A i \in 0 .. x : f[i] = h[i]
    <3>1. TAKE i \in 0 .. x
    <3>2. CASE i = 0
      BY <1>5, <2>4, <2>5, <2>6, <3>2
    <3>3. CASE i # 0
      <4>1. i - 1 \in 0 .. x /\ i - 1 # x
        BY <1>3, <3>3
      <4>2. h[i] = g[i - 1] \div 10
        BY <2>5, <2>6, <3>3, <4>1
      <4>3. CASE i = x
        BY <2>5, <4>2, <4>3
      <4>4. CASE i # x
        <5>1. i \in 1 .. x - 1
          BY <1>3, <3>3, <4>4
        <5> QED BY <2>4, <2>5, <4>2, <4>4, <5>1
      <4> QED BY <4>3, <4>4
    <3> QED BY <3>2, <3>3
  <2>9. f = h
    BY <2>7, <2>8
  <2>10. IsLeft(f, n, x)
    BY <2>9 DEF IsLeft, h
  <2> QED BY <1>3, <2>10
<1> QED BY <1>4, <1>5

\* Each division takes one digit away.
LEMMA RestIs ==
    ASSUME NEW n \in Nat, NEW k \in Nat
    PROVE  /\ Rest(n, 0) = n
           /\ Rest(n, k) \in Nat
           /\ Rest(n, k + 1) = Rest(n, k) \div 10
<1> DEFINE Left(l) == CHOOSE f : IsLeft(f, n, l)
<1>1. \A l \in Nat : IsLeft(Left(l), n, l)
  BY LeftIs
<1>2. \A l : Rest(n, l) = Left(l)[l]
  BY DEF Rest, IsLeft
<1> HIDE DEF Left
<1>3. k + 1 \in Nat /\ k <= k + 1 /\ k \in 0 .. k /\ k + 1 \in 1 .. k + 1 /\ (k + 1) - 1 = k
  OBVIOUS
<1>4. PICK f, g : f = Left(k) /\ g = Left(k + 1)
  OBVIOUS
<1>5. IsLeft(f, n, k) /\ IsLeft(g, n, k + 1)
  BY <1>1, <1>3, <1>4
<1>6. f[k] = g[k]
  BY <1>3, <1>5, LeftSame
<1>7. g[k + 1] = g[k] \div 10
  <2>1. \A i \in 1 .. k + 1 : g[i] = g[i - 1] \div 10
    BY <1>3, <1>5, LeftNext
  <2> QED BY <1>3, <2>1
<1>8. f[k] \in Nat
  BY <1>3, <1>5, LeftNat
<1>9. Rest(n, 0) = n
  <2>1. IsLeft(Left(0), n, 0) /\ 0 \in Nat
    BY <1>1
  <2>2. Left(0)[0] = n
    BY <2>1, LeftNext
  <2> QED BY <1>2, <2>2
<1> QED BY <1>2, <1>4, <1>6, <1>7, <1>8, <1>9

\* What clients send, and what a response is made of.
Chars == STRING \cup Blanks \cup {"L", ":"} \cup {Digits[d + 1] : d \in 0 .. 9}

\* A digit is neither the line feed nor a blank.
LEMMA DigitChar ==
    ASSUME NEW c, IsDigit(c) PROVE c \in Chars /\ c # "\n"
<1>1. PICK d \in 0 .. 9 : Digits[d + 1] = c
  BY DEF IsDigit
<1>2. Digits[d + 1] \in {"0", "1", "2", "3", "4", "5", "6", "7", "8", "9"}
  BY DEF Digits
<1>3. \/ c = "0" \/ c = "1" \/ c = "2" \/ c = "3" \/ c = "4"
      \/ c = "5" \/ c = "6" \/ c = "7" \/ c = "8" \/ c = "9"
  BY <1>1, <1>2
<1>4. c \in Chars
  BY <1>1 DEF Chars
<1> QED BY <1>3, <1>4

\* Every decimal digit of a natural number is a digit.
LEMMA DigitAtIs ==
    ASSUME NEW n \in Nat, NEW k \in Nat
    PROVE  IsDigit(DigitAt(n, k)) /\ DigitOf(DigitAt(n, k)) = Rest(n, k) % 10
<1>1. PICK r \in Nat : r = Rest(n, k)
  BY RestIs
<1>2. r % 10 \in 0 .. 9
  OBVIOUS
<1> QED BY <1>1, <1>2, DigitBack DEF DigitAt

\* A number of 32 bits has at most ten digits.
TenDigits(n) == n \in Nat /\ n <= 4294967295

LEMMA RestLess ==
    ASSUME NEW n \in Nat, NEW k \in Nat, NEW b \in Nat, Rest(n, k) < 10 * b
    PROVE  Rest(n, k + 1) \in Nat /\ Rest(n, k + 1) < b
<1>1. PICK r \in Nat : r = Rest(n, k)
  BY RestIs
<1>2. r \div 10 \in Nat /\ r \div 10 < b
  BY <1>1
<1> QED BY <1>1, <1>2, RestIs

LEMMA RestTen ==
    ASSUME NEW n, TenDigits(n) PROVE n \in Nat /\ Rest(n, 10) = 0
<1>1. n \in Nat /\ n <= 4294967295
  BY SMT DEF TenDigits
<1>2. Rest(n, 0) < 10 * 1000000000
  BY <1>1, RestIs, SMT
<1>3. Rest(n, 0 + 1) < 10 * 100000000
  BY <1>1, <1>2, RestLess, SMT
<1>4. Rest(n, 1 + 1) < 10 * 10000000
  BY <1>1, <1>3, RestLess, SMT
<1>5. Rest(n, 2 + 1) < 10 * 1000000
  BY <1>1, <1>4, RestLess, SMT
<1>6. Rest(n, 3 + 1) < 10 * 100000
  BY <1>1, <1>5, RestLess, SMT
<1>7. Rest(n, 4 + 1) < 10 * 10000
  BY <1>1, <1>6, RestLess, SMT
<1>8. Rest(n, 5 + 1) < 10 * 1000
  BY <1>1, <1>7, RestLess, SMT
<1>9. Rest(n, 6 + 1) < 10 * 100
  BY <1>1, <1>8, RestLess, SMT
<1>10. Rest(n, 7 + 1) < 10 * 10
  BY <1>1, <1>9, RestLess, SMT
<1>11. Rest(n, 8 + 1) < 10 * 1
  BY <1>1, <1>10, RestLess, SMT
<1>12. Rest(n, 9 + 1) \in Nat /\ Rest(n, 9 + 1) < 1
  BY <1>1, <1>11, RestLess, SMT
<1> QED BY <1>1, <1>12, SMT

\* The number of digits is the least there is.
LEMMA WidthIs ==
    ASSUME NEW n, TenDigits(n)
    PROVE  /\ Width(n) \in 1 .. 10
           /\ Rest(n, Width(n)) = 0
           /\ Width(n) = 1 \/ Rest(n, Width(n) - 1) # 0
<1> DEFINE S == {w \in 1 .. 10 : Rest(n, w) = 0}
<1>1. S \subseteq Nat
  OBVIOUS
<1>2. 10 \in S
  BY RestTen
<1>3. PICK w \in S : \A v \in S : w <= v
  <2> HIDE DEF S
  <2> QED BY <1>1, <1>2, LeastOf
<1>4. w \in 1 .. 10 /\ Rest(n, w) = 0
  OBVIOUS
<1>5. w = 1 \/ Rest(n, w - 1) # 0
  <2>1. CASE w # 1
    <3>1. w - 1 \in 1 .. 10 /\ w - 1 < w
      BY <1>4, <2>1
    <3>2. w - 1 \notin S
      <4> HIDE DEF S
      <4> QED BY <1>3, <1>4, <3>1
    <3> QED BY <3>1, <3>2
  <2> QED BY <2>1
<1> QED BY <1>4, <1>5 DEF Width

\* Of a length something is written, and only digits.
LEMMA WrittenIs ==
    ASSUME NEW n \in 1 .. 10, NEW val, TenDigits(val)
    PROVE  /\ UiToC(n, val) \in Seq(Chars)
           /\ \A i \in 1 .. Len(UiToC(n, val)) : UiToC(n, val)[i] # "\n"
<1>1. Width(val) \in 1 .. 10 /\ val \in Nat
  BY WidthIs, RestTen
<1> DEFINE written == IF Width(val) > n THEN n ELSE Width(val)
<1>2. written \in 1 .. 10
  BY <1>1
<1> HIDE DEF written
<1>3. \A i \in 1 .. written : IsDigit(DigitAt(val, written - i))
  <2>1. \A i \in 1 .. written : written - i \in Nat
    BY <1>2
  <2> QED BY <1>1, <2>1, DigitAtIs
<1>4. UiToC(n, val) = [i \in 1 .. written |-> DigitAt(val, written - i)]
  BY DEF UiToC, written
<1>5. \A i \in 1 .. written :
          DigitAt(val, written - i) \in Chars /\ DigitAt(val, written - i) # "\n"
  BY <1>3, DigitChar
<1> QED BY <1>2, <1>4, <1>5

\* A number has the digits that it was read from.
LEMMA HornerDigits ==
    ASSUME NEW from \in Nat, NEW end \in Nat, from <= end,
           \A i \in from .. end - 1 : IsDigit(mem[i])
    PROVE  LET h == Horner(from, end)
           IN  /\ h \in Nat /\ Rest(h, end - from) = 0
               /\ \A i \in from .. end - 1 : DigitAt(h, (end - 1) - i) = mem[i]
<1>0. PICK h : h = Horner(from, end)
  OBVIOUS
<1>1. PICK Num :
         /\ Horner(from, end) = Num[end]
         /\ Num[from] = 0
         /\ \A i \in from + 1 .. end : Num[i] = Num[i - 1] * 10 + DigitOf(mem[i - 1])
  BY HornerIs
<1>2. \A i \in from .. end : Num[i] \in Nat
  BY <1>1, HornerNat
<1>3. h \in Nat /\ h = Num[end]
  <2>1. end \in from .. end
    OBVIOUS
  <2> QED BY <1>0, <1>1, <1>2, <2>1
<1>4. ASSUME NEW i \in from .. end - 1
      PROVE  /\ Num[i + 1] \div 10 = Num[i]
             /\ Num[i + 1] % 10 = DigitOf(mem[i])
             /\ Digits[DigitOf(mem[i]) + 1] = mem[i]
  <2>1. i \in from .. end /\ i + 1 \in from + 1 .. end /\ (i + 1) - 1 = i
    OBVIOUS
  <2>2. DigitOf(mem[i]) \in 0 .. 9 /\ Digits[DigitOf(mem[i]) + 1] = mem[i]
    BY DEF IsDigit, DigitOf
  <2>3. PICK a \in Nat, d \in 0 .. 9 : a = Num[i] /\ d = DigitOf(mem[i])
    BY <1>2, <2>1, <2>2
  <2>4. Num[i + 1] = a * 10 + d
    BY <1>1, <2>1, <2>3
  <2>5. (a * 10 + d) \div 10 = a /\ (a * 10 + d) % 10 = d
    OBVIOUS
  <2> QED BY <2>2, <2>3, <2>4, <2>5
<1>5. \A k \in 0 .. end - from : Rest(h, k) = Num[end - k]
  <2> DEFINE Bad == {k \in 0 .. end - from : Rest(h, k) # Num[end - k]}
  <2> SUFFICES ASSUME Bad # {} PROVE FALSE
    OBVIOUS
  <2>1. Bad \subseteq Nat
    OBVIOUS
  <2>2. PICK x \in Bad : \A y \in Bad : x <= y
    <3> HIDE DEF Bad
    <3> QED BY <2>1, LeastOf
  <2>3. x \in 0 .. end - from /\ Rest(h, x) # Num[end - x]
    OBVIOUS
  <2>4. x # 0
    <3>1. 0 \in Nat /\ end - 0 = end
      OBVIOUS
    <3>2. Rest(h, 0) = h
      BY <1>3, <3>1, RestIs
    <3> QED BY <1>3, <2>3, <3>1, <3>2
  <2>5. x - 1 \in Nat /\ x - 1 \in 0 .. end - from /\ x - 1 < x /\ (x - 1) + 1 = x
    BY <2>3, <2>4
  <2>6. x - 1 \notin Bad
    <3> HIDE DEF Bad
    <3> QED BY <2>2, <2>3, <2>5
  <2>7. Rest(h, x - 1) = Num[end - (x - 1)]
    BY <2>5, <2>6
  <2>8. end - x \in from .. end - 1 /\ end - (x - 1) = (end - x) + 1
    BY <2>3, <2>4
  <2>9. Num[end - (x - 1)] \div 10 = Num[end - x]
    BY <1>4, <2>8
  <2>10. Rest(h, x) = Rest(h, x - 1) \div 10
    <3>1. Rest(h, (x - 1) + 1) = Rest(h, x - 1) \div 10
      BY <1>3, <2>5, RestIs
    <3> QED BY <2>5, <3>1
  <2> QED BY <2>3, <2>7, <2>9, <2>10
<1>6. Rest(h, end - from) = 0
  <2>1. end - from \in 0 .. end - from /\ end - (end - from) = from
    OBVIOUS
  <2> QED BY <1>1, <1>5, <2>1
<1>7. ASSUME NEW i \in from .. end - 1
      PROVE  DigitAt(h, (end - 1) - i) = mem[i]
  <2>1. (end - 1) - i \in 0 .. end - from /\ end - ((end - 1) - i) = i + 1
    OBVIOUS
  <2>2. Rest(h, (end - 1) - i) = Num[i + 1]
    BY <1>5, <2>1
  <2> QED BY <1>4, <2>2 DEF DigitAt
<1> QED BY <1>0, <1>3, <1>6, <1>7

\* Two numbers with the same digits are the same.
LEMMA SameDigits ==
    ASSUME NEW a \in Nat, NEW b \in Nat, NEW w \in Nat,
           Rest(a, w) = 0, Rest(b, w) = 0,
           \A k \in 0 .. w - 1 : DigitAt(a, k) = DigitAt(b, k)
    PROVE  a = b
<1>1. \A k \in 0 .. w : Rest(a, w - k) = Rest(b, w - k)
  <2> DEFINE Bad == {k \in 0 .. w : Rest(a, w - k) # Rest(b, w - k)}
  <2> SUFFICES ASSUME Bad # {} PROVE FALSE
    OBVIOUS
  <2>1. Bad \subseteq Nat
    OBVIOUS
  <2>2. PICK x \in Bad : \A y \in Bad : x <= y
    <3> HIDE DEF Bad
    <3> QED BY <2>1, LeastOf
  <2>3. x \in 0 .. w /\ Rest(a, w - x) # Rest(b, w - x)
    OBVIOUS
  <2>4. x # 0
    <3>1. w - 0 = w
      OBVIOUS
    <3> QED BY <2>3, <3>1
  <2>5. x - 1 \in 0 .. w /\ x - 1 < x
    BY <2>3, <2>4
  <2>6. x - 1 \notin Bad
    <3> HIDE DEF Bad
    <3> QED BY <2>2, <2>3, <2>5
  <2>7. PICK l \in Nat : l = w - x
    BY <2>3
  <2>8. w - (x - 1) = l + 1 /\ l \in 0 .. w - 1
    BY <2>3, <2>4, <2>7
  <2>9. Rest(a, l + 1) = Rest(b, l + 1)
    BY <2>5, <2>6, <2>8
  <2>10. PICK p \in Nat, q \in Nat : p = Rest(a, l) /\ q = Rest(b, l)
    BY RestIs
  <2>11. p \div 10 = q \div 10
    BY <2>9, <2>10, RestIs
  <2>12. p % 10 = q % 10
    <3>1. DigitAt(a, l) = DigitAt(b, l)
      BY <2>8
    <3>2. DigitOf(DigitAt(a, l)) = p % 10 /\ DigitOf(DigitAt(b, l)) = q % 10
      BY <2>10, DigitAtIs
    <3> QED BY <3>1, <3>2
  <2>13. p = q
    BY <2>11, <2>12
  <2> QED BY <2>3, <2>7, <2>10, <2>13
<1>2. w \in 0 .. w /\ w - w = 0
  OBVIOUS
<1>3. Rest(a, 0) = Rest(b, 0)
  BY <1>1, <1>2
<1>4. 0 \in Nat
  OBVIOUS
<1> QED BY <1>3, <1>4, RestIs

\* A smaller number has no more digits.
LEMMA RestMonotone ==
    ASSUME NEW a \in Nat, NEW b \in Nat, a <= b
    PROVE  \A k \in Nat : Rest(a, k) <= Rest(b, k)
<1> DEFINE Bad == {k \in Nat : ~(Rest(a, k) <= Rest(b, k))}
<1> SUFFICES ASSUME Bad # {} PROVE FALSE
  OBVIOUS
<1>1. Bad \subseteq Nat
  OBVIOUS
<1>2. PICK x \in Bad : \A y \in Bad : x <= y
  <2> HIDE DEF Bad
  <2> QED BY <1>1, LeastOf
<1>3. x \in Nat /\ ~(Rest(a, x) <= Rest(b, x))
  OBVIOUS
<1>4. Rest(a, 0) = a /\ Rest(b, 0) = b
  <2>1. 0 \in Nat
    OBVIOUS
  <2> QED BY <2>1, RestIs
<1>5. x # 0
  BY <1>3, <1>4
<1>6. PICK l \in Nat : x = l + 1
  <2>1. x - 1 \in Nat /\ x = (x - 1) + 1
    BY <1>3, <1>5
  <2> QED BY <2>1
<1>7. l \notin Bad
  <2>1. l < x
    BY <1>6
  <2> HIDE DEF Bad
  <2> QED BY <1>2, <1>3, <2>1
<1>8. PICK p \in Nat, q \in Nat : p = Rest(a, l) /\ q = Rest(b, l)
  BY RestIs
<1>9. p <= q
  BY <1>7, <1>8
<1>10. p \div 10 <= q \div 10
  BY <1>9
<1>11. Rest(a, l + 1) = p \div 10 /\ Rest(b, l + 1) = q \div 10
  BY <1>8, RestIs
<1> QED BY <1>3, <1>6, <1>10, <1>11

\* When nothing is left, nothing comes back.
LEMMA RestZero ==
    ASSUME NEW a \in Nat, NEW w \in Nat, Rest(a, w) = 0
    PROVE  \A k \in Nat : k >= w => Rest(a, k) = 0
<1> DEFINE Bad == {k \in Nat : k >= w /\ Rest(a, k) # 0}
<1> SUFFICES ASSUME Bad # {} PROVE FALSE
  OBVIOUS
<1>1. Bad \subseteq Nat
  OBVIOUS
<1>2. PICK x \in Bad : \A y \in Bad : x <= y
  <2> HIDE DEF Bad
  <2> QED BY <1>1, LeastOf
<1>3. x \in Nat /\ x >= w /\ Rest(a, x) # 0
  OBVIOUS
<1>4. x # w
  BY <1>3
<1>5. PICK l \in Nat : x = l + 1 /\ l >= w /\ l < x
  <2>1. x - 1 \in Nat /\ x = (x - 1) + 1 /\ x - 1 >= w /\ x - 1 < x
    BY <1>3, <1>4
  <2> QED BY <2>1
<1>6. l \notin Bad
  <2> HIDE DEF Bad
  <2> QED BY <1>2, <1>3, <1>5
<1>7. Rest(a, l) = 0
  BY <1>5, <1>6
<1>8. Rest(a, l + 1) = 0 \div 10
  BY <1>7, RestIs
<1>9. 0 \div 10 = 0
  OBVIOUS
<1> QED BY <1>3, <1>5, <1>8, <1>9

LEMMA WidthLess ==
    ASSUME NEW a, NEW b, TenDigits(a), TenDigits(b), a <= b
    PROVE  Width(a) <= Width(b)
<1>1. a \in Nat /\ b \in Nat
  BY RestTen
<1>2. PICK v \in 1 .. 10 : v = Width(a) /\ (v = 1 \/ Rest(a, v - 1) # 0)
  BY WidthIs
<1>3. PICK w \in 1 .. 10 : w = Width(b) /\ Rest(b, w) = 0
  BY WidthIs
<1>4. Rest(a, w) = 0
  <2>1. Rest(a, w) <= Rest(b, w) /\ Rest(a, w) \in Nat
    <3>1. w \in Nat
      OBVIOUS
    <3>2. Rest(a, w) <= Rest(b, w)
      BY <1>1, <3>1, RestMonotone
    <3>3. Rest(a, w) \in Nat
      BY <1>1, <3>1, RestIs
    <3> QED BY <3>2, <3>3
  <2> QED BY <1>3, <2>1
<1>5. SUFFICES ASSUME v > w PROVE FALSE
  BY <1>2, <1>3
<1>6. v - 1 \in Nat /\ v - 1 >= w /\ v # 1
  BY <1>5
<1>7. Rest(a, v - 1) = 0
  BY <1>1, <1>4, <1>6, RestZero
<1> QED BY <1>2, <1>6, <1>7

-------------------------------------------------------------------------------
(* hiw_string *)

\* The line feed ends mem and is nowhere else.
Closed ==
    /\ mem \in Seq(Chars)
    /\ Len(mem) >= 1
    /\ mem[Len(mem)] = "\n"
    /\ \A i \in 1 .. Len(mem) - 1 : mem[i] # "\n"

\* What is known of the characters of a line.
LEMMA ClosedFacts ==
    ASSUME Closed
    PROVE  /\ Len(mem) \in Nat \ {0} /\ DOMAIN mem = 1 .. Len(mem)
           /\ Len(mem) \notin Ink /\ Ink \subseteq 1 .. Len(mem) - 1
           /\ \A c : c # "\n" => At(c) \subseteq 1 .. Len(mem) - 1
<1>1. Len(mem) \in Nat /\ DOMAIN mem = 1 .. Len(mem)
  BY LenProperties DEF Closed
<1>2. PICK n \in Nat \ {0} : n = Len(mem)
  <2>1. Len(mem) \in Nat /\ Len(mem) >= 1
    BY <1>1 DEF Closed
  <2>2. \A n \in Nat : n >= 1 => n \in Nat \ {0}
    OBVIOUS
  <2> QED BY <2>1, <2>2
<1>3. mem[n] = "\n" /\ "\n" \in Blanks
  BY <1>2 DEF Closed, Blanks
<1>4. Ink \subseteq 1 .. n /\ n \notin Ink
  BY <1>1, <1>2, <1>3 DEF Ink
<1>5. ASSUME NEW c, c # "\n"
      PROVE  At(c) \subseteq 1 .. n /\ n \notin At(c)
  BY <1>1, <1>2, <1>3, <1>5 DEF At
<1>6. \A S : S \subseteq 1 .. n /\ n \notin S => S \subseteq 1 .. n - 1
  OBVIOUS
<1>7. Ink \subseteq 1 .. n - 1
  BY <1>4, <1>6
<1>8. \A c : c # "\n" => At(c) \subseteq 1 .. n - 1
  BY <1>5, <1>6
<1> QED BY <1>1, <1>2, <1>4, <1>7, <1>8

\* hiw_string_trim takes the blanks from both ends, and of a string of blanks
\* keeps nothing or the character behind it.
LEMMA TrimIs ==
    ASSUME NEW b \in Nat, NEW e \in Nat, b <= e, NEW s,
           s = [begin |-> b, length |-> e - b]
    PROVE  \/ \E i, j \in Ink \cap b .. e - 1 :
                 /\ \A k \in Ink \cap b .. e - 1 : i <= k /\ k <= j
                 /\ Trim(s) = [begin |-> i, length |-> j - i + 1]
           \/ /\ Ink \cap b .. e - 1 = {}
              /\ \/ Trim(s) = Empty
                 \/ e \in Ink /\ Trim(s) = [begin |-> e, length |-> 1]
<1>1. s.begin = b /\ s.length = e - b /\ End(s) = e
  BY DEF End
<1>2. CASE b = e
  BY <1>1, <1>2 DEF Trim
<1>3. CASE b < e
  <2>1. PICK i : i = Forward(b, e, Ink)
    OBVIOUS
  <2>2. /\ i \in b .. e
        /\ i = e \/ i \in Ink
        /\ \A k \in b .. i - 1 : k \notin Ink
    BY <2>1, ForwardEnds
  <2>3. Trim(s) = Inked(i, Backward(i, e, Ink))
    BY <1>1, <1>3, <2>1 DEF Trim
  <2>4. CASE i = e
    <3>1. Trim(s) = Inked(e, e)
      BY <2>3, <2>4 DEF Backward
    <3>2. Ink \cap b .. e - 1 = {}
      BY <2>2, <2>4
    <3>3. e - e + 1 = 1
      OBVIOUS
    <3> QED BY <3>1, <3>2, <3>3 DEF Inked
  <2>5. CASE i # e
    <3>1. i \in Nat /\ i < e /\ i \in Ink
      BY <2>2, <2>5
    <3>2. PICK j : j = Backward(i, e, Ink)
      OBVIOUS
    <3>3. /\ j \in i .. e - 1
          /\ j = i \/ j \in Ink
          /\ \A k \in j + 1 .. e - 1 : k \notin Ink
      BY <3>1, <3>2, BackwardEnds
    <3>4. i \in Ink \cap b .. e - 1 /\ j \in Ink \cap b .. e - 1
      BY <2>2, <3>1, <3>3
    <3>5. ASSUME NEW k \in Ink \cap b .. e - 1
          PROVE  i <= k /\ k <= j
      <4>1. k \notin b .. i - 1 /\ k \notin j + 1 .. e - 1
        BY <2>2, <3>3
      <4> QED BY <2>2, <3>3, <4>1
    <3>6. Trim(s) = [begin |-> i, length |-> j - i + 1]
      BY <2>3, <3>2, <3>4 DEF Inked
    <3> QED BY <3>4, <3>5, <3>6
  <2> QED BY <2>4, <2>5
<1> QED BY <1>2, <1>3

\* hiw_string_rtrim takes them from the end only.
LEMMA RTrimIs ==
    ASSUME NEW b \in Nat, NEW e \in Nat, b <= e, NEW s,
           s = [begin |-> b, length |-> e - b]
    PROVE  \/ \E j \in Ink \cap b .. e - 1 :
                 /\ \A k \in Ink \cap b .. e - 1 : k <= j
                 /\ RTrim(s) = [begin |-> b, length |-> j - b + 1]
           \/ Ink \cap b .. e - 1 = {} /\ RTrim(s) = Empty
<1>1. s.begin = b /\ s.length = e - b /\ End(s) = e
  BY DEF End
<1>2. CASE b = e
  BY <1>1, <1>2 DEF RTrim
<1>3. CASE b < e
  <2>1. PICK j : j = Backward(b, e, Ink)
    OBVIOUS
  <2>2. /\ j \in b .. e - 1
        /\ j = b \/ j \in Ink
        /\ \A k \in j + 1 .. e - 1 : k \notin Ink
    BY <1>3, <2>1, BackwardEnds
  <2>3. RTrim(s) = Inked(b, j)
    BY <1>1, <1>3, <2>1 DEF RTrim
  <2>4. \A k \in Ink \cap b .. e - 1 : k <= j
    BY <2>2
  <2>5. CASE j \in Ink
    <3>1. RTrim(s) = [begin |-> b, length |-> j - b + 1]
      BY <2>3, <2>5 DEF Inked
    <3> QED BY <2>2, <2>4, <2>5, <3>1
  <2>6. CASE j \notin Ink
    <3>1. RTrim(s) = Empty
      BY <2>3, <2>6 DEF Inked
    <3>2. \A k \in Ink \cap b .. e - 1 : k = b /\ k = j
      BY <2>2, <2>4, <2>6
    <3> QED BY <2>6, <3>1, <3>2
  <2> QED BY <2>5, <2>6
<1> QED BY <1>2, <1>3

\* Where the piece behind the one at `p` starts.
NextStart(s, delim, p) ==
    IF p = 0 THEN 0
    ELSE LET e == Forward(p, End(s), At(delim))
         IN  IF e = End(s) THEN 0 ELSE e + 1

\* The pieces of hiw_string_split start one behind the other.
LEMMA StartsIs ==
    ASSUME NEW s, NEW delim, NEW n \in 2 .. 3
    PROVE  LET start == Starts(s, delim, n)
           IN  /\ start[1] = s.begin
               /\ start[2] = NextStart(s, delim, s.begin)
               /\ n = 3 => start[3] = NextStart(s, delim, start[2])
<1> DEFINE Is(f) ==
        f = [k \in 1 .. n |->
                IF k = 1 THEN s.begin
                ELSE IF f[k - 1] = 0 THEN 0
                ELSE LET e == Forward(f[k - 1], End(s), At(delim))
                     IN  IF e = End(s) THEN 0 ELSE e + 1]
           next(p) == IF p = 0 THEN 0
                      ELSE LET e == Forward(p, End(s), At(delim))
                           IN  IF e = End(s) THEN 0 ELSE e + 1
<1>1. \E f : Is(f)
  <2> DEFINE f == [k \in 1 .. n |->
                      IF k = 1 THEN s.begin
                      ELSE IF k = 2 THEN next(s.begin) ELSE next(next(s.begin))]
             g == [k \in 1 .. n |-> IF k = 1 THEN s.begin ELSE next(f[k - 1])]
  <2>1. \A k \in 1 .. n : k = 1 \/ k = 2 \/ (k = 3 /\ n = 3)
    <3>1. n = 2 \/ n = 3
      OBVIOUS
    <3>2. CASE n = 2
      BY <3>2
    <3>3. CASE n = 3
      BY <3>3
    <3> QED BY <3>1, <3>2, <3>3
  <2>2. f[1] = s.begin /\ f[2] = next(s.begin) /\ (n = 3 => f[3] = next(next(s.begin)))
    <3> HIDE DEF next
    <3> QED OBVIOUS
  <2>3. \A k \in 1 .. n : f[k] = g[k]
    <3>1. \A k \in 1 .. n : g[k] = IF k = 1 THEN s.begin ELSE next(f[k - 1])
      <4> HIDE DEF next, f
      <4> QED OBVIOUS
    <3> HIDE DEF next, f, g
    <3> QED BY <2>1, <2>2, <3>1
  <2>4. f = [k \in 1 .. n |-> f[k]] /\ g = [k \in 1 .. n |-> g[k]]
    <3> HIDE DEF next
    <3> QED OBVIOUS
  <2>5. f = g
    <3> HIDE DEF next, f, g
    <3> QED BY <2>3, <2>4
  <2> HIDE DEF f
  <2>6. Is(f)
    BY <2>5
  <2> QED BY <2>6
<1> DEFINE start == CHOOSE f : Is(f)
<1>2. Is(start)
  BY <1>1
<1>3. Starts(s, delim, n) = start
  BY DEF Starts
<1> HIDE DEF start
<1>4. \A k \in 1 .. n : start[k] = IF k = 1 THEN s.begin ELSE next(start[k - 1])
  BY <1>2
<1>5. \A p : next(p) = NextStart(s, delim, p)
  BY DEF NextStart
<1> HIDE DEF next, Is
<1>6. start[1] = s.begin /\ start[2] = next(start[1]) /\ (n = 3 => start[3] = next(start[2]))
  BY <1>4
<1> QED BY <1>3, <1>5, <1>6

\* Behind a delimiter the next piece starts, and without one there is none.
LEMMA NextStartIs ==
    ASSUME Closed, NEW delim, delim # "\n", NEW p \in 1 .. Len(mem)
    PROVE  \/ /\ NextStart(Line, delim, p) = 0
              /\ \A j \in p .. Len(mem) : j \notin At(delim)
           \/ \E c \in p .. Len(mem) - 1 :
                 /\ NextStart(Line, delim, p) = c + 1
                 /\ c \in At(delim)
                 /\ \A j \in p .. c - 1 : j \notin At(delim)
<1>1. PICK n \in Nat \ {0} : n = Len(mem)
  BY ClosedFacts
<1>2. End(Line) = n
  BY <1>1 DEF End, Line
<1>3. At(delim) \subseteq 1 .. n - 1
  BY <1>1, ClosedFacts
<1>4. p \in 1 .. n
  BY <1>1
<1>5. PICK e : e = Forward(p, n, At(delim))
  OBVIOUS
<1>6. /\ e \in p .. n
      /\ e = n \/ e \in At(delim)
      /\ \A j \in p .. e - 1 : j \notin At(delim)
  BY <1>4, <1>5, ForwardEnds
<1>7. NextStart(Line, delim, p) = IF e = n THEN 0 ELSE e + 1
  BY <1>2, <1>4, <1>5 DEF NextStart
<1>8. CASE e = n
  <2>1. \A j \in p .. n : j \notin At(delim)
    BY <1>3, <1>4, <1>6, <1>8
  <2> QED BY <1>1, <1>7, <1>8, <2>1
<1>9. CASE e # n
  <2>1. e \in p .. n - 1 /\ e \in At(delim)
    BY <1>4, <1>6, <1>9
  <2> QED BY <1>1, <1>6, <1>7, <1>9, <2>1
<1> QED BY <1>8, <1>9

\* The pieces that were found, as slices.
LEMMA PiecesAre ==
    ASSUME NEW s, s.length # 0, NEW delim, NEW n \in 2 .. 3, NEW m \in 1 .. n,
           {k \in 1 .. n : Starts(s, delim, n)[k] # 0} = 1 .. m
    PROVE  /\ Len(Split(s, delim, n)) = m
           /\ \A k \in 1 .. m :
                 Split(s, delim, n)[k] =
                     [begin |-> Starts(s, delim, n)[k],
                      length |-> (IF k < m THEN Starts(s, delim, n)[k + 1] - 1 ELSE End(s))
                                     - Starts(s, delim, n)[k]]
<1>1. PICK start : start = Starts(s, delim, n)
  OBVIOUS
<1> DEFINE pieces == {k \in 1 .. n : start[k] # 0}
           end(k) == IF k + 1 \in pieces THEN start[k + 1] - 1 ELSE End(s)
<1>2. Split(s, delim, n) = [k \in 1 .. Cardinality(pieces) |->
                               [begin |-> start[k], length |-> end(k) - start[k]]]
  BY <1>1 DEF Split
<1>3. pieces = 1 .. m
  BY <1>1
<1>4. m \in Nat \ {0}
  OBVIOUS
<1> HIDE DEF pieces, end
<1>5. Cardinality(pieces) = m
  <2>1. Cardinality(1 .. m) = IF 1 > m THEN 0 ELSE m - 1 + 1
    BY <1>4, FS_Interval
  <2> QED BY <1>3, <1>4, <2>1
<1>6. \A k \in 1 .. m : end(k) = IF k < m THEN start[k + 1] - 1 ELSE End(s)
  <2>1. \A k \in 1 .. m : k + 1 \in pieces <=> k < m
    BY <1>3, <1>4
  <2> QED BY <2>1 DEF end
<1>7. Split(s, delim, n) = [k \in 1 .. m |->
                               [begin |-> start[k], length |-> end(k) - start[k]]]
  BY <1>2, <1>5
<1>8. Len(Split(s, delim, n)) = m
  BY <1>4, <1>7
<1>9. \A k \in 1 .. m : Split(s, delim, n)[k] =
                            [begin |-> start[k], length |-> end(k) - start[k]]
  BY <1>7
<1> QED BY <1>1, <1>6, <1>8, <1>9

\* The slice of mem from b up to e.
Slice(b, e) == [begin |-> b, length |-> e - b]

\* The same, for the places where the pieces start.
LEMMA PiecesOf ==
    ASSUME NEW s, s.length # 0, NEW delim, NEW n \in 2 .. 3, NEW m \in 1 .. n,
           NEW start, start = Starts(s, delim, n),
           \A k \in 1 .. n : start[k] # 0 <=> k <= m
    PROVE  /\ Len(Split(s, delim, n)) = m
           /\ \A k \in 1 .. m :
                 Split(s, delim, n)[k] =
                     [begin |-> start[k],
                      length |-> (IF k < m THEN start[k + 1] - 1 ELSE End(s)) - start[k]]
<1>1. {k \in 1 .. n : start[k] # 0} = 1 .. m
  OBVIOUS
<1>2. {k \in 1 .. n : Starts(s, delim, n)[k] # 0} = 1 .. m
  BY <1>1
<1>3. /\ Len(Split(s, delim, n)) = m
      /\ \A k \in 1 .. m :
            Split(s, delim, n)[k] =
                [begin |-> Starts(s, delim, n)[k],
                 length |-> (IF k < m THEN Starts(s, delim, n)[k + 1] - 1 ELSE End(s))
                                - Starts(s, delim, n)[k]]
  BY <1>2, PiecesAre
<1> QED BY <1>3

\* A line without characters has no pieces.
LEMMA NoPieces ==
    ASSUME Closed, Len(mem) = 1, NEW delim, delim # "\n", NEW n
    PROVE  Len(Split(Line, delim, n)) = 0 /\ At(delim) = {}
<1>1. Line.length = 0
  BY DEF Line
<1>2. Split(Line, delim, n) = << >>
  BY <1>1 DEF Split
<1>3. At(delim) \subseteq 1 .. Len(mem) - 1
  BY ClosedFacts
<1>4. 1 .. 1 - 1 = {}
  OBVIOUS
<1>5. At(delim) = {}
  BY <1>3, <1>4
<1> QED BY <1>2, <1>5

\* What the line is as a string, if it has a character.
LEMMA LineIs ==
    ASSUME Closed, Len(mem) # 1
    PROVE  /\ Line.begin = 1 /\ Line.length # 0 /\ End(Line) = Len(mem)
           /\ 1 \in 1 .. Len(mem)
<1>1. PICK n \in Nat \ {0} : n = Len(mem)
  BY ClosedFacts
<1> QED BY <1>1 DEF Line, End

\* A header line is split at its first colon, if it has one.
HeaderSplit(parts) ==
    \/ At(":") = {} /\ Len(parts) # 2
    \/ \E c \in 1 .. Len(mem) - 1 :
          /\ c \in At(":") /\ \A i \in At(":") : c <= i
          /\ Len(parts) = 2
          /\ parts[1] = Slice(1, c)
          /\ parts[2] = Slice(c + 1, Len(mem))

LEMMA HeaderPieces ==
    ASSUME Closed PROVE HeaderSplit(Split(Line, ":", 2))
<1>1. PICK n \in Nat \ {0} : n = Len(mem)
  BY ClosedFacts
<1>2. ":" # "\n" /\ 2 \in 2 .. 3 /\ 1 \in 1 .. 2 /\ 2 \in 1 .. 2
  OBVIOUS
<1>3. PICK parts : parts = Split(Line, ":", 2)
  OBVIOUS
<1>4. CASE Len(mem) = 1
  <2>1. Len(parts) = 0 /\ At(":") = {}
    BY <1>2, <1>3, <1>4, NoPieces
  <2> QED BY <1>3, <2>1 DEF HeaderSplit
<1>5. CASE Len(mem) # 1
  <2>1. Line.begin = 1 /\ Line.length # 0 /\ End(Line) = n /\ 1 \in 1 .. Len(mem)
    BY <1>1, <1>5, LineIs
  <2>2. PICK start : start = Starts(Line, ":", 2)
    OBVIOUS
  <2>3. start[1] = 1 /\ start[2] = NextStart(Line, ":", 1)
    BY <1>2, <2>1, <2>2, StartsIs
  <2>4. At(":") \subseteq 1 .. n - 1
    BY <1>1, <1>2, ClosedFacts
  <2>5. CASE /\ NextStart(Line, ":", 1) = 0
             /\ \A j \in 1 .. Len(mem) : j \notin At(":")
    <3>1. At(":") = {}
      BY <1>1, <2>4, <2>5
    <3>2. \A k \in 1 .. 2 : start[k] # 0 <=> k <= 1
      BY <2>3, <2>5
    <3>3. /\ Len(Split(Line, ":", 2)) = 1
          /\ \A k \in 1 .. 1 :
                Split(Line, ":", 2)[k] =
                    [begin |-> start[k],
                     length |-> (IF k < 1 THEN start[k + 1] - 1 ELSE End(Line)) - start[k]]
      BY <1>2, <2>1, <2>2, <3>2, PiecesOf
    <3> QED BY <3>1, <3>3 DEF HeaderSplit
  <2>6. CASE \E c \in 1 .. Len(mem) - 1 :
                /\ NextStart(Line, ":", 1) = c + 1
                /\ c \in At(":")
                /\ \A j \in 1 .. c - 1 : j \notin At(":")
    <3>1. PICK c \in 1 .. n - 1 :
                /\ NextStart(Line, ":", 1) = c + 1
                /\ c \in At(":")
                /\ \A j \in 1 .. c - 1 : j \notin At(":")
      BY <1>1, <2>6
    <3>2. \A i \in At(":") : c <= i
      BY <2>4, <3>1
    <3>3. start[1] = 1 /\ start[2] = c + 1 /\ c + 1 # 0
      BY <2>3, <3>1
    <3>4. \A k \in 1 .. 2 : start[k] # 0 <=> k <= 2
      BY <3>3
    <3>5. /\ Len(parts) = 2
          /\ \A k \in 1 .. 2 : parts[k] =
                [begin |-> start[k],
                 length |-> (IF k < 2 THEN start[k + 1] - 1 ELSE End(Line)) - start[k]]
      BY <1>2, <1>3, <2>1, <2>2, <3>4, PiecesOf
    <3>6. /\ parts[1] = [begin |-> start[1], length |-> (start[2] - 1) - start[1]]
          /\ parts[2] = [begin |-> start[2], length |-> n - start[2]]
      BY <2>1, <3>5
    <3>7. (c + 1) - 1 = c
      BY <3>1
    <3>8. parts[1] = Slice(1, c) /\ parts[2] = Slice(c + 1, n)
      BY <3>3, <3>6, <3>7 DEF Slice
    <3> QED BY <1>1, <1>3, <3>1, <3>2, <3>5, <3>8 DEF HeaderSplit
  <2> QED BY <1>2, <2>1, <2>5, <2>6, NextStartIs
<1> QED BY <1>4, <1>5

\* A status line is split at its first two delimiters, if it has two.
SplitAtTwo(delim, parts) ==
    \/ Len(parts) # 3 /\ \A i, j \in At(delim) : i = j
    \/ \E i \in 1 .. Len(mem) - 1, j \in 1 .. Len(mem) - 1 :
          /\ i \in At(delim) /\ j \in At(delim) /\ i < j
          /\ \A k \in At(delim) : k = i \/ j <= k
          /\ Len(parts) = 3
          /\ parts[1] = Slice(1, i)
          /\ parts[2] = Slice(i + 1, j)
          /\ parts[3] = Slice(j + 1, Len(mem))

LEMMA StatusPieces ==
    ASSUME Closed, NEW delim, delim # "\n"
    PROVE  SplitAtTwo(delim, Split(Line, delim, 3))
<1>1. PICK n \in Nat \ {0} : n = Len(mem)
  BY ClosedFacts
<1>2. delim # "\n" /\ 3 \in 2 .. 3 /\ 1 \in 1 .. 3 /\ 2 \in 1 .. 3 /\ 3 \in 1 .. 3
  OBVIOUS
<1>3. PICK parts : parts = Split(Line, delim, 3)
  OBVIOUS
<1>4. CASE Len(mem) = 1
  <2>1. Len(parts) = 0 /\ At(delim) = {}
    BY <1>2, <1>3, <1>4, NoPieces
  <2> QED BY <1>3, <2>1 DEF SplitAtTwo
<1>5. CASE Len(mem) # 1
  <2>1. Line.begin = 1 /\ Line.length # 0 /\ End(Line) = n /\ 1 \in 1 .. Len(mem)
    BY <1>1, <1>5, LineIs
  <2>2. PICK start : start = Starts(Line, delim, 3)
    OBVIOUS
  <2>3. /\ start[1] = 1 /\ start[2] = NextStart(Line, delim, 1)
        /\ start[3] = NextStart(Line, delim, start[2])
    BY <1>2, <2>1, <2>2, StartsIs
  <2>4. At(delim) \subseteq 1 .. n - 1
    BY <1>1, <1>2, ClosedFacts
  <2>5. \A k \in 1 .. 3 : k = 1 \/ k = 2 \/ k = 3
    OBVIOUS
  <2>6. CASE /\ NextStart(Line, delim, 1) = 0
             /\ \A j \in 1 .. Len(mem) : j \notin At(delim)
    <3>1. At(delim) = {}
      BY <1>1, <2>4, <2>6
    <3>2. start[2] = 0 /\ start[3] = 0
      BY <2>3, <2>6 DEF NextStart
    <3>3. \A k \in 1 .. 3 : start[k] # 0 <=> k <= 1
      BY <2>3, <2>5, <3>2
    <3>4. /\ Len(Split(Line, delim, 3)) = 1
          /\ \A k \in 1 .. 1 :
                Split(Line, delim, 3)[k] =
                    [begin |-> start[k],
                     length |-> (IF k < 1 THEN start[k + 1] - 1 ELSE End(Line)) - start[k]]
      BY <1>2, <2>1, <2>2, <3>3, PiecesOf
    <3> QED BY <3>1, <3>4 DEF SplitAtTwo
  <2>7. CASE \E i \in 1 .. Len(mem) - 1 :
                /\ NextStart(Line, delim, 1) = i + 1
                /\ i \in At(delim)
                /\ \A k \in 1 .. i - 1 : k \notin At(delim)
    <3>1. PICK i \in 1 .. n - 1 :
                /\ NextStart(Line, delim, 1) = i + 1
                /\ i \in At(delim)
                /\ \A k \in 1 .. i - 1 : k \notin At(delim)
      BY <1>1, <2>7
    <3>2. i + 1 \in 1 .. n /\ i + 1 # 0 /\ i + 1 \in 1 .. Len(mem)
      BY <1>1
    <3>3. start[2] = i + 1 /\ start[3] = NextStart(Line, delim, i + 1)
      BY <2>3, <3>1
    <3>4. CASE /\ NextStart(Line, delim, i + 1) = 0
               /\ \A j \in i + 1 .. Len(mem) : j \notin At(delim)
      <4>1. \A k \in At(delim) : k = i
        BY <1>1, <2>4, <3>1, <3>4
      <4>2. \A k \in 1 .. 3 : start[k] # 0 <=> k <= 2
        BY <2>3, <2>5, <3>2, <3>3, <3>4
      <4>3. /\ Len(Split(Line, delim, 3)) = 2
            /\ \A k \in 1 .. 2 :
                  Split(Line, delim, 3)[k] =
                      [begin |-> start[k],
                       length |-> (IF k < 2 THEN start[k + 1] - 1 ELSE End(Line)) - start[k]]
        BY <1>2, <2>1, <2>2, <4>2, PiecesOf
      <4>4. \A a, b \in At(delim) : a = b
        BY <4>1
      <4>5. Len(Split(Line, delim, 3)) # 3
        BY <4>3
      <4> QED BY <4>4, <4>5 DEF SplitAtTwo
    <3>5. CASE \E j \in i + 1 .. Len(mem) - 1 :
                  /\ NextStart(Line, delim, i + 1) = j + 1
                  /\ j \in At(delim)
                  /\ \A k \in i + 1 .. j - 1 : k \notin At(delim)
      <4>1. PICK j \in i + 1 .. n - 1 :
                  /\ NextStart(Line, delim, i + 1) = j + 1
                  /\ j \in At(delim)
                  /\ \A k \in i + 1 .. j - 1 : k \notin At(delim)
        BY <1>1, <3>5
      <4>2. j \in 1 .. n - 1 /\ i < j /\ j + 1 # 0
        OBVIOUS
      <4>3. \A k \in At(delim) : k = i \/ j <= k
        BY <2>4, <3>1, <4>1
      <4>4. start[3] = j + 1
        BY <3>3, <4>1
      <4>5. \A k \in 1 .. 3 : start[k] # 0 <=> k <= 3
        BY <2>3, <2>5, <3>2, <3>3, <4>2, <4>4
      <4>6. /\ Len(parts) = 3
            /\ \A k \in 1 .. 3 : parts[k] =
                  [begin |-> start[k],
                   length |-> (IF k < 3 THEN start[k + 1] - 1 ELSE End(Line)) - start[k]]
        BY <1>2, <1>3, <2>1, <2>2, <4>5, PiecesOf
      <4>7. /\ parts[1] = [begin |-> start[1], length |-> (start[2] - 1) - start[1]]
            /\ parts[2] = [begin |-> start[2], length |-> (start[3] - 1) - start[2]]
            /\ parts[3] = [begin |-> start[3], length |-> n - start[3]]
        BY <2>1, <4>6
      <4>8. (i + 1) - 1 = i /\ (j + 1) - 1 = j
        OBVIOUS
      <4>9. /\ parts[1] = Slice(1, i) /\ parts[2] = Slice(i + 1, j)
            /\ parts[3] = Slice(j + 1, n)
        BY <2>3, <3>3, <4>4, <4>7, <4>8 DEF Slice
      <4> QED BY <1>1, <1>3, <3>1, <4>1, <4>2, <4>3, <4>6, <4>9 DEF SplitAtTwo
    <3> QED BY <1>2, <3>2, <3>4, <3>5, NextStartIs
  <2> QED BY <1>2, <2>1, <2>6, <2>7, NextStartIs
<1> QED BY <1>4, <1>5

\* What is left of a part of the line without the blanks at its ends.
LEMMA StrippedIs ==
    ASSUME NEW b \in Nat, NEW e \in Nat,
           NEW i \in Ink \cap b .. e, NEW j \in Ink \cap b .. e,
           \A k \in Ink \cap b .. e : i <= k /\ k <= j
    PROVE  Stripped(b, e) = SubSeq(mem, i, j)
<1> DEFINE ink == Ink \cap b .. e
<1>1. ink # {} /\ \A k \in ink : k \in Int
  OBVIOUS
<1>2. Stripped(b, e) = SubSeq(mem, CHOOSE x \in ink : \A y \in ink : x <= y,
                                   CHOOSE x \in ink : \A y \in ink : y <= x)
  BY <1>1 DEF Stripped
<1>3. i \in ink /\ j \in ink /\ \A k \in ink : i <= k /\ k <= j
  OBVIOUS
<1> HIDE DEF ink
<1>4. (CHOOSE x \in ink : \A y \in ink : x <= y) = i
  BY <1>1, <1>3
<1>5. (CHOOSE x \in ink : \A y \in ink : y <= x) = j
  BY <1>1, <1>3
<1> QED BY <1>2, <1>4, <1>5

\* Of blanks nothing is left.
LEMMA StrippedBlank ==
    ASSUME NEW b, NEW e, Ink \cap b .. e = {} PROVE Stripped(b, e) = << >>
BY DEF Stripped

\* The characters of a slice, and of the empty string.
LEMMA TextIs ==
    ASSUME NEW i \in Nat, NEW j \in Nat
    PROVE  Text([begin |-> i, length |-> j - i + 1]) = SubSeq(mem, i, j)
<1>1. (i + (j - i + 1)) - 1 = j
  OBVIOUS
<1> QED BY <1>1 DEF Text, End

LEMMA TextEmpty ==
    ASSUME Closed PROVE Text(Empty) = << >>
<1>1. Text(Empty) = SubSeq(mem, 0, (0 + 0) - 1)
  BY DEF Text, End, Empty
<1>2. mem \in Seq(Chars)
  BY DEF Closed
<1>3. (0 + 0) - 1 = -1 /\ 0 \in Int /\ -1 \in Int /\ 0 > -1
  OBVIOUS
<1>4. SubSeq(mem, 0, -1) = << >>
  BY <1>2, <1>3, SubSeqEmpty
<1> QED BY <1>1, <1>3, <1>4

\* What a slice has to be to be kept of a request.
Inside(s) ==
    /\ s \in Slices
    /\ s.length > 0 => s.begin >= 1 /\ End(s) <= Len(mem)

LEMMA InsideIs ==
    ASSUME Closed, NEW i \in 1 .. Len(mem), NEW j \in i .. Len(mem) - 1
    PROVE  Inside([begin |-> i, length |-> j - i + 1])
<1>1. PICK n \in Nat \ {0} : n = Len(mem)
  BY ClosedFacts
<1>2. i \in 1 .. n /\ j \in i .. n - 1
  BY <1>1
<1>3. j - i + 1 \in 0 .. n /\ i \in 0 .. n /\ i + (j - i + 1) <= n
  BY <1>2
<1> QED BY <1>1, <1>2, <1>3 DEF Inside, Slices, End

LEMMA InsideEmpty ==
    ASSUME Closed PROVE Inside(Empty)
<1>1. PICK n \in Nat \ {0} : n = Len(mem)
  BY ClosedFacts
<1> QED BY <1>1 DEF Inside, Slices, Empty

\* An int has at most 32 bits.
LEMMA IntMaxIs ==
    /\ IntMax \in Nat \ {0}
    /\ TenDigits(IntMax)
    /\ \A val \in 0 .. 2 * IntMax + 1 : TenDigits(val)
<1>1. IntMax \in Nat \ {0} /\ IntMax <= 2147483647
  BY IntAssumption, SMT
<1> QED BY <1>1, SMT DEF TenDigits

\* Whatever is read of a string as a number, an int is stored.
LEMMA StoredInt ==
    ASSUME NEW s \in Slices, Len(mem) \in Nat, NEW old \in IntRange
    PROVE  Stored(s, old) \subseteq IntRange
<1>1. PICK b \in Nat, l \in Nat : b = s.begin /\ l = s.length
  BY DEF Slices
<1>2. End(s) = b + l
  BY <1>1 DEF End
<1>3. PICK from : from = IF Signed(s) THEN s.begin + 1 ELSE s.begin
  OBVIOUS
<1>4. from \in Nat /\ from <= b + l
  BY <1>1, <1>3 DEF Signed
<1>5. CASE \E i \in from .. End(s) - 1 : ~IsDigit(mem[i])
  <2>1. Stored(s, old) = {old}
    BY <1>3, <1>5 DEF Stored
  <2> QED BY <2>1
<1>6. CASE ~ \E i \in from .. End(s) - 1 : ~IsDigit(mem[i])
  <2>1. PICK num : num = Horner(from, End(s))
    OBVIOUS
  <2>2. \A i \in from .. (b + l) - 1 : IsDigit(mem[i])
    BY <1>2, <1>6
  <2>3. b + l \in Nat
    OBVIOUS
  <2>4. num \in Nat
    <3>1. PICK Num :
             /\ Horner(from, b + l) = Num[b + l]
             /\ Num[from] = 0
             /\ \A i \in from + 1 .. b + l :
                   Num[i] = Num[i - 1] * 10 + DigitOf(mem[i - 1])
      BY <1>4, <2>3, HornerIs
    <3>2. \A i \in from .. b + l : Num[i] \in Nat
      BY <1>4, <2>2, <2>3, <3>1, HornerNat
    <3>3. b + l \in from .. b + l
      BY <1>4, <2>3
    <3> QED BY <1>2, <2>1, <3>1, <3>2, <3>3
  <2>5. CASE num > IntMax
    <3>1. Stored(s, old) = IntRange
      BY <1>3, <1>6, <2>1, <2>5 DEF Stored
    <3> QED BY <3>1
  <2>6. CASE ~(num > IntMax)
    <3>1. Stored(s, old) = {IF Signed(s) THEN -num ELSE num}
      BY <1>3, <1>6, <2>1, <2>6 DEF Stored
    <3>2. IntMax \in Nat
      BY IntMaxIs
    <3>3. num \in IntRange /\ -num \in IntRange
      BY <2>4, <2>6, <3>2 DEF IntRange
    <3> QED BY <3>1, <3>3
  <2> QED BY <2>5, <2>6
<1> QED BY <1>5, <1>6

-------------------------------------------------------------------------------
(* A header line *)

\* What HeaderExact says of the two strings of a line that was taken apart.
HeaderParts(name, value) ==
    \E colon \in At(":") :
       /\ \A i \in At(":") : colon <= i
       /\ Text(name) = Stripped(1, colon - 1) \/ Stripped(1, colon - 1) = << >>
       /\ Text(value) = Stripped(colon + 1, Len(mem))

\* The name is the part before the colon.
LEMMA NameIs ==
    ASSUME Closed, NEW c \in 1 .. Len(mem) - 1
    PROVE  LET name == Trim(Slice(1, c))
           IN  /\ Inside(name)
               /\ Text(name) = Stripped(1, c - 1) \/ Stripped(1, c - 1) = << >>
<1>1. PICK n \in Nat \ {0} : n = Len(mem)
  BY ClosedFacts
<1>2. c \in 1 .. n - 1 /\ c \in Nat /\ c - 1 \in Nat /\ 1 \in Nat /\ 1 <= c
  BY <1>1
<1>3. PICK name : name = Trim(Slice(1, c))
  OBVIOUS
<1>4. CASE \E i, j \in Ink \cap 1 .. c - 1 :
              /\ \A k \in Ink \cap 1 .. c - 1 : i <= k /\ k <= j
              /\ name = [begin |-> i, length |-> j - i + 1]
  <2>1. PICK i \in Ink \cap 1 .. c - 1, j \in Ink \cap 1 .. c - 1 :
              /\ \A k \in Ink \cap 1 .. c - 1 : i <= k /\ k <= j
              /\ name = [begin |-> i, length |-> j - i + 1]
    BY <1>4
  <2>2. i <= j /\ i \in Nat /\ j \in Nat
    BY <1>2, <2>1
  <2>3. i \in 1 .. Len(mem) /\ j \in i .. Len(mem) - 1
    BY <1>1, <1>2, <2>2
  <2>4. Inside(name)
    BY <2>1, <2>3, InsideIs
  <2>5. Text(name) = SubSeq(mem, i, j)
    BY <2>1, <2>2, TextIs
  <2>6. Stripped(1, c - 1) = SubSeq(mem, i, j)
    BY <1>2, <2>1, StrippedIs
  <2> QED BY <1>3, <2>4, <2>5, <2>6
<1>5. CASE /\ Ink \cap 1 .. c - 1 = {}
           /\ name = Empty \/ name = [begin |-> c, length |-> 1]
  <2>1. Stripped(1, c - 1) = << >>
    BY <1>5, StrippedBlank
  <2>2. CASE name = Empty
    BY <1>3, <2>1, <2>2, InsideEmpty
  <2>3. CASE name = [begin |-> c, length |-> 1]
    <3>1. c - c + 1 = 1
      BY <1>2
    <3>2. c \in 1 .. Len(mem) /\ c \in c .. Len(mem) - 1
      BY <1>1, <1>2
    <3>3. Inside([begin |-> c, length |-> c - c + 1])
      BY <3>2, InsideIs
    <3> QED BY <1>3, <2>1, <2>3, <3>1, <3>3
  <2> QED BY <1>5, <2>2, <2>3
<1>6. Slice(1, c) = [begin |-> 1, length |-> c - 1]
  BY DEF Slice
<1> QED BY <1>2, <1>3, <1>4, <1>5, <1>6, TrimIs

\* The value is the part behind it.
LEMMA ValueIs ==
    ASSUME Closed, NEW c \in 1 .. Len(mem) - 1
    PROVE  LET value == Trim(Slice(c + 1, Len(mem)))
           IN  Inside(value) /\ Text(value) = Stripped(c + 1, Len(mem))
<1>1. PICK n \in Nat \ {0} : n = Len(mem)
  BY ClosedFacts
<1>2. c \in 1 .. n - 1 /\ c + 1 \in Nat /\ c + 1 <= n
  BY <1>1
<1>3. PICK value : value = Trim(Slice(c + 1, n))
  OBVIOUS
<1>4. n \notin Ink
  BY <1>1, ClosedFacts
<1>5. Ink \cap c + 1 .. n = Ink \cap c + 1 .. n - 1
  BY <1>2, <1>4
<1>6. CASE \E i, j \in Ink \cap c + 1 .. n - 1 :
              /\ \A k \in Ink \cap c + 1 .. n - 1 : i <= k /\ k <= j
              /\ value = [begin |-> i, length |-> j - i + 1]
  <2>1. PICK i \in Ink \cap c + 1 .. n - 1, j \in Ink \cap c + 1 .. n - 1 :
              /\ \A k \in Ink \cap c + 1 .. n - 1 : i <= k /\ k <= j
              /\ value = [begin |-> i, length |-> j - i + 1]
    BY <1>6
  <2>2. i <= j /\ i \in Nat /\ j \in Nat
    BY <1>2, <2>1
  <2>3. i \in 1 .. Len(mem) /\ j \in i .. Len(mem) - 1
    BY <1>1, <1>2, <2>2
  <2>4. Inside(value)
    BY <2>1, <2>3, InsideIs
  <2>5. Text(value) = SubSeq(mem, i, j)
    BY <2>1, <2>2, TextIs
  <2>6. /\ i \in Ink \cap c + 1 .. n /\ j \in Ink \cap c + 1 .. n
        /\ \A k \in Ink \cap c + 1 .. n : i <= k /\ k <= j
    BY <1>5, <2>1
  <2>7. Stripped(c + 1, n) = SubSeq(mem, i, j)
    BY <1>2, <2>6, StrippedIs
  <2> QED BY <1>1, <1>3, <2>4, <2>5, <2>7
<1>7. CASE Ink \cap c + 1 .. n - 1 = {} /\ value = Empty
  <2>1. Stripped(c + 1, n) = << >>
    BY <1>5, <1>7, StrippedBlank
  <2> QED BY <1>1, <1>3, <1>7, <2>1, InsideEmpty, TextEmpty
<1>8. Slice(c + 1, n) = [begin |-> c + 1, length |-> n - (c + 1)]
  BY DEF Slice
<1>9. /\ \/ \E i, j \in Ink \cap c + 1 .. n - 1 :
               /\ \A k \in Ink \cap c + 1 .. n - 1 : i <= k /\ k <= j
               /\ value = [begin |-> i, length |-> j - i + 1]
         \/ /\ Ink \cap c + 1 .. n - 1 = {}
            /\ value = Empty \/ n \in Ink
  BY <1>2, <1>3, <1>8, TrimIs
<1> QED BY <1>4, <1>6, <1>7, <1>9

-------------------------------------------------------------------------------
(* A status line *)

\* Where the line has its method and its uri.
LEMMA FrontIs ==
    ASSUME Closed, NEW b \in 1 .. Len(mem), NEW e \in b .. Len(mem)
    PROVE  LET s == RTrim(Slice(b, e))
           IN  /\ Inside(s)
               /\ b < e /\ e - 1 \in Ink => Text(s) = SubSeq(mem, b, e - 1)
<1>1. PICK n \in Nat \ {0} : n = Len(mem)
  BY ClosedFacts
<1>2. b \in Nat /\ e \in Nat /\ b <= e /\ b \in 1 .. n /\ e \in b .. n
  BY <1>1
<1>3. PICK s : s = RTrim(Slice(b, e))
  OBVIOUS
<1>4. Slice(b, e) = [begin |-> b, length |-> e - b]
  BY DEF Slice
<1>5. CASE \E j \in Ink \cap b .. e - 1 :
              /\ \A k \in Ink \cap b .. e - 1 : k <= j
              /\ s = [begin |-> b, length |-> j - b + 1]
  <2>1. PICK j \in Ink \cap b .. e - 1 :
              /\ \A k \in Ink \cap b .. e - 1 : k <= j
              /\ s = [begin |-> b, length |-> j - b + 1]
    BY <1>5
  <2>2. j \in b .. Len(mem) - 1 /\ j \in Nat
    BY <1>1, <1>2, <2>1
  <2>3. Inside(s)
    BY <2>1, <2>2, InsideIs
  <2>4. Text(s) = SubSeq(mem, b, j)
    BY <1>2, <2>1, <2>2, TextIs
  <2>5. ASSUME b < e, e - 1 \in Ink
        PROVE  j = e - 1
    <3>1. e - 1 \in b .. e - 1
      BY <1>2, <2>5
    <3>2. e - 1 <= j
      BY <2>1, <2>5, <3>1
    <3> QED BY <1>2, <2>1, <3>2
  <2> QED BY <1>3, <2>3, <2>4, <2>5
<1>6. CASE Ink \cap b .. e - 1 = {} /\ s = Empty
  <2>1. ASSUME b < e, e - 1 \in Ink
        PROVE  FALSE
    <3>1. e - 1 \in b .. e - 1
      BY <1>2, <2>1
    <3> QED BY <1>6, <2>1, <3>1
  <2> QED BY <1>3, <1>6, <2>1, InsideEmpty
<1> QED BY <1>2, <1>3, <1>4, <1>5, <1>6, RTrimIs

\* The version is there just if the rest of the line says so.
LEMMA VersionIs ==
    ASSUME Closed, NEW b \in 1 .. Len(mem)
    PROVE  Text(RTrim(Slice(b, Len(mem)))) = <<"V">>
               <=> mem[b] = "V" /\ Stripped(b, Len(mem)) = <<"V">>
<1>1. PICK n \in Nat \ {0} : n = Len(mem)
  BY ClosedFacts
<1>2. b \in Nat /\ b <= n /\ b \in 1 .. n
  BY <1>1
<1>3. PICK s : s = RTrim(Slice(b, n))
  OBVIOUS
<1>4. Slice(b, n) = [begin |-> b, length |-> n - b]
  BY DEF Slice
<1>5. n \notin Ink
  BY <1>1, ClosedFacts
<1>6. Ink \cap b .. n = Ink \cap b .. n - 1
  BY <1>2, <1>5
<1>7. mem[b] = "V" => b \in Ink /\ b \in b .. n - 1
  <2>1. "V" \notin Blanks
    BY Zenon DEF Blanks
  <2>2. b \in DOMAIN mem
    BY ClosedFacts
  <2>3. mem[b] = "V" => b \in Ink
    BY <2>1, <2>2 DEF Ink
  <2> QED BY <1>2, <1>5, <2>3
<1>8. CASE \E j \in Ink \cap b .. n - 1 :
              /\ \A k \in Ink \cap b .. n - 1 : k <= j
              /\ s = [begin |-> b, length |-> j - b + 1]
  <2>1. PICK j \in Ink \cap b .. n - 1 :
              /\ \A k \in Ink \cap b .. n - 1 : k <= j
              /\ s = [begin |-> b, length |-> j - b + 1]
    BY <1>8
  <2>2. j \in Nat /\ b <= j /\ j <= n
    BY <1>2, <2>1
  <2>3. Text(s) = SubSeq(mem, b, j)
    BY <1>2, <2>1, <2>2, TextIs
  <2>4. b \in Ink => Stripped(b, n) = SubSeq(mem, b, j)
    <3>1. SUFFICES ASSUME b \in Ink PROVE Stripped(b, n) = SubSeq(mem, b, j)
      OBVIOUS
    <3>2. b \in Ink \cap b .. n /\ j \in Ink \cap b .. n
      BY <1>2, <1>6, <2>1, <3>1
    <3>3. \A k \in Ink \cap b .. n : b <= k /\ k <= j
      BY <1>2, <1>6, <2>1
    <3>4. PICK i : i = b
      OBVIOUS
    <3>5. /\ i \in Ink \cap b .. n /\ j \in Ink \cap b .. n
          /\ \A k \in Ink \cap b .. n : i <= k /\ k <= j
      BY <3>2, <3>3, <3>4
    <3>6. Stripped(b, n) = SubSeq(mem, i, j)
      BY <1>2, <3>5, StrippedIs
    <3> QED BY <3>4, <3>6
  <2>5. ASSUME Text(s) = <<"V">>
        PROVE  mem[b] = "V" /\ Stripped(b, n) = <<"V">>
    <3>1. mem \in Seq(Chars) /\ b \in 1 .. Len(mem) /\ j \in b .. Len(mem)
      BY <1>1, <1>2, <2>2 DEF Closed
    <3>2. Len(SubSeq(mem, b, j)) = j - b + 1 /\ SubSeq(mem, b, j)[1] = mem[b]
      BY <1>1, <1>2, <2>2, <3>1
    <3>3. mem[b] = "V"
      BY <2>3, <2>5, <3>2
    <3> QED BY <1>7, <2>3, <2>4, <2>5, <3>3
  <2>6. ASSUME mem[b] = "V", Stripped(b, n) = <<"V">>
        PROVE  Text(s) = <<"V">>
    BY <1>7, <2>3, <2>4, <2>6
  <2> QED BY <1>1, <1>3, <2>5, <2>6
<1>9. CASE Ink \cap b .. n - 1 = {} /\ s = Empty
  <2>1. Text(s) = << >>
    BY <1>9, TextEmpty
  <2>2. << >> # <<"V">>
    OBVIOUS
  <2>3. mem[b] # "V"
    BY <1>7, <1>9
  <2> QED BY <1>1, <1>3, <2>1, <2>2, <2>3
<1> QED BY <1>2, <1>3, <1>4, <1>8, <1>9, RTrimIs

\* IsStatusLine, for any delimiter.
IsSplitAt(delim, i, j) ==
    /\ At(delim) \cap 1 .. j = {i, j} /\ i < j
    /\ mem[j + 1] = "V" /\ Stripped(j + 1, Len(mem)) = <<"V">>

\* What StatusExact says of the two strings of a line that was accepted.
StatusParts(delim, method, uri) ==
    \E i, j \in DOMAIN mem :
       /\ IsSplitAt(delim, i, j)
       /\ i > 1 /\ i - 1 \in Ink => Text(method) = SubSeq(mem, 1, i - 1)
       /\ i + 1 < j /\ j - 1 \in Ink => Text(uri) = SubSeq(mem, i + 1, j - 1)

\* The first two delimiters are the only ones a status line can be split at.
LEMMA FirstTwo ==
    ASSUME NEW S, S \subseteq Nat, NEW i \in S, NEW j \in S, i < j,
           \A k \in S : k = i \/ j <= k,
           NEW x \in Nat, NEW y \in Nat, S \cap 1 .. y = {x, y}, x < y, i >= 1
    PROVE  x = i /\ y = j
<1>1. x \in S /\ y \in S
  OBVIOUS
<1>2. j <= y
  BY <1>1
<1>3. i \in S \cap 1 .. y /\ j \in S \cap 1 .. y
  BY <1>2
<1>4. (i = x \/ i = y) /\ (j = x \/ j = y)
  BY <1>3
<1> QED BY <1>4

\* A line that is not split, or holds no version, is no status line; of any
\* other the method and the uri are kept.
LEMMA StatusIs ==
    ASSUME Closed, NEW delim, delim # "\n", NEW parts, parts = Split(Line, delim, 3)
    PROVE  /\ Len(parts) = 3 /\ Text(RTrim(parts[3])) = <<"V">> =>
                 /\ Inside(RTrim(parts[1])) /\ Inside(RTrim(parts[2]))
                 /\ StatusParts(delim, RTrim(parts[1]), RTrim(parts[2]))
           /\ ~(Len(parts) = 3 /\ Text(RTrim(parts[3])) = <<"V">>) =>
                 ~ \E i, j \in DOMAIN mem : IsSplitAt(delim, i, j)
<1>1. PICK n \in Nat \ {0} : n = Len(mem)
  BY ClosedFacts
<1>2. DOMAIN mem = 1 .. n /\ At(delim) \subseteq 1 .. n - 1
  BY <1>1, ClosedFacts
<1>3. CASE Len(parts) # 3 /\ \A i, j \in At(delim) : i = j
  <2>1. ASSUME NEW i, NEW j, IsSplitAt(delim, i, j)
        PROVE  FALSE
    <3>1. At(delim) \cap 1 .. j = {i, j} /\ i < j
      BY <2>1 DEF IsSplitAt
    <3>2. i \in At(delim) /\ j \in At(delim)
      BY <3>1
    <3>3. i \in Nat /\ j \in Nat /\ i = j
      BY <1>2, <1>3, <3>2
    <3> QED BY <3>1, <3>3
  <2> QED BY <1>3, <2>1
<1>4. CASE \E i \in 1 .. Len(mem) - 1, j \in 1 .. Len(mem) - 1 :
              /\ i \in At(delim) /\ j \in At(delim) /\ i < j
              /\ \A k \in At(delim) : k = i \/ j <= k
              /\ Len(parts) = 3
              /\ parts[1] = Slice(1, i)
              /\ parts[2] = Slice(i + 1, j)
              /\ parts[3] = Slice(j + 1, Len(mem))
  <2>1. PICK i \in 1 .. n - 1, j \in 1 .. n - 1 :
              /\ i \in At(delim) /\ j \in At(delim) /\ i < j
              /\ \A k \in At(delim) : k = i \/ j <= k
              /\ Len(parts) = 3
              /\ parts[1] = Slice(1, i)
              /\ parts[2] = Slice(i + 1, j)
              /\ parts[3] = Slice(j + 1, n)
    BY <1>1, <1>4
  <2>2. j + 1 \in 1 .. Len(mem) /\ 1 \in 1 .. Len(mem) /\ i + 1 \in 1 .. Len(mem)
    BY <1>1
  <2>3. Text(RTrim(parts[3])) = <<"V">>
            <=> mem[j + 1] = "V" /\ Stripped(j + 1, Len(mem)) = <<"V">>
    BY <1>1, <2>1, <2>2, VersionIs
  <2>4. ASSUME Text(RTrim(parts[3])) = <<"V">>
        PROVE  /\ Inside(RTrim(parts[1])) /\ Inside(RTrim(parts[2]))
               /\ StatusParts(delim, RTrim(parts[1]), RTrim(parts[2]))
    <3>1. i \in 1 .. Len(mem) /\ j \in i + 1 .. Len(mem)
      BY <1>1, <2>1
    <3>2. /\ Inside(RTrim(parts[1]))
          /\ 1 < i /\ i - 1 \in Ink =>
                 Text(RTrim(parts[1])) = SubSeq(mem, 1, i - 1)
      BY <2>1, <2>2, <3>1, FrontIs
    <3>3. /\ Inside(RTrim(parts[2]))
          /\ i + 1 < j /\ j - 1 \in Ink =>
                 Text(RTrim(parts[2])) = SubSeq(mem, i + 1, j - 1)
      BY <2>1, <2>2, <3>1, FrontIs
    <3>4. At(delim) \cap 1 .. j = {i, j}
      <4>1. \A k \in At(delim) \cap 1 .. j : k = i \/ k = j
        BY <1>2, <2>1
      <4>2. i \in 1 .. j /\ j \in 1 .. j
        BY <2>1
      <4> QED BY <2>1, <4>1, <4>2
    <3>5. IsSplitAt(delim, i, j)
      BY <2>1, <2>3, <2>4, <3>4 DEF IsSplitAt
    <3>6. i \in DOMAIN mem /\ j \in DOMAIN mem /\ (i > 1 <=> 1 < i)
      BY <1>2
    <3>7. StatusParts(delim, RTrim(parts[1]), RTrim(parts[2]))
      BY <3>2, <3>3, <3>5, <3>6 DEF StatusParts
    <3> QED BY <3>2, <3>3, <3>7
  <2>5. ASSUME NEW x \in DOMAIN mem, NEW y \in DOMAIN mem, IsSplitAt(delim, x, y)
        PROVE  Text(RTrim(parts[3])) = <<"V">>
    <3>1. At(delim) \subseteq Nat /\ x \in Nat /\ y \in Nat /\ i >= 1
      BY <1>2
    <3>2. At(delim) \cap 1 .. y = {x, y} /\ x < y
      BY <2>5 DEF IsSplitAt
    <3>3. y = j
      BY <2>1, <3>1, <3>2, FirstTwo
    <3> QED BY <2>3, <2>5, <3>3 DEF IsSplitAt
  <2> QED BY <2>1, <2>4, <2>5
<1> QED BY <1>3, <1>4, StatusPieces DEF SplitAtTwo

-------------------------------------------------------------------------------
(* The lines there are *)

\* Closed, of any sequence.
IsClosed(m) ==
    /\ m \in Seq(Chars)
    /\ Len(m) >= 1
    /\ m[Len(m)] = "\n"
    /\ \A i \in 1 .. Len(m) - 1 : m[i] # "\n"

\* A sequence over a set is one over a larger set.
LEMMA SeqOfMore ==
    ASSUME NEW S, NEW T, S \subseteq T, NEW q \in Seq(S) PROVE q \in Seq(T)
OBVIOUS

\* A line feed makes a line of what a client sends.
LEMMA SentLine ==
    ASSUME NEW l \in Seq(STRING), \A i \in DOMAIN l : l[i] # "\n"
    PROVE  IsClosed(Append(l, "\n"))
<1>1. PICK lf : lf = "\n"
  OBVIOUS
<1>2. lf \in Chars
  BY <1>1, Zenon DEF Chars, Blanks
<1>3. STRING \subseteq Chars
  BY Zenon DEF Chars
<1>4. l \in Seq(Chars)
  BY <1>3, SeqOfMore, Zenon
<1>5. PICK n \in Nat : n = Len(l)
  BY <1>4
<1>6. PICK m : m = Append(l, lf)
  OBVIOUS
<1>7. /\ m \in Seq(Chars) /\ Len(m) = n + 1 /\ m[n + 1] = lf
      /\ \A i \in 1 .. n : m[i] = l[i]
  BY <1>2, <1>4, <1>5, <1>6
<1>8. \A i \in 1 .. n : m[i] # lf
  <2>1. DOMAIN l = 1 .. n
    BY <1>4, <1>5
  <2> QED BY <1>1, <1>7, <2>1
<1>9. n + 1 >= 1 /\ (n + 1) - 1 = n
  OBVIOUS
<1> QED BY <1>1, <1>6, <1>7, <1>8, <1>9 DEF IsClosed

\* One character of a sequence.
LEMMA OneChar ==
    ASSUME NEW S, NEW m \in Seq(S), NEW i \in 1 .. Len(m)
    PROVE  SubSeq(m, i, i) = <<m[i]>>
<1>1. PICK z : z = SubSeq(m, i, i)
  OBVIOUS
<1>2. i \in Int /\ i - i + 1 = 1
  OBVIOUS
<1>3. z \in Seq(S) /\ Len(z) = 1 /\ z[1] = m[i]
  <2>1. \A j \in i .. i : m[j] \in S
    OBVIOUS
  <2>2. /\ z \in Seq(S)
        /\ Len(z) = IF i <= i THEN i - i + 1 ELSE 0
        /\ \A j \in 1 .. i - i + 1 : z[j] = m[i + j - 1]
    BY <1>1, <1>2, <2>1, SubSeqProperties
  <2>3. 1 \in 1 .. i - i + 1 /\ i + 1 - 1 = i /\ i <= i
    BY <1>2
  <2> QED BY <1>2, <2>2, <2>3
<1>4. z = <<z[1]>>
  BY <1>3
<1> QED BY <1>1, <1>3, <1>4

\* The characters of a line that is put together of five and more.
LEMMA FiveAnd ==
    ASSUME NEW S, NEW a \in S, NEW b \in S, NEW c \in S, NEW d \in S, NEW e \in S,
           NEW u \in Seq(S), NEW n \in Nat, n = Len(u),
           NEW m, m = <<a, b, c>> \o u \o <<d, e>>
    PROVE  /\ m \in Seq(S) /\ Len(m) = n + 5
           /\ m[1] = a /\ m[2] = b /\ m[3] = c /\ m[n + 4] = d /\ m[n + 5] = e
           /\ \A i \in 4 .. n + 3 : m[i] = u[i - 3]
<1>1. PICK x : x = <<a, b, c>> \o u
  OBVIOUS
<1>2. x \in Seq(S) /\ Len(x) = n + 3
  BY <1>1
<1>3. \A i \in 1 .. n + 3 : x[i] = IF i <= 3 THEN <<a, b, c>>[i] ELSE u[i - 3]
  BY <1>1
<1>4. m = x \o <<d, e>>
  BY <1>1
<1>5. m \in Seq(S) /\ Len(m) = n + 5
  BY <1>2, <1>4
<1>6. \A i \in 1 .. n + 5 : m[i] = IF i <= n + 3 THEN x[i] ELSE <<d, e>>[i - (n + 3)]
  BY <1>2, <1>4
<1>7. /\ n + 5 \in 1 .. n + 5 /\ n + 4 \in 1 .. n + 5
      /\ (n + 5) - (n + 3) = 2 /\ (n + 4) - (n + 3) = 1
      /\ ~(n + 5 <= n + 3) /\ ~(n + 4 <= n + 3)
  OBVIOUS
<1>8. m[n + 5] = e /\ m[n + 4] = d
  BY <1>6, <1>7
<1>9. \A i \in 1 .. n + 3 : m[i] = x[i]
  BY <1>6
<1>10. m[1] = a /\ m[2] = b /\ m[3] = c
  <2>1. 1 \in 1 .. n + 3 /\ 2 \in 1 .. n + 3 /\ 3 \in 1 .. n + 3
    OBVIOUS
  <2>2. x[1] = a /\ x[2] = b /\ x[3] = c
    BY <1>3, <2>1
  <2> QED BY <1>9, <2>1, <2>2
<1>11. \A i \in 4 .. n + 3 : m[i] = u[i - 3]
  BY <1>3, <1>9
<1> QED BY <1>5, <1>8, <1>10, <1>11

\* The line of hiw_response_set_content_length is one.
LEMMA LengthLine ==
    ASSUME NEW u \in Seq(Chars), \A i \in 1 .. Len(u) : u[i] # "\n"
    PROVE  IsClosed(<<"L", ":", " ">> \o u \o <<"\r", "\n">>)
<1>1. PICK a, b, c, d, lf : a = "L" /\ b = ":" /\ c = " " /\ d = "\r" /\ lf = "\n"
  OBVIOUS
<1>2. a \in Chars /\ b \in Chars /\ c \in Chars /\ d \in Chars /\ lf \in Chars
  BY <1>1, Zenon DEF Chars, Blanks
<1>3. a # lf /\ b # lf /\ c # lf /\ d # lf
  BY <1>1, Zenon
<1>4. PICK m : m = <<a, b, c>> \o u \o <<d, lf>>
  OBVIOUS
<1>5. m = <<"L", ":", " ">> \o u \o <<"\r", "\n">>
  BY <1>1, <1>4, Zenon
<1>6. PICK n \in Nat : n = Len(u)
  OBVIOUS
<1>7. /\ m \in Seq(Chars) /\ Len(m) = n + 5
      /\ m[1] = a /\ m[2] = b /\ m[3] = c /\ m[n + 4] = d /\ m[n + 5] = lf
      /\ \A i \in 4 .. n + 3 : m[i] = u[i - 3]
  BY <1>2, <1>4, <1>6, FiveAnd
<1>8. ASSUME NEW i \in 4 .. n + 3
      PROVE  m[i] # lf
  <2>1. i - 3 \in 1 .. Len(u)
    BY <1>6
  <2> QED BY <1>1, <1>7, <2>1
<1>9. \A i \in 1 .. (n + 5) - 1 : m[i] # lf
  <2>1. \A i \in 1 .. (n + 5) - 1 :
            i = 1 \/ i = 2 \/ i = 3 \/ i = n + 4 \/ i \in 4 .. n + 3
    OBVIOUS
  <2> QED BY <1>3, <1>7, <1>8, <2>1
<1>10. n + 5 >= 1
  OBVIOUS
<1>11. IsClosed(m)
  BY <1>1, <1>7, <1>9, <1>10 DEF IsClosed
<1> QED BY <1>5, <1>11, Zenon

-------------------------------------------------------------------------------
(* The invariant *)

\* InsideLine and LineExact, of any line, phase and strings, so that they can
\* be stated of the state behind a step that leaves mem alone.
InsideOf(m, ss) ==
    \/ ss = << >>
    \/ /\ ss \in [1 .. 2 -> [begin : 0 .. Len(m), length : 0 .. Len(m)]]
       /\ \A i \in 1 .. 2 :
             ss[i].length > 0 => ss[i].begin >= 1 /\ End(ss[i]) <= Len(m)

AtOf(m, c) == {i \in DOMAIN m : m[i] = c}
InkOf(m) == {i \in DOMAIN m : m[i] \notin Blanks}
TextOf(m, s) == SubSeq(m, s.begin, End(s) - 1)
StrippedOf(m, from, to) ==
    LET ink == InkOf(m) \cap (from .. to)
    IN  IF ink = {} THEN << >>
        ELSE SubSeq(m, CHOOSE i \in ink : \A j \in ink : i <= j,
                       CHOOSE i \in ink : \A j \in ink : j <= i)

HeaderOf(m, name, value) ==
    \E colon \in AtOf(m, ":") :
       /\ \A i \in AtOf(m, ":") : colon <= i
       /\ TextOf(m, name) = StrippedOf(m, 1, colon - 1)
          \/ StrippedOf(m, 1, colon - 1) = << >>
       /\ TextOf(m, value) = StrippedOf(m, colon + 1, Len(m))

SplitAtOf(m, i, j) ==
    /\ AtOf(m, " ") \cap 1 .. j = {i, j} /\ i < j
    /\ m[j + 1] = "V" /\ StrippedOf(m, j + 1, Len(m)) = <<"V">>

StatusOf(m, method, uri) ==
    \E i, j \in DOMAIN m :
       /\ SplitAtOf(m, i, j)
       /\ i > 1 /\ i - 1 \in InkOf(m) => TextOf(m, method) = SubSeq(m, 1, i - 1)
       /\ i + 1 < j /\ j - 1 \in InkOf(m) =>
              TextOf(m, uri) = SubSeq(m, i + 1, j - 1)

ExactOf(m, ph, ss) ==
    /\ ph = "parsed" => HeaderOf(m, ss[1], ss[2])
    /\ ph \in {"separator", "faulty"} => AtOf(m, ":") = {}
    /\ ph = "accepted" => StatusOf(m, ss[1], ss[2])
    /\ ph = "invalid" => ~ \E i, j \in DOMAIN m : SplitAtOf(m, i, j)

\* The line is closed by its line feed, no string is kept before the line is
\* parsed, every string is inside of the line, and what is kept is what the
\* line says.
LineInv ==
    /\ TypeOK
    /\ phase # "respond" => IsClosed(mem)
    /\ phase \in {"header", "status", "respond"} => strings = << >>
    /\ InsideOf(mem, strings)
    /\ ExactOf(mem, phase, strings)

LEMMA HeaderSame ==
    ASSUME NEW x, NEW y PROVE HeaderOf(mem, x, y) <=> HeaderParts(x, y)
BY Zenon DEF HeaderOf, HeaderParts, AtOf, At, TextOf, Text, StrippedOf, Stripped,
   InkOf, Ink

LEMMA SplitAtSame ==
    ASSUME NEW i, NEW j PROVE SplitAtOf(mem, i, j) <=> IsStatusLine(i, j)
BY Zenon DEF SplitAtOf, IsStatusLine, AtOf, At, StrippedOf, Stripped, InkOf, Ink

LEMMA SpacesSame ==
    ASSUME NEW i, NEW j, NEW c, c = " "
    PROVE  SplitAtOf(mem, i, j) <=> IsSplitAt(c, i, j)
BY Zenon DEF SplitAtOf, IsSplitAt, AtOf, At, StrippedOf, Stripped, InkOf, Ink

LEMMA StatusSame ==
    ASSUME NEW x, NEW y, NEW c, c = " "
    PROVE  StatusOf(mem, x, y) <=> StatusParts(c, x, y)
BY SpacesSame, Zenon DEF StatusOf, StatusParts, TextOf, Text, InkOf, Ink

LEMMA ClosedSame == IsClosed(mem) <=> Closed
BY Zenon DEF IsClosed, Closed

\* The invariant gives the properties.
LEMMA LineInvExact == LineInv => LineExact
<1> SUFFICES ASSUME LineInv PROVE LineExact
  OBVIOUS
<1>1. ExactOf(mem, phase, strings)
  BY DEF LineInv
<1>2. phase = "parsed" => HeaderParts(strings[1], strings[2])
  BY <1>1, HeaderSame, Zenon DEF ExactOf
<1>3. phase \in {"separator", "faulty"} => At(":") = {}
  BY <1>1, Zenon DEF ExactOf, AtOf, At
<1>4. HeaderExact
  BY <1>2, <1>3, Zenon DEF HeaderExact, HeaderParts
<1>5. phase = "accepted" => StatusOf(mem, strings[1], strings[2])
  BY <1>1, Zenon DEF ExactOf
<1>6. phase = "invalid" => ~ \E i, j \in DOMAIN mem : IsStatusLine(i, j)
  BY <1>1, SplitAtSame, Zenon DEF ExactOf
<1>7. phase = "accepted" =>
          \E i, j \in DOMAIN mem :
             /\ IsStatusLine(i, j)
             /\ i > 1 /\ i - 1 \in Ink => Text(strings[1]) = SubSeq(mem, 1, i - 1)
             /\ i + 1 < j /\ j - 1 \in Ink =>
                    Text(strings[2]) = SubSeq(mem, i + 1, j - 1)
  BY <1>5, SplitAtSame, Zenon DEF StatusOf, TextOf, Text, InkOf, Ink
<1>8. StatusExact
  BY <1>6, <1>7, Zenon DEF StatusExact
<1> QED BY <1>4, <1>8 DEF LineExact

LEMMA LineInvInside == LineInv => InsideLine
<1> SUFFICES ASSUME LineInv PROVE InsideLine
  OBVIOUS
<1>1. TypeOK /\ InsideOf(mem, strings)
  BY DEF LineInv
<1>2. ASSUME NEW i \in DOMAIN strings, strings[i].length > 0
      PROVE  strings[i].begin >= 1 /\ End(strings[i]) <= Len(mem)
  <2>1. strings # << >>
    BY <1>2
  <2>2. DOMAIN strings = 1 .. 2
    BY <1>1, <2>1 DEF InsideOf
  <2> QED BY <1>1, <1>2, <2>1, <2>2 DEF InsideOf
<1> QED BY <1>1, <1>2 DEF InsideLine

\* At first nothing is parsed.
LEMMA LineInit == Init => LineInv
<1> SUFFICES ASSUME Init PROVE LineInv
  OBVIOUS
<1>1. strings = << >> /\ content_length = -1 /\ sent = None
  BY DEF Init
<1>2. -1 \in IntRange
  BY IntMaxIs DEF IntRange
<1>3. phase \in {"header", "status", "respond"}
  BY DEF Init
<1>4. ASSUME phase # "respond" PROVE IsClosed(mem)
  <2>1. PICK l \in HeaderLines \cup StatusLines : mem = Append(l, "\n")
    BY <1>4 DEF Init
  <2>2. l \in Seq(STRING) /\ \A i \in DOMAIN l : l[i] # "\n"
    BY LinesAssumption, Zenon
  <2> QED BY <2>1, <2>2, SentLine
<1>5. phase = "respond" => mem = << >>
  BY DEF Init
<1>6. TypeOK
  BY <1>1, <1>2, <1>3, <1>4, <1>5 DEF TypeOK, IsClosed
<1>7. InsideOf(mem, strings)
  BY <1>1 DEF InsideOf
<1>8. ExactOf(mem, phase, strings)
  BY <1>3 DEF ExactOf
<1> QED BY <1>1, <1>4, <1>6, <1>7, <1>8 DEF LineInv

\* Two strings that are kept are inside of the line if each is.
LEMMA BothInside ==
    ASSUME NEW x, NEW y, Inside(x), Inside(y) PROVE InsideOf(mem, <<x, y>>)
<1> DEFINE S == [begin : 0 .. Len(mem), length : 0 .. Len(mem)]
<1>1. x \in S /\ y \in S
  BY DEF Inside, Slices
<1> HIDE DEF S
<1>2. PICK ss : ss = <<x, y>>
  OBVIOUS
<1>3. ss[1] = x /\ ss[2] = y /\ ss \in [1 .. 2 -> S]
  BY <1>1, <1>2
<1>4. \A i \in 1 .. 2 : i = 1 \/ i = 2
  OBVIOUS
<1>5. \A i \in 1 .. 2 : ss[i].length > 0 => ss[i].begin >= 1 /\ End(ss[i]) <= Len(mem)
  BY <1>3, <1>4 DEF Inside
<1> QED BY <1>2, <1>3, <1>5 DEF InsideOf, S

\* What a step that parses a line has to leave behind.
LEMMA ParseKeeps ==
    ASSUME LineInv, phase # "respond", UNCHANGED <<mem, sent>>,
           phase' \in {"accepted", "invalid", "parsed", "separator", "faulty"},
           InsideOf(mem, strings'), ExactOf(mem, phase', strings'),
           content_length' \in IntRange
    PROVE  LineInv'
<1>1. mem' = mem /\ sent' = sent
  OBVIOUS
<1>2. IsClosed(mem) /\ mem[Len(mem)] = "\n" /\ sent \in Lengths \cup {None}
  BY DEF LineInv, TypeOK, IsClosed
<1>3. strings' = << >> \/ strings' \in [1 .. 2 -> [begin : 0 .. Len(mem), length : 0 .. Len(mem)]]
  BY DEF InsideOf
<1>4. TypeOK'
  BY <1>1, <1>2, <1>3 DEF TypeOK, Slices
<1>5. IsClosed(mem')
  BY <1>1, <1>2
<1>6. InsideOf(mem', strings') /\ ExactOf(mem', phase', strings')
  BY <1>1
<1>7. phase' \notin {"header", "status", "respond"}
  OBVIOUS
<1> QED BY <1>4, <1>5, <1>6, <1>7 DEF LineInv

LEMMA StatusKeeps ==
    ASSUME LineInv, ParseStatusLine PROVE LineInv'
<1>1. /\ phase = "status" /\ UNCHANGED <<mem, sent>>
      /\ content_length' = content_length
  BY DEF ParseStatusLine, Pending
<1>2. Closed /\ strings = << >> /\ content_length \in IntRange
  BY <1>1, ClosedSame DEF LineInv, TypeOK
<1>3. PICK sp : sp = " "
  OBVIOUS
<1>4. sp # "\n"
  BY <1>3, Zenon
<1>5. PICK parts : parts = Split(Line, sp, 3)
  OBVIOUS
<1>6. IF Len(parts) = 3 /\ Text(RTrim(parts[3])) = <<"V">>
      THEN phase' = "accepted" /\ strings' = <<RTrim(parts[1]), RTrim(parts[2])>>
      ELSE phase' = "invalid" /\ strings' = strings
  BY <1>3, <1>5, Zenon DEF ParseStatusLine
<1>7. CASE Len(parts) = 3 /\ Text(RTrim(parts[3])) = <<"V">>
  <2>1. PICK x, y : x = RTrim(parts[1]) /\ y = RTrim(parts[2])
    OBVIOUS
  <2>2. Inside(x) /\ Inside(y) /\ StatusParts(sp, x, y)
    BY <1>2, <1>4, <1>5, <1>7, <2>1, StatusIs
  <2>3. phase' = "accepted" /\ strings' = <<x, y>>
    BY <1>6, <1>7, <2>1
  <2>4. StatusOf(mem, x, y)
    BY <1>3, <2>2, StatusSame, Zenon
  <2>5. strings'[1] = x /\ strings'[2] = y
    BY <2>3
  <2>6. ExactOf(mem, phase', strings')
    BY <2>3, <2>4, <2>5 DEF ExactOf
  <2>7. InsideOf(mem, strings')
    BY <2>2, <2>3, BothInside
  <2> QED BY <1>1, <1>2, <2>3, <2>6, <2>7, ParseKeeps
<1>8. CASE ~(Len(parts) = 3 /\ Text(RTrim(parts[3])) = <<"V">>)
  <2>1. ~ \E i, j \in DOMAIN mem : IsSplitAt(sp, i, j)
    BY <1>2, <1>4, <1>5, <1>8, StatusIs
  <2>2. ~ \E i, j \in DOMAIN mem : SplitAtOf(mem, i, j)
    BY <1>3, <2>1, SpacesSame, Zenon
  <2>3. phase' = "invalid" /\ strings' = << >>
    BY <1>2, <1>6, <1>8
  <2>4. ExactOf(mem, phase', strings')
    BY <2>2, <2>3 DEF ExactOf
  <2>5. InsideOf(mem, strings')
    BY <2>3 DEF InsideOf
  <2> QED BY <1>1, <1>2, <2>3, <2>4, <2>5, ParseKeeps
<1> QED BY <1>7, <1>8

LEMMA HeaderKeeps ==
    ASSUME LineInv, ParseHeaderLine PROVE LineInv'
<1>1. PICK parts : parts = Split(Line, ":", 2)
  OBVIOUS
<1>2. PICK x, y : x = Trim(parts[1]) /\ y = Trim(parts[2])
  OBVIOUS
<1>3. /\ phase = "header" /\ UNCHANGED <<mem, sent>> /\ Len(parts) = 2
      /\ phase' = "parsed" /\ strings' = <<x, y>>
  BY <1>1, <1>2 DEF ParseHeaderLine, Pending
<1>4. strings'[1] = x /\ strings'[2] = y
  BY <1>3
<1>5. content_length' \in IF Text(x) = <<"L">> THEN Stored(y, content_length)
                                               ELSE {content_length}
  BY <1>4 DEF ParseHeaderLine
<1>6. Closed /\ content_length \in IntRange /\ Len(mem) \in Nat
  BY <1>3, ClosedSame, ClosedFacts DEF LineInv, TypeOK
<1>7. PICK c \in 1 .. Len(mem) - 1 :
         /\ c \in At(":") /\ \A i \in At(":") : c <= i
         /\ parts[1] = Slice(1, c)
         /\ parts[2] = Slice(c + 1, Len(mem))
  BY <1>1, <1>3, <1>6, HeaderPieces DEF HeaderSplit
<1>8. /\ Inside(x)
      /\ Text(x) = Stripped(1, c - 1) \/ Stripped(1, c - 1) = << >>
  BY <1>2, <1>6, <1>7, NameIs
<1>9. Inside(y) /\ Text(y) = Stripped(c + 1, Len(mem))
  BY <1>2, <1>6, <1>7, ValueIs
<1>10. HeaderParts(x, y)
  BY <1>7, <1>8, <1>9, Zenon DEF HeaderParts
<1>11. HeaderOf(mem, x, y)
  BY <1>10, HeaderSame
<1>12. ExactOf(mem, phase', strings')
  BY <1>3, <1>4, <1>11 DEF ExactOf
<1>13. InsideOf(mem, strings')
  BY <1>3, <1>8, <1>9, BothInside
<1>14. content_length' \in IntRange
  <2>1. y \in Slices
    BY <1>9 DEF Inside
  <2>2. Stored(y, content_length) \subseteq IntRange
    BY <1>6, <2>1, StoredInt
  <2> QED BY <1>5, <1>6, <2>2
<1> QED BY <1>3, <1>12, <1>13, <1>14, ParseKeeps

LEMMA NoHeaderKeeps ==
    ASSUME LineInv, ParseNoHeader PROVE LineInv'
<1>1. /\ phase = "header" /\ UNCHANGED <<mem, sent>>
      /\ Len(Split(Line, ":", 2)) # 2
      /\ phase' = "separator" \/ phase' = "faulty"
      /\ strings' = strings /\ content_length' = content_length
  BY DEF ParseNoHeader, Pending
<1>2. Closed /\ strings = << >> /\ content_length \in IntRange
  BY <1>1, ClosedSame DEF LineInv, TypeOK
<1>3. At(":") = {}
  BY <1>1, <1>2, HeaderPieces DEF HeaderSplit
<1>4. AtOf(mem, ":") = {}
  BY <1>3 DEF At, AtOf
<1>5. ExactOf(mem, phase', strings')
  BY <1>1, <1>4 DEF ExactOf
<1>6. InsideOf(mem, strings')
  BY <1>1, <1>2 DEF InsideOf
<1> QED BY <1>1, <1>2, <1>5, <1>6, ParseKeeps

LEMMA LengthKeeps ==
    ASSUME LineInv, NEW len \in Lengths, SetContentLength(len) PROVE LineInv'
<1>1. /\ phase = "respond" /\ phase' = "header" /\ sent' = len
      /\ strings' = strings /\ content_length' = content_length
  BY DEF SetContentLength
<1>2. PICK val : val = len % (2 * (IntMax + 1))
  OBVIOUS
<1>3. PICK u : u = UiToC(TempSize, val)
  OBVIOUS
<1>4. mem' = <<"L", ":", " ">> \o u \o <<"\r", "\n">>
  BY <1>2, <1>3, Zenon DEF SetContentLength
<1>5. TempSize \in 1 .. 10
  BY IntMaxIs, WidthIs DEF TempSize
<1>6. TenDigits(val)
  <2>1. len \in Int
    BY LinesAssumption, IntMaxIs DEF IntRange
  <2>2. PICK m \in Nat \ {0} : m = 2 * (IntMax + 1)
    BY IntMaxIs
  <2>3. len % m \in 0 .. m - 1
    BY <2>1
  <2>4. val \in 0 .. 2 * IntMax + 1
    BY <1>2, <2>2, <2>3, IntMaxIs
  <2> QED BY <2>4, IntMaxIs
<1>7. u \in Seq(Chars) /\ \A i \in 1 .. Len(u) : u[i] # "\n"
  BY <1>3, <1>5, <1>6, WrittenIs
<1>8. IsClosed(mem')
  BY <1>4, <1>7, LengthLine, Zenon
<1>9. strings = << >> /\ content_length \in IntRange
  BY <1>1 DEF LineInv, TypeOK
<1>10. TypeOK'
  BY <1>1, <1>8, <1>9 DEF TypeOK, IsClosed
<1>11. InsideOf(mem', strings')
  BY <1>1, <1>9 DEF InsideOf
<1>12. ExactOf(mem', phase', strings')
  BY <1>1 DEF ExactOf
<1> QED BY <1>1, <1>8, <1>9, <1>10, <1>11, <1>12 DEF LineInv

\* No step breaks the invariant.
LEMMA LineStep == LineInv /\ [Next]_vars => LineInv'
<1> SUFFICES ASSUME LineInv, [Next]_vars PROVE LineInv'
  OBVIOUS
<1>1. CASE ParseStatusLine
  BY <1>1, StatusKeeps
<1>2. CASE ParseHeaderLine
  BY <1>2, HeaderKeeps
<1>3. CASE ParseNoHeader
  BY <1>3, NoHeaderKeeps
<1>4. ASSUME NEW len \in Lengths, SetContentLength(len)
      PROVE  LineInv'
  BY <1>4, LengthKeeps
<1>5. CASE UNCHANGED vars
  BY <1>5, Zenon DEF vars, LineInv, TypeOK, Slices
<1> QED BY <1>1, <1>2, <1>3, <1>4, <1>5 DEF Next

THEOREM LinesInductive == Spec => []LineInv
BY LineInit, LineStep, PTL DEF Spec

\* No string that is kept of a request reaches outside of its line, whatever
\* hiw_string_split and hiw_string_trim are given, and the int that
\* hiw_string_toi stores is one.
THEOREM LinesInside == Spec => []InsideLine
BY LinesInductive, LineInvInside, PTL

\* A header line is taken apart at its first colon and a status line at its
\* first two spaces, just the lines without are refused, and what is kept is
\* what is between them without its blanks - of every line, however long.
THEOREM LinesExact == Spec => []LineExact
BY LinesInductive, LineInvExact, PTL

-------------------------------------------------------------------------------
(* Lengths *)

\* LengthIsRead, of any line.
HornerOf(m, from, end) ==
    LET Num[i \in from .. end] ==
            IF i = from THEN 0 ELSE Num[i - 1] * 10 + DigitOf(m[i - 1])
    IN  Num[end]
SignedOf(m, s) == s.length > 0 /\ m[s.begin] = "-"

ReadOf(m, v, length) ==
    LET from == IF SignedOf(m, v) THEN v.begin + 1 ELSE v.begin
        abs == IF SignedOf(m, v) THEN -length ELSE length
    IN  /\ \A i \in from .. End(v) - 1 : IsDigit(m[i])
        /\ \/ /\ \A i \in from .. End(v) - 1 : DigitAt(abs, (End(v) - 1) - i) = m[i]
              /\ Rest(abs, End(v) - from) = 0
           \/ HornerOf(m, from, End(v)) > IntMax

\* The line of hiw_response_set_content_length.
LengthLineOf(len) ==
    <<"L", ":", " ">> \o UiToC(TempSize, len % (2 * (IntMax + 1))) \o <<"\r", "\n">>

\* Before a header is parsed there is no length, what is read is the line a
\* response has sent if it has sent one, and a length that is kept is what the
\* value says and what was sent.
LengthInv ==
    /\ phase \in {"header", "status", "respond"} => content_length = -1
    /\ phase = "header" /\ sent # None => mem = LengthLineOf(sent)
    /\ phase = "parsed" /\ content_length # -1 =>
           ReadOf(mem, strings[2], content_length)
    /\ phase = "parsed" /\ sent # None /\ sent >= 0 => content_length = sent

LEMMA ReadSame ==
    ASSUME NEW v, NEW length
    PROVE  ReadOf(mem, v, length) <=>
              LET from == IF Signed(v) THEN v.begin + 1 ELSE v.begin
                  abs == IF Signed(v) THEN -length ELSE length
              IN  /\ \A i \in from .. End(v) - 1 : IsDigit(mem[i])
                  /\ \/ Denotes(abs, from, End(v) - 1)
                        /\ Rest(abs, End(v) - from) = 0
                     \/ Horner(from, End(v)) > IntMax
BY Zenon DEF ReadOf, Signed, SignedOf, Denotes, Horner, HornerOf

\* A length that is stored of a string is what the string says.
LEMMA StoredSays ==
    ASSUME NEW s \in Slices, Len(mem) \in Nat, NEW length \in Stored(s, -1),
           length # -1
    PROVE  ReadOf(mem, s, length)
<1>1. PICK b \in Nat, l \in Nat : b = s.begin /\ l = s.length
  BY DEF Slices
<1>2. PICK e \in Nat : e = End(s) /\ e = b + l
  BY <1>1 DEF End
<1>3. PICK from : from = IF Signed(s) THEN s.begin + 1 ELSE s.begin
  OBVIOUS
<1>4. from \in Nat /\ from <= e
  BY <1>1, <1>2, <1>3 DEF Signed
<1>5. \A i \in from .. e - 1 : IsDigit(mem[i])
  <2>1. SUFFICES ASSUME NEW i \in from .. e - 1, ~IsDigit(mem[i])
                 PROVE  Stored(s, -1) = {-1}
    OBVIOUS
  <2> QED BY <1>2, <1>3, <2>1 DEF Stored
<1>6. PICK h : h = Horner(from, e)
  OBVIOUS
<1>7. /\ h \in Nat /\ Rest(h, e - from) = 0
      /\ \A i \in from .. e - 1 : DigitAt(h, (e - 1) - i) = mem[i]
  BY <1>4, <1>5, <1>6, HornerDigits
<1>8. PICK abs : abs = IF Signed(s) THEN -length ELSE length
  OBVIOUS
<1>9. h > IntMax \/ abs = h
  <2>1. SUFFICES ASSUME ~(h > IntMax) PROVE abs = h
    OBVIOUS
  <2>2. Stored(s, -1) = {IF Signed(s) THEN -h ELSE h}
    BY <1>2, <1>3, <1>5, <1>6, <2>1 DEF Stored
  <2>3. length = IF Signed(s) THEN -h ELSE h
    BY <2>2
  <2>4. -(-h) = h
    BY <1>7
  <2> QED BY <1>8, <2>3, <2>4
<1>10. \A i \in from .. e - 1 : IsDigit(mem[i])
  BY <1>5
<1>11. \/ Denotes(abs, from, e - 1) /\ Rest(abs, e - from) = 0
       \/ Horner(from, e) > IntMax
  BY <1>6, <1>7, <1>9 DEF Denotes
<1>12. LET f == IF Signed(s) THEN s.begin + 1 ELSE s.begin
           a == IF Signed(s) THEN -length ELSE length
       IN  /\ \A i \in f .. End(s) - 1 : IsDigit(mem[i])
           /\ \/ Denotes(a, f, End(s) - 1) /\ Rest(a, End(s) - f) = 0
              \/ Horner(f, End(s)) > IntMax
  BY <1>2, <1>3, <1>8, <1>10, <1>11, Zenon
<1> QED BY <1>12, ReadSame, Zenon

\* Of a response's line the length is read that was written.
LEMMA LengthBack ==
    ASSUME NEW len \in 0 .. IntMax, mem = LengthLineOf(len), Closed,
           NEW k \in At(":"), \A i \in At(":") : k <= i
    PROVE  /\ Text(Trim(Slice(1, k))) = <<"L">>
           /\ Stored(Trim(Slice(k + 1, Len(mem))), -1) = {len}
<1>1. PICK a, b, c, d, lf : a = "L" /\ b = ":" /\ c = " " /\ d = "\r" /\ lf = "\n"
  OBVIOUS
<1>2. a \in Chars /\ b \in Chars /\ c \in Chars /\ d \in Chars /\ lf \in Chars
  BY <1>1, Zenon DEF Chars, Blanks
<1>3. /\ a # b /\ c # b /\ d # b /\ lf # b /\ a \notin Blanks /\ b \notin Blanks
      /\ c \in Blanks /\ d \in Blanks /\ lf \in Blanks
  BY <1>1, Zenon DEF Blanks
<1>4. \A ch : IsDigit(ch) => ch # b /\ ch \notin Blanks /\ ch # "-"
  <2>1. ASSUME NEW ch, IsDigit(ch)
        PROVE  \/ ch = "0" \/ ch = "1" \/ ch = "2" \/ ch = "3" \/ ch = "4"
               \/ ch = "5" \/ ch = "6" \/ ch = "7" \/ ch = "8" \/ ch = "9"
    <3>1. PICK i \in 0 .. 9 : Digits[i + 1] = ch
      BY <2>1 DEF IsDigit
    <3>2. Digits[i + 1] \in {"0", "1", "2", "3", "4", "5", "6", "7", "8", "9"}
      BY DEF Digits
    <3> QED BY <3>1, <3>2
  <2> QED BY <1>1, <2>1, Zenon DEF Blanks
<1>5. len \in Nat /\ TenDigits(len) /\ TenDigits(IntMax) /\ len <= IntMax
  <2>1. len \in 0 .. 2 * IntMax + 1 /\ len \in Nat /\ len <= IntMax
    BY IntMaxIs
  <2> QED BY <2>1, IntMaxIs
<1>6. len % (2 * (IntMax + 1)) = len
  <2>1. PICK q \in Nat \ {0} : q = 2 * (IntMax + 1) /\ len < q
    BY <1>5, IntMaxIs
  <2>2. len % q = len
    BY <1>5, <2>1
  <2> QED BY <2>1, <2>2
<1>7. PICK w \in 1 .. 10 : w = Width(len) /\ Rest(len, w) = 0
  BY <1>5, WidthIs
<1>8. TempSize \in 1 .. 10 /\ w <= TempSize
  BY <1>5, <1>7, WidthIs, WidthLess DEF TempSize
<1>9. PICK u : u = UiToC(TempSize, len)
  OBVIOUS
<1>10. u = [i \in 1 .. w |-> DigitAt(len, w - i)]
  <2>1. (IF Width(len) > TempSize THEN TempSize ELSE Width(len)) = w
    BY <1>7, <1>8
  <2> QED BY <1>9, <2>1 DEF UiToC
<1>11. u \in Seq(Chars) /\ Len(u) = w
  <2>1. u \in Seq(Chars)
    BY <1>5, <1>8, <1>9, WrittenIs
  <2> QED BY <1>10, <2>1
<1>12. mem = <<a, b, c>> \o u \o <<d, lf>>
  BY <1>1, <1>6, <1>9, Zenon DEF LengthLineOf
<1>13. w \in Nat
  OBVIOUS
<1>14. /\ mem \in Seq(Chars) /\ Len(mem) = w + 5
       /\ mem[1] = a /\ mem[2] = b /\ mem[3] = c /\ mem[w + 4] = d /\ mem[w + 5] = lf
       /\ \A i \in 4 .. w + 3 : mem[i] = u[i - 3]
  <2>1. PICK m : m = mem
    OBVIOUS
  <2>2. PICK n \in Nat, v \in Seq(Chars) : n = w /\ v = u /\ n = Len(v)
    BY <1>11, <1>13
  <2>3. m = <<a, b, c>> \o v \o <<d, lf>>
    BY <1>12, <2>1, <2>2
  <2>4. /\ m \in Seq(Chars) /\ Len(m) = n + 5
        /\ m[1] = a /\ m[2] = b /\ m[3] = c /\ m[n + 4] = d /\ m[n + 5] = lf
        /\ \A i \in 4 .. n + 3 : m[i] = v[i - 3]
    BY <1>2, <2>2, <2>3, FiveAnd
  <2> QED BY <2>1, <2>2, <2>4
<1>15. \A i \in 4 .. w + 3 : mem[i] = DigitAt(len, (w + 3) - i) /\ IsDigit(mem[i])
  <2>1. SUFFICES ASSUME NEW i \in 4 .. w + 3
                 PROVE  mem[i] = DigitAt(len, (w + 3) - i) /\ IsDigit(mem[i])
    OBVIOUS
  <2>2. i - 3 \in 1 .. w /\ w - (i - 3) = (w + 3) - i /\ (w + 3) - i \in Nat
    OBVIOUS
  <2>3. mem[i] = DigitAt(len, (w + 3) - i)
    BY <1>10, <1>14, <2>2
  <2> QED BY <1>5, <2>2, <2>3, DigitAtIs
<1>16. DOMAIN mem = 1 .. w + 5
  BY <1>14, ClosedFacts
<1>17. \A i \in 1 .. w + 5 :
           i = 1 \/ i = 2 \/ i = 3 \/ i = w + 4 \/ i = w + 5 \/ i \in 4 .. w + 3
  OBVIOUS
<1>18. k = 2
  <2>1. k \in 1 .. w + 5 /\ mem[k] = b
    BY <1>1, <1>16 DEF At
  <2>2. k \notin 4 .. w + 3
    BY <1>4, <1>15, <2>1
  <2> QED BY <1>3, <1>14, <1>17, <2>1, <2>2
<1>19. /\ \A i \in 4 .. w + 3 : i \in Ink
       /\ 1 \in Ink /\ 3 \notin Ink /\ w + 4 \notin Ink /\ w + 5 \notin Ink
  <2>1. \A i \in 1 .. w + 5 : i \in Ink <=> mem[i] \notin Blanks
    BY <1>16 DEF Ink
  <2>2. /\ 1 \in 1 .. w + 5 /\ 3 \in 1 .. w + 5 /\ w + 4 \in 1 .. w + 5
        /\ w + 5 \in 1 .. w + 5 /\ \A i \in 4 .. w + 3 : i \in 1 .. w + 5
    OBVIOUS
  <2> QED BY <1>3, <1>4, <1>14, <1>15, <2>1, <2>2
<1>20. Text(Trim(Slice(1, k))) = <<"L">>
  <2>1. PICK x : x = Trim(Slice(1, 2))
    OBVIOUS
  <2>2. Slice(1, 2) = [begin |-> 1, length |-> 2 - 1] /\ 1 \in Nat /\ 2 \in Nat /\ 1 <= 2
    BY DEF Slice
  <2>3. \A i : i \in Ink \cap 1 .. 2 - 1 <=> i = 1
    BY <1>19
  <2>4. x = [begin |-> 1, length |-> 1 - 1 + 1]
    <3>1. \/ \E i, j \in Ink \cap 1 .. 2 - 1 :
                /\ \A l \in Ink \cap 1 .. 2 - 1 : i <= l /\ l <= j
                /\ x = [begin |-> i, length |-> j - i + 1]
          \/ Ink \cap 1 .. 2 - 1 = {}
      BY <2>1, <2>2, TrimIs
    <3> QED BY <2>3, <3>1
  <2>5. Text(x) = SubSeq(mem, 1, 1)
    BY <2>2, <2>4, TextIs
  <2>6. SubSeq(mem, 1, 1) = <<a>>
    <3>1. 1 \in 1 .. Len(mem)
      BY <1>14
    <3> QED BY <1>14, <3>1, OneChar
  <2> QED BY <1>1, <1>18, <2>1, <2>5, <2>6
<1>21. PICK y : y = Trim(Slice(3, w + 5))
  OBVIOUS
<1>22. y.begin = 4 /\ y.length = w /\ End(y) = w + 4
  <2>1. /\ Slice(3, w + 5) = [begin |-> 3, length |-> (w + 5) - 3]
        /\ 3 \in Nat /\ w + 5 \in Nat /\ 3 <= w + 5 /\ (w + 5) - 1 = w + 4
    BY DEF Slice
  <2>2. \A i : i \in Ink \cap 3 .. (w + 5) - 1 <=> i \in 4 .. w + 3
    <3>1. \A i \in 3 .. (w + 5) - 1 : i = 3 \/ i = w + 4 \/ i \in 4 .. w + 3
      OBVIOUS
    <3>2. \A i \in 4 .. w + 3 : i \in 3 .. (w + 5) - 1
      OBVIOUS
    <3> QED BY <1>19, <3>1, <3>2
  <2>3. \/ \E i, j \in Ink \cap 3 .. (w + 5) - 1 :
              /\ \A l \in Ink \cap 3 .. (w + 5) - 1 : i <= l /\ l <= j
              /\ y = [begin |-> i, length |-> j - i + 1]
        \/ Ink \cap 3 .. (w + 5) - 1 = {}
    BY <1>21, <2>1, TrimIs
  <2>4. 4 \in 4 .. w + 3 /\ w + 3 \in 4 .. w + 3
    OBVIOUS
  <2>5. PICK i \in 4 .. w + 3, j \in 4 .. w + 3 :
           /\ i <= 4 /\ w + 3 <= j
           /\ y = [begin |-> i, length |-> j - i + 1]
    BY <2>2, <2>3, <2>4
  <2>6. i = 4 /\ j = w + 3 /\ (w + 3) - 4 + 1 = w /\ 4 + w = w + 4
    BY <2>5
  <2> QED BY <2>5, <2>6 DEF End
<1>23. ~ Signed(y)
  <2>1. 4 \in 4 .. w + 3
    OBVIOUS
  <2>2. mem[4] # "-"
    BY <1>4, <1>15, <2>1
  <2> QED BY <1>22, <2>2 DEF Signed
<1>24. \A i \in 4 .. (w + 4) - 1 : IsDigit(mem[i])
  BY <1>15
<1>25. PICK h : h = Horner(4, w + 4)
  OBVIOUS
<1>26. /\ h \in Nat /\ Rest(h, (w + 4) - 4) = 0
       /\ \A i \in 4 .. (w + 4) - 1 : DigitAt(h, ((w + 4) - 1) - i) = mem[i]
  <2>1. 4 \in Nat /\ w + 4 \in Nat /\ 4 <= w + 4
    OBVIOUS
  <2> QED BY <1>24, <1>25, <2>1, HornerDigits
<1>27. h = len
  <2>1. Rest(h, w) = 0
    BY <1>26
  <2>2. \A j \in 0 .. w - 1 : DigitAt(h, j) = DigitAt(len, j)
    <3>1. SUFFICES ASSUME NEW j \in 0 .. w - 1 PROVE DigitAt(h, j) = DigitAt(len, j)
      OBVIOUS
    <3>2. PICK i : i = (w + 3) - j
      OBVIOUS
    <3>3. /\ i \in 4 .. w + 3 /\ i \in 4 .. (w + 4) - 1
          /\ (w + 3) - i = j /\ ((w + 4) - 1) - i = j
      BY <3>2
    <3> QED BY <1>15, <1>26, <3>3
  <2> QED BY <1>5, <1>7, <1>13, <1>26, <2>1, <2>2, SameDigits
<1>28. Stored(y, -1) = {len}
  <2>1. (IF Signed(y) THEN y.begin + 1 ELSE y.begin) = 4
    BY <1>22, <1>23
  <2>2. ~(h > IntMax)
    BY <1>5, <1>27, IntMaxIs
  <2> QED BY <1>22, <1>23, <1>24, <1>25, <1>27, <2>1, <2>2 DEF Stored
<1> QED BY <1>14, <1>18, <1>20, <1>21, <1>28

\* A header line is read as it is written.
LEMMA HeaderReads ==
    ASSUME LineInv, LengthInv, ParseHeaderLine PROVE LengthInv'
<1>1. PICK parts : parts = Split(Line, ":", 2)
  OBVIOUS
<1>2. PICK x, y : x = Trim(parts[1]) /\ y = Trim(parts[2])
  OBVIOUS
<1>3. /\ phase = "header" /\ mem' = mem /\ sent' = sent /\ Len(parts) = 2
      /\ phase' = "parsed" /\ strings' = <<x, y>>
  BY <1>1, <1>2 DEF ParseHeaderLine, Pending
<1>4. strings'[1] = x /\ strings'[2] = y
  BY <1>3
<1>5. content_length = -1
  BY <1>3 DEF LengthInv
<1>6. content_length' \in IF Text(x) = <<"L">> THEN Stored(y, -1) ELSE {-1}
  BY <1>4, <1>5 DEF ParseHeaderLine
<1>7. Closed /\ Len(mem) \in Nat
  BY <1>3, ClosedSame, ClosedFacts DEF LineInv
<1>8. PICK c \in 1 .. Len(mem) - 1 :
         /\ c \in At(":") /\ \A i \in At(":") : c <= i
         /\ parts[1] = Slice(1, c)
         /\ parts[2] = Slice(c + 1, Len(mem))
  BY <1>1, <1>3, <1>7, HeaderPieces DEF HeaderSplit
<1>9. y \in Slices
  BY <1>2, <1>7, <1>8, ValueIs DEF Inside
<1>10. ASSUME content_length' # -1
       PROVE  ReadOf(mem', strings'[2], content_length')
  <2>1. PICK l : l = content_length'
    OBVIOUS
  <2>2. l \in Stored(y, -1) /\ l # -1
    BY <1>6, <1>10, <2>1
  <2>3. ReadOf(mem, y, l)
    BY <1>7, <1>9, <2>2, StoredSays
  <2> QED BY <1>3, <1>4, <2>1, <2>3
<1>11. ASSUME sent # None, sent >= 0
       PROVE  content_length' = sent
  <2>1. PICK len : len = sent
    OBVIOUS
  <2>2. len \in 0 .. IntMax
    BY <1>11, <2>1, LinesAssumption, IntMaxIs DEF LineInv, TypeOK, IntRange
  <2>3. mem = LengthLineOf(len)
    BY <1>3, <1>11, <2>1 DEF LengthInv
  <2>4. /\ Text(Trim(Slice(1, c))) = <<"L">>
        /\ Stored(Trim(Slice(c + 1, Len(mem))), -1) = {len}
    BY <1>7, <1>8, <2>2, <2>3, LengthBack
  <2>5. Text(x) = <<"L">> /\ Stored(y, -1) = {len}
    BY <1>2, <1>8, <2>4
  <2> QED BY <1>6, <2>1, <2>5
<1> QED BY <1>3, <1>10, <1>11 DEF LengthInv

LEMMA LengthStep ==
    ASSUME LineInv, LengthInv, [Next]_vars PROVE LengthInv'
<1>1. CASE ParseStatusLine
  <2>1. phase = "status" /\ phase' \in {"accepted", "invalid"}
    BY <1>1 DEF ParseStatusLine, Pending
  <2> QED BY <2>1 DEF LengthInv
<1>2. CASE ParseHeaderLine
  BY <1>2, HeaderReads
<1>3. CASE ParseNoHeader
  <2>1. phase' \in {"separator", "faulty"}
    BY <1>3 DEF ParseNoHeader
  <2> QED BY <2>1 DEF LengthInv
<1>4. ASSUME NEW len \in Lengths, SetContentLength(len)
      PROVE  LengthInv'
  <2>1. /\ phase = "respond" /\ phase' = "header" /\ sent' = len
        /\ content_length' = content_length
    BY <1>4 DEF SetContentLength
  <2>2. mem' = LengthLineOf(len)
    BY <1>4, Zenon DEF SetContentLength, LengthLineOf
  <2> QED BY <2>1, <2>2 DEF LengthInv
<1>5. CASE UNCHANGED vars
  BY <1>5, Zenon DEF vars, LengthInv
<1> QED BY <1>1, <1>2, <1>3, <1>4, <1>5 DEF Next

LEMMA LengthInit == Init => LengthInv
BY DEF Init, LengthInv

LEMMA LengthInvExact == LengthInv => LengthExact
<1> SUFFICES ASSUME LengthInv PROVE LengthExact
  OBVIOUS
<1>1. phase = "parsed" /\ content_length # -1 => ReadOf(mem, strings[2], content_length)
  BY DEF LengthInv
<1>2. LengthIsRead
  BY <1>1, ReadSame, Zenon DEF LengthIsRead
<1>3. LengthComesBack
  BY DEF LengthInv, LengthComesBack
<1> QED BY <1>2, <1>3 DEF LengthExact

\* A Content-Length that is kept is the number its digits denote, or one that
\* no int holds, and never made of a part of a value; and every length that
\* hiw_response_set_content_length is given is read back as that length by
\* hiw_string_toi - of every value and every int of 32 bits.
THEOREM LengthsExact == Spec => []LengthExact
<1>1. LineInv /\ LengthInv /\ [Next]_vars => LengthInv'
  BY LengthStep
<1> QED BY <1>1, LinesInductive, LengthInit, LengthInvExact, PTL DEF Spec
===============================================================================
