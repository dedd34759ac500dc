----------------------------- MODULE SeqLemmas ------------------------------
(***************************************************************************)
(* Facts about queues, lists, sets of positions, sums and products that    *)
(* the proofs share.  LeastOf is what stands for induction over the        *)
(* naturals: a fact holds of all of them if no number is the least for     *)
(* which it fails.                                                         *)
(***************************************************************************)
EXTENDS Sums, Sequences, Functions, FiniteSetTheorems, SequenceTheorems, WellFoundedInduction, TLAPS

\* What Append does to the elements and to injectivity.
LEMMA AppendRange ==
  ASSUME NEW T, NEW s \in Seq(T), NEW e \in T
  PROVE  /\ Append(s, e) \in Seq(T)
         /\ Len(Append(s, e)) = Len(s) + 1
         /\ DOMAIN Append(s, e) = 1 .. Len(s) + 1
         /\ \A i \in 1 .. Len(s) : Append(s, e)[i] = s[i]
         /\ Append(s, e)[Len(s) + 1] = e
         /\ Range(Append(s, e)) = Range(s) \cup {e}
         /\ IsInjective(s) /\ e \notin Range(s) => IsInjective(Append(s, e))
<1>1. /\ Append(s, e) \in Seq(T)
      /\ Len(Append(s, e)) = Len(s) + 1
      /\ \A i \in 1 .. Len(s) : Append(s, e)[i] = s[i]
      /\ Append(s, e)[Len(s) + 1] = e
      /\ DOMAIN Append(s, e) = 1 .. Len(s) + 1
      /\ DOMAIN s = 1 .. Len(s)
      /\ Len(s) \in Nat
  OBVIOUS
<1>2. Range(Append(s, e)) = Range(s) \cup {e}
  <2>1. ASSUME NEW x \in Range(Append(s, e))
        PROVE  x \in Range(s) \cup {e}
    BY <1>1 DEF Range
  <2>2. ASSUME NEW x \in Range(s) \cup {e}
        PROVE  x \in Range(Append(s, e))
    <3>1. CASE x = e
      BY <1>1, <3>1 DEF Range
    <3>2. CASE x \in Range(s)
      <4>1. PICK i \in 1 .. Len(s) : x = s[i]
        BY <1>1, <3>2 DEF Range
      <4>2. i \in 1 .. Len(s) + 1 /\ Append(s, e)[i] = x
        BY <1>1, <4>1
      <4> QED BY <1>1, <4>2 DEF Range
    <3> QED BY <2>2, <3>1, <3>2
  <2> QED BY <2>1, <2>2
<1>3. ASSUME IsInjective(s), e \notin Range(s)
      PROVE  IsInjective(Append(s, e))
  <2>1. \A i \in 1 .. Len(s) : s[i] # e
    BY <1>1, <1>3 DEF Range
  <2>2. \A i, j \in 1 .. Len(s) : s[i] = s[j] => i = j
    BY <1>1, <1>3 DEF IsInjective
  <2> QED BY <1>1, <2>1, <2>2 DEF IsInjective
<1> QED BY <1>1, <1>2, <1>3

\* What Head and Tail do to the elements and to injectivity.
LEMMA TailRange ==
  ASSUME NEW T, NEW s \in Seq(T), s # << >>, IsInjective(s)
  PROVE  /\ Head(s) \in T
         /\ Head(s) \in Range(s)
         /\ Tail(s) \in Seq(T)
         /\ Range(Tail(s)) = Range(s) \ {Head(s)}
         /\ IsInjective(Tail(s))
<1>1. /\ Head(s) \in T
      /\ Tail(s) \in Seq(T)
      /\ Len(s) \in Nat \ {0}
      /\ Len(Tail(s)) = Len(s) - 1
      /\ \A i \in 1 .. Len(Tail(s)) : Tail(s)[i] = s[i + 1]
      /\ Head(s) = s[1]
      /\ DOMAIN s = 1 .. Len(s)
      /\ DOMAIN Tail(s) = 1 .. Len(s) - 1
  BY HeadTailProperties, EmptySeq, LenProperties
<1>2. \A i, j \in 1 .. Len(s) : s[i] = s[j] => i = j
  BY <1>1 DEF IsInjective
<1>3. Head(s) \in Range(s)
  BY <1>1 DEF Range
<1>4. IsInjective(Tail(s))
  BY <1>1, <1>2 DEF IsInjective
<1>5. ASSUME NEW x \in Range(Tail(s))
      PROVE  x \in Range(s) /\ x # Head(s)
  <2>1. PICK i \in 1 .. Len(s) - 1 : x = Tail(s)[i]
    BY <1>1, <1>5 DEF Range
  <2>2. x = s[i + 1] /\ i + 1 \in 1 .. Len(s) /\ i + 1 # 1
    BY <1>1, <2>1
  <2>3. 1 \in 1 .. Len(s)
    BY <1>1
  <2> QED BY <1>1, <1>2, <2>2, <2>3 DEF Range
<1>6. ASSUME NEW x \in Range(s), x # Head(s)
      PROVE  x \in Range(Tail(s))
  <2>1. PICK i \in 1 .. Len(s) : x = s[i]
    BY <1>1, <1>6 DEF Range
  <2>2. i - 1 \in 1 .. Len(s) - 1 /\ Tail(s)[i - 1] = x
    <3>1. i # 1
      BY <1>1, <1>6, <2>1
    <3>2. i - 1 \in 1 .. Len(s) - 1
      BY <1>1, <3>1, <2>1
    <3>3. (i - 1) + 1 = i
      BY <2>1
    <3> QED BY <1>1, <2>1, <3>2, <3>3
  <2> QED BY <1>1, <2>2 DEF Range
<1> QED BY <1>1, <1>3, <1>4, <1>5, <1>6

\* A set of naturals has a least element.
LEMMA LeastOf ==
  ASSUME NEW S, S \subseteq Nat, S # {}
  PROVE  \E x \in S : \A y \in S : x <= y
<1> DEFINE R == OpToRel(<, Nat)
<1>1. \E x \in S : \A y \in S : ~ (<<y, x>> \in R)
  BY NatLessThanWellFounded, WFMin, Zenon
<1>2. \A x, y \in Nat : y < x => <<y, x>> \in R
  BY DEF OpToRel
<1> HIDE DEF R
<1>3. PICK x \in S : \A y \in S : ~ (<<y, x>> \in R)
  BY <1>1
<1>4. \A y \in S : ~ (y < x)
  BY <1>2, <1>3
<1>5. x \in Nat /\ S \subseteq Nat
  BY <1>3
<1> QED
  BY <1>4, <1>5

\* A bounded set of naturals has a largest element.
LEMMA LargestOf ==
  ASSUME NEW b \in Nat, NEW S, S \subseteq 0 .. b, S # {}
  PROVE  \E x \in S : \A y \in S : y <= x
<1> DEFINE T == {n \in 0 .. b : b - n \in S}
<1>1. T \subseteq Nat /\ T # {}
  <2>1. PICK x \in S : TRUE
    OBVIOUS
  <2>2. x \in 0 .. b /\ b - x \in 0 .. b /\ b - (b - x) = x
    BY <2>1
  <2> QED BY <2>1, <2>2
<1>2. PICK t \in T : \A y \in T : t <= y
  BY <1>1, LeastOf
<1>3. \A y \in S : b - y \in T
  OBVIOUS
<1>4. b - t \in S /\ \A y \in S : y <= b - t
  BY <1>2, <1>3
<1> QED BY <1>4

\* What concatenation does to Len and to the elements.
LEMMA Concat ==
  ASSUME NEW T, NEW s \in Seq(T), NEW r \in Seq(T)
  PROVE  /\ s \o r \in Seq(T) /\ Len(s \o r) = Len(s) + Len(r)
         /\ \A k \in 1 .. Len(s) : (s \o r)[k] = s[k]
         /\ \A k \in 1 .. Len(r) : (s \o r)[Len(s) + k] = r[k]
<1>1. Len(s) \in Nat /\ Len(r) \in Nat
  OBVIOUS
<1>2. \A k \in 1 .. Len(r) : (Len(s) + k) - Len(s) = k /\ Len(s) + k > Len(s) /\ Len(s) + k \in 1 .. Len(s) + Len(r)
  BY <1>1
<1> QED
  BY <1>1, <1>2, ConcatProperties

\* A function on 1 .. n is a sequence.
LEMMA FunctionIsSeq ==
  ASSUME NEW T, NEW n \in Nat, NEW f \in [1 .. n -> T]
  PROVE  f \in Seq(T) /\ Len(f) = n
OBVIOUS

\* A set of positions has a number of elements.
LEMMA Counting ==
  ASSUME NEW n \in Nat, NEW S, S \subseteq 1 .. n
  PROVE  IsFiniteSet(S) /\ Cardinality(S) \in Nat
<1>1. IsFiniteSet(1 .. n)
  BY FS_Interval
<1> QED BY <1>1, FS_Subset, FS_CardinalityType

LEMMA CountNext ==
  ASSUME NEW n \in Nat, NEW S, S \subseteq 1 .. n
  PROVE  Cardinality(S \cup {n + 1}) = Cardinality(S) + 1
<1>1. IsFiniteSet(S)
  BY Counting
<1>2. n + 1 \notin S
  BY SMT
<1> QED BY <1>1, <1>2, FS_AddElement
-----------------------------------------------------------------------------
(* Sums *)

\* What the recursive function in SumTo is, and that there is one.
IsSum(f, n, s) == s \in [0 .. n -> Int] /\ s[0] = 0 /\ \A k \in 1 .. n : s[k] = s[k - 1] + f[k]

LEMMA SumExists ==
  ASSUME NEW n \in Nat, NEW f, \A k \in 1 .. n : f[k] \in Int
  PROVE  \E s : IsSum(f, n, s)
<1> DEFINE Bad == {m \in 0 .. n : ~ \E s : IsSum(f, m, s)}
<1> SUFFICES ASSUME Bad # {} PROVE FALSE
  BY n \in 0 .. n
<1>1. PICK m \in Bad : \A y \in Bad : m <= y
  BY Bad \subseteq Nat, LeastOf
<1>2. m \in 0 .. n /\ ~ \E s : IsSum(f, m, s)
  BY <1>1
<1>3. CASE m = 0
  <2> DEFINE z == [k \in 0 .. 0 |-> 0]
  <2>1. IsSum(f, 0, z)
    BY DEF IsSum
  <2> QED BY <1>2, <1>3, <2>1
<1>4. CASE m # 0
  <2>1. m - 1 \in 0 .. n /\ ~ (m <= m - 1) /\ m \in 1 .. n
    BY <1>2, <1>4
  <2>2. m - 1 \notin Bad
    BY <1>1, <2>1
  <2>3. PICK s : IsSum(f, m - 1, s)
    BY <2>1, <2>2
  <2>4. /\ s \in [0 .. m - 1 -> Int] /\ s[0] = 0 /\ \A k \in 1 .. m - 1 : s[k] = s[k - 1] + f[k]
        /\ f[m] \in Int
    BY <2>1, <2>3 DEF IsSum
  <2> DEFINE z == [k \in 0 .. m |-> IF k = m THEN s[m - 1] + f[m] ELSE s[k]]
  <2>5. z \in [0 .. m -> Int] /\ z[0] = 0
    BY <2>1, <2>4
  <2>6. ASSUME NEW k \in 1 .. m PROVE z[k] = z[k - 1] + f[k]
    BY <2>1, <2>4
  <2> HIDE DEF z
  <2>7. IsSum(f, m, z)
    BY <2>5, <2>6 DEF IsSum
  <2> QED BY <1>2, <2>7
<1> QED BY <1>3, <1>4

LEMMA SumUnique ==
  ASSUME NEW n \in Nat, NEW m \in 0 .. n, NEW f, NEW s, NEW r, IsSum(f, n, s), IsSum(f, m, r)
  PROVE  \A k \in 0 .. m : r[k] = s[k]
<1> DEFINE Bad == {k \in 0 .. m : r[k] # s[k]}
<1> SUFFICES ASSUME Bad # {} PROVE FALSE
  OBVIOUS
<1>1. PICK k \in Bad : \A y \in Bad : k <= y
  BY Bad \subseteq Nat, LeastOf
<1>2. k \in 0 .. m /\ r[k] # s[k] /\ r[0] = s[0]
  BY <1>1 DEF IsSum
<1>3. k # 0 /\ k - 1 \in 0 .. m /\ ~ (k <= k - 1) /\ k \in 1 .. m /\ k \in 1 .. n
  BY <1>2
<1>4. r[k - 1] = s[k - 1]
  BY <1>1, <1>3
<1>5. r[k] = r[k - 1] + f[k] /\ s[k] = s[k - 1] + f[k]
  BY <1>3 DEF IsSum
<1> QED BY <1>2, <1>4, <1>5

\* SumTo is a sum.
LEMMA SumIs ==
  ASSUME NEW n \in Nat, NEW f, \A k \in 1 .. n : f[k] \in Int
  PROVE  \E s : IsSum(f, n, s) /\ SumTo(f, n) = s[n]
<1> DEFINE E(s) == s = [k \in 0 .. n |-> IF k = 0 THEN 0 ELSE s[k - 1] + f[k]]
           c == CHOOSE s : E(s)
<1>1. PICK s : IsSum(f, n, s)
  BY SumExists
<1>2. E(s)
  <2>1. s \in [0 .. n -> Int] /\ s[0] = 0 /\ \A k \in 1 .. n : s[k] = s[k - 1] + f[k]
    BY <1>1 DEF IsSum
  <2>2. \A k \in 0 .. n : k # 0 => k \in 1 .. n
    OBVIOUS
  <2> QED BY <2>1, <2>2
<1>3. E(c)
  BY <1>2
<1>4. SumTo(f, n) = c[n]
  BY DEF SumTo
<1>5. IsSum(f, n, c)
  <2> HIDE DEF c
  <2>1. c = [k \in 0 .. n |-> IF k = 0 THEN 0 ELSE c[k - 1] + f[k]]
    BY <1>3
  <2>2. c[0] = 0 /\ \A k \in 1 .. n : c[k] = c[k - 1] + f[k]
    <3>1. 0 \in 0 .. n /\ \A k \in 1 .. n : k \in 0 .. n /\ k # 0
      OBVIOUS
    <3> QED BY <2>1, <3>1
  <2>3. \A k \in 0 .. n : c[k] \in Int
    <3> DEFINE Bad == {k \in 0 .. n : c[k] \notin Int}
    <3> SUFFICES ASSUME Bad # {} PROVE FALSE
      OBVIOUS
    <3>1. PICK k \in Bad : \A y \in Bad : k <= y
      BY Bad \subseteq Nat, LeastOf
    <3>2. k \in 0 .. n /\ c[k] \notin Int /\ k # 0
      BY <2>2, <3>1
    <3>3. k - 1 \in 0 .. n /\ ~ (k <= k - 1) /\ k \in 1 .. n
      BY <3>2
    <3>4. c[k - 1] \in Int
      BY <3>1, <3>3
    <3> QED BY <2>2, <3>2, <3>3, <3>4
  <2>4. c \in [0 .. n -> Int]
    BY <2>1, <2>3
  <2> QED BY <2>2, <2>4 DEF IsSum
<1> QED BY <1>4, <1>5

\* The equations of a sum.
LEMMA SumEmpty == ASSUME NEW f PROVE SumTo(f, 0) = 0
<1>1. PICK s : IsSum(f, 0, s) /\ SumTo(f, 0) = s[0]
  BY SumIs
<1> QED BY <1>1 DEF IsSum

LEMMA SumNext ==
  ASSUME NEW n \in Nat, NEW f, \A k \in 1 .. n + 1 : f[k] \in Int
  PROVE  /\ SumTo(f, n) \in Int
         /\ SumTo(f, n + 1) = SumTo(f, n) + f[n + 1]
<1>1. n + 1 \in Nat /\ n \in 0 .. n + 1 /\ n \in 0 .. n /\ n + 1 \in 1 .. n + 1 /\ (n + 1) - 1 = n /\ \A k \in 1 .. n : k \in 1 .. n + 1
  OBVIOUS
<1>2. PICK r : IsSum(f, n, r) /\ SumTo(f, n) = r[n]
  BY <1>1, SumIs
<1>3. PICK s : IsSum(f, n + 1, s) /\ SumTo(f, n + 1) = s[n + 1]
  BY <1>1, SumIs
<1>4. r[n] = s[n]
  BY <1>1, <1>2, <1>3, SumUnique
<1>5. r[n] \in Int
  BY <1>1, <1>2 DEF IsSum
<1>6. s[n + 1] = s[n] + f[n + 1]
  BY <1>1, <1>3 DEF IsSum
<1> QED BY <1>2, <1>3, <1>4, <1>5, <1>6

\* A sum of equal numbers.
LEMMA SumConst ==
  ASSUME NEW f, NEW n \in Nat, NEW c \in Int, \A k \in 1 .. n : f[k] = c
  PROVE  SumTo(f, n) = n * c
<1> DEFINE Bad == {k \in 0 .. n : SumTo(f, k) # k * c}
<1>1. 0 * c = 0 /\ SumTo(f, 0) = 0
  BY SumEmpty
<1> SUFFICES ASSUME Bad # {} PROVE FALSE
  <2>1. n \in 0 .. n
    OBVIOUS
  <2> QED BY <2>1
<1>2. PICK k \in Bad : \A y \in Bad : k <= y
  BY Bad \subseteq Nat, LeastOf
<1>3. k \in 0 .. n /\ SumTo(f, k) # k * c
  BY <1>2
<1>4. k # 0
  BY <1>1, <1>3
<1>5. k - 1 \in 0 .. n /\ k - 1 \in Nat /\ (k - 1) + 1 = k /\ ~ (k <= k - 1) /\ k \in 1 .. n
  BY <1>3, <1>4
<1>6. SumTo(f, k - 1) = (k - 1) * c
  BY <1>2, <1>5
<1>7. \A j \in 1 .. (k - 1) + 1 : f[j] \in Int
  BY <1>3, <1>5
<1>8. SumTo(f, k - 1) \in Int /\ SumTo(f, k) = SumTo(f, k - 1) + f[k]
  <2>1. SumTo(f, k - 1) \in Int /\ SumTo(f, (k - 1) + 1) = SumTo(f, k - 1) + f[(k - 1) + 1]
    BY <1>5, <1>7, SumNext
  <2> QED BY <1>5, <2>1
<1>9. f[k] = c
  BY <1>5
<1>10. (k - 1) * c + c = k * c
  BY <1>3
<1> QED BY <1>3, <1>6, <1>8, <1>9, <1>10
-----------------------------------------------------------------------------
(* Division *)

LEMMA DivFacts ==
  ASSUME NEW a \in Nat, NEW g \in Nat \ {0}
  PROVE  /\ a \div g \in Nat /\ g * (a \div g) <= a /\ a < g * (a \div g) + g
<1> QED OBVIOUS

LEMMA MulGrows ==
  ASSUME NEW g \in Nat, NEW a \in Nat, NEW b \in Nat, a <= b
  PROVE  g * a <= g * b
<1>1. PICK d \in Nat : b = a + d
  <2>1. b - a \in Nat /\ b = a + (b - a)
    OBVIOUS
  <2> QED BY <2>1
<1>2. g * b = g * a + g * d
  BY <1>1
<1>3. g * d \in Nat /\ g * a \in Nat
  OBVIOUS
<1> QED BY <1>2, <1>3

LEMMA DivBound ==
  ASSUME NEW a \in Nat, NEW g \in Nat \ {0}, NEW b \in Nat, a <= g * b
  PROVE  a \div g <= b
<1>1. PICK q \in Nat : q = a \div g
  BY DivFacts
<1>2. g * q <= a
  BY <1>1, DivFacts
<1>3. CASE b + 1 <= q
  <2>1. g * (b + 1) <= g * q
    BY <1>3, MulGrows
  <2>2. g * (b + 1) = g * b + g
    OBVIOUS
  <2>3. g * b \in Nat /\ g * q \in Nat
    OBVIOUS
  <2> QED BY <1>2, <2>1, <2>2, <2>3
<1> QED BY <1>1, <1>3

LEMMA DivExact ==
  ASSUME NEW g \in Nat \ {0}, NEW b \in Nat
  PROVE  (g * b) \div g = b
<1>1. g * b \in Nat
  OBVIOUS
<1>2. PICK q \in Nat : q = (g * b) \div g
  BY <1>1, DivFacts
<1>3. q <= b
  BY <1>1, <1>2, DivBound
<1>4. g * b < g * q + g
  BY <1>1, <1>2, DivFacts
<1>5. CASE q + 1 <= b
  <2>1. g * (q + 1) <= g * b
    BY <1>5, MulGrows
  <2>2. g * (q + 1) = g * q + g
    OBVIOUS
  <2>3. g * b \in Nat /\ g * q \in Nat
    OBVIOUS
  <2> QED BY <1>4, <2>1, <2>2, <2>3
<1> QED BY <1>2, <1>3, <1>5
-----------------------------------------------------------------------------
(* Products *)

\* What the recursive function in ProductTo is, and that there is one.
IsProduct(f, n, s) == s \in [0 .. n -> Int] /\ s[0] = 1 /\ \A k \in 1 .. n : s[k] = s[k - 1] * f[k]

LEMMA ProductExists ==
  ASSUME NEW n \in Nat, NEW f, \A k \in 1 .. n : f[k] \in Int
  PROVE  \E s : IsProduct(f, n, s)
<1> DEFINE Bad == {m \in 0 .. n : ~ \E s : IsProduct(f, m, s)}
<1> SUFFICES ASSUME Bad # {} PROVE FALSE
  BY n \in 0 .. n
<1>1. PICK m \in Bad : \A y \in Bad : m <= y
  BY Bad \subseteq Nat, LeastOf
<1>2. m \in 0 .. n /\ ~ \E s : IsProduct(f, m, s)
  BY <1>1
<1>3. CASE m = 0
  <2> DEFINE z == [k \in 0 .. 0 |-> 1]
  <2>1. IsProduct(f, 0, z)
    BY DEF IsProduct
  <2> QED BY <1>2, <1>3, <2>1
<1>4. CASE m # 0
  <2>1. m - 1 \in 0 .. n /\ ~ (m <= m - 1) /\ m \in 1 .. n
    BY <1>2, <1>4
  <2>2. m - 1 \notin Bad
    BY <1>1, <2>1
  <2>3. PICK s : IsProduct(f, m - 1, s)
    BY <2>1, <2>2
  <2>4. /\ s \in [0 .. m - 1 -> Int] /\ s[0] = 1 /\ \A k \in 1 .. m - 1 : s[k] = s[k - 1] * f[k]
        /\ f[m] \in Int
    BY <2>1, <2>3 DEF IsProduct
  <2> DEFINE z == [k \in 0 .. m |-> IF k = m THEN s[m - 1] * f[m] ELSE s[k]]
  <2>5. z \in [0 .. m -> Int] /\ z[0] = 1
    BY <2>1, <2>4
  <2>6. ASSUME NEW k \in 1 .. m PROVE z[k] = z[k - 1] * f[k]
    BY <2>1, <2>4
  <2> HIDE DEF z
  <2>7. IsProduct(f, m, z)
    BY <2>5, <2>6 DEF IsProduct
  <2> QED BY <1>2, <2>7
<1> QED BY <1>3, <1>4

LEMMA ProductUnique ==
  ASSUME NEW n \in Nat, NEW m \in 0 .. n, NEW f, NEW s, NEW r, IsProduct(f, n, s), IsProduct(f, m, r)
  PROVE  \A k \in 0 .. m : r[k] = s[k]
<1> DEFINE Bad == {k \in 0 .. m : r[k] # s[k]}
<1> SUFFICES ASSUME Bad # {} PROVE FALSE
  OBVIOUS
<1>1. PICK k \in Bad : \A y \in Bad : k <= y
  BY Bad \subseteq Nat, LeastOf
<1>2. k \in 0 .. m /\ r[k] # s[k] /\ r[0] = s[0]
  BY <1>1 DEF IsProduct
<1>3. k # 0 /\ k - 1 \in 0 .. m /\ ~ (k <= k - 1) /\ k \in 1 .. m /\ k \in 1 .. n
  BY <1>2
<1>4. r[k - 1] = s[k - 1]
  BY <1>1, <1>3
<1>5. r[k] = r[k - 1] * f[k] /\ s[k] = s[k - 1] * f[k]
  BY <1>3 DEF IsProduct
<1> QED BY <1>2, <1>4, <1>5

\* ProductTo is a product.
LEMMA ProductIs ==
  ASSUME NEW n \in Nat, NEW f, \A k \in 1 .. n : f[k] \in Int
  PROVE  \E s : IsProduct(f, n, s) /\ ProductTo(f, n) = s[n]
<1> DEFINE E(s) == s = [k \in 0 .. n |-> IF k = 0 THEN 1 ELSE s[k - 1] * f[k]]
           c == CHOOSE s : E(s)
<1>1. PICK s : IsProduct(f, n, s)
  BY ProductExists
<1>2. E(s)
  <2>1. s \in [0 .. n -> Int] /\ s[0] = 1 /\ \A k \in 1 .. n : s[k] = s[k - 1] * f[k]
    BY <1>1 DEF IsProduct
  <2>2. \A k \in 0 .. n : k # 0 => k \in 1 .. n
    OBVIOUS
  <2> QED BY <2>1, <2>2
<1>3. E(c)
  BY <1>2
<1>4. ProductTo(f, n) = c[n]
  BY DEF ProductTo
<1>5. IsProduct(f, n, c)
  <2> HIDE DEF c
  <2>1. c = [k \in 0 .. n |-> IF k = 0 THEN 1 ELSE c[k - 1] * f[k]]
    BY <1>3
  <2>2. c[0] = 1 /\ \A k \in 1 .. n : c[k] = c[k - 1] * f[k]
    <3>1. 0 \in 0 .. n /\ \A k \in 1 .. n : k \in 0 .. n /\ k # 0
      OBVIOUS
    <3> QED BY <2>1, <3>1
  <2>3. \A k \in 0 .. n : c[k] \in Int
    <3> DEFINE Bad == {k \in 0 .. n : c[k] \notin Int}
    <3> SUFFICES ASSUME Bad # {} PROVE FALSE
      OBVIOUS
    <3>1. PICK k \in Bad : \A y \in Bad : k <= y
      BY Bad \subseteq Nat, LeastOf
    <3>2. k \in 0 .. n /\ c[k] \notin Int /\ k # 0
      BY <2>2, <3>1
    <3>3. k - 1 \in 0 .. n /\ ~ (k <= k - 1) /\ k \in 1 .. n
      BY <3>2
    <3>4. c[k - 1] \in Int
      BY <3>1, <3>3
    <3> QED BY <2>2, <3>2, <3>3, <3>4
  <2>4. c \in [0 .. n -> Int]
    BY <2>1, <2>3
  <2> QED BY <2>2, <2>4 DEF IsProduct
<1> QED BY <1>4, <1>5

\* The equations of a product.
LEMMA ProductEmpty == ASSUME NEW f PROVE ProductTo(f, 0) = 1
<1>1. PICK s : IsProduct(f, 0, s) /\ ProductTo(f, 0) = s[0]
  BY ProductIs
<1> QED BY <1>1 DEF IsProduct

LEMMA ProductNext ==
  ASSUME NEW n \in Nat, NEW f, \A k \in 1 .. n + 1 : f[k] \in Int
  PROVE  /\ ProductTo(f, n) \in Int
         /\ ProductTo(f, n + 1) = ProductTo(f, n) * f[n + 1]
<1>1. n + 1 \in Nat /\ n \in 0 .. n + 1 /\ n \in 0 .. n /\ n + 1 \in 1 .. n + 1 /\ (n + 1) - 1 = n /\ \A k \in 1 .. n : k \in 1 .. n + 1
  OBVIOUS
<1>2. PICK r : IsProduct(f, n, r) /\ ProductTo(f, n) = r[n]
  BY <1>1, ProductIs
<1>3. PICK s : IsProduct(f, n + 1, s) /\ ProductTo(f, n + 1) = s[n + 1]
  BY <1>1, ProductIs
<1>4. r[n] = s[n]
  BY <1>1, <1>2, <1>3, ProductUnique
<1>5. r[n] \in Int
  BY <1>1, <1>2 DEF IsProduct
<1>6. s[n + 1] = s[n] * f[n + 1]
  BY <1>1, <1>3 DEF IsProduct
<1> QED BY <1>2, <1>3, <1>4, <1>5, <1>6

\* A product of positive numbers is positive, and none of them exceeds it.
LEMMA ProductPositive ==
  ASSUME NEW n \in Nat, NEW f, \A k \in 1 .. n : f[k] \in Nat \ {0}
  PROVE  ProductTo(f, n) \in Nat \ {0} /\ (n # 0 => f[n] <= ProductTo(f, n))
<1> DEFINE Bad == {k \in 0 .. n : ProductTo(f, k) \notin Nat \ {0}}
<1>1. ProductTo(f, 0) = 1
  BY ProductEmpty
<1>2. ASSUME NEW k \in 1 .. n
      PROVE  ProductTo(f, k - 1) \in Int /\ ProductTo(f, k) = ProductTo(f, k - 1) * f[k]
  <2>1. k - 1 \in Nat /\ (k - 1) + 1 = k /\ \A j \in 1 .. (k - 1) + 1 : f[j] \in Int
    OBVIOUS
  <2>2. ProductTo(f, k - 1) \in Int /\ ProductTo(f, (k - 1) + 1) = ProductTo(f, k - 1) * f[(k - 1) + 1]
    BY <2>1, ProductNext
  <2> QED BY <2>1, <2>2
<1>3. \A a, b \in Nat \ {0} : a * b \in Nat \ {0} /\ b <= a * b
  <2> SUFFICES ASSUME NEW a \in Nat \ {0}, NEW b \in Nat \ {0} PROVE a * b \in Nat \ {0} /\ b <= a * b
    OBVIOUS
  <2>1. b * 1 <= b * a
    BY MulGrows
  <2>2. b * 1 = b /\ b * a = a * b /\ a * b \in Nat
    OBVIOUS
  <2> QED BY <2>1, <2>2
<1>4. Bad = {}
  <2> SUFFICES ASSUME Bad # {} PROVE FALSE
    OBVIOUS
  <2>1. PICK k \in Bad : \A y \in Bad : k <= y
    BY Bad \subseteq Nat, LeastOf
  <2>2. k \in 0 .. n /\ ProductTo(f, k) \notin Nat \ {0} /\ k # 0
    BY <1>1, <2>1
  <2>3. k - 1 \in 0 .. n /\ ~ (k <= k - 1) /\ k \in 1 .. n
    BY <2>2
  <2>4. ProductTo(f, k - 1) \in Nat \ {0}
    BY <2>1, <2>3
  <2> QED BY <1>2, <1>3, <2>2, <2>3, <2>4
<1>5. \A k \in 0 .. n : ProductTo(f, k) \in Nat \ {0}
  BY <1>4
<1>6. CASE n # 0
  <2>1. n \in 1 .. n /\ n - 1 \in 0 .. n
    BY <1>6
  <2> QED BY <1>2, <1>3, <1>5, <2>1
<1>7. CASE n = 0
  BY <1>1, <1>7
<1> QED BY <1>6, <1>7

\* One factor taken out of a product.
LEMMA ProductFactor ==
  ASSUME NEW n \in Nat, NEW i \in 1 .. n, NEW f, NEW u, \A k \in 1 .. n : f[k] \in Int /\ u[k] \in Int,
         u[i] = 1, \A k \in 1 .. n : k # i => u[k] = f[k]
  PROVE  ProductTo(f, n) = f[i] * ProductTo(u, n)
<1> DEFINE Right(k) == ProductTo(f, k) = IF k < i THEN ProductTo(u, k) ELSE f[i] * ProductTo(u, k)
           Bad == {k \in 0 .. n : ~ Right(k)}
<1>1. Right(0)
  BY ProductEmpty
<1>2. ASSUME NEW k \in 1 .. n
      PROVE  /\ ProductTo(f, k - 1) \in Int /\ ProductTo(f, k) = ProductTo(f, k - 1) * f[k]
             /\ ProductTo(u, k - 1) \in Int /\ ProductTo(u, k) = ProductTo(u, k - 1) * u[k]
  <2>1. k - 1 \in Nat /\ (k - 1) + 1 = k /\ \A j \in 1 .. (k - 1) + 1 : f[j] \in Int /\ u[j] \in Int
    OBVIOUS
  <2>2. /\ ProductTo(f, k - 1) \in Int /\ ProductTo(f, (k - 1) + 1) = ProductTo(f, k - 1) * f[(k - 1) + 1]
        /\ ProductTo(u, k - 1) \in Int /\ ProductTo(u, (k - 1) + 1) = ProductTo(u, k - 1) * u[(k - 1) + 1]
    BY <2>1, ProductNext
  <2> QED BY <2>1, <2>2
<1>3. Bad = {}
  <2> SUFFICES ASSUME Bad # {} PROVE FALSE
    OBVIOUS
  <2>1. PICK k \in Bad : \A y \in Bad : k <= y
    BY Bad \subseteq Nat, LeastOf
  <2>2. k \in 0 .. n /\ ~ Right(k)
    BY <2>1
  <2>3. k # 0
    BY <1>1, <2>2
  <2>4. k - 1 \in 0 .. n /\ ~ (k <= k - 1) /\ k \in 1 .. n
    BY <2>2, <2>3
  <2>5. Right(k - 1)
    BY <2>1, <2>4
  <2>6. PICK a \in Int, b \in Int, x \in Int, y \in Int, z \in Int :
          a = ProductTo(f, k - 1) /\ b = ProductTo(u, k - 1) /\ x = f[k] /\ y = u[k] /\ z = f[i]
    BY <1>2, <2>4
  <2>7. ProductTo(f, k) = a * x /\ ProductTo(u, k) = b * y /\ a = IF k - 1 < i THEN b ELSE z * b
    BY <1>2, <2>4, <2>5, <2>6
  <2>8. CASE k < i
    <3>1. a = b /\ x = y
      BY <2>4, <2>6, <2>7, <2>8
    <3> QED BY <2>2, <2>7, <2>8, <3>1
  <2>9. CASE k = i
    <3>1. a = b /\ x = z /\ y = 1
      BY <2>4, <2>6, <2>7, <2>9
    <3>2. a * x = z * (b * y)
      BY ONLY <3>1, a \in Int, b \in Int, x \in Int
    <3> QED BY <2>2, <2>6, <2>7, <2>9, <3>2
  <2>10. CASE k > i
    <3>1. a = z * b /\ x = y
      BY <2>4, <2>6, <2>7, <2>10
    <3>2. a * x = z * (b * y)
      BY ONLY <3>1, a \in Int, b \in Int, x \in Int, z \in Int
    <3> QED BY <2>2, <2>6, <2>7, <2>10, <3>2
  <2> QED BY <2>4, <2>8, <2>9, <2>10
<1>4. Right(n)
  <2>1. n \in 0 .. n
    OBVIOUS
  <2> QED BY <1>3, <2>1
<1> QED BY <1>4
-----------------------------------------------------------------------------
(* Powers of two *)

LEMMA PowerNext ==
  ASSUME NEW n \in Nat
  PROVE  PowerOf2(0) = 1 /\ PowerOf2(n) \in Nat \ {0} /\ PowerOf2(n + 1) = 2 * PowerOf2(n)
<1> DEFINE f == [k \in 1 .. n |-> 2]
           g == [k \in 1 .. n + 1 |-> 2]
<1>1. PowerOf2(0) = 1
  BY ProductEmpty DEF PowerOf2
<1>2. PowerOf2(n) = ProductTo(f, n) /\ PowerOf2(n + 1) = ProductTo(g, n + 1)
  BY DEF PowerOf2
<1>3. /\ \A k \in 1 .. n : f[k] = 2 /\ g[k] = 2
      /\ \A k \in 1 .. n + 1 : g[k] = 2
      /\ n + 1 \in 1 .. n + 1
  OBVIOUS
<1> HIDE DEF f, g
<1>4. ProductTo(f, n) \in Nat \ {0}
  BY <1>3, ProductPositive
<1>5. ProductTo(g, n) \in Int /\ ProductTo(g, n + 1) = ProductTo(g, n) * 2
  BY <1>3, ProductNext
<1>6. PICK r : IsProduct(f, n, r) /\ ProductTo(f, n) = r[n]
  BY <1>3, ProductIs
<1>7. PICK s : IsProduct(g, n, s) /\ ProductTo(g, n) = s[n]
  BY <1>3, ProductIs
<1>8. IsProduct(f, n, s)
  BY <1>3, <1>7 DEF IsProduct
<1>9. r[n] = s[n]
  BY <1>6, <1>8, ProductUnique, n \in 0 .. n
<1> QED BY <1>1, <1>2, <1>4, <1>5, <1>6, <1>7, <1>9

\* A larger power is a larger number, and a multiple.
LEMMA PowerGrows ==
  ASSUME NEW m \in Nat, NEW n \in Nat, m <= n
  PROVE  /\ PowerOf2(m) <= PowerOf2(n)
         /\ m < n => PowerOf2(m) < PowerOf2(n)
         /\ \E q \in Nat \ {0} : PowerOf2(n) = PowerOf2(m) * q
<1> DEFINE Good(k) == \E q \in Nat \ {0} : PowerOf2(k) = PowerOf2(m) * q /\ (k # m => q > 1)
           Bad == {k \in m .. n : ~ Good(k)}
<1>1. PICK p \in Nat \ {0} : p = PowerOf2(m)
  BY PowerNext
<1>2. Good(m)
  <2>1. p = p * 1
    OBVIOUS
  <2> QED BY <1>1, <2>1
<1>3. Bad = {}
  <2> SUFFICES ASSUME Bad # {} PROVE FALSE
    OBVIOUS
  <2>1. PICK k \in Bad : \A y \in Bad : k <= y
    BY Bad \subseteq Nat, LeastOf
  <2>2. k \in m .. n /\ ~ Good(k) /\ k # m
    BY <1>2, <2>1
  <2>3. k - 1 \in m .. n /\ ~ (k <= k - 1) /\ k - 1 \in Nat /\ (k - 1) + 1 = k
    BY <2>2
  <2>4. Good(k - 1)
    BY <2>1, <2>3
  <2>5. PICK q \in Nat \ {0} : PowerOf2(k - 1) = PowerOf2(m) * q
    BY <2>4
  <2>6. PowerOf2((k - 1) + 1) = 2 * PowerOf2(k - 1)
    BY <2>3, PowerNext
  <2>7. PowerOf2(k) = 2 * (p * q)
    BY <1>1, <2>3, <2>5, <2>6
  <2>8. 2 * (p * q) = p * (2 * q) /\ 2 * q \in Nat \ {0} /\ 2 * q > 1
    OBVIOUS
  <2> QED BY <1>1, <2>2, <2>7, <2>8
<1>4. Good(n)
  BY <1>3, n \in m .. n
<1>5. PICK q \in Nat \ {0} : PowerOf2(n) = PowerOf2(m) * q /\ (n # m => q > 1)
  BY <1>4
<1>6. p * 1 <= p * q /\ p * 1 = p
  BY MulGrows
<1>7. ASSUME m < n PROVE p < p * q
  <2>1. q > 1
    BY <1>5, <1>7
  <2>2. p * 2 <= p * q /\ p * 2 = p + p /\ p * q \in Nat
    BY <2>1, MulGrows
  <2> QED BY <2>2
<1> QED BY <1>1, <1>5, <1>6, <1>7

\* Rounding down to a multiple of g.
LEMMA Rounding ==
  ASSUME NEW g \in Nat \ {0}, NEW x \in Nat
  PROVE  /\ x % g \in 0 .. g - 1
         /\ \E q \in Nat : x - (x % g) = g * q /\ x = g * q + (x % g)
<1>1. x % g \in 0 .. g - 1 /\ x = g * (x \div g) + (x % g) /\ x \div g \in Nat
  OBVIOUS
<1>2. PICK q \in Nat, r \in 0 .. g - 1 : q = x \div g /\ r = x % g
  BY <1>1
<1>3. x = g * q + r /\ x - r = g * q
  BY <1>1, <1>2
<1> QED BY <1>1, <1>2, <1>3

LEMMA RoundingUnique ==
  ASSUME NEW g \in Nat \ {0}, NEW q \in Nat, NEW x \in Nat, g * q <= x, x < g * q + g
  PROVE  x - (x % g) = g * q
<1>1. PICK r \in 0 .. g - 1, p \in Nat : r = x % g /\ x = g * p + r
  BY Rounding
<1>2. CASE p + 1 <= q
  <2>1. g * (p + 1) <= g * q /\ g * (p + 1) = g * p + g /\ g * p \in Nat /\ g * q \in Nat
    BY <1>2, MulGrows
  <2> QED BY <1>1, <2>1
<1>3. CASE q + 1 <= p
  <2>1. g * (q + 1) <= g * p /\ g * (q + 1) = g * q + g /\ g * p \in Nat /\ g * q \in Nat
    BY <1>3, MulGrows
  <2> QED BY <1>1, <2>1
<1>4. CASE p = q
  <2>1. g * q \in Nat
    OBVIOUS
  <2> QED BY <1>1, <1>4, <2>1
<1> QED BY <1>2, <1>3, <1>4
=============================================================================
