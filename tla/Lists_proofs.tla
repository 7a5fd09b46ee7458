----------------------------- MODULE Lists_proofs -----------------------------
(***************************************************************************)
(* Facts about lists for the proofs of the windows: induction over sets of *)
(* positions, what pruning at the front leaves, and how far two values may *)
(* be apart in a list that deviates little.                                *)
(*                                                                         *)
(* The induction theorems of the library take an operator as a parameter,  *)
(* which the provers cannot instantiate.  Here the statement is a set: the *)
(* numbers or sets it holds of, or does not.                               *)
(***************************************************************************)
EXTENDS Integers, Pruning, TLAPS, WellFoundedInduction, FiniteSetTheorems

\* A nonempty set of naturals has a least element.
LEMMA LeastNat ==
    ASSUME NEW T, T \subseteq Nat, T # {}
    PROVE  \E x \in T : \A y \in T : x <= y
<1>1. \E R : /\ IsWellFoundedOn(R, Nat)
             /\ \A x, y \in Nat : y < x => <<y, x>> \in R
  <2>1. IsWellFoundedOn(OpToRel(<, Nat), Nat)
    BY NatLessThanWellFounded
  <2>2. \A x, y \in Nat : y < x => <<y, x>> \in OpToRel(<, Nat)
    BY DEF OpToRel
  <2> QED BY <2>1, <2>2
<1>2. PICK R : /\ IsWellFoundedOn(R, Nat)
               /\ \A x, y \in Nat : y < x => <<y, x>> \in R
  BY <1>1
<1>3. PICK x \in T : \A y \in T : ~(<<y, x>> \in R)
  BY <1>2, WFMin
<1>4. ASSUME NEW y \in T PROVE x <= y
  <2>1. x \in Nat /\ y \in Nat
    OBVIOUS
  <2>2. ~(y < x)
    BY <1>2, <1>3, <2>1
  <2> QED BY <2>1, <2>2
<1> QED BY <1>3, <1>4

\* The element that the folds of the community modules take out of a set first.
Chosen(s) == CHOOSE y \in s : TRUE

LEMMA WithoutChosen ==
    ASSUME NEW n \in Nat, NEW s \in SUBSET (1 .. n)
    PROVE  /\ IsFiniteSet(s) /\ Cardinality(s) \in Nat
           /\ Cardinality(s) = 0 <=> s = {}
           /\ s # {} => /\ Chosen(s) \in s /\ Chosen(s) \in 1 .. n
                        /\ s \ {Chosen(s)} \in SUBSET (1 .. n)
                        /\ Cardinality(s \ {Chosen(s)}) = Cardinality(s) - 1
<1>1. IsFiniteSet(1 .. n)
  BY FS_Interval
<1>2. IsFiniteSet(s)
  BY <1>1, FS_Subset
<1>3. s # {} => Chosen(s) \in s
  BY DEF Chosen
<1> QED BY <1>2, <1>3, FS_RemoveElement, FS_EmptySet, FS_CardinalityType

\* Induction over the sets of positions, on a set that stands for the statement.
LEMMA PositionsInduction ==
    ASSUME NEW n \in Nat, NEW T, {} \in T,
           \A s \in SUBSET (1 .. n) : s # {} /\ s \ {Chosen(s)} \in T => s \in T
    PROVE  \A s \in SUBSET (1 .. n) : s \in T
<1> DEFINE Out == { k \in Nat : \E s \in SUBSET (1 .. n) : Cardinality(s) = k /\ s \notin T }
<1>1. Out = {}
  <2> SUFFICES ASSUME Out # {} PROVE FALSE
    OBVIOUS
  <2>1. PICK k \in Out : \A m \in Out : k <= m
    <3>1. Out \subseteq Nat
      OBVIOUS
    <3> HIDE DEF Out
    <3> QED BY <3>1, LeastNat
  <2>2. PICK s \in SUBSET (1 .. n) : Cardinality(s) = k /\ s \notin T
    BY <2>1
  <2>3. s # {}
    BY <2>2
  <2>4. /\ s \ {Chosen(s)} \in SUBSET (1 .. n) /\ k \in Nat
        /\ Cardinality(s \ {Chosen(s)}) = k - 1 /\ k - 1 \in Nat
    <3>1. Cardinality(s) \in Nat /\ Cardinality(s) # 0
      BY <2>3, WithoutChosen
    <3>2. k \in Nat /\ k - 1 \in Nat
      BY <2>2, <3>1
    <3> QED BY <2>2, <2>3, <3>2, WithoutChosen
  <2>5. k - 1 \notin Out
    <3> HIDE DEF Out
    <3> QED BY <2>1, <2>4
  <2>6. s \ {Chosen(s)} \in T
    BY <2>4, <2>5
  <2> QED BY <2>2, <2>3, <2>6
<1> QED BY <1>1, WithoutChosen

-----------------------------------------------------------------------------
\* The positions below one that is kept are kept, so those left out are 1 .. c.
LEMMA ExpiredIsFront ==
    ASSUME NEW n \in Nat, NEW X, X \subseteq 1 .. n,
           \A i, j \in 1 .. n : i <= j /\ j \in X => i \in X
    PROVE  Cardinality(X) \in 0 .. n /\ X = 1 .. Cardinality(X)
<1> DEFINE K == { i \in 1 .. n + 1 : i \notin X }
<1>1. K \subseteq Nat /\ n + 1 \in K
  OBVIOUS
<1>2. PICK k \in K : \A i \in K : k <= i
  <2>1. K # {}
    BY <1>1
  <2> HIDE DEF K
  <2> QED BY <1>1, <2>1, LeastNat
<1>3. X = 1 .. k - 1
  <2>1. ASSUME NEW i \in X PROVE i \in 1 .. k - 1
    <3>1. i \in 1 .. n /\ k \in 1 .. n + 1 /\ k \notin X
      OBVIOUS
    <3>2. ~(k <= i)
      BY <3>1
    <3> QED BY <3>1, <3>2
  <2>2. ASSUME NEW i \in 1 .. k - 1 PROVE i \in X
    <3>1. i \in 1 .. n + 1 /\ i < k
      OBVIOUS
    <3> QED BY <1>2, <3>1
  <2> QED BY <2>1, <2>2
<1>4. Cardinality(1 .. k - 1) = k - 1
  BY FS_Interval
<1> QED BY <1>3, <1>4

\* The part of a list behind its first k entries.
LEMMA RestOf ==
    ASSUME NEW S, NEW list \in Seq(S), NEW k \in 0 .. Len(list)
    PROVE  /\ SubSeq(list, k + 1, Len(list)) \in Seq(S)
           /\ Len(SubSeq(list, k + 1, Len(list))) = Len(list) - k
           /\ \A i \in 1 .. Len(list) - k : SubSeq(list, k + 1, Len(list))[i] = list[k + i]
<1>1. DOMAIN list = 1 .. Len(list) /\ Len(list) \in Nat
  OBVIOUS
<1>2. SubSeq(list, k + 1, Len(list)) \in Seq(S)
  <2>1. \A i \in k + 1 .. Len(list) : list[i] \in S
    BY <1>1
  <2> QED BY <1>1, <2>1
<1>3. Len(SubSeq(list, k + 1, Len(list))) = Len(list) - k
  OBVIOUS
<1>4. \A i \in 1 .. Len(list) - k : SubSeq(list, k + 1, Len(list))[i] = list[k + i]
  OBVIOUS
<1> QED BY <1>2, <1>3, <1>4

\* `rest` is what follows the first c entries of a list.
RestBehind(rest, list, c) ==
    /\ Len(rest) = Len(list) - c
    /\ \A i \in 1 .. Len(list) - c : rest[i] = list[c + i]

\* What is left of a list is the part of it behind the positions left out.
LEMMA PrunedIsRest ==
    ASSUME NEW S, NEW list \in Seq(S), NEW X, X \subseteq DOMAIN list,
           \A i, j \in DOMAIN list : i <= j /\ j \in X => i \in X
    PROVE  \E c \in 0 .. Len(list) :
              /\ X = 1 .. c
              /\ Pruned(list, X) \in Seq(S)
              /\ RestBehind(Pruned(list, X), list, c)
<1>1. DOMAIN list = 1 .. Len(list) /\ Len(list) \in Nat
  OBVIOUS
<1>2. PICK c \in 0 .. Len(list) : c = Cardinality(X) /\ X = 1 .. c
  BY <1>1, ExpiredIsFront
<1>3. Pruned(list, X) = SubSeq(list, c + 1, Len(list))
  BY <1>2 DEF Pruned
<1>4. /\ SubSeq(list, c + 1, Len(list)) \in Seq(S)
      /\ Len(SubSeq(list, c + 1, Len(list))) = Len(list) - c
      /\ \A i \in 1 .. Len(list) - c : SubSeq(list, c + 1, Len(list))[i] = list[c + i]
  BY RestOf
<1> QED BY <1>2, <1>3, <1>4 DEF RestBehind

-----------------------------------------------------------------------------
\* Arithmetic that the provers do not find on their own.
LEMMA MulMono ==
    ASSUME NEW a \in Nat, NEW b \in Int, NEW c \in Int, b <= c
    PROVE  a * b <= a * c
<1>1. PICK d \in Nat : c = b + d
  <2>1. c - b \in Nat /\ c = b + (c - b)
    OBVIOUS
  <2> QED BY <2>1
<1>2. a * c = a * b + a * d
  BY <1>1
<1>3. a * d \in Nat
  BY <1>1
<1>4. a * b \in Int
  OBVIOUS
<1> QED BY <1>2, <1>3, <1>4

LEMMA MulCancel ==
    ASSUME NEW a \in Nat, a > 0, NEW b \in Int, NEW c \in Int, a * b <= a * c
    PROVE  b <= c
<1> SUFFICES ASSUME c < b PROVE FALSE
  OBVIOUS
<1>1. a * (c + 1) <= a * b
  BY MulMono
<1>2. a * (c + 1) = a * c + a
  OBVIOUS
<1>3. a * b \in Int /\ a * c \in Int
  OBVIOUS
<1> QED BY <1>1, <1>2, <1>3

LEMMA SquareIsNat ==
    ASSUME NEW a \in Int
    PROVE  a * a \in Nat
OBVIOUS

\* S and Q are the sum and the sum of squares of k values; and of v in addition.
SquareBelow(S, Q, k) == S * S <= k * Q
SquareBelowWith(v, S, Q, k) == (S + v) * (S + v) <= (k + 1) * (Q + v * v)

\* One value more keeps the square of a sum below the sum of squares, times
\* their number.
LEMMA OneMoreValue ==
    ASSUME NEW k \in Nat, NEW S \in Int, NEW Q \in Nat, NEW v \in Int,
           SquareBelow(S, Q, k)
    PROVE  SquareBelowWith(v, S, Q, k)
<1>1. S * S <= k * Q
  BY DEF SquareBelow
<1> DEFINE z == Q - 2 * (S * v) + k * (v * v)
<1>2. z \in Int
  OBVIOUS
<1>3. (k + 1) * (Q + v * v) - (S + v) * (S + v) = (k * Q - S * S) + z
  OBVIOUS
<1>4. z >= 0
  <2>1. CASE k = 0
    <3>1. S = 0
      BY <1>1, <2>1
    <3> QED BY <2>1, <3>1
  <2>2. CASE k > 0
    <3>1. k * z = (k * Q - S * S) + (S - k * v) * (S - k * v)
      OBVIOUS
    <3>2. (S - k * v) * (S - k * v) \in Nat
      BY SquareIsNat
    <3>3. k * Q - S * S \in Nat
      BY <1>1
    <3>4. k * 0 <= k * z
      BY <3>1, <3>2, <3>3
    <3> HIDE DEF z
    <3> QED BY <1>2, <2>2, <3>4, MulCancel
  <2> QED BY <2>1, <2>2
<1>5. k * Q - S * S \in Nat
  BY <1>1
<1>6. (k + 1) * (Q + v * v) \in Int /\ (S + v) * (S + v) \in Int
  OBVIOUS
<1> HIDE DEF z
<1> QED BY <1>2, <1>3, <1>4, <1>5, <1>6 DEF SquareBelowWith

\* x, y and k more values with the sum R and the sum of squares P: their
\* deviation is within the limit whose square is c / 10000 ...
DeviatesWithin(c, x, y, R, P, k) ==
    LET S == x + y + R
        Q == x * x + y * y + P
    IN  10000 * ((k + 2) * Q - S * S) <= c * S * S

\* ... and would be if the others were alike, which is when it is least.
PairWithin(c, x, y, k) ==
    10000 * ((x - y) * (x - y)) <= c * ((x + y) * (x + y) + k * (x * x + y * y))

LEMMA PairBound ==
    ASSUME NEW x \in Nat \ {0}, NEW y \in Nat \ {0}, NEW m \in Nat,
           NEW R \in Int, NEW P \in Nat, NEW c \in Nat,
           SquareBelow(R, P, m), DeviatesWithin(c, x, y, R, P, m)
    PROVE  PairWithin(c, x, y, m)
<1> DEFINE S == x + y + R
           Q == x * x + y * y + P
<1>1. /\ R * R <= m * P /\ S \in Int /\ Q \in Nat
      /\ 10000 * ((m + 2) * Q - S * S) <= c * S * S
  BY DEF SquareBelow, DeviatesWithin
<1>2. PICK s \in Nat : s = x + y
  OBVIOUS
<1>3. PICK q \in Nat : q = x * x + y * y
  OBVIOUS
<1>4. q > 0 /\ Q = q + P /\ Q > 0 /\ S = s + R
  BY <1>2, <1>3
<1>5. S = x + y + R /\ Q = x * x + y * y + P
  OBVIOUS
<1> HIDE DEF S, Q
<1>6. q * (S * S) <= (s * s + m * q) * Q
  <2>1. 2 * (q * (s * R)) <= m * (q * q) + (s * s) * P
    <3>1. CASE m = 0
      <4>1. R = 0
        BY <1>1, <3>1
      <4>2. (s * s) * P \in Nat
        OBVIOUS
      <4> QED BY <3>1, <4>1, <4>2
    <3>2. CASE m > 0
      <4>1. m * (m * (q * q) + (s * s) * P - 2 * (q * (s * R)))
              = (m * q - s * R) * (m * q - s * R) + (s * s) * (m * P - R * R)
        OBVIOUS
      <4>2. (m * q - s * R) * (m * q - s * R) \in Nat
        BY SquareIsNat
      <4>3. (s * s) * (m * P - R * R) \in Nat
        <5>1. m * P - R * R \in Nat /\ s * s \in Nat
          BY <1>1
        <5> QED BY <5>1
      <4>4. PICK d \in Int : d = m * (q * q) + (s * s) * P - 2 * (q * (s * R))
        OBVIOUS
      <4>5. m * 0 <= m * d
        BY <4>1, <4>2, <4>3, <4>4
      <4>6. 0 <= d
        BY <3>2, <4>5, MulCancel
      <4> QED BY <4>4, <4>6
    <3> QED BY <3>1, <3>2
  <2>2. q * (R * R) <= q * (m * P)
    BY <1>1, MulMono
  <2>3. q * (S * S) = q * (s * s) + 2 * (q * (s * R)) + q * (R * R)
    BY <1>4
  <2>4. (s * s + m * q) * Q = q * (s * s) + m * (q * q) + (s * s) * P + q * (m * P)
    BY <1>4
  <2>5. PICK a \in Int : a = q * (s * s)
    OBVIOUS
  <2>6. PICK b \in Int : b = m * (q * q) + (s * s) * P
    OBVIOUS
  <2>7. PICK d \in Int : d = 2 * (q * (s * R))
    OBVIOUS
  <2>8. PICK e \in Int : e = q * (R * R)
    OBVIOUS
  <2>9. PICK h \in Int : h = q * (m * P)
    OBVIOUS
  <2>10. d <= b /\ e <= h
    BY <2>1, <2>2, <2>6, <2>7, <2>8, <2>9
  <2>11. a + d + e <= a + b + h
    BY <2>10
  <2>12. q * (S * S) = a + d + e
    BY <2>3, <2>5, <2>7, <2>8
  <2>13. (s * s + m * q) * Q = a + b + h
    BY <2>4, <2>5, <2>6, <2>9
  <2> QED BY <2>11, <2>12, <2>13
<1>7. PICK T \in Nat : T = S * S
  BY <1>1, SquareIsNat
<1>8. PICK B \in Nat : B = s * s + m * q
  OBVIOUS
<1>9. 10000 * ((m + 2) * Q) <= (10000 + c) * T
  BY <1>1, <1>7
<1>10. q * (10000 * ((m + 2) * Q)) <= q * ((10000 + c) * T)
  BY <1>1, <1>9, MulMono
<1>11. (10000 + c) * (q * T) <= (10000 + c) * (B * Q)
  BY <1>1, <1>6, <1>7, <1>8, MulMono
<1>12. Q * (10000 * ((m + 2) * q)) <= Q * ((10000 + c) * B)
  BY <1>1, <1>10, <1>11
<1>13. 10000 * ((m + 2) * q) <= (10000 + c) * B
  BY <1>1, <1>4, <1>12, MulCancel
<1>14. 10000 * (2 * q - s * s) <= c * B
  BY <1>8, <1>13
<1>15. 2 * q - s * s = (x - y) * (x - y)
  BY <1>2, <1>3
<1> QED BY <1>2, <1>3, <1>8, <1>14, <1>15 DEF PairWithin

\* At the limit the code has, the longer of two gaps among four is less than
\* 3.3 times the shorter.
LEMMA FourAreEven ==
    ASSUME NEW x \in Nat \ {0}, NEW y \in Nat \ {0},
           PairWithin(1225, x, y, 2)
    PROVE  10 * x < 33 * y
<1> SUFFICES ASSUME 10 * x >= 33 * y PROVE FALSE
  OBVIOUS
<1>1. PICK d \in Nat : 10 * x = 33 * y + d
  <2>1. 10 * x - 33 * y \in Nat
    OBVIOUS
  <2> QED BY <2>1
<1>2. 100 * (10000 * ((x - y) * (x - y))
             - 1225 * ((x + y) * (x + y) + 2 * (x * x + y * y)))
        = 111925 * (y * y) + 192950 * (y * d) + 6325 * (d * d)
  BY <1>1
<1>3. y * d \in Nat /\ d * d \in Nat /\ y * y \in Nat /\ y * y > 0
  OBVIOUS
<1>4. 10000 * ((x - y) * (x - y))
         <= 1225 * ((x + y) * (x + y) + 2 * (x * x + y * y))
  BY DEF PairWithin
<1> QED BY <1>2, <1>3, <1>4
=============================================================================
