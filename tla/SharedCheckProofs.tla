------------------------- MODULE SharedCheckProofs -------------------------
(***************************************************************************)
(* Proofs about SharedCheck.                                               *)
(***************************************************************************)
EXTENDS SharedCheck, FiniteSetTheorems, SequenceTheorems, WellFoundedInduction, TLAPS

(***************************************************************************)
(* Induction over the subsets of a finite set.                             *)
(***************************************************************************)

\* Every set of numbers has a least one.
LEMMA Least ==
    ASSUME NEW T, T \subseteq Nat, T # {}
    PROVE  \E x \in T : \A y \in T : x <= y
<1>1. IsWellFoundedOn({p \in Nat \X Nat : p[1] < p[2]}, Nat)
  BY NatLessThanWellFounded DEF OpToRel
<1>2. PICK x \in T : \A y \in T : ~(<<y, x>> \in {p \in Nat \X Nat : p[1] < p[2]})
  BY <1>1, WFMin
<1>3. ASSUME NEW y \in T PROVE x <= y
  <2>1. x \in Nat /\ y \in Nat /\ <<y, x>> \in Nat \X Nat
    OBVIOUS
  <2>2. ~(<<y, x>>[1] < <<y, x>>[2])
    BY <1>2, <2>1
  <2>. QED
    BY <2>1, <2>2
<1>. QED
  BY <1>3

\* What holds of the empty set, and of a set as soon as it holds without any
\* one of its elements, holds of every subset.
LEMMA SubsetInduction ==
    ASSUME NEW S, IsFiniteSet(S), NEW Good, {} \in Good,
           \A T \in SUBSET S : T # {} /\ (\A x \in T : T \ {x} \in Good) => T \in Good
    PROVE  SUBSET S \subseteq Good
<1>. DEFINE Bad == (SUBSET S) \ Good
<1>. SUFFICES ASSUME Bad # {} PROVE FALSE
  OBVIOUS
<1>. DEFINE Sizes == {Cardinality(T) : T \in Bad}
<1>1. \A T \in Bad : IsFiniteSet(T) /\ Cardinality(T) \in Nat
  BY FS_Subset, FS_CardinalityType
<1>2. Sizes \subseteq Nat /\ Sizes # {}
  BY <1>1
<1>3. PICK n \in Sizes : \A k \in Sizes : n <= k
  <2>. HIDE DEF Sizes
  <2>. QED
    BY <1>2, Least
<1>4. PICK T \in Bad : Cardinality(T) = n
  OBVIOUS
<1>5. PICK x \in T : T \ {x} \notin Good
  OBVIOUS
<1>6. T \ {x} \in Bad
  BY <1>5
<1>7. Cardinality(T \ {x}) = Cardinality(T) - 1
  BY <1>1, FS_RemoveElement
<1>8. Cardinality(T) <= Cardinality(T \ {x})
  BY <1>3, <1>4, <1>6
<1>. QED
  BY <1>1, <1>7, <1>8

----------------------------------------------------------------------------
(***************************************************************************)
(* What the folds of the generated system give.                            *)
LEMMA Induction ==
    ASSUME NEW N, 0 \in N, \A k \in Nat : k \in N => k + 1 \in N
    PROVE  Nat \subseteq N
<1>1. ASSUME Nat \ N # {} PROVE FALSE
  <2>1. PICK x \in Nat \ N : \A y \in Nat \ N : x <= y
    BY <1>1, Least
  <2>2. x - 1 \in Nat /\ x - 1 \in N
    BY <2>1
  <2>. QED
    BY <2>1, <2>2
<1>. QED
  BY <1>1

----------------------------------------------------------------------------
(***************************************************************************)
(* Arithmetic modulo the prime.                                            *)
(***************************************************************************)

Cong(a, b) == \E k \in Int : a = b + k * Modulus

LEMMA ModulusIs == Modulus \in Nat /\ Modulus >= 2 /\ Modulus > NParties
  BY SharingAssumption

LEMMA DivisionIs ==
    ASSUME NEW a \in Int, NEW b \in Nat, b > 0
    PROVE  /\ a \div b \in Int /\ a % b \in 0 .. b - 1
           /\ a = (a \div b) * b + (a % b)
  OBVIOUS

LEMMA CongMod ==
    ASSUME NEW a \in Int
    PROVE  a % Modulus \in Field /\ a % Modulus \in Int /\ Cong(a % Modulus, a)
<1>1. a \div Modulus \in Int /\ a % Modulus \in 0 .. Modulus - 1
      /\ a = (a \div Modulus) * Modulus + (a % Modulus)
  BY ModulusIs, DivisionIs
<1>2. a % Modulus = a + (0 - (a \div Modulus)) * Modulus
  BY <1>1, ModulusIs
<1>. QED
  BY <1>1, <1>2 DEF Cong, Field

LEMMA CongRefl ==
    ASSUME NEW a \in Int PROVE Cong(a, a)
<1>1. a = a + 0 * Modulus
  BY ModulusIs
<1>. QED
  BY <1>1 DEF Cong

LEMMA CongSym ==
    ASSUME NEW a \in Int, NEW b \in Int, Cong(a, b) PROVE Cong(b, a)
<1>1. PICK k \in Int : a = b + k * Modulus
  BY DEF Cong
<1>2. b = a + (0 - k) * Modulus
  BY <1>1, ModulusIs
<1>. QED
  BY <1>2 DEF Cong

LEMMA CongTrans ==
    ASSUME NEW a \in Int, NEW b \in Int, NEW c \in Int, Cong(a, b), Cong(b, c)
    PROVE  Cong(a, c)
<1>1. PICK k \in Int : a = b + k * Modulus
  BY DEF Cong
<1>2. PICK l \in Int : b = c + l * Modulus
  BY DEF Cong
<1>3. a = c + (k + l) * Modulus
  BY <1>1, <1>2, ModulusIs
<1>. QED
  BY <1>3 DEF Cong

LEMMA CongAdd ==
    ASSUME NEW a \in Int, NEW b \in Int, NEW c \in Int, NEW d \in Int, Cong(a, b), Cong(c, d)
    PROVE  Cong(a + c, b + d)
<1>1. PICK k \in Int : a = b + k * Modulus
  BY DEF Cong
<1>2. PICK l \in Int : c = d + l * Modulus
  BY DEF Cong
<1>3. a + c = (b + d) + (k + l) * Modulus
  BY <1>1, <1>2, ModulusIs
<1>. QED
  BY <1>3 DEF Cong

LEMMA CongSub ==
    ASSUME NEW a \in Int, NEW b \in Int, NEW c \in Int, NEW d \in Int, Cong(a, b), Cong(c, d)
    PROVE  Cong(a - c, b - d)
<1>1. PICK k \in Int : a = b + k * Modulus
  BY DEF Cong
<1>2. PICK l \in Int : c = d + l * Modulus
  BY DEF Cong
<1>3. a - c = (b - d) + (k - l) * Modulus
  BY <1>1, <1>2, ModulusIs
<1>. QED
  BY <1>3 DEF Cong

LEMMA CongMul ==
    ASSUME NEW a \in Int, NEW b \in Int, NEW c \in Int, NEW d \in Int, Cong(a, b), Cong(c, d)
    PROVE  Cong(a * c, b * d)
<1>1. PICK k \in Int : a = b + k * Modulus
  BY DEF Cong
<1>2. PICK l \in Int : c = d + l * Modulus
  BY DEF Cong
<1>3. a * c = (b * d) + (k * d + b * l + k * l * Modulus) * Modulus
  BY <1>1, <1>2, ModulusIs
<1>4. k * d + b * l + k * l * Modulus \in Int
  BY ModulusIs
<1>. QED
  BY <1>3, <1>4 DEF Cong

\* Numbers of the field that are congruent are equal.
LEMMA CongInField ==
    ASSUME NEW a \in Field, NEW b \in Field, Cong(a, b)
    PROVE  a = b
<1>1. PICK k \in Int : a = b + k * Modulus
  BY DEF Cong
<1>2. a \in 0 .. Modulus - 1 /\ b \in 0 .. Modulus - 1
  BY DEF Field
<1>3. k >= 1 => k * Modulus >= Modulus
  BY ModulusIs
<1>4. k <= -1 => k * Modulus <= 0 - Modulus
  BY ModulusIs
<1>5. k = 0
  BY <1>1, <1>2, <1>3, <1>4, ModulusIs
<1>. QED
  BY <1>1, <1>2, <1>5, ModulusIs

LEMMA ModOfCong ==
    ASSUME NEW a \in Int, NEW b \in Int, Cong(a, b)
    PROVE  a % Modulus = b % Modulus
<1>1. /\ a % Modulus \in Field /\ a % Modulus \in Int /\ Cong(a % Modulus, a)
      /\ b % Modulus \in Field /\ b % Modulus \in Int /\ Cong(b, b % Modulus)
  BY CongMod, CongSym
<1>2. Cong(a % Modulus, b)
  BY <1>1, CongTrans
<1>3. Cong(a % Modulus, b % Modulus)
  BY <1>1, <1>2, CongTrans
<1>. QED
  BY <1>1, <1>3, CongInField

----------------------------------------------------------------------------
(***************************************************************************)
(* Euclid's algorithm, and the inverses it gives.                          *)
(***************************************************************************)

Row == [a : Int, prevx : Int, x : Int]

NextRow(r, b) == [a |-> b, prevx |-> r.x, x |-> r.prevx - (r.a \div b) * r.x]

IsXgcd(f, n) ==
    f = [b \in 0 .. n |-> [r \in Row |->
            IF b = 0 THEN <<r.a, r.prevx>> ELSE f[r.a % b][NextRow(r, b)]]]

LEMMA XgcdExists ==
    ASSUME NEW n \in Nat
    PROVE  \E f : IsXgcd(f, n)
<1>. DEFINE N == {k \in Nat : \E f : IsXgcd(f, k)}
<1>1. 0 \in N
  <2>. DEFINE f == [b \in 0 .. 0 |-> [r \in Row |-> <<r.a, r.prevx>>]]
  <2>1. \A b \in 0 .. 0 : b = 0
    OBVIOUS
  <2>2. f = [b \in 0 .. 0 |-> [r \in Row |->
                IF b = 0 THEN <<r.a, r.prevx>> ELSE f[r.a % b][NextRow(r, b)]]]
    BY <2>1
  <2>3. IsXgcd(f, 0)
    BY <2>2 DEF IsXgcd
  <2>. QED
    BY <2>3
<1>2. ASSUME NEW k \in Nat, k \in N PROVE k + 1 \in N
  <2>1. PICK f : IsXgcd(f, k)
    BY <1>2
  <2>. DEFINE next(b, r) == IF b = 0 THEN <<r.a, r.prevx>> ELSE f[r.a % b][NextRow(r, b)]
              more == [b \in 0 .. k + 1 |-> [r \in Row |-> next(b, r)]]
  <2>2. ASSUME NEW b \in 0 .. k PROVE more[b] = f[b]
    <3>1. f[b] = [r \in Row |-> next(b, r)]
      BY <2>1 DEF IsXgcd
    <3>2. b \in 0 .. k + 1
      OBVIOUS
    <3>. QED
      BY <3>1, <3>2
  <2>3. ASSUME NEW b \in 0 .. k + 1, b # 0, NEW r \in Row
        PROVE  r.a % b \in 0 .. k
    <3>1. r.a \in Int /\ b \in Nat /\ b > 0
      BY <2>3 DEF Row
    <3>2. r.a % b \in 0 .. b - 1
      BY <3>1, DivisionIs
    <3>. QED
      BY <3>1, <3>2
  <2>4. ASSUME NEW b \in 0 .. k + 1, NEW r \in Row
        PROVE  next(b, r) = IF b = 0 THEN <<r.a, r.prevx>> ELSE more[r.a % b][NextRow(r, b)]
    BY <2>2, <2>3
  <2>5. more = [b \in 0 .. k + 1 |-> [r \in Row |->
            IF b = 0 THEN <<r.a, r.prevx>> ELSE more[r.a % b][NextRow(r, b)]]]
    BY <2>4
  <2>. HIDE DEF more
  <2>6. IsXgcd(more, k + 1)
    BY <2>5 DEF IsXgcd
  <2>. QED
    BY <2>6
<1>3. Nat \subseteq N
  <2>. HIDE DEF N
  <2>. QED
    BY <1>1, <1>2, Induction
<1>. QED
  BY <1>3

LEMMA XgcdIs ==
    ASSUME NEW b \in 0 .. Modulus, NEW r \in Row
    PROVE  xgcd[b][r] = IF b = 0 THEN <<r.a, r.prevx>> ELSE xgcd[r.a % b][NextRow(r, b)]
<1>1. PICK f : IsXgcd(f, Modulus)
  BY XgcdExists, ModulusIs
<1>2. IsXgcd(xgcd, Modulus)
  BY <1>1 DEF xgcd, IsXgcd, Row, NextRow
<1>. HIDE DEF xgcd
<1>3. xgcd[b] = [s \in Row |->
            IF b = 0 THEN <<s.a, s.prevx>> ELSE xgcd[s.a % b][NextRow(s, b)]]
  BY <1>2, Zenon DEF IsXgcd
<1>. QED
  BY <1>3, Zenon

\* The algorithm keeps both numbers multiples of c, up to the modulus, and
\* stops at a common divisor.
Starts(c, b, r) ==
    Cong(r.a, c * r.prevx) /\ Cong(b, c * r.x) /\ (b > 0 \/ r.a > 0)

Divides(d, n) == \E k \in Int : n = k * d

Finds(c, b, r, gx) ==
    /\ gx[1] \in Nat /\ gx[1] > 0 /\ gx[2] \in Int /\ Cong(gx[1], c * gx[2])
    /\ Divides(gx[1], b) /\ Divides(gx[1], r.a)

LEMMA RowStep ==
    ASSUME NEW c \in Int, NEW b \in Nat, b > 0, NEW r \in Row, Starts(c, b, r)
    PROVE  /\ NextRow(r, b) \in Row /\ r.a % b \in 0 .. b - 1
           /\ Starts(c, r.a % b, NextRow(r, b))
           /\ \A gx : Finds(c, r.a % b, NextRow(r, b), gx) => Finds(c, b, r, gx)
<1>. DEFINE q == r.a \div b
            m == r.a % b
<1>1. r.a \in Int /\ r.prevx \in Int /\ r.x \in Int
  BY DEF Row
<1>2. q \in Int /\ m \in 0 .. b - 1 /\ m \in Int /\ r.a = q * b + m
  BY <1>1, DivisionIs
<1>3. NextRow(r, b).a = b /\ NextRow(r, b).prevx = r.x /\ NextRow(r, b).x = r.prevx - q * r.x
  BY DEF NextRow
<1>. HIDE DEF q, m
<1>4. NextRow(r, b) \in Row
  BY <1>1, <1>2 DEF NextRow, Row, q
<1>5. Cong(m, c * (r.prevx - q * r.x))
  <2>1. Cong(r.a, c * r.prevx) /\ Cong(b, c * r.x) /\ Cong(q, q)
    BY <1>2, CongRefl DEF Starts
  <2>. DEFINE d == c * r.x
  <2>0. d \in Int /\ b \in Int
    BY <1>1
  <2>. HIDE DEF d
  <2>2. Cong(q * b, q * d)
    BY <1>2, <2>0, <2>1, CongMul DEF d
  <2>3. q * b \in Int /\ q * (c * r.x) \in Int /\ c * r.prevx \in Int
    BY <1>1, <1>2
  <2>4. Cong(r.a - q * b, c * r.prevx - q * (c * r.x))
    BY <1>1, <2>1, <2>2, <2>3, CongSub DEF d
  <2>5. r.a - q * b = m /\ c * r.prevx - q * (c * r.x) = c * (r.prevx - q * r.x)
    BY <1>1, <1>2
  <2>. QED
    BY <2>4, <2>5
<1>6. Starts(c, m, NextRow(r, b))
  BY <1>3, <1>5 DEF Starts
<1>7. ASSUME NEW gx, Finds(c, m, NextRow(r, b), gx) PROVE Finds(c, b, r, gx)
  <2>1. gx[1] \in Nat
    BY <1>7 DEF Finds
  <2>2. PICK k \in Int : m = k * gx[1]
    BY <1>7 DEF Finds, Divides
  <2>3. PICK l \in Int : b = l * gx[1]
    BY <1>3, <1>7 DEF Finds, Divides
  <2>4. r.a = (q * l + k) * gx[1] /\ q * l + k \in Int
    BY <1>2, <2>1, <2>2, <2>3
  <2>5. Divides(gx[1], r.a) /\ Divides(gx[1], b)
    BY <2>3, <2>4 DEF Divides
  <2>. QED
    BY <1>7, <2>5 DEF Finds
<1>. QED
  BY <1>2, <1>4, <1>6, <1>7 DEF m

LEMMA XgcdFinds ==
    ASSUME NEW c \in Int, NEW b \in 0 .. Modulus, NEW r \in Row, Starts(c, b, r)
    PROVE  Finds(c, b, r, xgcd[b][r])
<1>. DEFINE Bad == {n \in 0 .. Modulus : ~ \A s \in Row : Starts(c, n, s) => Finds(c, n, s, xgcd[n][s])}
<1>1. ASSUME Bad # {} PROVE FALSE
  <2>1. Bad \subseteq Nat
    BY ModulusIs
  <2>2. PICK n \in Bad : \A m \in Bad : n <= m
    <3>. HIDE DEF Bad
    <3>. QED
      BY <1>1, <2>1, Least
  <2>3. PICK s \in Row : Starts(c, n, s) /\ ~Finds(c, n, s, xgcd[n][s])
    OBVIOUS
  <2>4. n \in 0 .. Modulus /\ n \in Nat
    BY ModulusIs
  <2>5. s.a \in Int /\ s.prevx \in Int
    BY DEF Row
  <2>6. CASE n = 0
    <3>1. xgcd[n][s] = <<s.a, s.prevx>>
      BY <2>4, <2>6, XgcdIs
    <3>2. s.a > 0 /\ Cong(s.a, c * s.prevx)
      BY <2>3, <2>6 DEF Starts
    <3>3. 0 = 0 * s.a /\ s.a = 1 * s.a
      BY <2>5
    <3>4. Divides(s.a, 0) /\ Divides(s.a, s.a)
      BY <3>3 DEF Divides
    <3>. HIDE DEF Bad
    <3>. QED
      BY <2>3, <2>5, <2>6, <3>1, <3>2, <3>4 DEF Finds
  <2>7. CASE n # 0
    <3>0. n > 0
      BY <2>4, <2>7
    <3>1. xgcd[n][s] = xgcd[s.a % n][NextRow(s, n)]
      BY <2>4, <2>7, XgcdIs
    <3>2. /\ NextRow(s, n) \in Row /\ s.a % n \in 0 .. n - 1
          /\ Starts(c, s.a % n, NextRow(s, n))
          /\ \A gx : Finds(c, s.a % n, NextRow(s, n), gx) => Finds(c, n, s, gx)
      BY <2>3, <2>4, <3>0, RowStep
    <3>. DEFINE m == s.a % n
    <3>3. m \in 0 .. Modulus /\ ~(n <= m)
      BY <2>4, <3>2, ModulusIs
    <3>. HIDE DEF m
    <3>4. m \notin Bad
      BY <2>2, <3>3
    <3>5. Finds(c, m, NextRow(s, n), xgcd[m][NextRow(s, n)])
      BY <3>2, <3>3, <3>4 DEF m
    <3>. HIDE DEF Bad
    <3>. QED
      BY <2>3, <3>1, <3>2, <3>5 DEF m
  <2>. QED
    BY <2>6, <2>7
<1>. QED
  BY <1>1

\* A multiple leaves nothing.
LEMMA MultipleIs ==
    ASSUME NEW k \in Int, NEW g \in Nat, g > 0
    PROVE  (k * g) % g = 0
<1>. DEFINE q == (k * g) \div g
            m == (k * g) % g
            d == k - q
<1>1. k * g \in Int
  OBVIOUS
<1>2. q \in Int /\ m \in 0 .. g - 1 /\ k * g = q * g + m
  BY <1>1, DivisionIs
<1>. HIDE DEF q, m
<1>3. d \in Int /\ d * g = m
  BY <1>2
<1>. HIDE DEF d
<1>4. CASE d >= 1
  <2>1. d * g >= g
    BY <1>3, <1>4
  <2>. QED
    BY <1>2, <1>3, <2>1
<1>5. CASE d <= -1
  <2>1. d * g <= 0 - g
    BY <1>3, <1>5
  <2>. QED
    BY <1>2, <1>3, <2>1
<1>6. CASE d = 0
  BY <1>3, <1>6 DEF m
<1>. QED
  BY <1>3, <1>4, <1>5, <1>6

\* modinv (modmath.py), the extended algorithm of Euclid: what the prime does
\* not divide has an inverse, and modinv returns it.
THEOREM InverseIs ==
    ASSUME NEW a \in Int, ~Cong(a, 0)
    PROVE  modinv(a) \in Int /\ Cong(a * modinv(a), 1)
<1>. DEFINE r == [a |-> a, prevx |-> 1, x |-> 0]
            gx == xgcd[Modulus][r]
<1>1. r \in Row /\ Modulus \in 0 .. Modulus
  BY ModulusIs DEF Row
<1>2. Starts(a, Modulus, r)
  <2>1. Cong(a, a * 1)
    BY CongRefl
  <2>2. Modulus = a * 0 + 1 * Modulus
    BY ModulusIs
  <2>3. Cong(Modulus, a * 0)
    BY <2>2 DEF Cong
  <2>. QED
    BY <2>1, <2>3, ModulusIs DEF Starts
<1>3. Finds(a, Modulus, r, gx)
  BY <1>1, <1>2, XgcdFinds
<1>. HIDE DEF gx
<1>4. gx[1] \in Nat /\ gx[1] > 0 /\ gx[2] \in Int /\ Cong(gx[1], a * gx[2])
  BY <1>3 DEF Finds
<1>5. PICK k \in Int : Modulus = k * gx[1]
  BY <1>3 DEF Finds, Divides
<1>6. PICK l \in Int : a = l * gx[1]
  BY <1>3 DEF Finds, Divides
<1>7. gx[1] # Modulus
  BY <1>6 DEF Cong
<1>8. k > 0
  BY <1>4, <1>5, ModulusIs
<1>9. gx[1] <= Modulus
  BY <1>4, <1>5, <1>8, ModulusIs
<1>10. Modulus % gx[1] = 0
  BY <1>4, <1>5, MultipleIs
<1>11. gx[1] = 1
  BY <1>4, <1>7, <1>9, <1>10, ModulusIs, SharingAssumption
<1>12. modinv(a) = gx[2] % Modulus
  BY <1>11 DEF modinv, gx
<1>13. gx[2] % Modulus \in Int /\ Cong(gx[2] % Modulus, gx[2])
  BY <1>4, CongMod
<1>14. Cong(a, a)
  BY CongRefl
<1>15. Cong(a * (gx[2] % Modulus), a * gx[2])
  BY <1>4, <1>13, <1>14, CongMul
<1>16. Cong(a * gx[2], 1)
  BY <1>4, <1>11, CongSym
<1>17. Cong(a * (gx[2] % Modulus), 1)
  BY <1>4, <1>13, <1>15, <1>16, CongTrans
<1>. QED
  BY <1>12, <1>13, <1>17

\* What the modulus does not divide can be cancelled.
LEMMA Cancel ==
    ASSUME NEW c \in Int, ~Cong(c, 0), NEW a \in Int, NEW b \in Int, Cong(c * a, c * b)
    PROVE  Cong(a, b)
<1>. DEFINE i == modinv(c)
<1>1. i \in Int /\ Cong(c * i, 1) /\ Cong(i, i) /\ Cong(a, a) /\ Cong(b, b)
  BY InverseIs, CongRefl
<1>. HIDE DEF i
<1>2. Cong((c * a) * i, (c * b) * i)
  BY <1>1, CongMul
<1>3. (c * a) * i = (c * i) * a /\ (c * b) * i = (c * i) * b
  BY <1>1
<1>4. Cong((c * i) * a, 1 * a) /\ Cong((c * i) * b, 1 * b)
  BY <1>1, CongMul
<1>5. 1 * a = a /\ 1 * b = b
  OBVIOUS
<1>6. (c * i) * a \in Int /\ (c * i) * b \in Int
  BY <1>1
<1>7. Cong(a, (c * i) * a)
  BY <1>4, <1>5, <1>6, CongSym
<1>8. Cong((c * i) * a, (c * i) * b)
  BY <1>2, <1>3
<1>9. Cong(a, (c * i) * b)
  BY <1>6, <1>7, <1>8, CongTrans
<1>. QED
  BY <1>4, <1>5, <1>6, <1>9, CongTrans

----------------------------------------------------------------------------
(***************************************************************************)
(* What SumFunction and ProductFunction give: any element of the domain    *)
(* can be taken out.                                                       *)
(***************************************************************************)

Pick(T) == CHOOSE x \in T : TRUE

\* One step of a sum, or else of a product.
Combine(sum, a, b) == IF sum THEN a + b ELSE a * b
Neutral(sum) == IF sum THEN 0 ELSE 1

LEMMA Combines ==
    ASSUME NEW sum \in BOOLEAN, NEW a \in Int, NEW b \in Int, NEW c \in Int
    PROVE  /\ Combine(sum, a, b) \in Int /\ Neutral(sum) \in Int
           /\ Combine(sum, a, Combine(sum, b, c)) = Combine(sum, b, Combine(sum, a, c))
<1>1. a + (b + c) = b + (a + c) /\ a * (b * c) = b * (a * c)
  OBVIOUS
<1>. QED
  BY <1>1 DEF Combine, Neutral

PartialFold(iter, sum, f, D) ==
    iter = [T \in D |-> IF T = {} THEN Neutral(sum)
                        ELSE Combine(sum, f[Pick(T)], iter[T \ {Pick(T)}])]

Upto(S, n) == {T \in SUBSET S : Cardinality(T) <= n}

LEMMA PickIs ==
    ASSUME NEW S, IsFiniteSet(S), NEW T \in SUBSET S
    PROVE  /\ IsFiniteSet(T) /\ Cardinality(T) \in Nat /\ Cardinality(T) <= Cardinality(S)
           /\ Cardinality(T) = 0 <=> T = {}
           /\ T # {} => /\ Pick(T) \in T
                        /\ Cardinality(T \ {Pick(T)}) = Cardinality(T) - 1
<1>1. IsFiniteSet(T) /\ Cardinality(T) \in Nat /\ Cardinality(T) <= Cardinality(S)
  BY FS_Subset, FS_CardinalityType
<1>2. Cardinality(T) = 0 <=> T = {}
  BY <1>1, FS_EmptySet
<1>3. T # {} => Pick(T) \in T
  BY DEF Pick
<1>. QED
  BY <1>1, <1>2, <1>3, FS_RemoveElement

LEMMA FoldExists ==
    ASSUME NEW sum \in BOOLEAN, NEW S, IsFiniteSet(S), NEW f
    PROVE  \E iter : PartialFold(iter, sum, f, SUBSET S)
<1>. DEFINE N == {k \in Nat : \E iter : PartialFold(iter, sum, f, Upto(S, k))}
<1>1. 0 \in N
  <2>. DEFINE iter == [T \in Upto(S, 0) |-> Neutral(sum)]
  <2>1. ASSUME NEW T \in Upto(S, 0) PROVE T = {}
    <3>1. T \in SUBSET S /\ Cardinality(T) <= 0
      BY DEF Upto
    <3>2. Cardinality(T) \in Nat /\ (Cardinality(T) = 0 <=> T = {})
      BY <3>1, PickIs
    <3>3. Cardinality(T) = 0
      BY <3>1, <3>2
    <3>. QED
      BY <3>2, <3>3
  <2>2. PartialFold(iter, sum, f, Upto(S, 0))
    BY <2>1 DEF PartialFold
  <2>. QED
    BY <2>2
<1>2. ASSUME NEW k \in Nat, k \in N PROVE k + 1 \in N
  <2>1. PICK iter : PartialFold(iter, sum, f, Upto(S, k))
    BY <1>2
  <2>. DEFINE value(T) == IF T = {} THEN Neutral(sum)
                          ELSE Combine(sum, f[Pick(T)], iter[T \ {Pick(T)}])
              more == [T \in Upto(S, k + 1) |-> value(T)]
  <2>2. ASSUME NEW T \in Upto(S, k)
        PROVE  iter[T] = value(T) /\ T \in Upto(S, k + 1)
    <3>1. T \in SUBSET S /\ Cardinality(T) <= k
      BY DEF Upto
    <3>2. Cardinality(T) \in Nat
      BY <3>1, PickIs
    <3>3. iter[T] = value(T)
      BY <2>1 DEF PartialFold
    <3>4. Cardinality(T) <= k + 1
      BY <3>1, <3>2
    <3>. QED
      BY <3>1, <3>3, <3>4 DEF Upto
  <2>3. ASSUME NEW T \in Upto(S, k + 1), T # {} PROVE T \ {Pick(T)} \in Upto(S, k)
    <3>1. T \in SUBSET S /\ Cardinality(T) <= k + 1
      BY DEF Upto
    <3>2. Cardinality(T) \in Nat /\ Cardinality(T \ {Pick(T)}) = Cardinality(T) - 1
      BY <2>3, <3>1, PickIs
    <3>3. Cardinality(T \ {Pick(T)}) <= k
      BY <3>1, <3>2
    <3>. QED
      BY <3>1, <3>3 DEF Upto
  <2>4. \A T \in Upto(S, k) : more[T] = iter[T]
    BY <2>2
  <2>5. \A T \in Upto(S, k + 1) :
          more[T] = IF T = {} THEN Neutral(sum)
                    ELSE Combine(sum, f[Pick(T)], more[T \ {Pick(T)}])
    BY <2>3, <2>4
  <2>6. more = [T \in Upto(S, k + 1) |-> more[T]]
    OBVIOUS
  <2>. HIDE DEF more
  <2>7. PartialFold(more, sum, f, Upto(S, k + 1))
    BY <2>5, <2>6 DEF PartialFold
  <2>. QED
    BY <2>7
<1>3. Nat \subseteq N
  <2>. HIDE DEF N
  <2>. QED
    BY <1>1, <1>2, Induction
<1>4. \E iter : PartialFold(iter, sum, f, Upto(S, Cardinality(S)))
  BY <1>3, FS_CardinalityType
<1>5. Upto(S, Cardinality(S)) = SUBSET S
  <2>1. \A T \in SUBSET S : Cardinality(T) <= Cardinality(S)
    BY PickIs
  <2>. QED
    BY <2>1 DEF Upto
<1>. QED
  BY <1>4, <1>5

TheFold(sum, f, S) == CHOOSE iter : PartialFold(iter, sum, f, SUBSET S)

Folded(sum, f) == TheFold(sum, f, DOMAIN f)[DOMAIN f]

LEMMA SumIsFolded ==
    ASSUME NEW f PROVE SumFunction(f) = Folded(TRUE, f)
  BY DEF SumFunction, SumFunctionOnSet, FoldFunctionOnSet, MapThenFoldSet, Folded,
         TheFold, PartialFold, Combine, Neutral, Pick

LEMMA ProductIsFolded ==
    ASSUME NEW f PROVE ProductFunction(f) = Folded(FALSE, f)
  BY DEF ProductFunction, FoldFunction, FoldFunctionOnSet, MapThenFoldSet, Folded,
         TheFold, PartialFold, Combine, Neutral, Pick

LEMMA FoldStep ==
    ASSUME NEW sum \in BOOLEAN, NEW S, IsFiniteSet(S), NEW f, NEW T \in SUBSET S
    PROVE  TheFold(sum, f, S)[T] =
              IF T = {} THEN Neutral(sum)
              ELSE Combine(sum, f[Pick(T)], TheFold(sum, f, S)[T \ {Pick(T)}])
<1>. DEFINE iter == TheFold(sum, f, S)
<1>1. PartialFold(iter, sum, f, SUBSET S)
  BY FoldExists DEF TheFold
<1>. HIDE DEF iter
<1>2. iter[T] = IF T = {} THEN Neutral(sum)
                ELSE Combine(sum, f[Pick(T)], iter[T \ {Pick(T)}])
  BY <1>1 DEF PartialFold
<1>. QED
  BY <1>2 DEF iter

\* A fold over a smaller domain is the same fold.
LEMMA FoldOfPart ==
    ASSUME NEW sum \in BOOLEAN, NEW S, IsFiniteSet(S), NEW f, NEW T \in SUBSET S,
           NEW g, \A x \in T : g[x] = f[x]
    PROVE  TheFold(sum, g, T)[T] = TheFold(sum, f, S)[T]
<1>. DEFINE fs == TheFold(sum, f, S)
            gs == TheFold(sum, g, T)
            Good == {U \in SUBSET T : gs[U] = fs[U]}
<1>0. IsFiniteSet(T)
  BY PickIs
<1>1. {} \in Good
  <2>1. {} \in SUBSET T /\ {} \in SUBSET S
    OBVIOUS
  <2>2. fs[{}] = Neutral(sum)
    BY <2>1, FoldStep
  <2>3. gs[{}] = Neutral(sum)
    BY <1>0, <2>1, FoldStep
  <2>. HIDE DEF fs, gs
  <2>. QED
    BY <2>1, <2>2, <2>3
<1>2. ASSUME NEW U \in SUBSET T, U # {}, U \ {Pick(U)} \in Good PROVE U \in Good
  <2>1. U \in SUBSET S /\ Pick(U) \in T
    BY <1>0, <1>2, PickIs
  <2>2. gs[U] = Combine(sum, g[Pick(U)], gs[U \ {Pick(U)}])
    BY <1>0, <1>2, FoldStep
  <2>3. fs[U] = Combine(sum, f[Pick(U)], fs[U \ {Pick(U)}])
    BY <1>2, <2>1, FoldStep
  <2>. HIDE DEF fs, gs
  <2>. QED
    BY <1>2, <2>1, <2>2, <2>3
<1>. HIDE DEF Good
<1>3. \A U \in SUBSET T : U # {} /\ (\A x \in U : U \ {x} \in Good) => U \in Good
  BY <1>0, <1>2, PickIs
<1>4. SUBSET T \subseteq Good
  BY <1>0, <1>1, <1>3, SubsetInduction
<1>. QED
  BY <1>4 DEF Good

LEMMA FoldType ==
    ASSUME NEW sum \in BOOLEAN, NEW S, IsFiniteSet(S), NEW f \in [S -> Int]
    PROVE  \A T \in SUBSET S : TheFold(sum, f, S)[T] \in Int
<1>. DEFINE iter == TheFold(sum, f, S)
            Good == {T \in SUBSET S : iter[T] \in Int}
<1>0. \A T \in SUBSET S : iter[T] = IF T = {} THEN Neutral(sum)
                                    ELSE Combine(sum, f[Pick(T)], iter[T \ {Pick(T)}])
  BY FoldStep
<1>. HIDE DEF iter
<1>1. {} \in Good
  <2>1. Neutral(sum) \in Int
    BY DEF Neutral
  <2>. QED
    BY <1>0, <2>1
<1>2. ASSUME NEW T \in SUBSET S, T # {}, \A x \in T : T \ {x} \in Good
      PROVE  T \in Good
  <2>1. Pick(T) \in T /\ f[Pick(T)] \in Int
    BY <1>2, PickIs
  <2>2. iter[T \ {Pick(T)}] \in Int
    BY <1>2, <2>1
  <2>3. iter[T] = Combine(sum, f[Pick(T)], iter[T \ {Pick(T)}])
    BY <1>0, <1>2
  <2>. QED
    BY <2>1, <2>2, <2>3 DEF Combine
<1>. HIDE DEF Good
<1>3. SUBSET S \subseteq Good
  BY <1>1, <1>2, SubsetInduction
<1>. QED
  BY <1>3 DEF Good, iter

LEMMA FoldAnyStep ==
    ASSUME NEW sum \in BOOLEAN, NEW S, IsFiniteSet(S), NEW f \in [S -> Int]
    PROVE  \A T \in SUBSET S : \A x \in T :
              TheFold(sum, f, S)[T] = Combine(sum, f[x], TheFold(sum, f, S)[T \ {x}])
<1>. DEFINE iter == TheFold(sum, f, S)
            Good == {T \in SUBSET S :
                       \A x \in T : iter[T] = Combine(sum, f[x], iter[T \ {x}])}
<1>0. \A T \in SUBSET S : iter[T] \in Int
  BY FoldType
<1>3. \A T \in SUBSET S : T # {} =>
          iter[T] = Combine(sum, f[Pick(T)], iter[T \ {Pick(T)}])
  <2>1. \A T \in SUBSET S : iter[T] = IF T = {} THEN Neutral(sum)
                                      ELSE Combine(sum, f[Pick(T)], iter[T \ {Pick(T)}])
    BY FoldStep
  <2>. HIDE DEF iter
  <2>. QED
    BY <2>1
<1>. HIDE DEF iter
<1>1. {} \in Good
  OBVIOUS
<1>2. ASSUME NEW T \in SUBSET S, T # {}, \A x \in T : T \ {x} \in Good
      PROVE  T \in Good
  <2>. DEFINE c == Pick(T)
  <2>1. c \in T /\ f[c] \in Int
    BY <1>2, PickIs
  <2>2. iter[T] = Combine(sum, f[c], iter[T \ {c}])
    BY <1>2, <1>3
  <2>. HIDE DEF c
  <2>3. ASSUME NEW x \in T, x # c PROVE iter[T] = Combine(sum, f[x], iter[T \ {x}])
    <3>. DEFINE U == T \ {x, c}
    <3>1. T \ {c} \in Good /\ T \ {x} \in Good /\ x \in T \ {c} /\ c \in T \ {x}
      BY <1>2, <2>1, <2>3
    <3>2. (T \ {c}) \ {x} = U /\ (T \ {x}) \ {c} = U
      OBVIOUS
    <3>3. iter[T \ {c}] = Combine(sum, f[x], iter[U])
      BY <3>1, <3>2
    <3>4. iter[T \ {x}] = Combine(sum, f[c], iter[U])
      BY <3>1, <3>2
    <3>5. iter[U] \in Int /\ f[x] \in Int
      BY <1>0
    <3>. HIDE DEF U
    <3>6. Combine(sum, f[c], Combine(sum, f[x], iter[U]))
            = Combine(sum, f[x], Combine(sum, f[c], iter[U]))
      BY <2>1, <3>5, Combines
    <3>. QED
      BY <2>2, <3>3, <3>4, <3>6
  <2>. QED
    BY <2>2, <2>3
<1>. HIDE DEF Good
<1>4. SUBSET S \subseteq Good
  BY <1>1, <1>2, SubsetInduction
<1>. QED
  BY <1>4 DEF Good, iter

LEMMA FoldIs ==
    ASSUME NEW sum \in BOOLEAN, NEW S, IsFiniteSet(S), NEW f \in [S -> Int]
    PROVE  /\ Folded(sum, f) \in Int
           /\ S = {} => Folded(sum, f) = Neutral(sum)
           /\ \A x \in S : Folded(sum, f) =
                              Combine(sum, f[x], Folded(sum, [y \in S \ {x} |-> f[y]]))
<1>1. DOMAIN f = S /\ Folded(sum, f) = TheFold(sum, f, S)[S] /\ S \in SUBSET S
  BY DEF Folded
<1>2. Folded(sum, f) \in Int
  BY <1>1, FoldType
<1>3. S = {} => Folded(sum, f) = Neutral(sum)
  BY <1>1, FoldStep
<1>4. ASSUME NEW x \in S
      PROVE  Folded(sum, f) = Combine(sum, f[x], Folded(sum, [y \in S \ {x} |-> f[y]]))
  <2>. DEFINE T == S \ {x}
              g == [y \in T |-> f[y]]
  <2>1. Folded(sum, f) = Combine(sum, f[x], TheFold(sum, f, S)[T])
    BY <1>1, FoldAnyStep
  <2>2. T \in SUBSET S /\ DOMAIN g = T /\ \A y \in T : g[y] = f[y]
    OBVIOUS
  <2>. HIDE DEF T, g
  <2>3. TheFold(sum, g, T)[T] = TheFold(sum, f, S)[T]
    BY <2>2, FoldOfPart
  <2>. QED
    BY <2>1, <2>2, <2>3 DEF Folded, T, g
<1>. QED
  BY <1>2, <1>3, <1>4

LEMMA SumIs ==
    ASSUME NEW S, IsFiniteSet(S), NEW f \in [S -> Int]
    PROVE  /\ SumFunction(f) \in Int
           /\ S = {} => SumFunction(f) = 0
           /\ \A x \in S : SumFunction(f) = f[x] + SumFunction([y \in S \ {x} |-> f[y]])
<1>1. SumFunction(f) = Folded(TRUE, f)
      /\ \A x \in S : SumFunction([y \in S \ {x} |-> f[y]]) = Folded(TRUE, [y \in S \ {x} |-> f[y]])
  BY SumIsFolded, Zenon
<1>2. /\ Folded(TRUE, f) \in Int
      /\ S = {} => Folded(TRUE, f) = Neutral(TRUE)
      /\ \A x \in S : Folded(TRUE, f) =
                         Combine(TRUE, f[x], Folded(TRUE, [y \in S \ {x} |-> f[y]]))
  BY FoldIs, Zenon
<1>3. Neutral(TRUE) = 0 /\ \A a, b : Combine(TRUE, a, b) = a + b
  BY Zenon DEF Combine, Neutral
<1>. QED
  BY <1>1, <1>2, <1>3, Zenon

LEMMA ProductIs ==
    ASSUME NEW S, IsFiniteSet(S), NEW f \in [S -> Int]
    PROVE  /\ ProductFunction(f) \in Int
           /\ S = {} => ProductFunction(f) = 1
           /\ \A x \in S : ProductFunction(f) = f[x] * ProductFunction([y \in S \ {x} |-> f[y]])
<1>1. ProductFunction(f) = Folded(FALSE, f)
      /\ \A x \in S : ProductFunction([y \in S \ {x} |-> f[y]]) = Folded(FALSE, [y \in S \ {x} |-> f[y]])
  BY ProductIsFolded, Zenon
<1>2. /\ Folded(FALSE, f) \in Int
      /\ S = {} => Folded(FALSE, f) = Neutral(FALSE)
      /\ \A x \in S : Folded(FALSE, f) =
                         Combine(FALSE, f[x], Folded(FALSE, [y \in S \ {x} |-> f[y]]))
  BY FoldIs, Zenon
<1>3. Neutral(FALSE) = 1 /\ \A a, b : Combine(FALSE, a, b) = a * b
  BY Zenon DEF Combine, Neutral
<1>. QED
  BY <1>1, <1>2, <1>3, Zenon

----------------------------------------------------------------------------
(***************************************************************************)
(* Sums modulo the prime.                                                  *)
(***************************************************************************)

SumOn(f, T) == SumFunction([x \in T |-> f[x]])

LEMMA SumOnIs ==
    ASSUME NEW S, IsFiniteSet(S), NEW f \in [S -> Int], NEW T \in SUBSET S
    PROVE  /\ SumOn(f, T) \in Int
           /\ T = {} => SumOn(f, T) = 0
           /\ \A x \in T : SumOn(f, T) = f[x] + SumOn(f, T \ {x})
<1>. DEFINE g == [x \in T |-> f[x]]
<1>1. g \in [T -> Int] /\ IsFiniteSet(T)
  BY FS_Subset
<1>2. \A x \in T : g[x] = f[x] /\ [y \in T \ {x} |-> g[y]] = [y \in T \ {x} |-> f[y]]
  OBVIOUS
<1>3. SumOn(f, T) = SumFunction(g) /\ \A x \in T : SumOn(f, T \ {x}) = SumFunction([y \in T \ {x} |-> f[y]])
  BY DEF SumOn
<1>. HIDE DEF g
<1>4. /\ SumFunction(g) \in Int
      /\ T = {} => SumFunction(g) = 0
      /\ \A x \in T : SumFunction(g) = g[x] + SumFunction([y \in T \ {x} |-> g[y]])
  BY <1>1, SumIs, Zenon
<1>. QED
  BY <1>2, <1>3, <1>4, Zenon

LEMMA SumOnWhole ==
    ASSUME NEW S, NEW f \in [S -> Int] PROVE SumOn(f, S) = SumFunction(f)
<1>1. f = [x \in S |-> f[x]]
  OBVIOUS
<1>. QED
  BY <1>1, Zenon DEF SumOn

LEMMA Rearranged ==
    ASSUME NEW a \in Int, NEW b \in Int, NEW c \in Int, NEW d \in Int, NEW f \in Int, NEW g \in Int
    PROVE  (c * a + d * b) + (c * f + d * g) = c * (a + f) + d * (b + g)
  OBVIOUS

LEMMA Linear ==
    ASSUME NEW c \in Int, NEW d \in Int, NEW a \in Int, NEW b \in Int
    PROVE  c * a + d * b \in Int
  OBVIOUS

LEMMA SumLinear ==
    ASSUME NEW S, IsFiniteSet(S), NEW f \in [S -> Int], NEW g \in [S -> Int], NEW h \in [S -> Int],
           NEW c \in Int, NEW d \in Int, \A x \in S : Cong(h[x], c * f[x] + d * g[x])
    PROVE  Cong(SumFunction(h), c * SumFunction(f) + d * SumFunction(g))
<1>. DEFINE Good == {T \in SUBSET S : Cong(SumOn(h, T), c * SumOn(f, T) + d * SumOn(g, T))}
<1>1. {} \in Good
  <2>1. {} \in SUBSET S /\ SumOn(h, {}) = 0 /\ SumOn(f, {}) = 0 /\ SumOn(g, {}) = 0
    BY SumOnIs
  <2>2. 0 = c * 0 + d * 0
    OBVIOUS
  <2>3. Cong(0, c * 0 + d * 0)
    BY <2>2, CongRefl
  <2>. QED
    BY <2>1, <2>3
<1>2. ASSUME NEW T \in SUBSET S, T # {}, \A x \in T : T \ {x} \in Good
      PROVE  T \in Good
  <2>1. PICK x \in T : T \ {x} \in Good
    BY <1>2
  <2>. DEFINE R == T \ {x}
              fx == f[x]
              gx == g[x]
              hx == h[x]
              fr == SumOn(f, R)
              gr == SumOn(g, R)
              hr == SumOn(h, R)
  <2>2. fx \in Int /\ gx \in Int /\ hx \in Int /\ Cong(hx, c * fx + d * gx)
    OBVIOUS
  <2>3. fr \in Int /\ gr \in Int /\ hr \in Int /\ Cong(hr, c * fr + d * gr)
    BY <2>1, SumOnIs
  <2>4. SumOn(f, T) = fx + fr /\ SumOn(g, T) = gx + gr /\ SumOn(h, T) = hx + hr
    BY SumOnIs
  <2>. HIDE DEF fx, gx, hx, fr, gr, hr, R
  <2>5. c * fx + d * gx \in Int /\ c * fr + d * gr \in Int
    BY <2>2, <2>3, Linear
  <2>6. Cong(hx + hr, (c * fx + d * gx) + (c * fr + d * gr))
    BY <2>2, <2>3, <2>5, CongAdd
  <2>7. (c * fx + d * gx) + (c * fr + d * gr) = c * (fx + fr) + d * (gx + gr)
    BY <2>2, <2>3, Rearranged
  <2>. QED
    BY <2>4, <2>6, <2>7
<1>3. S \in Good
  <2>. HIDE DEF Good
  <2>1. SUBSET S \subseteq Good
    BY <1>1, <1>2, SubsetInduction
  <2>. QED
    BY <2>1
<1>. QED
  BY <1>3, SumOnWhole

\* A sum is its only summand that the modulus does not divide.
LEMMA SumOfOne ==
    ASSUME NEW S, IsFiniteSet(S), NEW f \in [S -> Int], NEW x \in S,
           \A y \in S \ {x} : Cong(f[y], 0)
    PROVE  Cong(SumFunction(f), f[x])
<1>. DEFINE g == [y \in S \ {x} |-> f[y]]
<1>1. SumFunction(f) = f[x] + SumFunction(g) /\ f[x] \in Int
  BY SumIs
<1>2. g \in [S \ {x} -> Int] /\ IsFiniteSet(S \ {x})
  BY FS_RemoveElement
<1>3. \A y \in S \ {x} : Cong(g[y], 0 * g[y] + 0 * g[y])
  <2>1. ASSUME NEW y \in S \ {x} PROVE Cong(g[y], 0 * g[y] + 0 * g[y])
    <3>1. g[y] = f[y] /\ f[y] \in Int
      OBVIOUS
    <3>2. 0 * f[y] + 0 * f[y] = 0
      BY <3>1
    <3>. QED
      BY <3>1, <3>2
  <2>. QED
    BY <2>1
<1>. DEFINE s == SumFunction(g)
            R == S \ {x}
<1>4. Cong(s, 0 * s + 0 * s) /\ s \in Int
  <2>1. R = S \ {x}
    OBVIOUS
  <2>. HIDE DEF g, R
  <2>2. g \in [R -> Int] /\ IsFiniteSet(R) /\ \A y \in R : Cong(g[y], 0 * g[y] + 0 * g[y])
    BY <1>2, <1>3, <2>1
  <2>3. s \in Int
    BY <2>2, SumIs
  <2>4. \A c, d \in Int : (\A y \in R : Cong(g[y], c * g[y] + d * g[y])) =>
            Cong(SumFunction(g), c * SumFunction(g) + d * SumFunction(g))
    BY <2>2, SumLinear, Zenon
  <2>5. Cong(SumFunction(g), 0 * SumFunction(g) + 0 * SumFunction(g))
    BY <2>2, <2>4
  <2>. QED
    BY <2>3, <2>5
<1>. HIDE DEF g
<1>. HIDE DEF s
<1>5. 0 * s + 0 * s = 0
  BY <1>4
<1>6. Cong(s, 0) /\ Cong(f[x], f[x])
  BY <1>1, <1>4, <1>5, CongRefl
<1>7. Cong(f[x] + s, f[x] + 0)
  BY <1>1, <1>4, <1>6, CongAdd
<1>. QED
  BY <1>1, <1>7 DEF s

----------------------------------------------------------------------------
(***************************************************************************)
(* Lagrange coefficients.                                                  *)
(***************************************************************************)

LEMMA PartiesFinite ==
    /\ IsFiniteSet(Parties) /\ \A Q \in SUBSET Parties : IsFiniteSet(Q) /\ Cardinality(Q) \in Nat
    /\ \A i \in Parties : i \in Int /\ i + 1 \in Int
<1>1. IsFiniteSet(Parties)
  BY SharingAssumption, FS_Interval DEF Parties
<1>2. \A i \in Parties : i \in Int /\ i + 1 \in Int
  BY SharingAssumption DEF Parties
<1>. QED
  BY <1>1, <1>2, FS_Subset, FS_CardinalityType

Factor(i, j) == IF j + 1 = i + 1 THEN 1 ELSE (0 - (j + 1)) * modinv((i + 1) - (j + 1))

Lambda(Q, i) == ProductFunction([j \in Q |-> Factor(i, j)])

LEMMA FactorIs ==
    ASSUME NEW i \in Parties, NEW j \in Parties
    PROVE  /\ Factor(i, j) \in Int /\ Factor(i, i) = 1
           /\ i # j => ~Cong(i - j, 0) /\ Cong(Factor(i, j) * (i - j), 0 - (j + 1))
<1>1. i \in 0 .. NParties - 1 /\ j \in 0 .. NParties - 1 /\ NParties \in Nat
      /\ i \in Int /\ j \in Int
  BY SharingAssumption DEF Parties
<1>2. ASSUME i # j, Cong(i - j, 0) PROVE FALSE
  <2>1. PICK k \in Int : i - j = 0 + k * Modulus
    BY <1>2 DEF Cong
  <2>2. k >= 1 => k * Modulus >= Modulus
    BY ModulusIs
  <2>3. k <= -1 => k * Modulus <= 0 - Modulus
    BY ModulusIs
  <2>4. k = 0
    BY <1>1, <2>1, <2>2, <2>3, ModulusIs
  <2>. QED
    BY <1>1, <1>2, <2>1, <2>4, ModulusIs
<1>3. CASE i = j
  BY <1>3, <1>1 DEF Factor
<1>4. CASE i # j
  <2>. DEFINE v == modinv(i - j)
              d == 0 - (j + 1)
  <2>1. v \in Int /\ Cong((i - j) * v, 1)
    BY <1>1, <1>2, <1>4, InverseIs
  <2>2. Factor(i, j) = d * v /\ Factor(i, i) = 1 /\ d \in Int /\ i - j \in Int
    <3>1. (i + 1) - (j + 1) = i - j /\ ~(j + 1 = i + 1)
      BY <1>1, <1>4
    <3>. QED
      BY <1>1, <3>1 DEF Factor
  <2>. HIDE DEF v, d
  <2>3. Factor(i, j) \in Int
    BY <2>1, <2>2
  <2>4. (d * v) * (i - j) = d * ((i - j) * v) /\ (i - j) * v \in Int
    BY <1>1, <2>1, <2>2
  <2>5. Cong(d * ((i - j) * v), d * 1)
    BY <2>1, <2>2, <2>4, CongRefl, CongMul
  <2>6. d * 1 = d
    BY <2>2
  <2>7. Cong(Factor(i, j) * (i - j), d)
    BY <2>2, <2>4, <2>5, <2>6
  <2>. QED
    BY <1>2, <1>4, <2>2, <2>3, <2>7 DEF d
<1>. QED
  BY <1>3, <1>4

LEMMA LambdaIs ==
    ASSUME NEW Q \in SUBSET Parties, NEW i \in Parties
    PROVE  /\ Lambda(Q, i) \in Int
           /\ \A b \in Q : Lambda(Q, i) = Factor(i, b) * Lambda(Q \ {b}, i)
           /\ Q = {i} => Lambda(Q, i) = 1
<1>. DEFINE f == [j \in Q |-> Factor(i, j)]
<1>1. f \in [Q -> Int] /\ IsFiniteSet(Q)
  BY FactorIs, PartiesFinite
<1>2. \A b \in Q : f[b] = Factor(i, b) /\ [j \in Q \ {b} |-> f[j]] = [j \in Q \ {b} |-> Factor(i, j)]
  OBVIOUS
<1>3. Lambda(Q, i) = ProductFunction(f)
      /\ \A b \in Q : Lambda(Q \ {b}, i) = ProductFunction([j \in Q \ {b} |-> Factor(i, j)])
  BY DEF Lambda
<1>. HIDE DEF f
<1>4. /\ ProductFunction(f) \in Int
      /\ \A b \in Q : ProductFunction(f) = f[b] * ProductFunction([j \in Q \ {b} |-> f[j]])
  BY <1>1, ProductIs, Zenon
<1>5. \A b \in Q : Lambda(Q, i) = Factor(i, b) * Lambda(Q \ {b}, i)
  BY <1>2, <1>3, <1>4, Zenon
<1>6. ASSUME Q = {i} PROVE Lambda(Q, i) = 1
  <2>1. Q \ {i} = {} /\ i \in Q
    BY <1>6
  <2>2. Lambda({}, i) = 1
    <3>. DEFINE e == [j \in {} |-> Factor(i, j)]
    <3>1. e \in [{} -> Int] /\ IsFiniteSet({})
      BY FS_EmptySet
    <3>2. Lambda({}, i) = ProductFunction(e)
      BY DEF Lambda
    <3>. HIDE DEF e
    <3>. QED
      BY <3>1, <3>2, ProductIs
  <2>3. Lambda(Q, i) = Factor(i, i) * Lambda({}, i)
    BY <1>5, <2>1
  <2>. QED
    BY <2>2, <2>3, FactorIs
<1>. QED
  BY <1>3, <1>4, <1>5, <1>6

----------------------------------------------------------------------------
(***************************************************************************)
(* What the values F of some parties open to.                              *)
(***************************************************************************)

Values == [Parties -> Int]

Weighted(Q, F) == SumFunction([i \in Q |-> Lambda(Q, i) * F[i]])

LEMMA TermIs ==
    ASSUME NEW Q \in SUBSET Parties, NEW F \in Values
    PROVE  [i \in Q |-> Lambda(Q, i) * F[i]] \in [Q -> Int]
<1>1. \A i \in Q : Lambda(Q, i) \in Int /\ F[i] \in Int
  BY LambdaIs DEF Values
<1>. QED
  BY <1>1

LEMMA WeightedType ==
    ASSUME NEW Q \in SUBSET Parties, NEW F \in Values
    PROVE  Weighted(Q, F) \in Int
<1>. DEFINE f == [i \in Q |-> Lambda(Q, i) * F[i]]
<1>1. f \in [Q -> Int] /\ IsFiniteSet(Q) /\ Weighted(Q, F) = SumFunction(f)
  BY TermIs, PartiesFinite DEF Weighted
<1>. HIDE DEF f
<1>. QED
  BY <1>1, SumIs

LEMMA Distributes ==
    ASSUME NEW l \in Int, NEW c \in Int, NEW d \in Int, NEW a \in Int, NEW b \in Int
    PROVE  l * (c * a + d * b) = c * (l * a) + d * (l * b)
  OBVIOUS

LEMMA WeightedLinear ==
    ASSUME NEW Q \in SUBSET Parties, NEW F \in Values, NEW G \in Values, NEW H \in Values,
           NEW c \in Int, NEW d \in Int, \A i \in Q : Cong(H[i], c * F[i] + d * G[i])
    PROVE  Cong(Weighted(Q, H), c * Weighted(Q, F) + d * Weighted(Q, G))
<1>. DEFINE f == [i \in Q |-> Lambda(Q, i) * F[i]]
            g == [i \in Q |-> Lambda(Q, i) * G[i]]
            h == [i \in Q |-> Lambda(Q, i) * H[i]]
<1>1. f \in [Q -> Int] /\ g \in [Q -> Int] /\ h \in [Q -> Int] /\ IsFiniteSet(Q)
  BY TermIs, PartiesFinite
<1>2. ASSUME NEW i \in Q PROVE Cong(h[i], c * f[i] + d * g[i])
  <2>. DEFINE l == Lambda(Q, i)
              a == F[i]
              b == G[i]
              e == H[i]
  <2>1. l \in Int /\ a \in Int /\ b \in Int /\ e \in Int
    BY LambdaIs DEF Values
  <2>2. Cong(e, c * a + d * b) /\ Cong(l, l)
    BY <1>2, <2>1, CongRefl
  <2>3. h[i] = l * e /\ f[i] = l * a /\ g[i] = l * b
    OBVIOUS
  <2>. HIDE DEF l, a, b, e, f, g, h
  <2>4. c * a + d * b \in Int
    BY <2>1, Linear
  <2>5. Cong(l * e, l * (c * a + d * b))
    BY <2>1, <2>2, <2>4, CongMul
  <2>6. l * (c * a + d * b) = c * (l * a) + d * (l * b)
    BY <2>1, Distributes
  <2>. QED
    BY <2>3, <2>5, <2>6
<1>3. Weighted(Q, F) = SumFunction(f) /\ Weighted(Q, G) = SumFunction(g)
      /\ Weighted(Q, H) = SumFunction(h)
  BY DEF Weighted
<1>. HIDE DEF f, g, h
<1>4. Cong(SumFunction(h), c * SumFunction(f) + d * SumFunction(g))
  BY <1>1, <1>2, SumLinear
<1>. QED
  BY <1>3, <1>4

LEMMA WeightedCong ==
    ASSUME NEW Q \in SUBSET Parties, NEW F \in Values, NEW G \in Values,
           \A i \in Q : Cong(F[i], G[i])
    PROVE  Cong(Weighted(Q, F), Weighted(Q, G))
<1>1. ASSUME NEW i \in Q PROVE Cong(F[i], 1 * G[i] + 0 * G[i])
  <2>1. G[i] \in Int /\ Cong(F[i], G[i])
    BY <1>1 DEF Values
  <2>2. 1 * G[i] + 0 * G[i] = G[i]
    BY <2>1
  <2>. QED
    BY <2>1, <2>2
<1>2. Cong(Weighted(Q, F), 1 * Weighted(Q, G) + 0 * Weighted(Q, G))
  BY <1>1, WeightedLinear
<1>3. 1 * Weighted(Q, G) + 0 * Weighted(Q, G) = Weighted(Q, G)
  BY WeightedType
<1>. QED
  BY <1>2, <1>3

\* Multiplying the values by the parties' points, and taking a party out.
LEMMA LagrangeStep ==
    ASSUME NEW Q \in SUBSET Parties, NEW b \in Q, NEW F \in Values, NEW G \in Values,
           \A i \in Parties : G[i] = (i + 1) * F[i]
    PROVE  Cong(Weighted(Q, G), (b + 1) * Weighted(Q, F) - (b + 1) * Weighted(Q \ {b}, F))
<1>. DEFINE R == Q \ {b}
            m == 0 - (b + 1)
            f == [i \in Q |-> Lambda(Q, i) * F[i]]
            g == [i \in Q |-> Lambda(Q, i) * G[i]]
            h == [i \in Q |-> Lambda(Q, i) * ((i - b) * F[i])]
            r == [i \in R |-> Lambda(R, i) * F[i]]
            k == [i \in R |-> h[i]]
<1>0. b \in Int /\ m \in Int /\ R \in SUBSET Parties
  BY PartiesFinite
<1>1. f \in [Q -> Int] /\ g \in [Q -> Int] /\ r \in [R -> Int]
      /\ IsFiniteSet(Q) /\ IsFiniteSet(R)
  BY <1>0, TermIs, PartiesFinite
<1>2. h \in [Q -> Int] /\ k \in [R -> Int]
  <2>1. \A i \in Q : Lambda(Q, i) * ((i - b) * F[i]) \in Int
    <3>1. ASSUME NEW i \in Q PROVE Lambda(Q, i) * ((i - b) * F[i]) \in Int
      <4>1. Lambda(Q, i) \in Int /\ F[i] \in Int /\ i \in Int
        BY LambdaIs, PartiesFinite DEF Values
      <4>. QED
        BY <1>0, <4>1
    <3>. QED
      BY <3>1
  <2>. QED
    BY <2>1
<1>3. \A i \in Q : Cong(h[i], 1 * g[i] + m * f[i])
  <2>1. ASSUME NEW i \in Q PROVE Cong(h[i], 1 * g[i] + m * f[i])
    <3>. DEFINE l == Lambda(Q, i)
                a == F[i]
    <3>1. l \in Int /\ a \in Int /\ i \in Int /\ G[i] = (i + 1) * a
      BY LambdaIs, PartiesFinite DEF Values
    <3>2. h[i] = l * ((i - b) * a) /\ g[i] = l * G[i] /\ f[i] = l * a
      OBVIOUS
    <3>. HIDE DEF l, a, h, g, f
    <3>3. l * ((i - b) * a) = 1 * (l * ((i + 1) * a)) + (0 - (b + 1)) * (l * a)
      BY <1>0, <3>1
    <3>4. h[i] \in Int
      BY <1>2
    <3>. QED
      BY <3>1, <3>2, <3>3, <3>4, CongRefl
  <2>. QED
    BY <2>1
<1>4. \A i \in R : Cong(k[i], m * r[i] + 0 * r[i])
  <2>1. ASSUME NEW i \in R PROVE Cong(k[i], m * r[i] + 0 * r[i])
    <3>. DEFINE l == Lambda(Q, i)
                s == Lambda(R, i)
                a == F[i]
                q == Factor(i, b)
    <3>1. l \in Int /\ s \in Int /\ a \in Int /\ i \in Int /\ q \in Int /\ i # b
      BY <1>0, LambdaIs, FactorIs, PartiesFinite DEF Values
    <3>2. l = q * s
      BY LambdaIs
    <3>3. Cong(q * (i - b), m)
      BY FactorIs
    <3>4. k[i] = l * ((i - b) * a) /\ r[i] = s * a
      OBVIOUS
    <3>. HIDE DEF l, s, a, q, k, r, h, m
    <3>5. l * ((i - b) * a) = (q * (i - b)) * (s * a)
      BY <1>0, <3>1, <3>2
    <3>6. q * (i - b) \in Int /\ s * a \in Int
      BY <1>0, <3>1
    <3>7. Cong((q * (i - b)) * (s * a), m * (s * a))
      BY <1>0, <3>3, <3>6, CongRefl, CongMul
    <3>8. m * (s * a) = m * (s * a) + 0 * (s * a)
      BY <1>0, <3>6
    <3>. QED
      BY <3>4, <3>5, <3>7, <3>8
  <2>. QED
    BY <2>1
<1>5. Weighted(Q, F) = SumFunction(f) /\ Weighted(Q, G) = SumFunction(g)
      /\ Weighted(R, F) = SumFunction(r)
  BY DEF Weighted
<1>6. h[b] = 0 /\ k = [i \in Q \ {b} |-> h[i]]
  <2>1. Lambda(Q, b) \in Int /\ F[b] \in Int
    BY LambdaIs DEF Values
  <2>2. h[b] = Lambda(Q, b) * ((b - b) * F[b])
    OBVIOUS
  <2>. HIDE DEF h
  <2>. QED
    BY <1>0, <2>1, <2>2
<1>. HIDE DEF f, g, h, r, k
<1>7. Cong(SumFunction(h), 1 * SumFunction(g) + m * SumFunction(f))
  <2>1. \A c, d \in Int : (\A i \in Q : Cong(h[i], c * g[i] + d * f[i])) =>
            Cong(SumFunction(h), c * SumFunction(g) + d * SumFunction(f))
    BY <1>1, <1>2, SumLinear
  <2>. HIDE DEF m
  <2>. QED
    BY <1>0, <1>3, <2>1
<1>8. Cong(SumFunction(k), m * SumFunction(r) + 0 * SumFunction(r))
  <2>. HIDE DEF R
  <2>1. \A c, d \in Int : (\A i \in R : Cong(k[i], c * r[i] + d * r[i])) =>
            Cong(SumFunction(k), c * SumFunction(r) + d * SumFunction(r))
    BY <1>1, <1>2, SumLinear
  <2>. HIDE DEF m
  <2>. QED
    BY <1>0, <1>4, <2>1
<1>9. SumFunction(h) = h[b] + SumFunction([i \in Q \ {b} |-> h[i]])
  <2>1. \A x \in Q : SumFunction(h) = h[x] + SumFunction([i \in Q \ {x} |-> h[i]])
    BY <1>1, <1>2, SumIs
  <2>. QED
    BY <2>1, Zenon
<1>. DEFINE wf == Weighted(Q, F)
            wg == Weighted(Q, G)
            wr == Weighted(R, F)
            hs == SumFunction(h)
            ks == SumFunction(k)
<1>10. wf \in Int /\ wg \in Int /\ wr \in Int
  BY <1>0, WeightedType
<1>11. ks \in Int
  BY <1>1, <1>2, SumIs
<1>12. hs = 0 + ks
  BY <1>6, <1>9
<1>13. Cong(hs, 1 * wg + m * wf) /\ Cong(ks, m * wr + 0 * wr)
  BY <1>5, <1>7, <1>8
<1>. HIDE DEF wf, wg, wr, hs, ks
<1>14. hs = ks /\ 1 * wg + m * wf \in Int /\ m * wr + 0 * wr \in Int
  BY <1>0, <1>10, <1>11, <1>12
<1>15. Cong(1 * wg + m * wf, m * wr + 0 * wr)
  <2>. HIDE DEF m
  <2>. QED
    BY <1>11, <1>13, <1>14, CongSym, CongTrans
<1>16. (b + 1) * wf \in Int /\ Cong((b + 1) * wf, (b + 1) * wf)
  BY <1>0, <1>10, CongRefl
<1>17. Cong((1 * wg + m * wf) + (b + 1) * wf, (m * wr + 0 * wr) + (b + 1) * wf)
  <2>. HIDE DEF m
  <2>. QED
    BY <1>14, <1>15, <1>16, CongAdd
<1>18. /\ (1 * wg + m * wf) + (b + 1) * wf = wg
       /\ (m * wr + 0 * wr) + (b + 1) * wf = (b + 1) * wf - (b + 1) * wr
  BY <1>0, <1>10
<1>. QED
  BY <1>17, <1>18 DEF wf, wg, wr

Opens(F, d, v) ==
    /\ F \in Values /\ v \in Int
    /\ \A Q \in SUBSET Parties : Cardinality(Q) >= d => Cong(Weighted(Q, F), v)

Ones == [i \in Parties |-> 1]

LEMMA OnesOpen == Opens(Ones, 1, 1)
<1>. DEFINE Good == {T \in SUBSET Parties : T # {} => Cong(Weighted(T, Ones), 1)}
            Points == [i \in Parties |-> i + 1]
<1>0. Ones \in Values /\ Points \in Values /\ \A i \in Parties : Points[i] = (i + 1) * Ones[i]
  BY PartiesFinite DEF Ones, Values
<1>1. ASSUME NEW T \in SUBSET Parties, T # {}, \A x \in T : T \ {x} \in Good
      PROVE  T \in Good
  <2>1. PICK b \in T : TRUE
    BY <1>1
  <2>2. CASE T = {b}
    <3>. DEFINE f == [i \in T |-> Lambda(T, i) * Ones[i]]
    <3>1. f \in [T -> Int] /\ IsFiniteSet(T) /\ Weighted(T, Ones) = SumFunction(f)
      BY <1>0, TermIs, PartiesFinite DEF Weighted
    <3>2. f[b] = 1
      <4>1. Lambda(T, b) = 1 /\ Ones[b] = 1
        BY <2>2, LambdaIs DEF Ones
      <4>. QED
        BY <4>1
    <3>3. T \ {b} = {}
      BY <2>2
    <3>. HIDE DEF f
    <3>4. Cong(SumFunction(f), f[b])
      BY <3>1, <3>3, SumOfOne
    <3>. QED
      BY <3>1, <3>2, <3>4
  <2>3. CASE T # {b}
    <3>1. PICK c \in T : c # b
      BY <2>3
    <3>. DEFINE w == Weighted(T, Ones)
                wb == Weighted(T \ {b}, Ones)
                wc == Weighted(T \ {c}, Ones)
                wp == Weighted(T, Points)
    <3>2. w \in Int /\ wb \in Int /\ wc \in Int /\ wp \in Int /\ b \in Int /\ c \in Int
      BY <1>0, WeightedType, PartiesFinite
    <3>3. Cong(wb, 1) /\ Cong(wc, 1)
      BY <1>1, <3>1
    <3>4. Cong(wp, (b + 1) * w - (b + 1) * wb) /\ Cong(wp, (c + 1) * w - (c + 1) * wc)
      BY <1>0, LagrangeStep
    <3>5. ~Cong(b - c, 0) /\ b - c \in Int
      BY <3>1, <3>2, FactorIs
    <3>. HIDE DEF w, wb, wc, wp, Good
    <3>6. ASSUME NEW x \in Int, NEW y \in Int, Cong(y, 1), Cong(wp, (x + 1) * w - (x + 1) * y)
          PROVE  Cong(wp, (x + 1) * w - (x + 1) * 1)
      <4>1. (x + 1) * w \in Int /\ (x + 1) * y \in Int /\ (x + 1) * 1 \in Int /\ x + 1 \in Int
        BY <3>2
      <4>2. Cong((x + 1) * y, (x + 1) * 1) /\ Cong((x + 1) * w, (x + 1) * w)
        BY <3>6, <4>1, CongRefl, CongMul
      <4>3. Cong((x + 1) * w - (x + 1) * y, (x + 1) * w - (x + 1) * 1)
        BY <4>1, <4>2, CongSub
      <4>. QED
        BY <3>2, <3>6, <4>1, <4>3, CongTrans
    <3>. DEFINE fb == (b + 1) * w - (b + 1) * 1
                fc == (c + 1) * w - (c + 1) * 1
                rest == (c + 1) * w - (b + 1) * 1
    <3>7. Cong(wp, fb) /\ Cong(wp, fc)
      BY <3>2, <3>3, <3>4, <3>6
    <3>8. fb \in Int /\ fc \in Int /\ rest \in Int
      BY <3>2
    <3>9. fb - rest = (b - c) * w /\ fc - rest = (b - c) * 1
      BY <3>2
    <3>. HIDE DEF fb, fc, rest
    <3>10. Cong(fb, fc)
      BY <3>2, <3>7, <3>8, CongSym, CongTrans
    <3>11. Cong(fb - rest, fc - rest)
      BY <3>8, <3>10, CongRefl, CongSub
    <3>12. Cong(w, 1)
      BY <3>2, <3>5, <3>9, <3>11, Cancel
    <3>. QED
      BY <3>12 DEF w, Good
  <2>. QED
    BY <2>2, <2>3
<1>2. {} \in Good
  OBVIOUS
<1>. HIDE DEF Good
<1>3. SUBSET Parties \subseteq Good
  BY <1>1, <1>2, PartiesFinite, SubsetInduction
<1>4. ASSUME NEW Q \in SUBSET Parties, Cardinality(Q) >= 1 PROVE Cong(Weighted(Q, Ones), 1)
  <2>1. Q # {}
    BY <1>4, FS_EmptySet
  <2>. QED
    BY <1>3, <2>1 DEF Good
<1>. QED
  BY <1>0, <1>4 DEF Opens

LEMMA OpensCong ==
    ASSUME NEW F, NEW d \in Nat, NEW v, Opens(F, d, v), NEW e \in Nat, e >= d,
           NEW G \in Values, NEW w \in Int, \A i \in Parties : Cong(G[i], F[i]), Cong(v, w)
    PROVE  Opens(G, e, w)
<1>1. F \in Values /\ v \in Int
  BY DEF Opens
<1>2. ASSUME NEW Q \in SUBSET Parties, Cardinality(Q) >= e PROVE Cong(Weighted(Q, G), w)
  <2>1. Cardinality(Q) >= d
    BY <1>2, PartiesFinite
  <2>2. Cong(Weighted(Q, F), v)
    BY <2>1 DEF Opens
  <2>3. Cong(Weighted(Q, G), Weighted(Q, F))
    BY <1>1, WeightedCong
  <2>4. Weighted(Q, F) \in Int /\ Weighted(Q, G) \in Int
    BY <1>1, WeightedType
  <2>5. Cong(Weighted(Q, G), v)
    BY <1>1, <2>2, <2>3, <2>4, CongTrans
  <2>. QED
    BY <1>1, <2>4, <2>5, CongTrans
<1>. QED
  BY <1>2 DEF Opens

LEMMA OpensLinear ==
    ASSUME NEW F, NEW G, NEW d, NEW v, NEW w, Opens(F, d, v), Opens(G, d, w),
           NEW H \in Values, NEW c \in Int, NEW e \in Int,
           \A i \in Parties : Cong(H[i], c * F[i] + e * G[i])
    PROVE  Opens(H, d, c * v + e * w)
<1>1. F \in Values /\ G \in Values /\ v \in Int /\ w \in Int
  BY DEF Opens
<1>2. ASSUME NEW Q \in SUBSET Parties, Cardinality(Q) >= d
      PROVE  Cong(Weighted(Q, H), c * v + e * w)
  <2>. DEFINE wf == Weighted(Q, F)
              wg == Weighted(Q, G)
              wh == Weighted(Q, H)
  <2>1. Cong(wf, v) /\ Cong(wg, w)
    BY <1>2 DEF Opens
  <2>2. wf \in Int /\ wg \in Int /\ wh \in Int
    BY <1>1, WeightedType
  <2>3. Cong(wh, c * wf + e * wg)
    BY <1>1, WeightedLinear
  <2>. HIDE DEF wf, wg, wh
  <2>4. Cong(c * wf, c * v) /\ Cong(e * wg, e * w)
    BY <1>1, <2>1, <2>2, CongRefl, CongMul
  <2>5. c * wf \in Int /\ c * v \in Int /\ e * wg \in Int /\ e * w \in Int
    BY <1>1, <2>2
  <2>6. Cong(c * wf + e * wg, c * v + e * w)
    BY <2>4, <2>5, CongAdd
  <2>8. c * wf + e * wg \in Int /\ c * v + e * w \in Int
    BY <1>1, <2>2, Linear
  <2>7. Cong(wh, c * v + e * w)
    BY <2>2, <2>3, <2>6, <2>8, CongTrans
  <2>. QED
    BY <2>7 DEF wh
<1>3. c * v + e * w \in Int
  BY <1>1, Linear
<1>. QED
  BY <1>2, <1>3 DEF Opens

LEMMA TimesPoint ==
    ASSUME NEW F, NEW d \in Nat, d >= 1, NEW v, Opens(F, d, v),
           NEW G \in Values, \A i \in Parties : G[i] = (i + 1) * F[i]
    PROVE  Opens(G, d + 1, 0)
<1>1. F \in Values /\ v \in Int
  BY DEF Opens
<1>2. ASSUME NEW Q \in SUBSET Parties, Cardinality(Q) >= d + 1
      PROVE  Cong(Weighted(Q, G), 0)
  <2>0. IsFiniteSet(Q) /\ Cardinality(Q) \in Nat
    BY PartiesFinite
  <2>1. Q # {}
    BY <1>2, FS_EmptySet
  <2>2. PICK b \in Q : TRUE
    BY <2>1
  <2>3. Q \ {b} \in SUBSET Parties /\ Cardinality(Q \ {b}) = Cardinality(Q) - 1
    BY <2>0, FS_RemoveElement
  <2>4. Cardinality(Q) >= d /\ Cardinality(Q \ {b}) >= d
    BY <1>2, <2>0, <2>3
  <2>. DEFINE wf == Weighted(Q, F)
              wr == Weighted(Q \ {b}, F)
              wg == Weighted(Q, G)
              x == b + 1
  <2>5. wf \in Int /\ wr \in Int /\ wg \in Int /\ x \in Int
    BY <1>1, <2>3, WeightedType, PartiesFinite
  <2>6. Cong(wf, v) /\ Cong(wr, v)
    BY <2>3, <2>4 DEF Opens
  <2>7. Cong(wg, x * wf - x * wr)
    BY <1>1, LagrangeStep
  <2>. HIDE DEF wf, wr, wg, x
  <2>8. Cong(x * wf, x * v) /\ Cong(x * wr, x * v)
    BY <1>1, <2>5, <2>6, CongRefl, CongMul
  <2>9. x * wf \in Int /\ x * wr \in Int /\ x * v \in Int
    BY <1>1, <2>5
  <2>10. Cong(x * wf - x * wr, x * v - x * v)
    BY <2>8, <2>9, CongSub
  <2>12. x * v - x * v = 0 /\ x * wf - x * wr \in Int
    BY <2>9
  <2>11. Cong(wg, 0)
    BY <2>5, <2>7, <2>10, <2>12, CongTrans
  <2>. QED
    BY <2>11 DEF wg
<1>. QED
  BY <1>2 DEF Opens

LEMMA PowerIs ==
    ASSUME NEW x \in Int, NEW n \in Nat
    PROVE  power(x, 0) = 1 /\ power(x, n) \in Int /\ power(x, n + 1) = x * power(x, n)
<1>. DEFINE f(k) == [i \in 1 .. k |-> x]
<1>1. \A k \in Nat : f(k) \in [1 .. k -> Int] /\ IsFiniteSet(1 .. k)
  BY FS_Interval
<1>2. 1 .. 0 = {} /\ n + 1 \in 1 .. n + 1 /\ (1 .. n + 1) \ {n + 1} = 1 .. n /\ n + 1 \in Nat
  OBVIOUS
<1>3. f(n) = [i \in (1 .. n + 1) \ {n + 1} |-> f(n + 1)[i]] /\ f(n + 1)[n + 1] = x
  BY <1>2
<1>4. \A k \in Nat : power(x, k) = ProductFunction(f(k))
  BY DEF power
<1>. HIDE DEF f
<1>5. ProductFunction(f(0)) = 1
  BY <1>1, <1>2, ProductIs
<1>6. ProductFunction(f(n)) \in Int
  BY <1>1, ProductIs
<1>7. \A y \in 1 .. n + 1 : ProductFunction(f(n + 1)) =
          f(n + 1)[y] * ProductFunction([i \in (1 .. n + 1) \ {y} |-> f(n + 1)[i]])
  <2>1. f(n + 1) \in [1 .. n + 1 -> Int] /\ IsFiniteSet(1 .. n + 1)
    BY <1>1, <1>2
  <2>. QED
    BY <2>1, ProductIs
<1>8. ProductFunction(f(n + 1)) = x * ProductFunction(f(n))
  BY <1>2, <1>3, <1>7, Zenon
<1>. QED
  BY <1>2, <1>4, <1>5, <1>6, <1>8

LEMMA PowerOpens ==
    ASSUME NEW F, NEW d \in Nat, d >= 1, NEW v, Opens(F, d, v), NEW e \in Nat
    PROVE  Opens([i \in Parties |-> power(i + 1, e) * F[i]], d + e, IF e = 0 THEN v ELSE 0)
<1>. DEFINE G(n) == [i \in Parties |-> power(i + 1, n) * F[i]]
            N == {n \in Nat : Opens(G(n), d + n, IF n = 0 THEN v ELSE 0)}
<1>0. F \in Values /\ v \in Int /\ \A i \in Parties : F[i] \in Int /\ i + 1 \in Int
  BY PartiesFinite DEF Opens, Values
<1>1. \A n \in Nat : G(n) \in Values
  <2>1. \A n \in Nat : \A i \in Parties : power(i + 1, n) * F[i] \in Int
    <3>1. ASSUME NEW n \in Nat, NEW i \in Parties PROVE power(i + 1, n) * F[i] \in Int
      <4>1. power(i + 1, n) \in Int /\ F[i] \in Int
        BY <1>0, PowerIs
      <4>. QED
        BY <4>1
    <3>. QED
      BY <3>1
  <2>. QED
    BY <2>1 DEF Values
<1>2. 0 \in N
  <2>1. \A i \in Parties : G(0)[i] = F[i]
    <3>1. ASSUME NEW i \in Parties PROVE G(0)[i] = F[i]
      <4>1. power(i + 1, 0) = 1 /\ F[i] \in Int
        BY <1>0, PowerIs
      <4>. QED
        BY <4>1
    <3>. QED
      BY <3>1
  <2>2. G(0) = F
    BY <1>0, <2>1 DEF Values
  <2>3. d + 0 = d
    OBVIOUS
  <2>. HIDE DEF G
  <2>. QED
    BY <2>2, <2>3
<1>3. ASSUME NEW n \in Nat, n \in N PROVE n + 1 \in N
  <2>1. \A i \in Parties : G(n + 1)[i] = (i + 1) * G(n)[i]
    <3>1. ASSUME NEW i \in Parties PROVE G(n + 1)[i] = (i + 1) * G(n)[i]
      <4>. DEFINE a == power(i + 1, n)
                  b == F[i]
      <4>1. a \in Int /\ b \in Int /\ i + 1 \in Int /\ power(i + 1, n + 1) = (i + 1) * a
        BY <1>0, PowerIs
      <4>2. G(n + 1)[i] = power(i + 1, n + 1) * b /\ G(n)[i] = a * b
        OBVIOUS
      <4>. HIDE DEF a, b, G
      <4>3. ((i + 1) * a) * b = (i + 1) * (a * b)
        BY <4>1
      <4>. QED
        BY <4>1, <4>2, <4>3
    <3>. QED
      BY <3>1
  <2>. HIDE DEF G
  <2>2. Opens(G(n), d + n, IF n = 0 THEN v ELSE 0) /\ G(n + 1) \in Values
    BY <1>1, <1>3
  <2>3. d + n \in Nat /\ d + n >= 1 /\ (d + n) + 1 = d + (n + 1) /\ n + 1 # 0 /\ n + 1 \in Nat
    OBVIOUS
  <2>4. Opens(G(n + 1), (d + n) + 1, 0)
    BY <2>1, <2>2, <2>3, TimesPoint
  <2>. QED
    BY <2>3, <2>4
<1>4. Nat \subseteq N
  <2>. HIDE DEF N
  <2>. QED
    BY <1>2, <1>3, Induction
<1>. QED
  BY <1>4

\* Sums of values open to the sum of what each opens to.
LEMMA SumOpens ==
    ASSUME NEW K, IsFiniteSet(K), NEW Fs \in [K -> Values], NEW vs \in [K -> Int],
           NEW d \in Nat, \A k \in K : Opens(Fs[k], d, vs[k])
    PROVE  Opens([i \in Parties |-> SumFunction([k \in K |-> Fs[k][i]])], d, SumFunction(vs))
<1>. DEFINE at(i) == [k \in K |-> Fs[k][i]]
            H(T) == [i \in Parties |-> SumOn(at(i), T)]
            Good == {T \in SUBSET K : Opens(H(T), d, SumOn(vs, T))}
<1>0. \A i \in Parties : at(i) \in [K -> Int]
  BY DEF Values
<1>1. \A T \in SUBSET K : H(T) \in Values
  <2>. HIDE DEF at
  <2>. QED
    BY <1>0, SumOnIs DEF Values
<1>2. {} \in Good
  <2>1. SumOn(vs, {}) = 0
    BY SumOnIs
  <2>2. \A i \in Parties : H({})[i] = 0
    <3>. HIDE DEF at
    <3>. QED
      BY <1>0, SumOnIs
  <2>3. H({}) \in Values
    BY <1>1
  <2>. HIDE DEF H
  <2>4. ASSUME NEW Q \in SUBSET Parties PROVE Cong(Weighted(Q, H({})), 0)
    <3>. DEFINE w == Weighted(Q, H({}))
                z == H({})
    <3>1. \A i \in Q : Cong(z[i], 0 * z[i] + 0 * z[i])
      <4>1. 0 * 0 + 0 * 0 = 0
        OBVIOUS
      <4>2. Cong(0, 0)
        BY CongRefl
      <4>. QED
        BY <2>2, <4>1, <4>2
    <3>2. z \in Values
      BY <2>3
    <3>. HIDE DEF z
    <3>3. \A c, e \in Int : (\A i \in Q : Cong(z[i], c * z[i] + e * z[i])) =>
              Cong(Weighted(Q, z), c * Weighted(Q, z) + e * Weighted(Q, z))
      BY <3>2, WeightedLinear
    <3>4. Cong(Weighted(Q, z), 0 * Weighted(Q, z) + 0 * Weighted(Q, z))
      BY <3>1, <3>3
    <3>5. 0 * Weighted(Q, z) + 0 * Weighted(Q, z) = 0
      BY <3>2, WeightedType
    <3>. QED
      BY <3>4, <3>5 DEF z
  <2>5. Opens(H({}), d, 0)
    BY <2>3, <2>4 DEF Opens
  <2>. QED
    BY <2>1, <2>5
<1>3. ASSUME NEW T \in SUBSET K, T # {}, \A k \in T : T \ {k} \in Good
      PROVE  T \in Good
  <2>1. PICK k \in T : T \ {k} \in Good
    BY <1>3
  <2>. DEFINE R == T \ {k}
  <2>2. R \in SUBSET K /\ Opens(H(R), d, SumOn(vs, R)) /\ Opens(Fs[k], d, vs[k])
    BY <2>1
  <2>3. SumOn(vs, T) = vs[k] + SumOn(vs, R) /\ vs[k] \in Int /\ SumOn(vs, R) \in Int
    BY <2>2, SumOnIs
  <2>4. \A i \in Parties : H(T)[i] = Fs[k][i] + H(R)[i] /\ Fs[k][i] \in Int /\ H(R)[i] \in Int
    <3>1. ASSUME NEW i \in Parties
          PROVE  H(T)[i] = Fs[k][i] + H(R)[i] /\ Fs[k][i] \in Int /\ H(R)[i] \in Int
      <4>1. at(i)[k] = Fs[k][i] /\ at(i) \in [K -> Int]
        BY <1>0
      <4>2. H(T)[i] = SumOn(at(i), T) /\ H(R)[i] = SumOn(at(i), R)
        OBVIOUS
      <4>. HIDE DEF at, H
      <4>. QED
        BY <2>2, <4>1, <4>2, SumOnIs
    <3>. QED
      BY <3>1
  <2>5. H(T) \in Values
    BY <1>1
  <2>. HIDE DEF H, R
  <2>6. \A i \in Parties : Cong(H(T)[i], 1 * Fs[k][i] + 1 * H(R)[i])
    <3>1. ASSUME NEW i \in Parties PROVE Cong(H(T)[i], 1 * Fs[k][i] + 1 * H(R)[i])
      <4>1. 1 * Fs[k][i] + 1 * H(R)[i] = H(T)[i] /\ H(T)[i] \in Int
        BY <2>4
      <4>. QED
        BY <4>1, CongRefl
    <3>. QED
      BY <3>1
  <2>7. Opens(H(T), d, 1 * vs[k] + 1 * SumOn(vs, R))
    BY <2>2, <2>5, <2>6, OpensLinear
  <2>8. 1 * vs[k] + 1 * SumOn(vs, R) = SumOn(vs, T)
    BY <2>3
  <2>. QED
    BY <2>7, <2>8
<1>. HIDE DEF Good
<1>4. K \in Good
  <2>1. SUBSET K \subseteq Good
    BY <1>2, <1>3, SubsetInduction
  <2>. QED
    BY <2>1
<1>5. \A i \in Parties : SumOn(at(i), K) = SumFunction(at(i))
  <2>. HIDE DEF at
  <2>. QED
    BY <1>0, SumOnWhole
<1>6. SumOn(vs, K) = SumFunction(vs)
  BY SumOnWhole
<1>7. H(K) = [i \in Parties |-> SumFunction(at(i))]
  <2>. HIDE DEF at
  <2>. QED
    BY <1>5
<1>. QED
  BY <1>4, <1>6, <1>7, Zenon DEF Good

\* The values of a polynomial, times other values.
LEMMA PolynomialOpens ==
    ASSUME NEW n \in Nat, n >= 1, NEW cs \in [1 .. n -> Int],
           NEW F, NEW d \in Nat, d >= 1, NEW v, Opens(F, d, v)
    PROVE  Opens([i \in Parties |-> P(cs, i + 1) * F[i]], d + (n - 1), cs[1] * v)
<1>. DEFINE K == 1 .. n
            powers == [k \in K |-> [i \in Parties |-> power(i + 1, k - 1) * F[i]]]
            Fs == [k \in K |-> [i \in Parties |-> cs[k] * (power(i + 1, k - 1) * F[i])]]
            vs == [k \in K |-> cs[k] * (IF k = 1 THEN v ELSE 0)]
            poly(i) == [k \in K |-> cs[k] * power(i + 1, k - 1)]
            H == [i \in Parties |-> SumFunction([k \in K |-> Fs[k][i]])]
            e == d + (n - 1)
<1>0. F \in Values /\ v \in Int /\ \A i \in Parties : F[i] \in Int /\ i + 1 \in Int
  BY PartiesFinite DEF Opens, Values
<1>1. /\ IsFiniteSet(K) /\ e \in Nat /\ 1 \in K
      /\ \A k \in K : k - 1 \in Nat /\ cs[k] \in Int /\ d + (k - 1) \in Nat /\ e >= d + (k - 1)
                      /\ (k - 1 = 0 <=> k = 1)
  BY FS_Interval
<1>2. \A k \in K, i \in Parties : power(i + 1, k - 1) \in Int
  BY <1>0, <1>1, PowerIs
<1>3. \A k \in K : Fs[k] \in Values /\ powers[k] \in Values /\ vs[k] \in Int
  <2>1. ASSUME NEW k \in K PROVE Fs[k] \in Values /\ powers[k] \in Values /\ vs[k] \in Int
    <3>1. \A i \in Parties : power(i + 1, k - 1) \in Int /\ F[i] \in Int
      BY <1>0, <1>2
    <3>2. \A i \in Parties : power(i + 1, k - 1) * F[i] \in Int
      <4>. HIDE DEF K
      <4>. QED
        BY <3>1
    <3>3. cs[k] \in Int
      BY <1>1
    <3>4. \A i \in Parties : cs[k] * (power(i + 1, k - 1) * F[i]) \in Int
      BY <3>2, <3>3
    <3>5. vs[k] \in Int
      BY <1>0, <3>3
    <3>. QED
      BY <3>2, <3>4, <3>5 DEF Values
  <2>. QED
    BY <2>1
<1>4. \A k \in K : Opens(Fs[k], e, vs[k])
  <2>1. ASSUME NEW k \in K PROVE Opens(Fs[k], e, vs[k])
    <3>. DEFINE u == IF k = 1 THEN v ELSE 0
    <3>1. Opens(powers[k], d + (k - 1), u)
      <4>1. Opens([i \in Parties |-> power(i + 1, k - 1) * F[i]], d + (k - 1),
                  IF k - 1 = 0 THEN v ELSE 0)
        BY <1>1, PowerOpens
      <4>. QED
        BY <1>1, <4>1
    <3>2. \A i \in Parties : Cong(Fs[k][i], cs[k] * powers[k][i] + 0 * powers[k][i])
      <4>1. ASSUME NEW i \in Parties
            PROVE  Cong(Fs[k][i], cs[k] * powers[k][i] + 0 * powers[k][i])
        <5>1. Fs[k][i] = cs[k] * powers[k][i] /\ powers[k][i] \in Int /\ cs[k] \in Int
              /\ Fs[k][i] \in Int
          BY <1>1, <1>3 DEF Values
        <5>. HIDE DEF Fs, powers
        <5>2. cs[k] * powers[k][i] + 0 * powers[k][i] = Fs[k][i]
          BY <5>1
        <5>. QED
          BY <5>1, <5>2, CongRefl
      <4>. QED
        BY <4>1
    <3>3. vs[k] = cs[k] * u /\ u \in Int /\ cs[k] \in Int
      BY <1>0, <1>1
    <3>. HIDE DEF Fs, powers, vs, u, e, K
    <3>4. cs[k] \in Int /\ 0 \in Int /\ Fs[k] \in Values
      BY <1>3, <3>3
    <3>5. Opens(Fs[k], d + (k - 1), cs[k] * u + 0 * u)
      BY <3>1, <3>2, <3>4, OpensLinear
    <3>6. cs[k] * u + 0 * u = vs[k] /\ vs[k] \in Int
      BY <3>3
    <3>7. d + (k - 1) \in Nat /\ e \in Nat /\ e >= d + (k - 1)
      BY <1>1
    <3>8. Cong(vs[k], vs[k]) /\ \A i \in Parties : Cong(Fs[k][i], Fs[k][i])
      BY <3>4, <3>6, CongRefl DEF Values
    <3>. QED
      BY <3>4, <3>5, <3>6, <3>7, <3>8, OpensCong
  <2>. QED
    BY <2>1
<1>5. Opens(H, e, SumFunction(vs))
  <2>1. Fs \in [K -> Values] /\ vs \in [K -> Int]
    BY <1>3
  <2>. HIDE DEF Fs, vs, K, e
  <2>. QED
    BY <1>1, <1>4, <2>1, SumOpens
<1>6. Cong(SumFunction(vs), cs[1] * v) /\ cs[1] * v \in Int
  <2>1. vs \in [K -> Int] /\ vs[1] = cs[1] * v
    BY <1>1, <1>3
  <2>2. \A k \in K \ {1} : Cong(vs[k], 0)
    <3>1. ASSUME NEW k \in K \ {1} PROVE Cong(vs[k], 0)
      <4>1. vs[k] = cs[k] * 0 /\ cs[k] \in Int
        BY <1>1
      <4>2. vs[k] = 0
        BY <4>1
      <4>. QED
        BY <4>2, CongRefl
    <3>. QED
      BY <3>1
  <2>. HIDE DEF vs, K
  <2>3. Cong(SumFunction(vs), vs[1])
    BY <1>1, <2>1, <2>2, SumOfOne
  <2>. QED
    BY <1>1, <2>1, <2>3
<1>7. ASSUME NEW i \in Parties
      PROVE  P(cs, i + 1) * F[i] \in Int /\ Cong(P(cs, i + 1) * F[i], H[i])
  <2>. DEFINE b == F[i]
              f == poly(i)
              g == [k \in K |-> Fs[k][i]]
  <2>1. f \in [K -> Int]
    <3>1. \A k \in K : cs[k] * power(i + 1, k - 1) \in Int
      <4>1. \A k \in K : cs[k] \in Int /\ power(i + 1, k - 1) \in Int
        BY <1>1, <1>2
      <4>. HIDE DEF K
      <4>. QED
        BY <4>1
    <3>. QED
      BY <3>1
  <2>2. g \in [K -> Int]
    BY <1>3 DEF Values
  <2>3. \A k \in K : Cong(g[k], b * f[k] + 0 * f[k])
    <3>1. ASSUME NEW k \in K PROVE Cong(g[k], b * f[k] + 0 * f[k])
      <4>. DEFINE p == power(i + 1, k - 1)
                  c == cs[k]
      <4>1. p \in Int /\ c \in Int /\ b \in Int
        BY <1>0, <1>1, <1>2
      <4>2. g[k] = c * (p * b) /\ f[k] = c * p
        OBVIOUS
      <4>. HIDE DEF p, c, b, g, f
      <4>3. b * (c * p) + 0 * (c * p) = c * (p * b) /\ c * (p * b) \in Int
        BY <4>1
      <4>. QED
        BY <4>2, <4>3, CongRefl
    <3>. QED
      BY <3>1
  <2>4. H[i] = SumFunction(g) /\ P(cs, i + 1) = SumFunction(f) % Modulus /\ b \in Int
    <3>1. DOMAIN cs = K
      OBVIOUS
    <3>. QED
      BY <1>0, <3>1 DEF P
  <2>. HIDE DEF f, g, b, H, K, Fs
  <2>. DEFINE s == SumFunction(f)
              t == SumFunction(g)
  <2>5. s \in Int /\ t \in Int
    BY <1>1, <2>1, <2>2, SumIs
  <2>6. Cong(t, b * s + 0 * s)
    <3>1. \A c, l \in Int : (\A k \in K : Cong(g[k], c * f[k] + l * f[k])) =>
              Cong(SumFunction(g), c * SumFunction(f) + l * SumFunction(f))
      BY <1>1, <2>1, <2>2, SumLinear
    <3>. QED
      BY <2>3, <2>4, <3>1
  <2>. HIDE DEF s, t
  <2>7. b * s + 0 * s = s * b /\ s * b \in Int
    BY <2>4, <2>5
  <2>8. s % Modulus \in Int /\ Cong(s % Modulus, s)
    BY <2>5, CongMod
  <2>9. Cong((s % Modulus) * b, s * b) /\ (s % Modulus) * b \in Int
    <3>. DEFINE m == s % Modulus
    <3>1. m \in Int /\ Cong(m, s) /\ Cong(b, b)
      BY <2>4, <2>8, CongRefl
    <3>. HIDE DEF m
    <3>2. Cong(m * b, s * b)
      BY <2>4, <2>5, <3>1, CongMul
    <3>3. m * b \in Int
      BY <2>4, <3>1
    <3>. QED
      BY <3>2, <3>3 DEF m
  <2>10. Cong(s * b, t)
    BY <2>5, <2>6, <2>7, CongSym
  <2>11. Cong((s % Modulus) * b, t)
    BY <2>5, <2>7, <2>9, <2>10, CongTrans
  <2>. QED
    BY <2>4, <2>9, <2>11 DEF s, t, b
<1>. DEFINE G == [i \in Parties |-> P(cs, i + 1) * F[i]]
<1>8. G \in Values /\ \A i \in Parties : Cong(G[i], H[i])
  BY <1>7 DEF Values
<1>. HIDE DEF H, e, vs
<1>9. e \in Nat /\ e >= e
  BY <1>1
<1>. HIDE DEF G
<1>10. Opens(G, e, cs[1] * v)
  BY <1>5, <1>6, <1>8, <1>9, OpensCong
<1>. QED
  BY <1>10 DEF G, e

----------------------------------------------------------------------------
(***************************************************************************)
(* Opening shares.                                                         *)
(***************************************************************************)

\* A share of party i that is c modulo the prime.
Stands(s, i, c) == \E v \in Field : s = Share(v, i) /\ Cong(v, c)

ShareOf(s, i, F) == Stands(s, i, F[i])

RealOf(f) == {i \in DOMAIN f : f[i] # dummy}

LEMMA RealIs ==
    ASSUME NEW Q \in SUBSET Parties, NEW f, DOMAIN f = Q, NEW F,
           \A i \in Q : f[i] = dummy \/ ShareOf(f[i], i, F)
    PROVE  real_shares(f) = RealOf(f) /\ \A i \in RealOf(f) : ShareOf(f[i], i, F)
<1>1. ASSUME NEW i \in Q PROVE is_dummy(f[i]) <=> f[i] = dummy
  <2>1. i # -1
    BY SharingAssumption DEF Parties
  <2>2. CASE f[i] = dummy
    BY <2>2 DEF is_dummy, dummy, Share
  <2>3. CASE ShareOf(f[i], i, F)
    BY <2>1, <2>3 DEF is_dummy, dummy, Share, ShareOf, Stands
  <2>. QED
    BY <2>2, <2>3
<1>. QED
  BY <1>1 DEF real_shares, RealOf

LEMMA ReconstructIs ==
    ASSUME NEW Q \in SUBSET Parties, NEW f, NEW T \in SUBSET Q, NEW F \in Values,
           \A i \in T : ShareOf(f[i], i, F)
    PROVE  reconstruct(Restrict(f, T)) = Weighted(T, F) % Modulus
<1>. DEFINE g == Restrict(f, T)
            coeff == recoverCoefficients(x_points(g))
            h == [i \in DOMAIN g |-> coeff[i] * g[i].share]
            t == [i \in T |-> Lambda(T, i) * F[i]]
<1>0. T \in SUBSET Parties /\ IsFiniteSet(T)
  BY PartiesFinite
<1>1. DOMAIN g = T /\ \A i \in T : g[i] = f[i]
  BY DEF Restrict
<1>2. \A i \in T : g[i].x = i /\ g[i].share \in Int /\ Cong(g[i].share, F[i])
  <2>1. ASSUME NEW i \in T
        PROVE  g[i].x = i /\ g[i].share \in Int /\ Cong(g[i].share, F[i])
    <3>1. PICK v \in Field : f[i] = Share(v, i) /\ Cong(v, F[i])
      BY DEF ShareOf, Stands
    <3>2. g[i] = Share(v, i)
      BY <1>1, <3>1
    <3>. HIDE DEF g
    <3>3. g[i].x = i /\ g[i].share = v
      BY <3>2 DEF Share
    <3>4. v \in Int
      BY ModulusIs DEF Field
    <3>. QED
      BY <3>1, <3>3, <3>4
  <2>. QED
    BY <2>1
<1>. HIDE DEF g
<1>3. x_points(g) = [i \in T |-> i + 1]
  BY <1>1, <1>2 DEF x_points
<1>4. \A i \in T : coeff[i] = Lambda(T, i) % Modulus
  <2>1. recoverCoefficients([i \in T |-> i + 1]) = [i \in T |-> Lambda(T, i) % Modulus]
    <3>. DEFINE xs == [i \in T |-> i + 1]
    <3>1. DOMAIN xs = T
      OBVIOUS
    <3>2. ASSUME NEW i \in T
          PROVE  [j \in T |-> IF xs[j] = xs[i] THEN 1 ELSE (0 - xs[j]) * modinv(xs[i] - xs[j])]
                    = [j \in T |-> Factor(i, j)]
      <4>1. ASSUME NEW j \in T
            PROVE  (IF xs[j] = xs[i] THEN 1 ELSE (0 - xs[j]) * modinv(xs[i] - xs[j])) = Factor(i, j)
        <5>1. xs[j] = j + 1 /\ xs[i] = i + 1
          OBVIOUS
        <5>. HIDE DEF xs
        <5>. QED
          BY <5>1, Zenon DEF Factor
      <4>. HIDE DEF xs
      <4>. QED
        BY <4>1
    <3>. HIDE DEF xs
    <3>3. recoverCoefficients(xs) = [i \in T |->
            ProductFunction([j \in T |-> IF xs[j] = xs[i] THEN 1 ELSE (0 - xs[j]) * modinv(xs[i] - xs[j])])
                % Modulus]
      BY <3>1 DEF recoverCoefficients
    <3>4. \A i \in T : ProductFunction([j \in T |->
              IF xs[j] = xs[i] THEN 1 ELSE (0 - xs[j]) * modinv(xs[i] - xs[j])]) = Lambda(T, i)
      BY <3>2, Zenon DEF Lambda
    <3>5. recoverCoefficients(xs) = [i \in T |-> Lambda(T, i) % Modulus]
      BY <3>3, <3>4
    <3>. QED
      BY <3>5 DEF xs
  <2>. QED
    BY <1>3, <2>1
<1>5. ASSUME NEW i \in T
      PROVE  h[i] \in Int /\ t[i] \in Int /\ Cong(h[i], 1 * t[i] + 0 * t[i])
  <2>. DEFINE l == Lambda(T, i)
              m == l % Modulus
              s == g[i].share
              a == F[i]
  <2>1. l \in Int /\ a \in Int /\ s \in Int /\ Cong(s, a)
    BY <1>0, <1>2, LambdaIs DEF Values
  <2>2. m \in Int /\ Cong(m, l)
    BY <2>1, CongMod
  <2>3. h[i] = m * s /\ t[i] = l * a
    BY <1>1, <1>4
  <2>. HIDE DEF l, m, s, a, h, t
  <2>4. Cong(m * s, l * a)
    BY <2>1, <2>2, CongMul
  <2>5. m * s \in Int /\ l * a \in Int
    BY <2>1, <2>2
  <2>6. 1 * (l * a) + 0 * (l * a) = l * a
    BY <2>5
  <2>. QED
    BY <2>3, <2>4, <2>5, <2>6
<1>6. h \in [T -> Int] /\ t \in [T -> Int]
  BY <1>1, <1>5
<1>7. reconstruct(g) = SumFunction(h) % Modulus /\ Weighted(T, F) = SumFunction(t)
  BY <1>1 DEF reconstruct, Weighted
<1>. HIDE DEF h, t
<1>8. \A c, d \in Int : (\A i \in T : Cong(h[i], c * t[i] + d * t[i])) =>
          Cong(SumFunction(h), c * SumFunction(t) + d * SumFunction(t))
  BY <1>0, <1>6, SumLinear
<1>9. Cong(SumFunction(h), 1 * SumFunction(t) + 0 * SumFunction(t))
  BY <1>5, <1>8
<1>10. SumFunction(h) \in Int /\ SumFunction(t) \in Int
  BY <1>0, <1>6, SumIs
<1>11. 1 * SumFunction(t) + 0 * SumFunction(t) = SumFunction(t)
  BY <1>10
<1>12. Cong(SumFunction(h), SumFunction(t))
  BY <1>9, <1>11
<1>. QED
  BY <1>7, <1>10, <1>12, ModOfCong DEF g

LEMMA OpenIs ==
    ASSUME NEW Q \in SUBSET Parties, NEW f, DOMAIN f = Q, NEW F, NEW d \in Nat, NEW v,
           Opens(F, d, v), \A i \in Q : f[i] = dummy \/ ShareOf(f[i], i, F)
    PROVE  /\ v % Modulus \in Field
           /\ open(f, d) = IF Cardinality(RealOf(f)) >= d THEN v % Modulus ELSE None
<1>0. F \in Values /\ v \in Int
  BY DEF Opens
<1>. DEFINE T == RealOf(f)
<1>1. T \in SUBSET Q /\ T \in SUBSET Parties /\ Cardinality(T) \in Nat
  <2>1. T \in SUBSET Q
    BY DEF RealOf
  <2>. QED
    BY <2>1, PartiesFinite
<1>2. real_shares(f) = T /\ \A i \in T : ShareOf(f[i], i, F)
  BY RealIs
<1>. HIDE DEF T
<1>3. reconstruct(Restrict(f, T)) = Weighted(T, F) % Modulus
  BY <1>0, <1>1, <1>2, ReconstructIs
<1>4. ASSUME Cardinality(T) >= d PROVE Weighted(T, F) % Modulus = v % Modulus
  <2>1. Cong(Weighted(T, F), v)
    BY <1>1, <1>4 DEF Opens
  <2>. QED
    BY <1>0, <1>1, <2>1, WeightedType, ModOfCong
<1>5. Cardinality(T) < d <=> ~(Cardinality(T) >= d)
  BY <1>1
<1>. QED
  BY <1>0, <1>2, <1>3, <1>4, <1>5, CongMod DEF open, T

----------------------------------------------------------------------------
(***************************************************************************)
(* What is dealt.                                                          *)
(***************************************************************************)

LEMMA ThresholdIs ==
    /\ Threshold \in Nat /\ Threshold >= 1 /\ highThreshold = Threshold + (Threshold - 1)
    /\ highThreshold \in Nat /\ highThreshold >= Threshold /\ highThreshold = 2 * Threshold - 1
    /\ Field \subseteq Int /\ NonZero \subseteq Int /\ NonZero \subseteq Field
  BY SharingAssumption DEF highThreshold, Field, NonZero

LEMMA ConcatIs ==
    ASSUME NEW s \in Int, NEW n \in Nat, n >= 1, NEW cs \in [1 .. n - 1 -> NonZero]
    PROVE  <<s>> \o cs \in [1 .. n -> Int] /\ (<<s>> \o cs)[1] = s
<1>. DEFINE poly == <<s>> \o cs
<1>2. <<s>> \in Seq(Int) /\ Len(<<s>>) = 1 /\ <<s>>[1] = s
  OBVIOUS
<1>3. cs \in Seq(Int) /\ Len(cs) = n - 1
  <2>1. NonZero \subseteq Int
    BY ThresholdIs
  <2>2. \A k \in 1 .. n - 1 : cs[k] \in Int
    BY <2>1
  <2>3. cs = [k \in 1 .. n - 1 |-> cs[k]]
    OBVIOUS
  <2>4. cs \in [1 .. n - 1 -> Int] /\ n - 1 \in Nat
    BY <2>2, <2>3
  <2>. QED
    BY <2>4
<1>4. poly \in Seq(Int) /\ Len(poly) = n /\ poly[1] = s
  BY <1>2, <1>3
<1>5. poly \in [1 .. n -> Int]
  BY <1>4, LenProperties
<1>. QED
  BY <1>4, <1>5

LEMMA PolynomialIs ==
    ASSUME NEW secrets, NEW n \in Nat, n >= 1, secrets \subseteq Int,
           NEW poly \in Polynomials(secrets, n)
    PROVE  poly \in [1 .. n -> Int] /\ poly[1] \in secrets
<1>1. PICK s \in secrets, cs \in [1 .. n - 1 -> NonZero] : poly = <<s>> \o cs
  BY DEF Polynomials
<1>2. s \in Int
  OBVIOUS
<1>3. <<s>> \o cs \in [1 .. n -> Int] /\ (<<s>> \o cs)[1] = s
  BY <1>2, ConcatIs
<1>. QED
  BY <1>1, <1>3

LEMMA PType ==
    ASSUME NEW n \in Nat, NEW cs \in [1 .. n -> Int], NEW x \in Int
    PROVE  P(cs, x) \in Field /\ P(cs, x) \in Int
<1>. DEFINE f == [i \in 1 .. n |-> cs[i] * power(x, i - 1)]
<1>1. f \in [1 .. n -> Int] /\ IsFiniteSet(1 .. n)
  <2>1. ASSUME NEW i \in 1 .. n PROVE cs[i] * power(x, i - 1) \in Int
    <3>1. cs[i] \in Int /\ i - 1 \in Nat
      OBVIOUS
    <3>2. power(x, i - 1) \in Int
      BY <3>1, PowerIs
    <3>. QED
      BY <3>1, <3>2
  <2>. QED
    BY <2>1, FS_Interval
<1>2. P(cs, x) = SumFunction(f) % Modulus
  BY DEF P
<1>. HIDE DEF f
<1>. QED
  BY <1>1, <1>2, SumIs, CongMod

\* Group is finite, and its members are parties.
LEMMA GroupIs ==
    /\ Group \in SUBSET Parties /\ IsFiniteSet(Group) /\ Cardinality(Group) \in Nat
    /\ Cardinality(Group) >= highThreshold /\ Cardinality(Group) >= Threshold
    /\ Worker \in SUBSET Group /\ Worker \in SUBSET Parties /\ Worker # {}
<1>1. Group \in SUBSET Parties /\ Worker \in SUBSET Group /\ Worker \in SUBSET Parties
  BY GroupAssumption, WorkersAssumption
<1>2. IsFiniteSet(Group) /\ Cardinality(Group) \in Nat
  BY <1>1, PartiesFinite
<1>3. Cardinality(Group) >= highThreshold /\ Cardinality(Group) >= Threshold
  BY <1>2, GroupAssumption, ThresholdIs
<1>4. Worker # {}
  <2>1. Cardinality(Worker) >= 1
    BY <1>1, CheckAssumption, ThresholdIs, PartiesFinite
  <2>2. Cardinality({}) = 0
    BY FS_EmptySet
  <2>. QED
    BY <2>1, <2>2
<1>. QED
  BY <1>1, <1>2, <1>3, <1>4

\* The values dealt by all of the group.
Dealt(polys) == [i \in Parties |-> SumFunction([q \in Group |-> P(polys[q], i + 1)])]
Secret(polys) == SumFunction([q \in Group |-> polys[q][1]])

LEMMA DealtTimes ==
    ASSUME NEW n \in Nat, n >= 1, NEW polys \in [Group -> [1 .. n -> Int]],
           NEW F, NEW d \in Nat, d >= 1, NEW v, Opens(F, d, v)
    PROVE  /\ Dealt(polys) \in Values /\ Secret(polys) \in Int
           /\ Opens([i \in Parties |-> Dealt(polys)[i] * F[i]], d + (n - 1), Secret(polys) * v)
<1>. DEFINE Fs == [q \in Group |-> [i \in Parties |-> P(polys[q], i + 1) * F[i]]]
            ss == [q \in Group |-> polys[q][1]]
            vs == [q \in Group |-> polys[q][1] * v]
            H == [i \in Parties |-> SumFunction([q \in Group |-> Fs[q][i]])]
            ps(i) == [q \in Group |-> P(polys[q], i + 1)]
            e == d + (n - 1)
<1>0. /\ F \in Values /\ v \in Int /\ \A i \in Parties : F[i] \in Int /\ i + 1 \in Int
      /\ IsFiniteSet(Group) /\ e \in Nat /\ e >= e
  BY PartiesFinite, GroupIs DEF Opens, Values
<1>1. \A q \in Group : Opens(Fs[q], e, vs[q])
  <2>1. ASSUME NEW q \in Group PROVE Opens(Fs[q], e, vs[q])
    <3>1. polys[q] \in [1 .. n -> Int]
      OBVIOUS
    <3>2. Opens([i \in Parties |-> P(polys[q], i + 1) * F[i]], d + (n - 1), polys[q][1] * v)
      BY <3>1, PolynomialOpens
    <3>. QED
      BY <3>2
  <2>. QED
    BY <2>1
<1>2. Fs \in [Group -> Values] /\ vs \in [Group -> Int] /\ ss \in [Group -> Int]
  <2>1. \A q \in Group : Fs[q] \in Values /\ vs[q] \in Int
    <3>. HIDE DEF Fs, vs
    <3>. QED
      BY <1>1 DEF Opens
  <2>2. \A q \in Group : ss[q] \in Int
    OBVIOUS
  <2>. QED
    BY <2>1, <2>2
<1>3. Opens(H, e, SumFunction(vs))
  <2>. HIDE DEF Fs, vs, e
  <2>. QED
    BY <1>0, <1>1, <1>2, SumOpens
<1>4. \A i \in Parties : ps(i) \in [Group -> Int]
  BY <1>0, PType
<1>5. \A i \in Parties : SumFunction(ps(i)) \in Int
  <2>. HIDE DEF ps
  <2>. QED
    BY <1>0, <1>4, SumIs
<1>6. \A i \in Parties : Dealt(polys)[i] = SumFunction(ps(i))
  BY DEF Dealt
<1>7. Dealt(polys) \in Values
  <2>1. \A i \in Parties : Dealt(polys)[i] \in Int
    BY <1>5, <1>6
  <2>2. Dealt(polys) = [i \in Parties |-> Dealt(polys)[i]]
    BY DEF Dealt
  <2>. QED
    BY <2>1, <2>2 DEF Values
<1>8. SumFunction(ss) \in Int /\ SumFunction(vs) \in Int /\ Secret(polys) = SumFunction(ss)
  <2>1. Secret(polys) = SumFunction(ss)
    BY DEF Secret
  <2>. HIDE DEF ss, vs
  <2>. QED
    BY <1>0, <1>2, <2>1, SumIs
<1>9. Cong(SumFunction(vs), SumFunction(ss) * v) /\ SumFunction(ss) * v \in Int
  <2>1. ASSUME NEW q \in Group PROVE Cong(vs[q], v * ss[q] + 0 * ss[q])
    <3>. DEFINE s == ss[q]
    <3>1. vs[q] = s * v /\ s \in Int
      OBVIOUS
    <3>. HIDE DEF s, vs, ss
    <3>2. v * s + 0 * s = s * v /\ s * v \in Int
      BY <1>0, <3>1
    <3>3. Cong(vs[q], v * s + 0 * s)
      BY <3>1, <3>2, CongRefl
    <3>. QED
      BY <3>3 DEF s
  <2>. HIDE DEF ss, vs
  <2>2. \A c, l \in Int : (\A q \in Group : Cong(vs[q], c * ss[q] + l * ss[q])) =>
            Cong(SumFunction(vs), c * SumFunction(ss) + l * SumFunction(ss))
    BY <1>0, <1>2, SumLinear
  <2>. DEFINE s == SumFunction(ss)
  <2>3. Cong(SumFunction(vs), v * s + 0 * s) /\ s \in Int
    BY <1>0, <1>8, <2>1, <2>2
  <2>. HIDE DEF s
  <2>4. v * s + 0 * s = s * v /\ s * v \in Int
    BY <1>0, <2>3
  <2>. QED
    BY <2>3, <2>4 DEF s
<1>10. ASSUME NEW i \in Parties
       PROVE  Dealt(polys)[i] * F[i] \in Int /\ Cong(Dealt(polys)[i] * F[i], H[i])
  <2>. DEFINE b == F[i]
              f == ps(i)
              g == [q \in Group |-> Fs[q][i]]
  <2>1. f \in [Group -> Int] /\ g \in [Group -> Int] /\ b \in Int
    BY <1>0, <1>2, <1>4 DEF Values
  <2>2. ASSUME NEW q \in Group PROVE Cong(g[q], b * f[q] + 0 * f[q])
    <3>. DEFINE p == P(polys[q], i + 1)
    <3>1. g[q] = p * b /\ f[q] = p /\ p \in Int
      BY <2>1
    <3>. HIDE DEF p, g, f, b
    <3>2. b * p + 0 * p = p * b /\ p * b \in Int
      BY <2>1, <3>1
    <3>. QED
      BY <3>1, <3>2, CongRefl
  <2>3. H[i] = SumFunction(g) /\ Dealt(polys)[i] = SumFunction(f)
    BY <1>6
  <2>. HIDE DEF H, f, g, b, ps, Fs
  <2>4. \A c, l \in Int : (\A q \in Group : Cong(g[q], c * f[q] + l * f[q])) =>
            Cong(SumFunction(g), c * SumFunction(f) + l * SumFunction(f))
    BY <1>0, <2>1, SumLinear
  <2>. DEFINE s == SumFunction(f)
              t == SumFunction(g)
  <2>5. Cong(t, b * s + 0 * s) /\ s \in Int /\ t \in Int
    BY <1>0, <2>1, <2>2, <2>4, SumIs
  <2>. HIDE DEF s, t
  <2>6. b * s + 0 * s = s * b /\ s * b \in Int
    BY <2>1, <2>5
  <2>7. Cong(s * b, t)
    BY <2>5, <2>6, CongSym
  <2>. QED
    BY <2>3, <2>6, <2>7 DEF s, t, b
<1>. DEFINE G == [i \in Parties |-> Dealt(polys)[i] * F[i]]
<1>11. G \in Values /\ \A i \in Parties : Cong(G[i], H[i])
  BY <1>10 DEF Values
<1>. HIDE DEF G, H, vs, ss, e
<1>12. Opens(G, e, SumFunction(ss) * v)
  BY <1>0, <1>3, <1>9, <1>11, OpensCong
<1>. QED
  BY <1>7, <1>8, <1>12 DEF G, e

LEMMA DealtOpens ==
    ASSUME NEW n \in Nat, n >= 1, NEW polys \in [Group -> [1 .. n -> Int]]
    PROVE  Dealt(polys) \in Values /\ Secret(polys) \in Int /\ Opens(Dealt(polys), n, Secret(polys))
<1>. DEFINE G == [i \in Parties |-> Dealt(polys)[i] * Ones[i]]
<1>1. Dealt(polys) \in Values /\ Secret(polys) \in Int /\ Opens(G, 1 + (n - 1), Secret(polys) * 1)
  BY OnesOpen, DealtTimes
<1>2. \A i \in Parties : Dealt(polys)[i] * Ones[i] = Dealt(polys)[i]
  <2>1. ASSUME NEW i \in Parties PROVE Dealt(polys)[i] * Ones[i] = Dealt(polys)[i]
    <3>1. Ones[i] = 1 /\ Dealt(polys)[i] \in Int
      BY <1>1 DEF Ones, Values
    <3>. QED
      BY <3>1
  <2>. QED
    BY <2>1
<1>3. G = Dealt(polys)
  BY <1>1, <1>2 DEF Values
<1>4. 1 + (n - 1) = n /\ Secret(polys) * 1 = Secret(polys)
  BY <1>1
<1>. QED
  BY <1>1, <1>3, <1>4

----------------------------------------------------------------------------
(***************************************************************************)
(* The operations on shares.                                               *)
(***************************************************************************)

LEMMA CongOfMod ==
    ASSUME NEW a \in Int, NEW b \in Int, Cong(a, b)
    PROVE  a % Modulus \in Field /\ Cong(a % Modulus, b)
<1>1. a % Modulus \in Field /\ a % Modulus \in Int /\ Cong(a % Modulus, a)
  BY CongMod
<1>. QED
  BY <1>1, CongTrans

LEMMA StandsCong ==
    ASSUME NEW s, NEW i, NEW c \in Int, NEW e \in Int, Stands(s, i, c), Cong(c, e)
    PROVE  Stands(s, i, e)
<1>1. PICK v \in Field : s = Share(v, i) /\ Cong(v, c)
  BY DEF Stands
<1>2. v \in Int
  BY ThresholdIs
<1>3. Cong(v, e)
  BY <1>1, <1>2, CongTrans
<1>. QED
  BY <1>1, <1>3 DEF Stands

LEMMA StandsIs ==
    ASSUME NEW s, NEW i \in Parties, NEW c, Stands(s, i, c)
    PROVE  /\ s.share \in Field /\ s.share \in Int /\ s.x = i /\ s = Share(s.share, i)
           /\ Cong(s.share, c) /\ ~is_dummy(s) /\ s # dummy
<1>1. PICK v \in Field : s = Share(v, i) /\ Cong(v, c)
  BY DEF Stands
<1>2. v \in Int /\ i # -1
  BY ThresholdIs, SharingAssumption DEF Parties
<1>3. s.share = v /\ s.x = i
  BY <1>1 DEF Share
<1>4. ~is_dummy(s)
  BY <1>2, <1>3 DEF is_dummy
<1>5. s # dummy
  BY <1>4 DEF is_dummy, dummy, Share
<1>. QED
  BY <1>1, <1>2, <1>3, <1>4, <1>5

LEMMA StandsFor ==
    ASSUME NEW v \in Int, NEW c \in Int, NEW i, Cong(v, c)
    PROVE  Stands(Share(v % Modulus, i), i, c)
<1>1. v % Modulus \in Field /\ Cong(v % Modulus, c)
  BY CongOfMod
<1>. QED
  BY <1>1 DEF Stands

LEMMA Operations ==
    ASSUME NEW i \in Parties, NEW s, NEW t, NEW c \in Int, NEW e \in Int, NEW k \in Int,
           Stands(s, i, c), Stands(t, i, e)
    PROVE  /\ Stands(add(s, t), i, c + e) /\ Stands(sub(s, t), i, c - e)
           /\ Stands(mul(s, t), i, c * e)
           /\ Stands(addc(s, k), i, c + k) /\ Stands(subc(s, k), i, c - k)
           /\ Stands(mulc(s, k), i, c * k)
<1>. DEFINE x == s.share
            y == t.share
<1>1. x \in Int /\ s.x = i /\ Cong(x, c) /\ ~is_dummy(s)
  BY StandsIs
<1>2. y \in Int /\ t.x = i /\ Cong(y, e) /\ ~is_dummy(t)
  BY StandsIs
<1>3. /\ add(s, t) = Share((x + y) % Modulus, i) /\ sub(s, t) = Share((x - y) % Modulus, i)
      /\ mul(s, t) = Share((x * y) % Modulus, i)
      /\ addc(s, k) = Share((x + k) % Modulus, i) /\ subc(s, k) = Share((x - k) % Modulus, i)
      /\ mulc(s, k) = Share((x * k) % Modulus, i)
  BY <1>1, <1>2, Zenon DEF add, sub, mul, addc, subc, mulc, dummyOr
<1>. HIDE DEF x, y
<1>4. Cong(k, k)
  BY CongRefl
<1>5. Cong(x + y, c + e) /\ Cong(x + k, c + k)
  BY <1>1, <1>2, <1>4, CongAdd
<1>6. Cong(x - y, c - e) /\ Cong(x - k, c - k)
  BY <1>1, <1>2, <1>4, CongSub
<1>7. Cong(x * y, c * e) /\ Cong(x * k, c * k)
  BY <1>1, <1>2, <1>4, CongMul
<1>8. /\ x + y \in Int /\ x + k \in Int /\ x - y \in Int /\ x - k \in Int
      /\ c + e \in Int /\ c + k \in Int /\ c - e \in Int /\ c - k \in Int
  BY <1>1, <1>2
<1>9. x * y \in Int /\ x * k \in Int /\ c * e \in Int /\ c * k \in Int
  BY <1>1, <1>2
<1>. QED
  BY <1>3, <1>5, <1>6, <1>7, <1>8, <1>9, StandsFor

LEMMA DealtStands ==
    ASSUME NEW p \in Parties, NEW n \in Nat, n >= 1, NEW polys \in [Group -> [1 .. n -> Int]]
    PROVE  Stands(dealt(p, polys), p, Dealt(polys)[p])
<1>. DEFINE f == [q \in Group |-> P(polys[q], p + 1)]
            shares == [q \in Group |-> share(polys[q])[p]]
<1>1. \A q \in Group : shares[q].share = P(polys[q], p + 1)
  BY DEF share, Share
<1>2. DOMAIN shares = Group
  OBVIOUS
<1>3. dealt(p, polys) = sum_shares(p, shares)
  BY DEF dealt
<1>. HIDE DEF shares
<1>4. [q \in DOMAIN shares |-> shares[q].share] = f
  BY <1>1, <1>2
<1>. HIDE DEF f
<1>5. dealt(p, polys) = Share(SumFunction(f) % Modulus, p)
  BY <1>3, <1>4, Zenon DEF sum_shares
<1>6. Dealt(polys)[p] = SumFunction(f)
  BY DEF Dealt, f
<1>7. Dealt(polys)[p] \in Int
  BY DealtOpens DEF Values
<1>8. Cong(Dealt(polys)[p], Dealt(polys)[p])
  BY <1>7, CongRefl
<1>. QED
  BY <1>5, <1>6, <1>7, <1>8, StandsFor

----------------------------------------------------------------------------
(***************************************************************************)
(* What a group generates.                                                 *)
(***************************************************************************)

\* A triple and a random number, and the values of the parties' shares.
Dealing == [a : Int, b : Int, r : Int, A : Values, B : Values, C : Values, R : Values]

Opened(w) ==
    /\ Opens(w.A, Threshold, w.a) /\ Opens(w.B, Threshold, w.b)
    /\ Opens(w.C, Threshold, w.a * w.b) /\ Opens(w.R, Threshold, w.r)

Holds(t, w, p) ==
    /\ Stands(t.a, p, w.A[p]) /\ Stands(t.b, p, w.B[p])
    /\ Stands(t.c, p, w.C[p]) /\ Stands(t.random, p, w.R[p])

aPolys == [q \in Group |-> drawn[q].a]
bPolys == [q \in Group |-> drawn[q].b]
randomPolys == [q \in Group |-> drawn[q].random]
lowPolys == [q \in Group |-> rand[q].low]
highPolys == [q \in Group |-> rand[q].high]

highShare(p) == sub(r_high(p), mul(aShare(p), bShare(p)))
made(p) == [a |-> aShare(p), b |-> bShare(p),
            c |-> lowProduct(p, open(z_high, highThreshold)), random |-> randomNumber(p)]

FromDraws ==
    /\ all(drawn) /\ all(rand)
    /\ \A p \in Group : z_high[p] = highShare(p)

LEMMA PolysAre ==
    ASSUME GenerationTypeOK, all(drawn), all(rand)
    PROVE  /\ aPolys \in [Group -> [1 .. Threshold -> Int]]
           /\ bPolys \in [Group -> [1 .. Threshold -> Int]]
           /\ randomPolys \in [Group -> [1 .. Threshold -> Int]]
           /\ lowPolys \in [Group -> [1 .. Threshold -> Int]]
           /\ highPolys \in [Group -> [1 .. highThreshold -> Int]]
           /\ \A q \in Group : lowPolys[q][1] = highPolys[q][1]
<1>. DEFINE low == Polynomials(NonZero, Threshold)
            high == Polynomials(NonZero, 2 * Threshold - 1)
<1>1. \A q \in Group : drawn[q] \in Draws /\ rand[q] \in RandDraws
  BY DEF GenerationTypeOK, all
<1>2. /\ Draws \subseteq [a : low, b : low, random : low]
      /\ RandDraws \subseteq {d \in [low : low, high : high] : d.low[1] = d.high[1]}
  BY GroupAssumption
<1>3. \A x \in low : x \in [1 .. Threshold -> Int]
  BY ThresholdIs, PolynomialIs
<1>4. \A x \in high : x \in [1 .. highThreshold -> Int]
  <2>1. high = Polynomials(NonZero, highThreshold) /\ highThreshold >= 1
    BY ThresholdIs
  <2>. HIDE DEF high
  <2>. QED
    BY <2>1, ThresholdIs, PolynomialIs
<1>. HIDE DEF low, high
<1>5. \A q \in Group : drawn[q].a \in low /\ drawn[q].b \in low /\ drawn[q].random \in low
  BY <1>1, <1>2
<1>6. \A q \in Group : rand[q].low \in low /\ rand[q].high \in high /\ rand[q].low[1] = rand[q].high[1]
  BY <1>1, <1>2
<1>. QED
  BY <1>3, <1>4, <1>5, <1>6 DEF aPolys, bPolys, randomPolys, lowPolys, highPolys

LEMMA HighStands ==
    ASSUME GenerationTypeOK, all(drawn), all(rand), NEW p \in Group
    PROVE  Stands(highShare(p), p, Dealt(highPolys)[p] - Dealt(aPolys)[p] * Dealt(bPolys)[p])
<1>. DEFINE A == Dealt(aPolys)
            B == Dealt(bPolys)
            R == Dealt(highPolys)
<1>0. p \in Parties /\ Threshold \in Nat /\ Threshold >= 1
      /\ highThreshold \in Nat /\ highThreshold >= 1
  BY GroupIs, ThresholdIs
<1>1. /\ aPolys \in [Group -> [1 .. Threshold -> Int]] /\ bPolys \in [Group -> [1 .. Threshold -> Int]]
      /\ highPolys \in [Group -> [1 .. highThreshold -> Int]]
  BY PolysAre
<1>2. A \in Values /\ B \in Values /\ R \in Values
  BY <1>0, <1>1, DealtOpens
<1>3. Stands(aShare(p), p, A[p]) /\ Stands(bShare(p), p, B[p]) /\ Stands(r_high(p), p, R[p])
  BY <1>0, <1>1, DealtStands DEF aShare, bShare, r_high, aPolys, bPolys, highPolys
<1>4. A[p] \in Int /\ B[p] \in Int /\ R[p] \in Int
  BY <1>0, <1>2 DEF Values
<1>. HIDE DEF A, B, R
<1>5. Stands(mul(aShare(p), bShare(p)), p, A[p] * B[p])
  BY <1>0, <1>3, <1>4, Operations
<1>6. A[p] * B[p] \in Int
  BY <1>4
<1>7. Stands(highShare(p), p, R[p] - A[p] * B[p])
  BY <1>0, <1>3, <1>4, <1>5, <1>6, Operations DEF highShare
<1>. QED
  BY <1>7 DEF A, B, R

\* The shares of the third round open to the hidden product.
LEMMA HighOpens ==
    ASSUME GenerationTypeOK, FromDraws
    PROVE  /\ Secret(highPolys) \in Int /\ Secret(aPolys) \in Int /\ Secret(bPolys) \in Int
           /\ \A p \in Group : Stands(z_high[p], p, Dealt(highPolys)[p] - Dealt(aPolys)[p] * Dealt(bPolys)[p])
           /\ open(z_high, highThreshold)
                = (Secret(highPolys) - Secret(aPolys) * Secret(bPolys)) % Modulus
<1>. DEFINE A == Dealt(aPolys)
            B == Dealt(bPolys)
            R == Dealt(highPolys)
            a == Secret(aPolys)
            b == Secret(bPolys)
            r == Secret(highPolys)
            AB == [i \in Parties |-> B[i] * A[i]]
            Z == [i \in Parties |-> R[i] - A[i] * B[i]]
<1>1. /\ aPolys \in [Group -> [1 .. Threshold -> Int]] /\ bPolys \in [Group -> [1 .. Threshold -> Int]]
      /\ highPolys \in [Group -> [1 .. highThreshold -> Int]]
  BY PolysAre DEF FromDraws
<1>2. Threshold \in Nat /\ Threshold >= 1 /\ highThreshold \in Nat /\ highThreshold >= 1
      /\ Threshold + (Threshold - 1) = highThreshold
  BY ThresholdIs
<1>3. /\ A \in Values /\ a \in Int /\ Opens(A, Threshold, a)
      /\ B \in Values /\ b \in Int
      /\ R \in Values /\ r \in Int /\ Opens(R, highThreshold, r)
  BY <1>1, <1>2, DealtOpens
<1>4. Opens(AB, highThreshold, b * a)
  BY <1>1, <1>2, <1>3, DealtTimes
<1>5. \A p \in Group : Stands(z_high[p], p, R[p] - A[p] * B[p])
  BY HighStands DEF FromDraws
<1>. HIDE DEF A, B, R, a, b, r
<1>6. Z \in Values
  <2>1. ASSUME NEW i \in Parties PROVE R[i] - A[i] * B[i] \in Int
    <3>1. A[i] \in Int /\ B[i] \in Int /\ R[i] \in Int
      BY <1>3 DEF Values
    <3>. QED
      BY <3>1
  <2>. QED
    BY <2>1 DEF Values
<1>7. \A i \in Parties : Cong(Z[i], 1 * R[i] + (-1) * AB[i])
  <2>1. ASSUME NEW i \in Parties PROVE Cong(Z[i], 1 * R[i] + (-1) * AB[i])
    <3>1. A[i] \in Int /\ B[i] \in Int /\ R[i] \in Int
      BY <1>3 DEF Values
    <3>2. Z[i] = R[i] - A[i] * B[i] /\ AB[i] = B[i] * A[i]
      OBVIOUS
    <3>. HIDE DEF Z, AB
    <3>3. 1 * R[i] + (-1) * (B[i] * A[i]) = R[i] - A[i] * B[i] /\ R[i] - A[i] * B[i] \in Int
      BY <3>1
    <3>. QED
      BY <3>2, <3>3, CongRefl
  <2>. QED
    BY <2>1
<1>8. Opens(Z, highThreshold, r - a * b)
  <2>. HIDE DEF Z, AB
  <2>1. \A c, e \in Int : (\A i \in Parties : Cong(Z[i], c * R[i] + e * AB[i])) =>
            Opens(Z, highThreshold, c * r + e * (b * a))
    BY <1>3, <1>4, <1>6, OpensLinear
  <2>2. Opens(Z, highThreshold, 1 * r + (-1) * (b * a))
    BY <1>7, <2>1
  <2>3. 1 * r + (-1) * (b * a) = r - a * b
    BY <1>3
  <2>. QED
    BY <2>2, <2>3
<1>9. \A p \in Group : ShareOf(z_high[p], p, Z)
  <2>1. \A p \in Group : Z[p] = R[p] - A[p] * B[p]
    BY GroupIs
  <2>. HIDE DEF Z
  <2>. QED
    BY <1>5, <2>1 DEF ShareOf
<1>10. RealOf(z_high) = Group /\ DOMAIN z_high = Group
  <2>1. \A p \in Group : z_high[p] # dummy
    BY <1>5, StandsIs, GroupIs
  <2>. QED
    BY <2>1 DEF RealOf, GenerationTypeOK
<1>. HIDE DEF Z
<1>11. open(z_high, highThreshold) = (r - a * b) % Modulus
  <2>1. Group \in SUBSET Parties /\ Cardinality(Group) >= highThreshold
    BY GroupIs
  <2>. QED
    BY <1>2, <1>8, <1>9, <1>10, <2>1, OpenIs
<1>. QED
  BY <1>3, <1>5, <1>11 DEF A, B, R, a, b, r

\* The batches that the members of a group add are shares of one triple and
\* one random number.
LEMMA MadeOfOne ==
    ASSUME GenerationTypeOK, FromDraws
    PROVE  \E w \in Dealing : Opened(w) /\ \A p \in Group : Holds(made(p), w, p)
<1>. DEFINE a == Secret(aPolys)
            b == Secret(bPolys)
            r == Secret(highPolys)
            z == open(z_high, highThreshold)
            L == Dealt(lowPolys)
            C == [i \in Parties |-> L[i] - z]
            w == [a |-> a, b |-> b, r |-> Secret(randomPolys), A |-> Dealt(aPolys),
                  B |-> Dealt(bPolys), C |-> C, R |-> Dealt(randomPolys)]
<1>1. /\ aPolys \in [Group -> [1 .. Threshold -> Int]] /\ bPolys \in [Group -> [1 .. Threshold -> Int]]
      /\ randomPolys \in [Group -> [1 .. Threshold -> Int]]
      /\ lowPolys \in [Group -> [1 .. Threshold -> Int]]
      /\ \A q \in Group : lowPolys[q][1] = highPolys[q][1]
  BY PolysAre DEF FromDraws
<1>2. Threshold \in Nat /\ Threshold >= 1
  BY ThresholdIs
<1>3. /\ Dealt(aPolys) \in Values /\ a \in Int /\ Opens(Dealt(aPolys), Threshold, a)
      /\ Dealt(bPolys) \in Values /\ b \in Int /\ Opens(Dealt(bPolys), Threshold, b)
      /\ Dealt(randomPolys) \in Values /\ Secret(randomPolys) \in Int
      /\ Opens(Dealt(randomPolys), Threshold, Secret(randomPolys))
      /\ L \in Values /\ Opens(L, Threshold, Secret(lowPolys))
  BY <1>1, <1>2, DealtOpens
<1>4. Secret(lowPolys) = r
  BY <1>1 DEF Secret
<1>5. r \in Int /\ z = (r - a * b) % Modulus
  BY HighOpens
<1>6. z \in Int /\ Cong(z, r - a * b)
  <2>. HIDE DEF r, a, b, z
  <2>1. r - a * b \in Int
    BY <1>3, <1>5
  <2>. QED
    BY <1>5, <2>1, CongMod
<1>7. \A p \in Group : Holds(made(p), w, p)
  <2>1. ASSUME NEW p \in Group PROVE Holds(made(p), w, p)
    <3>0. p \in Parties
      BY GroupIs
    <3>1. /\ Stands(aShare(p), p, Dealt(aPolys)[p]) /\ Stands(bShare(p), p, Dealt(bPolys)[p])
          /\ Stands(randomNumber(p), p, Dealt(randomPolys)[p])
          /\ Stands(r_low(p), p, L[p])
      BY <1>1, <1>2, <3>0, DealtStands
         DEF aShare, bShare, randomNumber, r_low, aPolys, bPolys, randomPolys, lowPolys
    <3>2. L[p] \in Int
      BY <1>3, <3>0 DEF Values
    <3>3. Stands(lowProduct(p, z), p, L[p] - z)
      <4>. HIDE DEF L, z
      <4>. QED
        BY <1>6, <3>0, <3>1, <3>2, Operations DEF lowProduct
    <3>4. made(p).a = aShare(p) /\ made(p).b = bShare(p) /\ made(p).c = lowProduct(p, z)
          /\ made(p).random = randomNumber(p)
      BY DEF made
    <3>5. w.A[p] = Dealt(aPolys)[p] /\ w.B[p] = Dealt(bPolys)[p] /\ w.C[p] = L[p] - z
          /\ w.R[p] = Dealt(randomPolys)[p]
      BY <3>0
    <3>. HIDE DEF w, L, z
    <3>. QED
      BY <3>1, <3>3, <3>4, <3>5 DEF Holds
  <2>. QED
    BY <2>1
<1>8. C \in Values /\ \A i \in Parties : Cong(C[i], 1 * L[i] + (0 - z) * Ones[i])
  <2>1. ASSUME NEW i \in Parties
        PROVE  L[i] - z \in Int /\ C[i] = L[i] - z /\ Cong(C[i], 1 * L[i] + (0 - z) * Ones[i])
    <3>1. L[i] \in Int /\ Ones[i] = 1 /\ C[i] = L[i] - z
      BY <1>3 DEF Values, Ones
    <3>. HIDE DEF L, C, z
    <3>2. 1 * L[i] + (0 - z) * 1 = L[i] - z /\ L[i] - z \in Int
      BY <1>6, <3>1
    <3>. QED
      BY <3>1, <3>2, CongRefl
  <2>. QED
    BY <2>1 DEF Values
<1>9. Opens(C, Threshold, a * b)
  <2>. HIDE DEF L, C, z, a, b, r
  <2>0. Opens(L, Threshold, r)
    BY <1>3, <1>4
  <2>1. Opens(Ones, Threshold, 1)
    <3>1. \A i \in Parties : Cong(Ones[i], Ones[i])
      BY CongRefl DEF Ones
    <3>2. Cong(1, 1) /\ Ones \in Values
      BY CongRefl DEF Ones, Values
    <3>. QED
      BY <1>2, <3>1, <3>2, OnesOpen, OpensCong
  <2>2. \A c, e \in Int : (\A i \in Parties : Cong(C[i], c * L[i] + e * Ones[i])) =>
            Opens(C, Threshold, c * r + e * 1)
    BY <1>8, <2>0, <2>1, OpensLinear
  <2>3. Opens(C, Threshold, 1 * r + (0 - z) * 1)
    BY <1>6, <1>8, <2>2
  <2>4. 1 * r + (0 - z) * 1 = r - z /\ r - (r - a * b) = a * b /\ a * b \in Int /\ r - a * b \in Int
    BY <1>3, <1>5, <1>6
  <2>5. Cong(r - z, r - (r - a * b))
    BY <1>5, <1>6, <2>4, CongRefl, CongSub
  <2>6. \A i \in Parties : Cong(C[i], C[i])
    BY <1>8, CongRefl DEF Values
  <2>7. Opens(C, Threshold, r - z) /\ Cong(r - z, a * b)
    BY <2>3, <2>4, <2>5
  <2>8. Threshold >= Threshold /\ C \in Values
    BY <1>2, <1>8
  <2>9. \A e \in Nat, x \in Int : e >= Threshold /\ Cong(r - z, x) => Opens(C, e, x)
    BY <1>2, <2>6, <2>7, <2>8, OpensCong
  <2>. QED
    BY <1>2, <2>4, <2>7, <2>8, <2>9
<1>. HIDE DEF C, a, b
<1>10. w \in Dealing
  BY <1>3, <1>8 DEF Dealing
<1>11. Opened(w)
  BY <1>3, <1>9 DEF Opened
<1>. QED
  BY <1>7, <1>10, <1>11

\* The members that have added their batch hold shares of one triple.
Common == \E w \in Dealing : Opened(w) /\ \A p \in added : Holds(batch[p], w, p)

LEMMA OpenAll ==
    ASSUME NEW Q \in SUBSET Parties, NEW d \in Nat, Cardinality(Q) >= d, NEW f, DOMAIN f = Q,
           NEW F, NEW v, Opens(F, d, v), \A i \in Q : Stands(f[i], i, F[i])
    PROVE  v % Modulus \in Field /\ open(f, d) = v % Modulus
<1>1. \A i \in Q : f[i] # dummy /\ ShareOf(f[i], i, F)
  BY StandsIs DEF ShareOf
<1>2. RealOf(f) = Q
  BY <1>1 DEF RealOf
<1>. QED
  BY <1>1, <1>2, OpenIs

LEMMA CommonMultiplies ==
    ASSUME Common
    PROVE  TripleMultiplies
<1>1. PICK w \in Dealing : Opened(w) /\ \A p \in added : Holds(batch[p], w, p)
  BY DEF Common
<1>. DEFINE a == w.a
            b == w.b
<1>2. /\ Opens(w.A, Threshold, a) /\ Opens(w.B, Threshold, b)
      /\ Opens(w.C, Threshold, a * b) /\ Opens(w.R, Threshold, w.r)
      /\ a \in Int /\ b \in Int /\ w.r \in Int
  BY <1>1 DEF Opened, Dealing
<1>3. ASSUME NEW Q \in SUBSET added, Cardinality(Q) >= Threshold
      PROVE  /\ opened(Q, LAMBDA t : t.a) = a % Modulus
             /\ opened(Q, LAMBDA t : t.b) = b % Modulus
             /\ opened(Q, LAMBDA t : t.c) = (a * b) % Modulus
             /\ opened(Q, LAMBDA t : t.random) = w.r % Modulus
  <2>1. Q \in SUBSET Parties /\ Threshold \in Nat
    BY GroupIs, ThresholdIs DEF added
  <2>2. \A p \in Q : /\ Stands(batch[p].a, p, w.A[p]) /\ Stands(batch[p].b, p, w.B[p])
                     /\ Stands(batch[p].c, p, w.C[p]) /\ Stands(batch[p].random, p, w.R[p])
    BY <1>1 DEF Holds
  <2>. DEFINE fa == [p \in Q |-> batch[p].a]
              fb == [p \in Q |-> batch[p].b]
              fc == [p \in Q |-> batch[p].c]
              fr == [p \in Q |-> batch[p].random]
  <2>3. /\ DOMAIN fa = Q /\ \A p \in Q : Stands(fa[p], p, w.A[p])
        /\ DOMAIN fb = Q /\ \A p \in Q : Stands(fb[p], p, w.B[p])
        /\ DOMAIN fc = Q /\ \A p \in Q : Stands(fc[p], p, w.C[p])
        /\ DOMAIN fr = Q /\ \A p \in Q : Stands(fr[p], p, w.R[p])
    BY <2>2
  <2>4. /\ opened(Q, LAMBDA t : t.a) = open(fa, Threshold)
        /\ opened(Q, LAMBDA t : t.b) = open(fb, Threshold)
        /\ opened(Q, LAMBDA t : t.c) = open(fc, Threshold)
        /\ opened(Q, LAMBDA t : t.random) = open(fr, Threshold)
    BY Zenon DEF opened
  <2>. HIDE DEF fa, fb, fc, fr, a, b
  <2>5. open(fa, Threshold) = a % Modulus
    BY <1>2, <1>3, <2>1, <2>3, OpenAll
  <2>6. open(fb, Threshold) = b % Modulus
    BY <1>2, <1>3, <2>1, <2>3, OpenAll
  <2>7. open(fc, Threshold) = (a * b) % Modulus
    BY <1>2, <1>3, <2>1, <2>3, OpenAll
  <2>8. open(fr, Threshold) = w.r % Modulus
    BY <1>2, <1>3, <2>1, <2>3, OpenAll
  <2>. QED
    BY <2>4, <2>5, <2>6, <2>7, <2>8, Zenon
<1>4. (a * b) % Modulus = ((a % Modulus) * (b % Modulus)) % Modulus
  <2>. HIDE DEF a, b
  <2>. DEFINE x == a % Modulus
              y == b % Modulus
  <2>1. x \in Int /\ y \in Int /\ Cong(x, a) /\ Cong(y, b)
    BY <1>2, CongMod
  <2>. HIDE DEF x, y
  <2>2. Cong(x * y, a * b)
    BY <1>2, <2>1, CongMul
  <2>3. x * y \in Int /\ a * b \in Int
    BY <1>2, <2>1
  <2>4. (x * y) % Modulus = (a * b) % Modulus
    BY <2>2, <2>3, ModOfCong
  <2>. QED
    BY <2>4 DEF x, y
<1>5. \A Q \in SUBSET added : \A R \in SUBSET Q : R \in SUBSET added
  OBVIOUS
<1>. HIDE DEF a, b
<1>. QED
  BY <1>3, <1>4, <1>5, Zenon DEF TripleMultiplies

----------------------------------------------------------------------------
(***************************************************************************)
(* The invariant of the generation.                                        *)
(***************************************************************************)

\* What a message of a round was made from is there, and stays as it was.
InOrder ==
    \A p \in Group :
        /\ round[p] = "idle" => drawn[p] = None
        /\ round[p] \in {"idle", "shares"} => rand[p] = None
        /\ rand[p] # None => all(drawn)
        /\ z_high[p] # None => all(drawn) /\ all(rand) /\ z_high[p] = highShare(p)

BatchesRight ==
    \/ added = {}
    \/ FromDraws /\ all(z_high) /\ \A p \in added : batch[p] = made(p)
    \/ Common /\ \A p \in Group : round[p] = "added"

GenInv == GenerationTypeOK /\ InOrder /\ BatchesRight

LEMMA GroupNotEmpty == Group # {}
  BY GroupIs

LEMMA BatchesCommon ==
    ASSUME GenInv PROVE Common
<1>1. CASE added = {}
  <2>. DEFINE w == [a |-> 1, b |-> 1, r |-> 1, A |-> Ones, B |-> Ones, C |-> Ones, R |-> Ones]
  <2>1. Opens(Ones, Threshold, 1) /\ Ones \in Values
    <3>1. \A i \in Parties : Cong(Ones[i], Ones[i])
      BY CongRefl DEF Ones
    <3>2. Cong(1, 1) /\ Ones \in Values
      BY CongRefl DEF Ones, Values
    <3>. QED
      BY <3>1, <3>2, OnesOpen, OpensCong, ThresholdIs
  <2>2. w \in Dealing /\ Opened(w)
    <3>1. 1 * 1 = 1
      OBVIOUS
    <3>. QED
      BY <2>1, <3>1 DEF Dealing, Opened
  <2>. HIDE DEF w
  <2>. QED
    BY <1>1, <2>2 DEF Common
<1>2. CASE FromDraws /\ all(z_high) /\ \A p \in added : batch[p] = made(p)
  <2>1. PICK w \in Dealing : Opened(w) /\ \A p \in Group : Holds(made(p), w, p)
    BY <1>2, MadeOfOne DEF GenInv
  <2>2. \A p \in added : p \in Group /\ batch[p] = made(p)
    BY <1>2 DEF added
  <2>3. \A p \in added : Holds(batch[p], w, p)
    BY <2>1, <2>2
  <2>. QED
    BY <2>1, <2>3 DEF Common
<1>. QED
  BY <1>1, <1>2 DEF GenInv, BatchesRight

\* While a member is at work, what has been added is from the draws.
LEMMA Underway ==
    ASSUME GenInv, NEW p \in Group, round[p] # "added"
    PROVE  \/ added = {}
           \/ FromDraws /\ all(z_high) /\ \A q \in added : batch[q] = made(q)
  BY DEF GenInv, BatchesRight

LEMMA SameDraws ==
    ASSUME UNCHANGED <<drawn, rand>>
    PROVE  /\ (\A p \in Group : highShare(p)' = highShare(p))
           /\ all(drawn)' = all(drawn) /\ all(rand)' = all(rand)
  BY DEF highShare, aShare, bShare, r_high, all

LEMMA SameMade ==
    ASSUME UNCHANGED <<drawn, rand, z_high>>
    PROVE  /\ FromDraws' = FromDraws /\ all(z_high)' = all(z_high)
           /\ \A p \in Group : made(p)' = made(p)
<1>1. (\A p \in Group : highShare(p)' = highShare(p))
      /\ all(drawn)' = all(drawn) /\ all(rand)' = all(rand)
  BY SameDraws
<1>2. FromDraws' = FromDraws /\ all(z_high)' = all(z_high)
  BY <1>1 DEF FromDraws, all
<1>3. ASSUME NEW p \in Group PROVE made(p)' = made(p)
  <2>1. aShare(p)' = aShare(p) /\ bShare(p)' = bShare(p) /\ randomNumber(p)' = randomNumber(p)
        /\ r_low(p)' = r_low(p)
    BY DEF aShare, bShare, randomNumber, r_low
  <2>2. open(z_high, highThreshold)' = open(z_high, highThreshold)
    OBVIOUS
  <2>. QED
    BY <2>1, <2>2 DEF made, lowProduct
<1>. QED
  BY <1>2, <1>3

LEMMA GenInit == GenerationInit => GenInv
<1>. SUFFICES ASSUME GenerationInit PROVE GenInv
  OBVIOUS
<1>1. GenerationTypeOK /\ InOrder
  BY DEF GenerationInit, GenerationTypeOK, InOrder
<1>2. added = {}
  BY DEF GenerationInit, added
<1>. QED
  BY <1>1, <1>2 DEF GenInv, BatchesRight

LEMMA PreproductStep ==
    ASSUME GenInv, NEW p \in Group, PreproductOp(p)
    PROVE  GenInv'
<1>0. GenerationTypeOK /\ InOrder
  BY DEF GenInv
<1>1. drawn[p] = None /\ round[p] = "idle" /\ round[p] # "added" /\ ~all(drawn)
  BY <1>0 DEF PreproductOp, InOrder, all
<1>2. \A q \in Group : rand[q] = None /\ z_high[q] = None
  BY <1>0, <1>1 DEF InOrder
<1>3. added = {} /\ added' = {}
  <2>1. ~FromDraws
    BY <1>1 DEF FromDraws
  <2>2. added = {}
    BY <1>1, <2>1, Underway
  <2>. QED
    BY <2>2 DEF PreproductOp, added
<1>4. GenerationTypeOK'
  BY <1>0 DEF GenerationTypeOK, PreproductOp
<1>5. InOrder'
  <2>1. \A q \in Group : rand'[q] = None /\ z_high'[q] = None
    BY <1>2 DEF PreproductOp
  <2>2. \A q \in Group : round'[q] = "idle" => drawn'[q] = None
    BY <1>0 DEF PreproductOp, InOrder, GenerationTypeOK
  <2>. QED
    BY <2>1, <2>2 DEF InOrder
<1>. QED
  BY <1>3, <1>4, <1>5 DEF GenInv, BatchesRight

LEMMA GatherSharesStep ==
    ASSUME GenInv, NEW p \in Group, GatherShares(p)
    PROVE  GenInv'
<1>0. GenerationTypeOK /\ InOrder
  BY DEF GenInv
<1>1. rand[p] = None /\ round[p] = "shares" /\ round[p] # "added" /\ ~all(rand) /\ all(drawn)
  BY <1>0 DEF GatherShares, InOrder, all
<1>2. \A q \in Group : z_high[q] = None
  BY <1>0, <1>1 DEF InOrder
<1>3. added = {} /\ added' = {}
  <2>1. ~FromDraws
    BY <1>1 DEF FromDraws
  <2>2. added = {}
    BY <1>1, <2>1, Underway
  <2>. QED
    BY <2>2 DEF GatherShares, added
<1>4. GenerationTypeOK'
  BY <1>0 DEF GenerationTypeOK, GatherShares
<1>5. InOrder'
  <2>1. \A q \in Group : z_high'[q] = None
    BY <1>2 DEF GatherShares
  <2>2. \A q \in Group : /\ round'[q] = "idle" => drawn'[q] = None
                         /\ round'[q] \in {"idle", "shares"} => rand'[q] = None
    BY <1>0 DEF GatherShares, InOrder, GenerationTypeOK
  <2>3. all(drawn)'
    BY <1>1 DEF GatherShares, all
  <2>. QED
    BY <2>1, <2>2, <2>3 DEF InOrder
<1>. QED
  BY <1>3, <1>4, <1>5 DEF GenInv, BatchesRight

LEMMA GatherRandStep ==
    ASSUME GenInv, NEW p \in Group, GatherRand(p)
    PROVE  GenInv'
<1>0. GenerationTypeOK /\ InOrder
  BY DEF GenInv
<1>1. round[p] = "rand" /\ round[p] # "added" /\ all(rand) /\ all(drawn)
  BY <1>0 DEF GatherRand, InOrder, all
<1>2. /\ (\A q \in Group : highShare(q)' = highShare(q))
      /\ all(drawn)' /\ all(rand)'
      /\ z_high' = [z_high EXCEPT ![p] = highShare(p)]
      /\ round' = [round EXCEPT ![p] = "open"]
      /\ UNCHANGED <<drawn, rand, batch>>
  <2>1. UNCHANGED <<drawn, rand, batch>> /\ z_high' = [z_high EXCEPT ![p] = highShare(p)]
        /\ round' = [round EXCEPT ![p] = "open"]
    BY DEF GatherRand, highShare
  <2>. QED
    BY <1>1, <2>1, SameDraws
<1>3. highShare(p) \in {Share(v, q) : v \in Field, q \in Group}
  <2>1. Stands(highShare(p), p, Dealt(highPolys)[p] - Dealt(aPolys)[p] * Dealt(bPolys)[p])
    BY <1>0, <1>1, HighStands
  <2>. QED
    BY <2>1 DEF Stands
<1>4. GenerationTypeOK'
  BY <1>0, <1>2, <1>3 DEF GenerationTypeOK
<1>5. InOrder'
  <2>1. \A q \in Group : z_high'[q] # None => z_high'[q] = highShare(q)'
    BY <1>0, <1>2 DEF InOrder, GenerationTypeOK
  <2>2. \A q \in Group : /\ round'[q] = "idle" => drawn'[q] = None
                         /\ round'[q] \in {"idle", "shares"} => rand'[q] = None
    BY <1>0, <1>2 DEF InOrder, GenerationTypeOK
  <2>. QED
    BY <1>2, <2>1, <2>2 DEF InOrder
<1>6. BatchesRight'
  <2>1. CASE added = {}
    BY <1>2, <2>1 DEF BatchesRight, added
  <2>2. CASE FromDraws /\ all(z_high) /\ \A q \in added : batch[q] = made(q)
    <3>1. z_high' = z_high
      BY <1>0, <1>2, <2>2 DEF FromDraws, GenerationTypeOK
    <3>2. FromDraws' = FromDraws /\ all(z_high)' = all(z_high)
          /\ \A q \in Group : made(q)' = made(q)
      BY <1>2, <3>1, SameMade
    <3>3. added' = added /\ added \subseteq Group
      BY <1>2 DEF added
    <3>4. \A q \in added' : batch'[q] = made(q)'
      BY <1>2, <2>2, <3>2, <3>3
    <3>. QED
      BY <2>2, <3>2, <3>4 DEF BatchesRight
  <2>. QED
    BY <1>1, <2>1, <2>2, Underway
<1>. QED
  BY <1>4, <1>5, <1>6 DEF GenInv

LEMMA GatherOpenStep ==
    ASSUME GenInv, NEW p \in Group, GatherOpen(p)
    PROVE  GenInv'
<1>0. GenerationTypeOK /\ InOrder
  BY DEF GenInv
<1>1. /\ round[p] = "open" /\ round[p] # "added" /\ all(z_high)
      /\ UNCHANGED <<drawn, rand, z_high>>
      /\ \/ /\ round' = [round EXCEPT ![p] = "zero"] /\ UNCHANGED batch
         \/ /\ round' = [round EXCEPT ![p] = "added"]
            /\ batch' = [batch EXCEPT ![p] = made(p)]
  BY Zenon DEF GatherOpen, made
<1>2. FromDraws
  BY <1>0, <1>1, GroupNotEmpty DEF InOrder, FromDraws, all
<1>3. FromDraws' /\ all(z_high)' /\ \A q \in Group : made(q)' = made(q)
  BY <1>1, <1>2, SameMade
<1>4. (\A q \in Group : highShare(q)' = highShare(q))
      /\ all(drawn)' = all(drawn) /\ all(rand)' = all(rand)
  BY <1>1, SameDraws
<1>5. GenerationTypeOK'
  BY <1>0, <1>1 DEF GenerationTypeOK
<1>6. InOrder'
  <2>1. \A q \in Group : /\ round'[q] = "idle" => round[q] = "idle"
                         /\ round'[q] \in {"idle", "shares"} => round[q] \in {"idle", "shares"}
    BY <1>0, <1>1 DEF GenerationTypeOK
  <2>. QED
    BY <1>0, <1>1, <1>4, <2>1 DEF InOrder
<1>7. \A q \in added : batch[q] = made(q)
  BY <1>1, Underway
<1>8. \A q \in added' : batch'[q] = made(q)'
  <2>1. ASSUME NEW q \in added' PROVE q \in Group /\ ((q = p /\ batch'[q] = made(p)) \/ (q \in added /\ batch'[q] = batch[q]))
    <3>1. q \in Group /\ batch'[q] # None /\ DOMAIN batch = Group
      BY <1>0 DEF added, GenerationTypeOK
    <3>2. CASE UNCHANGED batch
      BY <3>1, <3>2 DEF added
    <3>3. CASE batch' = [batch EXCEPT ![p] = made(p)] /\ q = p
      BY <3>1, <3>3
    <3>4. CASE batch' = [batch EXCEPT ![p] = made(p)] /\ q # p
      BY <3>1, <3>4 DEF added
    <3>. QED
      BY <1>1, <3>2, <3>3, <3>4
  <2>. QED
    BY <1>3, <1>7, <2>1
<1>. QED
  BY <1>3, <1>5, <1>6, <1>8 DEF GenInv, BatchesRight

LEMMA TimeOutStep ==
    ASSUME GenInv, NEW p \in Group, TimeOut(p)
    PROVE  GenInv'
<1>0. GenerationTypeOK /\ InOrder
  BY DEF GenInv
<1>1. /\ round[p] # "added" /\ round' = [round EXCEPT ![p] = "failed"]
      /\ UNCHANGED <<drawn, rand, z_high, batch>>
  BY DEF TimeOut
<1>2. (\A q \in Group : highShare(q)' = highShare(q))
      /\ all(drawn)' = all(drawn) /\ all(rand)' = all(rand)
  BY <1>1, SameDraws
<1>3. FromDraws' = FromDraws /\ all(z_high)' = all(z_high)
      /\ \A q \in Group : made(q)' = made(q)
  BY <1>1, SameMade
<1>4. GenerationTypeOK'
  BY <1>0, <1>1 DEF GenerationTypeOK
<1>5. InOrder'
  <2>1. \A q \in Group : /\ round'[q] = "idle" => round[q] = "idle"
                         /\ round'[q] \in {"idle", "shares"} => round[q] \in {"idle", "shares"}
    BY <1>0, <1>1 DEF GenerationTypeOK
  <2>. QED
    BY <1>0, <1>1, <1>2, <2>1 DEF InOrder
<1>6. added' = added /\ added \subseteq Group
  BY <1>1 DEF added
<1>7. BatchesRight'
  <2>1. CASE added = {}
    BY <1>6, <2>1 DEF BatchesRight
  <2>2. CASE FromDraws /\ all(z_high) /\ \A q \in added : batch[q] = made(q)
    BY <1>1, <1>3, <1>6, <2>2 DEF BatchesRight
  <2>. QED
    BY <1>1, <2>1, <2>2, Underway
<1>. QED
  BY <1>4, <1>5, <1>7 DEF GenInv

LEMMA GenSame ==
    ASSUME GenInv, UNCHANGED generationVars
    PROVE  GenInv'
<1>0. UNCHANGED <<round, drawn, rand, z_high, batch>>
  BY DEF generationVars
<1>1. (\A q \in Group : highShare(q)' = highShare(q))
      /\ all(drawn)' = all(drawn) /\ all(rand)' = all(rand)
  BY <1>0, SameDraws
<1>2. FromDraws' = FromDraws /\ all(z_high)' = all(z_high)
      /\ \A q \in Group : made(q)' = made(q)
  BY <1>0, SameMade
<1>3. GenerationTypeOK'
  BY <1>0 DEF GenInv, GenerationTypeOK
<1>4. InOrder'
  BY <1>0, <1>1 DEF GenInv, InOrder
<1>5. added' = added /\ added \subseteq Group
  BY <1>0 DEF added
<1>6. Common' = Common
  BY <1>0, <1>5 DEF Common
<1>7. BatchesRight'
  BY <1>0, <1>2, <1>5, <1>6 DEF GenInv, BatchesRight
<1>. QED
  BY <1>3, <1>4, <1>7 DEF GenInv

LEMMA GenNext ==
    ASSUME GenInv, GenerationNext
    PROVE  GenInv'
<1>1. PICK p \in Group : \/ PreproductOp(p) \/ GatherShares(p) \/ GatherRand(p)
                         \/ GatherOpen(p) \/ TimeOut(p)
  BY DEF GenerationNext
<1>. QED
  BY <1>1, PreproductStep, GatherSharesStep, GatherRandStep, GatherOpenStep, TimeOutStep

----------------------------------------------------------------------------
(***************************************************************************)
(* The comparison.                                                         *)
(***************************************************************************)

\* The difference compared, and what the participants open of it.
difference == stored - polled
epsilon(w, d) == (d - w.a) % Modulus
delta(w) == (w.r - w.b) % Modulus

\* The value that party p's share of the difference times the random number
\* stands for.
Answer(w, d, p) ==
    ((w.C[p] + w.B[p] * epsilon(w, d)) + w.A[p] * delta(w)) + epsilon(w, d) * delta(w)

Late == \E p \in Worker : phase[p] = "late"

Asked(w) ==
    /\ stored \in Identity /\ polled \in Identity /\ holders \subseteq Worker
    /\ Opened(w) /\ ~Cong(w.r, 0)
    /\ \A p \in Worker :
         /\ Holds(pad[p], w, p)
         /\ phase[p] # "idle"
         /\ \/ answers[p] = None /\ phase[p] \notin {"answered", "late"}
            \/ answers[p] = dummy /\ (holders # Worker \/ phase[p] = "late")
            \/ Stands(answers[p], p, Answer(w, difference, p))
    /\ result \subseteq {None, (difference * w.r) % Modulus}
    /\ None \in result => holders # Worker \/ Late

Unused ==
    /\ \A p \in Worker : phase[p] = "idle" /\ answers[p] = None
    /\ result = {}

CheckInv == /\ CheckTypeOK /\ DOMAIN answers = Worker
            /\ Unused \/ \E w \in Dealing : Asked(w)

LEMMA PolyOpens ==
    ASSUME NEW n \in Nat, n >= 1, NEW cs \in [1 .. n -> Int]
    PROVE  Opens([i \in Parties |-> P(cs, i + 1)], n, cs[1])
<1>. DEFINE G == [i \in Parties |-> P(cs, i + 1) * Ones[i]]
            H == [i \in Parties |-> P(cs, i + 1)]
<1>1. Opens(G, 1 + (n - 1), cs[1] * 1)
  <2>1. \A F, v : \A d \in Nat : d >= 1 /\ Opens(F, d, v) =>
            Opens([i \in Parties |-> P(cs, i + 1) * F[i]], d + (n - 1), cs[1] * v)
    BY PolynomialOpens
  <2>2. 1 \in Nat /\ 1 >= 1 /\ Opens(Ones, 1, 1)
    BY OnesOpen
  <2>. QED
    BY <2>1, <2>2
<1>2. \A i \in Parties : G[i] = H[i]
  <2>1. ASSUME NEW i \in Parties PROVE G[i] = H[i]
    <3>1. i + 1 \in Int
      BY PartiesFinite
    <3>2. P(cs, i + 1) \in Int /\ Ones[i] = 1
      BY <3>1, PType DEF Ones
    <3>. QED
      BY <3>2
  <2>. QED
    BY <2>1
<1>3. G = H
  BY <1>2
<1>4. 1 + (n - 1) = n /\ cs[1] * 1 = cs[1]
  <2>1. cs[1] \in Int
    OBVIOUS
  <2>. QED
    BY <2>1
<1>. HIDE DEF G, H
<1>5. Opens(H, n, cs[1])
  BY <1>1, <1>3, <1>4
<1>. QED
  BY <1>5 DEF H

\* The shares of a pseudonym.
Pseudonym(s) == [i \in Parties |-> P(<<s>> \o Slope, i + 1)]

LEMMA PseudonymIs ==
    ASSUME NEW s \in Int
    PROVE  /\ Pseudonym(s) \in Values /\ Opens(Pseudonym(s), Threshold, s)
           /\ \A p \in Parties : Stands(share(<<s>> \o Slope)[p], p, Pseudonym(s)[p])
<1>. DEFINE poly == <<s>> \o Slope
<1>1. s \in Int /\ Slope \in [1 .. Threshold - 1 -> NonZero]
  BY CheckAssumption
<1>2. Threshold \in Nat /\ Threshold >= 1
  BY ThresholdIs
<1>3. poly \in [1 .. Threshold -> Int] /\ poly[1] = s
  BY <1>1, <1>2, ConcatIs
<1>. HIDE DEF poly
<1>4. Opens([i \in Parties |-> P(poly, i + 1)], Threshold, poly[1])
  BY <1>2, <1>3, PolyOpens
<1>5. Opens(Pseudonym(s), Threshold, s)
  BY <1>3, <1>4 DEF Pseudonym, poly
<1>6. ASSUME NEW p \in Parties PROVE Stands(share(poly)[p], p, Pseudonym(s)[p])
  <2>1. P(poly, p + 1) \in Field /\ P(poly, p + 1) \in Int
    BY <1>2, <1>3, PartiesFinite, PType
  <2>2. share(poly)[p] = Share(P(poly, p + 1), p) /\ Pseudonym(s)[p] = P(poly, p + 1)
    BY DEF share, Pseudonym, poly
  <2>. QED
    BY <2>1, <2>2, CongRefl DEF Stands
<1>. QED
  BY <1>5, <1>6 DEF Opens, poly

LEMMA OpensMinus ==
    ASSUME NEW F, NEW G, NEW d, NEW v, NEW w, Opens(F, d, v), Opens(G, d, w)
    PROVE  Opens([i \in Parties |-> F[i] - G[i]], d, v - w)
<1>. DEFINE H == [i \in Parties |-> F[i] - G[i]]
<1>1. F \in Values /\ G \in Values /\ v \in Int /\ w \in Int
  BY DEF Opens
<1>2. ASSUME NEW i \in Parties PROVE H[i] \in Int /\ Cong(H[i], 1 * F[i] + (-1) * G[i])
  <2>1. F[i] \in Int /\ G[i] \in Int /\ H[i] = F[i] - G[i]
    BY <1>1 DEF Values
  <2>. HIDE DEF H
  <2>2. 1 * F[i] + (-1) * G[i] = F[i] - G[i] /\ F[i] - G[i] \in Int
    BY <2>1
  <2>. QED
    BY <2>1, <2>2, CongRefl
<1>3. H \in Values
  BY <1>2 DEF Values
<1>. HIDE DEF H
<1>4. \A c, e \in Int : (\A i \in Parties : Cong(H[i], c * F[i] + e * G[i])) =>
          Opens(H, d, c * v + e * w)
  BY <1>3, OpensLinear
<1>5. Opens(H, d, 1 * v + (-1) * w)
  BY <1>2, <1>4
<1>6. 1 * v + (-1) * w = v - w
  BY <1>1
<1>. QED
  BY <1>5, <1>6 DEF H

\* The values that the shares of epsilon and of delta stand for.
Epsilons(w) == [i \in Parties |-> (Pseudonym(stored)[i] - Pseudonym(polled)[i]) - w.A[i]]
Deltas(w) == [i \in Parties |-> w.R[i] - w.B[i]]

LEMMA IdentityIs == Identity \subseteq Int
  BY CheckAssumption, ThresholdIs

LEMMA DealingIs ==
    ASSUME NEW w \in Dealing
    PROVE  /\ w.a \in Int /\ w.b \in Int /\ w.r \in Int
           /\ \A p \in Parties : w.A[p] \in Int /\ w.B[p] \in Int /\ w.C[p] \in Int /\ w.R[p] \in Int
           /\ delta(w) \in Int /\ Cong(delta(w), w.r - w.b)
           /\ \A d \in Int : epsilon(w, d) \in Int /\ Cong(epsilon(w, d), d - w.a)
<1>1. /\ w.a \in Int /\ w.b \in Int /\ w.r \in Int
      /\ \A p \in Parties : w.A[p] \in Int /\ w.B[p] \in Int /\ w.C[p] \in Int /\ w.R[p] \in Int
  BY DEF Dealing, Values
<1>2. w.r - w.b \in Int /\ \A d \in Int : d - w.a \in Int
  BY <1>1
<1>. QED
  BY <1>1, <1>2, CongMod DEF delta, epsilon

LEMMA EpsilonsOpen ==
    ASSUME NEW w \in Dealing, Asked(w)
    PROVE  /\ difference \in Int
           /\ Opens(Epsilons(w), Threshold, difference - w.a)
           /\ Opens(Deltas(w), Threshold, w.r - w.b)
<1>1. stored \in Int /\ polled \in Int
  BY IdentityIs DEF Asked
<1>2. difference \in Int
  BY <1>1 DEF difference
<1>. DEFINE D == [i \in Parties |-> Pseudonym(stored)[i] - Pseudonym(polled)[i]]
<1>3. Opens(Pseudonym(stored), Threshold, stored) /\ Opens(Pseudonym(polled), Threshold, polled)
  BY <1>1, PseudonymIs
<1>4. Opens(D, Threshold, difference)
  BY <1>3, OpensMinus DEF difference
<1>5. /\ Opens(w.A, Threshold, w.a) /\ Opens(w.R, Threshold, w.r) /\ Opens(w.B, Threshold, w.b)
  BY DEF Asked, Opened
<1>6. Opens([i \in Parties |-> D[i] - w.A[i]], Threshold, difference - w.a)
  <2>. HIDE DEF D
  <2>. QED
    BY <1>4, <1>5, OpensMinus
<1>7. [i \in Parties |-> D[i] - w.A[i]] = Epsilons(w)
  BY DEF Epsilons
<1>8. Opens(Deltas(w), Threshold, w.r - w.b)
  BY <1>5, OpensMinus DEF Deltas
<1>. QED
  BY <1>2, <1>6, <1>7, <1>8

LEMMA Apart ==
    ASSUME NEW i \in Parties, NEW s, NEW t, NEW c \in Int, NEW e \in Int,
           Stands(s, i, c), Stands(t, i, e)
    PROVE  Stands(sub(s, t), i, c - e) /\ Stands(add(s, t), i, c + e)
  BY Operations

LEMMA EpsilonShareIs ==
    ASSUME NEW w \in Dealing, Asked(w), NEW q \in Worker
    PROVE  /\ q \in holders => Stands(epsilonShare(q), q, Epsilons(w)[q])
           /\ q \notin holders => epsilonShare(q) = dummy
           /\ Stands(deltaShare(q), q, Deltas(w)[q])
<1>0. q \in Parties /\ stored \in Int /\ polled \in Int
  BY GroupIs, IdentityIs DEF Asked
<1>1. Stands(pad[q].a, q, w.A[q]) /\ Stands(pad[q].b, q, w.B[q]) /\ Stands(pad[q].random, q, w.R[q])
  BY DEF Asked, Holds
<1>2. w.A[q] \in Int /\ w.B[q] \in Int /\ w.R[q] \in Int
  BY <1>0, DealingIs
<1>. DEFINE x == Pseudonym(stored)[q]
            y == Pseudonym(polled)[q]
<1>3. /\ x \in Int /\ y \in Int
      /\ Stands(share(<<stored>> \o Slope)[q], q, x) /\ Stands(share(<<polled>> \o Slope)[q], q, y)
  BY <1>0, PseudonymIs DEF Values
<1>4. Epsilons(w)[q] = (x - y) - w.A[q] /\ Deltas(w)[q] = w.R[q] - w.B[q]
  BY <1>0 DEF Epsilons, Deltas
<1>. HIDE DEF x, y
<1>5. ASSUME q \in holders PROVE Stands(epsilonShare(q), q, Epsilons(w)[q])
  <2>1. pseudonymShare(q) = share(<<stored>> \o Slope)[q]
    BY <1>5 DEF pseudonymShare
  <2>2. Stands(sub(share(<<stored>> \o Slope)[q], share(<<polled>> \o Slope)[q]), q, x - y)
    BY <1>0, <1>3, Apart
  <2>3. Stands(diff(q), q, x - y)
    BY <2>1, <2>2 DEF diff
  <2>4. x - y \in Int
    BY <1>3
  <2>5. Stands(epsilonShare(q), q, (x - y) - w.A[q])
    BY <1>0, <1>1, <1>2, <2>3, <2>4, Apart DEF epsilonShare
  <2>. QED
    BY <1>4, <2>5
<1>6. ASSUME q \notin holders PROVE epsilonShare(q) = dummy
  <2>0. is_dummy(dummy)
    BY DEF is_dummy, dummy, Share
  <2>1. diff(q) = dummy
    BY <1>6, <2>0 DEF diff, sub, dummyOr, pseudonymShare
  <2>2. epsilonShare(q) = dummy
    BY <2>0, <2>1 DEF epsilonShare, sub, dummyOr
  <2>. QED
    BY <2>2
<1>7. Stands(deltaShare(q), q, Deltas(w)[q])
  BY <1>0, <1>1, <1>2, <1>4, Apart DEF deltaShare
<1>. QED
  BY <1>5, <1>6, <1>7

\* The messages of Q give a dummy or a share of the answer.
LEMMA MultipliedIs ==
    ASSUME NEW w \in Dealing, Asked(w), NEW p \in Worker, NEW Q \in SUBSET Worker
    PROVE  \/ /\ multiplied(p, Q) = dummy
              /\ Cardinality(Q) >= Threshold => holders # Worker
           \/ /\ Stands(multiplied(p, Q), p, Answer(w, difference, p))
              /\ Cardinality(Q) >= Threshold
<1>. DEFINE fe == [q \in Q |-> epsilonShare(q)]
            fd == [q \in Q |-> deltaShare(q)]
            e == epsilon(w, difference)
            d == delta(w)
<1>0. /\ Q \in SUBSET Parties /\ p \in Parties /\ Threshold \in Nat /\ IsFiniteSet(Q)
      /\ Cardinality(Q) \in Nat
  BY GroupIs, ThresholdIs, PartiesFinite
<1>1. /\ difference \in Int
      /\ Opens(Epsilons(w), Threshold, difference - w.a) /\ Opens(Deltas(w), Threshold, w.r - w.b)
  BY EpsilonsOpen
<1>2. \A q \in Q : /\ q \in holders => ShareOf(fe[q], q, Epsilons(w))
                   /\ q \notin holders => fe[q] = dummy
                   /\ Stands(fd[q], q, Deltas(w)[q])
  BY EpsilonShareIs DEF ShareOf
<1>3. DOMAIN fe = Q /\ DOMAIN fd = Q
  OBVIOUS
<1>4. multiplied(p, Q) = mul_ed(open(fe, Threshold), open(fd, Threshold), pad[p])
  BY Zenon DEF multiplied
<1>. HIDE DEF fe, fd
<1>5. RealOf(fe) \in SUBSET Q /\ Cardinality(RealOf(fe)) <= Cardinality(Q)
      /\ Cardinality(RealOf(fe)) \in Nat
  <2>1. RealOf(fe) \in SUBSET Q
    BY <1>3 DEF RealOf
  <2>. QED
    BY <1>0, <2>1, FS_Subset, FS_CardinalityType
<1>6. open(fe, Threshold) = IF Cardinality(RealOf(fe)) >= Threshold THEN e ELSE None
  BY <1>0, <1>1, <1>2, <1>3, OpenIs DEF epsilon
<1>7. CASE ~(Cardinality(RealOf(fe)) >= Threshold)
  <2>1. multiplied(p, Q) = dummy
    BY <1>4, <1>6, <1>7 DEF mul_ed, missing
  <2>2. ASSUME holders = Worker PROVE ~(Cardinality(Q) >= Threshold)
    <3>1. \A q \in Q : fe[q] # dummy
      BY <1>0, <1>2, <2>2, StandsIs DEF ShareOf
    <3>2. RealOf(fe) = Q
      BY <1>3, <3>1 DEF RealOf
    <3>. QED
      BY <1>7, <3>2
  <2>. QED
    BY <2>1, <2>2
<1>8. CASE Cardinality(RealOf(fe)) >= Threshold
  <2>1. Cardinality(Q) >= Threshold
    BY <1>0, <1>5, <1>8
  <2>2. open(fd, Threshold) = d
    BY <1>0, <1>1, <1>2, <1>3, <2>1, OpenAll DEF delta
  <2>3. e \in Int /\ d \in Int /\ None \notin Int
    BY <1>1, DealingIs, SharingAssumption
  <2>4. /\ Stands(pad[p].a, p, w.A[p]) /\ Stands(pad[p].b, p, w.B[p]) /\ Stands(pad[p].c, p, w.C[p])
        /\ w.A[p] \in Int /\ w.B[p] \in Int /\ w.C[p] \in Int
    BY <1>0, DealingIs DEF Asked, Holds
  <2>. DEFINE t == pad[p]
              x == mulc(t.b, e)
              y == mulc(t.a, d)
  <2>5. ~missing(e) /\ ~missing(d)
    BY <2>3 DEF missing
  <2>6. multiplied(p, Q) = addc(add(add(t.c, x), y), e * d)
    BY <1>4, <1>6, <1>8, <2>2, <2>5 DEF mul_ed
  <2>. HIDE DEF e, d
  <2>7. Stands(x, p, w.B[p] * e) /\ Stands(y, p, w.A[p] * d)
    BY <1>0, <2>3, <2>4, Operations
  <2>8. w.B[p] * e \in Int /\ w.A[p] * d \in Int /\ e * d \in Int
    BY <2>3, <2>4
  <2>. HIDE DEF x, y, t
  <2>9. Stands(t.c, p, w.C[p]) /\ w.C[p] \in Int
    BY <2>4 DEF t
  <2>. DEFINE be == w.B[p] * e
              ad == w.A[p] * d
              ed == e * d
              c == w.C[p]
  <2>10. be \in Int /\ ad \in Int /\ ed \in Int /\ c \in Int
    BY <2>8, <2>9
  <2>11. Stands(x, p, be) /\ Stands(y, p, ad) /\ Stands(t.c, p, c)
    BY <2>7, <2>9
  <2>12. multiplied(p, Q) = addc(add(add(t.c, x), y), ed)
    BY <2>6 DEF x, y, t
  <2>. HIDE DEF be, ad, ed, c
  <2>13. Stands(add(t.c, x), p, c + be)
    BY <1>0, <2>10, <2>11, Apart
  <2>14. c + be \in Int
    BY <2>10
  <2>15. Stands(add(add(t.c, x), y), p, (c + be) + ad)
    BY <1>0, <2>10, <2>11, <2>13, <2>14, Apart
  <2>16. (c + be) + ad \in Int
    BY <2>10
  <2>17. Stands(addc(add(add(t.c, x), y), ed), p, ((c + be) + ad) + ed)
    <3>. DEFINE s == add(add(t.c, x), y)
                v == (c + be) + ad
    <3>1. Stands(s, p, v) /\ v \in Int /\ ed \in Int
      BY <2>10, <2>15, <2>16
    <3>. HIDE DEF s, v
    <3>. QED
      BY <1>0, <3>1, Operations DEF s, v
  <2>18. Stands(multiplied(p, Q), p, ((c + be) + ad) + ed)
    BY <2>12, <2>17
  <2>. QED
    BY <2>1, <2>18 DEF Answer, e, d, be, ad, ed, c
<1>. QED
  BY <1>7, <1>8

\* The value that the answers stand for: the difference times the random number.
Answers(w) == [i \in Parties |-> Answer(w, difference, i)]

LEMMA OpensSum ==
    ASSUME NEW F, NEW G, NEW d, NEW v, NEW w, NEW e \in Int, Opens(F, d, v), Opens(G, d, w)
    PROVE  Opens([i \in Parties |-> F[i] + G[i] * e], d, v + w * e)
<1>. DEFINE H == [i \in Parties |-> F[i] + G[i] * e]
<1>1. F \in Values /\ G \in Values /\ v \in Int /\ w \in Int
  BY DEF Opens
<1>2. ASSUME NEW i \in Parties PROVE H[i] \in Int /\ Cong(H[i], 1 * F[i] + e * G[i])
  <2>. DEFINE x == F[i]
              y == G[i]
  <2>1. x \in Int /\ y \in Int /\ H[i] = x + y * e
    BY <1>1 DEF Values
  <2>. HIDE DEF H, x, y
  <2>2. 1 * x + e * y = x + y * e /\ x + y * e \in Int
    BY <2>1
  <2>3. H[i] \in Int /\ Cong(H[i], 1 * x + e * y)
    BY <2>1, <2>2, CongRefl
  <2>. QED
    BY <2>3 DEF x, y
<1>3. H \in Values
  BY <1>2 DEF Values
<1>. HIDE DEF H
<1>4. \A c \in Int : (\A i \in Parties : Cong(H[i], c * F[i] + e * G[i])) =>
          Opens(H, d, c * v + e * w)
  BY <1>3, OpensLinear
<1>5. Opens(H, d, 1 * v + e * w)
  BY <1>2, <1>4
<1>6. 1 * v + e * w = v + w * e
  BY <1>1
<1>. QED
  BY <1>5, <1>6 DEF H

\* (a + e) * (b + d), from the shares of a, b and a * b.
LEMMA ProductOpens ==
    ASSUME NEW w \in Dealing, Opened(w), NEW e \in Int, NEW d \in Int
    PROVE  Opens([i \in Parties |-> ((w.C[i] + w.B[i] * e) + w.A[i] * d) + e * d], Threshold,
                 (w.a + e) * (w.b + d))
<1>. DEFINE a == w.a
            b == w.b
            U == [i \in Parties |-> w.C[i] + w.B[i] * e]
            V == [i \in Parties |-> U[i] + w.A[i] * d]
            W == [i \in Parties |-> V[i] + Ones[i] * (e * d)]
            X == [i \in Parties |-> ((w.C[i] + w.B[i] * e) + w.A[i] * d) + e * d]
<1>1. /\ Opens(w.C, Threshold, a * b) /\ Opens(w.B, Threshold, b) /\ Opens(w.A, Threshold, a)
      /\ a \in Int /\ b \in Int
  BY DEF Opened, Dealing
<1>2. Opens(Ones, Threshold, 1)
  <2>1. Ones \in Values /\ \A i \in Parties : Cong(Ones[i], Ones[i])
    BY CongRefl, OnesOpen DEF Ones, Values
  <2>2. 1 \in Nat /\ 1 \in Int /\ Threshold >= 1 /\ Threshold \in Nat /\ Cong(1, 1)
    BY ThresholdIs, CongRefl
  <2>3. \A n \in Nat : \A v \in Int :
            Opens(Ones, n, v) /\ Threshold >= n /\ Cong(v, v) => Opens(Ones, Threshold, v)
    BY <2>1, <2>2, OpensCong
  <2>. QED
    BY <2>2, <2>3, OnesOpen
<1>. HIDE DEF a, b
<1>3. Opens(U, Threshold, a * b + b * e)
  BY <1>1, OpensSum
<1>4. Opens(V, Threshold, (a * b + b * e) + a * d)
  <2>. HIDE DEF U
  <2>. QED
    BY <1>1, <1>3, OpensSum
<1>5. Opens(W, Threshold, ((a * b + b * e) + a * d) + 1 * (e * d))
  <2>1. e * d \in Int
    OBVIOUS
  <2>. DEFINE ed == e * d
              v == (a * b + b * e) + a * d
              Z == [i \in Parties |-> V[i] + Ones[i] * ed]
  <2>2. ed \in Int /\ Opens(V, Threshold, v)
    BY <1>4, <2>1
  <2>. HIDE DEF V, ed, v
  <2>3. Opens(Z, Threshold, v + 1 * ed)
    BY <1>2, <2>2, OpensSum
  <2>. QED
    BY <2>3 DEF v, ed
<1>6. ((a * b + b * e) + a * d) + 1 * (e * d) = (a + e) * (b + d)
  BY <1>1
<1>7. W = X
  <2>1. ASSUME NEW i \in Parties PROVE W[i] = X[i]
    <3>1. Ones[i] * (e * d) = e * d
      BY DEF Ones
    <3>. QED
      BY <3>1
  <2>. QED
    BY <2>1
<1>. HIDE DEF W, X
<1>8. Opens(X, Threshold, (a + e) * (b + d))
  BY <1>5, <1>6, <1>7
<1>. QED
  BY <1>8 DEF X, a, b

LEMMA AnswersOpen ==
    ASSUME NEW w \in Dealing, Asked(w)
    PROVE  /\ difference * w.r \in Int
           /\ Opens(Answers(w), Threshold, difference * w.r)
<1>. DEFINE e == epsilon(w, difference)
            d == delta(w)
            a == w.a
            b == w.b
            r == w.r
            X == Answers(w)
<1>1. difference \in Int
  BY EpsilonsOpen
<1>2. /\ a \in Int /\ b \in Int /\ r \in Int /\ e \in Int /\ d \in Int
      /\ Cong(d, r - b) /\ Cong(e, difference - a)
  BY <1>1, DealingIs
<1>3. Opens(X, Threshold, (a + e) * (b + d))
  <2>. HIDE DEF e, d
  <2>1. Opens([i \in Parties |-> ((w.C[i] + w.B[i] * e) + w.A[i] * d) + e * d], Threshold,
              (w.a + e) * (w.b + d))
    BY <1>2, ProductOpens DEF Asked
  <2>. QED
    BY <2>1 DEF Answers, Answer, e, d
<1>. HIDE DEF e, d, a, b, r, X
<1>4. Cong(a + e, difference) /\ Cong(b + d, r)
  <2>1. Cong(a, a) /\ Cong(b, b)
    BY <1>2, CongRefl
  <2>2. difference - a \in Int /\ r - b \in Int
    BY <1>1, <1>2
  <2>3. Cong(a + e, a + (difference - a)) /\ Cong(b + d, b + (r - b))
    BY <1>2, <2>1, <2>2, CongAdd
  <2>4. a + (difference - a) = difference /\ b + (r - b) = r
    BY <1>1, <1>2
  <2>. QED
    BY <2>3, <2>4
<1>5. a + e \in Int /\ b + d \in Int
  BY <1>2
<1>6. Cong((a + e) * (b + d), difference * r)
  BY <1>1, <1>2, <1>4, <1>5, CongMul
<1>7. difference * r \in Int
  BY <1>1, <1>2
<1>8. X \in Values /\ \A i \in Parties : Cong(X[i], X[i])
  <2>1. X \in Values
    BY <1>3 DEF Opens
  <2>. QED
    BY <2>1, CongRefl DEF Values
<1>9. Threshold \in Nat /\ Threshold >= Threshold
  BY ThresholdIs
<1>10. Opens(X, Threshold, difference * r)
  BY <1>3, <1>6, <1>7, <1>8, <1>9, OpensCong
<1>. QED
  BY <1>7, <1>10 DEF X, r

\* What the leader opens.
LEMMA ResultIs ==
    ASSUME NEW w \in Dealing, Asked(w), DOMAIN answers = Worker,
           NEW Q \in SUBSET answered, Cardinality(Q) >= Threshold
    PROVE  \/ open(Restrict(answers, Q), Threshold) = (difference * w.r) % Modulus
           \/ open(Restrict(answers, Q), Threshold) = None /\ (holders # Worker \/ Late)
<1>. DEFINE f == Restrict(answers, Q)
<1>0. Q \in SUBSET Worker /\ Q \in SUBSET Parties /\ Threshold \in Nat
  BY GroupIs, ThresholdIs DEF answered
<1>1. DOMAIN f = Q /\ \A q \in Q : f[q] = answers[q]
  BY DEF Restrict
<1>2. ASSUME NEW q \in Q
      PROVE  \/ f[q] = dummy /\ (holders # Worker \/ Late)
             \/ ShareOf(f[q], q, Answers(w))
  <2>1. q \in Worker /\ q \in Parties /\ phase[q] \in {"answered", "late"}
    BY <1>0 DEF answered
  <2>2. Answers(w)[q] = Answer(w, difference, q)
    BY <2>1 DEF Answers
  <2>3. \/ answers[q] = dummy /\ (holders # Worker \/ phase[q] = "late")
        \/ Stands(answers[q], q, Answer(w, difference, q))
    BY <2>1 DEF Asked
  <2>. HIDE DEF f
  <2>. QED
    BY <1>1, <2>1, <2>2, <2>3 DEF ShareOf, Late
<1>. HIDE DEF f
<1>3. open(f, Threshold) =
        IF Cardinality(RealOf(f)) >= Threshold THEN (difference * w.r) % Modulus ELSE None
  BY <1>0, <1>1, <1>2, AnswersOpen, OpenIs
<1>4. ASSUME ~(Cardinality(RealOf(f)) >= Threshold) PROVE holders # Worker \/ Late
  <2>1. RealOf(f) # Q
    BY <1>4
  <2>2. PICK q \in Q : f[q] = dummy
    BY <1>1, <2>1 DEF RealOf
  <2>3. ~ShareOf(f[q], q, Answers(w))
    BY <1>0, <2>2, StandsIs DEF ShareOf
  <2>. QED
    BY <1>2, <2>3
<1>. QED
  BY <1>3, <1>4 DEF f

----------------------------------------------------------------------------
(***************************************************************************)
(* The steps of a comparison.                                              *)
(***************************************************************************)

\* Once a party has the request, the comparison is under way.
LEMMA IsAsked ==
    ASSUME CheckInv, \E p \in Worker : phase[p] # "idle"
    PROVE  \E w \in Dealing : Asked(w)
  BY DEF CheckInv, Unused

LEMMA SameInputs ==
    ASSUME UNCHANGED inputs, NEW w
    PROVE  /\ UNCHANGED <<stored, polled, holders, pad>>
           /\ difference' = difference
           /\ \A p : Answer(w, difference, p)' = Answer(w, difference, p)
<1>1. UNCHANGED <<stored, polled, holders, pad>>
  BY DEF inputs
<1>2. difference' = difference
  BY <1>1 DEF difference
<1>. QED
  BY <1>1, <1>2 DEF Answer

\* What party p may have answered in phase x.
Fits(w, p, x, v) ==
    \/ v = None /\ x \notin {"answered", "late"}
    \/ v = dummy /\ (holders # Worker \/ x = "late")
    \/ Stands(v, p, Answer(w, difference, p))

\* A step of one party after the request.
LEMMA PartyStep ==
    ASSUME CheckInv, NEW p \in Worker, phase[p] \notin {"idle", "late"}, UNCHANGED <<inputs, result>>,
           NEW x \in {"opening", "answered", "late", "silent"}, phase' = [phase EXCEPT ![p] = x],
           NEW v, DOMAIN answers' = Worker,
           \A q \in Worker : answers'[q] = IF q = p THEN v ELSE answers[q],
           \A w \in Dealing : Asked(w) => Fits(w, p, x, v),
           sent' \subseteq Worker \X Worker
    PROVE  CheckInv'
<1>1. PICK w \in Dealing : Asked(w)
  BY IsAsked
<1>2. /\ UNCHANGED <<stored, polled, holders, pad>> /\ difference' = difference /\ result' = result
      /\ \A q : Answer(w, difference, q)' = Answer(w, difference, q)
  BY SameInputs
<1>3. CheckTypeOK /\ phase \in [Worker -> {"idle", "asked", "opening", "answered", "late", "silent"}]
  BY DEF CheckInv, CheckTypeOK
<1>4. Fits(w, p, x, v)
  BY <1>1
<1>5. \A q \in Worker : phase'[q] = IF q = p THEN x ELSE phase[q]
  BY <1>3
<1>6. Late => Late'
  BY <1>5 DEF Late
<1>7. ASSUME NEW q \in Worker
      PROVE  /\ Holds(pad'[q], w, q) /\ phase'[q] # "idle"
             /\ \/ answers'[q] = None /\ phase'[q] \notin {"answered", "late"}
                \/ answers'[q] = dummy /\ (holders' # Worker \/ phase'[q] = "late")
                \/ Stands(answers'[q], q, Answer(w, difference, q))
  <2>1. /\ Holds(pad[q], w, q) /\ phase[q] # "idle"
        /\ \/ answers[q] = None /\ phase[q] \notin {"answered", "late"}
           \/ answers[q] = dummy /\ (holders # Worker \/ phase[q] = "late")
           \/ Stands(answers[q], q, Answer(w, difference, q))
    BY <1>1 DEF Asked
  <2>2. CASE q = p
    <3>1. phase'[q] = x /\ answers'[q] = v
      BY <1>5, <2>2
    <3>. QED
      BY <1>2, <1>4, <2>1, <2>2, <3>1 DEF Fits
  <2>3. CASE q # p
    <3>1. phase'[q] = phase[q] /\ answers'[q] = answers[q]
      BY <1>5, <2>3
    <3>. QED
      BY <1>2, <2>1, <3>1
  <2>. QED
    BY <2>2, <2>3
<1>8. Asked(w)'
  <2>1. /\ stored' \in Identity /\ polled' \in Identity /\ holders' \subseteq Worker
        /\ Opened(w) /\ ~Cong(w.r, 0)
        /\ result' \subseteq {None, (difference' * w.r) % Modulus}
        /\ None \in result' => holders' # Worker \/ Late'
    BY <1>1, <1>2, <1>6 DEF Asked
  <2>2. \A q \in Worker :
          /\ Holds(pad'[q], w, q) /\ phase'[q] # "idle"
          /\ \/ answers'[q] = None /\ phase'[q] \notin {"answered", "late"}
             \/ answers'[q] = dummy /\ (holders' # Worker \/ phase'[q] = "late")
             \/ Stands(answers'[q], q, Answer(w, difference, q)')
    BY <1>2, <1>7
  <2>. QED
    BY <2>1, <2>2 DEF Asked
<1>9. CheckTypeOK'
  <2>1. v \in {Share(u, p) : u \in Field} \cup {dummy, None}
    BY <1>4 DEF Fits, Stands
  <2>2. \A q \in Worker : answers'[q] \in {Share(u, q) : u \in Field} \cup {dummy, None}
    BY <1>3, <2>1 DEF CheckTypeOK
  <2>3. phase' \in [Worker -> {"idle", "asked", "opening", "answered", "late", "silent"}]
    BY <1>3
  <2>. QED
    BY <1>2, <1>3, <2>2, <2>3 DEF CheckTypeOK
<1>. QED
  BY <1>8, <1>9 DEF CheckInv

LEMMA HandleFindStep ==
    ASSUME CheckInv, NEW p \in Worker, HandleFind(p)
    PROVE  CheckInv'
<1>1. /\ phase[p] = "asked" /\ phase' = [phase EXCEPT ![p] = "opening"]
      /\ UNCHANGED <<inputs, answers, result>>
      /\ sent' \subseteq sent \cup (Worker \X Worker)
  BY DEF HandleFind
<1>2. DOMAIN answers = Worker /\ sent \subseteq Worker \X Worker
  BY DEF CheckInv, CheckTypeOK
<1>3. \A q \in Worker : answers'[q] = IF q = p THEN answers[p] ELSE answers[q]
  BY <1>1
<1>4. ASSUME NEW w \in Dealing, Asked(w) PROVE Fits(w, p, "opening", answers[p])
  BY <1>1, <1>4 DEF Asked, Fits
<1>. QED
  BY <1>1, <1>2, <1>3, <1>4, PartyStep

LEMMA RefuseStep ==
    ASSUME CheckInv, NEW p \in Worker, Refuse(p)
    PROVE  CheckInv'
<1>1. /\ phase[p] = "asked" /\ phase' = [phase EXCEPT ![p] = "silent"]
      /\ UNCHANGED <<inputs, sent, answers, result>>
  BY DEF Refuse
<1>2. DOMAIN answers = Worker /\ sent \subseteq Worker \X Worker
  BY DEF CheckInv, CheckTypeOK
<1>3. \A q \in Worker : answers'[q] = IF q = p THEN answers[p] ELSE answers[q]
  BY <1>1
<1>4. ASSUME NEW w \in Dealing, Asked(w) PROVE Fits(w, p, "silent", answers[p])
  BY <1>1, <1>4 DEF Asked, Fits
<1>. QED
  BY <1>1, <1>2, <1>3, <1>4, PartyStep

LEMMA MultiplyStep ==
    ASSUME CheckInv, NEW p \in Worker, Multiply(p)
    PROVE  CheckInv'
<1>1. PICK Q \in kSubset(Threshold, arrived(p)) :
        answers' = [answers EXCEPT ![p] = multiplied(p, Q)]
  BY DEF Multiply
<1>2. /\ phase[p] = "opening" /\ phase' = [phase EXCEPT ![p] = "answered"]
      /\ UNCHANGED <<inputs, sent, result>>
  BY DEF Multiply
<1>3. DOMAIN answers = Worker /\ sent \subseteq Worker \X Worker
  BY DEF CheckInv, CheckTypeOK
<1>4. Q \in SUBSET Worker /\ Cardinality(Q) >= Threshold
  <2>1. Q \in SUBSET arrived(p) /\ Cardinality(Q) = Threshold
    BY DEF kSubset
  <2>2. arrived(p) \subseteq Worker
    BY DEF arrived
  <2>. QED
    BY <2>1, <2>2, ThresholdIs
<1>5. DOMAIN answers' = Worker
      /\ \A q \in Worker : answers'[q] = IF q = p THEN multiplied(p, Q) ELSE answers[q]
  BY <1>1, <1>3
<1>6. ASSUME NEW w \in Dealing, Asked(w) PROVE Fits(w, p, "answered", multiplied(p, Q))
  BY <1>4, <1>6, MultipliedIs DEF Fits
<1>. QED
  BY <1>2, <1>3, <1>5, <1>6, PartyStep

LEMMA MultiplyTimesOutStep ==
    ASSUME CheckInv, NEW p \in Worker, MultiplyTimesOut(p)
    PROVE  CheckInv'
<1>1. PICK Q \in SUBSET arrived(p) :
        IF Q = {} THEN phase' = [phase EXCEPT ![p] = "silent"] /\ UNCHANGED answers
        ELSE /\ phase' = [phase EXCEPT ![p] = "late"]
             /\ answers' = [answers EXCEPT ![p] = multiplied(p, Q)]
  BY DEF MultiplyTimesOut
<1>2. phase[p] = "opening" /\ UNCHANGED <<inputs, sent, result>>
  BY DEF MultiplyTimesOut
<1>3. DOMAIN answers = Worker /\ sent \subseteq Worker \X Worker
  BY DEF CheckInv, CheckTypeOK
<1>4. CASE phase' = [phase EXCEPT ![p] = "silent"] /\ UNCHANGED answers
  <2>1. \A q \in Worker : answers'[q] = IF q = p THEN answers[p] ELSE answers[q]
    BY <1>4
  <2>2. ASSUME NEW w \in Dealing, Asked(w) PROVE Fits(w, p, "silent", answers[p])
    BY <1>2, <2>2 DEF Asked, Fits
  <2>. QED
    BY <1>2, <1>3, <1>4, <2>1, <2>2, PartyStep
<1>5. CASE /\ phase' = [phase EXCEPT ![p] = "late"]
           /\ answers' = [answers EXCEPT ![p] = multiplied(p, Q)]
  <2>1. Q \in SUBSET Worker
    BY DEF arrived
  <2>2. DOMAIN answers' = Worker
        /\ \A q \in Worker : answers'[q] = IF q = p THEN multiplied(p, Q) ELSE answers[q]
    BY <1>3, <1>5
  <2>3. ASSUME NEW w \in Dealing, Asked(w) PROVE Fits(w, p, "late", multiplied(p, Q))
    BY <2>1, <2>3, MultipliedIs DEF Fits
  <2>. QED
    BY <1>2, <1>3, <1>5, <2>2, <2>3, PartyStep
<1>. QED
  BY <1>1, <1>4, <1>5

LEMMA OpenResultStep ==
    ASSUME CheckInv, OpenResult
    PROVE  CheckInv'
<1>1. PICK Q \in SUBSET answered : enough(Q) /\ result' = {open(Restrict(answers, Q), Threshold)}
  BY DEF OpenResult
<1>2. UNCHANGED <<inputs, phase, sent, answers>>
  BY DEF OpenResult
<1>3. Cardinality(Q) >= Threshold
  BY <1>1 DEF enough
<1>4. Q # {}
  BY <1>3, ThresholdIs, FS_EmptySet
<1>5. \E p \in Worker : phase[p] # "idle"
  BY <1>4 DEF answered
<1>6. PICK w \in Dealing : Asked(w)
  BY <1>5, IsAsked
<1>. DEFINE z == open(Restrict(answers, Q), Threshold)
<1>7. \/ z = (difference * w.r) % Modulus
      \/ z = None /\ (holders # Worker \/ Late)
  BY <1>3, <1>6, ResultIs DEF CheckInv
<1>. HIDE DEF z
<1>8. result' = {z}
  BY <1>1 DEF z
<1>9. (difference * w.r) % Modulus \in Field /\ (difference * w.r) % Modulus # None
  <2>1. difference * w.r \in Int
    BY <1>6, AnswersOpen
  <2>. QED
    BY <2>1, CongMod, SharingAssumption
<1>10. /\ UNCHANGED <<stored, polled, holders, pad>> /\ difference' = difference
       /\ \A q : Answer(w, difference, q)' = Answer(w, difference, q)
  BY <1>2, SameInputs
<1>11. UNCHANGED <<phase, answers>> /\ Late' = Late
  BY <1>2 DEF Late
<1>12. Asked(w)'
  <2>1. /\ stored' \in Identity /\ polled' \in Identity /\ holders' \subseteq Worker
        /\ Opened(w) /\ ~Cong(w.r, 0)
    BY <1>6, <1>10 DEF Asked
  <2>2. /\ result' \subseteq {None, (difference' * w.r) % Modulus}
        /\ None \in result' => holders' # Worker \/ Late'
    BY <1>7, <1>8, <1>9, <1>10, <1>11
  <2>3. \A q \in Worker :
          /\ Holds(pad'[q], w, q) /\ phase'[q] # "idle"
          /\ \/ answers'[q] = None /\ phase'[q] \notin {"answered", "late"}
             \/ answers'[q] = dummy /\ (holders' # Worker \/ phase'[q] = "late")
             \/ Stands(answers'[q], q, Answer(w, difference, q)')
    BY <1>6, <1>10, <1>11 DEF Asked
  <2>. QED
    BY <2>1, <2>2, <2>3 DEF Asked
<1>13. CheckTypeOK' /\ DOMAIN answers' = Worker
  <2>1. result' \subseteq Field \cup {None}
    BY <1>7, <1>8, <1>9
  <2>. QED
    BY <1>2, <1>10, <2>1 DEF CheckInv, CheckTypeOK
<1>. QED
  BY <1>12, <1>13 DEF CheckInv

LEMMA CheckSame ==
    ASSUME CheckInv, UNCHANGED checkVars
    PROVE  CheckInv'
<1>1. UNCHANGED inputs /\ UNCHANGED <<phase, sent, answers, result>>
  BY DEF checkVars
<1>2. UNCHANGED <<stored, polled, holders, pad>> /\ Late' = Late /\ difference' = difference
  BY <1>1 DEF inputs, Late, difference
<1>3. CheckTypeOK' /\ DOMAIN answers' = Worker
  BY <1>1, <1>2 DEF CheckInv, CheckTypeOK
<1>4. ASSUME Unused PROVE Unused'
  BY <1>1, <1>4 DEF Unused
<1>5. ASSUME NEW w \in Dealing, Asked(w) PROVE Asked(w)'
  <2>1. \A q : Answer(w, difference, q)' = Answer(w, difference, q)
    BY <1>1, SameInputs
  <2>2. /\ stored' \in Identity /\ polled' \in Identity /\ holders' \subseteq Worker
        /\ Opened(w) /\ ~Cong(w.r, 0)
        /\ result' \subseteq {None, (difference' * w.r) % Modulus}
        /\ None \in result' => holders' # Worker \/ Late'
    BY <1>1, <1>2, <1>5 DEF Asked
  <2>3. \A q \in Worker :
          /\ Holds(pad'[q], w, q) /\ phase'[q] # "idle"
          /\ \/ answers'[q] = None /\ phase'[q] \notin {"answered", "late"}
             \/ answers'[q] = dummy /\ (holders' # Worker \/ phase'[q] = "late")
             \/ Stands(answers'[q], q, Answer(w, difference, q)')
    BY <1>1, <1>2, <1>5, <2>1 DEF Asked
  <2>. QED
    BY <2>2, <2>3 DEF Asked
<1>. QED
  BY <1>3, <1>4, <1>5 DEF CheckInv

----------------------------------------------------------------------------
(***************************************************************************)
(* The invariant, and what follows from it.                                *)
(***************************************************************************)

\* The leader hands the batch of the group to a comparison.
LEMMA CheckStep ==
    ASSUME GenInv, CheckInv, Check
    PROVE  GenInv' /\ CheckInv'
<1>1. /\ \A p \in Group : round[p] = "added" /\ batch[p] # None
      /\ \A p \in Worker : phase[p] = "idle"
      /\ phase' = [p \in Worker |-> "asked"]
      /\ stored' \in Identity /\ polled' \in Identity /\ holders' \in SUBSET Worker
      /\ pad' = [p \in Worker |-> batch[p]]
      /\ batch' = [p \in Group |-> IF p \in Worker THEN None ELSE batch[p]]
      /\ drawn' = [p \in Group |-> None] /\ rand' = [p \in Group |-> None]
      /\ z_high' = [p \in Group |-> None]
      /\ UNCHANGED <<round, sent, answers, result>>
  BY DEF Check, CheckTask
<1>2. usable
  BY DEF Check
<1>3. PICK w \in Dealing : Opened(w) /\ \A p \in added : Holds(batch[p], w, p)
  BY BatchesCommon DEF Common
<1>4. added = Group /\ Worker \subseteq Group /\ Worker # {} /\ Group \in SUBSET Parties
  BY <1>1, GroupIs DEF added
<1>5. w.r \in Int /\ Opens(w.R, Threshold, w.r)
  BY <1>3 DEF Dealing, Opened
<1>6. ~Cong(w.r, 0)
  <2>. DEFINE f == [p \in Group |-> batch[p].random]
  <2>1. DOMAIN f = Group /\ \A p \in Group : Stands(f[p], p, w.R[p])
    BY <1>3, <1>4 DEF Holds
  <2>2. open(f, Threshold) # 0
    BY <1>2 DEF usable
  <2>. HIDE DEF f
  <2>3. Threshold \in Nat /\ Cardinality(Group) >= Threshold
    BY ThresholdIs, GroupIs
  <2>4. open(f, Threshold) = w.r % Modulus
    BY <1>4, <1>5, <2>1, <2>3, OpenAll
  <2>5. ASSUME Cong(w.r, 0) PROVE FALSE
    <3>1. w.r % Modulus = 0 % Modulus
      <4>1. \A c \in Int : Cong(w.r, c) => w.r % Modulus = c % Modulus
        BY <1>5, ModOfCong
      <4>. QED
        BY <2>5, <4>1
    <3>2. 0 % Modulus = 0
      BY ModulusIs
    <3>. QED
      BY <2>2, <2>4, <3>1, <3>2
  <2>. QED
    BY <2>5
<1>7. GenInv'
  <2>1. GenerationTypeOK'
    BY <1>1 DEF GenInv, GenerationTypeOK
  <2>2. InOrder'
    BY <1>1 DEF InOrder
  <2>3. added' \subseteq Group /\ \A p \in added' : p \in Group /\ batch'[p] = batch[p]
    BY <1>1 DEF added
  <2>4. \A p \in added' : Holds(batch'[p], w, p)
    BY <1>3, <1>4, <2>3
  <2>5. Common'
    BY <1>3, <2>4 DEF Common
  <2>6. \A p \in Group : round'[p] = "added"
    BY <1>1
  <2>. QED
    BY <2>1, <2>2, <2>5, <2>6 DEF GenInv, BatchesRight
<1>8. Unused /\ CheckTypeOK /\ DOMAIN answers = Worker
  BY <1>1, <1>4 DEF CheckInv, Asked
<1>9. CheckTypeOK' /\ DOMAIN answers' = Worker
  BY <1>1, <1>8 DEF CheckTypeOK
<1>10. Asked(w)'
  <2>1. \A p \in Worker : Holds(pad'[p], w, p)
    BY <1>1, <1>3, <1>4
  <2>2. \A p \in Worker : phase'[p] = "asked" /\ answers'[p] = None
    BY <1>1, <1>8 DEF Unused
  <2>3. result' = {}
    BY <1>1, <1>8 DEF Unused
  <2>. QED
    BY <1>1, <1>3, <1>6, <2>1, <2>2, <2>3 DEF Asked
<1>. QED
  BY <1>7, <1>9, <1>10 DEF CheckInv

IInv == GenInv /\ CheckInv

LEMMA InvInit == Init => IInv
<1>. SUFFICES ASSUME Init PROVE IInv
  OBVIOUS
<1>1. GenInv
  BY GenInit DEF Init
<1>2. Unused /\ CheckTypeOK /\ DOMAIN answers = Worker
  BY DEF Init, CheckInit, Unused, CheckTypeOK
<1>. QED
  BY <1>1, <1>2 DEF IInv, CheckInv

LEMMA InvStep == IInv /\ [Next]_vars => IInv'
<1>. SUFFICES ASSUME IInv, [Next]_vars PROVE IInv'
  OBVIOUS
<1>0. GenInv /\ CheckInv
  BY DEF IInv
<1>1. CASE GenerationNext /\ UNCHANGED checkVars
  BY <1>0, <1>1, GenNext, CheckSame DEF IInv
<1>2. CASE Check
  BY <1>0, <1>2, CheckStep DEF IInv
<1>3. CASE CheckNext /\ UNCHANGED generationVars
  <2>1. GenInv'
    BY <1>0, <1>3, GenSame
  <2>2. CheckInv'
    <3>1. CASE OpenResult
      BY <1>0, <3>1, OpenResultStep
    <3>2. CASE \E p \in Worker : HandleFind(p) \/ Refuse(p) \/ Multiply(p) \/ MultiplyTimesOut(p)
      BY <1>0, <3>2, HandleFindStep, RefuseStep, MultiplyStep, MultiplyTimesOutStep
    <3>. QED
      BY <1>3, <3>1, <3>2 DEF CheckNext
  <2>. QED
    BY <2>1, <2>2 DEF IInv
<1>4. CASE UNCHANGED vars
  <2>1. UNCHANGED generationVars /\ UNCHANGED checkVars
    BY <1>4 DEF vars
  <2>. QED
    BY <1>0, <2>1, GenSame, CheckSame DEF IInv
<1>. QED
  BY <1>1, <1>2, <1>3, <1>4 DEF Next

\* Every reachable state satisfies the invariant.
LEMMA Invariant == Spec => []IInv
  BY InvInit, InvStep, PTL DEF Spec

\* Type correctness of generation and comparison (preproduct_op, check_task,
\* handle_find_op): what a party sends or answers is a share of its own, a
\* dummy or nothing.
THEOREM TypeCorrect == Spec => []TypeOK
<1>1. IInv => TypeOK
  BY DEF IInv, GenInv, CheckInv, TypeOK
<1>. QED
  BY <1>1, Invariant, PTL

\* Whatever the members of a group draw and whoever gives up, any Threshold of
\* those that added the batch (gather_open in preproduct_op) hold shares of a
\* triple and of one random number, for every prime, threshold and group large
\* enough for the product's degree.
THEOREM TriplesMultiply == Spec => []TripleMultiplies
<1>1. IInv => TripleMultiplies
  BY BatchesCommon, CommonMultiplies DEF IInv
<1>. QED
  BY <1>1, Invariant, PTL

LEMMA ZeroIsMatch ==
    ASSUME NEW w \in Dealing, Asked(w)
    PROVE  (difference * w.r) % Modulus = 0 <=> stored = polled
<1>1. stored \in Field /\ polled \in Field /\ stored \in Int /\ polled \in Int
      /\ w.r \in Int /\ ~Cong(w.r, 0)
  BY CheckAssumption, IdentityIs, DealingIs DEF Asked
<1>. DEFINE s == stored
            p == polled
            r == w.r
            D == difference
<1>2. D = s - p /\ D \in Int /\ s \in Int /\ p \in Int /\ r \in Int /\ ~Cong(r, 0)
  BY <1>1 DEF difference
<1>. HIDE DEF s, p, r, D
<1>3. ASSUME s = p PROVE (D * r) % Modulus = 0
  <2>1. D * r = 0
    BY <1>2, <1>3
  <2>. QED
    BY <2>1, ModulusIs
<1>4. ASSUME (D * r) % Modulus = 0 PROVE s = p
  <2>1. D * r \in Int /\ D * r = r * D /\ r * 0 = 0 /\ 0 \in Int
    BY <1>2
  <2>2. Cong((D * r) % Modulus, D * r)
    BY <2>1, CongMod
  <2>3. Cong(r * 0, r * D)
    BY <1>4, <2>1, <2>2
  <2>4. \A c \in Int : Cong(r * c, r * D) => Cong(c, D)
    BY <1>2, Cancel
  <2>5. Cong(0, D)
    BY <2>1, <2>3, <2>4
  <2>6. Cong(p + 0, p + D)
    <3>1. \A c \in Int : Cong(c, D) => Cong(p + c, p + D)
      BY <1>2, CongRefl, CongAdd
    <3>. QED
      BY <2>1, <2>5, <3>1
  <2>7. p + 0 = p /\ p + D = s
    BY <1>2
  <2>8. Cong(p, s)
    BY <2>6, <2>7
  <2>9. p \in Field /\ s \in Field
    BY <1>1 DEF p, s
  <2>. QED
    BY <2>8, <2>9, CongInField
<1>. QED
  BY <1>3, <1>4 DEF s, p, r, D

\* The leader's verdict (handle_find_op, mulm, check_task) is never wrong, from
\* whichever Threshold messages each party opened its differences and from
\* whichever answers the leader opened the product; and it is missing only when
\* a participant lacks the fragment or ran out of time.
THEOREM MatchesAreRight == Spec => []MatchIsRight
<1>1. IInv => MatchIsRight
  <2>. SUFFICES ASSUME IInv PROVE MatchIsRight
    OBVIOUS
  <2>1. CASE Unused
    BY <2>1 DEF Unused, MatchIsRight
  <2>2. CASE \E w \in Dealing : Asked(w)
    <3>1. PICK w \in Dealing : Asked(w)
      BY <2>2
    <3>2. result \subseteq {None, (difference * w.r) % Modulus}
          /\ (None \in result => holders # Worker \/ Late)
      BY <3>1 DEF Asked
    <3>3. (difference * w.r) % Modulus = 0 <=> stored = polled
      BY <3>1, ZeroIsMatch
    <3>. QED
      BY <3>2, <3>3 DEF MatchIsRight, Late
  <2>. QED
    BY <2>1, <2>2 DEF IInv, CheckInv
<1>. QED
  BY <1>1, Invariant, PTL

\* Shamir's scheme (ShamirSS.share, reconstruct, Sharing.open): any Threshold
\* shares of a polynomial of that degree open to its secret, whichever parties
\* they come from.
THEOREM SharesOpen ==
    ASSUME NEW cs \in [1 .. Threshold -> Int],
           NEW Q \in SUBSET Parties, Cardinality(Q) >= Threshold
    PROVE  open([p \in Q |-> share(cs)[p]], Threshold) = cs[1] % Modulus
<1>. DEFINE F == [i \in Parties |-> P(cs, i + 1)]
            f == [p \in Q |-> share(cs)[p]]
<1>1. Threshold \in Nat /\ Threshold >= 1
  BY ThresholdIs
<1>2. Opens(F, Threshold, cs[1])
  BY <1>1, PolyOpens
<1>3. ASSUME NEW p \in Q PROVE Stands(f[p], p, F[p])
  <2>1. p \in Parties /\ p + 1 \in Int
    BY PartiesFinite
  <2>2. P(cs, p + 1) \in Field /\ P(cs, p + 1) \in Int
    BY <1>1, <2>1, PType
  <2>3. f[p] = Share(P(cs, p + 1), p) /\ F[p] = P(cs, p + 1)
    BY <2>1 DEF share
  <2>4. Cong(P(cs, p + 1), P(cs, p + 1))
    BY <2>2, CongRefl
  <2>. HIDE DEF f, F
  <2>. QED
    BY <2>2, <2>3, <2>4 DEF Stands
<1>4. DOMAIN f = Q
  OBVIOUS
<1>. HIDE DEF f, F
<1>5. open(f, Threshold) = cs[1] % Modulus
  BY <1>1, <1>2, <1>3, <1>4, OpenAll
<1>. QED
  BY <1>5 DEF f

=============================================================================
