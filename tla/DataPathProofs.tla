---------------------------- MODULE DataPathProofs ----------------------------
(***************************************************************************)
(* The way of the data, for any blobs, publishers and sources.  First the  *)
(* field, its powers and the roots of unity, which are distinct.  Then the *)
(* data: what the daemon acquires is what the contract accepted, and its   *)
(* store follows the published dataset.  Then the theory of the mountain   *)
(* range, for any leaf counts and heights: where the subtrees of a leaf    *)
(* count lie, what a merge does to its bits, and what a path proves; and   *)
(* with it that the contract's peaks and the daemon's are those of the     *)
(* published data, and that a proof is accepted exactly when it should be. *)
(* Last polynomials: a blob is evaluated to the one that it stands for.    *)
(***************************************************************************)
EXTENDS DataPath, Arithmetic, SequenceTheorems, TLAPS

(***************************************************************************)
(* Binary digits, of a leaf count or of a place in a blob.                 *)
(***************************************************************************)

\* What is left of n above its lowest h bits, and that part of n.
Top(n, h) == n \div 2^h
High(n, h) == Top(n, h) * 2^h

LEMMA Halving ==
  ASSUME NEW n \in Nat, NEW h \in Nat
  PROVE  /\ Top(n, h) \in Nat /\ Top(n, h + 1) \in Nat /\ Bit(n, h) \in {0, 1}
         /\ Top(n, h) = 2 * Top(n, h + 1) + Bit(n, h)
<1>1. PICK w : w = 2^h
  OBVIOUS
<1>2. w \in Nat \ {0} /\ 2^(h + 1) = w + w
  BY <1>1, PowerOfTwo
<1>3. PICK q \in Nat, r \in 0..w - 1 : q = n \div w /\ q * w \in Nat /\ n = q * w + r
  BY <1>2, Division
<1>4. PICK p \in Nat, b \in {0, 1} : q = 2 * p + b /\ q % 2 = b
  <2>1. /\ q \div 2 \in Nat /\ q % 2 \in 0..1 /\ q = 2 * (q \div 2) + (q % 2)
    BY <1>3
  <2> QED  BY <2>1
<1>5. n = p * (w + w) + (b * w + r) /\ b * w + r \in 0..(w + w) - 1
  <2>1. p * w \in Nat /\ (2 * p + b) * w = p * w + p * w + b * w /\ p * (w + w) = p * w + p * w
    BY <1>2, <1>4
  <2>2. b * w \in {0, w}
    BY <1>2, <1>4
  <2> QED  BY <1>2, <1>3, <1>4, <2>1, <2>2
<1>6. n \div (w + w) = p
  <2>1. w + w \in Nat \ {0}
    BY <1>2
  <2> QED  BY <1>5, <2>1, DivisionUnique
<1> QED  BY <1>1, <1>2, <1>3, <1>4, <1>6 DEF Top, Bit

LEMMA TopZero == ASSUME NEW n \in Nat PROVE Top(n, 0) = n /\ High(n, 0) = n
  BY PowerZero DEF Top, High

LEMMA Highest ==
  ASSUME NEW n \in Nat, NEW h \in Nat
  PROVE  /\ High(n, h) \in Nat /\ High(n, h) <= n /\ n < High(n, h) + 2^h
         /\ Bit(n, h) = 0 => High(n, h) = High(n, h + 1)
         /\ Bit(n, h) = 1 => High(n, h) = High(n, h + 1) + 2^h
         /\ n % 2^h = 0 <=> High(n, h) = n
<1>1. PICK w : w = 2^h
  OBVIOUS
<1>2. w \in Nat \ {0} /\ 2^(h + 1) = w + w
  BY <1>1, PowerOfTwo
<1>3. /\ Top(n, h) \in Nat /\ High(n, h) \in Nat /\ n % w \in 0..w - 1
      /\ High(n, h) = Top(n, h) * w /\ n = High(n, h) + (n % w)
  BY <1>1, <1>2, Division DEF High, Top
<1>4. PICK p \in Nat, b \in {0, 1} : p = Top(n, h + 1) /\ b = Bit(n, h) /\ Top(n, h) = 2 * p + b
  BY Halving
<1>5. (2 * p + b) * w = p * (w + w) + b * w /\ p * (w + w) \in Nat
  BY <1>2, <1>4
<1>6. High(n, h + 1) = p * (w + w)
  BY <1>2, <1>4 DEF High
<1> QED  BY <1>1, <1>2, <1>3, <1>4, <1>5, <1>6

LEMMA PowersGrow == ASSUME NEW g \in Nat, NEW h \in Nat, g < h PROVE 2^g + 2^g <= 2^h
<1> DEFINE F == {k \in Nat : 2^(g + 1) <= 2^(g + 1 + k)}
<1>1. g + 1 \in Nat /\ 2^(g + 1) = 2^g + 2^g /\ 2^g \in Nat
  BY PowerOfTwo
<1>2. 0 \in F
  <2>1. g + 1 + 0 = g + 1 /\ 2^(g + 1) \in Nat
    BY <1>1
  <2> QED  BY <2>1
<1>3. ASSUME NEW k \in F PROVE k + 1 \in F
  <2>1. PICK e : e = g + 1 + k
    OBVIOUS
  <2>2. k \in Nat /\ e \in Nat /\ 2^(g + 1) <= 2^e /\ g + 1 + (k + 1) = e + 1
    BY <2>1
  <2>3. 2^(e + 1) = 2^e + 2^e /\ 2^e \in Nat
    BY <2>2, PowerOfTwo
  <2>4. 2^(g + 1) <= 2^(e + 1)
    BY <1>1, <2>2, <2>3
  <2> QED  BY <2>2, <2>4
<1>4. Nat \subseteq F
  <2> HIDE DEF F
  <2> QED  BY <1>2, <1>3, NumberInduction
<1>5. h - (g + 1) \in Nat /\ g + 1 + (h - (g + 1)) = h
  OBVIOUS
<1> QED  BY <1>1, <1>4, <1>5

LEMMA HighVanishes == ASSUME NEW n \in Nat, NEW h \in Nat, n < 2^h PROVE Top(n, h) = 0 /\ High(n, h) = 0
<1>1. PICK w \in Nat \ {0} : w = 2^h
  BY PowerOfTwo
<1>2. (0 * w + n) \div w = 0
  <2>1. n \in 0..w - 1 /\ 0 \in Nat
    BY <1>1
  <2> QED  BY <1>1, <2>1, DivisionUnique
<1> QED  BY <1>1, <1>2 DEF Top, High

LEMMA HighConstant ==
  ASSUME NEW n \in Nat, NEW a \in Nat, NEW b \in Nat, a <= b,
         \A g \in Nat : a <= g /\ g < b => Bit(n, g) = 0
  PROVE  High(n, a) = High(n, b)
<1> DEFINE F == {k \in Nat : a + k <= b => High(n, a + k) = High(n, a)}
<1>1. 0 \in F
  <2>1. a + 0 = a
    OBVIOUS
  <2> QED  BY <2>1
<1>2. ASSUME NEW k \in F PROVE k + 1 \in F
  <2> SUFFICES ASSUME a + (k + 1) <= b PROVE High(n, a + (k + 1)) = High(n, a)
    OBVIOUS
  <2>1. PICK g : g = a + k
    OBVIOUS
  <2>2. k \in Nat /\ g \in Nat /\ a <= g /\ g < b /\ a + (k + 1) = g + 1 /\ High(n, g) = High(n, a)
    BY <2>1
  <2>3. Bit(n, g) = 0
    BY <2>2
  <2>4. High(n, g) = High(n, g + 1)
    BY <2>2, <2>3, Highest
  <2> QED  BY <2>2, <2>4
<1>3. Nat \subseteq F
  <2> HIDE DEF F
  <2> QED  BY <1>1, <1>2, NumberInduction
<1>4. b - a \in Nat /\ a + (b - a) = b
  OBVIOUS
<1> QED  BY <1>3, <1>4

(***************************************************************************)
(* Congruence modulo the prime.                                            *)
(***************************************************************************)

Cong(a, b) == \E k \in Int : a = b + k * Modulus

LEMMA CongRefl == \A a \in Int : Cong(a, a)
<1>1. \A a \in Int : a = a + 0 * Modulus
  BY BlobAssumption
<1> QED  BY <1>1 DEF Cong

LEMMA CongSym ==
  ASSUME NEW a \in Int, NEW b \in Int, Cong(a, b) PROVE Cong(b, a)
<1>1. PICK k \in Int : a = b + k * Modulus
  BY DEF Cong
<1>2. b = a + (-k) * Modulus
  BY <1>1, BlobAssumption
<1> QED  BY <1>2 DEF Cong

LEMMA CongTrans ==
  ASSUME NEW a \in Int, NEW b \in Int, NEW c \in Int, Cong(a, b), Cong(b, c) PROVE Cong(a, c)
<1>1. PICK k \in Int, m \in Int : a = b + k * Modulus /\ b = c + m * Modulus
  BY DEF Cong
<1>2. a = c + (k + m) * Modulus
  BY <1>1, BlobAssumption
<1> QED  BY <1>2 DEF Cong

\* Sums, differences and products of what is congruent are congruent.
LEMMA CongOps ==
  ASSUME NEW a \in Int, NEW b \in Int, NEW c \in Int, NEW d \in Int, Cong(a, b), Cong(c, d)
  PROVE  Cong(a + c, b + d) /\ Cong(a - c, b - d) /\ Cong(a * c, b * d)
<1>1. PICK k \in Int, m \in Int : a = b + k * Modulus /\ c = d + m * Modulus
  BY DEF Cong
<1>2. PICK p \in Nat : p = Modulus
  BY BlobAssumption
<1>3. a + c = (b + d) + (k + m) * p /\ k + m \in Int
  BY <1>1, <1>2
<1>4. a - c = (b - d) + (k - m) * p /\ k - m \in Int
  BY <1>1, <1>2
<1>5. a * c = b * d + (b * m + k * d + k * m * p) * p /\ b * m + k * d + k * m * p \in Int
  <2>1. a = b + k * p /\ c = d + m * p
    BY <1>1, <1>2
  <2>2. (b + k * p) * (d + m * p) = b * d + (b * m + k * d + k * m * p) * p
    OBVIOUS
  <2> QED  BY <2>1, <2>2
<1> QED  BY <1>2, <1>3, <1>4, <1>5 DEF Cong

\* A remainder is congruent to what it is the remainder of, and in the field.
LEMMA CongMod ==
  ASSUME NEW a \in Nat
  PROVE  a % Modulus \in Field /\ Cong(a % Modulus, a) /\ Cong(a, a % Modulus)
<1>1. PICK q \in Nat, r \in 0..Modulus - 1 : a = q * Modulus + r /\ a % Modulus = r
  BY Division, BlobAssumption
<1>2. a = r + q * Modulus /\ r \in Int /\ q \in Int
  BY <1>1, BlobAssumption
<1>3. Cong(a, r)
  BY <1>2 DEF Cong
<1> QED  BY <1>1, <1>2, <1>3, CongSym DEF Field

LEMMA FieldTyped == Field \subseteq Nat /\ Modulus \in Nat /\ 0 \in Field /\ 1 \in Field /\ 1 % Modulus = 1
<1>1. PICK p \in Nat : p = Modulus /\ p >= 2
  BY BlobAssumption
<1> QED  BY <1>1 DEF Field

LEMMA FieldElement == \A x \in Field : x \in Nat /\ x \in Int
  BY FieldTyped

\* Elements of the field are congruent only when equal.
LEMMA CongField ==
  ASSUME NEW a \in Field, NEW b \in Field, Cong(a, b) PROVE a = b
<1>1. PICK k \in Int : a = b + k * Modulus
  BY DEF Cong
<1>2. PICK p \in Nat : p = Modulus /\ a \in Nat /\ b \in Nat /\ a < p /\ b < p
  BY FieldTyped DEF Field
<1>3. ASSUME k >= 1 PROVE FALSE
  <2>1. k * p >= p
    BY <1>2, <1>3
  <2> QED  BY <1>1, <1>2, <2>1
<1>4. ASSUME k <= -1 PROVE FALSE
  <2>1. k * p <= -p
    BY <1>2, <1>4
  <2> QED  BY <1>1, <1>2, <2>1
<1>5. k = 0
  BY <1>3, <1>4
<1> QED  BY <1>1, <1>2, <1>5

\* Everything is congruent to an element of the field.
LEMMA CongSome ==
  ASSUME NEW a \in Int PROVE \E r \in Field : Cong(a, r)
<1>1. CASE a >= 0
  BY <1>1, CongMod
<1>2. CASE a < 0
  <2>1. PICK p \in Nat : p = Modulus /\ p >= 2
    BY BlobAssumption
  <2>2. a - a * p \in Nat
    <3>1. PICK n \in Nat : n = -a
      BY <1>2
    <3>2. n * p >= n
      BY <2>1
    <3> QED  BY <2>1, <3>1, <3>2
  <2>3. PICK r \in Field : Cong(a - a * p, r)
    BY <2>2, CongMod
  <2>4. Cong(a, a - a * p)
    BY <2>1 DEF Cong
  <2> QED  BY <2>1, <2>3, <2>4, CongTrans, FieldTyped
<1> QED  BY <1>1, <1>2

\* Euclid's lemma for the field: of a nonzero product no factor is a divisor of zero.  The
\* least factor that is one would leave a remainder of the modulus that is a lesser one.
LEMMA NoZeroDivisors ==
  \A a \in 1..Modulus - 1, b \in 1..Modulus - 1 : ~Cong(a * b, 0)
<1> DEFINE Bad(a) == \E b \in 1..Modulus - 1 : Cong(a * b, 0)
           F == {n \in Nat : \A a \in 1..Modulus - 1 : a <= n => ~Bad(a)}
<1>1. PICK p \in Nat : p = Modulus /\ p >= 2
  BY BlobAssumption
<1>2. 0 \in F
  BY <1>1
<1>3. ASSUME NEW n \in Nat, n \in F PROVE n + 1 \in F
  <2>1. SUFFICES ASSUME n + 1 \in 1..p - 1, Bad(n + 1) PROVE FALSE
    <3>1. ASSUME NEW a \in 1..Modulus - 1, a <= n + 1 PROVE ~Bad(a)
      <4>1. CASE a <= n
        BY <1>3, <4>1
      <4>2. CASE a = n + 1
        <5> HIDE DEF Bad
        <5> QED  BY <1>1, <2>1, <4>2
      <4> QED  BY <1>1, <3>1, <4>1, <4>2
    <3> QED  BY <3>1
  <2>2. PICK a \in 1..p - 1, b \in 1..p - 1 : a = n + 1 /\ Cong(a * b, 0)
    BY <1>1, <2>1
  <2>3. CASE a = 1
    <3>1. Cong(b, 0) /\ b \in Field /\ b # 0
      BY <1>1, <2>2, <2>3 DEF Field
    <3> QED  BY <3>1, CongField, FieldTyped
  <2>4. CASE a # 1
    <3>1. PICK q \in Nat, r \in 0..a - 1 : p = q * a + r /\ p % a = r
      <4>1. a \in Nat \ {0}
        BY <2>2
      <4>2. p = (p \div a) * a + (p % a) /\ p \div a \in Nat /\ p % a \in 0..a - 1
        BY <4>1, Division
      <4> QED  BY <4>2
    <3>2. r # 0
      <4>1. a \in 2..Modulus - 1
        BY <1>1, <2>2, <2>4
      <4>2. Modulus % a # 0
        BY <4>1, BlobAssumption
      <4> QED  BY <1>1, <3>1, <4>2
    <3>3. PICK k \in Int : a * b = k * p
      BY <1>1, <2>2 DEF Cong
    <3>4. r * b = 0 + (b - q * k) * p /\ b - q * k \in Int
      <4>1. r = p - q * a
        BY <1>1, <2>2, <3>1
      <4>2. (p - q * a) * b = p * b - q * (a * b)
        BY <1>1, <2>2, <3>1
      <4>3. q * (k * p) = (q * k) * p
        BY <1>1, <3>1, <3>3
      <4>4. (b - q * k) * p = p * b - (q * k) * p
        BY <1>1, <2>2, <3>1, <3>3
      <4> QED  BY <1>1, <2>2, <3>1, <3>3, <4>1, <4>2, <4>3, <4>4
    <3>5. Cong(r * b, 0)
      BY <1>1, <3>4 DEF Cong
    <3>6. r \in 1..Modulus - 1 /\ r <= n
      BY <1>1, <2>2, <3>1, <3>2
    <3> QED  BY <1>1, <1>3, <2>2, <3>5, <3>6
  <2> QED  BY <2>3, <2>4
<1>4. Nat \subseteq F
  <2> HIDE DEF F
  <2> QED  BY <1>2, <1>3, NumberInduction
<1> QED  BY <1>1, <1>4

\* A product is congruent to zero only when a factor is.
LEMMA Euclid ==
  ASSUME NEW a \in Int, NEW b \in Int, Cong(a * b, 0) PROVE Cong(a, 0) \/ Cong(b, 0)
<1>1. PICK r \in Field, s \in Field : Cong(a, r) /\ Cong(b, s)
  BY CongSome
<1>2. r \in Int /\ s \in Int /\ 0 \in Int
  BY FieldTyped
<1>3. Cong(r * s, a * b)
  BY <1>1, <1>2, CongOps, CongSym
<1>4. Cong(r * s, 0)
  <2>1. r * s \in Int /\ a * b \in Int
    BY <1>2
  <2> QED  BY <1>2, <1>3, <2>1, CongTrans
<1>5. r = 0 \/ s = 0
  BY <1>4, NoZeroDivisors, FieldTyped DEF Field
<1> QED  BY <1>1, <1>5

\* A nonzero factor cancels.
LEMMA Cancels ==
  ASSUME NEW a \in Int, NEW b \in Int, NEW c \in Int, ~Cong(a, 0), Cong(a * b, a * c)
  PROVE  Cong(b, c)
<1>1. PICK k \in Int : a * b = a * c + k * Modulus
  BY DEF Cong
<1>2. a * (b - c) = 0 + k * Modulus
  <2>1. PICK p \in Int : p = Modulus
    BY BlobAssumption
  <2>2. a * (b - c) = a * b - a * c
    OBVIOUS
  <2> QED  BY <1>1, <2>1, <2>2
<1>3. Cong(a * (b - c), 0) /\ b - c \in Int
  BY <1>2 DEF Cong
<1>4. Cong(b - c, 0)
  BY <1>3, Euclid
<1>5. PICK m \in Int : b - c = 0 + m * Modulus
  BY <1>4 DEF Cong
<1>6. b = c + m * Modulus
  BY <1>5, BlobAssumption
<1> QED  BY <1>6 DEF Cong

\* Every nonzero element has the inverse that the code computes.
LEMMA InvertedIs ==
  ASSUME NEW a \in Field, a # 0
  PROVE  Inverted(a) \in Field /\ Cong(a * Inverted(a), 1)
<1> DEFINE f == [x \in Field |-> (a * x) % Modulus]
<1>1. PICK p \in Nat : p = Modulus /\ p >= 2 /\ Field = 0..p - 1
  BY BlobAssumption DEF Field
<1>2. a \in Int /\ ~Cong(a, 0)
  BY FieldTyped, CongField
<1>3. ASSUME NEW x \in Field PROVE a * x \in Nat /\ f[x] \in Field /\ Cong(f[x], a * x) /\ Cong(a * x, f[x])
  <2>1. a * x \in Nat
    BY <1>1
  <2> QED  BY <2>1, CongMod
<1>4. ASSUME NEW x \in Field, NEW y \in Field, f[x] = f[y] PROVE x = y
  <2>1. Cong(a * x, a * y)
    <3>1. PICK v : v = f[x]
      OBVIOUS
    <3>2. v \in Int /\ Cong(a * x, v) /\ Cong(v, a * y) /\ a * x \in Int /\ a * y \in Int
      BY <1>3, <1>4, <3>1, FieldTyped
    <3> QED  BY <3>2, CongTrans
  <2>2. x \in Int /\ y \in Int
    BY FieldTyped
  <2> QED  BY <1>2, <2>1, <2>2, Cancels, CongField
<1>5. f \in Injection(Field, Field)
  BY <1>3, <1>4 DEF Injection, IsInjective
<1>6. IsFiniteSet(Field)
  BY <1>1, FS_Interval
<1>7. f \in Surjection(Field, Field)
  <2> HIDE DEF f
  <2> QED  BY <1>5, <1>6, FS_Injection
<1>8. \E x \in Field : (a * x) % Modulus = 1
  <2>1. \E x \in Field : f[x] = 1
    <3> HIDE DEF f
    <3> QED  BY <1>7, FieldTyped DEF Surjection
  <2> QED  BY <2>1
<1>9. Inverted(a) \in Field /\ (a * Inverted(a)) % Modulus = 1
  BY <1>8 DEF Inverted
<1>10. a * Inverted(a) \in Nat
  <2>1. PICK x \in Field : x = Inverted(a)
    BY <1>9
  <2> QED  BY <1>1, <2>1
<1> QED  BY <1>9, <1>10, CongMod

(***************************************************************************)
(* Powers.                                                                 *)
(***************************************************************************)

Powers(a, n, t) == t = [k \in 0..n |-> IF k = 0 THEN 1 ELSE (t[k - 1] * a) % Modulus]

LEMMA PowersExist ==
  ASSUME NEW a, NEW n \in Nat PROVE \E t : Powers(a, n, t)
<1> DEFINE F == {j \in Nat : \E t : Powers(a, j, t)}
<1>1. 0 \in F
  <2> DEFINE t == [i \in 0..0 |-> 1]
  <2>1. Powers(a, 0, t)
    BY DEF Powers
  <2> QED  BY <2>1
<1>2. ASSUME NEW j \in F PROVE j + 1 \in F
  <2>1. j \in Nat
    OBVIOUS
  <2>2. PICK u : Powers(a, j, u)
    BY <1>2
  <2>3. \A i \in 0..j : u[i] = IF i = 0 THEN 1 ELSE (u[i - 1] * a) % Modulus
    BY <2>2 DEF Powers
  <2> DEFINE next == (u[j] * a) % Modulus
             t == [i \in 0..j + 1 |-> IF i = j + 1 THEN next ELSE u[i]]
  <2>4. ASSUME NEW i \in 0..j + 1
        PROVE  t[i] = IF i = 0 THEN 1 ELSE (t[i - 1] * a) % Modulus
    <3>1. CASE i = j + 1
      <4>1. i # 0 /\ i - 1 = j /\ j \in 0..j + 1 /\ j # j + 1
        BY <2>1, <3>1
      <4>2. t[j] = u[j] /\ t[i] = next
        BY <3>1, <4>1
      <4> QED  BY <3>1, <4>1, <4>2
    <3>2. CASE i # j + 1
      <4>1. i \in 0..j /\ (i # 0 => i - 1 \in 0..j + 1 /\ i - 1 # j + 1)
        BY <2>1, <3>2
      <4>2. t[i] = u[i] /\ (i # 0 => t[i - 1] = u[i - 1])
        BY <3>2, <4>1
      <4> HIDE DEF t
      <4> QED  BY <2>3, <4>1, <4>2
    <3> QED  BY <3>1, <3>2
  <2>5. Powers(a, j + 1, t)
    BY <2>4 DEF Powers
  <2> QED  BY <2>1, <2>5
<1>3. Nat \subseteq F
  <2> HIDE DEF F
  <2> QED  BY <1>1, <1>2, NumberInduction
<1> QED  BY <1>3

\* A table of powers holds the powers.
LEMMA PowerTabulated ==
  ASSUME NEW a, NEW n \in Nat, NEW t, Powers(a, n, t)
  PROVE  \A k \in 0..n : t[k] = Power(a, k)
<1> SUFFICES ASSUME NEW m \in 0..n PROVE t[m] = Power(a, m)
  OBVIOUS
<1>1. PICK u : Powers(a, m, u) /\ Power(a, m) = u[m]
  <2>1. PICK u : u = CHOOSE s : Powers(a, m, s)
    OBVIOUS
  <2>2. Power(a, m) = u[m]
    BY <2>1 DEF Power, Powers
  <2>3. Powers(a, m, u)
    BY <2>1, PowersExist
  <2> QED  BY <2>2, <2>3
<1> DEFINE F == {k \in Nat : k <= m => t[k] = u[k]}
<1>2. 0 \in F
  BY <1>1 DEF Powers
<1>3. ASSUME NEW k \in F PROVE k + 1 \in F
  <2>1. SUFFICES ASSUME k \in Nat, k + 1 <= m PROVE t[k + 1] = u[k + 1]
    OBVIOUS
  <2>2. k + 1 \in 0..n /\ k + 1 \in 0..m /\ k + 1 # 0 /\ k + 1 - 1 = k /\ t[k] = u[k]
    BY <1>3, <2>1
  <2>3. t[k + 1] = (t[k] * a) % Modulus
    BY <2>2 DEF Powers
  <2>4. u[k + 1] = (u[k] * a) % Modulus
    BY <1>1, <2>2 DEF Powers
  <2> QED  BY <2>2, <2>3, <2>4
<1>4. Nat \subseteq F
  <2> HIDE DEF F
  <2> QED  BY <1>2, <1>3, NumberInduction
<1> QED  BY <1>1, <1>4

\* The recursion that defines a power.
LEMMA PowerNext ==
  ASSUME NEW a, NEW n \in Nat
  PROVE  Power(a, 0) = 1 /\ Power(a, n + 1) = (Power(a, n) * a) % Modulus
<1>1. PICK t : Powers(a, n + 1, t)
  BY PowersExist
<1>2. \A k \in 0..n + 1 : t[k] = Power(a, k)
  BY <1>1, PowerTabulated
<1>3. t[0] = 1 /\ t[n + 1] = (t[n] * a) % Modulus
  <2>1. 0 \in 0..n + 1 /\ n + 1 \in 0..n + 1 /\ n + 1 # 0 /\ n + 1 - 1 = n
    OBVIOUS
  <2> QED  BY <1>1, <2>1 DEF Powers
<1> QED  BY <1>2, <1>3

LEMMA PowerField ==
  ASSUME NEW a \in Nat, NEW n \in Nat
  PROVE  /\ Power(a, n) \in Field /\ Power(a, n) \in Nat /\ Power(a, n) \in Int
         /\ Power(a, n) * a \in Nat
         /\ Cong(Power(a, n + 1), Power(a, n) * a) /\ Cong(Power(a, n) * a, Power(a, n + 1))
<1> DEFINE F == {k \in Nat : Power(a, k) \in Field}
<1>1. 0 \in F
  BY PowerNext, FieldTyped
<1>2. ASSUME NEW x \in Field PROVE x * a \in Nat
  <2>1. x \in Nat
    BY FieldTyped
  <2> QED  BY <2>1
<1>3. ASSUME NEW k \in F PROVE k + 1 \in F
  <2>1. k \in Nat /\ Power(a, k) \in Field
    OBVIOUS
  <2>2. Power(a, k + 1) = (Power(a, k) * a) % Modulus
    BY <2>1, PowerNext
  <2>3. Power(a, k) * a \in Nat
    BY <1>2, <2>1
  <2>4. (Power(a, k) * a) % Modulus \in Field
    BY <2>3, CongMod
  <2> QED  BY <2>1, <2>2, <2>4
<1>4. Nat \subseteq F
  <2> HIDE DEF F
  <2> QED  BY <1>1, <1>3, NumberInduction
<1>5. Power(a, n) \in Field
  BY <1>4
<1>6. Power(a, n) * a \in Nat
  BY <1>2, <1>5
<1>7. Power(a, n + 1) = (Power(a, n) * a) % Modulus
  BY PowerNext
<1>8. Cong(Power(a, n + 1), Power(a, n) * a) /\ Cong(Power(a, n) * a, Power(a, n + 1))
  BY <1>6, <1>7, CongMod
<1>9. Power(a, n) \in Nat /\ Power(a, n) \in Int
  <2>1. \A x \in Field : x \in Nat /\ x \in Int
    BY FieldTyped
  <2> QED  BY <1>5, <2>1
<1> QED  BY <1>5, <1>6, <1>8, <1>9

\* Exponents add.
LEMMA PowerSum ==
  ASSUME NEW a \in Nat, NEW m \in Nat, NEW n \in Nat
  PROVE  Cong(Power(a, m + n), Power(a, m) * Power(a, n))
<1> DEFINE F == {k \in Nat : Cong(Power(a, m + k), Power(a, m) * Power(a, k))}
<1>2. 0 \in F
  <2>1. PICK x \in Int : x = Power(a, m)
    BY PowerField
  <2>2. Power(a, m + 0) = x /\ Power(a, 0) = 1 /\ x * 1 = x
    BY <2>1, PowerNext
  <2>3. Cong(x, x)
    BY CongRefl
  <2> QED  BY <2>1, <2>2, <2>3
<1>3. ASSUME NEW k \in F PROVE k + 1 \in F
  <2>0. k \in Nat /\ k + 1 \in Nat /\ m + k \in Nat /\ (m + k) + 1 = m + (k + 1)
        /\ m + (k + 1) \in Nat
    OBVIOUS
  <2>1. PICK x \in Int, y \in Int, u \in Int, v \in Int, w \in Int :
          /\ x = Power(a, m) /\ y = Power(a, k) /\ u = Power(a, m + k)
          /\ v = Power(a, k + 1) /\ w = Power(a, (m + k) + 1)
    <3>1. Power(a, m) \in Int /\ Power(a, k) \in Int /\ Power(a, m + k) \in Int
      BY <2>0, PowerField
    <3>2. Power(a, k + 1) \in Int
      BY <2>0, PowerField
    <3>3. Power(a, m + (k + 1)) \in Int
      BY <2>0, PowerField
    <3> QED  BY <2>0, <3>1, <3>2, <3>3
  <2>2. Cong(u, x * y) /\ Cong(w, u * a) /\ Cong(v, y * a)
    BY <1>3, <2>0, <2>1, PowerField
  <2>a. a \in Int /\ x * y \in Int /\ y * a \in Int
    OBVIOUS
  <2>b. Cong(a, a) /\ Cong(x, x)
    BY <2>a, CongRefl
  <2>3. Cong(u * a, (x * y) * a) /\ Cong(x * v, x * (y * a))
    <3>1. Cong(u * a, (x * y) * a)
      BY <2>2, <2>a, <2>b, CongOps
    <3>2. Cong(x * v, x * (y * a))
      BY <2>2, <2>a, <2>b, CongOps
    <3> QED  BY <3>1, <3>2
  <2>4. (x * y) * a = x * (y * a)
    OBVIOUS
  <2>5. Cong(w, x * v)
    <3>1. u * a \in Int /\ x * (y * a) \in Int /\ x * v \in Int
      OBVIOUS
    <3>2. Cong(x * (y * a), x * v)
      BY <2>3, <3>1, CongSym
    <3>3. Cong(w, x * (y * a))
      BY <2>2, <2>3, <2>4, <3>1, CongTrans
    <3> QED  BY <3>1, <3>2, <3>3, CongTrans
  <2> QED  BY <2>0, <2>1, <2>5
<1>4. Nat \subseteq F
  <2> HIDE DEF F
  <2> QED  BY <1>2, <1>3, NumberInduction
<1> QED  BY <1>4

\* Exponents multiply.
LEMMA PowerOfPower ==
  ASSUME NEW a \in Nat, NEW m \in Nat, NEW n \in Nat
  PROVE  Power(Power(a, m), n) = Power(a, m * n)
<1>0. PICK b \in Nat : b = Power(a, m)
  BY PowerField
<1> DEFINE F == {k \in Nat : Power(b, k) = Power(a, m * k)}
<1>2. 0 \in F
  <2>1. m * 0 = 0
    OBVIOUS
  <2> QED  BY <2>1, PowerNext
<1>3. ASSUME NEW k \in F PROVE k + 1 \in F
  <2>0. k \in Nat /\ k + 1 \in Nat
    OBVIOUS
  <2>1. PICK d \in Nat, e \in Nat : d = m * k /\ e = m * (k + 1) /\ e = d + m
    BY <2>0
  <2>2. Cong(Power(a, e), Power(a, d) * b)
    BY <1>0, <2>1, PowerSum
  <2>3. Power(b, k) = Power(a, d)
    BY <1>3, <2>1
  <2>4. PICK x \in Int, y \in Field, z \in Field :
          x = Power(b, k) * b /\ y = Power(b, k + 1) /\ z = Power(a, e)
    <3>1. Power(b, k) * b \in Int
      BY <2>0, PowerField
    <3>2. Power(b, k + 1) \in Field
      BY <2>0, PowerField
    <3>3. Power(a, e) \in Field
      BY PowerField
    <3> QED  BY <3>1, <3>2, <3>3
  <2>5. Cong(x, y) /\ Cong(z, x)
    BY <2>0, <2>2, <2>3, <2>4, PowerField
  <2>6. y \in Int /\ z \in Int
    BY FieldTyped
  <2>7. Cong(z, y)
    BY <2>4, <2>5, <2>6, CongTrans
  <2>8. z = y
    BY <2>4, <2>7, CongField
  <2> QED  BY <2>0, <2>1, <2>4, <2>8
<1>4. Nat \subseteq F
  <2> HIDE DEF F
  <2> QED  BY <1>2, <1>3, NumberInduction
<1> QED  BY <1>0, <1>4


\* Powers of one are one; powers of a nonzero element are not zero.
LEMMA PowerOfOne ==
  ASSUME NEW n \in Nat PROVE Power(1, n) = 1
<1> DEFINE F == {k \in Nat : Power(1, k) = 1}
<1>1. 0 \in F
  BY PowerNext
<1>2. ASSUME NEW k \in F PROVE k + 1 \in F
  <2>1. k \in Nat /\ Power(1, k) = 1
    OBVIOUS
  <2>2. Power(1, k + 1) = (1 * 1) % Modulus
    BY <2>1, PowerNext
  <2>3. 1 * 1 = 1 /\ 1 % Modulus = 1
    BY FieldTyped
  <2> QED  BY <2>1, <2>2, <2>3
<1>3. Nat \subseteq F
  <2> HIDE DEF F
  <2> QED  BY <1>1, <1>2, NumberInduction
<1> QED  BY <1>3

LEMMA PowerNonzero ==
  ASSUME NEW a \in 1..Modulus - 1, NEW n \in Nat
  PROVE  Power(a, n) \in 1..Modulus - 1 /\ ~Cong(Power(a, n), 0)
<1>1. a \in Nat /\ a \in Int /\ a \in Field /\ ~Cong(a, 0)
  <2>1. PICK p \in Nat : p = Modulus /\ p >= 2
    BY BlobAssumption
  <2>2. a \in Nat /\ a \in Int /\ a \in Field /\ a # 0
    BY <2>1 DEF Field
  <2> QED  BY <2>2, CongField, FieldTyped
<1> DEFINE F == {k \in Nat : ~Cong(Power(a, k), 0)}
<1>2. 0 \in F
  <2>1. ~Cong(1, 0)
    BY CongField, FieldTyped
  <2> QED  BY <2>1, PowerNext
<1>3. ASSUME NEW k \in F PROVE k + 1 \in F
  <2>1. PICK x \in Int, y \in Int : x = Power(a, k) /\ y = Power(a, k + 1) /\ ~Cong(x, 0) /\ Cong(x * a, y)
    <3>1. Power(a, k) \in Int /\ Power(a, k + 1) \in Int
      BY <1>1, PowerField
    <3> QED  BY <1>1, <3>1, PowerField
  <2>2. ASSUME Cong(y, 0) PROVE FALSE
    <3>1. x * a \in Int /\ 0 \in Int
      BY <1>1
    <3>2. Cong(x * a, 0)
      BY <2>1, <2>2, <3>1, CongTrans
    <3> QED  BY <1>1, <2>1, <3>2, Euclid
  <2> QED  BY <2>1, <2>2
<1>4. Nat \subseteq F
  <2> HIDE DEF F
  <2> QED  BY <1>2, <1>3, NumberInduction
<1>5. Power(a, n) \in Field /\ ~Cong(Power(a, n), 0)
  BY <1>1, <1>4, PowerField
<1>6. Power(a, n) # 0
  BY <1>5, CongRefl
<1>7. \A x \in Field : x # 0 => x \in 1..Modulus - 1
  BY BlobAssumption DEF Field
<1> QED  BY <1>5, <1>6, <1>7

\* The powers of the generator below the order of the group are distinct ...
LEMMA PowersDistinct ==
  \A i, j \in 0..Modulus - 2 : Power(Generator, i) = Power(Generator, j) => i = j
<1>1. PICK p \in Nat, g \in Nat : p = Modulus /\ p >= 2 /\ g = Generator /\ g \in 1..p - 1 /\ g \in Int
  BY BlobAssumption
<1> DEFINE D == 0..p - 2
           R == 1..p - 1
           f == [k \in D |-> Power(g, k)]
<1>2. ASSUME NEW k \in Nat PROVE Power(g, k) \in R
  BY <1>1, PowerNonzero
<1>3. f \in Surjection(D, R)
  <2>1. f \in [D -> R]
    BY <1>2
  <2>2. \A a \in R : \E k \in D : f[k] = a
    BY <1>1, GeneratorAssumption
  <2> QED  BY <2>1, <2>2 DEF Surjection
<1>4. /\ IsFiniteSet(D) /\ Cardinality(D) = p - 1
      /\ IsFiniteSet(R) /\ Cardinality(R) = p - 1
  <2>1. 0 \in Int /\ p - 2 \in Int /\ 1 \in Int /\ p - 1 \in Int
    BY <1>1
  <2>2. IsFiniteSet(D) /\ IsFiniteSet(R)
    BY <2>1, FS_Interval
  <2>3. Cardinality(D) = IF 0 > p - 2 THEN 0 ELSE (p - 2) - 0 + 1
    BY <2>1, FS_Interval
  <2>4. Cardinality(R) = IF 1 > p - 1 THEN 0 ELSE (p - 1) - 1 + 1
    BY <2>1, FS_Interval
  <2> QED  BY <1>1, <2>2, <2>3, <2>4
<1>5. f \in Injection(D, R)
  <2> HIDE DEF D, R, f
  <2>1. Cardinality(D) = Cardinality(R)
    BY <1>4
  <2> QED  BY <1>3, <1>4, <2>1, FS_Surjection
<1>6. \A i, j \in D : Power(g, i) = Power(g, j) => i = j
  <2>1. \A i, j \in D : f[i] = f[j] => i = j
    BY <1>5 DEF Injection, IsInjective
  <2> QED  BY <2>1
<1> QED  BY <1>1, <1>6

\* ... so that the next one, which is one of them, is the first.
LEMMA GeneratorOrder == Power(Generator, Modulus - 1) = 1
<1>1. PICK p \in Nat, g \in Nat : p = Modulus /\ p >= 2 /\ g = Generator /\ g \in 1..p - 1 /\ g \in Int
  BY BlobAssumption
<1> DEFINE D == 0..p - 2
<1>6. \A i, j \in D : Power(g, i) = Power(g, j) => i = j
  BY <1>1, PowersDistinct
<1>7. PICK j \in D : Power(g, p - 1) = Power(g, j)
  <2>1. p - 1 \in Nat
    BY <1>1
  <2>2. Power(g, p - 1) \in 1..p - 1
    BY <1>1, <2>1, PowerNonzero
  <2> QED  BY <1>1, <2>2, GeneratorAssumption
<1>8. CASE j = 0
  BY <1>1, <1>7, <1>8, PowerNext
<1>9. ASSUME j # 0 PROVE FALSE
  <2>1. PICK n \in Nat, m \in Nat : n + 1 = p - 1 /\ m + 1 = j /\ n \in D /\ m \in D /\ m # n
    <3>1. p - 2 \in Nat /\ j - 1 \in Nat /\ (p - 2) + 1 = p - 1 /\ (j - 1) + 1 = j /\ p - 2 \in D
          /\ j - 1 \in D /\ j - 1 # p - 2
      BY <1>1, <1>9
    <3> QED  BY <3>1
  <2>2. PICK x \in Int, y \in Int, z \in Int : x = Power(g, n) /\ y = Power(g, m) /\ z = Power(g, j)
    <3>0. g \in Nat /\ n \in Nat /\ m \in Nat /\ j \in Nat
      BY <1>1, <2>1
    <3>1. Power(g, n) \in Int /\ Power(g, m) \in Int
      BY <3>0, PowerField
    <3>2. Power(g, j) \in Int
      BY <3>0, PowerField
    <3> QED  BY <3>1, <3>2
  <2>3. Cong(x * g, z) /\ Cong(y * g, z)
    <3>1. Cong(Power(g, n) * g, Power(g, n + 1)) /\ Cong(Power(g, m) * g, Power(g, m + 1))
      BY <1>1, PowerField
    <3> QED  BY <1>7, <2>1, <2>2, <3>1
  <2>4. Cong(g * x, g * y)
    <3>1. x * g \in Int /\ y * g \in Int /\ x * g = g * x /\ y * g = g * y
      BY <1>1
    <3>2. Cong(z, y * g)
      BY <2>3, <3>1, CongSym
    <3>3. Cong(x * g, y * g)
      BY <2>3, <3>1, <3>2, CongTrans
    <3> QED  BY <3>1, <3>3
  <2>5. ~Cong(g, 0)
    <3>1. g \in Field /\ g # 0
      BY <1>1 DEF Field
    <3> QED  BY <3>1, CongField, FieldTyped
  <2>6. Cong(x, y)
    BY <1>1, <2>4, <2>5, Cancels
  <2>7. x = y
    <3>1. x \in Field /\ y \in Field
      BY <1>1, <2>1, <2>2, PowerField
    <3> QED  BY <2>6, <3>1, CongField
  <2> QED  BY <1>6, <2>1, <2>2, <2>7
<1> QED  BY <1>8, <1>9

\* The width is not a multiple of the modulus, and divides the order of the group.
LEMMA WidthDivides ==
  /\ BlobWidth \in Nat \ {0} /\ BlobWidth \in Field /\ ~Cong(BlobWidth, 0)
  /\ (Modulus - 1) \div BlobWidth \in Nat
  /\ ((Modulus - 1) \div BlobWidth) * BlobWidth = Modulus - 1
<1>1. PICK p \in Nat, w \in Nat \ {0} : p = Modulus /\ p >= 2 /\ w = BlobWidth /\ (p - 1) % w = 0
  BY BlobAssumption
<1>2. PICK q \in Nat : q = (p - 1) \div w /\ p - 1 = q * w
  <2>1. p - 1 \in Nat
    BY <1>1
  <2>2. (p - 1) \div w \in Nat /\ p - 1 = ((p - 1) \div w) * w + 0
    BY <1>1, <2>1, Division
  <2> QED  BY <2>2
<1>3. w <= p - 1
  <2>1. q # 0
    BY <1>1, <1>2
  <2>2. PICK r \in Nat : q = r + 1
    <3>1. q - 1 \in Nat /\ q = (q - 1) + 1
      BY <2>1
    <3> QED  BY <3>1
  <2>3. q * w = r * w + w /\ r * w \in Nat
    BY <2>2
  <2> QED  BY <1>1, <1>2, <2>3
<1>4. w \in Field /\ w # 0
  BY <1>1, <1>3 DEF Field
<1>5. ~Cong(w, 0)
  BY <1>4, CongField, FieldTyped
<1> QED  BY <1>1, <1>2, <1>4, <1>5

\* The weighted bits of i from place k on: what BitReversed sums up.
Weighted(n, i) == [b \in 0..n - 1 |-> Bit(i, b) * 2^(n - 1 - b)]
FromPlace(n, i, k) == SumFunctionOnSet(Weighted(n, i), k..n - 1)

\* They are below the next power of two, so that their sum determines each of them.
LEMMA FromPlaceNext ==
  ASSUME NEW n \in Nat, NEW i \in Nat, NEW k \in Nat, k < n
  PROVE  /\ FromPlace(n, i, n) = 0
         /\ FromPlace(n, i, k) = Bit(i, k) * 2^(n - 1 - k) + FromPlace(n, i, k + 1)
         /\ FromPlace(n, i, k + 1) \in Nat
<1> DEFINE f == Weighted(n, i)
           S == k..n - 1
<1>1. ASSUME NEW b \in 0..n - 1 PROVE f[b] \in Nat
  <2>1. b \in Nat /\ n - 1 - b \in Nat
    OBVIOUS
  <2>2. PICK w \in Nat : w = 2^(n - 1 - b)
    BY <2>1, PowerOfTwo
  <2>3. Bit(i, b) \in {0, 1}
    BY <2>1, Halving
  <2>4. Bit(i, b) * w \in Nat
    BY <2>3
  <2> QED  BY <2>2, <2>4 DEF Weighted
<1>2. IsFiniteSet(S) /\ k \in S /\ S \ {k} = (k + 1)..n - 1 /\ S \subseteq 0..n - 1
  <2>1. k \in Int /\ n - 1 \in Int
    OBVIOUS
  <2>2. IsFiniteSet(S)
    BY <2>1, FS_Interval
  <2> QED  BY <2>2
<1>3. \A y \in S : f[y] \in Nat
  BY <1>1, <1>2
<1>4. /\ SumFunctionOnSet(f, S) = f[k] + SumFunctionOnSet(f, S \ {k})
      /\ SumFunctionOnSet(f, S \ {k}) \in Nat
  <2> HIDE DEF f, S
  <2> QED  BY <1>2, <1>3, SumSplit
<1>5. f[k] = Bit(i, k) * 2^(n - 1 - k)
  BY DEF Weighted
<1>6. n..n - 1 = {}
  OBVIOUS
<1>7. FromPlace(n, i, n) = 0
  BY <1>6, SumEmpty DEF FromPlace
<1> QED  BY <1>2, <1>4, <1>5, <1>7 DEF FromPlace

LEMMA FromPlaceBound ==
  ASSUME NEW n \in Nat \ {0}, NEW i \in Nat, NEW m \in 0..n
  PROVE  FromPlace(n, i, n - m) \in Nat /\ FromPlace(n, i, n - m) < 2^m
<1> DEFINE F == {h \in Nat : h <= n =>
                   FromPlace(n, i, n - h) \in Nat /\ FromPlace(n, i, n - h) < 2^h}
<1>1. 0 \in F
  <2>1. n - 0 = n /\ n - 1 \in Nat /\ n - 1 < n
    OBVIOUS
  <2>2. FromPlace(n, i, n) = 0
    BY <2>1, FromPlaceNext
  <2> QED  BY <2>1, <2>2, PowerZero
<1>2. ASSUME NEW h \in F PROVE h + 1 \in F
  <2>1. SUFFICES ASSUME h \in Nat, h + 1 <= n
                 PROVE  FromPlace(n, i, n - (h + 1)) \in Nat /\ FromPlace(n, i, n - (h + 1)) < 2^(h + 1)
    OBVIOUS
  <2>2. PICK k \in Nat : k = n - (h + 1) /\ k < n /\ k + 1 = n - h /\ n - 1 - k = h /\ h <= n
    <3>1. n - (h + 1) \in Nat
      BY <2>1
    <3> QED  BY <2>1, <3>1
  <2>3. PICK s \in Nat, w \in Nat : s = FromPlace(n, i, k + 1) /\ w = 2^h /\ s < w /\ 2^(h + 1) = w + w
    <3>1. 2^h \in Nat /\ 2^(h + 1) = 2^h + 2^h
      BY <2>1, PowerOfTwo
    <3> QED  BY <1>2, <2>2, <3>1
  <2>4. FromPlace(n, i, k) = Bit(i, k) * w + s
    BY <2>2, <2>3, FromPlaceNext
  <2>5. Bit(i, k) \in {0, 1}
    BY <2>2, Halving
  <2>6. Bit(i, k) * w \in {0, w}
    BY <2>5
  <2> QED  BY <2>2, <2>3, <2>4, <2>6
<1>3. Nat \subseteq F
  <2> HIDE DEF F
  <2> QED  BY <1>1, <1>2, NumberInduction
<1>4. m \in Nat /\ m <= n /\ m \in F
  BY <1>3
<1> QED  BY <1>4

LEMMA BitsDetermined ==
  ASSUME NEW n \in Nat \ {0}, NEW i \in Nat, NEW j \in Nat,
         FromPlace(n, i, 0) = FromPlace(n, j, 0), NEW k \in 0..n - 1
  PROVE  Bit(i, k) = Bit(j, k)
<1> DEFINE F == {h \in Nat : h < n => FromPlace(n, i, h) = FromPlace(n, j, h)}
<1>1. 0 \in F
  OBVIOUS
<1>2. ASSUME NEW h \in Nat, h < n, FromPlace(n, i, h) = FromPlace(n, j, h)
      PROVE  Bit(i, h) = Bit(j, h) /\ FromPlace(n, i, h + 1) = FromPlace(n, j, h + 1)
  <2>1. PICK m \in Nat : m = n - 1 - h /\ n - m = h + 1 /\ m \in 0..n
    <3>1. n - 1 - h \in Nat
      BY <1>2
    <3> QED  BY <1>2, <3>1
  <2>2. PICK w \in Nat \ {0} : w = 2^m
    BY PowerOfTwo
  <2>3. PICK s \in 0..w - 1, t \in 0..w - 1 : s = FromPlace(n, i, h + 1) /\ t = FromPlace(n, j, h + 1)
    <3>1. FromPlace(n, i, n - m) \in Nat /\ FromPlace(n, i, n - m) < 2^m
      BY <2>1, FromPlaceBound
    <3>2. FromPlace(n, j, n - m) \in Nat /\ FromPlace(n, j, n - m) < 2^m
      BY <2>1, FromPlaceBound
    <3> QED  BY <2>1, <2>2, <3>1, <3>2
  <2>4. PICK a \in Nat, b \in Nat : a = Bit(i, h) /\ b = Bit(j, h)
    <3>1. Bit(i, h) \in {0, 1} /\ Bit(j, h) \in {0, 1}
      BY Halving
    <3> QED  BY <3>1
  <2>5. FromPlace(n, i, h) = a * w + s
    BY <1>2, <2>1, <2>2, <2>3, <2>4, FromPlaceNext
  <2>6. FromPlace(n, j, h) = b * w + t
    BY <1>2, <2>1, <2>2, <2>3, <2>4, FromPlaceNext
  <2>7. (a * w + s) \div w = a /\ (a * w + s) % w = s
    BY DivisionUnique
  <2>8. (b * w + t) \div w = b /\ (b * w + t) % w = t
    BY DivisionUnique
  <2> QED  BY <1>2, <2>3, <2>4, <2>5, <2>6, <2>7, <2>8
<1>3. ASSUME NEW h \in F PROVE h + 1 \in F
  BY <1>2
<1>4. Nat \subseteq F
  <2> HIDE DEF F
  <2> QED  BY <1>1, <1>3, NumberInduction
<1>5. k \in Nat /\ k < n /\ k \in F
  BY <1>4
<1> QED  BY <1>2, <1>5

LEMMA NumberDetermined ==
  ASSUME NEW n \in Nat, NEW i \in 0..2^n - 1, NEW j \in 0..2^n - 1,
         \A k \in 0..n - 1 : Bit(i, k) = Bit(j, k)
  PROVE  i = j
<1>1. i \in Nat /\ j \in Nat /\ i < 2^n /\ j < 2^n
  BY PowerOfTwo
<1> DEFINE F == {h \in Nat : h <= n => Top(i, n - h) = Top(j, n - h)}
<1>2. 0 \in F
  <2>1. n - 0 = n
    OBVIOUS
  <2> QED  BY <1>1, <2>1, HighVanishes
<1>3. ASSUME NEW h \in F PROVE h + 1 \in F
  <2>1. SUFFICES ASSUME h \in Nat, h + 1 <= n PROVE Top(i, n - (h + 1)) = Top(j, n - (h + 1))
    OBVIOUS
  <2>2. PICK k \in Nat : k = n - (h + 1) /\ k \in 0..n - 1 /\ k + 1 = n - h /\ h <= n
    <3>1. n - (h + 1) \in Nat
      BY <2>1
    <3> QED  BY <2>1, <3>1
  <2>3. Top(i, k) = 2 * Top(i, k + 1) + Bit(i, k) /\ Top(j, k) = 2 * Top(j, k + 1) + Bit(j, k)
    BY <1>1, <2>2, Halving
  <2>4. Top(i, k + 1) = Top(j, k + 1) /\ Bit(i, k) = Bit(j, k)
    BY <1>3, <2>2
  <2> QED  BY <2>2, <2>3, <2>4
<1>4. Nat \subseteq F
  <2> HIDE DEF F
  <2> QED  BY <1>2, <1>3, NumberInduction
<1>5. n \in F /\ n - n = 0
  BY <1>4
<1> QED  BY <1>1, <1>5, TopZero

\* Reversing the bits permutes the numbers below the width.
LEMMA BitReversal ==
  ASSUME NEW i \in 0..BlobWidth - 1, NEW j \in 0..BlobWidth - 1
  PROVE  /\ BitReversed(i) \in 0..BlobWidth - 1
         /\ BitReversed(i) = BitReversed(j) => i = j
<1>1. PICK n \in Nat : n = IndexBits /\ 2^n = BlobWidth
  <2>1. \E b \in 0..BlobWidth : 2^b = BlobWidth
    BY BlobAssumption
  <2> QED  BY <2>1 DEF IndexBits
<1>2. i \in Nat /\ j \in Nat
  OBVIOUS
<1>3. ASSUME NEW k \in Nat PROVE BitReversed(k) = FromPlace(n, k, 0)
  <2>1. BitReversed(k) = SumFunction(Weighted(n, k))
    BY <1>1 DEF BitReversed, Weighted, Bit
  <2>2. DOMAIN Weighted(n, k) = 0..n - 1
    BY DEF Weighted
  <2> QED  BY <2>1, <2>2 DEF SumFunction, FromPlace
<1>4. CASE n = 0
  <2>1. BlobWidth = 1
    BY <1>1, <1>4, PowerZero
  <2>2. 0..n - 1 = {}
    BY <1>4
  <2>3. BitReversed(i) = 0
    BY <1>2, <1>3, <2>2, SumEmpty DEF FromPlace
  <2> QED  BY <2>1, <2>3
<1>5. CASE n # 0
  <2>1. n \in Nat \ {0} /\ n \in 0..n /\ n - n = 0
    BY <1>5
  <2>2. FromPlace(n, i, 0) \in Nat /\ FromPlace(n, i, 0) < 2^n
    BY <1>2, <2>1, FromPlaceBound
  <2>3. BitReversed(i) \in 0..BlobWidth - 1
    BY <1>1, <1>2, <1>3, <2>2, WidthDivides
  <2>4. ASSUME BitReversed(i) = BitReversed(j) PROVE i = j
    <3>1. FromPlace(n, i, 0) = FromPlace(n, j, 0)
      BY <1>2, <1>3, <2>4
    <3>2. \A k \in 0..n - 1 : Bit(i, k) = Bit(j, k)
      BY <1>2, <2>1, <3>1, BitsDetermined
    <3> QED  BY <1>1, <3>2, NumberDetermined
  <2> QED  BY <2>3, <2>4
<1> QED  BY <1>4, <1>5

\* The points of the domain are distinct.
LEMMA RootsDistinct ==
  ASSUME NEW e \in Elements, NEW f \in Elements, EvaluationDomain[e] = EvaluationDomain[f]
  PROVE  e = f
<1>1. PICK p \in Nat, g \in Nat : p = Modulus /\ p >= 2 /\ g = Generator
  BY BlobAssumption
<1>2. PICK m \in Nat, w \in Nat \ {0} :
        m = (Modulus - 1) \div BlobWidth /\ w = BlobWidth /\ m * w = p - 1
  BY <1>1, WidthDivides
<1>3. PICK i \in 0..w - 1, j \in 0..w - 1 : i = BitReversed(e - 1) /\ j = BitReversed(f - 1)
  <2>1. e - 1 \in 0..BlobWidth - 1 /\ f - 1 \in 0..BlobWidth - 1
    BY <1>2 DEF Elements
  <2> QED  BY <1>2, <2>1, BitReversal
<1>4. i \in Nat /\ j \in Nat
  OBVIOUS
<1>5. Power(g, m * i) = Power(g, m * j)
  <2>1. EvaluationDomain[e] = Power(Power(g, m), i) /\ EvaluationDomain[f] = Power(Power(g, m), j)
    BY <1>1, <1>2, <1>3 DEF EvaluationDomain, RootOfUnity
  <2>2. Power(Power(g, m), i) = Power(g, m * i)
    BY <1>4, PowerOfPower
  <2>3. Power(Power(g, m), j) = Power(g, m * j)
    BY <1>4, PowerOfPower
  <2> QED  BY <2>1, <2>2, <2>3
<1>6. m # 0
  BY <1>1, <1>2
<1>7. ASSUME NEW k \in 0..w - 1 PROVE m * k \in 0..p - 2
  <2>1. k \in Nat /\ k < w
    OBVIOUS
  <2>2. k * m \in Nat /\ w * m \in Nat /\ k * m + m <= w * m
    BY <2>1, MultiplesApart
  <2>3. k * m = m * k /\ w * m = m * w
    BY <2>1
  <2> QED  BY <1>1, <1>2, <1>6, <2>2, <2>3
<1>8. m * i = m * j
  BY <1>1, <1>5, <1>7, PowersDistinct
<1>9. i = j
  <2>1. ASSUME NEW x \in Nat, NEW y \in Nat, x < y PROVE m * x # m * y
    <3>1. x * m \in Nat /\ y * m \in Nat /\ x * m + m <= y * m
      BY <2>1, MultiplesApart
    <3>2. x * m = m * x /\ y * m = m * y
      OBVIOUS
    <3> QED  BY <1>6, <3>1, <3>2
  <2>2. i < j \/ j < i \/ i = j
    BY <1>4
  <2> QED  BY <1>4, <1>8, <2>1, <2>2
<1>10. e - 1 \in 0..BlobWidth - 1 /\ f - 1 \in 0..BlobWidth - 1
  BY <1>2 DEF Elements
<1>11. e - 1 = f - 1
  BY <1>3, <1>9, <1>10, BitReversal
<1>12. e \in Int /\ f \in Int
  BY <1>2 DEF Elements
<1> QED  BY <1>11, <1>12

\* The points of the domain are roots of unity, none of them zero.
LEMMA RootsOfUnity ==
  ASSUME NEW e \in Elements
  PROVE  /\ EvaluationDomain[e] \in Field /\ EvaluationDomain[e] \in Nat
         /\ Power(EvaluationDomain[e], BlobWidth) = 1 /\ ~Cong(EvaluationDomain[e], 0)
<1>1. PICK p \in Nat, g \in Nat : p = Modulus /\ p >= 2 /\ g = Generator /\ g \in 1..p - 1
  BY BlobAssumption
<1>2. PICK m \in Nat, w \in Nat :
        m = (Modulus - 1) \div BlobWidth /\ w = BlobWidth /\ m * w = Modulus - 1 /\ w # 0
  BY WidthDivides
<1>3. PICK i \in Nat : i = BitReversed(e - 1)
  <2>1. e - 1 \in 0..BlobWidth - 1
    BY <1>2 DEF Elements
  <2>2. BitReversed(e - 1) \in 0..BlobWidth - 1
    BY <2>1, BitReversal
  <2> QED  BY <2>2
<1>4. PICK r \in Nat : r = RootOfUnity /\ r = Power(g, m) /\ r \in 1..Modulus - 1
  <2>1. Power(g, m) \in 1..Modulus - 1 /\ Power(g, m) \in Nat
    BY <1>1, PowerNonzero, PowerField
  <2> QED  BY <1>1, <1>2, <2>1 DEF RootOfUnity
<1>5. PICK x \in Nat : x = EvaluationDomain[e] /\ x = Power(r, i)
  <2>1. Power(r, i) \in Nat
    BY PowerField
  <2>2. EvaluationDomain[e] = Power(r, i)
    BY <1>3, <1>4 DEF EvaluationDomain
  <2> QED  BY <2>1, <2>2
<1>6. x \in 1..Modulus - 1 /\ ~Cong(x, 0) /\ x \in Field
  BY <1>4, <1>5, PowerNonzero, PowerField
<1>7. Power(r, w) = 1
  <2>1. Power(r, w) = Power(g, m * w)
    BY <1>4, PowerOfPower
  <2> QED  BY <1>1, <1>2, <2>1, GeneratorOrder
<1>8. Power(x, w) = Power(r, i * w)
  BY <1>5, PowerOfPower
<1>9. Power(r, w * i) = Power(Power(r, w), i)
  BY PowerOfPower
<1>10. i * w = w * i
  OBVIOUS
<1>11. Power(x, w) = 1
  BY <1>7, <1>8, <1>9, <1>10, PowerOfOne
<1> QED  BY <1>2, <1>5, <1>6, <1>11

Chunk == 0..ChunkValues - 1

(***************************************************************************)
(* Blobs and chunks.                                                       *)
(***************************************************************************)

\* The place of a chunk: which blob, which element.
BlobOf(u) == CeilDiv(u, BlobWidth)
ElementOf(u) == ((u - 1) % BlobWidth) + 1

LEMMA CeilDivPlace ==
  ASSUME NEW u \in Nat \ {0}
  PROVE  /\ BlobOf(u) \in Nat \ {0} /\ ElementOf(u) \in Elements
         /\ Position(BlobOf(u), ElementOf(u)) = u
<1> DEFINE q == (u - 1) \div BlobWidth
           r == (u - 1) % BlobWidth
<1>1. BlobWidth \in Nat \ {0} /\ u - 1 \in Nat
  BY BlobAssumption
<1>2. q \in Nat /\ r \in 0..BlobWidth - 1 /\ q * BlobWidth \in Nat /\ u - 1 = q * BlobWidth + r
  BY <1>1, Division
<1> HIDE DEF q, r
<1>3. u + BlobWidth - 1 = (q + 1) * BlobWidth + r
  BY <1>1, <1>2
<1>4. BlobOf(u) = q + 1
  <2>1. ((q + 1) * BlobWidth + r) \div BlobWidth = q + 1
    BY <1>1, <1>2, DivisionUnique
  <2> QED  BY <1>3, <2>1 DEF BlobOf, CeilDiv
<1>5. ElementOf(u) = r + 1
  BY DEF ElementOf, r
<1>6. Position(q + 1, r + 1) = q * BlobWidth + (r + 1)
  BY <1>2 DEF Position
<1> QED  BY <1>1, <1>2, <1>4, <1>5, <1>6 DEF Elements

LEMMA CeilDivMonotone ==
  ASSUME NEW m \in Nat, NEW u \in 1..m PROVE BlobOf(u) \in 1..CeilDiv(m, BlobWidth)
<1> DEFINE v == BlobOf(u)
           k == BlobOf(m)
<1>1. u \in Nat \ {0} /\ m \in Nat \ {0} /\ u <= m /\ BlobWidth \in Nat \ {0}
  BY BlobAssumption
<1>2. /\ v \in Nat \ {0} /\ ElementOf(u) \in 1..BlobWidth
      /\ (v - 1) * BlobWidth + ElementOf(u) = u
  BY <1>1, CeilDivPlace DEF Elements, Position
<1>3. /\ k \in Nat \ {0} /\ ElementOf(m) \in 1..BlobWidth
      /\ (k - 1) * BlobWidth + ElementOf(m) = m
  BY <1>1, CeilDivPlace DEF Elements, Position
<1> HIDE DEF v, k
<1>4. ~(k < v)
  <2> SUFFICES ASSUME k < v PROVE FALSE
    OBVIOUS
  <2>1. k - 1 \in Nat /\ v - 1 \in Nat /\ k - 1 < v - 1
    BY <1>2, <1>3
  <2>2. /\ (k - 1) * BlobWidth \in Nat /\ (v - 1) * BlobWidth \in Nat
        /\ (k - 1) * BlobWidth + BlobWidth <= (v - 1) * BlobWidth
    BY <1>1, <2>1, MultiplesApart
  <2> QED  BY <1>1, <1>2, <1>3, <2>2
<1>5. v \in 1..k
  BY <1>2, <1>3, <1>4
<1> QED  BY <1>5 DEF v, k, BlobOf

LEMMA UnpackedTyped ==
  ASSUME NEW blobs \in Seq(Blobs), NEW m \in Nat, Len(blobs) = CeilDiv(m, BlobWidth)
  PROVE  Unpacked(blobs, m) \in Seq(Chunk) /\ Len(Unpacked(blobs, m)) = m
<1>1. ASSUME NEW u \in 1..m
      PROVE  blobs[BlobOf(u)][ElementOf(u)] % ChunkValues \in Chunk
  <2>1. BlobOf(u) \in 1..Len(blobs)
    BY CeilDivMonotone
  <2>2. blobs[BlobOf(u)] \in [Elements -> Field]
    BY <2>1, ElementOfSeq, DataPathAssumption
  <2>3. ElementOf(u) \in Elements
    BY CeilDivPlace
  <2>4. blobs[BlobOf(u)][ElementOf(u)] \in Nat
    BY <2>2, <2>3, BlobAssumption DEF Field
  <2>5. ASSUME NEW x \in Nat PROVE x % ChunkValues \in 0..ChunkValues - 1
    <3>1. ChunkValues \in Nat \ {0}
      BY BlobAssumption
    <3> QED  BY <3>1, Division
  <2> QED  BY <2>4, <2>5 DEF Chunk
<1>2. Unpacked(blobs, m) = [u \in 1..m |-> blobs[BlobOf(u)][ElementOf(u)] % ChunkValues]
  BY DEF Unpacked, BlobOf, ElementOf
<1>3. Unpacked(blobs, m) \in [1..m -> Chunk]
  BY <1>1, <1>2
<1> HIDE DEF Chunk
<1> QED  BY <1>3

\* A blob is determined by its evaluations: the domain is among the points.
LEMMA EvaluatedOnDomain ==
  ASSUME NEW b, NEW e \in Elements
  PROVE  EvaluationDomain[e] \in Field /\ Evaluate(b, EvaluationDomain[e]) = b[e]
<1> DEFINE w == EvaluationDomain
<1>1. w[e] \in Field /\ \A f \in Elements : w[f] = w[e] => f = e
  BY RootsOfUnity, RootsDistinct
<1>2. (CHOOSE f \in Elements : w[f] = w[e]) = e
  BY <1>1
<1>3. Evaluate(b, w[e]) = b[CHOOSE f \in Elements : w[f] = w[e]]
  BY Zenon DEF Evaluate
<1> QED  BY <1>1, <1>2, <1>3

LEMMA EvaluationsBind ==
  ASSUME NEW c \in Seq(Blobs), NEW d \in Seq(Blobs), EvaluationsOf(c) = EvaluationsOf(d)
  PROVE  c = d
<1>1. DOMAIN c = DOMAIN d /\ \A j \in DOMAIN c : Evaluations[c[j]] = Evaluations[d[j]]
  <2>1. /\ DOMAIN EvaluationsOf(c) = DOMAIN c /\ DOMAIN EvaluationsOf(d) = DOMAIN d
        /\ \A j \in DOMAIN c : EvaluationsOf(c)[j] = Evaluations[c[j]]
        /\ \A j \in DOMAIN d : EvaluationsOf(d)[j] = Evaluations[d[j]]
    BY DEF EvaluationsOf
  <2> QED  BY <2>1
<1>2. ASSUME NEW j \in DOMAIN c PROVE c[j] = d[j]
  <2>1. c[j] \in Blobs /\ d[j] \in Blobs
    BY <1>1, LenProperties
  <2>2. ASSUME NEW b \in Blobs, NEW e \in Elements
        PROVE  Evaluations[b][EvaluationDomain[e]] = b[e]
    <3>1. Evaluations[b] = [z \in Field |-> Evaluate(b, z)]
      BY DEF Evaluations
    <3>2. EvaluationDomain[e] \in Field /\ Evaluate(b, EvaluationDomain[e]) = b[e]
      BY EvaluatedOnDomain
    <3> QED  BY <3>1, <3>2
  <2>3. \A e \in Elements : c[j][e] = d[j][e]
    BY <1>1, <2>1, <2>2
  <2>4. c[j] \in [Elements -> Field] /\ d[j] \in [Elements -> Field]
    BY <2>1, DataPathAssumption
  <2> QED  BY <2>3, <2>4
<1> QED  BY <1>1, <1>2, LenProperties, SeqEqual

(***************************************************************************)
(* Declarations.                                                           *)
(***************************************************************************)

\* The leaf count that declaration k extends.
Before(k) == IF k = 1 THEN 0 ELSE events[k - 1].newLeafCount
Size(k) == events[k].newLeafCount - Before(k)

\* What the contract has accepted is canonical, and its subtree peaks are those of the
\* chunks that were published by it.
Carried(k, blobs) ==
  /\ blobs \in Seq(Blobs)
  /\ events[k].versionedHashes = HashesOf(blobs)
  /\ Canonical(blobs, Size(k))
  /\ events[k].subtreePeaks = UpdateSubtreeRoots(Before(k), Unpacked(blobs, Size(k)))
  /\ \A u \in 1..Size(k) : Unpacked(blobs, Size(k))[u] = published[Before(k) + u]

Ends == {p.n : p \in pins}

LogInv ==
  /\ \E S : events \in Seq(S)
  /\ published \in Seq(Chunk)
  /\ leafCount = Len(published) /\ leafCount = Before(Len(events) + 1)
  /\ \A k \in 1..Len(events) :
       /\ Before(k) \in Nat /\ events[k].newLeafCount \in Nat
       /\ Before(k) < events[k].newLeafCount /\ events[k].newLeafCount <= leafCount
       /\ events[k].newLeafCount \in Ends
       /\ \E blobs : Carried(k, blobs)

\* The log only grows.
Extended ==
  /\ Len(events') \in Nat /\ Len(events) <= Len(events')
  /\ \A k \in 1..Len(events) : events'[k] = events[k]
  /\ Len(published) <= Len(published')
  /\ \A i \in 1..Len(published) : published'[i] = published[i]
  /\ Ends \subseteq Ends'

LEMMA LenNat == ASSUME LogInv PROVE Len(events) \in Nat /\ Len(published) \in Nat /\ leafCount \in Nat
  BY LenProperties DEF LogInv

LEMMA LogFramed == ASSUME LogInv, UNCHANGED contractVars PROVE LogInv' /\ Extended
<1>1. /\ events' = events /\ published' = published /\ leafCount' = leafCount /\ Ends' = Ends
      /\ \A k : Before(k)' = Before(k) /\ Size(k)' = Size(k)
  BY DEF contractVars, Ends, Before, Size
<1>2. \A k, blobs : Carried(k, blobs)' <=> Carried(k, blobs)
  BY <1>1 DEF Carried
<1>3. LogInv'
  BY <1>1, <1>2 DEF LogInv
<1>4. Extended
  BY <1>1, LenNat DEF Extended
<1> QED  BY <1>3, <1>4

\* A proof the contract accepts is one about the blobs that are carried.
LEMMA AcceptedIsCarried ==
  ASSUME LogInv, NEW carried \in Seq(Blobs), NEW witness \in Seq(Blobs), NEW declared, NEW n1,
         DeclarationAccepted(carried, declared, n1, witness)
  PROVE  /\ Canonical(carried, n1 - leafCount)
         /\ declared = UpdateSubtreeRoots(leafCount, Unpacked(carried, n1 - leafCount))
<1>1. witness = carried
  BY EvaluationsBind DEF DeclarationAccepted
<1>2. CircuitAccepts(carried, leafCount, n1)
      /\ CircuitPreimage(carried, HashesOf(carried), peaks, leafCount, n1)
           = FsPreimage(HashesOf(carried), peaks, declared, leafCount, n1)
  BY <1>1 DEF DeclarationAccepted
<1> QED  BY <1>2 DEF CircuitAccepts, CircuitPreimage, FsPreimage

LEMMA DeclareForLogged ==
  ASSUME LogInv, NEW carried \in Seq(Blobs), NEW witness \in Seq(Blobs), NEW declared,
         NEW n1 \in Nat, DeclareFor(carried, declared, n1, witness)
  PROVE  /\ LogInv' /\ Extended
         /\ Len(published') = n1 /\ n1 > leafCount /\ Ends' = Ends \cup {n1}
<1> DEFINE m == n1 - leafCount
           more == Unpacked(carried, m)
           new == [versionedHashes |-> HashesOf(carried), subtreePeaks |-> declared,
                   newLeafCount |-> n1]
<1>0. PICK last : last = Len(events) + 1
  OBVIOUS
<1>1. /\ Canonical(carried, m) /\ declared = UpdateSubtreeRoots(leafCount, more)
      /\ n1 > leafCount
  BY AcceptedIsCarried DEF DeclareFor, DeclarationAccepted
<1>2. m \in Nat /\ m # 0 /\ leafCount \in Nat /\ n1 = leafCount + m
  BY <1>1, LenNat
<1>3. more \in Seq(Chunk) /\ Len(more) = m
  BY <1>1, <1>2, UnpackedTyped DEF Canonical
<1>4. /\ events' = Append(events, new) /\ published' = published \o more /\ leafCount' = n1
      /\ pins' = pins \cup {[n |-> n1, root |-> Root(n1, peaks')]}
  BY DEF DeclareFor
<1>5. new.newLeafCount = n1 /\ new.versionedHashes = HashesOf(carried) /\ new.subtreePeaks = declared
  OBVIOUS
<1> HIDE DEF m, more, new
<1>6. PICK S : events \in Seq(S) /\ new \in S
  <2>1. PICK T : events \in Seq(T)
    BY DEF LogInv
  <2>2. events \in Seq(T \cup {new})
    BY <2>1, SeqMonotonic
  <2> QED  BY <2>2
<1>7. /\ events' \in Seq(S) /\ Len(events') = last /\ Len(events) \in Nat
      /\ \A k \in 1..Len(events) : events'[k] = events[k]
      /\ events'[last] = new
  BY <1>0, <1>4, <1>6, AppendProperties, LenNat
<1>8. /\ published' \in Seq(Chunk) /\ Len(published') = n1
      /\ \A i \in 1..Len(published) : published'[i] = published[i]
      /\ \A u \in 1..m : published'[leafCount + u] = more[u]
  <2>1. published \in Seq(Chunk) /\ leafCount = Len(published)
    BY DEF LogInv
  <2>2. /\ published' \in Seq(Chunk) /\ Len(published') = leafCount + m
        /\ \A i \in 1..leafCount + m :
             published'[i] = IF i <= leafCount THEN published[i] ELSE more[i - leafCount]
    BY <1>3, <1>4, <2>1, ConcatProperties
  <2>3. ASSUME NEW u \in 1..m PROVE published'[leafCount + u] = more[u]
    <3>1. leafCount + u \in 1..leafCount + m /\ ~(leafCount + u <= leafCount)
          /\ (leafCount + u) - leafCount = u
      BY <1>2
    <3> QED  BY <2>2, <3>1
  <2>4. ASSUME NEW i \in 1..leafCount PROVE published'[i] = published[i]
    <3>1. i \in 1..leafCount + m /\ i <= leafCount
      BY <1>2
    <3> QED  BY <2>2, <3>1
  <2> QED  BY <1>2, <2>1, <2>2, <2>3, <2>4
<1>9. Ends' = Ends \cup {n1}
  <2>1. PICK root : pins' = pins \cup {[n |-> n1, root |-> root]}
    BY <1>4
  <2> DEFINE p == [n |-> n1, root |-> root]
  <2>2. p.n = n1
    OBVIOUS
  <2>3. pins' = pins \cup {p}
    BY <2>1
  <2> HIDE DEF p
  <2> QED  BY <2>2, <2>3 DEF Ends
<1>10. /\ \A k \in 1..Len(events) : Before(k)' = Before(k) /\ Size(k)' = Size(k)
       /\ Before(last)' = leafCount /\ Before(last + 1)' = n1 /\ Size(last)' = m
  <2>1. \A k \in 1..Len(events) : k = 1 \/ k - 1 \in 1..Len(events)
    BY <1>7
  <2>2. \A k \in 1..Len(events) : Before(k)' = Before(k) /\ Size(k)' = Size(k)
    BY <1>7, <2>1 DEF Before, Size
  <2>3. Before(last)' = Before(last)
    <3>1. last = 1 \/ last - 1 \in 1..Len(events)
      BY <1>0, <1>7
    <3> QED  BY <1>7, <3>1 DEF Before
  <2>4. Before(last) = leafCount
    BY <1>0 DEF LogInv
  <2>5. Before(last + 1)' = n1 /\ events'[last].newLeafCount = n1
    <3>1. last + 1 # 1 /\ (last + 1) - 1 = last
      BY <1>0, <1>7
    <3> QED  BY <1>5, <1>7, <3>1 DEF Before
  <2> QED  BY <2>2, <2>3, <2>4, <2>5 DEF Size, m
<1>11. Carried(last, carried)'
  <2>1. \A u \in 1..m : more[u] = published'[leafCount + u]
    BY <1>8
  <2> QED  BY <1>1, <1>5, <1>7, <1>10, <2>1 DEF Carried, more
<1>12. ASSUME NEW k \in 1..Len(events), NEW blobs, Carried(k, blobs) PROVE Carried(k, blobs)'
  <2>1. Before(k) \in Nat /\ Before(k) + Size(k) <= Len(published) /\ Size(k) \in Nat
    BY LenNat DEF LogInv, Size
  <2>2. \A u \in 1..Size(k) : published'[Before(k) + u] = published[Before(k) + u]
    <3>1. \A u \in 1..Size(k) : Before(k) + u \in 1..Len(published)
      BY <2>1, LenNat
    <3> QED  BY <1>8, <3>1
  <2> QED  BY <1>7, <1>10, <1>12, <2>2 DEF Carried
<1>13. Extended
  BY <1>0, <1>1, <1>2, <1>7, <1>8, <1>9, LenNat DEF Extended, LogInv
<1>14. LogInv'
  <2>1. ASSUME NEW k \in 1..Len(events')
        PROVE  /\ Before(k)' \in Nat /\ events'[k].newLeafCount \in Nat
               /\ Before(k)' < events'[k].newLeafCount /\ events'[k].newLeafCount <= n1
               /\ events'[k].newLeafCount \in Ends'
               /\ \E blobs : Carried(k, blobs)'
    <3>1. CASE k = last
      BY <1>1, <1>2, <1>5, <1>7, <1>9, <1>10, <1>11, <3>1
    <3>2. CASE k # last
      <4>1. k \in 1..Len(events)
        BY <1>0, <1>7, <3>2
      <4>2. /\ Before(k) \in Nat /\ events[k].newLeafCount \in Nat
            /\ Before(k) < events[k].newLeafCount /\ events[k].newLeafCount <= leafCount
            /\ events[k].newLeafCount \in Ends
            /\ \E blobs : Carried(k, blobs)
        BY <4>1 DEF LogInv
      <4>3. events'[k].newLeafCount <= n1
        BY <1>2, <1>7, <4>1, <4>2
      <4>4. \E blobs : Carried(k, blobs)'
        BY <1>12, <4>1, <4>2
      <4> QED  BY <1>7, <1>9, <1>10, <4>1, <4>2, <4>3, <4>4
    <3> QED  BY <3>1, <3>2
  <2>2. leafCount' = Len(published') /\ leafCount' = Before(Len(events) + 1)'
    BY <1>4, <1>7, <1>8, <1>10
  <2> QED  BY <1>4, <1>7, <1>8, <2>1, <2>2 DEF LogInv
<1> QED  BY <1>1, <1>8, <1>9, <1>13, <1>14

(***************************************************************************)
(* Acquisition.                                                            *)
(***************************************************************************)

\* The daemon holds what was published up to its next declaration.
StoreInv ==
  /\ store.nonce \in 0..Len(events)
  /\ store.chunks \in Seq(Chunk) /\ Len(store.chunks) = Before(store.nonce + 1)
  /\ \A i \in 1..Len(store.chunks) : store.chunks[i] = published[i]

Complete(have) ==
  \A j \in DOMAIN Event.versionedHashes :
    \E b \in have : VersionedHash(b) = Event.versionedHashes[j]

\* An acquisition is for a declaration in the log, and complete only with all its blobs.
AcquisitionInv ==
  \/ acquisition = NoAcquisition
  \/ /\ store.nonce < Len(events)
     /\ "step" \in DOMAIN acquisition
     /\ \/ acquisition.step = "asking"
        \/ acquisition.step = "complete" /\ Complete(acquisition.have)

DataInv == LogInv /\ StoreInv /\ AcquisitionInv

LEMMA NextEvent ==
  ASSUME StoreInv, LogInv, store.nonce < Len(events)
  PROVE  /\ store.nonce + 1 \in 1..Len(events) /\ Event = events[store.nonce + 1]
         /\ Before(store.nonce + 1) = Len(store.chunks)
  BY LenNat DEF StoreInv, Event

\* A complete acquisition is consistent: the blobs, in the order of their hashes, are
\* those that were carried.
LEMMA OrderedIsCarried ==
  ASSUME DataInv, acquisition.step = "complete"
  PROVE  /\ store.nonce < Len(events)
         /\ \E blobs : Carried(store.nonce + 1, blobs) /\ Ordered = blobs
<1>1. store.nonce < Len(events) /\ Complete(acquisition.have)
  BY DEF DataInv, AcquisitionInv, NoAcquisition
<1>2. store.nonce + 1 \in 1..Len(events) /\ Event = events[store.nonce + 1]
  BY <1>1, NextEvent DEF DataInv
<1>3. PICK blobs : Carried(store.nonce + 1, blobs)
  BY <1>2 DEF DataInv, LogInv
<1>4. blobs \in Seq(Blobs) /\ Event.versionedHashes = HashesOf(blobs)
  BY <1>2, <1>3 DEF Carried
<1>5. /\ DOMAIN Event.versionedHashes = DOMAIN blobs
      /\ \A j \in DOMAIN blobs : Event.versionedHashes[j] = VersionedHash(blobs[j])
  BY <1>4 DEF HashesOf
<1>6. ASSUME NEW j \in DOMAIN blobs
      PROVE  (CHOOSE b \in acquisition.have : VersionedHash(b) = Event.versionedHashes[j]) = blobs[j]
  <2>1. \A b : VersionedHash(b) = Event.versionedHashes[j] <=> b = blobs[j]
    BY <1>5 DEF VersionedHash
  <2>2. blobs[j] \in acquisition.have
    BY <1>1, <1>5, <2>1 DEF Complete
  <2> QED  BY <2>1, <2>2
<1>7. Ordered = [j \in DOMAIN blobs |-> blobs[j]]
  BY <1>5, <1>6 DEF Ordered
<1>8. Ordered = blobs
  BY <1>4, <1>7, LenProperties
<1> QED  BY <1>1, <1>3, <1>8

LEMMA CompleteIsConsistent ==
  ASSUME DataInv, acquisition.step = "complete"
  PROVE  /\ Consistent
         /\ NewChunks \in Seq(Chunk) /\ Len(NewChunks) = Size(store.nonce + 1)
         /\ \A u \in 1..Len(NewChunks) : NewChunks[u] = published[Len(store.chunks) + u]
<1> DEFINE k == store.nonce + 1
<1>1. store.nonce < Len(events) /\ \E blobs : Carried(k, blobs) /\ Ordered = blobs
  BY OrderedIsCarried
<1>2. k \in 1..Len(events) /\ Event = events[k] /\ Before(k) = Len(store.chunks)
  BY <1>1, NextEvent DEF DataInv
<1>3. Event.newLeafCount > Len(store.chunks) /\ Size(k) = Event.newLeafCount - Len(store.chunks)
      /\ Size(k) \in Nat
  BY <1>2 DEF DataInv, LogInv, Size
<1>4. Carried(k, Ordered)
  BY <1>1
<1> HIDE DEF k
<1>5. NewChunks = Unpacked(Ordered, Size(k))
  BY <1>3 DEF NewChunks
<1>6. NewChunks \in Seq(Chunk) /\ Len(NewChunks) = Size(k)
  BY <1>3, <1>4, <1>5, UnpackedTyped DEF Carried, Canonical
<1>7. Consistent
  BY <1>2, <1>3, <1>4, <1>5 DEF Consistent, Carried
<1>8. \A u \in 1..Len(NewChunks) : NewChunks[u] = published[Len(store.chunks) + u]
  BY <1>2, <1>4, <1>5, <1>6 DEF Carried
<1> QED  BY <1>6, <1>7, <1>8 DEF k

LEMMA AskSourceInv ==
  ASSUME NEW i, NEW have, LogInv, StoreInv, UNCHANGED <<events, store>>,
         store.nonce < Len(events), acquisition' = AskSource(i, have)
  PROVE  AcquisitionInv'
<1> DEFINE missing == {j \in DOMAIN Event.versionedHashes :
                        \A b \in have : VersionedHash(b) # Event.versionedHashes[j]}
<1>1. CASE missing = {} /\ acquisition' = [step |-> "complete", have |-> have]
  <2>1. Complete(have)
    BY <1>1 DEF Complete
  <2>2. Event' = Event
    BY DEF Event
  <2>3. Complete(have)'
    BY <2>1, <2>2 DEF Complete
  <2>4. "step" \in DOMAIN acquisition' /\ acquisition'.step = "complete" /\ acquisition'.have = have
    BY <1>1
  <2>5. Complete(acquisition.have)'
    BY <2>3, <2>4 DEF Complete
  <2> QED  BY <2>4, <2>5 DEF AcquisitionInv
<1>2. CASE acquisition' = NoAcquisition
  BY <1>2 DEF AcquisitionInv, NoAcquisition
<1>3. CASE acquisition' = [step |-> "asking", have |-> have, source |-> i, missing |-> missing,
                            endpoint |-> 1, collected |-> {}, count |-> 0]
  <2>1. "step" \in DOMAIN acquisition' /\ acquisition'.step = "asking"
    BY <1>3
  <2> QED  BY <2>1 DEF AcquisitionInv
<1> QED  BY <1>1, <1>2, <1>3 DEF AskSource

(***************************************************************************)
(* The steps.                                                              *)
(***************************************************************************)

\* A longer log leaves store and acquisition as they are.
LEMMA PublishingKeeps ==
  ASSUME DataInv, LogInv', Extended, UNCHANGED <<store, acquisition>>
  PROVE  StoreInv' /\ AcquisitionInv'
<1>1. store.nonce \in 0..Len(events) /\ Len(events) \in Nat /\ store.nonce \in 0..Len(events')
  BY LenNat DEF DataInv, StoreInv, Extended
<1>2. PICK k : k = store.nonce + 1
  OBVIOUS
<1>3. Before(k)' = Before(k)
  <2>1. k = 1 \/ k - 1 \in 1..Len(events)
    BY <1>1, <1>2
  <2> QED  BY <2>1 DEF Before, Extended
<1>4. StoreInv'
  <2>1. Before(k) <= Len(published)
    <3>1. k \in 1..Len(events) \/ k = Len(events) + 1
      BY <1>1, <1>2
    <3>2. CASE k \in 1..Len(events)
      <4>1. Before(k) \in Nat /\ events[k].newLeafCount \in Nat
            /\ Before(k) < events[k].newLeafCount /\ events[k].newLeafCount <= leafCount
        BY <3>2 DEF DataInv, LogInv
      <4> QED  BY <4>1, LenNat DEF DataInv, LogInv
    <3>3. CASE k = Len(events) + 1
      BY <3>3, LenNat DEF DataInv, LogInv
    <3> QED  BY <3>1, <3>2, <3>3
  <2>2. \A i \in 1..Len(store.chunks) : i \in 1..Len(published)
    BY <1>2, <2>1, LenNat, LenProperties DEF DataInv, StoreInv
  <2>3. \A i \in 1..Len(store.chunks) : published'[i] = store.chunks[i]
    BY <2>2 DEF DataInv, StoreInv, Extended
  <2>4. store' = store /\ Before(store.nonce + 1)' = Before(store.nonce + 1)
    <3>1. store'.nonce + 1 = k
      BY <1>2
    <3>2. Before(store.nonce + 1)' = Before(k)'
      BY <3>1 DEF Before
    <3> QED  BY <1>2, <1>3, <3>2
  <2> QED  BY <1>1, <2>3, <2>4 DEF DataInv, StoreInv
<1>5. AcquisitionInv'
  <2>1. CASE acquisition = NoAcquisition
    BY <2>1 DEF AcquisitionInv, NoAcquisition
  <2>2. CASE acquisition # NoAcquisition
    <3>1. store.nonce < Len(events) /\ k \in 1..Len(events) /\ store.nonce < Len(events')
      BY <1>1, <1>2, <2>2 DEF DataInv, AcquisitionInv, Extended
    <3>2. Event' = Event
      BY <1>2, <3>1 DEF Event, Extended
    <3>3. \A have : Complete(have) => Complete(have)'
      BY <3>2 DEF Complete
    <3>4. Complete(acquisition.have) => Complete(acquisition.have)'
      BY <3>2 DEF Complete
    <3> QED  BY <2>2, <3>1, <3>4 DEF DataInv, AcquisitionInv
  <2> QED  BY <2>1, <2>2
<1> QED  BY <1>4, <1>5

\* The store takes the next declaration, whole.
LEMMA IngestSafe ==
  ASSUME DataInv, Ingest
  PROVE  /\ StoreInv' /\ AcquisitionInv'
         /\ Len(store'.chunks) \in Ends /\ Len(store'.chunks) > Len(store.chunks)
<1> DEFINE k == store.nonce + 1
           n1 == events[k].newLeafCount
           both == store.chunks \o NewChunks
<1>1. /\ Consistent
      /\ NewChunks \in Seq(Chunk) /\ Len(NewChunks) = Size(k)
      /\ \A u \in 1..Len(NewChunks) : NewChunks[u] = published[Len(store.chunks) + u]
  BY CompleteIsConsistent DEF Ingest
<1>2. /\ k \in 1..Len(events) /\ Before(k) = Len(store.chunks)
      /\ Before(k) \in Nat /\ n1 \in Nat /\ Before(k) < n1 /\ n1 \in Ends
      /\ Size(k) = n1 - Before(k)
  <2>1. store.nonce < Len(events)
    BY OrderedIsCarried DEF Ingest
  <2> QED  BY <2>1, NextEvent DEF DataInv, LogInv, Size
<1>3. /\ acquisition' = NoAcquisition
      /\ UNCHANGED contractVars
      /\ store'.nonce = k /\ store'.chunks = both
  BY <1>1 DEF Ingest
<1>4. store.chunks \in Seq(Chunk)
      /\ \A i \in 1..Len(store.chunks) : store.chunks[i] = published[i]
  BY DEF DataInv, StoreInv
<1>5. /\ both \in Seq(Chunk) /\ Len(both) = Len(store.chunks) + Len(NewChunks)
      /\ \A i \in 1..Len(store.chunks) + Len(NewChunks) :
           both[i] = IF i <= Len(store.chunks) THEN store.chunks[i]
                     ELSE NewChunks[i - Len(store.chunks)]
  BY <1>1, <1>4, ConcatProperties
<1>6. Len(both) = n1
  BY <1>1, <1>2, <1>5
<1> HIDE DEF both
<1>7. ASSUME NEW i \in 1..n1 PROVE both[i] = published[i]
  <2>1. CASE i <= Len(store.chunks)
    <3>1. i \in 1..Len(store.chunks) /\ i \in 1..Len(both)
      BY <1>2, <1>6, <2>1
    <3>2. both[i] = store.chunks[i]
      BY <1>5, <2>1, <3>1
    <3> QED  BY <1>4, <3>1, <3>2
  <2>2. CASE ~(i <= Len(store.chunks))
    <3>1. PICK u : u = i - Len(store.chunks)
      OBVIOUS
    <3>2. Len(store.chunks) \in Nat /\ Len(NewChunks) \in Nat /\ i \in Nat /\ i <= Len(both)
      BY <1>1, <1>2, <1>4, <1>6
    <3>3. u \in 1..Len(NewChunks) /\ Len(store.chunks) + u = i
      BY <1>5, <2>2, <3>1, <3>2
    <3>4. both[i] = NewChunks[u]
      BY <1>5, <2>2, <3>1, <3>2
    <3>5. NewChunks[u] = published[i]
      BY <1>1, <3>3
    <3> QED  BY <3>4, <3>5
  <2> QED  BY <2>1, <2>2
<1>8. /\ k \in 0..Len(events') /\ events' = events /\ published' = published
  BY <1>2, <1>3 DEF contractVars
<1>9. Before(store.nonce + 1)' = n1
  <2>1. k + 1 # 1 /\ (k + 1) - 1 = k
    BY <1>2
  <2>2. Before(store.nonce + 1)' = IF k + 1 = 1 THEN 0 ELSE events[(k + 1) - 1].newLeafCount
    BY <1>3, <1>8 DEF Before
  <2> QED  BY <2>1, <2>2
<1>10. StoreInv'
  BY <1>3, <1>5, <1>6, <1>7, <1>8, <1>9 DEF StoreInv
<1>11. AcquisitionInv'
  BY <1>3 DEF AcquisitionInv, NoAcquisition
<1> QED  BY <1>2, <1>3, <1>6, <1>10, <1>11

LEMMA BlobListsAreSequences == ASSUME NEW w \in BlobLists PROVE w \in Seq(Blobs)
<1>1. PICK k \in 1..CeilDiv(MaxLeafCount, BlobWidth) : w \in [1..k -> Blobs]
  BY DEF BlobLists
<1>2. k \in Nat
  OBVIOUS
<1> QED  BY <1>1, <1>2

LEMMA PublisherSafe ==
  ASSUME DataInv, PublisherStep
  PROVE  /\ DataInv' /\ Extended /\ UNCHANGED store
         /\ Len(published') > Len(published) /\ Ends' = Ends \cup {Len(published')}
<1>1. PICK n1 \in leafCount + 1..MaxLeafCount, carried \in BlobLists, witness \in BlobLists :
        \E declared : DeclareFor(carried, declared, n1, witness)
  BY DEF PublisherStep
<1>2. PICK declared : DeclareFor(carried, declared, n1, witness)
  BY <1>1
<1>3. n1 \in Nat /\ leafCount = Len(published)
  BY <1>1, LenNat DEF DataInv, LogInv
<1>4. carried \in Seq(Blobs) /\ witness \in Seq(Blobs)
  BY BlobListsAreSequences
<1>5. /\ LogInv' /\ Extended
      /\ Len(published') = n1 /\ n1 > leafCount /\ Ends' = Ends \cup {n1}
  BY <1>2, <1>3, <1>4, DeclareForLogged DEF DataInv
<1>6. UNCHANGED <<store, acquisition>>
  BY <1>2 DEF DeclareFor
<1>7. StoreInv' /\ AcquisitionInv'
  BY <1>5, <1>6, PublishingKeeps
<1> QED  BY <1>3, <1>5, <1>6, <1>7 DEF DataInv

LEMMA AcquiringSafe ==
  ASSUME DataInv, Acquire \/ \E S \in SUBSET Blobs : Answer(S)
  PROVE  DataInv' /\ UNCHANGED <<contractVars, store>>
<1>1. UNCHANGED <<contractVars, store>>
  BY DEF Acquire, Answer
<1>2. LogInv' /\ UNCHANGED <<events, store>>
  BY <1>1, LogFramed DEF DataInv, contractVars
<1>3. StoreInv'
  <2>1. events' = events /\ published' = published /\ store' = store
        /\ Before(store.nonce + 1)' = Before(store.nonce + 1)
    BY <1>1 DEF contractVars, Before
  <2> QED  BY <2>1 DEF DataInv, StoreInv
<1>4. CASE Acquire
  <2>1. store.nonce < Len(events) /\ acquisition' = AskSource(1, {})
    BY <1>4 DEF Acquire
  <2>2. LogInv /\ StoreInv
    BY DEF DataInv
  <2>3. AcquisitionInv'
    BY <1>2, <2>1, <2>2, AskSourceInv
  <2> QED  BY <1>1, <1>2, <1>3, <2>3 DEF DataInv
<1>5. ASSUME NEW S \in SUBSET Blobs, Answer(S) PROVE AcquisitionInv'
  <2>1. store.nonce < Len(events) /\ "step" \in DOMAIN acquisition /\ acquisition.step = "asking"
    <3>1. acquisition.step = "asking"
      BY <1>5 DEF Answer
    <3>2. acquisition # NoAcquisition
      BY <3>1 DEF NoAcquisition
    <3> QED  BY <3>1, <3>2 DEF DataInv, AcquisitionInv
  <2>2. CASE \E i, have : acquisition' = AskSource(i, have)
    BY <1>2, <2>1, <2>2, AskSourceInv DEF DataInv
  <2>3. CASE \E held, candidates :
               acquisition' = [acquisition EXCEPT !.endpoint = @ + 1, !.collected = candidates,
                                                  !.count = held]
    <3>1. "step" \in DOMAIN acquisition' /\ acquisition'.step = "asking"
      BY <2>1, <2>3
    <3> QED  BY <1>2, <2>1, <3>1 DEF AcquisitionInv
  <2> QED  BY <1>5, <2>2, <2>3 DEF Answer
<1> QED  BY <1>1, <1>2, <1>3, <1>4, <1>5 DEF DataInv

LEMMA InitDataInv == DataInit => DataInv
<1> SUFFICES ASSUME DataInit PROVE DataInv
  OBVIOUS
<1>1. events = <<>> /\ published = <<>> /\ leafCount = 0 /\ store.nonce = 0 /\ store.chunks = <<>>
      /\ acquisition = NoAcquisition
  BY DEF DataInit
<1>2. events \in Seq({}) /\ published \in Seq(Chunk) /\ Len(events) = 0 /\ Len(published) = 0
  BY <1>1, EmptySeq
<1>3. Before(1) = 0
  BY DEF Before
<1>4. LogInv
  BY <1>1, <1>2, <1>3 DEF LogInv
<1>5. StoreInv
  BY <1>1, <1>2, <1>3 DEF StoreInv
<1> QED  BY <1>1, <1>4, <1>5 DEF DataInv, AcquisitionInv

LEMMA DataStutters == ASSUME DataInv, UNCHANGED dataVars PROVE DataInv'
<1>1. /\ events' = events /\ published' = published /\ store' = store /\ acquisition' = acquisition
      /\ Before(store.nonce + 1)' = Before(store.nonce + 1) /\ Event' = Event
  BY DEF dataVars, contractVars, Before, Event
<1>2. LogInv'
  BY LogFramed DEF DataInv, dataVars
<1>3. StoreInv'
  BY <1>1 DEF DataInv, StoreInv
<1>4. Complete(acquisition.have)' <=> Complete(acquisition.have)
  BY <1>1 DEF Complete
<1>5. AcquisitionInv'
  BY <1>1, <1>4 DEF DataInv, AcquisitionInv, NoAcquisition
<1> QED  BY <1>2, <1>3, <1>5 DEF DataInv

LEMMA DataStep == DataInv /\ [DataNext]_dataVars => DataInv'
<1> SUFFICES ASSUME DataInv, [DataNext]_dataVars PROVE DataInv'
  OBVIOUS
<1>1. CASE PublisherStep
  BY <1>1, PublisherSafe
<1>2. CASE Acquire \/ \E S \in SUBSET Blobs : Answer(S)
  BY <1>2, AcquiringSafe
<1>3. CASE Ingest
  BY <1>3, IngestSafe, LogFramed DEF DataInv, Ingest
<1> QED  BY <1>1, <1>2, <1>3, DataStutters DEF DataNext, DaemonStep

LEMMA DataInvHolds == DataSpec => []DataInv
  BY InitDataInv, DataStep, PTL DEF DataSpec

\* However a publisher chooses blobs and witness, and whatever the sources answer, the
\* blobs the daemon has acquired never contradict the declaration: an ingest fails for
\* want of blobs only.
THEOREM NoContradictionHolds == DataSpec => []NoContradiction
<1>1. DataInv => NoContradiction
  BY CompleteIsConsistent DEF NoContradiction
<1> QED  BY <1>1, DataInvHolds, PTL

\* The store implements the replica: it takes whole declarations, in order, and what it
\* takes are the published chunks.
THEOREM DataRefinesReplica == DataSpec => ImplementsReplica
<1>1. DataInit => Replica!ReplicaInit
  BY DEF DataInit, Replica!ReplicaInit
<1>2. DataInv /\ [DataNext]_dataVars => [Replica!ReplicaNext]_(Replica!replicaVars)
  <2> SUFFICES ASSUME DataInv, [DataNext]_dataVars
               PROVE  [Replica!ReplicaNext]_(Replica!replicaVars)
    OBVIOUS
  <2>1. CASE PublisherStep
    <3>1. /\ DataInv' /\ Extended /\ store' = store
          /\ Len(published') > Len(published) /\ Ends' = Ends \cup {Len(published')}
      BY <2>1, PublisherSafe
    <3>2. SubSeq(published', 1, Len(published)) = published
      <4>1. PICK held : held = SubSeq(published', 1, Len(published))
        OBVIOUS
      <4>2. published \in Seq(Chunk) /\ published' \in Seq(Chunk)
            /\ Len(published) \in Nat /\ Len(published') \in Nat
        BY <3>1, LenProperties DEF DataInv, LogInv
      <4>3. \A i \in 1..Len(published) : published'[i] \in Chunk
        BY <3>1, <4>2, ElementOfSeq
      <4>4. /\ held \in Seq(Chunk)
            /\ Len(held) = IF 1 <= Len(published) THEN Len(published) - 1 + 1 ELSE 0
            /\ \A i \in 1..Len(published) - 1 + 1 : held[i] = published'[1 + i - 1]
        BY <4>1, <4>2, <4>3, SubSeqProperties
      <4>5. Len(held) = Len(published) /\ \A i \in 1..Len(published) : held[i] = published[i]
        BY <3>1, <4>2, <4>4 DEF Extended
      <4> QED  BY <4>1, <4>2, <4>4, <4>5, SeqEqual
    <3>3. Len(published) \in Nat /\ Len(published') \in Nat
      BY <3>1, LenProperties DEF DataInv, LogInv
    <3>4. Replica!Publish
      <4>1. Len(published') \in Len(published) + 1..Len(published')
        BY <3>1, <3>3
      <4>2. Ends' \ Ends \subseteq Len(published) + 1..Len(published')
        BY <3>1, <4>1
      <4> QED  BY <3>1, <3>2, <4>2 DEF Replica!Publish, Ends
    <3> QED  BY <3>4 DEF Replica!ReplicaNext
  <2>2. CASE Ingest
    <3>1. /\ StoreInv' /\ UNCHANGED contractVars
          /\ Len(store'.chunks) \in Ends /\ Len(store'.chunks) > Len(store.chunks)
      BY <2>2, IngestSafe DEF Ingest
    <3>2. published' = published /\ pins' = pins
      BY <3>1 DEF contractVars
    <3>3. PICK n : n = Len(store'.chunks)
      OBVIOUS
    <3>4. /\ n \in Ends /\ n > Len(store.chunks) /\ n \in Nat /\ store'.chunks \in Seq(Chunk)
          /\ \A i \in 1..n : published[i] = store'.chunks[i]
      BY <3>1, <3>2, <3>3, LenProperties DEF StoreInv
    <3>5. store'.chunks = SubSeq(published, 1, n)
      <4>1. PICK held : held = SubSeq(published, 1, n)
        OBVIOUS
      <4>2. \A i \in 1..n : published[i] \in Chunk
        BY <3>3, <3>4, ElementOfSeq
      <4>3. /\ held \in Seq(Chunk) /\ Len(held) = IF 1 <= n THEN n - 1 + 1 ELSE 0
            /\ \A i \in 1..n - 1 + 1 : held[i] = published[1 + i - 1]
        BY <3>4, <4>1, <4>2, SubSeqProperties
      <4>4. Len(held) = n /\ \A i \in 1..n : held[i] = store'.chunks[i]
        BY <3>4, <4>3
      <4> QED  BY <3>3, <3>4, <4>1, <4>3, <4>4, SeqEqual
    <3>6. Replica!Take
      BY <3>2, <3>4, <3>5 DEF Replica!Take, Replica!Held, Ends
    <3> QED  BY <3>6 DEF Replica!ReplicaNext
  <2>3. CASE Acquire \/ \E S \in SUBSET Blobs : Answer(S)
    BY <2>3, AcquiringSafe DEF contractVars, Replica!replicaVars
  <2>4. CASE UNCHANGED dataVars
    BY <2>4 DEF dataVars, contractVars, Replica!replicaVars
  <2> QED  BY <2>1, <2>2, <2>3, <2>4 DEF DataNext, DaemonStep
<1> QED  BY <1>1, <1>2, DataInvHolds, PTL DEF DataSpec, ImplementsReplica

(***************************************************************************)
(* Samples.                                                                *)
(***************************************************************************)

\* v holds the numbers that the first k digits stand for, r their remainders.
Read(digits, k, v) ==
  v = [i \in 0..k |-> IF i = 0 THEN 0 ELSE v[i - 1] * DigitBase + digits[i]]
Streamed(digits, n, k, r) ==
  r = [i \in 0..k |-> IF i = 0 THEN 0 ELSE (r[i - 1] * DigitBase + digits[i]) % n]

LEMMA ReadExists ==
  ASSUME NEW digits, NEW k \in Nat PROVE \E v : Read(digits, k, v)
<1> DEFINE F == {j \in Nat : \E v : Read(digits, j, v)}
<1>1. 0 \in F
  <2> DEFINE v == [i \in 0..0 |-> 0]
  <2>1. Read(digits, 0, v)
    BY DEF Read
  <2> QED  BY <2>1
<1>2. ASSUME NEW j \in F PROVE j + 1 \in F
  <2>1. j \in Nat
    OBVIOUS
  <2>2. PICK u : Read(digits, j, u)
    BY <1>2
  <2>3. \A i \in 0..j : u[i] = IF i = 0 THEN 0 ELSE u[i - 1] * DigitBase + digits[i]
    BY <2>2 DEF Read
  <2> DEFINE next == u[j] * DigitBase + digits[j + 1]
             v == [i \in 0..j + 1 |-> IF i = j + 1 THEN next ELSE u[i]]
  <2>4. ASSUME NEW i \in 0..j + 1
        PROVE  v[i] = IF i = 0 THEN 0 ELSE v[i - 1] * DigitBase + digits[i]
    <3>1. CASE i = j + 1
      <4>1. i # 0 /\ i - 1 = j /\ j \in 0..j + 1 /\ j # j + 1
        BY <2>1, <3>1
      <4>2. v[j] = u[j] /\ v[i] = next
        BY <3>1, <4>1
      <4> QED  BY <3>1, <4>1, <4>2
    <3>2. CASE i # j + 1
      <4>1. i \in 0..j /\ (i # 0 => i - 1 \in 0..j + 1 /\ i - 1 # j + 1)
        BY <2>1, <3>2
      <4>2. v[i] = u[i] /\ (i # 0 => v[i - 1] = u[i - 1])
        BY <3>2, <4>1
      <4> HIDE DEF v
      <4> QED  BY <2>3, <4>1, <4>2
    <3> QED  BY <3>1, <3>2
  <2>5. Read(digits, j + 1, v)
    BY <2>4 DEF Read
  <2> QED  BY <2>1, <2>5
<1>3. Nat \subseteq F
  <2> HIDE DEF F
  <2> QED  BY <1>1, <1>2, NumberInduction
<1> QED  BY <1>3

\* Streaming the digits through one remainder is dividing the number once.
LEMMA StreamedIsDivided ==
  ASSUME NEW digits \in Seq(Nat), NEW n \in Nat \ {0}
  PROVE  Number(digits) \in Nat /\ SampleIndex(digits, n) = Number(digits) % n
<1> DEFINE k == Len(digits)
           v == CHOOSE v : Read(digits, k, v)
           r == CHOOSE r : Streamed(digits, n, k, r)
<1>1. k \in Nat /\ DigitBase \in Nat /\ \A i \in 1..k : digits[i] \in Nat
  BY LenProperties, RangeAssumption
<1>2. Number(digits) = v[k] /\ SampleIndex(digits, n) = r[k]
  BY DEF Number, SampleIndex, Read, Streamed
<1>3. Read(digits, k, v)
  BY <1>1, ReadExists
<1>4. \A i \in 0..k : v[i] = IF i = 0 THEN 0 ELSE v[i - 1] * DigitBase + digits[i]
  BY <1>3 DEF Read
<1> HIDE DEF v
<1>5. \A i \in Nat : i <= k => v[i] \in Nat
  <2> DEFINE F == {i \in Nat : i <= k => v[i] \in Nat}
  <2>1. 0 \in F
    BY <1>1, <1>4
  <2>2. ASSUME NEW i \in F PROVE i + 1 \in F
    <3> SUFFICES ASSUME i + 1 <= k PROVE v[i + 1] \in Nat
      OBVIOUS
    <3>1. i \in Nat /\ v[i] \in Nat /\ i + 1 \in 1..k /\ i + 1 # 0 /\ (i + 1) - 1 = i
      BY <1>1
    <3>2. v[i + 1] = v[i] * DigitBase + digits[i + 1]
      BY <1>1, <1>4, <3>1
    <3>3. digits[i + 1] \in Nat
      BY <1>1, <3>1
    <3> QED  BY <1>1, <3>1, <3>2, <3>3
  <2>3. Nat \subseteq F
    <3> HIDE DEF F
    <3> QED  BY <2>1, <2>2, NumberInduction
  <2> QED  BY <2>3
<1>6. Streamed(digits, n, k, r)
  <2> DEFINE s == [i \in 0..k |-> v[i] % n]
  <2>1. ASSUME NEW i \in 0..k
        PROVE  s[i] = IF i = 0 THEN 0 ELSE (s[i - 1] * DigitBase + digits[i]) % n
    <3>1. CASE i = 0
      BY <1>1, <1>4, <3>1
    <3>2. CASE i # 0
      <4>1. i - 1 \in 0..k /\ i \in 1..k /\ v[i - 1] \in Nat /\ digits[i] \in Nat
        BY <1>1, <1>5, <3>2
      <4>2. v[i] = v[i - 1] * DigitBase + digits[i]
        BY <1>4, <3>2
      <4>3. s[i] = v[i] % n /\ s[i - 1] = v[i - 1] % n
        BY <4>1
      <4>4. ((v[i - 1] % n) * DigitBase + digits[i]) % n = (v[i - 1] * DigitBase + digits[i]) % n
        BY <1>1, <4>1, RemainderAbsorbs
      <4> QED  BY <3>2, <4>2, <4>3, <4>4
    <3> QED  BY <3>1, <3>2
  <2>2. Streamed(digits, n, k, s)
    BY <2>1 DEF Streamed
  <2> QED  BY <2>2
<1>7. \A i \in 0..k : r[i] = IF i = 0 THEN 0 ELSE (r[i - 1] * DigitBase + digits[i]) % n
  BY <1>6 DEF Streamed
<1> HIDE DEF r
<1>8. \A i \in Nat : i <= k => r[i] = v[i] % n
  <2> DEFINE F == {i \in Nat : i <= k => r[i] = v[i] % n}
  <2>1. 0 \in F
    BY <1>1, <1>4, <1>7
  <2>2. ASSUME NEW i \in F PROVE i + 1 \in F
    <3> SUFFICES ASSUME i + 1 <= k PROVE r[i + 1] = v[i + 1] % n
      OBVIOUS
    <3>1. i \in Nat /\ r[i] = v[i] % n /\ i + 1 \in 1..k /\ i + 1 \in 0..k /\ i + 1 # 0 /\ (i + 1) - 1 = i
      BY <1>1
    <3>2. v[i] \in Nat /\ digits[i + 1] \in Nat
      BY <1>1, <1>5, <3>1
    <3>3. v[i + 1] = v[i] * DigitBase + digits[i + 1]
      BY <1>4, <3>1
    <3>4. r[i + 1] = (r[i] * DigitBase + digits[i + 1]) % n
      BY <1>7, <3>1
    <3>5. ((v[i] % n) * DigitBase + digits[i + 1]) % n = (v[i] * DigitBase + digits[i + 1]) % n
      BY <1>1, <3>2, RemainderAbsorbs
    <3> QED  BY <3>1, <3>3, <3>4, <3>5
  <2>3. Nat \subseteq F
    <3> HIDE DEF F
    <3> QED  BY <2>1, <2>2, NumberInduction
  <2> QED  BY <2>3
<1>9. v[k] \in Nat /\ r[k] = v[k] % n
  BY <1>1, <1>5, <1>8
<1> QED  BY <1>2, <1>9

\* At any leaf count and for every digest, of whatever length, the position that the
\* circuit and the daemon sample with digits streamed through one remainder is the digest
\* modulo the leaf count.
THEOREM SamplesAreUniformHolds == DataSpec => []SamplesAreUniform
<1>1. ASSUME NEW d \in Digests PROVE d \in Seq(Nat)
  <2>1. d \in Seq(0..DigitBase - 1) /\ 0..DigitBase - 1 \subseteq Nat
    BY DataPathAssumption, RangeAssumption
  <2> QED  BY <2>1, SeqMonotonic
<1>2. DataInv => SamplesAreUniform
  <2> SUFFICES ASSUME DataInv, leafCount > 0, NEW d \in Digests
               PROVE  SampleIndex(d, leafCount) = Number(d) % leafCount
    BY DEF SamplesAreUniform
  <2>1. leafCount \in Nat \ {0}
    BY LenNat DEF DataInv
  <2> QED  BY <1>1, <2>1, StreamedIsDivided
<1> QED  BY <1>2, DataInvHolds, PTL

(***************************************************************************)
(* The mountain range: lists of heights, and where the subtrees of the     *)
(* digits of a leaf count that are set begin.                              *)
(***************************************************************************)

DownTo(S, j, f) ==
  f = [i \in 0..j |->
        IF i = 0 THEN <<>>
        ELSE IF MaxHeight + 1 - i \in S THEN Append(f[i - 1], MaxHeight + 1 - i)
        ELSE f[i - 1]]

LEMMA DownToExists == ASSUME NEW S, NEW j \in Nat PROVE \E f : DownTo(S, j, f)
<1> DEFINE F == {k \in Nat : \E f : DownTo(S, k, f)}
<1>1. 0 \in F
  <2> DEFINE f == [i \in 0..0 |-> <<>>]
  <2>1. DownTo(S, 0, f)
    BY DEF DownTo
  <2> QED  BY <2>1
<1>2. ASSUME NEW k \in F PROVE k + 1 \in F
  <2>1. k \in Nat
    OBVIOUS
  <2>2. PICK u : DownTo(S, k, u)
    BY <1>2
  <2> DEFINE Next(v, i) == IF i = 0 THEN <<>>
                           ELSE IF MaxHeight + 1 - i \in S THEN Append(v, MaxHeight + 1 - i)
                           ELSE v
             f == [i \in 0..k + 1 |-> IF i = k + 1 THEN Next(u[k], i) ELSE u[i]]
  <2>3. \A i \in 0..k : u[i] = Next(u[i - 1], i)
    BY <2>2 DEF DownTo
  <2>4. ASSUME NEW i \in 0..k + 1 PROVE f[i] = Next(f[i - 1], i)
    <3>1. CASE i = k + 1
      <4>1. i - 1 = k /\ k \in 0..k + 1 /\ k # k + 1
        BY <2>1, <3>1
      <4>2. f[k] = u[k] /\ f[i] = Next(u[k], i)
        BY <3>1, <4>1
      <4> QED  BY <4>1, <4>2
    <3>2. CASE i # k + 1
      <4>1. i \in 0..k /\ (i # 0 => i - 1 \in 0..k + 1 /\ i - 1 # k + 1)
        BY <2>1, <3>2
      <4>2. f[i] = u[i] /\ (i # 0 => f[i - 1] = u[i - 1])
        BY <3>2, <4>1
      <4> HIDE DEF f
      <4> QED  BY <2>3, <4>1, <4>2
    <3> QED  BY <3>1, <3>2
  <2>5. DownTo(S, k + 1, f)
    BY <2>4 DEF DownTo
  <2> QED  BY <2>1, <2>5
<1>3. Nat \subseteq F
  <2> HIDE DEF F
  <2> QED  BY <1>1, <1>2, NumberInduction
<1> QED  BY <1>3

\* s lists the elements of S that are at least b, tallest first.
Lists(s, S, b) ==
  /\ s \in Seq(Nat)
  /\ \A k \in 1..Len(s) : s[k] \in S /\ s[k] >= b
  /\ \A h \in S : h >= b => \E k \in 1..Len(s) : s[k] = h
  /\ \A j, k \in 1..Len(s) : j < k => s[j] > s[k]

LEMMA DescendingLists == ASSUME NEW S \in SUBSET Heights PROVE Lists(Descending(S), S, 0)
<1>1. PICK top \in Nat : top = MaxHeight + 1 /\ S \subseteq 0..top - 1
  BY RangeAssumption DEF Heights
<1>2. PICK f : Descending(S) = f[top] /\ DownTo(S, top, f)
  <2> DEFINE g == CHOOSE g : DownTo(S, top, g)
  <2>1. Descending(S) = g[top]
    BY <1>1 DEF Descending, DownTo
  <2>2. DownTo(S, top, g)
    BY <1>1, DownToExists
  <2> QED  BY <2>1, <2>2
<1>3. ASSUME NEW i \in 0..top
      PROVE  f[i] = IF i = 0 THEN <<>>
                    ELSE IF top - i \in S THEN Append(f[i - 1], top - i)
                    ELSE f[i - 1]
  <2>1. f[i] = IF i = 0 THEN <<>>
               ELSE IF MaxHeight + 1 - i \in S THEN Append(f[i - 1], MaxHeight + 1 - i)
               ELSE f[i - 1]
    BY <1>2 DEF DownTo
  <2>2. MaxHeight + 1 - i = top - i
    BY <1>1, RangeAssumption
  <2> QED  BY <2>1, <2>2
<1> DEFINE F == {k \in Nat : k <= top => Lists(f[k], S, top - k)}
<1>5. 0 \in F
  <2>1. f[0] = <<>> /\ <<>> \in Seq(Nat) /\ Len(<<>>) = 0
    BY <1>1, <1>3
  <2>2. \A h \in S : ~(h >= top)
    BY <1>1
  <2>3. Lists(f[0], S, top - 0)
    BY <1>1, <2>1, <2>2 DEF Lists
  <2> QED  BY <2>3
<1>6. ASSUME NEW k \in F PROVE k + 1 \in F
  <2> SUFFICES ASSUME k + 1 <= top PROVE Lists(f[k + 1], S, top - (k + 1))
    OBVIOUS
  <2>1. PICK b, s, t : b = top - (k + 1) /\ s = f[k] /\ t = f[k + 1]
    OBVIOUS
  <2>2. k \in Nat /\ k + 1 \in 0..top /\ k + 1 # 0 /\ (k + 1) - 1 = k /\ top - k = b + 1 /\ b \in Nat
    BY <1>1, <2>1
  <2>3. Lists(s, S, b + 1)
    BY <1>1, <2>1, <2>2
  <2>4. t = IF b \in S THEN Append(s, b) ELSE s
    BY <1>3, <2>1, <2>2
  <2>5. s \in Seq(Nat) /\ Len(s) \in Nat
    BY <2>3 DEF Lists
  <2>6. CASE b \notin S
    <3>1. \A h \in S : h >= b => h >= b + 1
      BY <1>1, <2>2, <2>6
    <3>2. \A m \in 1..Len(s) : s[m] >= b
      BY <2>2, <2>3, <2>5 DEF Lists
    <3> QED  BY <2>1, <2>3, <2>4, <2>6, <3>1, <3>2 DEF Lists
  <2>7. CASE b \in S
    <3>1. /\ t \in Seq(Nat) /\ Len(t) = Len(s) + 1
          /\ \A m \in 1..Len(s) : t[m] = s[m] /\ t[Len(s) + 1] = b
          /\ t[Len(s) + 1] = b
      BY <2>2, <2>4, <2>5, <2>7, AppendProperties
    <3>2. \A m \in 1..Len(t) : t[m] \in S /\ t[m] >= b
      <4>1. ASSUME NEW m \in 1..Len(s) PROVE t[m] \in S /\ t[m] >= b
        <5>1. s[m] \in S /\ s[m] >= b + 1 /\ s[m] \in Nat
          BY <2>3, <2>5 DEF Lists
        <5> QED  BY <2>2, <3>1, <5>1
      <4> QED  BY <2>2, <2>5, <2>7, <3>1, <4>1
    <3>3. ASSUME NEW h \in S, h >= b PROVE \E m \in 1..Len(t) : t[m] = h
      <4>1. CASE h = b
        BY <2>5, <3>1, <4>1
      <4>2. CASE h # b
        <5>1. h >= b + 1
          BY <1>1, <2>2, <3>3, <4>2
        <5>2. PICK m \in 1..Len(s) : s[m] = h
          BY <2>3, <5>1 DEF Lists
        <5> QED  BY <2>5, <3>1, <5>2
      <4> QED  BY <4>1, <4>2
    <3>4. ASSUME NEW i \in 1..Len(t), NEW m \in 1..Len(t), i < m PROVE t[i] > t[m]
      <4>1. i \in 1..Len(s) /\ t[i] = s[i] /\ s[i] \in Nat /\ s[i] >= b + 1
        <5>1. i \in 1..Len(s)
          BY <2>5, <3>1, <3>4
        <5> QED  BY <2>3, <2>5, <3>1, <5>1 DEF Lists
      <4>2. CASE m = Len(s) + 1
        BY <2>2, <3>1, <4>1, <4>2
      <4>3. CASE m # Len(s) + 1
        <5>1. m \in 1..Len(s) /\ t[m] = s[m]
          BY <2>5, <3>1, <4>3
        <5>2. s[i] > s[m]
          BY <2>3, <3>4, <4>1, <5>1 DEF Lists
        <5> QED  BY <4>1, <5>1, <5>2
      <4> QED  BY <4>2, <4>3
    <3> QED  BY <2>1, <3>1, <3>2, <3>3, <3>4 DEF Lists
  <2> QED  BY <2>6, <2>7
<1>7. Nat \subseteq F
  <2> HIDE DEF F
  <2> QED  BY <1>5, <1>6, NumberInduction
<1>8. top - top = 0
  BY <1>1
<1> QED  BY <1>1, <1>2, <1>7, <1>8

(***************************************************************************)
(* Where the subtrees of a list of heights start.                          *)
(***************************************************************************)

Running(heights, n, f) ==
  f = [k \in 1..n |-> IF k = 1 THEN 0 ELSE f[k - 1] + 2^heights[k - 1]]

LEMMA RunningExists == ASSUME NEW heights, NEW n \in Nat PROVE \E f : Running(heights, n + 1, f)
<1> DEFINE F == {k \in Nat : \E f : Running(heights, k + 1, f)}
<1>1. 0 \in F
  <2> DEFINE f == [k \in 1..0 + 1 |-> 0]
  <2>1. Running(heights, 0 + 1, f)
    BY DEF Running
  <2> QED  BY <2>1
<1>2. ASSUME NEW k \in F PROVE k + 1 \in F
  <2>1. PICK m \in Nat : m = k + 1
    OBVIOUS
  <2>2. PICK u : Running(heights, m, u)
    BY <1>2, <2>1
  <2> DEFINE f == [i \in 1..m + 1 |-> IF i = m + 1 THEN u[m] + 2^heights[m] ELSE u[i]]
  <2>3. \A i \in 1..m : u[i] = IF i = 1 THEN 0 ELSE u[i - 1] + 2^heights[i - 1]
    BY <2>2 DEF Running
  <2>4. ASSUME NEW i \in 1..m + 1
        PROVE  f[i] = IF i = 1 THEN 0 ELSE f[i - 1] + 2^heights[i - 1]
    <3>1. CASE i = m + 1
      <4>1. i - 1 = m /\ m \in 1..m + 1 /\ m # m + 1 /\ i # 1
        BY <2>1, <3>1
      <4>2. f[m] = u[m] /\ f[i] = u[m] + 2^heights[m]
        BY <3>1, <4>1
      <4> QED  BY <4>1, <4>2
    <3>2. CASE i # m + 1
      <4>1. i \in 1..m /\ (i # 1 => i - 1 \in 1..m + 1 /\ i - 1 # m + 1)
        BY <2>1, <3>2
      <4>2. f[i] = u[i] /\ (i # 1 => f[i - 1] = u[i - 1])
        BY <3>2, <4>1
      <4> HIDE DEF f
      <4> QED  BY <2>3, <4>1, <4>2
    <3> QED  BY <3>1, <3>2
  <2>5. Running(heights, m + 1, f)
    BY <2>4 DEF Running
  <2> QED  BY <2>1, <2>5
<1>3. Nat \subseteq F
  <2> HIDE DEF F
  <2> QED  BY <1>1, <1>2, NumberInduction
<1> QED  BY <1>3

LEMMA StartsRun ==
  ASSUME NEW heights \in Seq(Nat)
  PROVE  /\ Starts(heights)[1] = 0
         /\ \A k \in 1..Len(heights) : Starts(heights)[k + 1] = Starts(heights)[k] + 2^heights[k]
         /\ \A k \in 1..Len(heights) + 1 : Starts(heights)[k] \in Nat
<1>1. PICK n \in Nat : n = Len(heights)
  BY LenProperties
<1>2. PICK f : Running(heights, n + 1, f) /\ Starts(heights) = f
  <2> DEFINE g == CHOOSE g : Running(heights, n + 1, g)
  <2>1. Starts(heights) = g
    BY <1>1 DEF Starts, Running
  <2>2. Running(heights, n + 1, g)
    BY RunningExists
  <2> QED  BY <2>1, <2>2
<1>3. \A k \in 1..n + 1 : f[k] = IF k = 1 THEN 0 ELSE f[k - 1] + 2^heights[k - 1]
  BY <1>2 DEF Running
<1>4. f[1] = 0
  BY <1>3
<1>5. ASSUME NEW k \in 1..n PROVE f[k + 1] = f[k] + 2^heights[k]
  <2>1. k + 1 \in 1..n + 1 /\ k + 1 # 1 /\ (k + 1) - 1 = k
    OBVIOUS
  <2> QED  BY <1>3, <2>1
<1> DEFINE F == {k \in Nat : k <= n => f[k + 1] \in Nat}
<1>6. 0 \in F
  BY <1>4
<1>7. ASSUME NEW k \in F PROVE k + 1 \in F
  <2> SUFFICES ASSUME k + 1 <= n PROVE f[(k + 1) + 1] \in Nat
    OBVIOUS
  <2>1. k \in Nat /\ k + 1 \in 1..n /\ f[k + 1] \in Nat
    OBVIOUS
  <2>2. heights[k + 1] \in Nat
    BY <1>1, <2>1, ElementOfSeq
  <2>3. f[(k + 1) + 1] = f[k + 1] + 2^heights[k + 1]
    BY <1>5, <2>1
  <2> QED  BY <2>1, <2>2, <2>3, PowerOfTwo
<1>8. Nat \subseteq F
  <2> HIDE DEF F
  <2> QED  BY <1>6, <1>7, NumberInduction
<1>9. ASSUME NEW k \in 1..n + 1 PROVE f[k] \in Nat
  <2>1. k - 1 \in Nat /\ k - 1 <= n /\ (k - 1) + 1 = k
    OBVIOUS
  <2>2. k - 1 \in F
    BY <1>8, <2>1
  <2> QED  BY <2>1, <2>2
<1> QED  BY <1>1, <1>2, <1>4, <1>5, <1>9

LEMMA StartsOrdered ==
  ASSUME NEW heights \in Seq(Nat), NEW j \in 1..Len(heights) + 1, NEW k \in 1..Len(heights) + 1,
         j <= k
  PROVE  Starts(heights)[j] <= Starts(heights)[k]
<1>0. PICK f : f = Starts(heights)
  OBVIOUS
<1>1. PICK n \in Nat : n = Len(heights) /\ f = Starts(heights)
  BY <1>0, LenProperties
<1>2. /\ \A i \in 1..n : f[i + 1] = f[i] + 2^heights[i]
      /\ \A i \in 1..n + 1 : f[i] \in Nat
  BY <1>1, StartsRun
<1> DEFINE F == {i \in Nat : j + i <= n + 1 => f[j] <= f[j + i]}
<1>3. 0 \in F
  <2>1. j + 0 = j /\ f[j] \in Nat
    BY <1>1, <1>2
  <2> QED  BY <2>1
<1>4. ASSUME NEW i \in F PROVE i + 1 \in F
  <2> SUFFICES ASSUME j + (i + 1) <= n + 1 PROVE f[j] <= f[j + (i + 1)]
    OBVIOUS
  <2>1. PICK m : m = j + i
    OBVIOUS
  <2>2. /\ i \in Nat /\ m \in 1..n /\ m + 1 \in 1..n + 1 /\ m \in 1..n + 1 /\ j \in 1..n + 1
        /\ j + (i + 1) = m + 1 /\ f[j] <= f[m]
    BY <1>1, <2>1
  <2>3. heights[m] \in Nat
    BY <1>1, <2>2, ElementOfSeq
  <2>4. PICK w \in Nat : f[m + 1] = f[m] + w
    BY <1>2, <2>2, <2>3, PowerOfTwo
  <2>5. f[m] \in Nat /\ f[j] \in Nat
    BY <1>2, <2>2
  <2>6. f[j] <= f[m + 1]
    BY <2>2, <2>4, <2>5
  <2> QED  BY <2>2, <2>6
<1>5. Nat \subseteq F
  <2> HIDE DEF F
  <2> QED  BY <1>3, <1>4, NumberInduction
<1>6. k - j \in Nat /\ j + (k - j) = k /\ k <= n + 1
  BY <1>1
<1>7. k - j \in F
  BY <1>5, <1>6
<1> QED  BY <1>1, <1>6, <1>7

\* The leaves of a list of subtrees are those before its last start: each is in one.
LEMMA StartsCover ==
  ASSUME NEW heights \in Seq(Nat), NEW i \in Nat, i < Starts(heights)[Len(heights) + 1]
  PROVE  \E k \in 1..Len(heights) :
           Starts(heights)[k] <= i /\ i < Starts(heights)[k] + 2^heights[k]
<1>0. PICK f : f = Starts(heights)
  OBVIOUS
<1>1. PICK n \in Nat : n = Len(heights) /\ f = Starts(heights)
  BY <1>0, LenProperties
<1>2. /\ f[1] = 0
      /\ \A k \in 1..n : f[k + 1] = f[k] + 2^heights[k]
      /\ \A k \in 1..n + 1 : f[k] \in Nat
  BY <1>1, StartsRun
<1> SUFFICES ASSUME \A k \in 1..n : ~(f[k] <= i /\ i < f[k + 1]) PROVE FALSE
  BY <1>1, <1>2
<1> DEFINE F == {k \in Nat : k <= n => f[k + 1] <= i}
<1>3. 0 \in F
  BY <1>2
<1>4. ASSUME NEW k \in F PROVE k + 1 \in F
  <2> SUFFICES ASSUME k + 1 <= n PROVE f[(k + 1) + 1] <= i
    OBVIOUS
  <2>1. k \in Nat /\ k + 1 \in 1..n /\ f[k + 1] <= i /\ (k + 1) + 1 \in 1..n + 1
    OBVIOUS
  <2>2. f[(k + 1) + 1] \in Nat /\ ~(i < f[(k + 1) + 1])
    BY <1>2, <2>1
  <2> QED  BY <2>2
<1>5. Nat \subseteq F
  <2> HIDE DEF F
  <2> QED  BY <1>3, <1>4, NumberInduction
<1>6. f[n + 1] <= i /\ f[n + 1] \in Nat
  BY <1>2, <1>5
<1> QED  BY <1>1, <1>6

(***************************************************************************)
(* The peaks of n leaves start where the higher bits of n say.             *)
(***************************************************************************)

LEMMA PeakStarts ==
  ASSUME NEW n \in Nat, n < 2^(MaxHeight + 1)
  PROVE  LET H == PeakHeights(n) IN
         /\ H \in Seq(Nat)
         /\ \A k \in 1..Len(H) :
              H[k] \in Heights /\ Bit(n, H[k]) = 1 /\ Starts(H)[k] = High(n, H[k] + 1)
         /\ Starts(H)[Len(H) + 1] = n
         /\ \A h \in Heights : Bit(n, h) = 1 => \E k \in 1..Len(H) : H[k] = h
         /\ \A j, k \in 1..Len(H) : H[j] = H[k] => j = k
<1> DEFINE S == {h \in Heights : Bit(n, h) = 1}
<1>1. PICK H, l, f : H = PeakHeights(n) /\ l = Len(H) /\ f = Starts(H)
  OBVIOUS
<1>2. Lists(H, S, 0)
  BY <1>1, DescendingLists DEF PeakHeights
<1>3. H \in Seq(Nat) /\ l \in Nat
  BY <1>1, <1>2, LenProperties DEF Lists
<1>4. /\ f[1] = 0
      /\ \A k \in 1..l : f[k + 1] = f[k] + 2^H[k]
      /\ \A k \in 1..l + 1 : f[k] \in Nat
  BY <1>1, <1>3, StartsRun
<1>5. /\ \A k \in 1..l : H[k] \in Heights /\ Bit(n, H[k]) = 1
      /\ \A h \in Heights : Bit(n, h) = 1 => \E k \in 1..l : H[k] = h
      /\ \A j, k \in 1..l : j < k => H[j] > H[k]
  BY <1>1, <1>2 DEF Lists, Heights
<1>6. MaxHeight \in Nat /\ Heights \subseteq Nat /\ \A h \in Heights : h < MaxHeight + 1
  BY RangeAssumption DEF Heights
<1>7. \A k \in 1..l : H[k] \in Nat /\ H[k] < MaxHeight + 1
  BY <1>5, <1>6
<1> DEFINE Low(k) == IF k = 0 THEN MaxHeight + 1 ELSE H[k]
           Next(k) == IF k = l THEN 0 ELSE H[k + 1] + 1
\* Between two neighbours of the list no bit is set.
<1>8. ASSUME NEW k \in 0..l
      PROVE  /\ Low(k) \in Nat /\ Next(k) \in Nat /\ Next(k) <= Low(k)
             /\ High(n, Next(k)) = High(n, Low(k))
  <2>1. Low(k) \in Nat /\ Next(k) \in Nat /\ Next(k) <= Low(k)
    <3>1. k = 0 \/ k \in 1..l
      BY <1>3
    <3>2. k = l \/ k + 1 \in 1..l
      BY <1>3
    <3>3. Low(k) \in Nat
      BY <1>6, <1>7, <3>1
    <3>4. Next(k) \in Nat
      BY <1>7, <3>2
    <3>5. k \in 1..l /\ k + 1 \in 1..l => H[k + 1] < H[k]
      <4> SUFFICES ASSUME k \in 1..l, k + 1 \in 1..l PROVE H[k + 1] < H[k]
        OBVIOUS
      <4>1. k < k + 1
        OBVIOUS
      <4>2. H[k] > H[k + 1]
        BY <1>5, <4>1
      <4> QED  BY <1>7, <4>2
    <3>6. k = l => Next(k) <= Low(k)
      BY <3>3
    <3>7. k # l /\ k = 0 => Next(k) <= Low(k)
      BY <1>6, <1>7, <3>2
    <3>8. k # l /\ k # 0 => Next(k) <= Low(k)
      BY <1>7, <3>1, <3>2, <3>5
    <3> QED  BY <3>3, <3>4, <3>6, <3>7, <3>8
  <2>2. ASSUME NEW g \in Nat, Next(k) <= g, g < Low(k) PROVE Bit(n, g) = 0
    <3>1. g \in Heights
      <4>1. k = 0 \/ k \in 1..l
        BY <1>3
      <4>2. g < MaxHeight + 1
        BY <1>5, <1>6, <2>1, <2>2, <4>1
      <4> QED  BY <1>6, <4>2 DEF Heights
    <3>2. ASSUME NEW j \in 1..l, H[j] = g PROVE FALSE
      <4>1. CASE j <= k
        <5>1. k \in 1..l /\ k # 0
          BY <1>3, <4>1
        <5>2. H[k] <= H[j]
          <6>1. H[k] \in Nat
            BY <1>5, <1>6, <5>1
          <6>2. j = k \/ j < k
            BY <4>1
          <6> QED  BY <1>5, <3>2, <5>1, <6>1, <6>2
        <5> QED  BY <2>1, <2>2, <3>2, <5>1, <5>2
      <4>2. CASE ~(j <= k)
        <5>1. k + 1 \in 1..l /\ k # l /\ k + 1 <= j
          BY <1>3, <4>2
        <5>2. H[j] <= H[k + 1] /\ H[k + 1] \in Nat
          <6>1. H[k + 1] \in Nat
            BY <1>5, <1>6, <5>1
          <6>2. j = k + 1 \/ k + 1 < j
            BY <5>1
          <6> QED  BY <1>5, <3>2, <5>1, <6>1, <6>2
        <5> QED  BY <2>1, <2>2, <3>2, <5>1, <5>2
      <4> QED  BY <4>1, <4>2
    <3>3. Bit(n, g) \in {0, 1}
      BY Halving
    <3> QED  BY <1>5, <3>1, <3>2, <3>3
  <2> HIDE DEF Low, Next
  <2> QED  BY <2>1, <2>2, HighConstant
<1> DEFINE F == {k \in Nat : k <= l => f[k + 1] = High(n, Low(k))}
<1>9. 0 \in F
  BY <1>4, <1>6, HighVanishes
<1>10. ASSUME NEW k \in F PROVE k + 1 \in F
  <2> SUFFICES ASSUME k + 1 <= l PROVE f[(k + 1) + 1] = High(n, Low(k + 1))
    OBVIOUS
  <2>1. k \in Nat /\ k \in 0..l /\ k + 1 \in 1..l /\ k # l /\ k + 1 # 0
    BY <1>3
  <2>2. f[k + 1] = High(n, Low(k)) /\ f[(k + 1) + 1] = f[k + 1] + 2^H[k + 1]
    BY <1>4, <2>1
  <2>3. High(n, Low(k)) = High(n, H[k + 1] + 1)
    BY <1>8, <2>1
  <2>4. H[k + 1] \in Nat /\ Bit(n, H[k + 1]) = 1
    BY <1>5, <1>6, <2>1
  <2>5. High(n, H[k + 1]) = High(n, H[k + 1] + 1) + 2^H[k + 1]
    BY <2>4, Highest
  <2> QED  BY <2>1, <2>2, <2>3, <2>5
<1>11. Nat \subseteq F
  <2> HIDE DEF F
  <2> QED  BY <1>9, <1>10, NumberInduction
<1>12. f[l + 1] = n
  <2>1. f[l + 1] = High(n, Low(l)) /\ l \in 0..l
    BY <1>3, <1>11
  <2>2. High(n, Low(l)) = High(n, Next(l)) /\ Next(l) = 0
    BY <1>8, <2>1
  <2> QED  BY <2>1, <2>2, TopZero
<1>13. ASSUME NEW k \in 1..l PROVE f[k] = High(n, H[k] + 1)
  <2>1. PICK j \in 0..l : k = j + 1 /\ j \in Nat /\ j <= l /\ j # l
    <3>1. k - 1 \in 0..l /\ k = (k - 1) + 1 /\ k - 1 \in Nat /\ k - 1 <= l /\ k - 1 # l
      BY <1>3
    <3> QED  BY <3>1
  <2>2. f[k] = High(n, Low(j))
    BY <1>11, <2>1
  <2>3. High(n, Low(j)) = High(n, Next(j)) /\ Next(j) = H[k] + 1
    BY <1>8, <2>1
  <2> QED  BY <2>2, <2>3
<1>14. ASSUME NEW j \in 1..l, NEW k \in 1..l, H[j] = H[k] PROVE j = k
  <2>1. H[j] \in Nat /\ H[k] \in Nat
    BY <1>5, <1>6
  <2>2. ~(j < k) /\ ~(k < j)
    BY <1>5, <1>14, <2>1
  <2> QED  BY <2>2
<1> QED  BY <1>1, <1>3, <1>5, <1>12, <1>13, <1>14

(***************************************************************************)
(* Perfect subtrees.                                                       *)
(***************************************************************************)

Levels(c, k, f) ==
  f = [h \in 0..k |->
        [s \in Nat |-> IF h = 0 THEN Leaf(c[s + 1])
                       ELSE Node(f[h - 1][s], f[h - 1][s + 2^(h - 1)])]]

LEMMA LevelsExist == ASSUME NEW c, NEW k \in Nat PROVE \E f : Levels(c, k, f)
<1> DEFINE F == {j \in Nat : \E f : Levels(c, j, f)}
           Next(v, h) == [s \in Nat |-> IF h = 0 THEN Leaf(c[s + 1])
                                        ELSE Node(v[s], v[s + 2^(h - 1)])]
<1>1. 0 \in F
  <2> DEFINE f == [h \in 0..0 |-> [s \in Nat |-> Leaf(c[s + 1])]]
  <2>1. Levels(c, 0, f)
    BY DEF Levels
  <2> QED  BY <2>1
<1>2. ASSUME NEW j \in F PROVE j + 1 \in F
  <2>1. PICK m \in Nat : m = j + 1 /\ m # 0 /\ m - 1 \in 0..m
    OBVIOUS
  <2>2. PICK u : Levels(c, m - 1, u)
    BY <1>2, <2>1
  <2> DEFINE f == [h \in 0..m |-> IF h = m THEN Next(u[m - 1], m) ELSE u[h]]
  <2>3. \A h \in 0..m - 1 : u[h] = Next(u[h - 1], h)
    BY <2>2 DEF Levels
  <2> HIDE DEF Next
  <2>4. ASSUME NEW h \in 0..m PROVE f[h] = Next(f[h - 1], h)
    <3>1. CASE h = m
      <4>1. m - 1 \in 0..m /\ m - 1 # m
        BY <2>1
      <4>2. f[m - 1] = u[m - 1] /\ f[h] = Next(u[m - 1], m)
        BY <3>1, <4>1
      <4> QED  BY <3>1, <4>2
    <3>2. CASE h # m
      <4>1. h \in 0..m - 1 /\ (h # 0 => h - 1 \in 0..m /\ h - 1 # m)
        BY <2>1, <3>2
      <4>2. f[h] = u[h] /\ (h # 0 => f[h - 1] = u[h - 1])
        BY <3>2, <4>1
      <4>3. h # 0 => f[h] = Next(f[h - 1], h)
        BY <2>3, <4>1, <4>2
      <4>4. \A v, w : Next(v, 0) = Next(w, 0)
        BY DEF Next
      <4>5. h = 0 => f[h] = Next(f[h - 1], h)
        <5> SUFFICES ASSUME h = 0 PROVE f[h] = Next(f[h - 1], 0)
          OBVIOUS
        <5>1. f[h] = Next(u[h - 1], 0)
          BY <2>3, <4>1, <4>2
        <5> HIDE DEF f
        <5> QED  BY <4>4, <5>1
      <4> QED  BY <4>3, <4>5
    <3> QED  BY <3>1, <3>2
  <2>5. f = [h \in 0..m |-> Next(f[h - 1], h)]
    <3>1. \A h \in 0..m : f[h] = Next(f[h - 1], h)
      BY <2>4
    <3>2. f = [h \in 0..m |-> f[h]]
      OBVIOUS
    <3> HIDE DEF f
    <3> QED  BY <3>1, <3>2
  <2>6. Levels(c, m, f)
    <3> HIDE DEF f
    <3> QED  BY <2>5 DEF Levels, Next
  <2> QED  BY <2>1, <2>6
<1>3. Nat \subseteq F
  <2> HIDE DEF F
  <2> QED  BY <1>1, <1>2, NumberInduction
<1> QED  BY <1>3

LEMMA LevelZero ==
  ASSUME NEW c, NEW k \in Nat, NEW f, Levels(c, k, f), NEW s \in Nat
  PROVE  f[0][s] = Leaf(c[s + 1])
<1>1. f[0] = [x \in Nat |-> IF 0 = 0 THEN Leaf(c[x + 1])
                           ELSE Node(f[0 - 1][x], f[0 - 1][x + 2^(0 - 1)])]
  BY DEF Levels
<1> QED  BY <1>1

\* The subtree above the one at s and its neighbour.
Above(f, h, s) == Node(f[h][s], f[h][s + 2^h])

LEMMA LevelNext ==
  ASSUME NEW c, NEW k \in Nat, NEW f, Levels(c, k, f), NEW h \in Nat, h + 1 <= k, NEW s \in Nat
  PROVE  f[h + 1][s] = Above(f, h, s)
<1>1. PICK m : m = h + 1 /\ m \in 0..k /\ m # 0 /\ m - 1 = h
  OBVIOUS
<1>2. f[m] = [x \in Nat |-> IF m = 0 THEN Leaf(c[x + 1])
                           ELSE Node(f[m - 1][x], f[m - 1][x + 2^(m - 1)])]
  BY <1>1 DEF Levels
<1>3. f[m][s] = Node(f[m - 1][s], f[m - 1][s + 2^(m - 1)])
  BY <1>1, <1>2
<1> QED  BY <1>1, <1>3 DEF Above

\* The same 2^h leaves, from s in c and from t in d.
Alike(c, s, d, t, h) == \A i \in 0..2^h - 1 : c[s + i + 1] = d[t + i + 1]

LEMMA AlikeHalves ==
  ASSUME NEW c, NEW d, NEW h \in Nat, NEW s \in Nat, NEW t \in Nat, Alike(c, s, d, t, h + 1)
  PROVE  Alike(c, s, d, t, h) /\ Alike(c, s + 2^h, d, t + 2^h, h)
<1>1. PICK w \in Nat : w = 2^h /\ 2^(h + 1) = w + w
  BY PowerOfTwo
<1>2. \A i \in 0..(w + w) - 1 : c[s + i + 1] = d[t + i + 1]
  BY <1>1 DEF Alike
<1>3. Alike(c, s, d, t, h)
  <2>1. \A i \in 0..w - 1 : i \in 0..(w + w) - 1
    OBVIOUS
  <2> QED  BY <1>1, <1>2, <2>1 DEF Alike
<1>4. ASSUME NEW i \in 0..w - 1 PROVE c[(s + w) + i + 1] = d[(t + w) + i + 1]
  <2>1. w + i \in 0..(w + w) - 1 /\ (s + w) + i + 1 = s + (w + i) + 1
        /\ (t + w) + i + 1 = t + (w + i) + 1
    OBVIOUS
  <2>2. c[s + (w + i) + 1] = d[t + (w + i) + 1]
    BY <1>2, <2>1
  <2> QED  BY <2>1, <2>2
<1> QED  BY <1>1, <1>3, <1>4 DEF Alike

\* The root of a subtree depends on its leaves only.
LEMMA LevelsAgree ==
  ASSUME NEW c, NEW d, NEW k \in Nat, NEW l \in Nat, NEW f, NEW g, Levels(c, k, f), Levels(d, l, g),
         NEW h \in Nat, h <= k, h <= l, NEW s \in Nat, NEW t \in Nat, Alike(c, s, d, t, h)
  PROVE  f[h][s] = g[h][t]
<1> DEFINE F == {j \in Nat : j <= k /\ j <= l =>
                               \A x, y \in Nat : Alike(c, x, d, y, j) => f[j][x] = g[j][y]}
<1>1. 0 \in F
  <2> SUFFICES ASSUME NEW x \in Nat, NEW y \in Nat, Alike(c, x, d, y, 0) PROVE f[0][x] = g[0][y]
    OBVIOUS
  <2>1. c[x + 1] = d[y + 1]
    <3>1. 0 \in 0..2^0 - 1 /\ x + 0 + 1 = x + 1 /\ y + 0 + 1 = y + 1
      BY PowerZero
    <3>2. c[x + 0 + 1] = d[y + 0 + 1]
      BY <3>1 DEF Alike
    <3> QED  BY <3>1, <3>2
  <2>2. 0 \in 0..k /\ 0 \in 0..l
    OBVIOUS
  <2>3. f[0][x] = Leaf(c[x + 1]) /\ g[0][y] = Leaf(d[y + 1])
    BY LevelZero
  <2> QED  BY <2>1, <2>3
<1>2. ASSUME NEW j \in F PROVE j + 1 \in F
  <2> SUFFICES ASSUME j + 1 <= k, j + 1 <= l, NEW x \in Nat, NEW y \in Nat,
                      Alike(c, x, d, y, j + 1)
               PROVE  f[j + 1][x] = g[j + 1][y]
    OBVIOUS
  <2>1. j \in Nat /\ j + 1 \in 0..k /\ j + 1 \in 0..l /\ j + 1 # 0 /\ (j + 1) - 1 = j
    OBVIOUS
  <2>2. \A p, q \in Nat : Alike(c, p, d, q, j) => f[j][p] = g[j][q]
    BY <2>1
  <2> HIDE DEF F
  <2>3. PICK w \in Nat : w = 2^j
    BY <2>1, PowerOfTwo
  <2>4. Alike(c, x, d, y, j) /\ Alike(c, x + w, d, y + w, j)
    BY <2>1, <2>3, AlikeHalves
  <2>5. x + w \in Nat /\ y + w \in Nat
    OBVIOUS
  <2>6. f[j][x] = g[j][y] /\ f[j][x + w] = g[j][y + w]
    BY <2>2, <2>4, <2>5
  <2>7. f[j + 1][x] = Node(f[j][x], f[j][x + w])
    <3>1. f[j + 1][x] = Above(f, j, x)
      BY <2>1, LevelNext
    <3> QED  BY <2>3, <3>1 DEF Above
  <2>8. g[j + 1][y] = Node(g[j][y], g[j][y + w])
    <3>1. g[j + 1][y] = Above(g, j, y)
      BY <2>1, LevelNext
    <3> QED  BY <2>3, <3>1 DEF Above
  <2> QED  BY <2>6, <2>7, <2>8
<1>3. Nat \subseteq F
  <2> HIDE DEF F
  <2> QED  BY <1>1, <1>2, NumberInduction
<1>4. h \in F
  <2> HIDE DEF F
  <2> QED  BY <1>3
<1> QED  BY <1>4

LEMMA RootOfLevels ==
  ASSUME NEW c, NEW h \in Nat
  PROVE  \E f : Levels(c, h, f) /\ \A s : SubtreeRoot(c, s, h) = f[h][s]
<1> DEFINE f == CHOOSE f : Levels(c, h, f)
<1>1. Levels(c, h, f)
  BY LevelsExist
<1>2. \A s : SubtreeRoot(c, s, h) = f[h][s]
  BY DEF SubtreeRoot, Levels
<1> QED  BY <1>1, <1>2

LEMMA SubtreeAgrees ==
  ASSUME NEW c, NEW d, NEW h \in Nat, NEW s \in Nat, NEW t \in Nat, Alike(c, s, d, t, h)
  PROVE  SubtreeRoot(c, s, h) = SubtreeRoot(d, t, h)
<1>1. PICK f : Levels(c, h, f) /\ SubtreeRoot(c, s, h) = f[h][s]
  BY RootOfLevels
<1>2. PICK g : Levels(d, h, g) /\ SubtreeRoot(d, t, h) = g[h][t]
  BY RootOfLevels
<1>3. f[h][s] = g[h][t]
  BY <1>1, <1>2, LevelsAgree
<1> QED  BY <1>1, <1>2, <1>3

LEMMA SubtreeParts ==
  ASSUME NEW c, NEW s \in Nat
  PROVE  /\ SubtreeRoot(c, s, 0) = Leaf(c[s + 1])
         /\ \A h \in Nat : SubtreeRoot(c, s, h + 1)
                             = Node(SubtreeRoot(c, s, h), SubtreeRoot(c, s + 2^h, h))
<1>1. SubtreeRoot(c, s, 0) = Leaf(c[s + 1])
  <2>1. PICK f : Levels(c, 0, f) /\ SubtreeRoot(c, s, 0) = f[0][s]
    BY RootOfLevels
  <2> QED  BY <2>1 DEF Levels
<1>2. ASSUME NEW h \in Nat
      PROVE  SubtreeRoot(c, s, h + 1) = Node(SubtreeRoot(c, s, h), SubtreeRoot(c, s + 2^h, h))
  <2>1. PICK m \in Nat, w \in Nat : m = h + 1 /\ w = 2^h
    BY PowerOfTwo
  <2>2. PICK f : Levels(c, h, f) /\ \A x : SubtreeRoot(c, x, h) = f[h][x]
    BY RootOfLevels
  <2>3. PICK g : Levels(c, m, g) /\ \A x : SubtreeRoot(c, x, m) = g[m][x]
    BY RootOfLevels
  <2>4. m \in 0..m /\ m # 0 /\ m - 1 = h /\ h <= m /\ h <= h
    BY <2>1
  <2>5. g[m][s] = Node(g[h][s], g[h][s + w])
    <3>1. g[h + 1][s] = Above(g, h, s)
      BY <2>1, <2>3, LevelNext
    <3> QED  BY <2>1, <3>1 DEF Above
  <2>6. ASSUME NEW x \in Nat PROVE g[h][x] = f[h][x]
    <3>1. Alike(c, x, c, x, h)
      BY DEF Alike
    <3> QED  BY <2>2, <2>3, <2>4, <3>1, LevelsAgree
  <2>7. g[h][s] = f[h][s] /\ g[h][s + w] = f[h][s + w]
    <3>1. s + w \in Nat
      OBVIOUS
    <3> QED  BY <2>6, <3>1
  <2> QED  BY <2>1, <2>2, <2>3, <2>5, <2>7
<1> QED  BY <1>1, <1>2

(***************************************************************************)
(* The tallest subtree that fits at a position, and the decomposition of   *)
(* an aligned range of leaves.                                             *)
(***************************************************************************)

\* A set of numbers up to n has a largest and a smallest one.
LEMMA Extremes ==
  ASSUME NEW n \in Nat, NEW S, S \subseteq 0..n, S # {}
  PROVE  Max(S) \in S /\ Min(S) \in S /\ \A y \in S : Max(S) >= y /\ Min(S) <= y
<1> DEFINE F == {k \in Nat : \A T \in SUBSET (0..k) : T # {} =>
                   (\E x \in T : \A y \in T : x >= y) /\ (\E x \in T : \A y \in T : x <= y)}
<1>1. 0 \in F
  <2> SUFFICES ASSUME NEW T \in SUBSET (0..0), T # {}
               PROVE  (\E x \in T : \A y \in T : x >= y) /\ (\E x \in T : \A y \in T : x <= y)
    OBVIOUS
  <2>1. \A y \in T : y \in 0..0
    OBVIOUS
  <2>2. \A y \in 0..0 : y = 0
    OBVIOUS
  <2>3. 0 \in T /\ \A y \in T : y = 0
    BY <2>1, <2>2
  <2> QED  BY <2>3
<1>2. ASSUME NEW k \in F PROVE k + 1 \in F
  <2> SUFFICES ASSUME NEW T \in SUBSET (0..k + 1), T # {}
               PROVE  (\E x \in T : \A y \in T : x >= y) /\ (\E x \in T : \A y \in T : x <= y)
    OBVIOUS
  <2>1. k \in Nat /\ T \ {k + 1} \in SUBSET (0..k)
    OBVIOUS
  <2>2. CASE T \ {k + 1} = {}
    <3>1. k + 1 \in T /\ \A y \in T : y = k + 1
      BY <2>2
    <3> QED  BY <2>1, <3>1
  <2>3. CASE T \ {k + 1} # {}
    <3> DEFINE U == T \ {k + 1}
    <3>1. (\E x \in U : \A y \in U : x >= y) /\ (\E x \in U : \A y \in U : x <= y)
      BY <2>1, <2>3
    <3>2. PICK x \in U, z \in U : (\A y \in U : x >= y) /\ (\A y \in U : z <= y)
      BY <3>1
    <3>3. z \in T /\ \A y \in T : z <= y
      BY <2>1, <3>2
    <3>4. CASE k + 1 \in T
      <4>1. \A y \in T : k + 1 >= y
        BY <2>1
      <4> QED  BY <3>3, <3>4, <4>1
    <3>5. CASE k + 1 \notin T
      <4>1. x \in T /\ \A y \in T : x >= y
        BY <3>2, <3>5
      <4> QED  BY <3>3, <4>1
    <3> QED  BY <3>4, <3>5
  <2> QED  BY <2>2, <2>3
<1>3. Nat \subseteq F
  <2> HIDE DEF F
  <2> QED  BY <1>1, <1>2, NumberInduction
<1>4. (\E x \in S : \A y \in S : x >= y) /\ (\E x \in S : \A y \in S : x <= y)
  BY <1>3
<1> QED  BY <1>4 DEF Max, Min

(***************************************************************************)
(* Decompositions.                                                         *)
(***************************************************************************)

\* The heights that fit where `remaining` of the m leaves appended after leaf n are left,
\* and the tallest of them.
Fitting(n, m, remaining) ==
  {g \in Heights : 2^g <= remaining /\ (n + m - remaining) % 2^g = 0}
Tallest(n, m, remaining) == Max(Fitting(n, m, remaining))

LEMMA TallestFits ==
  ASSUME NEW n \in Nat, NEW m \in Nat, NEW r \in 1..m
  PROVE  /\ Tallest(n, m, r) \in Heights /\ Tallest(n, m, r) \in Nat
         /\ 2^Tallest(n, m, r) <= r
         /\ (n + m - r) % 2^Tallest(n, m, r) = 0
         /\ r - 2^Tallest(n, m, r) \in 0..r - 1
<1> DEFINE S == Fitting(n, m, r)
           h == Tallest(n, m, r)
<1>1. 0 \in S
  <2>1. n + m - r \in Nat
    OBVIOUS
  <2>2. (n + m - r) % 1 = 0
    BY <2>1
  <2>3. 0 \in Heights
    BY RangeAssumption DEF Heights
  <2> QED  BY <2>2, <2>3, PowerZero DEF Fitting
<1>2. S \subseteq 0..MaxHeight /\ MaxHeight \in Nat
  BY RangeAssumption DEF Fitting, Heights
<1> HIDE DEF S
<1>3. h \in S
  BY <1>1, <1>2, Extremes DEF Tallest, S
<1> HIDE DEF h
<1>4. h \in Heights /\ h \in Nat /\ 2^h <= r /\ (n + m - r) % 2^h = 0
  BY <1>2, <1>3 DEF S, Fitting
<1>5. r - 2^h \in 0..r - 1
  <2>1. PICK w \in Nat \ {0} : w = 2^h
    BY <1>4, PowerOfTwo
  <2> QED  BY <1>4, <2>1
<1> QED  BY <1>4, <1>5 DEF h

Resting(n, m, j, f) ==
  f = [r \in 0..j |-> IF r = 0 THEN <<>>
                      ELSE <<Tallest(n, m, r)>> \o f[r - 2^Tallest(n, m, r)]]

LEMMA RestingExists ==
  ASSUME NEW n \in Nat, NEW m \in Nat PROVE \E f : Resting(n, m, m, f)
<1> DEFINE F == {k \in Nat : k <= m => \E f : Resting(n, m, k, f)}
<1>1. 0 \in F
  <2> DEFINE f == [i \in 0..0 |-> <<>>]
  <2>1. Resting(n, m, 0, f)
    BY DEF Resting
  <2> QED  BY <2>1
<1>2. ASSUME NEW k \in F PROVE k + 1 \in F
  <2> SUFFICES ASSUME k + 1 <= m PROVE \E f : Resting(n, m, k + 1, f)
    OBVIOUS
  <2>1. PICK p \in Nat : p = k + 1 /\ k \in Nat /\ k <= m /\ p <= m
    OBVIOUS
  <2>2. PICK u : Resting(n, m, k, u)
    BY <2>1
  <2> DEFINE Below(r) == r - 2^Tallest(n, m, r)
             f == [r \in 0..p |-> IF r = p THEN <<Tallest(n, m, p)>> \o u[Below(p)] ELSE u[r]]
  <2>3. \A r \in 0..k : u[r] = IF r = 0 THEN <<>> ELSE <<Tallest(n, m, r)>> \o u[Below(r)]
    BY <2>2 DEF Resting
  <2>4. \A r \in 1..p : Below(r) \in 0..r - 1
    BY <2>1, TallestFits
  <2> HIDE DEF Below
  <2>5. ASSUME NEW r \in 0..p
        PROVE  f[r] = IF r = 0 THEN <<>> ELSE <<Tallest(n, m, r)>> \o f[Below(r)]
    <3>1. CASE r = p
      <4>1. p \in 1..p /\ p # 0
        BY <2>1
      <4>2. Below(p) \in 0..p /\ Below(p) # p
        BY <2>1, <2>4, <4>1
      <4>3. f[Below(p)] = u[Below(p)] /\ f[p] = <<Tallest(n, m, p)>> \o u[Below(p)]
        BY <3>1, <4>2
      <4> HIDE DEF f
      <4> QED  BY <3>1, <4>1, <4>3
    <3>2. CASE r # p
      <4>1. r \in 0..k /\ (r # 0 => Below(r) \in 0..p /\ Below(r) # p)
        <5>1. r \in 0..k
          BY <2>1, <3>2
        <5>2. r # 0 => r \in 1..p
          BY <2>1, <5>1
        <5> QED  BY <2>1, <2>4, <5>1, <5>2
      <4>2. f[r] = u[r] /\ (r # 0 => f[Below(r)] = u[Below(r)])
        BY <3>2, <4>1
      <4> HIDE DEF f
      <4> QED  BY <2>3, <4>1, <4>2
    <3> QED  BY <3>1, <3>2
  <2>6. f = [r \in 0..p |-> IF r = 0 THEN <<>> ELSE <<Tallest(n, m, r)>> \o f[Below(r)]]
    <3>1. f = [r \in 0..p |-> f[r]]
      OBVIOUS
    <3> HIDE DEF f
    <3> QED  BY <2>5, <3>1
  <2>7. Resting(n, m, p, f)
    <3> HIDE DEF f
    <3> QED  BY <2>6 DEF Resting, Below
  <2> QED  BY <2>1, <2>7
<1>3. Nat \subseteq F
  <2> HIDE DEF F
  <2> QED  BY <1>1, <1>2, NumberInduction
<1>4. m \in F
  <2> HIDE DEF F
  <2> QED  BY <1>3
<1> QED  BY <1>4

\* A list with one height put before it starts that much later.
LEMMA StartsCons ==
  ASSUME NEW h \in Nat, NEW s \in Seq(Nat)
  PROVE  LET t == <<h>> \o s IN
         /\ t \in Seq(Nat) /\ Len(t) = Len(s) + 1
         /\ t[1] = h /\ \A k \in 1..Len(s) : t[k + 1] = s[k]
         /\ Starts(t)[1] = 0
         /\ \A k \in 1..Len(s) + 1 : Starts(t)[k + 1] = 2^h + Starts(s)[k]
<1>0. PICK l \in Nat : l = Len(s)
  BY LenProperties
<1>1. PICK t, f, g : t = <<h>> \o s /\ f = Starts(t) /\ g = Starts(s) /\ l = Len(s)
  BY <1>0
<1>2. <<h>> \in Seq(Nat) /\ Len(<<h>>) = 1 /\ <<h>>[1] = h
  OBVIOUS
<1>3. /\ t \in Seq(Nat) /\ Len(t) = 1 + l
      /\ \A i \in 1..1 + l : t[i] = IF i <= 1 THEN <<h>>[i] ELSE s[i - 1]
  BY <1>1, <1>2, ConcatProperties
<1>4. Len(t) = l + 1 /\ t[1] = h
  BY <1>2, <1>3
<1>5. ASSUME NEW k \in 1..l PROVE t[k + 1] = s[k]
  <2>1. k + 1 \in 1..1 + l /\ ~(k + 1 <= 1) /\ (k + 1) - 1 = k
    OBVIOUS
  <2> QED  BY <1>3, <2>1
<1>6. /\ f[1] = 0 /\ \A k \in 1..l + 1 : f[k + 1] = f[k] + 2^t[k]
  BY <1>1, <1>3, <1>4, StartsRun
<1>7. /\ g[1] = 0 /\ \A k \in 1..l : g[k + 1] = g[k] + 2^s[k]
      /\ \A k \in 1..l + 1 : g[k] \in Nat
  BY <1>1, StartsRun
<1>8. PICK w \in Nat : w = 2^h
  BY PowerOfTwo
<1> DEFINE F == {k \in Nat : k <= l => f[(k + 1) + 1] = w + g[k + 1]}
<1>9. 0 \in F
  <2>1. 1 \in 1..l + 1
    OBVIOUS
  <2>2. f[1 + 1] = 0 + w
    BY <1>4, <1>6, <1>8, <2>1
  <2>3. f[(0 + 1) + 1] = w + g[0 + 1]
    BY <1>7, <2>2
  <2> QED  BY <2>3
<1>10. ASSUME NEW k \in F PROVE k + 1 \in F
  <2> SUFFICES ASSUME k + 1 <= l PROVE f[((k + 1) + 1) + 1] = w + g[(k + 1) + 1]
    OBVIOUS
  <2>1. k \in Nat /\ k + 1 \in 1..l /\ (k + 1) + 1 \in 1..l + 1 /\ k + 1 \in 1..l + 1
    OBVIOUS
  <2>2. f[(k + 1) + 1] = w + g[k + 1]
    BY <2>1
  <2>3. f[((k + 1) + 1) + 1] = f[(k + 1) + 1] + 2^t[(k + 1) + 1]
    BY <1>6, <2>1
  <2>4. g[(k + 1) + 1] = g[k + 1] + 2^s[k + 1] /\ t[(k + 1) + 1] = s[k + 1]
    BY <1>5, <1>7, <2>1
  <2>5. PICK x \in Nat : x = 2^s[k + 1]
    <3>1. s[k + 1] \in Nat
      BY <1>1, <2>1, ElementOfSeq
    <3> QED  BY <3>1, PowerOfTwo
  <2>6. g[k + 1] \in Nat
    BY <1>7, <2>1
  <2> QED  BY <2>2, <2>3, <2>4, <2>5, <2>6
<1>11. Nat \subseteq F
  <2> HIDE DEF F
  <2> QED  BY <1>9, <1>10, NumberInduction
<1>12. ASSUME NEW k \in 1..l + 1 PROVE f[k + 1] = w + g[k]
  <2>1. k - 1 \in Nat /\ k - 1 <= l /\ (k - 1) + 1 = k
    OBVIOUS
  <2>2. k - 1 \in F
    BY <1>11, <2>1
  <2> QED  BY <2>1, <2>2
<1> QED  BY <1>1, <1>3, <1>4, <1>5, <1>6, <1>8, <1>12

\* A list of subtrees that are aligned where they start, when the first starts at n, and
\* that hold m leaves together.
Aligned(heights, n, m) ==
  /\ heights \in Seq(Nat)
  /\ \A k \in 1..Len(heights) :
       heights[k] \in Heights /\ (n + Starts(heights)[k]) % 2^heights[k] = 0
  /\ Starts(heights)[Len(heights) + 1] = m

LEMMA DecomposeAligned ==
  ASSUME NEW n \in Nat, NEW m \in Nat PROVE Aligned(Decompose(n, m), n, m)
<1>1. PICK f : Resting(n, m, m, f) /\ Decompose(n, m) = f[m]
  <2> DEFINE g == CHOOSE g : Resting(n, m, m, g)
  <2>1. Decompose(n, m) = g[m]
    BY DEF Decompose, Resting, Tallest, Fitting
  <2>2. Resting(n, m, m, g)
    BY RestingExists
  <2> QED  BY <2>1, <2>2
<1>2. \A r \in 0..m : f[r] = IF r = 0 THEN <<>>
                             ELSE <<Tallest(n, m, r)>> \o f[r - 2^Tallest(n, m, r)]
  BY <1>1 DEF Resting
<1> DEFINE Good(r) == Aligned(f[r], n + m - r, r)
           F == {k \in Nat : \A r \in 0..m : r <= k => Good(r)}
<1>3. Good(0)
  <2>1. PICK s : s = f[0] /\ s = <<>>
    <3>1. 0 \in 0..m
      OBVIOUS
    <3> QED  BY <1>2, <3>1
  <2>2. s \in Seq(Nat) /\ Len(s) = 0
    BY <2>1, EmptySeq
  <2>3. Starts(s)[0 + 1] = 0
    <3>1. Starts(s)[1] = 0
      BY <2>2, StartsRun
    <3> QED  BY <3>1
  <2> QED  BY <2>1, <2>2, <2>3 DEF Aligned
<1>4. ASSUME NEW r \in 1..m, \A q \in 0..r - 1 : Good(q) PROVE Good(r)
  <2>1. PICK h, w, q, p : h = Tallest(n, m, r) /\ w = 2^h /\ q = r - w /\ p = n + m - r
    OBVIOUS
  <2>2. /\ h \in Heights /\ h \in Nat /\ q \in 0..r - 1 /\ w \in Nat /\ r = q + w
        /\ p \in Nat /\ p % w = 0 /\ n + m - q = p + w
    <3>1. h \in Heights /\ h \in Nat /\ q \in 0..r - 1 /\ p % w = 0
      BY <2>1, TallestFits
    <3>2. w \in Nat /\ p \in Nat
      BY <2>1, <3>1, PowerOfTwo
    <3>3. r = q + w /\ n + m - q = p + w
      BY <2>1, <3>1, <3>2
    <3> QED  BY <3>1, <3>2, <3>3
  <2>3. PICK s, t : s = f[q] /\ t = <<h>> \o s /\ f[r] = t
    <3>1. r \in 0..m /\ r # 0
      OBVIOUS
    <3> QED  BY <1>2, <2>1, <3>1
  <2>4. Aligned(s, p + w, q)
    BY <1>4, <2>2, <2>3
  <2>5. PICK l \in Nat : l = Len(s) /\ s \in Seq(Nat)
    BY <2>4, LenProperties DEF Aligned
  <2>6. /\ t \in Seq(Nat) /\ Len(t) = l + 1
        /\ t[1] = h /\ \A k \in 1..l : t[k + 1] = s[k]
        /\ Starts(t)[1] = 0
        /\ \A k \in 1..l + 1 : Starts(t)[k + 1] = w + Starts(s)[k]
    <3>1. t \in Seq(Nat) /\ Len(t) = l + 1 /\ t[1] = h /\ \A k \in 1..l : t[k + 1] = s[k]
      BY <2>2, <2>3, <2>5, StartsCons
    <3>2. Starts(t)[1] = 0 /\ \A k \in 1..l + 1 : Starts(t)[k + 1] = 2^h + Starts(s)[k]
      BY <2>2, <2>3, <2>5, StartsCons
    <3> QED  BY <2>1, <3>1, <3>2
  <2>7. \A k \in 1..l + 1 : Starts(s)[k] \in Nat
    BY <2>5, StartsRun
  <2>8. Starts(t)[Len(t) + 1] = r
    <3>1. l + 1 \in 1..l + 1 /\ Starts(s)[l + 1] = q
      BY <2>4, <2>5 DEF Aligned
    <3> QED  BY <2>2, <2>6, <3>1
  <2>9. ASSUME NEW k \in 1..Len(t)
        PROVE  t[k] \in Heights /\ (p + Starts(t)[k]) % 2^t[k] = 0
    <3>1. CASE k = 1
      <4>1. p + Starts(t)[k] = p
        BY <2>2, <2>6, <3>1
      <4> QED  BY <2>1, <2>2, <2>6, <3>1, <4>1
    <3>2. CASE k # 1
      <4>1. PICK j \in 1..l : k = j + 1 /\ j \in 1..l + 1
        <5>1. k - 1 \in 1..l /\ k = (k - 1) + 1 /\ k - 1 \in 1..l + 1
          BY <2>6, <3>2
        <5> QED  BY <5>1
      <4>2. s[j] \in Heights /\ ((p + w) + Starts(s)[j]) % 2^s[j] = 0
        BY <2>4, <2>5 DEF Aligned
      <4>3. t[k] = s[j] /\ Starts(t)[k] = w + Starts(s)[j]
        BY <2>6, <4>1
      <4>4. p + (w + Starts(s)[j]) = (p + w) + Starts(s)[j]
        <5>1. PICK x : x = Starts(s)[j]
          OBVIOUS
        <5>2. x \in Nat
          BY <2>7, <4>1, <5>1
        <5> QED  BY <2>2, <5>1, <5>2
      <4> QED  BY <4>2, <4>3, <4>4
    <3> QED  BY <3>1, <3>2
  <2> QED  BY <2>1, <2>3, <2>6, <2>8, <2>9 DEF Aligned
<1>5. 0 \in F
  <2>1. \A r \in 0..m : r <= 0 => r = 0
    OBVIOUS
  <2> HIDE DEF Good
  <2> QED  BY <1>3, <2>1
<1>6. ASSUME NEW k \in F PROVE k + 1 \in F
  <2> SUFFICES ASSUME NEW r \in 0..m, r <= k + 1 PROVE Good(r)
    OBVIOUS
  <2> HIDE DEF Good
  <2>1. \A q \in 0..m : q <= k => Good(q)
    OBVIOUS
  <2>2. CASE r <= k
    BY <2>1, <2>2
  <2>3. CASE ~(r <= k)
    <3>1. r \in 1..m /\ \A q \in 0..r - 1 : q \in 0..m /\ q <= k
      BY <2>3
    <3> QED  BY <1>4, <2>1, <3>1
  <2> QED  BY <2>2, <2>3
<1>7. Nat \subseteq F
  <2> HIDE DEF F
  <2> QED  BY <1>5, <1>6, NumberInduction
<1>8. Good(m)
  <2> HIDE DEF Good
  <2> QED  BY <1>7
<1>9. n + m - m = n
  OBVIOUS
<1> QED  BY <1>1, <1>8, <1>9

(***************************************************************************)
(* The bits of a leaf count when a subtree of height h is appended.        *)
(***************************************************************************)

LEMMA TopsDecide ==
  ASSUME NEW n \in Nat, NEW h \in Nat, NEW p \in Nat, NEW b \in {0, 1}, Top(n, h) = 2 * p + b
  PROVE  Top(n, h + 1) = p /\ Bit(n, h) = b
<1>1. Top(n, h + 1) \in Nat /\ Bit(n, h) \in {0, 1} /\ Top(n, h) = 2 * Top(n, h + 1) + Bit(n, h)
  BY Halving
<1>2. PICK q \in Nat, c \in {0, 1} : q = Top(n, h + 1) /\ c = Bit(n, h)
  BY <1>1
<1>3. 2 * q + c = 2 * p + b
  BY <1>1, <1>2
<1>4. q = p /\ c = b
  BY <1>3
<1> QED  BY <1>2, <1>4

LEMMA LowBits ==
  ASSUME NEW n \in Nat, NEW h \in Nat, n % 2^h = 0, NEW g \in Nat, g < h
  PROVE  Bit(n, g) = 0
<1> DEFINE F == {k \in Nat : k <= h => High(n, h - k) = n}
<1>1. 0 \in F
  <2>1. High(n, h) = n /\ h - 0 = h
    BY Highest
  <2> QED  BY <2>1
<1>2. ASSUME NEW a \in Nat, High(n, a + 1) = n PROVE Bit(n, a) = 0 /\ High(n, a) = n
  <2>1. PICK w \in Nat \ {0} : w = 2^a
    BY PowerOfTwo
  <2>2. /\ High(n, a) \in Nat /\ High(n, a) <= n
        /\ Bit(n, a) = 0 => High(n, a) = n
        /\ Bit(n, a) = 1 => High(n, a) = n + w
    BY <1>2, <2>1, Highest
  <2>3. Bit(n, a) \in {0, 1}
    BY Halving
  <2> QED  BY <2>2, <2>3
<1>3. ASSUME NEW k \in F PROVE k + 1 \in F
  <2> SUFFICES ASSUME k + 1 <= h PROVE High(n, h - (k + 1)) = n
    OBVIOUS
  <2>1. PICK a \in Nat : a = h - (k + 1) /\ a + 1 = h - k
    <3>1. h - (k + 1) \in Nat /\ (h - (k + 1)) + 1 = h - k
      OBVIOUS
    <3> QED  BY <3>1
  <2>2. High(n, a + 1) = n
    BY <2>1
  <2> HIDE DEF F
  <2> QED  BY <1>2, <2>1, <2>2
<1>4. Nat \subseteq F
  <2> HIDE DEF F
  <2> QED  BY <1>1, <1>3, NumberInduction
<1>5. PICK k \in Nat : k = h - (g + 1) /\ k <= h /\ h - k = g + 1
  <2>1. h - (g + 1) \in Nat /\ h - (g + 1) <= h /\ h - (h - (g + 1)) = g + 1
    OBVIOUS
  <2> QED  BY <2>1
<1>6. High(n, g + 1) = n
  BY <1>4, <1>5
<1> QED  BY <1>2, <1>6

\* From h up to the free height the bits are cleared, there the bit is set, and above it
\* all stays.
LEMMA BitsCarry ==
  ASSUME NEW n \in Nat, NEW h \in Nat, n % 2^h = 0, NEW free \in Nat, h <= free,
         Bit(n, free) = 0, \A g \in Nat : h <= g /\ g < free => Bit(n, g) = 1
  PROVE  LET q == n + 2^h IN
         /\ q \in Nat /\ q % 2^h = 0
         /\ \A g \in Nat : g < free => Bit(q, g) = 0
         /\ Bit(q, free) = 1
         /\ High(q, free + 1) = High(n, free + 1)
         /\ \A g \in Nat : free < g => Bit(q, g) = Bit(n, g) /\ High(q, g + 1) = High(n, g + 1)
<1>1. PICK w \in Nat \ {0}, q \in Nat : w = 2^h /\ q = n + w
  <2>1. 2^h \in Nat \ {0}
    BY PowerOfTwo
  <2> QED  BY <2>1
<1>2. PICK p \in Nat : n = p * w /\ p = Top(n, h)
  <2>1. High(n, h) = n /\ Top(n, h) \in Nat
    BY Highest, Halving
  <2> QED  BY <1>1, <2>1 DEF High
<1>3. Top(q, h) = p + 1 /\ q % w = 0
  <2>1. q = (p + 1) * w + 0 /\ 0 \in 0..w - 1
    BY <1>1, <1>2
  <2>2. q \div w = p + 1 /\ q % w = 0
    <3>1. p + 1 \in Nat
      OBVIOUS
    <3>2. ((p + 1) * w + 0) \div w = p + 1 /\ ((p + 1) * w + 0) % w = 0
      BY <2>1, <3>1, DivisionUnique
    <3> QED  BY <2>1, <3>2
  <2> QED  BY <1>1, <2>2 DEF Top
<1> DEFINE F == {k \in Nat : h + k <= free => Top(q, h + k) = Top(n, h + k) + 1}
<1>4. ASSUME NEW g \in Nat, h <= g, g < free, Top(q, g) = Top(n, g) + 1
      PROVE  Bit(q, g) = 0 /\ Top(q, g + 1) = Top(n, g + 1) + 1
  <2>1. PICK r \in Nat : r = Top(n, g + 1) /\ Top(n, g) = 2 * r + 1
    BY <1>4, Halving
  <2>2. Top(q, g) = 2 * (r + 1) + 0 /\ r + 1 \in Nat
    BY <1>4, <2>1
  <2> QED  BY <2>1, <2>2, TopsDecide
<1>5. 0 \in F
  <2>1. h + 0 = h
    OBVIOUS
  <2> QED  BY <1>2, <1>3, <2>1
<1>6. ASSUME NEW k \in F PROVE k + 1 \in F
  <2> SUFFICES ASSUME h + (k + 1) <= free PROVE Top(q, h + (k + 1)) = Top(n, h + (k + 1)) + 1
    OBVIOUS
  <2>1. PICK g \in Nat : g = h + k /\ h + (k + 1) = g + 1 /\ h <= g /\ g < free
    <3>1. h + k \in Nat /\ h + (k + 1) = (h + k) + 1 /\ h <= h + k /\ h + k < free
      OBVIOUS
    <3> QED  BY <3>1
  <2>2. Top(q, g) = Top(n, g) + 1
    BY <2>1
  <2> HIDE DEF F
  <2> QED  BY <1>4, <2>1, <2>2
<1>7. Nat \subseteq F
  <2> HIDE DEF F
  <2> QED  BY <1>5, <1>6, NumberInduction
<1>8. ASSUME NEW g \in Nat, h <= g, g <= free PROVE Top(q, g) = Top(n, g) + 1
  <2>1. PICK k \in Nat : k = g - h /\ h + k = g
    <3>1. g - h \in Nat /\ h + (g - h) = g
      BY <1>8
    <3> QED  BY <3>1
  <2> QED  BY <1>7, <1>8, <2>1
<1> HIDE DEF F
<1>9. ASSUME NEW g \in Nat, g < free PROVE Bit(q, g) = 0
  <2>1. CASE g < h
    BY <1>1, <1>3, <2>1, LowBits
  <2>2. CASE ~(g < h)
    <3>1. h <= g /\ g <= free
      BY <1>9, <2>2
    <3> QED  BY <1>4, <1>8, <1>9, <3>1
  <2> QED  BY <2>1, <2>2
<1>10. Bit(q, free) = 1 /\ Top(q, free + 1) = Top(n, free + 1)
  <2>1. PICK r \in Nat : r = Top(n, free + 1) /\ Top(n, free) = 2 * r + 0
    <3>1. Top(n, free + 1) \in Nat /\ Top(n, free) = 2 * Top(n, free + 1) + Bit(n, free)
      BY Halving
    <3> QED  BY <3>1
  <2>2. Top(q, free) = Top(n, free) + 1
    <3>1. free <= free
      OBVIOUS
    <3> QED  BY <1>8, <3>1
  <2>3. Top(q, free) = 2 * r + 1
    BY <2>1, <2>2
  <2> QED  BY <2>1, <2>3, TopsDecide
<1> DEFINE G == {k \in Nat : Top(q, free + 1 + k) = Top(n, free + 1 + k)}
<1>11. 0 \in G
  <2>1. free + 1 + 0 = free + 1
    OBVIOUS
  <2> QED  BY <1>10, <2>1
<1>12. ASSUME NEW g \in Nat, Top(q, g) = Top(n, g)
       PROVE  Bit(q, g) = Bit(n, g) /\ Top(q, g + 1) = Top(n, g + 1)
  <2>1. PICK r \in Nat, b \in {0, 1} : r = Top(n, g + 1) /\ b = Bit(n, g) /\ Top(n, g) = 2 * r + b
    <3>1. Top(n, g + 1) \in Nat /\ Bit(n, g) \in {0, 1} /\ Top(n, g) = 2 * Top(n, g + 1) + Bit(n, g)
      BY Halving
    <3> QED  BY <3>1
  <2> QED  BY <1>12, <2>1, TopsDecide
<1>13. ASSUME NEW k \in G PROVE k + 1 \in G
  <2>1. PICK g \in Nat : g = free + 1 + k /\ free + 1 + (k + 1) = g + 1
    <3>1. free + 1 + k \in Nat /\ free + 1 + (k + 1) = (free + 1 + k) + 1
      OBVIOUS
    <3> QED  BY <3>1
  <2>2. Top(q, g) = Top(n, g) /\ k + 1 \in Nat
    BY <2>1
  <2>3. Top(q, free + 1 + (k + 1)) = Top(n, free + 1 + (k + 1))
    BY <1>12, <2>1, <2>2
  <2> QED  BY <2>2, <2>3
<1>14. Nat \subseteq G
  <2> HIDE DEF G
  <2> QED  BY <1>11, <1>13, NumberInduction
<1>15. ASSUME NEW g \in Nat, free < g
       PROVE  Bit(q, g) = Bit(n, g) /\ Top(q, g + 1) = Top(n, g + 1)
  <2>1. PICK k \in Nat : k = g - (free + 1) /\ free + 1 + k = g
    <3>1. g - (free + 1) \in Nat /\ free + 1 + (g - (free + 1)) = g
      BY <1>15
    <3> QED  BY <3>1
  <2>2. Top(q, g) = Top(n, g)
    BY <1>14, <2>1
  <2> QED  BY <1>12, <2>2
<1> QED  BY <1>1, <1>3, <1>9, <1>10, <1>15 DEF High

(***************************************************************************)
(* The merge.                                                              *)
(***************************************************************************)

\* A table holds the peaks of the first n chunks of c: for each bit of n the subtree that
\* starts where the higher bits say.
Tabulates(table, c, n) ==
  \A g \in Heights : Bit(n, g) = 1 => table[g] = SubtreeRoot(c, High(n, g + 1), g)

Carrying(table, h, free, peak, f) ==
  f = [g \in h..free |-> IF g = h THEN peak ELSE Node(table[g - 1], f[g - 1])]

LEMMA CarryingExists ==
  ASSUME NEW table, NEW h \in Nat, NEW k \in Nat, NEW peak
  PROVE  \E f : Carrying(table, h, h + k, peak, f)
<1> DEFINE F == {j \in Nat : \E f : Carrying(table, h, h + j, peak, f)}
<1>1. 0 \in F
  <2> DEFINE f == [g \in h..h + 0 |-> peak]
  <2>1. \A g \in h..h + 0 : g = h
    OBVIOUS
  <2>2. Carrying(table, h, h + 0, peak, f)
    BY <2>1 DEF Carrying
  <2> QED  BY <2>2
<1>2. ASSUME NEW j \in F PROVE j + 1 \in F
  <2>1. PICK b \in Nat : b = h + j /\ h + (j + 1) = b + 1 /\ h <= b
    <3>1. h + j \in Nat /\ h + (j + 1) = (h + j) + 1 /\ h <= h + j
      OBVIOUS
    <3> QED  BY <3>1
  <2>2. PICK u : Carrying(table, h, b, peak, u)
    BY <2>1
  <2> DEFINE f == [g \in h..b + 1 |-> IF g = b + 1 THEN Node(table[b], u[b]) ELSE u[g]]
  <2>3. \A g \in h..b : u[g] = IF g = h THEN peak ELSE Node(table[g - 1], u[g - 1])
    BY <2>2 DEF Carrying
  <2>4. ASSUME NEW g \in h..b + 1
        PROVE  f[g] = IF g = h THEN peak ELSE Node(table[g - 1], f[g - 1])
    <3>1. CASE g = b + 1
      <4>1. g - 1 = b /\ b \in h..b + 1 /\ b # b + 1 /\ g # h
        BY <2>1, <3>1
      <4>2. f[b] = u[b] /\ f[g] = Node(table[b], u[b])
        BY <3>1, <4>1
      <4> QED  BY <4>1, <4>2
    <3>2. CASE g # b + 1
      <4>1. g \in h..b /\ (g # h => g - 1 \in h..b + 1 /\ g - 1 # b + 1)
        BY <2>1, <3>2
      <4>2. f[g] = u[g] /\ (g # h => f[g - 1] = u[g - 1])
        BY <3>2, <4>1
      <4> HIDE DEF f
      <4> QED  BY <2>3, <4>1, <4>2
    <3> QED  BY <3>1, <3>2
  <2>5. Carrying(table, h, b + 1, peak, f)
    BY <2>4 DEF Carrying
  <2>6. j + 1 \in Nat
    OBVIOUS
  <2> QED  BY <2>1, <2>5, <2>6
<1>3. Nat \subseteq F
  <2> HIDE DEF F
  <2> QED  BY <1>1, <1>2, NumberInduction
<1> QED  BY <1>3

\* A peak that is carried up to a free height is the root of all the leaves below.
LEMMA CarryIsRoot ==
  ASSUME NEW table, NEW c, NEW n \in Nat, NEW h \in Nat, n % 2^h = 0,
         NEW free \in Heights, h <= free,
         Bit(n, free) = 0, \A g \in Nat : h <= g /\ g < free => Bit(n, g) = 1,
         Tabulates(table, c, n)
  PROVE  Carry(table, h, free, SubtreeRoot(c, n, h)) = SubtreeRoot(c, High(n, free + 1), free)
<1> DEFINE peak == SubtreeRoot(c, n, h)
<1>0. free \in Nat /\ \A g \in Nat : g < free => g \in Heights
  BY RangeAssumption DEF Heights
<1>1. PICK f : Carry(table, h, free, peak) = f[free] /\ Carrying(table, h, free, peak, f)
  <2> DEFINE g == CHOOSE g : Carrying(table, h, free, peak, g)
  <2>1. Carry(table, h, free, peak) = g[free]
    BY DEF Carry, Carrying
  <2>2. Carrying(table, h, free, peak, g)
    <3>1. PICK k \in Nat : h + k = free
      <4>1. free - h \in Nat /\ h + (free - h) = free
        BY <1>0
      <4> QED  BY <4>1
    <3>2. \E v : Carrying(table, h, h + k, peak, v)
      BY CarryingExists
    <3> QED  BY <3>1, <3>2
  <2> QED  BY <2>1, <2>2
<1>2. \A g \in h..free : f[g] = IF g = h THEN peak ELSE Node(table[g - 1], f[g - 1])
  BY <1>1 DEF Carrying
<1> DEFINE F == {k \in Nat : h + k <= free => f[h + k] = SubtreeRoot(c, High(n, h + k), h + k)}
<1>3. 0 \in F
  <2>1. h + 0 = h /\ h \in h..free
    BY <1>0
  <2>2. f[h] = peak /\ High(n, h) = n
    BY <1>2, <2>1, Highest
  <2> QED  BY <2>1, <2>2
<1>4. ASSUME NEW g \in Nat, h <= g, g < free, f[g] = SubtreeRoot(c, High(n, g), g)
      PROVE  f[g + 1] = SubtreeRoot(c, High(n, g + 1), g + 1)
  <2>1. g + 1 \in h..free /\ g + 1 # h /\ (g + 1) - 1 = g
    BY <1>0, <1>4
  <2>2. f[g + 1] = Node(table[g], f[g])
    BY <1>2, <2>1
  <2>3. Bit(n, g) = 1 /\ table[g] = SubtreeRoot(c, High(n, g + 1), g)
    BY <1>0, <1>4 DEF Tabulates
  <2>4. High(n, g) = High(n, g + 1) + 2^g /\ High(n, g + 1) \in Nat
    <3>1. g + 1 \in Nat
      OBVIOUS
    <3> QED  BY <2>3, <3>1, Highest
  <2>5. PICK s \in Nat : s = High(n, g + 1)
    BY <2>4
  <2>6. SubtreeRoot(c, s, g + 1) = Node(SubtreeRoot(c, s, g), SubtreeRoot(c, s + 2^g, g))
    BY SubtreeParts
  <2> QED  BY <1>4, <2>2, <2>3, <2>4, <2>5, <2>6
<1>5. ASSUME NEW k \in F PROVE k + 1 \in F
  <2> SUFFICES ASSUME h + (k + 1) <= free
               PROVE  f[h + (k + 1)] = SubtreeRoot(c, High(n, h + (k + 1)), h + (k + 1))
    OBVIOUS
  <2>1. PICK g \in Nat : g = h + k /\ h + (k + 1) = g + 1 /\ h <= g /\ g < free
    <3>1. h + k \in Nat /\ h + (k + 1) = (h + k) + 1 /\ h <= h + k /\ h + k < free
      BY <1>0
    <3> QED  BY <3>1
  <2>2. f[g] = SubtreeRoot(c, High(n, g), g)
    BY <1>0, <2>1
  <2> HIDE DEF F
  <2> QED  BY <1>4, <2>1, <2>2
<1>6. Nat \subseteq F
  <2> HIDE DEF F
  <2> QED  BY <1>3, <1>5, NumberInduction
<1>7. f[free] = SubtreeRoot(c, High(n, free), free)
  <2>1. PICK k \in Nat : k = free - h /\ h + k = free
    <3>1. free - h \in Nat /\ h + (free - h) = free
      BY <1>0
    <3> QED  BY <3>1
  <2>2. h + k <= free
    BY <1>0, <2>1
  <2> QED  BY <1>6, <2>1, <2>2
<1>8. High(n, free) = High(n, free + 1)
  BY <1>0, Highest
<1> QED  BY <1>1, <1>7, <1>8

(***************************************************************************)
(* A merge: the carry into the lowest free height.                         *)
(***************************************************************************)

\* A leaf count that a subtree can still be appended to has a free height.
LEMMA FreeHeight ==
  ASSUME NEW n \in Nat, NEW h \in Heights, n < 2^MaxHeight
  PROVE  LET free == Min({g \in Heights : g >= h /\ Bit(n, g) = 0}) IN
         /\ free \in Heights /\ h <= free /\ Bit(n, free) = 0
         /\ \A g \in Nat : h <= g /\ g < free => Bit(n, g) = 1
<1> DEFINE S == {g \in Heights : g >= h /\ Bit(n, g) = 0}
<1>1. MaxHeight \in Nat /\ Heights = 0..MaxHeight
  BY RangeAssumption DEF Heights
<1>2. MaxHeight \in S
  <2>1. Top(n, MaxHeight) = 0
    BY <1>1, HighVanishes
  <2>2. Top(n, MaxHeight + 1) \in Nat /\ Bit(n, MaxHeight) \in {0, 1}
        /\ Top(n, MaxHeight) = 2 * Top(n, MaxHeight + 1) + Bit(n, MaxHeight)
    BY <1>1, Halving
  <2>3. Bit(n, MaxHeight) = 0
    BY <2>1, <2>2
  <2> QED  BY <1>1, <2>3
<1>3. S \subseteq 0..MaxHeight
  BY <1>1
<1>4. PICK free : free = Min(S) /\ free \in S /\ \A y \in S : free <= y
  <2> HIDE DEF S
  <2> QED  BY <1>1, <1>2, <1>3, Extremes
<1>5. ASSUME NEW g \in Nat, h <= g, g < free PROVE Bit(n, g) = 1
  <2>1. g \in Heights /\ free \in Nat
    BY <1>1, <1>3, <1>4, <1>5
  <2>2. g \notin S
    BY <1>4, <1>5, <2>1
  <2>3. Bit(n, g) \in {0, 1}
    BY Halving
  <2> QED  BY <1>5, <2>1, <2>2, <2>3
<1> QED  BY <1>4, <1>5

\* A table of count chunks, merged with the next subtree, is a table of that many more.
TableOf(acc, c, n) ==
  /\ acc.count = n /\ DOMAIN acc.table = Heights /\ Tabulates(acc.table, c, n)

LEMMA MergeTabulates ==
  ASSUME NEW acc, NEW c, NEW n \in Nat, TableOf(acc, c, n),
         NEW h \in Heights, n % 2^h = 0, n < 2^MaxHeight,
         NEW peak, peak = SubtreeRoot(c, n, h)
  PROVE  TableOf(MergeInTable(acc, h, peak), c, n + 2^h)
<1>1. h \in Nat /\ Heights \subseteq Nat
  BY RangeAssumption DEF Heights
<1>2. PICK free, q, w, root :
        /\ free = Min({g \in Heights : g >= h /\ Bit(n, g) = 0})
        /\ w = 2^h /\ q = n + w /\ root = Carry(acc.table, h, free, peak)
  OBVIOUS
<1>3. /\ free \in Heights /\ free \in Nat /\ h <= free /\ Bit(n, free) = 0
      /\ \A g \in Nat : h <= g /\ g < free => Bit(n, g) = 1
  BY <1>1, <1>2, FreeHeight
<1>4. /\ \A g \in Nat : g < free => Bit(q, g) = 0
      /\ High(q, free + 1) = High(n, free + 1)
      /\ \A g \in Nat : free < g => Bit(q, g) = Bit(n, g) /\ High(q, g + 1) = High(n, g + 1)
  <2>1. /\ \A g \in Nat : g < free => Bit(n + 2^h, g) = 0
        /\ High(n + 2^h, free + 1) = High(n, free + 1)
        /\ \A g \in Nat : free < g =>
             Bit(n + 2^h, g) = Bit(n, g) /\ High(n + 2^h, g + 1) = High(n, g + 1)
    BY <1>1, <1>3, BitsCarry
  <2> QED  BY <1>2, <2>1
<1>5. root = SubtreeRoot(c, High(n, free + 1), free)
  BY <1>1, <1>2, <1>3, CarryIsRoot DEF TableOf
<1>6. PICK after : after = MergeInTable(acc, h, peak)
  OBVIOUS
<1>7. after.count = q /\ after.table = [acc.table EXCEPT ![free] = root]
  BY <1>2, <1>6 DEF MergeInTable, TableOf
<1>8. DOMAIN after.table = Heights /\ \A g \in Heights :
        after.table[g] = IF g = free THEN root ELSE acc.table[g]
  BY <1>7 DEF TableOf
<1>9. ASSUME NEW g \in Heights, Bit(q, g) = 1
      PROVE  after.table[g] = SubtreeRoot(c, High(q, g + 1), g)
  <2>1. g \in Nat /\ ~(g < free)
    BY <1>1, <1>4, <1>9
  <2>2. CASE g = free
    BY <1>4, <1>5, <1>8, <2>2
  <2>3. CASE g # free
    <3>1. free < g
      BY <1>3, <2>1, <2>3
    <3> QED  BY <1>4, <1>8, <1>9, <2>1, <2>3, <3>1 DEF TableOf, Tabulates
  <2> QED  BY <2>2, <2>3
<1> QED  BY <1>2, <1>6, <1>7, <1>8, <1>9 DEF TableOf, Tabulates

\* The subtrees of a list start before its end, and end no later.
LEMMA SubtreesWithin ==
  ASSUME NEW heights \in Seq(Nat), NEW m, m = Starts(heights)[Len(heights) + 1],
         NEW k \in 1..Len(heights)
  PROVE  /\ Starts(heights)[k] \in Nat /\ m \in Nat
         /\ Starts(heights)[k] + 2^heights[k] <= m /\ Starts(heights)[k] < m
<1>0. PICK f : f = Starts(heights)
  OBVIOUS
<1>1. PICK l \in Nat : l = Len(heights) /\ f = Starts(heights)
  BY <1>0, LenProperties
<1>2. k \in 1..l + 1 /\ k + 1 \in 1..l + 1 /\ l + 1 \in 1..l + 1 /\ k + 1 <= l + 1
  BY <1>1
<1>3. f[k + 1] = f[k] + 2^heights[k] /\ f[k] \in Nat /\ f[l + 1] \in Nat
  BY <1>1, <1>2, StartsRun
<1>4. f[k + 1] <= f[l + 1]
  BY <1>1, <1>2, StartsOrdered
<1>5. 2^heights[k] \in Nat \ {0}
  BY ElementOfSeq, PowerOfTwo
<1> QED  BY <1>1, <1>3, <1>4, <1>5

Merging(start, heights, sub, k, f) ==
  f = [i \in 0..k |-> IF i = 0 THEN start ELSE MergeInTable(f[i - 1], heights[i], sub[i])]

LEMMA MergingExists ==
  ASSUME NEW start, NEW heights, NEW sub, NEW k \in Nat
  PROVE  \E f : Merging(start, heights, sub, k, f)
<1> DEFINE F == {j \in Nat : \E f : Merging(start, heights, sub, j, f)}
<1>1. 0 \in F
  <2> DEFINE f == [i \in 0..0 |-> start]
  <2>1. Merging(start, heights, sub, 0, f)
    BY DEF Merging
  <2> QED  BY <2>1
<1>2. ASSUME NEW j \in F PROVE j + 1 \in F
  <2>1. PICK b \in Nat : b = j + 1 /\ b # 0 /\ b - 1 = j /\ j \in Nat
    OBVIOUS
  <2>2. PICK u : Merging(start, heights, sub, j, u)
    BY <1>2
  <2> DEFINE Next(v, i) == MergeInTable(v, heights[i], sub[i])
             f == [i \in 0..b |-> IF i = b THEN Next(u[j], b) ELSE u[i]]
  <2>3. \A i \in 0..j : u[i] = IF i = 0 THEN start ELSE Next(u[i - 1], i)
    BY <2>2 DEF Merging
  <2> HIDE DEF Next
  <2>4. ASSUME NEW i \in 0..b PROVE f[i] = IF i = 0 THEN start ELSE Next(f[i - 1], i)
    <3>1. CASE i = b
      <4>1. j \in 0..b /\ j # b
        BY <2>1
      <4>2. f[j] = u[j] /\ f[i] = Next(u[j], b)
        BY <3>1, <4>1
      <4> HIDE DEF f
      <4> QED  BY <2>1, <3>1, <4>2
    <3>2. CASE i # b
      <4>1. i \in 0..j /\ (i # 0 => i - 1 \in 0..b /\ i - 1 # b)
        BY <2>1, <3>2
      <4>2. f[i] = u[i] /\ (i # 0 => f[i - 1] = u[i - 1])
        BY <3>2, <4>1
      <4> HIDE DEF f
      <4> QED  BY <2>3, <4>1, <4>2
    <3> QED  BY <3>1, <3>2
  <2>5. f = [i \in 0..b |-> IF i = 0 THEN start ELSE Next(f[i - 1], i)]
    <3>1. f = [i \in 0..b |-> f[i]]
      OBVIOUS
    <3> HIDE DEF f
    <3> QED  BY <2>4, <3>1
  <2>6. Merging(start, heights, sub, b, f)
    <3> HIDE DEF f
    <3> QED  BY <2>5 DEF Merging, Next
  <2> QED  BY <2>1, <2>6
<1>3. Nat \subseteq F
  <2> HIDE DEF F
  <2> QED  BY <1>1, <1>2, NumberInduction
<1> QED  BY <1>3

\* The roots of a list of subtrees, the first of which starts at leaf n.
RootsFrom(roots, c, n, heights) ==
  \A k \in 1..Len(heights) : roots[k] = SubtreeRoot(c, n + Starts(heights)[k], heights[k])

LEMMA TableAfter ==
  ASSUME NEW c, NEW n \in Nat, NEW m \in Nat, n + m <= 2^MaxHeight,
         NEW heights, Aligned(heights, n, m), NEW sub, RootsFrom(sub, c, n, heights),
         NEW start, TableOf(start, c, n), NEW f, Merging(start, heights, sub, Len(heights), f)
  PROVE  TableOf(f[Len(heights)], c, n + m)
<1>0. PICK s : s = Starts(heights)
  OBVIOUS
<1>1. heights \in Seq(Nat)
  BY DEF Aligned
<1>2. PICK l \in Nat : l = Len(heights) /\ s = Starts(heights)
  BY <1>0, <1>1, LenProperties
<1>3. \A i \in 0..l : f[i] = IF i = 0 THEN start ELSE MergeInTable(f[i - 1], heights[i], sub[i])
  BY <1>2 DEF Merging
<1>4. /\ s[1] = 0 /\ s[l + 1] = m
      /\ \A k \in 1..l : s[k + 1] = s[k] + 2^heights[k]
      /\ \A k \in 1..l + 1 : s[k] \in Nat
  BY <1>1, <1>2, StartsRun DEF Aligned
<1> DEFINE F == {k \in Nat : k <= l => TableOf(f[k], c, n + s[k + 1])}
<1>5. 0 \in F
  <2>1. f[0] = start /\ n + s[0 + 1] = n
    BY <1>3, <1>4
  <2> QED  BY <2>1
<1>6. ASSUME NEW k \in F PROVE k + 1 \in F
  <2> SUFFICES ASSUME k + 1 <= l PROVE TableOf(f[k + 1], c, n + s[(k + 1) + 1])
    OBVIOUS
  <2>1. PICK j \in 1..l : j = k + 1 /\ j - 1 = k /\ j # 0 /\ j \in 0..l /\ k \in Nat /\ k <= l
    OBVIOUS
  <2>2. PICK p \in Nat, w \in Nat, h \in Heights :
          p = n + s[j] /\ h = heights[j] /\ w = 2^h /\ s[j] + w <= m /\ s[j] < m
    <3>1. heights[j] \in Heights /\ heights[j] \in Nat
      BY <1>1, <1>2, ElementOfSeq DEF Aligned
    <3>2. s[j] \in Nat /\ s[j] + 2^heights[j] <= m /\ s[j] < m
      BY <1>1, <1>2, <1>4, SubtreesWithin
    <3>3. 2^heights[j] \in Nat /\ n + s[j] \in Nat
      BY <3>1, <3>2, PowerOfTwo
    <3> QED  BY <3>1, <3>2, <3>3
  <2>3. TableOf(f[k], c, p)
    BY <2>1, <2>2
  <2>4. p < 2^MaxHeight
    <3>1. 2^MaxHeight \in Nat
      BY RangeAssumption, PowerOfTwo
    <3>2. s[j] \in Nat
      BY <1>4
    <3> QED  BY <2>2, <3>1, <3>2
  <2>5. p % 2^h = 0 /\ sub[j] = SubtreeRoot(c, p, h)
    BY <1>2, <2>2 DEF Aligned, RootsFrom
  <2>6. f[j] = MergeInTable(f[k], h, sub[j])
    BY <1>3, <2>1, <2>2
  <2>7. TableOf(f[j], c, p + 2^h)
    BY <2>3, <2>4, <2>5, <2>6, MergeTabulates
  <2>8. n + s[j + 1] = p + w
    <3>1. s[j + 1] = s[j] + w /\ s[j] \in Nat
      BY <1>4, <2>2
    <3> QED  BY <2>2, <3>1
  <2> QED  BY <2>1, <2>2, <2>7, <2>8
<1>7. Nat \subseteq F
  <2> HIDE DEF F
  <2> QED  BY <1>5, <1>6, NumberInduction
<1>8. TableOf(f[l], c, n + s[l + 1])
  BY <1>7
<1> QED  BY <1>2, <1>4, <1>8

(***************************************************************************)
(* The contract's own list of peaks.                                       *)
(***************************************************************************)

LEMMA BelowTop ==
  ASSUME NEW n \in Nat, n <= 2^MaxHeight PROVE n < 2^(MaxHeight + 1) /\ MaxHeight \in Nat
<1>1. MaxHeight \in Nat
  BY RangeAssumption
<1>2. 2^MaxHeight \in Nat \ {0} /\ 2^(MaxHeight + 1) = 2^MaxHeight + 2^MaxHeight
  BY <1>1, PowerOfTwo
<1> QED  BY <1>1, <1>2

LEMMA PeaksAreRoots ==
  ASSUME NEW c, NEW n \in Nat, n <= 2^MaxHeight
  PROVE  /\ RootsFrom(PeaksAt(c, n), c, 0, PeakHeights(n))
         /\ DOMAIN PeaksAt(c, n) = 1..Len(PeakHeights(n))
<1>1. PICK H : H = PeakHeights(n)
  OBVIOUS
<1>2. H \in Seq(Nat)
  BY <1>1, BelowTop, PeakStarts
<1>3. DOMAIN H = 1..Len(H) /\ \A k \in 1..Len(H) : Starts(H)[k] \in Nat
  <2>1. DOMAIN H = 1..Len(H)
    BY <1>2, LenProperties
  <2>2. \A k \in 1..Len(H) + 1 : Starts(H)[k] \in Nat
    BY <1>2, StartsRun
  <2>3. Len(H) \in Nat
    BY <1>2, LenProperties
  <2> QED  BY <2>1, <2>2, <2>3
<1>4. PeaksAt(c, n) = [k \in 1..Len(H) |-> SubtreeRoot(c, Starts(H)[k], H[k])]
  BY <1>1, <1>3 DEF PeaksAt, SubtreeRoots
<1>5. \A k \in 1..Len(H) : 0 + Starts(H)[k] = Starts(H)[k]
  BY <1>3
<1> QED  BY <1>1, <1>4, <1>5 DEF RootsFrom

\* The peaks of n leaves depend on these only.
LEMMA PeaksLocal ==
  ASSUME NEW c, NEW d, NEW n \in Nat, n <= 2^MaxHeight, \A i \in 1..n : c[i] = d[i]
  PROVE  PeaksAt(c, n) = PeaksAt(d, n)
<1>1. PICK H : H = PeakHeights(n)
  OBVIOUS
<1>2. H \in Seq(Nat) /\ Starts(H)[Len(H) + 1] = n
  BY <1>1, BelowTop, PeakStarts
<1>3. ASSUME NEW k \in DOMAIN H
      PROVE  SubtreeRoot(c, Starts(H)[k], H[k]) = SubtreeRoot(d, Starts(H)[k], H[k])
  <2>1. k \in 1..Len(H)
    BY <1>2, LenProperties
  <2>2. PICK s \in Nat, h \in Nat, w \in Nat :
          s = Starts(H)[k] /\ h = H[k] /\ w = 2^h /\ s + w <= n
    <3>1. H[k] \in Nat
      BY <1>2, <2>1, ElementOfSeq
    <3>2. Starts(H)[k] \in Nat /\ Starts(H)[k] + 2^H[k] <= n
      BY <1>2, <2>1, SubtreesWithin
    <3> QED  BY <3>1, <3>2, PowerOfTwo
  <2>3. \A i \in 0..w - 1 : s + i + 1 \in 1..n
    BY <2>2
  <2>4. Alike(c, s, d, s, h)
    BY <2>2, <2>3 DEF Alike
  <2> QED  BY <2>2, <2>4, SubtreeAgrees
<1> QED  BY <1>1, <1>3 DEF PeaksAt, SubtreeRoots

\* What is declared of more chunks are the roots of their subtrees where they come to lie.
LEMMA DeclaredAreRoots ==
  ASSUME NEW n \in Nat, NEW m \in Nat, NEW more, Len(more) = m,
         NEW c, \A u \in 1..m : c[n + u] = more[u]
  PROVE  RootsFrom(UpdateSubtreeRoots(n, more), c, n, Decompose(n, m))
<1>1. PICK D : D = Decompose(n, m)
  OBVIOUS
<1>2. Aligned(D, n, m)
  BY <1>1, DecomposeAligned
<1>3. D \in Seq(Nat) /\ Starts(D)[Len(D) + 1] = m
  BY <1>2 DEF Aligned
<1>4. ASSUME NEW k \in 1..Len(D)
      PROVE  /\ UpdateSubtreeRoots(n, more)[k] = SubtreeRoot(more, Starts(D)[k], D[k])
             /\ SubtreeRoot(more, Starts(D)[k], D[k]) = SubtreeRoot(c, n + Starts(D)[k], D[k])
  <2>1. k \in DOMAIN D
    BY <1>3, LenProperties
  <2>2. UpdateSubtreeRoots(n, more)[k] = SubtreeRoot(more, Starts(D)[k], D[k])
    BY <1>1, <2>1 DEF UpdateSubtreeRoots, SubtreeRoots
  <2>3. PICK s \in Nat, h \in Nat, w \in Nat :
          s = Starts(D)[k] /\ h = D[k] /\ w = 2^h /\ s + w <= m
    <3>1. D[k] \in Nat
      BY <1>3, ElementOfSeq
    <3>2. Starts(D)[k] \in Nat /\ Starts(D)[k] + 2^D[k] <= m
      BY <1>3, SubtreesWithin
    <3> QED  BY <3>1, <3>2, PowerOfTwo
  <2>4. ASSUME NEW i \in 0..w - 1 PROVE more[s + i + 1] = c[(n + s) + i + 1]
    <3>1. s + i + 1 \in 1..m /\ n + (s + i + 1) = (n + s) + i + 1
      <4>1. s + w <= m
        BY <2>3
      <4>2. i \in Nat /\ i + 1 <= w
        OBVIOUS
      <4>3. s + i + 1 \in 1..m
        BY <4>1, <4>2
      <4> QED  BY <4>2, <4>3
    <3>2. c[n + (s + i + 1)] = more[s + i + 1]
      BY <3>1
    <3> QED  BY <3>1, <3>2
  <2>5. Alike(more, s, c, n + s, h)
    BY <2>3, <2>4 DEF Alike
  <2>6. SubtreeRoot(more, s, h) = SubtreeRoot(c, n + s, h)
    <3>1. n + s \in Nat
      BY <2>3
    <3> QED  BY <2>3, <2>5, <3>1, SubtreeAgrees
  <2> QED  BY <2>2, <2>3, <2>6
<1> QED  BY <1>1, <1>4 DEF RootsFrom

\* The peak of a height, looked up as both sides do.
LEMMA PeakOfHeight ==
  ASSUME NEW c, NEW n \in Nat, n <= 2^MaxHeight
  PROVE  /\ ToSet(PeakHeights(n)) = {h \in Heights : Bit(n, h) = 1}
         /\ \A g \in Heights : Bit(n, g) = 1 =>
              PeaksAt(c, n)[CHOOSE k \in DOMAIN PeakHeights(n) : PeakHeights(n)[k] = g]
                = SubtreeRoot(c, High(n, g + 1), g)
<1>1. PICK H : H = PeakHeights(n)
  OBVIOUS
<1>2. /\ H \in Seq(Nat)
      /\ \A k \in 1..Len(H) :
           H[k] \in Heights /\ Bit(n, H[k]) = 1 /\ Starts(H)[k] = High(n, H[k] + 1)
      /\ \A h \in Heights : Bit(n, h) = 1 => \E k \in 1..Len(H) : H[k] = h
      /\ \A j, k \in 1..Len(H) : H[j] = H[k] => j = k
  <2>1. /\ PeakHeights(n) \in Seq(Nat)
        /\ \A k \in 1..Len(PeakHeights(n)) :
             /\ PeakHeights(n)[k] \in Heights /\ Bit(n, PeakHeights(n)[k]) = 1
             /\ Starts(PeakHeights(n))[k] = High(n, PeakHeights(n)[k] + 1)
        /\ \A h \in Heights : Bit(n, h) = 1 =>
             \E k \in 1..Len(PeakHeights(n)) : PeakHeights(n)[k] = h
        /\ \A j, k \in 1..Len(PeakHeights(n)) : PeakHeights(n)[j] = PeakHeights(n)[k] => j = k
    BY BelowTop, PeakStarts
  <2> QED  BY <1>1, <2>1
<1>3. DOMAIN H = 1..Len(H) /\ ToSet(H) = {H[k] : k \in 1..Len(H)}
  BY <1>2, LenProperties DEF ToSet
<1>4. ToSet(H) = {h \in Heights : Bit(n, h) = 1}
  BY <1>2, <1>3
<1>5. ASSUME NEW g \in Heights, Bit(n, g) = 1
      PROVE  PeaksAt(c, n)[CHOOSE k \in DOMAIN H : H[k] = g] = SubtreeRoot(c, High(n, g + 1), g)
  <2>1. PICK k \in 1..Len(H) : H[k] = g
    BY <1>2, <1>5
  <2>2. (CHOOSE j \in DOMAIN H : H[j] = g) = k
    BY <1>2, <1>3, <2>1
  <2>3. PeaksAt(c, n)[k] = SubtreeRoot(c, 0 + Starts(H)[k], H[k])
    BY <1>1, PeaksAreRoots DEF RootsFrom
  <2>4. 0 + Starts(H)[k] = High(n, g + 1)
    <3>1. g + 1 \in Nat /\ Starts(H)[k] = High(n, g + 1)
      BY <1>2, <2>1, RangeAssumption DEF Heights
    <3>2. High(n, g + 1) \in Nat
      BY <3>1, Highest
    <3> QED  BY <3>1, <3>2
  <2> QED  BY <2>1, <2>2, <2>3, <2>4
<1> QED  BY <1>1, <1>4, <1>5

\* The contract's update of the peaks of n chunks by the roots of m more: the peaks of all.
LEMMA ContractMerges ==
  ASSUME NEW c, NEW n \in Nat, NEW m \in Nat, n + m <= 2^MaxHeight,
         NEW heights, Aligned(heights, n, m), NEW sub, RootsFrom(sub, c, n, heights)
  PROVE  ContractApplyUpdate(PeaksAt(c, n), n, sub, heights) = PeaksAt(c, n + m)
<1>1. MaxHeight \in Nat /\ Heights \subseteq Nat /\ 2^MaxHeight \in Nat
  BY RangeAssumption, PowerOfTwo DEF Heights
<1>2. n <= 2^MaxHeight /\ n + m \in Nat /\ n < 2^(MaxHeight + 1) /\ n + m < 2^(MaxHeight + 1)
  <2>1. n <= 2^MaxHeight /\ n + m \in Nat
    BY <1>1
  <2> QED  BY <2>1, BelowTop
<1>3. PICK H, ps : H = PeakHeights(n) /\ ps = PeaksAt(c, n)
  OBVIOUS
<1>4. /\ ToSet(H) = {h \in Heights : Bit(n, h) = 1}
      /\ \A g \in Heights : Bit(n, g) = 1 =>
           ps[CHOOSE k \in DOMAIN H : H[k] = g] = SubtreeRoot(c, High(n, g + 1), g)
  BY <1>2, <1>3, PeakOfHeight
<1> DEFINE table == [h \in Heights |->
                       IF h \in ToSet(H) THEN ps[CHOOSE k \in DOMAIN H : H[k] = h] ELSE <<>>]
           start == [count |-> n, table |-> table]
<1>6. TableOf(start, c, n)
  <2>1. \A g \in Heights : Bit(n, g) = 1 => table[g] = SubtreeRoot(c, High(n, g + 1), g)
    BY <1>4
  <2>2. start.count = n /\ start.table = table /\ DOMAIN table = Heights
    OBVIOUS
  <2> HIDE DEF start, table
  <2> QED  BY <2>1, <2>2 DEF TableOf, Tabulates
<1>7. PICK l \in Nat : l = Len(heights)
  BY LenProperties DEF Aligned
<1> HIDE DEF start
<1> DEFINE f == CHOOSE f : Merging(start, heights, sub, l, f)
           after == PeakHeights(f[l].count)
<1>8. Merging(start, heights, sub, l, f)
  BY MergingExists
<1>9. ContractApplyUpdate(ps, n, sub, heights) = [k \in DOMAIN after |-> f[l].table[after[k]]]
  BY <1>3, <1>7 DEF ContractApplyUpdate, Merging, start
<1> HIDE DEF f
<1>10. TableOf(f[l], c, n + m)
  BY <1>6, <1>7, <1>8, TableAfter
<1>11. after = PeakHeights(n + m)
  BY <1>10 DEF TableOf
<1>12. ASSUME NEW k \in DOMAIN after
       PROVE  f[l].table[after[k]] = SubtreeRoot(c, Starts(after)[k], after[k])
  <2>1. /\ after \in Seq(Nat)
        /\ \A j \in 1..Len(after) :
             /\ after[j] \in Heights /\ Bit(n + m, after[j]) = 1
             /\ Starts(after)[j] = High(n + m, after[j] + 1)
    BY <1>2, <1>11, PeakStarts
  <2>2. k \in 1..Len(after)
    BY <2>1, LenProperties
  <2> QED  BY <1>10, <2>1, <2>2 DEF TableOf, Tabulates
<1>13. PeaksAt(c, n + m) = [k \in DOMAIN after |-> SubtreeRoot(c, Starts(after)[k], after[k])]
  BY <1>11 DEF PeaksAt, SubtreeRoots
<1> HIDE DEF after
<1> QED  BY <1>3, <1>9, <1>12, <1>13

(***************************************************************************)
(* The peaks.                                                              *)
(***************************************************************************)

\* The contract's peaks are those of the published chunks, and so is each root it pinned.
Pinned(pin) == pin.n \in 0..leafCount /\ pin.root = Root(pin.n, PeaksAt(published, pin.n))
PeaksInv ==
  /\ leafCount <= MaxLeafCount
  /\ peaks = PeaksAt(published, leafCount)
  /\ \A pin \in pins : Pinned(pin)

LEMMA LeafCountsFit ==
  /\ MaxLeafCount \in Nat
  /\ \A n \in Nat : n <= MaxLeafCount => n <= 2^MaxHeight
<1>1. 2^MaxHeight \in Nat /\ MaxLeafCount \in 0..2^MaxHeight
  BY RangeAssumption, PowerOfTwo, DataPathAssumption
<1> QED  BY <1>1

LEMMA PeaksFramed == ASSUME PeaksInv, UNCHANGED contractVars PROVE PeaksInv'
<1>1. peaks' = peaks /\ leafCount' = leafCount /\ pins' = pins /\ published' = published
  BY DEF contractVars
<1> QED  BY <1>1 DEF PeaksInv, Pinned

LEMMA DeclaringKeepsPeaks ==
  ASSUME LogInv, PeaksInv, NEW carried \in Seq(Blobs), NEW witness \in Seq(Blobs), NEW declared,
         NEW n1 \in Nat, DeclareFor(carried, declared, n1, witness)
  PROVE  PeaksInv'
<1> DEFINE m == n1 - leafCount
           more == Unpacked(carried, m)
<1>1. /\ Canonical(carried, m) /\ declared = UpdateSubtreeRoots(leafCount, more)
      /\ n1 > leafCount
  BY AcceptedIsCarried DEF DeclareFor, DeclarationAccepted
<1>2. m \in Nat /\ leafCount \in Nat /\ n1 = leafCount + m
  BY <1>1, LenNat
<1>3. more \in Seq(Chunk) /\ Len(more) = m
  BY <1>1, <1>2, UnpackedTyped DEF Canonical
<1>4. /\ published' = published \o more /\ leafCount' = n1 /\ n1 <= MaxLeafCount
      /\ peaks' = ContractApplyUpdate(peaks, leafCount, declared, Decompose(leafCount, m))
      /\ pins' = pins \cup {[n |-> n1, root |-> Root(n1, peaks')]}
  BY DEF DeclareFor
<1> HIDE DEF m, more
<1>5. /\ \A i \in 1..leafCount : published'[i] = published[i]
      /\ \A u \in 1..m : published'[leafCount + u] = more[u]
  <2>1. published \in Seq(Chunk) /\ leafCount = Len(published)
    BY DEF LogInv
  <2>2. \A i \in 1..leafCount + m :
          published'[i] = IF i <= leafCount THEN published[i] ELSE more[i - leafCount]
    BY <1>3, <1>4, <2>1, ConcatProperties
  <2>3. ASSUME NEW u \in 1..m PROVE published'[leafCount + u] = more[u]
    <3>1. leafCount + u \in 1..leafCount + m /\ ~(leafCount + u <= leafCount)
          /\ (leafCount + u) - leafCount = u
      BY <1>2
    <3> QED  BY <2>2, <3>1
  <2>4. ASSUME NEW i \in 1..leafCount PROVE published'[i] = published[i]
    <3>1. i \in 1..leafCount + m /\ i <= leafCount
      BY <1>2
    <3> QED  BY <2>2, <3>1
  <2> QED  BY <2>3, <2>4
<1>6. PICK c : c = published'
  OBVIOUS
<1>7. leafCount + m <= 2^MaxHeight
  BY <1>2, <1>4, LeafCountsFit
<1>8. peaks = PeaksAt(c, leafCount)
  <2>1. leafCount <= 2^MaxHeight
    BY <1>2, LeafCountsFit DEF PeaksInv
  <2>2. PeaksAt(published, leafCount) = PeaksAt(c, leafCount)
    BY <1>2, <1>5, <1>6, <2>1, PeaksLocal
  <2> QED  BY <2>2 DEF PeaksInv
<1>9. RootsFrom(declared, c, leafCount, Decompose(leafCount, m))
  BY <1>1, <1>2, <1>3, <1>5, <1>6, DeclaredAreRoots
<1>10. peaks' = PeaksAt(c, n1)
  BY <1>2, <1>4, <1>7, <1>8, <1>9, DecomposeAligned, ContractMerges
<1>11. ASSUME NEW pin \in pins' PROVE Pinned(pin)'
  <2>1. CASE pin \in pins
    <3>1. pin.n \in 0..leafCount /\ pin.root = Root(pin.n, PeaksAt(published, pin.n))
      BY <2>1 DEF PeaksInv, Pinned
    <3>2. pin.n \in 0..n1 /\ pin.n \in Nat /\ pin.n <= 2^MaxHeight
      BY <1>1, <1>2, <1>4, <3>1, LeafCountsFit
    <3>3. \A i \in 1..pin.n : published[i] = c[i]
      <4>1. \A i \in 1..pin.n : i \in 1..leafCount
        BY <1>2, <3>1
      <4> QED  BY <1>5, <1>6, <4>1
    <3>4. PeaksAt(published, pin.n) = PeaksAt(c, pin.n)
      BY <3>2, <3>3, PeaksLocal
    <3> QED  BY <1>4, <1>6, <3>1, <3>2, <3>4 DEF Pinned
  <2>2. CASE pin = [n |-> n1, root |-> Root(n1, peaks')]
    <3>1. pin.n = n1 /\ pin.root = Root(n1, peaks') /\ n1 \in 0..n1
      BY <2>2
    <3> QED  BY <1>4, <1>6, <1>10, <3>1 DEF Pinned
  <2> QED  BY <1>4, <2>1, <2>2
<1> QED  BY <1>4, <1>6, <1>10, <1>11 DEF PeaksInv

LEMMA InitPeaks == DataInit => PeaksInv
<1> SUFFICES ASSUME DataInit PROVE PeaksInv
  OBVIOUS
<1>1. peaks = <<>> /\ leafCount = 0 /\ published = <<>> /\ pins = {[n |-> 0, root |-> Root(0, <<>>)]}
  BY DEF DataInit
<1>2. 0 \in Nat /\ 0 < 2^(MaxHeight + 1)
  BY RangeAssumption, PowerOfTwo
<1>3. PeakHeights(0) \in Seq(Nat) /\ Len(PeakHeights(0)) = 0
  <2>1. \A g \in Nat : Bit(0, g) = 0
    <3> SUFFICES ASSUME NEW g \in Nat PROVE Bit(0, g) = 0
      OBVIOUS
    <3>1. 0 < 2^g
      BY PowerOfTwo
    <3>2. Top(0, g) = 0
      BY <3>1, HighVanishes
    <3>3. Top(0, g + 1) \in Nat /\ Bit(0, g) \in {0, 1} /\ Top(0, g) = 2 * Top(0, g + 1) + Bit(0, g)
      BY Halving
    <3> QED  BY <3>2, <3>3
  <2>2. /\ PeakHeights(0) \in Seq(Nat)
        /\ \A k \in 1..Len(PeakHeights(0)) : Bit(0, PeakHeights(0)[k]) = 1
    BY <1>2, PeakStarts
  <2>3. Len(PeakHeights(0)) \in Nat
    BY <2>2, LenProperties
  <2>4. ASSUME 1 <= Len(PeakHeights(0)) PROVE FALSE
    <3>1. 1 \in 1..Len(PeakHeights(0))
      BY <2>3, <2>4
    <3>2. PeakHeights(0)[1] \in Nat
      BY <2>2, <3>1, ElementOfSeq
    <3> QED  BY <2>1, <2>2, <3>1, <3>2
  <2> QED  BY <2>2, <2>3, <2>4
<1>4. PeaksAt(<<>>, 0) = <<>>
  <2>1. DOMAIN PeakHeights(0) = {}
    BY <1>3, LenProperties
  <2> QED  BY <2>1 DEF PeaksAt, SubtreeRoots
<1> QED  BY <1>1, <1>4, LeafCountsFit DEF PeaksInv, Pinned

LEMMA PeaksStep == DataInv /\ PeaksInv /\ [DataNext]_dataVars => PeaksInv'
<1> SUFFICES ASSUME DataInv, PeaksInv, [DataNext]_dataVars PROVE PeaksInv'
  OBVIOUS
<1>1. CASE PublisherStep
  <2>1. PICK n1 \in leafCount + 1..MaxLeafCount, carried \in BlobLists, witness \in BlobLists :
          \E declared : DeclareFor(carried, declared, n1, witness)
    BY <1>1 DEF PublisherStep
  <2>2. n1 \in Nat
    BY <2>1, LenNat DEF DataInv
  <2> QED  BY <2>1, <2>2, BlobListsAreSequences, DeclaringKeepsPeaks DEF DataInv
<1>2. CASE UNCHANGED contractVars
  BY <1>2, PeaksFramed
<1> QED  BY <1>1, <1>2 DEF DataNext, DaemonStep, dataVars, Acquire, Answer, Ingest

LEMMA PeaksInvHolds == DataSpec => []PeaksInv
  BY InitPeaks, PeaksStep, DataInvHolds, PTL DEF DataSpec

(***************************************************************************)
(* The daemon's map of peaks.                                              *)
(***************************************************************************)

MapOf(mmr, c, n) ==
  /\ mmr.leafCount = n /\ DOMAIN mmr.byHeight = {h \in Heights : Bit(n, h) = 1}
  /\ Tabulates(mmr.byHeight, c, n)

LEMMA MergeMaps ==
  ASSUME NEW mmr, NEW c, NEW n \in Nat, MapOf(mmr, c, n),
         NEW h \in Heights, n % 2^h = 0, n < 2^MaxHeight,
         NEW peak, peak = SubtreeRoot(c, n, h)
  PROVE  MapOf(Merge(mmr, h, peak), c, n + 2^h)
<1>1. h \in Nat /\ Heights \subseteq Nat
  BY RangeAssumption DEF Heights
<1>2. {g \in Heights : g >= h /\ g \notin DOMAIN mmr.byHeight}
        = {g \in Heights : g >= h /\ Bit(n, g) = 0}
  <2>1. \A g \in Heights : g \notin DOMAIN mmr.byHeight <=> Bit(n, g) # 1
    BY DEF MapOf
  <2>2. \A g \in Heights : Bit(n, g) \in {0, 1}
    BY <1>1, Halving
  <2> QED  BY <2>1, <2>2
<1>3. PICK free, q, root :
        /\ free = Min({g \in Heights : g >= h /\ Bit(n, g) = 0})
        /\ q = n + 2^h /\ root = Carry(mmr.byHeight, h, free, peak)
  OBVIOUS
<1>4. /\ free \in Heights /\ free \in Nat /\ h <= free /\ Bit(n, free) = 0
      /\ \A g \in Nat : h <= g /\ g < free => Bit(n, g) = 1
  BY <1>1, <1>3, FreeHeight
<1>5. /\ \A g \in Nat : g < free => Bit(q, g) = 0
      /\ Bit(q, free) = 1
      /\ High(q, free + 1) = High(n, free + 1)
      /\ \A g \in Nat : free < g => Bit(q, g) = Bit(n, g) /\ High(q, g + 1) = High(n, g + 1)
  <2>1. /\ \A g \in Nat : g < free => Bit(n + 2^h, g) = 0
        /\ Bit(n + 2^h, free) = 1
        /\ High(n + 2^h, free + 1) = High(n, free + 1)
        /\ \A g \in Nat : free < g =>
             Bit(n + 2^h, g) = Bit(n, g) /\ High(n + 2^h, g + 1) = High(n, g + 1)
    BY <1>1, <1>4, BitsCarry
  <2> QED  BY <1>3, <2>1
<1>6. root = SubtreeRoot(c, High(n, free + 1), free)
  BY <1>1, <1>3, <1>4, CarryIsRoot DEF MapOf
<1>7. PICK after, kept :
        /\ after = Merge(mmr, h, peak)
        /\ kept = DOMAIN mmr.byHeight \ (h..free)
  OBVIOUS
<1>8. /\ after.leafCount = q
      /\ after.byHeight = [g \in kept \cup {free} |-> IF g = free THEN root ELSE mmr.byHeight[g]]
  <2>1. Merge(mmr, h, peak)
          = [leafCount |-> mmr.leafCount + 2^h,
             byHeight |-> [g \in kept \cup {free} |-> IF g = free THEN root ELSE mmr.byHeight[g]]]
    BY <1>2, <1>3, <1>7 DEF Merge
  <2>2. mmr.leafCount = n
    BY DEF MapOf
  <2> QED  BY <1>3, <1>7, <2>1, <2>2
<1>9. ASSUME NEW g \in Heights PROVE g \in kept \cup {free} <=> Bit(q, g) = 1
  <2>0. g \in Nat
    BY <1>1
  <2>1. CASE g < h
    <3>1. Bit(n, g) = 0
      BY <1>1, <2>0, <2>1, LowBits
    <3>2. g < free
      BY <1>1, <1>4, <2>0, <2>1
    <3> QED  BY <1>5, <1>7, <2>0, <3>1, <3>2 DEF MapOf
  <2>2. CASE h <= g /\ g < free
    <3>1. g \in h..free /\ g # free
      BY <1>1, <1>4, <2>0, <2>2
    <3> QED  BY <1>5, <1>7, <2>0, <2>2, <3>1
  <2>3. CASE g = free
    BY <1>5, <2>3
  <2>4. CASE free < g
    <3>1. g \notin h..free /\ g # free
      BY <1>1, <1>4, <2>0, <2>4
    <3> QED  BY <1>5, <1>7, <2>0, <2>4, <3>1 DEF MapOf
  <2> QED  BY <1>1, <1>4, <2>0, <2>1, <2>2, <2>3, <2>4
<1>10. DOMAIN after.byHeight = {g \in Heights : Bit(q, g) = 1}
  <2>1. kept \cup {free} \subseteq Heights
    BY <1>4, <1>7 DEF MapOf
  <2> QED  BY <1>8, <1>9, <2>1
<1>11. ASSUME NEW g \in Heights, Bit(q, g) = 1
       PROVE  after.byHeight[g] = SubtreeRoot(c, High(q, g + 1), g)
  <2>1. g \in Nat /\ ~(g < free)
    BY <1>1, <1>5, <1>11
  <2>2. after.byHeight[g] = IF g = free THEN root ELSE mmr.byHeight[g]
    BY <1>8, <1>9, <1>11
  <2>3. CASE g = free
    BY <1>5, <1>6, <2>2, <2>3
  <2>4. CASE g # free
    <3>1. free < g
      BY <1>4, <2>1, <2>4
    <3> QED  BY <1>5, <1>11, <2>1, <2>2, <2>4, <3>1 DEF MapOf, Tabulates
  <2> QED  BY <2>3, <2>4
<1> QED  BY <1>3, <1>7, <1>8, <1>10, <1>11 DEF MapOf, Tabulates

Updating(start, heights, sub, k, f) ==
  f = [i \in 0..k |-> IF i = 0 THEN start ELSE Merge(f[i - 1], heights[i], sub[i])]

LEMMA UpdatingExists ==
  ASSUME NEW start, NEW heights, NEW sub, NEW k \in Nat
  PROVE  \E f : Updating(start, heights, sub, k, f)
<1> DEFINE F == {j \in Nat : \E f : Updating(start, heights, sub, j, f)}
<1>1. 0 \in F
  <2> DEFINE f == [i \in 0..0 |-> start]
  <2>1. Updating(start, heights, sub, 0, f)
    BY DEF Updating
  <2> QED  BY <2>1
<1>2. ASSUME NEW j \in F PROVE j + 1 \in F
  <2>1. PICK b \in Nat : b = j + 1 /\ b # 0 /\ b - 1 = j /\ j \in Nat
    OBVIOUS
  <2>2. PICK u : Updating(start, heights, sub, j, u)
    BY <1>2
  <2> DEFINE Next(v, i) == Merge(v, heights[i], sub[i])
             f == [i \in 0..b |-> IF i = b THEN Next(u[j], b) ELSE u[i]]
  <2>3. \A i \in 0..j : u[i] = IF i = 0 THEN start ELSE Next(u[i - 1], i)
    BY <2>2 DEF Updating
  <2> HIDE DEF Next
  <2>4. ASSUME NEW i \in 0..b PROVE f[i] = IF i = 0 THEN start ELSE Next(f[i - 1], i)
    <3>1. CASE i = b
      <4>1. j \in 0..b /\ j # b
        BY <2>1
      <4>2. f[j] = u[j] /\ f[i] = Next(u[j], b)
        BY <3>1, <4>1
      <4> HIDE DEF f
      <4> QED  BY <2>1, <3>1, <4>2
    <3>2. CASE i # b
      <4>1. i \in 0..j /\ (i # 0 => i - 1 \in 0..b /\ i - 1 # b)
        BY <2>1, <3>2
      <4>2. f[i] = u[i] /\ (i # 0 => f[i - 1] = u[i - 1])
        BY <3>2, <4>1
      <4> HIDE DEF f
      <4> QED  BY <2>3, <4>1, <4>2
    <3> QED  BY <3>1, <3>2
  <2>5. f = [i \in 0..b |-> IF i = 0 THEN start ELSE Next(f[i - 1], i)]
    <3>1. f = [i \in 0..b |-> f[i]]
      OBVIOUS
    <3> HIDE DEF f
    <3> QED  BY <2>4, <3>1
  <2>6. Updating(start, heights, sub, b, f)
    <3> HIDE DEF f
    <3> QED  BY <2>5 DEF Updating, Next
  <2> QED  BY <2>1, <2>6
<1>3. Nat \subseteq F
  <2> HIDE DEF F
  <2> QED  BY <1>1, <1>2, NumberInduction
<1> QED  BY <1>3

LEMMA MapAfter ==
  ASSUME NEW c, NEW n \in Nat, NEW m \in Nat, n + m <= 2^MaxHeight,
         NEW heights, Aligned(heights, n, m), NEW sub, RootsFrom(sub, c, n, heights),
         NEW start, MapOf(start, c, n), NEW f, Updating(start, heights, sub, Len(heights), f)
  PROVE  MapOf(f[Len(heights)], c, n + m)
<1>0. PICK s : s = Starts(heights)
  OBVIOUS
<1>1. heights \in Seq(Nat)
  BY DEF Aligned
<1>2. PICK l \in Nat : l = Len(heights) /\ s = Starts(heights)
  BY <1>0, <1>1, LenProperties
<1>3. \A i \in 0..l : f[i] = IF i = 0 THEN start ELSE Merge(f[i - 1], heights[i], sub[i])
  BY <1>2 DEF Updating
<1>4. /\ s[1] = 0 /\ s[l + 1] = m
      /\ \A k \in 1..l : s[k + 1] = s[k] + 2^heights[k]
      /\ \A k \in 1..l + 1 : s[k] \in Nat
  BY <1>1, <1>2, StartsRun DEF Aligned
<1> DEFINE F == {k \in Nat : k <= l => MapOf(f[k], c, n + s[k + 1])}
<1>5. 0 \in F
  <2>1. f[0] = start /\ n + s[0 + 1] = n
    BY <1>3, <1>4
  <2> QED  BY <2>1
<1>6. ASSUME NEW k \in F PROVE k + 1 \in F
  <2> SUFFICES ASSUME k + 1 <= l PROVE MapOf(f[k + 1], c, n + s[(k + 1) + 1])
    OBVIOUS
  <2>1. PICK j \in 1..l : j = k + 1 /\ j - 1 = k /\ j # 0 /\ j \in 0..l /\ k \in Nat /\ k <= l
    OBVIOUS
  <2>2. PICK p \in Nat, w \in Nat, h \in Heights :
          p = n + s[j] /\ h = heights[j] /\ w = 2^h /\ s[j] + w <= m /\ s[j] < m
    <3>1. heights[j] \in Heights /\ heights[j] \in Nat
      BY <1>1, <1>2, ElementOfSeq DEF Aligned
    <3>2. s[j] \in Nat /\ s[j] + 2^heights[j] <= m /\ s[j] < m
      BY <1>1, <1>2, <1>4, SubtreesWithin
    <3>3. 2^heights[j] \in Nat /\ n + s[j] \in Nat
      BY <3>1, <3>2, PowerOfTwo
    <3> QED  BY <3>1, <3>2, <3>3
  <2>3. MapOf(f[k], c, p)
    BY <2>1, <2>2
  <2>4. p < 2^MaxHeight
    <3>1. 2^MaxHeight \in Nat
      BY RangeAssumption, PowerOfTwo
    <3>2. s[j] \in Nat
      BY <1>4
    <3> QED  BY <2>2, <3>1, <3>2
  <2>5. p % 2^h = 0 /\ sub[j] = SubtreeRoot(c, p, h)
    BY <1>2, <2>2 DEF Aligned, RootsFrom
  <2>6. f[j] = Merge(f[k], h, sub[j])
    BY <1>3, <2>1, <2>2
  <2>7. MapOf(f[j], c, p + 2^h)
    BY <2>3, <2>4, <2>5, <2>6, MergeMaps
  <2>8. n + s[j + 1] = p + w
    <3>1. s[j + 1] = s[j] + w /\ s[j] \in Nat
      BY <1>4, <2>2
    <3> QED  BY <2>2, <3>1
  <2> QED  BY <2>1, <2>2, <2>7, <2>8
<1>7. Nat \subseteq F
  <2> HIDE DEF F
  <2> QED  BY <1>5, <1>6, NumberInduction
<1>8. MapOf(f[l], c, n + s[l + 1])
  BY <1>7
<1> QED  BY <1>2, <1>4, <1>8

\* The daemon's update of the peaks of n chunks by the roots of m more: the peaks of all.
LEMMA DaemonMerges ==
  ASSUME NEW c, NEW n \in Nat, NEW m \in Nat, n + m <= 2^MaxHeight,
         NEW sub, RootsFrom(sub, c, n, Decompose(n, m))
  PROVE  Peaks(ApplyUpdate(FromState(n, PeaksAt(c, n)), sub, m)) = PeaksAt(c, n + m)
<1>1. MaxHeight \in Nat /\ Heights \subseteq Nat /\ 2^MaxHeight \in Nat
  BY RangeAssumption, PowerOfTwo DEF Heights
<1>2. n <= 2^MaxHeight /\ n + m \in Nat /\ n < 2^(MaxHeight + 1) /\ n + m < 2^(MaxHeight + 1)
  <2>1. n <= 2^MaxHeight /\ n + m \in Nat
    BY <1>1
  <2> QED  BY <2>1, BelowTop
<1>3. PICK H, ps : H = PeakHeights(n) /\ ps = PeaksAt(c, n)
  OBVIOUS
<1>4. /\ ToSet(H) = {h \in Heights : Bit(n, h) = 1}
      /\ \A g \in Heights : Bit(n, g) = 1 =>
           ps[CHOOSE k \in DOMAIN H : H[k] = g] = SubtreeRoot(c, High(n, g + 1), g)
  BY <1>2, <1>3, PeakOfHeight
<1> DEFINE byHeight == [h \in ToSet(H) |-> ps[CHOOSE k \in DOMAIN H : H[k] = h]]
           start == [leafCount |-> n, byHeight |-> byHeight]
<1>5. MapOf(start, c, n)
  <2>1. \A g \in Heights : Bit(n, g) = 1 => byHeight[g] = SubtreeRoot(c, High(n, g + 1), g)
    BY <1>4
  <2>2. start.leafCount = n /\ start.byHeight = byHeight /\ DOMAIN byHeight = ToSet(H)
    OBVIOUS
  <2> HIDE DEF start, byHeight
  <2> QED  BY <1>4, <2>1, <2>2 DEF MapOf, Tabulates
<1>6. FromState(n, ps) = start
  BY <1>3 DEF FromState
<1>7. PICK heights, l : heights = Decompose(n, m) /\ l = Len(heights)
  OBVIOUS
<1>8. Aligned(heights, n, m) /\ l \in Nat
  <2>1. Aligned(heights, n, m)
    BY <1>7, DecomposeAligned
  <2>2. heights \in Seq(Nat)
    BY <2>1 DEF Aligned
  <2> QED  BY <1>7, <2>1, <2>2, LenProperties
<1>9. start.leafCount = n
  OBVIOUS
<1> HIDE DEF start
<1> DEFINE f == CHOOSE f : Updating(start, heights, sub, l, f)
           after == PeakHeights(n + m)
<1>10. Updating(start, heights, sub, l, f)
  BY <1>8, UpdatingExists
<1>11. ApplyUpdate(start, sub, m) = f[l]
  BY <1>7, <1>9 DEF ApplyUpdate, Updating
<1> HIDE DEF f
<1>12. MapOf(f[l], c, n + m)
  BY <1>5, <1>7, <1>8, <1>10, MapAfter
<1>13. Descending(DOMAIN f[l].byHeight) = after
  BY <1>12 DEF MapOf, PeakHeights
<1>14. Peaks(f[l]) = [k \in DOMAIN after |-> f[l].byHeight[after[k]]]
  BY <1>13 DEF Peaks
<1>15. ASSUME NEW k \in DOMAIN after
       PROVE  f[l].byHeight[after[k]] = SubtreeRoot(c, Starts(after)[k], after[k])
  <2>1. /\ after \in Seq(Nat)
        /\ \A j \in 1..Len(after) :
             /\ after[j] \in Heights /\ Bit(n + m, after[j]) = 1
             /\ Starts(after)[j] = High(n + m, after[j] + 1)
    BY <1>2, PeakStarts
  <2>2. k \in 1..Len(after)
    BY <2>1, LenProperties
  <2> QED  BY <1>12, <2>1, <2>2 DEF MapOf, Tabulates
<1>16. PeaksAt(c, n + m) = [k \in DOMAIN after |-> SubtreeRoot(c, Starts(after)[k], after[k])]
  BY DEF PeaksAt, SubtreeRoots
<1> HIDE DEF after
<1> QED  BY <1>3, <1>6, <1>11, <1>14, <1>15, <1>16

(***************************************************************************)
(* Paths.                                                                  *)
(***************************************************************************)

LEMMA LocateFinds ==
  ASSUME NEW n \in Nat, n <= 2^MaxHeight, NEW i \in Nat, i < n
  PROVE  LET at == Locate(i, n) IN
         /\ at.peak \in 1..Len(PeakHeights(n)) /\ at.height = PeakHeights(n)[at.peak]
         /\ at.start = Starts(PeakHeights(n))[at.peak]
         /\ at.height \in Nat /\ at.start \in Nat
         /\ i - at.start \in Nat /\ i - at.start < 2^at.height
<1>1. PICK H, s : H = PeakHeights(n) /\ s = Starts(H)
  OBVIOUS
<1>2. H \in Seq(Nat) /\ s[Len(H) + 1] = n
  BY <1>1, BelowTop, PeakStarts
<1>3. PICK k : k = CHOOSE j \in DOMAIN H : s[j] <= i /\ i < s[j] + 2^H[j]
  OBVIOUS
<1>4. k \in 1..Len(H) /\ s[k] <= i /\ i < s[k] + 2^H[k]
  <2>1. DOMAIN H = 1..Len(H)
    BY <1>2, LenProperties
  <2>2. \E j \in 1..Len(H) : s[j] <= i /\ i < s[j] + 2^H[j]
    BY <1>1, <1>2, StartsCover
  <2> QED  BY <1>3, <2>1, <2>2
<1>5. Locate(i, n) = [peak |-> k, start |-> s[k], height |-> H[k]]
  BY <1>1, <1>3 DEF Locate
<1>6. H[k] \in Nat /\ s[k] \in Nat
  BY <1>1, <1>2, <1>4, ElementOfSeq, SubtreesWithin
<1>7. i - s[k] \in Nat /\ i - s[k] < 2^H[k]
  <2>1. PICK w \in Nat : w = 2^H[k]
    BY <1>6, PowerOfTwo
  <2> QED  BY <1>4, <1>6, <2>1
<1> QED  BY <1>1, <1>4, <1>5, <1>6, <1>7

\* The way up from a chunk, at offset o of its subtree, along a path.
Climbing(chunk, o, path, k, f) ==
  f = [l \in 0..k |-> IF l = 0 THEN Leaf(chunk)
                      ELSE IF Bit(o, l - 1) = 0 THEN Node(f[l - 1], path[l])
                      ELSE Node(path[l], f[l - 1])]

LEMMA ClimbingExists ==
  ASSUME NEW chunk, NEW o, NEW path, NEW k \in Nat
  PROVE  \E f : Climbing(chunk, o, path, k, f)
<1> DEFINE F == {j \in Nat : \E f : Climbing(chunk, o, path, j, f)}
<1>1. 0 \in F
  <2> DEFINE f == [l \in 0..0 |-> Leaf(chunk)]
  <2>1. Climbing(chunk, o, path, 0, f)
    BY DEF Climbing
  <2> QED  BY <2>1
<1>2. ASSUME NEW j \in F PROVE j + 1 \in F
  <2>1. PICK b \in Nat : b = j + 1 /\ b # 0 /\ b - 1 = j /\ j \in Nat
    OBVIOUS
  <2>2. PICK u : Climbing(chunk, o, path, j, u)
    BY <1>2
  <2> DEFINE Next(v, l) == IF Bit(o, l - 1) = 0 THEN Node(v, path[l]) ELSE Node(path[l], v)
             f == [l \in 0..b |-> IF l = b THEN Next(u[j], b) ELSE u[l]]
  <2>3. \A l \in 0..j : u[l] = IF l = 0 THEN Leaf(chunk) ELSE Next(u[l - 1], l)
    BY <2>2 DEF Climbing
  <2> HIDE DEF Next
  <2>4. ASSUME NEW l \in 0..b PROVE f[l] = IF l = 0 THEN Leaf(chunk) ELSE Next(f[l - 1], l)
    <3>1. CASE l = b
      <4>1. j \in 0..b /\ j # b
        BY <2>1
      <4>2. f[j] = u[j] /\ f[l] = Next(u[j], b)
        BY <3>1, <4>1
      <4> HIDE DEF f
      <4> QED  BY <2>1, <3>1, <4>2
    <3>2. CASE l # b
      <4>1. l \in 0..j /\ (l # 0 => l - 1 \in 0..b /\ l - 1 # b)
        BY <2>1, <3>2
      <4>2. f[l] = u[l] /\ (l # 0 => f[l - 1] = u[l - 1])
        BY <3>2, <4>1
      <4> HIDE DEF f
      <4> QED  BY <2>3, <4>1, <4>2
    <3> QED  BY <3>1, <3>2
  <2>5. f = [l \in 0..b |-> IF l = 0 THEN Leaf(chunk) ELSE Next(f[l - 1], l)]
    <3>1. f = [l \in 0..b |-> f[l]]
      OBVIOUS
    <3> HIDE DEF f
    <3> QED  BY <2>4, <3>1
  <2>6. Climbing(chunk, o, path, b, f)
    <3> HIDE DEF f
    <3> QED  BY <2>5 DEF Climbing, Next
  <2> QED  BY <2>1, <2>6
<1>3. Nat \subseteq F
  <2> HIDE DEF F
  <2> QED  BY <1>1, <1>2, NumberInduction
<1> QED  BY <1>3

\* The subtree of height l above offset o of the subtree at s; half of the next one.
Ancestor(c, s, o, l) == SubtreeRoot(c, s + High(o, l), l)
SiblingRoot(c, s, o, l) ==
  SubtreeRoot(c, s + (IF Top(o, l) % 2 = 0 THEN Top(o, l) + 1 ELSE Top(o, l) - 1) * 2^l, l)

LEMMA Ancestors ==
  ASSUME NEW c, NEW s \in Nat, NEW o \in Nat, NEW l \in Nat
  PROVE  /\ Bit(o, l) = 0 =>
              Ancestor(c, s, o, l + 1) = Node(Ancestor(c, s, o, l), SiblingRoot(c, s, o, l))
         /\ Bit(o, l) # 0 =>
              Ancestor(c, s, o, l + 1) = Node(SiblingRoot(c, s, o, l), Ancestor(c, s, o, l))
<1>1. PICK w \in Nat : w = 2^l
  BY PowerOfTwo
<1>2. PICK t \in Nat, b \in {0, 1} : t = Top(o, l) /\ b = Bit(o, l) /\ b = t % 2
  BY Halving DEF Top, Bit
<1>3. PICK u \in Nat : u = High(o, l + 1)
  <2>1. l + 1 \in Nat
    OBVIOUS
  <2> QED  BY <2>1, Highest
<1>4. High(o, l) = t * w /\ t * w \in Nat
  BY <1>1, <1>2 DEF High
<1>5. SubtreeRoot(c, s + u, l + 1) = Node(SubtreeRoot(c, s + u, l), SubtreeRoot(c, (s + u) + w, l))
  <2>1. s + u \in Nat
    OBVIOUS
  <2> QED  BY <1>1, <2>1, SubtreeParts
<1>6. CASE b = 0
  <2>1. High(o, l) = u
    <3>1. Bit(o, l) = 0
      BY <1>2, <1>6
    <3>2. High(o, l) = High(o, l + 1)
      BY <3>1, Highest
    <3> QED  BY <1>3, <3>2
  <2>2. s + (t + 1) * w = (s + u) + w
    <3>1. (t + 1) * w = t * w + w
      OBVIOUS
    <3>2. t * w = u
      BY <1>4, <2>1
    <3> QED  BY <3>1, <3>2
  <2>3. SiblingRoot(c, s, o, l) = SubtreeRoot(c, s + (t + 1) * w, l)
    BY <1>1, <1>2, <1>6 DEF SiblingRoot
  <2> QED  BY <1>2, <1>3, <1>5, <1>6, <2>1, <2>2, <2>3 DEF Ancestor
<1>7. CASE b = 1
  <2>1. High(o, l) = u + w
    <3>1. Bit(o, l) = 1
      BY <1>2, <1>7
    <3>2. High(o, l) = High(o, l + 1) + 2^l
      BY <3>1, Highest
    <3> QED  BY <1>1, <1>3, <3>2
  <2>2. (t - 1) * w = u
    <3>1. (t - 1) * w = t * w - w
      OBVIOUS
    <3>2. t * w = u + w
      BY <1>4, <2>1
    <3> QED  BY <3>1, <3>2
  <2>3. SiblingRoot(c, s, o, l) = SubtreeRoot(c, s + (t - 1) * w, l)
    BY <1>1, <1>2, <1>7 DEF SiblingRoot
  <2>4. s + (u + w) = (s + u) + w
    OBVIOUS
  <2>5. Ancestor(c, s, o, l) = SubtreeRoot(c, (s + u) + w, l)
    BY <2>1, <2>4 DEF Ancestor
  <2>6. SiblingRoot(c, s, o, l) = SubtreeRoot(c, s + u, l)
    BY <2>2, <2>3
  <2>7. Ancestor(c, s, o, l + 1) = SubtreeRoot(c, s + u, l + 1)
    BY <1>3 DEF Ancestor
  <2>8. Bit(o, l) # 0
    BY <1>2, <1>7
  <2> QED  BY <1>5, <2>5, <2>6, <2>7, <2>8
<1> QED  BY <1>6, <1>7

\* Along its own path every chunk verifies.
LEMMA ProvenVerifies ==
  ASSUME NEW c, NEW n \in Nat, n <= 2^MaxHeight, NEW i \in Nat, i < n
  PROVE  Verify(c[i + 1], i, Prove(c, i, n), n, PeaksAt(c, n))
<1>1. PICK at, s, h, o, path :
        /\ at = Locate(i, n) /\ s = at.start /\ h = at.height /\ o = i - s
        /\ path = Prove(c, i, n)
  OBVIOUS
<1>2. /\ at.peak \in 1..Len(PeakHeights(n)) /\ h = PeakHeights(n)[at.peak]
      /\ s = Starts(PeakHeights(n))[at.peak]
      /\ h \in Nat /\ s \in Nat /\ o \in Nat /\ o < 2^h
  BY <1>1, LocateFinds
<1>3. path = [l \in 1..h |-> SiblingRoot(c, s, o, l - 1)]
  BY <1>1 DEF Prove, SiblingRoot, Top
<1>4. Len(path) = h /\ \A l \in 1..h : path[l] = SiblingRoot(c, s, o, l - 1)
  BY <1>2, <1>3
<1>5. PICK f : f = CHOOSE g : Climbing(c[i + 1], o, path, h, g)
  OBVIOUS
<1>6. Climbing(c[i + 1], o, path, h, f)
  BY <1>2, <1>5, ClimbingExists
<1>7. \A l \in 0..h : f[l] = IF l = 0 THEN Leaf(c[i + 1])
                             ELSE IF Bit(o, l - 1) = 0 THEN Node(f[l - 1], path[l])
                             ELSE Node(path[l], f[l - 1])
  BY <1>6 DEF Climbing
<1> DEFINE F == {l \in Nat : l <= h => f[l] = Ancestor(c, s, o, l)}
<1>8. 0 \in F
  <2>1. f[0] = Leaf(c[i + 1])
    BY <1>2, <1>7
  <2>2. High(o, 0) = o /\ s + o = i
    <3>1. High(o, 0) = o
      BY <1>2, TopZero
    <3> QED  BY <1>1, <1>2, <3>1
  <2> QED  BY <2>1, <2>2, SubtreeParts DEF Ancestor
<1>9. ASSUME NEW l \in F PROVE l + 1 \in F
  <2> SUFFICES ASSUME l + 1 <= h PROVE f[l + 1] = Ancestor(c, s, o, l + 1)
    OBVIOUS
  <2>1. l \in Nat /\ l + 1 \in 0..h /\ l + 1 \in 1..h /\ l + 1 # 0 /\ (l + 1) - 1 = l
    BY <1>2
  <2>2. f[l] = Ancestor(c, s, o, l)
    BY <1>2, <2>1
  <2>3. path[l + 1] = SiblingRoot(c, s, o, l)
    BY <1>4, <2>1
  <2>4. f[l + 1] = IF Bit(o, l) = 0 THEN Node(f[l], path[l + 1]) ELSE Node(path[l + 1], f[l])
    BY <1>7, <2>1
  <2> HIDE DEF F
  <2> QED  BY <1>2, <2>1, <2>2, <2>3, <2>4, Ancestors
<1>10. Nat \subseteq F
  <2> HIDE DEF F
  <2> QED  BY <1>8, <1>9, NumberInduction
<1>11. f[h] = SubtreeRoot(c, s, h)
  <2>1. f[h] = Ancestor(c, s, o, h)
    BY <1>2, <1>10
  <2>2. High(o, h) = 0 /\ s + 0 = s
    BY <1>2, HighVanishes
  <2> QED  BY <2>1, <2>2 DEF Ancestor
<1>12. PeaksAt(c, n)[at.peak] = SubtreeRoot(c, s, h)
  <2>1. PeaksAt(c, n)[at.peak] = SubtreeRoot(c, 0 + s, h)
    BY <1>2, PeaksAreRoots DEF RootsFrom
  <2>2. 0 + s = s
    BY <1>2
  <2> QED  BY <2>1, <2>2
<1>13. Len(PeaksAt(c, n)) = Len(PeakHeights(n))
  <2>1. DOMAIN PeaksAt(c, n) = 1..Len(PeakHeights(n)) /\ Len(PeakHeights(n)) \in Nat
    BY PeaksAreRoots, BelowTop, PeakStarts, LenProperties
  <2>2. PeaksAt(c, n) = [k \in 1..Len(PeakHeights(n)) |-> PeaksAt(c, n)[k]]
    BY <2>1 DEF PeaksAt, SubtreeRoots
  <2> QED  BY <2>1, <2>2
<1>14. f[Len(path)] = PeaksAt(c, n)[at.peak]
  BY <1>4, <1>11, <1>12
<1> QED  BY <1>1, <1>4, <1>5, <1>13, <1>14 DEF Verify, Climbing

\* Nothing but the chunk of its position verifies there, along whatever path.
LEMMA VerifiedIsData ==
  ASSUME NEW c, NEW n \in Nat, n <= 2^MaxHeight, NEW i \in Nat, NEW chunk, NEW path,
         Verify(chunk, i, path, n, PeaksAt(c, n))
  PROVE  chunk = c[i + 1]
<1>0. i < n
  BY DEF Verify
<1>1. PICK at, s, h, o :
        at = Locate(i, n) /\ s = at.start /\ h = at.height /\ o = i - s
  OBVIOUS
<1>2. /\ at.peak \in 1..Len(PeakHeights(n)) /\ h = PeakHeights(n)[at.peak]
      /\ s = Starts(PeakHeights(n))[at.peak]
      /\ h \in Nat /\ s \in Nat /\ o \in Nat /\ o < 2^h
  BY <1>0, <1>1, LocateFinds
<1>5. PICK f : f = CHOOSE g : Climbing(chunk, o, path, h, g)
  OBVIOUS
<1>6. Climbing(chunk, o, path, h, f)
  BY <1>2, <1>5, ClimbingExists
<1>7. \A l \in 0..h : f[l] = IF l = 0 THEN Leaf(chunk)
                             ELSE IF Bit(o, l - 1) = 0 THEN Node(f[l - 1], path[l])
                             ELSE Node(path[l], f[l - 1])
  BY <1>6 DEF Climbing
<1>8. f[h] = PeaksAt(c, n)[at.peak]
  <2>1. Len(path) = h
    BY <1>1 DEF Verify
  <2> QED  BY <1>1, <1>5, <2>1 DEF Verify, Climbing
<1>9. f[h] = Ancestor(c, s, o, h)
  <2>1. PeaksAt(c, n)[at.peak] = SubtreeRoot(c, 0 + s, h)
    BY <1>2, PeaksAreRoots DEF RootsFrom
  <2>2. High(o, h) = 0 /\ 0 + s = s + 0
    BY <1>2, HighVanishes
  <2> QED  BY <1>8, <2>1, <2>2 DEF Ancestor
<1> DEFINE F == {k \in Nat : k <= h => f[h - k] = Ancestor(c, s, o, h - k)}
<1>10. 0 \in F
  <2>1. h - 0 = h
    BY <1>2
  <2> QED  BY <1>9, <2>1
<1>11. ASSUME NEW l \in Nat, l + 1 <= h, f[l + 1] = Ancestor(c, s, o, l + 1)
       PROVE  f[l] = Ancestor(c, s, o, l)
  <2>1. l + 1 \in 0..h /\ l + 1 # 0 /\ (l + 1) - 1 = l
    BY <1>2, <1>11
  <2>2. f[l + 1] = IF Bit(o, l) = 0 THEN Node(f[l], path[l + 1]) ELSE Node(path[l + 1], f[l])
    BY <1>7, <2>1
  <2>3. \A a, b, x, y : Node(a, b) = Node(x, y) => a = x /\ b = y
    BY DEF Node
  <2> QED  BY <1>2, <1>11, <2>2, <2>3, Ancestors
<1>12. ASSUME NEW k \in F PROVE k + 1 \in F
  <2> SUFFICES ASSUME k + 1 <= h PROVE f[h - (k + 1)] = Ancestor(c, s, o, h - (k + 1))
    OBVIOUS
  <2>1. PICK l \in Nat : l = h - (k + 1) /\ l + 1 = h - k /\ l + 1 <= h /\ k <= h
    <3>1. h - (k + 1) \in Nat /\ (h - (k + 1)) + 1 = h - k /\ h - k <= h /\ k <= h
      BY <1>2
    <3> QED  BY <3>1
  <2>2. f[l + 1] = Ancestor(c, s, o, l + 1)
    BY <2>1
  <2> HIDE DEF F
  <2> QED  BY <1>11, <2>1, <2>2
<1>13. Nat \subseteq F
  <2> HIDE DEF F
  <2> QED  BY <1>10, <1>12, NumberInduction
<1>14. f[0] = Ancestor(c, s, o, 0)
  <2>1. h <= h /\ h - h = 0
    BY <1>2
  <2>2. h \in F
    <3> HIDE DEF F
    <3> QED  BY <1>2, <1>13
  <2> QED  BY <2>1, <2>2
<1>15. Ancestor(c, s, o, 0) = Leaf(c[i + 1])
  <2>1. High(o, 0) = o /\ s + o = i
    <3>1. High(o, 0) = o
      BY <1>2, TopZero
    <3> QED  BY <1>1, <1>2, <3>1
  <2> QED  BY <2>1, SubtreeParts DEF Ancestor
<1>16. f[0] = Leaf(chunk)
  BY <1>2, <1>7
<1> QED  BY <1>14, <1>15, <1>16 DEF Leaf

(***************************************************************************)
(* The daemon's peaks.                                                     *)
(***************************************************************************)

StorePeaksInv == store.peaks = PeaksAt(store.chunks, Len(store.chunks))

\* Of what the contract has pinned, the daemon's chunks have the peaks.
LEMMA StoredIsPublished ==
  ASSUME DataInv, PeaksInv, NEW n \in Nat, n <= Len(store.chunks)
  PROVE  /\ n <= Len(published) /\ n <= 2^MaxHeight /\ Len(store.chunks) \in Nat
         /\ PeaksAt(store.chunks, n) = PeaksAt(published, n)
<1>1. PICK k, l : k = store.nonce + 1 /\ l = Len(store.chunks)
  OBVIOUS
<1>2. /\ l \in Nat /\ store.nonce \in 0..Len(events) /\ Len(events) \in Nat /\ l = Before(k)
      /\ \A i \in 1..l : store.chunks[i] = published[i]
  BY <1>1, LenProperties, LenNat DEF DataInv, StoreInv
<1>3. leafCount = Len(published) /\ leafCount \in Nat /\ leafCount <= MaxLeafCount
  BY LenNat DEF DataInv, LogInv, PeaksInv
<1>4. l <= leafCount
  <2>1. k \in 1..Len(events) \/ k = Len(events) + 1
    BY <1>1, <1>2
  <2>2. CASE k \in 1..Len(events)
    <3>1. Before(k) \in Nat /\ events[k].newLeafCount \in Nat
          /\ Before(k) < events[k].newLeafCount /\ events[k].newLeafCount <= leafCount
      BY <2>2 DEF DataInv, LogInv
    <3> QED  BY <1>2, <1>3, <3>1
  <2>3. CASE k = Len(events) + 1
    <3>1. leafCount = Before(Len(events) + 1)
      BY DEF DataInv, LogInv
    <3> QED  BY <1>2, <1>3, <2>3, <3>1
  <2> QED  BY <2>1, <2>2, <2>3
<1>5. n <= leafCount /\ n <= MaxLeafCount
  BY <1>1, <1>2, <1>3, <1>4, LeafCountsFit
<1>6. n <= 2^MaxHeight
  BY <1>5, LeafCountsFit
<1>7. \A i \in 1..n : store.chunks[i] = published[i]
  BY <1>1, <1>2
<1> QED  BY <1>1, <1>2, <1>3, <1>5, <1>6, <1>7, PeaksLocal

LEMMA IngestKeepsPeaks ==
  ASSUME DataInv, PeaksInv, StorePeaksInv, Ingest
  PROVE  StorePeaksInv'
<1>1. PICK n, m, c, sub :
        /\ n = Len(store.chunks) /\ m = Event.newLeafCount - n
        /\ c = store'.chunks /\ sub = Event.subtreePeaks
  OBVIOUS
<1>2. Consistent /\ NewChunks \in Seq(Chunk)
  BY CompleteIsConsistent DEF Ingest
<1>3. /\ c = store.chunks \o NewChunks
      /\ store'.peaks = Peaks(ApplyUpdate(FromState(n, store.peaks), sub, m))
  BY <1>1, <1>2 DEF Ingest
<1>4. store.chunks \in Seq(Chunk) /\ n \in Nat
  BY <1>1, LenProperties DEF DataInv, StoreInv
<1>5. Len(NewChunks) = m /\ m \in Nat
  <2>1. store.nonce < Len(events)
    BY OrderedIsCarried DEF Ingest
  <2>2. store.nonce + 1 \in 1..Len(events) /\ Event = events[store.nonce + 1]
        /\ Before(store.nonce + 1) = n
    BY <1>1, <2>1, NextEvent DEF DataInv
  <2>3. Len(NewChunks) = Size(store.nonce + 1)
    BY CompleteIsConsistent DEF Ingest
  <2>4. Size(store.nonce + 1) = m
    BY <1>1, <2>2 DEF Size
  <2> QED  BY <1>2, <2>3, <2>4, LenProperties
<1>6. /\ Len(c) = n + m
      /\ \A i \in 1..n + m : c[i] = IF i <= n THEN store.chunks[i] ELSE NewChunks[i - n]
  <2>1. /\ Len(store.chunks \o NewChunks) = Len(store.chunks) + Len(NewChunks)
        /\ \A i \in 1..Len(store.chunks) + Len(NewChunks) :
             (store.chunks \o NewChunks)[i] = IF i <= Len(store.chunks) THEN store.chunks[i]
                                              ELSE NewChunks[i - Len(store.chunks)]
    BY <1>2, <1>4, ConcatProperties
  <2> QED  BY <1>1, <1>3, <1>5, <2>1
<1>7. ASSUME NEW u \in 1..m PROVE c[n + u] = NewChunks[u]
  <2>1. n + u \in 1..n + m /\ ~(n + u <= n) /\ (n + u) - n = u
    BY <1>4, <1>5
  <2> QED  BY <1>6, <2>1
<1>8. n + m \in Nat /\ n + m <= 2^MaxHeight
  <2>1. store.nonce < Len(events)
    BY OrderedIsCarried DEF Ingest
  <2>2. store.nonce + 1 \in 1..Len(events) /\ Event = events[store.nonce + 1]
    BY <2>1, NextEvent DEF DataInv
  <2>3. Event.newLeafCount \in Nat /\ Event.newLeafCount <= leafCount
    BY <2>2 DEF DataInv, LogInv
  <2>4. n + m = Event.newLeafCount
    BY <1>1, <1>4, <2>3
  <2>5. leafCount \in Nat /\ leafCount <= MaxLeafCount
    BY LenNat DEF DataInv, PeaksInv
  <2>6. n + m \in Nat /\ n + m <= MaxLeafCount
    BY <2>3, <2>4, <2>5, LeafCountsFit
  <2> QED  BY <2>6, LeafCountsFit
<1>9. RootsFrom(sub, c, n, Decompose(n, m))
  <2>1. RootsFrom(UpdateSubtreeRoots(n, NewChunks), c, n, Decompose(n, m))
    BY <1>4, <1>5, <1>7, DeclaredAreRoots
  <2>2. UpdateSubtreeRoots(n, NewChunks) = sub
    BY <1>1, <1>2 DEF Consistent
  <2> QED  BY <2>1, <2>2
<1>10. store.peaks = PeaksAt(c, n)
  <2>1. \A i \in 1..n : store.chunks[i] = c[i]
    <3>1. \A i \in 1..n : i \in 1..n + m /\ i <= n
      BY <1>4, <1>5
    <3> QED  BY <1>6, <3>1
  <2>2. n <= 2^MaxHeight
    <3>1. 2^MaxHeight \in Nat
      BY RangeAssumption, PowerOfTwo
    <3> QED  BY <1>4, <1>5, <1>8, <3>1
  <2>3. PeaksAt(store.chunks, n) = PeaksAt(c, n)
    BY <1>4, <2>1, <2>2, PeaksLocal
  <2> QED  BY <1>1, <2>3 DEF StorePeaksInv
<1>11. store'.peaks = PeaksAt(c, n + m)
  BY <1>3, <1>4, <1>5, <1>8, <1>9, <1>10, DaemonMerges
<1> QED  BY <1>1, <1>6, <1>11 DEF StorePeaksInv

RangeInv == DataInv /\ PeaksInv /\ StorePeaksInv

LEMMA InitRange == DataInit => RangeInv
<1> SUFFICES ASSUME DataInit PROVE RangeInv
  OBVIOUS
<1>1. DataInv /\ PeaksInv
  BY InitDataInv, InitPeaks
<1>2. peaks = <<>> /\ leafCount = 0 /\ published = <<>> /\ store.peaks = <<>> /\ store.chunks = <<>>
  BY DEF DataInit
<1>3. PeaksAt(<<>>, 0) = <<>>
  BY <1>1, <1>2 DEF PeaksInv
<1>4. Len(store.chunks) = 0
  BY <1>2, EmptySeq
<1> QED  BY <1>1, <1>2, <1>3, <1>4 DEF RangeInv, StorePeaksInv

LEMMA RangeStep == RangeInv /\ [DataNext]_dataVars => RangeInv'
<1> SUFFICES ASSUME RangeInv, [DataNext]_dataVars PROVE RangeInv'
  OBVIOUS
<1>1. DataInv' /\ PeaksInv'
  BY DataStep, PeaksStep DEF RangeInv
<1>2. CASE Ingest
  BY <1>1, <1>2, IngestKeepsPeaks DEF RangeInv
<1>3. CASE UNCHANGED store
  BY <1>1, <1>3 DEF RangeInv, StorePeaksInv
<1>4. CASE PublisherStep
  BY <1>3, <1>4, PublisherSafe DEF RangeInv
<1> QED  BY <1>2, <1>3, <1>4 DEF DataNext, DaemonStep, Acquire, Answer, dataVars

LEMMA RangeInvHolds == DataSpec => []RangeInv
  BY InitRange, RangeStep, PTL DEF DataSpec

\* After any history of declarations, by whatever publishers, the peaks the contract holds
\* are those of the mountain range over all the chunks that were carried, and the daemon's
\* those over its chunks: both merges of declared subtree peaks, at any leaf count, build
\* the range that the data has.
THEOREM PeaksAreTheDataHolds == DataSpec => []PeaksAreTheData
<1>1. RangeInv => PeaksAreTheData
  BY DEF RangeInv, PeaksInv, StorePeaksInv, PeaksAreTheData
<1> QED  BY <1>1, RangeInvHolds, PTL

\* The daemon's peaks bag to the root that the contract pinned at that leaf count, which is
\* what the daemon's root check compares.
RootsAgree ==
  \A pin \in pins : pin.n = Len(store.chunks) => Root(pin.n, store.peaks) = pin.root

\* Two implementations of the update, the contract's table and the daemon's map of peaks,
\* agree after any history: what the daemon reports of its store is the root that the
\* contract pinned at that leaf count.
THEOREM RootsAgreeHolds == DataSpec => []RootsAgree
<1>1. RangeInv => RootsAgree
  <2> SUFFICES ASSUME RangeInv, NEW pin \in pins, pin.n = Len(store.chunks)
               PROVE  Root(pin.n, store.peaks) = pin.root
    BY DEF RootsAgree
  <2>1. Pinned(pin)
    BY DEF RangeInv, PeaksInv
  <2>2. pin.n \in Nat /\ pin.n <= Len(store.chunks)
    <3>1. Len(store.chunks) \in Nat
      BY LenProperties DEF RangeInv, DataInv, StoreInv
    <3> QED  BY <3>1
  <2>3. PeaksAt(store.chunks, pin.n) = PeaksAt(published, pin.n)
    BY <2>2, StoredIsPublished DEF RangeInv
  <2> QED  BY <2>1, <2>3 DEF RangeInv, StorePeaksInv, Pinned
<1> QED  BY <1>1, RangeInvHolds, PTL

\* Whichever leaf's path is presented with it, nothing but the published chunk of a position
\* verifies there against the contract's peaks.
THEOREM OnlyTheDataVerifiesHolds == DataSpec => []OnlyTheDataVerifies
<1>1. RangeInv => OnlyTheDataVerifies
  <2> SUFFICES ASSUME RangeInv, NEW i \in 0..leafCount - 1, NEW path, NEW chunk,
                      Verify(chunk, i, path, leafCount, peaks)
               PROVE  chunk = published[i + 1]
    BY DEF OnlyTheDataVerifies
  <2>1. leafCount \in Nat /\ leafCount <= 2^MaxHeight
    BY LenNat, LeafCountsFit DEF RangeInv, DataInv, PeaksInv
  <2>2. peaks = PeaksAt(published, leafCount) /\ i \in Nat
    BY <2>1 DEF RangeInv, PeaksInv
  <2> QED  BY <2>1, <2>2, VerifiedIsData
<1> QED  BY <1>1, RangeInvHolds, PTL

\* What a provider answers with is the data: whatever proof set, with whatever peaks and
\* paths, respond and submitProofEscape accept against a pinned root, and whatever witness
\* the custody circuit accepts, holds the published chunk of every position asked for.
AcceptedIsTheData ==
  \A pin \in pins : \A set :
    /\ \A indices \in Seq(Nat) : ContractAccepts(set, indices, pin) =>
         \A j \in 1..Len(indices) : set.proven[j].chunk = published[indices[j] + 1]
    /\ \A digests \in Seq(Digests) : CustodyCircuit(set, digests, pin) =>
         \A j \in 1..Len(digests) :
           set.proven[j].chunk = published[SampleIndex(digests[j], pin.n) + 1]

\* Every digest samples a position below the leaf count.
LEMMA SampleInRange ==
  ASSUME NEW d \in Digests, NEW n \in Nat \ {0} PROVE SampleIndex(d, n) \in 0..n - 1
<1>1. d \in Seq(0..DigitBase - 1) /\ 0..DigitBase - 1 \subseteq Nat
  BY DataPathAssumption, RangeAssumption
<1>2. d \in Seq(Nat)
  BY <1>1, SeqMonotonic
<1>3. Number(d) \in Nat /\ SampleIndex(d, n) = Number(d) % n
  BY <1>2, StreamedIsDivided
<1> QED  BY <1>3, Division

LEMMA PinnedVerifies ==
  ASSUME RangeInv, NEW pin \in pins, NEW ps, Root(pin.n, ps) = pin.root,
         NEW i \in Nat, NEW chunk, NEW path, Verify(chunk, i, path, pin.n, ps)
  PROVE  chunk = published[i + 1]
<1>1. pin.n \in 0..leafCount /\ pin.root = Root(pin.n, PeaksAt(published, pin.n))
  BY DEF RangeInv, PeaksInv, Pinned
<1>2. leafCount \in Nat /\ leafCount <= MaxLeafCount
  BY LenNat DEF RangeInv, DataInv, PeaksInv
<1>3. pin.n \in Nat /\ pin.n <= MaxLeafCount
  BY <1>1, <1>2, LeafCountsFit
<1>4. ps = PeaksAt(published, pin.n)
  BY <1>1 DEF Root
<1> QED  BY <1>3, <1>4, LeafCountsFit, VerifiedIsData

\* No proof set that does not hold the published chunks is ever accepted against a pinned
\* root: an answered challenge and a proven period were answered with the data.
THEOREM AcceptedIsTheDataHolds == DataSpec => []AcceptedIsTheData
<1>1. ASSUME RangeInv, NEW pin \in pins, NEW set, NEW indices \in Seq(Nat),
             ContractAccepts(set, indices, pin), NEW j \in 1..Len(indices)
      PROVE  set.proven[j].chunk = published[indices[j] + 1]
  <2>1. DOMAIN indices = 1..Len(indices) /\ indices[j] \in Nat
    BY LenProperties
  <2>2. Root(pin.n, set.peaks) = pin.root
    BY <1>1 DEF ContractAccepts
  <2>3. Verify(set.proven[j].chunk, indices[j], set.proven[j].path, pin.n, set.peaks)
    BY <1>1, <2>1 DEF ContractAccepts, AllVerify
  <2> QED  BY <1>1, <2>1, <2>2, <2>3, PinnedVerifies
<1>2. ASSUME RangeInv, NEW pin \in pins, NEW set, NEW digests \in Seq(Digests),
             CustodyCircuit(set, digests, pin), NEW j \in 1..Len(digests)
      PROVE  set.proven[j].chunk = published[SampleIndex(digests[j], pin.n) + 1]
  <2>1. DOMAIN digests = 1..Len(digests) /\ digests[j] \in Digests
    BY LenProperties
  <2>2. Root(pin.n, set.peaks) = pin.root /\ pin.n > 0
    BY <1>2 DEF CustodyCircuit
  <2>3. pin.n \in Nat \ {0}
    <3>1. pin.n \in 0..leafCount /\ leafCount \in Nat
      BY <1>2, LenNat DEF RangeInv, DataInv, PeaksInv, Pinned
    <3> QED  BY <2>2, <3>1
  <2>4. Verify(set.proven[j].chunk, SampleIndex(digests[j], pin.n), set.proven[j].path,
               pin.n, set.peaks)
    BY <1>2, <2>1 DEF CustodyCircuit, AllVerify, SampleIndices
  <2>5. SampleIndex(digests[j], pin.n) \in Nat
    BY <2>1, <2>3, SampleInRange
  <2> QED  BY <1>2, <2>2, <2>4, <2>5, PinnedVerifies
<1>3. RangeInv => AcceptedIsTheData
  BY <1>1, <1>2 DEF AcceptedIsTheData
<1> QED  BY <1>3, RangeInvHolds, PTL

(***************************************************************************)
(* Proofs from the store, and packages.                                    *)
(***************************************************************************)

\* What the daemon builds for any positions below a pinned leaf count it has reached.
LEMMA ProofsAreBuilt ==
  ASSUME RangeInv, NEW pin \in pins, pin.n <= Len(store.chunks),
         NEW indices, NEW l \in Nat, DOMAIN indices = 1..l,
         \A j \in 1..l : indices[j] \in 0..pin.n - 1
  PROVE  LET set == BuildProofSet(indices, pin.n, pin.root) IN
         /\ set.n = pin.n /\ Root(pin.n, set.peaks) = pin.root
         /\ Len(set.proven) = l
         /\ AllVerify(set.proven, indices, pin.n, set.peaks)
<1>1. PICK n, c, ps, proven :
        /\ n = pin.n /\ c = store.chunks /\ ps = PeaksAt(store.chunks, n)
        /\ proven = [j \in DOMAIN indices |->
                       [chunk |-> c[indices[j] + 1], path |-> Prove(c, indices[j], n)]]
  OBVIOUS
<1>2. n \in Nat /\ pin.root = Root(n, PeaksAt(published, n))
  <2>1. Pinned(pin)
    BY DEF RangeInv, PeaksInv
  <2> QED  BY <1>1, <2>1 DEF Pinned
<1>3. n <= 2^MaxHeight /\ ps = PeaksAt(published, n) /\ Len(store.chunks) \in Nat
  BY <1>1, <1>2, StoredIsPublished DEF RangeInv
<1>4. AllVerify(proven, indices, n, ps)
  <2>1. ASSUME NEW j \in DOMAIN indices
        PROVE  Verify(proven[j].chunk, indices[j], proven[j].path, n, ps)
    <3>1. indices[j] \in Nat /\ indices[j] < n
      BY <1>1, <1>2
    <3>2. proven[j].chunk = c[indices[j] + 1] /\ proven[j].path = Prove(c, indices[j], n)
      BY <1>1
    <3>3. Verify(c[indices[j] + 1], indices[j], Prove(c, indices[j], n), n, PeaksAt(c, n))
      BY <1>2, <1>3, <3>1, ProvenVerifies
    <3> QED  BY <1>1, <3>2, <3>3
  <2> QED  BY <2>1 DEF AllVerify
<1>5. ~(n > Len(store.chunks) \/ \E i \in ToSet(indices) : i >= n)
  <2>1. ~(n > Len(store.chunks))
    BY <1>1, <1>2, <1>3
  <2>2. ASSUME NEW i \in ToSet(indices) PROVE ~(i >= n)
    <3>1. PICK j \in 1..l : i = indices[j]
      BY DEF ToSet
    <3> QED  BY <1>1, <1>2, <3>1
  <2> QED  BY <2>1, <2>2
<1>6. Root(n, ps) = pin.root
  BY <1>2, <1>3
<1>7. BuildProofSet(indices, n, pin.root) = [n |-> n, peaks |-> ps, proven |-> proven]
  BY <1>1, <1>4, <1>5, <1>6 DEF BuildProofSet
<1>8. Len(proven) = l
  BY <1>1
<1> QED  BY <1>1, <1>4, <1>6, <1>7, <1>8

\* However the daemon came by its chunks, it can prove any of them, and any sample of
\* them, against every root that the contract has pinned at a leaf count it has reached.
THEOREM PinsAreProvableHolds == DataSpec => []PinsAreProvable
<1>1. RangeInv => PinsAreProvable
  <2> SUFFICES ASSUME RangeInv, NEW pin \in pins, pin.n \in 1..Len(store.chunks)
               PROVE  /\ \A i \in 0..pin.n - 1 :
                           ContractAccepts(BuildProofSet(<<i>>, pin.n, pin.root), <<i>>, pin)
                      /\ \A d \in Digests : CustodyCircuit(BuildWitness(<<d>>, pin), <<d>>, pin)
    BY DEF PinsAreProvable
  <2>1. Len(store.chunks) \in Nat
    BY LenProperties DEF RangeInv, DataInv, StoreInv
  <2>2. pin.n \in Nat \ {0} /\ pin.n <= Len(store.chunks)
    BY <2>1
  <2>3. ASSUME NEW i \in 0..pin.n - 1
        PROVE  ContractAccepts(BuildProofSet(<<i>>, pin.n, pin.root), <<i>>, pin)
    <3>1. PICK one : one = <<i>>
      OBVIOUS
    <3>2. DOMAIN one = 1..1 /\ Len(one) = 1 /\ \A j \in 1..1 : one[j] \in 0..pin.n - 1
      BY <3>1
    <3>3. PICK set : set = BuildProofSet(one, pin.n, pin.root)
      OBVIOUS
    <3>4. /\ set.n = pin.n /\ Root(pin.n, set.peaks) = pin.root
          /\ Len(set.proven) = 1
          /\ AllVerify(set.proven, one, pin.n, set.peaks)
      BY <2>2, <3>2, <3>3, ProofsAreBuilt
    <3>5. ContractAccepts(set, one, pin)
      BY <3>2, <3>4 DEF ContractAccepts
    <3> QED  BY <3>1, <3>3, <3>5
  <2>4. ASSUME NEW d \in Digests PROVE CustodyCircuit(BuildWitness(<<d>>, pin), <<d>>, pin)
    <3>1. PICK one, sampled : one = <<d>> /\ sampled = SampleIndices(<<d>>, pin.n)
      OBVIOUS
    <3>2. Len(one) = 1 /\ DOMAIN sampled = 1..1 /\ \A j \in 1..1 : sampled[j] \in 0..pin.n - 1
      <4>1. sampled = [j \in 1..1 |-> SampleIndex(<<d>>[j], pin.n)]
        BY <3>1 DEF SampleIndices
      <4>2. SampleIndex(d, pin.n) \in 0..pin.n - 1
        BY <2>2, SampleInRange
      <4> QED  BY <3>1, <4>1, <4>2
    <3>3. PICK set : set = BuildProofSet(sampled, pin.n, pin.root)
      OBVIOUS
    <3>4. /\ Root(pin.n, set.peaks) = pin.root
          /\ Len(set.proven) = 1
          /\ AllVerify(set.proven, sampled, pin.n, set.peaks)
      BY <2>2, <3>2, <3>3, ProofsAreBuilt
    <3>5. CustodyCircuit(set, one, pin)
      BY <2>2, <3>1, <3>2, <3>4 DEF CustodyCircuit
    <3> QED  BY <3>1, <3>3, <3>5 DEF BuildWitness
  <2> QED  BY <2>3, <2>4
<1> QED  BY <1>1, RangeInvHolds, PTL

LEMMA PackedIsCanonical ==
  ASSUME NEW chunks \in Seq(Chunk), NEW m \in Nat, m = Len(chunks)
  PROVE  Canonical(Pack(chunks), m) /\ Unpacked(Pack(chunks), m) = chunks
<1>1. ChunkValues \in Nat \ {0} /\ BlobWidth \in Nat \ {0} /\ Chunk = 0..ChunkValues - 1
  BY BlobAssumption DEF Chunk
<1>2. PICK k, blobs : k = CeilDiv(m, BlobWidth) /\ blobs = Pack(chunks)
  OBVIOUS
<1>3. blobs = [j \in 1..k |->
        [e \in Elements |-> IF Position(j, e) <= m THEN chunks[Position(j, e)] ELSE 0]]
  BY <1>2 DEF Pack
<1>4. k \in Nat
  <2>1. m + BlobWidth - 1 \in Nat
    BY <1>1
  <2>2. (m + BlobWidth - 1) \div BlobWidth \in Nat
    BY <1>1, <2>1, Division
  <2> QED  BY <1>2, <2>2 DEF CeilDiv
<1>5. Len(blobs) = k
  BY <1>3, <1>4
<1>6. ASSUME NEW x \in Chunk PROVE HighByte(x) = 0 /\ x % ChunkValues = x
  <2>1. (0 * ChunkValues + x) \div ChunkValues = 0 /\ (0 * ChunkValues + x) % ChunkValues = x
    BY <1>1, DivisionUnique
  <2>2. 0 * ChunkValues + x = x
    BY <1>1
  <2> QED  BY <2>1, <2>2 DEF HighByte
<1>7. ASSUME NEW j \in 1..k, NEW e \in Elements
      PROVE  IF Position(j, e) <= m THEN HighByte(blobs[j][e]) = 0 ELSE blobs[j][e] = 0
  <2>1. blobs[j][e] = IF Position(j, e) <= m THEN chunks[Position(j, e)] ELSE 0
    BY <1>3
  <2>2. CASE Position(j, e) <= m
    <3>1. Position(j, e) \in 1..m
      <4>1. j - 1 \in Nat /\ e \in Nat \ {0}
        BY <1>4 DEF Elements
      <4>2. (j - 1) * BlobWidth \in Nat
        BY <1>1, <4>1
      <4> QED  BY <2>2, <4>1, <4>2 DEF Position
    <3>2. chunks[Position(j, e)] \in Chunk
      BY <3>1, ElementOfSeq
    <3> QED  BY <1>6, <2>1, <2>2, <3>2
  <2> QED  BY <2>1, <2>2
<1>8. Canonical(blobs, m)
  BY <1>2, <1>5, <1>7 DEF Canonical
<1>9. ASSUME NEW u \in 1..m
      PROVE  blobs[BlobOf(u)][ElementOf(u)] % ChunkValues = chunks[u]
  <2>1. BlobOf(u) \in 1..k
    BY <1>2, CeilDivMonotone
  <2>2. ElementOf(u) \in Elements /\ Position(BlobOf(u), ElementOf(u)) = u
    BY CeilDivPlace
  <2>3. blobs[BlobOf(u)][ElementOf(u)] = chunks[u]
    BY <1>3, <2>1, <2>2
  <2>4. chunks[u] \in Chunk
    BY ElementOfSeq
  <2> QED  BY <1>6, <2>3, <2>4
<1>10. Unpacked(blobs, m) = chunks
  <2>1. Unpacked(blobs, m) = [u \in 1..m |-> blobs[BlobOf(u)][ElementOf(u)] % ChunkValues]
    BY DEF Unpacked, BlobOf, ElementOf
  <2>2. Unpacked(blobs, m) = [u \in 1..m |-> chunks[u]]
    BY <1>9, <2>1
  <2>3. chunks = [u \in 1..m |-> chunks[u]]
    BY LenProperties
  <2> QED  BY <2>2, <2>3
<1> QED  BY <1>2, <1>8, <1>10

\* Packing and unpacking are inverse, and the publisher's decomposition and roots are the
\* circuit's: a package of any number of chunks, at any leaf count, is accepted.
THEOREM PackagesAreAcceptedHolds == DataSpec => []PackagesAreAccepted
<1>1. DataInv => PackagesAreAccepted
  <2> SUFFICES ASSUME DataInv, NEW m \in 1..MaxLeafCount - leafCount, NEW p, p = BuildPackage(m)
               PROVE  DeclarationAccepted(p.blobs, p.newSubtreePeaks, p.newLeafCount, p.blobs)
    BY DEF PackagesAreAccepted
  <2>1. m \in Nat \ {0} /\ leafCount \in Nat
    BY LenNat DEF DataInv
  <2>2. PICK chunks, blobs, declared, n1 :
          /\ chunks = TestChunks(leafCount, m) /\ blobs = Pack(chunks)
          /\ declared = UpdateSubtreeRoots(leafCount, chunks) /\ n1 = leafCount + m
    OBVIOUS
  <2>3. p.blobs = blobs /\ p.newSubtreePeaks = declared /\ p.newLeafCount = n1
    BY <2>2 DEF BuildPackage
  <2>4. n1 > leafCount /\ n1 - leafCount = m
    BY <2>1, <2>2
  <2>5. chunks \in Seq(Chunk) /\ Len(chunks) = m
    <3>1. ASSUME NEW u \in 1..m PROVE (leafCount + u - 1) % ChunkValues \in Chunk
      <4>1. leafCount + u - 1 \in Nat /\ ChunkValues \in Nat \ {0}
        BY <2>1, BlobAssumption
      <4>2. \A x \in Nat : x % ChunkValues \in 0..ChunkValues - 1
        BY <4>1, Division
      <4> QED  BY <4>1, <4>2 DEF Chunk
    <3>2. chunks \in [1..m -> Chunk]
      BY <2>2, <3>1 DEF TestChunks
    <3> HIDE DEF Chunk
    <3> QED  BY <2>1, <3>2
  <2>6. Canonical(blobs, m) /\ Unpacked(blobs, m) = chunks
    BY <2>1, <2>2, <2>5, PackedIsCanonical
  <2>7. Len(declared) = Len(Decompose(leafCount, m))
    <3>1. PICK D : D = Decompose(leafCount, m)
      OBVIOUS
    <3>2. D \in Seq(Nat)
      BY <2>1, <3>1, DecomposeAligned DEF Aligned
    <3>3. DOMAIN D = 1..Len(D) /\ Len(D) \in Nat
      BY <3>2, LenProperties
    <3>4. declared = [k \in 1..Len(D) |-> SubtreeRoot(chunks, Starts(D)[k], D[k])]
      BY <2>2, <2>5, <3>1, <3>3 DEF UpdateSubtreeRoots, SubtreeRoots
    <3> QED  BY <3>1, <3>3, <3>4
  <2>8. Len(blobs) = CeilDiv(m, BlobWidth)
    BY <2>6 DEF Canonical
  <2>9. DeclarationAccepted(blobs, declared, n1, blobs)
    BY <2>2, <2>4, <2>6, <2>7, <2>8 DEF DeclarationAccepted, CircuitAccepts, CircuitPreimage
  <2> QED  BY <2>3, <2>9
<1> QED  BY <1>1, DataInvHolds, PTL

(***************************************************************************)
(* Polynomials, as functions on the field: a monic one of degree m is      *)
(* built from the constant 1 by m steps of Horner's scheme.                *)
(***************************************************************************)

Raised(q, c) == [z \in Field |-> (z * q[z] + c) % Modulus]
Horner(m, s) ==
  /\ s[0] = [z \in Field |-> 1]
  /\ \A k \in 1..m : \E c \in Field : s[k] = Raised(s[k - 1], c)
Monic(m) == {h \in [Field -> Field] : \E s : Horner(m, s) /\ s[m] = h}

LEMMA RaisedTyped ==
  ASSUME NEW q \in [Field -> Field], NEW c \in Field
  PROVE  /\ Raised(q, c) \in [Field -> Field]
         /\ \A z \in Field : /\ z * q[z] + c \in Int
                             /\ Cong(Raised(q, c)[z], z * q[z] + c)
                             /\ Cong(z * q[z] + c, Raised(q, c)[z])
<1>1. ASSUME NEW z \in Field
      PROVE  /\ z * q[z] + c \in Int /\ Raised(q, c)[z] \in Field
             /\ Cong(Raised(q, c)[z], z * q[z] + c) /\ Cong(z * q[z] + c, Raised(q, c)[z])
  <2>1. PICK x \in Nat, y \in Nat, d \in Nat : x = z /\ y = q[z] /\ d = c
    BY FieldTyped
  <2>2. x * y + d \in Nat
    OBVIOUS
  <2>3. z * q[z] + c \in Nat /\ z * q[z] + c \in Int
    BY <2>1, <2>2
  <2>4. Raised(q, c)[z] = (z * q[z] + c) % Modulus
    BY DEF Raised
  <2> QED  BY <2>3, <2>4, CongMod
<1>2. Raised(q, c) = [z \in Field |-> Raised(q, c)[z]]
  BY DEF Raised
<1>3. Raised(q, c) \in [Field -> Field]
  BY <1>1, <1>2
<1> QED  BY <1>1, <1>3

LEMMA MonicZero ==
  [z \in Field |-> 1] \in Monic(0) /\ \A h \in Monic(0) : h = [z \in Field |-> 1]
<1> DEFINE one == [z \in Field |-> 1]
           s == [k \in 0..0 |-> one]
<1>1. Horner(0, s) /\ s[0] = one
  BY DEF Horner
<1>2. one \in [Field -> Field]
  BY FieldTyped
<1>3. one \in Monic(0)
  <2> HIDE DEF s, one
  <2> QED  BY <1>1, <1>2 DEF Monic
<1>4. ASSUME NEW h \in Monic(0) PROVE h = one
  BY DEF Monic, Horner
<1> QED  BY <1>3, <1>4

LEMMA MonicRaise ==
  ASSUME NEW m \in Nat, NEW q \in Monic(m), NEW c \in Field
  PROVE  q \in [Field -> Field] /\ Raised(q, c) \in Monic(m + 1)
<1>1. q \in [Field -> Field]
  BY DEF Monic
<1>2. PICK s : Horner(m, s) /\ s[m] = q
  BY DEF Monic
<1> DEFINE t == [k \in 0..m + 1 |-> IF k = m + 1 THEN Raised(q, c) ELSE s[k]]
<1>3. t[0] = [z \in Field |-> 1] /\ t[m + 1] = Raised(q, c)
  <2>1. 0 \in 0..m + 1 /\ 0 # m + 1 /\ m + 1 \in 0..m + 1
    OBVIOUS
  <2>2. s[0] = [z \in Field |-> 1]
    BY <1>2 DEF Horner
  <2> QED  BY <2>1, <2>2
<1>4. ASSUME NEW k \in 1..m + 1 PROVE \E d \in Field : t[k] = Raised(t[k - 1], d)
  <2>1. CASE k = m + 1
    <3>1. k - 1 = m /\ m \in 0..m + 1 /\ m # m + 1 /\ k \in 0..m + 1
      BY <2>1
    <3>2. t[k - 1] = q /\ t[k] = Raised(q, c)
      BY <1>2, <2>1, <3>1
    <3> HIDE DEF t
    <3> QED  BY <3>2
  <2>2. CASE k # m + 1
    <3>1. k \in 1..m /\ k \in 0..m + 1 /\ k - 1 \in 0..m + 1 /\ k - 1 # m + 1
      BY <2>2
    <3>2. t[k - 1] = s[k - 1] /\ t[k] = s[k]
      BY <2>2, <3>1
    <3>3. \E d \in Field : s[k] = Raised(s[k - 1], d)
      BY <1>2, <3>1 DEF Horner
    <3> HIDE DEF t
    <3> QED  BY <3>2, <3>3
  <2> QED  BY <2>1, <2>2
<1>5. Horner(m + 1, t)
  <2> HIDE DEF t
  <2> QED  BY <1>3, <1>4 DEF Horner
<1>6. Raised(q, c) \in [Field -> Field]
  BY <1>1, RaisedTyped
<1>7. Raised(q, c) \in Monic(m + 1)
  <2> HIDE DEF t
  <2> QED  BY <1>3, <1>5, <1>6 DEF Monic
<1> QED  BY <1>1, <1>7

LEMMA MonicLower ==
  ASSUME NEW m \in Nat, NEW h \in Monic(m + 1)
  PROVE  \E q \in Monic(m), c \in Field : h = Raised(q, c)
<1>1. PICK s : Horner(m + 1, s) /\ s[m + 1] = h
  BY DEF Monic
<1> DEFINE F == {k \in Nat : k <= m => s[k] \in [Field -> Field]}
<1>2. 0 \in F
  BY <1>1, FieldTyped DEF Horner
<1>3. ASSUME NEW k \in F PROVE k + 1 \in F
  <2>1. SUFFICES ASSUME k \in Nat, k + 1 <= m PROVE s[k + 1] \in [Field -> Field]
    OBVIOUS
  <2>2. k + 1 \in 1..m + 1 /\ (k + 1) - 1 = k /\ s[k] \in [Field -> Field]
    BY <1>3, <2>1
  <2>3. PICK c \in Field : s[k + 1] = Raised(s[k], c)
    BY <1>1, <2>2 DEF Horner
  <2> QED  BY <2>2, <2>3, RaisedTyped
<1>4. Nat \subseteq F
  <2> HIDE DEF F
  <2> QED  BY <1>2, <1>3, NumberInduction
<1>5. s[m] \in [Field -> Field]
  BY <1>4
<1>6. Horner(m, s)
  <2>1. \A k \in 1..m : k \in 1..m + 1
    OBVIOUS
  <2> QED  BY <1>1, <2>1 DEF Horner
<1>7. s[m] \in Monic(m)
  BY <1>5, <1>6 DEF Monic
<1>8. m + 1 \in 1..m + 1 /\ (m + 1) - 1 = m
  OBVIOUS
<1>9. \E c \in Field : s[m + 1] = Raised(s[m], c)
  BY <1>1, <1>8 DEF Horner
<1> QED  BY <1>1, <1>7, <1>9

\* A step of Horner's scheme carries a division by z - a along: if x is (z - a) * y + v then
\* z * x + c is (z - a) * (z * y + v) + (a * v + c).
LEMMA DivisionRaised ==
  ASSUME NEW z \in Int, NEW a \in Int, NEW c \in Int, NEW x \in Int, NEW y \in Int, NEW v \in Int,
         NEW e \in Int, NEW f \in Int, NEW g \in Int,
         Cong(x, (z - a) * y + v), Cong(e, z * x + c), Cong(f, a * v + c), Cong(g, z * y + v)
  PROVE  Cong(e, (z - a) * g + f)
<1>1. PICK p \in Int : p = Modulus
  BY BlobAssumption
<1>2. PICK k \in Int, l \in Int, m \in Int, n \in Int :
        /\ x = (z - a) * y + v + k * p /\ e = z * x + c + l * p
        /\ f = a * v + c + m * p       /\ g = z * y + v + n * p
  BY <1>1 DEF Cong
<1>3. PICK w \in Int : w = l + z * k - (z - a) * n - m
  OBVIOUS
<1>4. z * ((z - a) * y + v + k * p) + c + l * p
        = (z - a) * (z * y + v + n * p) + (a * v + c + m * p) + (l + z * k - (z - a) * n - m) * p
  OBVIOUS
<1>5. e = ((z - a) * g + f) + w * p
  BY <1>2, <1>3, <1>4
<1> QED  BY <1>1, <1>5 DEF Cong

Divides(m, h, a) ==
  \E q \in Monic(m) : \A z \in Field : Cong(h[z], (z - a) * q[z] + h[a])

\* Division with remainder by z - a: what is left is the value at a.
LEMMA MonicDivides ==
  ASSUME NEW m \in Nat, NEW h \in Monic(m + 1), NEW a \in Field
  PROVE  Divides(m, h, a)
<1> DEFINE F == {k \in Nat : \A f \in Monic(k + 1) : Divides(k, f, a)}
<1>1. a \in Int /\ a \in Nat
  BY FieldTyped
<1>2. 0 \in F
  <2>1. SUFFICES ASSUME NEW f \in Monic(0 + 1) PROVE Divides(0, f, a)
    OBVIOUS
  <2>2. PICK q \in Monic(0), c \in Field : f = Raised(q, c)
    BY MonicLower
  <2>3. q \in [Field -> Field] /\ q = [z \in Field |-> 1] /\ c \in Int
    BY <2>2, MonicZero, MonicRaise, FieldTyped
  <2>4. ASSUME NEW z \in Field PROVE Cong(f[z], (z - a) * q[z] + f[a])
    <3>1. z \in Int /\ q[z] = 1 /\ q[a] = 1
      BY <2>3, FieldTyped
    <3>2. PICK u \in Int, v \in Int : u = f[z] /\ v = f[a]
      <4>1. f[z] \in Field /\ f[a] \in Field
        BY <2>2, <2>3, RaisedTyped
      <4> QED  BY <4>1, FieldElement
    <3>3. Cong(u, z * 1 + c) /\ Cong(v, a * 1 + c)
      BY <2>2, <2>3, <3>1, <3>2, RaisedTyped
    <3>4. PICK x \in Int, y \in Int : x = 1 /\ y = 0
      OBVIOUS
    <3>5. Cong(u, (z - a) * x + v)
      <4>1. (z - a) * y + x = x /\ z * y + x = x /\ Cong(x, x)
        BY <1>1, <3>1, <3>4, CongRefl
      <4>2. Cong(x, (z - a) * y + x) /\ Cong(x, z * y + x)
        BY <4>1
      <4>3. Cong(u, z * x + c) /\ Cong(v, a * x + c)
        BY <3>3, <3>4
      <4> QED  BY <1>1, <2>3, <3>1, <4>2, <4>3, DivisionRaised
    <3> QED  BY <3>1, <3>2, <3>4, <3>5
  <2> QED  BY <2>2, <2>4 DEF Divides
<1>3. ASSUME NEW k \in F PROVE k + 1 \in F
  <2>0. k \in Nat /\ k + 1 \in Nat
    OBVIOUS
  <2>1. SUFFICES ASSUME NEW f \in Monic((k + 1) + 1) PROVE Divides(k + 1, f, a)
    OBVIOUS
  <2>2. PICK d \in Monic(k + 1), c \in Field : f = Raised(d, c)
    BY <2>0, MonicLower
  <2>3. PICK q \in Monic(k) : \A z \in Field : Cong(d[z], (z - a) * q[z] + d[a])
    BY <1>3 DEF Divides
  <2>4. d \in [Field -> Field] /\ q \in [Field -> Field] /\ c \in Int /\ d[a] \in Field
    BY <2>0, <2>2, MonicRaise, FieldTyped
  <2>5. PICK r : r = Raised(q, d[a])
    OBVIOUS
  <2>6. r \in Monic(k + 1)
    BY <2>0, <2>4, <2>5, MonicRaise
  <2>7. ASSUME NEW z \in Field PROVE Cong(f[z], (z - a) * r[z] + f[a])
    <3>1. r[z] \in Field /\ f[z] \in Field /\ f[a] \in Field
      <4>1. r \in [Field -> Field]
        BY <2>4, <2>5, RaisedTyped
      <4>2. f \in [Field -> Field]
        BY <2>2, <2>4, RaisedTyped
      <4> QED  BY <4>1, <4>2
    <3>2. PICK x \in Int, y \in Int, v \in Int, e \in Int, b \in Int, g \in Int :
            x = d[z] /\ y = q[z] /\ v = d[a] /\ e = f[z] /\ b = f[a] /\ g = r[z]
      <4>1. d[z] \in Int /\ q[z] \in Int /\ d[a] \in Int /\ f[z] \in Int /\ f[a] \in Int /\ r[z] \in Int
        <5>1. \A x \in Field : x \in Int
          BY FieldTyped
        <5> QED  BY <2>4, <3>1, <5>1
      <4> QED  BY <4>1
    <3>3. z \in Int
      BY FieldTyped
    <3>4. Cong(x, (z - a) * y + v) /\ Cong(e, z * x + c) /\ Cong(b, a * v + c) /\ Cong(g, z * y + v)
      <4>1. Cong(x, (z - a) * y + v)
        BY <2>3, <3>2
      <4>2. Cong(e, z * x + c) /\ Cong(b, a * v + c)
        BY <2>2, <2>4, <3>2, RaisedTyped
      <4>3. Cong(g, z * y + v)
        BY <2>4, <2>5, <3>2, RaisedTyped
      <4> QED  BY <4>1, <4>2, <4>3
    <3>5. Cong(e, (z - a) * g + b)
      BY <1>1, <2>4, <3>3, <3>4, DivisionRaised
    <3> QED  BY <3>2, <3>5
  <2> QED  BY <2>6, <2>7 DEF Divides
<1>4. Nat \subseteq F
  <2> HIDE DEF F
  <2> QED  BY <1>2, <1>3, NumberInduction
<1> QED  BY <1>4

Quotient(n, a, q) ==
  /\ \A z \in Field : Cong(Power(z, n + 1), (z - a) * q[z] + Power(a, n + 1))
  /\ Cong(q[a], (n + 1) * Power(a, n))

\* The quotient of a power by z - a, and its value at a: the derivative of the power.
LEMMA PowerQuotient ==
  ASSUME NEW n \in Nat, NEW a \in Field
  PROVE  \E q \in Monic(n) : Quotient(n, a, q)
<1> DEFINE F == {k \in Nat : \E q \in Monic(k) : Quotient(k, a, q)}
<1>1. a \in Nat /\ a \in Int
  BY FieldTyped
<1>2. 0 \in F
  <2>1. PICK q : q = [z \in Field |-> 1]
    OBVIOUS
  <2>2. ASSUME NEW z \in Field PROVE Power(z, 1) = z
    <3>1. z \in Nat /\ z * 1 = z /\ 1 * z = z
      BY FieldTyped
    <3>2. Power(z, 0 + 1) = (Power(z, 0) * z) % Modulus /\ Power(z, 0) = 1
      BY PowerNext
    <3>3. Power(z, 0 + 1) = z % Modulus
      BY <3>1, <3>2
    <3>4. z % Modulus \in Field /\ Cong(z % Modulus, z)
      BY <3>1, CongMod
    <3>5. z % Modulus = z
      BY <3>4, CongField
    <3> QED  BY <3>3, <3>5
  <2>3. ASSUME NEW z \in Field PROVE Cong(Power(z, 1), (z - a) * q[z] + Power(a, 1))
    <3>1. z \in Int /\ q[z] = 1 /\ Power(z, 1) = z /\ Power(a, 1) = a
      BY <2>1, <2>2, FieldTyped
    <3>2. (z - a) * 1 + a = z /\ Cong(z, z)
      BY <1>1, <3>1, CongRefl
    <3> QED  BY <3>1, <3>2
  <2>4. Cong(q[a], 1 * Power(a, 0))
    <3>1. q[a] = 1 /\ Power(a, 0) = 1 /\ 1 * 1 = 1 /\ 1 \in Int
      BY <2>1, PowerNext
    <3> QED  BY <3>1, CongRefl
  <2>5. Quotient(0, a, q)
    <3>1. 0 + 1 = 1
      OBVIOUS
    <3> QED  BY <2>3, <2>4, <3>1 DEF Quotient
  <2>6. q \in Monic(0)
    BY <2>1, MonicZero
  <2> QED  BY <2>5, <2>6
<1>3. ASSUME NEW k \in F PROVE k + 1 \in F
  <2>0. k \in Nat /\ k + 1 \in Nat /\ (k + 1) + 1 \in Nat
    OBVIOUS
  <2>1. PICK q \in Monic(k) : Quotient(k, a, q)
    OBVIOUS
  <2>2. PICK v \in Field : v = Power(a, k + 1) /\ v \in Int
    BY <1>1, <2>0, PowerField
  <2>3. q \in [Field -> Field]
    BY <2>0, <2>2, MonicRaise
  <2>c. PICK c \in Int : c = 0
    OBVIOUS
  <2>4. PICK r : r = Raised(q, v)
    OBVIOUS
  <2>5. r \in Monic(k + 1) /\ r \in [Field -> Field]
    BY <2>0, <2>4, MonicRaise, RaisedTyped
  <2>6. ASSUME NEW z \in Field
        PROVE  Cong(Power(z, (k + 1) + 1), (z - a) * r[z] + Power(a, (k + 1) + 1))
    <3>1. z \in Nat /\ z \in Int
      BY FieldTyped
    <3>2. PICK x \in Int, y \in Int, e \in Int, b \in Int, g \in Int :
            /\ x = Power(z, k + 1) /\ y = q[z] /\ e = Power(z, (k + 1) + 1)
            /\ b = Power(a, (k + 1) + 1) /\ g = r[z]
      <4>1. Power(z, k + 1) \in Int /\ Power(z, (k + 1) + 1) \in Int /\ Power(a, (k + 1) + 1) \in Int
        BY <1>1, <2>0, <3>1, PowerField
      <4>2. q[z] \in Field /\ r[z] \in Field
        BY <2>3, <2>5
      <4>3. q[z] \in Int /\ r[z] \in Int
        BY <4>2, FieldElement
      <4> QED  BY <4>1, <4>3
    <3>3. Cong(x, (z - a) * y + v)
      BY <2>1, <2>2, <3>2 DEF Quotient
    <3>4. Cong(e, z * x + c)
      <4>1. Cong(e, x * z)
        BY <2>0, <3>1, <3>2, PowerField
      <4>2. x * z = z * x + c
        BY <2>c, <3>1
      <4> QED  BY <4>1, <4>2
    <3>5. Cong(b, a * v + c)
      <4>1. Cong(b, v * a)
        BY <1>1, <2>0, <2>2, <3>2, PowerField
      <4>2. v * a = a * v + c
        BY <1>1, <2>2, <2>c
      <4> QED  BY <4>1, <4>2
    <3>6. Cong(g, z * y + v)
      BY <2>3, <2>4, <3>2, RaisedTyped
    <3>7. Cong(e, (z - a) * g + b)
      <4>1. PICK d \in Int : d = v
        BY <2>2
      <4>2. Cong(x, (z - a) * y + d) /\ Cong(e, z * x + c) /\ Cong(b, a * d + c) /\ Cong(g, z * y + d)
        BY <3>3, <3>4, <3>5, <3>6, <4>1
      <4> QED  BY <1>1, <3>1, <4>2, DivisionRaised
    <3> QED  BY <3>2, <3>7
  <2>7. Cong(r[a], ((k + 1) + 1) * Power(a, k + 1))
    <3>0. PICK p \in Int : p = Modulus
      BY BlobAssumption
    <3>1. PICK n1 \in Int, u \in Int, x \in Int, g \in Int :
            n1 = k + 1 /\ u = Power(a, k) /\ x = q[a] /\ g = r[a]
      <4>1. Power(a, k) \in Int
        BY <1>1, <2>0, PowerField
      <4>2. q[a] \in Field /\ r[a] \in Field
        BY <2>3, <2>5
      <4>3. q[a] \in Int /\ r[a] \in Int
        BY <4>2, FieldElement
      <4> QED  BY <2>0, <4>1, <4>3
    <3>2. Cong(x, n1 * u)
      BY <2>1, <3>1 DEF Quotient
    <3>3. Cong(v, u * a)
      BY <1>1, <2>0, <2>2, <3>1, PowerField
    <3>4. Cong(g, a * x + v)
      BY <2>3, <2>4, <3>1, RaisedTyped
    <3>5. PICK i \in Int, j \in Int, l \in Int :
            x = n1 * u + i * p /\ v = u * a + j * p /\ g = a * x + v + l * p
      BY <3>0, <3>1, <3>2, <3>3, <3>4 DEF Cong
    <3>6. a * (n1 * u + i * p) + (u * a + j * p) + l * p
            = (n1 + 1) * (u * a + j * p) + (a * i + l - n1 * j) * p
      BY <1>1
    <3>7. PICK w \in Int : w = a * i + l - n1 * j
      BY <1>1
    <3>8. g = (n1 + 1) * v + w * p
      BY <3>5, <3>6, <3>7
    <3>9. Cong(g, (n1 + 1) * v)
      BY <3>0, <3>8 DEF Cong
    <3> QED  BY <2>2, <3>1, <3>9
  <2>8. Quotient(k + 1, a, r)
    BY <2>6, <2>7 DEF Quotient
  <2> QED  BY <2>0, <2>5, <2>8
<1>4. Nat \subseteq F
  <2> HIDE DEF F
  <2> QED  BY <1>2, <1>3, NumberInduction
<1> QED  BY <1>4

(***************************************************************************)
(* The product of the distances to all points of the domain but one.       *)
(***************************************************************************)

Distances(e, a, n, t) ==
  t = [k \in 0..n |-> IF k = 0 THEN 1
                      ELSE IF k = e THEN t[k - 1]
                      ELSE (t[k - 1] * Less(a, EvaluationDomain[k])) % Modulus]

LEMMA DistancesExist ==
  ASSUME NEW e, NEW a, NEW n \in Nat PROVE \E t : Distances(e, a, n, t)
<1> DEFINE F == {j \in Nat : \E t : Distances(e, a, j, t)}
<1>1. 0 \in F
  <2> DEFINE t == [i \in 0..0 |-> 1]
  <2>1. Distances(e, a, 0, t)
    BY DEF Distances
  <2> QED  BY <2>1
<1>2. ASSUME NEW j \in F PROVE j + 1 \in F
  <2>1. j \in Nat
    OBVIOUS
  <2>2. PICK u : Distances(e, a, j, u)
    BY <1>2
  <2> DEFINE Entry(s, i) == IF i = 0 THEN 1
                            ELSE IF i = e THEN s[i - 1]
                            ELSE (s[i - 1] * Less(a, EvaluationDomain[i])) % Modulus
  <2>3. \A i \in 0..j : u[i] = Entry(u, i)
    BY <2>2 DEF Distances
  <2> DEFINE t == [i \in 0..j + 1 |-> IF i = j + 1 THEN Entry(u, i) ELSE u[i]]
  <2>4. ASSUME NEW i \in 0..j + 1 PROVE t[i] = Entry(t, i)
    <3>1. i # 0 => t[i - 1] = u[i - 1]
      BY <2>1
    <3>2. t[i] = Entry(u, i)
      <4>1. i = j + 1 \/ i \in 0..j
        BY <2>1
      <4> HIDE DEF Entry
      <4> QED  BY <2>3, <4>1
    <3> HIDE DEF t
    <3> QED  BY <3>1, <3>2
  <2>5. t = [i \in 0..j + 1 |-> Entry(t, i)]
    <3> HIDE DEF Entry
    <3> QED  BY <2>4
  <2>6. Distances(e, a, j + 1, t)
    <3> HIDE DEF t
    <3> QED  BY <2>5 DEF Distances
  <2> QED  BY <2>1, <2>6
<1>3. Nat \subseteq F
  <2> HIDE DEF F
  <2> QED  BY <1>1, <1>2, NumberInduction
<1> QED  BY <1>3

LEMMA OthersTabulated ==
  ASSUME NEW e, NEW a
  PROVE  \E t : Distances(e, a, BlobWidth, t) /\ Others(e, a) = t[BlobWidth]
<1>1. PICK t : t = CHOOSE s : Distances(e, a, BlobWidth, s)
  OBVIOUS
<1>2. Others(e, a) = t[BlobWidth]
  BY <1>1 DEF Others, Distances
<1>3. BlobWidth \in Nat
  BY WidthDivides
<1>4. Distances(e, a, BlobWidth, t)
  BY <1>1, <1>3, DistancesExist
<1> QED  BY <1>2, <1>4

\* A difference in the field.
LEMMA LessIs ==
  ASSUME NEW a \in Field, NEW b \in Field
  PROVE  Less(a, b) \in Field /\ Less(a, b) \in Int /\ Cong(Less(a, b), a - b)
<1>1. PICK p \in Nat, x \in Nat, y \in Nat : p = Modulus /\ x = a /\ y = b /\ y < p
  BY FieldTyped DEF Field
<1>2. PICK d \in Nat : d = p + x - y
  BY <1>1
<1>3. Less(a, b) = d % Modulus
  BY <1>1, <1>2 DEF Less
<1>4. d % Modulus \in Field /\ Cong(d % Modulus, d)
  BY CongMod
<1>5. Cong(d, x - y)
  <2>1. d = (x - y) + 1 * Modulus /\ 1 \in Int
    BY <1>1, <1>2
  <2> QED  BY <2>1 DEF Cong
<1>6. Less(a, b) \in Field /\ Less(a, b) \in Int
  BY <1>3, <1>4, FieldElement
<1>7. x - y \in Int /\ d \in Int
  OBVIOUS
<1> QED  BY <1>1, <1>3, <1>4, <1>5, <1>6, <1>7, CongTrans

\* A polynomial of degree n that vanishes at n points is their product of distances.
Roots(e, k) == {f \in 1..k : f # e}
Degree(e, k) == IF k < e THEN k ELSE k - 1
Factored(e, k, h) ==
  \A z \in Field : \A t : Distances(e, z, BlobWidth, t) => h[z] = t[k]

LEMMA DistancesAt ==
  ASSUME NEW e, NEW a, NEW t, Distances(e, a, BlobWidth, t), NEW k \in 0..BlobWidth
  PROVE  /\ k = 0 => t[k] = 1
         /\ (k # 0 /\ k = e) => t[k] = t[k - 1]
         /\ (k # 0 /\ k # e) => t[k] = (t[k - 1] * Less(a, EvaluationDomain[k])) % Modulus
BY DEF Distances

LEMMA MonicFactored ==
  ASSUME NEW e \in Elements, NEW n \in 0..BlobWidth, NEW h \in Monic(Degree(e, n)),
         \A f \in Roots(e, n) : h[EvaluationDomain[f]] = 0
  PROVE  Factored(e, n, h)
<1>1. PICK w \in Nat : w = BlobWidth /\ w # 0 /\ e \in 1..w
  BY WidthDivides DEF Elements
<1> DEFINE W == EvaluationDomain
           Zeros(k, q) == \A f \in Roots(e, k) : q[W[f]] = 0
           F == {k \in Nat : k <= w =>
                   \A q \in Monic(Degree(e, k)) : Zeros(k, q) => Factored(e, k, q)}
<1>2. \A f \in 1..w : W[f] \in Field
  BY <1>1, RootsOfUnity DEF Elements
<1>3. 0 \in F
  <2>1. SUFFICES ASSUME NEW q \in Monic(Degree(e, 0)) PROVE Factored(e, 0, q)
    OBVIOUS
  <2>2. Degree(e, 0) = 0
    BY <1>1 DEF Degree
  <2>3. q = [z \in Field |-> 1]
    BY <2>2, MonicZero
  <2>4. 0 \in 0..BlobWidth
    BY <1>1
  <2> QED  BY <2>3, <2>4, DistancesAt DEF Factored
<1>4. ASSUME NEW k \in F PROVE k + 1 \in F
  <2>1. SUFFICES ASSUME k \in Nat, k + 1 <= w, NEW q \in Monic(Degree(e, k + 1)), Zeros(k + 1, q)
                 PROVE Factored(e, k + 1, q)
    OBVIOUS
  <2>2. k + 1 \in 0..BlobWidth /\ k + 1 # 0 /\ (k + 1) - 1 = k /\ k <= w /\ k + 1 \in 1..w
    BY <1>1, <2>1
  <2>3. \A d \in Monic(Degree(e, k)) : Zeros(k, d) => Factored(e, k, d)
    BY <1>4, <2>2
  <2>4. CASE k + 1 = e
    <3>1. Degree(e, k + 1) = k /\ Degree(e, k) = k
      BY <2>1, <2>4 DEF Degree
    <3>2. Zeros(k, q)
      BY <2>1 DEF Roots
    <3>3. Factored(e, k, q)
      <4> HIDE DEF Zeros
      <4> QED  BY <2>3, <3>1, <3>2
    <3>4. ASSUME NEW z \in Field, NEW t, Distances(e, z, BlobWidth, t) PROVE q[z] = t[k + 1]
      <4>1. t[k + 1] = t[k]
        BY <2>2, <2>4, <3>4, DistancesAt
      <4> QED  BY <3>3, <3>4, <4>1 DEF Factored
    <3> QED  BY <3>4 DEF Factored
  <2>5. CASE k + 1 # e
    <3>1. Degree(e, k + 1) = Degree(e, k) + 1 /\ Degree(e, k) \in Nat
      BY <1>1, <2>1, <2>5 DEF Degree
    <3>2. PICK m \in Nat : m = Degree(e, k) /\ m + 1 = Degree(e, k + 1)
      BY <3>1
    <3>3. PICK a \in Field : a = W[k + 1]
      BY <1>2, <2>2
    <3>4. Divides(m, q, a)
      BY <3>2, MonicDivides
    <3>5. q[a] = 0
      <4>1. k + 1 \in Roots(e, k + 1)
        BY <2>1, <2>5 DEF Roots
      <4> QED  BY <2>1, <3>3, <4>1
    <3>6. PICK d \in Monic(m) : \A z \in Field : Cong(q[z], (z - a) * d[z] + 0)
      BY <3>4, <3>5 DEF Divides
    <3>7. d \in [Field -> Field] /\ q \in [Field -> Field] /\ a \in Int
      <4>1. d \in [Field -> Field] /\ q \in [Field -> Field]
        BY <3>2 DEF Monic
      <4> QED  BY <4>1, FieldElement
    <3>8. ASSUME NEW f \in Roots(e, k) PROVE d[W[f]] = 0
      <4>1. f \in 1..w /\ f # k + 1 /\ f \in Roots(e, k + 1) /\ f \in Elements /\ k + 1 \in Elements
        BY <1>1, <2>2 DEF Roots, Elements
      <4>2. PICK z \in Field : z = W[f] /\ z \in Int /\ q[z] = 0
        BY <1>2, <2>1, <4>1, FieldElement
      <4>3. z # a
        BY <3>3, <4>1, <4>2, RootsDistinct
      <4>4. PICK x \in Field : x = d[z] /\ x \in Int
        BY <3>7, FieldElement
      <4>5. Cong((z - a) * x, 0)
        <5>1. Cong(0, (z - a) * x + 0)
          BY <3>6, <4>2, <4>4
        <5>2. (z - a) * x + 0 = (z - a) * x /\ (z - a) * x \in Int /\ 0 \in Int
          BY <3>7, <4>2, <4>4
        <5> QED  BY <5>1, <5>2, CongSym
      <4>6. ~Cong(z - a, 0)
        <5>1. SUFFICES ASSUME Cong(z - a, 0) PROVE FALSE
          OBVIOUS
        <5>2. Cong((z - a) + a, 0 + a)
          <6>1. Cong(a, a) /\ z - a \in Int /\ 0 \in Int
            BY <3>7, <4>2, CongRefl
          <6> QED  BY <3>7, <5>1, <6>1, CongOps
        <5>3. (z - a) + a = z /\ 0 + a = a
          BY <3>7, <4>2
        <5> QED  BY <4>3, <5>2, <5>3, CongField
      <4>7. Cong(x, 0)
        <5>1. z - a \in Int
          BY <3>7, <4>2
        <5> QED  BY <4>4, <4>5, <4>6, <5>1, Euclid
      <4> QED  BY <4>2, <4>4, <4>7, CongField, FieldTyped
    <3>9. Factored(e, k, d)
      BY <2>3, <3>2, <3>8
    <3>10. ASSUME NEW z \in Field, NEW t, Distances(e, z, BlobWidth, t) PROVE q[z] = t[k + 1]
      <4>1. d[z] = t[k]
        BY <3>9, <3>10 DEF Factored
      <4>2. t[k + 1] = (t[k] * Less(z, a)) % Modulus
        BY <2>2, <2>5, <3>3, <3>10, DistancesAt
      <4>3. PICK x \in Nat, l \in Nat, y \in Field : 
              x = d[z] /\ l = Less(z, a) /\ Cong(l, z - a) /\ y = q[z]
        <5>1. d[z] \in Nat /\ Less(z, a) \in Nat /\ q[z] \in Field
          BY <3>7, LessIs, FieldElement
        <5> QED  BY <5>1, LessIs
      <4>4. x * l \in Nat /\ z \in Int /\ y \in Int
        BY <4>3, FieldElement
      <4>5. t[k + 1] \in Field /\ t[k + 1] \in Int /\ Cong(x * l, t[k + 1])
        <5>1. t[k + 1] = (x * l) % Modulus
          BY <4>1, <4>2, <4>3
        <5> QED  BY <4>4, <5>1, CongMod, FieldElement
      <4>6. Cong(x * l, x * (z - a))
        <5>1. Cong(x, x) /\ x \in Int /\ l \in Int /\ z - a \in Int
          BY <3>7, <4>4, CongRefl
        <5> QED  BY <4>3, <5>1, CongOps
      <4>7. Cong(y, x * (z - a))
        <5>1. Cong(y, (z - a) * x + 0)
          BY <3>6, <4>3
        <5>2. (z - a) * x + 0 = x * (z - a)
          BY <3>7, <4>4
        <5> QED  BY <5>1, <5>2
      <4>8. Cong(y, t[k + 1])
        <5>1. x * l \in Int /\ x * (z - a) \in Int
          BY <3>7, <4>4
        <5>2. Cong(x * (z - a), x * l)
          BY <4>6, <5>1, CongSym
        <5>3. Cong(y, x * l)
          BY <4>4, <4>7, <5>1, <5>2, CongTrans
        <5> QED  BY <4>4, <4>5, <5>1, <5>3, CongTrans
      <4> QED  BY <4>3, <4>5, <4>8, CongField
    <3> QED  BY <3>10 DEF Factored
  <2> QED  BY <2>4, <2>5
<1>5. Nat \subseteq F
  <2> HIDE DEF F
  <2> QED  BY <1>3, <1>4, NumberInduction
<1>6. n \in Nat /\ n <= w /\ n \in F
  BY <1>1, <1>5
<1> QED  BY <1>6

\* The product is the quotient of z^n - 1 by the distance to the point left out, and at that
\* point n times its inverse.
LEMMA OthersQuotient ==
  ASSUME NEW e \in Elements, NEW z \in Field
  PROVE  /\ Others(e, z) \in Field
         /\ Cong(Power(z, BlobWidth), (z - EvaluationDomain[e]) * Others(e, z) + 1)
         /\ Cong(EvaluationDomain[e] * Others(e, EvaluationDomain[e]), BlobWidth)
<1>1. PICK w \in Nat, n \in Nat : w = BlobWidth /\ n + 1 = w /\ e \in 1..w /\ n = w - 1
  <2>1. BlobWidth - 1 \in Nat /\ (BlobWidth - 1) + 1 = BlobWidth
    BY WidthDivides
  <2> QED  BY <2>1, WidthDivides DEF Elements
<1>2. PICK a \in Field : a = EvaluationDomain[e] /\ a \in Nat /\ a \in Int /\ Power(a, w) = 1 /\ ~Cong(a, 0)
  BY <1>1, RootsOfUnity, FieldElement
<1>3. PICK q \in Monic(n) : Quotient(n, a, q)
  BY PowerQuotient
<1>4. q \in [Field -> Field]
  BY DEF Monic
<1>5. ASSUME NEW x \in Field PROVE Cong(Power(x, w), (x - a) * q[x] + 1)
  BY <1>1, <1>2, <1>3 DEF Quotient
<1>6. ASSUME NEW f \in Roots(e, w) PROVE q[EvaluationDomain[f]] = 0
  <2>1. f \in Elements /\ f # e
    BY <1>1 DEF Roots, Elements
  <2>2. PICK x \in Field : x = EvaluationDomain[f] /\ x \in Int /\ Power(x, w) = 1
    BY <1>1, <2>1, RootsOfUnity, FieldElement
  <2>3. x # a
    BY <1>2, <2>1, <2>2, RootsDistinct
  <2>4. PICK y \in Field : y = q[x] /\ y \in Int
    BY <1>4, FieldElement
  <2>5. PICK p \in Int : p = Modulus
    BY BlobAssumption
  <2>6. PICK k \in Int : 1 = (x - a) * y + 1 + k * p
    BY <1>5, <2>2, <2>4, <2>5 DEF Cong
  <2>7. (x - a) * y = 0 + (-k) * p /\ -k \in Int
    BY <1>2, <2>2, <2>4, <2>5, <2>6
  <2>8. Cong((x - a) * y, 0)
    BY <2>5, <2>7 DEF Cong
  <2>9. ~Cong(x - a, 0)
    <3>1. SUFFICES ASSUME Cong(x - a, 0) PROVE FALSE
      OBVIOUS
    <3>2. PICK m \in Int : x - a = 0 + m * p
      BY <2>5, <3>1 DEF Cong
    <3>3. x = a + m * p
      BY <1>2, <2>2, <2>5, <3>2
    <3>4. Cong(x, a)
      BY <2>5, <3>3 DEF Cong
    <3> QED  BY <2>3, <3>4, CongField
  <2>10. Cong(y, 0)
    <3>1. x - a \in Int
      BY <1>2, <2>2
    <3> QED  BY <2>4, <2>8, <2>9, <3>1, Euclid
  <2> QED  BY <2>2, <2>4, <2>10, CongField, FieldTyped
<1>7. Factored(e, w, q)
  <2>1. Degree(e, w) = n /\ w \in 0..BlobWidth
    BY <1>1 DEF Degree
  <2> QED  BY <1>6, <2>1, MonicFactored
<1>8. ASSUME NEW x \in Field PROVE Others(e, x) = q[x]
  <2>1. PICK t : Distances(e, x, BlobWidth, t) /\ Others(e, x) = t[BlobWidth]
    BY OthersTabulated
  <2> QED  BY <1>1, <1>7, <2>1 DEF Factored
<1>9. Cong(a * q[a], w)
  <2>1. PICK y \in Int, u \in Int, p \in Int : y = q[a] /\ u = Power(a, n) /\ p = Modulus
    <3>1. q[a] \in Int /\ Power(a, n) \in Int
      BY <1>2, <1>4, PowerField, FieldElement
    <3> QED  BY <3>1, BlobAssumption
  <2>2. PICK k \in Int : y = (n + 1) * u + k * p
    BY <1>3, <2>1 DEF Quotient, Cong
  <2>3. PICK m \in Int : u * a = 1 + m * p
    <3>1. Cong(Power(a, n) * a, Power(a, n + 1))
      BY <1>2, PowerField
    <3> QED  BY <1>1, <1>2, <2>1, <3>1 DEF Cong
  <2>c. PICK c \in Int : c = a
    BY <1>2
  <2>4. c * ((n + 1) * u + k * p) = (n + 1) * (u * c) + (c * k) * p
    OBVIOUS
  <2>5. (n + 1) * (1 + m * p) + (c * k) * p = (n + 1) + ((n + 1) * m + c * k) * p
    OBVIOUS
  <2>6. PICK i \in Int : i = (n + 1) * m + c * k
    OBVIOUS
  <2>7. a * y = w + i * p
    BY <1>1, <2>c, <2>2, <2>3, <2>4, <2>5, <2>6
  <2> QED  BY <2>1, <2>7 DEF Cong
<1>10. Others(e, z) = q[z] /\ Others(e, a) = q[a] /\ q[z] \in Field
  BY <1>4, <1>8
<1> QED  BY <1>1, <1>2, <1>5, <1>9, <1>10

(***************************************************************************)
(* The terms of the two sums.                                              *)
(***************************************************************************)

\* The denominators of Lagrange's polynomial have inverses.
LEMMA OthersInverted ==
  ASSUME NEW e \in Elements
  PROVE  /\ Others(e, EvaluationDomain[e]) \in Field
         /\ Inverted(Others(e, EvaluationDomain[e])) \in Field
         /\ Cong(Others(e, EvaluationDomain[e]) * Inverted(Others(e, EvaluationDomain[e])), 1)
<1>1. PICK a \in Field : a = EvaluationDomain[e] /\ a \in Int
  BY RootsOfUnity, FieldElement
<1>2. PICK d \in Field : d = Others(e, a) /\ d \in Int /\ Cong(a * d, BlobWidth)
  BY <1>1, OthersQuotient, FieldElement
<1>3. d # 0
  <2>1. SUFFICES ASSUME d = 0 PROVE FALSE
    OBVIOUS
  <2>2. a * d = 0 /\ BlobWidth \in Int /\ 0 \in Int
    BY <1>1, <2>1, WidthDivides
  <2>3. Cong(0, BlobWidth)
    BY <1>2, <2>2
  <2> QED  BY <2>2, <2>3, CongSym, WidthDivides
<1> QED  BY <1>1, <1>2, <1>3, InvertedIs

\* At a point of the domain only one of the products is not zero.
LEMMA OthersVanish ==
  ASSUME NEW e \in Elements, NEW k \in Elements, e # k
  PROVE  Others(e, EvaluationDomain[k]) = 0
<1>1. PICK w \in Nat : w = BlobWidth /\ k \in 1..w
  BY WidthDivides DEF Elements
<1>2. PICK x \in Field, a \in Field :
        x = EvaluationDomain[k] /\ a = EvaluationDomain[e] /\ x \in Int /\ a \in Int /\ Power(x, w) = 1
  BY <1>1, RootsOfUnity, FieldElement
<1>3. x # a
  BY <1>2, RootsDistinct
<1>4. PICK y \in Field : y = Others(e, x) /\ y \in Int /\ Cong(1, (x - a) * y + 1)
  <2>1. Others(e, x) \in Field /\ Cong(Power(x, BlobWidth), (x - EvaluationDomain[e]) * Others(e, x) + 1)
    BY OthersQuotient
  <2> QED  BY <1>1, <1>2, <2>1, FieldElement
<1>0. PICK p \in Int : p = Modulus
  BY BlobAssumption
<1>5. PICK i \in Int : 1 = (x - a) * y + 1 + i * p
  BY <1>0, <1>4 DEF Cong
<1>6. (x - a) * y = 0 + (-i) * p /\ -i \in Int
  BY <1>2, <1>4, <1>5
<1>7. Cong((x - a) * y, 0)
  BY <1>0, <1>6 DEF Cong
<1>8. ~Cong(x - a, 0)
  <2>1. SUFFICES ASSUME Cong(x - a, 0) PROVE FALSE
    OBVIOUS
  <2>2. PICK m \in Int : x - a = 0 + m * p
    BY <1>0, <2>1 DEF Cong
  <2>3. x = a + m * p
    BY <1>2, <2>2
  <2>4. Cong(x, a)
    BY <1>0, <2>3 DEF Cong
  <2> QED  BY <1>3, <2>4, CongField
<1>9. Cong(y, 0)
  <2>1. x - a \in Int
    BY <1>2
  <2> QED  BY <1>4, <1>7, <1>8, <2>1, Euclid
<1> QED  BY <1>2, <1>4, <1>9, CongField, FieldTyped

\* Off the domain each term of Lagrange's sum is the code's term times a common factor:
\* with d the distance to the point a, o the product of the others at z and u at a, and
\* s = z^n - 1 = d * o, n = a * u, the quotient o / u is a / d * s / n.
LEMMA TermsAgree ==
  ASSUME NEW b \in Int, NEW a \in Int, NEW d \in Int, NEW o \in Int, NEW u \in Int, NEW s \in Int,
         NEW n \in Int, NEW id \in Int, NEW iu \in Int, NEW in \in Int,
         Cong(s, d * o), Cong(a * u, n), Cong(d * id, 1), Cong(u * iu, 1), Cong(n * in, 1)
  PROVE  Cong(b * o * iu, (b * a * id) * (s * in))
<1>1. PICK p \in Int : p = Modulus
  BY BlobAssumption
<1>2. PICK k \in Int, l \in Int, i \in Int, j \in Int, m \in Int :
        s = d * o + k * p /\ n = a * u - l * p /\ d * id = 1 + i * p /\ u * iu = 1 + j * p /\ n * in = 1 + m * p
  <2>1. PICK k \in Int : s = d * o + k * p
    BY <1>1 DEF Cong
  <2>2. PICK l \in Int : a * u = n + l * p
    BY <1>1 DEF Cong
  <2>3. PICK i \in Int : d * id = 1 + i * p
    BY <1>1 DEF Cong
  <2>4. PICK j \in Int : u * iu = 1 + j * p
    BY <1>1 DEF Cong
  <2>5. PICK m \in Int : n * in = 1 + m * p
    BY <1>1 DEF Cong
  <2>6. n = a * u - l * p
    BY <2>2
  <2> QED  BY <2>1, <2>3, <2>4, <2>5, <2>6
\* s / d is o ...
<1>3. PICK x \in Int : s * id = o + x * p
  <2>1. (d * o + k * p) * id = o * (d * id) + (k * id) * p
    OBVIOUS
  <2>2. o * (1 + i * p) + (k * id) * p = o + (o * i + k * id) * p
    OBVIOUS
  <2>3. s * id = o + (o * i + k * id) * p
    BY <1>2, <2>1, <2>2
  <2>4. PICK v \in Int : v = o * i + k * id
    OBVIOUS
  <2> QED  BY <2>3, <2>4
\* ... and a / n is 1 / u.
<1>4. PICK y \in Int : a * in = iu + y * p
  <2>1. (a * u) * in = 1 + (m + l * in) * p
    <3>1. n * in = (a * u) * in - (l * in) * p
      <4>1. (a * u - l * p) * in = (a * u) * in - (l * in) * p
        OBVIOUS
      <4> QED  BY <1>2, <4>1
    <3>2. (a * u) * in = (1 + m * p) + (l * in) * p
      BY <1>2, <3>1
    <3> QED  BY <3>2
  <2>2. PICK v \in Int : v = m + l * in
    OBVIOUS
  <2>3. ((a * u) * in) * iu = (a * in) * (u * iu)
    OBVIOUS
  <2>4. (1 + v * p) * iu = (a * in) * (1 + j * p)
    BY <1>2, <2>1, <2>2, <2>3
  <2>5. (1 + v * p) * iu = iu + (v * iu) * p /\ (a * in) * (1 + j * p) = a * in + ((a * in) * j) * p
    OBVIOUS
  <2>6. PICK f \in Int, g \in Int : f = v * iu /\ g = (a * in) * j
    OBVIOUS
  <2>7. a * in = iu + f * p - g * p
    BY <2>4, <2>5, <2>6
  <2>8. PICK h \in Int : h = f - g
    OBVIOUS
  <2>9. a * in = iu + h * p
    BY <2>7, <2>8
  <2> QED  BY <2>9
<1>5. (b * a * id) * (s * in) = b * ((s * id) * (a * in))
  OBVIOUS
<1>6. b * ((o + x * p) * (iu + y * p)) = b * o * iu + (b * (o * y + x * iu + x * y * p)) * p
  OBVIOUS
<1>7. PICK r \in Int, c \in Int, e \in Int :
        r = b * (o * y + x * iu + x * y * p) /\ c = b * o * iu /\ e = (b * a * id) * (s * in)
  OBVIOUS
<1>8. e = c + r * p
  BY <1>3, <1>4, <1>5, <1>6, <1>7
<1>9. Cong(e, c)
  BY <1>1, <1>8 DEF Cong
<1> QED  BY <1>7, <1>9, CongSym

\* Sums of terms that are congruent up to a common factor are congruent up to it.
LEMMA SumsAgree ==
  ASSUME NEW S, IsFiniteSet(S), NEW f, NEW h, NEW c \in Int,
         \A x \in S : f[x] \in Nat /\ h[x] \in Nat /\ Cong(f[x], h[x] * c)
  PROVE  Cong(SumFunctionOnSet(f, S), SumFunctionOnSet(h, S) * c)
<1> DEFINE F == {T \in SUBSET S : Cong(SumFunctionOnSet(f, T), SumFunctionOnSet(h, T) * c)}
<1>1. {} \in F
  <2>1. SumFunctionOnSet(f, {}) = 0 /\ SumFunctionOnSet(h, {}) = 0 /\ 0 * c = 0 /\ 0 \in Int
    BY SumEmpty
  <2>2. Cong(0, 0)
    BY CongRefl
  <2> QED  BY <2>1, <2>2
<1>2. ASSUME NEW T \in SUBSET S, NEW x \in S \ T, T \in F PROVE T \cup {x} \in F
  <2>1. IsFiniteSet(T) /\ (\A y \in T \cup {x} : f[y] \in Nat /\ h[y] \in Nat)
    BY FS_Subset
  <2>2. PICK i \in Int, j \in Int, k \in Int, l \in Int :
          /\ i = f[x] /\ j = h[x]
          /\ k = SumFunctionOnSet(f, T) /\ l = SumFunctionOnSet(h, T)
    <3>1. SumFunctionOnSet(f, T) \in Nat /\ SumFunctionOnSet(h, T) \in Nat
      BY <2>1, SumNat
    <3> QED  BY <3>1
  <2>3. SumFunctionOnSet(f, T \cup {x}) = i + k
    BY <2>1, <2>2, SumAdd
  <2>4. SumFunctionOnSet(h, T \cup {x}) = j + l
    BY <2>1, <2>2, SumAdd
  <2>5. Cong(i, j * c) /\ Cong(k, l * c)
    BY <1>2, <2>2
  <2>6. Cong(i + k, j * c + l * c)
    BY <2>5, CongOps
  <2>7. j * c + l * c = (j + l) * c
    OBVIOUS
  <2> QED  BY <2>3, <2>4, <2>6, <2>7
<1>3. \A T \in SUBSET S : \A x \in S \ T : T \in F => T \cup {x} \in F
  <2> HIDE DEF F
  <2> QED  BY <1>2
<1>4. S \in F
  <2> HIDE DEF F
  <2> QED  BY <1>1, <1>3, SubsetInduction
<1> QED  BY <1>4

LEMMA SumIsTotal ==
  ASSUME NEW S, IsFiniteSet(S), NEW f \in [S -> Nat]
  PROVE  SumFunction(f) = SumFunctionOnSet(f, S) /\ SumFunction(f) \in Nat
<1>1. SumFunction(f) = SumFunctionOnSet(f, S)
  BY DEF SumFunction
<1>2. SumFunctionOnSet(f, S) \in Nat
  BY SumNat
<1> QED  BY <1>1, <1>2

LEMMA ElementsFinite == IsFiniteSet(Elements)
<1>1. 1 \in Int /\ BlobWidth \in Int
  BY WidthDivides
<1> QED  BY <1>1, FS_Interval DEF Elements

LagrangeTerms(b, z) ==
  [e \in Elements |-> (b[e] * Others(e, z) * Inverted(Others(e, EvaluationDomain[e]))) % Modulus]

LEMMA LagrangeTerm ==
  ASSUME NEW b \in [Elements -> Field], NEW z \in Field, NEW e \in Elements
  PROVE  /\ LagrangeTerms(b, z)[e] \in Field
         /\ b[e] * Others(e, z) * Inverted(Others(e, EvaluationDomain[e])) \in Nat
         /\ Cong(LagrangeTerms(b, z)[e],
                 b[e] * Others(e, z) * Inverted(Others(e, EvaluationDomain[e])))
<1>1. PICK x \in Nat, y \in Nat, i \in Nat :
        x = b[e] /\ y = Others(e, z) /\ i = Inverted(Others(e, EvaluationDomain[e]))
  <2>1. b[e] \in Field /\ Others(e, z) \in Field /\ Inverted(Others(e, EvaluationDomain[e])) \in Field
    BY OthersQuotient, OthersInverted
  <2> QED  BY <2>1, FieldElement
<1>2. x * y * i \in Nat
  <2>1. PICK v \in Nat : v = x * y
    OBVIOUS
  <2> QED  BY <2>1
<1>3. LagrangeTerms(b, z)[e] = (x * y * i) % Modulus
  BY <1>1 DEF LagrangeTerms
<1> QED  BY <1>1, <1>2, <1>3, CongMod

LEMMA InterpolatedIs ==
  ASSUME NEW b \in [Elements -> Field], NEW z \in Field
  PROVE  /\ LagrangeTerms(b, z) \in [Elements -> Field]
         /\ Interpolated(b, z) = SumFunction(LagrangeTerms(b, z)) % Modulus
<1>1. \A e \in Elements : LagrangeTerms(b, z)[e] \in Field
  BY LagrangeTerm
<1>2. LagrangeTerms(b, z) = [e \in Elements |-> LagrangeTerms(b, z)[e]]
  BY DEF LagrangeTerms
<1>3. LagrangeTerms(b, z) \in [Elements -> Field]
  BY <1>1, <1>2
<1> QED  BY <1>3 DEF Interpolated, Total, LagrangeTerms

\* On the domain both are the value the blob stores.
LEMMA InterpolatesOnDomain ==
  ASSUME NEW b \in [Elements -> Field], NEW k \in Elements
  PROVE  /\ Interpolated(b, EvaluationDomain[k]) = b[k]
         /\ Evaluate(b, EvaluationDomain[k]) = b[k]
<1>1. PICK z \in Field : z = EvaluationDomain[k]
  BY RootsOfUnity
<1> DEFINE zeros == [e \in Elements |-> 0]
<1>2. PICK t : t = LagrangeTerms(b, z)
  OBVIOUS
<1>3. t \in [Elements -> Field]
  BY <1>2, InterpolatedIs
<1>4. t[k] = b[k]
  <2>1. PICK x \in Field, u \in Field, i \in Field :
          x = b[k] /\ u = Others(k, z) /\ i = Inverted(u) /\ Cong(u * i, 1)
    BY <1>1, OthersInverted
  <2>2. x \in Int /\ u \in Int /\ i \in Int /\ t[k] \in Field /\ t[k] \in Int
    BY <1>3, FieldElement
  <2>3. Cong(t[k], x * u * i)
    BY <1>1, <1>2, <2>1, LagrangeTerm
  <2>4. Cong(x * (u * i), x * 1)
    <3>1. Cong(x, x) /\ u * i \in Int /\ 1 \in Int
      BY <2>2, CongRefl
    <3> QED  BY <2>1, <2>2, <3>1, CongOps
  <2>5. x * u * i = x * (u * i) /\ x * 1 = x /\ x * (u * i) \in Int
    BY <2>2
  <2>6. Cong(t[k], x)
    BY <2>2, <2>3, <2>4, <2>5, CongTrans
  <2> QED  BY <2>1, <2>2, <2>6, CongField
<1>5. ASSUME NEW e \in Elements, e # k PROVE t[e] = 0
  <2>1. PICK x \in Int, i \in Int : x = b[e] /\ i = Inverted(Others(e, EvaluationDomain[e]))
    <3>1. b[e] \in Field /\ Inverted(Others(e, EvaluationDomain[e])) \in Field
      BY OthersInverted
    <3> QED  BY <3>1, FieldElement
  <2>2. Cong(t[e], x * 0 * i)
    <3>1. Others(e, z) = 0
      BY <1>1, <1>5, OthersVanish
    <3>2. Cong(t[e], b[e] * Others(e, z) * Inverted(Others(e, EvaluationDomain[e])))
      BY <1>2, LagrangeTerm
    <3> QED  BY <2>1, <3>1, <3>2
  <2>3. x * 0 * i = 0 /\ t[e] \in Field
    BY <1>3
  <2> QED  BY <2>2, <2>3, CongField, FieldTyped
<1>6. t = [zeros EXCEPT ![k] = b[k]]
  BY <1>3, <1>4, <1>5
<1>7. SumFunction(t) = b[k]
  <2>1. zeros \in [Elements -> Nat] /\ zeros[k] = 0
    OBVIOUS
  <2>2. b[k] \in Nat
    BY FieldElement
  <2>3. SumFunction(zeros) = 0
    BY ElementsFinite, TotalOfZeros
  <2>4. SumFunction([zeros EXCEPT ![k] = b[k]]) = SumFunction(zeros) - zeros[k] + b[k]
    <3> HIDE DEF zeros
    <3> QED  BY <2>1, <2>2, ElementsFinite, TotalOfUpdate
  <2> HIDE DEF zeros
  <2> QED  BY <1>6, <2>1, <2>2, <2>3, <2>4
<1>8. b[k] % Modulus = b[k]
  <2>1. b[k] \in Field /\ b[k] \in Nat
    BY FieldElement
  <2>2. b[k] % Modulus \in Field /\ Cong(b[k] % Modulus, b[k])
    BY <2>1, CongMod
  <2> QED  BY <2>1, <2>2, CongField
<1>9. Interpolated(b, z) = b[k]
  BY <1>2, <1>7, <1>8, InterpolatedIs
<1>10. Evaluate(b, z) = b[k]
  <2>1. (CHOOSE e \in Elements : EvaluationDomain[e] = z) = k
    BY <1>1, RootsDistinct
  <2>2. \E e \in Elements : EvaluationDomain[e] = z
    BY <1>1
  <2> QED  BY <2>1, <2>2 DEF Evaluate
<1> QED  BY <1>1, <1>9, <1>10

\* Off the domain the barycentric formula is Lagrange's.
LEMMA InterpolatesOffDomain ==
  ASSUME NEW b \in [Elements -> Field], NEW z \in Field,
         \A e \in Elements : EvaluationDomain[e] # z
  PROVE  Evaluate(b, z) = Interpolated(b, z)
<1>1. PICK n \in Field, in \in Field :
        n = BlobWidth /\ in = Inverted(n) /\ n \in Nat /\ Cong(n * in, 1)
  <2>1. BlobWidth \in Field /\ BlobWidth # 0 /\ BlobWidth \in Nat
    BY WidthDivides
  <2> QED  BY <2>1, InvertedIs
<1>2. PICK s \in Field, v \in Field : v = Power(z, n) /\ s = Less(v, 1) /\ Cong(s, v - 1)
  <2>1. z \in Nat
    BY FieldElement
  <2>2. Power(z, n) \in Field /\ 1 \in Field
    BY <1>1, <2>1, PowerField, FieldTyped
  <2> QED  BY <2>2, LessIs
<1>3. n \in Int /\ in \in Int /\ s \in Int /\ v \in Int /\ z \in Int /\ in \in Nat /\ s \in Nat
  BY FieldElement
<1>4. PICK c \in Nat : c = s * in
  BY <1>3
<1> DEFINE Term(e) == b[e] * EvaluationDomain[e] * Inverted(Less(z, EvaluationDomain[e]))
           h == [e \in Elements |-> Term(e)]
           f == LagrangeTerms(b, z)
<1>5. ASSUME NEW e \in Elements
      PROVE  h[e] \in Nat /\ f[e] \in Nat /\ Cong(f[e], h[e] * c)
  <2>1. PICK a \in Field : a = EvaluationDomain[e]
    BY RootsOfUnity
  <2>2. PICK d \in Field, id \in Field :
          d = Less(z, a) /\ id = Inverted(d) /\ Cong(d, z - a) /\ Cong(d * id, 1)
    <3>1. Less(z, a) \in Field /\ Cong(Less(z, a), z - a)
      BY LessIs
    <3>2. Less(z, a) # 0
      <4>1. SUFFICES ASSUME Less(z, a) = 0 PROVE FALSE
        OBVIOUS
      <4>2. PICK p \in Int : p = Modulus
        BY BlobAssumption
      <4>3. PICK x \in Int, y \in Int : x = z /\ y = a
        BY FieldElement
      <4>4. PICK k \in Int : 0 = x - y + k * p
        BY <3>1, <4>1, <4>2, <4>3 DEF Cong
      <4>5. y = x + k * p
        BY <4>4
      <4>6. Cong(a, z)
        BY <4>2, <4>3, <4>5 DEF Cong
      <4> QED  BY <2>1, <4>6, CongField
    <3> QED  BY <3>1, <3>2, InvertedIs
  <2>3. PICK o \in Field, u \in Field, iu \in Field :
          /\ o = Others(e, z) /\ u = Others(e, a) /\ iu = Inverted(u)
          /\ Cong(v, (z - a) * o + 1) /\ Cong(a * u, n) /\ Cong(u * iu, 1)
    BY <1>1, <1>2, <2>1, OthersQuotient, OthersInverted
  <2>4. PICK x \in Field : x = b[e]
    OBVIOUS
  <2>5. /\ a \in Int /\ d \in Int /\ id \in Int /\ o \in Int /\ u \in Int /\ iu \in Int /\ x \in Int
        /\ a \in Nat /\ id \in Nat /\ x \in Nat
    BY FieldElement
  <2>6. Cong(s, d * o)
    <3>1. PICK p \in Int : p = Modulus
      BY BlobAssumption
    <3>2. PICK k \in Int : s = v - 1 + k * p
      BY <1>2, <3>1 DEF Cong
    <3>3. PICK l \in Int : v = (z - a) * o + 1 + l * p
      BY <2>3, <3>1 DEF Cong
    <3>4. PICK m \in Int : d = z - a + m * p
      BY <2>2, <3>1 DEF Cong
    <3>5. PICK q \in Int : q = z - a
      BY <1>3, <2>5
    <3>6. PICK w \in Int : w = k + l - m * o
      BY <2>5
    <3>7. (q + m * p) * o = q * o + (m * o) * p
      BY <2>5
    <3>8. s = d * o + w * p
      <4>1. d * o = q * o + (m * o) * p
        BY <3>4, <3>5, <3>7
      <4>2. s = q * o + (k + l) * p
        BY <1>3, <2>5, <3>2, <3>3, <3>5
      <4>3. PICK i \in Int, j \in Int : i = q * o /\ j = m * o
        BY <2>5
      <4>4. (k + l - j) * p = (k + l) * p - j * p
        OBVIOUS
      <4> QED  BY <3>6, <4>1, <4>2, <4>3, <4>4
    <3> QED  BY <3>1, <3>8 DEF Cong
  <2>7. Cong(x * o * iu, (x * a * id) * (s * in))
    BY <1>1, <1>3, <2>2, <2>3, <2>5, <2>6, TermsAgree
  <2>8. h[e] = x * a * id /\ h[e] \in Nat
    <3>1. PICK y \in Nat : y = x * a
      BY <2>5
    <3>2. y * id \in Nat
      BY <2>5
    <3> QED  BY <2>1, <2>2, <2>4, <3>1, <3>2
  <2>9. f[e] \in Field /\ f[e] \in Nat /\ f[e] \in Int /\ Cong(f[e], x * o * iu) /\ x * o * iu \in Int
    <3>1. f[e] \in Field /\ Cong(f[e], x * o * iu) /\ x * o * iu \in Nat
      BY <2>1, <2>3, <2>4, LagrangeTerm
    <3> QED  BY <3>1, FieldElement
  <2>10. Cong(f[e], h[e] * c)
    <3>1. PICK y \in Nat : y = h[e]
      BY <2>8
    <3>2. y * c \in Int
      OBVIOUS
    <3>3. Cong(x * o * iu, y * c)
      BY <1>4, <2>7, <2>8, <3>1
    <3>4. Cong(f[e], y * c)
      BY <2>9, <3>2, <3>3, CongTrans
    <3> QED  BY <3>1, <3>4
  <2> QED  BY <2>8, <2>9, <2>10
<1>6. h \in [Elements -> Nat] /\ f \in [Elements -> Nat]
  <2>1. f \in [Elements -> Field]
    BY InterpolatedIs
  <2>2. h = [e \in Elements |-> h[e]]
    OBVIOUS
  <2> HIDE DEF h, f
  <2> QED  BY <1>5, <2>1, <2>2
<1>7. PICK x \in Nat, y \in Nat :
        /\ x = SumFunction(f) /\ y = SumFunction(h)
        /\ Cong(x, y * c)
  <2> HIDE DEF h, f
  <2>1. SumFunction(f) \in Nat /\ SumFunction(h) \in Nat
    BY <1>6, ElementsFinite, SumIsTotal
  <2>2. SumFunction(f) = SumFunctionOnSet(f, Elements) /\ SumFunction(h) = SumFunctionOnSet(h, Elements)
    BY <1>6, ElementsFinite, SumIsTotal
  <2>3. c \in Int
    OBVIOUS
  <2>4. Cong(SumFunctionOnSet(f, Elements), SumFunctionOnSet(h, Elements) * c)
    BY <1>5, <2>3, ElementsFinite, SumsAgree
  <2> QED  BY <2>1, <2>2, <2>4
<1>8. Interpolated(b, z) = x % Modulus
  BY <1>7, InterpolatedIs
<1>9. PICK r \in Field : r = y % Modulus /\ r \in Nat /\ Cong(r, y)
  BY CongMod, FieldElement
<1>10. Evaluate(b, z) = (r * s * in) % Modulus
  <2>1. Evaluate(b, z) = (Total(h) * Less(Power(z, BlobWidth), 1) * Inverted(BlobWidth)) % Modulus
    BY DEF Evaluate
  <2>2. Total(h) = r
    <3> HIDE DEF h
    <3> QED  BY <1>7, <1>9 DEF Total
  <2> HIDE DEF h
  <2> QED  BY <1>1, <1>2, <2>1, <2>2
<1>11. r * s * in = r * c /\ r * c \in Nat
  <2>1. (r * s) * in = r * (s * in)
    BY <1>3, <1>9
  <2> QED  BY <1>4, <1>9, <2>1
<1>12. Cong(r * c, x)
  <2>1. r \in Int /\ x \in Int /\ y \in Int /\ c \in Int /\ Cong(c, c)
    BY <1>9, CongRefl
  <2>2. Cong(r * c, y * c)
    BY <1>9, <2>1, CongOps
  <2>3. r * c \in Int /\ y * c \in Int
    BY <2>1
  <2>4. Cong(y * c, x)
    BY <1>7, <2>1, <2>3, CongSym
  <2> QED  BY <2>1, <2>2, <2>3, <2>4, CongTrans
<1>13. (r * c) % Modulus = x % Modulus
  <2>1. PICK i \in Field, j \in Field : i = (r * c) % Modulus /\ j = x % Modulus /\ Cong(i, r * c) /\ Cong(x, j)
    BY <1>11, CongMod
  <2>2. i \in Int /\ j \in Int /\ r * c \in Int /\ x \in Int
    BY <1>11, FieldElement
  <2>3. Cong(i, x)
    BY <1>12, <2>1, <2>2, CongTrans
  <2>4. Cong(i, j)
    BY <2>1, <2>2, <2>3, CongTrans
  <2> QED  BY <2>1, <2>4, CongField
<1> QED  BY <1>8, <1>10, <1>11, <1>13

LEMMA Interpolates ==
  ASSUME NEW b \in [Elements -> Field], NEW z \in Field
  PROVE  Evaluate(b, z) = Interpolated(b, z)
<1>1. CASE \E e \in Elements : EvaluationDomain[e] = z
  BY <1>1, InterpolatesOnDomain
<1>2. CASE \A e \in Elements : EvaluationDomain[e] # z
  BY <1>2, InterpolatesOffDomain
<1> QED  BY <1>1, <1>2

\* At the point, the contract, the circuit and the daemon evaluate a carried blob to the
\* value there of the polynomial through what it stores: the barycentric formula of
\* reference/src/lib.rs, and its case for points of the domain, are Lagrange's.
THEOREM EvaluationInterpolatesHolds == DataSpec => []EvaluationInterpolates
<1>1. ASSUME NEW b \in Blobs, NEW z \in Field PROVE Evaluations[b][z] = Interpolated(b, z)
  <2>1. b \in [Elements -> Field]
    BY DataPathAssumption
  <2>2. Evaluations[b] = [x \in Field |-> Evaluate(b, x)]
    BY DEF Evaluations
  <2>3. Evaluate(b, z) = Interpolated(b, z)
    BY <2>1, Interpolates
  <2> QED  BY <2>2, <2>3
<1>2. EvaluationInterpolates
  BY <1>1 DEF EvaluationInterpolates
<1> QED  BY <1>2, PTL

=============================================================================
