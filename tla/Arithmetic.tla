----------------------------- MODULE Arithmetic -----------------------------
(***************************************************************************)
(* What the proofs need of numbers: induction over finite sets and natural *)
(* numbers without an operator parameter; sums over a finite set, by which *)
(* the modules state what a ledger holds in total; division; and the       *)
(* powers of two.                                                          *)
(*                                                                         *)
(* The induction theorems of the library take the predicate as an          *)
(* operator, which the installed provers do not instantiate.  Here the     *)
(* predicate is the set of what satisfies it, and the induction rests on   *)
(* the library's theorem that strict inclusion is well-founded on the      *)
(* finite subsets of a set.                                                *)
(***************************************************************************)
EXTENDS Functions, FiniteSets, FiniteSetTheorems, FunctionTheorems, TLAPS

\* What holds of the empty set and is kept by adding an element holds of a finite set.
LEMMA SubsetInduction ==
  ASSUME NEW S, IsFiniteSet(S), NEW F, {} \in F,
         \A T \in SUBSET S : \A x \in S \ T : T \in F => T \cup {x} \in F
  PROVE  S \in F
<1> DEFINE R == StrictSubsetOrdering(S)
           Bad == {T \in SUBSET S : T \notin F}
<1>1. IsWellFoundedOn(R, FiniteSubsetsOf(S))
  BY FS_StrictSubsetOrderingWellFounded
<1>2. Bad \subseteq FiniteSubsetsOf(S)
  BY FS_FiniteSubsetsOfFinite
<1>3. SUFFICES ASSUME Bad # {} PROVE FALSE
  OBVIOUS
<1>4. PICK T \in Bad : \A U \in Bad : ~ (<<U, T>> \in R)
  <2> HIDE DEF R, Bad
  <2> QED  BY <1>1, <1>2, <1>3, WFMin
<1>5. PICK x \in T : TRUE
  OBVIOUS
<1>6. T \ {x} \notin Bad
  BY <1>4, <1>5 DEF StrictSubsetOrdering
<1>7. (T \ {x}) \cup {x} \in F
  BY <1>5, <1>6
<1>8. (T \ {x}) \cup {x} = T
  BY <1>5
<1> QED  BY <1>7, <1>8

\* What holds of zero and is kept by the successor holds of every natural number.
LEMMA NumberInduction ==
  ASSUME NEW F, 0 \in F, \A n \in Nat : n \in F => n + 1 \in F
  PROVE  Nat \subseteq F
<1> SUFFICES ASSUME NEW n \in Nat PROVE n \in F
  OBVIOUS
<1> DEFINE S == 1..n
           G == {T \in SUBSET S : Cardinality(T) \in F}
<1>1. IsFiniteSet(S) /\ Cardinality(S) = n
  BY FS_Interval
<1>2. {} \in G
  BY FS_EmptySet
<1>3. \A T \in SUBSET S : \A x \in S \ T : T \in G => T \cup {x} \in G
  <2> SUFFICES ASSUME NEW T \in SUBSET S, NEW x \in S \ T, T \in G
               PROVE  T \cup {x} \in G
    OBVIOUS
  <2>1. IsFiniteSet(T) /\ Cardinality(T) \in Nat
    BY <1>1, FS_Subset, FS_CardinalityType
  <2>2. Cardinality(T \cup {x}) = Cardinality(T) + 1
    BY <2>1, FS_AddElement
  <2> QED  BY <2>1, <2>2
<1>4. S \in G
  <2> HIDE DEF S, G
  <2> QED  BY <1>1, <1>2, <1>3, SubsetInduction
<1> QED  BY <1>1, <1>4

-----------------------------------------------------------------------------
(***************************************************************************)
(* The sum of f over every subset of S, element by element.                *)
(***************************************************************************)

Chosen(s) == CHOOSE x \in s : TRUE
Added(f, g, s) == IF s = {} THEN 0 ELSE f[Chosen(s)] + g[s \ {Chosen(s)}]
Folding(f, S, g) == g = [s \in SUBSET S |-> Added(f, g, s)]

LEMMA SumByFolding ==
  ASSUME NEW f, NEW S
  PROVE  SumFunctionOnSet(f, S) = (CHOOSE g : Folding(f, S, g))[S]
  BY DEF SumFunctionOnSet, FoldFunctionOnSet, MapThenFoldSet, Folding, Added, Chosen

LEMMA ChosenSmaller ==
  ASSUME NEW S, IsFiniteSet(S), NEW s \in SUBSET S, s # {}
  PROVE  /\ Chosen(s) \in s /\ s \ {Chosen(s)} \in SUBSET S
         /\ Cardinality(s) \in Nat
         /\ Cardinality(s \ {Chosen(s)}) = Cardinality(s) - 1
<1>1. Chosen(s) \in s
  BY DEF Chosen
<1>2. IsFiniteSet(s)
  BY FS_Subset
<1> QED  BY <1>1, <1>2, FS_RemoveElement, FS_CardinalityType

\* The recursion has a solution: one for the subsets of at most n elements, for any n.
LEMMA FoldingExists ==
  ASSUME NEW f, NEW S, IsFiniteSet(S)
  PROVE  \E g : Folding(f, S, g)
<1> DEFINE UpTo(g, n) == \A s \in SUBSET S : Cardinality(s) <= n => g[s] = Added(f, g, s)
           F == {n \in Nat : \E g : UpTo(g, n)}
<1>0. \A s \in SUBSET S : Cardinality(s) \in Nat /\ Cardinality(s) <= Cardinality(S)
  BY FS_Subset, FS_CardinalityType
<1>1. 0 \in F
  <2> DEFINE g == [s \in SUBSET S |-> 0]
  <2>1. \A s \in SUBSET S : Cardinality(s) <= 0 => s = {}
    BY <1>0, FS_EmptySet, FS_Subset
  <2>2. UpTo(g, 0)
    BY <2>1 DEF Added
  <2> QED  BY <2>2
<1>2. ASSUME NEW n \in Nat, n \in F PROVE n + 1 \in F
  <2>1. PICK g : UpTo(g, n)
    BY <1>2
  <2> DEFINE h == [s \in SUBSET S |-> Added(f, g, s)]
  <2>2. ASSUME NEW s \in SUBSET S, Cardinality(s) <= n + 1
        PROVE  h[s] = Added(f, h, s)
    <3>1. CASE s = {}
      BY <3>1 DEF Added
    <3>2. CASE s # {}
      <4> DEFINE r == s \ {Chosen(s)}
      <4>1. r \in SUBSET S /\ Cardinality(r) <= n
        BY <2>2, <3>2, ChosenSmaller
      <4>2. g[r] = Added(f, g, r)
        BY <2>1, <4>1
      <4>3. h[r] = g[r]
        BY <4>1, <4>2
      <4> QED  BY <3>2, <4>3 DEF Added
    <3> QED  BY <3>1, <3>2
  <2>3. UpTo(h, n + 1)
    BY <2>2
  <2> HIDE DEF h
  <2> QED  BY <2>3
<1>3. Cardinality(S) \in F
  <2>1. Nat \subseteq F
    <3> HIDE DEF F
    <3> QED  BY <1>1, <1>2, NumberInduction
  <2> QED  BY <1>0, <2>1
<1>4. PICK g : UpTo(g, Cardinality(S))
  BY <1>3
<1> DEFINE h == [s \in SUBSET S |-> Added(f, g, s)]
<1>5. \A s \in SUBSET S : h[s] = g[s]
  BY <1>0, <1>4
<1>6. ASSUME NEW s \in SUBSET S PROVE Added(f, g, s) = Added(f, h, s)
  BY <1>5, ChosenSmaller DEF Added
<1>7. Folding(f, S, h)
  BY <1>6 DEF Folding
<1> QED  BY <1>7

\* Two solutions agree wherever both are defined and they add the same values.
LEMMA FoldingUnique ==
  ASSUME NEW f, NEW S, NEW g, Folding(f, S, g),
         NEW e, NEW T, NEW h, Folding(e, T, h),
         NEW U, IsFiniteSet(U), U \subseteq S, U \subseteq T, \A x \in U : f[x] = e[x]
  PROVE  g[U] = h[U]
<1> DEFINE F == {n \in Nat : \A s \in SUBSET U : Cardinality(s) = n => g[s] = h[s]}
<1>1. \A s \in SUBSET U : g[s] = Added(f, g, s) /\ h[s] = Added(e, h, s)
  BY DEF Folding
<1>2. 0 \in F
  <2>1. \A s \in SUBSET U : Cardinality(s) = 0 => s = {}
    BY FS_EmptySet, FS_Subset
  <2> QED  BY <1>1, <2>1 DEF Added
<1>3. ASSUME NEW n \in Nat, n \in F PROVE n + 1 \in F
  <2> SUFFICES ASSUME NEW s \in SUBSET U, Cardinality(s) = n + 1 PROVE g[s] = h[s]
    OBVIOUS
  <2>1. s # {}
    BY FS_EmptySet
  <2>2. /\ s \ {Chosen(s)} \in SUBSET U /\ Cardinality(s \ {Chosen(s)}) = n
        /\ Chosen(s) \in U
    BY <2>1, ChosenSmaller
  <2>3. g[s \ {Chosen(s)}] = h[s \ {Chosen(s)}]
    BY <1>3, <2>2
  <2> QED  BY <1>1, <2>1, <2>2, <2>3 DEF Added
<1>4. Nat \subseteq F
  <2> HIDE DEF F
  <2> QED  BY <1>2, <1>3, NumberInduction
<1> QED  BY <1>4, FS_CardinalityType

LEMMA SumIsFolding ==
  ASSUME NEW f, NEW S, IsFiniteSet(S), NEW e, NEW T, NEW g, Folding(e, T, g), S \subseteq T,
         \A x \in S : f[x] = e[x]
  PROVE  SumFunctionOnSet(f, S) = g[S]
<1>1. PICK h : h = (CHOOSE k : Folding(f, S, k))
  OBVIOUS
<1>2. Folding(f, S, h)
  BY <1>1, FoldingExists
<1>3. SumFunctionOnSet(f, S) = h[S]
  BY <1>1, SumByFolding
<1>4. h[S] = g[S]
  BY <1>2, FoldingUnique
<1> QED  BY <1>3, <1>4

-----------------------------------------------------------------------------
(***************************************************************************)
(* What the proofs about ledgers use.                                      *)
(***************************************************************************)

LEMMA SumEmpty ==
  ASSUME NEW f PROVE SumFunctionOnSet(f, {}) = 0
<1>1. PICK g : Folding(f, {}, g)
  BY FoldingExists, FS_EmptySet
<1>2. SumFunctionOnSet(f, {}) = g[{}]
  BY <1>1, SumIsFolding, FS_EmptySet
<1> QED  BY <1>1, <1>2 DEF Folding, Added

LEMMA SumAgrees ==
  ASSUME NEW S, IsFiniteSet(S), NEW f, NEW e, \A x \in S : f[x] = e[x]
  PROVE  SumFunctionOnSet(f, S) = SumFunctionOnSet(e, S)
<1>1. PICK g : Folding(e, S, g)
  BY FoldingExists
<1> QED  BY <1>1, SumIsFolding

LEMMA SumChosen ==
  ASSUME NEW S, IsFiniteSet(S), S # {}, NEW f
  PROVE  SumFunctionOnSet(f, S)
           = f[Chosen(S)] + SumFunctionOnSet(f, S \ {Chosen(S)})
<1>1. PICK g : Folding(f, S, g)
  BY FoldingExists
<1>2. SumFunctionOnSet(f, S) = g[S]
  BY <1>1, SumIsFolding
<1>3. SumFunctionOnSet(f, S \ {Chosen(S)}) = g[S \ {Chosen(S)}]
  BY <1>1, SumIsFolding, FS_RemoveElement
<1>4. g[S] = Added(f, g, S)
  BY <1>1 DEF Folding
<1> QED  BY <1>2, <1>3, <1>4 DEF Added

LEMMA SumNat ==
  ASSUME NEW S, IsFiniteSet(S), NEW f, \A x \in S : f[x] \in Nat
  PROVE  SumFunctionOnSet(f, S) \in Nat
<1> DEFINE F == {n \in Nat : \A s \in SUBSET S : Cardinality(s) = n =>
                                SumFunctionOnSet(f, s) \in Nat}
<1>1. 0 \in F
  <2>1. \A s \in SUBSET S : Cardinality(s) = 0 => s = {}
    BY FS_EmptySet, FS_Subset
  <2> QED  BY <2>1, SumEmpty
<1>2. ASSUME NEW n \in Nat, n \in F PROVE n + 1 \in F
  <2> SUFFICES ASSUME NEW s \in SUBSET S, Cardinality(s) = n + 1
               PROVE  SumFunctionOnSet(f, s) \in Nat
    OBVIOUS
  <2>1. s # {} /\ IsFiniteSet(s)
    BY FS_EmptySet, FS_Subset
  <2>2. /\ s \ {Chosen(s)} \in SUBSET S /\ Cardinality(s \ {Chosen(s)}) = n
        /\ Chosen(s) \in S
    BY <2>1, ChosenSmaller
  <2>3. SumFunctionOnSet(f, s \ {Chosen(s)}) \in Nat
    BY <1>2, <2>2
  <2>4. SumFunctionOnSet(f, s) = f[Chosen(s)] + SumFunctionOnSet(f, s \ {Chosen(s)})
    BY <2>1, SumChosen
  <2>5. f[Chosen(s)] \in Nat
    BY <2>2
  <2> QED  BY <2>3, <2>4, <2>5
<1>3. Nat \subseteq F
  <2> HIDE DEF F
  <2> QED  BY <1>1, <1>2, NumberInduction
<1> QED  BY <1>3, FS_CardinalityType

\* Any element may be counted first.
LEMMA SumSplit ==
  ASSUME NEW S, IsFiniteSet(S), NEW f, \A y \in S : f[y] \in Nat, NEW x \in S
  PROVE  /\ SumFunctionOnSet(f, S) = f[x] + SumFunctionOnSet(f, S \ {x})
         /\ SumFunctionOnSet(f, S \ {x}) \in Nat
<1> DEFINE Sum(s) == SumFunctionOnSet(f, s)
           F == {n \in Nat : \A s \in SUBSET S : Cardinality(s) = n =>
                                \A y \in s : Sum(s) = f[y] + Sum(s \ {y})}
<1>1. 0 \in F
  <2>1. \A s \in SUBSET S : Cardinality(s) = 0 => s = {}
    BY FS_EmptySet, FS_Subset
  <2> QED  BY <2>1
<1>2. ASSUME NEW n \in Nat, n \in F PROVE n + 1 \in F
  <2> SUFFICES ASSUME NEW s \in SUBSET S, Cardinality(s) = n + 1, NEW y \in s
               PROVE  Sum(s) = f[y] + Sum(s \ {y})
    OBVIOUS
  <2> DEFINE c == Chosen(s)
  <2>1. s # {} /\ IsFiniteSet(s)
    BY FS_EmptySet, FS_Subset
  <2>2. c \in s /\ s \ {c} \in SUBSET S /\ Cardinality(s \ {c}) = n
    BY <2>1, ChosenSmaller
  <2>3. Sum(s) = f[c] + Sum(s \ {c})
    BY <2>1, SumChosen
  <2>4. CASE y = c
    BY <2>3, <2>4
  <2>5. CASE y # c
    <3>1. s \ {y} \in SUBSET S /\ Cardinality(s \ {y}) = n
      <4>1. Cardinality(s \ {y}) = Cardinality(s) - 1
        BY <2>1, FS_RemoveElement
      <4> QED  BY <4>1
    <3>2. Sum(s \ {c}) = f[y] + Sum((s \ {c}) \ {y})
      <4>1. y \in s \ {c}
        BY <2>5
      <4> QED  BY <1>2, <2>2, <4>1
    <3>3. Sum(s \ {y}) = f[c] + Sum((s \ {y}) \ {c})
      <4>1. c \in s \ {y}
        BY <2>2, <2>5
      <4> QED  BY <1>2, <3>1, <4>1
    <3>4. (s \ {y}) \ {c} = (s \ {c}) \ {y}
      OBVIOUS
    <3>5. Sum((s \ {c}) \ {y}) \in Nat /\ f[c] \in Nat /\ f[y] \in Nat
      <4>1. IsFiniteSet((s \ {c}) \ {y}) /\ \A z \in (s \ {c}) \ {y} : f[z] \in Nat
        BY <2>1, FS_RemoveElement
      <4> QED  BY <2>2, <4>1, SumNat
    <3> HIDE DEF Sum, c
    <3> QED  BY <2>3, <3>2, <3>3, <3>4, <3>5
  <2> QED  BY <2>4, <2>5
<1>3. Nat \subseteq F
  <2> HIDE DEF F
  <2> QED  BY <1>1, <1>2, NumberInduction
<1>4. Sum(S) = f[x] + Sum(S \ {x})
  BY <1>3, FS_CardinalityType
<1>5. Sum(S \ {x}) \in Nat
  BY SumNat, FS_RemoveElement
<1> QED  BY <1>4, <1>5

\* Adding an element adds its value.
LEMMA SumAdd ==
  ASSUME NEW S, IsFiniteSet(S), NEW x, x \notin S, NEW f, \A y \in S \cup {x} : f[y] \in Nat
  PROVE  SumFunctionOnSet(f, S \cup {x}) = f[x] + SumFunctionOnSet(f, S)
<1>1. IsFiniteSet(S \cup {x}) /\ x \in S \cup {x} /\ (S \cup {x}) \ {x} = S
  BY FS_AddElement
<1> QED  BY <1>1, SumSplit

\* Changing one entry changes the total by as much; no entry is more than the total.
LEMMA TotalOfUpdate ==
  ASSUME NEW S, IsFiniteSet(S), NEW f \in [S -> Nat], NEW x \in S, NEW v \in Nat
  PROVE  /\ SumFunction([f EXCEPT ![x] = v]) = SumFunction(f) - f[x] + v
         /\ SumFunction(f) \in Nat /\ f[x] <= SumFunction(f)
<1> DEFINE e == [f EXCEPT ![x] = v]
<1>1. e \in [S -> Nat] /\ e[x] = v /\ \A y \in S \ {x} : e[y] = f[y]
  OBVIOUS
<1>2. SumFunction(f) = SumFunctionOnSet(f, S) /\ SumFunction(e) = SumFunctionOnSet(e, S)
  BY <1>1 DEF SumFunction
<1>3. /\ SumFunctionOnSet(f, S) = f[x] + SumFunctionOnSet(f, S \ {x})
      /\ SumFunctionOnSet(f, S \ {x}) \in Nat
  BY SumSplit
<1>4. SumFunctionOnSet(e, S) = e[x] + SumFunctionOnSet(e, S \ {x})
  <2> HIDE DEF e
  <2> QED  BY <1>1, SumSplit
<1>5. SumFunctionOnSet(e, S \ {x}) = SumFunctionOnSet(f, S \ {x})
  <2> HIDE DEF e
  <2> QED  BY <1>1, SumAgrees, FS_RemoveElement
<1>6. f[x] \in Nat
  OBVIOUS
<1> HIDE DEF e
<1> QED  BY <1>1, <1>2, <1>3, <1>4, <1>5, <1>6 DEF e

\* Two different entries together are no more than the total.
LEMMA TotalOfTwo ==
  ASSUME NEW S, IsFiniteSet(S), NEW f \in [S -> Nat], NEW x \in S, NEW y \in S, x # y
  PROVE  f[x] + f[y] <= SumFunction(f)
<1>1. SumFunction(f) = SumFunctionOnSet(f, S)
  BY DEF SumFunction
<1>2. SumFunctionOnSet(f, S) = f[x] + SumFunctionOnSet(f, S \ {x})
  BY SumSplit
<1>3. /\ SumFunctionOnSet(f, S \ {x}) = f[y] + SumFunctionOnSet(f, (S \ {x}) \ {y})
      /\ SumFunctionOnSet(f, (S \ {x}) \ {y}) \in Nat
  <2>1. IsFiniteSet(S \ {x}) /\ y \in S \ {x}
    BY FS_RemoveElement
  <2> QED  BY <2>1, SumSplit
<1>4. f[x] \in Nat /\ f[y] \in Nat
  OBVIOUS
<1> QED  BY <1>1, <1>2, <1>3, <1>4

\* A ledger without entries.
LEMMA TotalOfZeros ==
  ASSUME NEW S, IsFiniteSet(S)
  PROVE  SumFunction([x \in S |-> 0]) = 0
<1> DEFINE f == [x \in S |-> 0]
           F == {T \in SUBSET S : SumFunctionOnSet(f, T) = 0}
<1>1. {} \in F
  BY SumEmpty
<1>2. ASSUME NEW T \in SUBSET S, NEW x \in S \ T, T \in F PROVE T \cup {x} \in F
  <2>1. IsFiniteSet(T) /\ (\A y \in T \cup {x} : f[y] \in Nat) /\ f[x] = 0
    BY FS_Subset
  <2>2. SumFunctionOnSet(f, T \cup {x}) = f[x] + SumFunctionOnSet(f, T)
    <3> HIDE DEF f
    <3> QED  BY <2>1, SumAdd
  <2> QED  BY <1>2, <2>1, <2>2
<1>3. S \in F
  <2> HIDE DEF F
  <2> QED  BY <1>1, <1>2, SubsetInduction
<1> QED  BY <1>3 DEF SumFunction

-----------------------------------------------------------------------------
(***************************************************************************)
(* Division.                                                               *)
(***************************************************************************)

LEMMA Division ==
  ASSUME NEW a \in Nat, NEW w \in Nat \ {0}
  PROVE  /\ a \div w \in Nat /\ a % w \in 0..w - 1 /\ (a \div w) * w \in Nat
         /\ a = (a \div w) * w + (a % w)
  OBVIOUS

\* Multiples of w with a quotient that is larger are larger by w.
LEMMA MultiplesApart ==
  ASSUME NEW q \in Nat, NEW r \in Nat, NEW w \in Nat, q < r
  PROVE  q * w \in Nat /\ r * w \in Nat /\ q * w + w <= r * w
<1>1. PICK d \in Nat : r = q + 1 + d
  <2>1. r - q - 1 \in Nat /\ r = q + 1 + (r - q - 1)
    OBVIOUS
  <2> QED  BY <2>1
<1>2. r * w = q * w + w + d * w /\ d * w \in Nat /\ q * w \in Nat /\ r * w \in Nat
  BY <1>1
<1> QED  BY <1>2

\* There is one way to divide.
LEMMA DivisionUnique ==
  ASSUME NEW w \in Nat \ {0}, NEW q \in Nat, NEW r \in 0..w - 1
  PROVE  (q * w + r) \div w = q /\ (q * w + r) % w = r
<1> DEFINE a == q * w + r
           s == a \div w
           t == a % w
<1>1. a \in Nat /\ q * w \in Nat
  OBVIOUS
<1>2. a = q * w + r
  OBVIOUS
<1> HIDE DEF a
<1>3. s \in Nat /\ t \in 0..w - 1 /\ s * w \in Nat /\ a = s * w + t
  BY <1>1, Division
<1> HIDE DEF s, t
<1>4. ~(s < q)
  BY <1>1, <1>2, <1>3, MultiplesApart
<1>5. ~(q < s)
  BY <1>1, <1>2, <1>3, MultiplesApart
<1>6. s = q
  BY <1>3, <1>4, <1>5
<1>7. t = r
  BY <1>1, <1>2, <1>3, <1>6
<1> QED  BY <1>6, <1>7 DEF a, s, t

\* A remainder may be taken at every step.
LEMMA RemainderAbsorbs ==
  ASSUME NEW v \in Nat, NEW b \in Nat, NEW d \in Nat, NEW n \in Nat \ {0}
  PROVE  ((v % n) * b + d) % n = (v * b + d) % n
<1>1. PICK q \in Nat, r \in 0..n - 1 : v = q * n + r /\ q * n \in Nat /\ v % n = r
  BY Division
<1>2. PICK x \in Nat : x = r * b + d
  BY <1>1
<1>3. PICK s \in Nat, t \in 0..n - 1 : x = s * n + t /\ s * n \in Nat /\ x % n = t
  BY <1>2, Division
<1>4. v * b + d = (q * b + s) * n + t /\ q * b + s \in Nat
  <2>1. (q * n + r) * b = (q * b) * n + r * b /\ q * b \in Nat /\ r * b \in Nat
    BY <1>1
  <2>2. (q * b + s) * n = (q * b) * n + s * n
    BY <1>3, <2>1
  <2>3. (q * b) * n \in Nat
    BY <2>1
  <2> QED  BY <1>1, <1>2, <1>3, <2>1, <2>2, <2>3
<1>5. ((q * b + s) * n + t) % n = t
  BY <1>3, <1>4, DivisionUnique
<1> QED  BY <1>1, <1>2, <1>3, <1>4, <1>5

-----------------------------------------------------------------------------
(***************************************************************************)
(* Powers of two.                                                          *)
(***************************************************************************)

\* A power of two is the number of subsets.
LEMMA PowerOfTwo ==
  ASSUME NEW h \in Nat
  PROVE  2^h \in Nat \ {0} /\ 2^(h + 1) = 2^h + 2^h
<1> DEFINE S == 1..h
           A == SUBSET S
           f == [T \in A |-> T \cup {h + 1}]
           B == {T \cup {h + 1} : T \in A}
<1>1. IsFiniteSet(S) /\ Cardinality(S) = h
  BY FS_Interval
<1>2. IsFiniteSet(A) /\ Cardinality(A) = 2^h /\ Cardinality(A) \in Nat
  BY <1>1, FS_SUBSET, FS_CardinalityType
<1>3. IsFiniteSet(B) /\ Cardinality(B) = Cardinality(A)
  <2>1. f \in Bijection(A, B)
    <3>1. f \in Surjection(A, B)
      BY DEF Surjection
    <3>2. \A T, U \in A : f[T] = f[U] => T = U
      <4> SUFFICES ASSUME NEW T \in A, NEW U \in A, f[T] = f[U] PROVE T = U
        OBVIOUS
      <4>1. h + 1 \notin T /\ h + 1 \notin U
        OBVIOUS
      <4> QED  BY <4>1
    <3> QED  BY <3>1, <3>2, Fun_IsBij DEF Surjection
  <2> HIDE DEF f, A, B
  <2> QED  BY <1>2, <2>1, FS_Bijection DEF ExistsBijection
<1>4. A \cup B = SUBSET (1..h + 1) /\ A \cap B = {}
  <2>1. 1..h + 1 = S \cup {h + 1} /\ h + 1 \notin S
    OBVIOUS
  <2>2. ASSUME NEW T \in SUBSET (1..h + 1), T \notin A PROVE T \in B
    <3>1. h + 1 \in T
      BY <2>1, <2>2
    <3>2. T \ {h + 1} \in A /\ T = (T \ {h + 1}) \cup {h + 1}
      BY <2>1, <3>1
    <3> QED  BY <3>2
  <2>3. \A T \in B : h + 1 \in T
    OBVIOUS
  <2>4. A \subseteq SUBSET (1..h + 1) /\ B \subseteq SUBSET (1..h + 1)
    BY <2>1
  <2> QED  BY <2>1, <2>2, <2>3, <2>4
<1>5. Cardinality(A \cup B) = Cardinality(A) + Cardinality(B) - Cardinality(A \cap B)
  <2> HIDE DEF A, B
  <2> QED  BY <1>2, <1>3, FS_Union
<1>6. Cardinality(A \cup B) = 2^(h + 1)
  <2>1. IsFiniteSet(1..h + 1) /\ Cardinality(1..h + 1) = h + 1
    <3>1. h + 1 \in Nat /\ 1 \in Int
      OBVIOUS
    <3> QED  BY <3>1, FS_Interval
  <2> QED  BY <1>4, <2>1, FS_SUBSET
<1>7. A # {}
  OBVIOUS
<1>8. Cardinality(A) # 0 /\ Cardinality(A \cap B) = 0
  BY <1>2, <1>4, <1>7, FS_EmptySet
<1> QED  BY <1>2, <1>3, <1>5, <1>6, <1>8

LEMMA PowerZero == 2^0 = 1
OBVIOUS

=============================================================================
