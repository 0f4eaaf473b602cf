------------------------------- MODULE SumFacts -------------------------------
(***************************************************************************)
(* What the proofs of the other modules need of numbers and sums and the   *)
(* library does not state without an operator for a parameter: induction   *)
(* over the naturals and over finite sets, with a set in the place of a    *)
(* predicate, and the facts of SumFunctionOnSet derived by it; that finite *)
(* sets can be listed in a strict order; and what a rounded fraction is.   *)
(***************************************************************************)
EXTENDS Rounding, FiniteSetsExt, FiniteSetTheorems, TLAPS

LEMMA NaturalsAreOrdered ==
  \E R : IsWellFoundedOn(R, Nat) /\ \A x, y \in Nat : y < x => <<y, x>> \in R
<1> DEFINE R == OpToRel(<, Nat)
<1>1. IsWellFoundedOn(R, Nat)
  BY NatLessThanWellFounded
<1>2. \A x, y \in Nat : y < x => <<y, x>> \in R
  BY DEF OpToRel
<1> HIDE DEF R
<1> QED BY <1>1, <1>2

\* A set of naturals that is not empty has a least member.
LEMMA LeastOfNaturals ==
  ASSUME NEW S, S \subseteq Nat, S # {}
  PROVE  \E x \in S : \A y \in S : x <= y
<1>1. PICK R : IsWellFoundedOn(R, Nat) /\ \A x, y \in Nat : y < x => <<y, x>> \in R
  BY NaturalsAreOrdered
<1>2. PICK x \in S : \A y \in S : <<y, x>> \notin R
  BY <1>1, WFMin
<1>3. \A y \in S : ~(y < x)
  BY <1>1, <1>2
<1> QED BY <1>3

\* A set that has 0, and with every number the next, has them all.
LEMMA NaturalsByInduction ==
  ASSUME NEW S, 0 \in S, \A n \in Nat : n \in S => n + 1 \in S
  PROVE  \A n \in Nat : n \in S
<1> SUFFICES ASSUME NEW m \in Nat, m \notin S PROVE FALSE
  OBVIOUS
<1> DEFINE T == {n \in Nat : n \notin S}
<1>1. T \subseteq Nat /\ T # {}
  OBVIOUS
<1>2. PICK x \in T : \A y \in T : x <= y
  BY <1>1, LeastOfNaturals
<1>3. x # 0 /\ x - 1 \in Nat /\ x - 1 \notin T
  BY <1>2
<1>4. x \in S
  BY <1>3
<1> QED BY <1>2, <1>4

\* A set of numbers up to n that is not empty has a greatest member.
LEMMA GreatestUpTo ==
  ASSUME NEW n \in Nat, NEW S, S \subseteq 0 .. n, S # {}
  PROVE  \E x \in S : \A y \in S : y <= x
<1> DEFINE T == {k \in 0 .. n : n - k \in S}
<1>1. T \subseteq Nat
  OBVIOUS
<1>2. T # {}
  <2>1. PICK x \in S : TRUE
    OBVIOUS
  <2>2. n - x \in 0 .. n /\ n - (n - x) = x
    BY <2>1
  <2> QED BY <2>1, <2>2
<1>3. PICK k \in T : \A l \in T : k <= l
  BY <1>1, <1>2, LeastOfNaturals
<1>4. n - k \in S
  BY <1>3
<1>5. ASSUME NEW y \in S PROVE y <= n - k
  <2>1. n - y \in 0 .. n /\ n - (n - y) = y /\ y \in Int
    BY <1>5
  <2>2. n - y \in T
    BY <2>1, <1>5
  <2>3. k <= n - y /\ k \in Int
    BY <1>3, <2>2
  <2> QED BY <2>1, <2>3
<1> QED BY <1>4, <1>5
-----------------------------------------------------------------------------
Some(s) == CHOOSE x \in s : TRUE

\* h is the fold of f over the subsets of S.
SumsUp(f, S, h) == h = [s \in SUBSET S |-> IF s = {} THEN 0 ELSE f[Some(s)] + h[s \ {Some(s)}]]

\* The subsets of S of at most n elements.
UpTo(S, n) == {s \in SUBSET S : Cardinality(s) <= n}

LEMMA OneFewer ==
  ASSUME NEW S, IsFiniteSet(S), NEW s \in SUBSET S, s # {}
  PROVE  /\ Some(s) \in s /\ s \ {Some(s)} \in SUBSET S
         /\ IsFiniteSet(s) /\ Cardinality(s) \in Nat \ {0}
         /\ Cardinality(s \ {Some(s)}) = Cardinality(s) - 1
<1>1. Some(s) \in s
  BY DEF Some
<1>2. IsFiniteSet(s)
  BY FS_Subset
<1>3. Cardinality(s \ {Some(s)}) = Cardinality(s) - 1
  BY <1>1, <1>2, FS_RemoveElement
<1>4. Cardinality(s) \in Nat /\ Cardinality(s) # 0
  BY <1>2, FS_CardinalityType, FS_EmptySet
<1> QED BY <1>1, <1>2, <1>3, <1>4

\* There is such a fold.
LEMMA FoldExists ==
  ASSUME NEW S, IsFiniteSet(S), NEW f
  PROVE  \E h : SumsUp(f, S, h)
<1> DEFINE Part(h, n) == h = [s \in UpTo(S, n) |-> IF s = {} THEN 0 ELSE f[Some(s)] + h[s \ {Some(s)}]]
<1> DEFINE N == {n \in Nat : \E h : Part(h, n)}
<1>1. 0 \in N
  <2>1. UpTo(S, 0) = {{}}
    <3>1. ASSUME NEW s \in SUBSET S, s # {} PROVE ~(Cardinality(s) <= 0)
      <4>1. Cardinality(s) \in Nat \ {0}
        BY <3>1, OneFewer
      <4> QED BY <4>1
    <3>2. Cardinality({}) = 0
      BY FS_EmptySet
    <3> QED BY <3>1, <3>2 DEF UpTo
  <2> DEFINE h == [s \in {{}} |-> 0]
  <2>2. Part(h, 0)
    BY <2>1
  <2> QED BY <2>2
<1>2. ASSUME NEW n \in Nat, n \in N PROVE n + 1 \in N
  <2>1. PICK h : Part(h, n)
    BY <1>2
  <2> DEFINE g == [s \in UpTo(S, n + 1) |-> IF s = {} THEN 0 ELSE f[Some(s)] + h[s \ {Some(s)}]]
  <2>2. ASSUME NEW s \in UpTo(S, n + 1), s # {}
        PROVE  g[s \ {Some(s)}] = h[s \ {Some(s)}]
    <3> DEFINE r == s \ {Some(s)}
    <3>1. r \in UpTo(S, n) /\ r \in UpTo(S, n + 1)
      BY <2>2, OneFewer DEF UpTo
    <3>2. h[r] = IF r = {} THEN 0 ELSE f[Some(r)] + h[r \ {Some(r)}]
      BY <2>1, <3>1
    <3>3. g[r] = IF r = {} THEN 0 ELSE f[Some(r)] + h[r \ {Some(r)}]
      BY <3>1
    <3> QED BY <3>2, <3>3
  <2>3. g = [s \in UpTo(S, n + 1) |-> IF s = {} THEN 0 ELSE f[Some(s)] + g[s \ {Some(s)}]]
    <3> HIDE DEF g
    <3>1. g = [s \in UpTo(S, n + 1) |-> IF s = {} THEN 0 ELSE f[Some(s)] + h[s \ {Some(s)}]]
      BY DEF g
    <3> QED BY <2>2, <3>1
  <2> HIDE DEF g
  <2> QED BY <2>3
<1>3. \A n \in Nat : n \in N
  <2> HIDE DEF N
  <2> QED BY <1>1, <1>2, NaturalsByInduction
<1>4. Cardinality(S) \in Nat /\ UpTo(S, Cardinality(S)) = SUBSET S
  <2>1. Cardinality(S) \in Nat
    BY FS_CardinalityType
  <2>2. \A s \in SUBSET S : Cardinality(s) <= Cardinality(S)
    BY FS_Subset
  <2> QED BY <2>1, <2>2 DEF UpTo
<1> QED BY <1>3, <1>4 DEF SumsUp

\* SumFunctionOnSet is the value of such a fold.
LEMMA SumIsFold ==
  ASSUME NEW S, IsFiniteSet(S), NEW f
  PROVE  \E h : SumsUp(f, S, h) /\ SumFunctionOnSet(f, S) = h[S]
<1> DEFINE h == CHOOSE iter : iter = [s \in SUBSET S |-> IF s = {} THEN 0 ELSE f[CHOOSE x \in s : TRUE] + iter[s \ {CHOOSE x \in s : TRUE}]]
<1>1. \E iter : iter = [s \in SUBSET S |-> IF s = {} THEN 0 ELSE f[CHOOSE x \in s : TRUE] + iter[s \ {CHOOSE x \in s : TRUE}]]
  <2>1. PICK g : SumsUp(f, S, g)
    BY FoldExists
  <2> QED BY <2>1, Zenon DEF SumsUp, Some
<1>2. h = [s \in SUBSET S |-> IF s = {} THEN 0 ELSE f[CHOOSE x \in s : TRUE] + h[s \ {CHOOSE x \in s : TRUE}]]
  BY <1>1
<1>3. SumFunctionOnSet(f, S) = h[S]
  BY DEF SumFunctionOnSet, FoldFunctionOnSet, MapThenFoldSet
<1> QED BY <1>2, <1>3 DEF SumsUp, Some

\* A set of subsets of S has all of them when it has every one whose subsets with an
\* element less it has.
LEMMA SetsByInduction ==
  ASSUME NEW S, IsFiniteSet(S), NEW C,
         \A s \in SUBSET S : (\A x \in s : s \ {x} \in C) => s \in C
  PROVE  \A s \in SUBSET S : s \in C
<1> DEFINE N == {n \in Nat : \A s \in UpTo(S, n) : s \in C}
<1>1. \A s \in SUBSET S : Cardinality(s) \in Nat /\ IsFiniteSet(s)
  BY FS_Subset, FS_CardinalityType
<1>2. 0 \in N
  <2> SUFFICES ASSUME NEW s \in UpTo(S, 0) PROVE s \in C
    OBVIOUS
  <2>1. s \in SUBSET S /\ s = {}
    BY <1>1, FS_EmptySet DEF UpTo
  <2> QED BY <2>1
<1>3. ASSUME NEW n \in Nat, n \in N PROVE n + 1 \in N
  <2> SUFFICES ASSUME NEW s \in UpTo(S, n + 1) PROVE s \in C
    OBVIOUS
  <2>1. ASSUME NEW x \in s PROVE s \ {x} \in UpTo(S, n)
    <3>1. s \ {x} \in SUBSET S /\ Cardinality(s \ {x}) = Cardinality(s) - 1
      BY <1>1, FS_RemoveElement DEF UpTo
    <3> QED BY <1>1, <3>1 DEF UpTo
  <2> QED BY <1>3, <2>1 DEF UpTo
<1>4. \A n \in Nat : n \in N
  <2> HIDE DEF N
  <2> QED BY <1>2, <1>3, NaturalsByInduction
<1> QED BY <1>1, <1>4 DEF UpTo

\* Two folds of f agree where both are defined.
LEMMA FoldsAgree ==
  ASSUME NEW S, IsFiniteSet(S), NEW T \in SUBSET S, NEW f, NEW h, NEW g,
         SumsUp(f, S, h), SumsUp(f, T, g)
  PROVE  \A s \in SUBSET T : h[s] = g[s]
<1> DEFINE C == {s \in SUBSET T : h[s] = g[s]}
<1>1. IsFiniteSet(T)
  BY FS_Subset
<1>2. ASSUME NEW s \in SUBSET T, \A x \in s : s \ {x} \in C PROVE s \in C
  <2>1. CASE s = {}
    BY <2>1 DEF SumsUp
  <2>2. CASE s # {}
    <3>1. Some(s) \in s
      BY <1>1, <2>2, OneFewer
    <3>2. h[s \ {Some(s)}] = g[s \ {Some(s)}]
      BY <1>2, <3>1
    <3>3. h[s] = f[Some(s)] + h[s \ {Some(s)}] /\ g[s] = f[Some(s)] + g[s \ {Some(s)}]
      BY <2>2 DEF SumsUp
    <3> QED BY <3>2, <3>3
  <2> QED BY <2>1, <2>2
<1>3. \A s \in SUBSET T : s \in C
  <2> HIDE DEF C
  <2> QED BY <1>1, <1>2, SetsByInduction
<1> QED BY <1>3

\* A sum, an element less at a time.
LEMMA SumStep ==
  ASSUME NEW S, IsFiniteSet(S), NEW f
  PROVE  /\ S = {} => SumFunctionOnSet(f, S) = 0
         /\ S # {} => SumFunctionOnSet(f, S) = f[Some(S)] + SumFunctionOnSet(f, S \ {Some(S)})
<1>1. PICK h : SumsUp(f, S, h) /\ SumFunctionOnSet(f, S) = h[S]
  BY SumIsFold
<1>2. CASE S = {}
  BY <1>1, <1>2 DEF SumsUp
<1>3. CASE S # {}
  <2> DEFINE T == S \ {Some(S)}
  <2>1. T \in SUBSET S /\ IsFiniteSet(T)
    BY FS_Subset
  <2>2. PICK g : SumsUp(f, T, g) /\ SumFunctionOnSet(f, T) = g[T]
    BY <2>1, SumIsFold
  <2>3. h[T] = g[T]
    BY <1>1, <2>1, <2>2, FoldsAgree
  <2>4. h[S] = f[Some(S)] + h[T]
    BY <1>1, <1>3 DEF SumsUp
  <2> QED BY <1>1, <1>3, <2>2, <2>3, <2>4
<1> QED BY <1>2, <1>3

LEMMA SumOfNone == ASSUME NEW f PROVE SumFunctionOnSet(f, {}) = 0
BY SumStep, FS_EmptySet

\* Sums of integers are integers, of naturals naturals.
LEMMA SumType ==
  ASSUME NEW S, IsFiniteSet(S), NEW f, NEW Num \in {Nat, Int}, \A x \in S : f[x] \in Num
  PROVE  \A s \in SUBSET S : SumFunctionOnSet(f, s) \in Num
<1> DEFINE C == {s \in SUBSET S : SumFunctionOnSet(f, s) \in Num}
<1>1. ASSUME NEW s \in SUBSET S, \A x \in s : s \ {x} \in C PROVE s \in C
  <2>1. IsFiniteSet(s)
    BY FS_Subset
  <2>2. CASE s = {}
    BY <2>1, <2>2, SumStep
  <2>3. CASE s # {}
    <3>1. Some(s) \in s
      BY <2>3, OneFewer
    <3>2. SumFunctionOnSet(f, s \ {Some(s)}) \in Num /\ f[Some(s)] \in Num
      BY <1>1, <3>1
    <3>3. SumFunctionOnSet(f, s) = f[Some(s)] + SumFunctionOnSet(f, s \ {Some(s)})
      BY <2>1, <2>3, SumStep
    <3> QED BY <3>2, <3>3
  <2> QED BY <2>2, <2>3
<1>2. \A s \in SUBSET S : s \in C
  <2> HIDE DEF C
  <2> QED BY <1>1, SetsByInduction
<1> QED BY <1>2

\* It does not matter which element is added last.
LEMMA SumWithout ==
  ASSUME NEW S, IsFiniteSet(S), NEW f, \A x \in S : f[x] \in Int, NEW x \in S
  PROVE  SumFunctionOnSet(f, S) = f[x] + SumFunctionOnSet(f, S \ {x})
<1> DEFINE C == {s \in SUBSET S : \A e \in s : SumFunctionOnSet(f, s) = f[e] + SumFunctionOnSet(f, s \ {e})}
<1>1. ASSUME NEW s \in SUBSET S, \A e \in s : s \ {e} \in C PROVE s \in C
  <2> SUFFICES ASSUME NEW e \in s
               PROVE  SumFunctionOnSet(f, s) = f[e] + SumFunctionOnSet(f, s \ {e})
    OBVIOUS
  <2>1. PICK c : c = Some(s) /\ c \in s
    BY OneFewer
  <2>2. SumFunctionOnSet(f, s) = f[c] + SumFunctionOnSet(f, s \ {c})
    <3>1. IsFiniteSet(s)
      BY FS_Subset
    <3> QED BY <2>1, <3>1, SumStep
  <2>3. CASE e # c
    <3>1. SumFunctionOnSet(f, s \ {c}) = f[e] + SumFunctionOnSet(f, (s \ {c}) \ {e})
      BY <1>1, <2>1, <2>3
    <3>2. SumFunctionOnSet(f, s \ {e}) = f[c] + SumFunctionOnSet(f, (s \ {e}) \ {c})
      BY <1>1, <2>1, <2>3
    <3>3. (s \ {e}) \ {c} = (s \ {c}) \ {e}
      OBVIOUS
    <3>4. SumFunctionOnSet(f, (s \ {c}) \ {e}) \in Int /\ f[c] \in Int /\ f[e] \in Int
      BY <2>1, SumType
    <3>5. PICK r \in Int : r = SumFunctionOnSet(f, (s \ {c}) \ {e})
      BY <3>4
    <3>6. SumFunctionOnSet(f, s \ {c}) = f[e] + r /\ SumFunctionOnSet(f, s \ {e}) = f[c] + r
      BY <3>1, <3>2, <3>3, <3>5
    <3>7. \A a, b \in Int : a + (b + r) = b + (a + r)
      OBVIOUS
    <3> QED BY <2>2, <3>4, <3>6, <3>7
  <2> QED BY <2>2, <2>3
<1>2. \A s \in SUBSET S : s \in C
  <2> HIDE DEF C
  <2> QED BY <1>1, SetsByInduction
<1> QED BY <1>2

\* Only the values on the set matter.
LEMMA SumSame ==
  ASSUME NEW S, IsFiniteSet(S), NEW f, NEW g, \A x \in S : f[x] = g[x]
  PROVE  SumFunctionOnSet(f, S) = SumFunctionOnSet(g, S)
<1> DEFINE C == {s \in SUBSET S : SumFunctionOnSet(f, s) = SumFunctionOnSet(g, s)}
<1>1. ASSUME NEW s \in SUBSET S, \A x \in s : s \ {x} \in C PROVE s \in C
  <2>1. IsFiniteSet(s)
    BY FS_Subset
  <2>2. CASE s = {}
    BY <2>1, <2>2, SumStep
  <2>3. CASE s # {}
    <3>1. Some(s) \in s
      BY <2>3, OneFewer
    <3>2. SumFunctionOnSet(f, s \ {Some(s)}) = SumFunctionOnSet(g, s \ {Some(s)}) /\ f[Some(s)] = g[Some(s)]
      BY <1>1, <3>1
    <3>3. /\ SumFunctionOnSet(f, s) = f[Some(s)] + SumFunctionOnSet(f, s \ {Some(s)})
          /\ SumFunctionOnSet(g, s) = g[Some(s)] + SumFunctionOnSet(g, s \ {Some(s)})
      BY <2>1, <2>3, SumStep
    <3> QED BY <3>2, <3>3
  <2> QED BY <2>2, <2>3
<1>2. \A s \in SUBSET S : s \in C
  <2> HIDE DEF C
  <2> QED BY <1>1, SetsByInduction
<1> QED BY <1>2

\* A sum over two sets that have nothing in common.
LEMMA SumOfTwo ==
  ASSUME NEW S, IsFiniteSet(S), NEW T, IsFiniteSet(T), S \cap T = {},
         NEW f, \A x \in S \cup T : f[x] \in Int
  PROVE  SumFunctionOnSet(f, S \cup T) = SumFunctionOnSet(f, S) + SumFunctionOnSet(f, T)
<1> DEFINE Sum(s) == SumFunctionOnSet(f, s)
<1> DEFINE C == {s \in SUBSET S : Sum(s \cup T) = Sum(s) + Sum(T)}
<1>1. IsFiniteSet(S \cup T)
  BY FS_Union
<1>2. \A s \in SUBSET (S \cup T) : Sum(s) \in Int
  BY <1>1, SumType
<1>3. ASSUME NEW s \in SUBSET S, \A x \in s : s \ {x} \in C PROVE s \in C
  <2>1. CASE s = {}
    <3>1. s \cup T = T /\ Sum(s) = 0 /\ Sum(T) \in Int
      BY <1>2, <2>1, SumOfNone
    <3>2. PICK d \in Int : d = Sum(T)
      BY <3>1
    <3>3. d = 0 + d
      OBVIOUS
    <3>4. Sum(s \cup T) = Sum(s) + Sum(T)
      BY <3>1, <3>2, <3>3, Zenon
    <3> QED BY <3>4
  <2>2. CASE s # {}
    <3>1. PICK x \in s : TRUE
      BY <2>2
    <3>2. IsFiniteSet(s) /\ IsFiniteSet(s \cup T)
      BY FS_Subset, FS_Union
    <3>3. Sum(s) = f[x] + Sum(s \ {x})
      BY <3>2, SumWithout
    <3>4. Sum(s \cup T) = f[x] + Sum((s \ {x}) \cup T)
      <4>1. (s \cup T) \ {x} = (s \ {x}) \cup T
        OBVIOUS
      <4> QED BY <3>2, <4>1, SumWithout
    <3>5. Sum((s \ {x}) \cup T) = Sum(s \ {x}) + Sum(T)
      BY <1>3
    <3>6. f[x] \in Int /\ Sum(s \ {x}) \in Int /\ Sum(T) \in Int
      <4>1. s \ {x} \in SUBSET (S \cup T) /\ T \in SUBSET (S \cup T)
        OBVIOUS
      <4> QED BY <1>2, <4>1
    <3> HIDE DEF Sum
    <3>7. PICK a \in Int, b \in Int, d \in Int : a = f[x] /\ b = Sum(s \ {x}) /\ d = Sum(T)
      BY <3>6
    <3> QED BY <3>3, <3>4, <3>5, <3>7
  <2> QED BY <2>1, <2>2
<1>4. \A s \in SUBSET S : s \in C
  <2> HIDE DEF C
  <2> QED BY <1>3, SetsByInduction
<1> QED BY <1>4

\* The same numbers, under other names.
LEMMA SumRenamed ==
  ASSUME NEW S, IsFiniteSet(S), NEW f, \A x \in S : f[x] \in Int, NEW b, NEW g,
         \A x, y \in S : b[x] = b[y] => x = y, \A x \in S : g[b[x]] = f[x]
  PROVE  /\ IsFiniteSet({b[x] : x \in S})
         /\ SumFunctionOnSet(g, {b[x] : x \in S}) = SumFunctionOnSet(f, S)
<1> DEFINE C == {s \in SUBSET S : SumFunctionOnSet(g, {b[x] : x \in s}) = SumFunctionOnSet(f, s)}
<1>1. \A s \in SUBSET S : IsFiniteSet({b[x] : x \in s})
  <2> SUFFICES ASSUME NEW s \in SUBSET S PROVE IsFiniteSet({b[x] : x \in s})
    OBVIOUS
  <2> DEFINE i == [x \in s |-> b[x]]
  <2>1. IsFiniteSet(s)
    BY FS_Subset
  <2>2. i \in Surjection(s, {b[x] : x \in s})
    BY DEF Surjection
  <2> QED BY <2>1, <2>2, FS_Surjection
<1>2. ASSUME NEW s \in SUBSET S, \A x \in s : s \ {x} \in C PROVE s \in C
  <2>1. CASE s = {}
    <3>1. {b[x] : x \in s} = {}
      BY <2>1
    <3> QED BY <2>1, <3>1, SumOfNone
  <2>2. CASE s # {}
    <3>1. PICK e \in s : TRUE
      BY <2>2
    <3>2. IsFiniteSet(s)
      BY FS_Subset
    <3>3. SumFunctionOnSet(f, s) = f[e] + SumFunctionOnSet(f, s \ {e})
      BY <3>2, SumWithout
    <3>4. /\ {b[x] : x \in s} \ {b[e]} = {b[x] : x \in s \ {e}} /\ b[e] \in {b[x] : x \in s}
          /\ \A y \in {b[x] : x \in s} : g[y] \in Int
      OBVIOUS
    <3>5. SumFunctionOnSet(g, {b[x] : x \in s}) = g[b[e]] + SumFunctionOnSet(g, {b[x] : x \in s \ {e}})
      <4>1. PICK i, j : i = {b[x] : x \in s} /\ j = b[e]
        OBVIOUS
      <4>2. IsFiniteSet(i) /\ j \in i /\ \A y \in i : g[y] \in Int
        BY <1>1, <3>4, <4>1
      <4>3. SumFunctionOnSet(g, i) = g[j] + SumFunctionOnSet(g, i \ {j})
        BY <4>2, SumWithout
      <4> QED BY <3>4, <4>1, <4>3
    <3> QED BY <1>2, <3>1, <3>3, <3>5
  <2> QED BY <2>1, <2>2
<1>3. \A s \in SUBSET S : s \in C
  <2> HIDE DEF C
  <2> QED BY <1>2, SetsByInduction
<1> QED BY <1>1, <1>3

\* What is zero outside a part need not be added.
LEMMA SumOfPart ==
  ASSUME NEW S, IsFiniteSet(S), NEW T \in SUBSET S, NEW f, \A x \in S : f[x] \in Int,
         \A x \in S \ T : f[x] = 0
  PROVE  SumFunctionOnSet(f, S) = SumFunctionOnSet(f, T)
<1> DEFINE C == {s \in SUBSET (S \ T) : SumFunctionOnSet(f, s) = 0}
<1>1. IsFiniteSet(T) /\ IsFiniteSet(S \ T)
  BY FS_Subset
<1>2. ASSUME NEW s \in SUBSET (S \ T), \A x \in s : s \ {x} \in C PROVE s \in C
  <2>1. IsFiniteSet(s)
    BY <1>1, FS_Subset
  <2>2. CASE s = {}
    BY <2>2, SumOfNone
  <2>3. CASE s # {}
    <3>1. PICK x \in s : TRUE
      BY <2>3
    <3>2. SumFunctionOnSet(f, s) = f[x] + SumFunctionOnSet(f, s \ {x})
      BY <2>1, SumWithout
    <3> QED BY <1>2, <3>2
  <2> QED BY <2>2, <2>3
<1>3. \A s \in SUBSET (S \ T) : s \in C
  <2> HIDE DEF C
  <2> QED BY <1>1, <1>2, SetsByInduction
<1>4. T \cup (S \ T) = S /\ T \cap (S \ T) = {}
  OBVIOUS
<1>5. SumFunctionOnSet(f, S) = SumFunctionOnSet(f, T) + SumFunctionOnSet(f, S \ T)
  BY <1>1, <1>4, SumOfTwo
<1>6. SumFunctionOnSet(f, T) \in Int
  BY SumType
<1> QED BY <1>3, <1>5, <1>6

\* The sum of two functions, and a function a number of times.
LEMMA SumAdded ==
  ASSUME NEW S, IsFiniteSet(S), NEW f, NEW g, NEW h,
         \A x \in S : f[x] \in Int /\ g[x] \in Int /\ h[x] = f[x] + g[x]
  PROVE  SumFunctionOnSet(h, S) = SumFunctionOnSet(f, S) + SumFunctionOnSet(g, S)
<1> DEFINE F(s) == SumFunctionOnSet(f, s)
           G(s) == SumFunctionOnSet(g, s)
           H(s) == SumFunctionOnSet(h, s)
           C == {s \in SUBSET S : H(s) = F(s) + G(s)}
<1>1. ASSUME NEW s \in SUBSET S, \A x \in s : s \ {x} \in C PROVE s \in C
  <2>1. IsFiniteSet(s)
    BY FS_Subset
  <2>2. CASE s = {}
    BY <2>2, SumOfNone
  <2>3. CASE s # {}
    <3>1. PICK x \in s : TRUE
      BY <2>3
    <3>2. F(s \ {x}) \in Int /\ G(s \ {x}) \in Int
      BY SumType
    <3>3. F(s) = f[x] + F(s \ {x}) /\ G(s) = g[x] + G(s \ {x})
      BY <2>1, SumWithout
    <3>4. H(s) = h[x] + H(s \ {x})
      BY <2>1, SumWithout
    <3>5. H(s \ {x}) = F(s \ {x}) + G(s \ {x}) /\ h[x] = f[x] + g[x] /\ f[x] \in Int /\ g[x] \in Int
      BY <1>1
    <3> HIDE DEF F, G, H
    <3> QED BY <3>2, <3>3, <3>4, <3>5
  <2> QED BY <2>2, <2>3
<1>2. \A s \in SUBSET S : s \in C
  <2> HIDE DEF C
  <2> QED BY <1>1, SetsByInduction
<1> QED BY <1>2

LEMMA SumScaled ==
  ASSUME NEW S, IsFiniteSet(S), NEW k \in Int, NEW f, NEW h,
         \A x \in S : f[x] \in Int /\ h[x] = k * f[x]
  PROVE  SumFunctionOnSet(h, S) = k * SumFunctionOnSet(f, S)
<1> DEFINE F(s) == SumFunctionOnSet(f, s)
           H(s) == SumFunctionOnSet(h, s)
           C == {s \in SUBSET S : H(s) = k * F(s)}
<1>1. ASSUME NEW s \in SUBSET S, \A x \in s : s \ {x} \in C PROVE s \in C
  <2>1. IsFiniteSet(s)
    BY FS_Subset
  <2>2. CASE s = {}
    BY <2>2, SumOfNone
  <2>3. CASE s # {}
    <3>1. PICK x \in s : TRUE
      BY <2>3
    <3>2. F(s \ {x}) \in Int
      BY SumType
    <3>3. F(s) = f[x] + F(s \ {x})
      BY <2>1, SumWithout
    <3>4. \A y \in s : h[y] \in Int
      OBVIOUS
    <3>5. H(s) = h[x] + H(s \ {x})
      BY <2>1, <3>4, SumWithout
    <3>6. H(s \ {x}) = k * F(s \ {x}) /\ h[x] = k * f[x] /\ f[x] \in Int
      BY <1>1
    <3>7. \A m, n \in Int : k * (m + n) = k * m + k * n
      OBVIOUS
    <3> HIDE DEF F, H
    <3> QED BY <3>2, <3>3, <3>5, <3>6, <3>7
  <2> QED BY <2>2, <2>3
<1>2. \A s \in SUBSET S : s \in C
  <2> HIDE DEF C
  <2> QED BY <1>1, SetsByInduction
<1> QED BY <1>2

\* Sums are no further apart than their parts together.
LEMMA SumWithin ==
  ASSUME NEW S, IsFiniteSet(S), NEW f, NEW g, NEW h,
         \A x \in S : f[x] \in Int /\ g[x] \in Int /\ h[x] \in Nat /\ f[x] - g[x] \in -h[x] .. h[x]
  PROVE  /\ SumFunctionOnSet(h, S) \in Nat
         /\ SumFunctionOnSet(f, S) - SumFunctionOnSet(g, S) \in
               -SumFunctionOnSet(h, S) .. SumFunctionOnSet(h, S)
<1> DEFINE F(s) == SumFunctionOnSet(f, s)
           G(s) == SumFunctionOnSet(g, s)
           H(s) == SumFunctionOnSet(h, s)
           C == {s \in SUBSET S : H(s) \in Nat /\ F(s) - G(s) \in -H(s) .. H(s)}
<1>1. ASSUME NEW s \in SUBSET S, \A x \in s : s \ {x} \in C PROVE s \in C
  <2>1. IsFiniteSet(s)
    BY FS_Subset
  <2>2. CASE s = {}
    BY <2>2, SumOfNone
  <2>3. CASE s # {}
    <3>1. PICK x \in s : TRUE
      BY <2>3
    <3>2. F(s \ {x}) \in Int /\ G(s \ {x}) \in Int
      BY SumType
    <3>3. F(s) = f[x] + F(s \ {x}) /\ G(s) = g[x] + G(s \ {x}) /\ H(s) = h[x] + H(s \ {x})
      BY <2>1, SumWithout
    <3>4. H(s \ {x}) \in Nat /\ F(s \ {x}) - G(s \ {x}) \in -H(s \ {x}) .. H(s \ {x})
      BY <1>1
    <3>5. f[x] \in Int /\ g[x] \in Int /\ h[x] \in Nat /\ f[x] - g[x] \in -h[x] .. h[x]
      OBVIOUS
    <3>6. PICK a \in Int, b \in Int, c \in Nat : a = f[x] /\ b = g[x] /\ c = h[x] /\ a - b \in -c .. c
      BY <3>5
    <3>7. PICK m \in Int, n \in Int, l \in Nat :
            m = F(s \ {x}) /\ n = G(s \ {x}) /\ l = H(s \ {x}) /\ m - n \in -l .. l
      BY <3>2, <3>4
    <3>8. F(s) = a + m /\ G(s) = b + n /\ H(s) = c + l
      BY <3>3, <3>6, <3>7
    <3>9. (a + m) - (b + n) \in -(c + l) .. (c + l) /\ c + l \in Nat
      BY <3>6, <3>7
    <3> HIDE DEF F, G, H
    <3> QED BY <3>8, <3>9
  <2> QED BY <2>2, <2>3
<1>2. \A s \in SUBSET S : s \in C
  <2> HIDE DEF C
  <2> QED BY <1>1, SetsByInduction
<1> QED BY <1>2

\* A count is a sum of ones.
LEMMA CountIsSum ==
  ASSUME NEW S, IsFiniteSet(S), NEW f, \A x \in S : f[x] = 1
  PROVE  SumFunctionOnSet(f, S) = Cardinality(S)
<1> DEFINE C == {s \in SUBSET S : SumFunctionOnSet(f, s) = Cardinality(s)}
<1>1. ASSUME NEW s \in SUBSET S, \A x \in s : s \ {x} \in C PROVE s \in C
  <2>1. IsFiniteSet(s)
    BY FS_Subset
  <2>2. CASE s = {}
    BY <2>2, SumOfNone, FS_EmptySet
  <2>3. CASE s # {}
    <3>1. PICK x \in s : TRUE
      BY <2>3
    <3>2. Cardinality(s \ {x}) = Cardinality(s) - 1 /\ Cardinality(s) \in Nat
      BY <2>1, FS_RemoveElement, FS_CardinalityType
    <3>3. SumFunctionOnSet(f, s) = 1 + SumFunctionOnSet(f, s \ {x})
      BY <2>1, SumWithout
    <3> QED BY <1>1, <3>2, <3>3
  <2> QED BY <2>2, <2>3
<1>2. \A s \in SUBSET S : s \in C
  <2> HIDE DEF C
  <2> QED BY <1>1, SetsByInduction
<1> QED BY <1>2

\* A sum over parts that have nothing in common, part by part.
LEMMA SumOfParts ==
  ASSUME NEW S, IsFiniteSet(S), NEW f, \A x \in S : f[x] \in Int,
         NEW I, IsFiniteSet(I), NEW p, \A i \in I : p[i] \subseteq S,
         \A i, j \in I : i # j => p[i] \cap p[j] = {},
         NEW t, \A i \in I : t[i] = SumFunctionOnSet(f, p[i])
  PROVE  SumFunctionOnSet(t, I) = SumFunctionOnSet(f, UNION {p[i] : i \in I})
<1> DEFINE All(s) == UNION {p[i] : i \in s}
           C == {s \in SUBSET I : SumFunctionOnSet(t, s) = SumFunctionOnSet(f, All(s))}
<1>1. \A i \in I : t[i] \in Int
  BY SumType
<1>2. ASSUME NEW s \in SUBSET I, \A i \in s : s \ {i} \in C PROVE s \in C
  <2>1. IsFiniteSet(s)
    BY FS_Subset
  <2>2. CASE s = {}
    <3>1. All(s) = {}
      BY <2>2
    <3> QED BY <2>2, <3>1, SumOfNone
  <2>3. CASE s # {}
    <3>1. PICK i \in s : TRUE
      BY <2>3
    <3>2. SumFunctionOnSet(t, s) = t[i] + SumFunctionOnSet(t, s \ {i})
      BY <1>1, <2>1, SumWithout
    <3>3. All(s) = p[i] \cup All(s \ {i}) /\ p[i] \cap All(s \ {i}) = {}
      OBVIOUS
    <3>4. p[i] \subseteq S /\ All(s \ {i}) \subseteq S
      OBVIOUS
    <3>5. IsFiniteSet(p[i]) /\ IsFiniteSet(All(s \ {i}))
      BY <3>4, FS_Subset
    <3>6. SumFunctionOnSet(f, All(s)) = SumFunctionOnSet(f, p[i]) + SumFunctionOnSet(f, All(s \ {i}))
      <4>1. PICK a, b : a = p[i] /\ b = All(s \ {i})
        OBVIOUS
      <4>2. a \cap b = {} /\ IsFiniteSet(a) /\ IsFiniteSet(b) /\ \A x \in a \cup b : f[x] \in Int
        BY <3>3, <3>4, <3>5, <4>1
      <4>3. SumFunctionOnSet(f, a \cup b) = SumFunctionOnSet(f, a) + SumFunctionOnSet(f, b)
        BY <4>2, SumOfTwo
      <4>4. All(s) = a \cup b
        BY <3>3, <4>1
      <4> HIDE DEF All
      <4> QED BY <4>1, <4>3, <4>4
    <3>7. SumFunctionOnSet(t, s \ {i}) = SumFunctionOnSet(f, All(s \ {i})) /\ t[i] = SumFunctionOnSet(f, p[i])
      BY <1>2
    <3> QED BY <3>2, <3>6, <3>7
  <2> QED BY <2>2, <2>3
<1>3. \A s \in SUBSET I : s \in C
  <2> HIDE DEF C
  <2> QED BY <1>2, SetsByInduction
<1> QED BY <1>3

\* A finite set that is not empty has an element of the greatest value.
LEMMA GreatestOf ==
  ASSUME NEW S, IsFiniteSet(S), S # {}, NEW f, \A x \in S : f[x] \in Int
  PROVE  \E x \in S : \A y \in S : f[y] <= f[x]
<1> DEFINE C == {s \in SUBSET S : s = {} \/ \E x \in s : \A y \in s : f[y] <= f[x]}
<1>1. ASSUME NEW s \in SUBSET S, \A x \in s : s \ {x} \in C PROVE s \in C
  <2>1. CASE s # {}
    <3>1. PICK x \in s : TRUE
      BY <2>1
    <3>2. CASE s \ {x} = {}
      <4>1. \A y \in s : f[y] <= f[x]
        BY <3>2
      <4> QED BY <4>1
    <3>3. ASSUME NEW z \in s \ {x}, \A y \in s \ {x} : f[y] <= f[z] PROVE s \in C
      <4>1. f[x] \in Int /\ f[z] \in Int /\ \A y \in s : f[y] \in Int
        OBVIOUS
      <4>2. CASE f[x] <= f[z]
        <5>1. \A y \in s : f[y] <= f[z]
          BY <3>3, <4>2
        <5> QED BY <5>1
      <4>3. CASE f[z] <= f[x]
        <5>1. ASSUME NEW y \in s PROVE f[y] <= f[x]
          <6>1. y # x => f[y] <= f[z]
            BY <3>3
          <6> QED BY <4>1, <4>3, <6>1
        <5> QED BY <5>1
      <4> QED BY <4>1, <4>2, <4>3
    <3> QED BY <1>1, <3>2, <3>3
  <2> QED BY <2>1
<1>2. \A s \in SUBSET S : s \in C
  <2> HIDE DEF C
  <2> QED BY <1>1, SetsByInduction
<1> QED BY <1>2

\* As many elements as are wanted can be chosen so that none left out has a greater value.
LEMMA MostOf ==
  ASSUME NEW S, IsFiniteSet(S), NEW f, \A x \in S : f[x] \in Int,
         NEW n \in 0 .. Cardinality(S)
  PROVE  \E most \in SUBSET S : /\ Cardinality(most) = n
                                /\ \A x \in most, y \in S \ most : f[x] >= f[y]
<1> DEFINE Most(m, k) == Cardinality(m) = k /\ \A x \in m, y \in S \ m : f[x] >= f[y]
           N == {k \in Nat : k <= Cardinality(S) => \E m \in SUBSET S : Most(m, k)}
<1>1. Cardinality(S) \in Nat
  BY FS_CardinalityType
<1>2. 0 \in N
  <2>1. {} \in SUBSET S /\ Most({}, 0)
    BY FS_EmptySet
  <2> QED BY <2>1
<1>3. ASSUME NEW k \in Nat, k \in N PROVE k + 1 \in N
  <2> SUFFICES ASSUME k + 1 <= Cardinality(S) PROVE \E m \in SUBSET S : Most(m, k + 1)
    OBVIOUS
  <2>1. PICK m \in SUBSET S : Most(m, k)
    BY <1>1, <1>3
  <2>2. IsFiniteSet(m) /\ IsFiniteSet(S \ m)
    BY FS_Subset
  <2>3. S \ m # {}
    <3>1. m # S
      BY <1>1, <2>1
    <3> QED BY <3>1
  <2>4. PICK x \in S \ m : \A y \in S \ m : f[y] <= f[x]
    BY <2>2, <2>3, GreatestOf
  <2>5. Cardinality(m \cup {x}) = k + 1
    BY <2>1, <2>2, <2>4, FS_AddElement
  <2>6. ASSUME NEW a \in m \cup {x}, NEW b \in S \ (m \cup {x}) PROVE f[a] >= f[b]
    <3>1. f[a] \in Int /\ f[b] \in Int
      BY <2>4
    <3> QED BY <2>1, <2>4, <3>1
  <2>7. m \cup {x} \in SUBSET S
    BY <2>4
  <2> QED BY <2>5, <2>6, <2>7
<1>4. \A k \in Nat : k \in N
  <2> HIDE DEF N
  <2> QED BY <1>2, <1>3, NaturalsByInduction
<1>5. n \in Nat /\ n <= Cardinality(S)
  BY <1>1
<1> QED BY <1>4, <1>5

\* The image of a finite set is finite.
LEMMA ImageIsFinite ==
  ASSUME NEW S, IsFiniteSet(S), NEW f
  PROVE  IsFiniteSet({f[x] : x \in S})
<1> DEFINE g == [x \in S |-> f[x]]
<1>1. g \in Surjection(S, {f[x] : x \in S})
  BY DEF Surjection
<1> QED BY <1>1, FS_Surjection

\* As many elements under other names.
LEMMA CountRenamed ==
  ASSUME NEW S, IsFiniteSet(S), NEW f, \A x, y \in S : f[x] = f[y] => x = y
  PROVE  /\ IsFiniteSet({f[x] : x \in S})
         /\ Cardinality({f[x] : x \in S}) = Cardinality(S)
<1> DEFINE T == {f[x] : x \in S}
           g == [x \in S |-> f[x]]
<1>1. g \in Bijection(S, T)
  BY DEF Bijection, Injection, Surjection, IsInjective
<1>2. ExistsBijection(S, T)
  BY <1>1 DEF ExistsBijection
<1> QED BY <1>2, FS_Bijection

\* Things counted by what they belong to.
LEMMA CountOfParts ==
  ASSUME NEW S, IsFiniteSet(S), NEW I, IsFiniteSet(I), NEW b, \A x \in S : b[x] \in I,
         NEW p, \A i \in I : p[i] \subseteq S, \A i \in I, x \in S : x \in p[i] <=> b[x] = i,
         NEW t, \A i \in I : t[i] = Cardinality(p[i])
  PROVE  SumFunctionOnSet(t, I) = Cardinality(S)
<1>1. PICK f : f = [x \in S |-> 1]
  OBVIOUS
<1>2. \A x \in S : f[x] = 1 /\ f[x] \in Int
  BY <1>1
<1>3. ASSUME NEW i \in I PROVE t[i] = SumFunctionOnSet(f, p[i])
  <2>1. PICK part \in SUBSET S : part = p[i]
    OBVIOUS
  <2>2. IsFiniteSet(part) /\ \A x \in part : f[x] = 1
    BY <1>2, FS_Subset
  <2>3. SumFunctionOnSet(f, part) = Cardinality(part)
    BY <2>2, CountIsSum
  <2> QED BY <2>1, <2>3
<1>4. \A i, j \in I : i # j => p[i] \cap p[j] = {}
  OBVIOUS
<1>5. SumFunctionOnSet(t, I) = SumFunctionOnSet(f, UNION {p[i] : i \in I})
  BY <1>2, <1>3, <1>4, SumOfParts
<1>6. UNION {p[i] : i \in I} = S
  OBVIOUS
<1> QED BY <1>2, <1>5, <1>6, CountIsSum

\* The greatest of some numbers.
LEMMA MaxIs ==
  ASSUME NEW S, IsFiniteSet(S), S # {}, S \subseteq Int
  PROVE  Max(S) \in S /\ \A y \in S : y <= Max(S)
<1> DEFINE f == [x \in S |-> x]
<1>1. \E x \in S : \A y \in S : f[y] <= f[x]
  BY GreatestOf
<1>2. \E x \in S : \A y \in S : x >= y
  BY <1>1
<1>3. Max(S) \in S /\ \A y \in S : Max(S) >= y
  BY <1>2 DEF Max
<1> QED BY <1>3

\* Things can be listed by a number, the greatest first.
LEMMA ListExists ==
  ASSUME NEW S, IsFiniteSet(S), NEW f, \A x \in S : f[x] \in Int
  PROVE  \E order \in [1 .. Cardinality(S) -> S] :
            \A i, j \in DOMAIN order : i < j => order[i] # order[j] /\ f[order[j]] <= f[order[i]]
<1> DEFINE Lists(order, s) == /\ order \in [1 .. Cardinality(s) -> s]
                              /\ \A i, j \in 1 .. Cardinality(s) :
                                    i < j => order[i] # order[j] /\ f[order[j]] <= f[order[i]]
           C == {s \in SUBSET S : \E order : Lists(order, s)}
<1>1. ASSUME NEW s \in SUBSET S, \A x \in s : s \ {x} \in C PROVE s \in C
  <2>1. IsFiniteSet(s)
    BY FS_Subset
  <2>2. CASE s = {}
    <3>1. Cardinality(s) = 0
      BY <2>2, FS_EmptySet
    <3>2. PICK order : order = [i \in 1 .. 0 |-> i]
      OBVIOUS
    <3>3. Lists(order, s)
      BY <2>2, <3>1, <3>2
    <3> QED BY <3>3
  <2>3. CASE s # {}
    <3>1. PICK g : g = [x \in s |-> -f[x]]
      OBVIOUS
    <3>2. \A x \in s : g[x] \in Int /\ g[x] = -f[x] /\ f[x] \in Int
      BY <3>1
    <3>3. PICK x \in s : \A y \in s : g[y] <= g[x]
      BY <2>1, <2>3, <3>2, GreatestOf
    <3>4. \A y \in s : f[x] <= f[y]
      BY <3>2, <3>3
    <3>5. PICK r \in SUBSET S, n \in Nat : r = s \ {x} /\ n = Cardinality(r) /\ Cardinality(s) = n + 1
      <4>1. Cardinality(s \ {x}) = Cardinality(s) - 1 /\ Cardinality(s) \in Nat \ {0}
        BY <2>1, <2>3, FS_RemoveElement, OneFewer
      <4> QED BY <4>1
    <3>6. PICK first : Lists(first, r)
      BY <1>1, <3>5
    <3>7. PICK order : order = [i \in 1 .. n + 1 |-> IF i = n + 1 THEN x ELSE first[i]]
      OBVIOUS
    <3>8. ASSUME NEW i \in 1 .. n PROVE order[i] = first[i] /\ first[i] \in r
      <4>1. i \in 1 .. n + 1 /\ i # n + 1
        OBVIOUS
      <4>2. first \in [1 .. n -> r]
        BY <3>5, <3>6
      <4> QED BY <3>7, <4>1, <4>2
    <3>9. order[n + 1] = x /\ order \in [1 .. n + 1 -> s]
      <4>1. \A i \in 1 .. n + 1 : i = n + 1 \/ i \in 1 .. n
        OBVIOUS
      <4>2. n + 1 \in 1 .. n + 1 /\ r \subseteq s
        BY <3>5
      <4>3. order[n + 1] = x
        BY <3>7, <4>2
      <4>4. \A i \in 1 .. n + 1 : order[i] \in s
        BY <3>8, <4>1, <4>2, <4>3
      <4> QED BY <3>7, <4>3, <4>4
    <3>10. ASSUME NEW i \in 1 .. n + 1, NEW j \in 1 .. n + 1, i < j
           PROVE  order[i] # order[j] /\ f[order[j]] <= f[order[i]]
      <4>1. i \in 1 .. n
        BY <3>10
      <4>2. CASE j = n + 1
        BY <3>4, <3>5, <3>8, <3>9, <4>1, <4>2
      <4>3. CASE j \in 1 .. n
        BY <3>5, <3>6, <3>8, <3>10, <4>1, <4>3
      <4> QED BY <4>2, <4>3
    <3>11. Lists(order, s)
      BY <3>5, <3>9, <3>10
    <3> QED BY <3>11
  <2> QED BY <2>2, <2>3
<1>2. \A s \in SUBSET S : s \in C
  <2> HIDE DEF C
  <2> QED BY <1>1, SetsByInduction
<1>3. PICK order : Lists(order, S)
  BY <1>2
<1> QED BY <1>3

\* A finite set can be listed in a strict order of all its elements, and such a list has
\* every one of them once.
LEMMA LastInOrder ==
  ASSUME NEW S, IsFiniteSet(S), S # {}, NEW R,
         \A x, y, z \in S : <<x, y>> \in R /\ <<y, z>> \in R => <<x, z>> \in R,
         \A x, y \in S : x # y => <<x, y>> \in R \/ <<y, x>> \in R
  PROVE  \E x \in S : \A y \in S \ {x} : <<y, x>> \in R
<1> DEFINE C == {s \in SUBSET S : s = {} \/ \E x \in s : \A y \in s \ {x} : <<y, x>> \in R}
<1>1. ASSUME NEW s \in SUBSET S, \A x \in s : s \ {x} \in C PROVE s \in C
  <2>1. CASE s # {}
    <3>1. PICK x \in s : TRUE
      BY <2>1
    <3>2. CASE s \ {x} = {}
      BY <3>2
    <3>3. CASE s \ {x} # {}
      <4>1. PICK w \in s \ {x} : \A y \in (s \ {x}) \ {w} : <<y, w>> \in R
        BY <1>1, <3>3
      <4>2. CASE <<x, w>> \in R
        BY <4>1, <4>2
      <4>3. CASE <<w, x>> \in R
        <5>1. \A y \in s \ {x} : <<y, x>> \in R
          BY <4>1, <4>3
        <5> QED BY <5>1
      <4> QED BY <4>1, <4>2, <4>3
    <3> QED BY <3>2, <3>3
  <2> QED BY <2>1
<1>2. \A s \in SUBSET S : s \in C
  <2> HIDE DEF C
  <2> QED BY <1>1, SetsByInduction
<1> QED BY <1>2

LEMMA SortedExists ==
  ASSUME NEW S, IsFiniteSet(S), NEW R,
         \A x, y, z \in S : <<x, y>> \in R /\ <<y, z>> \in R => <<x, z>> \in R,
         \A x, y \in S : x # y => <<x, y>> \in R \/ <<y, x>> \in R
  PROVE  \E list \in [1 .. Cardinality(S) -> S] :
            \A i, j \in DOMAIN list : i < j => <<list[i], list[j]>> \in R
<1> DEFINE Lists(list, s) == /\ list \in [1 .. Cardinality(s) -> s]
                             /\ \A i, j \in 1 .. Cardinality(s) : i < j => <<list[i], list[j]>> \in R
           C == {s \in SUBSET S : \E list : Lists(list, s)}
<1>1. ASSUME NEW s \in SUBSET S, \A x \in s : s \ {x} \in C PROVE s \in C
  <2>1. IsFiniteSet(s)
    BY FS_Subset
  <2>2. CASE s = {}
    <3>1. Cardinality(s) = 0
      BY <2>2, FS_EmptySet
    <3>2. PICK list : list = [i \in 1 .. 0 |-> i]
      OBVIOUS
    <3>3. Lists(list, s)
      BY <2>2, <3>1, <3>2
    <3> QED BY <3>3
  <2>3. CASE s # {}
    <3>1. PICK x \in s : \A y \in s \ {x} : <<y, x>> \in R
      BY <2>1, <2>3, LastInOrder
    <3>2. PICK r \in SUBSET S, n \in Nat : r = s \ {x} /\ n = Cardinality(r) /\ Cardinality(s) = n + 1
      <4>1. Cardinality(s \ {x}) = Cardinality(s) - 1 /\ Cardinality(s) \in Nat \ {0}
        BY <2>1, <2>3, FS_RemoveElement, OneFewer
      <4> QED BY <4>1
    <3>3. PICK first : Lists(first, r)
      BY <1>1, <3>2
    <3>4. PICK list : list = [i \in 1 .. n + 1 |-> IF i = n + 1 THEN x ELSE first[i]]
      OBVIOUS
    <3>5. ASSUME NEW i \in 1 .. n PROVE list[i] = first[i] /\ first[i] \in r
      <4>1. i \in 1 .. n + 1 /\ i # n + 1
        OBVIOUS
      <4>2. first \in [1 .. n -> r]
        BY <3>2, <3>3
      <4> QED BY <3>4, <4>1, <4>2
    <3>6. list[n + 1] = x /\ list \in [1 .. n + 1 -> s]
      <4>1. \A i \in 1 .. n + 1 : i = n + 1 \/ i \in 1 .. n
        OBVIOUS
      <4>2. n + 1 \in 1 .. n + 1 /\ r \subseteq s
        BY <3>2
      <4>3. list[n + 1] = x
        BY <3>4, <4>2
      <4>4. \A i \in 1 .. n + 1 : list[i] \in s
        BY <3>5, <4>1, <4>2, <4>3
      <4> QED BY <3>4, <4>3, <4>4
    <3>7. ASSUME NEW i \in 1 .. n + 1, NEW j \in 1 .. n + 1, i < j PROVE <<list[i], list[j]>> \in R
      <4>1. i \in 1 .. n
        BY <3>7
      <4>2. CASE j = n + 1
        BY <3>1, <3>2, <3>5, <3>6, <4>1, <4>2
      <4>3. CASE j \in 1 .. n
        BY <3>2, <3>3, <3>5, <3>7, <4>1, <4>3
      <4> QED BY <4>2, <4>3
    <3>8. Lists(list, s)
      BY <3>2, <3>6, <3>7
    <3> QED BY <3>8
  <2> QED BY <2>2, <2>3
<1>2. \A s \in SUBSET S : s \in C
  <2> HIDE DEF C
  <2> QED BY <1>1, SetsByInduction
<1>3. PICK list : Lists(list, S)
  BY <1>2
<1> QED BY <1>3

LEMMA SortedHasAll ==
  ASSUME NEW S, IsFiniteSet(S), NEW list \in [1 .. Cardinality(S) -> S],
         \A i, j \in 1 .. Cardinality(S) : i < j => list[i] # list[j]
  PROVE  \A x \in S : \E i \in 1 .. Cardinality(S) : list[i] = x
<1>1. PICK n \in Nat : n = Cardinality(S)
  BY FS_CardinalityType
<1>2. list \in Injection(1 .. n, S)
  <2>1. \A i, j \in 1 .. n : list[i] = list[j] => i = j
    BY <1>1
  <2> QED BY <1>1, <2>1 DEF Injection, IsInjective
<1>3. Cardinality(1 .. n) = n
  BY FS_Interval
<1>4. list \in Surjection(1 .. n, S)
  BY <1>1, <1>2, <1>3, FS_Injection
<1> QED BY <1>1, <1>4 DEF Surjection
-----------------------------------------------------------------------------
\* A factor that is not zero keeps the order.
LEMMA Cancelled ==
  ASSUME NEW k \in Nat \ {0}, NEW m \in Int, NEW n \in Int
  PROVE  /\ k * m <= k * n => m <= n
         /\ m <= n => k * m <= k * n
<1>1. ASSUME m <= n PROVE k * m <= k * n
  <2>1. PICK d \in Nat : n = m + d
    <3>1. n - m \in Nat /\ n = m + (n - m)
      BY <1>1
    <3> QED BY <3>1
  <2>2. k * n = k * m + k * d /\ k * d \in Nat /\ k * m \in Int
    BY <2>1
  <2> QED BY <2>2
<1>2. ASSUME n < m PROVE k * n < k * m
  <2>1. PICK d \in Nat : m = n + 1 + d
    <3>1. m - n - 1 \in Nat /\ m = n + 1 + (m - n - 1)
      BY <1>2
    <3> QED BY <3>1
  <2>2. k * m = k * n + k + k * d /\ k * d \in Nat /\ k * n \in Int
    BY <2>1
  <2> QED BY <2>2
<1>3. k * m \in Int /\ k * n \in Int
  OBVIOUS
<1> QED BY <1>1, <1>2, <1>3

\* What is n/d to the cent.
LEMMA RoundedIs ==
  ASSUME NEW n \in Nat, NEW d \in Nat \ {0}, NEW x, x = ToMoney(n, d)
  PROVE  x \in Nat /\ 2 * d * x <= 2 * n + d /\ 2 * n + d < 2 * d * x + 2 * d
<1>1. \A m \in Nat, k \in Nat \ {0} :
        m \div k \in Nat /\ k * (m \div k) <= m /\ m < k * (m \div k) + k
  OBVIOUS
<1>2. PICK m \in Nat, k \in Nat \ {0} : m = 2 * n + d /\ k = 2 * d
  OBVIOUS
<1>3. x = m \div k
  BY <1>2 DEF ToMoney
<1> QED BY <1>1, <1>2, <1>3

\* An amount below zero is rounded like its opposite.
LEMMA RoundedWithin ==
  ASSUME NEW n \in Int, NEW d \in Nat \ {0}
  PROVE  /\ ToMoney(n, d) \in Int
         /\ 2 * d * ToMoney(n, d) - 2 * n \in -d .. d
<1>1. CASE n >= 0
  <2>1. PICK x \in Nat : /\ x = ToMoney(n, d) /\ 2 * d * x <= 2 * n + d
                         /\ 2 * n + d < 2 * d * x + 2 * d
    <3>1. n \in Nat
      BY <1>1
    <3> QED BY <3>1, RoundedIs
  <2>2. PICK p \in Nat : p = 2 * d * x
    OBVIOUS
  <2>3. p - 2 * n \in -d .. d
    BY <2>1, <2>2
  <2> QED BY <2>1, <2>2, <2>3
<1>2. CASE n < 0
  <2>1. PICK m \in Nat : m = -n /\ m > 0
    BY <1>2
  <2>2. PICK x \in Nat : /\ x = ToMoney(m, d) /\ 2 * d * x <= 2 * m + d
                         /\ 2 * m + d < 2 * d * x + 2 * d
    BY RoundedIs
  <2>3. ToMoney(n, d) = -x
    <3>1. d - 2 * n = 2 * m + d
      BY <2>1
    <3> QED BY <1>2, <2>1, <2>2, <3>1 DEF ToMoney
  <2>4. PICK p \in Nat : p = 2 * d * x
    OBVIOUS
  <2>5. 2 * d * (-x) = -p
    BY <2>4
  <2>6. -p - 2 * n \in -d .. d
    BY <2>1, <2>2, <2>4
  <2> QED BY <2>3, <2>5, <2>6
<1> QED BY <1>1, <1>2
=============================================================================
