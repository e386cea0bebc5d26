-------------------------------- MODULE Sums --------------------------------
(***************************************************************************)
(* Facts about finite sums (SumFunctionOnSet of the community modules),    *)
(* largest elements and subsets of a finite set, for the proofs of other   *)
(* modules.  Sums are folds over a chosen element: everything rests on     *)
(* induction on the size of a set, stated for a set of numbers or of       *)
(* subsets in the place of a predicate.                                    *)
(***************************************************************************)
EXTENDS Integers, FiniteSets, FiniteSetsExt, Functions, FiniteSetTheorems, TLAPS

\* Induction, for a set in the place of a predicate.
LEMMA SetInduction ==
    ASSUME NEW S, 0 \in S, \A n \in Nat : n \in S => n + 1 \in S
    PROVE  Nat \subseteq S
<1> SUFFICES ASSUME Nat \ S # {} PROVE FALSE
  OBVIOUS
<1> DEFINE R == OpToRel(<, Nat)
<1>1. IsWellFoundedOn(R, Nat)
  BY NatLessThanWellFounded
<1>2. \A x, y \in Nat : x < y => <<x, y>> \in R
  BY DEF OpToRel
<1> HIDE DEF R
<1>3. PICK x \in Nat \ S : \A y \in Nat \ S : ~(<<y, x>> \in R)
  BY <1>1, WFMin
<1>4. x - 1 \in Nat /\ (x - 1) + 1 = x
  OBVIOUS
<1>5. <<x - 1, x>> \in R
  <2>1. x - 1 < x
    BY <1>4
  <2> QED BY <1>2, <1>4, <2>1
<1>6. x - 1 \in S
  BY <1>3, <1>4, <1>5
<1> QED BY <1>3, <1>4, <1>6

\* What a set loses with one of its elements.
LEMMA Sizes ==
    ASSUME NEW S, IsFiniteSet(S), NEW s \in SUBSET S
    PROVE  /\ Cardinality(s) \in Nat
           /\ Cardinality(s) <= Cardinality(S)
           /\ Cardinality(s) = 0 <=> s = {}
           /\ \A x \in s : Cardinality(s \ {x}) = Cardinality(s) - 1
<1>1. IsFiniteSet(s) /\ Cardinality(s) <= Cardinality(S)
  BY FS_Subset
<1>2. Cardinality(s) \in Nat /\ (Cardinality(s) = 0 <=> s = {})
  BY <1>1, FS_CardinalityType, FS_EmptySet
<1>3. \A x \in s : Cardinality(s \ {x}) = Cardinality(s) - 1
  BY <1>1, FS_RemoveElement
<1> QED BY <1>1, <1>2, <1>3

\* The recursion of a sum over sets, which takes first[s] out of s.
Up(f, first, g, s) == IF s = {} THEN 0 ELSE f[first[s]] + g[s \ {first[s]}]
IsSum(f, first, S, g) == g = [s \in SUBSET S |-> Up(f, first, g, s)]
Upto(S, n) == {s \in SUBSET S : Cardinality(s) <= n}

LEMMA SumsExist ==
    ASSUME NEW f, NEW S, IsFiniteSet(S), \A x \in S : f[x] \in Nat,
           NEW first, \A s \in SUBSET S : s # {} => first[s] \in s
    PROVE  \E g : IsSum(f, first, S, g)
<1> DEFINE N == {n \in Nat : \E g \in [SUBSET S -> Nat] :
                                \A s \in Upto(S, n) : g[s] = Up(f, first, g, s)}
<1>1. 0 \in N
  <2> DEFINE g == [s \in SUBSET S |-> 0]
  <2>1. g \in [SUBSET S -> Nat]
    OBVIOUS
  <2>2. ASSUME NEW s \in Upto(S, 0) PROVE g[s] = Up(f, first, g, s)
    <3>1. s \in SUBSET S /\ Cardinality(s) <= 0
      BY DEF Upto
    <3>2. s = {}
      BY <3>1, Sizes
    <3> QED BY <3>2 DEF Up
  <2> QED BY <2>1, <2>2
<1>2. ASSUME NEW n \in Nat, n \in N PROVE n + 1 \in N
  <2>1. PICK g \in [SUBSET S -> Nat] : \A s \in Upto(S, n) : g[s] = Up(f, first, g, s)
    BY <1>2
  <2> DEFINE k == [s \in SUBSET S |-> Up(f, first, g, s)]
  <2>2. k \in [SUBSET S -> Nat]
    <3>1. ASSUME NEW s \in SUBSET S PROVE Up(f, first, g, s) \in Nat
      BY DEF Up
    <3> QED BY <3>1
  <2>3. ASSUME NEW s \in Upto(S, n + 1) PROVE k[s] = Up(f, first, k, s)
    <3>1. s \in SUBSET S /\ Cardinality(s) <= n + 1
      BY DEF Upto
    <3>2. CASE s = {}
      BY <3>2 DEF Up
    <3>3. CASE s # {}
      <4> DEFINE r == s \ {first[s]}
      <4>1. r \in SUBSET S /\ Cardinality(s) \in Nat /\ Cardinality(r) = Cardinality(s) - 1
        BY <3>1, <3>3, Sizes
      <4>2. r \in Upto(S, n)
        BY <3>1, <4>1 DEF Upto
      <4>3. k[r] = g[r]
        BY <2>1, <4>1, <4>2
      <4>4. k[s] = f[first[s]] + g[r]
        BY <3>1, <3>3 DEF Up
      <4> QED BY <3>3, <4>3, <4>4 DEF Up
    <3> QED BY <3>2, <3>3
  <2> HIDE DEF k
  <2> QED BY <2>2, <2>3
<1>3. Nat \subseteq N
  <2> HIDE DEF N
  <2> QED BY <1>1, <1>2, SetInduction
<1>4. S \in SUBSET S /\ Cardinality(S) \in Nat
  BY Sizes
<1>5. PICK g \in [SUBSET S -> Nat] :
           \A s \in Upto(S, Cardinality(S)) : g[s] = Up(f, first, g, s)
  BY <1>3, <1>4
<1>6. \A s \in SUBSET S : s \in Upto(S, Cardinality(S))
  BY Sizes DEF Upto
<1>7. g = [s \in SUBSET S |-> Up(f, first, g, s)]
  BY <1>5, <1>6
<1> QED BY <1>7 DEF IsSum

LEMMA SumsAreNumbers ==
    ASSUME NEW f, NEW S, IsFiniteSet(S), \A x \in S : f[x] \in Nat,
           NEW first, \A s \in SUBSET S : s # {} => first[s] \in s,
           NEW g, IsSum(f, first, S, g)
    PROVE  g[S] \in Nat
<1> DEFINE N == {n \in Nat : \A s \in Upto(S, n) : g[s] \in Nat}
<1>0. \A s \in SUBSET S : g[s] = Up(f, first, g, s)
  BY DEF IsSum
<1>1. 0 \in N
  <2>1. ASSUME NEW s \in Upto(S, 0) PROVE g[s] \in Nat
    <3>1. s \in SUBSET S /\ Cardinality(s) <= 0
      BY DEF Upto
    <3>2. s = {}
      BY <3>1, Sizes
    <3> QED BY <1>0, <3>1, <3>2 DEF Up
  <2> QED BY <2>1
<1>2. ASSUME NEW n \in Nat, n \in N PROVE n + 1 \in N
  <2>1. ASSUME NEW s \in Upto(S, n + 1), s # {} PROVE g[s] \in Nat
    <3> DEFINE r == s \ {first[s]}
    <3>1. s \in SUBSET S /\ Cardinality(s) <= n + 1
      BY DEF Upto
    <3>2. r \in SUBSET S /\ Cardinality(s) \in Nat /\ Cardinality(r) = Cardinality(s) - 1
      BY <2>1, <3>1, Sizes
    <3>3. r \in Upto(S, n)
      BY <3>1, <3>2 DEF Upto
    <3>5. g[r] \in Nat
      BY <1>2, <3>3
    <3>4. g[s] = f[first[s]] + g[r]
      BY <1>0, <2>1, <3>1 DEF Up
    <3> QED BY <2>1, <3>1, <3>4, <3>5
  <2>2. g[{}] \in Nat
    <3>1. g[{}] = Up(f, first, g, {})
      BY <1>0
    <3> QED BY <3>1 DEF Up
  <2>3. \A s \in Upto(S, n + 1) : g[s] \in Nat
    BY <2>1, <2>2
  <2>4. n + 1 \in Nat
    OBVIOUS
  <2> QED BY <2>3, <2>4, Zenon
<1>3. Nat \subseteq N
  <2> HIDE DEF N
  <2> QED BY <1>1, <1>2, SetInduction
<1>4. S \in SUBSET S /\ Cardinality(S) \in N /\ S \in Upto(S, Cardinality(S))
  BY <1>3, Sizes DEF Upto
<1> QED BY <1>4

-----------------------------------------------------------------------------
\* Induction on the subsets of a finite set.
LEMMA SubsetInduction ==
    ASSUME NEW S, IsFiniteSet(S), NEW P, {} \in P,
           \A s \in SUBSET S : \A x \in S \ s : s \in P => s \union {x} \in P
    PROVE  \A s \in SUBSET S : s \in P
<1> DEFINE N == {n \in Nat : \A s \in Upto(S, n) : s \in P}
<1>1. 0 \in N
  <2>1. ASSUME NEW s \in Upto(S, 0) PROVE s = {}
    <3>1. s \in SUBSET S /\ Cardinality(s) <= 0
      BY DEF Upto
    <3> QED BY <3>1, Sizes
  <2> QED BY <2>1
<1>2. ASSUME NEW n \in Nat, n \in N PROVE n + 1 \in N
  <2>1. ASSUME NEW s \in Upto(S, n + 1) PROVE s \in P
    <3>1. s \in SUBSET S /\ Cardinality(s) <= n + 1
      BY DEF Upto
    <3>2. ASSUME NEW x \in s PROVE s \in P
      <4>1. Cardinality(s) \in Nat /\ Cardinality(s \ {x}) = Cardinality(s) - 1
        BY <3>1, Sizes
      <4>2. s \ {x} \in Upto(S, n)
        BY <3>1, <4>1 DEF Upto
      <4>3. s \ {x} \in P /\ x \in S \ (s \ {x}) /\ s \ {x} \in SUBSET S
        BY <1>2, <3>1, <4>2
      <4>4. (s \ {x}) \union {x} = s
        OBVIOUS
      <4>5. (s \ {x}) \union {x} \in P
        BY <4>3
      <4> QED BY <4>4, <4>5
    <3> QED BY <3>2
  <2> QED BY <2>1
<1>3. Nat \subseteq N
  <2> HIDE DEF N
  <2> QED BY <1>1, <1>2, SetInduction
<1>4. ASSUME NEW s \in SUBSET S PROVE s \in P
  <2>1. Cardinality(s) \in N /\ s \in Upto(S, Cardinality(s))
    BY <1>3, Sizes DEF Upto
  <2> QED BY <2>1
<1> QED BY <1>4

\* Two solutions of the recursion agree where both are defined.
LEMMA SumsAgree ==
    ASSUME NEW f, NEW S, IsFiniteSet(S), NEW T \in SUBSET S,
           NEW first, \A s \in SUBSET S : s # {} => first[s] \in s,
           NEW g, IsSum(f, first, S, g), NEW h, IsSum(f, first, T, h)
    PROVE  g[T] = h[T]
<1> DEFINE N == {n \in Nat : \A s \in Upto(T, n) : g[s] = h[s]}
<1>0. IsFiniteSet(T)
  BY FS_Subset
<1>1. /\ \A s \in SUBSET S : g[s] = Up(f, first, g, s)
      /\ \A s \in SUBSET T : h[s] = Up(f, first, h, s)
  BY DEF IsSum
<1>2. 0 \in N
  <2>1. ASSUME NEW s \in Upto(T, 0) PROVE g[s] = h[s]
    <3>1. s \in SUBSET T /\ Cardinality(s) <= 0
      BY DEF Upto
    <3>2. s = {}
      BY <1>0, <3>1, Sizes
    <3> QED BY <1>1, <3>2 DEF Up
  <2> QED BY <2>1
<1>3. ASSUME NEW n \in Nat, n \in N PROVE n + 1 \in N
  <2>1. ASSUME NEW s \in Upto(T, n + 1) PROVE g[s] = h[s]
    <3>1. s \in SUBSET T /\ Cardinality(s) <= n + 1
      BY DEF Upto
    <3>2. CASE s = {}
      BY <1>1, <3>2 DEF Up
    <3>3. CASE s # {}
      <4> DEFINE r == s \ {first[s]}
      <4>1. r \in SUBSET T /\ Cardinality(s) \in Nat /\ Cardinality(r) = Cardinality(s) - 1
        BY <1>0, <3>1, <3>3, Sizes
      <4>2. r \in Upto(T, n)
        BY <3>1, <4>1 DEF Upto
      <4>3. g[r] = h[r]
        BY <1>3, <4>2
      <4>4. g[s] = f[first[s]] + g[r] /\ h[s] = f[first[s]] + h[r]
        BY <1>1, <3>1, <3>3 DEF Up
      <4> QED BY <4>3, <4>4
    <3> QED BY <3>2, <3>3
  <2> QED BY <2>1
<1>4. Nat \subseteq N
  <2> HIDE DEF N
  <2> QED BY <1>2, <1>3, SetInduction
<1>5. Cardinality(T) \in N /\ T \in Upto(T, Cardinality(T))
  BY <1>0, <1>4, Sizes DEF Upto
<1> QED BY <1>5

\* The library's sum takes out the element CHOOSE names.
Some(S) == [s \in SUBSET S |-> CHOOSE x \in s : TRUE]

LEMMA SumIs ==
    ASSUME NEW f, NEW S, IsFiniteSet(S), \A x \in S : f[x] \in Nat
    PROVE  \E g : IsSum(f, Some(S), S, g) /\ SumFunctionOnSet(f, S) = g[S]
<1> DEFINE Sums(g) == g = [s \in SUBSET S |-> IF s = {} THEN 0
                ELSE f[CHOOSE x \in s : TRUE] + g[s \ {CHOOSE x \in s : TRUE}]]
<1>1. SumFunctionOnSet(f, S) = (CHOOSE g : Sums(g))[S]
  BY DEF SumFunctionOnSet, FoldFunctionOnSet, MapThenFoldSet
<1>2. \A s \in SUBSET S : s # {} => Some(S)[s] \in s
  BY DEF Some
<1>3. ASSUME NEW g PROVE Sums(g) <=> IsSum(f, Some(S), S, g)
  <2>1. \A s \in SUBSET S : Up(f, Some(S), g, s)
            = IF s = {} THEN 0 ELSE f[CHOOSE x \in s : TRUE] + g[s \ {CHOOSE x \in s : TRUE}]
    BY DEF Up, Some
  <2> QED BY <2>1, Zenon DEF IsSum
<1> HIDE DEF Sums
<1>4. PICK g : IsSum(f, Some(S), S, g)
  BY <1>2, SumsExist
<1>5. Sums(CHOOSE k : Sums(k))
  BY <1>3, <1>4
<1> QED BY <1>1, <1>3, <1>5

\* The sum of finitely many numbers is a number.
LEMMA SumType ==
    ASSUME NEW f, NEW S, IsFiniteSet(S), \A x \in S : f[x] \in Nat
    PROVE  SumFunctionOnSet(f, S) \in Nat
<1>1. \A s \in SUBSET S : s # {} => Some(S)[s] \in s
  BY DEF Some
<1>2. PICK g : IsSum(f, Some(S), S, g) /\ SumFunctionOnSet(f, S) = g[S]
  BY SumIs
<1> QED BY <1>1, <1>2, SumsAreNumbers

LEMMA SumEmpty == ASSUME NEW f PROVE SumFunctionOnSet(f, {}) = 0
<1>1. PICK g : IsSum(f, Some({}), {}, g) /\ SumFunctionOnSet(f, {}) = g[{}]
  BY SumIs, FS_EmptySet
<1>2. g[{}] = Up(f, Some({}), g, {})
  BY <1>1 DEF IsSum
<1> QED BY <1>1, <1>2 DEF Up

\* One step of the library's recursion.
LEMMA SumChosen ==
    ASSUME NEW f, NEW S, IsFiniteSet(S), \A x \in S : f[x] \in Nat, S # {}
    PROVE  \E c \in S : SumFunctionOnSet(f, S) = f[c] + SumFunctionOnSet(f, S \ {c})
<1> DEFINE c == CHOOSE x \in S : TRUE
           T == S \ {c}
<1>1. c \in S /\ T \in SUBSET S /\ IsFiniteSet(T)
  BY FS_RemoveElement
<1>2. \A s \in SUBSET S : s # {} => Some(S)[s] \in s
  BY DEF Some
<1>3. PICK g : IsSum(f, Some(S), S, g) /\ SumFunctionOnSet(f, S) = g[S]
  BY SumIs
<1>4. PICK h : IsSum(f, Some(T), T, h) /\ SumFunctionOnSet(f, T) = h[T]
  BY <1>1, SumIs
<1>5. IsSum(f, Some(S), T, h)
  <2>1. ASSUME NEW s \in SUBSET T PROVE Up(f, Some(S), h, s) = Up(f, Some(T), h, s)
    BY <1>1 DEF Up, Some
  <2> QED BY <1>4, <2>1, Zenon DEF IsSum
<1>6. g[T] = h[T]
  BY <1>1, <1>2, <1>3, <1>5, SumsAgree
<1>7. g[S] = Up(f, Some(S), g, S)
  BY <1>3 DEF IsSum
<1>8. g[S] = f[c] + g[T]
  BY <1>7 DEF Up, Some
<1> QED BY <1>1, <1>3, <1>4, <1>6, <1>8

\* Which element is taken out first does not matter.
LEMMA SumRemove ==
    ASSUME NEW f, NEW S, IsFiniteSet(S), \A x \in S : f[x] \in Nat, NEW x \in S
    PROVE  SumFunctionOnSet(f, S) = f[x] + SumFunctionOnSet(f, S \ {x})
<1> DEFINE Good(s) == \A y \in s : SumFunctionOnSet(f, s) = f[y] + SumFunctionOnSet(f, s \ {y})
           N == {n \in Nat : \A s \in Upto(S, n) : Good(s)}
<1>1. 0 \in N
  <2>1. ASSUME NEW s \in Upto(S, 0) PROVE s = {}
    <3>1. s \in SUBSET S /\ Cardinality(s) <= 0
      BY DEF Upto
    <3> QED BY <3>1, Sizes
  <2> QED BY <2>1
<1>2. ASSUME NEW n \in Nat, n \in N PROVE n + 1 \in N
  <2>1. ASSUME NEW s \in Upto(S, n + 1), NEW y \in s
        PROVE  SumFunctionOnSet(f, s) = f[y] + SumFunctionOnSet(f, s \ {y})
    <3>1. s \in SUBSET S /\ Cardinality(s) <= n + 1 /\ IsFiniteSet(s)
      BY FS_Subset DEF Upto
    <3>2. PICK c \in s : SumFunctionOnSet(f, s) = f[c] + SumFunctionOnSet(f, s \ {c})
      BY <3>1, SumChosen
    <3>3. CASE y = c
      BY <3>2, <3>3
    <3>4. CASE y # c
      <4>1. \A z \in s : s \ {z} \in Upto(S, n)
        <5> TAKE z \in s
        <5>1. Cardinality(s) \in Nat /\ Cardinality(s \ {z}) = Cardinality(s) - 1
          BY <3>1, Sizes
        <5> QED BY <3>1, <5>1 DEF Upto
      <4>2. /\ s \ {c} \in Upto(S, n) /\ s \ {y} \in Upto(S, n)
            /\ y \in s \ {c} /\ c \in s \ {y}
        BY <3>4, <4>1
      <4>3. Good(s \ {c}) /\ Good(s \ {y})
        BY <1>2, <4>2
      <4>4. /\ SumFunctionOnSet(f, s \ {c}) = f[y] + SumFunctionOnSet(f, (s \ {c}) \ {y})
            /\ SumFunctionOnSet(f, s \ {y}) = f[c] + SumFunctionOnSet(f, (s \ {y}) \ {c})
        BY <4>2, <4>3
      <4>5. (s \ {c}) \ {y} = (s \ {y}) \ {c} /\ IsFiniteSet((s \ {y}) \ {c})
        BY <3>1, FS_Subset
      <4>6. SumFunctionOnSet(f, (s \ {y}) \ {c}) \in Nat /\ f[c] \in Nat /\ f[y] \in Nat
        BY <3>1, <4>5, SumType
      <4> QED BY <3>2, <4>4, <4>5, <4>6
    <3> QED BY <3>3, <3>4
  <2> QED BY <2>1
<1>3. Nat \subseteq N
  <2> HIDE DEF N
  <2> QED BY <1>1, <1>2, SetInduction
<1>4. Cardinality(S) \in N /\ S \in Upto(S, Cardinality(S))
  BY <1>3, Sizes DEF Upto
<1>5. Good(S)
  BY <1>4
<1> QED BY <1>5

\* An element more.
LEMMA SumAdd ==
    ASSUME NEW f, NEW S, IsFiniteSet(S), NEW x, x \notin S, f[x] \in Nat,
           \A y \in S : f[y] \in Nat
    PROVE  SumFunctionOnSet(f, S \union {x}) = f[x] + SumFunctionOnSet(f, S)
<1>1. IsFiniteSet(S \union {x}) /\ (S \union {x}) \ {x} = S
  BY FS_AddElement
<1> QED BY <1>1, SumRemove

-----------------------------------------------------------------------------
\* Element by element no more on a set no larger.
LEMMA SumLess ==
    ASSUME NEW S, IsFiniteSet(S), NEW f, NEW g, NEW T \in SUBSET S,
           \A x \in T : f[x] \in Nat /\ f[x] <= g[x], \A x \in S : g[x] \in Nat
    PROVE  SumFunctionOnSet(f, T) <= SumFunctionOnSet(g, S)
<1> DEFINE P == {s \in SUBSET S : SumFunctionOnSet(f, s \intersect T) <= SumFunctionOnSet(g, s)}
<1>1. {} \in P
  <2>1. {} \intersect T = {}
    OBVIOUS
  <2> QED BY <2>1, SumEmpty
<1>2. ASSUME NEW s \in SUBSET S, NEW x \in S \ s, s \in P PROVE s \union {x} \in P
  <2>1. IsFiniteSet(s) /\ IsFiniteSet(s \intersect T)
    BY FS_Subset
  <2>2. /\ SumFunctionOnSet(f, s \intersect T) \in Nat /\ SumFunctionOnSet(g, s) \in Nat
        /\ SumFunctionOnSet(f, s \intersect T) <= SumFunctionOnSet(g, s)
        /\ SumFunctionOnSet(g, s \union {x}) = g[x] + SumFunctionOnSet(g, s)
    BY <1>2, <2>1, SumType, SumAdd
  <2>3. CASE x \in T
    <3>1. (s \union {x}) \intersect T = (s \intersect T) \union {x} /\ x \notin s \intersect T
      BY <2>3
    <3>2. SumFunctionOnSet(f, (s \intersect T) \union {x}) = f[x] + SumFunctionOnSet(f, s \intersect T)
      BY <2>1, <2>3, <3>1, SumAdd
    <3> QED BY <2>2, <2>3, <3>1, <3>2
  <2>4. CASE x \notin T
    <3>1. (s \union {x}) \intersect T = s \intersect T
      BY <2>4
    <3>2. SumFunctionOnSet(f, (s \union {x}) \intersect T) = SumFunctionOnSet(f, s \intersect T)
      BY <3>1, Zenon
    <3> QED BY <2>2, <3>2
  <2> QED BY <2>3, <2>4
<1>3. S \in P
  <2> HIDE DEF P
  <2> QED BY <1>1, <1>2, SubsetInduction
<1>4. S \intersect T = T
  OBVIOUS
<1> QED BY <1>3, <1>4

\* Sums add up element by element, ...
LEMMA SumPlus ==
    ASSUME NEW S, IsFiniteSet(S), NEW f, NEW g, NEW h,
           \A x \in S : f[x] \in Nat /\ g[x] \in Nat /\ h[x] = f[x] + g[x]
    PROVE  SumFunctionOnSet(h, S) = SumFunctionOnSet(f, S) + SumFunctionOnSet(g, S)
<1> DEFINE P == {s \in SUBSET S :
                   SumFunctionOnSet(h, s) = SumFunctionOnSet(f, s) + SumFunctionOnSet(g, s)}
<1>1. {} \in P
  BY SumEmpty
<1>2. ASSUME NEW s \in SUBSET S, NEW x \in S \ s, s \in P PROVE s \union {x} \in P
  <2>1. IsFiniteSet(s) /\ \A y \in S : h[y] \in Nat
    BY FS_Subset
  <2>2. /\ SumFunctionOnSet(f, s) \in Nat /\ SumFunctionOnSet(g, s) \in Nat
        /\ SumFunctionOnSet(f, s \union {x}) = f[x] + SumFunctionOnSet(f, s)
        /\ SumFunctionOnSet(g, s \union {x}) = g[x] + SumFunctionOnSet(g, s)
        /\ SumFunctionOnSet(h, s \union {x}) = h[x] + SumFunctionOnSet(h, s)
    BY <2>1, SumType, SumAdd
  <2> QED BY <1>2, <2>2
<1>3. S \in P
  <2> HIDE DEF P
  <2> QED BY <1>1, <1>2, SubsetInduction
<1> QED BY <1>3

\* ... on two sets without a common element, ...
LEMMA SumUnion ==
    ASSUME NEW S, IsFiniteSet(S), NEW T \in SUBSET S, NEW f, \A x \in S : f[x] \in Nat
    PROVE  SumFunctionOnSet(f, S) = SumFunctionOnSet(f, T) + SumFunctionOnSet(f, S \ T)
<1> DEFINE P == {s \in SUBSET S : SumFunctionOnSet(f, s)
                   = SumFunctionOnSet(f, s \intersect T) + SumFunctionOnSet(f, s \ T)}
<1>1. {} \in P
  <2>1. {} \intersect T = {} /\ {} \ T = {}
    OBVIOUS
  <2> QED BY <2>1, SumEmpty
<1>2. ASSUME NEW s \in SUBSET S, NEW x \in S \ s, s \in P PROVE s \union {x} \in P
  <2>1. IsFiniteSet(s) /\ IsFiniteSet(s \intersect T) /\ IsFiniteSet(s \ T)
    BY FS_Subset
  <2>2. /\ SumFunctionOnSet(f, s \intersect T) \in Nat /\ SumFunctionOnSet(f, s \ T) \in Nat
        /\ SumFunctionOnSet(f, s \union {x}) = f[x] + SumFunctionOnSet(f, s)
    BY <2>1, SumType, SumAdd
  <2>3. CASE x \in T
    <3>1. /\ (s \union {x}) \intersect T = (s \intersect T) \union {x}
          /\ (s \union {x}) \ T = s \ T /\ x \notin s \intersect T
      BY <2>3
    <3>2. SumFunctionOnSet(f, (s \intersect T) \union {x}) = f[x] + SumFunctionOnSet(f, s \intersect T)
      BY <2>1, <3>1, SumAdd
    <3>3. /\ SumFunctionOnSet(f, (s \union {x}) \intersect T) = SumFunctionOnSet(f, (s \intersect T) \union {x})
          /\ SumFunctionOnSet(f, (s \union {x}) \ T) = SumFunctionOnSet(f, s \ T)
      BY <3>1, Zenon
    <3> QED BY <1>2, <2>2, <3>2, <3>3
  <2>4. CASE x \notin T
    <3>1. /\ (s \union {x}) \intersect T = s \intersect T
          /\ (s \union {x}) \ T = (s \ T) \union {x} /\ x \notin s \ T
      BY <2>4
    <3>2. SumFunctionOnSet(f, (s \ T) \union {x}) = f[x] + SumFunctionOnSet(f, s \ T)
      BY <2>1, <3>1, SumAdd
    <3>3. /\ SumFunctionOnSet(f, (s \union {x}) \intersect T) = SumFunctionOnSet(f, s \intersect T)
          /\ SumFunctionOnSet(f, (s \union {x}) \ T) = SumFunctionOnSet(f, (s \ T) \union {x})
      BY <3>1, Zenon
    <3> QED BY <1>2, <2>2, <3>2, <3>3
  <2> QED BY <2>3, <2>4
<1>3. S \in P
  <2> HIDE DEF P
  <2> QED BY <1>1, <1>2, SubsetInduction
<1>4. S \intersect T = T
  OBVIOUS
<1> QED BY <1>3, <1>4

\* ... and with a common factor.
LEMMA SumTimes ==
    ASSUME NEW S, IsFiniteSet(S), NEW f, NEW g, NEW k \in Nat,
           \A x \in S : f[x] \in Nat /\ g[x] = k * f[x]
    PROVE  SumFunctionOnSet(g, S) = k * SumFunctionOnSet(f, S)
<1> DEFINE P == {s \in SUBSET S : SumFunctionOnSet(g, s) = k * SumFunctionOnSet(f, s)}
<1>1. {} \in P
  BY SumEmpty
<1>2. ASSUME NEW s \in SUBSET S, NEW x \in S \ s, s \in P PROVE s \union {x} \in P
  <2>1. IsFiniteSet(s) /\ \A y \in S : g[y] \in Nat
    BY FS_Subset
  <2>2. /\ SumFunctionOnSet(f, s) \in Nat
        /\ SumFunctionOnSet(f, s \union {x}) = f[x] + SumFunctionOnSet(f, s)
        /\ SumFunctionOnSet(g, s \union {x}) = g[x] + SumFunctionOnSet(g, s)
    BY <2>1, SumType, SumAdd
  <2>3. \A a, b \in Nat : k * (a + b) = k * a + k * b
    OBVIOUS
  <2>4. k * (f[x] + SumFunctionOnSet(f, s)) = k * f[x] + k * SumFunctionOnSet(f, s)
    BY <2>2, <2>3
  <2> QED BY <1>2, <2>2, <2>4
<1>3. S \in P
  <2> HIDE DEF P
  <2> QED BY <1>1, <1>2, SubsetInduction
<1> QED BY <1>3

\* Element by element no more, but for one element.
LEMMA SumAlmostLess ==
    ASSUME NEW S, IsFiniteSet(S), NEW f, NEW g, NEW m \in Nat,
           \A x \in S : f[x] \in Nat /\ g[x] \in Nat /\ f[x] <= g[x] + m,
           \A x, y \in S : x # y => f[x] <= g[x] \/ f[y] <= g[y]
    PROVE  SumFunctionOnSet(f, S) <= SumFunctionOnSet(g, S) + m
<1>1. SumFunctionOnSet(f, S) \in Nat /\ SumFunctionOnSet(g, S) \in Nat
  BY SumType
<1>2. CASE \A x \in S : f[x] <= g[x]
  <2>1. SumFunctionOnSet(f, S) <= SumFunctionOnSet(g, S)
    BY <1>2, SumLess
  <2> QED BY <1>1, <2>1
<1>3. ASSUME NEW p \in S, ~(f[p] <= g[p])
      PROVE  SumFunctionOnSet(f, S) <= SumFunctionOnSet(g, S) + m
  <2>1. IsFiniteSet(S \ {p})
    BY FS_RemoveElement
  <2>2. SumFunctionOnSet(f, S \ {p}) \in Nat /\ SumFunctionOnSet(g, S \ {p}) \in Nat
    BY <2>1, SumType
  <2>3. SumFunctionOnSet(f, S \ {p}) <= SumFunctionOnSet(g, S \ {p})
    <3>1. \A x \in S \ {p} : f[x] \in Nat /\ f[x] <= g[x] /\ g[x] \in Nat
      BY <1>3
    <3> QED BY <2>1, <3>1, SumLess
  <2>4. /\ SumFunctionOnSet(f, S) = f[p] + SumFunctionOnSet(f, S \ {p})
        /\ SumFunctionOnSet(g, S) = g[p] + SumFunctionOnSet(g, S \ {p})
    BY SumRemove
  <2> QED BY <2>2, <2>3, <2>4
<1> QED BY <1>2, <1>3

-----------------------------------------------------------------------------
LEMMA MaxOfTwo ==
    ASSUME NEW a \in Int, NEW b \in Int
    PROVE  Max({a, b}) = IF a >= b THEN a ELSE b
<1> DEFINE m == IF a >= b THEN a ELSE b
<1>1. m \in {a, b} /\ \A y \in {a, b} : m >= y
  OBVIOUS
<1>2. \A x \in {a, b} : (\A y \in {a, b} : x >= y) => x = m
  OBVIOUS
<1> HIDE DEF m
<1>3. Max({a, b}) = m
  BY <1>1, <1>2 DEF Max
<1> QED BY <1>3 DEF m

LEMMA MinOfTwo ==
    ASSUME NEW a \in Int, NEW b \in Int
    PROVE  Min({a, b}) = IF a <= b THEN a ELSE b
<1> DEFINE m == IF a <= b THEN a ELSE b
<1>1. m \in {a, b} /\ \A y \in {a, b} : m <= y
  OBVIOUS
<1>2. \A x \in {a, b} : (\A y \in {a, b} : x <= y) => x = m
  OBVIOUS
<1> HIDE DEF m
<1>3. Min({a, b}) = m
  BY <1>1, <1>2 DEF Min
<1> QED BY <1>3 DEF m

\* A finite set of numbers that is not empty has a largest one.
LEMMA Largest ==
    ASSUME NEW S \in SUBSET Int, IsFiniteSet(S), S # {}
    PROVE  Max(S) \in S /\ \A x \in S : x <= Max(S)
<1> DEFINE Top(s, m) == m \in s /\ \A x \in s : m >= x
           P == {s \in SUBSET S : s = {} \/ \E m \in s : Top(s, m)}
<1>1. {} \in P
  OBVIOUS
<1>2. ASSUME NEW s \in SUBSET S, NEW x \in S \ s, s \in P PROVE s \union {x} \in P
  <2>1. CASE s = {}
    <3>1. Top(s \union {x}, x)
      BY <2>1
    <3> QED BY <3>1
  <2>2. CASE s # {}
    <3>1. PICK m \in s : Top(s, m)
      BY <1>2, <2>2
    <3>2. Top(s \union {x}, m) \/ Top(s \union {x}, x)
      BY <3>1
    <3> QED BY <3>2
  <2> QED BY <2>1, <2>2
<1>3. S \in P
  <2> HIDE DEF P
  <2> QED BY <1>1, <1>2, SubsetInduction
<1>4. PICK m \in S : Top(S, m)
  BY <1>3
<1> QED BY <1>4 DEF Max
=============================================================================
