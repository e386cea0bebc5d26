-------------------------- MODULE Waterfall_proofs --------------------------
(***************************************************************************)
(* The four properties of Distribution hold for every fleet and limit.     *)
(* The loop over sorted devices (Allot) is a fold; its closed form is what *)
(* the properties are about.                                               *)
(***************************************************************************)
EXTENDS Distribution, Sums

-----------------------------------------------------------------------------
\* A strict total order of the devices in D.
Ordered(order, D) ==
    /\ \A d \in D : <<d, d>> \notin order
    /\ \A d, e \in D : d # e => <<d, e>> \in order \/ <<e, d>> \in order
    /\ \A d, e, c \in D : <<d, e>> \in order /\ <<e, c>> \in order => <<d, c>> \in order

\* A finite set of devices has a last one.
LEMMA LastIs ==
    ASSUME NEW D, IsFiniteSet(D), NEW order, Ordered(order, D),
           NEW S \in SUBSET D, S # {}
    PROVE  /\ LastOf(order, S) \in S
           /\ \A e \in S \ {LastOf(order, S)} : <<e, LastOf(order, S)>> \in order
<1> DEFINE Final(s, d) == \A e \in s \ {d} : <<e, d>> \in order
           P == {s \in SUBSET D : s = {} \/ \E d \in s : Final(s, d)}
<1>1. {} \in P
  OBVIOUS
<1>2. ASSUME NEW s \in SUBSET D, NEW x \in D \ s, s \in P PROVE s \union {x} \in P
  <2>1. CASE s = {}
    <3>1. Final(s \union {x}, x)
      BY <2>1
    <3> QED BY <3>1
  <2>2. CASE s # {}
    <3>1. PICK d \in s : Final(s, d)
      BY <1>2, <2>2
    <3>2. CASE <<x, d>> \in order
      <4>1. Final(s \union {x}, d)
        BY <3>1, <3>2
      <4> QED BY <4>1
    <3>3. CASE <<d, x>> \in order
      <4>1. ASSUME NEW e \in s PROVE <<e, x>> \in order
        <5>1. e = d \/ <<e, d>> \in order
          BY <3>1
        <5>2. e \in D /\ d \in D /\ x \in D
          OBVIOUS
        <5> QED BY <3>3, <5>1, <5>2 DEF Ordered
      <4>2. Final(s \union {x}, x)
        BY <4>1
      <4> QED BY <4>2
    <3> QED BY <3>1, <3>2, <3>3 DEF Ordered
  <2> QED BY <2>1, <2>2
<1>3. S \in P
  <2> HIDE DEF P
  <2> QED BY <1>1, <1>2, SubsetInduction
<1>4. PICK d \in S : Final(S, d)
  BY <1>3
<1> QED BY <1>4 DEF LastOf

-----------------------------------------------------------------------------
(***************************************************************************)
(* The closed form of Allot: a device gets what those before it leave, at  *)
(* most its cap.                                                           *)
(***************************************************************************)

Part(c, left) == IF left <= 0 THEN 0 ELSE IF c <= left THEN c ELSE left

Before(order, S, d) == {e \in S : <<e, d>> \in order}

\* What is left for d of an amount for S.
LeftFor(order, cap, amount, S, d) ==
    amount - SumFunctionOnSet(cap, Before(order, S, d))

\* The recursion of the fold, and its solution.
Nothing(cap, amount) == [left |-> amount, share |-> [d \in DOMAIN cap |-> 0]]

Taken(cap, d, acc) ==
    [left  |-> acc.left - Min({acc.left, cap[d]}),
     share |-> [acc.share EXCEPT ![d] = Min({acc.left, cap[d]})]]

Pass(order, cap, amount, g, s) ==
    IF s = {} THEN Nothing(cap, amount)
    ELSE Taken(cap, LastOf(order, s), g[s \ {LastOf(order, s)}])

IsPass(order, cap, amount, g) ==
    g = [s \in SUBSET DOMAIN cap |-> Pass(order, cap, amount, g, s)]

Ideal(order, cap, amount, s) ==
    [left  |-> Part(amount, amount - SumFunctionOnSet(cap, s)),
     share |-> [d \in DOMAIN cap |->
                  IF d \in s THEN Part(cap[d], LeftFor(order, cap, amount, s, d)) ELSE 0]]

\* The caps and the order of one loop.
LoopInput(order, cap, amount) ==
    /\ IsFiniteSet(DOMAIN cap) /\ Ordered(order, DOMAIN cap)
    /\ amount \in Nat
    /\ \A d \in DOMAIN cap : cap[d] \in Nat

LEMMA LeftForType ==
    ASSUME NEW order, NEW cap, NEW amount, LoopInput(order, cap, amount),
           NEW S \in SUBSET DOMAIN cap, NEW d
    PROVE  /\ SumFunctionOnSet(cap, S) \in Nat
           /\ SumFunctionOnSet(cap, Before(order, S, d)) \in Nat
           /\ LeftFor(order, cap, amount, S, d) \in Int
<1>1. \A T \in SUBSET DOMAIN cap : SumFunctionOnSet(cap, T) \in Nat
  <2> TAKE T \in SUBSET DOMAIN cap
  <2>1. IsFiniteSet(T) /\ \A x \in T : cap[x] \in Nat
    BY FS_Subset DEF LoopInput
  <2> QED BY <2>1, SumType
<1>2. Before(order, S, d) \in SUBSET DOMAIN cap
  BY DEF Before
<1>3. SumFunctionOnSet(cap, Before(order, S, d)) \in Nat
  BY <1>1, <1>2
<1> QED BY <1>1, <1>3 DEF LeftFor, LoopInput

\* The last of a set is preceded by the others, and precedes none.
SplitsOff(order, s, x) ==
    /\ x \in s
    /\ Before(order, s, x) = s \ {x}
    /\ \A d \in s \ {x} : Before(order, s, d) = Before(order, s \ {x}, d)

LEMMA BeforeLast ==
    ASSUME NEW order, NEW D, IsFiniteSet(D), Ordered(order, D), NEW s \in SUBSET D, s # {}
    PROVE  SplitsOff(order, s, LastOf(order, s))
<1> DEFINE x == LastOf(order, s)
<1>1. x \in s /\ \A e \in s \ {x} : <<e, x>> \in order
  BY LastIs
<1> HIDE DEF x
<1>2. Before(order, s, x) = s \ {x}
  BY <1>1 DEF Before, Ordered
<1>3. ASSUME NEW d \in s \ {x} PROVE Before(order, s, d) = Before(order, s \ {x}, d)
  <2>1. <<d, x>> \in order /\ d \in D /\ x \in D
    BY <1>1
  <2>2. <<x, d>> \notin order
    BY <2>1 DEF Ordered
  <2> QED BY <2>2 DEF Before
<1>4. SplitsOff(order, s, x)
  BY <1>1, <1>2, <1>3 DEF SplitsOff
<1> QED BY <1>4 DEF x

\* One step of the loop takes the solution for the others to the solution.
LEMMA IdealStep ==
    ASSUME NEW order, NEW cap, NEW amount, LoopInput(order, cap, amount),
           NEW s \in SUBSET DOMAIN cap, s # {}
    PROVE  LET x == LastOf(order, s)
           IN  Taken(cap, x, Ideal(order, cap, amount, s \ {x})) = Ideal(order, cap, amount, s)
<1> DEFINE x == LastOf(order, s)
           r == s \ {x}
           R == SumFunctionOnSet(cap, r)
           acc == Ideal(order, cap, amount, r)
<1>1. /\ x \in s /\ r \in SUBSET DOMAIN cap /\ x \notin r
      /\ Before(order, s, x) = r
      /\ \A d \in r : Before(order, s, d) = Before(order, r, d)
  <2>1. SplitsOff(order, s, x)
    BY BeforeLast DEF LoopInput
  <2> HIDE DEF x
  <2> QED BY <2>1 DEF SplitsOff
<1>2. IsFiniteSet(s) /\ (\A d \in s : cap[d] \in Nat) /\ cap[x] \in Nat /\ amount \in Nat
  BY <1>1, FS_Subset DEF LoopInput
<1>3. R \in Nat
  BY <1>1, LeftForType
<1>4. SumFunctionOnSet(cap, s) = cap[x] + R
  BY <1>1, <1>2, SumRemove
<1> HIDE DEF x, r
<1>5. acc.left = Part(amount, amount - R) /\ acc.left \in Int
  BY <1>2, <1>3 DEF Ideal, Part
<1>6. Min({acc.left, cap[x]}) = Part(cap[x], amount - R)
  <2>1. Min({acc.left, cap[x]}) = IF acc.left <= cap[x] THEN acc.left ELSE cap[x]
    BY <1>2, <1>5, MinOfTwo
  <2> QED BY <1>2, <1>3, <1>5, <2>1 DEF Part
<1>7. acc.left - Part(cap[x], amount - R) = Part(amount, amount - (cap[x] + R))
  BY <1>2, <1>3, <1>5 DEF Part
<1>8. LeftFor(order, cap, amount, s, x) = amount - R
  BY <1>1 DEF LeftFor
<1>9. \A d \in r : LeftFor(order, cap, amount, s, d) = LeftFor(order, cap, amount, r, d)
  BY <1>1, Zenon DEF LeftFor
<1>10. [acc.share EXCEPT ![x] = Part(cap[x], amount - R)] = Ideal(order, cap, amount, s).share
  <2> DEFINE new == [acc.share EXCEPT ![x] = Part(cap[x], amount - R)]
             old == acc.share
             ideal == Ideal(order, cap, amount, s).share
  <2>1. /\ DOMAIN old = DOMAIN cap
        /\ old = [d \in DOMAIN old |-> old[d]]
        /\ \A d \in DOMAIN cap : old[d] = IF d \in r THEN Part(cap[d], LeftFor(order, cap, amount, r, d)) ELSE 0
    BY DEF Ideal
  <2>2. /\ DOMAIN ideal = DOMAIN cap
        /\ ideal = [d \in DOMAIN ideal |-> ideal[d]]
        /\ \A d \in DOMAIN cap : ideal[d] = IF d \in s THEN Part(cap[d], LeftFor(order, cap, amount, s, d)) ELSE 0
    BY DEF Ideal
  <2> HIDE DEF old, ideal
  <2>3. ASSUME NEW d \in DOMAIN cap
        PROVE  (IF d = x THEN Part(cap[x], amount - R) ELSE old[d]) = ideal[d]
    <3>1. CASE d = x
      BY <1>1, <1>8, <2>2, <3>1
    <3>2. CASE d # x /\ d \in r
      <4>1. d \in s
        BY <3>2 DEF r
      <4> QED BY <1>9, <2>1, <2>2, <3>2, <4>1
    <3>3. CASE d # x /\ d \notin r
      <4>1. d \notin s
        BY <3>3 DEF r
      <4> QED BY <2>1, <2>2, <3>3, <4>1
    <3> QED BY <3>1, <3>2, <3>3
  <2>4. new = ideal
    BY <2>1, <2>2, <2>3 DEF old
  <2> QED BY <2>4 DEF ideal
<1>11. Taken(cap, x, acc) = Ideal(order, cap, amount, s)
  <2>1. Ideal(order, cap, amount, s) = [left  |-> Part(amount, amount - (cap[x] + R)),
                                        share |-> Ideal(order, cap, amount, s).share]
    BY <1>4 DEF Ideal
  <2> HIDE DEF acc
  <2>2. Taken(cap, x, acc) = [left  |-> acc.left - Part(cap[x], amount - R),
                              share |-> [acc.share EXCEPT ![x] = Part(cap[x], amount - R)]]
    BY <1>6 DEF Taken
  <2> QED BY <1>7, <1>10, <2>1, <2>2
<1> QED BY <1>11 DEF x, r
\* At most one function satisfies the recursion, ...
LEMMA PassIsIdeal ==
    ASSUME NEW order, NEW cap, NEW amount, LoopInput(order, cap, amount),
           NEW g, IsPass(order, cap, amount, g), NEW S \in SUBSET DOMAIN cap
    PROVE  g[S] = Ideal(order, cap, amount, S)
<1> DEFINE D == DOMAIN cap
           N == {n \in Nat : \A s \in Upto(D, n) : g[s] = Ideal(order, cap, amount, s)}
<1>0. IsFiniteSet(D)
  BY DEF LoopInput
<1>1. ASSUME NEW s \in SUBSET D, s = {} PROVE g[s] = Ideal(order, cap, amount, s)
  <2>1. g[s] = Nothing(cap, amount)
    BY <1>1 DEF IsPass, Pass
  <2>2. Part(amount, amount - SumFunctionOnSet(cap, s)) = amount
    BY <1>1, SumEmpty DEF Part, LoopInput
  <2>3. Ideal(order, cap, amount, s) = Nothing(cap, amount)
    BY <1>1, <2>2 DEF Ideal, Nothing
  <2> QED BY <2>1, <2>3
<1>2. 0 \in N
  <2>1. ASSUME NEW s \in Upto(D, 0) PROVE s = {} /\ s \in SUBSET D
    <3>1. s \in SUBSET D /\ Cardinality(s) <= 0
      BY DEF Upto
    <3> QED BY <1>0, <3>1, Sizes
  <2> QED BY <1>1, <2>1
<1>3. ASSUME NEW n \in Nat, n \in N PROVE n + 1 \in N
  <2>1. ASSUME NEW s \in Upto(D, n + 1) PROVE g[s] = Ideal(order, cap, amount, s)
    <3>1. s \in SUBSET D /\ Cardinality(s) <= n + 1
      BY DEF Upto
    <3>2. CASE s = {}
      BY <1>1, <3>1, <3>2
    <3>3. CASE s # {}
      <4> DEFINE x == LastOf(order, s)
                 r == s \ {x}
      <4>1. x \in s
        <5>1. Ordered(order, D)
          BY DEF LoopInput
        <5>2. SplitsOff(order, s, x)
          BY <1>0, <3>1, <3>3, <5>1, BeforeLast
        <5> QED BY <5>2 DEF SplitsOff
      <4>2. r \in SUBSET D /\ Cardinality(s) \in Nat /\ Cardinality(r) = Cardinality(s) - 1
        BY <1>0, <3>1, <4>1, Sizes
      <4>3. r \in Upto(D, n)
        BY <3>1, <4>2 DEF Upto
      <4>4. g[r] = Ideal(order, cap, amount, r)
        BY <1>3, <4>3
      <4>5. g[s] = Taken(cap, x, g[r])
        BY <3>1, <3>3 DEF IsPass, Pass
      <4>6. Taken(cap, x, Ideal(order, cap, amount, r)) = Ideal(order, cap, amount, s)
        BY <3>1, <3>3, IdealStep
      <4> HIDE DEF x, r
      <4> QED BY <4>4, <4>5, <4>6
    <3> QED BY <3>2, <3>3
  <2> QED BY <2>1
<1>4. Nat \subseteq N
  <2> HIDE DEF N
  <2> QED BY <1>2, <1>3, SetInduction
<1>5. Cardinality(S) \in N /\ S \in Upto(D, Cardinality(S))
  BY <1>0, <1>4, Sizes DEF Upto
<1> QED BY <1>5

\* ... and the closed form is one.
LEMMA IdealPasses ==
    ASSUME NEW order, NEW cap, NEW amount, LoopInput(order, cap, amount)
    PROVE  \E g : IsPass(order, cap, amount, g)
<1> DEFINE g == [s \in SUBSET DOMAIN cap |-> Ideal(order, cap, amount, s)]
<1>1. ASSUME NEW s \in SUBSET DOMAIN cap PROVE g[s] = Pass(order, cap, amount, g, s)
  <2>1. CASE s = {}
    <3>1. Part(amount, amount - SumFunctionOnSet(cap, s)) = amount
      BY <2>1, SumEmpty DEF Part, LoopInput
    <3>2. Ideal(order, cap, amount, s) = Nothing(cap, amount)
      BY <2>1, <3>1 DEF Ideal, Nothing
    <3> QED BY <2>1, <3>2 DEF Pass
  <2>2. CASE s # {}
    <3> DEFINE x == LastOf(order, s)
               r == s \ {x}
    <3>1. Taken(cap, x, Ideal(order, cap, amount, r)) = Ideal(order, cap, amount, s)
      BY <2>2, IdealStep
    <3>2. g[r] = Ideal(order, cap, amount, r) /\ g[s] = Ideal(order, cap, amount, s)
      OBVIOUS
    <3> HIDE DEF g
    <3> QED BY <2>2, <3>1, <3>2 DEF Pass
  <2> QED BY <2>1, <2>2
<1>2. g = [s \in SUBSET DOMAIN cap |-> Pass(order, cap, amount, g, s)]
  <2>1. g = [s \in SUBSET DOMAIN cap |-> g[s]]
    OBVIOUS
  <2> HIDE DEF g
  <2> QED BY <1>1, <2>1, Zenon
<1> QED BY <1>2 DEF IsPass

\* What the loop hands out.
LEMMA AllotIs ==
    ASSUME NEW order, NEW cap, NEW amount, LoopInput(order, cap, amount)
    PROVE  Allot(order, cap, amount)
             = [d \in DOMAIN cap |->
                  Part(cap[d], LeftFor(order, cap, amount, DOMAIN cap, d))]
<1> DEFINE D == DOMAIN cap
           base == [left |-> amount, share |-> [d \in DOMAIN cap |-> 0]]
           Loops(g) == g = [s \in SUBSET D |->
              IF s = {} THEN base
              ELSE [left  |-> g[s \ {LastOf(order, s)}].left
                                - Min({g[s \ {LastOf(order, s)}].left, cap[LastOf(order, s)]}),
                    share |-> [g[s \ {LastOf(order, s)}].share EXCEPT ![LastOf(order, s)] =
                                 Min({g[s \ {LastOf(order, s)}].left, cap[LastOf(order, s)]})]]]
<1>1. Allot(order, cap, amount) = (CHOOSE g : Loops(g))[D].share
  BY DEF Allot, MapThenFoldSet
<1>2. ASSUME NEW g PROVE Loops(g) <=> IsPass(order, cap, amount, g)
  BY Zenon DEF IsPass, Pass, Nothing, Taken
<1> HIDE DEF Loops
<1>3. Loops(CHOOSE g : Loops(g))
  BY <1>2, IdealPasses
<1>4. Allot(order, cap, amount) = Ideal(order, cap, amount, D).share
  BY <1>1, <1>2, <1>3, PassIsIdeal
<1> QED BY <1>4 DEF Ideal
\* A share is a number, at most the cap; whoever gets one, those before it got
\* their caps; so at most one device gets a part of its cap, and more to hand
\* out is no less for anyone.
LEMMA Shares ==
    ASSUME NEW order, NEW cap, NEW amount, LoopInput(order, cap, amount)
    PROVE  LET share == Allot(order, cap, amount)
           IN  /\ DOMAIN share = DOMAIN cap
               /\ \A d \in DOMAIN cap : share[d] \in Nat /\ share[d] <= cap[d]
               /\ \A d, e \in DOMAIN cap :
                    <<e, d>> \in order /\ share[d] > 0 => share[e] = cap[e]
               /\ \A d, e \in DOMAIN cap :
                    d # e => share[d] \in {0, cap[d]} \/ share[e] \in {0, cap[e]}
<1> DEFINE D == DOMAIN cap
           share == Allot(order, cap, amount)
           left(d) == LeftFor(order, cap, amount, D, d)
<1>1. DOMAIN share = D /\ \A d \in D : share[d] = Part(cap[d], left(d))
  BY AllotIs
<1>2. \A d \in D : left(d) \in Int /\ cap[d] \in Nat
  BY LeftForType DEF LoopInput
<1> HIDE DEF share
<1>3. \A d \in D : share[d] \in Nat /\ share[d] <= cap[d]
  <2> HIDE DEF left
  <2> QED BY <1>1, <1>2 DEF Part
<1>4. ASSUME NEW d \in D, NEW e \in D, <<e, d>> \in order, share[d] > 0
      PROVE  share[e] = cap[e]
  <2> DEFINE E == Before(order, D, e)
             B == Before(order, D, d)
  <2>1. E \union {e} \in SUBSET B /\ e \notin E /\ IsFiniteSet(B) /\ IsFiniteSet(E)
    <3>1. E \union {e} \in SUBSET B /\ e \notin E
      BY <1>4 DEF Before, LoopInput, Ordered
    <3>2. E \in SUBSET D /\ B \in SUBSET D
      BY DEF Before
    <3> QED BY <3>1, <3>2, FS_Subset DEF LoopInput
  <2>2. SumFunctionOnSet(cap, E) \in Nat /\ SumFunctionOnSet(cap, B) \in Nat /\ amount \in Nat
    BY LeftForType DEF LoopInput
  <2>3. (\A c \in B : cap[c] \in Nat) /\ (\A c \in E : cap[c] \in Nat) /\ cap[e] \in Nat
    BY DEF Before, LoopInput
  <2> HIDE DEF E, B
  <2>4. SumFunctionOnSet(cap, E \union {e}) = cap[e] + SumFunctionOnSet(cap, E)
    BY <2>1, <2>3, SumAdd
  <2>5. SumFunctionOnSet(cap, E \union {e}) <= SumFunctionOnSet(cap, B)
    <3>1. \A c \in E \union {e} : cap[c] \in Nat /\ cap[c] <= cap[c]
      BY <2>3
    <3> QED BY <2>1, <2>3, <3>1, SumLess
  <2>6. left(d) = amount - SumFunctionOnSet(cap, B) /\ left(e) = amount - SumFunctionOnSet(cap, E)
    BY DEF LeftFor, B, E
  <2> HIDE DEF left
  <2>7. left(d) > 0
    BY <1>1, <1>2, <1>4 DEF Part
  <2>8. left(e) > cap[e] /\ left(e) > 0
    BY <2>2, <2>3, <2>4, <2>5, <2>6, <2>7
  <2> QED BY <1>1, <1>2, <2>3, <2>8 DEF Part
<1>5. ASSUME NEW d \in D, NEW e \in D, d # e
      PROVE  share[d] \in {0, cap[d]} \/ share[e] \in {0, cap[e]}
  <2>1. <<d, e>> \in order \/ <<e, d>> \in order
    BY <1>5 DEF LoopInput, Ordered
  <2>2. CASE share[d] = 0 \/ share[e] = 0
    BY <2>2
  <2>3. CASE share[d] > 0 /\ share[e] > 0
    <3>1. share[d] = cap[d] \/ share[e] = cap[e]
      BY <1>4, <2>1, <2>3
    <3> QED BY <3>1
  <2>4. share[d] \in Nat /\ share[e] \in Nat
    BY <1>3
  <2> QED BY <2>2, <2>3, <2>4
<1> QED BY <1>1, <1>3, <1>4, <1>5 DEF share

\* No more is handed out than there is.
LEMMA SharesWithinAmount ==
    ASSUME NEW order, NEW cap, NEW amount, LoopInput(order, cap, amount)
    PROVE  SumFunctionOnSet(Allot(order, cap, amount), DOMAIN cap) <= amount
<1> DEFINE D == DOMAIN cap
           share == Allot(order, cap, amount)
           P == {d \in D : share[d] > 0}
<1>1. /\ IsFiniteSet(D) /\ IsFiniteSet(P) /\ IsFiniteSet(D \ P)
      /\ amount \in Nat /\ P \in SUBSET D
      /\ \A d \in D : cap[d] \in Nat
  BY FS_Subset DEF LoopInput
<1>2. \A d \in D : /\ share[d] \in Nat /\ share[d] <= cap[d]
                   /\ share[d] = Part(cap[d], LeftFor(order, cap, amount, D, d))
  BY Shares, AllotIs
<1> HIDE DEF share
<1>3. /\ SumFunctionOnSet(share, P) \in Nat
      /\ SumFunctionOnSet(share, D) = SumFunctionOnSet(share, P) + SumFunctionOnSet(share, D \ P)
  BY <1>1, <1>2, SumType, SumUnion
<1>4. SumFunctionOnSet(share, D \ P) = 0
  <2>1. \A d \in D \ P : share[d] \in Nat /\ share[d] = 0 * share[d]
    BY <1>2
  <2>2. SumFunctionOnSet(share, D \ P) \in Nat
    BY <1>1, <1>2, SumType
  <2>3. SumFunctionOnSet(share, D \ P) = 0 * SumFunctionOnSet(share, D \ P)
    BY <1>1, <2>1, SumTimes
  <2> QED BY <2>2, <2>3
<1>5. CASE P = {}
  <2>1. SumFunctionOnSet(share, P) = 0
    BY <1>5, SumEmpty
  <2> QED BY <1>1, <1>3, <1>4, <2>1 DEF share
<1>6. CASE P # {}
  <2> DEFINE x == LastOf(order, P)
             Q == P \ {x}
             B == Before(order, D, x)
  <2>1. x \in P /\ Q \in SUBSET B
    <3>1. x \in P /\ \A e \in P \ {x} : <<e, x>> \in order
      BY <1>1, <1>6, LastIs DEF LoopInput
    <3> QED BY <1>1, <3>1 DEF Before
  <2> HIDE DEF x
  <2>2. B \in SUBSET D /\ IsFiniteSet(B) /\ IsFiniteSet(Q)
    BY <1>1, FS_Subset DEF Before
  <2>3. SumFunctionOnSet(share, P) = share[x] + SumFunctionOnSet(share, Q)
    BY <1>1, <1>2, <2>1, SumRemove
  <2>4. SumFunctionOnSet(share, Q) <= SumFunctionOnSet(cap, B)
    <3>1. (\A d \in Q : share[d] \in Nat /\ share[d] <= cap[d]) /\ \A d \in B : cap[d] \in Nat
      BY <1>1, <1>2, <2>2
    <3> QED BY <2>1, <2>2, <3>1, SumLess
  <2>5. SumFunctionOnSet(share, Q) \in Nat /\ SumFunctionOnSet(cap, B) \in Nat /\ share[x] \in Nat
    BY <1>1, <1>2, <2>1, <2>2, SumType
  <2>6. share[x] <= amount - SumFunctionOnSet(cap, B)
    <3>1. share[x] > 0 /\ cap[x] \in Nat
      BY <1>1, <2>1
    <3>2. share[x] = Part(cap[x], amount - SumFunctionOnSet(cap, B))
      BY <1>2, <2>1 DEF LeftFor
    <3> HIDE DEF B
    <3> QED BY <1>1, <2>5, <3>1, <3>2 DEF Part
  <2> QED BY <1>1, <1>3, <1>4, <2>3, <2>4, <2>5, <2>6 DEF share
<1> QED BY <1>5, <1>6

-----------------------------------------------------------------------------
(***************************************************************************)
(* Rounding: exact on multiples, off by at most one half, monotone.        *)
(***************************************************************************)

LEMMA DivMod ==
    ASSUME NEW a \in Nat, NEW b \in Nat \ {0}
    PROVE  /\ a \div b \in Nat /\ a % b \in Nat /\ a % b < b
           /\ a = b * (a \div b) + (a % b)
  OBVIOUS

\* Multiplication by a positive number keeps the order.
LEMMA TimesKeepsOrder ==
    ASSUME NEW b \in Nat \ {0}, NEW p \in Int, NEW q \in Int
    PROVE  /\ p <= q => b * p <= b * q
           /\ p < q => b * p + b <= b * q
<1>1. p <= q => b * p <= b * q
  OBVIOUS
<1>2. p < q => b * (p + 1) <= b * q
  OBVIOUS
<1>3. b * (p + 1) = b * p + b
  OBVIOUS
<1> QED BY <1>1, <1>2, <1>3

LEMMA RoundNear ==
    ASSUME NEW a \in Nat, NEW b \in Nat \ {0}
    PROVE  /\ RoundDiv(a, b) \in Nat
           /\ 2 * (b * RoundDiv(a, b)) <= 2 * a + b
<1> DEFINE q == a \div b
           r == a % b
<1>1. q \in Nat /\ r \in Nat /\ r < b /\ a = b * q + r /\ b * q \in Nat
  BY DivMod
<1>2. RoundDiv(a, b) = IF 2 * r > b \/ (2 * r = b /\ q % 2 = 1) THEN q + 1 ELSE q
  BY DEF RoundDiv
<1> HIDE DEF q, r
<1>3. b * (q + 1) = b * q + b
  BY <1>1
<1>4. CASE RoundDiv(a, b) = q
  BY <1>1, <1>4
<1>5. CASE RoundDiv(a, b) = q + 1 /\ 2 * r >= b
  BY <1>1, <1>3, <1>5
<1> QED BY <1>1, <1>2, <1>4, <1>5

LEMMA RoundExact ==
    ASSUME NEW k \in Nat, NEW b \in Nat \ {0}
    PROVE  RoundDiv(b * k, b) = k
<1> DEFINE a == b * k
           q == a \div b
           r == a % b
<1>1. a \in Nat
  OBVIOUS
<1>2. q \in Nat /\ r \in Nat /\ r < b /\ a = b * q + r /\ b * q \in Nat
  BY <1>1, DivMod
<1> HIDE DEF q, r
<1>3. q = k
  BY <1>2, TimesKeepsOrder
<1>4. r = 0
  BY <1>2, <1>3
<1> QED BY <1>2, <1>3, <1>4 DEF RoundDiv, q, r

LEMMA RoundMonotone ==
    ASSUME NEW a \in Nat, NEW c \in Nat, a <= c, NEW b \in Nat \ {0}
    PROVE  RoundDiv(a, b) <= RoundDiv(c, b)
<1> DEFINE q == a \div b
           r == a % b
           u == c \div b
           v == c % b
<1>1. /\ q \in Nat /\ r \in Nat /\ r < b /\ a = b * q + r /\ b * q \in Nat
      /\ u \in Nat /\ v \in Nat /\ v < b /\ c = b * u + v /\ b * u \in Nat
  BY DivMod
<1>2. /\ RoundDiv(a, b) = IF 2 * r > b \/ (2 * r = b /\ q % 2 = 1) THEN q + 1 ELSE q
      /\ RoundDiv(c, b) = IF 2 * v > b \/ (2 * v = b /\ u % 2 = 1) THEN u + 1 ELSE u
  BY DEF RoundDiv
<1> HIDE DEF q, r, u, v
<1>3. q <= u
  BY <1>1, TimesKeepsOrder
<1>4. CASE q = u
  <2>1. r <= v
    BY <1>1, <1>4
  <2> QED BY <1>1, <1>2, <1>4, <2>1
<1>5. CASE q < u
  BY <1>1, <1>2, <1>5
<1> QED BY <1>1, <1>3, <1>4, <1>5
-----------------------------------------------------------------------------
(***************************************************************************)
(* Scores, the two orders and the budget.                                  *)
(***************************************************************************)

\* The sum compute_throttle_score() bounds and rounds.
RawScore(ds) ==
    (IF ds.mode = "proportional" THEN 2100 ELSE 900)
      + Max({0, 9 * (100 - ds.response)})
      - Min({600, 2 * ds.cooldown}) - Min({300, 10 * ds.startupDelay})

LEMMA RawScoreBounds ==
    ASSUME NEW ds \in DeviceRecord
    PROVE  /\ RawScore(ds) \in Int
           /\ ds.mode = "binary" => RawScore(ds) <= 1800
           /\ ds.mode = "proportional" /\ ds.cooldown = 0 /\ ds.startupDelay = 0
                => RawScore(ds) >= 2100
<1>1. /\ ds.response \in Nat /\ ds.cooldown \in Nat /\ ds.startupDelay \in Nat
  BY DEF DeviceRecord
<1> DEFINE bonus == Max({0, 9 * (100 - ds.response)})
           wait  == Min({600, 2 * ds.cooldown})
           start == Min({300, 10 * ds.startupDelay})
<1>2. bonus = IF 0 >= 9 * (100 - ds.response) THEN 0 ELSE 9 * (100 - ds.response)
  BY <1>1, MaxOfTwo
<1>3. wait = IF 600 <= 2 * ds.cooldown THEN 600 ELSE 2 * ds.cooldown
  BY <1>1, MinOfTwo
<1>4. start = IF 300 <= 10 * ds.startupDelay THEN 300 ELSE 10 * ds.startupDelay
  BY <1>1, MinOfTwo
<1>5. RawScore(ds) = (IF ds.mode = "proportional" THEN 2100 ELSE 900) + bonus - wait - start
  BY DEF RawScore
<1> HIDE DEF bonus, wait, start
<1>6. /\ bonus \in Nat /\ bonus <= 900
      /\ wait \in Nat /\ (ds.cooldown = 0 => wait = 0)
      /\ start \in Nat /\ (ds.startupDelay = 0 => start = 0)
  BY <1>1, <1>2, <1>3, <1>4
<1>7. CASE ds.mode = "proportional"
  BY <1>5, <1>6, <1>7
<1>8. CASE ds.mode # "proportional"
  BY <1>5, <1>6, <1>8
<1> QED BY <1>7, <1>8

\* Bounding and rounding keep the order.
LEMMA ScoreBounds ==
    ASSUME NEW ds \in DeviceRecord
    PROVE  /\ Score(ds) \in Nat
           /\ ds.mode = "binary" => Score(ds) <= 60
           /\ ds.mode = "proportional" /\ ds.cooldown = 0 /\ ds.startupDelay = 0
                => Score(ds) >= 70
<1> DEFINE raw == RawScore(ds)
           low == Min({3000, raw})
           fit == Max({0, low})
<1>1. /\ raw \in Int
      /\ ds.mode = "binary" => raw <= 1800
      /\ ds.mode = "proportional" /\ ds.cooldown = 0 /\ ds.startupDelay = 0 => raw >= 2100
  BY RawScoreBounds
<1>2. Score(ds) = IF ds.mode = "none" THEN 0 ELSE RoundDiv(fit, 30)
  BY DEF Score, ThrottleScore, RawScore
<1> HIDE DEF raw
<1>3. low = IF 3000 <= raw THEN 3000 ELSE raw
  BY <1>1, MinOfTwo
<1> HIDE DEF low
<1>4. low \in Int
  BY <1>1, <1>3
<1>5. fit = IF 0 >= low THEN 0 ELSE low
  BY <1>4, MaxOfTwo
<1> HIDE DEF fit
<1>6. fit \in Nat
  BY <1>4, <1>5
<1>7. RoundDiv(fit, 30) \in Nat
  BY <1>6, RoundNear
<1>8. ASSUME ds.mode = "binary" PROVE Score(ds) <= 60
  <2>1. fit <= 30 * 60
    BY <1>1, <1>3, <1>5, <1>8
  <2>2. RoundDiv(30 * 60, 30) = 60
    BY RoundExact
  <2>3. RoundDiv(fit, 30) <= RoundDiv(30 * 60, 30)
    BY <1>6, <2>1, RoundMonotone
  <2> QED BY <1>2, <1>8, <2>2, <2>3
<1>9. ASSUME ds.mode = "proportional", ds.cooldown = 0, ds.startupDelay = 0
      PROVE  Score(ds) >= 70
  <2>1. fit >= 30 * 70
    BY <1>1, <1>3, <1>5, <1>9
  <2>2. RoundDiv(30 * 70, 30) = 70
    BY RoundExact
  <2>3. RoundDiv(30 * 70, 30) <= RoundDiv(fit, 30)
    BY <1>6, <2>1, RoundMonotone
  <2> QED BY <1>2, <1>7, <1>9, <2>2, <2>3
<1> QED BY <1>2, <1>7, <1>8, <1>9

LEMMA PercentType == ASSUME NEW n \in 0..Full PROVE n \in Nat /\ n <= 1000
BY DEF Full

\* What is known of a device the waterfall distributes to.
LEMMA FleetFacts ==
    ASSUME NEW f, IsFleet(f)
    PROVE  /\ IsFiniteSet(DOMAIN f) /\ IsFiniteSet(InWaterfall(f))
           /\ InWaterfall(f) \in SUBSET DOMAIN f
           /\ \A d \in DOMAIN f : /\ d \in Nat /\ f[d].rated \in Nat
                                  /\ f[d].actual \in Int /\ Score(f[d]) \in Nat
           /\ \A d \in InWaterfall(f) : f[d].rated \in Nat \ {0}
<1>1. InWaterfall(f) \in SUBSET DOMAIN f /\ IsFiniteSet(InWaterfall(f)) /\ IsFiniteSet(DOMAIN f)
  BY FS_Subset DEF InWaterfall, IsFleet
<1>2. ASSUME NEW d \in DOMAIN f
      PROVE  d \in Nat /\ f[d].rated \in Nat /\ f[d].actual \in Int /\ Score(f[d]) \in Nat
  <2>1. f[d] \in DeviceRecord
    BY DEF IsFleet
  <2>2. f[d].rated \in Nat /\ f[d].actual \in Int
    BY <2>1 DEF DeviceRecord
  <2> QED BY <2>1, <2>2, ScoreBounds DEF IsFleet
<1>3. \A d \in InWaterfall(f) : f[d].rated \in Nat \ {0}
  BY <1>2 DEF InWaterfall, ThrottleEligible
<1> QED BY <1>1, <1>2, <1>3

LEMMA SlowestFirstOrders ==
    ASSUME NEW f, IsFleet(f) PROVE Ordered(SlowestFirst(f), InWaterfall(f))
<1> DEFINE W == InWaterfall(f)
<1>1. \A d, e \in W : <<d, e>> \in SlowestFirst(f) <=> Precedes(f, d, e)
  BY DEF SlowestFirst
<1>2. \A d \in W : d \in Nat /\ f[d].rated \in Nat /\ Score(f[d]) \in Nat
  BY FleetFacts
<1>3. /\ \A d \in W : ~Precedes(f, d, d)
      /\ \A d, e \in W : d # e => Precedes(f, d, e) \/ Precedes(f, e, d)
      /\ \A d, e, c \in W : Precedes(f, d, e) /\ Precedes(f, e, c) => Precedes(f, d, c)
  BY <1>2 DEF Precedes
<1> QED BY <1>1, <1>3 DEF Ordered

LEMMA FastestFirstOrders ==
    ASSUME NEW f, IsFleet(f), NEW A \in SUBSET InWaterfall(f)
    PROVE  Ordered(FastestFirst(f), A)
<1>1. \A d, e \in A : <<d, e>> \in FastestFirst(f) <=> Outpaces(f, d, e)
  BY DEF FastestFirst
<1>2. \A d \in A : d \in Nat /\ Score(f[d]) \in Nat
  BY FleetFacts
<1>3. /\ \A d \in A : ~Outpaces(f, d, d)
      /\ \A d, e \in A : d # e => Outpaces(f, d, e) \/ Outpaces(f, e, d)
      /\ \A d, e, c \in A : Outpaces(f, d, e) /\ Outpaces(f, e, c) => Outpaces(f, d, c)
  BY <1>2 DEF Outpaces
<1> QED BY <1>1, <1>3 DEF Ordered

LEMMA RatedSumType ==
    ASSUME NEW f, IsFleet(f), NEW S \in SUBSET DOMAIN f
    PROVE  RatedSum(f, S) \in Nat
<1>1. IsFiniteSet(S)
  BY FleetFacts, FS_Subset
<1>2. \A d \in S : [e \in DOMAIN f |-> f[e].rated][d] \in Nat
  BY FleetFacts
<1> QED BY <1>1, <1>2, SumType DEF RatedSum

\* A budget is never negative, and a higher limit's is no smaller.
LEMMA BudgetGrows ==
    ASSUME NEW f, IsFleet(f), NEW l \in Nat, NEW h \in Nat, l <= h
    PROVE  Budget(f, l) \in Nat /\ Budget(f, l) <= Budget(f, h)
<1> DEFINE all   == TotalRated(f)
           fixed == NonThrottleRated(f)
<1>1. all \in Nat /\ fixed \in Nat
  BY RatedSumType DEF TotalRated, NonThrottleRated
<1> DEFINE net(n) == n * all - 100 * fixed
<1>2. \A n \in Nat : Budget(f, n) = Max({0, net(n)})
  BY DEF Budget
<1> HIDE DEF all, fixed
<1>3. net(l) \in Int /\ net(h) \in Int /\ net(l) <= net(h)
  <2>1. l * all <= h * all /\ l * all \in Nat /\ h * all \in Nat
    BY <1>1
  <2> QED BY <1>1, <2>1
<1> HIDE DEF net
<1>4. /\ Budget(f, l) = IF 0 >= net(l) THEN 0 ELSE net(l)
      /\ Budget(f, h) = IF 0 >= net(h) THEN 0 ELSE net(h)
  <2>1. \A n \in Nat : net(n) \in Int => Max({0, net(n)}) = IF 0 >= net(n) THEN 0 ELSE net(n)
    BY MaxOfTwo
  <2> QED BY <1>2, <1>3, <2>1
<1> QED BY <1>3, <1>4

-----------------------------------------------------------------------------
(***************************************************************************)
(* The waterfall.                                                          *)
(***************************************************************************)

LEMMA PourLoop ==
    ASSUME NEW f, IsFleet(f), NEW budget \in Nat
    PROVE  /\ DOMAIN Ratings(f) = InWaterfall(f)
           /\ \A d \in InWaterfall(f) : Ratings(f)[d] = 100 * f[d].rated
           /\ LoopInput(SlowestFirst(f), Ratings(f), budget)
<1>1. DOMAIN Ratings(f) = InWaterfall(f) /\ \A d \in InWaterfall(f) : Ratings(f)[d] = 100 * f[d].rated
  BY DEF Ratings
<1>2. \A d \in InWaterfall(f) : Ratings(f)[d] \in Nat
  BY <1>1, FleetFacts
<1>3. IsFiniteSet(InWaterfall(f)) /\ Ordered(SlowestFirst(f), InWaterfall(f))
  BY FleetFacts, SlowestFirstOrders
<1> QED BY <1>1, <1>2, <1>3 DEF LoopInput

\* The share of a device in the waterfall, in 1/100 W.
PourShare(f, budget) == Allot(SlowestFirst(f), Ratings(f), budget)

\* The targets of the waterfall: tenths of a percent, exact for whoever gets
\* nothing or its rating, rounded for the others.
LEMMA PourTargets ==
    ASSUME NEW f, IsFleet(f), NEW budget \in Nat
    PROVE  LET t == Pour(f, budget)
               share == PourShare(f, budget)
           IN  /\ DOMAIN t = InWaterfall(f)
               /\ \A d \in InWaterfall(f) :
                    /\ t[d] = RoundDiv(10 * share[d], f[d].rated)
                    /\ share[d] \in Nat /\ share[d] <= 100 * f[d].rated
                    /\ t[d] \in 0..Full
                    /\ share[d] = 0 => t[d] = 0
                    /\ share[d] = 100 * f[d].rated => t[d] = Full
                    /\ 2 * (f[d].rated * t[d]) <= 20 * share[d] + f[d].rated
<1> DEFINE t == Pour(f, budget)
           share == PourShare(f, budget)
<1>1. DOMAIN t = InWaterfall(f)
      /\ \A d \in InWaterfall(f) : t[d] = RoundDiv(10 * share[d], f[d].rated)
  BY DEF Pour, PourShare
<1>2. \A d \in InWaterfall(f) : share[d] \in Nat /\ share[d] <= 100 * f[d].rated
  BY PourLoop, Shares DEF PourShare
<1> HIDE DEF t, share
<1>3. ASSUME NEW d \in InWaterfall(f)
      PROVE  /\ t[d] \in 0..Full
             /\ share[d] = 0 => t[d] = 0
             /\ share[d] = 100 * f[d].rated => t[d] = Full
             /\ 2 * (f[d].rated * t[d]) <= 20 * share[d] + f[d].rated
  <2> DEFINE r   == f[d].rated
             a   == 10 * share[d]
             all == r * 1000
  <2>1. r \in Nat \ {0} /\ a \in Nat /\ all \in Nat /\ a <= all
    BY <1>2, FleetFacts
  <2>2. RoundDiv(all, r) = 1000 /\ RoundDiv(0, r) = 0
    <3>1. RoundDiv(all, r) = 1000 /\ RoundDiv(r * 0, r) = 0
      BY <2>1, RoundExact
    <3>2. r * 0 = 0
      BY <2>1
    <3> QED BY <3>1, <3>2
  <2>3. (share[d] = 0 => a = 0) /\ (share[d] = 100 * r => a = all)
    BY <2>1
  <2>4. 2 * a = 20 * share[d] /\ t[d] = RoundDiv(a, r)
    BY <1>1, <1>2
  <2> HIDE DEF r, a, all
  <2>5. RoundDiv(a, r) \in Nat /\ RoundDiv(a, r) <= RoundDiv(all, r)
    BY <2>1, RoundNear, RoundMonotone
  <2>6. 2 * (r * RoundDiv(a, r)) <= 2 * a + r
    BY <2>1, RoundNear
  <2>7. (share[d] = 0 => t[d] = 0) /\ (share[d] = 100 * r => t[d] = 1000)
    BY <2>2, <2>3, <2>4
  <2>8. t[d] \in 0..Full
    BY <2>2, <2>4, <2>5 DEF Full
  <2>9. 2 * (r * t[d]) <= 20 * share[d] + r
    BY <2>4, <2>6
  <2>10. (share[d] = 0 => t[d] = 0) /\ (share[d] = 100 * r => t[d] = Full)
    BY <2>7 DEF Full
  <2> QED BY <2>8, <2>9, <2>10 DEF r
<1> QED BY <1>1, <1>2, <1>3, Zenon DEF t, share

\* The fold is the reference definition.
Earlier(f, d) == {e \in InWaterfall(f) : Precedes(f, e, d)}

ReferenceShare(f, budget, d) ==
    Max({0, Min({100 * f[d].rated, budget - 100 * RatedSum(f, Earlier(f, d))})})

LEMMA PourMeetsReference ==
    ASSUME NEW f, IsFleet(f), NEW budget \in Nat, NEW d \in InWaterfall(f)
    PROVE  PourShare(f, budget)[d] = ReferenceShare(f, budget, d)
<1> DEFINE W == InWaterfall(f)
           before == Earlier(f, d)
           rated == [e \in DOMAIN f |-> f[e].rated]
           taken == RatedSum(f, before)
           leftover == budget - 100 * taken
           cap == 100 * f[d].rated
           low == Min({cap, leftover})
<1>1. before = Before(SlowestFirst(f), W, d) /\ before \in SUBSET DOMAIN f
  BY FleetFacts DEF Before, SlowestFirst, Earlier
<1>2. IsFiniteSet(before) /\ \A e \in before : rated[e] \in Nat /\ Ratings(f)[e] = 100 * rated[e]
  <2>1. IsFiniteSet(before)
    BY <1>1, FleetFacts, FS_Subset
  <2>2. ASSUME NEW e \in before PROVE rated[e] \in Nat /\ Ratings(f)[e] = 100 * rated[e]
    <3>1. e \in W /\ e \in DOMAIN f
      BY <1>1 DEF Earlier
    <3>2. f[e].rated \in Nat
      BY <3>1, FleetFacts
    <3> QED BY <3>1, <3>2 DEF Ratings
  <2> QED BY <2>1, <2>2
<1>3. SumFunctionOnSet(Ratings(f), before) = 100 * SumFunctionOnSet(rated, before)
  <2> HIDE DEF before, rated
  <2> QED BY <1>2, SumTimes
<1>4. taken \in Nat /\ cap \in Nat
  BY <1>1, FleetFacts, RatedSumType
<1>5. PourShare(f, budget)[d] = Part(cap, leftover)
  <2>1. PourShare(f, budget)[d] = Part(cap, LeftFor(SlowestFirst(f), Ratings(f), budget, W, d))
    BY PourLoop, AllotIs DEF PourShare
  <2>2. LeftFor(SlowestFirst(f), Ratings(f), budget, W, d) = budget - SumFunctionOnSet(Ratings(f), before)
    BY <1>1, Zenon DEF LeftFor
  <2> QED BY <1>3, <2>1, <2>2 DEF RatedSum
<1> HIDE DEF taken, cap
<1>6. leftover \in Int
  BY <1>4
<1> HIDE DEF leftover
<1>7. low = IF cap <= leftover THEN cap ELSE leftover
  BY <1>4, <1>6, MinOfTwo
<1> HIDE DEF low
<1>8. Max({0, low}) = IF 0 >= low THEN 0 ELSE low
  BY <1>4, <1>6, <1>7, MaxOfTwo
<1>9. Max({0, low}) = Part(cap, leftover)
  BY <1>4, <1>6, <1>7, <1>8 DEF Part
<1> QED BY <1>5, <1>9 DEF low, leftover, taken, cap, ReferenceShare

\* A relay scores below every proportional device without cooldown and startup
\* delay, so it comes first in the waterfall.
LEMMA RelaysComeFirst ==
    ASSUME NEW f, IsFleet(f), NEW budget \in Nat,
           NEW d \in InWaterfall(f), NEW e \in InWaterfall(f),
           f[d].mode = "binary", f[e].mode = "proportional",
           f[e].cooldown = 0, f[e].startupDelay = 0,
           Pour(f, budget)[e] > 0
    PROVE  Pour(f, budget)[d] = Full
<1> DEFINE share == PourShare(f, budget)
<1>1. f[d] \in DeviceRecord /\ f[e] \in DeviceRecord
  BY FleetFacts DEF IsFleet
<1>2. Score(f[d]) < Score(f[e])
  BY <1>1, ScoreBounds
<1>3. <<d, e>> \in SlowestFirst(f)
  BY <1>2 DEF SlowestFirst, Precedes
<1>4. share[e] > 0
  BY PourTargets
<1>5. share[d] = 100 * f[d].rated
  BY <1>3, <1>4, PourLoop, Shares DEF PourShare
<1> QED BY <1>5, PourTargets

-----------------------------------------------------------------------------
(***************************************************************************)
(* The slack reallocation, after a waterfall.                              *)
(***************************************************************************)

\* What is known of the targets the reallocation starts from.
Pours(f, t) ==
    /\ IsFleet(f)
    /\ DOMAIN t = InWaterfall(f)
    /\ \A d \in InWaterfall(f) : t[d] \in 0..Full

LEMMA PourPours ==
    ASSUME NEW f, IsFleet(f), NEW budget \in Nat PROVE Pours(f, Pour(f, budget))
BY PourTargets DEF Pours

\* The pieces of the slack are numbers, and no larger than the targets.
LEMMA ShortfallType ==
    ASSUME NEW f, NEW t, Pours(f, t), NEW d \in InWaterfall(f)
    PROVE  /\ t[d] * f[d].rated \in Nat
           /\ Shortfall(f, t, d) \in Nat
           /\ f[d].actual < 0 => Shortfall(f, t, d) = 0
           /\ f[d].actual >= 0 /\ 1000 * f[d].actual > t[d] * f[d].rated
                => Shortfall(f, t, d) = 0
           /\ f[d].actual >= 0 /\ 1000 * f[d].actual <= t[d] * f[d].rated
                => Shortfall(f, t, d) + 1000 * f[d].actual <= t[d] * f[d].rated
<1> DEFINE watts == t[d] * f[d].rated
<1>1. f[d].actual \in Int /\ f[d].rated \in Nat /\ t[d] \in Nat
  BY FleetFacts DEF Pours, Full
<1>2. watts \in Nat
  BY <1>1
<1>3. Shortfall(f, t, d) = IF f[d].actual >= 0 /\ watts - 1000 * f[d].actual > SlackMinPerDevice
                           THEN watts - 1000 * f[d].actual ELSE 0
  BY DEF Shortfall
<1> HIDE DEF watts
<1>4. /\ Shortfall(f, t, d) \in Nat
      /\ f[d].actual < 0 => Shortfall(f, t, d) = 0
      /\ f[d].actual >= 0 /\ 1000 * f[d].actual > watts => Shortfall(f, t, d) = 0
      /\ f[d].actual >= 0 /\ 1000 * f[d].actual <= watts
           => Shortfall(f, t, d) + 1000 * f[d].actual <= watts
  BY <1>1, <1>2, <1>3 DEF SlackMinPerDevice
<1> QED BY <1>2, <1>4 DEF watts

LEMMA ReclaimLoop ==
    ASSUME NEW f, NEW t, Pours(f, t)
    PROVE  LET A == Absorbers(f, t)
           IN  /\ A \in SUBSET InWaterfall(f)
               /\ IsFiniteSet(InWaterfall(f)) /\ IsFiniteSet(A) /\ IsFiniteSet(InWaterfall(f) \ A)
               /\ Slack(f, t) \in Nat
               /\ DOMAIN Headroom(f, t) = A
               /\ \A d \in A :
                    Headroom(f, t)[d] = IF (Full - t[d]) * f[d].rated <= HeadroomFloor THEN 0
                                        ELSE (Full - t[d]) * f[d].rated
               /\ \A d \in A : (Full - t[d]) * f[d].rated \in Nat
               /\ LoopInput(FastestFirst(f), Headroom(f, t), Slack(f, t))
<1> DEFINE A == Absorbers(f, t)
           W == InWaterfall(f)
<1>1. IsFleet(f) /\ DOMAIN t = W
  BY DEF Pours
<1>2. A \in SUBSET W
  BY <1>1 DEF Absorbers
<1>3. IsFiniteSet(W) /\ IsFiniteSet(A) /\ IsFiniteSet(W \ A)
  BY <1>1, <1>2, FleetFacts, FS_Subset
<1>4. Slack(f, t) \in Nat
  <2> DEFINE short == [d \in DOMAIN t |-> Shortfall(f, t, d)]
  <2>1. \A d \in W \ A : short[d] \in Nat
    BY <1>1, ShortfallType
  <2>2. SumFunctionOnSet(short, W \ A) \in Nat
    BY <1>3, <2>1, SumType
  <2> QED BY <1>1, <2>2, Zenon DEF Slack
<1>5. ASSUME NEW d \in A PROVE (Full - t[d]) * f[d].rated \in Nat
  <2>1. Full - t[d] \in Nat /\ f[d].rated \in Nat
    BY <1>2, FleetFacts DEF Pours, Full
  <2> HIDE DEF A
  <2> QED BY <2>1
<1>6. DOMAIN Headroom(f, t) = A
      /\ \A d \in A : Headroom(f, t)[d] = IF (Full - t[d]) * f[d].rated <= HeadroomFloor THEN 0
                                          ELSE (Full - t[d]) * f[d].rated
  BY DEF Headroom
<1>7. \A d \in A : Headroom(f, t)[d] \in Nat
  <2> HIDE DEF A
  <2> QED BY <1>5, <1>6
<1>8. Ordered(FastestFirst(f), A)
  BY <1>1, <1>2, FastestFirstOrders
<1>9. LoopInput(FastestFirst(f), Headroom(f, t), Slack(f, t))
  <2> HIDE DEF A
  <2> QED BY <1>3, <1>4, <1>6, <1>7, <1>8 DEF LoopInput
<1> QED BY <1>2, <1>3, <1>4, <1>5, <1>6, <1>9

\* The share of an absorber in the slack, in mW.
ReclaimShare(f, t) == Allot(FastestFirst(f), Headroom(f, t), Slack(f, t))

\* The targets after the reallocation: those of absorbers rise by their share,
\* exactly so if they get nothing or all of their headroom.
LEMMA ReclaimTargets ==
    ASSUME NEW f, NEW t, Pours(f, t), Slack(f, t) >= SlackMinTotal
    PROVE  LET T == Reclaim(f, t)
               share == ReclaimShare(f, t)
           IN  /\ DOMAIN T = InWaterfall(f)
               /\ \A d \in InWaterfall(f) \ Absorbers(f, t) : T[d] = t[d]
               /\ \A d \in Absorbers(f, t) :
                    /\ T[d] = RoundDiv(t[d] * f[d].rated + share[d], f[d].rated)
                    /\ share[d] \in Nat /\ share[d] <= Headroom(f, t)[d]
                    /\ T[d] \in t[d]..Full
                    /\ share[d] = 0 => T[d] = t[d]
                    /\ share[d] = Headroom(f, t)[d]
                         => T[d] = IF share[d] = 0 THEN t[d] ELSE Full
                    /\ 2 * (f[d].rated * T[d])
                         <= 2 * (f[d].rated * t[d]) + 2 * share[d] + f[d].rated
<1> DEFINE T == Reclaim(f, t)
           share == ReclaimShare(f, t)
           A == Absorbers(f, t)
           W == InWaterfall(f)
<1>1. IsFleet(f) /\ DOMAIN t = W /\ A \in SUBSET W /\ Slack(f, t) \in Nat
  BY ReclaimLoop DEF Pours
<1>2. /\ DOMAIN T = W
      /\ \A d \in W \ A : T[d] = t[d]
      /\ \A d \in A : T[d] = RoundDiv(t[d] * f[d].rated + share[d], f[d].rated)
  <2>1. ~(Slack(f, t) < SlackMinTotal)
    BY <1>1 DEF SlackMinTotal
  <2>2. T = [d \in DOMAIN t |-> IF d \in A THEN RoundDiv(t[d] * f[d].rated + share[d], f[d].rated) ELSE t[d]]
    BY <2>1, Zenon DEF Reclaim, ReclaimShare
  <2> HIDE DEF T, A, share
  <2>3. DOMAIN T = W /\ \A d \in W : T[d] = IF d \in A THEN RoundDiv(t[d] * f[d].rated + share[d], f[d].rated) ELSE t[d]
    BY <1>1, <2>2, Zenon
  <2> QED BY <1>1, <2>3, Zenon
<1>3. \A d \in A : share[d] \in Nat /\ share[d] <= Headroom(f, t)[d]
  <2>1. LoopInput(FastestFirst(f), Headroom(f, t), Slack(f, t)) /\ DOMAIN Headroom(f, t) = A
    BY ReclaimLoop
  <2> QED BY <2>1, Shares DEF ReclaimShare
<1> HIDE DEF T, share
<1>4. ASSUME NEW d \in A
      PROVE  /\ T[d] \in t[d]..Full
             /\ share[d] = 0 => T[d] = t[d]
             /\ share[d] = Headroom(f, t)[d] => T[d] = IF share[d] = 0 THEN t[d] ELSE Full
             /\ 2 * (f[d].rated * T[d]) <= 2 * (f[d].rated * t[d]) + 2 * share[d] + f[d].rated
  <2> DEFINE r == f[d].rated
             p == t[d]
             s == share[d]
             room == Headroom(f, t)[d]
             low == r * p
             all == r * 1000
             a == low + s
  <2>1. r \in Nat \ {0} /\ p \in Nat /\ p <= 1000 /\ s \in Nat /\ s <= room
    <3>1. d \in W /\ p \in 0..Full
      BY <1>1 DEF Pours
    <3>2. r \in Nat \ {0}
      BY <1>1, <3>1, FleetFacts, Zenon
    <3>3. p \in Nat /\ p <= 1000
      BY <3>1, PercentType
    <3> QED BY <1>3, <3>2, <3>3
  <2>2. room = IF (Full - p) * r <= HeadroomFloor THEN 0 ELSE (Full - p) * r
    BY ReclaimLoop, Zenon
  <2>3. T[d] = RoundDiv(p * r + s, r)
    BY <1>2
  <2> HIDE DEF r, p, s, room
  <2>4. p * r = low /\ (Full - p) * r = all - low /\ low \in Nat /\ all \in Nat
    BY <2>1 DEF Full
  <2>5. RoundDiv(low, r) = p /\ RoundDiv(all, r) = 1000
    BY <2>1, RoundExact
  <2> HIDE DEF low, all
  <2>6. a \in Nat /\ low <= a /\ a <= all /\ (s = room => s = 0 \/ a = all)
    <3>1. low <= all
      <4>1. r * p <= r * 1000
        BY <2>1
      <4> QED BY <4>1 DEF low, all
    <3> QED BY <2>1, <2>2, <2>4, <3>1
  <2>7. T[d] = RoundDiv(a, r) /\ (s = 0 => a = low)
    BY <2>1, <2>3, <2>4
  <2> HIDE DEF a
  <2>8. /\ RoundDiv(low, r) <= RoundDiv(a, r) /\ RoundDiv(a, r) <= RoundDiv(all, r)
        /\ RoundDiv(a, r) \in Nat
        /\ 2 * (r * RoundDiv(a, r)) <= 2 * a + r
    <3>1. RoundDiv(low, r) <= RoundDiv(a, r)
      BY <2>1, <2>4, <2>6, RoundMonotone
    <3>2. RoundDiv(a, r) <= RoundDiv(all, r)
      BY <2>1, <2>4, <2>6, RoundMonotone
    <3>3. RoundDiv(a, r) \in Nat /\ 2 * (r * RoundDiv(a, r)) <= 2 * a + r
      BY <2>1, <2>6, RoundNear
    <3> QED BY <3>1, <3>2, <3>3
  <2>9. T[d] \in p..1000 /\ (s = 0 => T[d] = p) /\ (s = room => T[d] = IF s = 0 THEN p ELSE 1000)
    BY <2>1, <2>5, <2>6, <2>7, <2>8
  <2>10. 2 * (r * T[d]) <= 2 * (r * p) + 2 * s + r
    <3>1. 2 * (r * T[d]) <= 2 * a + r
      BY <2>7, <2>8
    <3>2. 2 * a = 2 * (r * p) + 2 * s
      BY <2>1, <2>4 DEF a, low
    <3>3. r * T[d] \in Nat /\ r * p \in Nat /\ a \in Nat
      BY <2>1, <2>6, <2>9
    <3> QED BY <2>1, <3>1, <3>2, <3>3
  <2> QED BY <2>9, <2>10 DEF r, p, s, room, Full
<1> QED BY <1>2, <1>3, <1>4 DEF T, share
-----------------------------------------------------------------------------
(***************************************************************************)
(* The ceiling: one target of the waterfall is rounded, and one of the     *)
(* reallocation, each by at most half a device's rating.                   *)
(***************************************************************************)

\* A target in mW.
Watts(f, t) == [d \in InWaterfall(f) |-> f[d].rated * t[d]]

Times(k, g, S) == [d \in S |-> k * g[d]]

\* Twice a sum, bounded element by element but for one element.
LEMMA TwiceAlmostLess ==
    ASSUME NEW S, IsFiniteSet(S), NEW k \in Nat, NEW g, NEW h, NEW m \in Nat,
           \A d \in S : g[d] \in Nat /\ h[d] \in Nat /\ 2 * g[d] <= k * h[d] + m,
           \A d, e \in S : d # e => 2 * g[d] <= k * h[d] \/ 2 * g[e] <= k * h[e]
    PROVE  2 * SumFunctionOnSet(g, S) <= k * SumFunctionOnSet(h, S) + m
<1> DEFINE u == Times(2, g, S)
           v == Times(k, h, S)
<1>1. \A d \in S : u[d] = 2 * g[d] /\ v[d] = k * h[d] /\ u[d] \in Nat /\ v[d] \in Nat
  BY DEF Times
<1> HIDE DEF u, v
<1>2. SumFunctionOnSet(u, S) = 2 * SumFunctionOnSet(g, S)
  BY <1>1, SumTimes
<1>3. SumFunctionOnSet(v, S) = k * SumFunctionOnSet(h, S)
  BY <1>1, SumTimes
<1>4. SumFunctionOnSet(u, S) <= SumFunctionOnSet(v, S) + m
  <2>1. \A d \in S : u[d] \in Nat /\ v[d] \in Nat /\ u[d] <= v[d] + m
    BY <1>1
  <2>2. \A d, e \in S : d # e => u[d] <= v[d] \/ u[e] <= v[e]
    BY <1>1
  <2> QED BY <2>1, <2>2, SumAlmostLess
<1> QED BY <1>2, <1>3, <1>4

\* The targets of the waterfall exceed the budget by half a rating at most.
LEMMA PourWithinBudget ==
    ASSUME NEW f, IsFleet(f), NEW budget \in Nat,
           NEW m \in Nat, \A d \in InWaterfall(f) : f[d].rated <= m
    PROVE  2 * SumFunctionOnSet(Watts(f, Pour(f, budget)), InWaterfall(f)) <= 20 * budget + m
<1> DEFINE W == InWaterfall(f)
           t == Pour(f, budget)
           w == Watts(f, t)
           share == PourShare(f, budget)
<1>1. IsFiniteSet(W) /\ \A d \in W : f[d].rated \in Nat
  BY FleetFacts
<1>2. \A d \in W : /\ share[d] \in Nat
                   /\ t[d] \in 0..Full
                   /\ share[d] = 0 => t[d] = 0
                   /\ share[d] = 100 * f[d].rated => t[d] = Full
                   /\ 2 * (f[d].rated * t[d]) <= 20 * share[d] + f[d].rated
  BY PourTargets
<1>3. \A d, e \in W : d # e => share[d] \in {0, 100 * f[d].rated} \/ share[e] \in {0, 100 * f[e].rated}
  BY PourLoop, Shares DEF PourShare
<1>4. SumFunctionOnSet(share, W) <= budget
  BY PourLoop, SharesWithinAmount DEF PourShare
<1>5. \A d \in W : w[d] = f[d].rated * t[d]
  BY DEF Watts
<1> HIDE DEF t, w, share
<1>6. ASSUME NEW d \in W
      PROVE  /\ w[d] \in Nat /\ 2 * w[d] <= 20 * share[d] + m
             /\ share[d] \in {0, 100 * f[d].rated} => 2 * w[d] <= 20 * share[d]
  <2>0. t[d] \in Nat
    <3>1. t[d] \in 0..Full
      BY <1>2, Zenon
    <3> QED BY <3>1, PercentType
  <2>1. f[d].rated \in Nat /\ f[d].rated <= m /\ t[d] \in Nat /\ share[d] \in Nat
    BY <1>1, <1>2, <2>0
  <2>2. w[d] \in Nat
    BY <1>5, <2>1
  <2>3. 2 * w[d] <= 20 * share[d] + m
    BY <1>2, <1>5, <2>1, <2>2
  <2>4. CASE share[d] = 0
    BY <1>2, <1>5, <2>1, <2>4
  <2>5. CASE share[d] = 100 * f[d].rated
    BY <1>2, <1>5, <2>1, <2>5 DEF Full
  <2> QED BY <2>2, <2>3, <2>4, <2>5
<1>7. 2 * SumFunctionOnSet(w, W) <= 20 * SumFunctionOnSet(share, W) + m
  <2>1. \A d \in W : w[d] \in Nat /\ share[d] \in Nat /\ 2 * w[d] <= 20 * share[d] + m
    BY <1>2, <1>6
  <2>2. \A d, e \in W : d # e => 2 * w[d] <= 20 * share[d] \/ 2 * w[e] <= 20 * share[e]
    BY <1>3, <1>6
  <2> HIDE DEF W
  <2> QED BY <1>1, <2>1, <2>2, TwiceAlmostLess
<1>8. SumFunctionOnSet(w, W) \in Nat /\ SumFunctionOnSet(share, W) \in Nat
  BY <1>1, <1>2, <1>6, SumType
<1> QED BY <1>4, <1>7, <1>8 DEF w, t

\* The absorbers' targets rise by the slack and half a rating at most.
LEMMA AbsorbersWithinSlack ==
    ASSUME NEW f, NEW t, Pours(f, t),
           NEW m \in Nat, \A d \in InWaterfall(f) : f[d].rated <= m
    PROVE  2 * SumFunctionOnSet(Watts(f, Reclaim(f, t)), Absorbers(f, t))
             <= 2 * SumFunctionOnSet(Watts(f, t), Absorbers(f, t)) + 2 * Slack(f, t) + m
<1> DEFINE A == Absorbers(f, t)
           T == Reclaim(f, t)
           before == Watts(f, t)
           after == Watts(f, T)
           share == ReclaimShare(f, t)
           both == [d \in A |-> before[d] + share[d]]
<1>1. /\ IsFleet(f) /\ A \in SUBSET InWaterfall(f) /\ IsFiniteSet(A) /\ Slack(f, t) \in Nat
      /\ \A d \in InWaterfall(f) : t[d] \in Nat
  <2>1. IsFleet(f) /\ \A d \in InWaterfall(f) : t[d] \in Nat
    BY DEF Pours, Full
  <2> QED BY <2>1, ReclaimLoop
<1>2. \A d \in A : /\ before[d] = f[d].rated * t[d] /\ after[d] = f[d].rated * T[d]
                   /\ f[d].rated \in Nat /\ f[d].rated <= m /\ t[d] \in Nat
  BY <1>1, FleetFacts DEF Watts
<1>3. \A d \in A : before[d] \in Nat
  <2> HIDE DEF before, A
  <2> QED BY <1>2
<1>4. SumFunctionOnSet(before, A) \in Nat
  BY <1>1, <1>3, SumType
<1>5. CASE Slack(f, t) < SlackMinTotal
  <2>1. T = t
    BY <1>5 DEF Reclaim
  <2> QED BY <1>1, <1>4, <2>1
<1>6. CASE Slack(f, t) >= SlackMinTotal
  <2>1. \A d \in A : /\ share[d] \in Nat
                     /\ T[d] \in t[d]..Full
                     /\ share[d] = 0 => T[d] = t[d]
                     /\ share[d] = Headroom(f, t)[d] => T[d] = IF share[d] = 0 THEN t[d] ELSE Full
                     /\ 2 * (f[d].rated * T[d]) <= 2 * (f[d].rated * t[d]) + 2 * share[d] + f[d].rated
    BY <1>6, ReclaimTargets
  <2>2. \A d, e \in A : d # e => share[d] \in {0, Headroom(f, t)[d]} \/ share[e] \in {0, Headroom(f, t)[e]}
    <3>1. LoopInput(FastestFirst(f), Headroom(f, t), Slack(f, t)) /\ DOMAIN Headroom(f, t) = A
      BY ReclaimLoop
    <3> HIDE DEF A
    <3> QED BY <3>1, Shares DEF ReclaimShare
  <2>3. SumFunctionOnSet(share, A) <= Slack(f, t)
    BY ReclaimLoop, SharesWithinAmount DEF ReclaimShare
  <2>4. \A d \in A : Headroom(f, t)[d] \in {0, (Full - t[d]) * f[d].rated}
    BY ReclaimLoop
  <2> HIDE DEF T, before, after, share, A
  <2>5. ASSUME NEW d \in A
        PROVE  /\ after[d] \in Nat /\ both[d] \in Nat /\ both[d] = before[d] + share[d]
               /\ 2 * after[d] <= 2 * both[d] + m
               /\ share[d] \in {0, Headroom(f, t)[d]} => 2 * after[d] <= 2 * both[d]
    <3>1. /\ T[d] \in Nat /\ after[d] \in Nat /\ share[d] \in Nat /\ before[d] \in Nat
          /\ both[d] = before[d] + share[d]
      <4>1. T[d] \in Nat /\ share[d] \in Nat
        BY <1>2, <2>1 DEF Full
      <4> QED BY <1>2, <1>3, <4>1
    <3>2. 2 * after[d] <= 2 * before[d] + 2 * share[d] + m
      <4> DEFINE x == f[d].rated * T[d]
                 y == f[d].rated * t[d]
      <4>1. 2 * x <= 2 * y + 2 * share[d] + f[d].rated
        BY <2>1
      <4>2. after[d] = x /\ before[d] = y /\ f[d].rated \in Nat /\ f[d].rated <= m
        BY <1>2
      <4> HIDE DEF x, y
      <4> QED BY <3>1, <4>1, <4>2
    <3>3. ASSUME share[d] = 0 PROVE after[d] = before[d]
      BY <1>2, <2>1, <3>3
    <3>4. ASSUME share[d] = Headroom(f, t)[d], share[d] # 0 PROVE after[d] = before[d] + share[d]
      <4>1. T[d] = 1000 /\ share[d] = (1000 - t[d]) * f[d].rated
        BY <2>1, <2>4, <3>4 DEF Full
      <4>2. \A r, p \in Nat : r * 1000 = r * p + (1000 - p) * r
        OBVIOUS
      <4>3. f[d].rated * 1000 = f[d].rated * t[d] + (1000 - t[d]) * f[d].rated
        BY <1>2, <4>2
      <4> QED BY <1>2, <4>1, <4>3
    <3> HIDE DEF both
    <3> QED BY <3>1, <3>2, <3>3, <3>4
  <2>6. 2 * SumFunctionOnSet(after, A) <= 2 * SumFunctionOnSet(both, A) + m
    <3> HIDE DEF both
    <3>1. \A d \in A : after[d] \in Nat /\ both[d] \in Nat /\ 2 * after[d] <= 2 * both[d] + m
      BY <2>5
    <3>2. \A d, e \in A : d # e => 2 * after[d] <= 2 * both[d] \/ 2 * after[e] <= 2 * both[e]
      BY <2>2, <2>5
    <3> QED BY <1>1, <3>1, <3>2, TwiceAlmostLess
  <2>7. SumFunctionOnSet(both, A) = SumFunctionOnSet(before, A) + SumFunctionOnSet(share, A)
    <3>1. \A d \in A : before[d] \in Nat /\ share[d] \in Nat /\ both[d] = before[d] + share[d]
      BY <1>3, <2>1, <2>5
    <3> HIDE DEF both
    <3> QED BY <1>1, <3>1, SumPlus
  <2>8. SumFunctionOnSet(after, A) \in Nat /\ SumFunctionOnSet(share, A) \in Nat
    BY <1>1, <2>1, <2>5, SumType
  <2> HIDE DEF both
  <2> QED BY <1>1, <1>4, <2>3, <2>6, <2>7, <2>8 DEF after, before, A, T
<1> QED BY <1>1, <1>5, <1>6 DEF SlackMinTotal
\* The reallocation never lowers a target, and raises those of absorbers only.
LEMMA ReclaimRaises ==
    ASSUME NEW f, NEW t, Pours(f, t)
    PROVE  /\ DOMAIN Reclaim(f, t) = InWaterfall(f)
           /\ \A d \in InWaterfall(f) : Reclaim(f, t)[d] \in t[d]..Full
           /\ \A d \in InWaterfall(f) :
                d \notin Absorbers(f, t) \/ Slack(f, t) < SlackMinTotal => Reclaim(f, t)[d] = t[d]
<1> DEFINE T == Reclaim(f, t)
           W == InWaterfall(f)
<1>1. DOMAIN t = W /\ \A d \in W : t[d] \in t[d]..Full
  BY DEF Pours, Full
<1>2. CASE Slack(f, t) < SlackMinTotal
  <2>1. T = t
    BY <1>2 DEF Reclaim
  <2> QED BY <1>1, <2>1
<1>3. CASE Slack(f, t) >= SlackMinTotal
  <2>1. /\ DOMAIN T = W
        /\ \A d \in W \ Absorbers(f, t) : T[d] = t[d]
        /\ \A d \in Absorbers(f, t) : T[d] \in t[d]..Full
    BY <1>3, ReclaimTargets
  <2>2. ~(Slack(f, t) < SlackMinTotal)
    <3>1. Slack(f, t) \in Nat
      BY ReclaimLoop
    <3> QED BY <1>3, <3>1 DEF SlackMinTotal
  <2> HIDE DEF T
  <2> QED BY <1>1, <2>1, <2>2 DEF T
<1>4. Slack(f, t) \in Nat
  BY ReclaimLoop
<1> QED BY <1>2, <1>3, <1>4 DEF SlackMinTotal

\* What a device may produce under a target T after a waterfall target t, in mW.
Produces(f, t, T, d) ==
    IF d \in Absorbers(f, t) \/ f[d].actual < 0 THEN T[d] * f[d].rated
    ELSE Min({1000 * f[d].actual, T[d] * f[d].rated})

LEMMA ProducesBounds ==
    ASSUME NEW f, NEW t, Pours(f, t), NEW d \in InWaterfall(f)
    PROVE  LET T == Reclaim(f, t)
           IN  /\ T[d] * f[d].rated \in Nat
               /\ Produces(f, t, T, d) \in Nat
               /\ d \in Absorbers(f, t) => Produces(f, t, T, d) = f[d].rated * T[d]
               /\ d \notin Absorbers(f, t)
                    => Produces(f, t, T, d) + Shortfall(f, t, d) <= f[d].rated * t[d]
<1> DEFINE T == Reclaim(f, t)
           watts == T[d] * f[d].rated
           real == 1000 * f[d].actual
           low == Min({real, watts})
<1>1. f[d].rated \in Nat /\ f[d].actual \in Int /\ T[d] \in Nat /\ t[d] \in Nat
  <2>1. t[d] \in 0..Full /\ T[d] \in t[d]..Full
    BY ReclaimRaises DEF Pours
  <2> QED BY <2>1, FleetFacts DEF Pours, Full
<1>2. watts \in Nat /\ watts = f[d].rated * T[d] /\ real \in Int
  BY <1>1
<1>3. /\ t[d] * f[d].rated \in Nat /\ t[d] * f[d].rated = f[d].rated * t[d]
      /\ Shortfall(f, t, d) \in Nat
      /\ f[d].actual < 0 => Shortfall(f, t, d) = 0
      /\ f[d].actual >= 0 /\ real > t[d] * f[d].rated => Shortfall(f, t, d) = 0
      /\ f[d].actual >= 0 /\ real <= t[d] * f[d].rated
           => Shortfall(f, t, d) + real <= t[d] * f[d].rated
  BY <1>1, ShortfallType
<1>4. Produces(f, t, T, d) = IF d \in Absorbers(f, t) \/ f[d].actual < 0 THEN watts ELSE low
  BY DEF Produces
<1>5. d \notin Absorbers(f, t) => watts = t[d] * f[d].rated
  BY ReclaimRaises
<1>6. f[d].actual >= 0 => real \in Nat
  BY <1>1
<1> HIDE DEF T, watts, real
<1>7. low = IF real <= watts THEN real ELSE watts
  BY <1>2, MinOfTwo
<1> HIDE DEF low
<1>8. Produces(f, t, T, d) \in Nat
  BY <1>1, <1>2, <1>4, <1>6, <1>7
<1>9. d \in Absorbers(f, t) => Produces(f, t, T, d) = f[d].rated * T[d]
  BY <1>2, <1>4
<1>10. ASSUME d \notin Absorbers(f, t)
       PROVE  Produces(f, t, T, d) + Shortfall(f, t, d) <= f[d].rated * t[d]
  <2>1. CASE f[d].actual < 0
    BY <1>2, <1>3, <1>4, <1>5, <1>10, <2>1
  <2>2. CASE f[d].actual >= 0
    <3>1. Produces(f, t, T, d) = low
      BY <1>1, <1>4, <1>10, <2>2
    <3> QED BY <1>1, <1>2, <1>3, <1>5, <1>6, <1>7, <1>10, <2>2, <3>1
  <2> QED BY <1>1, <2>1, <2>2
<1> QED BY <1>2, <1>8, <1>9, <1>10 DEF T, watts

\* The whole fleet stays within the budget, up to one rating.
LEMMA CeilingKept ==
    ASSUME NEW f, IsFleet(f), NEW budget \in Nat,
           NEW m \in Nat, \A d \in InWaterfall(f) : f[d].rated <= m,
           NEW g, \A d \in InWaterfall(f) :
             g[d] = Produces(f, Pour(f, budget), Reclaim(f, Pour(f, budget)), d)
    PROVE  SumFunctionOnSet(g, InWaterfall(f)) <= 10 * budget + m
<1> DEFINE t == Pour(f, budget)
           T == Reclaim(f, t)
           W == InWaterfall(f)
           A == Absorbers(f, t)
           w == Watts(f, t)
           v == Watts(f, T)
           short == [d \in DOMAIN t |-> Shortfall(f, t, d)]
           both == [d \in W |-> g[d] + short[d]]
<1>1. Pours(f, t)
  BY PourPours
<1>2. /\ A \in SUBSET W /\ IsFiniteSet(W) /\ IsFiniteSet(A) /\ IsFiniteSet(W \ A)
      /\ Slack(f, t) \in Nat
  BY <1>1, ReclaimLoop
<1>3. /\ 2 * SumFunctionOnSet(w, W) <= 20 * budget + m
      /\ 2 * SumFunctionOnSet(v, A) <= 2 * SumFunctionOnSet(w, A) + 2 * Slack(f, t) + m
  BY <1>1, PourWithinBudget, AbsorbersWithinSlack
<1>4. Slack(f, t) = SumFunctionOnSet(short, W \ A)
  BY <1>1, Zenon DEF Pours, Slack
<1>5. \A d \in W : /\ w[d] = f[d].rated * t[d] /\ v[d] = f[d].rated * T[d]
                   /\ f[d].rated \in Nat /\ t[d] \in Nat /\ short[d] = Shortfall(f, t, d)
  <2>1. \A d \in W : w[d] = f[d].rated * t[d] /\ v[d] = f[d].rated * T[d] /\ f[d].rated \in Nat
    BY FleetFacts DEF Watts
  <2>2. DOMAIN t = W /\ \A d \in W : t[d] \in Nat
    BY <1>1 DEF Pours, Full
  <2> HIDE DEF t
  <2> QED BY <2>1, <2>2
<1>6. \A d \in W : /\ g[d] \in Nat /\ short[d] \in Nat
                   /\ d \in A => g[d] = v[d]
                   /\ d \notin A => g[d] + short[d] <= w[d]
  <2>1. \A d \in W : Shortfall(f, t, d) \in Nat
    BY <1>1, ShortfallType
  <2>2. \A d \in W : /\ Produces(f, t, T, d) \in Nat
                     /\ d \in A => Produces(f, t, T, d) = f[d].rated * T[d]
                     /\ d \notin A => Produces(f, t, T, d) + Shortfall(f, t, d) <= f[d].rated * t[d]
    BY <1>1, ProducesBounds
  <2>3. \A d \in W : g[d] = Produces(f, t, T, d)
    OBVIOUS
  <2> HIDE DEF t, T, W, A, w, v, short
  <2> QED BY <1>5, <2>1, <2>2, <2>3
<1> HIDE DEF t, T, W, A, w, v, short
<1>7. \A d \in W : w[d] \in Nat
  BY <1>5
<1>8. SumFunctionOnSet(g, A) <= SumFunctionOnSet(v, A)
  <2>1. \A d \in A : g[d] \in Nat /\ g[d] <= v[d] /\ v[d] \in Nat
    BY <1>2, <1>6
  <2> QED BY <1>2, <2>1, SumLess
<1>9. SumFunctionOnSet(g, W \ A) + SumFunctionOnSet(short, W \ A) <= SumFunctionOnSet(w, W \ A)
  <2>1. \A d \in W \ A : /\ g[d] \in Nat /\ short[d] \in Nat /\ both[d] = g[d] + short[d]
                         /\ both[d] \in Nat /\ both[d] <= w[d] /\ w[d] \in Nat
    BY <1>6, <1>7
  <2> HIDE DEF both
  <2>2. SumFunctionOnSet(both, W \ A) = SumFunctionOnSet(g, W \ A) + SumFunctionOnSet(short, W \ A)
    BY <1>2, <2>1, SumPlus
  <2>3. SumFunctionOnSet(both, W \ A) <= SumFunctionOnSet(w, W \ A)
    BY <1>2, <2>1, SumLess
  <2> QED BY <2>2, <2>3
<1>10. /\ SumFunctionOnSet(g, W) = SumFunctionOnSet(g, A) + SumFunctionOnSet(g, W \ A)
       /\ SumFunctionOnSet(w, W) = SumFunctionOnSet(w, A) + SumFunctionOnSet(w, W \ A)
  <2>1. (\A d \in W : g[d] \in Nat) /\ (\A d \in W : w[d] \in Nat)
    BY <1>6, <1>7
  <2> QED BY <1>2, <2>1, SumUnion
<1>11. /\ SumFunctionOnSet(g, A) \in Nat /\ SumFunctionOnSet(v, A) \in Nat
       /\ SumFunctionOnSet(w, A) \in Nat
  <2>1. \A d \in A : g[d] \in Nat /\ v[d] \in Nat /\ w[d] \in Nat
    BY <1>2, <1>6, <1>7
  <2> QED BY <1>2, <2>1, SumType
<1>12. /\ SumFunctionOnSet(g, W \ A) \in Nat /\ SumFunctionOnSet(short, W \ A) \in Nat
       /\ SumFunctionOnSet(w, W \ A) \in Nat
  <2>1. \A d \in W \ A : g[d] \in Nat /\ short[d] \in Nat /\ w[d] \in Nat
    BY <1>6, <1>7
  <2> QED BY <1>2, <2>1, SumType
<1>13. SumFunctionOnSet(g, W) <= 10 * budget + m
  BY <1>2, <1>3, <1>4, <1>8, <1>9, <1>10, <1>11, <1>12
<1> QED BY <1>13 DEF W
-----------------------------------------------------------------------------
(***************************************************************************)
(* A higher limit.                                                         *)
(***************************************************************************)

\* The targets t of a smaller budget and those of a larger one, u.
Grows(f, t, u) ==
    /\ Pours(f, t) /\ Pours(f, u)
    /\ \A d \in InWaterfall(f) : t[d] <= u[d]

LEMMA GrowsFacts ==
    ASSUME NEW f, NEW t, NEW u, Grows(f, t, u)
    PROVE  /\ IsFleet(f) /\ Pours(f, t) /\ Pours(f, u)
           /\ DOMAIN t = InWaterfall(f) /\ DOMAIN u = InWaterfall(f)
           /\ \A d \in InWaterfall(f) :
                /\ f[d].rated \in Nat \ {0} /\ f[d].actual \in Int
                /\ t[d] \in Nat /\ u[d] \in Nat /\ t[d] <= u[d] /\ u[d] <= 1000
<1>1. /\ IsFleet(f) /\ Pours(f, t) /\ Pours(f, u)
      /\ DOMAIN t = InWaterfall(f) /\ DOMAIN u = InWaterfall(f)
  BY DEF Grows, Pours
<1>2. ASSUME NEW d \in InWaterfall(f)
      PROVE  t[d] \in Nat /\ u[d] \in Nat /\ t[d] <= u[d] /\ u[d] <= 1000
  <2>1. t[d] \in 0..Full /\ u[d] \in 0..Full /\ t[d] <= u[d]
    BY DEF Grows, Pours
  <2> QED BY <2>1, PercentType
<1>3. \A d \in InWaterfall(f) : f[d].rated \in Nat \ {0} /\ f[d].actual \in Int
  BY <1>1, FleetFacts
<1> QED BY <1>1, <1>2, <1>3

LEMMA PourGrows ==
    ASSUME NEW f, IsFleet(f), NEW b \in Nat, NEW c \in Nat, b <= c
    PROVE  Grows(f, Pour(f, b), Pour(f, c))
<1>1. ASSUME NEW d \in InWaterfall(f) PROVE Pour(f, b)[d] <= Pour(f, c)[d]
  <2> DEFINE p == PourShare(f, b)[d]
             q == PourShare(f, c)[d]
             r == f[d].rated
             taken == SumFunctionOnSet(Ratings(f), Before(SlowestFirst(f), InWaterfall(f), d))
  <2>1. /\ p = Part(Ratings(f)[d], b - taken) /\ q = Part(Ratings(f)[d], c - taken)
        /\ taken \in Nat /\ Ratings(f)[d] \in Nat
    <3>1. /\ LoopInput(SlowestFirst(f), Ratings(f), b) /\ LoopInput(SlowestFirst(f), Ratings(f), c)
          /\ DOMAIN Ratings(f) = InWaterfall(f)
      BY PourLoop
    <3>2. p = Part(Ratings(f)[d], b - taken) /\ q = Part(Ratings(f)[d], c - taken)
      BY <3>1, AllotIs DEF PourShare, LeftFor
    <3> QED BY <3>1, <3>2, LeftForType DEF LoopInput
  <2>2. p \in Nat /\ q \in Nat /\ r \in Nat \ {0}
    BY PourTargets, FleetFacts
  <2>3. Pour(f, b)[d] = RoundDiv(10 * p, r) /\ Pour(f, c)[d] = RoundDiv(10 * q, r)
    BY PourTargets
  <2> HIDE DEF p, q, r, taken
  <2>4. p <= q
    BY <2>1 DEF Part
  <2>5. 10 * p \in Nat /\ 10 * q \in Nat /\ 10 * p <= 10 * q
    BY <2>2, <2>4
  <2> QED BY <2>2, <2>3, <2>5, RoundMonotone
<1> QED BY <1>1, PourPours DEF Grows

\* Fewer absorbers, each with less headroom, ...
LEMMA AbsorbersShrink ==
    ASSUME NEW f, NEW t, NEW u, Grows(f, t, u)
    PROVE  /\ Absorbers(f, u) \in SUBSET Absorbers(f, t)
           /\ \A d \in Absorbers(f, u) :
                /\ Headroom(f, u)[d] \in Nat /\ Headroom(f, t)[d] \in Nat
                /\ Headroom(f, u)[d] <= Headroom(f, t)[d]
<1>1. /\ \A d \in InWaterfall(f) :
           /\ t[d] \in Nat /\ u[d] \in Nat /\ t[d] <= u[d] /\ u[d] <= 1000
           /\ f[d].rated \in Nat
      /\ DOMAIN t = InWaterfall(f) /\ DOMAIN u = InWaterfall(f)
      /\ IsFleet(f) /\ Pours(f, t) /\ Pours(f, u)
  BY GrowsFacts
<1>2. ASSUME NEW d \in Absorbers(f, u) PROVE d \in Absorbers(f, t) /\ d \in InWaterfall(f)
  <2>1. d \in InWaterfall(f) /\ u[d] < 1000 /\ ~IsBinary(f[d])
    BY <1>1 DEF Absorbers, Full
  <2>2. t[d] < 1000
    BY <1>1, <2>1
  <2> QED BY <1>1, <2>1, <2>2 DEF Absorbers, Full
<1>3. ASSUME NEW d \in Absorbers(f, u)
      PROVE  /\ Headroom(f, u)[d] \in Nat /\ Headroom(f, t)[d] \in Nat
             /\ Headroom(f, u)[d] <= Headroom(f, t)[d]
  <2> DEFINE x == (Full - u[d]) * f[d].rated
             y == (Full - t[d]) * f[d].rated
  <2>1. /\ Headroom(f, u)[d] = IF x <= HeadroomFloor THEN 0 ELSE x
        /\ Headroom(f, t)[d] = IF y <= HeadroomFloor THEN 0 ELSE y
        /\ x \in Nat /\ y \in Nat
    <3>1. Headroom(f, u)[d] = (IF x <= HeadroomFloor THEN 0 ELSE x) /\ x \in Nat
      <4>1. Pours(f, u)
        BY <1>1
      <4> QED BY <4>1, ReclaimLoop
    <3>2. Headroom(f, t)[d] = (IF y <= HeadroomFloor THEN 0 ELSE y) /\ y \in Nat
      <4>1. Pours(f, t) /\ d \in Absorbers(f, t)
        BY <1>1, <1>2
      <4> QED BY <4>1, ReclaimLoop
    <3> HIDE DEF x, y
    <3> QED BY <3>1, <3>2
  <2>2. x <= y
    <3>1. Full - u[d] \in Nat /\ Full - t[d] \in Nat /\ Full - u[d] <= Full - t[d] /\ f[d].rated \in Nat
      <4>1. /\ t[d] \in Nat /\ u[d] \in Nat /\ t[d] <= u[d] /\ u[d] <= 1000
            /\ f[d].rated \in Nat
        BY <1>1, <1>2
      <4> QED BY <4>1 DEF Full
    <3>2. \A p, q, r \in Nat : p <= q => p * r <= q * r
      OBVIOUS
    <3> QED BY <3>1, <3>2
  <2> HIDE DEF x, y
  <2> QED BY <2>1, <2>2 DEF HeadroomFloor
<1> QED BY <1>2, <1>3

\* ... and no less slack.
LEMMA SlackGrows ==
    ASSUME NEW f, NEW t, NEW u, Grows(f, t, u)
    PROVE  Slack(f, t) <= Slack(f, u)
<1> DEFINE W == InWaterfall(f)
           S == W \ Absorbers(f, t)
           R == W \ Absorbers(f, u)
           x == [d \in DOMAIN t |-> Shortfall(f, t, d)]
           y == [d \in DOMAIN u |-> Shortfall(f, u, d)]
<1>1. Pours(f, t) /\ Pours(f, u) /\ DOMAIN t = W /\ DOMAIN u = W
  BY DEF Grows, Pours
<1>2. Slack(f, t) = SumFunctionOnSet(x, S) /\ Slack(f, u) = SumFunctionOnSet(y, R)
  BY <1>1, Zenon DEF Slack
<1>3. S \in SUBSET R /\ IsFiniteSet(R)
  BY <1>1, AbsorbersShrink, ReclaimLoop
<1>4. ASSUME NEW d \in W PROVE x[d] \in Nat /\ y[d] \in Nat /\ x[d] <= y[d]
  <2> DEFINE p == t[d] * f[d].rated
             q == u[d] * f[d].rated
             a == f[d].actual
  <2>1. x[d] = Shortfall(f, t, d) /\ y[d] = Shortfall(f, u, d)
    BY <1>1
  <2>2. p \in Nat /\ q \in Nat /\ x[d] \in Nat /\ y[d] \in Nat
    BY <1>1, <2>1, ShortfallType
  <2>3. p <= q
    <3>1. t[d] \in Nat /\ u[d] \in Nat /\ t[d] <= u[d] /\ f[d].rated \in Nat
      BY GrowsFacts
    <3>2. \A i, j, r \in Nat : i <= j => i * r <= j * r
      OBVIOUS
    <3> QED BY <3>1, <3>2
  <2>4. a \in Int
    BY <1>1, FleetFacts DEF Pours
  <2>5. /\ x[d] = IF a >= 0 /\ p - 1000 * a > SlackMinPerDevice THEN p - 1000 * a ELSE 0
        /\ y[d] = IF a >= 0 /\ q - 1000 * a > SlackMinPerDevice THEN q - 1000 * a ELSE 0
    BY <2>1 DEF Shortfall
  <2> HIDE DEF p, q, a, x, y
  <2>6. x[d] <= y[d]
    BY <2>2, <2>3, <2>4, <2>5 DEF SlackMinPerDevice
  <2> QED BY <2>2, <2>6
<1> HIDE DEF x, y
<1>5. SumFunctionOnSet(x, S) <= SumFunctionOnSet(y, R)
  <2>1. (\A d \in S : x[d] \in Nat /\ x[d] <= y[d]) /\ \A d \in R : y[d] \in Nat
    BY <1>4
  <2> QED BY <1>3, <2>1, SumLess
<1> QED BY <1>2, <1>5

\* An absorber of both ends no lower, unless its headroom has shrunk to nothing.
LEMMA AbsorberRises ==
    ASSUME NEW f, NEW t, NEW u, Grows(f, t, u),
           Slack(f, t) >= SlackMinTotal,
           NEW d \in Absorbers(f, u), Headroom(f, u)[d] # 0
    PROVE  Reclaim(f, t)[d] <= Reclaim(f, u)[d]
<1> DEFINE r == f[d].rated
           low == t[d] * r
           high == u[d] * r
           all == 1000 * r
           x == Headroom(f, t)
           y == Headroom(f, u)
           B == Before(FastestFirst(f), Absorbers(f, t), d)
           C == Before(FastestFirst(f), Absorbers(f, u), d)
           p == ReclaimShare(f, t)[d]
           q == ReclaimShare(f, u)[d]
           i == Slack(f, t) - SumFunctionOnSet(x, B)
           j == Slack(f, u) - SumFunctionOnSet(y, C)
<1>1. /\ Pours(f, t) /\ Pours(f, u) /\ IsFleet(f)
      /\ d \in Absorbers(f, t) /\ d \in InWaterfall(f)
      /\ x[d] \in Nat /\ y[d] \in Nat /\ y[d] <= x[d]
  <2>1. Pours(f, t) /\ Pours(f, u) /\ IsFleet(f) /\ DOMAIN u = InWaterfall(f)
    BY DEF Grows, Pours
  <2> QED BY <2>1, AbsorbersShrink DEF Absorbers
<1>2. Slack(f, t) \in Nat /\ Slack(f, u) \in Nat /\ Slack(f, t) <= Slack(f, u)
  BY <1>1, ReclaimLoop, SlackGrows
<1>3. /\ LoopInput(FastestFirst(f), x, Slack(f, t)) /\ DOMAIN x = Absorbers(f, t)
      /\ LoopInput(FastestFirst(f), y, Slack(f, u)) /\ DOMAIN y = Absorbers(f, u)
  BY <1>1, ReclaimLoop
<1>4. /\ p = Part(x[d], i) /\ q = Part(y[d], j)
      /\ SumFunctionOnSet(x, B) \in Nat /\ SumFunctionOnSet(y, C) \in Nat
  <2>1. p = Part(x[d], i)
    BY <1>1, <1>3, AllotIs DEF ReclaimShare, LeftFor
  <2>2. q = Part(y[d], j)
    BY <1>3, AllotIs DEF ReclaimShare, LeftFor
  <2> QED BY <1>3, <2>1, <2>2, LeftForType
<1>5. SumFunctionOnSet(y, C) <= SumFunctionOnSet(x, B)
  <2>1. C \in SUBSET B /\ B \in SUBSET Absorbers(f, t) /\ C \in SUBSET Absorbers(f, u)
    BY AbsorbersShrink DEF Before
  <2>2. IsFiniteSet(B)
    BY <1>1, <2>1, ReclaimLoop, FS_Subset
  <2>3. (\A e \in C : y[e] \in Nat /\ y[e] <= x[e]) /\ \A e \in B : x[e] \in Nat
    BY <1>3, <2>1, AbsorbersShrink DEF LoopInput
  <2> HIDE DEF x, y, B, C
  <2> QED BY <2>1, <2>2, <2>3, SumLess
<1>6. i \in Int /\ j \in Int /\ i <= j
  BY <1>2, <1>4, <1>5
<1>7. /\ r \in Nat \ {0} /\ t[d] \in Nat /\ u[d] \in Nat /\ t[d] <= u[d] /\ u[d] <= 1000
  BY <1>1, GrowsFacts
<1>8. y[d] = (Full - u[d]) * r /\ y[d] > HeadroomFloor
      /\ x[d] = IF (Full - t[d]) * r <= HeadroomFloor THEN 0 ELSE (Full - t[d]) * r
  <2>1. y[d] = IF (Full - u[d]) * r <= HeadroomFloor THEN 0 ELSE (Full - u[d]) * r
    BY <1>1, ReclaimLoop, Zenon
  <2>2. x[d] = IF (Full - t[d]) * r <= HeadroomFloor THEN 0 ELSE (Full - t[d]) * r
    BY <1>1, ReclaimLoop, Zenon
  <2>3. (Full - u[d]) * r \in Nat
    BY <1>1, ReclaimLoop
  <2>4. y[d] # 0
    OBVIOUS
  <2> DEFINE h == (Full - u[d]) * r
  <2> HIDE DEF r, x, y, h
  <2>5. y[d] = h /\ y[d] > HeadroomFloor
    BY <2>1, <2>3, <2>4 DEF HeadroomFloor, h
  <2> QED BY <2>2, <2>5 DEF h
<1>9. Reclaim(f, t)[d] = RoundDiv(low + p, r) /\ Reclaim(f, u)[d] = RoundDiv(high + q, r)
  <2>1. Slack(f, u) >= SlackMinTotal
    BY <1>2 DEF SlackMinTotal
  <2> QED BY <1>1, <2>1, ReclaimTargets
<1> HIDE DEF p, q, i, j, x, y, r
<1>10. /\ low \in Nat /\ high \in Nat /\ all \in Nat /\ low <= high
       /\ (Full - t[d]) * r = all - low /\ (Full - u[d]) * r = all - high
  <2>1. low \in Nat /\ high \in Nat /\ all \in Nat
    BY <1>7
  <2>2. (Full - t[d]) * r = all - low /\ (Full - u[d]) * r = all - high
    BY <1>7 DEF Full
  <2>3. \A m, n, k \in Nat : m <= n => m * k <= n * k
    OBVIOUS
  <2> QED BY <1>7, <2>1, <2>2, <2>3
<1> HIDE DEF low, high, all
<1>11. x[d] = all - low /\ y[d] = all - high
  BY <1>1, <1>8, <1>10 DEF HeadroomFloor
<1>12. low + p \in Nat /\ high + q \in Nat /\ low + p <= high + q
  BY <1>1, <1>4, <1>6, <1>10, <1>11 DEF Part
<1> QED BY <1>7, <1>9, <1>12, RoundMonotone

\* No target is more than the floor below what it was.
LEMMA ReclaimGrows ==
    ASSUME NEW f, NEW t, NEW u, Grows(f, t, u), NEW d \in InWaterfall(f)
    PROVE  Reclaim(f, u)[d] * f[d].rated + HeadroomFloor >= Reclaim(f, t)[d] * f[d].rated
<1> DEFINE T == Reclaim(f, t)[d]
           U == Reclaim(f, u)[d]
           r == f[d].rated
<1>1. Pours(f, t) /\ Pours(f, u) /\ IsFleet(f) /\ DOMAIN u = InWaterfall(f) /\ DOMAIN t = InWaterfall(f)
  BY GrowsFacts
<1>2. /\ r \in Nat /\ t[d] \in Nat /\ u[d] \in Nat /\ t[d] <= u[d] /\ u[d] <= 1000
      /\ T \in Nat /\ T <= 1000 /\ U \in Nat /\ u[d] <= U /\ U <= 1000
      /\ d \notin Absorbers(f, t) \/ Slack(f, t) < SlackMinTotal => T = t[d]
  <2>1. r \in Nat /\ t[d] \in Nat /\ u[d] \in Nat /\ t[d] <= u[d] /\ u[d] <= 1000
    BY GrowsFacts
  <2>2. T \in t[d]..1000 /\ U \in u[d]..1000
    BY <1>1, ReclaimRaises DEF Full
  <2>3. d \notin Absorbers(f, t) \/ Slack(f, t) < SlackMinTotal => T = t[d]
    BY <1>1, ReclaimRaises
  <2> HIDE DEF T, U
  <2>4. T \in Nat /\ T <= 1000
    BY <2>1, <2>2
  <2>5. U \in Nat /\ u[d] <= U /\ U <= 1000
    BY <2>1, <2>2
  <2> QED BY <2>1, <2>3, <2>4, <2>5
<1>3. Slack(f, t) \in Nat
  BY <1>1, ReclaimLoop
<1>4. d \in Absorbers(f, t) /\ d \notin Absorbers(f, u) => u[d] = 1000
  BY <1>1, <1>2 DEF Absorbers, Full
<1>5. d \in Absorbers(f, u) /\ Headroom(f, u)[d] = 0 => (Full - u[d]) * r <= HeadroomFloor
  <2> DEFINE h == (Full - u[d]) * r
  <2>1. d \in Absorbers(f, u) => h \in Nat /\ Headroom(f, u)[d] = IF h <= HeadroomFloor THEN 0 ELSE h
    BY <1>1, ReclaimLoop
  <2> HIDE DEF h
  <2>2. d \in Absorbers(f, u) /\ Headroom(f, u)[d] = 0 => h <= HeadroomFloor
    BY <2>1 DEF HeadroomFloor
  <2> QED BY <2>2 DEF h
<1>6. /\ d \in Absorbers(f, u) /\ Headroom(f, u)[d] # 0 /\ Slack(f, t) >= SlackMinTotal
      => T <= U
  BY AbsorberRises
<1> HIDE DEF T, U, r
<1>7. T \in Nat /\ U \in Nat
  BY <1>2
<1>8. ASSUME T <= U PROVE U * r + HeadroomFloor >= T * r
  <2>1. \A m, n, k \in Nat : m <= n => m * k <= n * k /\ m * k \in Nat /\ n * k \in Nat
    OBVIOUS
  <2>2. T * r <= U * r /\ T * r \in Nat /\ U * r \in Nat
    BY <1>2, <1>7, <1>8, <2>1
  <2> QED BY <2>2 DEF HeadroomFloor
<1>9. ASSUME (Full - u[d]) * r <= HeadroomFloor PROVE U * r + HeadroomFloor >= T * r
  <2>1. \A m, n, k \in Nat : m <= n => m * k <= n * k /\ m * k \in Nat /\ n * k \in Nat
    OBVIOUS
  <2>2. u[d] * r <= U * r /\ T * r <= 1000 * r /\ u[d] \in Nat
    BY <1>2, <1>7, <2>1
  <2>3. (Full - u[d]) * r = 1000 * r - u[d] * r
    BY <1>2, <2>2 DEF Full
  <2>4. u[d] * r \in Nat /\ U * r \in Nat /\ T * r \in Nat /\ 1000 * r \in Nat
    BY <1>2, <1>7, <2>2
  <2> QED BY <1>9, <2>2, <2>3, <2>4 DEF HeadroomFloor
<1>10. T <= U \/ (Full - u[d]) * r <= HeadroomFloor
  <2>1. CASE d \notin Absorbers(f, t) \/ Slack(f, t) < SlackMinTotal
    BY <1>2, <2>1
  <2>2. CASE d \in Absorbers(f, t) /\ d \notin Absorbers(f, u)
    BY <1>2, <1>4, <2>2
  <2>3. CASE d \in Absorbers(f, u) /\ Headroom(f, u)[d] = 0
    BY <1>5, <2>3
  <2>4. CASE d \in Absorbers(f, u) /\ Headroom(f, u)[d] # 0 /\ Slack(f, t) >= SlackMinTotal
    BY <1>6, <2>4
  <2> QED BY <1>3, <2>1, <2>2, <2>3, <2>4 DEF SlackMinTotal
<1> QED BY <1>8, <1>9, <1>10 DEF T, U, r
-----------------------------------------------------------------------------
(***************************************************************************)
(* The theorems.                                                           *)
(***************************************************************************)

\* An answered call has the targets of its fleet and limit.
DistributionIInv ==
    /\ fleet \in Fleets /\ limit \in Limits
    /\ targets # <<>> => TotalRated(fleet) > 0 /\ targets = Reclaim(fleet, Poured)

LEMMA IInvHolds == Spec => []DistributionIInv
<1>1. Init => DistributionIInv
  BY DEF Init, DistributionIInv
<1>2. DistributionIInv /\ [Distribute]_vars => DistributionIInv'
  <2> SUFFICES ASSUME DistributionIInv, [Distribute]_vars PROVE DistributionIInv'
    OBVIOUS
  <2>1. CASE Distribute
    <3>1. fleet' = fleet /\ limit' = limit /\ targets' = Targets(fleet, limit)
      BY <2>1 DEF Distribute
    <3>2. Poured' = Poured
      BY <3>1 DEF Poured
    <3>3. /\ TotalRated(fleet) \in Int
          /\ targets' # <<>> => TotalRated(fleet) > 0 /\ targets' = Reclaim(fleet, Poured)
      <4>1. TotalRated(fleet) \in Nat
        BY FleetAssumption, RatedSumType DEF TotalRated, DistributionIInv
      <4>2. Targets(fleet, limit) = IF TotalRated(fleet) <= 0 THEN <<>> ELSE Reclaim(fleet, Poured)
        BY DEF Targets, Poured
      <4> QED BY <3>1, <4>1, <4>2
    <3> QED BY <3>1, <3>2, <3>3 DEF DistributionIInv
  <2>2. CASE UNCHANGED vars
    BY <2>2 DEF vars, DistributionIInv, Poured
  <2> QED BY <2>1, <2>2
<1> QED BY <1>1, <1>2, PTL DEF Spec

\* What the invariant says of the call.
LEMMA CallFacts ==
    ASSUME DistributionIInv
    PROVE  /\ IsFleet(fleet) /\ limit \in Nat /\ Budget(fleet, limit) \in Nat
           /\ Pours(fleet, Poured) /\ DOMAIN Poured = InWaterfall(fleet)
           /\ targets # <<>> => /\ targets = Reclaim(fleet, Poured)
                                /\ DOMAIN targets = InWaterfall(fleet)
                                /\ InWaterfall(fleet) # {}
<1>1. IsFleet(fleet) /\ limit \in Nat
  BY FleetAssumption DEF DistributionIInv
<1>2. Budget(fleet, limit) \in Nat
  BY <1>1, BudgetGrows
<1>3. Pours(fleet, Poured) /\ DOMAIN Poured = InWaterfall(fleet)
  BY <1>1, <1>2, PourPours DEF Poured, Pours
<1>4. ASSUME targets # <<>>
      PROVE  /\ targets = Reclaim(fleet, Poured)
             /\ DOMAIN targets = InWaterfall(fleet)
             /\ InWaterfall(fleet) # {}
  <2>1. targets = Reclaim(fleet, Poured)
    BY <1>4 DEF DistributionIInv
  <2>2. DOMAIN targets = InWaterfall(fleet)
    BY <1>3, <2>1 DEF Reclaim
  <2>3. targets = [d \in DOMAIN targets |-> targets[d]]
    BY <1>3, <2>1 DEF Reclaim, Poured, Pour
  <2>4. \A h : h = [x \in {} |-> h[x]] => h = <<>>
    OBVIOUS
  <2> QED BY <1>4, <2>1, <2>2, <2>3, <2>4
<1> QED BY <1>1, <1>2, <1>3, <1>4

\* The waterfall of _waterfall() gives each device what the devices before it
\* leave over, for every fleet and every limit.
THEOREM ReferenceMet == Spec => []WaterfallMeetsReference
<1>1. DistributionIInv => WaterfallMeetsReference
  <2> SUFFICES ASSUME DistributionIInv PROVE WaterfallMeetsReference
    OBVIOUS
  <2> DEFINE b         == Budget(fleet, limit)
             before(d) == {e \in InWaterfall(fleet) : Precedes(fleet, e, d)}
             leftover(d) == b - 100 * RatedSum(fleet, before(d))
             share(d) == Max({0, Min({100 * fleet[d].rated, leftover(d)})})
  <2>1. ASSUME NEW d \in InWaterfall(fleet)
        PROVE  Poured[d] = RoundDiv(10 * share(d), fleet[d].rated)
    <3>1. IsFleet(fleet) /\ b \in Nat
      BY CallFacts
    <3>2. Poured[d] = RoundDiv(10 * PourShare(fleet, b)[d], fleet[d].rated)
      BY <3>1, PourTargets DEF Poured
    <3>3. PourShare(fleet, b)[d] = ReferenceShare(fleet, b, d)
      BY <3>1, PourMeetsReference
    <3>4. ReferenceShare(fleet, b, d) = share(d)
      BY Zenon DEF ReferenceShare, Earlier
    <3> QED BY <3>2, <3>3, <3>4, Zenon
  <2>2. Poured = [d \in InWaterfall(fleet) |-> Poured[d]]
    BY DEF Poured, Pour
  <2>3. Poured = [d \in InWaterfall(fleet) |-> RoundDiv(10 * share(d), fleet[d].rated)]
    <3> HIDE DEF share
    <3> QED BY <2>1, <2>2
  <2> QED BY <2>3, Zenon DEF WaterfallMeetsReference
<1> QED BY <1>1, IInvHolds, PTL

\* Reallocated slack never takes the fleet's expected production above the
\* waterfall budget by more than the largest rating's rounding, for every
\* fleet, limit and set of readings.
THEOREM CeilingCorrect == Spec => []ReclaimKeepsCeiling
<1>1. DistributionIInv => ReclaimKeepsCeiling
  <2> SUFFICES ASSUME DistributionIInv, targets # <<>>
      PROVE  SumFunctionOnSet([d \in DOMAIN targets |-> Expected(d)], DOMAIN targets)
               <= 10 * Budget(fleet, limit) + Biggest
    BY DEF ReclaimKeepsCeiling
  <2> DEFINE W == InWaterfall(fleet)
             g == [d \in DOMAIN targets |-> Expected(d)]
             ratings == {fleet[d].rated : d \in DOMAIN targets}
  <2>1. /\ IsFleet(fleet) /\ Budget(fleet, limit) \in Nat
        /\ targets = Reclaim(fleet, Poured) /\ DOMAIN targets = W /\ W # {}
    BY CallFacts
  <2>2. Biggest \in Nat /\ \A d \in W : fleet[d].rated <= Biggest
    <3>1. IsFiniteSet(ratings)
      <4> DEFINE rated == [d \in W |-> fleet[d].rated]
      <4>1. rated \in Surjection(W, ratings)
        BY <2>1 DEF Surjection
      <4>2. IsFiniteSet(W)
        BY <2>1, FleetFacts
      <4> QED BY <4>1, <4>2, FS_Surjection
    <3>2. ratings \in SUBSET Nat /\ ratings # {} /\ \A d \in W : fleet[d].rated \in ratings
      BY <2>1, FleetFacts
    <3>3. Biggest = Max(ratings)
      BY Zenon DEF Biggest
    <3> HIDE DEF ratings
    <3>4. ratings \in SUBSET Int
      BY <3>2
    <3>5. Max(ratings) \in ratings /\ \A x \in ratings : x <= Max(ratings)
      BY <3>1, <3>2, <3>4, Largest
    <3> QED BY <3>2, <3>3, <3>5
  <2>3. \A d \in W : g[d] = Produces(fleet, Poured, Reclaim(fleet, Poured), d)
    <3>1. \A d \in W : g[d] = Expected(d)
      BY <2>1
    <3>2. ASSUME NEW d \in W
          PROVE  Expected(d) = Produces(fleet, Poured, targets, d)
      BY Zenon DEF Expected, Produces
    <3> HIDE DEF g
    <3> QED BY <2>1, <3>1, <3>2, Zenon
  <2> HIDE DEF g
  <2>4. SumFunctionOnSet(g, W) <= 10 * Budget(fleet, limit) + Biggest
    BY <2>1, <2>2, <2>3, CeilingKept DEF Poured
  <2> QED BY <2>1, <2>4, Zenon DEF g
<1> QED BY <1>1, IInvHolds, PTL

\* A higher limit lowers no device by more than the headroom floor, whatever
\* the fleet, the two limits and the readings.
THEOREM MoreLimitCorrect == Spec => []MoreLimitNeverLess
<1>1. DistributionIInv => MoreLimitNeverLess
  <2> SUFFICES ASSUME DistributionIInv, targets # <<>>,
                      NEW higher \in Limits, higher > limit,
                      NEW d \in DOMAIN targets
      PROVE  Targets(fleet, higher)[d] * fleet[d].rated + HeadroomFloor
               >= targets[d] * fleet[d].rated
    BY DEF MoreLimitNeverLess
  <2> DEFINE u == Pour(fleet, Budget(fleet, higher))
  <2>1. /\ IsFleet(fleet) /\ limit \in Nat /\ Budget(fleet, limit) \in Nat
        /\ targets = Reclaim(fleet, Poured) /\ DOMAIN targets = InWaterfall(fleet)
    BY CallFacts
  <2>2. higher \in Nat /\ limit <= higher
    BY <2>1, FleetAssumption
  <2>3. Budget(fleet, higher) \in Nat /\ Budget(fleet, limit) <= Budget(fleet, higher)
    BY <2>1, <2>2, BudgetGrows
  <2>4. Grows(fleet, Poured, u)
    BY <2>1, <2>3, PourGrows DEF Poured
  <2>5. Targets(fleet, higher) = Reclaim(fleet, u)
    <3>1. TotalRated(fleet) \in Nat /\ TotalRated(fleet) > 0
      BY <2>1, RatedSumType DEF DistributionIInv, TotalRated
    <3> QED BY <3>1 DEF Targets
  <2> HIDE DEF u
  <2>6. Reclaim(fleet, u)[d] * fleet[d].rated + HeadroomFloor
          >= Reclaim(fleet, Poured)[d] * fleet[d].rated
    BY <2>1, <2>4, ReclaimGrows
  <2> QED BY <2>1, <2>5, <2>6, Zenon
<1> QED BY <1>1, IInvHolds, PTL

\* No relay is switched down while a proportional device still has budget,
\* for every measured response time.
THEOREM RelaysCorrect == Spec => []RelaysThrottledLast
<1>1. DistributionIInv => RelaysThrottledLast
  <2> SUFFICES ASSUME DistributionIInv,
                      NEW d \in DOMAIN Poured, NEW e \in DOMAIN Poured,
                      IsBinary(fleet[d]), fleet[e].mode = "proportional", Poured[e] > 0
      PROVE  Poured[d] = Full
    BY DEF RelaysThrottledLast
  <2>1. /\ IsFleet(fleet) /\ Budget(fleet, limit) \in Nat
        /\ d \in InWaterfall(fleet) /\ e \in InWaterfall(fleet)
    BY CallFacts
  <2>2. fleet[e].cooldown = 0 /\ fleet[e].startupDelay = 0
    BY <2>1, CapsAssumption DEF DistributionIInv, InWaterfall
  <2> QED BY <2>1, <2>2, RelaysComeFirst DEF Poured, IsBinary
<1> QED BY <1>1, IInvHolds, PTL
\* What the machine of Distributor assumes of its targets (TargetsAssumption):
\* each is a percentage, and only devices that a limit may be sent to have one.
THEOREM TargetsArePercentages ==
    ASSUME NEW f, IsFleet(f), NEW l \in Nat
    PROVE  /\ DOMAIN Targets(f, l) \subseteq {d \in DOMAIN f : ThrottleEligible(f[d])}
           /\ \A d \in DOMAIN Targets(f, l) : Targets(f, l)[d] \in 0..Full
<1> DEFINE t == Pour(f, Budget(f, l))
<1>1. Pours(f, t)
  BY BudgetGrows, PourPours
<1>2. CASE Targets(f, l) = <<>>
  BY <1>2
<1>3. CASE Targets(f, l) = Reclaim(f, t)
  <2>1. /\ DOMAIN Reclaim(f, t) = InWaterfall(f)
        /\ \A d \in InWaterfall(f) : t[d] \in 0..Full /\ Reclaim(f, t)[d] \in t[d]..Full
    BY <1>1, ReclaimRaises DEF Pours
  <2> HIDE DEF t
  <2>2. \A d \in InWaterfall(f) : Reclaim(f, t)[d] \in 0..Full
    <3>1. \A m \in 0..Full : \A n \in m..Full : n \in 0..Full
      BY DEF Full
    <3> QED BY <2>1, <3>1, Zenon
  <2>3. InWaterfall(f) \subseteq {d \in DOMAIN f : ThrottleEligible(f[d])}
    BY DEF InWaterfall
  <2> QED BY <1>3, <2>1, <2>2, <2>3
<1>4. Targets(f, l) = <<>> \/ Targets(f, l) = Reclaim(f, t)
  BY Zenon DEF Targets
<1> QED BY <1>2, <1>3, <1>4
=============================================================================
