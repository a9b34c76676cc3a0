----------------------------- MODULE Sums_proofs -----------------------------
(***************************************************************************)
(* Finite sets, their extremes and sums over them.  MapThenSumSet          *)
(* (FiniteSetsExt) adds the elements up in an order CHOOSE fixes; here it  *)
(* is shown, by induction on the size of the set, that the order does not  *)
(* matter: an element can be taken out of a sum or put into it, and a      *)
(* larger set has the larger sum.                                          *)
(***************************************************************************)
EXTENDS FiniteSetsExt, FiniteSetTheorems, WellFoundedInduction, TLAPS

-------------------------------------------------------------------------------
(* Induction on the natural numbers, without operators for parameters.       *)

\* Every nonempty set of natural numbers has a least element.
LEMMA LeastNatural ==
    ASSUME NEW T \in SUBSET Nat, T # {}
    PROVE  \E m \in T : \A n \in T : m <= n
<1> DEFINE R == {ss \in Nat \X Nat : ss[1] < ss[2]}
<1>1. IsWellFoundedOn(R, Nat)
  BY NatLessThanWellFounded DEF OpToRel
<1>2. \E m \in T : \A n \in T : ~(<<n, m>> \in R)
  <2> HIDE DEF R
  <2> QED BY <1>1, WFMin
<1>3. PICK m \in T : \A n \in T : ~(<<n, m>> \in R)
  BY <1>2
<1>4. \A n \in T : ~(n < m)
  BY <1>3
<1> QED BY <1>4

\* A set with 0 in it that is closed under + 1 holds every natural number.
LEMMA Induction ==
    ASSUME NEW S, 0 \in S, \A n \in Nat : n \in S => n + 1 \in S
    PROVE  \A n \in Nat : n \in S
<1> SUFFICES ASSUME NEW n \in Nat, n \notin S PROVE FALSE
  OBVIOUS
<1>1. PICK m \in Nat \ S : \A x \in Nat \ S : m <= x
  BY LeastNatural
<1>2. m # 0 /\ m - 1 \in Nat /\ (m - 1) + 1 = m
  BY <1>1
<1> QED BY <1>1, <1>2

-------------------------------------------------------------------------------
(* Finite sets.                                                              *)

\* A function has finitely many values on a finite set, and no more than there are
\* arguments.
LEMMA ImageFinite ==
    ASSUME NEW S, IsFiniteSet(S), NEW f, S \subseteq DOMAIN f
    PROVE  IsFiniteSet({f[x] : x \in S}) /\ Cardinality({f[x] : x \in S}) <= Cardinality(S)
<1> DEFINE T == {f[x] : x \in S}
           g == [x \in S |-> f[x]]
<1>1. g \in Surjection(S, T)
  BY DEF Surjection
<1> QED BY <1>1, FS_Surjection

\* A set of naturals assigned to the members of a nonempty set has a least: T[x] for x.
LEMMA LeastOf ==
    ASSUME NEW S, S # {}, NEW T, \A x \in S : T[x] \in Nat
    PROVE  \E x \in S : \A y \in S : T[x] <= T[y]
<1> DEFINE V == {T[x] : x \in S}
<1>1. V \in SUBSET Nat /\ V # {}
  OBVIOUS
<1>2. PICK v \in V : \A w \in V : v <= w
  BY <1>1, LeastNatural
<1> QED BY <1>2

\* Finitely many integers have a greatest and a least.
LEMMA Extremes ==
    ASSUME NEW S \in SUBSET Int, S # {}, IsFiniteSet(S)
    PROVE  /\ Max(S) \in S /\ \A y \in S : Max(S) >= y
           /\ Min(S) \in S /\ \A y \in S : Min(S) <= y
<1>1. \A T \in SUBSET S : IsFiniteSet(T) /\ Cardinality(T) \in Nat
  BY FS_Subset, FS_CardinalityType
<1>2. ASSUME NEW x \in S, NEW T \in SUBSET S, x \in T, NEW U \in SUBSET T, x \notin U
      PROVE  Cardinality(U) < Cardinality(T)
  <2>1. U # T /\ U \subseteq T
    BY <1>2
  <2>2. Cardinality(U) <= Cardinality(T) /\ Cardinality(U) # Cardinality(T)
    BY <1>1, <2>1, FS_Subset
  <2>3. Cardinality(U) \in Nat /\ Cardinality(T) \in Nat
    BY <1>1
  <2> QED BY <2>2, <2>3
<1>3. \E x \in S : \A y \in S : x >= y
  <2> DEFINE Larger == [x \in S |-> {y \in S : y > x}]
             Size == [x \in S |-> Cardinality(Larger[x])]
  <2>1. PICK x \in S : \A y \in S : Size[x] <= Size[y]
    <3>1. \A y \in S : Size[y] \in Nat
      BY <1>1
    <3> HIDE DEF Size
    <3> QED BY <3>1, LeastOf
  <2>2. ASSUME NEW y \in S, y > x PROVE FALSE
    <3>1. y \in Larger[x] /\ y \notin Larger[y] /\ Larger[x] \in SUBSET S
      BY <2>2
    <3>2. Larger[y] \in SUBSET Larger[x]
      <4>1. \A z \in S : z > y => z > x
        BY <2>2
      <4> QED BY <4>1
    <3>3. Cardinality(Larger[y]) < Cardinality(Larger[x])
      <4> HIDE DEF Larger
      <4> QED BY <1>2, <3>1, <3>2
    <3>4. Cardinality(Larger[x]) <= Cardinality(Larger[y])
      BY <2>1
    <3>5. Cardinality(Larger[x]) \in Nat /\ Cardinality(Larger[y]) \in Nat
      BY <1>1
    <3> HIDE DEF Larger
    <3> QED BY <3>3, <3>4, <3>5
  <2>3. \A y \in S : x \in Int /\ y \in Int /\ ~(y > x)
    BY <2>2
  <2>4. \A y \in S : x >= y
    <3> HIDE DEF Size, Larger
    <3> QED BY <2>3
  <2> QED BY <2>4
<1>4. \E x \in S : \A y \in S : x <= y
  <2> DEFINE Lesser == [x \in S |-> {y \in S : y < x}]
             Size == [x \in S |-> Cardinality(Lesser[x])]
  <2>1. PICK x \in S : \A y \in S : Size[x] <= Size[y]
    <3>1. \A y \in S : Size[y] \in Nat
      BY <1>1
    <3> HIDE DEF Size
    <3> QED BY <3>1, LeastOf
  <2>2. ASSUME NEW y \in S, y < x PROVE FALSE
    <3>1. y \in Lesser[x] /\ y \notin Lesser[y] /\ Lesser[x] \in SUBSET S
      BY <2>2
    <3>2. Lesser[y] \in SUBSET Lesser[x]
      <4>1. \A z \in S : z < y => z < x
        BY <2>2
      <4> QED BY <4>1
    <3>3. Cardinality(Lesser[y]) < Cardinality(Lesser[x])
      <4> HIDE DEF Lesser
      <4> QED BY <1>2, <3>1, <3>2
    <3>4. Cardinality(Lesser[x]) <= Cardinality(Lesser[y])
      BY <2>1
    <3>5. Cardinality(Lesser[x]) \in Nat /\ Cardinality(Lesser[y]) \in Nat
      BY <1>1
    <3> HIDE DEF Lesser
    <3> QED BY <3>3, <3>4, <3>5
  <2>3. \A y \in S : x \in Int /\ y \in Int /\ ~(y < x)
    BY <2>2
  <2>4. \A y \in S : x <= y
    <3> HIDE DEF Size, Lesser
    <3> QED BY <2>3
  <2> QED BY <2>4
<1> QED BY <1>3, <1>4 DEF Max, Min


\* The greater and the lesser of two integers.
LEMMA TwoExtremes ==
    ASSUME NEW a \in Int, NEW b \in Int
    PROVE  /\ Max({a, b}) \in {a, b} /\ Max({a, b}) >= a /\ Max({a, b}) >= b
           /\ Min({a, b}) \in {a, b} /\ Min({a, b}) <= a /\ Min({a, b}) <= b
<1>1. IsFiniteSet({a, b}) /\ {a, b} \in SUBSET Int /\ {a, b} # {}
  <2>1. IsFiniteSet({a}) /\ IsFiniteSet({a} \cup {b}) /\ {a} \cup {b} = {a, b}
    BY FS_Singleton, FS_AddElement
  <2> QED BY <2>1
<1> QED BY <1>1, Extremes

LEMMA Smaller ==
    ASSUME NEW S, IsFiniteSet(S), NEW T \in SUBSET S
    PROVE  IsFiniteSet(T) /\ Cardinality(T) \in Nat /\ Cardinality(T) <= Cardinality(S)
BY FS_Subset, FS_CardinalityType

-------------------------------------------------------------------------------
(* The function MapThenSumSet computes, f[x] being what x adds to the sum.   *)

SumStep(f, g, s) == IF s = {} THEN 0 ELSE LET x == CHOOSE x \in s : TRUE IN f[x] + g[s \ {x}]

IsSum(f, S, g) == DOMAIN g = SUBSET S /\ \A s \in SUBSET S : g[s] = SumStep(f, g, s)

\* The element a sum starts with, and the rest of the set.
LEMMA FirstTaken ==
    ASSUME NEW s, s # {}, IsFiniteSet(s), NEW n \in Nat, Cardinality(s) <= n + 1
    PROVE  LET x == CHOOSE x \in s : TRUE
           IN  x \in s /\ IsFiniteSet(s \ {x}) /\ Cardinality(s \ {x}) <= n
<1> DEFINE x == CHOOSE x \in s : TRUE
<1>1. x \in s
  OBVIOUS
<1> HIDE DEF x
<1>2. /\ IsFiniteSet(s \ {x}) /\ Cardinality(s \ {x}) = Cardinality(s) - 1
      /\ Cardinality(s) \in Nat
  BY <1>1, FS_RemoveElement, FS_CardinalityType
<1> QED BY <1>1, <1>2 DEF x

\* Every subset of a finite set has a sum.
LEMMA SumExists ==
    ASSUME NEW U, NEW f \in [U -> Nat], NEW S \in SUBSET U, IsFiniteSet(S)
    PROVE  \E g \in [SUBSET S -> Nat] : IsSum(f, S, g)
<1> DEFINE Small(n) == {s \in SUBSET S : Cardinality(s) <= n}
           SumUpTo(n, g) == \A s \in Small(n) : g[s] = SumStep(f, g, s)
           N == {n \in Nat : \E g \in [Small(n) -> Nat] : SumUpTo(n, g)}
<1>1. \A s \in SUBSET S : IsFiniteSet(s) /\ Cardinality(s) \in Nat /\ Cardinality(s) <= Cardinality(S)
  BY FS_Subset, FS_CardinalityType
<1>2. 0 \in N
  <2> DEFINE g == [s \in Small(0) |-> 0]
  <2>1. \A s \in Small(0) : s = {}
    BY <1>1, FS_EmptySet
  <2>2. g \in [Small(0) -> Nat] /\ SumUpTo(0, g)
    BY <2>1 DEF SumStep
  <2> QED BY <2>2
<1>3. ASSUME NEW n \in Nat, n \in N PROVE n + 1 \in N
  <2>1. PICK h \in [Small(n) -> Nat] : SumUpTo(n, h)
    BY <1>3
  <2> DEFINE g == [s \in Small(n + 1) |-> SumStep(f, h, s)]
  <2>2. ASSUME NEW s \in Small(n + 1), s # {}
        PROVE  LET x == CHOOSE x \in s : TRUE IN x \in U /\ s \ {x} \in Small(n)
    <3> DEFINE x == CHOOSE x \in s : TRUE
    <3>1. x \in s /\ Cardinality(s \ {x}) <= n
      BY <1>1, <2>2, FirstTaken
    <3> HIDE DEF x
    <3>2. x \in U /\ s \ {x} \in Small(n)
      BY <3>1
    <3> QED BY <3>2 DEF x
  <2>3. \A s \in Small(n + 1) : SumStep(f, h, s) \in Nat
    <3> SUFFICES ASSUME NEW s \in Small(n + 1) PROVE SumStep(f, h, s) \in Nat
      OBVIOUS
    <3> DEFINE x == CHOOSE x \in s : TRUE
    <3>1. CASE s # {}
      <4>1. x \in U /\ s \ {x} \in Small(n)
        BY <2>2, <3>1
      <4>2. SumStep(f, h, s) = f[x] + h[s \ {x}]
        BY <3>1 DEF SumStep
      <4> HIDE DEF x, Small
      <4>3. f[x] \in Nat /\ h[s \ {x}] \in Nat
        BY <4>1, <2>1
      <4> QED BY <4>2, <4>3
    <3> QED BY <3>1 DEF SumStep
  <2>4. \A s \in Small(n) : g[s] = h[s] /\ s \in Small(n + 1)
    <3> SUFFICES ASSUME NEW s \in Small(n) PROVE g[s] = h[s] /\ s \in Small(n + 1)
      OBVIOUS
    <3>1. s \in Small(n + 1)
      BY <1>1
    <3>2. h[s] = SumStep(f, h, s)
      BY <2>1
    <3> HIDE DEF Small
    <3> QED BY <3>1, <3>2
  <2>5. \A s \in Small(n + 1) : SumStep(f, g, s) = SumStep(f, h, s)
    <3> SUFFICES ASSUME NEW s \in Small(n + 1), s # {} PROVE SumStep(f, g, s) = SumStep(f, h, s)
      BY DEF SumStep
    <3> DEFINE x == CHOOSE x \in s : TRUE
    <3>1. s \ {x} \in Small(n)
      BY <2>2
    <3>2. g[s \ {x}] = h[s \ {x}]
      BY <2>4, <3>1
    <3> HIDE DEF g
    <3> QED BY <3>2 DEF SumStep
  <2>6. g \in [Small(n + 1) -> Nat] /\ SumUpTo(n + 1, g)
    <3>1. \A s \in Small(n + 1) : g[s] = SumStep(f, h, s)
      OBVIOUS
    <3>2. g \in [Small(n + 1) -> Nat]
      BY <2>3
    <3> HIDE DEF g, Small
    <3> QED BY <3>1, <3>2, <2>5
  <2> HIDE DEF g, Small, SumUpTo
  <2> QED BY <2>6
<1>4. \A n \in Nat : n \in N
  <2> HIDE DEF N
  <2> QED BY <1>2, <1>3, Induction
<1>5. Small(Cardinality(S)) = SUBSET S /\ Cardinality(S) \in Nat
  BY <1>1
<1>6. PICK g \in [SUBSET S -> Nat] : SumUpTo(Cardinality(S), g)
  BY <1>4, <1>5
<1> QED BY <1>5, <1>6 DEF IsSum
\* Two sums agree wherever they add up the same values.
LEMMA SumAgree ==
    ASSUME NEW S, IsFiniteSet(S), NEW T, S \subseteq T, NEW f, NEW h, \A x \in S : f[x] = h[x],
           NEW g1, IsSum(f, S, g1), NEW g2, IsSum(h, T, g2)
    PROVE  \A s \in SUBSET S : g1[s] = g2[s]
<1> DEFINE N == {n \in Nat : \A s \in SUBSET S : Cardinality(s) <= n => g1[s] = g2[s]}
<1>1. \A s \in SUBSET S : IsFiniteSet(s) /\ Cardinality(s) \in Nat
  BY FS_Subset, FS_CardinalityType
<1>2. \A s \in SUBSET S : g1[s] = SumStep(f, g1, s) /\ g2[s] = SumStep(h, g2, s)
  BY DEF IsSum
<1>3. 0 \in N
  <2>1. \A s \in SUBSET S : Cardinality(s) <= 0 => s = {}
    BY <1>1, FS_EmptySet
  <2> QED BY <2>1, <1>2 DEF SumStep
<1>4. ASSUME NEW n \in Nat, n \in N PROVE n + 1 \in N
  <2> SUFFICES ASSUME NEW s \in SUBSET S, Cardinality(s) <= n + 1 PROVE g1[s] = g2[s]
    OBVIOUS
  <2>1. CASE s = {}
    BY <2>1, <1>2 DEF SumStep
  <2>2. CASE s # {}
    <3> DEFINE x == CHOOSE x \in s : TRUE
    <3>1. x \in s /\ Cardinality(s \ {x}) <= n
      BY <1>1, <2>2, FirstTaken
    <3>2. g1[s] = f[x] + g1[s \ {x}] /\ g2[s] = h[x] + g2[s \ {x}]
      BY <1>2, <2>2 DEF SumStep
    <3> HIDE DEF x
    <3>3. g1[s \ {x}] = g2[s \ {x}]
      BY <1>4, <3>1
    <3> QED BY <3>1, <3>2, <3>3
  <2> QED BY <2>1, <2>2
<1>5. \A n \in Nat : n \in N
  <2> HIDE DEF N
  <2> QED BY <1>3, <1>4, Induction
<1> QED BY <1>1, <1>5

AnyOrder(f, S, g) == \A s \in SUBSET S, y \in S : y \in s => g[s] = f[y] + g[s \ {y}]

\* Any element may be added last.
LEMMA SumAnyOrder ==
    ASSUME NEW U, NEW f \in [U -> Nat], NEW S \in SUBSET U, IsFiniteSet(S),
           NEW g \in [SUBSET S -> Nat], IsSum(f, S, g)
    PROVE  AnyOrder(f, S, g)
<1> DEFINE N == {n \in Nat : \A s \in SUBSET S, y \in S :
                                Cardinality(s) <= n /\ y \in s => g[s] = f[y] + g[s \ {y}]}
<1>1. \A s \in SUBSET S : IsFiniteSet(s) /\ Cardinality(s) \in Nat
  BY FS_Subset, FS_CardinalityType
<1>2. \A s \in SUBSET S : g[s] = SumStep(f, g, s)
  BY DEF IsSum
<1>3. 0 \in N
  <2>1. \A s \in SUBSET S : Cardinality(s) <= 0 => s = {}
    BY <1>1, FS_EmptySet
  <2> QED BY <2>1
<1>4. ASSUME NEW n \in Nat, n \in N PROVE n + 1 \in N
  <2> SUFFICES ASSUME NEW s \in SUBSET S, NEW y \in s, Cardinality(s) <= n + 1
               PROVE  g[s] = f[y] + g[s \ {y}]
    OBVIOUS
  <2> DEFINE x == CHOOSE x \in s : TRUE
  <2>1. x \in s /\ Cardinality(s \ {x}) <= n
    BY <1>1, FirstTaken
  <2>2. g[s] = f[x] + g[s \ {x}]
    BY <1>2 DEF SumStep
  <2> HIDE DEF x
  <2>3. CASE y # x
    <3>1. y \in s \ {x} /\ x \in s \ {y}
      BY <2>1, <2>3
    <3>2. Cardinality(s \ {y}) <= n
      BY <1>1, FS_RemoveElement
    <3>3. g[s \ {x}] = f[y] + g[(s \ {x}) \ {y}]
      BY <1>4, <2>1, <3>1
    <3>4. g[s \ {y}] = f[x] + g[(s \ {y}) \ {x}]
      BY <1>4, <3>1, <3>2
    <3>5. (s \ {y}) \ {x} = (s \ {x}) \ {y}
      OBVIOUS
    <3> DEFINE rest == g[(s \ {x}) \ {y}]
    <3>6. f[x] \in Nat /\ f[y] \in Nat /\ rest \in Nat
      BY <2>1
    <3>7. g[s] = f[x] + (f[y] + rest) /\ g[s \ {y}] = f[x] + rest
      BY <2>2, <3>3, <3>4, <3>5
    <3> HIDE DEF rest
    <3> QED BY <3>6, <3>7
  <2> QED BY <2>2, <2>3
<1>5. \A n \in Nat : n \in N
  <2> HIDE DEF N
  <2> QED BY <1>3, <1>4, Induction
<1> QED BY <1>1, <1>5 DEF AnyOrder

\* A subset has no larger sum.
LEMMA SumMonotonic ==
    ASSUME NEW U, NEW f \in [U -> Nat], NEW S \in SUBSET U, IsFiniteSet(S),
           NEW g \in [SUBSET S -> Nat], IsSum(f, S, g)
    PROVE  \A s \in SUBSET S, t \in SUBSET S : t \subseteq s => g[t] <= g[s]
<1> DEFINE N == {n \in Nat : \A s \in SUBSET S, t \in SUBSET S :
                                Cardinality(s) <= n /\ t \subseteq s => g[t] <= g[s]}
<1>1. \A s \in SUBSET S : IsFiniteSet(s) /\ Cardinality(s) \in Nat
  BY FS_Subset, FS_CardinalityType
<1>2. 0 \in N
  <2>1. \A s \in SUBSET S : Cardinality(s) <= 0 => s = {}
    BY <1>1, FS_EmptySet
  <2>2. \A s \in SUBSET S, t \in SUBSET S : s = {} /\ t \subseteq s => t = s
    OBVIOUS
  <2>3. \A s \in SUBSET S : g[s] <= g[s]
    OBVIOUS
  <2> QED BY <2>1, <2>2, <2>3
<1>3. ASSUME NEW n \in Nat, n \in N PROVE n + 1 \in N
  <2> SUFFICES ASSUME NEW s \in SUBSET S, NEW t \in SUBSET S, Cardinality(s) <= n + 1, t \subseteq s
               PROVE  g[t] <= g[s]
    OBVIOUS
  <2>1. CASE t = s
    BY <2>1
  <2>2. CASE t # s
    <3>1. PICK y \in s : y \notin t
      BY <2>2
    <3>2. Cardinality(s \ {y}) <= n
      BY <1>1, FS_RemoveElement
    <3>3. g[t] <= g[s \ {y}]
      BY <1>3, <3>1, <3>2
    <3>4. g[s] = f[y] + g[s \ {y}]
      <4>1. AnyOrder(f, S, g)
        BY SumAnyOrder
      <4> QED BY <3>1, <4>1 DEF AnyOrder
    <3>5. f[y] \in Nat /\ g[t] \in Nat /\ g[s \ {y}] \in Nat
      BY <3>1
    <3> QED BY <3>3, <3>4, <3>5
  <2> QED BY <2>1, <2>2
<1>4. \A n \in Nat : n \in N
  <2> HIDE DEF N
  <2> QED BY <1>2, <1>3, Induction
<1> QED BY <1>1, <1>4

-------------------------------------------------------------------------------
(* The sum of f over the elements of S.                                      *)

SumOver(f, S) == (CHOOSE g : IsSum(f, S, g))[S]

\* However its function was come by, a sum is the sum.
LEMMA SumIsUnique ==
    ASSUME NEW S, IsFiniteSet(S), NEW f, NEW g, IsSum(f, S, g)
    PROVE  g[S] = SumOver(f, S)
<1> DEFINE h == CHOOSE h : IsSum(f, S, h)
<1>1. IsSum(f, S, h)
  OBVIOUS
<1> HIDE DEF h
<1>2. g[S] = h[S]
  BY <1>1, SumAgree
<1> QED BY <1>2 DEF h, SumOver

\* What SumOver does, for every finite set: nothing for the empty set, any
\* element added to the others, and never less for a larger set.
THEOREM SumFacts ==
    ASSUME NEW U, NEW f \in [U -> Nat], NEW S \in SUBSET U, IsFiniteSet(S)
    PROVE  /\ SumOver(f, {}) = 0
           /\ SumOver(f, S) \in Nat
           /\ \A y \in S : SumOver(f, S) = f[y] + SumOver(f, S \ {y})
           /\ \A T \in SUBSET S : SumOver(f, T) \in Nat /\ SumOver(f, T) <= SumOver(f, S)
           /\ \A y \in U : y \notin S => SumOver(f, S \cup {y}) = SumOver(f, S) + f[y]
<1>1. ASSUME NEW R \in SUBSET U, IsFiniteSet(R)
      PROVE  \E g \in [SUBSET R -> Nat] :
                IsSum(f, R, g) /\ \A s \in SUBSET R : SumOver(f, s) = g[s]
  <2>1. PICK g \in [SUBSET R -> Nat] : IsSum(f, R, g)
    BY <1>1, SumExists
  <2>2. ASSUME NEW s \in SUBSET R PROVE SumOver(f, s) = g[s]
    <3>1. IsFiniteSet(s)
      BY <1>1, FS_Subset
    <3>2. PICK h \in [SUBSET s -> Nat] : IsSum(f, s, h)
      BY <3>1, SumExists
    <3>3. h[s] = SumOver(f, s)
      BY <3>1, <3>2, SumIsUnique
    <3>4. h[s] = g[s]
      BY <2>1, <3>1, <3>2, SumAgree
    <3> QED BY <3>3, <3>4
  <2> QED BY <2>1, <2>2
<1>2. ASSUME NEW R \in SUBSET U, IsFiniteSet(R)
      PROVE  /\ SumOver(f, {}) = 0
             /\ SumOver(f, R) \in Nat
             /\ \A y \in R : SumOver(f, R) = f[y] + SumOver(f, R \ {y})
             /\ \A T \in SUBSET R : SumOver(f, T) \in Nat /\ SumOver(f, T) <= SumOver(f, R)
  <2>1. PICK g \in [SUBSET R -> Nat] : IsSum(f, R, g) /\ \A s \in SUBSET R : SumOver(f, s) = g[s]
    BY <1>1, <1>2
  <2>2. SumOver(f, {}) = 0 /\ SumOver(f, R) \in Nat
    BY <2>1 DEF IsSum, SumStep
  <2>3. \A y \in R : SumOver(f, R) = f[y] + SumOver(f, R \ {y})
    <3>1. AnyOrder(f, R, g)
      BY <1>2, <2>1, SumAnyOrder
    <3> QED BY <2>1, <3>1 DEF AnyOrder
  <2>4. \A T \in SUBSET R : SumOver(f, T) \in Nat /\ SumOver(f, T) <= SumOver(f, R)
    BY <1>2, <2>1, SumMonotonic
  <2> QED BY <2>2, <2>3, <2>4
<1>3. ASSUME NEW y \in U, y \notin S PROVE SumOver(f, S \cup {y}) = SumOver(f, S) + f[y]
  <2>1. S \cup {y} \in SUBSET U /\ IsFiniteSet(S \cup {y}) /\ (S \cup {y}) \ {y} = S
    BY <1>3, FS_AddElement
  <2>2. SumOver(f, S \cup {y}) = f[y] + SumOver(f, S)
    <3>1. \A z \in S \cup {y} : SumOver(f, S \cup {y}) = f[z] + SumOver(f, (S \cup {y}) \ {z})
      BY <1>2, <2>1
    <3> QED BY <2>1, <3>1
  <2>3. SumOver(f, S) \in Nat /\ f[y] \in Nat
    BY <1>2, <1>3
  <2> QED BY <2>2, <2>3
<1> QED BY <1>2, <1>3

\* The sum of f is the sum of any function that agrees with it.
LEMMA SameSum ==
    ASSUME NEW U, NEW f \in [U -> Nat], NEW V, NEW h \in [V -> Nat],
           NEW S \in SUBSET (U \cap V), IsFiniteSet(S), \A x \in S : f[x] = h[x]
    PROVE  SumOver(f, S) = SumOver(h, S)
<1>1. S \in SUBSET U /\ S \in SUBSET V
  OBVIOUS
<1>2. PICK g1 \in [SUBSET S -> Nat] : IsSum(f, S, g1)
  BY <1>1, SumExists
<1>3. PICK g2 \in [SUBSET S -> Nat] : IsSum(h, S, g2)
  BY <1>1, SumExists
<1>4. g1[S] = g2[S]
  BY <1>1, <1>2, <1>3, SumAgree
<1> QED BY <1>1, <1>2, <1>3, <1>4, SumIsUnique
===============================================================================
