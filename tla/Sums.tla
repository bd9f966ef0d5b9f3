------------------------------- MODULE Sums ---------------------------------
(***************************************************************************)
(* Facts about SumFunctionOnSet(f, S), the sum of f[x] for x in a finite   *)
(* set S, by which the books of the pool are added up.  The operator is a  *)
(* fold, defined by recursion over the subsets of S.  Every fact is proved *)
(* by taking a smallest subset that refutes it.                            *)
(***************************************************************************)
EXTENDS Integers, FiniteSets, Functions, FiniteSetTheorems, WellFoundedInduction, TLAPS

\* The element the fold takes next out of the set s.
Pick(s) == CHOOSE x \in s : TRUE

\* g is the function by which the fold of f over T is computed.
IsFold(g, f, T) ==
  g = [s \in SUBSET T |-> IF s = {} THEN 0 ELSE f[Pick(s)] + g[s \ {Pick(s)}]]

-----------------------------------------------------------------------------
\* Among the subsets of a finite set that have some property there is one no
\* strict subset of which has it.
LEMMA SmallestSubset ==
  ASSUME NEW S, IsFiniteSet(S), NEW W \in SUBSET SUBSET S, W # {}
  PROVE  \E T \in W : \A U \in SUBSET T : U # T => U \notin W
<1>1. IsWellFoundedOn(StrictSubsetOrdering(S), FiniteSubsetsOf(S))
  BY FS_StrictSubsetOrderingWellFounded
<1>2. FiniteSubsetsOf(S) = SUBSET S
  BY FS_FiniteSubsetsOfFinite
<1>3. PICK T \in W : \A U \in W : ~ (<<U, T>> \in StrictSubsetOrdering(S))
  <2>1. \A R, V : IsWellFoundedOn(R, V) => \A X : X \subseteq V /\ X # {} =>
          \E T \in X : \A U \in X : ~ (<<U, T>> \in R)
    BY WFMin
  <2>2. QED
    BY <1>1, <1>2, <2>1
<1>4. ASSUME NEW U \in SUBSET T, U # T
      PROVE  U \notin W
  <2>1. U \in SUBSET S /\ T \in SUBSET S
    OBVIOUS
  <2>2. <<U, T>> \in StrictSubsetOrdering(S)
    BY <2>1, <1>4 DEF StrictSubsetOrdering
  <2>3. QED
    BY <2>2, <1>3
<1>5. QED
  BY <1>4

\* A set with an element: what Pick takes is in it, and what is left is smaller.
LEMMA PickIsIn ==
  ASSUME NEW s, s # {}
  PROVE  Pick(s) \in s /\ s \ {Pick(s)} # s
BY DEF Pick

\* Two such functions agree on the sets both are defined on.
LEMMA FoldsAgree ==
  ASSUME NEW f, NEW S, IsFiniteSet(S), NEW T \in SUBSET S, NEW g, NEW h,
         IsFold(g, f, S), IsFold(h, f, T)
  PROVE  \A s \in SUBSET T : g[s] = h[s]
<1> DEFINE W == {s \in SUBSET T : g[s] # h[s]}
<1>1. SUFFICES ASSUME W # {} PROVE FALSE
  OBVIOUS
<1>2. W \in SUBSET SUBSET S
  OBVIOUS
<1>3. PICK s \in W : \A U \in SUBSET s : U # s => U \notin W
  <2> HIDE DEF W
  <2>1. QED
    BY <1>1, <1>2, SmallestSubset
<1>4. s \in SUBSET T /\ s \in SUBSET S
  OBVIOUS
<1>5. CASE s = {}
  BY <1>4, <1>5 DEF IsFold
<1>6. CASE s # {}
  <2> DEFINE r == s \ {Pick(s)}
  <2>1. r \in SUBSET s /\ r # s
    BY <1>6, PickIsIn
  <2>2. g[r] = h[r]
    BY <2>1, <1>3, <1>4
  <2>3. g[s] = f[Pick(s)] + g[r]
    BY <1>4, <1>6 DEF IsFold
  <2>4. h[s] = f[Pick(s)] + h[r]
    BY <1>4, <1>6 DEF IsFold
  <2>5. QED
    BY <2>2, <2>3, <2>4
<1>7. QED
  BY <1>5, <1>6

\* There is such a function for every finite set.
LEMMA FoldExists ==
  ASSUME NEW f, NEW S, IsFiniteSet(S)
  PROVE  \E g : IsFold(g, f, S)
<1> DEFINE W == {T \in SUBSET S : ~ \E g : IsFold(g, f, T)}
<1>1. SUFFICES ASSUME W # {} PROVE FALSE
  <2>1. ASSUME W = {} PROVE \E g : IsFold(g, f, S)
    <3>1. S \in SUBSET S /\ S \notin W
      BY <2>1
    <3>2. QED
      BY <3>1
  <2>2. QED
    BY <2>1
<1>2. W \in SUBSET SUBSET S
  OBVIOUS
<1>3. PICK T \in W : \A U \in SUBSET T : U # T => U \notin W
  <2> HIDE DEF W
  <2>1. QED
    BY <1>1, <1>2, SmallestSubset
<1>4. T \in SUBSET S /\ ~ \E g : IsFold(g, f, T)
  OBVIOUS
<1> DEFINE G(s) == CHOOSE h : IsFold(h, f, s)
           val(s) == IF s = T THEN f[Pick(T)] + G(T \ {Pick(T)})[T \ {Pick(T)}] ELSE G(s)[s]
           g == [s \in SUBSET T |-> IF s = {} THEN 0 ELSE val(s)]
<1>5. ASSUME NEW s \in SUBSET T, s # T
      PROVE  IsFold(G(s), f, s)
  <2>1. s \in SUBSET S /\ s \notin W
    BY <1>3, <1>4, <1>5
  <2>2. \E h : IsFold(h, f, s)
    BY <2>1
  <2> HIDE DEF W
  <2>3. QED
    BY <2>2
<1>6. ASSUME NEW s \in SUBSET T
      PROVE  g[s] = IF s = {} THEN 0 ELSE f[Pick(s)] + g[s \ {Pick(s)}]
  <2>1. CASE s = {}
    BY <2>1
  <2>2. CASE s # {}
    <3> DEFINE r == s \ {Pick(s)}
    <3>1. Pick(s) \in s /\ r \in SUBSET s /\ r # s
      BY <2>2, PickIsIn
    <3>2. r \in SUBSET T /\ r # T
      BY <3>1
    <3>3. IsFold(G(r), f, r)
      BY <3>2, <1>5
    <3>4. g[r] = G(r)[r]
      <4>1. CASE r = {}
        <5>1. G(r)[r] = 0
          BY <3>3, <4>1 DEF IsFold
        <5>2. g[r] = 0
          BY <4>1
        <5>3. QED
          BY <5>1, <5>2
      <4>2. CASE r # {}
        <5> HIDE DEF G
        <5>1. QED
          BY <4>2, <3>2
      <4>3. QED
        BY <4>1, <4>2
    <3>5. CASE s = T
      <4> HIDE DEF G
      <4>1. g[s] = f[Pick(T)] + G(T \ {Pick(T)})[T \ {Pick(T)}]
        BY <2>2, <3>5
      <4>2. QED
        BY <4>1, <3>4, <3>5, <2>2
    <3>6. CASE s # T
      <4>1. IsFold(G(s), f, s)
        BY <3>6, <1>5
      <4>2. IsFiniteSet(s)
        BY <1>4, FS_Subset
      <4> HIDE DEF G
      <4>3. \A u \in SUBSET r : G(s)[u] = G(r)[u]
        <5> HIDE DEF r, val, g, W
        <5>1. QED
          BY <3>1, <3>3, <4>1, <4>2, FoldsAgree
      <4>4. G(s)[s] = f[Pick(s)] + G(s)[r]
        BY <4>1, <2>2 DEF IsFold
      <4>5. G(s)[r] = G(r)[r]
        BY <4>3
      <4>6. g[s] = G(s)[s]
        BY <2>2, <3>6
      <4>7. QED
        BY <4>4, <4>5, <4>6, <3>4, <2>2
    <3>7. QED
      BY <3>5, <3>6
  <2>3. QED
    BY <2>1, <2>2
<1>7. IsFold(g, f, T)
  <2>1. g = [s \in SUBSET T |-> g[s]]
    OBVIOUS
  <2> HIDE DEF g
  <2>2. QED
    BY <1>6, <2>1 DEF IsFold
<1>8. QED
  <2> HIDE DEF g
  <2>1. QED
    BY <1>4, <1>7

\* What the fold returns: 0 for the empty set, else the first element's value
\* added to the sum of the rest.
LEMMA SumEquation ==
  ASSUME NEW f, NEW S, IsFiniteSet(S)
  PROVE  SumFunctionOnSet(f, S) =
           IF S = {} THEN 0
           ELSE f[Pick(S)] + SumFunctionOnSet(f, S \ {Pick(S)})
<1> DEFINE G(T) == CHOOSE g : IsFold(g, f, T)
<1>1. ASSUME NEW T
      PROVE  SumFunctionOnSet(f, T) = G(T)[T]
  BY DEF SumFunctionOnSet, FoldFunctionOnSet, MapThenFoldSet, IsFold, Pick
<1>2. ASSUME NEW T \in SUBSET S
      PROVE  IsFold(G(T), f, T)
  <2>1. IsFiniteSet(T)
    BY FS_Subset
  <2>2. QED
    BY <2>1, FoldExists
<1> HIDE DEF G
<1>3. IsFold(G(S), f, S)
  BY <1>2
<1>4. CASE S = {}
  BY <1>1, <1>3, <1>4 DEF IsFold
<1>5. CASE S # {}
  <2> DEFINE r == S \ {Pick(S)}
  <2>1. r \in SUBSET S
    OBVIOUS
  <2>2. G(S)[S] = f[Pick(S)] + G(S)[r]
    BY <1>3, <1>5 DEF IsFold
  <2>3. IsFold(G(r), f, r)
    BY <2>1, <1>2
  <2>4. G(S)[r] = G(r)[r]
    BY <2>1, <2>3, <1>3, FoldsAgree
  <2>5. QED
    BY <1>1, <1>5, <2>2, <2>4
<1>6. QED
  BY <1>4, <1>5

-----------------------------------------------------------------------------
\* The sum of nothing.
LEMMA SumEmpty ==
  ASSUME NEW f
  PROVE  SumFunctionOnSet(f, {}) = 0
BY SumEquation, FS_EmptySet

\* The values outside S do not count.
LEMMA SumAgree ==
  ASSUME NEW f, NEW g, NEW S, IsFiniteSet(S), \A x \in S : f[x] = g[x]
  PROVE  SumFunctionOnSet(f, S) = SumFunctionOnSet(g, S)
<1> DEFINE W == {T \in SUBSET S : SumFunctionOnSet(f, T) # SumFunctionOnSet(g, T)}
<1>1. SUFFICES ASSUME W # {} PROVE FALSE
  OBVIOUS
<1>2. W \in SUBSET SUBSET S
  OBVIOUS
<1>3. PICK T \in W : \A U \in SUBSET T : U # T => U \notin W
  <2> HIDE DEF W
  <2>1. QED
    BY <1>1, <1>2, SmallestSubset
<1>4. T \in SUBSET S /\ IsFiniteSet(T)
  BY FS_Subset
<1>5. CASE T = {}
  BY <1>4, <1>5, SumEmpty
<1>6. CASE T # {}
  <2> DEFINE x == Pick(T)
             r == T \ {x}
  <2>1. x \in T /\ r \in SUBSET T /\ r # T
    BY <1>6, PickIsIn
  <2>2. SumFunctionOnSet(f, r) = SumFunctionOnSet(g, r)
    BY <2>1, <1>3, <1>4
  <2>3. /\ SumFunctionOnSet(f, T) = f[x] + SumFunctionOnSet(f, r)
        /\ SumFunctionOnSet(g, T) = g[x] + SumFunctionOnSet(g, r)
    BY <1>4, <1>6, SumEquation
  <2>4. f[x] = g[x]
    BY <2>1, <1>4
  <2>5. QED
    BY <2>2, <2>3, <2>4
<1>7. QED
  BY <1>5, <1>6

\* The sum of integers is an integer, and of naturals a natural.
LEMMA SumType ==
  ASSUME NEW f, NEW S, IsFiniteSet(S), \A x \in S : f[x] \in Int
  PROVE  /\ SumFunctionOnSet(f, S) \in Int
         /\ (\A x \in S : f[x] >= 0) => SumFunctionOnSet(f, S) >= 0
<1> DEFINE Good(T) == /\ SumFunctionOnSet(f, T) \in Int
                      /\ (\A x \in T : f[x] >= 0) => SumFunctionOnSet(f, T) >= 0
           W == {T \in SUBSET S : ~ Good(T)}
<1>1. SUFFICES ASSUME W # {} PROVE FALSE
  OBVIOUS
<1>2. W \in SUBSET SUBSET S
  OBVIOUS
<1>3. PICK T \in W : \A U \in SUBSET T : U # T => U \notin W
  <2> HIDE DEF W
  <2>1. QED
    BY <1>1, <1>2, SmallestSubset
<1>4. T \in SUBSET S /\ IsFiniteSet(T) /\ ~ Good(T)
  BY FS_Subset
<1>5. CASE T = {}
  BY <1>4, <1>5, SumEmpty
<1>6. CASE T # {}
  <2> DEFINE x == Pick(T)
             r == T \ {x}
  <2>1. x \in T /\ r \in SUBSET T /\ r # T
    BY <1>6, PickIsIn
  <2>2. Good(r)
    BY <2>1, <1>3, <1>4
  <2>3. SumFunctionOnSet(f, T) = f[x] + SumFunctionOnSet(f, r)
    BY <1>4, <1>6, SumEquation
  <2>4. f[x] \in Int
    BY <2>1, <1>4
  <2>5. Good(T)
    <3> HIDE DEF x
    <3>1. QED
      BY <2>1, <2>2, <2>3, <2>4
  <2>6. QED
    BY <2>5, <1>4
<1>7. QED
  BY <1>5, <1>6

\* Any element can be split off.
LEMMA SumSplit ==
  ASSUME NEW f, NEW S, IsFiniteSet(S), \A x \in S : f[x] \in Int, NEW y \in S
  PROVE  SumFunctionOnSet(f, S) = f[y] + SumFunctionOnSet(f, S \ {y})
<1> DEFINE Sum(T) == SumFunctionOnSet(f, T)
           W == {T \in SUBSET S : \E z \in T : Sum(T) # f[z] + Sum(T \ {z})}
<1>1. SUFFICES ASSUME W # {} PROVE FALSE
  <2>1. S \in SUBSET S
    OBVIOUS
  <2> HIDE DEF Sum
  <2>2. W = {} => Sum(S) = f[y] + Sum(S \ {y})
    BY <2>1
  <2>3. QED
    BY <2>2 DEF Sum
<1>2. W \in SUBSET SUBSET S
  OBVIOUS
<1>3. PICK T \in W : \A U \in SUBSET T : U # T => U \notin W
  <2> HIDE DEF W
  <2>1. QED
    BY <1>1, <1>2, SmallestSubset
<1>4. T \in SUBSET S /\ IsFiniteSet(T)
  BY FS_Subset
<1>5. PICK z \in T : Sum(T) # f[z] + Sum(T \ {z})
  <2> HIDE DEF Sum
  <2>1. QED
    OBVIOUS
<1> DEFINE x == Pick(T)
           r == T \ {x}
<1>6. x \in T /\ r \in SUBSET T /\ r # T
  BY PickIsIn
<1>7. Sum(T) = f[x] + Sum(r)
  BY <1>4, SumEquation
<1>8. x # z
  <2> HIDE DEF Sum
  <2>1. QED
    BY <1>5, <1>7
<1>9. r \notin W /\ r \in SUBSET S /\ z \in r
  BY <1>3, <1>4, <1>6, <1>8
<1>10. Sum(r) = f[z] + Sum(r \ {z})
  <2> HIDE DEF Sum
  <2>1. QED
    BY <1>9
<1> DEFINE q == T \ {z}
<1>11. q \in SUBSET T /\ q # T /\ q \in SUBSET S /\ x \in q
  BY <1>4, <1>6, <1>8
<1>12. Sum(q) = f[x] + Sum(q \ {x})
  <2>1. q \notin W
    BY <1>3, <1>11
  <2> HIDE DEF Sum
  <2>2. QED
    BY <2>1, <1>11
<1>13. q \ {x} = r \ {z}
  OBVIOUS
<1>14. /\ f[x] \in Int /\ f[z] \in Int
       /\ Sum(r \ {z}) \in Int
  <2>1. x \in S /\ z \in S
    BY <1>4, <1>6
  <2>2. IsFiniteSet(r \ {z}) /\ r \ {z} \in SUBSET S
    BY <1>4, <1>6, FS_Subset
  <2>3. \A u \in r \ {z} : f[u] \in Int
    BY <2>2
  <2>4. Sum(r \ {z}) \in Int
    BY <2>2, <2>3, SumType
  <2>5. QED
    BY <2>1, <2>4
<1>15. QED
  <2> HIDE DEF Sum, q, r, x
  <2>1. Sum(T) = f[x] + (f[z] + Sum(r \ {z}))
    BY <1>7, <1>10
  <2>2. Sum(q) = f[x] + Sum(r \ {z})
    BY <1>12, <1>13
  <2>3. Sum(T) = f[z] + Sum(q)
    BY <2>1, <2>2, <1>14
  <2>4. QED
    BY <2>3, <1>5 DEF q

\* What one element gets more or less, the sum does.
LEMMA SumChange ==
  ASSUME NEW f, NEW g, NEW S, IsFiniteSet(S), NEW y \in S,
         \A x \in S : f[x] \in Int /\ g[x] \in Int,
         \A x \in S \ {y} : g[x] = f[x]
  PROVE  SumFunctionOnSet(g, S) = SumFunctionOnSet(f, S) + g[y] - f[y]
<1> DEFINE r == S \ {y}
<1>1. IsFiniteSet(r) /\ r \in SUBSET S
  BY FS_Subset
<1>2. SumFunctionOnSet(g, r) = SumFunctionOnSet(f, r)
  BY <1>1, SumAgree
<1>3. SumFunctionOnSet(f, r) \in Int
  BY <1>1, SumType
<1>4. /\ SumFunctionOnSet(f, S) = f[y] + SumFunctionOnSet(f, r)
      /\ SumFunctionOnSet(g, S) = g[y] + SumFunctionOnSet(g, r)
  BY SumSplit
<1>5. f[y] \in Int /\ g[y] \in Int
  OBVIOUS
<1>6. QED
  BY <1>2, <1>3, <1>4, <1>5

\* The sum of a pointwise sum.
LEMMA SumPlus ==
  ASSUME NEW f, NEW g, NEW h, NEW S, IsFiniteSet(S),
         \A x \in S : f[x] \in Int /\ g[x] \in Int /\ h[x] = f[x] + g[x]
  PROVE  SumFunctionOnSet(h, S) = SumFunctionOnSet(f, S) + SumFunctionOnSet(g, S)
<1> DEFINE Good(T) == SumFunctionOnSet(h, T) = SumFunctionOnSet(f, T) + SumFunctionOnSet(g, T)
           W == {T \in SUBSET S : ~ Good(T)}
<1>1. SUFFICES ASSUME W # {} PROVE FALSE
  OBVIOUS
<1>2. W \in SUBSET SUBSET S
  OBVIOUS
<1>3. PICK T \in W : \A U \in SUBSET T : U # T => U \notin W
  <2> HIDE DEF W
  <2>1. QED
    BY <1>1, <1>2, SmallestSubset
<1>4. T \in SUBSET S /\ IsFiniteSet(T) /\ ~ Good(T)
  BY FS_Subset
<1>5. CASE T = {}
  BY <1>4, <1>5, SumEmpty
<1>6. CASE T # {}
  <2> DEFINE x == Pick(T)
             r == T \ {x}
  <2>1. x \in T /\ r \in SUBSET T /\ r # T
    BY <1>6, PickIsIn
  <2>2. Good(r)
    BY <2>1, <1>3, <1>4
  <2>3. /\ SumFunctionOnSet(f, T) = f[x] + SumFunctionOnSet(f, r)
        /\ SumFunctionOnSet(g, T) = g[x] + SumFunctionOnSet(g, r)
        /\ SumFunctionOnSet(h, T) = h[x] + SumFunctionOnSet(h, r)
    BY <1>4, <1>6, SumEquation
  <2>4. f[x] \in Int /\ g[x] \in Int /\ h[x] = f[x] + g[x]
    BY <2>1, <1>4
  <2>5. SumFunctionOnSet(f, r) \in Int /\ SumFunctionOnSet(g, r) \in Int
    <3>1. IsFiniteSet(r) /\ r \in SUBSET S
      BY <1>4, <2>1, FS_Subset
    <3> HIDE DEF r
    <3>2. QED
      BY <3>1, SumType
  <2>6. Good(T)
    <3> HIDE DEF x, r
    <3>1. QED
      BY <2>2, <2>3, <2>4, <2>5
  <2>7. QED
    BY <2>6, <1>4
<1>7. QED
  BY <1>5, <1>6

\* Nothing for everyone.
LEMMA SumZero ==
  ASSUME NEW f, NEW S, IsFiniteSet(S), \A x \in S : f[x] = 0
  PROVE  SumFunctionOnSet(f, S) = 0
<1>1. \A x \in S : f[x] \in Int /\ f[x] = f[x] + f[x]
  OBVIOUS
<1>2. SumFunctionOnSet(f, S) \in Int
  BY <1>1, SumType
<1>3. SumFunctionOnSet(f, S) = SumFunctionOnSet(f, S) + SumFunctionOnSet(f, S)
  BY <1>1, SumPlus
<1>4. \A n \in Int : n = n + n => n = 0
  OBVIOUS
<1>5. QED
  BY <1>2, <1>3, <1>4

\* A factor common to all.
LEMMA SumTimes ==
  ASSUME NEW f, NEW g, NEW S, IsFiniteSet(S), NEW c \in Int,
         \A x \in S : f[x] \in Int /\ g[x] = c * f[x]
  PROVE  SumFunctionOnSet(g, S) = c * SumFunctionOnSet(f, S)
<1> DEFINE Good(T) == SumFunctionOnSet(g, T) = c * SumFunctionOnSet(f, T)
           W == {T \in SUBSET S : ~ Good(T)}
<1>1. SUFFICES ASSUME W # {} PROVE FALSE
  OBVIOUS
<1>2. W \in SUBSET SUBSET S
  OBVIOUS
<1>3. PICK T \in W : \A U \in SUBSET T : U # T => U \notin W
  <2> HIDE DEF W
  <2>1. QED
    BY <1>1, <1>2, SmallestSubset
<1>4. T \in SUBSET S /\ IsFiniteSet(T) /\ ~ Good(T)
  BY FS_Subset
<1>5. CASE T = {}
  BY <1>4, <1>5, SumEmpty
<1>6. CASE T # {}
  <2> DEFINE x == Pick(T)
             r == T \ {x}
             s == SumFunctionOnSet(f, r)
  <2>1. x \in T /\ r \in SUBSET T /\ r # T
    BY <1>6, PickIsIn
  <2>2. Good(r)
    BY <2>1, <1>3, <1>4
  <2>3. /\ SumFunctionOnSet(f, T) = f[x] + s
        /\ SumFunctionOnSet(g, T) = g[x] + SumFunctionOnSet(g, r)
    BY <1>4, <1>6, SumEquation
  <2>4. f[x] \in Int /\ g[x] = c * f[x]
    BY <2>1, <1>4
  <2>5. s \in Int
    <3>1. IsFiniteSet(r) /\ r \in SUBSET S
      BY <1>4, <2>1, FS_Subset
    <3> HIDE DEF r
    <3>2. QED
      BY <3>1, SumType
  <2>6. \A m, n \in Int : c * m + c * n = c * (m + n)
    OBVIOUS
  <2>7. SumFunctionOnSet(g, r) = c * s
    BY <2>2
  <2>8. SumFunctionOnSet(g, T) = c * SumFunctionOnSet(f, T)
    <3> HIDE DEF x, s, r
    <3>1. QED
      BY <2>3, <2>4, <2>5, <2>6, <2>7
  <2>9. QED
    BY <2>8, <1>4
<1>7. QED
  BY <1>5, <1>6

\* The larger summands have the larger sum.
LEMMA SumBound ==
  ASSUME NEW f, NEW g, NEW S, IsFiniteSet(S),
         \A x \in S : f[x] \in Int /\ g[x] \in Int /\ f[x] <= g[x]
  PROVE  SumFunctionOnSet(f, S) <= SumFunctionOnSet(g, S)
<1> DEFINE d == [x \in S |-> g[x] - f[x]]
<1>1. \A x \in S : f[x] \in Int /\ d[x] \in Int /\ d[x] >= 0 /\ g[x] = f[x] + d[x]
  OBVIOUS
<1> HIDE DEF d
<1>2. SumFunctionOnSet(g, S) = SumFunctionOnSet(f, S) + SumFunctionOnSet(d, S)
  BY <1>1, SumPlus
<1>3. SumFunctionOnSet(f, S) \in Int
  BY <1>1, SumType
<1>4. SumFunctionOnSet(d, S) \in Int /\ SumFunctionOnSet(d, S) >= 0
  BY <1>1, SumType
<1>5. QED
  BY <1>2, <1>3, <1>4

\* Zeros may be left out.
LEMMA SumSupport ==
  ASSUME NEW f, NEW S, IsFiniteSet(S), NEW R \in SUBSET S,
         \A x \in S : f[x] \in Int, \A x \in S \ R : f[x] = 0
  PROVE  SumFunctionOnSet(f, S) = SumFunctionOnSet(f, R)
<1> DEFINE Q == S \ R
           Good(T) == SumFunctionOnSet(f, R \cup T) = SumFunctionOnSet(f, R)
           W == {T \in SUBSET Q : ~ Good(T)}
<1>1. ASSUME W # {} PROVE FALSE
  <2>1. IsFiniteSet(Q)
    BY FS_Subset
  <2>2. W \in SUBSET SUBSET Q
    OBVIOUS
  <2>3. PICK T \in W : \A U \in SUBSET T : U # T => U \notin W
    <3> HIDE DEF W, Q
    <3>1. QED
      BY <1>1, <2>1, <2>2, SmallestSubset
  <2>4. T \in SUBSET Q /\ ~ Good(T)
    OBVIOUS
  <2>5. CASE T = {}
    <3>1. R \cup T = R
      BY <2>5
    <3>2. QED
      BY <2>4, <3>1
  <2>6. CASE T # {}
    <3>1. PICK x \in T : TRUE
      BY <2>6
    <3> DEFINE r == T \ {x}
    <3>2. r \in SUBSET T /\ r # T
      OBVIOUS
    <3>3. Good(r)
      BY <2>3, <2>4, <3>2
    <3>4. R \cup T \in SUBSET S /\ IsFiniteSet(R \cup T)
      BY <2>4, FS_Subset
    <3>5. x \in R \cup T /\ \A y \in R \cup T : f[y] \in Int
      BY <3>4
    <3>6. SumFunctionOnSet(f, R \cup T) = f[x] + SumFunctionOnSet(f, (R \cup T) \ {x})
      <4> DEFINE A == R \cup T
      <4>1. IsFiniteSet(A) /\ x \in A /\ \A y \in A : f[y] \in Int
        BY <3>4, <3>5
      <4> HIDE DEF A
      <4>2. SumFunctionOnSet(f, A) = f[x] + SumFunctionOnSet(f, A \ {x})
        BY <4>1, SumSplit
      <4>3. QED
        BY <4>2 DEF A
    <3>7. (R \cup T) \ {x} = R \cup r
      BY <2>4
    <3>8. f[x] = 0
      BY <2>4
    <3>9. SumFunctionOnSet(f, R) \in Int
      <4>1. IsFiniteSet(R)
        BY FS_Subset
      <4>2. QED
        BY <4>1, SumType
    <3>10. SumFunctionOnSet(f, (R \cup T) \ {x}) = SumFunctionOnSet(f, R)
      <4>1. SumFunctionOnSet(f, R \cup r) = SumFunctionOnSet(f, R)
        BY <3>3
      <4> HIDE DEF r
      <4>2. QED
        BY <4>1, <3>7
    <3>11. QED
      BY <2>4, <3>6, <3>8, <3>9, <3>10
  <2>7. QED
    BY <2>5, <2>6
<1>2. Q \in SUBSET Q /\ R \cup Q = S
  OBVIOUS
<1>3. Good(Q)
  BY <1>1, <1>2
<1>4. QED
  <2> HIDE DEF Q
  <2>1. QED
    BY <1>2, <1>3

\* One that is not zero.
LEMMA SumSingle ==
  ASSUME NEW f, NEW S, IsFiniteSet(S), NEW y \in S,
         \A x \in S : f[x] \in Int, \A x \in S \ {y} : f[x] = 0
  PROVE  SumFunctionOnSet(f, S) = f[y]
<1>1. SumFunctionOnSet(f, S) = f[y] + SumFunctionOnSet(f, S \ {y})
  BY SumSplit
<1>2. SumFunctionOnSet(f, S \ {y}) = 0
  <2> DEFINE r == S \ {y}
  <2>1. IsFiniteSet(r)
    BY FS_Subset
  <2>2. \A x \in r : f[x] = 0
    OBVIOUS
  <2> HIDE DEF r
  <2>3. SumFunctionOnSet(f, r) = 0
    BY <2>1, <2>2, SumZero
  <2>4. QED
    BY <2>3 DEF r
<1>3. QED
  BY <1>1, <1>2

=============================================================================
