---------------------------- MODULE FoldTheorems ----------------------------
(***************************************************************************)
(* Induction over numbers and over finite sets, loops over finite sets      *)
(* (FoldSet) and sums (MapThenSumSet).                                      *)
(*                                                                          *)
(* The induction theorems of the library have an operator as a parameter,   *)
(* which the provers cannot instantiate. Here induction is about the        *)
(* members of a set, from the library's theorem about minimal elements, and *)
(* the body of a loop is a function.                                        *)
(***************************************************************************)
EXTENDS Integers, FiniteSets, FiniteSetsExt, FiniteSetTheorems, TLAPS

Less == {p \in Nat \X Nat : p[1] < p[2]}

(* There is no infinite descent among the numbers.                            *)
LEMMA LessIsWellFounded == IsWellFoundedOn(Less, Nat)
BY NatLessThanWellFounded, Zenon DEF Less, OpToRel

(* Every set of numbers has a least one.                                      *)
LEMMA LeastNumber ==
  ASSUME NEW T, T \subseteq Nat, T # {}
  PROVE  \E m \in T : \A k \in T : m <= k
<1>1. PICK m \in T : \A k \in T : <<k, m>> \notin Less
  BY LessIsWellFounded, WFMin
<1>2. ASSUME NEW k \in T PROVE m <= k
  <2>1. <<k, m>> \in Nat \X Nat /\ <<k, m>>[1] = k /\ <<k, m>>[2] = m
    OBVIOUS
  <2>2. ~(k < m)
    BY <1>1, <2>1 DEF Less
  <2> QED
    BY <2>2
<1> QED
  BY <1>2

(* A set that has 0 and the successor of each number it has, has them all.    *)
LEMMA InductionOnSet ==
  ASSUME NEW S, 0 \in S, \A k \in Nat : k \in S => k + 1 \in S
  PROVE  Nat \subseteq S
<1> DEFINE T == Nat \ S
<1>1. SUFFICES ASSUME T # {} PROVE FALSE
  OBVIOUS
<1>2. PICK m \in T : \A k \in T : m <= k
  BY <1>1, LeastNumber
<1>3. m # 0 /\ m - 1 \in Nat /\ m - 1 \notin T
  BY <1>2
<1>4. m \in S
  BY <1>3
<1> QED
  BY <1>4

(* A set that has a finite set whenever it has its proper subsets, has them   *)
(* all.                                                                       *)
LEMMA InductionOnSubsets ==
  ASSUME NEW S, IsFiniteSet(S), NEW Q,
         \A t \in SUBSET S : (\A u \in SUBSET t : u # t => u \in Q) => t \in Q
  PROVE  SUBSET S \subseteq Q
<1> DEFINE T == (SUBSET S) \ Q
<1>1. SUFFICES ASSUME T # {} PROVE FALSE
  OBVIOUS
<1>2. IsWellFoundedOn(StrictSubsetOrdering(S), SUBSET S)
  BY FS_FiniteSubsetsOfFinite, FS_StrictSubsetOrderingWellFounded
<1>3. PICK t \in T : \A u \in T : <<u, t>> \notin StrictSubsetOrdering(S)
  <2>1. T \subseteq SUBSET S
    OBVIOUS
  <2> HIDE DEF T
  <2> QED
    BY <1>1, <1>2, <2>1, WFMin
<1>4. ASSUME NEW u \in SUBSET t, u # t PROVE u \in Q
  <2>1. u \in SUBSET S /\ <<u, t>> \in (SUBSET S) \X (SUBSET S)
    BY <1>3
  <2>2. <<u, t>> \in StrictSubsetOrdering(S)
    BY <1>4, <2>1 DEF StrictSubsetOrdering
  <2> QED
    BY <1>3, <2>1, <2>2
<1> QED
  BY <1>3, <1>4

-----------------------------------------------------------------------------
(* Loops *)

Pick(t) == CHOOSE x \in t : TRUE

(* f[t] is what the loop over the elements of t makes of base.                *)
IsFold(f, S, base, body) ==
  f = [t \in SUBSET S |->
         IF t = {} THEN base ELSE body[<<Pick(t), f[t \ {Pick(t)}]>>]]

(* A loop takes its elements from the set it runs over.                       *)
LEMMA PickIsIn ==
  ASSUME NEW t, t # {}
  PROVE  Pick(t) \in t
BY DEF Pick

(* A loop over a finite set has a value for each subset it has done.          *)
LEMMA FoldExists ==
  ASSUME NEW S, IsFiniteSet(S), NEW base, NEW body
  PROVE  \E f : IsFold(f, S, base, body)
<1> DEFINE Small(n) == {t \in SUBSET S : Cardinality(t) <= n}
           Step(f, t) == IF t = {} THEN base ELSE body[<<Pick(t), f[t \ {Pick(t)}]>>]
           Upto(f, n) == f = [t \in Small(n) |-> Step(f, t)]
           Good == {n \in Nat : \E f : Upto(f, n)}
<1>1. ASSUME NEW t \in SUBSET S, t # {}
      PROVE  /\ t \ {Pick(t)} \in SUBSET S
             /\ Cardinality(t) \in Nat /\ Cardinality(t \ {Pick(t)}) = Cardinality(t) - 1
  <2>1. IsFiniteSet(t)
    BY FS_Subset
  <2> QED
    BY <1>1, <2>1, PickIsIn, FS_RemoveElement, FS_CardinalityType
<1>2. \A t \in SUBSET S : Cardinality(t) = 0 => t = {}
  BY FS_Subset, FS_EmptySet
<1>3. \A t \in SUBSET S : Cardinality(t) \in Nat
  BY FS_Subset, FS_CardinalityType
<1>4. 0 \in Good
  <2> DEFINE f == [t \in Small(0) |-> base]
  <2>1. \A t \in Small(0) : t = {}
    BY <1>2, <1>3
  <2>2. f = [t \in Small(0) |-> Step(f, t)]
    BY <2>1
  <2> QED
    BY <2>2
<1>5. ASSUME NEW n \in Nat, n \in Good PROVE n + 1 \in Good
  <2>1. PICK g : Upto(g, n)
    BY <1>5
  <2> DEFINE f == [t \in Small(n + 1) |-> Step(g, t)]
  <2>2. ASSUME NEW t \in Small(n + 1) PROVE Step(g, t) = Step(f, t)
    <3>1. CASE t = {}
      BY <3>1
    <3>2. CASE t # {}
      <4> DEFINE u == t \ {Pick(t)}
      <4>1. u \in Small(n) /\ u \in Small(n + 1)
        BY <1>1, <3>2
      <4>2. f[u] = Step(g, u)
        BY <4>1
      <4>3. g[u] = Step(g, u)
        BY <2>1, <4>1
      <4> QED
        BY <4>2, <4>3
    <3> QED
      BY <3>1, <3>2
  <2>3. f = [t \in Small(n + 1) |-> Step(f, t)]
    <3> HIDE DEF Step
    <3> QED
      BY <2>2
  <2>4. Upto(f, n + 1)
    BY <2>3
  <2> HIDE DEF f, Upto
  <2> QED
    BY <2>4
<1>6. Cardinality(S) \in Good
  <2> HIDE DEF Good
  <2> QED
    BY <1>4, <1>5, InductionOnSet, FS_CardinalityType
<1>7. Small(Cardinality(S)) = SUBSET S
  BY FS_Subset
<1>8. PICK f : Upto(f, Cardinality(S))
  BY <1>6
<1> QED
  BY <1>7, <1>8 DEF IsFold

(* An induction over the rounds of a loop: what holds of the start, and of    *)
(* the result of a round if it held before, holds of the result.              *)
LEMMA FoldInduction ==
  ASSUME NEW S, IsFiniteSet(S), NEW f, NEW Q,
         <<{}, f[{}]>> \in Q,
         \A t \in SUBSET S :
            t # {} /\ <<t \ {Pick(t)}, f[t \ {Pick(t)}]>> \in Q => <<t, f[t]>> \in Q
  PROVE  \A t \in SUBSET S : <<t, f[t]>> \in Q
<1> DEFINE G == {t \in SUBSET S : <<t, f[t]>> \in Q}
<1>1. ASSUME NEW t \in SUBSET S, \A u \in SUBSET t : u # t => u \in G
      PROVE  t \in G
  <2>1. CASE t = {}
    BY <2>1
  <2>2. CASE t # {}
    <3>1. t \ {Pick(t)} \in SUBSET t /\ t \ {Pick(t)} # t
      BY <2>2, PickIsIn
    <3> QED
      BY <1>1, <2>2, <3>1
  <2> QED
    BY <2>1, <2>2
<1>2. SUBSET S \subseteq G
  <2> HIDE DEF G
  <2> QED
    BY <1>1, InductionOnSubsets
<1> QED
  BY <1>2

(* If every round stays in D, the loop does.                                  *)
LEMMA FoldCloses ==
  ASSUME NEW S, IsFiniteSet(S), NEW D, NEW f, f[{}] \in D,
         \A t \in SUBSET S : t # {} /\ f[t \ {Pick(t)}] \in D => f[t] \in D
  PROVE  \A t \in SUBSET S : f[t] \in D
<1> DEFINE Q == (SUBSET S) \X D
<1>1. \A t \in SUBSET S : \A r : <<t, r>> \in Q <=> r \in D
  OBVIOUS
<1>2. <<{}, f[{}]>> \in Q
  BY <1>1
<1>3. \A t \in SUBSET S :
        t # {} /\ <<t \ {Pick(t)}, f[t \ {Pick(t)}]>> \in Q => <<t, f[t]>> \in Q
  BY <1>1
<1> HIDE DEF Q
<1>4. \A t \in SUBSET S : <<t, f[t]>> \in Q
  BY <1>2, <1>3, FoldInduction
<1> QED
  BY <1>1, <1>4

(* A loop whose body maps D to D has values in D.                             *)
LEMMA TypedFoldExists ==
  ASSUME NEW S, IsFiniteSet(S), NEW D, NEW base \in D, NEW body \in [S \X D -> D]
  PROVE  \E f \in [SUBSET S -> D] : IsFold(f, S, base, body)
<1>1. PICK f : IsFold(f, S, base, body)
  BY FoldExists
<1>2. f[{}] = base
  BY <1>1 DEF IsFold
<1>3. ASSUME NEW t \in SUBSET S, t # {}, f[t \ {Pick(t)}] \in D
      PROVE  f[t] \in D
  <2>1. <<Pick(t), f[t \ {Pick(t)}]>> \in S \X D
    BY <1>3, PickIsIn
  <2>2. f[t] = body[<<Pick(t), f[t \ {Pick(t)}]>>]
    BY <1>1, <1>3 DEF IsFold
  <2> QED
    BY <2>1, <2>2
<1>4. \A t \in SUBSET S : f[t] \in D
  BY <1>2, <1>3, FoldCloses
<1> QED
  BY <1>1, <1>4 DEF IsFold

-----------------------------------------------------------------------------
(* Sums *)

Sum(f, S) == MapThenSumSet(LAMBDA x : f[x], S)

(* MapThenSumSet is such a loop, in the numbers.                              *)
LEMMA SumIsFold ==
  ASSUME NEW S, IsFiniteSet(S), NEW f, \A x \in S : f[x] \in Int
  PROVE  \E g : /\ g \in [SUBSET S -> Int] /\ g[{}] = 0
                /\ \A t \in SUBSET S : t # {} => g[t] = f[Pick(t)] + g[t \ {Pick(t)}]
                /\ Sum(f, S) = g[S]
<1> DEFINE body == [p \in S \X Int |-> f[p[1]] + p[2]]
           Round(g, t) == IF t = {} THEN 0 ELSE f[Pick(t)] + g[t \ {Pick(t)}]
           IsSum(g) == g = [t \in SUBSET S |-> Round(g, t)]
           sum == CHOOSE g : IsSum(g)
<1>1. Sum(f, S) = sum[S]
  BY DEF Sum, MapThenSumSet, MapThenFoldSet, Pick
<1>2. \E h \in [SUBSET S -> Int] : IsFold(h, S, 0, body)
  <2> DEFINE D == Int
             zero == 0
  <2>1. body \in [S \X D -> D] /\ zero \in D
    OBVIOUS
  <2> HIDE DEF body, D, zero
  <2>2. \E h \in [SUBSET S -> D] : IsFold(h, S, zero, body)
    BY <2>1, TypedFoldExists
  <2> QED
    BY <2>2 DEF D, zero
<1>3. PICK h \in [SUBSET S -> Int] : IsFold(h, S, 0, body)
  BY <1>2
<1>4. IsSum(h)
  <2>1. ASSUME NEW t \in SUBSET S, t # {}
        PROVE  body[<<Pick(t), h[t \ {Pick(t)}]>>] = f[Pick(t)] + h[t \ {Pick(t)}]
    <3>1. Pick(t) \in S /\ h[t \ {Pick(t)}] \in Int
      BY <1>3, <2>1, PickIsIn
    <3> QED
      BY <3>1
  <2> HIDE DEF body
  <2> QED
    BY <1>3, <2>1 DEF IsFold
<1>5. IsSum(sum)
  <2> HIDE DEF IsSum
  <2> QED
    BY <1>4
<1>6. sum[{}] = 0 /\ \A t \in SUBSET S : t # {} => sum[t] = f[Pick(t)] + sum[t \ {Pick(t)}]
  <2> HIDE DEF sum
  <2> QED
    BY <1>5
<1>7. \A t \in SUBSET S : sum[t] \in Int
  <2> HIDE DEF sum
  <2> DEFINE D == Int
  <2>1. ASSUME NEW t \in SUBSET S, t # {}, sum[t \ {Pick(t)}] \in D
        PROVE  sum[t] \in D
    <3>1. f[Pick(t)] \in Int
      BY <2>1, PickIsIn
    <3>2. sum[t] = f[Pick(t)] + sum[t \ {Pick(t)}]
      BY <1>6, <2>1, Zenon
    <3> QED
      BY <2>1, <3>1, <3>2
  <2>2. sum[{}] \in D
    BY <1>6
  <2> HIDE DEF D
  <2>3. \A t \in SUBSET S : sum[t] \in D
    BY <2>1, <2>2, FoldCloses
  <2> QED
    BY <2>3 DEF D
<1>8. sum \in [SUBSET S -> Int]
  <2> HIDE DEF sum
  <2> QED
    BY <1>5, <1>7
<1> HIDE DEF sum
<1> QED
  BY <1>1, <1>6, <1>8

(* A sum of numbers is a number.                                              *)
LEMMA SumType ==
  ASSUME NEW S, IsFiniteSet(S), NEW f, \A x \in S : f[x] \in Int
  PROVE  Sum(f, S) \in Int
<1>1. PICK g : g \in [SUBSET S -> Int] /\ Sum(f, S) = g[S]
  BY SumIsFold
<1> QED
  BY <1>1

(* The sum over nothing is zero.                                              *)
LEMMA SumEmpty ==
  ASSUME NEW f
  PROVE  Sum(f, {}) = 0
BY SumIsFold, FS_EmptySet

(* A sum is its first round and the sum of the others.                        *)
LEMMA SumStep ==
  ASSUME NEW S, IsFiniteSet(S), NEW f, \A x \in S : f[x] \in Int, S # {}
  PROVE  Sum(f, S) = f[Pick(S)] + Sum(f, S \ {Pick(S)})
<1> DEFINE T == S \ {Pick(S)}
<1>1. IsFiniteSet(T) /\ T \subseteq S
  BY FS_RemoveElement
<1>2. PICK g : /\ g \in [SUBSET S -> Int] /\ g[{}] = 0
               /\ \A t \in SUBSET S : t # {} => g[t] = f[Pick(t)] + g[t \ {Pick(t)}]
               /\ Sum(f, S) = g[S]
  BY SumIsFold
<1>3. PICK h : /\ h \in [SUBSET T -> Int] /\ h[{}] = 0
               /\ \A t \in SUBSET T : t # {} => h[t] = f[Pick(t)] + h[t \ {Pick(t)}]
               /\ Sum(f, T) = h[T]
  <2> HIDE DEF T
  <2> QED
    BY <1>1, SumIsFold
<1>4. \A t \in SUBSET T : h[t] = g[t]
  <2> DEFINE Q == {p \in (SUBSET T) \X Int : p[2] = g[p[1]]}
  <2>1. \A t \in SUBSET T : <<t, h[t]>> \in Q <=> h[t] = g[t]
    BY <1>3
  <2>2. <<{}, h[{}]>> \in Q
    BY <1>2, <1>3
  <2>3. ASSUME NEW t \in SUBSET T, t # {}, h[t \ {Pick(t)}] = g[t \ {Pick(t)}]
        PROVE  h[t] = g[t]
    BY <1>1, <1>2, <1>3, <2>3
  <2>4. \A t \in SUBSET T :
          t # {} /\ <<t \ {Pick(t)}, h[t \ {Pick(t)}]>> \in Q => <<t, h[t]>> \in Q
    BY <2>1, <2>3
  <2> HIDE DEF Q, T
  <2> QED
    BY <1>1, <2>1, <2>2, <2>4, FoldInduction
<1> QED
  BY <1>2, <1>3, <1>4

(* The elements can be added in any order.                                    *)
LEMMA SumRemove ==
  ASSUME NEW S, IsFiniteSet(S), NEW f, \A x \in S : f[x] \in Int, NEW x \in S
  PROVE  Sum(f, S) = f[x] + Sum(f, S \ {x})
<1> DEFINE Q == {t \in SUBSET S : \A y \in t : Sum(f, t) = f[y] + Sum(f, t \ {y})}
<1>1. ASSUME NEW t \in SUBSET S, \A u \in SUBSET t : u # t => u \in Q, NEW y \in t
      PROVE  Sum(f, t) = f[y] + Sum(f, t \ {y})
  <2> DEFINE p == Pick(t)
  <2>1. p \in t
    BY PickIsIn
  <2>2. IsFiniteSet(t)
    BY FS_Subset
  <2>3. Sum(f, t) = f[p] + Sum(f, t \ {p})
    BY <2>2, SumStep
  <2>4. CASE p = y
    BY <2>3, <2>4
  <2>5. CASE p # y
    <3>1. t \ {p} \in Q /\ t \ {y} \in Q /\ y \in t \ {p} /\ p \in t \ {y}
      BY <1>1, <2>1, <2>5
    <3>2. Sum(f, t \ {p}) = f[y] + Sum(f, (t \ {p}) \ {y})
      BY <3>1
    <3>3. Sum(f, t \ {y}) = f[p] + Sum(f, (t \ {y}) \ {p})
      BY <3>1
    <3>4. (t \ {p}) \ {y} = (t \ {y}) \ {p}
      OBVIOUS
    <3>5. IsFiniteSet((t \ {y}) \ {p})
      BY <2>2, FS_RemoveElement
    <3>6. Sum(f, (t \ {y}) \ {p}) \in Int
      BY <3>5, SumType
    <3>7. f[p] \in Int /\ f[y] \in Int
      BY <2>1
    <3> DEFINE rest == Sum(f, (t \ {y}) \ {p})
    <3>8. Sum(f, t \ {p}) = f[y] + rest /\ Sum(f, t \ {y}) = f[p] + rest /\ rest \in Int
      BY <3>2, <3>3, <3>4, <3>6
    <3>9. Sum(f, t) = f[p] + (f[y] + rest)
      BY <2>3, <3>8
    <3> HIDE DEF p, Q, rest
    <3>10. f[p] + (f[y] + rest) = f[y] + (f[p] + rest)
      BY <3>7, <3>8
    <3> QED
      BY <3>8, <3>9, <3>10
  <2> QED
    BY <2>4, <2>5
<1>2. \A t \in SUBSET S : (\A u \in SUBSET t : u # t => u \in Q) => t \in Q
  BY <1>1
<1>3. SUBSET S \subseteq Q
  <2> HIDE DEF Q
  <2> QED
    BY <1>2, InductionOnSubsets
<1> QED
  BY <1>3

(* Functions that agree on the set have the same sum.                         *)
LEMMA SumAgrees ==
  ASSUME NEW S, IsFiniteSet(S), NEW f, NEW g,
         \A x \in S : f[x] \in Int /\ g[x] = f[x]
  PROVE  Sum(g, S) = Sum(f, S)
<1> DEFINE Q == {t \in SUBSET S : Sum(g, t) = Sum(f, t)}
<1>1. ASSUME NEW t \in SUBSET S, \A u \in SUBSET t : u # t => u \in Q
      PROVE  Sum(g, t) = Sum(f, t)
  <2>1. CASE t = {}
    BY <2>1, SumEmpty
  <2>2. CASE t # {}
    <3>1. IsFiniteSet(t) /\ Pick(t) \in t
      BY <2>2, FS_Subset, PickIsIn
    <3>2. Sum(f, t) = f[Pick(t)] + Sum(f, t \ {Pick(t)})
      BY <2>2, <3>1, SumStep
    <3>3. Sum(g, t) = g[Pick(t)] + Sum(g, t \ {Pick(t)})
      BY <2>2, <3>1, SumStep
    <3>4. t \ {Pick(t)} \in Q
      BY <1>1, <3>1
    <3> QED
      BY <3>1, <3>2, <3>3, <3>4
  <2> QED
    BY <2>1, <2>2
<1>2. SUBSET S \subseteq Q
  <2>1. \A t \in SUBSET S : (\A u \in SUBSET t : u # t => u \in Q) => t \in Q
    BY <1>1
  <2> HIDE DEF Q
  <2> QED
    BY <2>1, InductionOnSubsets
<1> QED
  BY <1>2

(* One summand is changed.                                                    *)
LEMMA SumChange ==
  ASSUME NEW S, IsFiniteSet(S), NEW f, NEW g, NEW x \in S,
         \A y \in S : f[y] \in Int, g[x] \in Int,
         \A y \in S : y # x => g[y] = f[y]
  PROVE  Sum(g, S) = Sum(f, S) - f[x] + g[x]
<1>1. IsFiniteSet(S \ {x})
  BY FS_RemoveElement
<1>2. Sum(f, S) = f[x] + Sum(f, S \ {x})
  BY SumRemove
<1>3. Sum(g, S) = g[x] + Sum(g, S \ {x})
  BY SumRemove
<1>4. Sum(g, S \ {x}) = Sum(f, S \ {x})
  BY <1>1, SumAgrees
<1>5. Sum(f, S \ {x}) \in Int
  BY <1>1, SumType
<1> QED
  BY <1>2, <1>3, <1>4, <1>5

(* Some summands grow by c.                                                   *)
LEMMA SumGrows ==
  ASSUME NEW S, IsFiniteSet(S), NEW U \in SUBSET S, NEW c \in Int, NEW f, NEW g,
         \A x \in S : f[x] \in Int,
         \A x \in S : g[x] = IF x \in U THEN f[x] + c ELSE f[x]
  PROVE  Sum(g, S) = Sum(f, S) + c * Cardinality(U)
<1> DEFINE Q == {t \in SUBSET S : Sum(g, t) = Sum(f, t) + c * Cardinality(U \cap t)}
<1>1. ASSUME NEW t \in SUBSET S, \A u \in SUBSET t : u # t => u \in Q
      PROVE  Sum(g, t) = Sum(f, t) + c * Cardinality(U \cap t)
  <2>1. CASE t = {}
    <3>1. U \cap t = {} /\ Cardinality({}) = 0
      BY <2>1, FS_EmptySet
    <3> QED
      BY <2>1, <3>1, SumEmpty
  <2>2. CASE t # {}
    <3> DEFINE p == Pick(t)
    <3>1. IsFiniteSet(t) /\ p \in t /\ p \in S
      BY <2>2, FS_Subset, PickIsIn
    <3>2. Sum(f, t) = f[p] + Sum(f, t \ {p})
      BY <2>2, <3>1, SumStep
    <3>3. Sum(g, t) = g[p] + Sum(g, t \ {p})
      <4>1. \A x \in t : g[x] \in Int
        OBVIOUS
      <4> QED
        BY <2>2, <3>1, <4>1, SumStep
    <3>4. Sum(g, t \ {p}) = Sum(f, t \ {p}) + c * Cardinality(U \cap (t \ {p}))
      BY <1>1, <3>1
    <3>5. Sum(f, t \ {p}) \in Int
      BY <3>1, SumType, FS_RemoveElement
    <3>6. U \cap (t \ {p}) = (U \cap t) \ {p} /\ IsFiniteSet(U \cap t)
      BY <3>1, FS_Subset
    <3> DEFINE k == Cardinality(U \cap t)
               j == Cardinality(U \cap (t \ {p}))
    <3>7. k \in Nat /\ j = (IF p \in U THEN k - 1 ELSE k)
      <4> DEFINE T == U \cap t
      <4>1. IsFiniteSet(T) /\ j = Cardinality(T \ {p}) /\ (p \in T <=> p \in U) /\ k = Cardinality(T)
        BY <3>1, <3>6
      <4> HIDE DEF T, p, j, k
      <4> QED
        BY <4>1, FS_RemoveElement, FS_CardinalityType
    <3>8. p \in U => c * j = c * k - c
      BY <3>7
    <3>9. c * k \in Int /\ f[p] \in Int
      BY <3>1, <3>7
    <3>10. g[p] = IF p \in U THEN f[p] + c ELSE f[p]
      BY <3>1
    <3> HIDE DEF p, j, k, Q
    <3>11. CASE p \in U
      BY <3>2, <3>3, <3>4, <3>5, <3>8, <3>9, <3>10, <3>11 DEF j, k
    <3>12. CASE p \notin U
      BY <3>2, <3>3, <3>4, <3>5, <3>7, <3>9, <3>10, <3>12 DEF j, k
    <3> QED
      BY <3>11, <3>12
  <2> QED
    BY <2>1, <2>2
<1>2. SUBSET S \subseteq Q
  <2>1. \A t \in SUBSET S : (\A u \in SUBSET t : u # t => u \in Q) => t \in Q
    BY <1>1
  <2> HIDE DEF Q
  <2> QED
    BY <2>1, InductionOnSubsets
<1>3. U \cap S = U
  OBVIOUS
<1> QED
  BY <1>2, <1>3

(* A sum of zeros is zero.                                                    *)
LEMMA SumZero ==
  ASSUME NEW S, IsFiniteSet(S), NEW f, \A x \in S : f[x] = 0
  PROVE  Sum(f, S) = 0
<1> DEFINE Q == {t \in SUBSET S : Sum(f, t) = 0}
<1>1. ASSUME NEW t \in SUBSET S, \A u \in SUBSET t : u # t => u \in Q
      PROVE  Sum(f, t) = 0
  <2>1. CASE t = {}
    BY <2>1, SumEmpty
  <2>2. CASE t # {}
    <3>1. IsFiniteSet(t) /\ Pick(t) \in t
      BY <2>2, FS_Subset, PickIsIn
    <3>2. Sum(f, t) = f[Pick(t)] + Sum(f, t \ {Pick(t)})
      BY <2>2, <3>1, SumStep
    <3>3. Sum(f, t \ {Pick(t)}) = 0
      BY <1>1, <3>1
    <3> QED
      BY <3>1, <3>2, <3>3
  <2> QED
    BY <2>1, <2>2
<1>2. SUBSET S \subseteq Q
  <2>1. \A t \in SUBSET S : (\A u \in SUBSET t : u # t => u \in Q) => t \in Q
    BY <1>1
  <2> HIDE DEF Q
  <2> QED
    BY <2>1, InductionOnSubsets
<1> QED
  BY <1>2

=============================================================================
