------------------------------ MODULE FiniteSums ------------------------------
(***************************************************************************)
(* What the sums of the other modules (MapThenSumSet) amount to, for every *)
(* finite set: the byte counter of the mempool and the pool's nested       *)
(* tallies are such sums.  MapThenSumSet is a fold that picks the elements *)
(* one by one; these lemmas say that the fold exists, that the order of    *)
(* picking does not matter, and what one more or one less element does.    *)
(***************************************************************************)
EXTENDS Integers, FiniteSetsExt, FiniteSetTheorems, WellFoundedInduction, TLAPS

(* The sum of f over a finite set.                                         *)
SumOver(f, S) == MapThenSumSet(LAMBDA x : f[x], S)

(* The element the fold takes next.                                        *)
Pick(s) == CHOOSE x \in s : TRUE

(* One step of the fold.                                                   *)
FoldStep(g, f, s) == IF s = {} THEN 0 ELSE f[Pick(s)] + g[s \ {Pick(s)}]

(* g is the fold of f over the subsets of S.                               *)
IsFold(g, f, S) == g = [s \in SUBSET S |-> FoldStep(g, f, s)]

(* Every nonempty set of naturals has a least element: the inductions      *)
(* below are on the least counterexample.                                  *)
LEMMA LeastElement ==
  ASSUME NEW S, S \subseteq Nat, S # {}
  PROVE  \E m \in S : \A k \in S : m <= k
<1> DEFINE R == OpToRel(<, Nat)
<1>1. IsWellFoundedOn(R, Nat)
  BY NatLessThanWellFounded
<1>2. PICK m \in S : \A k \in S : ~ (<<k, m>> \in R)
  <2> HIDE DEF R
  <2> QED
    BY <1>1, WFMin
<1>3. \A k \in S : ~ (k < m)
  BY <1>2 DEF OpToRel
<1> QED
  BY <1>3

(* Induction up to n, on the set of the numbers for which the claim holds. *)
LEMMA UpTo ==
  ASSUME NEW n \in Nat, NEW Good, 0 \in Good,
         \A k \in Nat : k < n /\ k \in Good => k + 1 \in Good
  PROVE  \A k \in 0..n : k \in Good
<1> DEFINE Bad == {k \in 0..n : k \notin Good}
<1> SUFFICES ASSUME Bad # {} PROVE FALSE
  OBVIOUS
<1>1. PICK m \in Bad : \A k \in Bad : m <= k
  <2>1. Bad \subseteq Nat
    OBVIOUS
  <2> HIDE DEF Bad
  <2> QED
    BY <2>1, LeastElement
<1>2. m \in 0..n /\ m \notin Good /\ m # 0
  OBVIOUS
<1>3. m - 1 \in 0..n /\ m - 1 \notin Bad
  BY <1>1, <1>2
<1> QED
  BY <1>2, <1>3

(* Every nonempty bounded set of naturals has a greatest element.          *)
LEMMA GreatestElement ==
  ASSUME NEW S, S \subseteq Nat, S # {}, NEW c \in Nat, \A k \in S : k <= c
  PROVE  \E m \in S : \A k \in S : k <= m
<1> DEFINE D == {c - k : k \in S}
<1>1. D \subseteq Nat /\ D # {}
  <2>1. \A k \in S : c - k \in Nat
    OBVIOUS
  <2>2. PICK k \in S : TRUE
    OBVIOUS
  <2>3. c - k \in D
    OBVIOUS
  <2> QED
    BY <2>1, <2>3
<1>2. PICK d \in D : \A k \in D : d <= k
  <2> HIDE DEF D
  <2> QED
    BY <1>1, LeastElement
<1>3. PICK m \in S : d = c - m
  OBVIOUS
<1>4. \A k \in S : k <= m
  <2> SUFFICES ASSUME NEW k \in S PROVE k <= m
    OBVIOUS
  <2>1. d <= c - k
    BY <1>2
  <2> QED
    BY <1>3, <2>1
<1> QED
  BY <1>4

(* The element taken next belongs to the set.                              *)
LEMMA PickIn ==
  ASSUME NEW s, s # {}
  PROVE  Pick(s) \in s
  BY DEF Pick

(* Taking an element out of a finite set makes it smaller.                 *)
LEMMA Smaller ==
  ASSUME NEW s, IsFiniteSet(s), NEW x \in s
  PROVE  /\ IsFiniteSet(s \ {x})
         /\ Cardinality(s) \in Nat /\ Cardinality(s \ {x}) \in Nat
         /\ Cardinality(s \ {x}) = Cardinality(s) - 1
  BY FS_RemoveElement, FS_CardinalityType

-----------------------------------------------------------------------------
(* The fold over the subsets of a finite set exists.                       *)
LEMMA FoldExists ==
  ASSUME NEW f, NEW S, IsFiniteSet(S)
  PROVE  \E g : IsFold(g, f, S)
<1> DEFINE Small(n) == {s \in SUBSET S : Cardinality(s) <= n}
           Partial(g, n) == g = [s \in Small(n) |-> FoldStep(g, f, s)]
           Bad == {n \in Nat : ~ \E g : Partial(g, n)}
<1>1. \A s \in SUBSET S : IsFiniteSet(s) /\ Cardinality(s) \in Nat
  BY FS_Subset, FS_CardinalityType
<1>2. \E g : Partial(g, 0)
  <2> DEFINE g == [s \in Small(0) |-> 0]
  <2>1. \A s \in Small(0) : s = {}
    BY <1>1, FS_EmptySet
  <2>2. \A s \in Small(0) : FoldStep(g, f, s) = 0
    BY <2>1 DEF FoldStep
  <2>3. Partial(g, 0)
    <3> HIDE DEF Small
    <3> QED
      BY <2>2
  <2> QED
    BY <2>3
<1>3. ASSUME NEW n \in Nat, NEW h, Partial(h, n)
      PROVE  \E g : Partial(g, n + 1)
  <2> DEFINE g == [s \in Small(n + 1) |-> FoldStep(h, f, s)]
  <2>1. ASSUME NEW s \in Small(n + 1), s # {}
        PROVE  s \ {Pick(s)} \in Small(n) /\ s \ {Pick(s)} \in Small(n + 1)
    <3>1. Cardinality(s) \in Nat /\ Cardinality(s \ {Pick(s)}) = Cardinality(s) - 1
      BY <1>1, <2>1, PickIn, Smaller
    <3> QED
      BY <3>1
  <2>2. \A s \in Small(n) : s \in Small(n + 1)
    BY <1>1
  <2>3. \A s \in Small(n) : h[s] = FoldStep(h, f, s) /\ g[s] = FoldStep(h, f, s)
    <3> HIDE DEF Small
    <3> QED
      BY <1>3, <2>2
  <2>4. \A s \in Small(n + 1) : FoldStep(h, f, s) = FoldStep(g, f, s)
    <3> SUFFICES ASSUME NEW s \in Small(n + 1) PROVE FoldStep(h, f, s) = FoldStep(g, f, s)
      OBVIOUS
    <3> HIDE DEF Small, g
    <3> QED
      BY <2>1, <2>3 DEF FoldStep
  <2>5. Partial(g, n + 1)
    <3> HIDE DEF Small
    <3> QED
      BY <2>4
  <2> QED
    BY <2>5
<1>4. Bad = {}
  <2> SUFFICES ASSUME Bad # {} PROVE FALSE
    OBVIOUS
  <2>1. PICK m \in Bad : \A k \in Bad : m <= k
    <3>1. Bad \subseteq Nat
      OBVIOUS
    <3> HIDE DEF Bad
    <3> QED
      BY <3>1, LeastElement
  <2> HIDE DEF Partial
  <2>2. m \in Nat /\ m # 0
    BY <1>2
  <2>3. m - 1 \in Nat /\ m - 1 \notin Bad /\ (m - 1) + 1 = m
    BY <2>1, <2>2
  <2>4. PICK h : Partial(h, m - 1)
    BY <2>3
  <2>5. \E g : Partial(g, m)
    BY <1>3, <2>3, <2>4
  <2> QED
    BY <2>5
<1>5. PICK g : Partial(g, Cardinality(S))
  <2>1. Cardinality(S) \in Nat
    BY <1>1
  <2> HIDE DEF Partial
  <2> QED
    BY <1>4, <2>1
<1>6. Small(Cardinality(S)) = SUBSET S
  BY FS_Subset
<1> QED
  BY <1>5, <1>6 DEF IsFold

(* MapThenSumSet is the value of that fold at the whole set.               *)
LEMMA SumIsFold ==
  ASSUME NEW f, NEW S, IsFiniteSet(S)
  PROVE  \E g : IsFold(g, f, S) /\ SumOver(f, S) = g[S]
<1> DEFINE h == CHOOSE iter :
                  iter = [s \in SUBSET S |->
                            IF s = {} THEN 0
                            ELSE f[CHOOSE x \in s : TRUE] + iter[s \ {CHOOSE x \in s : TRUE}]]
<1>1. SumOver(f, S) = h[S]
  BY DEF SumOver, MapThenSumSet, MapThenFoldSet
<1>2. IsFold(h, f, S)
  <2>1. \E g : IsFold(g, f, S)
    BY FoldExists
  <2> QED
    BY <2>1 DEF IsFold, FoldStep, Pick
<1> HIDE DEF h
<1> QED
  BY <1>1, <1>2

(* The fold does not depend on the order of picking.                       *)
LEMMA FoldSplits ==
  ASSUME NEW S, IsFiniteSet(S), NEW f \in [S -> Nat], NEW g, IsFold(g, f, S),
         NEW t \in SUBSET S
  PROVE  g[t] \in Nat /\ \A y \in t : g[t] = g[t \ {y}] + f[y]
<1> DEFINE Good(s) == g[s] \in Nat /\ \A y \in s : g[s] = g[s \ {y}] + f[y]
           Bad == {n \in Nat : \E s \in SUBSET S : Cardinality(s) = n /\ ~Good(s)}
<1>1. \A s \in SUBSET S : IsFiniteSet(s) /\ Cardinality(s) \in Nat
  BY FS_Subset, FS_CardinalityType
<1>2. ASSUME NEW s \in SUBSET S,
             \A u \in SUBSET S : Cardinality(u) < Cardinality(s) => Good(u)
      PROVE  Good(s)
  <2>1. CASE s = {}
    BY <2>1 DEF IsFold, FoldStep
  <2>2. CASE s # {}
    <3> DEFINE x == Pick(s)
    <3>1. x \in s /\ g[s] = f[x] + g[s \ {x}]
      BY <2>2, PickIn DEF IsFold, FoldStep
    <3> HIDE DEF x
    <3>2. \A y \in s : Good(s \ {y})
      <4> HIDE DEF Good
      <4> SUFFICES ASSUME NEW y \in s PROVE Good(s \ {y})
        OBVIOUS
      <4>1. Cardinality(s \ {y}) < Cardinality(s)
        BY <1>1, Smaller
      <4> QED
        BY <1>2, <4>1
    <3>3. g[s] \in Nat /\ g[s \ {x}] \in Nat /\ f[x] \in Nat
      <4>1. g[s \ {x}] \in Nat
        BY <3>1, <3>2
      <4>2. f[x] \in Nat
        BY <3>1
      <4> QED
        BY <3>1, <4>1, <4>2
    <3>4. ASSUME NEW y \in s, y # x
          PROVE  g[s] = g[s \ {y}] + f[y]
      <4>1. (s \ {x}) \ {y} = (s \ {y}) \ {x}
        OBVIOUS
      <4> DEFINE rest == (s \ {x}) \ {y}
      <4>2. y \in s \ {x} /\ x \in s \ {y}
        BY <3>1, <3>4
      <4>3. g[s \ {x}] = g[rest] + f[y] /\ g[s \ {y}] = g[rest] + f[x]
        BY <3>1, <3>2, <4>1, <4>2
      <4>4. g[rest] \in Nat /\ f[x] \in Nat /\ f[y] \in Nat
        <5>1. x \in S /\ y \in S /\ y \in s \ {x}
          BY <3>1, <4>2
        <5>2. Good(s \ {x}) /\ Cardinality(s \ {x}) < Cardinality(s)
          BY <1>1, <3>1, <3>2, Smaller, SMTT(40)
        <5>3. Cardinality(rest) < Cardinality(s \ {x}) /\ Cardinality(rest) \in Nat
              /\ Cardinality(s \ {x}) \in Nat /\ Cardinality(s) \in Nat
          BY <1>1, <5>1, Smaller
        <5>4. Good(rest)
          <6> HIDE DEF Good
          <6> QED
            BY <1>2, <5>2, <5>3
        <5> QED
          BY <5>1, <5>4
      <4> HIDE DEF rest
      <4> QED
        BY <3>1, <4>3, <4>4
    <3>5. g[s] = g[s \ {x}] + f[x]
      BY <3>1, <3>3
    <3> QED
      BY <3>3, <3>4, <3>5
  <2> QED
    BY <2>1, <2>2
<1>3. Bad = {}
  <2> HIDE DEF Good
  <2> SUFFICES ASSUME Bad # {} PROVE FALSE
    OBVIOUS
  <2>1. PICK m \in Bad : \A k \in Bad : m <= k
    <3>1. Bad \subseteq Nat
      OBVIOUS
    <3> HIDE DEF Bad
    <3> QED
      BY <3>1, LeastElement
  <2>2. PICK s \in SUBSET S : Cardinality(s) = m /\ ~Good(s)
    OBVIOUS
  <2>3. \A u \in SUBSET S : Cardinality(u) < Cardinality(s) => Good(u)
    BY <1>1, <2>1, <2>2
  <2> QED
    BY <1>2, <2>2, <2>3
<1> HIDE DEF Good
<1>4. Good(t)
  BY <1>1, <1>3
<1> QED
  BY <1>4 DEF Good

(* Folds of functions that agree on a set agree there.                     *)
LEMMA FoldsAgree ==
  ASSUME NEW S, IsFiniteSet(S), NEW T, IsFiniteSet(T), NEW f, NEW e, NEW g, NEW h,
         IsFold(g, f, S), IsFold(h, e, T),
         NEW t \in SUBSET S, t \in SUBSET T, \A x \in t : f[x] = e[x]
  PROVE  g[t] = h[t]
<1> DEFINE Bad == {n \in Nat : \E s \in SUBSET t : Cardinality(s) = n /\ g[s] # h[s]}
<1>1. \A s \in SUBSET t : IsFiniteSet(s) /\ Cardinality(s) \in Nat
  BY FS_Subset, FS_CardinalityType
<1>2. ASSUME NEW s \in SUBSET t,
             \A u \in SUBSET t : Cardinality(u) < Cardinality(s) => g[u] = h[u]
      PROVE  g[s] = h[s]
  <2>0. s \in SUBSET S /\ s \in SUBSET T
    OBVIOUS
  <2>1. CASE s = {}
    BY <2>0, <2>1 DEF IsFold, FoldStep
  <2>2. CASE s # {}
    <3> DEFINE x == Pick(s)
    <3>1. x \in s /\ g[s] = f[x] + g[s \ {x}] /\ h[s] = e[x] + h[s \ {x}]
      BY <2>0, <2>2, PickIn DEF IsFold, FoldStep
    <3> HIDE DEF x
    <3>2. Cardinality(s \ {x}) < Cardinality(s)
      BY <1>1, <3>1, Smaller
    <3>3. g[s \ {x}] = h[s \ {x}]
      BY <1>2, <3>2
    <3> QED
      BY <3>1, <3>3
  <2> QED
    BY <2>1, <2>2
<1>3. Bad = {}
  <2> SUFFICES ASSUME Bad # {} PROVE FALSE
    OBVIOUS
  <2>1. PICK m \in Bad : \A k \in Bad : m <= k
    <3>1. Bad \subseteq Nat
      OBVIOUS
    <3> HIDE DEF Bad
    <3> QED
      BY <3>1, LeastElement
  <2>2. PICK s \in SUBSET t : Cardinality(s) = m /\ g[s] # h[s]
    OBVIOUS
  <2>3. \A u \in SUBSET t : Cardinality(u) < Cardinality(s) => g[u] = h[u]
    BY <1>1, <2>1, <2>2
  <2> QED
    BY <1>2, <2>2, <2>3
<1> QED
  BY <1>1, <1>3

-----------------------------------------------------------------------------
(* The empty sum.                                                          *)
LEMMA SumEmpty ==
  ASSUME NEW f
  PROVE  SumOver(f, {}) = 0
<1>1. IsFiniteSet({})
  BY FS_EmptySet
<1>2. PICK g : IsFold(g, f, {}) /\ SumOver(f, {}) = g[{}]
  BY <1>1, SumIsFold
<1> QED
  BY <1>2 DEF IsFold, FoldStep

(* Only the values on the set matter.                                      *)
LEMMA SumAgree ==
  ASSUME NEW S, IsFiniteSet(S), NEW f, NEW e, \A x \in S : f[x] = e[x]
  PROVE  SumOver(f, S) = SumOver(e, S)
<1>1. PICK g : IsFold(g, f, S) /\ SumOver(f, S) = g[S]
  BY SumIsFold
<1>2. PICK h : IsFold(h, e, S) /\ SumOver(e, S) = h[S]
  BY SumIsFold
<1>3. S \in SUBSET S
  OBVIOUS
<1> QED
  BY <1>1, <1>2, <1>3, FoldsAgree

(* A sum is a natural number, and one element less takes its value off.    *)
LEMMA SumRemove ==
  ASSUME NEW S, IsFiniteSet(S), NEW f \in [S -> Nat], NEW x \in S
  PROVE  SumOver(f, S) = SumOver(f, S \ {x}) + f[x] /\ SumOver(f, S) \in Nat
<1>1. PICK g : IsFold(g, f, S) /\ SumOver(f, S) = g[S]
  BY SumIsFold
<1>2. IsFiniteSet(S \ {x})
  BY FS_Subset
<1>3. PICK h : IsFold(h, f, S \ {x}) /\ SumOver(f, S \ {x}) = h[S \ {x}]
  BY <1>2, SumIsFold
<1>4. S \in SUBSET S /\ S \ {x} \in SUBSET S /\ S \ {x} \in SUBSET (S \ {x})
  OBVIOUS
<1>5. g[S] \in Nat /\ g[S] = g[S \ {x}] + f[x]
  BY <1>1, <1>4, FoldSplits
<1>6. g[S \ {x}] = h[S \ {x}]
  BY <1>1, <1>2, <1>3, <1>4, FoldsAgree
<1> QED
  BY <1>1, <1>3, <1>5, <1>6

(* A sum of naturals is a natural number.                                  *)
LEMMA SumNat ==
  ASSUME NEW S, IsFiniteSet(S), NEW f, \A x \in S : f[x] \in Nat
  PROVE  SumOver(f, S) \in Nat
<1> DEFINE e == [x \in S |-> f[x]]
<1>1. e \in [S -> Nat] /\ \A x \in S : f[x] = e[x]
  OBVIOUS
<1>2. SumOver(f, S) = SumOver(e, S)
  <2> HIDE DEF e
  <2> QED
    BY <1>1, SumAgree
<1>3. SumOver(e, S) \in Nat
  <2> HIDE DEF e
  <2>1. CASE S = {}
    BY <2>1, SumEmpty
  <2>2. CASE S # {}
    BY <1>1, <2>2, SumRemove
  <2> QED
    BY <2>1, <2>2
<1> QED
  BY <1>2, <1>3

(* One element more adds its value.                                        *)
LEMMA SumAdd ==
  ASSUME NEW S, IsFiniteSet(S), NEW x, x \notin S, NEW f, f[x] \in Nat,
         \A y \in S : f[y] \in Nat
  PROVE  SumOver(f, S \cup {x}) = SumOver(f, S) + f[x]
<1> DEFINE U == S \cup {x}
           e == [y \in U |-> f[y]]
<1>1. e \in [U -> Nat] /\ \A y \in U : f[y] = e[y]
  OBVIOUS
<1>2. IsFiniteSet(U) /\ x \in U /\ U \ {x} = S
  BY FS_AddElement
<1> HIDE DEF U, e
<1>3. SumOver(e, U) = SumOver(e, S) + e[x]
  BY <1>1, <1>2, SumRemove
<1>4. SumOver(f, U) = SumOver(e, U)
  BY <1>1, <1>2, SumAgree
<1>5. SumOver(f, S) = SumOver(e, S)
  BY <1>1, <1>2, SumAgree
<1> QED
  BY <1>1, <1>2, <1>3, <1>4, <1>5 DEF U

(* Changing the value of one element changes the sum by as much.           *)
LEMMA SumUpdate ==
  ASSUME NEW S, IsFiniteSet(S), NEW x \in S, NEW f, NEW e,
         \A y \in S : f[y] \in Nat /\ e[y] \in Nat,
         \A y \in S \ {x} : f[y] = e[y]
  PROVE  SumOver(f, S) + e[x] = SumOver(e, S) + f[x]
<1> DEFINE rest == S \ {x}
<1>1. IsFiniteSet(rest) /\ x \notin rest /\ rest \cup {x} = S
      /\ rest \subseteq S /\ \A y \in rest : f[y] = e[y]
  BY FS_Subset
<1> HIDE DEF rest
<1>2. SumOver(f, S) = SumOver(f, rest) + f[x]
  BY <1>1, SumAdd
<1>3. SumOver(e, S) = SumOver(e, rest) + e[x]
  BY <1>1, SumAdd
<1>4. SumOver(f, rest) = SumOver(e, rest)
  BY <1>1, SumAgree
<1>5. SumOver(e, rest) \in Nat /\ f[x] \in Nat /\ e[x] \in Nat
  BY <1>1, SumNat
<1> QED
  BY <1>2, <1>3, <1>4, <1>5

(* The sum over a subset is no larger.                                     *)
LEMMA SumSubset ==
  ASSUME NEW S, IsFiniteSet(S), NEW T \in SUBSET S, NEW f,
         \A x \in S : f[x] \in Nat
  PROVE  SumOver(f, T) <= SumOver(f, S)
<1> DEFINE Bad == {n \in Nat : \E u \in SUBSET S :
                      T \subseteq u /\ Cardinality(u) = n /\ ~(SumOver(f, T) <= SumOver(f, u))}
<1>1. \A u \in SUBSET S :
         IsFiniteSet(u) /\ Cardinality(u) \in Nat /\ SumOver(f, u) \in Nat
  <2> SUFFICES ASSUME NEW u \in SUBSET S
               PROVE  IsFiniteSet(u) /\ Cardinality(u) \in Nat /\ SumOver(f, u) \in Nat
    OBVIOUS
  <2>1. IsFiniteSet(u) /\ Cardinality(u) \in Nat
    BY FS_Subset, FS_CardinalityType
  <2> QED
    BY <2>1, SumNat
<1>2. Bad = {}
  <2> SUFFICES ASSUME Bad # {} PROVE FALSE
    OBVIOUS
  <2>1. PICK m \in Bad : \A k \in Bad : m <= k
    <3>1. Bad \subseteq Nat
      OBVIOUS
    <3> HIDE DEF Bad
    <3> QED
      BY <3>1, LeastElement
  <2>2. PICK u \in SUBSET S :
          T \subseteq u /\ Cardinality(u) = m /\ ~(SumOver(f, T) <= SumOver(f, u))
    OBVIOUS
  <2>3. T # u
    <3>1. SumOver(f, T) <= SumOver(f, T)
      BY <1>1
    <3> QED
      BY <2>2, <3>1
  <2>4. PICK x \in u : x \notin T
    BY <2>2, <2>3
  <2> DEFINE v == u \ {x}
  <2>5. v \in SUBSET S /\ T \subseteq v /\ Cardinality(v) = m - 1 /\ v \cup {x} = u /\ x \notin v
    BY <1>1, <2>2, <2>4, Smaller
  <2>6. SumOver(f, u) = SumOver(f, v) + f[x] /\ f[x] \in Nat
    <3> HIDE DEF v
    <3> QED
      BY <1>1, <2>5, SumAdd
  <2>7. SumOver(f, T) <= SumOver(f, v)
    <3> HIDE DEF v
    <3>1. m - 1 \in Nat /\ m - 1 \notin Bad
      BY <1>1, <2>1, <2>5
    <3> QED
      BY <2>5, <3>1
  <2> HIDE DEF v
  <2> QED
    BY <1>1, <2>2, <2>5, <2>6, <2>7
<1>3. S \in SUBSET S
  OBVIOUS
<1> QED
  BY <1>1, <1>2, <1>3

(* A finite set of naturals is bounded.                                    *)
LEMMA FiniteIsBounded ==
  ASSUME NEW S, IsFiniteSet(S), S \subseteq Nat
  PROVE  \E c \in Nat : \A k \in S : k <= c
<1> DEFINE f == [x \in S |-> x]
           c == SumOver(f, S)
<1>1. f \in [S -> Nat] /\ \A x \in S : f[x] = x
  OBVIOUS
<1> HIDE DEF f
<1>2. ASSUME NEW k \in S PROVE c \in Nat /\ k <= c
  <2>1. SumOver(f, S) = SumOver(f, S \ {k}) + f[k] /\ SumOver(f, S) \in Nat
    BY <1>1, SumRemove
  <2>2. SumOver(f, S \ {k}) \in Nat
    <3>1. IsFiniteSet(S \ {k}) /\ \A x \in S \ {k} : f[x] \in Nat
      BY <1>1, FS_Subset
    <3> QED
      BY <3>1, SumNat
  <2>3. f[k] = k /\ k \in Nat
    BY <1>1
  <2> QED
    BY <2>1, <2>2, <2>3
<1>3. c \in Nat
  BY <1>1, SumNat
<1> QED
  BY <1>2, <1>3

-----------------------------------------------------------------------------
(* What holds of the empty set and of one element more holds of a finite   *)
(* set; Q is the set of those subsets of which it holds.                   *)
LEMMA SubsetsByOne ==
  ASSUME NEW S, IsFiniteSet(S), NEW Q, {} \in Q,
         \A u \in SUBSET S : \A x \in S \ u : u \in Q => u \cup {x} \in Q
  PROVE  \A u \in SUBSET S : u \in Q
<1> DEFINE Bad == {n \in Nat : \E u \in SUBSET S : Cardinality(u) = n /\ u \notin Q}
<1>1. \A u \in SUBSET S : IsFiniteSet(u) /\ Cardinality(u) \in Nat
  BY FS_Subset, FS_CardinalityType
<1>2. Bad = {}
  <2> SUFFICES ASSUME Bad # {} PROVE FALSE
    OBVIOUS
  <2>1. PICK m \in Bad : \A k \in Bad : m <= k
    <3>1. Bad \subseteq Nat
      OBVIOUS
    <3> HIDE DEF Bad
    <3> QED
      BY <3>1, LeastElement
  <2>2. PICK u \in SUBSET S : Cardinality(u) = m /\ u \notin Q
    OBVIOUS
  <2>3. PICK x \in u : TRUE
    BY <2>2
  <2> DEFINE v == u \ {x}
  <2>4. v \in SUBSET S /\ Cardinality(v) = m - 1 /\ v \cup {x} = u /\ x \in S \ v
    BY <1>1, <2>2, <2>3, Smaller
  <2>5. v \in Q
    <3> HIDE DEF v
    <3>1. m - 1 \in Nat /\ m - 1 \notin Bad
      BY <1>1, <2>1, <2>4
    <3> QED
      BY <2>4, <3>1
  <2> HIDE DEF v
  <2> QED
    BY <2>2, <2>4, <2>5
<1> QED
  BY <1>1, <1>2

(* Two disjoint sets.                                                      *)
LEMMA SumDisjoint ==
  ASSUME NEW S, IsFiniteSet(S), NEW T, IsFiniteSet(T), S \cap T = {}, NEW f,
         \A x \in S \cup T : f[x] \in Nat
  PROVE  SumOver(f, S \cup T) = SumOver(f, S) + SumOver(f, T)
<1> DEFINE Q == {u \in SUBSET T : SumOver(f, S \cup u) = SumOver(f, S) + SumOver(f, u)}
<1>1. SumOver(f, S) \in Nat
  BY SumNat
<1>2. {} \in Q
  BY <1>1, SumEmpty
<1>3. ASSUME NEW u \in SUBSET T, NEW x \in T \ u, u \in Q
      PROVE  u \cup {x} \in Q
  <2>1. IsFiniteSet(u) /\ IsFiniteSet(S \cup u)
    BY FS_Subset, FS_Union
  <2>2. SumOver(f, u \cup {x}) = SumOver(f, u) + f[x]
    BY <2>1, SumAdd
  <2>3. SumOver(f, (S \cup u) \cup {x}) = SumOver(f, S \cup u) + f[x]
    BY <2>1, SumAdd
  <2>4. (S \cup u) \cup {x} = S \cup (u \cup {x})
    OBVIOUS
  <2>5. SumOver(f, u) \in Nat /\ f[x] \in Nat
    BY <2>1, SumNat
  <2>6. SumOver(f, S \cup u) = SumOver(f, S) + SumOver(f, u)
    BY <1>3
  <2>7. SumOver(f, S \cup (u \cup {x})) = SumOver(f, S) + SumOver(f, u \cup {x})
    <3>1. SumOver(f, S \cup (u \cup {x})) = (SumOver(f, S) + SumOver(f, u)) + f[x]
      BY <2>3, <2>4, <2>6
    <3> QED
      BY <1>1, <2>2, <2>5, <3>1
  <2> QED
    BY <2>7
<1>4. \A u \in SUBSET T : u \in Q
  <2> HIDE DEF Q
  <2> QED
    BY <1>2, <1>3, SubsetsByOne
<1> QED
  BY <1>4

(* The sum over a set that h maps one to one.                              *)
ImageOf(h, S) == {h[x] : x \in S}

LEMMA SumImage ==
  ASSUME NEW S, IsFiniteSet(S), NEW h, NEW f, NEW e,
         \A x \in S : f[x] \in Nat /\ e[h[x]] = f[x],
         \A x, y \in S : h[x] = h[y] => x = y
  PROVE  IsFiniteSet(ImageOf(h, S)) /\ SumOver(e, ImageOf(h, S)) = SumOver(f, S)
<1> DEFINE Image(u) == {h[x] : x \in u}
           Q == {u \in SUBSET S : IsFiniteSet(Image(u)) /\ SumOver(e, Image(u)) = SumOver(f, u)}
<1>1. {} \in Q
  <2>1. Image({}) = {}
    OBVIOUS
  <2> QED
    BY <2>1, SumEmpty, FS_EmptySet
<1>2. ASSUME NEW u \in SUBSET S, NEW x \in S \ u, u \in Q
      PROVE  u \cup {x} \in Q
  <2>1. Image(u \cup {x}) = Image(u) \cup {h[x]} /\ h[x] \notin Image(u)
    OBVIOUS
  <2>2. IsFiniteSet(u)
    BY FS_Subset
  <2>3. \A y \in Image(u) : e[y] \in Nat
    OBVIOUS
  <2>4. SumOver(f, u \cup {x}) = SumOver(f, u) + f[x]
    BY <2>2, SumAdd
  <2>5. IsFiniteSet(Image(u)) /\ SumOver(e, Image(u)) = SumOver(f, u)
    BY <1>2
  <2>6. IsFiniteSet(Image(u) \cup {h[x]}) /\ e[h[x]] = f[x] /\ f[x] \in Nat
    BY <2>5, FS_AddElement
  <2>7. SumOver(e, Image(u) \cup {h[x]}) = SumOver(e, Image(u)) + e[h[x]]
    <3> DEFINE T == Image(u)
               y == h[x]
    <3>1. IsFiniteSet(T) /\ y \notin T /\ e[y] \in Nat /\ \A z \in T : e[z] \in Nat
      BY <2>1, <2>3, <2>5, <2>6
    <3> HIDE DEF T, y
    <3>2. SumOver(e, T \cup {y}) = SumOver(e, T) + e[y]
      BY <3>1, SumAdd
    <3> QED
      BY <3>2 DEF T, y
  <2> HIDE DEF Image
  <2> QED
    BY <2>1, <2>4, <2>5, <2>6, <2>7
<1>3. \A u \in SUBSET S : u \in Q
  <2> HIDE DEF Q
  <2> QED
    BY <1>1, <1>2, SubsetsByOne
<1> QED
  BY <1>3 DEF ImageOf

(* A family of disjoint sets.                                              *)
Family(A, I) == UNION {A[i] : i \in I}

LEMMA SumFamily ==
  ASSUME NEW I, IsFiniteSet(I), NEW A, NEW f,
         \A i \in I : IsFiniteSet(A[i]) /\ \A x \in A[i] : f[x] \in Nat,
         \A i, j \in I : i # j => A[i] \cap A[j] = {}
  PROVE  /\ IsFiniteSet(Family(A, I))
         /\ SumOver(f, Family(A, I)) = SumOver([i \in I |-> SumOver(f, A[i])], I)
<1> DEFINE part == [i \in I |-> SumOver(f, A[i])]
           Q == {u \in SUBSET I : /\ IsFiniteSet(Family(A, u))
                                  /\ SumOver(f, Family(A, u)) = SumOver(part, u)}
<1>1. \A i \in I : part[i] = SumOver(f, A[i]) /\ part[i] \in Nat
  BY SumNat
<1>2. {} \in Q
  <2>1. Family(A, {}) = {}
    BY DEF Family
  <2> QED
    BY <2>1, SumEmpty, FS_EmptySet
<1>3. ASSUME NEW u \in SUBSET I, NEW x \in I \ u, u \in Q
      PROVE  u \cup {x} \in Q
  <2>1. Family(A, u \cup {x}) = Family(A, u) \cup A[x] /\ Family(A, u) \cap A[x] = {}
    BY DEF Family
  <2>2. IsFiniteSet(u) /\ IsFiniteSet(Family(A, u))
    BY <1>3, FS_Subset
  <2>3. \A y \in Family(A, u) \cup A[x] : f[y] \in Nat
    BY DEF Family
  <2>4. IsFiniteSet(Family(A, u) \cup A[x])
    BY <2>2, FS_Union
  <2>5. SumOver(f, Family(A, u) \cup A[x]) = SumOver(f, Family(A, u)) + SumOver(f, A[x])
    BY <2>1, <2>2, <2>3, SumDisjoint
  <2>6. SumOver(part, u \cup {x}) = SumOver(part, u) + part[x]
    <3> HIDE DEF part
    <3> QED
      BY <1>1, <2>2, SumAdd
  <2>7. SumOver(f, Family(A, u)) = SumOver(part, u)
    BY <1>3
  <2> HIDE DEF part
  <2> QED
    BY <1>1, <2>1, <2>4, <2>5, <2>6, <2>7
<1>4. \A u \in SUBSET I : u \in Q
  <2> HIDE DEF Q
  <2> QED
    BY <1>2, <1>3, SubsetsByOne
<1> QED
  BY <1>4

(* Sums add up term by term.                                               *)
LEMMA SumPlus ==
  ASSUME NEW S, IsFiniteSet(S), NEW f, NEW e, NEW d,
         \A x \in S : f[x] \in Nat /\ e[x] \in Nat /\ d[x] = f[x] + e[x]
  PROVE  SumOver(d, S) = SumOver(f, S) + SumOver(e, S)
<1> DEFINE Q == {u \in SUBSET S : SumOver(d, u) = SumOver(f, u) + SumOver(e, u)}
<1>1. {} \in Q
  BY SumEmpty
<1>2. ASSUME NEW u \in SUBSET S, NEW x \in S \ u, u \in Q
      PROVE  u \cup {x} \in Q
  <2>1. IsFiniteSet(u)
    BY FS_Subset
  <2>2. \A y \in S : d[y] \in Nat
    OBVIOUS
  <2>3. SumOver(f, u \cup {x}) = SumOver(f, u) + f[x]
    BY <2>1, SumAdd
  <2>4. SumOver(e, u \cup {x}) = SumOver(e, u) + e[x]
    BY <2>1, SumAdd
  <2>5. SumOver(d, u \cup {x}) = SumOver(d, u) + d[x]
    BY <2>1, <2>2, SumAdd
  <2>6. SumOver(f, u) \in Nat /\ SumOver(e, u) \in Nat
    BY <2>1, SumNat
  <2>7. f[x] \in Nat /\ e[x] \in Nat /\ d[x] = f[x] + e[x]
    OBVIOUS
  <2>8. SumOver(d, u) = SumOver(f, u) + SumOver(e, u)
    BY <1>2
  <2> QED
    BY <2>3, <2>4, <2>5, <2>6, <2>7, <2>8
<1>3. \A u \in SUBSET S : u \in Q
  <2> HIDE DEF Q
  <2> QED
    BY <1>1, <1>2, SubsetsByOne
<1> QED
  BY <1>3

(* A running total along 1..n is the sum.                                  *)
LEMMA RunningTotal ==
  ASSUME NEW n \in Nat, NEW v, \A i \in 1..n : v[i] \in Nat,
         NEW g, g[0] = 0, \A i \in 1..n : g[i] = g[i - 1] + v[i]
  PROVE  g[n] = SumOver(v, 1..n)
<1> DEFINE Good == {k \in Nat : k <= n => g[k] = SumOver(v, 1..k)}
<1>1. 0 \in Good
  <2>1. 1..0 = {}
    OBVIOUS
  <2> QED
    BY <2>1, SumEmpty
<1>2. ASSUME NEW k \in Nat, k < n, k \in Good
      PROVE  k + 1 \in Good
  <2>1. 1..(k + 1) = (1..k) \cup {k + 1} /\ k + 1 \notin 1..k
    OBVIOUS
  <2>2. IsFiniteSet(1..k)
    BY FS_Interval
  <2>3. k + 1 \in 1..n /\ (k + 1) - 1 = k /\ \A i \in 1..k : i \in 1..n
    BY <1>2
  <2>4. SumOver(v, (1..k) \cup {k + 1}) = SumOver(v, 1..k) + v[k + 1]
    <3> DEFINE T == 1..k
               y == k + 1
    <3>1. IsFiniteSet(T) /\ y \notin T /\ v[y] \in Nat /\ \A z \in T : v[z] \in Nat
      BY <2>1, <2>2, <2>3
    <3> HIDE DEF T, y
    <3>2. SumOver(v, T \cup {y}) = SumOver(v, T) + v[y]
      BY <3>1, SumAdd
    <3> QED
      BY <3>2 DEF T, y
  <2>5. g[k + 1] = g[k] + v[k + 1] /\ g[k] = SumOver(v, 1..k)
    BY <1>2, <2>3
  <2>6. g[k + 1] = SumOver(v, 1..(k + 1))
    BY <2>1, <2>4, <2>5, Zenon
  <2> QED
    BY <2>6
<1>3. \A k \in 0..n : k \in Good
  <2> HIDE DEF Good
  <2> QED
    BY <1>1, <1>2, UpTo
<1> QED
  BY <1>3
=============================================================================
