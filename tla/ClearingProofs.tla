--------------------------- MODULE ClearingProofs ---------------------------
(***************************************************************************)
(* Lemmas about the demand curve and the clearing function, for every cap, *)
(* every schedule and every set of children.                               *)
(***************************************************************************)
EXTENDS Clearing, FiniteSetTheorems, TLAPS

\* The strict order of the naturals, as a relation.
Below == {q \in Nat \X Nat : q[1] < q[2]}

LEMMA BelowIsWellFounded == IsWellFoundedOn(Below, Nat)
<1>1. Below = OpToRel(<, Nat)
  BY DEF Below, OpToRel
<1> QED
  BY <1>1, NatLessThanWellFounded

\* A non-empty set of naturals has a least element, and Min is it.
LEMMA MinIsLeast ==
  ASSUME NEW S \in SUBSET Nat, S # {}
  PROVE  Min(S) \in S /\ \A y \in S : Min(S) <= y
<1>1. PICK x \in S : \A y \in S : <<y, x>> \notin Below
  BY BelowIsWellFounded, WFMin
<1>2. ASSUME NEW y \in S
      PROVE  x <= y
  <2>1. <<y, x>> \in Nat \X Nat /\ <<y, x>>[1] = y /\ <<y, x>>[2] = x
    OBVIOUS
  <2>2. ~(y < x)
    BY <1>1, <2>1 DEF Below
  <2> QED
    BY <2>2
<1> QED
  BY <1>2 DEF Min

\* A non-empty bounded set of naturals has a greatest element, and Max is it.
LEMMA MaxIsGreatest ==
  ASSUME NEW S \in SUBSET Nat, S # {}, NEW n \in Nat, \A y \in S : y <= n
  PROVE  Max(S) \in S /\ \A y \in S : Max(S) >= y
<1> DEFINE D == {n - y : y \in S}
<1>1. D \in SUBSET Nat /\ D # {}
  <2>1. \A y \in S : n - y \in Nat
    OBVIOUS
  <2>2. PICK y \in S : TRUE
    OBVIOUS
  <2>3. n - y \in D
    OBVIOUS
  <2> QED
    BY <2>1, <2>3
<1>2. Min(D) \in D /\ \A d \in D : Min(D) <= d
  BY <1>1, MinIsLeast
<1>3. PICK x \in S : Min(D) = n - x
  BY <1>2
<1>4. \A y \in S : n - x <= n - y
  BY <1>2, <1>3
<1>5. \A y \in S : x >= y
  BY <1>4
<1> QED
  BY <1>5 DEF Max

-----------------------------------------------------------------------------
(* Induction over sets of numbers: the schema, as a fact about sets. *)

\* A set of naturals that holds 0 and every successor holds them all.
LEMMA AllNaturals ==
  ASSUME NEW T \in SUBSET Nat, 0 \in T, \A n \in T : n + 1 \in T
  PROVE  T = Nat
<1> DEFINE D == Nat \ T
<1> SUFFICES ASSUME D # {}
             PROVE  FALSE
  OBVIOUS
<1>1. PICK x \in D : \A y \in D : x <= y
  BY MinIsLeast
<1>2. x \in Nat /\ x # 0 /\ x - 1 \in Nat
  BY <1>1
<1>3. x - 1 \in T
  BY <1>1, <1>2
<1>4. (x - 1) + 1 \in T
  BY <1>3
<1> QED
  BY <1>1, <1>2, <1>4

-----------------------------------------------------------------------------
\* The sum over no child is zero.
LEMMA TotalOfNone ==
  ASSUME NEW f
  PROVE  Total(f, {}) = 0
<1> DEFINE body(g) ==
      [s \in SUBSET {} |->
         IF s = {} THEN 0
         ELSE f[CHOOSE x \in s : TRUE] + g[s \ {CHOOSE x \in s : TRUE}]]
<1> DEFINE it == CHOOSE g : g = body(g)
<1> DEFINE w == [s \in SUBSET {} |-> 0]
<1>1. w = body(w)
  OBVIOUS
<1>2. it = body(it)
  BY <1>1
<1>3. it[{}] = 0
  BY <1>2
<1> QED
  BY <1>3 DEF Total, FoldFunctionOnSet, MapThenFoldSet

(* Sums. *)

\* An element of s, the one the fold behind Total takes next.
Pick(s) == CHOOSE x \in s : TRUE

\* g is the recursion behind Total, on the sets of D.
SumsUp(g, f, D) ==
  g = [s \in D |-> IF s = {} THEN 0 ELSE f[Pick(s)] + g[s \ {Pick(s)}]]

Sums(g, f, K) == SumsUp(g, f, SUBSET K)

\* A set that loses an element is one smaller.
LEMMA OneSmaller ==
  ASSUME NEW s, IsFiniteSet(s), NEW x \in s, NEW n \in Nat, Cardinality(s) = n + 1
  PROVE  Cardinality(s \ {x}) = n
<1>1. Cardinality(s \ {x}) = IF x \in s THEN Cardinality(s) - 1 ELSE Cardinality(s)
  BY FS_RemoveElement, Zenon
<1> QED
  BY <1>1

\* The recursion has a solution.
LEMMA SumExists ==
  ASSUME NEW f, NEW K, IsFiniteSet(K)
  PROVE  \E g : Sums(g, f, K)
<1> DEFINE L(n) == {s \in SUBSET K : Cardinality(s) <= n}
           T == {n \in Nat : \E g : SumsUp(g, f, L(n))}
<1>1. \A s \in SUBSET K : IsFiniteSet(s) /\ Cardinality(s) \in Nat
  BY FS_Subset, FS_CardinalityType
<1>2. 0 \in T
  <2> DEFINE g == [s \in L(0) |-> 0]
  <2>1. \A s \in L(0) : s = {}
    BY <1>1, FS_EmptySet
  <2>2. g = [s \in L(0) |-> IF s = {} THEN 0 ELSE f[Pick(s)] + g[s \ {Pick(s)}]]
    BY <2>1
  <2>3. SumsUp(g, f, L(0))
    BY <2>2 DEF SumsUp
  <2> QED
    BY <2>3
<1>3. ASSUME NEW n \in T
      PROVE  n + 1 \in T
  <2> PICK g : SumsUp(g, f, L(n))
    OBVIOUS
  <2> DEFINE h == [s \in L(n + 1) |->
                     IF s = {} THEN 0 ELSE f[Pick(s)] + g[s \ {Pick(s)}]]
  <2>1. \A s \in L(n) : s \in L(n + 1) /\ h[s] = g[s]
    <3>1. \A s \in L(n) : s \in L(n + 1)
      BY <1>1
    <3>2. g = [s \in L(n) |-> IF s = {} THEN 0 ELSE f[Pick(s)] + g[s \ {Pick(s)}]]
      BY DEF SumsUp
    <3> HIDE DEF L
    <3>3. \A s \in L(n) : g[s] = IF s = {} THEN 0 ELSE f[Pick(s)] + g[s \ {Pick(s)}]
      BY <3>2
    <3> QED
      BY <3>1, <3>3
  <2>2. ASSUME NEW s \in L(n + 1), s # {}
        PROVE  s \ {Pick(s)} \in L(n)
    <3>1. Pick(s) \in s
      BY <2>2 DEF Pick
    <3>2. Cardinality(s \ {Pick(s)}) = Cardinality(s) - 1
      BY <1>1, <3>1, FS_RemoveElement
    <3> QED
      BY <1>1, <3>2
  <2>3. h = [s \in L(n + 1) |-> IF s = {} THEN 0 ELSE f[Pick(s)] + h[s \ {Pick(s)}]]
    <3> HIDE DEF L
    <3> QED
      BY <2>1, <2>2
  <2>4. SumsUp(h, f, L(n + 1))
    BY <2>3 DEF SumsUp
  <2>5. n + 1 \in Nat /\ \E gg : SumsUp(gg, f, L(n + 1))
    <3> HIDE DEF h, L
    <3> QED
      BY <2>4
  <2> QED
    BY <2>5
<1>4. T = Nat
  <2> HIDE DEF T
  <2>1. T \in SUBSET Nat
    BY DEF T
  <2> QED
    BY <1>2, <1>3, <2>1, AllNaturals
<1>5. Cardinality(K) \in T
  BY <1>1, <1>4
<1>6. L(Cardinality(K)) = SUBSET K
  BY FS_Subset
<1> QED
  BY <1>5, <1>6 DEF Sums

\* And only one: a solution on fewer sets has the same values there.
LEMMA SumIsUnique ==
  ASSUME NEW f, NEW K, IsFiniteSet(K), NEW M \in SUBSET K,
         NEW g, Sums(g, f, K),
         NEW h, Sums(h, f, M)
  PROVE  g[M] = h[M]
<1> DEFINE T == {n \in Nat : \A t \in SUBSET M :
                               Cardinality(t) = n => g[t] = h[t]}
<1>1. \A t \in SUBSET M : IsFiniteSet(t) /\ Cardinality(t) \in Nat /\ t \in SUBSET K
  BY FS_Subset, FS_CardinalityType
<1>2. \A t \in SUBSET M :
        /\ g[t] = IF t = {} THEN 0 ELSE f[Pick(t)] + g[t \ {Pick(t)}]
        /\ h[t] = IF t = {} THEN 0 ELSE f[Pick(t)] + h[t \ {Pick(t)}]
  BY DEF Sums, SumsUp
<1>3. 0 \in T
  BY <1>1, <1>2, FS_EmptySet
<1>4. ASSUME NEW n \in T
      PROVE  n + 1 \in T
  <2> SUFFICES ASSUME NEW t \in SUBSET M, Cardinality(t) = n + 1
               PROVE  g[t] = h[t]
    OBVIOUS
  <2>1. t # {} /\ IsFiniteSet(t) /\ n \in Nat
    BY <1>1, FS_EmptySet
  <2>2. Pick(t) \in t
    BY <2>1 DEF Pick
  <2>3. Cardinality(t \ {Pick(t)}) = n
    BY <2>1, <2>2, OneSmaller
  <2>4. t \ {Pick(t)} \in SUBSET M
    OBVIOUS
  <2>5. g[t \ {Pick(t)}] = h[t \ {Pick(t)}]
    BY <2>3, <2>4
  <2> QED
    BY <1>2, <2>1, <2>5
<1>5. T = Nat
  <2> HIDE DEF T
  <2>1. T \in SUBSET Nat
    BY DEF T
  <2> QED
    BY <1>3, <1>4, <2>1, AllNaturals
<1> QED
  BY <1>1, <1>5

\* Total is the solution's value at the whole set.
LEMMA TotalIsSum ==
  ASSUME NEW f, NEW K, IsFiniteSet(K),
         NEW g, Sums(g, f, K), NEW M \in SUBSET K
  PROVE  Total(f, M) = g[M]
<1> DEFINE it == CHOOSE h : Sums(h, f, M)
<1>1. IsFiniteSet(M)
  BY FS_Subset
<1>2. Sums(it, f, M)
  BY <1>1, SumExists
<1>3. Total(f, M) = it[M]
  BY DEF Total, FoldFunctionOnSet, MapThenFoldSet, Sums, SumsUp, Pick
<1> HIDE DEF it
<1>4. g[M] = it[M]
  BY <1>2, SumIsUnique
<1> QED
  BY <1>3, <1>4

\* The element the fold takes first is taken out of the sum.
LEMMA TotalUnfolds ==
  ASSUME NEW f, NEW K, IsFiniteSet(K), K # {}
  PROVE  Total(f, K) = f[Pick(K)] + Total(f, K \ {Pick(K)})
<1> PICK g : Sums(g, f, K)
  BY SumExists
<1>1. g[K] = f[Pick(K)] + g[K \ {Pick(K)}]
  BY DEF Sums, SumsUp
<1>2. Total(f, K) = g[K] /\ Total(f, K \ {Pick(K)}) = g[K \ {Pick(K)}]
  BY TotalIsSum
<1> QED
  BY <1>1, <1>2

\* A sum of integers is one, over every part of the set.
LEMMA TotalIsInt ==
  ASSUME NEW K, IsFiniteSet(K), NEW f, \A k \in K : f[k] \in Int
  PROVE  \A t \in SUBSET K : Total(f, t) \in Int
<1> DEFINE T == {n \in Nat : \A t \in SUBSET K :
                               Cardinality(t) = n => Total(f, t) \in Int}
<1>1. \A t \in SUBSET K : IsFiniteSet(t) /\ Cardinality(t) \in Nat
  BY FS_Subset, FS_CardinalityType
<1>2. 0 \in T
  <2> SUFFICES ASSUME NEW t \in SUBSET K, Cardinality(t) = 0
               PROVE  Total(f, t) \in Int
    OBVIOUS
  <2>1. t = {}
    BY <1>1, FS_EmptySet
  <2> QED
    BY <2>1, TotalOfNone
<1>3. ASSUME NEW n \in T
      PROVE  n + 1 \in T
  <2> SUFFICES ASSUME NEW t \in SUBSET K, Cardinality(t) = n + 1
               PROVE  Total(f, t) \in Int
    OBVIOUS
  <2>1. t # {} /\ IsFiniteSet(t) /\ n \in Nat
    BY <1>1, FS_EmptySet
  <2>2. Pick(t) \in t
    BY <2>1 DEF Pick
  <2>3. Cardinality(t \ {Pick(t)}) = n
    BY <2>1, <2>2, OneSmaller
  <2>4. Total(f, t \ {Pick(t)}) \in Int
    BY <2>3
  <2>5. Total(f, t) = f[Pick(t)] + Total(f, t \ {Pick(t)})
    BY <2>1, TotalUnfolds
  <2>6. f[Pick(t)] \in Int
    BY <2>2
  <2> QED
    BY <2>4, <2>5, <2>6
<1>4. T = Nat
  <2> HIDE DEF T
  <2>1. T \in SUBSET Nat
    BY DEF T
  <2> QED
    BY <1>2, <1>3, <2>1, AllNaturals
<1> QED
  BY <1>1, <1>4

\* The order of the fold does not matter: any element may be taken out.
LEMMA TotalSplits ==
  ASSUME NEW K, IsFiniteSet(K), NEW f, \A k \in K : f[k] \in Int, NEW x \in K
  PROVE  /\ Total(f, K) = f[x] + Total(f, K \ {x})
         /\ Total(f, K \ {x}) \in Int
<1> DEFINE Good(t) == \A y \in t : Total(f, t) = f[y] + Total(f, t \ {y})
           T == {n \in Nat : \A t \in SUBSET K : Cardinality(t) = n => Good(t)}
<1>1. \A t \in SUBSET K : /\ IsFiniteSet(t) /\ Cardinality(t) \in Nat
                          /\ Total(f, t) \in Int
  BY FS_Subset, FS_CardinalityType, TotalIsInt
<1>2. 0 \in T
  BY <1>1, FS_EmptySet
<1>3. ASSUME NEW n \in T
      PROVE  n + 1 \in T
  <2> SUFFICES ASSUME NEW t \in SUBSET K, Cardinality(t) = n + 1, NEW y \in t
               PROVE  Total(f, t) = f[y] + Total(f, t \ {y})
    OBVIOUS
  <2> DEFINE c == Pick(t)
  <2>1. t # {} /\ IsFiniteSet(t) /\ n \in Nat
    BY <1>1
  <2>2. c \in t
    BY <2>1 DEF Pick
  <2>3. Total(f, t) = f[c] + Total(f, t \ {c})
    BY <2>1, TotalUnfolds
  <2> HIDE DEF c, Good
  <2>4. CASE y = c
    BY <2>3, <2>4
  <2>5. CASE y # c
    <3>1. Good(t \ {c}) /\ Good(t \ {y})
      <4>1. Cardinality(t \ {c}) = n /\ Cardinality(t \ {y}) = n
        BY <2>1, <2>2, OneSmaller
      <4>2. t \ {c} \in SUBSET K /\ t \ {y} \in SUBSET K
        OBVIOUS
      <4> QED
        BY <4>1, <4>2
    <3> DEFINE r == Total(f, (t \ {c}) \ {y})
    <3>2. Total(f, t \ {c}) = f[y] + r
      BY <2>5, <3>1 DEF Good
    <3>3. Total(f, t \ {y}) = f[c] + Total(f, (t \ {y}) \ {c})
      BY <2>2, <2>5, <3>1 DEF Good
    <3>4. (t \ {y}) \ {c} = (t \ {c}) \ {y}
      OBVIOUS
    <3>5. r \in Int /\ f[y] \in Int /\ f[c] \in Int
      BY <1>1, <2>2
    <3> HIDE DEF r
    <3>6. Total(f, t \ {y}) = f[c] + r
      BY <3>3, <3>4 DEF r
    <3> QED
      BY <2>3, <3>2, <3>5, <3>6
  <2> QED
    BY <2>4, <2>5
<1>4. T = Nat
  <2> HIDE DEF T
  <2>1. T \in SUBSET Nat
    BY DEF T
  <2> QED
    BY <1>2, <1>3, <2>1, AllNaturals
<1>5. Good(K)
  BY <1>1, <1>4
<1> QED
  BY <1>1, <1>5

\* Only the values on the set count.
LEMMA TotalOfEqual ==
  ASSUME NEW K, IsFiniteSet(K), NEW f, NEW g, \A k \in K : f[k] = g[k]
  PROVE  Total(f, K) = Total(g, K)
<1> PICK h : Sums(h, f, K)
  BY SumExists
<1>1. Sums(h, g, K)
  <2>1. \A s \in SUBSET K : s # {} => Pick(s) \in K
    BY DEF Pick
  <2> QED
    BY <2>1 DEF Sums, SumsUp
<1> QED
  BY <1>1, TotalIsSum

\* A sum grows with its terms, and is zero if they are.
LEMMA TotalGrows ==
  ASSUME NEW K, IsFiniteSet(K), NEW f, NEW g,
         \A k \in K : f[k] \in Int /\ g[k] \in Int /\ f[k] <= g[k]
  PROVE  Total(f, K) <= Total(g, K)
<1> DEFINE T == {n \in Nat : \A t \in SUBSET K :
                               Cardinality(t) = n => Total(f, t) <= Total(g, t)}
<1>1. \A t \in SUBSET K : /\ IsFiniteSet(t) /\ Cardinality(t) \in Nat
                          /\ Total(f, t) \in Int /\ Total(g, t) \in Int
  BY FS_Subset, FS_CardinalityType, TotalIsInt
<1>2. 0 \in T
  <2> SUFFICES ASSUME NEW t \in SUBSET K, Cardinality(t) = 0
               PROVE  Total(f, t) <= Total(g, t)
    OBVIOUS
  <2>1. t = {}
    BY <1>1, FS_EmptySet
  <2> QED
    BY <2>1, TotalOfNone
<1>3. ASSUME NEW n \in T
      PROVE  n + 1 \in T
  <2> SUFFICES ASSUME NEW t \in SUBSET K, Cardinality(t) = n + 1
               PROVE  Total(f, t) <= Total(g, t)
    OBVIOUS
  <2>1. t # {} /\ IsFiniteSet(t) /\ n \in Nat
    BY <1>1, FS_EmptySet
  <2> PICK x \in t : TRUE
    BY <2>1
  <2>2. Cardinality(t \ {x}) = n /\ t \ {x} \in SUBSET K
    BY <2>1, OneSmaller
  <2>3. /\ Total(f, t) = f[x] + Total(f, t \ {x})
        /\ Total(g, t) = g[x] + Total(g, t \ {x})
    BY <2>1, TotalSplits
  <2>4. Total(f, t \ {x}) <= Total(g, t \ {x})
    BY <2>2
  <2>5. /\ Total(f, t \ {x}) \in Int /\ Total(g, t \ {x}) \in Int
        /\ f[x] \in Int /\ g[x] \in Int /\ f[x] <= g[x]
    BY <1>1, <2>2
  <2> QED
    BY <2>3, <2>4, <2>5
<1>4. T = Nat
  <2> HIDE DEF T
  <2>1. T \in SUBSET Nat
    BY DEF T
  <2> QED
    BY <1>2, <1>3, <2>1, AllNaturals
<1> QED
  BY <1>1, <1>4

\* The sum over one child is its value.
LEMMA TotalOfOne ==
  ASSUME NEW f, NEW k, f[k] \in Int
  PROVE  Total(f, {k}) = f[k]
<1>1. IsFiniteSet({k}) /\ {k} \ {k} = {}
  BY FS_Singleton
<1>2. Total(f, {k}) = f[k] + Total(f, {k} \ {k})
  BY <1>1, TotalSplits
<1> QED
  BY <1>1, <1>2, TotalOfNone

\* Children may be renamed, each to one of its own.
LEMMA TotalRenamed ==
  ASSUME NEW K, IsFiniteSet(K), NEW M, IsFiniteSet(M),
         NEW h \in [K -> M], \A k, l \in K : h[k] = h[l] => k = l,
         \A m \in M : \E k \in K : h[k] = m,
         NEW f, NEW g, \A k \in K : f[k] \in Int /\ f[k] = g[h[k]]
  PROVE  Total(f, K) = Total(g, M)
<1> DEFINE Image(t) == {h[k] : k \in t}
           T == {n \in Nat : \A t \in SUBSET K :
                               Cardinality(t) = n => Total(f, t) = Total(g, Image(t))}
<1>1. \A t \in SUBSET K : IsFiniteSet(t) /\ Cardinality(t) \in Nat
  BY FS_Subset, FS_CardinalityType
<1>2. 0 \in T
  <2> SUFFICES ASSUME NEW t \in SUBSET K, Cardinality(t) = 0
               PROVE  Total(f, t) = Total(g, Image(t))
    OBVIOUS
  <2>1. t = {} /\ Image(t) = {}
    BY <1>1, FS_EmptySet
  <2> QED
    BY <2>1, TotalOfNone
<1>3. ASSUME NEW n \in T
      PROVE  n + 1 \in T
  <2> SUFFICES ASSUME NEW t \in SUBSET K, Cardinality(t) = n + 1
               PROVE  Total(f, t) = Total(g, Image(t))
    OBVIOUS
  <2>1. t # {} /\ IsFiniteSet(t) /\ n \in Nat
    BY <1>1, FS_EmptySet
  <2> PICK x \in t : TRUE
    BY <2>1
  <2>2. Cardinality(t \ {x}) = n /\ t \ {x} \in SUBSET K
    BY <2>1, OneSmaller
  <2>3. Total(f, t) = f[x] + Total(f, t \ {x})
    <3>1. \A k \in t : f[k] \in Int
      OBVIOUS
    <3> QED
      BY <2>1, <3>1, TotalSplits
  <2>4. Total(f, t \ {x}) = Total(g, Image(t \ {x}))
    BY <2>2
  <2>5. Image(t \ {x}) = Image(t) \ {h[x]}
    OBVIOUS
  <2>6. Total(g, Image(t)) = g[h[x]] + Total(g, Image(t) \ {h[x]})
    <3>1. Image(t) \in SUBSET M /\ h[x] \in Image(t)
      OBVIOUS
    <3>2. \A m \in Image(t) : g[m] \in Int
      OBVIOUS
    <3> HIDE DEF Image
    <3>3. IsFiniteSet(Image(t))
      BY <3>1, FS_Subset
    <3> QED
      BY <3>1, <3>2, <3>3, TotalSplits
  <2>7. f[x] = g[h[x]]
    OBVIOUS
  <2> HIDE DEF Image
  <2> QED
    BY <2>3, <2>4, <2>5, <2>6, <2>7
<1>4. T = Nat
  <2> HIDE DEF T
  <2>1. T \in SUBSET Nat
    BY DEF T
  <2> QED
    BY <1>2, <1>3, <2>1, AllNaturals
<1>5. Image(K) = M
  OBVIOUS
<1>6. Total(f, K) = Total(g, Image(K))
  BY <1>1, <1>4
<1> QED
  BY <1>5, <1>6

\* A sum of zeros is zero.
LEMMA TotalOfZeros ==
  ASSUME NEW K, IsFiniteSet(K), NEW f, \A k \in K : f[k] = 0
  PROVE  Total(f, K) = 0
<1> DEFINE w == [s \in SUBSET K |-> 0]
<1>1. \A s \in SUBSET K : s # {} => f[Pick(s)] = 0
  BY DEF Pick
<1>2. Sums(w, f, K)
  BY <1>1 DEF Sums, SumsUp
<1> HIDE DEF w
<1>3. w[K] = Total(f, K)
  <2>1. K \in SUBSET K
    OBVIOUS
  <2> QED
    BY <1>2, <2>1, TotalIsSum
<1> QED
  BY <1>3 DEF w

-----------------------------------------------------------------------------
\* What a valid schedule's entries are.
LEMMA PointsInRange ==
  ASSUME NEW s \in Seq(SchedulePoint), ValidSchedule(s), NEW i \in DOMAIN s
  PROVE  /\ s[i].unit_price \in 1 .. MAX_UNIT_PRICE
         /\ s[i].max_qty \in 1 .. MAX_QTY
BY DEF ValidSchedule

\* The quantity bought is that of an entry which reaches the price, or none.
LEMMA DemandIsAnEntry ==
  ASSUME NEW s \in Seq(SchedulePoint), NEW p
  PROVE  \/ Demand(s, p) = 0
         \/ \E i \in DOMAIN s : /\ s[i].unit_price >= p
                               /\ Demand(s, p) = s[i].max_qty
<1>1. CASE Reaching(s, p) = {}
  BY <1>1 DEF Demand
<1>2. CASE Reaching(s, p) # {}
  <2>1. Reaching(s, p) \in SUBSET Nat
    BY DEF Reaching
  <2>2. Min(Reaching(s, p)) \in Reaching(s, p)
    BY <1>2, <2>1, MinIsLeast
  <2> QED
    BY <1>2, <2>2 DEF Demand, Reaching
<1> QED
  BY <1>1, <1>2

LEMMA DemandIsNat ==
  ASSUME NEW s \in Seq(SchedulePoint), NEW p
  PROVE  Demand(s, p) \in Nat
<1>1. \A i \in DOMAIN s : s[i] \in SchedulePoint
  OBVIOUS
<1>2. \A i \in DOMAIN s : s[i].max_qty \in Nat
  BY <1>1 DEF SchedulePoint
<1> QED
  BY <1>2, DemandIsAnEntry

\* Products of naturals grow with their factors.
LEMMA ProductsAreMonotonic ==
  ASSUME NEW a \in Nat, NEW b \in Nat, NEW c \in Nat, NEW d \in Nat,
         a <= c, b <= d
  PROVE  a * b \in Nat /\ a * b <= c * d
OBVIOUS

\* The worst case bounds each entry's leg.
LEMMA WorstCaseIsGreatest ==
  ASSUME NEW s \in Seq(SchedulePoint), ValidSchedule(s)
  PROVE  /\ WorstCase(s) \in Nat
         /\ \A i \in DOMAIN s : LegOf(s[i]) <= WorstCase(s)
<1> DEFINE S == {0} \cup {LegOf(s[i]) : i \in DOMAIN s}
<1>1. MAX_UNIT_PRICE \in Nat /\ MAX_QTY \in Nat
  BY ScheduleCaps
<1>2. MAX_UNIT_PRICE * MAX_QTY \in Nat
  BY <1>1, ProductsAreMonotonic
<1>3. ASSUME NEW i \in DOMAIN s
      PROVE  LegOf(s[i]) \in Nat /\ LegOf(s[i]) <= MAX_UNIT_PRICE * MAX_QTY
  <2>1. /\ s[i].unit_price \in Nat /\ s[i].unit_price <= MAX_UNIT_PRICE
        /\ s[i].max_qty \in Nat /\ s[i].max_qty <= MAX_QTY
    BY PointsInRange, ScheduleCaps
  <2> QED
    BY <1>1, <2>1, ProductsAreMonotonic DEF LegOf
<1>4. S \in SUBSET Nat /\ S # {} /\ \A y \in S : y <= MAX_UNIT_PRICE * MAX_QTY
  BY <1>2, <1>3
<1>5. Max(S) \in S /\ \A y \in S : Max(S) >= y
  BY <1>2, <1>4, MaxIsGreatest
<1> QED
  BY <1>4, <1>5 DEF WorstCase

\* No price makes a schedule pay more than its worst case: the check made on
\* the worst case at commit and at the close covers every outcome.
THEOREM LegWithinWorstCase ==
  ASSUME NEW s \in Seq(SchedulePoint), ValidSchedule(s), NEW p \in Nat
  PROVE  /\ p * Demand(s, p) \in Nat
         /\ p * Demand(s, p) <= WorstCase(s)
<1>1. WorstCase(s) \in Nat
  BY WorstCaseIsGreatest
<1>2. CASE Demand(s, p) = 0
  BY <1>1, <1>2
<1>3. ASSUME NEW i \in DOMAIN s,
             s[i].unit_price >= p, Demand(s, p) = s[i].max_qty
      PROVE  p * Demand(s, p) \in Nat /\ p * Demand(s, p) <= WorstCase(s)
  <2>1. s[i].unit_price \in Nat /\ s[i].max_qty \in Nat
    BY PointsInRange, ScheduleCaps
  <2>2. p * s[i].max_qty \in Nat /\ p * s[i].max_qty <= LegOf(s[i])
    BY <1>3, <2>1, ProductsAreMonotonic DEF LegOf
  <2>3. LegOf(s[i]) \in Nat
    BY <2>1, ProductsAreMonotonic DEF LegOf
  <2>4. LegOf(s[i]) <= WorstCase(s)
    BY WorstCaseIsGreatest
  <2> QED
    BY <1>1, <1>3, <2>2, <2>3, <2>4
<1> QED
  BY <1>2, <1>3, DemandIsAnEntry

-----------------------------------------------------------------------------
\* A pool that can clear has a clearing price, within the cap of a price.
THEOREM ClearingPriceInRange ==
  ASSUME NEW K, NEW sched,
         \A k \in K : sched[k] \in Seq(SchedulePoint) /\ ValidSchedule(sched[k]),
         NEW qty, NEW value, NEW fee,
         FiringBreakpoints(sched, K, qty, value, fee) # {}
  PROVE  /\ ClearingPrice(sched, K, qty, value, fee) \in 1 .. MAX_UNIT_PRICE
         /\ NetValue(sched, K, ClearingPrice(sched, K, qty, value, fee), fee) >= value
<1> DEFINE B == Breakpoints(sched, K)
           F == FiringBreakpoints(sched, K, qty, value, fee)
           b == Min(F)
           L == {0} \cup {c \in B : c < b}
           prev == Max(L)
           P == PricesUpTo(sched, K, b, value, fee)
<1>1. B \in SUBSET (1 .. MAX_UNIT_PRICE)
  <2> SUFFICES ASSUME NEW k \in K, NEW i \in DOMAIN sched[k]
               PROVE  sched[k][i].unit_price \in 1 .. MAX_UNIT_PRICE
    BY DEF Breakpoints
  <2> QED
    BY PointsInRange
<1>2. MAX_UNIT_PRICE \in Nat
  BY ScheduleCaps
<1>3. F \in SUBSET B /\ F \in SUBSET Nat
  BY <1>1, <1>2 DEF FiringBreakpoints
<1>4. b \in F
  BY <1>3, MinIsLeast
<1>5. b \in 1 .. MAX_UNIT_PRICE /\ NetValue(sched, K, b, fee) >= value
  BY <1>1, <1>3, <1>4 DEF FiringBreakpoints, MeetsThresholds
<1>6. L \in SUBSET Nat /\ L # {} /\ \A y \in L : y <= b
  BY <1>1, <1>2, <1>5
<1>7. prev \in L
  <2> HIDE DEF L, b
  <2>1. b \in Nat
    BY <1>2, <1>5
  <2> QED
    BY <2>1, <1>6, MaxIsGreatest
<1>8. prev \in Nat /\ prev < b
  BY <1>5, <1>6, <1>7
<1>9. P = {p \in prev + 1 .. b : NetValue(sched, K, p, fee) >= value}
  BY DEF PricesUpTo
<1> HIDE DEF prev, P, L, b, F, B
<1>10. P \in SUBSET Nat /\ b \in P /\ P \in SUBSET (1 .. MAX_UNIT_PRICE)
  <2>1. \A p \in prev + 1 .. b : p \in Nat /\ p \in 1 .. MAX_UNIT_PRICE
    BY <1>2, <1>5, <1>8
  <2>2. b \in prev + 1 .. b
    BY <1>5, <1>8
  <2> QED
    BY <1>5, <1>9, <2>1, <2>2
<1>11. Min(P) \in P
  BY <1>10, MinIsLeast
<1>12. ClearingPrice(sched, K, qty, value, fee) = Min(P)
  BY DEF ClearingPrice, P, b, F
<1> QED
  BY <1>9, <1>10, <1>11, <1>12

-----------------------------------------------------------------------------
(* The demand between two breakpoints, and the lowest price. *)

\* Demand changes only at the prices of the schedule.
LEMMA DemandIsFlat ==
  ASSUME NEW s \in Seq(SchedulePoint), NEW p \in Int, NEW b \in Int, p <= b,
         \A i \in DOMAIN s : ~(p <= s[i].unit_price /\ s[i].unit_price < b)
  PROVE  Demand(s, p) = Demand(s, b)
<1>1. \A i \in DOMAIN s : s[i].unit_price \in Int
  <2>1. \A i \in DOMAIN s : s[i] \in SchedulePoint
    OBVIOUS
  <2> QED
    BY <2>1 DEF SchedulePoint
<1>2. Reaching(s, p) = Reaching(s, b)
  BY <1>1 DEF Reaching
<1> QED
  BY <1>2 DEF Demand

\* Above every price of the schedule nothing is bought.
LEMMA DemandEnds ==
  ASSUME NEW s \in Seq(SchedulePoint), NEW p \in Int,
         \A i \in DOMAIN s : s[i].unit_price < p
  PROVE  Demand(s, p) = 0
<1>1. \A i \in DOMAIN s : s[i].unit_price \in Int
  <2>1. \A i \in DOMAIN s : s[i] \in SchedulePoint
    OBVIOUS
  <2> QED
    BY <2>1 DEF SchedulePoint
<1>2. Reaching(s, p) = {}
  BY <1>1 DEF Reaching
<1> QED
  BY <1>2 DEF Demand

\* The fee of a larger leg grows by no more than the leg.
LEMMA FeeGrowsSlowly ==
  ASSUME NEW x \in Nat, NEW y \in Nat, x <= y, NEW fee \in 0 .. BPS_DENOM
  PROVE  /\ FeeOf(x, fee) \in Nat /\ FeeOf(x, fee) <= x
         /\ x - FeeOf(x, fee) <= y - FeeOf(y, fee)
<1> PICK B : B = BPS_DENOM
  OBVIOUS
<1>1. B \in Nat \ {0} /\ fee \in Nat /\ fee <= B
  BY BpsDenomPositive
<1> PICK d : d = y - x
  OBVIOUS
<1>2. d \in Nat /\ y = x + d
  OBVIOUS
<1>3. x * fee \in Nat /\ y * fee \in Nat /\ d * fee \in Nat /\ x * fee <= x * B
      /\ d * fee <= d * B
  BY <1>1, <1>2, ProductsAreMonotonic
<1>4. y * fee = x * fee + d * fee
  BY <1>1, <1>2
<1> PICK q, r : q = (x * fee) \div B /\ r = (y * fee) \div B
  OBVIOUS
<1>5. q \in Nat /\ B * q <= x * fee /\ x * fee < B * q + B
  BY <1>1, <1>3
<1>6. r \in Nat /\ B * r <= y * fee /\ y * fee < B * r + B
  BY <1>1, <1>3
<1>7. q <= x
  <2> SUFFICES ASSUME q >= x + 1
               PROVE  FALSE
    BY <1>5
  <2>1. B * q >= B * (x + 1)
    BY <1>1, <1>5
  <2>2. B * (x + 1) = x * B + B
    BY <1>1
  <2>3. B * q \in Int /\ x * B \in Int
    BY <1>1, <1>5
  <2> QED
    BY <1>1, <1>3, <1>5, <2>1, <2>2, <2>3
<1>8. r <= q + d
  <2> SUFFICES ASSUME r >= q + d + 1
               PROVE  FALSE
    BY <1>2, <1>5, <1>6
  <2>1. B * r >= B * (q + d + 1)
    BY <1>1, <1>2, <1>5, <1>6
  <2>2. B * (q + d + 1) = B * q + d * B + B
    BY <1>1, <1>2, <1>5
  <2>3. B * q \in Int /\ B * r \in Int /\ d * B \in Int
    BY <1>1, <1>2, <1>5, <1>6
  <2> QED
    BY <1>1, <1>3, <1>4, <1>5, <1>6, <2>1, <2>2, <2>3
<1> QED
  BY <1>2, <1>5, <1>6, <1>7, <1>8 DEF FeeOf

-----------------------------------------------------------------------------
\* What the theorems about the clearing function ask of a call.
ClearingCall(sched, K, qty, value, fee) ==
  /\ IsFiniteSet(K)
  /\ \A k \in K : sched[k] \in Seq(SchedulePoint) /\ ValidSchedule(sched[k])
  /\ qty \in Nat /\ value \in Nat
  /\ qty # 0 \/ value # 0
  /\ fee \in 0 .. BPS_DENOM

LEMMA BreakpointTypes ==
  ASSUME NEW K, NEW sched,
         \A k \in K : sched[k] \in Seq(SchedulePoint) /\ ValidSchedule(sched[k])
  PROVE  Breakpoints(sched, K) \in SUBSET (1 .. MAX_UNIT_PRICE)
<1> SUFFICES ASSUME NEW k \in K, NEW i \in DOMAIN sched[k]
             PROVE  sched[k][i].unit_price \in 1 .. MAX_UNIT_PRICE
  BY DEF Breakpoints
<1> QED
  BY PointsInRange

\* Up to the next breakpoint the quantity stands still and the value grows.
LEMMA IntervalIsMonotonic ==
  ASSUME NEW K, NEW sched, IsFiniteSet(K),
         \A k \in K : sched[k] \in Seq(SchedulePoint) /\ ValidSchedule(sched[k]),
         NEW fee \in 0 .. BPS_DENOM,
         NEW p \in Nat, NEW b \in Nat, p <= b,
         \A c \in Breakpoints(sched, K) : ~(p <= c /\ c < b)
  PROVE  /\ TotalQty(sched, K, p) = TotalQty(sched, K, b)
         /\ NetValue(sched, K, p, fee) \in Int
         /\ NetValue(sched, K, b, fee) \in Int
         /\ NetValue(sched, K, p, fee) <= NetValue(sched, K, b, fee)
<1>1. ASSUME NEW k \in K
      PROVE  Demand(sched[k], p) \in Nat /\ Demand(sched[k], p) = Demand(sched[k], b)
  <2> PICK s : s = sched[k]
    OBVIOUS
  <2>1. \A i \in DOMAIN s : s[i].unit_price \in Breakpoints(sched, K)
    BY DEF Breakpoints
  <2>2. s \in Seq(SchedulePoint) /\ p \in Int /\ b \in Int
    OBVIOUS
  <2>3. Demand(s, p) = Demand(s, b)
    BY <2>1, <2>2, DemandIsFlat
  <2> QED
    BY <2>2, <2>3, DemandIsNat
<1> DEFINE f == [k \in K |-> NetLeg(Demand(sched[k], p), p, fee)]
           g == [k \in K |-> NetLeg(Demand(sched[k], b), b, fee)]
<1>2. ASSUME NEW k \in K
      PROVE  f[k] \in Int /\ g[k] \in Int /\ f[k] <= g[k]
  <2> PICK d : d = Demand(sched[k], p)
    OBVIOUS
  <2>1. d \in Nat /\ f[k] = NetLeg(d, p, fee) /\ g[k] = NetLeg(d, b, fee)
    BY <1>1
  <2>2. p * d \in Nat /\ b * d \in Nat /\ p * d <= b * d
    BY <2>1, ProductsAreMonotonic
  <2>3. /\ FeeOf(p * d, fee) \in Nat /\ FeeOf(b * d, fee) \in Nat
        /\ p * d - FeeOf(p * d, fee) <= b * d - FeeOf(b * d, fee)
    BY <2>2, FeeGrowsSlowly
  <2> HIDE DEF f, g
  <2>4. f[k] = p * d - FeeOf(p * d, fee) /\ g[k] = b * d - FeeOf(b * d, fee)
    BY <2>1 DEF NetLeg
  <2> QED
    BY <2>2, <2>3, <2>4
<1>3. Total(f, K) \in Int /\ Total(g, K) \in Int /\ Total(f, K) <= Total(g, K)
  <2> HIDE DEF f, g
  <2>1. K \in SUBSET K
    OBVIOUS
  <2> QED
    BY <1>2, <2>1, TotalIsInt, TotalGrows
<1>4. [k \in K |-> Demand(sched[k], p)] = [k \in K |-> Demand(sched[k], b)]
  BY <1>1
<1> QED
  BY <1>3, <1>4 DEF TotalQty, NetValue

\* Above every breakpoint nothing is bought and nothing is paid.
LEMMA NothingAbove ==
  ASSUME NEW K, NEW sched, IsFiniteSet(K),
         \A k \in K : sched[k] \in Seq(SchedulePoint) /\ ValidSchedule(sched[k]),
         NEW fee \in 0 .. BPS_DENOM,
         NEW p \in Nat, \A c \in Breakpoints(sched, K) : c < p
  PROVE  TotalQty(sched, K, p) = 0 /\ NetValue(sched, K, p, fee) = 0
<1>1. ASSUME NEW k \in K
      PROVE  Demand(sched[k], p) = 0
  <2>1. \A i \in DOMAIN sched[k] : sched[k][i].unit_price \in Breakpoints(sched, K)
    BY DEF Breakpoints
  <2> QED
    BY <2>1, DemandEnds
<1>2. NetLeg(0, p, fee) = 0
  <2>1. p * 0 = 0
    OBVIOUS
  <2>2. FeeOf(0, fee) = 0
    BY FeeGrowsSlowly
  <2> QED
    BY <2>1, <2>2 DEF NetLeg
<1> DEFINE f == [k \in K |-> Demand(sched[k], p)]
           g == [k \in K |-> NetLeg(Demand(sched[k], p), p, fee)]
<1>3. \A k \in K : f[k] = 0 /\ g[k] = 0
  BY <1>1, <1>2
<1>4. Total(f, K) = 0 /\ Total(g, K) = 0
  <2> HIDE DEF f, g
  <2> QED
    BY <1>3, TotalOfZeros
<1> QED
  BY <1>4 DEF TotalQty, NetValue

\* Where a price meets both thresholds, so does the next breakpoint: between
\* them the quantity stands still and the value grows.
LEMMA NextBreakpointSells ==
  ASSUME NEW K, NEW sched, NEW qty, NEW value, NEW fee,
         ClearingCall(sched, K, qty, value, fee),
         NEW p \in Nat, p >= 1, MeetsThresholds(sched, K, p, qty, value, fee)
  PROVE  \E c \in FiringBreakpoints(sched, K, qty, value, fee) :
           p <= c /\ \A d \in Breakpoints(sched, K) : ~(p <= d /\ d < c)
<1> USE DEF ClearingCall
<1> DEFINE B == Breakpoints(sched, K)
           F == FiringBreakpoints(sched, K, qty, value, fee)
           Meets(r) == MeetsThresholds(sched, K, r, qty, value, fee)
           A == {c \in B : p <= c}
<1>1. MAX_UNIT_PRICE \in Nat /\ B \in SUBSET Nat /\ B \in SUBSET (1 .. MAX_UNIT_PRICE)
  BY ScheduleCaps, BreakpointTypes
<1>2. F = {c \in B : Meets(c)}
  BY DEF FiringBreakpoints
<1>3. CASE A = {}
  <2>1. \A c \in B : c < p
    BY <1>1, <1>3
  <2>2. TotalQty(sched, K, p) = 0 /\ NetValue(sched, K, p, fee) = 0
    BY <2>1, NothingAbove
  <2> QED
    BY <2>2 DEF MeetsThresholds
<1>4. CASE A # {}
  <2>1. PICK c \in A : \A d \in A : c <= d
    BY <1>1, <1>4, MinIsLeast
  <2>2. c \in Nat /\ \A d \in B : ~(p <= d /\ d < c)
    BY <1>1, <2>1
  <2>3. /\ TotalQty(sched, K, p) = TotalQty(sched, K, c)
        /\ NetValue(sched, K, p, fee) \in Int
        /\ NetValue(sched, K, c, fee) \in Int
        /\ NetValue(sched, K, p, fee) <= NetValue(sched, K, c, fee)
    BY <2>1, <2>2, IntervalIsMonotonic
  <2>4. Meets(c)
    BY <2>3 DEF MeetsThresholds
  <2> QED
    BY <1>2, <2>1, <2>2, <2>4
<1> QED
  BY <1>3, <1>4

\* The clearing function finds the lowest price at which both thresholds are
\* met, whenever there is one: between two breakpoints the quantity stands
\* still and the value grows, so the first interval whose upper end meets both
\* holds the answer (clearing.rs:8-16).
THEOREM ClearsAtLowestPrice ==
  ASSUME NEW K, NEW sched, NEW qty, NEW value, NEW fee,
         ClearingCall(sched, K, qty, value, fee)
  PROVE  /\ FiringBreakpoints(sched, K, qty, value, fee) # {} <=>
              \E p \in 1 .. MAX_UNIT_PRICE :
                MeetsThresholds(sched, K, p, qty, value, fee)
         /\ FiringBreakpoints(sched, K, qty, value, fee) # {} =>
              LET price == ClearingPrice(sched, K, qty, value, fee)
              IN  /\ price \in 1 .. MAX_UNIT_PRICE
                  /\ MeetsThresholds(sched, K, price, qty, value, fee)
                  /\ \A p \in 1 .. price - 1 :
                       ~MeetsThresholds(sched, K, p, qty, value, fee)
<1> USE DEF ClearingCall
<1> DEFINE B == Breakpoints(sched, K)
           F == FiringBreakpoints(sched, K, qty, value, fee)
           Meets(p) == MeetsThresholds(sched, K, p, qty, value, fee)
<1>1. MAX_UNIT_PRICE \in Nat /\ B \in SUBSET Nat /\ B \in SUBSET (1 .. MAX_UNIT_PRICE)
  BY ScheduleCaps, BreakpointTypes
<1>2. F = {c \in B : Meets(c)}
  BY DEF FiringBreakpoints
<1>3. ASSUME NEW p \in Nat, p >= 1, Meets(p)
      PROVE  \E c \in F : p <= c /\ \A d \in B : ~(p <= d /\ d < c)
  BY <1>3, NextBreakpointSells
<1>4. F # {} <=> \E p \in 1 .. MAX_UNIT_PRICE : Meets(p)
  <2> HIDE DEF F, Meets, B
  <2>1. \A p \in 1 .. MAX_UNIT_PRICE : p \in Nat /\ p >= 1
    BY <1>1
  <2> QED
    BY <1>1, <1>2, <1>3, <2>1
<1>5. ASSUME F # {}
      PROVE  LET price == ClearingPrice(sched, K, qty, value, fee)
             IN  /\ price \in 1 .. MAX_UNIT_PRICE
                 /\ Meets(price)
                 /\ \A p \in 1 .. price - 1 : ~Meets(p)
  <2> DEFINE first == Min(F)
             L == {0} \cup {c \in B : c < first}
             prev == Max(L)
             P == {p \in prev + 1 .. first : NetValue(sched, K, p, fee) >= value}
             price == Min(P)
  <2>1. first \in F /\ \A c \in F : first <= c
    BY <1>1, <1>2, <1>5, MinIsLeast
  <2> HIDE DEF first, F
  <2>2. first \in Nat /\ first \in 1 .. MAX_UNIT_PRICE /\ first \in B /\ Meets(first)
    BY <1>1, <1>2, <2>1
  <2>3. L \in SUBSET Nat /\ L # {} /\ \A c \in L : c <= first
    BY <1>1, <2>2
  <2>4. prev \in L /\ \A c \in L : prev >= c
    <3> HIDE DEF L
    <3> QED
      BY <2>2, <2>3, MaxIsGreatest
  <2>5. prev \in Nat /\ prev < first /\ \A d \in B : d < first => d <= prev
    BY <1>1, <2>2, <2>4
  <2>6. prev # 0 => prev \in B
    BY <2>4
  <2> HIDE DEF prev, L
  <2>7. P \in SUBSET Nat /\ first \in P
    <3>1. NetValue(sched, K, first, fee) >= value
      BY <2>2 DEF MeetsThresholds
    <3>2. first \in prev + 1 .. first
      BY <2>2, <2>5
    <3>3. prev + 1 .. first \in SUBSET Nat
      BY <2>2, <2>5
    <3> QED
      BY <3>1, <3>2, <3>3
  <2>8. price \in P /\ \A p \in P : price <= p
    <3> HIDE DEF P
    <3> QED
      BY <2>7, MinIsLeast
  <2> HIDE DEF price
  <2>9. /\ price \in Nat /\ prev < price /\ price <= first
        /\ NetValue(sched, K, price, fee) >= value
    BY <2>2, <2>5, <2>8
  <2>10. price \in 1 .. MAX_UNIT_PRICE
    BY <1>1, <2>2, <2>5, <2>9
  <2>11. Meets(price)
    <3>1. \A d \in B : ~(price <= d /\ d < first)
      BY <1>1, <2>5, <2>9
    <3>2. TotalQty(sched, K, price) = TotalQty(sched, K, first)
      BY <2>2, <2>9, <3>1, IntervalIsMonotonic
    <3> QED
      BY <2>2, <2>9, <3>2 DEF MeetsThresholds
  <2>12. ASSUME NEW p \in 1 .. price - 1, Meets(p)
         PROVE  FALSE
    <3>1. p \in Nat /\ p >= 1 /\ p < price
      BY <2>9
    <3>2. PICK c \in F : p <= c /\ \A d \in B : ~(p <= d /\ d < c)
      BY <2>12, <3>1, <1>3
    <3>3. first <= c /\ c \in Nat
      BY <1>1, <1>2, <2>1
    <3>4. p > prev
      <4> SUFFICES ASSUME p <= prev
                   PROVE  FALSE
        BY <2>5, <3>1
      <4>1. prev \in B /\ prev < c
        BY <2>2, <2>5, <2>6, <3>1, <3>3
      <4> QED
        BY <3>2, <4>1
    <3>5. p \in P
      <4>1. NetValue(sched, K, p, fee) >= value
        BY <2>12 DEF MeetsThresholds
      <4>2. p \in prev + 1 .. first
        BY <2>2, <2>5, <2>9, <3>1, <3>4
      <4> QED
        BY <4>1, <4>2
    <3> QED
      BY <2>8, <2>9, <3>1, <3>5
  <2>13. price = ClearingPrice(sched, K, qty, value, fee)
    BY DEF ClearingPrice, PricesUpTo, price, P, prev, L, first, F
  <2> QED
    BY <2>10, <2>11, <2>12, <2>13
<1> QED
  BY <1>4, <1>5
=============================================================================
