------------------------- MODULE ClearingScanProofs -------------------------
(***************************************************************************)
(* The loops of clear() compute the clearing function, for every call the  *)
(* registry can make: any number of children, in any order, with any       *)
(* schedules, thresholds and fee.  The invariant says for each loop what   *)
(* it has established of the call so far.                                  *)
(***************************************************************************)
EXTENDS ClearingScan, ClearingProofs, SequenceTheorems

-----------------------------------------------------------------------------
(* The invariant. *)

\* The schedules of the call, the rows that count, and their breakpoints.
Schedules == SchedulesOf(input.views)
Prices == Breakpoints(Schedules, EligibleViews)

\* The kids are the eligible views before position n, each once, by id.
Arranged(n) ==
  /\ kids \in Seq(View)
  /\ \A i, j \in DOMAIN kids : i < j => kids[i].mandate_id < kids[j].mandate_id
  /\ Range(kids) = {input.views[k] : k \in {e \in EligibleViews : e < n}}

AllArranged == Arranged(Len(input.views) + 1)

\* The list holds the prices of set, ascending and each once.
Lists(list, set) ==
  /\ list \in Seq(Nat)
  /\ \A i, j \in DOMAIN list : i < j => list[i] < list[j]
  /\ Range(list) = set

\* The prices of the children before position n, and of the first points of n.
PricesBefore(n, m) ==
  Breakpoints(SchedulesOf(kids), 1 .. n - 1)
    \cup {kids[n].schedule[j].unit_price : j \in 1 .. m - 1}

\* Where the interval that ends in the n-th breakpoint starts.
Start(n) == IF n = 1 THEN 1 ELSE breakpoints[n - 1] + 1

NoneSellsBefore(n) == \A i \in 1 .. n - 1 : ~Feasible(breakpoints[i])

Sorting ==
  /\ phase = "sort"
  /\ next \in 1 .. Len(input.views) + 1
  /\ Arranged(next)
  /\ point = 1 /\ breakpoints = <<>> /\ lo = 1 /\ outcome = NoFire

Collecting ==
  /\ phase = "union"
  /\ AllArranged
  /\ next \in 1 .. Len(kids) + 1
  /\ next \in DOMAIN kids => point \in DOMAIN kids[next].schedule
  /\ next \notin DOMAIN kids => point = 1
  /\ Lists(breakpoints, PricesBefore(next, point))
  /\ lo = 1 /\ outcome = NoFire

Scanning ==
  /\ phase = "scan"
  /\ AllArranged
  /\ Lists(breakpoints, Prices)
  /\ next \in 1 .. Len(breakpoints) + 1
  /\ NoneSellsBefore(next)
  /\ lo = Start(next) /\ outcome = NoFire

\* The bracket lies in the first interval whose end sells.  Its upper end nets
\* the threshold value, and no price of the interval below its lower end does.
Bracketed ==
  /\ AllArranged
  /\ Lists(breakpoints, Prices)
  /\ next \in DOMAIN breakpoints
  /\ Feasible(breakpoints[next])
  /\ NoneSellsBefore(next)
  /\ lo \in Nat /\ hi \in Nat
  /\ Start(next) <= lo /\ lo <= hi /\ hi <= breakpoints[next]
  /\ NetAt(hi) >= input.thresholdValue
  /\ \A p \in Start(next) .. lo - 1 : NetAt(p) < input.thresholdValue

\* The loops ended without a price, or with the one the bracket shrank to.
Unsold ==
  /\ Lists(breakpoints, Prices)
  /\ NoneSellsBefore(Len(breakpoints) + 1)
  /\ outcome = NoFire

Sold == Bracketed /\ lo = hi /\ outcome = OutcomeAt(lo)

IInv ==
  /\ input \in Inputs
  /\ \/ Sorting \/ Collecting \/ Scanning
     \/ phase = "bisect" /\ Bracketed /\ outcome = NoFire
     \/ phase = "done" /\ (Unsold \/ Sold)

-----------------------------------------------------------------------------
(* Insertion into an ordered list. *)

\* The first position of G, or the one after the end.
LEMMA FirstPlace ==
  ASSUME NEW n \in Nat, NEW G \in SUBSET (1 .. n)
  PROVE  LET i == Min(G \cup {n + 1})
         IN  /\ i \in 1 .. n + 1
             /\ i # n + 1 => i \in G
             /\ \A j \in 1 .. i - 1 : j \notin G
<1> DEFINE S == G \cup {n + 1}
<1>1. S \in SUBSET Nat /\ S # {} /\ S \in SUBSET (1 .. n + 1)
  OBVIOUS
<1>2. Min(S) \in S /\ \A y \in S : Min(S) <= y
  <2> HIDE DEF S
  <2> QED
    BY <1>1, MinIsLeast
<1> PICK i : i = Min(S)
  OBVIOUS
<1>3. i \in 1 .. n + 1 /\ (i # n + 1 => i \in G)
  BY <1>1, <1>2
<1>4. ASSUME NEW j \in 1 .. i - 1, j \in G
      PROVE  FALSE
  <2>1. i <= j
    BY <1>2, <1>4
  <2> QED
    BY <1>3, <2>1
<1> QED
  BY <1>3, <1>4

\* Three lists in a row, the middle one of a single element.
LEMMA ThreeInARow ==
  ASSUME NEW S, NEW a \in Seq(S), NEW e \in S, NEW c \in Seq(S)
  PROVE  /\ a \o <<e>> \o c \in Seq(S)
         /\ Len(a \o <<e>> \o c) = Len(a) + 1 + Len(c)
         /\ \A j \in 1 .. Len(a) : (a \o <<e>> \o c)[j] = a[j]
         /\ (a \o <<e>> \o c)[Len(a) + 1] = e
         /\ \A j \in 1 .. Len(c) : (a \o <<e>> \o c)[Len(a) + 1 + j] = c[j]
<1>1. PICK ab : ab = a \o <<e>>
  OBVIOUS
<1>2. PICK n, m : n = Len(a) /\ m = Len(c)
  OBVIOUS
<1>3. n \in Nat /\ m \in Nat
  BY <1>2, LenProperties
<1>4. <<e>> \in Seq(S) /\ Len(<<e>>) = 1 /\ <<e>>[1] = e
  OBVIOUS
<1>5. /\ ab \in Seq(S) /\ Len(ab) = n + 1
      /\ \A j \in 1 .. n + 1 : ab[j] = IF j <= n THEN a[j] ELSE <<e>>[j - n]
  BY <1>1, <1>2, <1>4, ConcatProperties
<1>6. \A j \in 1 .. n : ab[j] = a[j]
  BY <1>3, <1>5
<1>7. ab[n + 1] = e
  <2>1. n + 1 \in 1 .. n + 1 /\ ~(n + 1 <= n) /\ (n + 1) - n = 1
    BY <1>3
  <2>2. ab[n + 1] = <<e>>[(n + 1) - n]
    BY <1>5, <2>1
  <2> QED
    BY <1>4, <2>1, <2>2
<1>8. PICK abc : abc = ab \o c
  OBVIOUS
<1>9. /\ abc \in Seq(S) /\ Len(abc) = Len(ab) + Len(c)
      /\ \A j \in 1 .. Len(ab) + Len(c) :
           abc[j] = IF j <= Len(ab) THEN ab[j] ELSE c[j - Len(ab)]
  BY <1>5, <1>8, ConcatProperties
<1>10. /\ abc \in Seq(S) /\ Len(abc) = n + 1 + m
       /\ \A j \in 1 .. n + 1 + m :
            abc[j] = IF j <= n + 1 THEN ab[j] ELSE c[j - (n + 1)]
  BY <1>2, <1>5, <1>9
<1>11. \A j \in 1 .. n : abc[j] = a[j]
  BY <1>3, <1>6, <1>10
<1>12. abc[n + 1] = e
  BY <1>3, <1>7, <1>10
<1>13. ASSUME NEW j \in 1 .. m
       PROVE  abc[n + 1 + j] = c[j]
  <2>1. /\ n + 1 + j \in 1 .. n + 1 + m /\ ~(n + 1 + j <= n + 1)
        /\ (n + 1 + j) - (n + 1) = j
    BY <1>3
  <2>2. abc[n + 1 + j] = c[(n + 1 + j) - (n + 1)]
    BY <1>10, <2>1
  <2> QED
    BY <2>1, <2>2
<1> QED
  BY <1>1, <1>2, <1>8, <1>10, <1>11, <1>12, <1>13

\* new is the list with e inserted at position i.
IsInsertion(new, list, i, e) ==
  /\ Len(new) = Len(list) + 1
  /\ \A j \in 1 .. Len(list) + 1 :
       new[j] = IF j < i THEN list[j] ELSE IF j = i THEN e ELSE list[j - 1]

LEMMA Inserted ==
  ASSUME NEW S, NEW list \in Seq(S), NEW e \in S, NEW i \in 1 .. Len(list) + 1
  PROVE  /\ InsertAt(list, i, e) \in Seq(S)
         /\ IsInsertion(InsertAt(list, i, e), list, i, e)
<1>1. PICK n : n = Len(list)
  OBVIOUS
<1>2. /\ n \in Nat /\ i \in Nat /\ 1 <= i /\ i <= n + 1
      /\ DOMAIN list = 1 .. n /\ \A j \in 1 .. n : list[j] \in S
  <2>1. n \in Nat /\ DOMAIN list = 1 .. n /\ \A j \in 1 .. n : list[j] \in S
    BY <1>1, LenProperties
  <2>2. i \in 1 .. n + 1
    BY <1>1
  <2> QED
    BY <2>1, <2>2
<1>3. PICK a : a = SubSeq(list, 1, i - 1)
  OBVIOUS
<1>4. PICK c : c = SubSeq(list, i, n)
  OBVIOUS
<1>5. /\ a \in Seq(S) /\ Len(a) = i - 1
      /\ \A j \in 1 .. i - 1 : a[j] = list[j]
  <2>1. i - 1 \in Int /\ 1 \in Int /\ \A j \in 1 .. i - 1 : list[j] \in S
    BY <1>2
  <2>2. /\ a \in Seq(S)
        /\ Len(a) = IF 1 <= i - 1 THEN i - 1 - 1 + 1 ELSE 0
        /\ \A j \in 1 .. i - 1 - 1 + 1 : a[j] = list[1 + j - 1]
    BY <1>3, <2>1, SubSeqProperties
  <2> QED
    BY <1>2, <2>2
<1>6. /\ c \in Seq(S) /\ Len(c) = n - i + 1
      /\ \A j \in 1 .. n - i + 1 : c[j] = list[i + j - 1]
  <2>1. i \in Int /\ n \in Int /\ \A j \in i .. n : list[j] \in S
    BY <1>2
  <2>2. /\ c \in Seq(S)
        /\ Len(c) = IF i <= n THEN n - i + 1 ELSE 0
        /\ \A j \in 1 .. n - i + 1 : c[j] = list[i + j - 1]
    BY <1>4, <2>1, SubSeqProperties
  <2> QED
    BY <1>2, <2>2
<1>7. PICK new : new = a \o <<e>> \o c
  OBVIOUS
<1>8. /\ new \in Seq(S) /\ Len(new) = Len(a) + 1 + Len(c)
      /\ \A j \in 1 .. Len(a) : new[j] = a[j]
      /\ new[Len(a) + 1] = e
      /\ \A j \in 1 .. Len(c) : new[Len(a) + 1 + j] = c[j]
  <2>1. a \in Seq(S) /\ c \in Seq(S)
    BY <1>5, <1>6
  <2>2. /\ a \o <<e>> \o c \in Seq(S)
        /\ Len(a \o <<e>> \o c) = Len(a) + 1 + Len(c)
        /\ \A j \in 1 .. Len(a) : (a \o <<e>> \o c)[j] = a[j]
        /\ (a \o <<e>> \o c)[Len(a) + 1] = e
        /\ \A j \in 1 .. Len(c) : (a \o <<e>> \o c)[Len(a) + 1 + j] = c[j]
    BY <2>1, ThreeInARow
  <2> QED
    BY <1>7, <2>2, Zenon
<1>9. Len(new) = n + 1
  BY <1>2, <1>5, <1>6, <1>8
<1>10. ASSUME NEW j \in 1 .. n + 1
       PROVE  new[j] = IF j < i THEN list[j] ELSE IF j = i THEN e ELSE list[j - 1]
  <2>0. j \in Nat /\ j >= 1 /\ j <= n + 1
    BY <1>2
  <2>1. ASSUME j < i PROVE new[j] = list[j]
    <3>1. j \in 1 .. i - 1 /\ j \in 1 .. Len(a)
      BY <1>2, <1>5, <2>0, <2>1
    <3> QED
      BY <1>5, <1>8, <3>1
  <2>2. ASSUME j = i PROVE new[j] = e
    <3>1. Len(a) + 1 = j
      BY <1>2, <1>5, <2>2
    <3> QED
      BY <1>8, <3>1
  <2>3. ASSUME j > i PROVE new[j] = list[j - 1]
    <3>1. /\ j - i \in 1 .. n - i + 1 /\ i + (j - i) - 1 = j - 1
          /\ Len(a) + 1 + (j - i) = j
      BY <1>2, <1>5, <2>0, <2>3
    <3>2. new[j] = c[j - i]
      BY <1>6, <1>8, <3>1
    <3>3. c[j - i] = list[i + (j - i) - 1]
      BY <1>6, <3>1
    <3> QED
      BY <3>1, <3>2, <3>3
  <2> QED
    BY <1>2, <2>0, <2>1, <2>2, <2>3
<1>11. InsertAt(list, i, e) = new
  BY <1>1, <1>3, <1>4, <1>7 DEF InsertAt
<1> QED
  BY <1>1, <1>8, <1>9, <1>10, <1>11 DEF IsInsertion

\* Its elements are those of the list and the new one.
LEMMA InsertedRange ==
  ASSUME NEW S, NEW list \in Seq(S), NEW e \in S, NEW i \in 1 .. Len(list) + 1,
         NEW new \in Seq(S), IsInsertion(new, list, i, e)
  PROVE  Range(new) = Range(list) \cup {e}
<1> PICK n : n = Len(list)
  OBVIOUS
<1>1. n \in Nat /\ DOMAIN list = 1 .. n
  BY LenProperties
<1>2. /\ new \in Seq(S) /\ Len(new) = n + 1
      /\ \A j \in 1 .. n + 1 :
           new[j] = IF j < i THEN list[j] ELSE IF j = i THEN e ELSE list[j - 1]
  BY DEF IsInsertion
<1>3. DOMAIN new = 1 .. n + 1
  BY <1>2, LenProperties
<1>4. ASSUME NEW j \in 1 .. n + 1
      PROVE  new[j] \in Range(list) \cup {e}
  <2>1. j < i => j \in 1 .. n
    BY <1>1
  <2>2. j > i => j - 1 \in 1 .. n
    BY <1>1
  <2> QED
    BY <1>1, <1>2, <2>1, <2>2 DEF Range
<1>5. ASSUME NEW j \in 1 .. n
      PROVE  list[j] \in Range(new)
  <2>1. CASE j < i
    <3>1. j \in 1 .. n + 1 /\ new[j] = list[j]
      BY <1>1, <1>2, <2>1
    <3> QED
      BY <1>3, <3>1 DEF Range
  <2>2. CASE j >= i
    <3>1. j + 1 \in 1 .. n + 1 /\ new[j + 1] = list[(j + 1) - 1] /\ (j + 1) - 1 = j
      BY <1>1, <1>2, <2>2
    <3> QED
      BY <1>3, <3>1 DEF Range
  <2> QED
    BY <1>1, <2>1, <2>2
<1>6. e \in Range(new)
  <2>1. i \in 1 .. n + 1 /\ new[i] = e
    BY <1>1, <1>2
  <2> QED
    BY <1>3, <2>1 DEF Range
<1> QED
  BY <1>1, <1>3, <1>4, <1>5, <1>6 DEF Range

\* The keys of the list ascend.
Ordered(list, key) ==
  \A j, k \in DOMAIN list : j < k => key[list[j]] < key[list[k]]

\* Where an element goes: before the first greater key.
PlaceOf(e, list, key) ==
  Min({j \in DOMAIN list : key[list[j]] > key[e]} \cup {Len(list) + 1})

NotIn(e, list, key) == \A j \in DOMAIN list : key[list[j]] # key[e]

\* Inserted before the first greater element, in a list without its key, an
\* element keeps the order of the keys.
LEMMA InsertedInOrder ==
  ASSUME NEW S, NEW list \in Seq(S), NEW e \in S, NEW key \in [S -> Int],
         Ordered(list, key), NotIn(e, list, key),
         NEW i, i = PlaceOf(e, list, key)
  PROVE  i \in 1 .. Len(list) + 1 /\ Ordered(InsertAt(list, i, e), key)
<1>1. PICK n : n = Len(list)
  OBVIOUS
<1>2. n \in Nat /\ DOMAIN list = 1 .. n /\ \A j \in 1 .. n : list[j] \in S
  BY <1>1, LenProperties
<1>3. PICK G : G = {j \in DOMAIN list : key[list[j]] > key[e]}
  OBVIOUS
<1>4. /\ i \in 1 .. n + 1 /\ (i # n + 1 => i \in G)
      /\ \A j \in 1 .. i - 1 : j \notin G
  <2>1. G \in SUBSET (1 .. n) /\ i = Min(G \cup {n + 1})
    BY <1>1, <1>2, <1>3 DEF PlaceOf
  <2>2. /\ Min(G \cup {n + 1}) \in 1 .. n + 1
        /\ Min(G \cup {n + 1}) # n + 1 => Min(G \cup {n + 1}) \in G
        /\ \A j \in 1 .. Min(G \cup {n + 1}) - 1 : j \notin G
    BY <1>2, <2>1, FirstPlace
  <2> QED
    BY <2>1, <2>2
<1>5. /\ \A j \in 1 .. n : key[list[j]] \in Int
      /\ key[e] \in Int
  BY <1>2
<1>6. \A j \in 1 .. n : j < i => key[list[j]] < key[e]
  <2> SUFFICES ASSUME NEW j \in 1 .. n, j < i
               PROVE  key[list[j]] < key[e]
    OBVIOUS
  <2>1. j \in 1 .. i - 1
    BY <1>2, <1>4
  <2>2. ~(key[list[j]] > key[e])
    BY <1>2, <1>3, <1>4, <2>1
  <2>3. key[list[j]] # key[e]
    BY <1>2 DEF NotIn
  <2> QED
    BY <1>5, <2>2, <2>3
<1>7. \A j \in 1 .. n : j >= i => key[list[j]] > key[e]
  <2> SUFFICES ASSUME NEW j \in 1 .. n, j >= i
               PROVE  key[list[j]] > key[e]
    OBVIOUS
  <2>1. i \in 1 .. n /\ i \in G
    BY <1>2, <1>4
  <2>2. key[list[i]] > key[e]
    BY <1>3, <2>1
  <2>3. j = i \/ key[list[i]] < key[list[j]]
    BY <1>2, <2>1 DEF Ordered
  <2> QED
    BY <1>5, <2>1, <2>2, <2>3
<1>8. PICK new : new = InsertAt(list, i, e)
  OBVIOUS
<1>9. /\ new \in Seq(S) /\ Len(new) = n + 1
      /\ \A j \in 1 .. n + 1 :
           new[j] = IF j < i THEN list[j] ELSE IF j = i THEN e ELSE list[j - 1]
  <2>1. i \in 1 .. Len(list) + 1
    BY <1>1, <1>4
  <2>2. new \in Seq(S) /\ IsInsertion(new, list, i, e)
    BY <1>8, <2>1, Inserted
  <2> QED
    BY <1>1, <2>2 DEF IsInsertion
<1>10. DOMAIN new = 1 .. n + 1
  BY <1>9, LenProperties
<1>11. ASSUME NEW j \in 1 .. n + 1, NEW k \in 1 .. n + 1, j < k
       PROVE  key[new[j]] < key[new[k]]
  <2>0. /\ i \in Nat /\ j \in Nat /\ k \in Nat /\ 1 <= j /\ k <= n + 1
        /\ (j < i => j \in 1 .. n) /\ (k > i => k - 1 \in 1 .. n)
        /\ (k < i => k \in 1 .. n) /\ (j > i => j - 1 \in 1 .. n)
    BY <1>2, <1>4
  <2>1. CASE k < i
    <3>1. new[j] = list[j] /\ new[k] = list[k] /\ j \in 1 .. n /\ k \in 1 .. n
      BY <1>9, <1>11, <2>0, <2>1
    <3> QED
      BY <1>2, <1>11, <3>1 DEF Ordered
  <2>2. CASE k = i
    <3>1. new[j] = list[j] /\ new[k] = e /\ j \in 1 .. n /\ j < i
      BY <1>9, <1>11, <2>0, <2>2
    <3> QED
      BY <1>6, <3>1
  <2>3. CASE k > i /\ j < i
    <3>1. /\ new[j] = list[j] /\ new[k] = list[k - 1] /\ j \in 1 .. n
          /\ k - 1 \in 1 .. n /\ k - 1 >= i
      BY <1>9, <2>0, <2>3
    <3>2. key[list[j]] < key[e] /\ key[list[k - 1]] > key[e]
      BY <1>6, <1>7, <2>3, <3>1
    <3> QED
      BY <1>5, <3>1, <3>2
  <2>4. CASE k > i /\ j = i
    <3>1. /\ new[j] = e /\ new[k] = list[k - 1]
          /\ k - 1 \in 1 .. n /\ k - 1 >= i
      BY <1>9, <2>0, <2>4
    <3>2. key[list[k - 1]] > key[e]
      BY <1>7, <3>1
    <3> QED
      BY <1>5, <3>1, <3>2
  <2>5. CASE k > i /\ j > i
    <3>1. /\ new[j] = list[j - 1] /\ new[k] = list[k - 1] /\ j - 1 \in 1 .. n
          /\ k - 1 \in 1 .. n /\ j - 1 < k - 1
      <4>1. ~(j < i) /\ j # i /\ ~(k < i) /\ k # i
        BY <2>0, <2>5
      <4>2. new[j] = list[j - 1] /\ new[k] = list[k - 1]
        BY <1>9, <4>1
      <4> QED
        BY <1>11, <2>0, <2>5, <4>2
    <3> QED
      BY <1>2, <3>1 DEF Ordered
  <2> QED
    BY <2>0, <2>1, <2>2, <2>3, <2>4, <2>5
<1> QED
  BY <1>1, <1>4, <1>8, <1>10, <1>11 DEF Ordered

\* A price is added to an ascending list, unless it is there.
LEMMA PriceInserted ==
  ASSUME NEW list, NEW set, Lists(list, set), NEW p \in Nat
  PROVE  Lists(InsertPrice(list, p), set \cup {p})
<1>1. list \in Seq(Nat) /\ DOMAIN list = 1 .. Len(list) /\ Len(list) \in Nat
  BY LenProperties DEF Lists
<1>2. CASE Contains(list, p)
  <2>1. p \in set
    BY <1>1, <1>2 DEF Contains, Lists, Range
  <2>2. InsertPrice(list, p) = list
    BY <1>2 DEF InsertPrice
  <2> QED
    BY <2>1, <2>2 DEF Lists
<1>3. CASE ~Contains(list, p)
  <2>1. PICK key : key = [x \in Nat |-> x]
    OBVIOUS
  <2>2. key \in [Nat -> Int] /\ \A x \in Nat : key[x] = x
    BY <2>1
  <2>3. \A j \in DOMAIN list : list[j] \in Nat
    BY <1>1
  <2>4. \A j \in DOMAIN list : list[j] # p
    BY <1>1, <1>3 DEF Contains
  <2>5. \A j, k \in DOMAIN list : j < k => list[j] < list[k]
    BY DEF Lists
  <2>6. PICK i : i = Min({j \in DOMAIN list : list[j] > p} \cup {Len(list) + 1})
    OBVIOUS
  <2>7. PICK new : new = InsertAt(list, i, p)
    OBVIOUS
  <2>8. i \in 1 .. Len(list) + 1 /\ Ordered(new, key)
    <3>1. Ordered(list, key) /\ NotIn(p, list, key)
      BY <2>2, <2>3, <2>4, <2>5 DEF Ordered, NotIn
    <3>2. {j \in DOMAIN list : list[j] > p}
            = {j \in DOMAIN list : key[list[j]] > key[p]}
      BY <2>2, <2>3
    <3>3. i = PlaceOf(p, list, key)
      BY <2>6, <3>2 DEF PlaceOf
    <3> QED
      BY <1>1, <2>2, <2>7, <3>1, <3>3, InsertedInOrder
  <2>9. new \in Seq(Nat) /\ Range(new) = Range(list) \cup {p}
    <3>1. i \in 1 .. Len(list) + 1 /\ list \in Seq(Nat)
      BY <1>1, <2>8
    <3>2. new \in Seq(Nat) /\ IsInsertion(new, list, i, p)
      BY <2>7, <3>1, Inserted
    <3>3. PICK S : S = Nat
      OBVIOUS
    <3>4. /\ list \in Seq(S) /\ p \in S /\ new \in Seq(S)
      BY <3>1, <3>2, <3>3
    <3>5. Range(new) = Range(list) \cup {p}
      BY <3>1, <3>2, <3>4, InsertedRange
    <3> QED
      BY <3>2, <3>5
  <2>10. \A j \in DOMAIN new : new[j] \in Nat
    BY <2>9
  <2>11. \A j, k \in DOMAIN new : j < k => new[j] < new[k]
    BY <2>2, <2>8, <2>10 DEF Ordered
  <2>12. InsertPrice(list, p) = new
    BY <1>3, <2>6, <2>7 DEF InsertPrice, FirstPosition
  <2>13. Range(list) = set
    BY DEF Lists
  <2> QED
    BY <2>9, <2>11, <2>12, <2>13 DEF Lists
<1> QED
  BY <1>2, <1>3

-----------------------------------------------------------------------------
(* The call and its arranged children. *)

\* What the caller hands over.
LEMMA CallIsTyped ==
  ASSUME input \in Inputs
  PROVE  /\ input.views \in Seq(View) /\ Len(input.views) \in Nat
         /\ DOMAIN input.views = 1 .. Len(input.views)
         /\ \A i \in DOMAIN input.views :
              /\ input.views[i] \in View
              /\ input.views[i].schedule \in Seq(SchedulePoint)
              /\ ValidSchedule(input.views[i].schedule)
              /\ input.views[i].mandate_id \in Nat
         /\ \A i, j \in DOMAIN input.views :
              input.views[i].mandate_id = input.views[j].mandate_id => i = j
<1>1. PICK views : views = input.views
  OBVIOUS
<1>2. /\ views \in Seq(View)
      /\ \A i \in DOMAIN views : ValidSchedule(views[i].schedule)
      /\ \A i, j \in DOMAIN views : views[i].mandate_id = views[j].mandate_id => i = j
  BY <1>1, InputsAreCalls
<1>3. Len(views) \in Nat /\ DOMAIN views = 1 .. Len(views)
  BY <1>2, LenProperties
<1>4. \A i \in DOMAIN views : views[i] \in View
  BY <1>2, <1>3
<1>5. \A v \in View : v.schedule \in Seq(SchedulePoint) /\ v.mandate_id \in Nat
  BY DEF View
<1> QED
  BY <1>1, <1>2, <1>3, <1>4, <1>5

\* It is a call the theorems about the clearing function speak of.
LEMMA CallIsClearing ==
  ASSUME input \in Inputs
  PROVE  /\ ClearingCall(Schedules, EligibleViews, input.thresholdQty,
                         input.thresholdValue, input.feeBps)
         /\ Prices \in SUBSET (1 .. MAX_UNIT_PRICE) /\ Prices \in SUBSET Nat
         /\ input.thresholdValue \in Nat
<1>1. IsFiniteSet(EligibleViews)
  <2>1. IsFiniteSet(1 .. Len(input.views))
    BY CallIsTyped, FS_Interval
  <2>2. EligibleViews \in SUBSET (1 .. Len(input.views))
    BY CallIsTyped DEF EligibleViews
  <2> QED
    BY <2>1, <2>2, FS_Subset
<1>2. ASSUME NEW k \in EligibleViews
      PROVE  Schedules[k] \in Seq(SchedulePoint) /\ ValidSchedule(Schedules[k])
  <2>1. k \in DOMAIN input.views /\ Schedules[k] = input.views[k].schedule
    BY DEF EligibleViews, Schedules, SchedulesOf
  <2> QED
    BY <2>1, CallIsTyped
<1>3. /\ input.thresholdQty \in Nat /\ input.thresholdValue \in Nat
      /\ input.thresholdQty # 0 \/ input.thresholdValue # 0
      /\ input.feeBps \in 0 .. BPS_DENOM
  BY InputsAreCalls
<1>4. Prices \in SUBSET (1 .. MAX_UNIT_PRICE)
  BY <1>2, BreakpointTypes DEF Prices
<1> QED
  BY <1>1, <1>2, <1>3, <1>4 DEF ClearingCall

\* A sorted child is a view of the call.
LEMMA KidIsView ==
  ASSUME input \in Inputs, NEW n, Arranged(n)
  PROVE  /\ Len(kids) \in Nat /\ DOMAIN kids = 1 .. Len(kids)
         /\ \A i \in DOMAIN kids :
              /\ \E k \in EligibleViews : k < n /\ kids[i] = input.views[k]
              /\ kids[i] \in View /\ kids[i].mandate_id \in Nat
              /\ kids[i].schedule \in Seq(SchedulePoint)
              /\ ValidSchedule(kids[i].schedule)
<1>1. Len(kids) \in Nat /\ DOMAIN kids = 1 .. Len(kids)
  BY LenProperties DEF Arranged
<1>2. ASSUME NEW i \in DOMAIN kids
      PROVE  /\ \E k \in EligibleViews : k < n /\ kids[i] = input.views[k]
             /\ kids[i] \in View /\ kids[i].mandate_id \in Nat
             /\ kids[i].schedule \in Seq(SchedulePoint)
             /\ ValidSchedule(kids[i].schedule)
  <2>1. kids[i] \in {input.views[k] : k \in {e \in EligibleViews : e < n}}
    BY DEF Arranged, Range
  <2>2. PICK k \in EligibleViews : k < n /\ kids[i] = input.views[k]
    BY <2>1
  <2>3. k \in DOMAIN input.views
    BY DEF EligibleViews
  <2> QED
    BY <2>2, <2>3, CallIsTyped
<1> QED
  BY <1>1, <1>2

\* Every eligible view is a child.
LEMMA ViewIsKid ==
  ASSUME input \in Inputs, AllArranged, NEW k \in EligibleViews
  PROVE  \E i \in DOMAIN kids : kids[i] = input.views[k]
<1>1. k \in {e \in EligibleViews : e < Len(input.views) + 1}
  BY CallIsTyped DEF EligibleViews
<1>2. input.views[k] \in Range(kids)
  BY <1>1 DEF AllArranged, Arranged
<1> QED
  BY <1>2 DEF Range

\* The place of a child among the views.
IsPlacing(h) ==
  /\ h \in [DOMAIN kids -> EligibleViews]
  /\ \A i \in DOMAIN kids : kids[i] = input.views[h[i]]
  /\ \A i, j \in DOMAIN kids : h[i] = h[j] => i = j
  /\ \A k \in EligibleViews : \E i \in DOMAIN kids : h[i] = k

LEMMA KidsArePlaced ==
  ASSUME input \in Inputs, AllArranged
  PROVE  \E h : IsPlacing(h)
<1>1. PICK h : h = [i \in DOMAIN kids |->
                      CHOOSE k \in EligibleViews : kids[i] = input.views[k]]
  OBVIOUS
<1>2. \A i \in DOMAIN kids : h[i] \in EligibleViews /\ kids[i] = input.views[h[i]]
  <2> SUFFICES ASSUME NEW i \in DOMAIN kids
               PROVE  h[i] \in EligibleViews /\ kids[i] = input.views[h[i]]
    OBVIOUS
  <2>1. \E k \in EligibleViews : kids[i] = input.views[k]
    BY KidIsView DEF AllArranged
  <2> QED
    BY <1>1, <2>1
<1>3. h \in [DOMAIN kids -> EligibleViews]
  BY <1>1, <1>2
<1>4. ASSUME NEW i \in DOMAIN kids, NEW j \in DOMAIN kids, h[i] = h[j]
      PROVE  i = j
  <2>1. kids[i].mandate_id = kids[j].mandate_id
    BY <1>2, <1>4
  <2>2. kids[i].mandate_id \in Nat /\ i \in Nat /\ j \in Nat
    BY KidIsView DEF AllArranged
  <2>3. ~(i < j) /\ ~(j < i)
    BY <2>1, <2>2 DEF AllArranged, Arranged
  <2> QED
    BY <2>2, <2>3
<1>5. ASSUME NEW k \in EligibleViews
      PROVE  \E i \in DOMAIN kids : h[i] = k
  <2>1. PICK i \in DOMAIN kids : kids[i] = input.views[k]
    BY ViewIsKid
  <2>2. h[i] \in EligibleViews /\ input.views[h[i]] = input.views[k]
    BY <1>2, <2>1
  <2>3. h[i] \in DOMAIN input.views /\ k \in DOMAIN input.views
    BY <2>2 DEF EligibleViews
  <2>4. h[i] = k
    BY <2>2, <2>3, CallIsTyped
  <2> QED
    BY <2>4
<1> QED
  BY <1>2, <1>3, <1>4, <1>5 DEF IsPlacing

\* What the loops compute over the children is what the views offer.
LEMMA KidsOffer ==
  ASSUME input \in Inputs, AllArranged
  PROVE  /\ \A p \in Nat : TotalQtyOf(p) = QtyAt(p) /\ NetValueOf(p) = NetAt(p)
         /\ Breakpoints(SchedulesOf(kids), DOMAIN kids) = Prices
<1>1. PICK h : IsPlacing(h)
  BY KidsArePlaced
<1>2. PICK K : K = DOMAIN kids
  OBVIOUS
<1>3. /\ h \in [K -> EligibleViews]
      /\ \A i \in K : kids[i] = input.views[h[i]]
      /\ \A i, j \in K : h[i] = h[j] => i = j
      /\ \A k \in EligibleViews : \E i \in K : h[i] = k
  BY <1>1, <1>2 DEF IsPlacing
<1>4. IsFiniteSet(K)
  <2>1. Len(kids) \in Nat /\ K = 1 .. Len(kids)
    BY <1>2, KidIsView DEF AllArranged
  <2> QED
    BY <2>1, FS_Interval
<1>5. IsFiniteSet(EligibleViews) /\ input.feeBps \in 0 .. BPS_DENOM
  BY CallIsClearing DEF ClearingCall
<1>6. ASSUME NEW i \in K
      PROVE  /\ SchedulesOf(kids)[i] = Schedules[h[i]]
             /\ SchedulesOf(kids)[i] \in Seq(SchedulePoint)
  <2>1. h[i] \in EligibleViews /\ kids[i] = input.views[h[i]]
    BY <1>3
  <2>2. h[i] \in DOMAIN input.views
    BY <2>1 DEF EligibleViews
  <2>3. SchedulesOf(kids)[i] = kids[i].schedule
    BY <1>2 DEF SchedulesOf
  <2>4. Schedules[h[i]] = input.views[h[i]].schedule
    BY <2>2 DEF Schedules, SchedulesOf
  <2>5. kids[i].schedule \in Seq(SchedulePoint)
    BY <1>2, KidIsView DEF AllArranged
  <2> QED
    BY <2>1, <2>3, <2>4, <2>5
<1>7. ASSUME NEW p \in Nat
      PROVE  TotalQtyOf(p) = QtyAt(p) /\ NetValueOf(p) = NetAt(p)
  <2>1. PICK f, g : /\ f = [i \in K |-> Demand(SchedulesOf(kids)[i], p)]
                    /\ g = [k \in EligibleViews |-> Demand(Schedules[k], p)]
    OBVIOUS
  <2>2. \A i \in K : f[i] \in Nat /\ f[i] = g[h[i]]
    BY <1>3, <1>6, <2>1, DemandIsNat
  <2>3. Total(f, K) = Total(g, EligibleViews)
    <3>1. \A i \in K : f[i] \in Int /\ f[i] = g[h[i]]
      BY <2>2
    <3> QED
      BY <1>3, <1>4, <1>5, <3>1, TotalRenamed
  <2>4. TotalQtyOf(p) = Total(f, K) /\ QtyAt(p) = Total(g, EligibleViews)
    BY <1>2, <2>1 DEF TotalQtyOf, QtyAt, TotalQty, Schedules
  <2>5. PICK u, v :
          /\ u = [i \in K |-> NetLeg(Demand(SchedulesOf(kids)[i], p), p, input.feeBps)]
          /\ v = [k \in EligibleViews |->
                    NetLeg(Demand(Schedules[k], p), p, input.feeBps)]
    OBVIOUS
  <2>6. \A i \in K : u[i] = NetLeg(f[i], p, input.feeBps) /\ u[i] = v[h[i]]
    BY <1>3, <1>6, <2>1, <2>5
  <2>7. \A i \in K : u[i] \in Int /\ u[i] = v[h[i]]
    <3> SUFFICES ASSUME NEW i \in K
                 PROVE  u[i] \in Int
      BY <2>6
    <3>1. p * f[i] \in Nat
      BY <2>2, ProductsAreMonotonic
    <3>2. FeeOf(p * f[i], input.feeBps) \in Nat
      BY <1>5, <3>1, FeeGrowsSlowly
    <3> QED
      BY <2>6, <3>1, <3>2 DEF NetLeg
  <2>8. Total(u, K) = Total(v, EligibleViews)
    BY <1>3, <1>4, <1>5, <2>7, TotalRenamed
  <2>9. NetValueOf(p) = Total(u, K) /\ NetAt(p) = Total(v, EligibleViews)
    BY <1>2, <2>5 DEF NetValueOf, NetAt, NetValue, Schedules
  <2> QED
    BY <2>3, <2>4, <2>8, <2>9
<1>8. Breakpoints(SchedulesOf(kids), K) = Prices
  <2>1. ASSUME NEW k \in EligibleViews
        PROVE  \E i \in K : SchedulesOf(kids)[i] = Schedules[k]
    BY <1>3, <1>6
  <2>2. ASSUME NEW i \in K
        PROVE  \E k \in EligibleViews : SchedulesOf(kids)[i] = Schedules[k]
    BY <1>3, <1>6
  <2> QED
    BY <2>1, <2>2 DEF Breakpoints, Prices
<1> QED
  BY <1>2, <1>7, <1>8

\* A price sells over the views when it meets the thresholds.
LEMMA FeasibleMeets ==
  ASSUME NEW p
  PROVE  Feasible(p) <=>
           MeetsThresholds(Schedules, EligibleViews, p, input.thresholdQty,
                           input.thresholdValue, input.feeBps)
BY DEF Feasible, MeetsThresholds, QtyAt, NetAt, Schedules

\* The breakpoints of an ascending list, and where its intervals start.
LEMMA ListedPrices ==
  ASSUME input \in Inputs, Lists(breakpoints, Prices)
  PROVE  /\ Len(breakpoints) \in Nat
         /\ DOMAIN breakpoints = 1 .. Len(breakpoints)
         /\ \A i \in DOMAIN breakpoints :
              /\ breakpoints[i] \in Prices
              /\ breakpoints[i] \in Nat /\ breakpoints[i] \in 1 .. MAX_UNIT_PRICE
         /\ \A i, j \in DOMAIN breakpoints : i < j => breakpoints[i] < breakpoints[j]
         /\ \A b \in Prices : \E i \in DOMAIN breakpoints : breakpoints[i] = b
<1>1. Len(breakpoints) \in Nat /\ DOMAIN breakpoints = 1 .. Len(breakpoints)
  BY LenProperties DEF Lists
<1>2. Range(breakpoints) = Prices
  BY DEF Lists
<1>3. \A i \in DOMAIN breakpoints : breakpoints[i] \in Prices
  BY <1>2 DEF Range
<1>4. \A b \in Prices : \E i \in DOMAIN breakpoints : breakpoints[i] = b
  BY <1>2 DEF Range
<1>5. Prices \in SUBSET (1 .. MAX_UNIT_PRICE) /\ Prices \in SUBSET Nat
  BY CallIsClearing
<1> QED
  BY <1>1, <1>3, <1>4, <1>5 DEF Lists

\* The interval that ends in a breakpoint holds no other.
LEMMA IntervalIsEmpty ==
  ASSUME input \in Inputs, Lists(breakpoints, Prices), NEW n \in DOMAIN breakpoints
  PROVE  /\ Start(n) \in Nat /\ 1 <= Start(n) /\ Start(n) <= breakpoints[n]
         /\ \A b \in Prices : ~(Start(n) <= b /\ b < breakpoints[n])
<1>1. n \in Nat /\ 1 <= n /\ (n # 1 => n - 1 \in DOMAIN breakpoints)
  BY ListedPrices
<1>2. /\ Start(n) \in Nat /\ 1 <= Start(n) /\ Start(n) <= breakpoints[n]
      /\ n # 1 => Start(n) = breakpoints[n - 1] + 1
  <2>1. CASE n = 1
    <3>1. breakpoints[n] \in Nat /\ breakpoints[n] \in 1 .. MAX_UNIT_PRICE
      BY ListedPrices
    <3>2. MAX_UNIT_PRICE \in Nat
      BY ScheduleCaps
    <3> QED
      BY <2>1, <3>1, <3>2 DEF Start
  <2>2. CASE n # 1
    <3>1. breakpoints[n - 1] \in Nat /\ breakpoints[n] \in Nat
      BY <1>1, <2>2, ListedPrices
    <3>2. breakpoints[n - 1] < breakpoints[n]
      BY <1>1, <2>2, ListedPrices
    <3> QED
      BY <2>2, <3>1, <3>2 DEF Start
  <2> QED
    BY <2>1, <2>2
<1>3. ASSUME NEW b \in Prices, Start(n) <= b, b < breakpoints[n]
      PROVE  FALSE
  <2>1. PICK i \in DOMAIN breakpoints : breakpoints[i] = b
    BY ListedPrices
  <2>2. i \in Nat /\ b \in Nat /\ breakpoints[n] \in Nat
    BY <2>1, ListedPrices
  <2>3. ~(n < i) /\ n # i
    BY <1>3, <2>1, <2>2, ListedPrices
  <2>4. i < n /\ n # 1
    BY <1>1, <2>1, <2>2, <2>3, ListedPrices
  <2>5. i = n - 1 \/ i < n - 1
    BY <1>1, <2>2, <2>4
  <2>6. breakpoints[n - 1] \in Nat
    BY <1>1, <2>4, ListedPrices
  <2>7. breakpoints[i] <= breakpoints[n - 1]
    <3>1. CASE i = n - 1
      BY <2>6, <3>1
    <3>2. CASE i < n - 1
      <4>1. breakpoints[i] < breakpoints[n - 1]
        BY <1>1, <2>4, <3>2, ListedPrices
      <4> QED
        BY <2>1, <2>2, <2>6, <4>1
    <3> QED
      BY <2>5, <3>1, <3>2
  <2> QED
    BY <1>2, <1>3, <2>1, <2>2, <2>4, <2>6, <2>7
<1> QED
  BY <1>2, <1>3

-----------------------------------------------------------------------------
(* What the invariant says of the price. *)

\* No price below the bracket sells: it would make an earlier breakpoint sell,
\* or lie in the part of the interval the search has left behind.
LEMMA NothingBelow ==
  ASSUME input \in Inputs, Bracketed
  PROVE  \A p \in 1 .. lo - 1 : ~Feasible(p)
<1> SUFFICES ASSUME NEW p \in 1 .. lo - 1, Feasible(p)
             PROVE  FALSE
  OBVIOUS
<1>1. /\ AllArranged /\ Lists(breakpoints, Prices) /\ next \in DOMAIN breakpoints
      /\ lo \in Nat /\ hi \in Nat /\ Start(next) <= lo
      /\ lo <= hi /\ hi <= breakpoints[next]
      /\ NoneSellsBefore(next)
      /\ \A r \in Start(next) .. lo - 1 : NetAt(r) < input.thresholdValue
  BY DEF Bracketed
<1>2. p \in Nat /\ p >= 1 /\ p <= lo - 1
  BY <1>1
<1>3. PICK c \in FiringBreakpoints(Schedules, EligibleViews, input.thresholdQty,
                                   input.thresholdValue, input.feeBps) :
             p <= c /\ \A d \in Prices : ~(p <= d /\ d < c)
  <2>1. MeetsThresholds(Schedules, EligibleViews, p, input.thresholdQty,
                        input.thresholdValue, input.feeBps)
    BY FeasibleMeets
  <2> QED
    BY <1>2, <2>1, CallIsClearing, NextBreakpointSells DEF Prices
<1>4. c \in Prices /\ Feasible(c)
  BY FeasibleMeets DEF FiringBreakpoints, Prices
<1>5. PICK i \in DOMAIN breakpoints : breakpoints[i] = c
  BY <1>1, <1>4, ListedPrices
<1>6. /\ i \in Nat /\ 1 <= i /\ next \in Nat /\ 1 <= next /\ c \in Nat
      /\ breakpoints[next] \in Nat /\ Start(next) \in Nat
  BY <1>1, <1>4, <1>5, ListedPrices, IntervalIsEmpty
<1>7. ~(i < next)
  <2>1. i < next => i \in 1 .. next - 1
    BY <1>6
  <2> QED
    BY <1>1, <1>4, <1>5, <2>1 DEF NoneSellsBefore
<1>8. p >= Start(next)
  <2> SUFFICES ASSUME p < Start(next)
               PROVE  FALSE
    BY <1>2, <1>6
  <2>1. next # 1
    BY <1>2 DEF Start
  <2>2. /\ next - 1 \in DOMAIN breakpoints /\ next - 1 < i
        /\ Start(next) = breakpoints[next - 1] + 1
    BY <1>1, <1>6, <1>7, <2>1, ListedPrices DEF Start
  <2>3. /\ breakpoints[next - 1] \in Prices /\ breakpoints[next - 1] \in Nat
        /\ breakpoints[next - 1] < c
    BY <1>1, <1>5, <2>2, ListedPrices
  <2>4. p <= breakpoints[next - 1]
    BY <1>2, <1>6, <2>2, <2>3
  <2> QED
    BY <1>3, <2>3, <2>4
<1>9. NetAt(p) < input.thresholdValue
  BY <1>1, <1>2, <1>6, <1>8
<1>10. NetAt(p) >= input.thresholdValue
  BY DEF Feasible
<1>11. NetAt(p) \in Int /\ input.thresholdValue \in Nat
  <2>1. \A d \in Prices : ~(p <= d /\ d < p)
    BY <1>2, CallIsClearing
  <2>2. p <= p
    BY <1>2
  <2>3. NetValue(Schedules, EligibleViews, p, input.feeBps) \in Int
    BY <1>2, <2>1, <2>2, CallIsClearing, IntervalIsMonotonic DEF ClearingCall, Prices
  <2> QED
    BY <2>3, CallIsClearing DEF NetAt, Schedules
<1> QED
  BY <1>9, <1>10, <1>11

\* Within the interval the value grows, and the quantity is that of its end.
LEMMA WithinInterval ==
  ASSUME input \in Inputs, Lists(breakpoints, Prices), NEW n \in DOMAIN breakpoints,
         NEW p \in Nat, NEW r \in Nat, Start(n) <= p, p <= r, r <= breakpoints[n]
  PROVE  /\ NetAt(p) \in Int /\ NetAt(r) \in Int /\ NetAt(p) <= NetAt(r)
         /\ QtyAt(p) = QtyAt(r)
<1>1. \A b \in Prices : ~(p <= b /\ b < r)
  <2> SUFFICES ASSUME NEW b \in Prices, p <= b, b < r
               PROVE  FALSE
    OBVIOUS
  <2>1. b \in Nat /\ breakpoints[n] \in Nat /\ Start(n) \in Nat
    BY CallIsClearing, ListedPrices, IntervalIsEmpty
  <2>2. Start(n) <= b /\ b < breakpoints[n]
    BY <2>1
  <2> QED
    BY <2>2, IntervalIsEmpty
<1>2. /\ NetValue(Schedules, EligibleViews, p, input.feeBps) \in Int
      /\ NetValue(Schedules, EligibleViews, r, input.feeBps) \in Int
      /\ NetValue(Schedules, EligibleViews, p, input.feeBps)
           <= NetValue(Schedules, EligibleViews, r, input.feeBps)
      /\ TotalQty(Schedules, EligibleViews, p) = TotalQty(Schedules, EligibleViews, r)
  BY <1>1, CallIsClearing, IntervalIsMonotonic DEF ClearingCall, Prices
<1> QED
  BY <1>2 DEF NetAt, QtyAt, Schedules

\* A price found is the lowest that sells.
LEMMA SoldAtLowest ==
  ASSUME input \in Inputs, Sold
  PROVE  /\ outcome.fires /\ outcome.clearing_price = lo
         /\ lo \in 1 .. MAX_UNIT_PRICE /\ Feasible(lo)
         /\ \A p \in 1 .. lo - 1 : ~Feasible(p)
<1>1. /\ Bracketed /\ lo = hi /\ outcome = OutcomeAt(lo)
      /\ Lists(breakpoints, Prices) /\ next \in DOMAIN breakpoints
      /\ lo \in Nat /\ hi \in Nat /\ Start(next) <= lo
      /\ lo <= hi /\ hi <= breakpoints[next]
      /\ Feasible(breakpoints[next]) /\ NetAt(hi) >= input.thresholdValue
  BY DEF Sold, Bracketed
<1>2. outcome.fires /\ outcome.clearing_price = lo
  BY <1>1 DEF OutcomeAt
<1>3. /\ Start(next) \in Nat /\ 1 <= Start(next) /\ MAX_UNIT_PRICE \in Nat
      /\ breakpoints[next] \in Nat /\ breakpoints[next] \in 1 .. MAX_UNIT_PRICE
  BY <1>1, ListedPrices, IntervalIsEmpty, ScheduleCaps
<1>4. lo \in 1 .. MAX_UNIT_PRICE
  BY <1>1, <1>3
<1>5. QtyAt(lo) = QtyAt(breakpoints[next])
  BY <1>1, <1>3, WithinInterval
<1>6. Feasible(lo)
  BY <1>1, <1>5 DEF Feasible
<1> QED
  BY <1>1, <1>2, <1>4, <1>6, NothingBelow

\* Where no breakpoint sells, no price does.
LEMMA UnsoldIsInfeasible ==
  ASSUME input \in Inputs, Unsold
  PROVE  ~outcome.fires /\ \A p \in Nat : p >= 1 => ~Feasible(p)
<1>1. ~outcome.fires
  BY DEF Unsold, NoFire
<1> SUFFICES ASSUME NEW p \in Nat, p >= 1, Feasible(p)
             PROVE  FALSE
  BY <1>1
<1>2. PICK c \in FiringBreakpoints(Schedules, EligibleViews, input.thresholdQty,
                                   input.thresholdValue, input.feeBps) : TRUE
  <2>1. MeetsThresholds(Schedules, EligibleViews, p, input.thresholdQty,
                        input.thresholdValue, input.feeBps)
    BY FeasibleMeets
  <2> QED
    BY <2>1, CallIsClearing, NextBreakpointSells
<1>3. c \in Prices /\ Feasible(c)
  BY FeasibleMeets DEF FiringBreakpoints, Prices
<1>4. Lists(breakpoints, Prices) /\ NoneSellsBefore(Len(breakpoints) + 1)
  BY DEF Unsold
<1>5. PICK i \in DOMAIN breakpoints : breakpoints[i] = c
  BY <1>3, <1>4, ListedPrices
<1>6. i \in 1 .. Len(breakpoints) + 1 - 1
  BY <1>4, <1>5, ListedPrices
<1> QED
  BY <1>3, <1>4, <1>5, <1>6 DEF NoneSellsBefore

-----------------------------------------------------------------------------
(* The invariant is inductive. *)

LEMMA InitHolds ==
  ASSUME Init
  PROVE  IInv
<1>1. /\ input \in Inputs /\ phase = "sort" /\ next = 1 /\ point = 1
      /\ kids = <<>> /\ breakpoints = <<>> /\ lo = 1 /\ outcome = NoFire
  BY DEF Init
<1>2. 1 \in 1 .. Len(input.views) + 1
  BY <1>1, CallIsTyped
<1>3. Arranged(1)
  <2>1. <<>> \in Seq(View) /\ DOMAIN <<>> = {} /\ Range(<<>>) = {}
    BY DEF Range
  <2>2. {e \in EligibleViews : e < 1} = {}
    BY <1>1, CallIsTyped DEF EligibleViews
  <2> QED
    BY <1>1, <2>1, <2>2 DEF Arranged
<1>4. Sorting
  BY <1>1, <1>2, <1>3 DEF Sorting
<1> QED
  BY <1>1, <1>4 DEF IInv

\* An eligible view takes its place among the children.
LEMMA KidInserted ==
  ASSUME input \in Inputs, next \in DOMAIN input.views, Arranged(next),
         input.views[next].eligible,
         NEW new, new = InsertById(kids, input.views[next])
  PROVE  /\ new \in Seq(View)
         /\ \A i, j \in DOMAIN new : i < j => new[i].mandate_id < new[j].mandate_id
         /\ Range(new) = Range(kids) \cup {input.views[next]}
<1>1. PICK v : v = input.views[next]
  OBVIOUS
<1>2. v \in View /\ kids \in Seq(View)
  BY <1>1, CallIsTyped DEF Arranged
<1>3. PICK key : key = [x \in View |-> x.mandate_id]
  OBVIOUS
<1>4. key \in [View -> Int] /\ \A x \in View : key[x] = x.mandate_id
  <2>1. \A x \in View : x.mandate_id \in Int
    BY DEF View
  <2> QED
    BY <1>3, <2>1
<1>5. \A j \in DOMAIN kids : kids[j] \in View
  BY KidIsView
<1>6. Ordered(kids, key)
  BY <1>4, <1>5 DEF Ordered, Arranged
<1>7. NotIn(v, kids, key)
  <2> SUFFICES ASSUME NEW j \in DOMAIN kids
               PROVE  key[kids[j]] # key[v]
    BY DEF NotIn
  <2>1. PICK k \in EligibleViews : k < next /\ kids[j] = input.views[k]
    BY KidIsView
  <2>2. k \in DOMAIN input.views /\ k \in Nat /\ next \in Nat
    BY CallIsTyped DEF EligibleViews
  <2>3. input.views[k].mandate_id # input.views[next].mandate_id
    BY <2>1, <2>2, CallIsTyped
  <2> QED
    BY <1>1, <1>2, <1>4, <1>5, <2>1, <2>3
<1>8. PICK i : i = PlaceOf(v, kids, key)
  OBVIOUS
<1>9. new = InsertAt(kids, i, v)
  <2>1. {j \in DOMAIN kids : kids[j].mandate_id > v.mandate_id}
          = {j \in DOMAIN kids : key[kids[j]] > key[v]}
    BY <1>2, <1>4, <1>5
  <2> QED
    BY <1>1, <1>8, <2>1 DEF InsertById, FirstPosition, PlaceOf
<1>10. i \in 1 .. Len(kids) + 1 /\ Ordered(new, key)
  BY <1>2, <1>4, <1>6, <1>7, <1>8, <1>9, InsertedInOrder
<1>11. new \in Seq(View) /\ Range(new) = Range(kids) \cup {v}
  <2>1. new \in Seq(View) /\ IsInsertion(new, kids, i, v)
    BY <1>2, <1>9, <1>10, Inserted
  <2> QED
    BY <1>2, <1>10, <2>1, InsertedRange
<1>12. \A j \in DOMAIN new : new[j] \in View
  BY <1>11
<1> QED
  BY <1>1, <1>4, <1>10, <1>11, <1>12 DEF Ordered

LEMMA SortViewKeeps ==
  ASSUME IInv, SortView
  PROVE  IInv'
<1>1. /\ phase = "sort" /\ next \in DOMAIN input.views /\ next' = next + 1
      /\ kids' = IF input.views[next].eligible
                 THEN InsertById(kids, input.views[next]) ELSE kids
      /\ UNCHANGED <<input, phase, point, breakpoints, lo, hi, outcome>>
  BY DEF SortView
<1>2. input \in Inputs /\ Sorting
  BY <1>1 DEF IInv, Collecting, Scanning
<1>3. Arranged(next)
  BY <1>2 DEF Sorting
<1>4. /\ next \in Nat /\ Len(input.views) \in Nat
      /\ next + 1 \in 1 .. Len(input.views) + 1
      /\ \A e \in EligibleViews : e \in Nat
  BY <1>1, <1>2, CallIsTyped DEF EligibleViews
<1>5. EligibleViews' = EligibleViews
  BY <1>1 DEF EligibleViews
<1>6. PICK n : n = next + 1
  OBVIOUS
<1>7. Arranged(n)'
  <2>1. CASE input.views[next].eligible
    <3>1. next \in EligibleViews
      BY <1>1, <2>1 DEF EligibleViews
    <3>2. {e \in EligibleViews : e < next + 1}
            = {e \in EligibleViews : e < next} \cup {next}
      <4>1. \A e \in EligibleViews : e < next + 1 <=> e < next \/ e = next
        BY <1>4
      <4> QED
        BY <1>4, <3>1, <4>1
    <3>3. {input.views[k] : k \in {e \in EligibleViews : e < next + 1}}
            = {input.views[k] : k \in {e \in EligibleViews : e < next}}
                \cup {input.views[next]}
      BY <3>2
    <3>4. kids' = InsertById(kids, input.views[next])
      BY <1>1, <2>1
    <3>5. /\ kids' \in Seq(View)
          /\ \A i, j \in DOMAIN kids' :
               i < j => kids'[i].mandate_id < kids'[j].mandate_id
          /\ Range(kids') = Range(kids) \cup {input.views[next]}
      BY <1>1, <1>2, <1>3, <2>1, <3>4, KidInserted
    <3>6. Range(kids') = {input.views[k] : k \in {e \in EligibleViews : e < next + 1}}
      BY <1>3, <3>3, <3>5 DEF Arranged
    <3> QED
      BY <1>1, <1>5, <1>6, <3>5, <3>6 DEF Arranged
  <2>2. CASE ~input.views[next].eligible
    <3>1. next \notin EligibleViews
      BY <2>2 DEF EligibleViews
    <3>2. {e \in EligibleViews : e < next + 1} = {e \in EligibleViews : e < next}
      <4>1. \A e \in EligibleViews : e # next
        BY <3>1
      <4>2. \A e \in EligibleViews : e < next + 1 <=> e < next
        BY <1>4, <4>1
      <4> QED
        BY <4>2
    <3>3. kids' = kids
      BY <1>1, <2>2
    <3> QED
      BY <1>1, <1>3, <1>5, <1>6, <3>2, <3>3 DEF Arranged
  <2> QED
    BY <2>1, <2>2
<1>8. NoFire' = NoFire
  BY DEF NoFire
<1>9. Sorting'
  <2>1. /\ phase' = "sort" /\ next' \in 1 .. Len(input'.views) + 1
        /\ point' = 1 /\ breakpoints' = <<>> /\ lo' = 1 /\ outcome' = NoFire
    BY <1>1, <1>2, <1>4 DEF Sorting
  <2>2. Arranged(next)'
    BY <1>1, <1>7, <1>6 DEF Arranged
  <2> QED
    BY <1>8, <2>1, <2>2 DEF Sorting
<1> QED
  BY <1>1, <1>2, <1>9 DEF IInv

\* An empty list lists no price.
LEMMA NothingListed == Lists(<<>>, {})
<1>1. <<>> \in Seq(Nat) /\ DOMAIN <<>> = {}
  OBVIOUS
<1> QED
  BY <1>1 DEF Lists, Range

LEMMA SortedKeeps ==
  ASSUME IInv, Sorted
  PROVE  IInv'
<1>1. /\ phase = "sort" /\ next \notin DOMAIN input.views /\ next' = 1
      /\ phase' = IF kids = <<>> THEN "done" ELSE "union"
      /\ UNCHANGED <<input, point, kids, breakpoints, lo, hi, outcome>>
  BY DEF Sorted
<1>2. input \in Inputs /\ Sorting
  BY <1>1 DEF IInv, Collecting, Scanning
<1>3. /\ Arranged(next) /\ next \in 1 .. Len(input.views) + 1
      /\ point = 1 /\ breakpoints = <<>> /\ lo = 1 /\ outcome = NoFire
  BY <1>2 DEF Sorting
<1>4. next = Len(input.views) + 1
  BY <1>1, <1>2, <1>3, CallIsTyped
<1>5. AllArranged /\ AllArranged'
  BY <1>1, <1>3, <1>4 DEF AllArranged, Arranged, EligibleViews
<1>6. Len(kids) \in Nat /\ DOMAIN kids = 1 .. Len(kids)
  BY <1>2, <1>5, KidIsView DEF AllArranged
<1>7. CASE kids = <<>>
  <2>1. DOMAIN kids = {}
    BY <1>7
  <2>2. Prices = {}
    BY <1>2, <1>5, <2>1, KidsOffer DEF Breakpoints
  <2>3. Prices' = {}
    BY <1>1, <2>2 DEF Prices, Schedules, SchedulesOf, EligibleViews
  <2>4. Lists(breakpoints, Prices)'
    BY <1>1, <1>3, <2>3, NothingListed
  <2>5. NoneSellsBefore(Len(breakpoints) + 1)'
    BY <1>1, <1>3 DEF NoneSellsBefore
  <2>6. Unsold'
    BY <1>1, <1>3, <2>4, <2>5 DEF Unsold, NoFire
  <2> QED
    BY <1>1, <1>2, <1>7, <2>6 DEF IInv
<1>8. CASE kids # <<>>
  <2>1. 1 \in DOMAIN kids
    BY <1>2, <1>3, <1>6, <1>8, EmptySeq DEF Arranged
  <2>2. 1 \in DOMAIN kids[1].schedule
    <3>1. kids[1].schedule \in Seq(SchedulePoint) /\ ValidSchedule(kids[1].schedule)
      BY <1>2, <1>3, <2>1, KidIsView
    <3> QED
      BY <3>1 DEF ValidSchedule
  <2>3. PricesBefore(1, 1) = {}
    BY DEF PricesBefore, Breakpoints
  <2>4. Lists(breakpoints, PricesBefore(1, 1))
    BY <1>3, <2>3, NothingListed
  <2>5. Lists(breakpoints, PricesBefore(next, point))'
    BY <1>1, <1>3, <2>4 DEF PricesBefore, SchedulesOf
  <2>6. 1 \in 1 .. Len(kids) + 1
    BY <1>6
  <2>7. Collecting'
    BY <1>1, <1>3, <1>5, <1>8, <2>1, <2>2, <2>5, <2>6 DEF Collecting, NoFire
  <2> QED
    BY <1>1, <1>2, <2>7 DEF IInv
<1> QED
  BY <1>7, <1>8

LEMMA CollectPointKeeps ==
  ASSUME IInv, CollectPoint
  PROVE  IInv'
<1>1. PICK s, p : s = kids[next].schedule /\ p = s[point].unit_price
  OBVIOUS
<1>2. /\ phase = "union" /\ next \in DOMAIN kids
      /\ breakpoints' = InsertPrice(breakpoints, p)
      /\ IF point < Len(s) THEN point' = point + 1 /\ UNCHANGED next
                           ELSE point' = 1 /\ next' = next + 1
      /\ UNCHANGED <<input, phase, kids, lo, hi, outcome>>
  BY <1>1 DEF CollectPoint
<1>3. input \in Inputs /\ Collecting
  BY <1>2 DEF IInv, Sorting, Scanning
<1>4. /\ AllArranged /\ point \in DOMAIN s
      /\ Lists(breakpoints, PricesBefore(next, point))
      /\ lo = 1 /\ outcome = NoFire
  BY <1>1, <1>2, <1>3 DEF Collecting
<1>5. AllArranged'
  BY <1>2, <1>4 DEF AllArranged, Arranged, EligibleViews
<1>6. /\ Len(kids) \in Nat /\ DOMAIN kids = 1 .. Len(kids) /\ next \in Nat
      /\ 1 <= next /\ next <= Len(kids)
  BY <1>2, <1>3, <1>4, KidIsView DEF AllArranged
<1>7. /\ s \in Seq(SchedulePoint) /\ ValidSchedule(s) /\ Len(s) \in Nat
      /\ DOMAIN s = 1 .. Len(s) /\ point \in Nat /\ 1 <= point /\ point <= Len(s)
  <2>1. s \in Seq(SchedulePoint) /\ ValidSchedule(s)
    BY <1>1, <1>2, <1>3, <1>4, KidIsView DEF AllArranged
  <2>2. Len(s) \in Nat /\ DOMAIN s = 1 .. Len(s)
    BY <2>1, LenProperties
  <2> QED
    BY <1>4, <2>1, <2>2
<1>8. p \in Nat
  <2>1. p \in 1 .. MAX_UNIT_PRICE
    BY <1>1, <1>4, <1>7, PointsInRange
  <2> QED
    BY <2>1, ScheduleCaps
<1>9. Lists(breakpoints', PricesBefore(next, point) \cup {p})
  BY <1>2, <1>4, <1>8, PriceInserted
<1>10. PICK before : before = Breakpoints(SchedulesOf(kids), 1 .. next - 1)
  OBVIOUS
<1>11. PricesBefore(next, point) \cup {p}
         = before \cup {s[j].unit_price : j \in 1 .. point}
  <2>1. {s[j].unit_price : j \in 1 .. point}
          = {s[j].unit_price : j \in 1 .. point - 1} \cup {p}
    <3>1. \A j \in Int : j \in 1 .. point <=> j \in 1 .. point - 1 \/ j = point
      BY <1>7
    <3>2. 1 .. point = 1 .. point - 1 \cup {point}
      BY <1>7, <3>1
    <3> QED
      BY <1>1, <3>2
  <2> QED
    BY <1>1, <1>10, <2>1 DEF PricesBefore
<1>12. SchedulesOf(kids)' = SchedulesOf(kids)
  BY <1>2 DEF SchedulesOf
<1>13. NoFire' = NoFire
  BY DEF NoFire
<1>14. CASE point < Len(s)
  <2>1. point' = point + 1 /\ next' = next
    BY <1>2, <1>14
  <2>2. point + 1 \in DOMAIN s /\ (point + 1) - 1 = point
    BY <1>7, <1>14
  <2>3. PricesBefore(next, point)' = before \cup {s[j].unit_price : j \in 1 .. point}
    BY <1>1, <1>2, <1>10, <1>12, <2>1, <2>2 DEF PricesBefore
  <2>4. Lists(breakpoints, PricesBefore(next, point))'
    BY <1>9, <1>11, <2>3
  <2>5. /\ phase' = "union" /\ next' \in 1 .. Len(kids') + 1 /\ next' \in DOMAIN kids'
        /\ point' \in DOMAIN kids'[next'].schedule
        /\ lo' = 1 /\ outcome' = NoFire
    BY <1>1, <1>2, <1>4, <1>6, <2>1, <2>2
  <2>6. Collecting'
    BY <1>5, <1>13, <2>4, <2>5 DEF Collecting
  <2> QED
    BY <1>2, <1>3, <2>6 DEF IInv
<1>15. CASE ~(point < Len(s))
  <2>1. point' = 1 /\ next' = next + 1 /\ point = Len(s)
    <3>1. point = Len(s)
      <4>1. \A i, j \in Nat : i <= j /\ ~(i < j) => i = j
        OBVIOUS
      <4> QED
        BY <1>7, <1>15, <4>1
    <3>2. point' = 1 /\ next' = next + 1
      BY <1>2, <1>15, Zenon
    <3> QED
      BY <3>1, <3>2
  <2>2. {s[j].unit_price : j \in 1 .. point} = {s[j].unit_price : j \in DOMAIN s}
    BY <1>7, <2>1
  <2>3. Breakpoints(SchedulesOf(kids), 1 .. next)
          = before \cup {s[j].unit_price : j \in DOMAIN s}
    <3>1. 1 .. next = 1 .. next - 1 \cup {next}
      BY <1>6
    <3>2. SchedulesOf(kids)[next] = s
      BY <1>1, <1>2 DEF SchedulesOf
    <3> QED
      BY <1>10, <3>1, <3>2 DEF Breakpoints
  <2>4. PricesBefore(next, point)' = Breakpoints(SchedulesOf(kids), 1 .. next)
    <3>1. (next + 1) - 1 = next /\ 1 .. 1 - 1 = {}
      BY <1>6
    <3> QED
      BY <1>12, <2>1, <3>1 DEF PricesBefore
  <2>5. Lists(breakpoints, PricesBefore(next, point))'
    BY <1>9, <1>11, <2>2, <2>3, <2>4
  <2>6. next + 1 \in 1 .. Len(kids) + 1
    BY <1>6
  <2>7. next' \in DOMAIN kids' => point' \in DOMAIN kids'[next'].schedule
    <3> SUFFICES ASSUME next + 1 \in DOMAIN kids
                 PROVE  1 \in DOMAIN kids[next + 1].schedule
      BY <1>2, <2>1
    <3>1. /\ kids[next + 1].schedule \in Seq(SchedulePoint)
          /\ ValidSchedule(kids[next + 1].schedule)
      BY <1>3, <1>4, KidIsView DEF AllArranged
    <3> QED
      BY <3>1 DEF ValidSchedule
  <2>8. Collecting'
    BY <1>2, <1>4, <1>5, <1>13, <2>1, <2>5, <2>6, <2>7 DEF Collecting
  <2> QED
    BY <1>2, <1>3, <2>8 DEF IInv
<1> QED
  BY <1>14, <1>15

\* A step that leaves the call, the children and the breakpoints alone keeps
\* what was said of them.
LEMMA StandsStill ==
  ASSUME UNCHANGED <<input, kids, breakpoints>>
  PROVE  /\ AllArranged => AllArranged'
         /\ Lists(breakpoints, Prices) => Lists(breakpoints, Prices)'
         /\ \A p : Feasible(p)' <=> Feasible(p)
         /\ \A p : NetAt(p)' = NetAt(p)
         /\ \A n : Start(n)' = Start(n)
         /\ \A n : NoneSellsBefore(n) => NoneSellsBefore(n)'
         /\ NoFire' = NoFire
<1>1. input' = input /\ kids' = kids /\ breakpoints' = breakpoints
  OBVIOUS
<1>2. EligibleViews' = EligibleViews
  BY <1>1 DEF EligibleViews
<1>3. AllArranged => AllArranged'
  BY <1>1, <1>2 DEF AllArranged, Arranged
<1>4. Prices' = Prices
  BY <1>1, <1>2 DEF Prices, Schedules, SchedulesOf
<1>5. Lists(breakpoints, Prices) => Lists(breakpoints, Prices)'
  BY <1>1, <1>4 DEF Lists
<1>6. SchedulesOf(input.views)' = SchedulesOf(input.views)
  BY <1>1 DEF SchedulesOf
<1>7. ASSUME NEW p
      PROVE  (Feasible(p)' <=> Feasible(p)) /\ NetAt(p)' = NetAt(p)
  BY <1>1, <1>2, <1>6 DEF Feasible, QtyAt, NetAt
<1>8. ASSUME NEW n
      PROVE  Start(n)' = Start(n)
  BY <1>1 DEF Start
<1>9. ASSUME NEW n, NoneSellsBefore(n)
      PROVE  NoneSellsBefore(n)'
  <2> SUFFICES ASSUME NEW i \in 1 .. n - 1
               PROVE  ~Feasible(breakpoints[i])'
    BY <1>1 DEF NoneSellsBefore
  <2>1. ~Feasible(breakpoints[i])
    BY <1>9 DEF NoneSellsBefore
  <2> QED
    BY <1>1, <1>2, <1>6, <2>1 DEF Feasible, QtyAt, NetAt
<1>10. NoFire' = NoFire
  BY DEF NoFire
<1> QED
  BY <1>3, <1>5, <1>7, <1>8, <1>9, <1>10

LEMMA CollectedKeeps ==
  ASSUME IInv, Collected
  PROVE  IInv'
<1>1. /\ phase = "union" /\ next \notin DOMAIN kids /\ phase' = "scan" /\ next' = 1
      /\ UNCHANGED <<input, point, kids, breakpoints, lo, hi, outcome>>
  BY DEF Collected
<1>2. input \in Inputs /\ Collecting
  BY <1>1 DEF IInv, Sorting, Scanning
<1>3. /\ AllArranged /\ next \in 1 .. Len(kids) + 1 /\ point = 1
      /\ Lists(breakpoints, PricesBefore(next, point))
      /\ lo = 1 /\ outcome = NoFire
  BY <1>1, <1>2 DEF Collecting
<1>4. /\ Len(kids) \in Nat /\ DOMAIN kids = 1 .. Len(kids)
      /\ next = Len(kids) + 1 /\ 1 .. next - 1 = DOMAIN kids
  <2>1. Len(kids) \in Nat /\ DOMAIN kids = 1 .. Len(kids)
    BY <1>2, <1>3, KidIsView DEF AllArranged
  <2>2. next = Len(kids) + 1
    BY <1>1, <1>3, <2>1
  <2> QED
    BY <2>1, <2>2
<1>5. PricesBefore(next, point) = Prices
  <2>1. 1 .. 1 - 1 = {}
    OBVIOUS
  <2>2. PricesBefore(next, point) = Breakpoints(SchedulesOf(kids), DOMAIN kids)
    BY <1>3, <1>4, <2>1 DEF PricesBefore
  <2> QED
    BY <1>2, <1>3, <2>2, KidsOffer
<1>6. AllArranged' /\ Lists(breakpoints, Prices)' /\ NoFire' = NoFire
  BY <1>1, <1>3, <1>5, StandsStill
<1>7. 1 \in 1 .. Len(breakpoints) + 1
  BY <1>2, <1>3, <1>5, ListedPrices
<1>8. NoneSellsBefore(next)'
  BY <1>1 DEF NoneSellsBefore
<1>9. lo' = Start(next)'
  BY <1>1, <1>3 DEF Start
<1>10. Scanning'
  <2>1. phase' = "scan" /\ next' \in 1 .. Len(breakpoints') + 1 /\ outcome' = NoFire'
    BY <1>1, <1>3, <1>6, <1>7
  <2> QED
    BY <1>6, <1>8, <1>9, <2>1 DEF Scanning
<1> QED
  BY <1>1, <1>2, <1>10 DEF IInv

LEMMA ScanIntervalKeeps ==
  ASSUME IInv, ScanInterval
  PROVE  IInv'
<1>1. PICK b : b = breakpoints[next]
  OBVIOUS
<1>2. /\ phase = "scan" /\ next \in DOMAIN breakpoints
      /\ IF IntervalClears(b)
         THEN /\ phase' = "bisect" /\ hi' = b /\ lo' = lo /\ next' = next
         ELSE /\ lo' = b + 1 /\ next' = next + 1 /\ phase' = phase /\ hi' = hi
      /\ UNCHANGED <<input, point, kids, breakpoints, outcome>>
  BY <1>1 DEF ScanInterval
<1>3. input \in Inputs /\ Scanning
  BY <1>2 DEF IInv, Sorting, Collecting
<1>4. /\ AllArranged /\ Lists(breakpoints, Prices) /\ NoneSellsBefore(next)
      /\ lo = Start(next) /\ outcome = NoFire
  BY <1>3 DEF Scanning
<1>5. /\ Len(breakpoints) \in Nat /\ DOMAIN breakpoints = 1 .. Len(breakpoints)
      /\ next \in Nat /\ 1 <= next /\ next <= Len(breakpoints) /\ b \in Nat
      /\ lo \in Nat /\ 1 <= lo /\ lo <= b
  BY <1>1, <1>2, <1>3, <1>4, ListedPrices, IntervalIsEmpty
<1>6. IntervalClears(b) <=> Feasible(b)
  <2>1. TotalQtyOf(b) = QtyAt(b) /\ NetValueOf(b) = NetAt(b)
    BY <1>3, <1>4, <1>5, KidsOffer
  <2> QED
    BY <2>1 DEF IntervalClears, Feasible
<1>7. /\ AllArranged' /\ Lists(breakpoints, Prices)' /\ NoFire' = NoFire
      /\ \A p : Feasible(p)' <=> Feasible(p)
      /\ \A p : NetAt(p)' = NetAt(p)
      /\ \A n : Start(n)' = Start(n)
      /\ NoneSellsBefore(next) => \A n : n = next => NoneSellsBefore(n)'
  BY <1>2, <1>4, StandsStill
<1>8. PICK n : n = next
  OBVIOUS
<1>9. CASE IntervalClears(b)
  <2>1. phase' = "bisect" /\ hi' = b /\ lo' = lo /\ next' = n
    BY <1>2, <1>8, <1>9
  <2>2. Feasible(b) /\ Feasible(b)' /\ breakpoints'[next'] = b
    BY <1>1, <1>2, <1>6, <1>7, <1>8, <1>9, <2>1
  <2>3. Feasible(breakpoints[next])'
    BY <2>2 DEF Feasible, QtyAt, NetAt
  <2>4. Start(n)' = lo /\ Start(next)' = lo
    <3>1. Start(n)' = lo
      BY <1>4, <1>7, <1>8
    <3> QED
      BY <2>1, <3>1 DEF Start
  <2>5. NoneSellsBefore(next)'
    <3>1. NoneSellsBefore(n)'
      BY <1>4, <1>7, <1>8
    <3> QED
      BY <2>1, <3>1 DEF NoneSellsBefore
  <2>6. (NetAt(hi) >= input.thresholdValue)'
    <3>1. NetAt(b)' >= input'.thresholdValue
      BY <2>2 DEF Feasible
    <3> QED
      BY <2>1, <3>1 DEF NetAt
  <2>7. \A p \in Start(next)' .. lo' - 1 : FALSE
    BY <1>5, <2>1, <2>4
  <2>8. /\ next' \in DOMAIN breakpoints' /\ lo' \in Nat /\ hi' \in Nat
        /\ Start(next)' <= lo' /\ lo' <= hi' /\ hi' <= breakpoints'[next']
    BY <1>2, <1>5, <1>8, <2>1, <2>2, <2>4
  <2>9. Bracketed'
    BY <1>7, <2>3, <2>5, <2>6, <2>7, <2>8 DEF Bracketed
  <2> QED
    BY <1>2, <1>3, <1>4, <1>7, <2>1, <2>9 DEF IInv
<1>10. CASE ~IntervalClears(b)
  <2>1. lo' = b + 1 /\ next' = n + 1 /\ phase' = phase
    BY <1>2, <1>8, <1>10
  <2>2. ~Feasible(b)
    BY <1>6, <1>10
  <2>3. NoneSellsBefore(n + 1)
    <3> SUFFICES ASSUME NEW i \in 1 .. (n + 1) - 1
                 PROVE  ~Feasible(breakpoints[i])
      BY DEF NoneSellsBefore
    <3>1. i \in 1 .. n - 1 \/ i = n
      BY <1>5, <1>8
    <3> QED
      BY <1>1, <1>4, <1>8, <2>2, <3>1 DEF NoneSellsBefore
  <2>4. NoneSellsBefore(next)'
    <3>1. PICK m : m = n + 1
      OBVIOUS
    <3>2. NoneSellsBefore(m)'
      BY <1>2, <2>3, <3>1, StandsStill
    <3> QED
      BY <2>1, <3>1, <3>2 DEF NoneSellsBefore
  <2>5. Start(next)' = b + 1
    <3>1. n + 1 # 1 /\ (n + 1) - 1 = n
      BY <1>5, <1>8
    <3> QED
      BY <1>1, <1>2, <1>8, <2>1, <3>1 DEF Start
  <2>6. next' \in 1 .. Len(breakpoints') + 1
    BY <1>2, <1>5, <1>8, <2>1
  <2>7. Scanning'
    BY <1>2, <1>4, <1>7, <2>1, <2>4, <2>5, <2>6 DEF Scanning
  <2> QED
    BY <1>2, <1>3, <2>7 DEF IInv
<1> QED
  BY <1>9, <1>10

LEMMA ScannedKeeps ==
  ASSUME IInv, Scanned
  PROVE  IInv'
<1>1. /\ phase = "scan" /\ next \notin DOMAIN breakpoints /\ phase' = "done"
      /\ UNCHANGED <<input, next, point, kids, breakpoints, lo, hi, outcome>>
  BY DEF Scanned
<1>2. input \in Inputs /\ Scanning
  BY <1>1 DEF IInv, Sorting, Collecting
<1>3. /\ Lists(breakpoints, Prices) /\ NoneSellsBefore(next)
      /\ next \in 1 .. Len(breakpoints) + 1 /\ outcome = NoFire
  BY <1>2 DEF Scanning
<1>4. next = Len(breakpoints) + 1
  BY <1>1, <1>2, <1>3, ListedPrices
<1>5. PICK n : n = next
  OBVIOUS
<1>6. /\ Lists(breakpoints, Prices)' /\ NoFire' = NoFire
      /\ NoneSellsBefore(n)'
  BY <1>1, <1>3, <1>5, StandsStill
<1>7. NoneSellsBefore(Len(breakpoints) + 1)'
  <2>1. Len(breakpoints') + 1 = n
    BY <1>1, <1>4, <1>5
  <2> QED
    BY <1>6, <2>1 DEF NoneSellsBefore
<1>8. Unsold'
  BY <1>1, <1>3, <1>6, <1>7 DEF Unsold
<1> QED
  BY <1>1, <1>2, <1>8 DEF IInv

\* The parts of the bracket.
LEMMA BracketIs ==
  ASSUME input \in Inputs, Bracketed
  PROVE  /\ AllArranged /\ Lists(breakpoints, Prices) /\ next \in DOMAIN breakpoints
         /\ NoneSellsBefore(next) /\ Feasible(breakpoints[next])
         /\ lo \in Nat /\ hi \in Nat /\ Start(next) \in Nat /\ 1 <= Start(next)
         /\ breakpoints[next] \in Nat /\ input.thresholdValue \in Nat
         /\ Start(next) <= lo /\ lo <= hi /\ hi <= breakpoints[next]
         /\ NetAt(hi) >= input.thresholdValue
         /\ \A p \in Start(next) .. lo - 1 : NetAt(p) < input.thresholdValue
<1>1. Lists(breakpoints, Prices) /\ next \in DOMAIN breakpoints
  BY DEF Bracketed
<1>2. /\ Start(next) \in Nat /\ 1 <= Start(next) /\ breakpoints[next] \in Nat
      /\ input.thresholdValue \in Nat
  BY <1>1, ListedPrices, IntervalIsEmpty, CallIsClearing
<1> QED
  BY <1>2 DEF Bracketed

\* A narrower bracket is one, if its upper end nets the value and the prices
\* it leaves below do not.
LEMMA BracketNarrows ==
  ASSUME input \in Inputs, Bracketed, UNCHANGED <<input, next, kids, breakpoints>>,
         NEW l \in Nat, NEW h \in Nat, lo' = l, hi' = h,
         lo <= l, l <= h, h <= hi, NetAt(h) >= input.thresholdValue,
         \A p \in lo .. l - 1 : NetAt(p) < input.thresholdValue
  PROVE  Bracketed'
<1>1. /\ AllArranged /\ Lists(breakpoints, Prices) /\ next \in DOMAIN breakpoints
      /\ NoneSellsBefore(next) /\ Feasible(breakpoints[next])
      /\ lo \in Nat /\ hi \in Nat /\ Start(next) \in Nat
      /\ breakpoints[next] \in Nat
      /\ Start(next) <= lo /\ lo <= hi /\ hi <= breakpoints[next]
      /\ \A p \in Start(next) .. lo - 1 : NetAt(p) < input.thresholdValue
  BY BracketIs
<1>2. PICK n, b : n = next /\ b = breakpoints[next]
  OBVIOUS
<1>3. /\ AllArranged' /\ Lists(breakpoints, Prices)'
      /\ Feasible(b)' /\ NetAt(h)' = NetAt(h) /\ Start(n)' = Start(n)
      /\ NoneSellsBefore(n)' /\ \A p : NetAt(p)' = NetAt(p)
  BY <1>1, <1>2, StandsStill
<1>4. next' = n /\ breakpoints'[next'] = b
  BY <1>2
<1>5. /\ next' \in DOMAIN breakpoints' /\ NoneSellsBefore(next)'
      /\ Feasible(breakpoints[next])' /\ Start(next)' = Start(next)
  <2>1. next' \in DOMAIN breakpoints'
    BY <1>1
  <2>2. NoneSellsBefore(next)'
    BY <1>3, <1>4 DEF NoneSellsBefore
  <2>3. Feasible(breakpoints[next])'
    BY <1>3, <1>4 DEF Feasible, QtyAt, NetAt
  <2>4. Start(next)' = Start(next)
    BY DEF Start
  <2> QED
    BY <2>1, <2>2, <2>3, <2>4
<1>6. (NetAt(hi) >= input.thresholdValue)'
  <2>1. NetAt(h)' >= input.thresholdValue
    BY <1>3
  <2> QED
    BY <2>1 DEF NetAt
<1>7. ASSUME NEW p \in Start(next) .. l - 1
      PROVE  NetAt(p)' < input'.thresholdValue
  <2>1. p \in Start(next) .. lo - 1 \/ p \in lo .. l - 1
    BY <1>1
  <2> QED
    BY <1>1, <1>3, <2>1
<1>8. /\ lo' \in Nat /\ hi' \in Nat
      /\ Start(next)' <= lo' /\ lo' <= hi' /\ hi' <= breakpoints'[next']
  <2>1. Start(next) <= l /\ h <= b
    BY <1>1, <1>2
  <2> QED
    BY <1>4, <1>5, <2>1
<1>9. \A p \in Start(next)' .. lo' - 1 : NetAt(p)' < input'.thresholdValue
  BY <1>5, <1>7
<1> QED
  BY <1>3, <1>5, <1>6, <1>8, <1>9 DEF Bracketed

\* The probe lies in the bracket, below its upper end.
LEMMA MidIsInside ==
  ASSUME NEW l \in Nat, NEW h \in Nat, l < h
  PROVE  /\ l + (h - l) \div 2 \in Nat
         /\ l <= l + (h - l) \div 2 /\ l + (h - l) \div 2 < h
OBVIOUS

LEMMA BisectKeeps ==
  ASSUME IInv, Bisect
  PROVE  IInv'
<1>1. PICK mid : mid = lo + (hi - lo) \div 2
  OBVIOUS
<1>2. /\ phase = "bisect" /\ lo < hi
      /\ IF NetValueOf(mid) >= input.thresholdValue
         THEN hi' = mid /\ lo' = lo
         ELSE lo' = mid + 1 /\ hi' = hi
      /\ UNCHANGED <<input, phase, next, point, kids, breakpoints, outcome>>
  BY <1>1 DEF Bisect, MidPlusOne
<1>3. input \in Inputs /\ Bracketed /\ outcome = NoFire
  BY <1>2 DEF IInv, Sorting, Collecting, Scanning
<1>4. /\ AllArranged /\ Lists(breakpoints, Prices) /\ next \in DOMAIN breakpoints
      /\ lo \in Nat /\ hi \in Nat /\ Start(next) \in Nat /\ breakpoints[next] \in Nat
      /\ Start(next) <= lo /\ hi <= breakpoints[next]
      /\ input.thresholdValue \in Nat /\ NetAt(hi) >= input.thresholdValue
  BY <1>3, BracketIs
<1>5. mid \in Nat /\ lo <= mid /\ mid < hi
  BY <1>1, <1>2, <1>4, MidIsInside
<1>6. NetValueOf(mid) = NetAt(mid)
  BY <1>3, <1>4, <1>5, KidsOffer
<1>7. CASE NetValueOf(mid) >= input.thresholdValue
  <2>1. hi' = mid /\ lo' = lo
    BY <1>2, <1>7
  <2>2. \A p \in lo .. lo - 1 : NetAt(p) < input.thresholdValue
    BY <1>4
  <2>3. lo <= lo /\ mid <= hi /\ NetAt(mid) >= input.thresholdValue
    BY <1>4, <1>5, <1>6, <1>7
  <2> QED
    BY <1>2, <1>3, <1>4, <1>5, <2>1, <2>2, <2>3, BracketNarrows DEF IInv, NoFire
<1>8. CASE ~(NetValueOf(mid) >= input.thresholdValue)
  <2>1. lo' = mid + 1 /\ hi' = hi
    BY <1>2, <1>8
  <2>2. ASSUME NEW p \in lo .. (mid + 1) - 1
        PROVE  NetAt(p) < input.thresholdValue
    <3>1. p \in Nat /\ lo <= p /\ p <= mid
      BY <1>4, <1>5
    <3>2. Start(next) <= p /\ mid <= breakpoints[next]
      BY <1>4, <1>5, <3>1
    <3>3. NetAt(p) \in Int /\ NetAt(mid) \in Int /\ NetAt(p) <= NetAt(mid)
      BY <1>3, <1>4, <1>5, <3>1, <3>2, WithinInterval
    <3> QED
      BY <1>4, <1>6, <1>8, <3>3
  <2>3. mid + 1 \in Nat /\ lo <= mid + 1 /\ mid + 1 <= hi /\ hi <= hi
    BY <1>4, <1>5
  <2>4. Bracketed'
    BY <1>2, <1>3, <1>4, <2>1, <2>2, <2>3, BracketNarrows
  <2> QED
    BY <1>2, <1>3, <2>4 DEF IInv, NoFire
<1> QED
  BY <1>7, <1>8

LEMMA BisectedKeeps ==
  ASSUME IInv, Bisected
  PROVE  IInv'
<1>1. PICK l : l = lo
  OBVIOUS
<1>2. /\ phase = "bisect" /\ lo >= hi /\ phase' = "done" /\ outcome' = OutcomeAt(l)
      /\ UNCHANGED <<input, next, point, kids, breakpoints, lo, hi>>
  BY <1>1 DEF Bisected
<1>3. input \in Inputs /\ Bracketed
  BY <1>2 DEF IInv, Sorting, Collecting, Scanning
<1>4. /\ lo \in Nat /\ hi \in Nat /\ lo <= hi /\ NetAt(hi) >= input.thresholdValue
  BY <1>3, BracketIs
<1>5. lo = hi
  BY <1>2, <1>4
<1>6. Bracketed'
  <2>1. \A p \in lo .. l - 1 : NetAt(p) < input.thresholdValue
    BY <1>1, <1>4
  <2>2. l \in Nat /\ lo' = l /\ hi' = l /\ lo <= l /\ l <= l /\ l <= hi
        /\ NetAt(l) >= input.thresholdValue
    BY <1>1, <1>2, <1>4, <1>5
  <2> QED
    BY <1>2, <1>3, <2>1, <2>2, BracketNarrows
<1>7. outcome' = OutcomeAt(lo)'
  BY <1>1, <1>2 DEF OutcomeAt, Allocated, AllocationOf, TotalQtyOf, NetValueOf,
                    SchedulesOf
<1>8. Sold'
  BY <1>2, <1>5, <1>6, <1>7 DEF Sold
<1> QED
  BY <1>2, <1>3, <1>8 DEF IInv

\* A step of the loops, or none.
LEMMA StutterKeeps ==
  ASSUME IInv, UNCHANGED vars
  PROVE  IInv'
<1>1. /\ input' = input /\ phase' = phase /\ next' = next /\ point' = point
      /\ kids' = kids /\ breakpoints' = breakpoints /\ lo' = lo /\ hi' = hi
      /\ outcome' = outcome
  BY DEF vars
<1>2. /\ EligibleViews' = EligibleViews /\ NoFire' = NoFire /\ Prices' = Prices
      /\ SchedulesOf(kids)' = SchedulesOf(kids)
      /\ SchedulesOf(input.views)' = SchedulesOf(input.views)
  BY <1>1 DEF EligibleViews, NoFire, Prices, Schedules, SchedulesOf
<1>3. Sorting => Sorting'
  BY <1>1, <1>2 DEF Sorting, Arranged
<1>4. AllArranged => AllArranged'
  BY <1>1, <1>2 DEF AllArranged, Arranged
<1>5. Collecting => Collecting'
  BY <1>1, <1>2, <1>4 DEF Collecting, Lists, PricesBefore
<1>6. /\ NoneSellsBefore(next) => NoneSellsBefore(next)'
      /\ NoneSellsBefore(Len(breakpoints) + 1) => NoneSellsBefore(Len(breakpoints) + 1)'
  BY <1>1, <1>2 DEF NoneSellsBefore, Feasible, QtyAt, NetAt
<1>7. Lists(breakpoints, Prices) => Lists(breakpoints, Prices)'
  BY <1>1, <1>2 DEF Lists
<1>8. Start(next)' = Start(next)
  BY <1>1 DEF Start
<1>9. Scanning => Scanning'
  BY <1>1, <1>2, <1>4, <1>6, <1>7, <1>8 DEF Scanning
<1>10. Unsold => Unsold'
  BY <1>1, <1>2, <1>6, <1>7 DEF Unsold
<1>11. ASSUME input \in Inputs, Bracketed
       PROVE  Bracketed'
  <2>1. PICK l, h : l = lo /\ h = hi
    OBVIOUS
  <2>2. /\ l \in Nat /\ h \in Nat /\ lo <= l /\ l <= h /\ h <= hi
        /\ NetAt(h) >= input.thresholdValue
    BY <1>11, <2>1, BracketIs
  <2>3. \A p \in lo .. l - 1 : NetAt(p) < input.thresholdValue
    BY <2>1, <2>2
  <2> QED
    BY <1>1, <1>11, <2>1, <2>2, <2>3, BracketNarrows
<1>12. ASSUME input \in Inputs, Sold
       PROVE  Sold'
  <2>1. OutcomeAt(lo)' = OutcomeAt(lo)
    BY <1>1, <1>2 DEF OutcomeAt, Allocated, AllocationOf, TotalQtyOf, NetValueOf
  <2> QED
    BY <1>1, <1>11, <1>12, <2>1 DEF Sold
<1> QED
  BY <1>1, <1>2, <1>3, <1>5, <1>9, <1>10, <1>11, <1>12 DEF IInv

\* What each loop has established, in every state of every call.
THEOREM LoopsHold == Spec => []IInv
<1>1. Init => IInv
  BY InitHolds
<1>2. IInv /\ [Next]_vars => IInv'
  BY SortViewKeeps, SortedKeeps, CollectPointKeeps, CollectedKeeps,
     ScanIntervalKeeps, ScannedKeeps, BisectKeeps, BisectedKeeps, StutterKeeps
     DEF Next
<1> QED
  BY <1>1, <1>2, PTL DEF Spec

-----------------------------------------------------------------------------
(* The properties. *)

\* While the search runs, its bracket holds the lowest price that sells: the
\* binary search of clearing.rs:91-100 discards no candidate.
THEOREM BracketIsSound == Spec => []BracketHoldsAnswer
<1>1. IInv => BracketHoldsAnswer
  <2> SUFFICES ASSUME IInv, phase = "bisect"
               PROVE  /\ lo <= hi
                      /\ NetAt(hi) >= input.thresholdValue
                      /\ \A p \in 1 .. lo - 1 : ~Feasible(p)
    BY DEF BracketHoldsAnswer
  <2>1. input \in Inputs /\ Bracketed
    BY DEF IInv, Sorting, Collecting, Scanning
  <2> QED
    BY <2>1, BracketIs, NothingBelow
<1> QED
  BY <1>1, LoopsHold, PTL

\* At the end either no price sells, or the price found is the lowest.
LEMMA DoneIsDecided ==
  ASSUME IInv, phase = "done"
  PROVE  /\ input \in Inputs
         /\ \/ ~outcome.fires /\ \A p \in Nat : p >= 1 => ~Feasible(p)
            \/ /\ outcome.fires /\ outcome.clearing_price = lo
               /\ lo \in 1 .. MAX_UNIT_PRICE /\ Feasible(lo)
               /\ \A p \in 1 .. lo - 1 : ~Feasible(p)
<1>1. input \in Inputs /\ (Unsold \/ Sold)
  BY DEF IInv, Sorting, Collecting, Scanning
<1>2. CASE Unsold
  BY <1>1, <1>2, UnsoldIsInfeasible
<1>3. CASE Sold
  BY <1>1, <1>3, SoldAtLowest
<1> QED
  BY <1>1, <1>2, <1>3

\* clear() fires exactly when some price meets both thresholds, at the lowest
\* such price: "scanning intervals in ascending order makes the found price
\* globally minimal" (clearing.rs:8-16), for every call.
THEOREM LowestPriceIsFound == Spec => []FindsLowestPrice
<1>1. IInv => FindsLowestPrice
  <2> DEFINE feasible == {p \in 1 .. MAX_UNIT_PRICE : Feasible(p)}
  <2> SUFFICES ASSUME IInv, phase = "done"
               PROVE  /\ outcome.fires <=> feasible # {}
                      /\ outcome.fires => outcome.clearing_price = Min(feasible)
    BY DEF FindsLowestPrice
  <2>1. MAX_UNIT_PRICE \in Nat /\ feasible \in SUBSET Nat
    BY ScheduleCaps
  <2>2. CASE ~outcome.fires /\ \A p \in Nat : p >= 1 => ~Feasible(p)
    <3>1. feasible = {}
      BY <2>1, <2>2
    <3> QED
      BY <2>2, <3>1
  <2>3. CASE /\ outcome.fires /\ outcome.clearing_price = lo
             /\ lo \in 1 .. MAX_UNIT_PRICE /\ Feasible(lo)
             /\ \A p \in 1 .. lo - 1 : ~Feasible(p)
    <3>1. lo \in feasible
      BY <2>3
    <3>2. Min(feasible) \in feasible /\ \A y \in feasible : Min(feasible) <= y
      <4>1. feasible # {}
        BY <3>1
      <4> HIDE DEF feasible
      <4> QED
        BY <2>1, <4>1, MinIsLeast
    <3>3. PICK m : m = Min(feasible)
      OBVIOUS
    <3>4. m \in 1 .. MAX_UNIT_PRICE /\ Feasible(m) /\ m <= lo
      BY <3>1, <3>2, <3>3
    <3>5. lo \in Nat /\ m \in Nat /\ m >= 1
      BY <2>1, <2>3, <3>4
    <3>6. ~(m < lo)
      <4>1. m < lo => m \in 1 .. lo - 1
        BY <3>5
      <4> QED
        BY <2>3, <3>4, <4>1
    <3>7. m = lo
      BY <3>4, <3>5, <3>6
    <3>8. outcome.clearing_price = Min(feasible)
      BY <2>3, <3>3, <3>7
    <3>9. outcome.fires /\ feasible # {}
      BY <2>3, <3>1
    <3> QED
      BY <3>8, <3>9
  <2> HIDE DEF feasible
  <2> QED
    BY <2>2, <2>3, DoneIsDecided
<1> QED
  BY <1>1, LoopsHold, PTL

\* The loops compute the closed form, so what is checked and proved of the
\* registry with Clearing holds of the code's loops: clear_pool and
\* simulate_clear call this one function.
THEOREM LoopsComputeClearing == Spec => []AgreesWithClearing
<1>1. IInv => AgreesWithClearing
  <2> DEFINE firing == FiringBreakpoints(Schedules, EligibleViews, input.thresholdQty,
                                         input.thresholdValue, input.feeBps)
             price == ClearingPrice(Schedules, EligibleViews, input.thresholdQty,
                                    input.thresholdValue, input.feeBps)
  <2> SUFFICES ASSUME IInv, phase = "done"
               PROVE  /\ outcome.fires <=> firing # {}
                      /\ outcome.fires => outcome.clearing_price = price
    BY DEF AgreesWithClearing, Schedules
  <2>1. input \in Inputs /\ MAX_UNIT_PRICE \in Nat
    BY DoneIsDecided, ScheduleCaps
  <2>2. /\ firing # {} <=> \E p \in 1 .. MAX_UNIT_PRICE : Feasible(p)
        /\ firing # {} => /\ price \in 1 .. MAX_UNIT_PRICE
                          /\ Feasible(price)
                          /\ \A p \in 1 .. price - 1 : ~Feasible(p)
    <3>1. ClearingCall(Schedules, EligibleViews, input.thresholdQty,
                       input.thresholdValue, input.feeBps)
      BY <2>1, CallIsClearing
    <3> QED
      BY <3>1, ClearsAtLowestPrice, FeasibleMeets
  <2> HIDE DEF firing, price
  <2>3. CASE ~outcome.fires /\ \A p \in Nat : p >= 1 => ~Feasible(p)
    <3>1. \A p \in 1 .. MAX_UNIT_PRICE : p \in Nat /\ p >= 1
      BY <2>1
    <3> QED
      BY <2>2, <2>3, <3>1
  <2>4. CASE /\ outcome.fires /\ outcome.clearing_price = lo
             /\ lo \in 1 .. MAX_UNIT_PRICE /\ Feasible(lo)
             /\ \A p \in 1 .. lo - 1 : ~Feasible(p)
    <3>1. /\ price \in 1 .. MAX_UNIT_PRICE /\ Feasible(price) /\ firing # {}
          /\ \A p \in 1 .. price - 1 : ~Feasible(p)
      BY <2>2, <2>4
    <3>2. lo \in Nat /\ price \in Nat /\ lo >= 1 /\ price >= 1
      BY <2>1, <2>4, <3>1
    <3>3. ~(lo < price)
      <4>1. lo < price => lo \in 1 .. price - 1
        BY <3>2
      <4> QED
        BY <2>4, <3>1, <4>1
    <3>4. ~(price < lo)
      <4>1. price < lo => price \in 1 .. lo - 1
        BY <3>2
      <4> QED
        BY <2>4, <3>1, <4>1
    <3>5. price = lo
      BY <3>2, <3>3, <3>4
    <3> QED
      BY <2>4, <3>1, <3>5
  <2> QED
    BY <2>3, <2>4, DoneIsDecided
<1> QED
  BY <1>1, LoopsHold, PTL

-----------------------------------------------------------------------------
(* The allocations. *)

Row == [mandate_id : Nat, qty : Nat]

\* g is the recursion behind Allocated, on the positions of D.
Allocates(g, p, D) ==
  g = [n \in D |-> IF n = 0 THEN <<>>
                   ELSE IF AllocationOf(n, p).qty = 0 THEN g[n - 1]
                   ELSE Append(g[n - 1], AllocationOf(n, p))]

LEMMA AllocationExists ==
  ASSUME NEW p, NEW m \in Nat
  PROVE  \E g : Allocates(g, p, 0 .. m)
<1> DEFINE T == {n \in Nat : \E g : Allocates(g, p, 0 .. n)}
<1>1. 0 \in T
  <2>1. PICK g : g = [n \in 0 .. 0 |-> <<>>]
    OBVIOUS
  <2>2. \A n \in 0 .. 0 : n = 0
    OBVIOUS
  <2>3. g = [n \in 0 .. 0 |-> IF n = 0 THEN <<>>
                              ELSE IF AllocationOf(n, p).qty = 0 THEN g[n - 1]
                              ELSE Append(g[n - 1], AllocationOf(n, p))]
    BY <2>1, <2>2
  <2>4. Allocates(g, p, 0 .. 0)
    BY <2>3 DEF Allocates
  <2> QED
    BY <2>4
<1>2. ASSUME NEW n \in T
      PROVE  n + 1 \in T
  <2>1. PICK g : Allocates(g, p, 0 .. n)
    OBVIOUS
  <2>2. n \in Nat
    OBVIOUS
  <2>3. PICK h : h = [k \in 0 .. n + 1 |->
                        IF k = 0 THEN <<>>
                        ELSE IF AllocationOf(k, p).qty = 0 THEN g[k - 1]
                        ELSE Append(g[k - 1], AllocationOf(k, p))]
    OBVIOUS
  <2>4. ASSUME NEW k \in 0 .. n
        PROVE  g[k] = h[k]
    <3>1. k \in 0 .. n + 1
      BY <2>2
    <3>2. g = [j \in 0 .. n |-> IF j = 0 THEN <<>>
                                ELSE IF AllocationOf(j, p).qty = 0 THEN g[j - 1]
                                ELSE Append(g[j - 1], AllocationOf(j, p))]
      BY <2>1 DEF Allocates
    <3>3. g[k] = IF k = 0 THEN <<>>
                 ELSE IF AllocationOf(k, p).qty = 0 THEN g[k - 1]
                 ELSE Append(g[k - 1], AllocationOf(k, p))
      BY <3>2
    <3> QED
      BY <2>3, <3>1, <3>3
  <2>5. \A k \in 0 .. n + 1 : k # 0 => k - 1 \in 0 .. n
    BY <2>2
  <2>6. h = [k \in 0 .. n + 1 |-> IF k = 0 THEN <<>>
                                  ELSE IF AllocationOf(k, p).qty = 0 THEN h[k - 1]
                                  ELSE Append(h[k - 1], AllocationOf(k, p))]
    BY <2>3, <2>4, <2>5
  <2>7. Allocates(h, p, 0 .. n + 1)
    BY <2>6 DEF Allocates
  <2> QED
    BY <2>2, <2>7
<1>3. T = Nat
  <2> HIDE DEF T
  <2>1. T \in SUBSET Nat
    BY DEF T
  <2> QED
    BY <1>1, <1>2, <2>1, AllNaturals
<1> QED
  BY <1>3

\* The last term of a sum over 1 .. n + 1.
LEMMA TotalOfNext ==
  ASSUME NEW n \in Nat, NEW f, NEW g,
         \A k \in 1 .. n + 1 : f[k] \in Int, \A k \in 1 .. n : g[k] = f[k]
  PROVE  /\ Total(f, 1 .. n + 1) = f[n + 1] + Total(g, 1 .. n)
         /\ Total(g, 1 .. n) \in Int
<1>1. IsFiniteSet(1 .. n + 1) /\ IsFiniteSet(1 .. n) /\ n + 1 \in 1 .. n + 1
  BY FS_Interval
<1>2. (1 .. n + 1) \ {n + 1} = 1 .. n
  OBVIOUS
<1>3. /\ Total(f, 1 .. n + 1) = f[n + 1] + Total(f, (1 .. n + 1) \ {n + 1})
      /\ Total(f, (1 .. n + 1) \ {n + 1}) \in Int
  BY <1>1, TotalSplits
<1>4. Total(g, 1 .. n) = Total(f, 1 .. n)
  BY <1>1, TotalOfEqual
<1> QED
  BY <1>2, <1>3, <1>4

\* The sum of a quantity of the rows, and of the first n children.
Quantities(rows) == Total([i \in DOMAIN rows |-> rows[i].qty], DOMAIN rows)
Proceeds(rows, p) ==
  Total([i \in DOMAIN rows |-> NetLeg(rows[i].qty, p, input.feeBps)], DOMAIN rows)

KidQuantities(n, p) == Total([k \in 1 .. n |-> AllocationOf(k, p).qty], 1 .. n)
KidProceeds(n, p) ==
  Total([k \in 1 .. n |-> NetLeg(AllocationOf(k, p).qty, p, input.feeBps)], 1 .. n)

\* The rows are the allocations of those of the first n children that buy.
Canonical(rows, n, p) ==
  /\ rows \in Seq(Row)
  /\ \A i \in DOMAIN rows : \E k \in 1 .. n : /\ rows[i] = AllocationOf(k, p)
                                             /\ AllocationOf(k, p).qty > 0
  /\ \A k \in 1 .. n : AllocationOf(k, p).qty > 0 =>
       \E i \in DOMAIN rows : rows[i] = AllocationOf(k, p)
  /\ \A i, j \in DOMAIN rows : i < j => rows[i].mandate_id < rows[j].mandate_id
  /\ Quantities(rows) = KidQuantities(n, p)
  /\ Proceeds(rows, p) = KidProceeds(n, p)

\* What a child is allocated, and what it pays.
LEMMA AllocationIsTyped ==
  ASSUME input \in Inputs, AllArranged, NEW p \in Nat, NEW k \in DOMAIN kids
  PROVE  /\ AllocationOf(k, p) \in Row
         /\ AllocationOf(k, p).mandate_id = kids[k].mandate_id
         /\ AllocationOf(k, p).qty = Demand(kids[k].schedule, p)
         /\ AllocationOf(k, p).qty \in Nat
         /\ NetLeg(AllocationOf(k, p).qty, p, input.feeBps) \in Int
         /\ AllocationOf(k, p).qty = 0 =>
              NetLeg(AllocationOf(k, p).qty, p, input.feeBps) = 0
<1>1. /\ kids[k].mandate_id \in Nat
      /\ kids[k].schedule \in Seq(SchedulePoint)
  BY KidIsView DEF AllArranged
<1>2. PICK d : d = Demand(kids[k].schedule, p)
  OBVIOUS
<1>3. d \in Nat
  BY <1>1, <1>2, DemandIsNat
<1>4. /\ AllocationOf(k, p) \in Row
      /\ AllocationOf(k, p).mandate_id = kids[k].mandate_id
      /\ AllocationOf(k, p).qty = d
  BY <1>1, <1>2, <1>3 DEF AllocationOf, Row
<1>5. input.feeBps \in 0 .. BPS_DENOM
  BY InputsAreCalls
<1>6. NetLeg(d, p, input.feeBps) \in Int /\ (d = 0 => NetLeg(d, p, input.feeBps) = 0)
  <2>1. PICK x : x = p * d
    OBVIOUS
  <2>2. x \in Nat
    BY <1>3, <2>1, ProductsAreMonotonic
  <2>3. FeeOf(x, input.feeBps) \in Nat /\ FeeOf(x, input.feeBps) <= x
    BY <1>5, <2>2, FeeGrowsSlowly
  <2>4. d = 0 => x = 0
    BY <2>1
  <2> QED
    BY <2>1, <2>2, <2>3, <2>4 DEF NetLeg
<1> QED
  BY <1>2, <1>3, <1>4, <1>6

LEMMA CanonicalStarts ==
  ASSUME NEW p
  PROVE  Canonical(<<>>, 0, p)
<1>1. <<>> \in Seq(Row) /\ DOMAIN <<>> = {} /\ 1 .. 0 = {}
  OBVIOUS
<1>2. Quantities(<<>>) = 0 /\ Proceeds(<<>>, p) = 0
  BY <1>1, TotalOfNone DEF Quantities, Proceeds
<1>3. KidQuantities(0, p) = 0 /\ KidProceeds(0, p) = 0
  BY <1>1, TotalOfNone DEF KidQuantities, KidProceeds
<1> QED
  BY <1>1, <1>2, <1>3 DEF Canonical

\* The next child adds its quantity and its proceeds to the sums.
LEMMA KidsAddUp ==
  ASSUME input \in Inputs, AllArranged, NEW p \in Nat, NEW n \in Nat,
         n + 1 \in DOMAIN kids
  PROVE  /\ KidQuantities(n + 1, p) = AllocationOf(n + 1, p).qty + KidQuantities(n, p)
         /\ KidProceeds(n + 1, p)
              = NetLeg(AllocationOf(n + 1, p).qty, p, input.feeBps) + KidProceeds(n, p)
         /\ KidQuantities(n, p) \in Int /\ KidProceeds(n, p) \in Int
<1>1. \A k \in 1 .. n + 1 : k \in DOMAIN kids
  <2>1. Len(kids) \in Nat /\ DOMAIN kids = 1 .. Len(kids)
    BY KidIsView DEF AllArranged
  <2> QED
    BY <2>1
<1>2. PICK f, g : /\ f = [k \in 1 .. n + 1 |-> AllocationOf(k, p).qty]
                  /\ g = [k \in 1 .. n |-> AllocationOf(k, p).qty]
  OBVIOUS
<1>3. /\ \A k \in 1 .. n + 1 : f[k] \in Int
      /\ \A k \in 1 .. n : g[k] = f[k]
      /\ f[n + 1] = AllocationOf(n + 1, p).qty
  <2>1. \A k \in 1 .. n + 1 : f[k] = AllocationOf(k, p).qty /\ f[k] \in Int
    BY <1>1, <1>2, AllocationIsTyped, SMTT(30)
  <2>2. n + 1 \in 1 .. n + 1 /\ \A k \in 1 .. n : k \in 1 .. n + 1
    OBVIOUS
  <2> QED
    BY <1>2, <2>1, <2>2
<1>4. /\ Total(f, 1 .. n + 1) = f[n + 1] + Total(g, 1 .. n)
      /\ Total(g, 1 .. n) \in Int
  BY <1>3, TotalOfNext
<1>5. PICK u, v :
        /\ u = [k \in 1 .. n + 1 |-> NetLeg(AllocationOf(k, p).qty, p, input.feeBps)]
        /\ v = [k \in 1 .. n |-> NetLeg(AllocationOf(k, p).qty, p, input.feeBps)]
  OBVIOUS
<1>6. /\ \A k \in 1 .. n + 1 : u[k] \in Int
      /\ \A k \in 1 .. n : v[k] = u[k]
      /\ u[n + 1] = NetLeg(AllocationOf(n + 1, p).qty, p, input.feeBps)
  <2>1. \A k \in 1 .. n + 1 : /\ u[k] = NetLeg(AllocationOf(k, p).qty, p, input.feeBps)
                              /\ u[k] \in Int
    BY <1>1, <1>5, AllocationIsTyped
  <2>2. n + 1 \in 1 .. n + 1 /\ \A k \in 1 .. n : k \in 1 .. n + 1
    OBVIOUS
  <2> QED
    BY <1>5, <2>1, <2>2
<1>7. /\ Total(u, 1 .. n + 1) = u[n + 1] + Total(v, 1 .. n)
      /\ Total(v, 1 .. n) \in Int
  BY <1>6, TotalOfNext
<1> QED
  BY <1>2, <1>3, <1>4, <1>5, <1>6, <1>7 DEF KidQuantities, KidProceeds

\* So does an appended row.
LEMMA RowsAddUp ==
  ASSUME input \in Inputs, NEW p \in Nat, NEW rows \in Seq(Row), NEW a \in Row
  PROVE  /\ Quantities(Append(rows, a)) = a.qty + Quantities(rows)
         /\ Proceeds(Append(rows, a), p)
              = NetLeg(a.qty, p, input.feeBps) + Proceeds(rows, p)
<1>1. PICK new : new = Append(rows, a)
  OBVIOUS
<1>2. PICK m : m = Len(rows)
  OBVIOUS
<1>3. /\ m \in Nat /\ DOMAIN rows = 1 .. m /\ \A i \in 1 .. m : rows[i] \in Row
  BY <1>2, LenProperties
<1>4. /\ new \in Seq(Row) /\ Len(new) = m + 1
      /\ \A i \in 1 .. m : new[i] = rows[i]
      /\ new[m + 1] = a
  BY <1>1, <1>2, AppendProperties
<1>5. DOMAIN new = 1 .. m + 1 /\ \A i \in 1 .. m + 1 : new[i] \in Row
  BY <1>4, LenProperties
<1>6. ASSUME NEW d \in Nat
      PROVE  NetLeg(d, p, input.feeBps) \in Int
  <2>1. input.feeBps \in 0 .. BPS_DENOM
    BY InputsAreCalls
  <2>2. p * d \in Nat
    BY <1>6, ProductsAreMonotonic
  <2>3. FeeOf(p * d, input.feeBps) \in Nat
    BY <2>1, <2>2, FeeGrowsSlowly
  <2> QED
    BY <2>2, <2>3 DEF NetLeg
<1>7. \A i \in 1 .. m + 1 : /\ new[i].qty \in Int
                            /\ NetLeg(new[i].qty, p, input.feeBps) \in Int
  <2>1. \A i \in 1 .. m + 1 : new[i].qty \in Nat
    BY <1>5 DEF Row
  <2> QED
    BY <1>6, <2>1
<1>8. m + 1 \in 1 .. m + 1 /\ \A i \in 1 .. m : i \in 1 .. m + 1
  BY <1>3
<1>9. PICK f, g : /\ f = [i \in 1 .. m + 1 |-> new[i].qty]
                  /\ g = [i \in 1 .. m |-> rows[i].qty]
  OBVIOUS
<1>10. /\ \A i \in 1 .. m + 1 : f[i] \in Int
       /\ \A i \in 1 .. m : g[i] = f[i]
       /\ f[m + 1] = a.qty
  BY <1>4, <1>7, <1>8, <1>9
<1>11. Total(f, 1 .. m + 1) = f[m + 1] + Total(g, 1 .. m)
  BY <1>3, <1>10, TotalOfNext
<1>12. PICK u, v : /\ u = [i \in 1 .. m + 1 |-> NetLeg(new[i].qty, p, input.feeBps)]
                   /\ v = [i \in 1 .. m |-> NetLeg(rows[i].qty, p, input.feeBps)]
  OBVIOUS
<1>13. /\ \A i \in 1 .. m + 1 : u[i] \in Int
       /\ \A i \in 1 .. m : v[i] = u[i]
       /\ u[m + 1] = NetLeg(a.qty, p, input.feeBps)
  BY <1>4, <1>7, <1>8, <1>12
<1>14. Total(u, 1 .. m + 1) = u[m + 1] + Total(v, 1 .. m)
  BY <1>3, <1>13, TotalOfNext
<1>15. Quantities(new) = a.qty + Quantities(rows)
  BY <1>3, <1>5, <1>9, <1>10, <1>11 DEF Quantities
<1>16. Proceeds(new, p) = NetLeg(a.qty, p, input.feeBps) + Proceeds(rows, p)
  BY <1>3, <1>5, <1>12, <1>13, <1>14 DEF Proceeds
<1> QED
  BY <1>1, <1>15, <1>16

\* One iteration of the loop over the children (clearing.rs:139-152).
LEMMA CanonicalGrows ==
  ASSUME input \in Inputs, AllArranged, NEW p \in Nat, NEW n \in Nat,
         n + 1 \in DOMAIN kids, NEW rows, Canonical(rows, n, p)
  PROVE  Canonical(IF AllocationOf(n + 1, p).qty = 0 THEN rows
                   ELSE Append(rows, AllocationOf(n + 1, p)), n + 1, p)
<1>1. PICK a : a = AllocationOf(n + 1, p)
  OBVIOUS
<1>2. /\ a \in Row /\ a.mandate_id = kids[n + 1].mandate_id /\ a.qty \in Nat
      /\ NetLeg(a.qty, p, input.feeBps) \in Int
      /\ a.qty = 0 => NetLeg(a.qty, p, input.feeBps) = 0
  BY <1>1, AllocationIsTyped
<1>3. /\ rows \in Seq(Row)
      /\ \A i \in DOMAIN rows : \E k \in 1 .. n : /\ rows[i] = AllocationOf(k, p)
                                                 /\ AllocationOf(k, p).qty > 0
      /\ \A k \in 1 .. n : AllocationOf(k, p).qty > 0 =>
           \E i \in DOMAIN rows : rows[i] = AllocationOf(k, p)
      /\ \A i, j \in DOMAIN rows : i < j => rows[i].mandate_id < rows[j].mandate_id
      /\ Quantities(rows) = KidQuantities(n, p)
      /\ Proceeds(rows, p) = KidProceeds(n, p)
  BY DEF Canonical
<1>4. /\ KidQuantities(n + 1, p) = a.qty + KidQuantities(n, p)
      /\ KidProceeds(n + 1, p) = NetLeg(a.qty, p, input.feeBps) + KidProceeds(n, p)
      /\ KidQuantities(n, p) \in Int /\ KidProceeds(n, p) \in Int
  BY <1>1, KidsAddUp
<1>5. \A k \in Nat : k \in 1 .. n + 1 <=> k \in 1 .. n \/ k = n + 1
  OBVIOUS
<1>6. CASE a.qty = 0
  <2>1. \A i \in DOMAIN rows : \E k \in 1 .. n + 1 : /\ rows[i] = AllocationOf(k, p)
                                                    /\ AllocationOf(k, p).qty > 0
    BY <1>3, <1>5
  <2>2. ASSUME NEW k \in 1 .. n + 1, AllocationOf(k, p).qty > 0
        PROVE  \E i \in DOMAIN rows : rows[i] = AllocationOf(k, p)
    <3>1. k \in 1 .. n
      BY <1>1, <1>5, <1>6, <2>2
    <3> QED
      BY <1>3, <2>2, <3>1
  <2>3. /\ Quantities(rows) = KidQuantities(n + 1, p)
        /\ Proceeds(rows, p) = KidProceeds(n + 1, p)
    BY <1>2, <1>3, <1>4, <1>6
  <2> QED
    BY <1>1, <1>3, <1>6, <2>1, <2>2, <2>3 DEF Canonical
<1>7. CASE a.qty # 0
  <2>1. PICK m, new : m = Len(rows) /\ new = Append(rows, a)
    OBVIOUS
  <2>2. /\ m \in Nat /\ DOMAIN rows = 1 .. m
    BY <1>3, <2>1, LenProperties
  <2>3. /\ new \in Seq(Row) /\ Len(new) = m + 1
        /\ \A i \in 1 .. m : new[i] = rows[i]
        /\ new[m + 1] = a
    BY <1>2, <1>3, <2>1, AppendProperties
  <2>4. DOMAIN new = 1 .. m + 1
    BY <2>3, LenProperties
  <2>5. \A i \in DOMAIN new : i \in DOMAIN rows \/ i = m + 1
    BY <2>2, <2>4
  <2>6. a.qty > 0
    BY <1>2, <1>7
  <2>7. ASSUME NEW i \in DOMAIN new
        PROVE  \E k \in 1 .. n + 1 : /\ new[i] = AllocationOf(k, p)
                                     /\ AllocationOf(k, p).qty > 0
    <3>1. CASE i \in DOMAIN rows
      <4>1. PICK k \in 1 .. n : /\ rows[i] = AllocationOf(k, p)
                                /\ AllocationOf(k, p).qty > 0
        BY <1>3, <3>1
      <4>2. k \in 1 .. n + 1 /\ new[i] = rows[i]
        BY <2>2, <2>3, <3>1
      <4> QED
        BY <4>1, <4>2
    <3>2. CASE i = m + 1
      <4>1. n + 1 \in 1 .. n + 1 /\ new[i] = AllocationOf(n + 1, p)
        BY <1>1, <2>3, <3>2
      <4> QED
        BY <1>1, <2>6, <4>1
    <3> QED
      BY <2>5, <3>1, <3>2
  <2>8. ASSUME NEW k \in 1 .. n + 1, AllocationOf(k, p).qty > 0
        PROVE  \E i \in DOMAIN new : new[i] = AllocationOf(k, p)
    <3>1. CASE k \in 1 .. n
      <4>1. PICK i \in DOMAIN rows : rows[i] = AllocationOf(k, p)
        BY <1>3, <2>8, <3>1
      <4>2. i \in DOMAIN new /\ new[i] = rows[i]
        BY <2>2, <2>3, <2>4
      <4> QED
        BY <4>1, <4>2
    <3>2. CASE k = n + 1
      <4>1. m + 1 \in DOMAIN new /\ new[m + 1] = AllocationOf(k, p)
        BY <1>1, <2>2, <2>3, <2>4, <3>2
      <4> QED
        BY <4>1
    <3> QED
      BY <1>5, <3>1, <3>2
  <2>9. ASSUME NEW i \in DOMAIN new, NEW j \in DOMAIN new, i < j
        PROVE  new[i].mandate_id < new[j].mandate_id
    <3>1. i \in DOMAIN rows /\ i \in Nat /\ j \in Nat
      BY <2>2, <2>4, <2>9
    <3>2. new[i] = rows[i]
      BY <2>2, <2>3, <3>1
    <3>3. CASE j \in DOMAIN rows
      <4>1. new[j] = rows[j]
        BY <2>2, <2>3, <3>3
      <4> QED
        BY <1>3, <2>9, <3>1, <3>2, <3>3, <4>1
    <3>4. CASE j = m + 1
      <4>1. PICK k \in 1 .. n : rows[i] = AllocationOf(k, p)
        BY <1>3, <3>1
      <4>2. /\ k \in DOMAIN kids /\ k < n + 1
        <5>1. Len(kids) \in Nat /\ DOMAIN kids = 1 .. Len(kids)
          BY KidIsView DEF AllArranged
        <5> QED
          BY <5>1
      <4>3. kids[k].mandate_id < kids[n + 1].mandate_id
        BY <4>2 DEF AllArranged, Arranged
      <4>4. AllocationOf(k, p).mandate_id = kids[k].mandate_id
        BY <4>2, AllocationIsTyped
      <4> QED
        BY <1>2, <2>3, <3>2, <3>4, <4>1, <4>3, <4>4
    <3> QED
      BY <2>5, <3>3, <3>4
  <2>10. /\ Quantities(new) = KidQuantities(n + 1, p)
         /\ Proceeds(new, p) = KidProceeds(n + 1, p)
    <3>1. /\ Quantities(new) = a.qty + Quantities(rows)
          /\ Proceeds(new, p) = NetLeg(a.qty, p, input.feeBps) + Proceeds(rows, p)
      BY <1>2, <1>3, <2>1, RowsAddUp
    <3> QED
      BY <1>3, <1>4, <3>1
  <2>11. Canonical(new, n + 1, p)
    BY <2>3, <2>7, <2>8, <2>9, <2>10 DEF Canonical
  <2> QED
    BY <1>1, <1>7, <2>1, <2>11
<1> QED
  BY <1>6, <1>7

\* The loop's result, once it is through with the children.
LEMMA AllocatedIsCanonical ==
  ASSUME input \in Inputs, AllArranged, NEW p \in Nat
  PROVE  Canonical(Allocated(p), Len(kids), p)
<1>1. PICK m : m = Len(kids)
  OBVIOUS
<1>2. m \in Nat /\ DOMAIN kids = 1 .. m
  BY <1>1, KidIsView DEF AllArranged
<1> DEFINE it == CHOOSE g : Allocates(g, p, 0 .. m)
<1>3. Allocates(it, p, 0 .. m)
  BY <1>2, AllocationExists
<1>4. Allocated(p) = it[m]
  BY <1>1 DEF Allocated, Allocates
<1>5. \A n \in 0 .. m :
        it[n] = IF n = 0 THEN <<>>
                ELSE IF AllocationOf(n, p).qty = 0 THEN it[n - 1]
                ELSE Append(it[n - 1], AllocationOf(n, p))
  <2> HIDE DEF it
  <2> QED
    BY <1>3 DEF Allocates
<1> HIDE DEF it
<1> DEFINE T == {n \in Nat : n <= m => Canonical(it[n], n, p)}
<1>6. 0 \in T
  <2>1. it[0] = <<>>
    BY <1>2, <1>5
  <2> QED
    BY <2>1, CanonicalStarts
<1>7. ASSUME NEW n \in T
      PROVE  n + 1 \in T
  <2> SUFFICES ASSUME n + 1 <= m
               PROVE  Canonical(it[n + 1], n + 1, p)
    OBVIOUS
  <2>1. /\ n \in Nat /\ n + 1 \in DOMAIN kids /\ Canonical(it[n], n, p)
    BY <1>2
  <2>2. n + 1 \in 0 .. m /\ n + 1 # 0 /\ (n + 1) - 1 = n
    BY <1>2, <2>1
  <2>3. it[n + 1] = IF AllocationOf(n + 1, p).qty = 0 THEN it[n]
                    ELSE Append(it[n], AllocationOf(n + 1, p))
    BY <1>5, <2>2
  <2> QED
    BY <2>1, <2>3, CanonicalGrows
<1>8. T = Nat
  <2> HIDE DEF T
  <2>1. T \in SUBSET Nat
    BY DEF T
  <2> QED
    BY <1>6, <1>7, <2>1, AllNaturals
<1>9. Canonical(it[m], m, p)
  <2>1. m \in T
    BY <1>2, <1>8
  <2>2. m <= m
    BY <1>2
  <2> QED
    BY <2>1, <2>2
<1> QED
  BY <1>1, <1>4, <1>9

\* The sums over the children are the totals of the outcome.
LEMMA TotalsAreKids ==
  ASSUME input \in Inputs, AllArranged, NEW p \in Nat
  PROVE  /\ TotalQtyOf(p) = KidQuantities(Len(kids), p)
         /\ NetValueOf(p) = KidProceeds(Len(kids), p)
<1>1. DOMAIN kids = 1 .. Len(kids)
  BY KidIsView DEF AllArranged
<1>2. \A k \in DOMAIN kids : Demand(SchedulesOf(kids)[k], p) = AllocationOf(k, p).qty
  BY AllocationIsTyped DEF SchedulesOf
<1> QED
  BY <1>1, <1>2 DEF TotalQtyOf, NetValueOf, TotalQty, NetValue, KidQuantities,
                    KidProceeds

\* Capture transfers what the outcome lists (pool.rs:317-345): every child that
\* buys at the price, once, for its demand, in the order of the ids; and the
\* totals the outcome reports are those of the list, for every call.
THEOREM AllocationsAreExact == Spec => []AllocationsAreCanonical
<1>1. ASSUME IInv, phase = "done", outcome.fires
      PROVE  LET p     == outcome.clearing_price
                 rows  == outcome.allocations
                 ids   == [i \in DOMAIN rows |-> rows[i].mandate_id]
                 kid(id) == CHOOSE i \in EligibleViews : input.views[i].mandate_id = id
             IN  /\ \A i, j \in DOMAIN ids : i < j => ids[i] < ids[j]
                 /\ \A i \in DOMAIN rows :
                      rows[i].qty = Demand(input.views[kid(ids[i])].schedule, p)
                 /\ Range(ids) = {input.views[i].mandate_id :
                      i \in {k \in EligibleViews :
                               Demand(input.views[k].schedule, p) > 0}}
                 /\ outcome.total_qty
                      = Total([i \in DOMAIN rows |-> rows[i].qty], DOMAIN rows)
                 /\ outcome.net_value =
                      Total([i \in DOMAIN rows |-> NetLeg(rows[i].qty, p, input.feeBps)],
                            DOMAIN rows)
  <2>1. input \in Inputs /\ Sold
    <3>1. input \in Inputs /\ (Unsold \/ Sold)
      BY <1>1 DEF IInv, Sorting, Collecting, Scanning
    <3>2. ~Unsold
      BY <1>1 DEF Unsold, NoFire
    <3> QED
      BY <3>1, <3>2
  <2>2. /\ AllArranged /\ lo \in Nat /\ outcome = OutcomeAt(lo)
    BY <2>1 DEF Sold, Bracketed
  <2>3. PICK p, rows : p = outcome.clearing_price /\ rows = outcome.allocations
    OBVIOUS
  <2>4. /\ p = lo /\ p \in Nat /\ rows = Allocated(p)
        /\ outcome.total_qty = TotalQtyOf(p) /\ outcome.net_value = NetValueOf(p)
    BY <2>2, <2>3 DEF OutcomeAt
  <2>5. PICK n : n = Len(kids)
    OBVIOUS
  <2>6. /\ n \in Nat /\ DOMAIN kids = 1 .. n
    BY <2>1, <2>2, <2>5, KidIsView DEF AllArranged
  <2>7. Canonical(rows, n, p)
    BY <2>1, <2>2, <2>4, <2>5, AllocatedIsCanonical
  <2>8. PICK ids : ids = [i \in DOMAIN rows |-> rows[i].mandate_id]
    OBVIOUS
  <2>9. DOMAIN ids = DOMAIN rows /\ \A i \in DOMAIN rows : ids[i] = rows[i].mandate_id
    BY <2>8
  <2>10. \A i, j \in DOMAIN ids : i < j => ids[i] < ids[j]
    <3>1. \A i, j \in DOMAIN rows :
            i < j => rows[i].mandate_id < rows[j].mandate_id
      BY <2>7 DEF Canonical
    <3> QED
      BY <2>9, <3>1
  \* A row is the allocation of one view.
  <2>11. ASSUME NEW i \in DOMAIN rows
         PROVE  \E v \in EligibleViews :
                  /\ ids[i] = input.views[v].mandate_id
                  /\ rows[i].qty = Demand(input.views[v].schedule, p)
                  /\ rows[i].qty > 0
    <3>1. PICK k \in 1 .. n : rows[i] = AllocationOf(k, p) /\ AllocationOf(k, p).qty > 0
      BY <2>7 DEF Canonical
    <3>2. k \in DOMAIN kids
      BY <2>6
    <3>3. PICK v \in EligibleViews : kids[k] = input.views[v]
      BY <2>1, <2>2, <3>2, KidIsView DEF AllArranged
    <3>4. /\ rows[i].mandate_id = kids[k].mandate_id
          /\ rows[i].qty = Demand(kids[k].schedule, p)
      BY <2>1, <2>2, <2>4, <3>1, <3>2, AllocationIsTyped
    <3> QED
      BY <2>9, <3>1, <3>3, <3>4
  <2>12. ASSUME NEW v \in EligibleViews, NEW w \in EligibleViews,
                input.views[v].mandate_id = input.views[w].mandate_id
         PROVE  v = w
    <3>1. v \in DOMAIN input.views /\ w \in DOMAIN input.views
      BY DEF EligibleViews
    <3> QED
      BY <2>1, <2>12, <3>1, CallIsTyped
  <2>13. ASSUME NEW i \in DOMAIN rows
         PROVE  rows[i].qty =
                  Demand(input.views[CHOOSE v \in EligibleViews :
                           input.views[v].mandate_id = ids[i]].schedule, p)
    <3>1. PICK v \in EligibleViews : /\ ids[i] = input.views[v].mandate_id
                                     /\ rows[i].qty = Demand(input.views[v].schedule, p)
      BY <2>11
    <3>2. PICK w : w = CHOOSE x \in EligibleViews : input.views[x].mandate_id = ids[i]
      OBVIOUS
    <3>3. w \in EligibleViews /\ input.views[w].mandate_id = ids[i]
      BY <3>1, <3>2
    <3>4. w = v
      BY <2>12, <3>1, <3>3
    <3> QED
      BY <3>1, <3>2, <3>4
  <2>14. Range(ids) = {input.views[i].mandate_id :
           i \in {k \in EligibleViews : Demand(input.views[k].schedule, p) > 0}}
    <3>1. ASSUME NEW i \in DOMAIN ids
          PROVE  \E v \in {k \in EligibleViews : Demand(input.views[k].schedule, p) > 0} :
                   ids[i] = input.views[v].mandate_id
      <4>1. PICK v \in EligibleViews : /\ ids[i] = input.views[v].mandate_id
                                       /\ rows[i].qty = Demand(input.views[v].schedule, p)
                                       /\ rows[i].qty > 0
        BY <2>9, <2>11
      <4> QED
        BY <4>1
    <3>2. ASSUME NEW v \in EligibleViews, Demand(input.views[v].schedule, p) > 0
          PROVE  \E i \in DOMAIN ids : ids[i] = input.views[v].mandate_id
      <4>1. PICK k \in DOMAIN kids : kids[k] = input.views[v]
        BY <2>1, <2>2, ViewIsKid
      <4>2. /\ AllocationOf(k, p).mandate_id = input.views[v].mandate_id
            /\ AllocationOf(k, p).qty > 0
        BY <2>1, <2>2, <2>4, <3>2, <4>1, AllocationIsTyped
      <4>3. PICK i \in DOMAIN rows : rows[i] = AllocationOf(k, p)
        BY <2>6, <2>7, <4>2 DEF Canonical
      <4> QED
        BY <2>9, <4>2, <4>3
    <3> QED
      BY <3>1, <3>2 DEF Range
  <2>15. /\ outcome.total_qty = Quantities(rows)
         /\ outcome.net_value = Proceeds(rows, p)
    BY <2>1, <2>2, <2>4, <2>5, <2>7, TotalsAreKids DEF Canonical
  <2> QED
    BY <2>3, <2>8, <2>10, <2>13, <2>14, <2>15, ZenonT(30)
    DEF Quantities, Proceeds
<1>2. IInv => AllocationsAreCanonical
  BY <1>1 DEF AllocationsAreCanonical
<1> QED
  BY <1>2, LoopsHold, PTL
=============================================================================
