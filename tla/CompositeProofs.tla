-------------------------- MODULE CompositeProofs ---------------------------
(***************************************************************************)
(* Proofs about the composite registry, for every set of users, mandates   *)
(* and pools, every cap and every terms.                                   *)
(*                                                                         *)
(* MembershipAgrees and BooksMatchTransfers are not inductive alone.  What *)
(* a capture moves is a sum over the rows of a member or of a user; it     *)
(* equals what the effects loop charges because there is one such row,     *)
(* which is what the dedup of commit_child establishes (OneChildPerUser);  *)
(* and it is within the budget because of what register_mandate accepted   *)
(* (TermsHold).                                                            *)
(***************************************************************************)
EXTENDS Composite, AdminPlaneProofs, ClearingProofs, SequenceTheorems

\* What register_mandate accepted stays true of the stored terms.
TermsHold ==
  \A m \in DOMAIN mandates :
    /\ Terms(m).max_amount > 0
    /\ Terms(m).pool_id # NoPool =>
         /\ Terms(m).pool_id \in DOMAIN pools
         /\ Terms(m).merchant = PoolTerms[Terms(m).pool_id].merchant
         /\ Terms(m).asset = PoolTerms[Terms(m).pool_id].asset
         /\ ValidSchedule(ScheduleOf(m))
         /\ WorstCase(ScheduleOf(m)) <= Terms(m).max_amount
         /\ Terms(m).expiry > WindowEnd(Terms(m).pool_id)

\* An open pool lists no user twice.
OneChildPerUser ==
  \A p \in DOMAIN pools : IsOpen(p) =>
    \A i, j \in DOMAIN members[p] :
      UserOf(members[p][i]) = UserOf(members[p][j]) => i = j

\* Nothing was moved under an id nobody has registered.
NothingBeforeRegistration ==
  \A m \in MandateIds \ DOMAIN mandates : paid[m] = 0 /\ usedSeqs[m] = {}

IInv ==
  /\ TypeOK
  /\ TermsHold
  /\ MembershipAgrees
  /\ OneChildPerUser
  /\ BooksMatchTransfers
  /\ NothingBeforeRegistration

-----------------------------------------------------------------------------
\* Taking the only occurrence of m off a list keeps the order of the others.
LEMMA WithoutOnly ==
  ASSUME NEW S, NEW list \in Seq(S), NEW j \in DOMAIN list,
         \A i \in DOMAIN list : list[i] = list[j] => i = j
  PROVE  /\ Without(list, list[j]) \in Seq(S)
         /\ Len(Without(list, list[j])) = Len(list) - 1
         /\ \A i \in 1 .. Len(list) - 1 :
              Without(list, list[j])[i] = IF i < j THEN list[i] ELSE list[i + 1]
<1> DEFINE at == {i \in 1 .. Len(list) : list[i] = list[j]}
<1>1. at = {j}
  OBVIOUS
<1>2. Min(at) = j
  <2>1. j <= j
    OBVIOUS
  <2> QED
    BY <1>1, <2>1 DEF Min
<1> DEFINE front == SubSeq(list, 1, j - 1)
           back  == SubSeq(list, j + 1, Len(list))
<1>3. Without(list, list[j]) = front \o back
  BY <1>1, <1>2 DEF Without, RemoveFirst, RemoveAt, SelectInSeq
<1>4. /\ front \in Seq(S) /\ Len(front) = j - 1
      /\ \A i \in 1 .. j - 1 : front[i] = list[i]
  BY SubSeqProperties
<1>5. /\ back \in Seq(S) /\ Len(back) = Len(list) - j
      /\ \A i \in 1 .. Len(list) - j : back[i] = list[i + j]
  BY SubSeqProperties
<1> HIDE DEF front, back
<1>6. /\ front \o back \in Seq(S)
      /\ Len(front \o back) = Len(list) - 1
  BY <1>4, <1>5, ConcatProperties
<1>7. \A i \in 1 .. Len(list) - 1 :
        (front \o back)[i] = IF i < j THEN list[i] ELSE list[i + 1]
  BY <1>4, <1>5, ConcatProperties
<1> QED
  BY <1>3, <1>6, <1>7

-----------------------------------------------------------------------------
\* What the types say of a registered mandate.
LEMMA MandateTypes ==
  ASSUME TypeOK, NEW m \in DOMAIN mandates
  PROVE  /\ m \in MandateIds
         /\ mandates[m] \in Mandate
         /\ Terms(m) \in MandateParams
         /\ UserOf(m) \in Users
         /\ Terms(m).asset \in Assets
         /\ ScheduleOf(m) \in Seq(SchedulePoint)
         /\ Terms(m).max_amount \in Int
         /\ mandates[m].spent \in Nat
         /\ mandates[m].seq \in Nat
<1>1. m \in MandateIds /\ mandates[m] \in Mandate
  BY DEF TypeOK
<1>2. Terms(m) \in MandateParams
  BY <1>1 DEF Mandate, Terms
<1>3. mandates[m].seq \in 0 .. MaxU32
  BY <1>1 DEF Mandate
<1> QED
  BY <1>1, <1>2, <1>3, CompositeAssumption
  DEF Mandate, MandateParams, UserOf, ScheduleOf

\* What the contract reads of an allowance is at most what was approved.
LEMMA AllowedTypes ==
  ASSUME TypeOK, NEW a \in Assets, NEW u \in Users
  PROVE  Allowed(u, a) \in Nat /\ Allowed(u, a) <= allowance[a][u]
<1>1. allowance[a][u] \in Nat
  BY DEF TypeOK
<1> QED
  BY <1>1 DEF Allowed

\* What the types say of a member list.
LEMMA MemberTypes ==
  ASSUME TypeOK, NEW p \in PoolIds
  PROVE  /\ members[p] \in Seq(MandateIds)
         /\ Len(members[p]) \in Nat
         /\ DOMAIN members[p] = 1 .. Len(members[p])
         /\ \A i \in DOMAIN members[p] : members[p][i] \in MandateIds
<1>1. members[p] \in Seq(MandateIds)
  BY DEF TypeOK
<1> QED
  BY <1>1, ElementOfSeq

\* The pool of a pooled mandate is registered and has the mandate's asset.
LEMMA PoolOfMandate ==
  ASSUME IInv, NEW m \in DOMAIN mandates, Terms(m).pool_id # NoPool
  PROVE  /\ Terms(m).pool_id \in DOMAIN pools
         /\ Terms(m).pool_id \in PoolIds
         /\ ValidSchedule(ScheduleOf(m))
         /\ Terms(m).asset = PoolTerms[Terms(m).pool_id].asset
BY DEF IInv, TypeOK, TermsHold

\* MembershipAgrees read row by row.
LEMMA RowsAgree ==
  ASSUME IInv, NEW p \in DOMAIN pools, IsOpen(p), NEW i \in DOMAIN members[p]
  PROVE  /\ members[p][i] \in DOMAIN mandates
         /\ members[p][i] \in MembersOf(p)
         /\ IsCommitted(members[p][i])
         /\ Terms(members[p][i]).pool_id = p
<1>1. members[p][i] \in MembersOf(p)
  BY DEF MembersOf
<1> QED
  BY <1>1 DEF IInv, MembershipAgrees

\* A committed child has a row in its pool, which is open.
LEMMA CommittedHasRow ==
  ASSUME IInv, NEW m \in DOMAIN mandates, IsCommitted(m),
         NEW p, p = Terms(m).pool_id
  PROVE  /\ IsOpen(p) /\ p \in DOMAIN pools /\ p \in PoolIds
         /\ \E i \in DOMAIN members[p] : members[p][i] = m
<1>1. IsOpen(p) /\ m \in MembersOf(p)
  BY DEF IInv, MembershipAgrees
<1> QED
  BY <1>1 DEF IInv, IsOpen, TypeOK, MembersOf

LEMMA InitEstablishes == Init => IInv
<1> SUFFICES ASSUME Init PROVE IInv
  OBVIOUS
<1>1. AdminTypeOK
  <2>1. 0 \in 0 .. MaxTime
    BY AdminAssumption
  <2> QED
    BY <2>1 DEF Init, AdminInit, AdminTypeOK
<1>2. DOMAIN mandates = {} /\ DOMAIN pools = {}
  BY DEF Init
<1>3. TypeOK
  <2>1. members \in [PoolIds -> Seq(MandateIds)]
    BY EmptySeq DEF Init
  <2>2. authorized \in [Assets -> [Users \cup Merchants -> BOOLEAN]]
    BY DEF Init
  <2>3. /\ allowance \in [Assets -> [Users -> Nat]]
        /\ approvedUntil \in [Assets -> [Users -> Nat]]
    BY DEF Init
  <2>4. balance \in [Assets -> [Users -> Nat]]
    BY CompositeAssumption DEF Init
  <2>5. mandates \in [DOMAIN mandates -> Mandate] /\ pools \in [DOMAIN pools -> Pool]
    BY <1>2 DEF Init
  <2>6. paid \in [MandateIds -> Nat] /\ usedSeqs \in [MandateIds -> SUBSET Nat]
    BY DEF Init
  <2> QED
    BY <1>1, <1>2, <2>1, <2>2, <2>3, <2>4, <2>5, <2>6 DEF TypeOK
<1>4. TermsHold /\ MembershipAgrees /\ OneChildPerUser /\ BooksMatchTransfers
  BY <1>2 DEF TermsHold, MembershipAgrees, OneChildPerUser, BooksMatchTransfers
<1>5. NothingBeforeRegistration
  BY DEF Init, NothingBeforeRegistration
<1> QED
  BY <1>3, <1>4, <1>5 DEF IInv

-----------------------------------------------------------------------------
\* A step of the clock, the admin or a token leaves the books alone.
LEMMA EnvironmentKeeps ==
  ASSUME IInv, TypeOK', UNCHANGED <<poolVars, trail>>
  PROVE  IInv'
<1> USE DEF IInv, poolVars, trail, Terms, ScheduleOf, UserOf, IsOpen,
            IsCommitted, MembersOf, WindowEnd, Deadline
<1>1. TermsHold'
  BY DEF TermsHold
<1>2. MembershipAgrees'
  BY DEF MembershipAgrees
<1>3. OneChildPerUser'
  BY DEF OneChildPerUser
<1>4. BooksMatchTransfers' /\ NothingBeforeRegistration'
  BY DEF BooksMatchTransfers, NothingBeforeRegistration
<1> QED
  BY <1>1, <1>2, <1>3, <1>4

\* A new pool is open and empty, and nobody was committed to it.
LEMMA RegisterPoolKeeps ==
  ASSUME IInv, NEW p \in PoolIds, RegisterPool(p)
  PROVE  IInv'
<1> USE DEF IInv, Terms, ScheduleOf, UserOf, IsOpen, IsCommitted, MembersOf,
            WindowEnd, Deadline
<1>1. /\ p \notin DOMAIN pools
      /\ DOMAIN pools' = DOMAIN pools \cup {p}
      /\ \A q \in DOMAIN pools : pools'[q] = pools[q]
      /\ pools'[p] = [status |-> "Open", member_count |-> 0]
      /\ members' = [members EXCEPT ![p] = <<>>]
      /\ UNCHANGED <<now, adminVars, mandates, tokenVars, trail>>
  BY DEF RegisterPool
<1>2. members \in [PoolIds -> Seq(MandateIds)]
  BY DEF TypeOK
<1>3. members'[p] = <<>> /\ \A q \in PoolIds \ {p} : members'[q] = members[q]
  BY <1>1, <1>2
<1>4. TypeOK'
  <2>1. members' \in [PoolIds -> Seq(MandateIds)]
    BY <1>1, <1>2, EmptySeq
  <2>2. pools' \in [DOMAIN pools' -> Pool]
    <3>1. pools'[p] \in Pool
      BY <1>1 DEF Pool
    <3>2. \A q \in DOMAIN pools : pools'[q] \in Pool
      BY <1>1 DEF TypeOK
    <3>3. pools' = [q \in DOMAIN pools' |-> pools'[q]]
      BY DEF RegisterPool
    <3> QED
      BY <1>1, <3>1, <3>2, <3>3
  <2> QED
    BY <1>1, <2>1, <2>2
    DEF TypeOK, AdminTypeOK, adminVars, tokenVars, trail
<1>5. TermsHold'
  BY <1>1 DEF TermsHold
<1>6. MembershipAgrees'
  <2>1. ASSUME NEW q \in DOMAIN pools', IsOpen(q)'
        PROVE  /\ IsInjective(members'[q])
               /\ \A m \in MembersOf(q)' : /\ m \in DOMAIN mandates'
                                           /\ IsCommitted(m)'
                                           /\ Terms(m)'.pool_id = q
               /\ pools'[q].member_count = Len(members'[q])
    <3>1. CASE q = p
      BY <1>1, <1>3, <3>1 DEF IsInjective
    <3>2. CASE q # p
      <4>1. q \in DOMAIN pools /\ pools'[q] = pools[q] /\ members'[q] = members[q]
        BY <1>1, <1>3, <3>2, <2>1 DEF TypeOK
      <4> QED
        BY <1>1, <2>1, <4>1 DEF MembershipAgrees
    <3> QED
      BY <3>1, <3>2
  <2>2. ASSUME NEW m \in DOMAIN mandates', IsCommitted(m)'
        PROVE  IsOpen(Terms(m).pool_id)' /\ m \in MembersOf(Terms(m).pool_id)'
    <3>1. IsOpen(Terms(m).pool_id) /\ m \in MembersOf(Terms(m).pool_id)
      BY <1>1, <2>2 DEF MembershipAgrees
    <3>2. Terms(m).pool_id # p /\ Terms(m).pool_id \in PoolIds
      BY <1>1, <3>1 DEF TypeOK
    <3> QED
      BY <1>1, <1>3, <3>1, <3>2
  <2> QED
    BY <2>1, <2>2 DEF MembershipAgrees
<1>7. OneChildPerUser'
  <2> SUFFICES ASSUME NEW q \in DOMAIN pools', IsOpen(q)',
                      NEW i \in DOMAIN members'[q], NEW j \in DOMAIN members'[q],
                      UserOf(members[q][i])' = UserOf(members[q][j])'
               PROVE  i = j
    BY DEF OneChildPerUser
  <2>1. q # p
    BY <1>3
  <2>2. q \in DOMAIN pools /\ pools'[q] = pools[q] /\ members'[q] = members[q]
    BY <1>1, <1>3, <2>1 DEF TypeOK
  <2> QED
    BY <1>1, <2>2 DEF OneChildPerUser
<1>8. BooksMatchTransfers' /\ NothingBeforeRegistration'
  BY <1>1 DEF BooksMatchTransfers, NothingBeforeRegistration, trail
<1> QED
  BY <1>4, <1>5, <1>6, <1>7, <1>8

\* A new mandate is in no list, and its terms have just been checked.
LEMMA RegisterMandateKeeps ==
  ASSUME IInv, NEW m \in MandateIds, NEW t \in TermsFor[m], RegisterMandate(m, t)
  PROVE  IInv'
<1> USE DEF IInv, Terms, ScheduleOf, UserOf, IsOpen, IsCommitted, MembersOf,
            WindowEnd, Deadline
<1>1. /\ m \notin DOMAIN mandates
      /\ DOMAIN mandates' = DOMAIN mandates \cup {m}
      /\ \A k \in DOMAIN mandates : mandates'[k] = mandates[k]
      /\ mandates'[m] = NewMandate(t)
      /\ UNCHANGED <<now, adminVars, pools, members, tokenVars, trail>>
  BY DEF RegisterMandate
<1>2. t \in MandateParams
  BY CompositeAssumption
<1>3. /\ t.max_amount > 0
      /\ t.pool_id # NoPool => FitsPool(t)
  BY DEF RegisterMandate
<1>4. TypeOK'
  <2>1. mandates'[m] \in Mandate
    <3>1. 0 \in 0 .. MaxU32
      BY CompositeAssumption
    <3> QED
      BY <1>1, <1>2, <3>1 DEF NewMandate, Mandate
  <2>2. \A k \in DOMAIN mandates : mandates'[k] \in Mandate
    BY <1>1 DEF TypeOK
  <2>3. mandates' = [k \in DOMAIN mandates' |-> mandates'[k]]
    BY DEF RegisterMandate
  <2>4. mandates' \in [DOMAIN mandates' -> Mandate]
    BY <1>1, <2>1, <2>2, <2>3
  <2> QED
    BY <1>1, <2>4 DEF TypeOK, AdminTypeOK, adminVars, tokenVars, trail
<1>5. TermsHold'
  <2>1. mandates'[m].terms = t
    BY <1>1 DEF NewMandate
  <2> QED
    BY <1>1, <1>3, <2>1 DEF TermsHold, FitsPool
<1>6. \A q \in DOMAIN pools : IsOpen(q) =>
        \A i \in DOMAIN members[q] : /\ members[q][i] \in DOMAIN mandates
                                     /\ mandates'[members[q][i]] = mandates[members[q][i]]
  BY <1>1 DEF MembershipAgrees
<1>7. MembershipAgrees'
  <2>1. ASSUME NEW q \in DOMAIN pools', IsOpen(q)'
        PROVE  /\ IsInjective(members'[q])
               /\ \A k \in MembersOf(q)' : /\ k \in DOMAIN mandates'
                                           /\ IsCommitted(k)'
                                           /\ Terms(k)'.pool_id = q
               /\ pools'[q].member_count = Len(members'[q])
    BY <1>1, <1>6, <2>1 DEF MembershipAgrees
  <2>2. ASSUME NEW k \in DOMAIN mandates', IsCommitted(k)'
        PROVE  IsOpen(Terms(k).pool_id)' /\ k \in MembersOf(Terms(k).pool_id)'
    <3>1. k # m
      BY <1>1, <2>2 DEF NewMandate
    <3> QED
      BY <1>1, <2>2, <3>1 DEF MembershipAgrees
  <2> QED
    BY <2>1, <2>2 DEF MembershipAgrees
<1>8. OneChildPerUser'
  BY <1>1, <1>6 DEF OneChildPerUser
<1>9. BooksMatchTransfers' /\ NothingBeforeRegistration'
  <2>1. paid[m] = 0 /\ usedSeqs[m] = {}
    BY <1>1 DEF NothingBeforeRegistration
  <2>2. t.max_amount \in Int
    BY <1>2 DEF MandateParams
  <2>3. /\ mandates'[m].spent = 0 /\ mandates'[m].seq = 0
        /\ mandates'[m].status = "Active" /\ mandates'[m].terms = t
    BY <1>1 DEF NewMandate
  <2>4. 0 .. 0 - 1 = {}
    OBVIOUS
  <2>5. BooksMatchTransfers'
    <3> SUFFICES ASSUME NEW k \in DOMAIN mandates'
                 PROVE  /\ mandates'[k].spent = paid'[k]
                        /\ paid'[k] <= Terms(k)'.max_amount
                        /\ usedSeqs'[k] = 0 .. mandates'[k].seq - 1
                        /\ mandates'[k].status = "Exhausted" => paid'[k] = Terms(k)'.max_amount
                        /\ mandates'[k].status = "Active" => paid'[k] < Terms(k)'.max_amount
      BY DEF BooksMatchTransfers
    <3>1. paid' = paid /\ usedSeqs' = usedSeqs
      BY <1>1 DEF trail
    <3>2. CASE k = m
      <4>1. Terms(k)'.max_amount = t.max_amount
        BY <2>3, <3>2
      <4>2. paid'[k] = 0 /\ usedSeqs'[k] = {}
        BY <2>1, <3>1, <3>2
      <4>3. /\ mandates'[k].spent = 0 /\ mandates'[k].seq = 0
            /\ mandates'[k].status = "Active"
        BY <2>3, <3>2
      <4> HIDE DEF Terms
      <4> QED
        BY <1>3, <2>2, <2>4, <4>1, <4>2, <4>3
    <3>3. CASE k \in DOMAIN mandates
      BY <1>1, <3>1, <3>3 DEF BooksMatchTransfers
    <3> QED
      BY <1>1, <3>2, <3>3
  <2> QED
    BY <1>1, <2>5 DEF NothingBeforeRegistration, trail
<1> QED
  BY <1>4, <1>5, <1>7, <1>8, <1>9

-----------------------------------------------------------------------------
\* A commit appends a child that was in no list, and whose user has none.
LEMMA CommitChildKeeps ==
  ASSUME IInv, NEW m \in MandateIds, CommitChild(m),
         NEW p, p = Terms(m).pool_id
  PROVE  IInv'
<1> USE DEF IInv, Terms, ScheduleOf, UserOf, IsOpen, IsCommitted, MembersOf,
            WindowEnd, Deadline
<1>1. /\ m \in DOMAIN mandates
      /\ p # NoPool
      /\ mandates[m].pool_state = "Unlinked"
      /\ IsOpen(p)
      /\ ~IsDuplicate(p, m)
      /\ mandates' = [mandates EXCEPT ![m].pool_state = "Committed"]
      /\ members' = [members EXCEPT ![p] = Append(@, m)]
      /\ pools' = [pools EXCEPT ![p].member_count = @ + 1]
      /\ UNCHANGED <<now, adminVars, tokenVars, trail>>
  BY DEF CommitChild
<1>2. p \in PoolIds /\ p \in DOMAIN pools
  BY <1>1, PoolOfMandate
<1>3. /\ members[p] \in Seq(MandateIds)
      /\ Len(members[p]) \in Nat
      /\ DOMAIN members[p] = 1 .. Len(members[p])
  BY <1>2, MemberTypes
<1>4. /\ Append(members[p], m) \in Seq(MandateIds)
      /\ Len(Append(members[p], m)) = Len(members[p]) + 1
      /\ DOMAIN Append(members[p], m) = 1 .. Len(members[p]) + 1
      /\ \A i \in DOMAIN members[p] : Append(members[p], m)[i] = members[p][i]
      /\ Append(members[p], m)[Len(members[p]) + 1] = m
  BY <1>3, AppendProperties, LenProperties
<1>5. /\ members'[p] = Append(members[p], m)
      /\ \A q \in PoolIds \ {p} : members'[q] = members[q]
  BY <1>1, <1>2 DEF TypeOK
<1>6. /\ DOMAIN mandates' = DOMAIN mandates
      /\ \A k \in DOMAIN mandates \ {m} : mandates'[k] = mandates[k]
      /\ mandates'[m] = [mandates[m] EXCEPT !.pool_state = "Committed"]
  BY <1>1
<1>7. mandates'[m] \in Mandate /\ mandates[m] \in Mandate
  BY <1>1, <1>6, ZenonT(30) DEF TypeOK, Mandate
<1>8. /\ mandates'[m].terms = mandates[m].terms
      /\ mandates'[m].spent = mandates[m].spent
      /\ mandates'[m].seq = mandates[m].seq
      /\ mandates'[m].status = mandates[m].status
      /\ mandates'[m].pool_state = "Committed"
  BY <1>6, <1>7 DEF Mandate
<1>9. /\ DOMAIN pools' = DOMAIN pools
      /\ \A q \in DOMAIN pools \ {p} : pools'[q] = pools[q]
      /\ pools'[p] \in Pool
      /\ pools'[p].status = "Open"
      /\ pools'[p].member_count = pools[p].member_count + 1
  <2>1. pools[p] \in Pool /\ pools[p].status = "Open"
    BY <1>1, <1>2 DEF TypeOK
  <2>2. pools'[p] = [pools[p] EXCEPT !.member_count = @ + 1]
    BY <1>1, <1>2
  <2> QED
    BY <1>1, <2>1, <2>2 DEF Pool
<1>10. \A q \in DOMAIN pools : IsOpen(q) =>
         \A i \in DOMAIN members[q] :
           /\ members[q][i] \in DOMAIN mandates \ {m}
           /\ mandates'[members[q][i]] = mandates[members[q][i]]
  BY <1>1, <1>6 DEF MembershipAgrees
<1>11. TypeOK'
  <2>1. members' \in [PoolIds -> Seq(MandateIds)]
    BY <1>1, <1>2, <1>4 DEF TypeOK
  <2>2. mandates' \in [DOMAIN mandates' -> Mandate]
    BY <1>1, <1>6, <1>7 DEF TypeOK
  <2>3. pools' \in [DOMAIN pools' -> Pool]
    BY <1>1, <1>2, <1>9 DEF TypeOK
  <2> QED
    BY <1>1, <1>6, <1>9, <2>1, <2>2, <2>3
    DEF TypeOK, AdminTypeOK, adminVars, tokenVars, trail
<1>12. TermsHold'
  BY <1>1, <1>6, <1>8, <1>9 DEF TermsHold
<1>13. OneChildPerUser'
  <2> SUFFICES ASSUME NEW q \in DOMAIN pools', IsOpen(q)',
                      NEW i \in DOMAIN members'[q], NEW j \in DOMAIN members'[q],
                      UserOf(members[q][i])' = UserOf(members[q][j])'
               PROVE  i = j
    BY DEF OneChildPerUser
  <2>1. CASE q # p
    <3>1. q \in DOMAIN pools /\ IsOpen(q) /\ members'[q] = members[q]
      BY <1>5, <1>9, <2>1 DEF TypeOK
    <3> QED
      BY <1>10, <3>1 DEF OneChildPerUser
  <2>2. CASE q = p
    <3>1. ASSUME NEW a \in DOMAIN members[p]
          PROVE  /\ members'[p][a] = members[p][a]
                 /\ UserOf(members[p][a])' = UserOf(members[p][a])
                 /\ UserOf(members[p][a]) # UserOf(m)
      <4>1. /\ members[p][a] \in MembersOf(p)
            /\ IsCommitted(members[p][a])
        <5> HIDE DEF IInv, IsOpen, IsCommitted, MembersOf, Terms
        <5> QED
          BY <1>1, <1>2, RowsAgree
      <4>2. UserOf(members[p][a]) # UserOf(m)
        BY <1>1, <4>1 DEF IsDuplicate
      <4>3. members'[p][a] = members[p][a]
        BY <1>4, <1>5
      <4>4. mandates'[members[p][a]] = mandates[members[p][a]]
        BY <1>1, <1>2, <1>10
      <4> QED
        BY <4>2, <4>3, <4>4
    <3>2. UserOf(m)' = UserOf(m)
      BY <1>8
    <3>3. \A a \in DOMAIN members'[p] :
            a \in DOMAIN members[p] \/ a = Len(members[p]) + 1
      <4>1. DOMAIN members'[p] = 1 .. Len(members[p]) + 1
        BY <1>4, <1>5
      <4>2. Len(members[p]) \in Nat /\ DOMAIN members[p] = 1 .. Len(members[p])
        BY <1>3
      <4> QED
        BY <4>1, <4>2
    <3>4. members'[p][Len(members[p]) + 1] = m
      BY <1>4, <1>5
    <3>5. \A a, b \in DOMAIN members[p] :
            UserOf(members[p][a]) = UserOf(members[p][b]) => a = b
      BY <1>1, <1>2 DEF OneChildPerUser
    <3> DEFINE user(x) == mandates'[members'[p][x]].terms.user
    <3>6. user(i) = user(j) /\ i \in DOMAIN members'[p] /\ j \in DOMAIN members'[p]
      BY <2>2
    <3>7. \A a \in DOMAIN members[p] : user(a) = UserOf(members[p][a])
      BY <3>1
    <3>8. user(Len(members[p]) + 1) = UserOf(m)
      BY <3>2, <3>4
    <3>9. \A a \in DOMAIN members[p] : UserOf(members[p][a]) # UserOf(m)
      BY <3>1
    <3> HIDE DEF user, UserOf
    <3> QED
      BY <3>3, <3>5, <3>6, <3>7, <3>8, <3>9
  <2> QED
    BY <2>1, <2>2
<1>14. MembershipAgrees'
  <2>1. ASSUME NEW q \in DOMAIN pools', IsOpen(q)'
        PROVE  /\ IsInjective(members'[q])
               /\ \A k \in MembersOf(q)' : /\ k \in DOMAIN mandates'
                                           /\ IsCommitted(k)'
                                           /\ Terms(k)'.pool_id = q
               /\ pools'[q].member_count = Len(members'[q])
    <3>1. IsInjective(members'[q])
      BY <1>13, <2>1 DEF OneChildPerUser, IsInjective
    <3>2. CASE q # p
      <4>1. q \in DOMAIN pools /\ IsOpen(q) /\ members'[q] = members[q]
            /\ pools'[q] = pools[q]
        BY <1>5, <1>9, <2>1, <3>2 DEF TypeOK
      <4> QED
        BY <1>6, <1>10, <3>1, <4>1 DEF MembershipAgrees
    <3>3. CASE q = p
      <4>1. \A a \in DOMAIN members'[p] :
              a \in DOMAIN members[p] \/ a = Len(members[p]) + 1
        BY <1>3, <1>4, <1>5
      <4>2. ASSUME NEW a \in DOMAIN members'[p]
            PROVE  /\ members'[p][a] \in DOMAIN mandates'
                   /\ IsCommitted(members[p][a])'
                   /\ Terms(members[p][a])'.pool_id = p
        <5>1. CASE a \in DOMAIN members[p]
          <6>1. members'[p][a] = members[p][a]
            BY <1>4, <1>5, <5>1
          <6>2. /\ members[p][a] \in DOMAIN mandates
                /\ mandates[members[p][a]].pool_state = "Committed"
                /\ mandates[members[p][a]].terms.pool_id = p
            BY <1>1, <1>2, <5>1, RowsAgree
          <6>3. mandates'[members[p][a]] = mandates[members[p][a]]
            BY <1>1, <1>2, <1>10, <5>1
          <6> QED
            BY <1>6, <6>1, <6>2, <6>3
        <5>2. CASE a = Len(members[p]) + 1
          <6>1. members'[p][a] = m
            BY <1>4, <1>5, <5>2
          <6>2. m \in DOMAIN mandates /\ mandates[m].terms.pool_id = p
            BY <1>1
          <6> QED
            BY <1>6, <1>8, <6>1, <6>2
        <5> QED
          BY <4>1, <5>1, <5>2
      <4>3. pools'[p].member_count = Len(members'[p])
        BY <1>1, <1>2, <1>4, <1>5, <1>9 DEF MembershipAgrees
      <4> QED
        <5>1. ASSUME NEW k \in MembersOf(q)'
              PROVE  /\ k \in DOMAIN mandates'
                     /\ IsCommitted(k)'
                     /\ Terms(k)'.pool_id = q
          <6>1. PICK a \in DOMAIN members'[p] : k = members'[p][a]
            BY <3>3, <5>1
          <6> QED
            BY <3>3, <4>2, <6>1
        <5> QED
          BY <3>1, <3>3, <4>3, <5>1
    <3> QED
      BY <3>2, <3>3
  <2>2. ASSUME NEW k \in DOMAIN mandates', IsCommitted(k)'
        PROVE  IsOpen(Terms(k).pool_id)' /\ k \in MembersOf(Terms(k).pool_id)'
    <3>1. CASE k = m
      <4>1. Terms(k)'.pool_id = p
        BY <1>8, <3>1
      <4>2. Len(members[p]) + 1 \in DOMAIN members'[p]
        BY <1>3, <1>4, <1>5
      <4>3. members'[p][Len(members[p]) + 1] = m
        BY <1>4, <1>5
      <4> QED
        BY <1>2, <1>9, <3>1, <4>1, <4>2, <4>3
    <3>2. CASE k # m
      <4>1. k \in DOMAIN mandates /\ IsCommitted(k) /\ Terms(k)' = Terms(k)
        BY <1>6, <2>2, <3>2
      <4> PICK q : q = Terms(k).pool_id
        OBVIOUS
      <4>2. IsOpen(q) /\ q \in PoolIds
        BY <4>1, CommittedHasRow
      <4>3. PICK a \in DOMAIN members[q] : members[q][a] = k
        BY <4>1, CommittedHasRow
      <4>4. a \in DOMAIN members'[q] /\ members'[q][a] = k
        <5>1. CASE q = p
          BY <1>3, <1>4, <1>5, <4>3, <5>1, SMTT(30)
        <5>2. CASE q # p
          BY <1>5, <4>2, <4>3, <5>2
        <5> QED
          BY <5>1, <5>2
      <4>5. IsOpen(q)'
        BY <1>9, <4>2
      <4> QED
        BY <4>1, <4>4, <4>5
    <3> QED
      BY <3>1, <3>2
  <2> QED
    BY <2>1, <2>2 DEF MembershipAgrees
<1>15. BooksMatchTransfers' /\ NothingBeforeRegistration'
  BY <1>1, <1>6, <1>8 DEF BooksMatchTransfers, NothingBeforeRegistration, trail
<1> QED
  BY <1>11, <1>12, <1>13, <1>14, <1>15

-----------------------------------------------------------------------------
\* A committed child that leaves an open pool, revoked or evicted: its row
\* goes, the rows behind it move up, and the count follows.
LEMMA LeavingKeeps ==
  ASSUME IInv, NEW m \in DOMAIN mandates, NEW p, p = Terms(m).pool_id,
         IsCommitted(m), DropMember(p, m),
         NEW status \in {"Active", "Revoked", "Exhausted"},
         status \in {mandates[m].status, "Revoked"},
         mandates' = [mandates EXCEPT ![m] =
           [@ EXCEPT !.status = status, !.pool_state = "Released"]],
         UNCHANGED <<now, adminVars, tokenVars, trail>>
  PROVE  IInv'
<1> DEFINE rest == Without(members[p], m)
<1>1. IsOpen(p) /\ p \in DOMAIN pools /\ p \in PoolIds
  BY CommittedHasRow
<1>2. PICK r \in DOMAIN members[p] : members[p][r] = m
  BY CommittedHasRow
<1>3. /\ members[p] \in Seq(MandateIds)
      /\ Len(members[p]) \in Nat
      /\ DOMAIN members[p] = 1 .. Len(members[p])
  BY <1>1, MemberTypes DEF IInv
<1>4. \A a, b \in DOMAIN members[p] :
        UserOf(members[p][a]) = UserOf(members[p][b]) => a = b
  BY <1>1 DEF IInv, OneChildPerUser
<1>5. \A a \in DOMAIN members[p] : members[p][a] = members[p][r] => a = r
  BY <1>4
<1>6. /\ rest \in Seq(MandateIds)
      /\ Len(rest) = Len(members[p]) - 1
      /\ \A i \in 1 .. Len(members[p]) - 1 :
           rest[i] = IF i < r THEN members[p][i] ELSE members[p][i + 1]
  <2>1. rest = Without(members[p], members[p][r])
    BY <1>2
  <2>2. /\ Without(members[p], members[p][r]) \in Seq(MandateIds)
        /\ Len(Without(members[p], members[p][r])) = Len(members[p]) - 1
        /\ \A i \in 1 .. Len(members[p]) - 1 :
             Without(members[p], members[p][r])[i] =
               IF i < r THEN members[p][i] ELSE members[p][i + 1]
    BY ONLY <1>3, <1>5, WithoutOnly, Zenon
  <2> QED
    BY <2>1, <2>2
<1>7. DOMAIN rest = 1 .. Len(members[p]) - 1
  BY <1>6, LenProperties
<1>8. /\ members'[p] = rest
      /\ \A q \in PoolIds \ {p} : members'[q] = members[q]
      /\ members' \in [PoolIds -> Seq(MandateIds)]
  BY <1>1, <1>6 DEF DropMember, IInv, TypeOK
<1> HIDE DEF rest
<1>9. /\ DOMAIN mandates' = DOMAIN mandates
      /\ \A k \in DOMAIN mandates \ {m} : mandates'[k] = mandates[k]
      /\ mandates'[m] = [mandates[m] EXCEPT !.status = status, !.pool_state = "Released"]
  OBVIOUS
<1>10. mandates[m] \in Mandate /\ m \in MandateIds
  BY MandateTypes DEF IInv
<1>11. /\ mandates'[m].terms = mandates[m].terms
       /\ mandates'[m].spent = mandates[m].spent
       /\ mandates'[m].seq = mandates[m].seq
       /\ mandates'[m].status = status
       /\ mandates'[m].pool_state = "Released"
       /\ mandates'[m] \in Mandate
  BY <1>9, <1>10 DEF Mandate
<1>12. \A k \in DOMAIN mandates : mandates'[k].terms = mandates[k].terms
  BY <1>9, <1>11
<1>13. pools[p] \in Pool /\ pools[p].status = "Open"
  BY <1>1 DEF IInv, TypeOK, IsOpen
<1>14. pools[p].member_count = Len(members[p])
  BY <1>1 DEF IInv, MembershipAgrees
<1>15. Len(members[p]) # 0
  BY <1>2, <1>3
<1>16. /\ DOMAIN pools' = DOMAIN pools
       /\ \A q \in DOMAIN pools \ {p} : pools'[q] = pools[q]
       /\ pools'[p] = [pools[p] EXCEPT !.member_count = Len(members[p]) - 1]
  BY <1>1, <1>13, <1>14, <1>15 DEF DropMember, OneFewer
<1>17. /\ pools'[p] \in Pool
       /\ pools'[p].status = "Open"
       /\ pools'[p].member_count = Len(members[p]) - 1
  BY <1>3, <1>13, <1>15, <1>16 DEF Pool
<1>18. \A q \in DOMAIN pools : IsOpen(q)' <=> IsOpen(q)
  BY <1>1, <1>13, <1>16, <1>17 DEF IsOpen
\* Every row that remains is an old row, of another child.
<1>19. ASSUME NEW i \in DOMAIN members'[p]
       PROVE  \E a \in DOMAIN members[p] :
                /\ a # r
                /\ a = IF i < r THEN i ELSE i + 1
                /\ members'[p][i] = members[p][a]
                /\ members[p][a] # m
  <2>1. i \in 1 .. Len(members[p]) - 1
    BY <1>7, <1>8
  <2>2. PICK a \in DOMAIN members[p] : a = IF i < r THEN i ELSE i + 1
    BY <1>2, <1>3, <2>1
  <2>3. a # r
    BY <1>2, <1>3, <2>1, <2>2
  <2>4. members'[p][i] = members[p][a]
    BY <1>6, <1>8, <2>1, <2>2
  <2>5. members[p][a] # m
    BY <1>2, <1>5, <2>3
  <2> QED
    BY <2>2, <2>3, <2>4, <2>5
<1>20. TypeOK'
  <2>1. mandates' \in [DOMAIN mandates' -> Mandate]
    BY <1>9, <1>11 DEF IInv, TypeOK
  <2>2. pools' \in [DOMAIN pools' -> Pool]
    <3>1. pools' = [q \in DOMAIN pools |-> pools'[q]]
      BY <1>1 DEF DropMember, IInv, TypeOK
    <3>2. \A q \in DOMAIN pools : pools'[q] \in Pool
      BY <1>16, <1>17 DEF IInv, TypeOK
    <3> QED
      BY <1>16, <3>1, <3>2
  <2> QED
    BY <1>8, <1>9, <1>16, <2>1, <2>2
    DEF IInv, TypeOK, AdminTypeOK, adminVars, tokenVars, trail
<1>21. TermsHold'
  BY <1>9, <1>12, <1>16
  DEF IInv, TermsHold, Terms, ScheduleOf, WindowEnd, Deadline
<1>22. OneChildPerUser'
  <2> SUFFICES ASSUME NEW q \in DOMAIN pools', IsOpen(q)',
                      NEW i \in DOMAIN members'[q], NEW j \in DOMAIN members'[q],
                      UserOf(members[q][i])' = UserOf(members[q][j])'
               PROVE  i = j
    BY DEF OneChildPerUser
  <2>1. CASE q # p
    <3>1. q \in DOMAIN pools /\ IsOpen(q) /\ members'[q] = members[q]
      BY <1>8, <1>16, <1>18, <2>1 DEF IInv, TypeOK
    <3>2. \A a \in DOMAIN members[q] : members[q][a] \in DOMAIN mandates
      BY <3>1, RowsAgree
    <3>3. UserOf(members[q][i]) = UserOf(members[q][j])
      BY <1>12, <3>1, <3>2 DEF UserOf, Terms
    <3> QED
      BY <3>1, <3>3 DEF IInv, OneChildPerUser
  <2>2. CASE q = p
    <3>1. PICK a \in DOMAIN members[p] : /\ a = IF i < r THEN i ELSE i + 1
                                        /\ a # r
                                        /\ members'[p][i] = members[p][a]
      BY <1>19, <2>2
    <3>2. PICK b \in DOMAIN members[p] : /\ b = IF j < r THEN j ELSE j + 1
                                        /\ b # r
                                        /\ members'[p][j] = members[p][b]
      BY <1>19, <2>2
    <3>3. members[p][a] \in DOMAIN mandates /\ members[p][b] \in DOMAIN mandates
      BY <1>1, RowsAgree
    <3>4. UserOf(members[p][a]) = UserOf(members[p][b])
      BY <1>12, <2>2, <3>1, <3>2, <3>3, ZenonT(30) DEF UserOf, Terms
    <3>5. a = b
      BY <1>4, <3>4
    <3>6. i \in Int /\ j \in Int /\ r \in Int
      BY <1>2, <1>3, <1>7, <1>8, <2>2
    <3> QED
      BY <3>1, <3>2, <3>5, <3>6
  <2> QED
    BY <2>1, <2>2
<1>23. MembershipAgrees'
  <2>1. ASSUME NEW q \in DOMAIN pools', IsOpen(q)'
        PROVE  /\ IsInjective(members'[q])
               /\ \A i \in DOMAIN members'[q] :
                    /\ members'[q][i] \in DOMAIN mandates'
                    /\ mandates'[members'[q][i]].pool_state = "Committed"
                    /\ mandates'[members'[q][i]].terms.pool_id = q
               /\ pools'[q].member_count = Len(members'[q])
    <3>1. IsInjective(members'[q])
      BY <1>22, <2>1 DEF OneChildPerUser, IsInjective
    <3>2. CASE q # p
      <4>1. /\ q \in DOMAIN pools /\ IsOpen(q)
            /\ members'[q] = members[q] /\ pools'[q] = pools[q]
        BY <1>8, <1>16, <1>18, <2>1, <3>2 DEF IInv, TypeOK
      <4>2. \A i \in DOMAIN members[q] : /\ members[q][i] \in DOMAIN mandates
                                          /\ IsCommitted(members[q][i])
                                          /\ Terms(members[q][i]).pool_id = q
        BY <4>1, RowsAgree
      <4>3. \A i \in DOMAIN members[q] : members[q][i] # m
        BY <3>2, <4>2
      <4>4. pools[q].member_count = Len(members[q])
        BY <4>1 DEF IInv, MembershipAgrees
      <4> QED
        BY <1>9, <3>1, <4>1, <4>2, <4>3, <4>4 DEF IsCommitted, Terms
    <3>3. CASE q = p
      <4>1. pools'[p].member_count = Len(members'[p])
        BY <1>6, <1>8, <1>17
      <4>2. ASSUME NEW i \in DOMAIN members'[p]
            PROVE  /\ members'[p][i] \in DOMAIN mandates'
                   /\ mandates'[members'[p][i]].pool_state = "Committed"
                   /\ mandates'[members'[p][i]].terms.pool_id = p
        <5>1. PICK a \in DOMAIN members[p] : /\ members'[p][i] = members[p][a]
                                            /\ members[p][a] # m
          BY <1>19
        <5>2. /\ members[p][a] \in DOMAIN mandates
              /\ IsCommitted(members[p][a])
              /\ Terms(members[p][a]).pool_id = p
          BY <1>1, RowsAgree
        <5> QED
          BY <1>9, <5>1, <5>2 DEF IsCommitted, Terms
      <4> QED
        BY <3>1, <3>3, <4>1, <4>2
    <3> QED
      BY <3>2, <3>3
  <2>2. ASSUME NEW k \in DOMAIN mandates', IsCommitted(k)'
        PROVE  IsOpen(Terms(k).pool_id)' /\ k \in MembersOf(Terms(k).pool_id)'
    <3>1. k # m /\ k \in DOMAIN mandates /\ IsCommitted(k) /\ Terms(k)' = Terms(k)
      BY <1>9, <1>11, <2>2 DEF IsCommitted, Terms
    <3> PICK q : q = Terms(k).pool_id
      OBVIOUS
    <3>2. IsOpen(q) /\ q \in DOMAIN pools /\ q \in PoolIds
      BY <3>1, CommittedHasRow
    <3>3. PICK a \in DOMAIN members[q] : members[q][a] = k
      BY <3>1, CommittedHasRow
    <3>4. \E i \in DOMAIN members'[q] : members'[q][i] = k
      <4>1. CASE q # p
        BY <1>8, <3>2, <3>3, <4>1
      <4>2. CASE q = p
        <5>1. a # r
          BY <1>2, <3>1, <3>3, <4>2
        <5>2. a \in 1 .. Len(members[p]) /\ r \in 1 .. Len(members[p])
          BY <1>2, <1>3, <3>3, <4>2
        <5> DEFINE i == IF a < r THEN a ELSE a - 1
        <5>3. i \in 1 .. Len(members[p]) - 1
          BY <1>3, <5>1, <5>2
        <5>4. a = IF i < r THEN i ELSE i + 1
          BY <5>1, <5>2
        <5> HIDE DEF i
        <5>5. members'[p][i] = members[p][a]
          BY <1>6, <1>8, <5>3, <5>4
        <5> QED
          BY <1>7, <1>8, <3>3, <4>2, <5>3, <5>5
      <4> QED
        BY <4>1, <4>2
    <3>5. IsOpen(q)'
      BY <1>18, <3>2
    <3> QED
      BY <3>1, <3>4, <3>5 DEF MembersOf
  <2>3. ASSUME NEW q \in DOMAIN pools', IsOpen(q)', NEW k \in MembersOf(q)'
        PROVE  k \in DOMAIN mandates' /\ IsCommitted(k)' /\ Terms(k)'.pool_id = q
    BY <2>1, <2>3 DEF MembersOf, IsCommitted, Terms
  <2> QED
    BY <2>1, <2>2, <2>3 DEF MembershipAgrees
<1>24. BooksMatchTransfers' /\ NothingBeforeRegistration'
  <2>1. paid' = paid /\ usedSeqs' = usedSeqs
    BY DEF trail
  <2>2. NothingBeforeRegistration'
    BY <1>9, <2>1 DEF IInv, NothingBeforeRegistration
  <2>3. BooksMatchTransfers'
    BY <1>9, <1>11, <2>1 DEF IInv, BooksMatchTransfers, Terms
  <2> QED
    BY <2>2, <2>3
<1> QED
  BY <1>20, <1>21, <1>22, <1>23, <1>24 DEF IInv

-----------------------------------------------------------------------------
\* A step that leaves terms, linkage and lists alone keeps their agreement.
LEMMA LinkageKept ==
  ASSUME IInv, UNCHANGED <<pools, members>>,
         DOMAIN mandates' = DOMAIN mandates,
         \A k \in DOMAIN mandates :
           /\ mandates'[k].terms = mandates[k].terms
           /\ mandates'[k].pool_state = mandates[k].pool_state
  PROVE  TermsHold' /\ MembershipAgrees' /\ OneChildPerUser'
<1>1. TermsHold'
  BY DEF IInv, TermsHold, Terms, ScheduleOf, WindowEnd, Deadline
<1>2. ASSUME NEW q \in DOMAIN pools, IsOpen(q), NEW i \in DOMAIN members[q]
      PROVE  /\ members[q][i] \in DOMAIN mandates
             /\ mandates'[members[q][i]].terms = Terms(members[q][i])
             /\ mandates'[members[q][i]].pool_state = "Committed"
  BY <1>2, RowsAgree DEF Terms, IsCommitted
<1>3. OneChildPerUser'
  BY <1>2 DEF IInv, OneChildPerUser, UserOf, Terms, IsOpen
<1>4. MembershipAgrees'
  BY <1>2 DEF IInv, MembershipAgrees, Terms, IsCommitted, MembersOf, IsOpen
<1> QED
  BY <1>1, <1>3, <1>4

\* A revocation takes a committed child off the list of its pool.
LEMMA RevokeMandateKeeps ==
  ASSUME IInv, NEW m \in MandateIds, RevokeMandate(m)
  PROVE  IInv'
<1>1. m \in DOMAIN mandates /\ UNCHANGED <<now, adminVars, tokenVars, trail>>
  BY DEF RevokeMandate
<1>2. mandates[m] \in Mandate
  BY <1>1, MandateTypes DEF IInv
<1>3. CASE IsCommitted(m) /\ IsOpen(Terms(m).pool_id)
  <2> PICK p : p = Terms(m).pool_id
    OBVIOUS
  <2>1. /\ DropMember(p, m)
        /\ mandates' = [mandates EXCEPT ![m] =
             [@ EXCEPT !.status = "Revoked", !.pool_state = "Released"]]
    <3>1. /\ DropMember(p, m)
          /\ mandates' = [mandates EXCEPT ![m].status = "Revoked",
                                          ![m].pool_state = "Released"]
      BY <1>3 DEF RevokeMandate
    <3> QED
      BY <1>1, <1>2, <3>1 DEF Mandate, IInv, TypeOK
  <2> QED
    BY <1>1, <1>3, <2>1, LeavingKeeps
<1>4. CASE ~(IsCommitted(m) /\ IsOpen(Terms(m).pool_id))
  <2>1. /\ UNCHANGED <<pools, members>>
        /\ mandates' = [mandates EXCEPT ![m].status = "Revoked"]
    BY <1>4 DEF RevokeMandate
  <2>2. /\ DOMAIN mandates' = DOMAIN mandates
        /\ \A k \in DOMAIN mandates \ {m} : mandates'[k] = mandates[k]
        /\ mandates'[m] = [mandates[m] EXCEPT !.status = "Revoked"]
    BY <1>1, <2>1
  <2>3. /\ mandates'[m] \in Mandate
        /\ mandates'[m].terms = mandates[m].terms
        /\ mandates'[m].spent = mandates[m].spent
        /\ mandates'[m].seq = mandates[m].seq
        /\ mandates'[m].pool_state = mandates[m].pool_state
        /\ mandates'[m].status = "Revoked"
    BY <1>2, <2>2 DEF Mandate
  <2>4. TermsHold' /\ MembershipAgrees' /\ OneChildPerUser'
    BY <2>1, <2>2, <2>3, LinkageKept
  <2>5. TypeOK'
    <3>1. mandates' \in [DOMAIN mandates' -> Mandate]
      BY <2>1, <2>2, <2>3 DEF IInv, TypeOK
    <3> QED
      BY <1>1, <2>1, <2>2, <3>1
      DEF IInv, TypeOK, AdminTypeOK, adminVars, tokenVars, trail
  <2>6. BooksMatchTransfers' /\ NothingBeforeRegistration'
    <3>1. paid' = paid /\ usedSeqs' = usedSeqs
      BY <1>1 DEF trail
    <3>2. NothingBeforeRegistration'
      BY <2>2, <3>1 DEF IInv, NothingBeforeRegistration
    <3>3. \A k \in DOMAIN mandates :
            /\ mandates'[k].terms = mandates[k].terms
            /\ mandates'[k].spent = mandates[k].spent
            /\ mandates'[k].seq = mandates[k].seq
            /\ mandates'[k].status \in {mandates[k].status, "Revoked"}
      BY <2>2, <2>3
    <3>4. BooksMatchTransfers'
      BY <2>2, <3>1, <3>3 DEF IInv, BooksMatchTransfers, Terms
    <3> QED
      BY <3>2, <3>4
  <2> QED
    BY <2>4, <2>5, <2>6 DEF IInv
<1> QED
  BY <1>3, <1>4

\* So does an eviction, which leaves the mandate's status as it was.
LEMMA EvictChildKeeps ==
  ASSUME IInv, NEW m \in MandateIds, NEW p \in PoolIds, EvictChild(p, m)
  PROVE  IInv'
<1>1. /\ m \in DOMAIN mandates /\ p = Terms(m).pool_id /\ IsCommitted(m)
      /\ DropMember(p, m)
      /\ mandates' = [mandates EXCEPT ![m].pool_state = "Released"]
      /\ UNCHANGED <<now, adminVars, tokenVars, trail>>
  BY DEF EvictChild
<1>2. mandates[m] \in Mandate
  BY <1>1, MandateTypes DEF IInv
<1> PICK status : status = mandates[m].status
  OBVIOUS
<1>3. status \in {"Active", "Revoked", "Exhausted"}
  BY <1>2 DEF Mandate
<1>4. mandates' = [mandates EXCEPT ![m] =
        [@ EXCEPT !.status = status, !.pool_state = "Released"]]
  BY <1>1, <1>2 DEF Mandate, IInv, TypeOK
<1> QED
  BY <1>1, <1>3, <1>4, LeavingKeeps

-----------------------------------------------------------------------------
\* The close of a pool, whichever way: its members are let go or captured,
\* and nobody else's linkage changes.
LEMMA ClosingKeeps ==
  ASSUME IInv, NEW p \in PoolIds, IsOpen(p),
         NEW status \in {"Cleared", "Aborted"},
         pools' = [pools EXCEPT ![p].status = status],
         UNCHANGED members,
         DOMAIN mandates' = DOMAIN mandates,
         \A k \in DOMAIN mandates : mandates'[k].terms = mandates[k].terms,
         \A k \in DOMAIN mandates :
           IF k \in MembersOf(p) THEN mandates'[k].pool_state # "Committed"
                                 ELSE mandates'[k] = mandates[k]
  PROVE  /\ DOMAIN pools' = DOMAIN pools
         /\ pools' \in [DOMAIN pools' -> Pool]
         /\ TermsHold' /\ MembershipAgrees' /\ OneChildPerUser'
<1>1. p \in DOMAIN pools /\ pools[p] \in Pool
  BY DEF IsOpen, IInv, TypeOK
<1>2. /\ DOMAIN pools' = DOMAIN pools
      /\ \A q \in DOMAIN pools \ {p} : pools'[q] = pools[q]
      /\ pools'[p] = [pools[p] EXCEPT !.status = status]
  BY <1>1
<1>3. pools'[p] \in Pool /\ pools'[p].status = status
  BY <1>1, <1>2 DEF Pool
<1>4. pools' \in [DOMAIN pools' -> Pool]
  BY <1>2, <1>3 DEF IInv, TypeOK
<1>5. TermsHold'
  BY <1>2 DEF IInv, TermsHold, Terms, ScheduleOf, WindowEnd, Deadline
<1>6. \A q \in DOMAIN pools : IsOpen(q)' <=> (IsOpen(q) /\ q # p)
  BY <1>2, <1>3 DEF IsOpen
<1>7. ASSUME NEW q \in DOMAIN pools, IsOpen(q), q # p, NEW i \in DOMAIN members[q]
      PROVE  /\ members[q][i] \in DOMAIN mandates
             /\ Terms(members[q][i]).pool_id = q
             /\ IsCommitted(members[q][i])
             /\ mandates'[members[q][i]] = mandates[members[q][i]]
  <2>1. /\ members[q][i] \in DOMAIN mandates
        /\ Terms(members[q][i]).pool_id = q
        /\ IsCommitted(members[q][i])
    BY <1>7, RowsAgree
  <2>2. members[q][i] \notin MembersOf(p)
    <3> SUFFICES ASSUME NEW j \in DOMAIN members[p], members[p][j] = members[q][i]
                 PROVE  FALSE
      BY DEF MembersOf
    <3>1. Terms(members[p][j]).pool_id = p
      BY <1>1, RowsAgree
    <3> QED
      BY <1>7, <2>1, <3>1
  <2> QED
    BY <2>1, <2>2
<1>8. OneChildPerUser'
  BY <1>2, <1>6, <1>7 DEF IInv, OneChildPerUser, UserOf, Terms
<1>9. MembershipAgrees'
  <2>1. ASSUME NEW q \in DOMAIN pools', IsOpen(q)'
        PROVE  /\ IsInjective(members'[q])
               /\ \A k \in MembersOf(q)' : /\ k \in DOMAIN mandates'
                                           /\ IsCommitted(k)'
                                           /\ Terms(k)'.pool_id = q
               /\ pools'[q].member_count = Len(members'[q])
    <3>1. q \in DOMAIN pools /\ IsOpen(q) /\ q # p /\ pools'[q] = pools[q]
      BY <1>2, <1>6, <2>1
    <3>2. IsInjective(members[q]) /\ pools[q].member_count = Len(members[q])
      BY <3>1 DEF IInv, MembershipAgrees
    <3> QED
      BY <1>7, <3>1, <3>2 DEF MembersOf, IsCommitted, Terms
  <2>2. ASSUME NEW k \in DOMAIN mandates', IsCommitted(k)'
        PROVE  IsOpen(Terms(k).pool_id)' /\ k \in MembersOf(Terms(k).pool_id)'
    <3>1. k \in DOMAIN mandates /\ k \notin MembersOf(p) /\ mandates'[k] = mandates[k]
      BY <2>2 DEF IsCommitted
    <3> PICK q : q = Terms(k).pool_id
      OBVIOUS
    <3>2. /\ IsOpen(q) /\ q \in DOMAIN pools
          /\ \E i \in DOMAIN members[q] : members[q][i] = k
      BY <2>2, <3>1, CommittedHasRow DEF IsCommitted
    <3>3. q # p
      BY <3>1, <3>2 DEF MembersOf
    <3>4. IsOpen(q)'
      BY <1>6, <3>2, <3>3
    <3> QED
      BY <3>1, <3>2, <3>4 DEF MembersOf, Terms
  <2> QED
    BY <2>1, <2>2 DEF MembershipAgrees
<1> QED
  BY <1>2, <1>4, <1>5, <1>8, <1>9

\* An abort moves nothing.
LEMMA AbortPoolKeeps ==
  ASSUME IInv, NEW p \in PoolIds, AbortPool(p)
  PROVE  IInv'
<1>1. /\ IsOpen(p)
      /\ pools' = [pools EXCEPT ![p].status = "Aborted"]
      /\ mandates' = ReleaseAll(p)
      /\ UNCHANGED <<now, adminVars, members, tokenVars, trail>>
  BY DEF AbortPool, Closable
<1>2. \A k \in DOMAIN mandates : k \in MembersOf(p) => IsCommitted(k)
  BY <1>1 DEF IInv, MembershipAgrees, IsOpen
<1>3. ASSUME NEW k \in DOMAIN mandates
      PROVE  mandates'[k] = IF k \in MembersOf(p)
                            THEN [mandates[k] EXCEPT !.pool_state = "Released"]
                            ELSE mandates[k]
  BY <1>1, <1>2 DEF ReleaseAll
<1>4. DOMAIN mandates' = DOMAIN mandates
  BY <1>1 DEF ReleaseAll
<1>5. ASSUME NEW k \in DOMAIN mandates
      PROVE  /\ mandates'[k] \in Mandate
             /\ mandates'[k].terms = mandates[k].terms
             /\ mandates'[k].spent = mandates[k].spent
             /\ mandates'[k].seq = mandates[k].seq
             /\ mandates'[k].status = mandates[k].status
             /\ IF k \in MembersOf(p) THEN mandates'[k].pool_state # "Committed"
                                       ELSE mandates'[k] = mandates[k]
  <2>1. mandates[k] \in Mandate
    BY MandateTypes DEF IInv
  <2> QED
    BY <1>3, <2>1 DEF Mandate
<1>6. /\ DOMAIN pools' = DOMAIN pools
      /\ pools' \in [DOMAIN pools' -> Pool]
      /\ TermsHold' /\ MembershipAgrees' /\ OneChildPerUser'
  BY <1>1, <1>4, <1>5, ClosingKeeps
<1>7. TypeOK'
  <2>1. mandates' \in [DOMAIN mandates' -> Mandate]
    BY <1>1, <1>4, <1>5 DEF ReleaseAll
  <2> QED
    BY <1>1, <1>4, <1>6, <2>1
    DEF IInv, TypeOK, AdminTypeOK, adminVars, tokenVars, trail
<1>8. BooksMatchTransfers' /\ NothingBeforeRegistration'
  <2>1. paid' = paid /\ usedSeqs' = usedSeqs
    BY <1>1 DEF trail
  <2>2. NothingBeforeRegistration'
    BY <1>4, <2>1 DEF IInv, NothingBeforeRegistration
  <2> QED
    BY <1>4, <1>5, <2>1, <2>2 DEF IInv, BooksMatchTransfers, Terms
<1> QED
  BY <1>6, <1>7, <1>8 DEF IInv

-----------------------------------------------------------------------------
\* A solo payment: the books and the tokens move by the same amount.
LEMMA ExecutePaymentKeeps ==
  ASSUME IInv, NEW m \in MandateIds, NEW amount \in Amounts, NEW n \in 0 .. MaxU32,
         ExecutePayment(m, amount, n)
  PROVE  IInv'
<1> DEFINE status == IF mandates[m].spent + amount = Terms(m).max_amount
                     THEN "Exhausted" ELSE mandates[m].status
<1>1. /\ m \in DOMAIN mandates
      /\ n = mandates[m].seq
      /\ Check(m, amount)
      /\ n < MaxU32
      /\ CanPay(UserOf(m), Terms(m).asset, amount)
      /\ mandates' = [mandates EXCEPT
           ![m].spent = mandates[m].spent + amount,
           ![m].seq = @ + 1,
           ![m].status = IF mandates[m].spent + amount = Terms(m).max_amount
                         THEN "Exhausted" ELSE @]
      /\ balance' = [balance EXCEPT ![Terms(m).asset][UserOf(m)] = @ - amount]
      /\ allowance' = [allowance EXCEPT ![Terms(m).asset][UserOf(m)] = @ - amount]
      /\ paid' = [paid EXCEPT ![m] = @ + amount]
      /\ usedSeqs' = [usedSeqs EXCEPT ![m] = @ \cup {n}]
      /\ UNCHANGED <<now, adminVars, pools, members, approvedUntil, authorized>>
  BY DEF ExecutePayment
<1>2. /\ mandates[m] \in Mandate
      /\ UserOf(m) \in Users /\ Terms(m).asset \in Assets
      /\ Terms(m).max_amount \in Int
      /\ mandates[m].spent \in Nat /\ mandates[m].seq \in Nat
  BY <1>1, MandateTypes DEF IInv
<1>3. /\ amount \in Nat /\ amount > 0
      /\ mandates[m].status = "Active"
      /\ mandates[m].spent + amount <= Terms(m).max_amount
  BY <1>1, CompositeAssumption DEF Check
<1>4. /\ DOMAIN mandates' = DOMAIN mandates
      /\ \A k \in DOMAIN mandates \ {m} : mandates'[k] = mandates[k]
      /\ mandates'[m] = [mandates[m] EXCEPT
           !.spent = mandates[m].spent + amount,
           !.seq = mandates[m].seq + 1,
           !.status = status]
  BY <1>1, <1>2 DEF Mandate
<1>5. status \in {"Active", "Exhausted"}
  BY <1>3
<1>6. /\ mandates'[m] \in Mandate
      /\ mandates'[m].terms = mandates[m].terms
      /\ mandates'[m].pool_state = mandates[m].pool_state
      /\ mandates'[m].spent = mandates[m].spent + amount
      /\ mandates'[m].seq = mandates[m].seq + 1
      /\ mandates'[m].status = status
  <2> HIDE DEF status
  <2>1. mandates[m].spent + amount \in Nat /\ mandates[m].seq + 1 \in 0 .. MaxU32
    BY <1>1, <1>2, <1>3, CompositeAssumption
  <2> QED
    BY <1>2, <1>4, <1>5, <2>1 DEF Mandate
<1>7. TermsHold' /\ MembershipAgrees' /\ OneChildPerUser'
  BY <1>1, <1>4, <1>6, LinkageKept
<1>8. TypeOK'
  <2>1. mandates' \in [DOMAIN mandates' -> Mandate]
    BY <1>1, <1>4, <1>6 DEF IInv, TypeOK
  <2>2. balance' \in [Assets -> [Users -> Nat]]
    <3>1. balance \in [Assets -> [Users -> Nat]]
      BY DEF IInv, TypeOK
    <3>2. balance[Terms(m).asset][UserOf(m)] - amount \in Nat
      BY <1>1, <1>2, <1>3, <3>1 DEF CanPay
    <3> QED
      BY <1>1, <1>2, <3>1, <3>2
  <2>3. allowance' \in [Assets -> [Users -> Nat]]
    <3>1. allowance \in [Assets -> [Users -> Nat]]
      BY DEF IInv, TypeOK
    <3>2. allowance[Terms(m).asset][UserOf(m)] - amount \in Nat
      <4>1. Allowed(UserOf(m), Terms(m).asset) >= amount
        BY <1>1 DEF CanPay
      <4>2. /\ Allowed(UserOf(m), Terms(m).asset) \in Nat
            /\ Allowed(UserOf(m), Terms(m).asset)
                 <= allowance[Terms(m).asset][UserOf(m)]
        BY <1>2, AllowedTypes DEF IInv
      <4> QED
        BY <1>2, <1>3, <3>1, <4>1, <4>2
    <3> QED
      BY <1>1, <1>2, <3>1, <3>2
  <2>4. paid' \in [MandateIds -> Nat] /\ usedSeqs' \in [MandateIds -> SUBSET Nat]
    <3>1. paid \in [MandateIds -> Nat] /\ usedSeqs \in [MandateIds -> SUBSET Nat]
      BY DEF IInv, TypeOK
    <3>2. paid[m] + amount \in Nat
      BY <1>3, <3>1
    <3>3. paid' \in [MandateIds -> Nat]
      BY <1>1, <3>1, <3>2
    <3>4. n \in Nat
      BY <1>1, <1>2
    <3> QED
      BY <1>1, <3>1, <3>3, <3>4
  <2> QED
    BY <1>1, <1>4, <2>1, <2>2, <2>3, <2>4
    DEF IInv, TypeOK, AdminTypeOK, adminVars
<1>9. /\ \A k \in MandateIds \ {m} : paid'[k] = paid[k] /\ usedSeqs'[k] = usedSeqs[k]
      /\ paid'[m] = paid[m] + amount
      /\ usedSeqs'[m] = usedSeqs[m] \cup {mandates[m].seq}
  BY <1>1 DEF IInv, TypeOK
<1>10. NothingBeforeRegistration'
  BY <1>1, <1>4, <1>9 DEF IInv, NothingBeforeRegistration
<1>11. BooksMatchTransfers'
  <2> SUFFICES ASSUME NEW k \in DOMAIN mandates
               PROVE  /\ mandates'[k].spent = paid'[k]
                      /\ paid'[k] <= mandates'[k].terms.max_amount
                      /\ usedSeqs'[k] = 0 .. mandates'[k].seq - 1
                      /\ mandates'[k].status = "Exhausted"
                           => paid'[k] = mandates'[k].terms.max_amount
                      /\ mandates'[k].status = "Active"
                           => paid'[k] < mandates'[k].terms.max_amount
    BY <1>4 DEF BooksMatchTransfers, Terms
  <2>1. /\ mandates[k].spent = paid[k]
        /\ paid[k] <= Terms(k).max_amount
        /\ usedSeqs[k] = 0 .. mandates[k].seq - 1
        /\ mandates[k].status = "Exhausted" => paid[k] = Terms(k).max_amount
        /\ mandates[k].status = "Active" => paid[k] < Terms(k).max_amount
    BY DEF IInv, BooksMatchTransfers
  <2>2. CASE k # m
    BY <1>4, <1>9, <2>1, <2>2 DEF IInv, TypeOK, Terms
  <2>3. CASE k = m
    <3>1. paid'[m] = mandates[m].spent + amount
      BY <1>9, <2>1, <2>3
    <3>2. (0 .. mandates[m].seq - 1) \cup {mandates[m].seq}
            = 0 .. mandates[m].seq + 1 - 1
      BY <1>2
    <3>3. usedSeqs'[m] = 0 .. mandates'[m].seq - 1
      <4>1. usedSeqs'[m] = (0 .. mandates[m].seq - 1) \cup {mandates[m].seq}
        BY <1>9, <2>1, <2>3
      <4>2. mandates'[m].seq = mandates[m].seq + 1
        BY <1>6
      <4> QED
        BY <3>2, <4>1, <4>2
    <3> QED
      BY <1>2, <1>3, <1>6, <2>3, <3>1, <3>3 DEF Terms
  <2> QED
    BY <2>2, <2>3
<1> QED
  BY <1>7, <1>8, <1>10, <1>11 DEF IInv

-----------------------------------------------------------------------------
\* The capture.  A firing pool has a price, every allocated row is of an
\* eligible child, and each member and each user has at most one such row, so
\* the sums of the transfers loop are single legs.

\* The eligible schedules of an open pool are valid.
LEMMA EligibleSchedules ==
  ASSUME IInv, NEW p \in DOMAIN pools, IsOpen(p), NEW i \in DOMAIN members[p]
  PROVE  /\ Schedules(p)[i] = ScheduleOf(members[p][i])
         /\ Schedules(p)[i] \in Seq(SchedulePoint)
         /\ ValidSchedule(Schedules(p)[i])
         /\ Terms(members[p][i]).asset = PoolTerms[p].asset
<1>1. /\ members[p][i] \in DOMAIN mandates
      /\ Terms(members[p][i]).pool_id = p
  BY RowsAgree
<1>2. p # NoPool
  BY CompositeAssumption DEF IInv, TypeOK
<1>3. /\ ValidSchedule(ScheduleOf(members[p][i]))
      /\ Terms(members[p][i]).asset = PoolTerms[p].asset
  BY <1>1, <1>2, PoolOfMandate
<1>4. ScheduleOf(members[p][i]) \in Seq(SchedulePoint)
  BY <1>1, MandateTypes DEF IInv
<1> QED
  BY <1>3, <1>4 DEF Schedules

LEMMA PriceInRange ==
  ASSUME IInv, NEW p \in DOMAIN pools, IsOpen(p), Fires(p)
  PROVE  PriceOf(p) \in 1 .. MAX_UNIT_PRICE
<1> DEFINE S == Schedules(p)
           K == EligibleRows(p)
           q == PoolTerms[p].threshold_qty
           v == PoolTerms[p].threshold_value
<1>1. \A k \in K : S[k] \in Seq(SchedulePoint) /\ ValidSchedule(S[k])
  BY EligibleSchedules DEF EligibleRows
<1>2. FiringBreakpoints(S, K, q, v, FEE_BPS_PINNED) # {}
  BY DEF Fires
<1> HIDE DEF S, K, q, v
<1>3. ClearingPrice(S, K, q, v, FEE_BPS_PINNED) \in 1 .. MAX_UNIT_PRICE
  BY <1>1, <1>2, ClearingPriceInRange
<1> QED
  BY <1>3 DEF PriceOf, S, K, q, v

\* What an allocated row pays is within the child's worst case, which its
\* budget and its user's means cover.
LEMMA AllocatedRow ==
  ASSUME IInv, NEW p \in DOMAIN pools, IsOpen(p), NEW price \in Nat,
         NEW i \in Allocations(p, price)
  PROVE  LET m == members[p][i]
             a == PoolTerms[p].asset
         IN  /\ i \in DOMAIN members[p]
             /\ m \in DOMAIN mandates /\ m \in MembersOf(p)
             /\ IsEligible(p, m)
             /\ Legs(p, price)[i] = ChargeOf(m, price)
             /\ ChargeOf(m, price) \in Nat
             /\ ChargeOf(m, price) <= Remaining(m)
             /\ ChargeOf(m, price) <= Allowed(UserOf(m), a)
             /\ ChargeOf(m, price) <= balance[a][UserOf(m)]
             /\ authorized[a][UserOf(m)]
<1> PICK m : m = members[p][i]
  OBVIOUS
<1> PICK a : a = PoolTerms[p].asset
  OBVIOUS
<1>1. i \in DOMAIN members[p] /\ IsEligible(p, m)
  BY DEF Allocations, EligibleRows
<1>2. m \in DOMAIN mandates /\ m \in MembersOf(p)
  BY <1>1, RowsAgree
<1>3. /\ ScheduleOf(m) \in Seq(SchedulePoint) /\ ValidSchedule(ScheduleOf(m))
      /\ Schedules(p)[i] = ScheduleOf(m)
      /\ Terms(m).asset = a
  BY <1>1, EligibleSchedules
<1>4. Legs(p, price)[i] = ChargeOf(m, price)
  BY <1>3 DEF Legs, ChargeOf
<1> PICK wc : wc = WorstCase(ScheduleOf(m))
  OBVIOUS
<1>5. /\ ChargeOf(m, price) \in Nat /\ wc \in Nat
      /\ ChargeOf(m, price) <= wc
  BY <1>3, LegWithinWorstCase, WorstCaseIsGreatest DEF ChargeOf
<1>6. /\ Remaining(m) >= wc
      /\ Allowed(UserOf(m), a) >= wc
      /\ balance[a][UserOf(m)] >= wc
      /\ authorized[a][UserOf(m)]
  BY <1>1 DEF IsEligible, CanPay
<1>7. /\ UserOf(m) \in Users /\ a \in Assets
      /\ Remaining(m) \in Int
  BY <1>2, <1>3, MandateTypes DEF IInv, Remaining
<1>8. Allowed(UserOf(m), a) \in Nat /\ balance[a][UserOf(m)] \in Nat
  <2>1. TypeOK
    BY DEF IInv
  <2>2. balance[a][UserOf(m)] \in Nat
    BY <1>7, <2>1 DEF TypeOK
  <2> QED
    BY <1>7, <2>1, <2>2, AllowedTypes
<1> QED
  BY <1>1, <1>2, <1>4, <1>5, <1>6, <1>7, <1>8

\* A member has at most one allocated row: what the transfers made for it add
\* up to is what the effects loop charges it, and zero for everybody else.
LEMMA PaidForIsCharge ==
  ASSUME IInv, NEW p \in DOMAIN pools, IsOpen(p), NEW price \in Nat, NEW m
  PROVE  PaidFor(p, price, m) = IF m \in Winners(p, price) THEN ChargeOf(m, price)
                                                            ELSE 0
<1> DEFINE R == {i \in Allocations(p, price) : members[p][i] = m}
<1>1. PaidFor(p, price, m) = Total(Legs(p, price), R)
  BY DEF PaidFor
<1>2. CASE m \in Winners(p, price)
  <2>1. PICK i \in Allocations(p, price) : members[p][i] = m
    BY <1>2 DEF Winners
  <2>2. R = {i}
    <3>1. \A j \in Allocations(p, price) : j \in DOMAIN members[p]
      BY DEF Allocations, EligibleRows
    <3>2. \A j \in R : j = i
      BY <2>1, <3>1 DEF IInv, OneChildPerUser
    <3> QED
      BY <2>1, <3>2
  <2>3. Legs(p, price)[i] = ChargeOf(m, price) /\ ChargeOf(m, price) \in Int
    BY <2>1, AllocatedRow
  <2>4. Total(Legs(p, price), {i}) = ChargeOf(m, price)
    BY <2>3, TotalOfOne
  <2> QED
    BY <1>1, <1>2, <2>2, <2>4
<1>3. CASE m \notin Winners(p, price)
  <2>1. R = {}
    BY <1>3 DEF Winners
  <2> QED
    BY <1>1, <1>3, <2>1, TotalOfNone
<1> QED
  BY <1>2, <1>3

\* A user has at most one allocated row: what the transfers draw on it is a
\* single leg, within its allowance and its balance.
LEMMA DebitWithinMeans ==
  ASSUME IInv, NEW p \in DOMAIN pools, p \in PoolIds, IsOpen(p),
         NEW price \in Nat, NEW u \in Users
  PROVE  /\ DebitOf(p, price, u) \in Nat
         /\ DebitOf(p, price, u) <= Allowed(u, PoolTerms[p].asset)
         /\ DebitOf(p, price, u) <= allowance[PoolTerms[p].asset][u]
         /\ DebitOf(p, price, u) <= balance[PoolTerms[p].asset][u]
<1> DEFINE R == RowsOfUser(p, price, u)
<1>1. DebitOf(p, price, u) = Total(Legs(p, price), R)
  BY DEF DebitOf
<1>2. PoolTerms[p].asset \in Assets
  BY CompositeAssumption DEF PoolParams
<1>3. /\ Allowed(u, PoolTerms[p].asset) \in Nat
      /\ Allowed(u, PoolTerms[p].asset) <= allowance[PoolTerms[p].asset][u]
      /\ allowance[PoolTerms[p].asset][u] \in Nat
      /\ balance[PoolTerms[p].asset][u] \in Nat
  <2>1. TypeOK
    BY DEF IInv
  <2>2. /\ allowance[PoolTerms[p].asset][u] \in Nat
        /\ balance[PoolTerms[p].asset][u] \in Nat
    BY <1>2, <2>1 DEF TypeOK
  <2> QED
    BY <1>2, <2>1, <2>2, AllowedTypes
<1>4. CASE R = {}
  <2>1. DebitOf(p, price, u) = 0
    BY <1>1, <1>4, TotalOfNone
  <2> QED
    BY <1>3, <2>1
<1>5. CASE R # {}
  <2>1. PICK i \in Allocations(p, price) : UserOf(members[p][i]) = u
    BY <1>5 DEF RowsOfUser
  <2>2. R = {i}
    <3>1. \A j \in Allocations(p, price) : j \in DOMAIN members[p]
      BY DEF Allocations, EligibleRows
    <3>2. \A j \in R : j = i
      BY <2>1, <3>1 DEF IInv, OneChildPerUser, RowsOfUser
    <3> QED
      BY <2>1, <3>2 DEF RowsOfUser
  <2>3. /\ Legs(p, price)[i] \in Nat
        /\ Legs(p, price)[i] <= Allowed(u, PoolTerms[p].asset)
        /\ Legs(p, price)[i] <= balance[PoolTerms[p].asset][u]
    BY <2>1, AllocatedRow
  <2>4. Total(Legs(p, price), {i}) = Legs(p, price)[i]
    BY <2>3, TotalOfOne
  <2> QED
    BY <1>1, <1>3, <2>2, <2>3, <2>4
<1> QED
  BY <1>4, <1>5

LEMMA CapturePoolKeeps ==
  ASSUME IInv, NEW p \in PoolIds, CapturePool(p)
  PROVE  IInv'
<1>1. IsOpen(p) /\ p \in DOMAIN pools /\ Fires(p)
  BY DEF CapturePool, Closable, IsOpen
<1> PICK price : price = PriceOf(p)
  OBVIOUS
<1> PICK a : a = PoolTerms[p].asset
  OBVIOUS
<1>2. /\ CountersAdvance(p, price)
      /\ TransfersSucceed(p, price)
      /\ mandates' = [k \in DOMAIN mandates |->
           IF k \notin MembersOf(p) \/ ~IsCommitted(k) THEN mandates[k]
           ELSE IF k \in Winners(p, price) THEN Captured(k, price)
           ELSE [mandates[k] EXCEPT !.pool_state = "Released"]]
      /\ balance' = [balance EXCEPT ![a] =
           [u \in Users |-> @[u] - DebitOf(p, price, u)]]
      /\ allowance' = [allowance EXCEPT ![a] =
           [u \in Users |-> @[u] - DebitOf(p, price, u)]]
      /\ paid' = [k \in MandateIds |-> paid[k] + PaidFor(p, price, k)]
      /\ usedSeqs' = [k \in MandateIds |->
           IF k \in Winners(p, price) THEN usedSeqs[k] \cup {mandates[k].seq}
                                      ELSE usedSeqs[k]]
      /\ pools' = [pools EXCEPT ![p].status = "Cleared"]
      /\ UNCHANGED <<now, adminVars, members, approvedUntil, authorized>>
  BY DEF CapturePool
<1>3. price \in Nat
  BY <1>1, PriceInRange, ScheduleCaps
<1>4. \A k \in DOMAIN mandates : k \in MembersOf(p) => IsCommitted(k)
  BY <1>1 DEF IInv, MembershipAgrees
\* A winner is a committed, active member that can pay its charge.
<1>5. ASSUME NEW k \in Winners(p, price)
      PROVE  /\ k \in DOMAIN mandates /\ k \in MembersOf(p)
             /\ mandates[k].status = "Active"
             /\ ChargeOf(k, price) \in Nat
             /\ ChargeOf(k, price) <= Remaining(k)
  <2>1. PICK i \in Allocations(p, price) : members[p][i] = k
    BY DEF Winners
  <2> QED
    BY <1>1, <1>3, <2>1, AllocatedRow DEF IsEligible
<1>6. DOMAIN mandates' = DOMAIN mandates
  BY <1>2
\* What happens to each mandate.
<1>7. ASSUME NEW k \in DOMAIN mandates
      PROVE  /\ mandates'[k] \in Mandate
             /\ mandates'[k].terms = mandates[k].terms
             /\ IF k \in MembersOf(p) THEN mandates'[k].pool_state # "Committed"
                                       ELSE mandates'[k] = mandates[k]
             /\ k \notin Winners(p, price) =>
                  /\ mandates'[k].spent = mandates[k].spent
                  /\ mandates'[k].seq = mandates[k].seq
                  /\ mandates'[k].status = mandates[k].status
             /\ k \in Winners(p, price) =>
                  /\ mandates'[k].spent = mandates[k].spent + ChargeOf(k, price)
                  /\ mandates'[k].seq = mandates[k].seq + 1
                  /\ mandates'[k].status =
                       IF mandates[k].spent + ChargeOf(k, price) = Terms(k).max_amount
                       THEN "Exhausted" ELSE "Active"
  <2>1. mandates[k] \in Mandate
    BY MandateTypes DEF IInv
  <2>2. CASE k \notin MembersOf(p)
    <3>1. mandates'[k] = mandates[k]
      BY <1>2, <2>2
    <3> QED
      BY <1>5, <2>1, <2>2, <3>1
  <2>3. CASE k \in MembersOf(p) /\ k \notin Winners(p, price)
    <3>1. mandates'[k] = [mandates[k] EXCEPT !.pool_state = "Released"]
      BY <1>2, <1>4, <2>3
    <3> QED
      BY <2>1, <2>3, <3>1 DEF Mandate
  <2>4. CASE k \in Winners(p, price)
    <3> PICK spent : spent = mandates[k].spent + ChargeOf(k, price)
      OBVIOUS
    <3> PICK status : status = IF spent = Terms(k).max_amount THEN "Exhausted"
                                                              ELSE "Active"
      OBVIOUS
    <3>1. mandates'[k] = Captured(k, price)
      BY <1>2, <1>4, <1>5, <2>4
    <3>2. Captured(k, price) = [mandates[k] EXCEPT
             !.spent = spent, !.seq = mandates[k].seq + 1,
             !.pool_state = "Captured", !.status = status]
      BY <1>5, <2>1, <2>4 DEF Captured, Mandate
    <3>3. /\ spent \in Nat /\ status \in {"Active", "Exhausted"}
          /\ mandates[k].seq + 1 \in 0 .. MaxU32
      <4>1. mandates[k].seq \in 0 .. MaxU32 /\ mandates[k].spent \in Nat
        BY <2>1 DEF Mandate
      <4>2. mandates[k].seq < MaxU32
        BY <1>2, <2>4 DEF CountersAdvance
      <4> QED
        BY <1>5, <2>4, <4>1, <4>2, CompositeAssumption
    <3>4. mandates'[k] = [mandates[k] EXCEPT
             !.spent = spent, !.seq = mandates[k].seq + 1,
             !.pool_state = "Captured", !.status = status]
      BY <3>1, <3>2
    <3>5. /\ mandates'[k] \in Mandate
          /\ mandates'[k].terms = mandates[k].terms
          /\ mandates'[k].spent = spent
          /\ mandates'[k].seq = mandates[k].seq + 1
          /\ mandates'[k].pool_state = "Captured"
          /\ mandates'[k].status = status
      BY ONLY <2>1, <3>3, <3>4 DEF Mandate
    <3> QED
      BY <1>5, <2>4, <3>5
  <2> QED
    BY <2>2, <2>3, <2>4
<1>8. /\ DOMAIN pools' = DOMAIN pools
      /\ pools' \in [DOMAIN pools' -> Pool]
      /\ TermsHold' /\ MembershipAgrees' /\ OneChildPerUser'
  BY <1>1, <1>2, <1>6, <1>7, ClosingKeeps
<1>9. \A k \in MandateIds :
        /\ k \in Winners(p, price) =>
             /\ paid'[k] = paid[k] + ChargeOf(k, price)
             /\ usedSeqs'[k] = usedSeqs[k] \cup {mandates[k].seq}
        /\ k \notin Winners(p, price) =>
             /\ paid'[k] = paid[k]
             /\ usedSeqs'[k] = usedSeqs[k]
  <2>1. \A k \in MandateIds : paid[k] \in Nat
    BY DEF IInv, TypeOK
  <2> QED
    BY <1>1, <1>2, <1>3, <2>1, PaidForIsCharge
<1>10. TypeOK'
  <2>1. mandates' \in [DOMAIN mandates' -> Mandate]
    <3>1. mandates' = [k \in DOMAIN mandates' |-> mandates'[k]]
      BY <1>2
    <3> QED
      BY <1>6, <1>7, <3>1
  <2>2. a \in Assets
    BY CompositeAssumption DEF PoolParams
  <2>3. ASSUME NEW u \in Users
        PROVE  /\ balance[a][u] - DebitOf(p, price, u) \in Nat
               /\ allowance[a][u] - DebitOf(p, price, u) \in Nat
    <3>1. balance[a][u] \in Nat /\ allowance[a][u] \in Nat
      BY <2>2 DEF IInv, TypeOK
    <3>2. /\ DebitOf(p, price, u) \in Nat
          /\ DebitOf(p, price, u) <= allowance[a][u]
          /\ DebitOf(p, price, u) <= balance[a][u]
      BY <1>1, <1>3, DebitWithinMeans
    <3> QED
      BY <3>1, <3>2
  <2>4. balance' \in [Assets -> [Users -> Nat]]
    <3>1. balance \in [Assets -> [Users -> Nat]]
      BY DEF IInv, TypeOK
    <3>2. [u \in Users |-> balance[a][u] - DebitOf(p, price, u)] \in [Users -> Nat]
      BY <2>3
    <3> QED
      BY <1>2, <2>2, <3>1, <3>2
  <2>5. allowance' \in [Assets -> [Users -> Nat]]
    <3>1. allowance \in [Assets -> [Users -> Nat]]
      BY DEF IInv, TypeOK
    <3>2. [u \in Users |-> allowance[a][u] - DebitOf(p, price, u)] \in [Users -> Nat]
      BY <2>3
    <3> QED
      BY <1>2, <2>2, <3>1, <3>2
  <2>6. paid' \in [MandateIds -> Nat]
    <3>1. \A k \in MandateIds : paid[k] \in Nat
      BY DEF IInv, TypeOK
    <3>2. \A k \in MandateIds : paid'[k] \in Nat
      BY <1>5, <1>9, <3>1
    <3> QED
      BY <1>2, <3>2
  <2>7. usedSeqs' \in [MandateIds -> SUBSET Nat]
    <3>1. \A k \in MandateIds : usedSeqs[k] \in SUBSET Nat
      BY DEF IInv, TypeOK
    <3>2. \A k \in Winners(p, price) : mandates[k].seq \in Nat
      BY <1>5, MandateTypes DEF IInv
    <3>3. \A k \in MandateIds : usedSeqs'[k] \in SUBSET Nat
      BY <1>9, <3>1, <3>2
    <3> QED
      BY <1>2, <3>3
  <2> QED
    BY <1>2, <1>6, <1>8, <2>1, <2>4, <2>5, <2>6, <2>7
    DEF IInv, TypeOK, AdminTypeOK, adminVars
<1>11. NothingBeforeRegistration'
  BY <1>5, <1>6, <1>9 DEF IInv, NothingBeforeRegistration
<1>12. BooksMatchTransfers'
  <2> SUFFICES ASSUME NEW k \in DOMAIN mandates
               PROVE  /\ mandates'[k].spent = paid'[k]
                      /\ paid'[k] <= mandates'[k].terms.max_amount
                      /\ usedSeqs'[k] = 0 .. mandates'[k].seq - 1
                      /\ mandates'[k].status = "Exhausted"
                           => paid'[k] = mandates'[k].terms.max_amount
                      /\ mandates'[k].status = "Active"
                           => paid'[k] < mandates'[k].terms.max_amount
    BY <1>6 DEF BooksMatchTransfers, Terms
  <2>1. /\ mandates[k].spent = paid[k]
        /\ paid[k] <= Terms(k).max_amount
        /\ usedSeqs[k] = 0 .. mandates[k].seq - 1
        /\ mandates[k].status = "Exhausted" => paid[k] = Terms(k).max_amount
        /\ mandates[k].status = "Active" => paid[k] < Terms(k).max_amount
    BY DEF IInv, BooksMatchTransfers
  <2>2. /\ k \in MandateIds /\ Terms(k).max_amount \in Int
        /\ mandates[k].spent \in Nat /\ mandates[k].seq \in Nat
    BY MandateTypes DEF IInv
  <2>3. CASE k \notin Winners(p, price)
    BY <1>7, <1>9, <2>1, <2>2, <2>3 DEF Terms
  <2>4. CASE k \in Winners(p, price)
    <3> PICK c : c = ChargeOf(k, price)
      OBVIOUS
    <3>1. c \in Nat /\ mandates[k].spent + c <= Terms(k).max_amount
      BY <1>5, <2>2, <2>4 DEF Remaining
    <3>2. /\ mandates'[k].spent = mandates[k].spent + c
          /\ mandates'[k].seq = mandates[k].seq + 1
          /\ mandates'[k].terms.max_amount = Terms(k).max_amount
          /\ mandates'[k].status =
               IF mandates[k].spent + c = Terms(k).max_amount
               THEN "Exhausted" ELSE "Active"
      BY <1>7, <2>4 DEF Terms
    <3>3. paid'[k] = mandates[k].spent + c
      BY <1>9, <2>1, <2>2, <2>4
    <3>4. usedSeqs'[k] = (0 .. mandates[k].seq - 1) \cup {mandates[k].seq}
      BY <1>9, <2>1, <2>2, <2>4
    <3>5. usedSeqs'[k] = 0 .. mandates[k].seq + 1 - 1
      BY <2>2, <3>4
    <3> QED
      BY <2>2, <3>1, <3>2, <3>3, <3>5
  <2> QED
    BY <2>3, <2>4
<1> QED
  BY <1>8, <1>10, <1>11, <1>12 DEF IInv

-----------------------------------------------------------------------------
\* The token contracts and the admin plane leave the types alone.
LEMMA TokenTypes ==
  ASSUME IInv, TokenNext
  PROVE  TypeOK' /\ UNCHANGED <<poolVars, trail>>
<1> USE DEF IInv, TypeOK, AdminTypeOK, adminVars, poolVars, trail
<1>1. ASSUME NEW a \in Assets, NEW u \in Users, NEW n \in Allowances,
             NEW until \in Lapses, Approve(a, u, n, until)
      PROVE  TypeOK' /\ UNCHANGED <<poolVars, trail>>
  <2>1. n \in Nat /\ until \in Nat
    BY CompositeAssumption
  <2>2. allowance' \in [Assets -> [Users -> Nat]]
    BY <1>1, <2>1 DEF Approve
  <2>3. approvedUntil' \in [Assets -> [Users -> Nat]]
    BY <1>1, <2>1 DEF Approve
  <2> QED
    BY <1>1, <2>2, <2>3 DEF Approve
<1>2. ASSUME NEW a \in Assets, NEW u \in Users, NEW n \in Balances, SetBalance(a, u, n)
      PROVE  TypeOK' /\ UNCHANGED <<poolVars, trail>>
  <2>1. n \in Nat
    BY CompositeAssumption
  <2>2. balance' \in [Assets -> [Users -> Nat]]
    BY <1>2, <2>1 DEF SetBalance
  <2> QED
    BY <1>2, <2>2 DEF SetBalance
<1>3. ASSUME NEW a \in Assets, NEW x \in Freezable, NEW b \in BOOLEAN,
             SetAuthorized(a, x, b)
      PROVE  TypeOK' /\ UNCHANGED <<poolVars, trail>>
  <2>1. x \in Users \cup Merchants
    BY CompositeAssumption
  <2>2. authorized' \in [Assets -> [Users \cup Merchants -> BOOLEAN]]
    BY <1>3, <2>1 DEF SetAuthorized
  <2> QED
    BY <1>3, <2>2 DEF SetAuthorized
<1> QED
  BY <1>1, <1>2, <1>3 DEF TokenNext

\* The invariant is inductive.
LEMMA StepKeeps ==
  ASSUME IInv, [Next]_vars
  PROVE  IInv'
<1>1. ASSUME Tick \/ AdminNext \/ UNCHANGED <<now, adminVars>>,
             UNCHANGED <<poolVars, tokenVars, trail>>
      PROVE  IInv'
  <2>1. AdminTypeOK'
    BY <1>1, AdminTypesAreKept DEF IInv, TypeOK, Step
  <2>2. TypeOK'
    BY <1>1, <2>1 DEF IInv, TypeOK, poolVars, tokenVars, trail
  <2> QED
    BY <1>1, <2>2, EnvironmentKeeps
<1>2. CASE TokenNext
  BY <1>2, TokenTypes, EnvironmentKeeps
<1>3. ASSUME NEW p \in PoolIds, RegisterPool(p) \/ AbortPool(p) \/ CapturePool(p)
      PROVE  IInv'
  BY <1>3, RegisterPoolKeeps, AbortPoolKeeps, CapturePoolKeeps
<1>4. ASSUME NEW m \in MandateIds, NEW t \in TermsFor[m], RegisterMandate(m, t)
      PROVE  IInv'
  BY <1>4, RegisterMandateKeeps
<1>5. ASSUME NEW m \in MandateIds, RevokeMandate(m) \/ CommitChild(m)
      PROVE  IInv'
  BY <1>5, RevokeMandateKeeps, CommitChildKeeps
<1>6. ASSUME NEW p \in PoolIds, NEW m \in MandateIds, EvictChild(p, m)
      PROVE  IInv'
  BY <1>6, EvictChildKeeps
<1>7. ASSUME NEW m \in MandateIds, NEW amount \in Amounts, NEW n \in 0 .. MaxU32,
             ExecutePayment(m, amount, n)
      PROVE  IInv'
  BY <1>7, ExecutePaymentKeeps
<1>8. CASE UNCHANGED vars
  BY <1>1, <1>8 DEF vars
<1> QED
  BY <1>1, <1>2, <1>3, <1>4, <1>5, <1>6, <1>7, <1>8
  DEF Next, Environment, Registry

\* The strengthened invariant holds in every reachable state of the registry
\* (every operation of registry.rs, pool.rs, payment.rs and admin.rs).
THEOREM Invariance == Spec => []IInv
<1> QED
  BY InitEstablishes, StepKeeps, PTL DEF Spec

\* Types: balances, allowances, budgets and counters never leave their range,
\* and so no transfer the registry makes overdraws a user.
THEOREM TypesHold == Spec => []TypeOK
<1>1. IInv => TypeOK
  BY DEF IInv
<1> QED
  BY <1>1, Invariance, PTL

\* The member list, the count and the children's linkage never disagree.
THEOREM MembershipHolds == Spec => []MembershipAgrees
<1>1. IInv => MembershipAgrees
  BY DEF IInv
<1> QED
  BY <1>1, Invariance, PTL

\* What a mandate has spent is what was transferred under it, within its
\* budget, and each sequence number stands for one transfer.
THEOREM BooksHold == Spec => []BooksMatchTransfers
<1>1. IInv => BooksMatchTransfers
  BY DEF IInv
<1> QED
  BY <1>1, Invariance, PTL

-----------------------------------------------------------------------------
\* The guard of the effects loop is unreachable, and every transfer of a
\* firing pool succeeds, as soon as the merchant can receive.
LEMMA FiringPoolCanBeCaptured == IInv => NoCaptureWedge
<1> SUFFICES ASSUME IInv, NEW p \in DOMAIN pools, Closable(p), Fires(p),
                    authorized[PoolTerms[p].asset][PoolTerms[p].merchant]
             PROVE  WithinBudgets(p, PriceOf(p)) /\ TransfersSucceed(p, PriceOf(p))
  BY DEF NoCaptureWedge
<1> PICK price : price = PriceOf(p)
  OBVIOUS
<1>1. IsOpen(p) /\ p \in PoolIds
  BY DEF Closable, IInv, TypeOK
<1>2. price \in Nat
  BY <1>1, PriceInRange, ScheduleCaps
<1>3. WithinBudgets(p, price)
  <2> SUFFICES ASSUME NEW i \in Allocations(p, price)
               PROVE  ChargeOf(members[p][i], price) <= Remaining(members[p][i])
    BY DEF WithinBudgets, Winners
  <2> QED
    BY <1>1, <1>2, AllocatedRow
<1>4. TransfersSucceed(p, price)
  <2>1. \A i \in Allocations(p, price) :
          authorized[PoolTerms[p].asset][UserOf(members[p][i])]
    BY <1>1, <1>2, AllocatedRow
  <2>2. \A u \in Users : /\ DebitOf(p, price, u) <= Allowed(u, PoolTerms[p].asset)
                         /\ DebitOf(p, price, u) <= balance[PoolTerms[p].asset][u]
    BY <1>1, <1>2, DebitWithinMeans
  <2> QED
    BY <2>1, <2>2 DEF TransfersSucceed
<1> QED
  BY <1>3, <1>4

\* No member can make a firing pool impossible to capture.
THEOREM NoWedge == Spec => []NoCaptureWedge
  BY Invariance, FiringPoolCanBeCaptured, PTL

-----------------------------------------------------------------------------
(* The outcome of a pool, as its members see it: the clearing function,      *)
(* which works on the rows of the list, against Sells, which sums over the   *)
(* willing members.                                                          *)

\* register_pool refuses a pool without a threshold.
PoolsHaveThreshold ==
  \A p \in DOMAIN pools :
    PoolTerms[p].threshold_qty # 0 \/ PoolTerms[p].threshold_value # 0

\* The members whose consent and means stand.
Buyers(p) == {m \in MembersOf(p) : Willing(p, m)}

\* An open pool fires inside its window if it sells at some price, then at the
\* lowest such price, and to the buyers that want something at it.
OutcomeAgrees ==
  \A p \in DOMAIN pools : IsOpen(p) =>
    /\ Fires(p) <=> now <= WindowEnd(p) /\ \E q \in 1 .. MAX_UNIT_PRICE : Sells(p, q)
    /\ Fires(p) => /\ PriceOf(p) \in 1 .. MAX_UNIT_PRICE
                   /\ Sells(p, PriceOf(p))
                   /\ \A q \in 1 .. PriceOf(p) - 1 : ~Sells(p, q)
    /\ \A price \in Nat :
         Winners(p, price) = {m \in Buyers(p) : Demand(ScheduleOf(m), price) > 0}

\* A pool once registered has a threshold for good.
LEMMA ThresholdsStay == Spec => []PoolsHaveThreshold
<1>1. Init => PoolsHaveThreshold
  BY DEF Init, PoolsHaveThreshold
<1>2. ASSUME IInv, PoolsHaveThreshold, [Next]_vars
      PROVE  PoolsHaveThreshold'
  <2>1. ASSUME NEW p \in PoolIds, RegisterPool(p)
        PROVE  PoolsHaveThreshold'
    BY <1>2, <2>1 DEF RegisterPool, PoolsHaveThreshold
  <2>2. CASE DOMAIN pools' = DOMAIN pools
    BY <1>2, <2>2 DEF PoolsHaveThreshold
  <2>3. \A p \in PoolIds : AbortPool(p) \/ CapturePool(p) => DOMAIN pools' = DOMAIN pools
    BY DEF AbortPool, CapturePool
  <2>4. \A m \in MandateIds : RevokeMandate(m) \/ CommitChild(m)
          => DOMAIN pools' = DOMAIN pools
    BY DEF RevokeMandate, CommitChild, DropMember
  <2>5. \A p \in PoolIds, m \in MandateIds : EvictChild(p, m)
          => DOMAIN pools' = DOMAIN pools
    BY DEF EvictChild, DropMember
  <2>6. \A m \in MandateIds, t \in UNION {TermsFor[k] : k \in MandateIds} :
          RegisterMandate(m, t) => pools' = pools
    BY DEF RegisterMandate
  <2>7. \A m \in MandateIds, amount \in Amounts, n \in 0 .. MaxU32 :
          ExecutePayment(m, amount, n) => pools' = pools
    BY DEF ExecutePayment
  <2>8. Environment => pools' = pools
    BY DEF Environment, TokenNext, Approve, SetBalance, SetAuthorized, poolVars
  <2>9. UNCHANGED vars => pools' = pools
    BY DEF vars, poolVars
  <2> QED
    BY <1>2, <2>1, <2>2, <2>3, <2>4, <2>5, <2>6, <2>7, <2>8, <2>9 DEF Next, Registry
<1> QED
  BY <1>1, <1>2, Invariance, PTL DEF Spec

\* The filter of the close, restated by Willing, on the members of the list.
LEMMA EligibleIsWilling ==
  ASSUME IInv, NEW p \in DOMAIN pools, IsOpen(p), NEW i \in DOMAIN members[p]
  PROVE  i \in EligibleRows(p) <=> Willing(p, members[p][i])
<1> PICK m : m = members[p][i]
  OBVIOUS
<1>1. m \in DOMAIN mandates /\ IsCommitted(m) /\ Terms(m).pool_id = p
  BY RowsAgree
<1>2. p # NoPool
  BY CompositeAssumption DEF IInv, TypeOK
<1>3. ValidSchedule(ScheduleOf(m)) /\ ScheduleOf(m) \in Seq(SchedulePoint)
  BY <1>1, <1>2, PoolOfMandate, MandateTypes DEF IInv
<1> PICK wc : wc = WorstCase(ScheduleOf(m))
  OBVIOUS
<1>4. wc \in Nat
  BY <1>3, WorstCaseIsGreatest
<1>5. mandates[m].spent = paid[m] /\ paid[m] \in Nat /\ Terms(m).max_amount \in Int
  BY <1>1, MandateTypes DEF IInv, BooksMatchTransfers
<1>6. Remaining(m) >= wc <=> paid[m] + wc <= Terms(m).max_amount
  BY <1>4, <1>5 DEF Remaining
<1> QED
  BY <1>1, <1>6 DEF EligibleRows, IsEligible, Willing

\* The rows of the eligible are the buyers, each once.
LEMMA RowsAreBuyers ==
  ASSUME IInv, NEW p \in DOMAIN pools, IsOpen(p)
  PROVE  /\ IsFiniteSet(EligibleRows(p)) /\ IsFiniteSet(Buyers(p))
         /\ \A i \in EligibleRows(p) : members[p][i] \in Buyers(p)
         /\ \A i, j \in EligibleRows(p) : members[p][i] = members[p][j] => i = j
         /\ \A m \in Buyers(p) : \E i \in EligibleRows(p) : members[p][i] = m
         /\ \A m \in Buyers(p) : /\ ScheduleOf(m) \in Seq(SchedulePoint)
                                 /\ ValidSchedule(ScheduleOf(m))
<1> PICK K : K = EligibleRows(p)
  OBVIOUS
<1>1. p \in PoolIds
  BY DEF IInv, TypeOK
<1>2. DOMAIN members[p] = 1 .. Len(members[p]) /\ Len(members[p]) \in Nat
  BY <1>1, MemberTypes DEF IInv
<1>3. K \in SUBSET (1 .. Len(members[p]))
  BY <1>2 DEF EligibleRows
<1>4. IsFiniteSet(K)
  <2>1. IsFiniteSet(1 .. Len(members[p]))
    BY <1>2, FS_Interval
  <2> QED
    BY <1>3, <2>1, FS_Subset
<1>5. \A i \in K : members[p][i] \in Buyers(p)
  BY EligibleIsWilling DEF EligibleRows, Buyers, MembersOf
<1>6. \A i, j \in K : members[p][i] = members[p][j] => i = j
  BY DEF IInv, OneChildPerUser, EligibleRows
<1>7. \A m \in Buyers(p) : \E i \in K : members[p][i] = m
  <2> SUFFICES ASSUME NEW m \in Buyers(p)
               PROVE  \E i \in K : members[p][i] = m
    OBVIOUS
  <2>1. PICK i \in DOMAIN members[p] : members[p][i] = m
    BY DEF Buyers, MembersOf
  <2>2. i \in EligibleRows(p)
    BY <2>1, EligibleIsWilling DEF Buyers
  <2> QED
    BY <2>1, <2>2
<1>8. IsFiniteSet(Buyers(p))
  <2> DEFINE h == [i \in K |-> members[p][i]]
  <2>1. h \in Surjection(K, Buyers(p))
    BY <1>5, <1>7 DEF Surjection
  <2> QED
    BY <1>4, <2>1, FS_Surjection
<1>9. \A m \in Buyers(p) : /\ ScheduleOf(m) \in Seq(SchedulePoint)
                           /\ ValidSchedule(ScheduleOf(m))
  <2> SUFFICES ASSUME NEW m \in Buyers(p)
               PROVE  /\ ScheduleOf(m) \in Seq(SchedulePoint)
                      /\ ValidSchedule(ScheduleOf(m))
    OBVIOUS
  <2>1. PICK i \in DOMAIN members[p] : members[p][i] = m
    BY DEF Buyers, MembersOf
  <2> QED
    BY <2>1, EligibleSchedules
<1> QED
  BY <1>4, <1>5, <1>6, <1>7, <1>8, <1>9

\* Summed over the rows or over the members, it is the same.
LEMMA SellsIsMeeting ==
  ASSUME IInv, PoolsHaveThreshold, NEW p \in DOMAIN pools, IsOpen(p), NEW q \in Nat
  PROVE  Sells(p, q) <=>
           MeetsThresholds(Schedules(p), EligibleRows(p), q,
                           PoolTerms[p].threshold_qty,
                           PoolTerms[p].threshold_value, FEE_BPS_PINNED)
<1> DEFINE K == EligibleRows(p)
           S == Buyers(p)
           h == [i \in K |-> members[p][i]]
           rowQty == [i \in K |-> Demand(Schedules(p)[i], q)]
           rowNet == [i \in K |-> NetLeg(Demand(Schedules(p)[i], q), q, FEE_BPS_PINNED)]
           qty == [m \in S |-> Demand(ScheduleOf(m), q)]
           net == [m \in S |-> q * Demand(ScheduleOf(m), q)]
<1>1. /\ IsFiniteSet(K) /\ IsFiniteSet(S)
      /\ h \in [K -> S]
      /\ \A i, j \in K : h[i] = h[j] => i = j
      /\ \A m \in S : \E i \in K : h[i] = m
      /\ \A m \in S : Demand(ScheduleOf(m), q) \in Nat
  <2>1. /\ \A i \in K : members[p][i] \in S
        /\ \A i, j \in K : members[p][i] = members[p][j] => i = j
        /\ \A m \in S : \E i \in K : members[p][i] = m
        /\ IsFiniteSet(K) /\ IsFiniteSet(S)
        /\ \A m \in S : ScheduleOf(m) \in Seq(SchedulePoint)
    BY RowsAreBuyers
  <2> HIDE DEF K, S
  <2> QED
    BY <2>1, DemandIsNat
<1>2. ASSUME NEW i \in K
      PROVE  /\ rowQty[i] \in Int /\ rowQty[i] = qty[h[i]]
             /\ rowNet[i] \in Int /\ rowNet[i] = net[h[i]]
  <2> PICK m : m = members[p][i]
    OBVIOUS
  <2>1. h[i] = m /\ m \in S
    BY <1>1
  <2>2. Schedules(p)[i] = ScheduleOf(m)
    BY EligibleSchedules DEF EligibleRows
  <2> PICK d : d = Demand(ScheduleOf(m), q)
    OBVIOUS
  <2>3. d \in Nat
    BY <1>1, <2>1
  <2>4. NetLeg(d, q, 0) = q * d /\ q * d \in Nat
    <3>1. q * d \in Nat /\ (q * d) * 0 = 0
      BY <2>3, ProductsAreMonotonic
    <3>2. 0 \div BPS_DENOM = 0
      BY BpsDenomPositive
    <3> QED
      BY <3>1, <3>2 DEF NetLeg, FeeOf
  <2>5. /\ rowQty[i] = d /\ rowNet[i] = NetLeg(d, q, 0)
        /\ qty[h[i]] = d /\ net[h[i]] = q * d
    BY <2>1, <2>2 DEF FEE_BPS_PINNED
  <2> QED
    BY <2>3, <2>4, <2>5
<1> HIDE DEF K, S, h, rowQty, rowNet, qty, net
<1>3. Total(rowQty, K) = Total(qty, S)
  BY <1>1, <1>2, TotalRenamed
<1>4. Total(rowNet, K) = Total(net, S)
  BY <1>1, <1>2, TotalRenamed
<1>5. /\ Total(rowQty, K) = TotalQty(Schedules(p), EligibleRows(p), q)
      /\ Total(rowNet, K) = NetValue(Schedules(p), EligibleRows(p), q, FEE_BPS_PINNED)
  BY DEF TotalQty, NetValue, rowQty, rowNet, K
<1>6. Sells(p, q) <=> /\ Total(qty, S) >= PoolTerms[p].threshold_qty
                      /\ Total(net, S) >= PoolTerms[p].threshold_value
                      /\ \E m \in S : Demand(ScheduleOf(m), q) > 0
  BY DEF Sells, Buyers, S, qty, net
<1>7. ASSUME Total(qty, S) >= PoolTerms[p].threshold_qty,
             Total(net, S) >= PoolTerms[p].threshold_value
      PROVE  \E m \in S : Demand(ScheduleOf(m), q) > 0
  <2> SUFFICES ASSUME \A m \in S : ~(Demand(ScheduleOf(m), q) > 0)
               PROVE  FALSE
    OBVIOUS
  <2>1. \A m \in S : Demand(ScheduleOf(m), q) = 0
    BY <1>1
  <2>2. \A m \in S : qty[m] = 0 /\ net[m] = 0
    <3>1. q * 0 = 0
      OBVIOUS
    <3> QED
      BY <2>1, <3>1 DEF qty, net
  <2>3. Total(qty, S) = 0 /\ Total(net, S) = 0
    BY <1>1, <2>2, TotalOfZeros
  <2>4. PoolTerms[p].threshold_qty \in Nat /\ PoolTerms[p].threshold_value \in Nat
    BY CompositeAssumption DEF PoolParams, IInv, TypeOK
  <2> QED
    BY <1>7, <2>3, <2>4 DEF PoolsHaveThreshold
<1> QED
  BY <1>3, <1>4, <1>5, <1>6, <1>7 DEF MeetsThresholds

LEMMA OutcomeOfPool == IInv /\ PoolsHaveThreshold => OutcomeAgrees
<1> SUFFICES ASSUME IInv, PoolsHaveThreshold, NEW p \in DOMAIN pools, IsOpen(p)
             PROVE  /\ Fires(p) <=> /\ now <= WindowEnd(p)
                                    /\ \E q \in 1 .. MAX_UNIT_PRICE : Sells(p, q)
                    /\ Fires(p) => /\ PriceOf(p) \in 1 .. MAX_UNIT_PRICE
                                   /\ Sells(p, PriceOf(p))
                                   /\ \A q \in 1 .. PriceOf(p) - 1 : ~Sells(p, q)
                    /\ \A price \in Nat :
                         Winners(p, price)
                           = {m \in Buyers(p) : Demand(ScheduleOf(m), price) > 0}
  BY DEF OutcomeAgrees
<1> DEFINE S == Schedules(p)
           K == EligibleRows(p)
           tq == PoolTerms[p].threshold_qty
           tv == PoolTerms[p].threshold_value
           Meets(q) == MeetsThresholds(S, K, q, tq, tv, FEE_BPS_PINNED)
<1>1. p \in PoolIds /\ tq \in Nat /\ tv \in Nat /\ (tq # 0 \/ tv # 0)
  BY CompositeAssumption DEF PoolParams, IInv, TypeOK, PoolsHaveThreshold
<1>2. IsFiniteSet(K)
  BY RowsAreBuyers
<1>3. \A k \in K : S[k] \in Seq(SchedulePoint) /\ ValidSchedule(S[k])
  BY EligibleSchedules DEF EligibleRows
<1>4. FEE_BPS_PINNED \in 0 .. BPS_DENOM
  BY BpsDenomPositive DEF FEE_BPS_PINNED
<1>5. \A q \in Nat : Sells(p, q) <=> Meets(q)
  BY SellsIsMeeting
<1>6. Fires(p) <=> now <= WindowEnd(p) /\ FiringBreakpoints(S, K, tq, tv, FEE_BPS_PINNED) # {}
  BY DEF Fires
<1>7. PriceOf(p) = ClearingPrice(S, K, tq, tv, FEE_BPS_PINNED)
  BY DEF PriceOf
<1> HIDE DEF S, K, tq, tv
<1>8. ClearingCall(S, K, tq, tv, FEE_BPS_PINNED)
  BY <1>1, <1>2, <1>3, <1>4 DEF ClearingCall
<1>9. /\ FiringBreakpoints(S, K, tq, tv, FEE_BPS_PINNED) # {} <=>
           \E q \in 1 .. MAX_UNIT_PRICE : Meets(q)
      /\ FiringBreakpoints(S, K, tq, tv, FEE_BPS_PINNED) # {} =>
           /\ PriceOf(p) \in 1 .. MAX_UNIT_PRICE
           /\ Meets(PriceOf(p))
           /\ \A q \in 1 .. PriceOf(p) - 1 : ~Meets(q)
  BY <1>7, <1>8, ClearsAtLowestPrice
<1>10. \A q \in 1 .. MAX_UNIT_PRICE : q \in Nat
  BY ScheduleCaps
<1>11. \A price \in 1 .. MAX_UNIT_PRICE : \A q \in 1 .. price - 1 : q \in Nat
  BY ScheduleCaps
<1>12. ASSUME NEW price \in Nat
       PROVE  Winners(p, price) = {m \in Buyers(p) : Demand(ScheduleOf(m), price) > 0}
  <2>1. ASSUME NEW m \in Winners(p, price)
        PROVE  m \in Buyers(p) /\ Demand(ScheduleOf(m), price) > 0
    <3>1. PICK i \in Allocations(p, price) : members[p][i] = m
      BY DEF Winners
    <3>2. i \in EligibleRows(p) /\ i \in DOMAIN members[p]
      BY DEF Allocations, EligibleRows
    <3>3. Schedules(p)[i] = ScheduleOf(m)
      BY <3>1, <3>2, EligibleSchedules
    <3>4. Demand(ScheduleOf(m), price) > 0
      BY <3>1, <3>3 DEF Allocations
    <3> QED
      BY <3>1, <3>2, <3>4, EligibleIsWilling DEF Buyers, MembersOf
  <2>2. ASSUME NEW m \in Buyers(p), Demand(ScheduleOf(m), price) > 0
        PROVE  m \in Winners(p, price)
    <3>1. PICK i \in DOMAIN members[p] : members[p][i] = m
      BY DEF Buyers, MembersOf
    <3>2. i \in EligibleRows(p)
      BY <3>1, EligibleIsWilling DEF Buyers
    <3>3. Schedules(p)[i] = ScheduleOf(m)
      BY <3>1, EligibleSchedules
    <3> QED
      BY <2>2, <3>1, <3>2, <3>3 DEF Winners, Allocations
  <2> QED
    BY <2>1, <2>2
<1> HIDE DEF Meets
<1> QED
  BY <1>5, <1>6, <1>9, <1>10, <1>11, <1>12

-----------------------------------------------------------------------------
(* What a step may do, proved from the inductive invariant: the action       *)
(* properties, and that every step is a step of the abstract specification   *)
(* SpendAuthority, or none.                                                  *)

\* Only a payment under m, or the capture of the pool m is a member of, moves
\* anything under m; and what moves is positive, alive and within the budget.
LEMMA WhoIsDebited ==
  ASSUME IInv, [Next]_vars, NEW m \in MandateIds, paid'[m] # paid[m]
  PROVE  /\ m \in DOMAIN mandates
         /\ mandates[m].status = "Active"
         /\ now < Terms(m).expiry
         /\ paid'[m] > paid[m]
         /\ \/ \E amount \in Amounts, n \in 0 .. MaxU32 : ExecutePayment(m, amount, n)
            \/ \E p \in PoolIds : CapturePool(p) /\ IsCommitted(m) /\ Terms(m).pool_id = p
<1>1. paid[m] \in Nat
  BY DEF IInv, TypeOK
<1>2. ASSUME NEW k \in MandateIds, NEW amount \in Amounts, NEW n \in 0 .. MaxU32,
             ExecutePayment(k, amount, n)
      PROVE  /\ k = m
             /\ m \in DOMAIN mandates
             /\ mandates[m].status = "Active"
             /\ now < Terms(m).expiry
             /\ paid'[m] > paid[m]
  <2>1. /\ k \in DOMAIN mandates /\ Check(k, amount)
        /\ paid' = [paid EXCEPT ![k] = @ + amount]
    BY <1>2 DEF ExecutePayment
  <2>2. k = m
    BY <2>1 DEF IInv, TypeOK
  <2>3. amount > 0 /\ amount \in Int
    BY <2>1, CompositeAssumption DEF Check
  <2>4. paid'[m] = paid[m] + amount
    BY <2>1, <2>2 DEF IInv, TypeOK
  <2> QED
    BY <1>1, <2>1, <2>2, <2>3, <2>4 DEF Check
<1>3. ASSUME NEW p \in PoolIds, CapturePool(p)
      PROVE  /\ m \in DOMAIN mandates
             /\ mandates[m].status = "Active"
             /\ now < Terms(m).expiry
             /\ paid'[m] > paid[m]
             /\ IsCommitted(m) /\ Terms(m).pool_id = p
  <2>1. IsOpen(p) /\ p \in DOMAIN pools /\ Fires(p)
    BY <1>3 DEF CapturePool, Closable, IsOpen
  <2> PICK price : price = PriceOf(p)
    OBVIOUS
  <2>2. price \in Nat /\ price > 0
    BY <2>1, PriceInRange, ScheduleCaps
  <2>3. paid'[m] = paid[m] + PaidFor(p, price, m)
    BY <1>3 DEF CapturePool
  <2>4. m \in Winners(p, price)
    <3> SUFFICES ASSUME m \notin Winners(p, price)
                 PROVE  FALSE
      OBVIOUS
    <3>1. PaidFor(p, price, m) = 0
      BY <2>1, <2>2, PaidForIsCharge
    <3> QED
      BY <1>1, <2>3, <3>1
  <2>5. PICK i \in Allocations(p, price) : members[p][i] = m
    BY <2>4 DEF Winners
  <2>6. /\ i \in DOMAIN members[p]
        /\ m \in DOMAIN mandates
        /\ IsEligible(p, m)
    BY <2>1, <2>2, <2>5, AllocatedRow
  <2>7. IsCommitted(m) /\ Terms(m).pool_id = p
    BY <2>1, <2>5, <2>6, RowsAgree
  <2>8. PaidFor(p, price, m) = price * Demand(ScheduleOf(m), price)
    BY <2>1, <2>2, <2>4, PaidForIsCharge DEF ChargeOf
  <2>9. Demand(ScheduleOf(m), price) \in Nat /\ Demand(ScheduleOf(m), price) > 0
    <3>1. Schedules(p)[i] = ScheduleOf(m) /\ ScheduleOf(m) \in Seq(SchedulePoint)
      BY <2>1, <2>5, <2>6, EligibleSchedules
    <3> QED
      BY <3>1, DemandIsNat DEF Allocations
  <2>10. PaidFor(p, price, m) > 0 /\ PaidFor(p, price, m) \in Nat
    <3> PICK d : d = Demand(ScheduleOf(m), price)
      OBVIOUS
    <3>1. d \in Nat /\ d >= 1 /\ price >= 1
      BY <2>2, <2>9
    <3>2. 1 * d \in Nat /\ 1 * d <= price * d /\ price * d \in Nat
      BY <2>2, <3>1, ProductsAreMonotonic
    <3> QED
      BY <2>8, <3>1, <3>2
  <2> QED
    BY <1>1, <2>3, <2>6, <2>7, <2>10 DEF IsEligible
<1>4. ~UNCHANGED paid
  OBVIOUS
<1>5. ~UNCHANGED trail /\ ~UNCHANGED vars
  BY <1>4 DEF trail, vars
<1>6. ~TokenNext
  BY <1>5 DEF TokenNext, Approve, SetBalance, SetAuthorized
<1>7. \A p \in PoolIds : ~RegisterPool(p) /\ ~AbortPool(p)
  BY <1>5 DEF RegisterPool, AbortPool
<1>8. \A k \in MandateIds :
        /\ ~RevokeMandate(k) /\ ~CommitChild(k)
        /\ \A t : ~RegisterMandate(k, t)
        /\ \A p : ~EvictChild(p, k)
  BY <1>5 DEF RevokeMandate, CommitChild, RegisterMandate, EvictChild
<1>9. \/ \E k \in MandateIds, amount \in Amounts, n \in 0 .. MaxU32 :
           ExecutePayment(k, amount, n)
      \/ \E p \in PoolIds : CapturePool(p)
  BY <1>5, <1>6, <1>7, <1>8 DEF Next, Environment, Registry
<1> QED
  BY <1>2, <1>3, <1>9

\* While a child is committed, only the close of its pool moves its money.
LEMMA StepReserves ==
  ASSUME IInv, [Next]_vars, NEW m \in DOMAIN mandates,
         IsCommitted(m), paid'[m] # paid[m]
  PROVE  LET p == Terms(m).pool_id
         IN  IsOpen(p) /\ ~IsOpen(p)' /\ now >= Deadline(p) /\ ~paused
<1>1. m \in MandateIds
  BY MandateTypes DEF IInv
<1>2. ASSUME NEW amount \in Amounts, NEW n \in 0 .. MaxU32, ExecutePayment(m, amount, n)
      PROVE  FALSE
  BY <1>2 DEF ExecutePayment, Check, IsCommitted
<1>3. PICK p \in PoolIds : CapturePool(p) /\ Terms(m).pool_id = p
  BY <1>1, <1>2, WhoIsDebited
<1>4. IsOpen(p) /\ now >= Deadline(p) /\ ~paused
  BY <1>3 DEF CapturePool, Closable
<1>5. Terms(m)' = Terms(m)
  <2>1. mandates[m] \in Mandate
    BY MandateTypes DEF IInv
  <2>2. PICK price : mandates' = [k \in DOMAIN mandates |->
           IF k \notin MembersOf(p) \/ ~IsCommitted(k) THEN mandates[k]
           ELSE IF k \in Winners(p, price) THEN Captured(k, price)
           ELSE [mandates[k] EXCEPT !.pool_state = "Released"]]
    BY <1>3 DEF CapturePool
  <2> QED
    BY <2>1, <2>2 DEF Captured, Terms, Mandate
<1>6. ~IsOpen(p)'
  <2>1. pools' = [pools EXCEPT ![p].status = "Cleared"]
    BY <1>3 DEF CapturePool
  <2>2. p \in DOMAIN pools /\ pools[p] \in Pool
    BY <1>4 DEF IsOpen, IInv, TypeOK
  <2>3. pools'[p].status = "Cleared"
    BY <2>1, <2>2 DEF Pool
  <2> QED
    BY <2>3 DEF IsOpen
<1> QED
  BY <1>3, <1>4, <1>5, <1>6

\* The money of a committed child is reserved for its pool's close.
THEOREM CommittedReserved == Spec => CommittedIsReserved
<1>1. IInv /\ [Next]_vars =>
        [\A m \in DOMAIN mandates :
           IsCommitted(m) /\ paid'[m] # paid[m] =>
             LET p == Terms(m).pool_id
             IN  IsOpen(p) /\ ~IsOpen(p)' /\ now >= Deadline(p) /\ ~paused]_vars
  BY StepReserves
<1> QED
  BY <1>1, Invariance, PTL DEF Spec, CommittedIsReserved

-----------------------------------------------------------------------------
\* Time passes by Tick alone.
LEMMA TimeStep ==
  ASSUME [Next]_vars, now' # now
  PROVE  Tick /\ UNCHANGED <<adminVars, poolVars, tokenVars, trail>>
<1>1. ~UNCHANGED vars
  BY DEF vars
<1>2. ~AdminNext
  BY DEF AdminNext, SetAdmin, Pause, Unpause, ScheduleUpgrade, CancelUpgrade,
         ExecuteUpgrade
<1>3. ~TokenNext
  BY DEF TokenNext, Approve, SetBalance, SetAuthorized
<1>4. ~Registry
  BY ZenonT(30) DEF Registry, RegisterPool, AbortPool, CapturePool, RegisterMandate,
         RevokeMandate, CommitChild, EvictChild, ExecutePayment
<1> QED
  BY <1>1, <1>2, <1>3, <1>4 DEF Next, Environment, Tick

\* A valid schedule asks for something: no lapsed allowance covers it.
LEMMA WorstCaseIsPositive ==
  ASSUME NEW s \in Seq(SchedulePoint), ValidSchedule(s)
  PROVE  WorstCase(s) \in Nat /\ WorstCase(s) >= 1
<1>1. 1 \in DOMAIN s
  BY DEF ValidSchedule
<1>2. s[1].unit_price \in Nat /\ s[1].unit_price >= 1
  BY <1>1, ScheduleCaps DEF ValidSchedule
<1>3. s[1].max_qty \in Nat /\ s[1].max_qty >= 1
  BY <1>1, ScheduleCaps DEF ValidSchedule
<1>4. 1 * 1 <= s[1].unit_price * s[1].max_qty
  BY <1>2, <1>3, ProductsAreMonotonic
<1>5. LegOf(s[1]) \in Nat /\ LegOf(s[1]) >= 1
  BY <1>2, <1>3, <1>4, ProductsAreMonotonic DEF LegOf
<1>6. WorstCase(s) \in Nat /\ LegOf(s[1]) <= WorstCase(s)
  BY <1>1, WorstCaseIsGreatest
<1> QED
  BY <1>5, <1>6

\* Inside the window every listed child is alive, so time takes out exactly
\* the children whose user's approval lapses.
LEMMA EligibleAfterTime ==
  ASSUME IInv, [Next]_vars, NEW p \in DOMAIN pools, IsOpen(p),
         now' # now, now' <= WindowEnd(p),
         NEW i \in DOMAIN members[p]
  PROVE  IsEligible(p, members[p][i])'
           <=> IsEligible(p, members[p][i]) /\ i \notin LapsingRows(p)
<1>1. Tick /\ UNCHANGED <<adminVars, poolVars, tokenVars, trail>>
  BY TimeStep
<1>2. now \in Nat /\ now' = now + 1
  BY <1>1 DEF Tick, IInv, TypeOK, AdminTypeOK
<1>3. p \in PoolIds /\ WindowEnd(p) \in Nat /\ PoolTerms[p].asset \in Assets
  <2>1. p \in PoolIds
    BY DEF IInv, TypeOK
  <2> QED
    BY <2>1, CompositeAssumption DEF WindowEnd, Deadline, PoolParams
<1>4. /\ mandates' = mandates /\ members' = members /\ balance' = balance
      /\ allowance' = allowance /\ approvedUntil' = approvedUntil
      /\ authorized' = authorized
  BY <1>1 DEF poolVars, tokenVars
<1> PICK m : m = members[p][i]
  OBVIOUS
<1> PICK u : u = UserOf(m)
  OBVIOUS
<1> PICK a : a = PoolTerms[p].asset
  OBVIOUS
<1> PICK wc : wc = WorstCase(ScheduleOf(m))
  OBVIOUS
<1>5. m \in DOMAIN mandates /\ Terms(m).pool_id = p
  BY RowsAgree
<1>6. wc \in Nat /\ wc >= 1
  BY EligibleSchedules, WorstCaseIsPositive
<1>7. now < Terms(m).expiry /\ now' < Terms(m).expiry
  <2>1. p # NoPool
    BY <1>3, CompositeAssumption
  <2>2. Terms(m).expiry > WindowEnd(p)
    BY <1>5, <2>1 DEF IInv, TermsHold
  <2>3. Terms(m).expiry \in Nat
    BY <1>5, MandateTypes DEF IInv, MandateParams
  <2> QED
    BY <1>2, <1>3, <2>2, <2>3
<1>8. /\ allowance[a][u] \in Nat /\ approvedUntil[a][u] \in Nat
  <2>1. u \in Users
    BY <1>5, MandateTypes DEF IInv
  <2> QED
    BY <1>3, <2>1 DEF IInv, TypeOK
\* What the contract reads of the allowance, before and after.
<1> PICK before : before = Allowed(u, a)
  OBVIOUS
<1> PICK after : after = IF now' <= approvedUntil[a][u] THEN allowance[a][u] ELSE 0
  OBVIOUS
<1>9. after >= wc <=> before >= wc /\ ~(approvedUntil[a][u] < now')
  BY <1>2, <1>6, <1>8 DEF Allowed
<1>10. IsEligible(p, m) <=>
         /\ IsCommitted(m) /\ mandates[m].status = "Active" /\ Remaining(m) >= wc
         /\ before >= wc /\ balance[a][u] >= wc /\ authorized[a][u]
  BY <1>7 DEF IsEligible, CanPay
<1>11. IsEligible(p, members[p][i])' <=>
         /\ IsCommitted(m) /\ mandates[m].status = "Active" /\ Remaining(m) >= wc
         /\ after >= wc /\ balance[a][u] >= wc /\ authorized[a][u]
  BY <1>4, <1>7
  DEF IsEligible, CanPay, Allowed, IsCommitted, Terms, Remaining, UserOf, ScheduleOf
<1>12. i \in LapsingRows(p) <=> IsEligible(p, m) /\ approvedUntil[a][u] < now'
  BY DEF LapsingRows, EligibleRows
<1> QED
  BY <1>9, <1>10, <1>11, <1>12

LEMMA StepOfTime ==
  ASSUME IInv, [Next]_vars, NEW p \in DOMAIN pools, IsOpen(p),
         now' # now, now' <= WindowEnd(p)
  PROVE  /\ EligibleRows(p)' = EligibleRows(p) \ LapsingRows(p)
         /\ LapsingRows(p) = {} => Preview(p)' = Preview(p)
<1>1. Tick /\ UNCHANGED <<adminVars, poolVars, tokenVars, trail>>
  BY TimeStep
<1>2. now \in Nat /\ now' = now + 1
  BY <1>1 DEF Tick, IInv, TypeOK, AdminTypeOK
<1>3. WindowEnd(p) \in Nat
  BY CompositeAssumption DEF WindowEnd, Deadline, PoolParams, IInv, TypeOK
<1>4. mandates' = mandates /\ members' = members
  BY <1>1 DEF poolVars
<1>5. EligibleRows(p)' = EligibleRows(p) \ LapsingRows(p)
  <2>1. \A i \in DOMAIN members[p] :
          IsEligible(p, members[p][i])'
            <=> IsEligible(p, members[p][i]) /\ i \notin LapsingRows(p)
    BY EligibleAfterTime
  <2>2. EligibleRows(p)' = {i \in DOMAIN members[p] : IsEligible(p, members[p][i])'}
    BY <1>4 DEF EligibleRows
  <2> QED
    BY <2>1, <2>2 DEF EligibleRows
<1>6. ASSUME LapsingRows(p) = {}
      PROVE  Preview(p)' = Preview(p)
  <2>1. EligibleRows(p)' = EligibleRows(p)
    BY <1>5, <1>6
  <2>2. Schedules(p)' = Schedules(p)
    BY <1>4 DEF Schedules, ScheduleOf, Terms
  <2>3. now <= WindowEnd(p) /\ WindowEnd(p)' = WindowEnd(p)
    BY <1>2, <1>3 DEF WindowEnd, Deadline
  <2>4. Fires(p)' = Fires(p)
    BY <2>1, <2>2, <2>3 DEF Fires
  <2>5. PriceOf(p)' = PriceOf(p)
    BY <2>1, <2>2 DEF PriceOf
  <2>6. Winners(p, PriceOf(p))' = Winners(p, PriceOf(p))
    BY <1>4, <2>1, <2>2, <2>5 DEF Winners, Allocations
  <2> QED
    BY <2>4, <2>5, <2>6 DEF Preview
<1> QED
  BY <1>5, <1>6

\* No mandate's expiry gives the keeper that closes a pool a choice: what a
\* later ledger can change is the loss of those whose own approval lapses.
THEOREM ExpiryGivesNoChoice == Spec => ExpiryIsNoLever
<1>1. IInv /\ [Next]_vars =>
        [\A p \in DOMAIN pools :
           IsOpen(p) /\ now' # now /\ now >= Deadline(p) /\ now' <= WindowEnd(p)
             => /\ EligibleRows(p)' = EligibleRows(p) \ LapsingRows(p)
                /\ LapsingRows(p) = {} => Preview(p)' = Preview(p)]_vars
  BY StepOfTime
<1> QED
  BY <1>1, Invariance, PTL DEF Spec, ExpiryIsNoLever

-----------------------------------------------------------------------------
(* How a pool closes, proved from the invariant and the outcome its members  *)
(* see.                                                                      *)

\* An open pool fires exactly when it sells inside its window, and the price
\* it would clear at is the lowest at which it sells (clear, evaluated on the
\* rows of the member list).
THEOREM OutcomeHolds == Spec => []OutcomeAgrees
BY Invariance, ThresholdsStay, OutcomeOfPool, PTL

\* A pool leaves "Open" by its capture or by its abort.
LEMMA WhoCloses ==
  ASSUME IInv, [Next]_vars, NEW p \in DOMAIN pools, IsOpen(p)
  PROVE  /\ pools'[p].status = "Cleared" => CapturePool(p)
         /\ pools'[p].status = "Aborted" => AbortPool(p)
<1>1. pools \in [DOMAIN pools -> Pool] /\ pools[p] \in Pool /\ pools[p].status = "Open"
  BY DEF IsOpen, IInv, TypeOK
<1>2. CASE pools'[p].status = pools[p].status
  BY <1>1, <1>2
<1>3. ASSUME NEW r \in PoolIds, RegisterPool(r)
      PROVE  pools'[p].status = pools[p].status
  BY <1>3 DEF RegisterPool
<1>4. ASSUME NEW r \in PoolIds, AbortPool(r)
      PROVE  \/ r = p /\ pools'[p].status = "Aborted"
             \/ pools'[p].status = pools[p].status
  <2>1. pools' = [pools EXCEPT ![r].status = "Aborted"]
    BY <1>4 DEF AbortPool
  <2> QED
    BY <1>1, <2>1 DEF Pool
<1>5. ASSUME NEW r \in PoolIds, CapturePool(r)
      PROVE  \/ r = p /\ pools'[p].status = "Cleared"
             \/ pools'[p].status = pools[p].status
  <2>1. pools' = [pools EXCEPT ![r].status = "Cleared"]
    BY <1>5 DEF CapturePool
  <2> QED
    BY <1>1, <2>1 DEF Pool
<1>6. ASSUME NEW r, NEW m, DropMember(r, m)
      PROVE  pools'[p].status = pools[p].status
  BY <1>1, <1>6 DEF DropMember, Pool
<1>7. ASSUME NEW m \in MandateIds, CommitChild(m)
      PROVE  pools'[p].status = pools[p].status
  BY <1>1, <1>7 DEF CommitChild, Pool
<1>8. ASSUME pools' = pools
      PROVE  pools'[p].status = pools[p].status
  BY <1>8
<1>9. \A m \in MandateIds : RevokeMandate(m) =>
        pools' = pools \/ DropMember(Terms(m).pool_id, m)
  BY DEF RevokeMandate
<1>10. \A r \in PoolIds, m \in MandateIds : EvictChild(r, m) => DropMember(r, m)
  BY DEF EvictChild
<1>11. \A m \in MandateIds, t \in UNION {TermsFor[k] : k \in MandateIds} :
         RegisterMandate(m, t) => pools' = pools
  BY DEF RegisterMandate
<1>12. \A m \in MandateIds, amount \in Amounts, n \in 0 .. MaxU32 :
         ExecutePayment(m, amount, n) => pools' = pools
  BY DEF ExecutePayment
<1>13. Environment \/ UNCHANGED vars => pools' = pools
  BY DEF Environment, TokenNext, Approve, SetBalance, SetAuthorized, poolVars, vars
<1> QED
  BY <1>2, <1>3, <1>4, <1>5, <1>6, <1>7, <1>8, <1>9, <1>10, <1>11, <1>12, <1>13
  DEF Next, Registry

LEMMA CaptureIsUniform ==
  ASSUME IInv, OutcomeAgrees, NEW p \in DOMAIN pools, CapturePool(p)
  PROVE  /\ now \in Deadline(p) .. WindowEnd(p)
         /\ \E price \in 1 .. MAX_UNIT_PRICE :
              /\ Sells(p, price)
              /\ \A q \in 1 .. price - 1 : ~Sells(p, q)
              /\ \A m \in MandateIds :
                   paid'[m] - paid[m] =
                     IF m \in MembersOf(p) /\ Willing(p, m)
                     THEN price * Demand(ScheduleOf(m), price) ELSE 0
<1>1. IsOpen(p) /\ now >= Deadline(p) /\ Fires(p) /\ now <= WindowEnd(p)
  BY DEF CapturePool, Closable, Fires
<1>2. p \in PoolIds /\ now \in Nat /\ Deadline(p) \in Nat /\ WindowEnd(p) \in Nat
  BY CompositeAssumption DEF IInv, TypeOK, AdminTypeOK, PoolParams, Deadline, WindowEnd
<1> PICK price : price = PriceOf(p)
  OBVIOUS
<1>3. /\ price \in 1 .. MAX_UNIT_PRICE /\ price \in Nat
      /\ Sells(p, price)
      /\ \A q \in 1 .. price - 1 : ~Sells(p, q)
      /\ Winners(p, price) = {m \in Buyers(p) : Demand(ScheduleOf(m), price) > 0}
  BY <1>1, ScheduleCaps DEF OutcomeAgrees
<1>4. paid' = [m \in MandateIds |-> paid[m] + PaidFor(p, price, m)]
  BY DEF CapturePool
<1>5. ASSUME NEW m \in MandateIds
      PROVE  paid'[m] - paid[m] =
               IF m \in MembersOf(p) /\ Willing(p, m)
               THEN price * Demand(ScheduleOf(m), price) ELSE 0
  <2>1. paid[m] \in Nat
    BY DEF IInv, TypeOK
  <2>2. PaidFor(p, price, m) = IF m \in Winners(p, price) THEN ChargeOf(m, price) ELSE 0
    BY <1>1, <1>3, PaidForIsCharge
  <2>3. CASE m \in Buyers(p)
    <3> PICK d : d = Demand(ScheduleOf(m), price)
      OBVIOUS
    <3>1. d \in Nat
      <4>1. ScheduleOf(m) \in Seq(SchedulePoint)
        BY <1>1, <2>3, RowsAreBuyers
      <4> QED
        BY <1>3, <4>1, DemandIsNat
    <3>2. PaidFor(p, price, m) = price * d /\ price * d \in Nat
      <4>1. price * d \in Nat /\ price * 0 = 0
        BY <1>3, <3>1, ProductsAreMonotonic
      <4>2. m \in Winners(p, price) <=> d > 0
        BY <1>3, <2>3
      <4> QED
        BY <2>2, <3>1, <4>1, <4>2 DEF ChargeOf
    <3>3. paid'[m] - paid[m] = price * d
      BY <1>4, <2>1, <3>2
    <3> QED
      BY <2>3, <3>3 DEF Buyers
  <2>4. CASE m \notin Buyers(p)
    <3>1. PaidFor(p, price, m) = 0
      BY <1>3, <2>2, <2>4
    <3>2. paid'[m] - paid[m] = 0
      BY <1>4, <2>1, <3>1
    <3> QED
      BY <2>4, <3>2 DEF Buyers
  <2> QED
    BY <2>3, <2>4
<1> QED
  BY <1>1, <1>2, <1>3, <1>5

\* A pool that clears does so inside its window, at the lowest price at which
\* it sells, and at that price for every willing member and nobody else.
THEOREM PriceIsLowest == Spec => UniformLowestPrice
<1>1. IInv /\ OutcomeAgrees /\ [Next]_vars =>
        [\A p \in DOMAIN pools :
           IsOpen(p) /\ pools'[p].status = "Cleared" =>
             /\ now \in Deadline(p) .. WindowEnd(p)
             /\ \E price \in 1 .. MAX_UNIT_PRICE :
                  /\ Sells(p, price)
                  /\ \A q \in 1 .. price - 1 : ~Sells(p, q)
                  /\ \A m \in MandateIds :
                       paid'[m] - paid[m] =
                         IF m \in MembersOf(p) /\ Willing(p, m)
                         THEN price * Demand(ScheduleOf(m), price) ELSE 0]_vars
  BY WhoCloses, CaptureIsUniform
<1> QED
  BY <1>1, Invariance, OutcomeHolds, PTL DEF Spec, UniformLowestPrice

\* A pool is aborted only when it sells at no price, or too late.
THEOREM AbortIsEarned == Spec => AbortOnlyWhenUnsold
<1>1. ASSUME IInv, OutcomeAgrees, [Next]_vars, NEW p \in DOMAIN pools,
             IsOpen(p), pools'[p].status = "Aborted"
      PROVE  \/ now > WindowEnd(p)
             \/ now >= Deadline(p) /\ \A q \in 1 .. MAX_UNIT_PRICE : ~Sells(p, q)
  <2>1. Closable(p) /\ ~Fires(p)
    BY <1>1, WhoCloses DEF AbortPool
  <2>2. now \in Nat /\ WindowEnd(p) \in Nat
    BY CompositeAssumption, <1>1
    DEF IInv, TypeOK, AdminTypeOK, PoolParams, Deadline, WindowEnd
  <2> QED
    BY <1>1, <2>1, <2>2 DEF OutcomeAgrees, Closable
<1>2. IInv /\ OutcomeAgrees /\ [Next]_vars =>
        [\A p \in DOMAIN pools :
           IsOpen(p) /\ pools'[p].status = "Aborted" =>
             \/ now > WindowEnd(p)
             \/ now >= Deadline(p) /\ \A q \in 1 .. MAX_UNIT_PRICE : ~Sells(p, q)]_vars
  BY <1>1
<1> QED
  BY <1>2, Invariance, OutcomeHolds, PTL DEF Spec, AbortOnlyWhenUnsold

\* Whoever is evicted is no buyer, so the pool sells at the same prices to the
\* same buyers, before and after.
LEMMA EvictionKeepsBuyers ==
  ASSUME IInv, NEW p \in DOMAIN pools, NEW m \in MandateIds, EvictChild(p, m)
  PROVE  /\ IsOpen(p) /\ IsOpen(p)' /\ p \in DOMAIN pools'
         /\ Buyers(p)' = Buyers(p)
         /\ \A k \in Buyers(p) : ScheduleOf(k)' = ScheduleOf(k)
         /\ now' = now
<1>1. /\ IsOpen(p) /\ m \in DOMAIN mandates /\ Terms(m).pool_id = p
      /\ IsCommitted(m) /\ ~IsEligible(p, m)
      /\ members' = [members EXCEPT ![p] = Without(@, m)]
      /\ pools' = [pools EXCEPT ![p].member_count = OneFewer(@)]
      /\ mandates' = [mandates EXCEPT ![m].pool_state = "Released"]
      /\ UNCHANGED <<now, tokenVars, trail>>
  BY DEF EvictChild, DropMember
<1>2. p \in PoolIds /\ pools[p] \in Pool /\ mandates[m] \in Mandate
  BY <1>1 DEF IInv, TypeOK
<1>3. p \in DOMAIN pools' /\ IsOpen(p)'
  BY <1>1, <1>2 DEF IsOpen, Pool
<1>4. PICK j \in DOMAIN members[p] : members[p][j] = m
  BY <1>1, CommittedHasRow
<1>5. ~Willing(p, m)
  BY <1>1, <1>4, EligibleIsWilling DEF EligibleRows
<1>6. MembersOf(p)' = MembersOf(p) \ {m}
  <2> PICK list \in Seq(MandateIds) : list = members[p]
    BY <1>2 DEF IInv, TypeOK
  <2>1. j \in DOMAIN list /\ list[j] = m
    BY <1>4
  <2>2. \A i \in DOMAIN list : list[i] = list[j] => i = j
    BY <1>1, <1>4 DEF IInv, OneChildPerUser
  <2> PICK rest : rest = Without(list, m)
    OBVIOUS
  <2>3. /\ rest \in Seq(MandateIds) /\ Len(rest) = Len(list) - 1
        /\ \A i \in 1 .. Len(list) - 1 : rest[i] = IF i < j THEN list[i] ELSE list[i + 1]
    BY <2>1, <2>2, WithoutOnly
  <2>4. members'[p] = rest
    BY <1>1, <1>2 DEF IInv, TypeOK
  <2>5. DOMAIN rest = 1 .. Len(list) - 1 /\ DOMAIN list = 1 .. Len(list) /\ Len(list) \in Nat
    BY <2>3
  <2>6. ASSUME NEW i \in DOMAIN rest
        PROVE  rest[i] \in {list[k] : k \in DOMAIN list} \ {m}
    <3>1. PICK k \in DOMAIN list : rest[i] = list[k] /\ k # j
      <4>1. CASE i < j
        <5>1. i \in DOMAIN list /\ rest[i] = list[i] /\ i # j
          BY <2>1, <2>3, <2>5, <4>1
        <5> QED
          BY <5>1
      <4>2. CASE i >= j
        <5>1. i + 1 \in DOMAIN list /\ rest[i] = list[i + 1] /\ i + 1 # j
          BY <2>1, <2>3, <2>5, <4>2
        <5> QED
          BY <5>1
      <4> QED
        BY <2>1, <2>5, <4>1, <4>2
    <3> QED
      BY <2>1, <2>2, <3>1
  <2>7. ASSUME NEW i \in DOMAIN list, list[i] # m
        PROVE  \E k \in DOMAIN rest : rest[k] = list[i]
    <3>1. CASE i < j
      <4>1. i \in DOMAIN rest /\ rest[i] = list[i]
        BY <2>1, <2>3, <2>5, <3>1
      <4> QED
        BY <4>1
    <3>2. CASE i > j
      <4>1. i - 1 \in DOMAIN rest /\ rest[i - 1] = list[i]
        BY <2>1, <2>3, <2>5, <3>2
      <4> QED
        BY <4>1
    <3> QED
      BY <2>1, <2>5, <2>7, <3>1, <3>2
  <2> QED
    BY <2>4, <2>6, <2>7 DEF MembersOf
<1>7. \A k \in DOMAIN mandates : Terms(k)' = Terms(k) /\ mandates'[k].status = mandates[k].status
  BY <1>1, <1>2 DEF Terms, Mandate
<1>8. \A k \in MembersOf(p) : k \in DOMAIN mandates
  BY <1>1 DEF IInv, MembershipAgrees
<1>9. \A k \in MembersOf(p) : Willing(p, k)' <=> Willing(p, k)
  BY <1>1, <1>7, <1>8 DEF Willing, ScheduleOf, UserOf, CanPay, Allowed, tokenVars, trail
<1>10. Buyers(p)' = Buyers(p)
  BY <1>5, <1>6, <1>9 DEF Buyers
<1> QED
  BY <1>1, <1>3, <1>7, <1>8, <1>10 DEF Buyers, ScheduleOf

LEMMA EvictionKeepsOutcome ==
  ASSUME IInv, OutcomeAgrees, OutcomeAgrees', NEW p \in DOMAIN pools,
         NEW m \in MandateIds, EvictChild(p, m)
  PROVE  Preview(p)' = Preview(p)
<1>1. /\ IsOpen(p) /\ IsOpen(p)' /\ p \in DOMAIN pools'
      /\ Buyers(p)' = Buyers(p)
      /\ \A k \in Buyers(p) : ScheduleOf(k)' = ScheduleOf(k)
      /\ now' = now
  BY EvictionKeepsBuyers
<1>2. \A q : Sells(p, q)' <=> Sells(p, q)
  <2> SUFFICES ASSUME NEW q
               PROVE  Sells(p, q)' <=> Sells(p, q)
    OBVIOUS
  <2>1. /\ [k \in Buyers(p) |-> Demand(ScheduleOf(k), q)]'
             = [k \in Buyers(p) |-> Demand(ScheduleOf(k), q)]
        /\ [k \in Buyers(p) |-> q * Demand(ScheduleOf(k), q)]'
             = [k \in Buyers(p) |-> q * Demand(ScheduleOf(k), q)]
    BY <1>1
  <2>2. /\ Total([k \in Buyers(p) |-> Demand(ScheduleOf(k), q)], Buyers(p))'
             = Total([k \in Buyers(p) |-> Demand(ScheduleOf(k), q)], Buyers(p))
        /\ Total([k \in Buyers(p) |-> q * Demand(ScheduleOf(k), q)], Buyers(p))'
             = Total([k \in Buyers(p) |-> q * Demand(ScheduleOf(k), q)], Buyers(p))
    BY <1>1, <2>1
  <2>3. (\E k \in Buyers(p) : Demand(ScheduleOf(k), q) > 0)'
          <=> \E k \in Buyers(p) : Demand(ScheduleOf(k), q) > 0
    BY <1>1
  <2>4. Sells(p, q) <=>
          /\ Total([k \in Buyers(p) |-> Demand(ScheduleOf(k), q)], Buyers(p))
               >= PoolTerms[p].threshold_qty
          /\ Total([k \in Buyers(p) |-> q * Demand(ScheduleOf(k), q)], Buyers(p))
               >= PoolTerms[p].threshold_value
          /\ \E k \in Buyers(p) : Demand(ScheduleOf(k), q) > 0
    BY DEF Sells, Buyers
  <2>5. Sells(p, q)' <=>
          /\ Total([k \in Buyers(p) |-> Demand(ScheduleOf(k), q)], Buyers(p))'
               >= PoolTerms[p].threshold_qty
          /\ Total([k \in Buyers(p) |-> q * Demand(ScheduleOf(k), q)], Buyers(p))'
               >= PoolTerms[p].threshold_value
          /\ (\E k \in Buyers(p) : Demand(ScheduleOf(k), q) > 0)'
    BY DEF Sells, Buyers
  <2> QED
    BY <2>2, <2>3, <2>4, <2>5
<1>3. Fires(p)' <=> Fires(p)
  <2>1. WindowEnd(p)' = WindowEnd(p)
    BY DEF WindowEnd, Deadline
  <2> QED
    BY <1>1, <1>2, <2>1 DEF OutcomeAgrees
<1>4. ASSUME Fires(p)
      PROVE  PriceOf(p)' = PriceOf(p) /\ Winners(p, PriceOf(p))' = Winners(p, PriceOf(p))
  <2> PICK a, b : a = PriceOf(p) /\ b = PriceOf(p)'
    OBVIOUS
  <2>1. /\ a \in 1 .. MAX_UNIT_PRICE /\ Sells(p, a) /\ \A q \in 1 .. a - 1 : ~Sells(p, q)
        /\ a \in Nat
    BY <1>1, <1>4, ScheduleCaps DEF OutcomeAgrees
  <2>2. /\ b \in 1 .. MAX_UNIT_PRICE /\ Sells(p, b)' /\ \A q \in 1 .. b - 1 : ~Sells(p, q)'
    BY <1>1, <1>3, <1>4 DEF OutcomeAgrees
  <2>3. a = b
    BY <1>2, <2>1, <2>2, ScheduleCaps
  <2>4. Winners(p, a) = {k \in Buyers(p) : Demand(ScheduleOf(k), a) > 0}
    BY <1>1, <2>1 DEF OutcomeAgrees
  <2>5. Winners(p, b)' = {k \in Buyers(p)' : Demand(ScheduleOf(k)', b) > 0}
    BY <1>1, <2>1, <2>3 DEF OutcomeAgrees
  <2>6. Winners(p, PriceOf(p))' = Winners(p, b)' /\ Winners(p, PriceOf(p)) = Winners(p, a)
    OBVIOUS
  <2> QED
    BY <1>1, <2>3, <2>4, <2>5, <2>6
<1> QED
  BY <1>3, <1>4 DEF Preview

\* Anyone may evict, and cannot choose the outcome by it.
THEOREM EvictionChangesNothing == Spec => EvictionIsNeutral
<1>1. IInv /\ OutcomeAgrees /\ OutcomeAgrees' /\ [Next]_vars =>
        [\A p \in DOMAIN pools :
           (\E m \in MandateIds : EvictChild(p, m)) => Preview(p)' = Preview(p)]_vars
  BY EvictionKeepsOutcome
<1> QED
  BY <1>1, Invariance, OutcomeHolds, PTL DEF Spec, EvictionIsNeutral

-----------------------------------------------------------------------------
\* The refinement.

\* The abstract state depends on the clock, on what is paid, and on the terms
\* and the revocations of the stored mandates.
LEMMA SameAuthority ==
  ASSUME DOMAIN mandates' = DOMAIN mandates,
         \A k \in DOMAIN mandates :
           /\ mandates'[k].terms = mandates[k].terms
           /\ mandates'[k].status = "Revoked" <=> mandates[k].status = "Revoked"
  PROVE  /\ [m \in DOMAIN mandates |-> Terms(m).max_amount]'
              = [m \in DOMAIN mandates |-> Terms(m).max_amount]
         /\ [m \in DOMAIN mandates |-> Terms(m).expiry]'
              = [m \in DOMAIN mandates |-> Terms(m).expiry]
         /\ {m \in DOMAIN mandates : mandates[m].status = "Revoked"}'
              = {m \in DOMAIN mandates : mandates[m].status = "Revoked"}
BY DEF Terms

\* Whatever is paid, is paid as the authority allows.
LEMMA PaymentsAreDebits ==
  ASSUME IInv, IInv', [Next]_vars, now' = now,
         DOMAIN mandates' = DOMAIN mandates,
         \A k \in DOMAIN mandates :
           /\ mandates'[k].terms = mandates[k].terms
           /\ mandates'[k].status = "Revoked" <=> mandates[k].status = "Revoked"
  PROVE  [Authority!Next]_(Authority!vars)
<1>1. CASE paid' = paid
  BY <1>1, SameAuthority DEF Authority!vars
<1>2. CASE paid' # paid
  <2>1. DOMAIN paid' = MandateIds
    BY DEF IInv, TypeOK
  <2>2. ASSUME NEW m \in MandateIds, paid'[m] # paid[m]
        PROVE  /\ m \in DOMAIN mandates
               /\ mandates[m].status # "Revoked"
               /\ now < Terms(m).expiry
               /\ paid'[m] > paid[m]
               /\ paid'[m] <= Terms(m).max_amount
    <3>1. /\ m \in DOMAIN mandates
          /\ mandates[m].status = "Active"
          /\ now < Terms(m).expiry
          /\ paid'[m] > paid[m]
      BY <2>2, WhoIsDebited
    <3>2. paid'[m] <= mandates'[m].terms.max_amount
      BY <3>1 DEF IInv, BooksMatchTransfers, Terms
    <3> QED
      BY <3>1, <3>2 DEF Terms
  <2>3. Authority!Debit
    BY <1>2, <2>1, <2>2, SameAuthority DEF Authority!Debit
  <2> QED
    BY <2>3 DEF Authority!Next
<1> QED
  BY <1>1, <1>2

LEMMA InitRefines == Init => Authority!Init
BY DEF Init, AdminInit, Authority!Init

LEMMA StepRefines ==
  ASSUME IInv, IInv', [Next]_vars
  PROVE  [Authority!Next]_(Authority!vars)
<1>1. CASE Tick /\ UNCHANGED <<poolVars, tokenVars, trail>>
  <2>1. now' > now /\ mandates' = mandates /\ paid' = paid
    BY <1>1 DEF Tick, poolVars, trail, IInv, TypeOK, AdminTypeOK
  <2>2. Authority!Advance
    BY <2>1 DEF Authority!Advance, Terms
  <2> QED
    BY <2>2 DEF Authority!Next
<1>2. CASE now' = now /\ mandates' = mandates
  BY <1>2, PaymentsAreDebits
<1>3. ASSUME NEW m \in MandateIds, NEW t \in TermsFor[m], RegisterMandate(m, t)
      PROVE  [Authority!Next]_(Authority!vars)
  <2>1. /\ t.max_amount > 0 /\ t.expiry > now
        /\ m \notin DOMAIN mandates
        /\ DOMAIN mandates' = DOMAIN mandates \cup {m}
        /\ \A k \in DOMAIN mandates : mandates'[k] = mandates[k]
        /\ mandates'[m].terms = t /\ mandates'[m].status = "Active"
        /\ now' = now /\ paid' = paid
    BY <1>3 DEF RegisterMandate, NewMandate, trail
  <2>2. Authority!Grant(m)
    BY <2>1 DEF Authority!Grant, Terms
  <2> QED
    BY <2>2 DEF Authority!Next
<1>4. ASSUME NEW m \in MandateIds, RevokeMandate(m)
      PROVE  [Authority!Next]_(Authority!vars)
  <2>1. mandates[m] \in Mandate
    BY <1>4, MandateTypes DEF RevokeMandate, IInv
  <2>2. /\ m \in DOMAIN mandates
        /\ DOMAIN mandates' = DOMAIN mandates
        /\ \A k \in DOMAIN mandates \ {m} : mandates'[k] = mandates[k]
        /\ mandates'[m].terms = mandates[m].terms
        /\ mandates'[m].status = "Revoked"
        /\ now' = now /\ paid' = paid
    BY <1>4, <2>1 DEF RevokeMandate, Mandate, trail
  <2>3. Authority!Revoke(m)
    BY <2>2 DEF Authority!Revoke, Terms
  <2> QED
    BY <2>3 DEF Authority!Next
<1>5. ASSUME NEW m \in MandateIds,
             CommitChild(m) \/ \E p \in PoolIds : EvictChild(p, m)
      PROVE  [Authority!Next]_(Authority!vars)
  <2>1. mandates[m] \in Mandate
    BY <1>5, MandateTypes DEF CommitChild, EvictChild, IInv
  <2>2. /\ DOMAIN mandates' = DOMAIN mandates
        /\ \A k \in DOMAIN mandates :
             /\ mandates'[k].terms = mandates[k].terms
             /\ mandates'[k].status = mandates[k].status
        /\ now' = now
    BY <1>5, <2>1 DEF CommitChild, EvictChild, Mandate
  <2> QED
    BY <2>2, PaymentsAreDebits
<1>6. ASSUME NEW p \in PoolIds, AbortPool(p)
      PROVE  [Authority!Next]_(Authority!vars)
  <2>1. \A k \in DOMAIN mandates : mandates[k] \in Mandate
    BY MandateTypes DEF IInv
  <2>2. /\ DOMAIN mandates' = DOMAIN mandates
        /\ \A k \in DOMAIN mandates :
             /\ mandates'[k].terms = mandates[k].terms
             /\ mandates'[k].status = mandates[k].status
        /\ now' = now
    BY <1>6, <2>1 DEF AbortPool, ReleaseAll, Mandate
  <2> QED
    BY <2>2, PaymentsAreDebits
<1>7. ASSUME NEW p \in PoolIds, CapturePool(p)
      PROVE  [Authority!Next]_(Authority!vars)
  <2>1. IsOpen(p) /\ p \in DOMAIN pools /\ Fires(p) /\ now' = now
    BY <1>7 DEF CapturePool, Closable, IsOpen
  <2> PICK price : price = PriceOf(p)
    OBVIOUS
  <2>2. price \in Nat
    BY <2>1, PriceInRange, ScheduleCaps
  <2>3. mandates' = [k \in DOMAIN mandates |->
           IF k \notin MembersOf(p) \/ ~IsCommitted(k) THEN mandates[k]
           ELSE IF k \in Winners(p, price) THEN Captured(k, price)
           ELSE [mandates[k] EXCEPT !.pool_state = "Released"]]
    BY <1>7 DEF CapturePool
  <2>4. \A k \in Winners(p, price) : mandates[k].status = "Active"
    BY <2>1, <2>2, AllocatedRow DEF Winners, IsEligible
  <2>5. \A k \in DOMAIN mandates : mandates[k] \in Mandate
    BY MandateTypes DEF IInv
  <2>6. ASSUME NEW k \in DOMAIN mandates
        PROVE  /\ mandates'[k].terms = mandates[k].terms
               /\ mandates'[k].status = "Revoked" <=> mandates[k].status = "Revoked"
    <3>1. CASE k \notin MembersOf(p) \/ ~IsCommitted(k)
      BY <2>3, <3>1
    <3>2. CASE k \in MembersOf(p) /\ IsCommitted(k) /\ k \in Winners(p, price)
      <4>1. mandates'[k] = Captured(k, price)
        BY <2>3, <3>2
      <4> QED
        BY <2>4, <2>5, <3>2, <4>1 DEF Captured, Mandate
    <3>3. CASE k \in MembersOf(p) /\ IsCommitted(k) /\ k \notin Winners(p, price)
      BY <2>3, <2>5, <3>3 DEF Mandate
    <3> QED
      BY <3>1, <3>2, <3>3
  <2>7. DOMAIN mandates' = DOMAIN mandates
    BY <2>3
  <2> QED
    BY <2>1, <2>6, <2>7, PaymentsAreDebits
<1>8. ASSUME NEW m \in MandateIds, NEW amount \in Amounts, NEW n \in 0 .. MaxU32,
             ExecutePayment(m, amount, n)
      PROVE  [Authority!Next]_(Authority!vars)
  <2>1. m \in DOMAIN mandates /\ mandates[m] \in Mandate
    BY <1>8, MandateTypes DEF ExecutePayment, IInv
  <2>2. mandates[m].status = "Active"
    BY <1>8 DEF ExecutePayment, Check
  <2>3. /\ DOMAIN mandates' = DOMAIN mandates
        /\ \A k \in DOMAIN mandates :
             /\ mandates'[k].terms = mandates[k].terms
             /\ mandates'[k].status = "Revoked" <=> mandates[k].status = "Revoked"
        /\ now' = now
    BY <1>8, <2>1, <2>2 DEF ExecutePayment, Mandate
  <2> QED
    BY <2>3, PaymentsAreDebits
<1>9. CASE AdminNext /\ UNCHANGED <<poolVars, tokenVars, trail>>
  BY <1>2, <1>9 DEF poolVars, AdminNext, SetAdmin, Pause, Unpause,
                    ScheduleUpgrade, CancelUpgrade, ExecuteUpgrade
<1>10. CASE TokenNext
  BY <1>2, <1>10 DEF TokenNext, Approve, SetBalance, SetAuthorized, poolVars
<1>11. ASSUME NEW p \in PoolIds, RegisterPool(p)
       PROVE  [Authority!Next]_(Authority!vars)
  BY <1>2, <1>11 DEF RegisterPool
<1>12. CASE UNCHANGED vars
  BY <1>2, <1>12 DEF vars, poolVars
<1> QED
  BY <1>1, <1>3, <1>4, <1>5, <1>6, <1>7, <1>8, <1>9, <1>10, <1>11, <1>12
  DEF Next, Environment, Registry

\* The registry keeps the promise made to the users that sign mandates: money
\* moves under a mandate only while it is granted, alive and not revoked, and
\* never beyond its limit, on both paths.
THEOREM ImplementsAuthority == Spec => RefinesAuthority
<1>1. IInv /\ IInv' /\ [Next]_vars => [Authority!Next]_(Authority!vars)
  BY StepRefines
<1> QED
  BY <1>1, InitRefines, Invariance, PTL DEF Spec, RefinesAuthority, Authority!Spec
=============================================================================
