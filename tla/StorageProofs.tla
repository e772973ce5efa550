--------------------------- MODULE StorageProofs ---------------------------
(***************************************************************************)
(* Proofs that the rows of the composite registry, the mainnet registry    *)
(* and the reference policy live as long as they are needed, for every     *)
(* threshold and extension, every pace of the ledger and every set of      *)
(* mandates the assumptions allow.                                         *)
(*                                                                         *)
(* All rest on one idea.  A row covers an instant if it is live even       *)
(* should every ledger until then close as fast as ledgers may; time       *)
(* passing keeps that, and a bump re-establishes it.                       *)
(***************************************************************************)
EXTENDS PoolRows, MandateRows, PolicyRows, TLAPS

\* The row lives through every ledger that may close in secs seconds.
Covers(until, secs) == FastestClose * (until - ledger) >= secs

LEMMA Monotone ==
  ASSUME NEW a \in Int, NEW b \in Int, a >= b
  PROVE  FastestClose * a >= FastestClose * b
BY RowLifeAssumption

LEMMA CoversIsLive ==
  ASSUME ledger \in Nat, NEW until \in Int, NEW secs \in Nat, Covers(until, secs)
  PROVE  Live(until)
<1> SUFFICES ASSUME until < ledger
             PROVE  FALSE
  BY DEF Live
<1>1. FastestClose * (-1) >= FastestClose * (until - ledger)
  BY Monotone
<1> QED
  BY <1>1, RowLifeAssumption DEF Covers

LEMMA LaterCovers ==
  ASSUME ledger \in Nat, NEW until \in Int, NEW later \in Int, later >= until,
         NEW secs \in Int, Covers(until, secs)
  PROVE  Covers(later, secs)
<1>1. FastestClose * (later - ledger) >= FastestClose * (until - ledger)
  BY Monotone
<1> QED
  BY <1>1, RowLifeAssumption DEF Covers

\* A ledger closes, secs seconds or more nearer to the instant in question.
LEMMA CloseCovers ==
  ASSUME ledger \in Nat, now \in Nat, NEW until \in Int, NEW end \in Int,
         Covers(until, end - now), Close
  PROVE  Covers(until, end - now)'
<1>1. PICK secs \in FastestClose .. SlowestClose : now' = now + secs
  BY DEF Close
<1>2. /\ FastestClose \in Nat /\ secs \in Int /\ secs >= FastestClose
      /\ ledger' = ledger + 1
  BY <1>1, RowLifeAssumption DEF Close
<1>3. FastestClose * (until - (ledger + 1))
        = FastestClose * (until - ledger) - FastestClose
  BY <1>2
<1> QED
  BY <1>1, <1>2, <1>3 DEF Covers

LEMMA ExtendedIsLater ==
  ASSUME ledger \in Nat, NEW until \in Nat, NEW threshold \in Nat, NEW to \in Nat
  PROVE  /\ Extended(until, threshold, to) \in Nat
         /\ Extended(until, threshold, to) >= until
BY RowLifeAssumption DEF Extended, Greater, Lesser

\* No row is given more than the host grants.
LEMMA ExtendedIsBounded ==
  ASSUME ledger \in Nat, NEW until \in 0 .. ledger + MaxTtl,
         NEW threshold \in Nat, NEW to \in Nat
  PROVE  Extended(until, threshold, to) \in 0 .. ledger + MaxTtl
BY RowLifeAssumption DEF Extended, Greater, Lesser

-----------------------------------------------------------------------------
\* The composite registry's pool.

RowTtl == 0 .. ledger + MaxTtl

\* A bump for secs seconds covers them, however little the row had left.
LEMMA BumpedCovers ==
  ASSUME ledger \in Nat, NEW until \in RowTtl,
         NEW secs \in 0 .. MAX_POOL_HORIZON_SECS
  PROVE  /\ Bumped(until, secs) \in RowTtl
         /\ Covers(Bumped(until, secs), secs)
<1> DEFINE hl == HorizonLedgers(secs)
           granted == Lesser(hl, MaxTtl)
<1>1. hl \in Nat
  BY PoolRowsAssumption, RowLifeAssumption DEF HorizonLedgers, Greater
<1>2. granted \in Nat /\ granted <= hl /\ granted <= MaxTtl
  BY <1>1, RowLifeAssumption DEF Lesser
<1>3. FastestClose * granted >= secs
  <2>1. granted = Lesser(MaxTtl, Greater((secs \div SECS_PER_LEDGER) * 2,
                                         TTL_EXTEND))
    BY <1>1, RowLifeAssumption DEF HorizonLedgers, Lesser
  <2> QED
    BY <2>1, PoolRowsAssumption
<1> HIDE DEF hl, granted
<1>4. Bumped(until, secs) = Extended(until, hl, hl)
  BY DEF Bumped, hl
<1>5. Bumped(until, secs) - ledger >= granted
  <2>1. CASE until - ledger <= hl
    BY <1>1, <1>2, <1>4, <2>1, RowLifeAssumption DEF Extended, Greater, granted, RowTtl
  <2>2. CASE ~(until - ledger <= hl)
    BY <1>1, <1>2, <1>4, <2>2, RowLifeAssumption DEF Extended, RowTtl
  <2> QED
    BY <2>1, <2>2
<1>6. Bumped(until, secs) \in RowTtl
  BY <1>1, <1>4, ExtendedIsBounded DEF RowTtl
<1>7. FastestClose * (Bumped(until, secs) - ledger) >= FastestClose * granted
  BY <1>2, <1>5, <1>6, Monotone, RowLifeAssumption DEF RowTtl
<1> QED
  BY <1>2, <1>3, <1>6, <1>7, RowLifeAssumption DEF Covers, RowTtl

LEMMA WrittenKeeps ==
  ASSUME ledger \in Nat, NEW until \in RowTtl
  PROVE  Written(until) \in RowTtl /\ Written(until) >= until
BY RowLifeAssumption, ExtendedIsBounded, ExtendedIsLater DEF Written, RowTtl

LEMMA WrittenCovers ==
  ASSUME ledger \in Nat, NEW until \in RowTtl, NEW secs \in Int,
         Covers(until, secs)
  PROVE  Covers(Written(until), secs)
BY WrittenKeeps, LaterCovers, RowLifeAssumption DEF RowTtl

LEMMA NewRowType == ledger \in Nat => NewRow \in RowTtl
BY RowLifeAssumption DEF NewRow, RowTtl

\* What a pool's row, its list's and its members' have in common.
Safe(until) == Covers(until, WindowEnd - now)

PoolRowsInv ==
  /\ PoolRowsTypeOK
  /\ status = "None" => Members = {}
  /\ status = "Open" =>
       /\ WindowEnd - now <= MAX_POOL_HORIZON_SECS
       /\ Safe(poolRow) /\ Safe(listRow)
       /\ \A c \in Members : Safe(childRow[c])

\* Bumped for what is left of the window, which may be nothing.
LEMMA TouchedIsSafe ==
  ASSUME PoolRowsTypeOK, WindowEnd - now <= MAX_POOL_HORIZON_SECS,
         NEW until \in RowTtl, NEW secs \in Nat,
         secs = Horizon
  PROVE  /\ Bumped(Written(until), secs) \in RowTtl
         /\ Safe(Bumped(Written(until), secs))
<1>1. ledger \in Nat /\ now \in Nat /\ WindowEnd \in Nat
  BY PoolRowsAssumption DEF PoolRowsTypeOK, WindowEnd
<1>2. secs \in 0 .. MAX_POOL_HORIZON_SECS /\ secs >= WindowEnd - now
  BY <1>1, PoolRowsAssumption DEF Horizon
<1>3. Written(until) \in RowTtl
  BY <1>1, WrittenKeeps
<1>4. /\ Bumped(Written(until), secs) \in RowTtl
      /\ Covers(Bumped(Written(until), secs), secs)
  BY <1>1, <1>2, <1>3, BumpedCovers
<1>5. Bumped(Written(until), secs) \in Int
  BY <1>4 DEF RowTtl
<1>6. FastestClose * (Bumped(Written(until), secs) - ledger) \in Int
  BY <1>1, <1>5, RowLifeAssumption
<1> QED
  BY <1>1, <1>2, <1>4, <1>6 DEF Covers, Safe

LEMMA PoolRowsInitInv == PoolRowsInit => PoolRowsInv
BY RowLifeAssumption, PoolRowsAssumption
   DEF PoolRowsInit, PoolRowsInv, PoolRowsTypeOK, Members

LEMMA RowTypes ==
  ASSUME PoolRowsTypeOK
  PROVE  /\ ledger \in Nat /\ now \in Nat /\ WindowEnd \in Nat
         /\ poolRow \in RowTtl /\ listRow \in RowTtl
         /\ childRow \in [Children -> RowTtl]
BY PoolRowsAssumption, RowLifeAssumption
   DEF PoolRowsTypeOK, WindowEnd, RowTtl

LEMMA HorizonType ==
  ASSUME PoolRowsTypeOK
  PROVE  Horizon \in Nat
BY RowTypes DEF Horizon

LEMMA LessIsLeft ==
  ASSUME NEW end \in Nat, NEW earlier \in Nat, NEW later \in Nat,
         NEW most \in Nat, end - earlier <= most, earlier <= later
  PROVE  end - later <= most
OBVIOUS

LEMMA CloseKeepsPool ==
  ASSUME PoolRowsInv, Close,
         UNCHANGED <<deadline, status, linkage, rowVars>>
  PROVE  PoolRowsInv'
<1>1. ledger \in Nat /\ now \in Nat /\ WindowEnd \in Nat
  BY RowTypes DEF PoolRowsInv
<1>2. /\ ledger' = ledger + 1 /\ now' \in Nat /\ now' <= MaxTime /\ now' >= now
  BY <1>1, RowLifeAssumption DEF Close
<1>3. WindowEnd' = WindowEnd /\ Members' = Members
  BY DEF WindowEnd, Members
<1>4. PoolRowsTypeOK'
  <2>1. 0 .. ledger + MaxTtl \subseteq 0 .. ledger' + MaxTtl
    BY <1>1, <1>2, RowLifeAssumption
  <2> QED
    BY <1>1, <1>2, <2>1, RowLifeAssumption DEF PoolRowsInv, PoolRowsTypeOK, rowVars
<1>5. ASSUME NEW until \in Int, Safe(until)
      PROVE  Covers(until, WindowEnd - now)'
  BY <1>1, <1>5, CloseCovers, <1>3 DEF Safe, Covers
<1>6. ASSUME status = "Open"
      PROVE  /\ (WindowEnd - now <= MAX_POOL_HORIZON_SECS)'
             /\ Safe(poolRow)' /\ Safe(listRow)'
             /\ \A c \in Members' : Safe(childRow[c])'
  <2>1. (WindowEnd - now <= MAX_POOL_HORIZON_SECS)'
    <3>1. WindowEnd - now <= MAX_POOL_HORIZON_SECS
      BY <1>6 DEF PoolRowsInv
    <3>2. MAX_POOL_HORIZON_SECS \in Nat
      BY PoolRowsAssumption
    <3>3. WindowEnd - now' <= MAX_POOL_HORIZON_SECS
      BY <1>1, <1>2, <3>1, <3>2, LessIsLeft
    <3> QED
      BY <1>3, <3>3
  <2>2. poolRow \in Int /\ listRow \in Int /\ \A c \in Members : childRow[c] \in Int
    BY RowTypes, RowLifeAssumption DEF PoolRowsInv, RowTtl, Members
  <2>3. Safe(poolRow)' /\ Safe(listRow)'
    BY <1>5, <1>6, <2>2 DEF PoolRowsInv, Safe, Covers, rowVars
  <2>4. ASSUME NEW c \in Members
        PROVE  Safe(childRow[c])'
    BY <1>5, <1>6, <2>2 DEF PoolRowsInv, Safe, Covers, rowVars
  <2> QED
    BY <1>3, <2>1, <2>3, <2>4
<1> QED
  BY <1>3, <1>4, <1>6 DEF PoolRowsInv

LEMMA RegisterPoolKeeps ==
  ASSUME PoolRowsInv, RegisterPool
  PROVE  PoolRowsInv'
<1>1. ledger \in Nat /\ now \in Nat /\ WindowEnd \in Nat /\ NewRow \in RowTtl
  BY RowTypes, NewRowType DEF PoolRowsInv
<1>2. /\ WindowEnd - now <= MAX_POOL_HORIZON_SECS
      /\ status = "None" /\ status' = "Open"
      /\ poolRow' = Bumped(Written(NewRow), Horizon)
      /\ listRow' = Bumped(Written(NewRow), Horizon)
      /\ UNCHANGED <<ledger, now, deadline, linkage, childRow>>
  BY DEF RegisterPool
<1>3. /\ poolRow' \in RowTtl /\ listRow' \in RowTtl
      /\ Safe(poolRow') /\ Safe(listRow')
  BY <1>1, <1>2, TouchedIsSafe, HorizonType DEF PoolRowsInv
<1>4. PoolRowsTypeOK'
  BY <1>2, <1>3 DEF PoolRowsInv, PoolRowsTypeOK, RowTtl
<1>5. Members' = {} /\ WindowEnd' = WindowEnd
  BY <1>2 DEF PoolRowsInv, Members, WindowEnd
<1>6. Safe(poolRow)' /\ Safe(listRow)'
  BY <1>2, <1>3, <1>5 DEF Safe, Covers
<1> QED
  BY <1>2, <1>4, <1>5, <1>6 DEF PoolRowsInv

\* A child that is no member gets a row or has its row written.
LEMMA OutsiderKeeps ==
  ASSUME PoolRowsInv, NEW c \in Children, c \notin Members,
         NEW until \in RowTtl, childRow' = [childRow EXCEPT ![c] = until],
         linkage' \in [Children -> {"None", "Unlinked", "Committed", "Released"}],
         Members' = Members,
         UNCHANGED <<ledger, now, deadline, status, poolRow, listRow>>
  PROVE  PoolRowsInv'
<1>1. childRow \in [Children -> RowTtl]
  BY RowTypes DEF PoolRowsInv
<1>2. PoolRowsTypeOK'
  BY <1>1 DEF PoolRowsInv, PoolRowsTypeOK, RowTtl
<1>3. \A k \in Members : childRow'[k] = childRow[k]
  BY <1>1 DEF Members
<1>4. WindowEnd' = WindowEnd
  BY DEF WindowEnd
<1> QED
  BY <1>2, <1>3, <1>4 DEF PoolRowsInv, Safe, Covers

LEMMA RegisterChildKeeps ==
  ASSUME PoolRowsInv, NEW c \in Children, RegisterChild(c)
  PROVE  PoolRowsInv'
<1>1. ledger \in Nat
  BY RowTypes DEF PoolRowsInv
<1>2. Written(NewRow) \in RowTtl
  BY <1>1, NewRowType, WrittenKeeps
<1>3. /\ linkage \in [Children -> {"None", "Unlinked", "Committed", "Released"}]
      /\ linkage[c] = "None"
      /\ linkage' = [linkage EXCEPT ![c] = "Unlinked"]
  BY DEF RegisterChild, PoolRowsInv, PoolRowsTypeOK
<1>4. c \notin Members /\ Members' = Members
  BY <1>3 DEF Members
<1> QED
  BY <1>2, <1>3, <1>4, OutsiderKeeps DEF RegisterChild

LEMMA WriteChildKeeps ==
  ASSUME PoolRowsInv, NEW c \in Children, WriteChild(c)
  PROVE  PoolRowsInv'
<1>1. ledger \in Nat /\ childRow \in [Children -> RowTtl]
  BY RowTypes DEF PoolRowsInv
<1>2. Written(childRow[c]) \in RowTtl
  BY <1>1, WrittenKeeps
<1>3. c \notin Members /\ Members' = Members
  BY DEF WriteChild, Members
<1> QED
  BY <1>2, <1>3, OutsiderKeeps
     DEF WriteChild, PoolRowsInv, PoolRowsTypeOK

\* A member's row and the pool's two are bumped for what is left.
LEMMA TouchKeeps ==
  ASSUME PoolRowsInv, NEW c \in Children, NEW secs \in Nat, secs = Horizon,
         status = "Open",
         TouchPool(secs), TouchChild(c, secs),
         linkage' \in [Children -> {"None", "Unlinked", "Committed", "Released"}],
         Members' \subseteq Members \cup {c},
         UNCHANGED <<ledger, now, deadline, status>>
  PROVE  PoolRowsInv'
<1>1. /\ poolRow \in RowTtl /\ listRow \in RowTtl
      /\ childRow \in [Children -> RowTtl]
  BY RowTypes DEF PoolRowsInv
<1>2. PoolRowsTypeOK /\ WindowEnd - now <= MAX_POOL_HORIZON_SECS
  BY DEF PoolRowsInv
<1>3. /\ poolRow' \in RowTtl /\ listRow' \in RowTtl
      /\ Safe(poolRow') /\ Safe(listRow')
  BY <1>1, <1>2, TouchedIsSafe DEF TouchPool
<1>4. /\ childRow'[c] \in RowTtl /\ Safe(childRow'[c])
      /\ \A k \in Children \ {c} : childRow'[k] = childRow[k]
      /\ childRow' \in [Children -> RowTtl]
  BY <1>1, <1>2, TouchedIsSafe DEF TouchChild
<1>5. PoolRowsTypeOK'
  BY <1>2, <1>3, <1>4 DEF PoolRowsTypeOK, RowTtl
<1>6. \A k \in Members' : Safe(childRow'[k])
  BY <1>4 DEF PoolRowsInv, Members
<1>7. WindowEnd' = WindowEnd
  BY DEF WindowEnd
<1> QED
  BY <1>2, <1>3, <1>5, <1>6, <1>7 DEF PoolRowsInv, Safe, Covers

LEMMA CommitChildKeeps ==
  ASSUME PoolRowsInv, NEW c \in Children, CommitChild(c)
  PROVE  PoolRowsInv'
<1>1. ledger \in Nat /\ now \in Nat /\ WindowEnd \in Nat /\ deadline \in Nat
  BY RowTypes, PoolRowsAssumption DEF PoolRowsInv, PoolRowsTypeOK
<1>2. WindowEnd - now = Horizon /\ WindowEnd - now \in Nat
  BY <1>1, PoolRowsAssumption DEF CommitChild, Horizon, WindowEnd
<1>3. linkage' = [linkage EXCEPT ![c] = "Committed"]
  BY DEF CommitChild
<1>4. linkage' \in [Children -> {"None", "Unlinked", "Committed", "Released"}]
  BY <1>3 DEF PoolRowsInv, PoolRowsTypeOK
<1>5. Members' \subseteq Members \cup {c}
  BY <1>3 DEF PoolRowsInv, PoolRowsTypeOK, Members
<1> QED
  BY <1>2, <1>4, <1>5, TouchKeeps DEF CommitChild

LEMMA ReleaseChildKeeps ==
  ASSUME PoolRowsInv, NEW c \in Children, ReleaseChild(c)
  PROVE  PoolRowsInv'
<1>1. Horizon \in Nat
  BY HorizonType DEF PoolRowsInv
<1>2. linkage' = [linkage EXCEPT ![c] = "Released"]
  BY DEF ReleaseChild
<1>3. linkage' \in [Children -> {"None", "Unlinked", "Committed", "Released"}]
  BY <1>2 DEF PoolRowsInv, PoolRowsTypeOK
<1>4. Members' \subseteq Members \cup {c}
  BY <1>2 DEF PoolRowsInv, PoolRowsTypeOK, Members
<1> QED
  BY <1>1, <1>3, <1>4, TouchKeeps DEF ReleaseChild

LEMMA ClearPoolKeeps ==
  ASSUME PoolRowsInv, ClearPool
  PROVE  PoolRowsInv'
<1>1. /\ ledger \in Nat
      /\ poolRow \in RowTtl /\ listRow \in RowTtl
      /\ childRow \in [Children -> RowTtl]
  BY RowTypes DEF PoolRowsInv
<1>2. 0 \in 0 .. MAX_POOL_HORIZON_SECS
  BY PoolRowsAssumption
<1>3. poolRow' \in RowTtl /\ listRow' \in RowTtl
  BY <1>1, <1>2, WrittenKeeps, BumpedCovers DEF ClearPool
<1>4. childRow' \in [Children -> RowTtl]
  BY <1>1, WrittenKeeps DEF ClearPool
<1>5. linkage' \in [Children -> {"None", "Unlinked", "Committed", "Released"}]
  BY DEF ClearPool, PoolRowsInv, PoolRowsTypeOK
<1>6. PoolRowsTypeOK'
  BY <1>3, <1>4, <1>5 DEF ClearPool, PoolRowsInv, PoolRowsTypeOK, RowTtl
<1> QED
  BY <1>6 DEF ClearPool, PoolRowsInv

LEMMA PoolRowsStep == PoolRowsInv /\ [PoolRowsNext]_poolRowsVars => PoolRowsInv'
<1> SUFFICES ASSUME PoolRowsInv, [PoolRowsNext]_poolRowsVars
             PROVE  PoolRowsInv'
  OBVIOUS
<1>1. CASE Close /\ UNCHANGED <<deadline, status, linkage, rowVars>>
  BY <1>1, CloseKeepsPool
<1>2. CASE RegisterPool
  BY <1>2, RegisterPoolKeeps
<1>3. CASE ClearPool
  BY <1>3, ClearPoolKeeps
<1>4. ASSUME NEW c \in Children, RegisterChild(c)
      PROVE  PoolRowsInv'
  BY <1>4, RegisterChildKeeps
<1>5. ASSUME NEW c \in Children, CommitChild(c)
      PROVE  PoolRowsInv'
  BY <1>5, CommitChildKeeps
<1>6. ASSUME NEW c \in Children, ReleaseChild(c)
      PROVE  PoolRowsInv'
  BY <1>6, ReleaseChildKeeps
<1>7. ASSUME NEW c \in Children, WriteChild(c)
      PROVE  PoolRowsInv'
  BY <1>7, WriteChildKeeps
<1>8. CASE UNCHANGED poolRowsVars
  <2>1. WindowEnd' = WindowEnd /\ Members' = Members
    BY <1>8 DEF poolRowsVars, WindowEnd, Members
  <2> QED
    BY <1>8, <2>1 DEF poolRowsVars, rowVars, PoolRowsInv, PoolRowsTypeOK,
                      Safe, Covers
<1> QED
  BY <1>1, <1>2, <1>3, <1>4, <1>5, <1>6, <1>7, <1>8 DEF PoolRowsNext

\* Rows have their types and never more life than the host allows.
THEOREM PoolRowsTypeCorrect == PoolRowsSpec => []PoolRowsTypeOK
<1>1. PoolRowsInv => PoolRowsTypeOK
  BY DEF PoolRowsInv
<1> QED
  BY <1>1, PoolRowsInitInv, PoolRowsStep, PTL DEF PoolRowsSpec

\* A pool, its list and its members are never archived inside the pool's live
\* window (extend_to_horizon), whatever the pace of the ledger and the order of
\* the calls.
THEOREM PoolsOutliveTheirWindows == PoolRowsSpec => []PoolOutlivesWindow
<1>1. ASSUME PoolRowsInv
      PROVE  PoolOutlivesWindow
  <2> SUFFICES ASSUME status = "Open", now <= WindowEnd
               PROVE  /\ Live(poolRow) /\ Live(listRow)
                      /\ \A c \in Members : Live(childRow[c])
    BY DEF PoolOutlivesWindow
  <2>1. /\ ledger \in Nat /\ WindowEnd - now \in Nat
        /\ poolRow \in Int /\ listRow \in Int
        /\ \A c \in Members : childRow[c] \in Int
    BY <1>1, RowTypes, RowLifeAssumption DEF PoolRowsInv, RowTtl, Members
  <2> QED
    BY <1>1, <2>1, CoversIsLive DEF PoolRowsInv, Safe
<1> QED
  BY <1>1, PoolRowsInitInv, PoolRowsStep, PTL DEF PoolRowsSpec

-----------------------------------------------------------------------------
\* The mainnet registry's mandates and its instance.

\* What an extension asks for, as the host grants it.
Granted == Lesser(TTL_EXTEND, MaxTtl)

LEMMA GrantedTypes ==
  /\ Granted \in Nat /\ LongestRow \in Nat /\ MaxSilence \in Nat
  /\ Granted <= LongestRow /\ NewRowTtl <= LongestRow /\ Granted <= MaxTtl
  /\ NewRowTtl \in Nat
  /\ MaxSilence <= TTL_THRESHOLD /\ MaxSilence <= Granted
  /\ MaxSilence <= NewRowTtl
<1>1. /\ TTL_EXTEND \in Nat /\ TTL_THRESHOLD \in Nat /\ MaxTtl \in Nat
      /\ NewRowTtl \in Nat
  BY RowLifeAssumption
<1>2. /\ MaxSilence \in 0 .. Lesser(TTL_THRESHOLD, Lesser(TTL_EXTEND, MaxTtl))
      /\ MaxSilence <= NewRowTtl
  BY MandateRowsAssumption
<1> QED
  BY <1>1, <1>2 DEF Granted, LongestRow, Lesser, Greater

\* A row that is kept has either the whole extension or more than the
\* threshold left, and never less than it had.
LEMMA KeptBounds ==
  ASSUME ledger \in Nat, NEW until \in Nat, until <= ledger + LongestRow
  PROVE  /\ Kept(until) \in Nat
         /\ Kept(until) <= ledger + LongestRow
         /\ Kept(until) >= until
         /\ Kept(until) >= ledger + MaxSilence
         /\ until - ledger <= Lesser(TTL_THRESHOLD, Granted)
              => Kept(until) >= ledger + Granted
<1> DEFINE threshold == Lesser(TTL_THRESHOLD, Granted)
<1>1. Kept(until) = Extended(until, threshold, Granted)
  BY DEF Kept, Granted
<1>2. /\ TTL_THRESHOLD \in Nat /\ MaxTtl \in Nat /\ Granted \in Nat
      /\ LongestRow \in Nat /\ MaxSilence \in Nat
  BY RowLifeAssumption, GrantedTypes
<1>3. threshold \in Nat /\ MaxSilence <= threshold
  BY <1>2, GrantedTypes DEF Lesser
<1>4. Lesser(Granted, MaxTtl) = Granted
  BY <1>2, GrantedTypes DEF Lesser
<1> HIDE DEF threshold
<1>5. Kept(until) = IF until - ledger <= threshold
                    THEN Greater(until, ledger + Granted) ELSE until
  BY <1>1, <1>4 DEF Extended
<1>6. CASE until - ledger <= threshold
  BY <1>2, <1>3, <1>5, <1>6, GrantedTypes DEF Greater, threshold
<1>7. CASE ~(until - ledger <= threshold)
  BY <1>2, <1>3, <1>5, <1>7 DEF threshold
<1> QED
  BY <1>6, <1>7

LEMMA NewRowBounds ==
  ASSUME ledger \in Nat
  PROVE  /\ NewRow \in Nat /\ NewRow <= ledger + LongestRow
         /\ NewRow - ledger = NewRowTtl
BY GrantedTypes DEF NewRow

\* A new mandate's row covers the longest life.
LEMMA NewMandateCovers ==
  ASSUME ledger \in Nat, NEW secs \in Nat, AcceptableLife(secs)
  PROVE  Covers(NewMandateRow, secs)
<1>1. /\ NewRow \in Nat /\ NewRow - ledger = NewRowTtl
      /\ NewMandateRow \in Nat /\ NewMandateRow >= NewRow
      /\ NewRowTtl <= Lesser(TTL_THRESHOLD, Granted)
           => NewMandateRow >= ledger + Granted
  BY NewRowBounds, KeptBounds DEF NewMandateRow
<1>2. /\ MAX_MANDATE_LIFETIME_SECONDS \in Nat
      /\ secs <= MAX_MANDATE_LIFETIME_SECONDS
  BY MandateRowsAssumption DEF AcceptableLife
<1>3. FastestClose \in Nat /\ NewRowTtl \in Nat /\ Granted \in Nat
  BY RowLifeAssumption, GrantedTypes
<1>4. CASE FastestClose * NewRowTtl >= MAX_MANDATE_LIFETIME_SECONDS
  <2>1. NewMandateRow - ledger >= NewRowTtl
    BY <1>1, <1>3
  <2>2. FastestClose * (NewMandateRow - ledger) >= FastestClose * NewRowTtl
    BY <1>1, <1>3, <2>1, Monotone
  <2> QED
    BY <1>1, <1>2, <1>3, <1>4, <2>2 DEF Covers
<1>5. CASE /\ NewRowTtl <= Lesser(TTL_THRESHOLD, Granted)
           /\ FastestClose * Granted >= MAX_MANDATE_LIFETIME_SECONDS
  <2>1. NewMandateRow - ledger >= Granted
    BY <1>1, <1>3, <1>5
  <2>2. FastestClose * (NewMandateRow - ledger) >= FastestClose * Granted
    BY <1>1, <1>3, <2>1, Monotone
  <2> QED
    BY <1>1, <1>2, <1>3, <1>5, <2>2 DEF Covers
<1> QED
  BY <1>4, <1>5, MandateRowsAssumption DEF Granted

MandateRowsInv ==
  /\ MandateRowsTypeOK
  /\ instance >= lastCall + MaxSilence
  /\ ledger <= lastCall + MaxSilence
  /\ \A id \in Mandates :
       expires[id] # 0 => Covers(row[id], expires[id] - now)

LEMMA MandateRowsInitInv == MandateRowsInit => MandateRowsInv
<1> SUFFICES ASSUME MandateRowsInit
             PROVE  MandateRowsInv
  OBVIOUS
<1>1. ledger = 0 /\ now = 0 /\ lastCall = 0 /\ MaxTime \in Nat
  BY RowLifeAssumption DEF MandateRowsInit
<1>2. /\ instance \in Nat /\ assetRow \in Nat
      /\ instance <= LongestRow /\ assetRow <= LongestRow
      /\ instance >= MaxSilence
  BY <1>1, NewRowBounds, KeptBounds, GrantedTypes DEF MandateRowsInit
<1>3. MandateRowsTypeOK
  BY <1>1, <1>2, GrantedTypes DEF MandateRowsInit, MandateRowsTypeOK
<1> QED
  BY <1>1, <1>2, <1>3, GrantedTypes DEF MandateRowsInit, MandateRowsInv

LEMMA RowsInvTypes ==
  ASSUME MandateRowsInv
  PROVE  /\ ledger \in Nat /\ now \in Nat /\ lastCall \in Nat
         /\ lastCall <= ledger
         /\ expires \in [Mandates -> Nat]
         /\ row \in [Mandates -> 0 .. ledger + LongestRow]
         /\ \A id \in Mandates : row[id] \in Nat
         /\ assetRow \in 0 .. ledger + LongestRow
         /\ instance \in Nat /\ instance <= ledger + LongestRow
BY GrantedTypes, RowLifeAssumption DEF MandateRowsInv, MandateRowsTypeOK

\* Every call renews the instance, or it has more than the threshold left.
LEMMA CallKeepsInstance ==
  ASSUME MandateRowsInv, Call
  PROVE  /\ instance' \in 0 .. lastCall' + LongestRow
         /\ lastCall' \in 0 .. ledger'
         /\ instance' >= lastCall' + MaxSilence
         /\ ledger' <= lastCall' + MaxSilence
         /\ ledger' = ledger /\ now' = now
<1>1. /\ instance' = Kept(instance) /\ lastCall' = ledger
      /\ ledger' = ledger /\ now' = now
  BY DEF Call
<1>2. /\ ledger \in Nat /\ instance \in Nat
      /\ instance <= ledger + LongestRow
  BY RowsInvTypes
<1>3. /\ Kept(instance) \in Nat /\ Kept(instance) <= ledger + LongestRow
      /\ Kept(instance) >= ledger + MaxSilence
  BY <1>2, KeptBounds
<1> QED
  BY <1>1, <1>2, <1>3, GrantedTypes

\* A call that leaves the mandates' rows alone, or keeps one.
LEMMA CallKeepsRows ==
  ASSUME MandateRowsInv, Call,
         assetRow' \in 0 .. ledger + LongestRow,
         expires' \in [Mandates -> Nat],
         row' \in [Mandates -> 0 .. ledger + LongestRow],
         \A id \in Mandates :
           expires'[id] # 0 => Covers(row'[id], expires'[id] - now)
  PROVE  MandateRowsInv'
<1>1. /\ instance' \in 0 .. lastCall' + LongestRow
      /\ lastCall' \in 0 .. ledger'
      /\ instance' >= lastCall' + MaxSilence
      /\ ledger' <= lastCall' + MaxSilence
      /\ ledger' = ledger /\ now' = now
  BY CallKeepsInstance
<1>2. MandateRowsTypeOK'
  BY <1>1 DEF MandateRowsInv, MandateRowsTypeOK
<1> QED
  BY <1>1, <1>2 DEF MandateRowsInv, Covers

\* An accepted asset's row, written or only read, is kept.
LEMMA KeptAssetType ==
  ASSUME MandateRowsInv
  PROVE  /\ Kept(assetRow) \in 0 .. ledger + LongestRow
         /\ Kept(NewRow) \in 0 .. ledger + LongestRow
         /\ assetRow \in 0 .. ledger + LongestRow
         /\ 0 \in 0 .. ledger + LongestRow
<1>1. ledger \in Nat /\ assetRow \in 0 .. ledger + LongestRow
  BY RowsInvTypes
<1>2. assetRow \in Nat /\ assetRow <= ledger + LongestRow
  BY <1>1, GrantedTypes
<1>3. NewRow \in Nat /\ NewRow <= ledger + LongestRow
  BY <1>1, NewRowBounds
<1> QED
  BY <1>1, <1>2, <1>3, KeptBounds, GrantedTypes

LEMMA CallOnlyKeeps ==
  ASSUME MandateRowsInv, Call, UNCHANGED <<expires, row>>,
         assetRow' \in 0 .. ledger + LongestRow
  PROVE  MandateRowsInv'
BY RowsInvTypes, CallKeepsRows DEF MandateRowsInv

LEMMA UseMandateKeeps ==
  ASSUME MandateRowsInv, NEW id \in Mandates, UseMandate(id)
  PROVE  MandateRowsInv'
<1>1. /\ Call /\ row' = [row EXCEPT ![id] = Kept(row[id])]
      /\ expires' = expires /\ assetRow' = assetRow /\ expires[id] # 0
  BY DEF UseMandate
<1>2. /\ ledger \in Nat /\ now \in Nat /\ expires \in [Mandates -> Nat]
      /\ row \in [Mandates -> 0 .. ledger + LongestRow]
      /\ row[id] \in Nat /\ row[id] <= ledger + LongestRow
  BY RowsInvTypes, GrantedTypes
<1>3. /\ Kept(row[id]) \in 0 .. ledger + LongestRow
      /\ Kept(row[id]) \in Int /\ Kept(row[id]) >= row[id]
  BY <1>2, KeptBounds, GrantedTypes
<1>4. row' \in [Mandates -> 0 .. ledger + LongestRow]
  BY <1>1, <1>2, <1>3
<1>5. Covers(Kept(row[id]), expires[id] - now)
  BY <1>1, <1>2, <1>3, LaterCovers DEF MandateRowsInv
<1>6. ASSUME NEW k \in Mandates, expires'[k] # 0
      PROVE  Covers(row'[k], expires'[k] - now)
  BY <1>1, <1>2, <1>5, <1>6 DEF MandateRowsInv
<1>7. assetRow' \in 0 .. ledger + LongestRow
  BY <1>1, RowsInvTypes
<1> QED
  BY <1>1, <1>2, <1>4, <1>6, <1>7, CallKeepsRows

LEMMA RegisterMandateKeeps ==
  ASSUME MandateRowsInv, NEW id \in Mandates, NEW secs \in Lifetimes,
         RegisterMandate(id, secs)
  PROVE  MandateRowsInv'
<1>1. /\ Call /\ AcceptableLife(secs)
      /\ expires' = [expires EXCEPT ![id] = now + secs]
      /\ row' = [row EXCEPT ![id] = NewMandateRow]
      /\ assetRow' = Kept(assetRow)
  BY DEF RegisterMandate
<1>2. /\ ledger \in Nat /\ now \in Nat /\ expires \in [Mandates -> Nat]
      /\ row \in [Mandates -> 0 .. ledger + LongestRow]
      /\ secs \in Nat
  BY RowsInvTypes, MandateRowsAssumption
<1>3. NewMandateRow \in 0 .. ledger + LongestRow
  BY <1>2, NewRowBounds, KeptBounds, GrantedTypes DEF NewMandateRow
<1>4. /\ expires' \in [Mandates -> Nat]
      /\ row' \in [Mandates -> 0 .. ledger + LongestRow]
      /\ expires'[id] - now = secs
  BY <1>1, <1>2, <1>3
<1>5. Covers(NewMandateRow, secs)
  BY <1>1, <1>2, NewMandateCovers
<1>6. ASSUME NEW k \in Mandates, expires'[k] # 0
      PROVE  Covers(row'[k], expires'[k] - now)
  <2>1. CASE k = id
    BY <1>1, <1>2, <1>4, <1>5, <2>1
  <2>2. CASE k # id
    BY <1>1, <1>2, <1>6, <2>2 DEF MandateRowsInv
  <2> QED
    BY <2>1, <2>2
<1> QED
  BY <1>1, <1>4, <1>6, KeptAssetType, CallKeepsRows

LEMMA CloseWatchedKeeps ==
  ASSUME MandateRowsInv, CloseWatched
  PROVE  MandateRowsInv'
<1>1. /\ Close /\ ledger' <= lastCall + MaxSilence
      /\ UNCHANGED <<expires, row, assetRow, instance, lastCall>>
  BY DEF CloseWatched, storedVars
<1>2. /\ ledger \in Nat /\ now \in Nat /\ expires \in [Mandates -> Nat]
      /\ \A id \in Mandates : row[id] \in Nat
  BY RowsInvTypes
<1>3. /\ ledger' = ledger + 1 /\ now' \in Nat /\ now' <= MaxTime
  BY <1>1, <1>2, RowLifeAssumption DEF Close
<1>4. MandateRowsTypeOK'
  <2>1. /\ 0 .. ledger + LongestRow \subseteq 0 .. ledger' + LongestRow
        /\ 0 .. ledger \subseteq 0 .. ledger'
    BY <1>2, <1>3, GrantedTypes
  <2>2. now' \in 0 .. MaxTime
    BY <1>3, RowLifeAssumption
  <2> QED
    BY <1>1, <1>2, <1>3, <2>1, <2>2 DEF MandateRowsInv, MandateRowsTypeOK
<1>5. ASSUME NEW id \in Mandates, expires[id] # 0
      PROVE  Covers(row[id], expires[id] - now)'
  BY <1>1, <1>2, <1>5, CloseCovers DEF MandateRowsInv, Covers
<1> QED
  BY <1>1, <1>4, <1>5 DEF MandateRowsInv

LEMMA MandateRowsStep ==
  MandateRowsInv /\ [MandateRowsNext]_mandateRowsVars => MandateRowsInv'
<1> SUFFICES ASSUME MandateRowsInv, [MandateRowsNext]_mandateRowsVars
             PROVE  MandateRowsInv'
  OBVIOUS
<1>1. CASE CloseWatched
  BY <1>1, CloseWatchedKeeps
<1>2. CASE KeepAlive \/ AllowAsset \/ DisallowAsset \/ ReadAsset
  BY <1>2, CallOnlyKeeps, KeptAssetType
     DEF KeepAlive, AllowAsset, DisallowAsset, ReadAsset
<1>3. ASSUME NEW id \in Mandates, UseMandate(id)
      PROVE  MandateRowsInv'
  BY <1>3, UseMandateKeeps
<1>4. ASSUME NEW id \in Mandates, NEW secs \in Lifetimes,
             RegisterMandate(id, secs)
      PROVE  MandateRowsInv'
  BY <1>4, RegisterMandateKeeps
<1>5. CASE UNCHANGED mandateRowsVars
  BY <1>5 DEF mandateRowsVars, storedVars, MandateRowsInv, MandateRowsTypeOK,
              Covers
<1> QED
  BY <1>1, <1>2, <1>3, <1>4, <1>5 DEF MandateRowsNext

\* Rows have their types and never more life than an extension gives.
THEOREM MandateRowsTypeCorrect == MandateRowsSpec => []MandateRowsTypeOK
<1>1. MandateRowsInv => MandateRowsTypeOK
  BY DEF MandateRowsInv
<1> QED
  BY <1>1, MandateRowsInitInv, MandateRowsStep, PTL DEF MandateRowsSpec

\* A mandate of the mainnet registry is usable, as far as storage goes, until
\* it expires, whatever calls come in between (bump_persistent, bump_instance,
\* keep_alive).
THEOREM MandatesAreUsableForLife == MandateRowsSpec => []UsableForLife
<1>1. ASSUME MandateRowsInv
      PROVE  UsableForLife
  <2> SUFFICES ASSUME NEW id \in Mandates, expires[id] # 0, now < expires[id]
               PROVE  Live(row[id]) /\ Live(instance)
    BY DEF UsableForLife
  <2>1. /\ ledger \in Nat /\ row[id] \in Int /\ expires[id] - now \in Nat
        /\ instance \in Nat /\ lastCall \in Nat
    BY <1>1, RowsInvTypes
  <2>2. Live(row[id])
    BY <1>1, <2>1, CoversIsLive DEF MandateRowsInv
  <2>3. Live(instance)
    BY <1>1, <2>1, GrantedTypes DEF MandateRowsInv, Live
  <2> QED
    BY <2>2, <2>3
<1> QED
  BY <1>1, MandateRowsInitInv, MandateRowsStep, PTL DEF MandateRowsSpec

-----------------------------------------------------------------------------
\* The reference policy's rows.

\* The extension asked for, as the host grants it, covers what it is for.
LEMMA ExtendTtlCovers ==
  ASSUME NEW secs \in 0 .. MAX_POLICY_LIFETIME_SECS,
         ~(FastestClose * NewRowTtl >= MAX_POLICY_LIFETIME_SECS)
  PROVE  /\ NewRowTtl <= TTL_THRESHOLD
         /\ FastestClose * Lesser(ExtendTtl(secs), MaxTtl) >= secs
<1>1. /\ MAX_POLICY_LIFETIME_SECS \in Nat /\ secs \in Nat /\ MaxTtl \in Nat
      /\ ExtendTtl(secs) \in Nat
  BY PolicyRowsAssumption, RowLifeAssumption DEF ExtendTtl, Lesser, Greater
<1>2. Lesser(secs, MAX_POLICY_LIFETIME_SECS) = secs
  BY <1>1 DEF Lesser
<1>3. ExtendTtl(secs) = Greater((secs \div SECS_PER_LEDGER) * 2, TTL_EXTEND)
  BY <1>2 DEF ExtendTtl
<1>4. Lesser(ExtendTtl(secs), MaxTtl) = Lesser(MaxTtl, ExtendTtl(secs))
  BY <1>1 DEF Lesser
<1> QED
  BY <1>3, <1>4, PolicyRowsAssumption

LEMMA ExtendTtlType ==
  ASSUME NEW secs \in Nat
  PROVE  ExtendTtl(secs) \in Nat
BY PolicyRowsAssumption, RowLifeAssumption DEF ExtendTtl, Lesser, Greater

LEMMA ExtendedUntilKeeps ==
  ASSUME ledger \in Nat, now \in Nat, NEW expiresAt \in Nat, NEW until \in RowTtl
  PROVE  /\ ExtendedUntil(until, expiresAt) \in RowTtl
         /\ ExtendedUntil(until, expiresAt) >= until
<1>1. ExtendTtl(Remaining(expiresAt)) \in Nat
  BY ExtendTtlType DEF Remaining
<1>2. until \in Nat
  BY RowLifeAssumption DEF RowTtl
<1> QED
  BY <1>1, <1>2, ExtendedIsBounded, ExtendedIsLater, RowLifeAssumption
     DEF ExtendedUntil, RowTtl

\* A new row, whatever it is for, covers what is left of the mandate's life.
LEMMA NewPolicyRowCovers ==
  ASSUME ledger \in Nat, now \in Nat, NEW expiresAt \in Nat,
         now < expiresAt, expiresAt - now <= MAX_POLICY_LIFETIME_SECS
  PROVE  /\ ExtendedUntil(NewRow, expiresAt) \in RowTtl
         /\ Covers(ExtendedUntil(NewRow, expiresAt), expiresAt - now)
<1> DEFINE secs == expiresAt - now
           granted == Lesser(ExtendTtl(secs), MaxTtl)
           until == ExtendedUntil(NewRow, expiresAt)
<1>1. /\ secs \in 0 .. MAX_POLICY_LIFETIME_SECS /\ secs \in Nat
      /\ MAX_POLICY_LIFETIME_SECS \in Nat
      /\ FastestClose \in Nat /\ NewRowTtl \in Nat /\ TTL_THRESHOLD \in Nat
      /\ NewRow = ledger + NewRowTtl /\ NewRow \in RowTtl
  BY PolicyRowsAssumption, RowLifeAssumption, NewRowType DEF NewRow
<1>2. Remaining(expiresAt) = secs
  BY DEF Remaining
<1>3. until \in RowTtl /\ until \in Int /\ until >= NewRow
  BY <1>1, ExtendedUntilKeeps, RowLifeAssumption DEF RowTtl
<1>4. granted \in Nat
  BY <1>1, ExtendTtlType, RowLifeAssumption DEF Lesser
<1>5. CASE FastestClose * NewRowTtl >= MAX_POLICY_LIFETIME_SECS
  <2>1. until - ledger >= NewRowTtl
    BY <1>1, <1>3
  <2>2. FastestClose * (until - ledger) >= FastestClose * NewRowTtl
    BY <1>1, <1>3, <2>1, Monotone
  <2> QED
    BY <1>1, <1>3, <1>5, <2>2 DEF Covers
<1>6. CASE ~(FastestClose * NewRowTtl >= MAX_POLICY_LIFETIME_SECS)
  <2>1. NewRowTtl <= TTL_THRESHOLD /\ FastestClose * granted >= secs
    BY <1>1, <1>6, ExtendTtlCovers
  <2>2. until = Greater(NewRow, ledger + granted)
    BY <1>1, <1>2, <2>1 DEF ExtendedUntil, Extended
  <2>3. until - ledger >= granted
    BY <1>1, <1>4, <2>2 DEF Greater
  <2>4. FastestClose * (until - ledger) >= FastestClose * granted
    BY <1>3, <1>4, <2>3, Monotone
  <2> QED
    BY <1>1, <1>3, <1>4, <2>1, <2>4 DEF Covers
<1> QED
  BY <1>5, <1>6

PolicyRowsInv ==
  /\ PolicyRowsTypeOK
  /\ mandateExpiry - now <= MAX_POLICY_LIFETIME_SECS
  /\ mandateExpiry = 0 => \A n \in Nonces : nonceRow[n] = 0
  /\ mandateExpiry # 0 => Covers(policyRow, mandateExpiry - now)
  /\ \A n \in Nonces : nonceRow[n] # 0 => Covers(nonceRow[n], mandateExpiry - now)

LEMMA PolicyRowTypes ==
  ASSUME PolicyRowsInv
  PROVE  /\ ledger \in Nat /\ now \in Nat /\ mandateExpiry \in Nat
         /\ policyRow \in RowTtl /\ policyRow \in Int
         /\ nonceRow \in [Nonces -> RowTtl]
         /\ \A n \in Nonces : nonceRow[n] \in Int
         /\ MAX_POLICY_LIFETIME_SECS \in Nat
BY RowLifeAssumption, PolicyRowsAssumption
   DEF PolicyRowsInv, PolicyRowsTypeOK, RowTtl

LEMMA PolicyRowsInitInv == PolicyRowsInit => PolicyRowsInv
BY RowLifeAssumption, PolicyRowsAssumption
   DEF PolicyRowsInit, PolicyRowsInv, PolicyRowsTypeOK

LEMMA InstallKeeps ==
  ASSUME PolicyRowsInv, NEW secs \in PolicyLives, InstallPolicy(secs)
  PROVE  PolicyRowsInv'
<1>1. /\ mandateExpiry = 0 /\ mandateExpiry' = now + secs
      /\ secs > 0 /\ secs <= MAX_POLICY_LIFETIME_SECS
      /\ policyRow' = ExtendedUntil(NewRow, now + secs)
      /\ UNCHANGED <<ledger, now, nonceRow>>
  BY DEF InstallPolicy
<1>2. ledger \in Nat /\ now \in Nat /\ secs \in Nat /\ now + secs \in Nat
  BY PolicyRowTypes, PolicyRowsAssumption
<1>3. (now + secs) - now = secs /\ now < now + secs
  BY <1>1, <1>2
<1>4. policyRow' \in RowTtl /\ Covers(policyRow', (now + secs) - now)
  BY <1>1, <1>2, <1>3, NewPolicyRowCovers
<1>5. \A n \in Nonces : nonceRow'[n] = 0
  BY <1>1 DEF PolicyRowsInv
<1>6. PolicyRowsTypeOK'
  BY <1>1, <1>2, <1>4 DEF PolicyRowsInv, PolicyRowsTypeOK, RowTtl
<1> QED
  BY <1>1, <1>2, <1>3, <1>4, <1>5, <1>6 DEF PolicyRowsInv, Covers

\* The policy's row is bumped, and perhaps a nonce's row is written.
LEMMA PolicyBumpKeeps ==
  ASSUME PolicyRowsInv, mandateExpiry # 0,
         policyRow' = ExtendedUntil(policyRow, mandateExpiry),
         nonceRow' \in [Nonces -> RowTtl],
         \A n \in Nonces :
           nonceRow'[n] # 0 => Covers(nonceRow'[n], mandateExpiry - now),
         UNCHANGED <<ledger, now, mandateExpiry>>
  PROVE  PolicyRowsInv'
<1>1. /\ policyRow' \in RowTtl /\ policyRow' \in Int
      /\ policyRow' >= policyRow
  BY PolicyRowTypes, ExtendedUntilKeeps, RowLifeAssumption DEF RowTtl
<1>2. Covers(policyRow', mandateExpiry - now)
  <2>1. Covers(policyRow, mandateExpiry - now)
    BY DEF PolicyRowsInv
  <2>2. mandateExpiry - now \in Int
    BY PolicyRowTypes
  <2> QED
    BY <1>1, <2>1, <2>2, PolicyRowTypes, LaterCovers
<1>3. PolicyRowsTypeOK'
  BY <1>1 DEF PolicyRowsInv, PolicyRowsTypeOK, RowTtl
<1> QED
  BY <1>2, <1>3 DEF PolicyRowsInv, Covers

LEMMA BurnKeeps ==
  ASSUME PolicyRowsInv, NEW n \in Nonces, Burn(n)
  PROVE  PolicyRowsInv'
<1>1. /\ mandateExpiry # 0 /\ now < mandateExpiry
      /\ policyRow' = ExtendedUntil(policyRow, mandateExpiry)
      /\ nonceRow' = [nonceRow EXCEPT ![n] = ExtendedUntil(NewRow, mandateExpiry)]
      /\ UNCHANGED <<ledger, now, mandateExpiry>>
  BY DEF Burn
<1>2. /\ ExtendedUntil(NewRow, mandateExpiry) \in RowTtl
      /\ Covers(ExtendedUntil(NewRow, mandateExpiry), mandateExpiry - now)
  BY <1>1, PolicyRowTypes, NewPolicyRowCovers DEF PolicyRowsInv
<1>3. nonceRow' \in [Nonces -> RowTtl]
  BY <1>1, <1>2, PolicyRowTypes
<1>4. ASSUME NEW k \in Nonces, nonceRow'[k] # 0
      PROVE  Covers(nonceRow'[k], mandateExpiry - now)
  <2>1. CASE k = n
    BY <1>1, <1>2, <2>1, PolicyRowTypes
  <2>2. CASE k # n
    BY <1>1, <1>4, <2>2, PolicyRowTypes DEF PolicyRowsInv
  <2> QED
    BY <2>1, <2>2
<1> QED
  BY <1>1, <1>3, <1>4, PolicyBumpKeeps

LEMMA CloseKeepsPolicy ==
  ASSUME PolicyRowsInv, Close, UNCHANGED <<mandateExpiry, policyRow, nonceRow>>
  PROVE  PolicyRowsInv'
<1>1. ledger \in Nat /\ now \in Nat /\ mandateExpiry \in Nat
  BY PolicyRowTypes
<1>2. /\ ledger' = ledger + 1 /\ now' \in Nat /\ now' <= MaxTime /\ now' >= now
  BY <1>1, RowLifeAssumption DEF Close
<1>3. PolicyRowsTypeOK'
  <2>1. 0 .. ledger + MaxTtl \subseteq 0 .. ledger' + MaxTtl
    BY <1>1, <1>2, RowLifeAssumption
  <2>2. now' \in 0 .. MaxTime
    BY <1>2, RowLifeAssumption
  <2> QED
    BY <1>1, <1>2, <2>1, <2>2 DEF PolicyRowsInv, PolicyRowsTypeOK
<1>4. mandateExpiry - now' <= MAX_POLICY_LIFETIME_SECS
  BY <1>1, <1>2, PolicyRowTypes, LessIsLeft DEF PolicyRowsInv
<1>5. ASSUME NEW until \in Int, Covers(until, mandateExpiry - now)
      PROVE  Covers(until, mandateExpiry - now)'
  BY <1>1, <1>5, CloseCovers DEF Covers
<1>6. ASSUME mandateExpiry # 0
      PROVE  Covers(policyRow, mandateExpiry - now)'
  BY <1>5, <1>6, PolicyRowTypes DEF PolicyRowsInv, Covers
<1>7. ASSUME NEW n \in Nonces, nonceRow[n] # 0
      PROVE  Covers(nonceRow[n], mandateExpiry - now)'
  BY <1>5, <1>7, PolicyRowTypes DEF PolicyRowsInv, Covers
<1> QED
  BY <1>3, <1>4, <1>6, <1>7 DEF PolicyRowsInv, Covers

LEMMA PolicyRowsStep ==
  PolicyRowsInv /\ [PolicyRowsNext]_policyRowsVars => PolicyRowsInv'
<1> SUFFICES ASSUME PolicyRowsInv, [PolicyRowsNext]_policyRowsVars
             PROVE  PolicyRowsInv'
  OBVIOUS
<1>1. CASE Close /\ UNCHANGED <<mandateExpiry, policyRow, nonceRow>>
  BY <1>1, CloseKeepsPolicy
<1>2. CASE GetPolicy
  BY <1>2, PolicyRowTypes, PolicyBumpKeeps DEF GetPolicy, PolicyRowsInv
<1>3. ASSUME NEW secs \in PolicyLives, InstallPolicy(secs)
      PROVE  PolicyRowsInv'
  BY <1>3, InstallKeeps
<1>4. ASSUME NEW n \in Nonces, Burn(n)
      PROVE  PolicyRowsInv'
  BY <1>4, BurnKeeps
<1>5. CASE UNCHANGED policyRowsVars
  BY <1>5 DEF policyRowsVars, PolicyRowsInv, PolicyRowsTypeOK, Covers
<1> QED
  BY <1>1, <1>2, <1>3, <1>4, <1>5 DEF PolicyRowsNext

\* Rows have their types and never more life than the host grants.
THEOREM PolicyRowsTypeCorrect == PolicyRowsSpec => []PolicyRowsTypeOK
<1>1. PolicyRowsInv => PolicyRowsTypeOK
  BY DEF PolicyRowsInv
<1> QED
  BY <1>1, PolicyRowsInitInv, PolicyRowsStep, PTL DEF PolicyRowsSpec

\* A policy and the nonces burnt for it are live as long as the mandate is
\* (extend_until, from install_policy, get_policy and execute).
THEOREM PoliciesOutliveMandates == PolicyRowsSpec => []ReplayEntriesOutliveMandate
<1>1. ASSUME PolicyRowsInv
      PROVE  ReplayEntriesOutliveMandate
  <2> SUFFICES ASSUME now < mandateExpiry
               PROVE  /\ Live(policyRow)
                      /\ \A n \in Nonces : nonceRow[n] # 0 => Live(nonceRow[n])
    BY DEF ReplayEntriesOutliveMandate
  <2>1. /\ ledger \in Nat /\ mandateExpiry - now \in Nat /\ mandateExpiry # 0
        /\ policyRow \in Int /\ \A n \in Nonces : nonceRow[n] \in Int
    BY <1>1, PolicyRowTypes
  <2> QED
    BY <1>1, <2>1, CoversIsLive DEF PolicyRowsInv
<1> QED
  BY <1>1, PolicyRowsInitInv, PolicyRowsStep, PTL DEF PolicyRowsSpec
=============================================================================
