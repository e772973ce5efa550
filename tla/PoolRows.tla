------------------------------ MODULE PoolRows ------------------------------
(***************************************************************************)
(* The rows of one clearing pool in the composite registry's storage, and  *)
(* how the pool's operations keep them from being archived.  What the      *)
(* operations do besides is in Composite; here a call may come whenever    *)
(* the life cycle allows it and the rows it reads are live.                *)
(***************************************************************************)
EXTENDS RowLife

CONSTANTS
  Children,               \* mandates bound to the pool
  Deadlines,              \* bound: clearing deadlines
  CAPTURE_WINDOW_SECS,    \* how long after the deadline a capture is valid
  MAX_POOL_HORIZON_SECS   \* longest life of a pool

\* Fault: no margin for ledgers that close early.
HorizonNoMargin(secs) == Greater(secs \div SECS_PER_LEDGER, TTL_EXTEND)

\* extend_to_horizon: seconds to ledgers with a margin of 2, and a floor.
HorizonLedgers(secs) == Greater((secs \div SECS_PER_LEDGER) * 2, TTL_EXTEND)

\* The extension asked for, as the host grants it, is time enough: ledgers
\* close slowly enough, and MaxTtl is long enough for the longest pool.
ASSUME PoolRowsAssumption ==
  /\ Deadlines \subseteq Nat
  /\ CAPTURE_WINDOW_SECS \in Nat
  /\ MAX_POOL_HORIZON_SECS \in Nat
  /\ \A secs \in 0 .. MAX_POOL_HORIZON_SECS :
       FastestClose * Lesser(MaxTtl, Greater((secs \div SECS_PER_LEDGER) * 2,
                                             TTL_EXTEND)) >= secs

VARIABLES
  deadline,    \* the pool's clearing deadline
  status,      \* "None", "Open" or "Closed"
  linkage,     \* child -> "None", "Unlinked", "Committed" or "Released"
  poolRow,     \* Pool(id): the ledger it lives until
  listRow,     \* PoolMembers(id)
  childRow     \* Mandate(id) of each child

rowVars == <<poolRow, listRow, childRow>>
poolRowsVars == <<ledger, now, deadline, status, linkage, rowVars>>

\* Types; no row lives longer than the host allows.
PoolRowsTypeOK ==
  /\ ledger \in Nat
  /\ now \in 0 .. MaxTime
  /\ deadline \in Deadlines
  /\ status \in {"None", "Open", "Closed"}
  /\ linkage \in [Children -> {"None", "Unlinked", "Committed", "Released"}]
  /\ poolRow \in 0 .. ledger + MaxTtl
  /\ listRow \in 0 .. ledger + MaxTtl
  /\ childRow \in [Children -> 0 .. ledger + MaxTtl]

PoolRowsInit ==
  /\ ledger = 0
  /\ now = 0
  /\ deadline \in Deadlines
  /\ status = "None"
  /\ linkage = [c \in Children |-> "None"]
  /\ poolRow = 0
  /\ listRow = 0
  /\ childRow = [c \in Children |-> 0]

WindowEnd == deadline + CAPTURE_WINDOW_SECS
Members   == {c \in Children : linkage[c] = "Committed"}

\* saturating_sub
Horizon == IF now > WindowEnd THEN 0 ELSE WindowEnd - now

\* set_mandate, set_pool, set_pool_members: write, then extend.
Written(until) == Extended(until, TTL_THRESHOLD, TTL_EXTEND)

\* bump_pool_horizon, bump_mandate_horizon
Bumped(until, secs) ==
  Extended(until, HorizonLedgers(secs), HorizonLedgers(secs))

\* The pool's two rows are written and bumped.
TouchPool(secs) ==
  /\ poolRow' = Bumped(Written(poolRow), secs)
  /\ listRow' = Bumped(Written(listRow), secs)

\* Fault: only the pool's own rows are bumped.
TouchChildByWrite(c, secs) ==
  childRow' = [childRow EXCEPT ![c] = Written(@)]

TouchChild(c, secs) ==
  childRow' = [childRow EXCEPT ![c] = Bumped(Written(@), secs)]

RegisterPool ==
  /\ status = "None"
  /\ now < deadline
  /\ WindowEnd - now <= MAX_POOL_HORIZON_SECS
  /\ status' = "Open"
  /\ poolRow' = Bumped(Written(NewRow), Horizon)
  /\ listRow' = Bumped(Written(NewRow), Horizon)
  /\ UNCHANGED <<ledger, now, deadline, linkage, childRow>>

\* register_mandate: the child's row gets the standard extension only.
RegisterChild(c) ==
  /\ linkage[c] = "None"
  /\ status = "Open" /\ Live(poolRow)
  /\ now < deadline
  /\ linkage' = [linkage EXCEPT ![c] = "Unlinked"]
  /\ childRow' = [childRow EXCEPT ![c] = Written(NewRow)]
  /\ UNCHANGED <<ledger, now, deadline, status, poolRow, listRow>>

\* The dedup loop reads every member's row.
CommitChild(c) ==
  /\ linkage[c] = "Unlinked" /\ Live(childRow[c])
  /\ status = "Open" /\ Live(poolRow) /\ Live(listRow)
  /\ now < deadline
  /\ \A k \in Members : Live(childRow[k])
  /\ linkage' = [linkage EXCEPT ![c] = "Committed"]
  /\ TouchPool(WindowEnd - now)
  /\ TouchChild(c, WindowEnd - now)
  /\ UNCHANGED <<ledger, now, deadline, status>>

\* evict_child and revoke_mandate of a member.
ReleaseChild(c) ==
  /\ linkage[c] = "Committed" /\ Live(childRow[c])
  /\ status = "Open" /\ Live(poolRow) /\ Live(listRow)
  /\ linkage' = [linkage EXCEPT ![c] = "Released"]
  /\ TouchPool(Horizon)
  /\ TouchChild(c, Horizon)
  /\ UNCHANGED <<ledger, now, deadline, status>>

\* revoke_mandate, and payments, of a child that is not a member.
WriteChild(c) ==
  /\ linkage[c] \in {"Unlinked", "Released"} /\ Live(childRow[c])
  /\ childRow' = [childRow EXCEPT ![c] = Written(@)]
  /\ UNCHANGED <<ledger, now, deadline, status, linkage, poolRow, listRow>>

\* clear_pool, firing or not: every member's row is read and written.
ClearPool ==
  /\ status = "Open" /\ Live(poolRow) /\ Live(listRow)
  /\ now >= deadline
  /\ \A k \in Members : Live(childRow[k])
  /\ status' = "Closed"
  /\ linkage' = [c \in Children |->
                   IF c \in Members THEN "Released" ELSE linkage[c]]
  /\ poolRow' = Bumped(Written(poolRow), 0)
  /\ listRow' = Bumped(listRow, 0)
  /\ childRow' = [c \in Children |->
                    IF c \in Members THEN Written(childRow[c])
                                     ELSE childRow[c]]
  /\ UNCHANGED <<ledger, now, deadline>>

PoolRowsNext ==
  \/ Close /\ UNCHANGED <<deadline, status, linkage, rowVars>>
  \/ RegisterPool
  \/ ClearPool
  \/ \E c \in Children : \/ RegisterChild(c) \/ CommitChild(c)
                         \/ ReleaseChild(c)  \/ WriteChild(c)

PoolRowsSpec == PoolRowsInit /\ [][PoolRowsNext]_poolRowsVars

-----------------------------------------------------------------------------
(* Properties. *)

\* A pool is never archived inside its own live window: until the end of the
\* capture window its row, its member list and the rows of all its members
\* are live, whoever touched which of them last, so the close finds what it
\* reads (storage.rs:118, extend_to_horizon).
PoolOutlivesWindow ==
  status = "Open" /\ now <= WindowEnd =>
    /\ Live(poolRow)
    /\ Live(listRow)
    /\ \A c \in Members : Live(childRow[c])
=============================================================================
