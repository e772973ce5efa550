------------------------------ MODULE RowLife ------------------------------
(***************************************************************************)
(* A stored row's time to live, as the host keeps it: a row is readable    *)
(* through the ledger it lives until, and archived afterwards; a call that *)
(* needs an archived row fails.  External, modelled from the storage       *)
(* modules' use of it; each of those names its own threshold and extension.*)
(***************************************************************************)
EXTENDS Integers

CONSTANTS
  NewRowTtl,      \* ledgers the host gives a row when it is written first
  MaxTtl,         \* the longest time to live the host grants
  FastestClose,   \* the fewest seconds between two ledgers
  SlowestClose,   \* the most seconds between two ledgers
  SECS_PER_LEDGER, \* storage.rs: seconds it takes a ledger for
  TTL_THRESHOLD,  \* storage.rs: a row with at most this left is extended
  TTL_EXTEND,     \* ... to this, or more
  MaxTime         \* bound: the last instant

ASSUME RowLifeAssumption ==
  /\ MaxTtl \in Nat
  /\ NewRowTtl \in 0 .. MaxTtl
  /\ FastestClose \in Nat \ {0}
  /\ SlowestClose \in Nat
  /\ SECS_PER_LEDGER \in Nat \ {0}
  /\ TTL_THRESHOLD \in Nat
  /\ TTL_EXTEND \in Nat
  /\ MaxTime \in Nat

VARIABLES
  ledger,   \* sequence number
  now       \* close time, in seconds

Lesser(a, b)  == IF a < b THEN a ELSE b
Greater(a, b) == IF a > b THEN a ELSE b

NewRow == ledger + NewRowTtl

Live(until) == ledger <= until

\* extend_ttl(threshold, to): a row with at most threshold ledgers left gets
\* to ledgers, and never fewer than it has.
Extended(until, threshold, to) ==
  IF until - ledger <= threshold
  THEN Greater(until, ledger + Lesser(to, MaxTtl))
  ELSE until

\* A ledger closes.
Close ==
  /\ ledger' = ledger + 1
  /\ \E secs \in FastestClose .. SlowestClose : now' = now + secs
  /\ now' <= MaxTime
=============================================================================
