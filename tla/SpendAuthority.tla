--------------------------- MODULE SpendAuthority ---------------------------
(***************************************************************************)
(* What a mandate registry promises the users that sign its mandates.  A   *)
(* mandate grants a limit until an expiry; money moves under it only while *)
(* it is granted, unexpired and not revoked, and never beyond the limit.   *)
(* Several mandates may be debited in one step (a pool capture).           *)
(*                                                                         *)
(* There is no code here: the registries are shown to implement it.        *)
(***************************************************************************)
EXTENDS Integers

CONSTANT Ids          \* the mandates' identifiers

VARIABLES
  clock,      \* the ledger's time
  limit,      \* granted id -> the most that may move under it
  expiry,     \* granted id -> the instant it dies
  moved,      \* id -> what has moved under it
  revoked     \* ids whose user withdrew

vars == <<clock, limit, expiry, moved, revoked>>

Init ==
  /\ clock = 0
  /\ limit = <<>>
  /\ expiry = <<>>
  /\ moved = [m \in Ids |-> 0]
  /\ revoked = {}

Advance ==
  /\ clock' > clock
  /\ UNCHANGED <<limit, expiry, moved, revoked>>

\* A new mandate, positive and alive; the others keep their terms.
Grant(m) ==
  /\ m \notin DOMAIN limit
  /\ DOMAIN limit' = DOMAIN limit \cup {m}
  /\ DOMAIN expiry' = DOMAIN limit'
  /\ limit'[m] > 0
  /\ expiry'[m] > clock
  /\ \A k \in DOMAIN limit : limit'[k] = limit[k] /\ expiry'[k] = expiry[k]
  /\ UNCHANGED <<clock, moved, revoked>>

\* Money moves under some mandates, each alive and within its limit.
Debit ==
  /\ moved' # moved
  /\ DOMAIN moved' = Ids
  /\ \A m \in Ids : moved'[m] # moved[m] =>
       /\ m \in DOMAIN limit
       /\ m \notin revoked
       /\ clock < expiry[m]
       /\ moved'[m] > moved[m]
       /\ moved'[m] <= limit[m]
  /\ UNCHANGED <<clock, limit, expiry, revoked>>

\* Never undone.
Revoke(m) ==
  /\ m \in DOMAIN limit
  /\ revoked' = revoked \cup {m}
  /\ UNCHANGED <<clock, limit, expiry, moved>>

Next ==
  \/ Advance
  \/ Debit
  \/ \E m \in Ids : Grant(m) \/ Revoke(m)

Spec == Init /\ [][Next]_vars
=============================================================================
