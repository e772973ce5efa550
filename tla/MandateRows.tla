---------------------------- MODULE MandateRows ----------------------------
(***************************************************************************)
(* The rows of the mainnet registry's storage: the contract's instance,    *)
(* which every call needs, the mandates and the listed asset.  Rows are    *)
(* bumped by the calls that touch them, and only when little is left, so   *)
(* whether a mandate can be used for the whole of its life depends on the  *)
(* calls in between; keep_alive is there for a quiet registry.             *)
(***************************************************************************)
EXTENDS RowLife

CONSTANTS
  Mandates,                     \* mandate ids
  Lifetimes,                    \* bound: lifetimes asked for
  MAX_MANDATE_LIFETIME_SECONDS, \* longest life of a mandate
  MaxSilence                    \* the most ledgers between two calls

VARIABLES
  expires,     \* mandate -> the instant it expires; 0: not registered
  row,         \* Mandate(id): the ledger it lives until
  assetRow,    \* AllowedAsset(asset); 0: not listed
  instance,    \* the contract's instance and code
  lastCall     \* environment: the ledger of the last call

storedVars == <<expires, row, assetRow, instance>>
mandateRowsVars == <<ledger, now, storedVars, lastCall>>

\* bump_instance, bump_persistent
Kept(until) ==
  LET extendTo == Lesser(TTL_EXTEND, MaxTtl)
  IN  Extended(until, Lesser(TTL_THRESHOLD, extendTo), extendTo)

\* Ledgers close slowly enough that a new row, extended or not, lives as long
\* as a mandate may; somebody calls before the threshold has gone by.
ASSUME MandateRowsAssumption ==
  /\ Lifetimes \subseteq Nat
  /\ MAX_MANDATE_LIFETIME_SECONDS \in Nat
  /\ MaxSilence \in 0 .. Lesser(TTL_THRESHOLD, Lesser(TTL_EXTEND, MaxTtl))
  /\ MaxSilence <= NewRowTtl
  /\ \/ FastestClose * NewRowTtl >= MAX_MANDATE_LIFETIME_SECONDS
     \/ /\ NewRowTtl <= Lesser(TTL_THRESHOLD, Lesser(TTL_EXTEND, MaxTtl))
        /\ FastestClose * Lesser(TTL_EXTEND, MaxTtl)
             >= MAX_MANDATE_LIFETIME_SECONDS

\* The longest life a row is given.
LongestRow == Greater(NewRowTtl, Lesser(TTL_EXTEND, MaxTtl))

\* Types; a row never has longer to live than its last call gave it.
MandateRowsTypeOK ==
  /\ ledger \in Nat
  /\ now \in 0 .. MaxTime
  /\ expires \in [Mandates -> Nat]
  /\ row \in [Mandates -> 0 .. ledger + LongestRow]
  /\ assetRow \in 0 .. ledger + LongestRow
  /\ instance \in 0 .. lastCall + LongestRow
  /\ lastCall \in 0 .. ledger

\* __constructor
MandateRowsInit ==
  /\ ledger = 0
  /\ now = 0
  /\ expires = [id \in Mandates |-> 0]
  /\ row = [id \in Mandates |-> 0]
  /\ assetRow = Kept(NewRow)
  /\ instance = Kept(NewRow)
  /\ lastCall = 0

\* What every entry point does first, keep_alive and nothing else.
Call ==
  /\ Live(instance)
  /\ instance' = Kept(instance)
  /\ lastCall' = ledger
  /\ UNCHANGED <<ledger, now>>

KeepAlive == Call /\ UNCHANGED <<expires, row, assetRow>>

\* Fault: the new row is written and no more.
NewMandateRowUnbumped == NewRow

\* set_mandate of a mandate not stored before.
NewMandateRow == Kept(NewRow)

\* Fault: any lifetime will do.
AcceptableLifeAny(secs) == secs > 0

AcceptableLife(secs) == secs > 0 /\ secs <= MAX_MANDATE_LIFETIME_SECONDS

RegisterMandate(id, secs) ==
  /\ Call
  /\ expires[id] = 0
  /\ AcceptableLife(secs)
  /\ assetRow # 0 /\ Live(assetRow)
  /\ assetRow' = Kept(assetRow)
  /\ expires' = [expires EXCEPT ![id] = now + secs]
  /\ row' = [row EXCEPT ![id] = NewMandateRow]

\* get_mandate, validate_mandate, and the payments and the revocation that
\* also write: whoever reads a mandate bumps its row.
UseMandate(id) ==
  /\ Call
  /\ expires[id] # 0 /\ Live(row[id])
  /\ row' = [row EXCEPT ![id] = Kept(@)]
  /\ UNCHANGED <<expires, assetRow>>

\* set_asset_allowed, true: the row is written, and then bumped.
AllowAsset ==
  /\ Call
  /\ assetRow # 0 => Live(assetRow)
  /\ assetRow' = Kept(IF assetRow = 0 THEN NewRow ELSE assetRow)
  /\ UNCHANGED <<expires, row>>

DisallowAsset ==
  /\ Call
  /\ assetRow # 0 => Live(assetRow)
  /\ assetRow' = 0
  /\ UNCHANGED <<expires, row>>

\* is_asset_allowed: bumped when it is listed.
ReadAsset ==
  /\ Call
  /\ assetRow # 0 /\ Live(assetRow)
  /\ assetRow' = Kept(assetRow)
  /\ UNCHANGED <<expires, row>>

\* A ledger closes; calls come often enough.
CloseWatched ==
  /\ Close
  /\ ledger' <= lastCall + MaxSilence
  /\ UNCHANGED <<storedVars, lastCall>>

MandateRowsNext ==
  \/ CloseWatched \/ KeepAlive \/ AllowAsset \/ DisallowAsset \/ ReadAsset
  \/ \E id \in Mandates :
       \/ UseMandate(id)
       \/ \E secs \in Lifetimes : RegisterMandate(id, secs)

MandateRowsSpec == MandateRowsInit /\ [][MandateRowsNext]_mandateRowsVars

-----------------------------------------------------------------------------
(* Properties. *)

\* A mandate can be used, as far as storage goes, until it expires: its row,
\* and the instance the call needs, are live at every instant of its life,
\* though neither is extended by registration if more than the threshold is
\* left, and though nobody touches the mandate in between (storage.rs:11,
\* lib.rs:115).
UsableForLife ==
  \A id \in Mandates :
    expires[id] # 0 /\ now < expires[id] => Live(row[id]) /\ Live(instance)
=============================================================================
