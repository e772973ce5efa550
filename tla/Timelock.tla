------------------------------ MODULE Timelock ------------------------------
(***************************************************************************)
(* The timelock controller: operations are scheduled by proposers with at  *)
(* least the minimum delay, may be cancelled, and run once they are ready  *)
(* and their predecessor has run.  An operation on another contract runs   *)
(* through execute; one on the timelock itself cannot (the host refuses    *)
(* re-entry) and runs as a call of the admin function that __check_auth    *)
(* authorises by consuming the operation.                                  *)
(*                                                                         *)
(* The bookkeeping of operations is an external library, modelled from its *)
(* use.  An operation's id is the hash of its contents, so an id has one   *)
(* target, call and predecessor.                                           *)
(***************************************************************************)
EXTENDS Integers, Sequences, AccessControl

CONSTANTS
  Self,        \* the timelock's own address
  Proposers,   \* constructor: get the proposer and the canceller role
  Executors,   \* constructor: get the executor role; none: anyone executes
  Admins,      \* constructor: possible administrators, Self for None
  Ops,         \* operation ids
  NoOp,        \* no predecessor
  TargetOf,    \* id -> the contract it calls
  CallOf,      \* id -> the call it makes
  PredOf,      \* id -> the operation it must follow, or NoOp
  OwnCalls,    \* bound: calls accounts make on the timelock directly
  Delays,      \* delays callers ask for
  MaxLedger    \* bound: the last ledger

ASSUME TimelockAssumption ==
  /\ Self \in Accounts
  /\ Proposers \subseteq Accounts
  /\ Executors \subseteq Accounts
  /\ Admins \subseteq Accounts
  /\ NoOp \notin Ops
  /\ TargetOf \in [Ops -> Accounts]
  /\ PredOf \in [Ops -> Ops \cup {NoOp}]
  /\ Delays \subseteq Nat
  /\ OwnCalls \subseteq [fn : {"update_delay"}, delay : Delays] \cup AccessCalls
  /\ \A o \in Ops :
       TargetOf[o] = Self =>
         CallOf[o] \in [fn : {"update_delay"}, delay : Delays] \cup AccessCalls
  /\ MaxLedger \in Nat
  /\ {"proposer", "executor", "canceller"} \subseteq Roles

VARIABLES
  ledger,      \* the ledger's sequence number
  minDelay,    \* storage: the least delay of an operation, in ledgers
  tlRoles,     \* the library's role record
  readyAt,     \* storage: pending operation -> the ledger it is ready at
  done,        \* storage: operations that ran
  ran          \* history: the operations that ran, in order

opVars == <<readyAt, done, ran>>
timelockVars == <<ledger, minDelay, tlRoles, opVars>>

TimelockTypeOK ==
  /\ ledger \in 0 .. MaxLedger
  /\ minDelay \in Delays
  /\ tlRoles \in Access
  /\ DOMAIN readyAt \subseteq Ops
  /\ readyAt \in [DOMAIN readyAt -> Nat]
  /\ done \subseteq Ops
  /\ ran \in Seq(Ops)

TimelockInit ==
  /\ ledger = 0
  /\ minDelay \in Delays
  /\ \E admin \in Admins :
       tlRoles = NewAccess(admin,
         [r \in Roles |-> IF r \in {"proposer", "canceller"} THEN Proposers
                          ELSE IF r = "executor" THEN Executors ELSE {}])
  /\ readyAt = <<>>
  /\ done = {}
  /\ ran = <<>>

-----------------------------------------------------------------------------
\* The operations' states.

Pending == DOMAIN readyAt

\* Fault: a predecessor need not have run.
RunnableOutOfOrder(o) ==
  /\ o \in Pending
  /\ readyAt[o] <= ledger

\* Fault: an operation that already ran is taken for ready.
RunnableAgain(o) ==
  /\ \/ o \in done
     \/ o \in Pending /\ readyAt[o] <= ledger
  /\ PredOf[o] # NoOp => PredOf[o] \in done

\* Fault: it runs one ledger early.
RunnableEarly(o) ==
  /\ o \in Pending
  /\ readyAt[o] <= ledger + 1
  /\ PredOf[o] # NoOp => PredOf[o] \in done

\* Ready, and in its turn.
Runnable(o) ==
  /\ o \in Pending
  /\ readyAt[o] <= ledger
  /\ PredOf[o] # NoOp => PredOf[o] \in done

Unscheduled(o) == readyAt' = [k \in Pending \ {o} |-> readyAt[k]]

\* set_execute_operation
Consume(o) ==
  /\ Unscheduled(o)
  /\ done' = done \cup {o}
  /\ ran' = Append(ran, o)

\* Fault: with no executors, nobody may execute.
MayExecuteNamedOnly(executor) == HasRole(tlRoles, executor, "executor")

\* Nobody holds the executor role: anyone may execute.
MayExecute(executor) ==
  tlRoles.holders["executor"] # {} => HasRole(tlRoles, executor, "executor")

-----------------------------------------------------------------------------
\* The entry points.

\* Fault: any delay will do.
LongEnoughAlways(delay) == delay >= 0

LongEnough(delay) == delay >= minDelay

Schedule(proposer, o, delay) ==
  /\ HasRole(tlRoles, proposer, "proposer")
  /\ o \notin Pending \cup done
  /\ LongEnough(delay)
  /\ readyAt' = [k \in Pending \cup {o} |->
                   IF k = o THEN ledger + delay ELSE readyAt[k]]
  /\ UNCHANGED <<ledger, minDelay, tlRoles, done, ran>>

\* A ready operation can still be cancelled, one that ran cannot.
Cancel(canceller, o) ==
  /\ HasRole(tlRoles, canceller, "canceller")
  /\ o \in Pending
  /\ Unscheduled(o)
  /\ UNCHANGED <<ledger, minDelay, tlRoles, done, ran>>

\* The timelock's part; the target's part succeeds or nothing happened.
Execute(executor, o) ==
  /\ MayExecute(executor)
  /\ TargetOf[o] # Self
  /\ Runnable(o)
  /\ Consume(o)
  /\ UNCHANGED <<ledger, minDelay, tlRoles>>

\* The administration functions, for whoever is authorised.
OwnCall(caller, c) ==
  \/ /\ c.fn = "update_delay"
     /\ caller = tlRoles.admin
     /\ minDelay' = c.delay
     /\ UNCHANGED tlRoles
  \/ /\ AccessCall(tlRoles, tlRoles', caller, c)
     /\ UNCHANGED minDelay

\* An account calls one with its own signature.
CallDirectly(caller, c) ==
  /\ OwnCall(caller, c)
  /\ UNCHANGED <<ledger, opVars>>

\* Fault: the timelock vouches for any call anyone makes in its name.
CheckAuthAlways(executor, o) ==
  /\ MayExecute(executor)
  /\ TargetOf[o] = Self
  /\ Consume(o)

\* __check_auth: the timelock vouches for a call of itself by consuming the
\* operation that announced it.
CheckAuth(executor, o) ==
  /\ MayExecute(executor)
  /\ TargetOf[o] = Self
  /\ Runnable(o)
  /\ Consume(o)

\* One is called in the timelock's name.
CallAsSelf(executor, o) ==
  /\ CheckAuth(executor, o)
  /\ OwnCall(Self, CallOf[o])
  /\ UNCHANGED ledger

TimelockOfferLapses ==
  /\ OfferLapses(tlRoles, tlRoles')
  /\ UNCHANGED <<ledger, minDelay, opVars>>

LedgerCloses ==
  /\ ledger < MaxLedger
  /\ ledger' = ledger + 1
  /\ UNCHANGED <<minDelay, tlRoles, opVars>>

\* Who signs.  That the timelock is its own proposer, canceller or executor is
\* not modelled.
Signers == Accounts \ {Self}

\* Everything but execute and the passage of time.
TimelockCalls ==
  \/ \E who \in Signers, o \in Ops, d \in Delays : Schedule(who, o, d)
  \/ \E who \in Signers, o \in Ops : Cancel(who, o) \/ CallAsSelf(who, o)
  \/ \E who \in Signers, c \in OwnCalls : CallDirectly(who, c)
  \/ TimelockOfferLapses

TimelockNext ==
  \/ LedgerCloses
  \/ TimelockCalls
  \/ \E who \in Signers, o \in Ops : Execute(who, o)

TimelockSpec == TimelockInit /\ [][TimelockNext]_timelockVars

-----------------------------------------------------------------------------
(* Properties. *)

\* No operation runs twice, through either of the two ways to run it and
\* however often it is cancelled and scheduled again; one that ran is no
\* longer pending, and it is exactly those that ran that are marked done
\* (schedule, cancel, execute, __check_auth).
RunsOnce ==
  /\ \A i, j \in DOMAIN ran : ran[i] = ran[j] => i = j
  /\ done = {ran[i] : i \in DOMAIN ran}
  /\ done \cap Pending = {}

\* An operation never runs before the one it names as its predecessor, which
\* may itself be cancelled, and may be an operation of the other kind.
PredecessorFirst ==
  \A i \in DOMAIN ran :
    PredOf[ran[i]] # NoOp => \E j \in 1 .. i - 1 : ran[j] = PredOf[ran[i]]

\* An external administrator is advised to renounce once the roles are set up
\* "in favor of administration through timelocked proposals", because "the
\* contract itself is always granted the admin role" (contract.rs:102, 240):
\* somebody administers the timelock at all times.
AlwaysAdministered == tlRoles.admin # Nobody

\* Operations of the timelock that may shorten the notice.
WeakeningOps ==
  {o \in Ops : /\ TargetOf[o] = Self
               /\ CallOf[o].fn \in {"update_delay", "transfer_admin_role"}}

\* The notice users can count on: none while somebody else is, or may become,
\* the administrator and set the delay at once.
NoticeInForce ==
  IF tlRoles.admin \in {Self, Nobody} /\ tlRoles.offered = Nobody
  THEN minDelay ELSE 0

\* The timelock keeps the promise of announced changes, for operations on
\* other contracts and on itself alike.
Announced == INSTANCE AnnouncedChange WITH
  Changes   <- Ops,
  Weakening <- WeakeningOps,
  clock     <- ledger,
  notice    <- NoticeInForce,
  announced <- readyAt,
  latest    <- IF ran = <<>> THEN NoOp ELSE ran[Len(ran)]

RefinesAnnounced == Announced!Spec
=============================================================================
