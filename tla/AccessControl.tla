--------------------------- MODULE AccessControl ---------------------------
(***************************************************************************)
(* Role management as both mainnet contracts expose it (`impl              *)
(* AccessControl for ...`): an external library, modelled from how the     *)
(* contracts construct and query it.  A contract keeps one record of this  *)
(* kind; each operator below relates the record before and after a call.   *)
(*                                                                         *)
(* A call is a record with a field fn, the entry point's name.  The host   *)
(* requires the caller's authorisation; the library requires the rest.     *)
(***************************************************************************)
CONSTANTS
  Accounts,   \* addresses that may hold a role or be the top administrator
  Roles,      \* role names
  Nobody,     \* no administrator, or none on offer
  NoRole      \* a role that no other role manages

ASSUME AccessAssumption == Nobody \notin Accounts /\ NoRole \notin Roles

Access ==
  [admin   : Accounts \cup {Nobody},    \* the top administrator
   offered : Accounts \cup {Nobody},    \* whom the administration is offered
   holders : [Roles -> SUBSET Accounts],
   manager : [Roles -> Roles \cup {NoRole}]]

\* What a constructor leaves: an administrator and the first holders.
NewAccess(administrator, held) ==
  [admin |-> administrator, offered |-> Nobody, holders |-> held,
   manager |-> [r \in Roles |-> NoRole]]

HasRole(a, who, role) == who \in a.holders[role]

\* The administrator manages every role, a manager role's holders theirs.
MayManage(a, caller, role) ==
  \/ caller = a.admin
  \/ /\ a.manager[role] # NoRole
     /\ HasRole(a, caller, a.manager[role])

AccessCalls ==
  [fn : {"grant_role", "revoke_role"}, role : Roles, account : Accounts]
    \cup [fn : {"set_role_admin"}, role : Roles, manager : Roles]
    \cup [fn : {"renounce_role"}, role : Roles]
    \cup [fn : {"transfer_admin_role"}, account : Accounts]
    \cup [fn : {"accept_admin_transfer", "renounce_admin"}]

\* The call c of an account turns the record a into b.
AccessCall(a, b, caller, c) ==
  \/ /\ c.fn = "grant_role"
     /\ MayManage(a, caller, c.role)
     /\ b = [a EXCEPT !.holders[c.role] = @ \cup {c.account}]
  \/ /\ c.fn = "revoke_role"
     /\ MayManage(a, caller, c.role)
     /\ HasRole(a, c.account, c.role)
     /\ b = [a EXCEPT !.holders[c.role] = @ \ {c.account}]
  \/ /\ c.fn = "renounce_role"
     /\ HasRole(a, caller, c.role)
     /\ b = [a EXCEPT !.holders[c.role] = @ \ {caller}]
  \/ /\ c.fn = "set_role_admin"
     /\ caller = a.admin
     /\ b = [a EXCEPT !.manager[c.role] = c.manager]
  \/ /\ c.fn = "transfer_admin_role"
     /\ caller = a.admin
     /\ b = [a EXCEPT !.offered = c.account]
  \/ /\ c.fn = "accept_admin_transfer"
     /\ caller = a.offered
     /\ a.admin # Nobody
     /\ b = [a EXCEPT !.admin = caller, !.offered = Nobody]
  \/ /\ c.fn = "renounce_admin"
     /\ caller = a.admin
     /\ a.offered = Nobody
     /\ b = [a EXCEPT !.admin = Nobody]

\* The offer of the administration is withdrawn or runs out; its deadline is
\* not kept, so it may run out at any time.
OfferLapses(a, b) ==
  /\ a.offered # Nobody
  /\ b = [a EXCEPT !.offered = Nobody]
=============================================================================
