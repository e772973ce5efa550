------------------------- MODULE MCReferencePolicy --------------------------
(***************************************************************************)
(* An instance of ReferencePolicy for TLC: a mandate held by the extension *)
(* and one held by an ordinary agent, on one user's funds.                 *)
(***************************************************************************)
EXTENDS ReferencePolicy, TLC

CONSTANTS user, bob, shop, usd, m1, m2

Held(agent, max, expiry) ==
  [user |-> user, agent |-> agent, merchant |-> shop, asset |-> usd,
   max_amount |-> max, expiry |-> expiry]

\* m1 may be granted to the extension under two terms: the longer lived is
\* too long for a policy at instant 0.
TwoMandates ==
  (m1 :> {Held(Extension, 3, 3), Held(Extension, 2, 2)}) @@
  (m2 :> {Held(bob, 2, 3)})

Choices == {[max_per_payment |-> 1, not_before |-> 0],
            [max_per_payment |-> 2, not_before |-> 1]}

\* One that check() refuses.
PaymentAmounts == {-1, 1, 2}

\* Short ones that start or end at each instant that matters, and one that is
\* too long.
RequestWindows == {[valid_after |-> 0, valid_before |-> 2],
                   [valid_after |-> 1, valid_before |-> 3],
                   [valid_after |-> 0, valid_before |-> 3]}
=============================================================================
