---------------------------- MODULE MCComposite -----------------------------
(***************************************************************************)
(* Instances of Composite for TLC.  A configuration picks the pools, the   *)
(* terms and the freedom of the environment that its question needs.       *)
(***************************************************************************)
EXTENDS Composite, TLC

CONSTANTS u1, u2, shop, usd, m1, m2, m3, p1, p2

Pt(price, qty) == [unit_price |-> price, max_qty |-> qty]

Pooled(u, p, max, sched) ==
  [user |-> u, merchant |-> shop, asset |-> usd, max_amount |-> max,
   expiry |-> 3, pool_id |-> p, price_schedule |-> sched]

Solo(u, max, expiry) ==
  [user |-> u, merchant |-> shop, asset |-> usd, max_amount |-> max,
   expiry |-> expiry, pool_id |-> NoPool, price_schedule |-> <<>>]

PoolOf(qty, value, min, deadline) ==
  [merchant |-> shop, asset |-> usd, threshold_qty |-> qty,
   threshold_value |-> value, min_child_value |-> min,
   clearing_deadline |-> deadline]

\* One pool.  m1 fires it alone at price 2, inside its only interval; with m2
\* it fires at price 1.  m3 draws on the allowance of m1's user.  m1's budget
\* leaves room to pay 2 solo once or twice before it commits: captured after
\* one such payment, it has a counter at its width after two.
AuctionPools == p1 :> PoolOf(2, 3, 1, 1)
AuctionTerms ==
  (m1 :> {Pooled(u1, p1, 10, <<Pt(3, 2)>>)}) @@
  (m2 :> {Pooled(u2, p1, 2, <<Pt(1, 2), Pt(2, 1)>>)}) @@
  (m3 :> {Solo(u1, 2, 2)})

\* Two pools over one asset and one user, who may bid twice in p1 or once in
\* each, all on the same allowance.  Bids outlive the run, so that only the end
\* of the window can undo a met pool, but for one that would expire inside the
\* window: register_mandate must refuse it.
SharedPools == (p1 :> PoolOf(1, 0, 0, 1)) @@ (p2 :> PoolOf(0, 2, 0, 1))
Bid(p, sched, expiry) == [Pooled(u1, p, 2, sched) EXCEPT !.expiry = expiry]
SharedTerms ==
  (m1 :> {Bid(p1, <<Pt(2, 1)>>, 4), Bid(p1, <<Pt(2, 1)>>, 2)}) @@
  (m3 :> {Bid(p1, <<Pt(1, 2)>>, 4), Bid(p2, <<Pt(2, 1)>>, 4)})

\* One pool of two bidders that fires only when both are in.
PairPools == p1 :> PoolOf(2, 2, 1, 1)
PairTerms ==
  (m1 :> {[Pooled(u1, p1, 2, <<Pt(2, 1)>>) EXCEPT !.expiry = 4]}) @@
  (m2 :> {[Pooled(u2, p1, 2, <<Pt(1, 1)>>) EXCEPT !.expiry = 4]})
=============================================================================
