------------------------------ MODULE Schedule ------------------------------
(***************************************************************************)
(* The pure helpers of a pooled mandate's demand curve (mandate.rs of the  *)
(* composite contract): what the registration gate accepts, how many units *)
(* a curve buys at a uniform price, and the largest leg it can produce.    *)
(*                                                                         *)
(* A schedule is a sequence of records [unit_price, max_qty].              *)
(***************************************************************************)
EXTENDS Integers, Sequences, FiniteSetsExt

CONSTANTS
  MAX_SCHEDULE_POINTS,   \* entries a schedule may have
  MAX_UNIT_PRICE,        \* largest price of an entry
  MAX_QTY                \* largest quantity of an entry

ASSUME ScheduleCaps ==
  /\ MAX_SCHEDULE_POINTS \in Nat \ {0}
  /\ MAX_UNIT_PRICE \in Nat \ {0}
  /\ MAX_QTY \in Nat \ {0}

\* What the caller of register_mandate may pass: i128 prices, u128 quantities.
SchedulePoint == [unit_price : Int, max_qty : Nat]

\* Strictly ascending prices and strictly descending quantities, each positive
\* and within its cap, in a non-empty schedule of bounded length.
ValidSchedule(s) ==
  /\ Len(s) \in 1 .. MAX_SCHEDULE_POINTS
  /\ \A i \in DOMAIN s :
       /\ s[i].unit_price \in 1 .. MAX_UNIT_PRICE
       /\ s[i].max_qty \in 1 .. MAX_QTY
       /\ i > 1 => /\ s[i].unit_price > s[i-1].unit_price
                   /\ s[i].max_qty < s[i-1].max_qty

\* The entries that still buy at price p.
Reaching(s, p) == {i \in DOMAIN s : s[i].unit_price >= p}

\* The quantity of the first entry that reaches p; 0 above every entry.
Demand(s, p) == IF Reaching(s, p) = {} THEN 0
                                       ELSE s[Min(Reaching(s, p))].max_qty

LegOf(point) == point.unit_price * point.max_qty

\* The largest leg any clearing price can produce; 0 for the empty schedule.
WorstCase(s) == Max({0} \cup {LegOf(s[i]) : i \in DOMAIN s})
=============================================================================
