----------------------------- MODULE MCReentry -----------------------------
(***************************************************************************)
(* Instances of Reentry for TLC.                                           *)
(***************************************************************************)
EXTENDS Reentry

CONSTANTS m1, m2

\* Two members that pay different legs.
MCPoolLegs == [m \in {m1, m2} |-> IF m = m1 THEN 1 ELSE 2]
=============================================================================
