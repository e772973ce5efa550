-------------------------- MODULE AnnouncedChange --------------------------
(***************************************************************************)
(* What delayed administration promises the users it rules: a change is    *)
(* announced with at least the notice in force, may be withdrawn, and      *)
(* takes effect no earlier than announced.  The notice itself can be       *)
(* lengthened at any time; only a change known to weaken it shortens it.   *)
(*                                                                         *)
(* There is no code here: the registries' upgrade plane and the timelock   *)
(* are shown to implement it.                                              *)
(***************************************************************************)
EXTENDS Integers

CONSTANTS
  Changes,     \* what may be announced
  Weakening    \* the changes that may shorten the notice

VARIABLES
  clock,       \* ledgers or seconds
  notice,      \* how far ahead a change must be announced
  announced,   \* announced change -> the earliest time it may take effect
  latest       \* the change that took effect last

vars == <<clock, notice, announced, latest>>

Init ==
  /\ clock \in Nat
  /\ notice \in Nat
  /\ announced = <<>>

\* Nothing but the clock, and a notice that grows.
Advance ==
  /\ clock' >= clock
  /\ clock' \in Nat
  /\ notice' >= notice
  /\ notice' \in Nat
  /\ UNCHANGED <<announced, latest>>

Announce(c) ==
  /\ c \notin DOMAIN announced
  /\ DOMAIN announced' = DOMAIN announced \cup {c}
  /\ announced'[c] \in Nat
  /\ announced'[c] >= clock + notice
  /\ \A k \in DOMAIN announced : announced'[k] = announced[k]
  /\ UNCHANGED <<clock, notice, latest>>

Dropped(c) ==
  /\ c \in DOMAIN announced
  /\ announced' = [k \in DOMAIN announced \ {c} |-> announced[k]]

Withdraw(c) ==
  /\ Dropped(c)
  /\ UNCHANGED <<clock, notice, latest>>

\* The change takes effect; it shortens the notice only if it says so.
TakeEffect(c) ==
  /\ Dropped(c)
  /\ announced[c] <= clock
  /\ latest' = c
  /\ notice' \in Nat
  /\ c \notin Weakening => notice' >= notice
  /\ UNCHANGED clock

Next ==
  \/ Advance
  \/ \E c \in Changes : Announce(c) \/ Withdraw(c) \/ TakeEffect(c)

Spec == Init /\ [][Next]_vars

-----------------------------------------------------------------------------
\* Nothing that shortens the notice is under way.
NoticeIsSafe == DOMAIN announced \cap Weakening = {}

\* The promise: a change that is not announced at time t, while nothing that
\* would shorten the notice is, does not take effect for as long as the notice
\* then in force, whatever is announced and withdrawn in between.
NoSurprise(c, t, n) ==
  []((clock = t /\ notice = n /\ NoticeIsSafe
        /\ c \notin DOMAIN announced /\ latest # c)
       => [](clock < t + n => latest # c))
=============================================================================
