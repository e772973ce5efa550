--------------------------- MODULE ReentryProofs ----------------------------
(***************************************************************************)
(* Proofs about re-entry, for every set of mandates and of nonces, every   *)
(* pool, and calls nested to any depth.                                    *)
(*                                                                         *)
(* The properties speak of the state between transactions, or of the whole *)
(* stack; what is inductive speaks of one frame.  Frame k found the store  *)
(* Store(k) and handed Store(k + 1) to the frame it called back, so the    *)
(* books are off between the two by what frame k still owes (BooksOf), the *)
(* locks differ by the one it holds, and what it has burnt stays burnt in  *)
(* all the stores above (Keeps).  A failure cuts the stack at a frame and  *)
(* puts back the store it found, about which the frames below know all     *)
(* they need.                                                              *)
(***************************************************************************)
EXTENDS Reentry, FiniteSetTheorems, SequenceTheorems, TLAPS

\* Types.  What a call may have left to do, and what the contracts keep.
Row == [spent : Nat, seq : Nat, status : {"Active", "Revoked", "Exhausted"},
        pool_state : {"Unlinked", "Committed", "Captured", "Released"}]

Steps ==
  [do : {"write"}, id : Mandates, row : Row]
    \cup [do : {"transfer", "charge", "release"}, id : Mandates, amount : Nat]
    \cup [do : {"close", "moved"}]
    \cup [do : {"lock", "unlock"}, id : Mandates]
    \cup [do : {"burn"}, nonce : Nonces]
    \cup [do : {"call", "called"}, id : Mandates, amount : Nat, nonce : Nonces]

Stores ==
  [rows : [Mandates -> Row], pool : {"Open", "Cleared", "Aborted"},
   consumed : SUBSET Nonces, executing : SUBSET Mandates,
   moved : [Mandates -> Nat], served : [Nonces -> Nat]]

Frames == [todo : Seq(Steps), saved : Stores]

-----------------------------------------------------------------------------
\* What a frame has left to do.

Members(t) == {i \in DOMAIN t : t[i].do \in {"charge", "release"}}

Transfers(t) == {i \in DOMAIN t : t[i].do = "transfer"}

\* What m is about to be charged, it does not yet owe.
Uncharged(t, m) == \E i \in DOMAIN t : t[i].do \in {"write", "charge"} /\ t[i].id = m

Closing(t) == t # <<>> /\ t[1].do = "close"

\* The frame is in the token, or waits for a call of its own.
Waiting(t) == t # <<>> /\ t[1].do \in {"transfer", "moved", "called"}

\* A capture, or a payment whose row is written: the effects on members that
\* are still committed, each once, then the transfers, each once.
Collecting(t, s) ==
  /\ \A i \in DOMAIN t :
       /\ t[i].do \in {"close", "charge", "release", "transfer", "moved"}
       /\ t[i].do \in {"close", "moved"} => i = 1
  /\ \A i, j \in DOMAIN t :
       i < j /\ t[i].do \in {"transfer", "moved"} => t[j].do = "transfer"
  /\ \A i, j \in Transfers(t) : t[i].id = t[j].id => i = j
  /\ \A i, j \in Members(t) : t[i].id = t[j].id => i = j
  /\ \A i \in Members(t) :
       /\ s.rows[t[i].id].pool_state = "Committed"
       /\ s.pool = "Cleared" \/ Closing(t)
       /\ t[i].do = "charge" =>
            \E j \in Transfers(t) : t[j].id = t[i].id /\ t[j].amount = t[i].amount

\* A payment that has passed its checks, on the row as it still is.
Begun(t, s) ==
  \E m \in Mandates, n \in Amounts :
    t = PaySteps(m, n, s.rows[m]) /\ s.rows[m].spent + n <= MaxAmount

\* A request on its way through the reference policy.
Requesting(t, before, after) ==
  \E m \in Policed, n \in Amounts, x \in Nonces :
    /\ m \notin before.executing
    /\ x \notin before.consumed
    /\ LET call   == [do |-> "call", id |-> m, amount |-> n, nonce |-> x]
           called == [do |-> "called", id |-> m, amount |-> n, nonce |-> x]
           burn   == [do |-> "burn", nonce |-> x]
           unlock == [do |-> "unlock", id |-> m]
       IN  \/ x \notin after.consumed /\ t \in {ExecuteSteps(m, n, x),
                                                 <<burn, call, unlock>>}
           \/ t \in {<<call, unlock>>, <<called, unlock>>, <<unlock>>}

\* The lock a frame holds, and the nonce it has burnt and not yet used.
Holds(t) ==
  {t[i].id : i \in {j \in DOMAIN t : t[j].do = "unlock"
                      /\ \A k \in DOMAIN t : t[k].do # "lock"}}

Burnt(t) ==
  {t[i].nonce : i \in {j \in DOMAIN t : t[j].do \in {"call", "called"}
                         /\ \A k \in DOMAIN t : t[k].do # "burn"}}

\* What is kept of m but not moved.
Debt(s, m) == s.rows[m].spent - s.moved[m]

\* Between the store a frame found and the store after it, the books of m are
\* off by the transfer it owes.
BooksOf(t, before, after, m) ==
  /\ \A i \in Transfers(t) : t[i].id = m /\ ~Uncharged(t, m) =>
       Debt(after, m) = Debt(before, m) + t[i].amount
  /\ (Uncharged(t, m) \/ \A i \in Transfers(t) : t[i].id # m) =>
       Debt(after, m) = Debt(before, m)

Level(t, before, after) ==
  /\ Collecting(t, after) \/ Begun(t, after) \/ Requesting(t, before, after)
  /\ \A m \in Mandates : BooksOf(t, before, after, m)
  /\ Holds(t) \cap before.executing = {}
  /\ after.executing = before.executing \cup Holds(t)

\* What the frames above must leave as it is.
Keeps(t, s) ==
  /\ Holds(t) \subseteq s.executing
  /\ Burnt(t) \subseteq s.consumed
  /\ \A x \in Burnt(t) : s.served[x] = 0

-----------------------------------------------------------------------------
\* What holds of every store.
Sound(s) ==
  /\ \A m \in Mandates :
       /\ s.rows[m].spent <= MaxAmount
       /\ s.rows[m].pool_state \in {"Committed", "Captured"} => m \in Committed
       /\ s.rows[m].pool_state = "Captured" => s.pool = "Cleared"
  /\ \A x \in Nonces : s.served[x] <= 1 /\ (s.served[x] # 0 => x \in s.consumed)

\* Nobody is left behind by a capture, but for those t is about to let go.
Settles(t, s) ==
  s.pool = "Cleared" \/ Closing(t) =>
    \A m \in Mandates : s.rows[m].pool_state = "Committed" =>
      \E i \in Members(t) : t[i].id = m

Quiet(s) == Settles(<<>>, s)

\* Between transactions nothing is owed and nothing is locked.
Balanced(s) == (\A m \in Mandates : Debt(s, m) = 0) /\ s.executing = {}

\* The store that frame k found; the last is the store as it is.
Found(frames, s, k) == IF k <= Len(frames) THEN frames[k].saved ELSE s

Inv(frames, s) ==
  /\ s \in Stores /\ frames \in Seq(Frames)
  /\ \A k \in 1 .. Len(frames) + 1 : Sound(Found(frames, s, k))
  /\ Balanced(Found(frames, s, 1))
  /\ \A k \in 1 .. Len(frames) :
       /\ Quiet(frames[k].saved)
       /\ Level(frames[k].todo, frames[k].saved, Found(frames, s, k + 1))
       /\ k < Len(frames) => Waiting(frames[k].todo)
       /\ \A l \in k + 1 .. Len(frames) + 1 : Keeps(frames[k].todo, Found(frames, s, l))
  /\ Settles(IF frames = <<>> THEN <<>> ELSE frames[Len(frames)].todo, s)

IInv == Inv(stack, store)

-----------------------------------------------------------------------------
(* Lemmas about one frame. *)

\* What a list is when its first step is done.
LEMMA TailOf ==
  ASSUME NEW S, NEW t \in Seq(S), t # <<>>
  PROVE  /\ Tail(t) \in Seq(S)
         /\ Len(t) \in Nat /\ Len(t) >= 1
         /\ DOMAIN t = 1 .. Len(t)
         /\ Head(t) = t[1] /\ t[1] \in S
         /\ Len(Tail(t)) = Len(t) - 1
         /\ DOMAIN Tail(t) = 1 .. Len(t) - 1
         /\ \A i \in DOMAIN Tail(t) : i \in 1 .. Len(t) - 1 /\ i + 1 \in DOMAIN t
                                      /\ Tail(t)[i] = t[i + 1]
<1>1. /\ Tail(t) \in Seq(S) /\ Len(t) \in Nat /\ Len(t) >= 1
      /\ DOMAIN t = 1 .. Len(t) /\ Len(Tail(t)) = Len(t) - 1
      /\ Head(t) = t[1] /\ t[1] \in S
      /\ \A i \in 1 .. Len(t) - 1 : Tail(t)[i] = t[i + 1]
  OBVIOUS
<1>2. DOMAIN Tail(t) = 1 .. Len(t) - 1
  BY <1>1
<1> QED
  BY <1>1, <1>2

\* A waiting frame has no effects left to write, so what it expects of the
\* store does not depend on the rows.
LEMMA WaitingFrame ==
  ASSUME NEW t \in Seq(Steps), NEW before, NEW after, Level(t, before, after), Waiting(t)
  PROVE  /\ Members(t) = {} /\ ~Closing(t)
         /\ \A s : Collecting(t, s) \/ Requesting(t, before, s)
<1>1. t # <<>> /\ t[1].do \in {"transfer", "moved", "called"}
  BY DEF Waiting
<1>2. ~Closing(t)
  BY <1>1 DEF Closing
<1>3. ~Begun(t, after)
  BY <1>1 DEF Begun, PaySteps
<1>4. CASE Collecting(t, after)
  <2>1. DOMAIN t = 1 .. Len(t) /\ Len(t) \in Nat /\ Len(t) >= 1
    BY <1>1, TailOf
  <2>2. Members(t) = {}
    <3>1. ASSUME NEW i \in DOMAIN t
          PROVE  t[i].do \in {"transfer", "moved", "called"}
      <4>1. CASE i = 1
        BY <1>1, <4>1
      <4>2. CASE i # 1
        <5>1. 1 < i /\ 1 \in DOMAIN t
          BY <2>1, <4>2
        <5>2. t[1].do \in {"transfer", "moved"}
          BY <1>1, <1>4, <5>1 DEF Collecting
        <5> QED
          BY <1>4, <5>1, <5>2 DEF Collecting
      <4> QED
        BY <4>1, <4>2
    <3> QED
      BY <3>1 DEF Members
  <2>3. \A s : Collecting(t, s)
    BY <1>4, <2>2 DEF Collecting
  <2> QED
    BY <1>2, <2>2, <2>3
<1>5. CASE Requesting(t, before, after)
  <2>1. PICK m \in Policed, n \in Amounts, x \in Nonces :
          /\ m \notin before.executing
          /\ x \notin before.consumed
          /\ t = << [do |-> "called", id |-> m, amount |-> n, nonce |-> x],
                    [do |-> "unlock", id |-> m] >>
    BY <1>1, <1>5 DEF Requesting, ExecuteSteps
  <2>2. Members(t) = {}
    BY <2>1 DEF Members
  <2>3. \A s : Requesting(t, before, s)
    BY <2>1 DEF Requesting
  <2> QED
    BY <1>2, <2>2, <2>3
<1> QED
  BY <1>3, <1>4, <1>5 DEF Level

\* A waiting frame stays in order whatever the calls above it did, as long as
\* they left the books and the locks as they found them.
LEMMA WaitingLevel ==
  ASSUME NEW t \in Seq(Steps), NEW before, NEW after, NEW s,
         Level(t, before, after), Waiting(t),
         \A m \in Mandates : Debt(s, m) = Debt(after, m),
         s.executing = after.executing
  PROVE  Level(t, before, s)
<1>1. Collecting(t, s) \/ Requesting(t, before, s)
  BY WaitingFrame
<1>2. \A m \in Mandates : BooksOf(t, before, s, m)
  BY DEF Level, BooksOf
<1> QED
  BY <1>1, <1>2 DEF Level

LEMMA WaitingIsQuiet ==
  ASSUME NEW t \in Seq(Steps), NEW before, NEW after, NEW s,
         Level(t, before, after), Waiting(t)
  PROVE  Settles(t, s) <=> Quiet(s)
<1>1. Members(t) = {} /\ ~Closing(t)
  BY WaitingFrame
<1>2. Members(<<>>) = {} /\ ~Closing(<<>>)
  BY DEF Members, Closing
<1> QED
  BY <1>1, <1>2 DEF Settles, Quiet

-----------------------------------------------------------------------------
(* Lemmas about the stack: a frame goes on, calls, or returns. *)

\* What the invariant says of one level.
LEMMA AtLevel ==
  ASSUME NEW frames, NEW s, Inv(frames, s), NEW k \in 1 .. Len(frames)
  PROVE  /\ frames[k] \in Frames
         /\ frames[k].todo \in Seq(Steps) /\ frames[k].saved \in Stores
         /\ Sound(frames[k].saved) /\ Quiet(frames[k].saved)
         /\ Level(frames[k].todo, frames[k].saved, Found(frames, s, k + 1))
         /\ k < Len(frames) => Waiting(frames[k].todo)
         /\ \A l \in k + 1 .. Len(frames) + 1 :
              Keeps(frames[k].todo, Found(frames, s, l))
         /\ k = Len(frames) => Found(frames, s, k + 1) = s
<1>1. frames[k] \in Frames /\ Len(frames) \in Nat
  BY DEF Inv
<1>2. Found(frames, s, k) = frames[k].saved
  BY DEF Found
<1>3. k \in 1 .. Len(frames) + 1
  BY <1>1
<1>4. k = Len(frames) => Found(frames, s, k + 1) = s
  BY <1>1 DEF Found
<1> QED
  BY <1>1, <1>2, <1>3, <1>4 DEF Inv, Frames

\* The frame on top does a step.
LEMMA Advance ==
  ASSUME NEW frames, NEW s, Inv(frames, s), NEW n, n = Len(frames), n > 0,
         NEW t \in Seq(Steps), NEW s2 \in Stores, NEW frames2,
         frames2 = [frames EXCEPT ![n].todo = t],
         Sound(s2), Level(t, frames[n].saved, s2), Keeps(t, s2), Settles(t, s2),
         \A k \in 1 .. n - 1 : Keeps(frames[k].todo, s2)
  PROVE  Inv(frames2, s2)
<1>1. frames \in Seq(Frames) /\ n \in Nat /\ n \in 1 .. Len(frames) /\ DOMAIN frames = 1 .. n
  BY DEF Inv
<1>2. frames[n] \in Frames
  BY <1>1
<1>3. /\ frames2 \in Seq(Frames) /\ Len(frames2) = n
      /\ \A k \in 1 .. n - 1 : frames2[k] = frames[k]
      /\ frames2[n].todo = t /\ frames2[n].saved = frames[n].saved
  BY <1>1, <1>2 DEF Frames
<1>4. /\ \A k \in 1 .. n : Found(frames2, s2, k) = Found(frames, s, k)
      /\ Found(frames2, s2, n + 1) = s2
  BY <1>1, <1>3 DEF Found
<1>5. \A k \in 1 .. Len(frames2) + 1 : Sound(Found(frames2, s2, k))
  <2> TAKE k \in 1 .. Len(frames2) + 1
  <2>1. CASE k = n + 1
    BY <1>4, <2>1
  <2>2. CASE k # n + 1
    <3>1. k \in 1 .. n /\ k \in 1 .. Len(frames) + 1
      BY <1>1, <1>3, <2>2
    <3> QED
      BY <1>4, <3>1 DEF Inv
  <2> QED
    BY <2>1, <2>2
<1>6. Balanced(Found(frames2, s2, 1))
  <2>1. 1 \in 1 .. n
    BY <1>1
  <2> QED
    BY <1>4, <2>1 DEF Inv
<1>7. ASSUME NEW k \in 1 .. Len(frames2)
      PROVE  /\ Quiet(frames2[k].saved)
             /\ Level(frames2[k].todo, frames2[k].saved, Found(frames2, s2, k + 1))
             /\ k < Len(frames2) => Waiting(frames2[k].todo)
             /\ \A l \in k + 1 .. Len(frames2) + 1 :
                  Keeps(frames2[k].todo, Found(frames2, s2, l))
  <2>1. CASE k = n
    <3>1. \A l \in k + 1 .. Len(frames2) + 1 : l = n + 1
      BY <1>1, <1>3, <2>1
    <3>2. Quiet(frames[n].saved)
      BY <1>1, AtLevel
    <3>3. frames2[k].todo = t /\ frames2[k].saved = frames[n].saved
      BY <1>3, <2>1
    <3>4. \A l \in k + 1 .. Len(frames2) + 1 : Keeps(t, Found(frames2, s2, l))
      BY <1>4, <3>1
    <3>5. Level(t, frames[n].saved, Found(frames2, s2, k + 1))
      BY <1>4, <2>1
    <3>6. ~(k < Len(frames2))
      BY <1>1, <1>3, <2>1
    <3> QED
      BY <3>2, <3>3, <3>4, <3>5, <3>6
  <2>2. CASE k # n
    <3>1. k \in 1 .. n - 1 /\ k \in 1 .. Len(frames) /\ k + 1 \in 1 .. n /\ k < Len(frames)
      BY <1>1, <1>3, <2>2
    <3>2. frames2[k] = frames[k] /\ Found(frames2, s2, k + 1) = Found(frames, s, k + 1)
      BY <1>3, <1>4, <3>1
    <3>3. /\ Quiet(frames[k].saved) /\ Waiting(frames[k].todo)
          /\ Level(frames[k].todo, frames[k].saved, Found(frames, s, k + 1))
          /\ \A l \in k + 1 .. Len(frames) + 1 : Keeps(frames[k].todo, Found(frames, s, l))
      BY <3>1, AtLevel
    <3>4. ASSUME NEW l \in k + 1 .. Len(frames2) + 1
          PROVE  Keeps(frames[k].todo, Found(frames2, s2, l))
      <4>1. CASE l = n + 1
        BY <1>4, <3>1, <4>1
      <4>2. CASE l # n + 1
        <5>1. l \in 1 .. n /\ l \in k + 1 .. Len(frames) + 1
          BY <1>1, <1>3, <3>1, <4>2
        <5> QED
          BY <1>4, <3>3, <5>1
      <4> QED
        BY <4>1, <4>2
    <3>5. Level(frames2[k].todo, frames2[k].saved, Found(frames2, s2, k + 1))
      BY <3>2, <3>3
    <3>6. \A l \in k + 1 .. Len(frames2) + 1 :
            Keeps(frames2[k].todo, Found(frames2, s2, l))
      BY <3>2, <3>4
    <3> QED
      BY <3>2, <3>3, <3>5, <3>6
  <2> QED
    BY <2>1, <2>2
<1>8. frames2 # <<>>
  BY <1>1, <1>3
<1> QED
  BY <1>3, <1>5, <1>6, <1>7, <1>8 DEF Inv

\* A call is put on the stack.
LEMMA Call ==
  ASSUME NEW frames, NEW s, Inv(frames, s), NEW n, n = Len(frames),
         n > 0 => Waiting(frames[n].todo), Quiet(s),
         NEW t \in Seq(Steps), NEW frames2,
         frames2 = Append(frames, [todo |-> t, saved |-> s]),
         Level(t, s, s), Keeps(t, s), Settles(t, s)
  PROVE  Inv(frames2, s)
<1>1. frames \in Seq(Frames) /\ n \in Nat /\ DOMAIN frames = 1 .. n /\ s \in Stores
  BY DEF Inv
<1> DEFINE new == [todo |-> t, saved |-> s]
<1>2. new \in Frames /\ new.todo = t /\ new.saved = s
  BY <1>1 DEF Frames
<1> HIDE DEF new
<1>3. /\ frames2 \in Seq(Frames) /\ Len(frames2) = n + 1
      /\ \A k \in 1 .. n : frames2[k] = frames[k]
      /\ frames2[n + 1] = new
  BY <1>1, <1>2 DEF new
<1>4. /\ \A k \in 1 .. n + 1 : Found(frames2, s, k) = Found(frames, s, k)
      /\ Found(frames2, s, n + 2) = s
  <2>1. ASSUME NEW k \in 1 .. n + 1
        PROVE  Found(frames2, s, k) = Found(frames, s, k)
    <3>1. CASE k = n + 1
      BY <1>1, <1>2, <1>3, <3>1 DEF Found
    <3>2. CASE k # n + 1
      <4>1. k \in 1 .. n
        BY <1>1, <3>2
      <4> QED
        BY <1>1, <1>3, <4>1 DEF Found
    <3> QED
      BY <3>1, <3>2
  <2> QED
    BY <1>1, <1>3, <2>1 DEF Found
<1>5. Sound(s)
  <2>1. n + 1 \in 1 .. Len(frames) + 1 /\ Found(frames, s, n + 1) = s
    BY <1>1 DEF Found
  <2> QED
    BY <2>1 DEF Inv
<1>6. \A k \in 1 .. Len(frames2) + 1 : Sound(Found(frames2, s, k))
  <2> TAKE k \in 1 .. Len(frames2) + 1
  <2>1. CASE k = n + 2
    BY <1>4, <1>5, <2>1
  <2>2. CASE k # n + 2
    <3>1. k \in 1 .. n + 1 /\ k \in 1 .. Len(frames) + 1
      BY <1>1, <1>3, <2>2
    <3> QED
      BY <1>4, <3>1 DEF Inv
  <2> QED
    BY <2>1, <2>2
<1>7. Balanced(Found(frames2, s, 1))
  <2>1. 1 \in 1 .. n + 1
    BY <1>1
  <2> QED
    BY <1>4, <2>1 DEF Inv
<1>8. ASSUME NEW k \in 1 .. Len(frames2)
      PROVE  /\ Quiet(frames2[k].saved)
             /\ Level(frames2[k].todo, frames2[k].saved, Found(frames2, s, k + 1))
             /\ k < Len(frames2) => Waiting(frames2[k].todo)
             /\ \A l \in k + 1 .. Len(frames2) + 1 :
                  Keeps(frames2[k].todo, Found(frames2, s, l))
  <2>1. CASE k = n + 1
    <3>1. \A l \in k + 1 .. Len(frames2) + 1 : l = n + 2
      BY <1>1, <1>3, <2>1
    <3>2. k + 1 = n + 2
      BY <1>1, <2>1
    <3> QED
      BY <1>1, <1>2, <1>3, <1>4, <2>1, <3>1, <3>2
  <2>2. CASE k # n + 1
    <3>1. k \in 1 .. n /\ k \in 1 .. Len(frames) /\ k + 1 \in 1 .. n + 1
      BY <1>1, <1>3, <2>2
    <3>2. frames2[k] = frames[k] /\ Found(frames2, s, k + 1) = Found(frames, s, k + 1)
      BY <1>3, <1>4, <3>1
    <3>3. /\ Quiet(frames[k].saved)
          /\ k < n => Waiting(frames[k].todo)
          /\ Level(frames[k].todo, frames[k].saved, Found(frames, s, k + 1))
          /\ \A l \in k + 1 .. Len(frames) + 1 : Keeps(frames[k].todo, Found(frames, s, l))
      BY <3>1, AtLevel
    <3>4. Waiting(frames[k].todo)
      <4>1. n > 0 /\ (k < n \/ k = n)
        BY <1>1, <3>1
      <4> QED
        BY <3>3, <4>1
    <3>5. Keeps(frames[k].todo, s)
      <4>1. n + 1 \in k + 1 .. Len(frames) + 1 /\ Found(frames, s, n + 1) = s
        BY <1>1, <3>1 DEF Found
      <4> QED
        BY <3>3, <4>1
    <3>6. ASSUME NEW l \in k + 1 .. Len(frames2) + 1
          PROVE  Keeps(frames[k].todo, Found(frames2, s, l))
      <4>1. CASE l = n + 2
        BY <1>4, <3>5, <4>1
      <4>2. CASE l # n + 2
        <5>1. l \in k + 1 .. n + 2
          BY <1>3
        <5>2. k \in Nat /\ k >= 1
          BY <3>1
        <5>3. l \in 1 .. n + 1 /\ l \in k + 1 .. n + 1
          BY <1>1, <4>2, <5>1, <5>2
        <5> QED
          BY <1>4, <3>3, <5>3
      <4> QED
        BY <4>1, <4>2
    <3>7. Level(frames2[k].todo, frames2[k].saved, Found(frames2, s, k + 1))
      BY <3>2, <3>3
    <3>8. \A l \in k + 1 .. Len(frames2) + 1 :
            Keeps(frames2[k].todo, Found(frames2, s, l))
      BY <3>2, <3>6
    <3> QED
      BY <3>2, <3>3, <3>4, <3>7, <3>8
  <2> QED
    BY <2>1, <2>2
<1>9. frames2 # <<>> /\ frames2[Len(frames2)].todo = t
  BY <1>1, <1>2, <1>3
<1> QED
  BY <1>1, <1>3, <1>6, <1>7, <1>8, <1>9 DEF Inv

\* The frames above the n-th are gone, and the store is s2.
LEMMA Cut ==
  ASSUME NEW frames, NEW s, Inv(frames, s), NEW n \in 0 .. Len(frames),
         NEW s2 \in Stores, NEW frames2, frames2 = SubSeq(frames, 1, n),
         Sound(s2), n = 0 => Balanced(s2) /\ Quiet(s2),
         n > 0 => /\ Level(frames[n].todo, frames[n].saved, s2)
                  /\ Settles(frames[n].todo, s2),
         \A k \in 1 .. n : Keeps(frames[k].todo, s2)
  PROVE  Inv(frames2, s2)
<1>1. frames \in Seq(Frames) /\ n \in Nat /\ Len(frames) \in Nat
  BY DEF Inv
<1>2. /\ frames2 \in Seq(Frames) /\ Len(frames2) = n
      /\ \A k \in 1 .. n : frames2[k] = frames[k]
  BY <1>1, SubSeqProperties
<1>3. /\ \A k \in 1 .. n : Found(frames2, s2, k) = Found(frames, s, k)
      /\ Found(frames2, s2, n + 1) = s2
  BY <1>1, <1>2 DEF Found
<1>4. \A k \in 1 .. Len(frames2) + 1 : Sound(Found(frames2, s2, k))
  <2> TAKE k \in 1 .. Len(frames2) + 1
  <2>1. CASE k = n + 1
    BY <1>3, <2>1
  <2>2. CASE k # n + 1
    <3>1. k \in 1 .. n /\ k \in 1 .. Len(frames) + 1
      BY <1>1, <1>2, <2>2
    <3> QED
      BY <1>3, <3>1 DEF Inv
  <2> QED
    BY <2>1, <2>2
<1>5. Balanced(Found(frames2, s2, 1))
  <2>1. CASE n = 0
    BY <1>3, <2>1
  <2>2. CASE n # 0
    <3>1. 1 \in 1 .. n
      BY <1>1, <2>2
    <3> QED
      BY <1>3, <3>1 DEF Inv
  <2> QED
    BY <2>1, <2>2
<1>6. ASSUME NEW k \in 1 .. Len(frames2)
      PROVE  /\ Quiet(frames2[k].saved)
             /\ Level(frames2[k].todo, frames2[k].saved, Found(frames2, s2, k + 1))
             /\ k < Len(frames2) => Waiting(frames2[k].todo)
             /\ \A l \in k + 1 .. Len(frames2) + 1 :
                  Keeps(frames2[k].todo, Found(frames2, s2, l))
  <2>1. k \in 1 .. n /\ k \in 1 .. Len(frames) /\ n > 0
    BY <1>1, <1>2
  <2>2. frames2[k] = frames[k]
    BY <1>2, <2>1
  <2>3. /\ Quiet(frames[k].saved)
        /\ k < Len(frames) => Waiting(frames[k].todo)
        /\ Level(frames[k].todo, frames[k].saved, Found(frames, s, k + 1))
        /\ \A l \in k + 1 .. Len(frames) + 1 : Keeps(frames[k].todo, Found(frames, s, l))
    BY <2>1, AtLevel
  <2>4. Level(frames[k].todo, frames[k].saved, Found(frames2, s2, k + 1))
    <3>1. CASE k = n
      BY <1>3, <2>1, <3>1
    <3>2. CASE k # n
      <4>1. k + 1 \in 1 .. n
        BY <1>1, <2>1, <3>2
      <4> QED
        BY <1>3, <2>3, <4>1
    <3> QED
      BY <3>1, <3>2
  <2>5. ASSUME NEW l \in k + 1 .. Len(frames2) + 1
        PROVE  Keeps(frames[k].todo, Found(frames2, s2, l))
    <3>1. CASE l = n + 1
      BY <1>3, <2>1, <3>1
    <3>2. CASE l # n + 1
      <4>1. l \in 1 .. n /\ l \in k + 1 .. Len(frames) + 1
        BY <1>1, <1>2, <2>1, <3>2
      <4> QED
        BY <1>3, <2>3, <4>1
    <3> QED
      BY <3>1, <3>2
  <2>6. k < Len(frames2) => k < Len(frames)
    BY <1>1, <1>2, <2>1
  <2> QED
    BY <2>2, <2>3, <2>4, <2>5, <2>6
<1>7. Settles(IF frames2 = <<>> THEN <<>> ELSE frames2[Len(frames2)].todo, s2)
  <2>1. CASE n = 0
    <3>1. frames2 = <<>>
      BY <1>2, <2>1
    <3> QED
      BY <2>1, <3>1 DEF Quiet
  <2>2. CASE n # 0
    <3>1. frames2 # <<>> /\ n > 0 /\ n \in 1 .. n
      BY <1>1, <1>2, <2>2
    <3> QED
      BY <1>2, <3>1
  <2> QED
    BY <2>1, <2>2
<1> QED
  BY <1>2, <1>4, <1>5, <1>6, <1>7 DEF Inv

-----------------------------------------------------------------------------
(* The steps of a call. *)

\* What a frame is about to do, and what it finds, when its turn comes.
Turn(t, before, s) ==
  /\ t \in Seq(Steps) /\ t # <<>>
  /\ before \in Stores /\ s \in Stores
  /\ Sound(s) /\ Sound(before)
  /\ Level(t, before, s) /\ Settles(t, s)

\* The step is done: what is left is in order with the new store.
Done(t, before, s) ==
  t \in Seq(Steps) /\ s \in Stores /\ Sound(s) /\ Level(t, before, s) /\ Settles(t, s)

\* The shape of a frame is told by its first step.
LEMMA ShapeOfTurn ==
  ASSUME NEW t, NEW before, NEW s, Turn(t, before, s)
  PROVE  /\ t[1].do = "write" => Begun(t, s)
         /\ t[1].do \in {"close", "charge", "release", "transfer", "moved"} =>
              Collecting(t, s)
         /\ t[1].do \in {"lock", "burn", "call", "called", "unlock"} =>
              Requesting(t, before, s)
<1>1. DOMAIN t = 1 .. Len(t) /\ Len(t) \in Nat /\ Len(t) >= 1
  BY TailOf DEF Turn
<1>2. Collecting(t, s) => t[1].do \in {"close", "charge", "release", "transfer", "moved"}
  BY <1>1 DEF Collecting
<1>3. Begun(t, s) => t[1].do = "write"
  BY DEF Begun, PaySteps
<1>4. Requesting(t, before, s) => t[1].do \in {"lock", "burn", "call", "called", "unlock"}
  BY DEF Requesting, ExecuteSteps
<1> QED
  BY <1>2, <1>3, <1>4 DEF Turn, Level

\* The types of a store.
LEMMA StoreTypes ==
  ASSUME NEW s \in Stores
  PROVE  /\ s.rows \in [Mandates -> Row] /\ s.pool \in {"Open", "Cleared", "Aborted"}
         /\ s.consumed \in SUBSET Nonces /\ s.executing \in SUBSET Mandates
         /\ s.moved \in [Mandates -> Nat] /\ s.served \in [Nonces -> Nat]
         /\ \A m \in Mandates : /\ s.rows[m] \in Row
                                /\ s.rows[m].spent \in Nat /\ s.moved[m] \in Nat
                                /\ Debt(s, m) \in Int
<1>1. /\ s.rows \in [Mandates -> Row] /\ s.pool \in {"Open", "Cleared", "Aborted"}
      /\ s.consumed \in SUBSET Nonces /\ s.executing \in SUBSET Mandates
      /\ s.moved \in [Mandates -> Nat] /\ s.served \in [Nonces -> Nat]
  BY DEF Stores
<1>2. \A m \in Mandates : /\ s.rows[m] \in Row
                          /\ s.rows[m].spent \in Nat /\ s.moved[m] \in Nat
  BY <1>1 DEF Row
<1> QED
  BY <1>1, <1>2 DEF Debt

LEMMA ChargedRow ==
  ASSUME NEW row \in Row, NEW n \in Nat
  PROVE  /\ Charged(row, n) \in Row
         /\ Charged(row, n).spent = row.spent + n
         /\ Charged(row, n).pool_state = row.pool_state
<1> PICK status :
       status = IF row.spent + n = MaxAmount THEN "Exhausted" ELSE row.status
  OBVIOUS
<1>1. status \in {"Active", "Revoked", "Exhausted"} /\ row.spent + n \in Nat /\ row.seq + 1 \in Nat
  BY DEF Row
<1>2. Charged(row, n) = [row EXCEPT !.spent = row.spent + n, !.seq = row.seq + 1,
                                    !.status = status]
  BY DEF Charged, Row
<1> QED
  BY <1>1, <1>2 DEF Row

\* A capture or a payment goes on: what is left of it is in order.
LEMMA CollectingTail ==
  ASSUME NEW t \in Seq(Steps), t # <<>>, NEW s, NEW s2, Collecting(t, s),
         \A i \in Members(t) : i # 1 =>
           s2.rows[t[i].id].pool_state = "Committed" /\ s2.pool = "Cleared"
  PROVE  /\ Collecting(Tail(t), s2) /\ ~Closing(Tail(t))
         /\ \A i \in DOMAIN Tail(t) : /\ i + 1 \in DOMAIN t /\ Tail(t)[i] = t[i + 1]
                                      /\ Tail(t)[i].do \in {"charge", "release", "transfer"}
<1> PICK r : r = Tail(t)
  OBVIOUS
<1>1. /\ Len(t) \in Nat /\ Len(t) >= 1 /\ DOMAIN t = 1 .. Len(t)
      /\ DOMAIN r = 1 .. Len(t) - 1
      /\ \A i \in DOMAIN r : i \in 1 .. Len(t) - 1 /\ i + 1 \in DOMAIN t /\ r[i] = t[i + 1]
  BY TailOf
<1>2. \A i \in DOMAIN r : i \in Nat /\ i >= 1 /\ i + 1 # 1
  BY <1>1
<1>3. \A i \in DOMAIN r : r[i].do \in {"charge", "release", "transfer"}
  BY <1>1, <1>2 DEF Collecting
<1>4. \A i, j \in DOMAIN r :
        i < j /\ r[i].do \in {"transfer", "moved"} => r[j].do = "transfer"
  <2> TAKE i, j \in DOMAIN r
  <2>1. i < j => i + 1 < j + 1
    BY <1>2
  <2> QED
    BY <1>1, <2>1 DEF Collecting
<1>5. \A i, j \in DOMAIN r : i + 1 = j + 1 => i = j
  BY <1>2
<1>6. \A i \in Transfers(r) : i \in DOMAIN r /\ i + 1 \in Transfers(t) /\ r[i] = t[i + 1]
  BY <1>1 DEF Transfers
<1>7. \A i \in Members(r) : i \in DOMAIN r /\ i + 1 \in Members(t) /\ r[i] = t[i + 1]
  BY <1>1 DEF Members
<1>8. \A i, j \in Transfers(r) : r[i].id = r[j].id => i = j
  BY <1>5, <1>6 DEF Collecting
<1>9. \A i, j \in Members(r) : r[i].id = r[j].id => i = j
  BY <1>5, <1>7 DEF Collecting
<1>10. ASSUME NEW i \in Members(r)
       PROVE  /\ s2.rows[r[i].id].pool_state = "Committed" /\ s2.pool = "Cleared"
              /\ r[i].do = "charge" =>
                   \E j \in Transfers(r) : r[j].id = r[i].id /\ r[j].amount = r[i].amount
  <2>1. i \in DOMAIN r /\ i + 1 \in Members(t) /\ r[i] = t[i + 1] /\ i + 1 # 1
    BY <1>2, <1>7
  <2>2. ASSUME r[i].do = "charge"
        PROVE  \E j \in Transfers(r) : r[j].id = r[i].id /\ r[j].amount = r[i].amount
    <3>1. PICK j \in Transfers(t) : t[j].id = t[i + 1].id /\ t[j].amount = t[i + 1].amount
      BY <2>1, <2>2 DEF Collecting
    <3>2. j \in 1 .. Len(t) /\ t[j].do = "transfer"
      BY <1>1 DEF Transfers
    <3>3. j # 1
      <4> SUFFICES ASSUME j = 1 PROVE FALSE
        OBVIOUS
      <4>1. j < i + 1 /\ j \in DOMAIN t /\ i + 1 \in DOMAIN t
        BY <1>1, <1>2, <2>1, <3>2
      <4>2. t[i + 1].do = "transfer"
        BY <3>2, <4>1 DEF Collecting
      <4> QED
        BY <2>1, <2>2, <4>2
    <3>4. j - 1 \in DOMAIN r /\ (j - 1) + 1 = j
      BY <1>1, <3>2, <3>3
    <3>5. r[j - 1] = t[j]
      BY <1>1, <3>4
    <3>6. j - 1 \in Transfers(r)
      BY <3>2, <3>4, <3>5 DEF Transfers
    <3> QED
      BY <2>1, <3>1, <3>5, <3>6
  <2> QED
    BY <2>1, <2>2
<1>11. ~Closing(r)
  <2> SUFFICES ASSUME r # <<>>, r[1].do = "close"
               PROVE  FALSE
    BY DEF Closing
  <2>1. r \in Seq(Steps)
    BY TailOf
  <2>2. 1 \in DOMAIN r
    BY <2>1, TailOf
  <2> QED
    BY <1>3, <2>2
<1>12. Collecting(r, s2)
  BY <1>3, <1>4, <1>8, <1>9, <1>10 DEF Collecting
<1> QED
  BY <1>1, <1>3, <1>11, <1>12

\* A capture holds no lock and has burnt no nonce.
LEMMA CollectingIsFree ==
  ASSUME NEW t, NEW s, Collecting(t, s) \/ Begun(t, s)
  PROVE  Holds(t) = {} /\ Burnt(t) = {}
<1>1. CASE Collecting(t, s)
  BY <1>1 DEF Collecting, Holds, Burnt
<1>2. CASE Begun(t, s)
  BY <1>2 DEF Begun, PaySteps, Holds, Burnt
<1> QED
  BY <1>1, <1>2

\* The row is written, as it was read; from now on the transfer is owed.
LEMMA WriteDone ==
  ASSUME NEW t, NEW before, NEW s, Turn(t, before, s), t[1].do = "write"
  PROVE  LET s2 == WithRow(s, t[1].id, t[1].row)
         IN  /\ Done(Tail(t), before, s2)
             /\ s2.executing = s.executing /\ s2.consumed = s.consumed
             /\ s2.served = s.served
<1>1. PICK m \in Mandates, n \in Amounts :
        t = PaySteps(m, n, s.rows[m]) /\ s.rows[m].spent + n <= MaxAmount
  BY ShapeOfTurn DEF Begun
<1> DEFINE row == Charged(s.rows[m], n)
           s2  == WithRow(s, m, row)
           pay == [do |-> "transfer", id |-> m, amount |-> n]
<1>2. s \in Stores /\ t \in Seq(Steps) /\ n \in Nat
  BY ReentryAssumption DEF Turn
<1>3. t[1].id = m /\ t[1].row = row /\ Tail(t) = <<pay>>
  BY <1>1 DEF PaySteps
<1>4. <<pay>> \in Seq(Steps)
  BY <1>2 DEF Steps
<1>5. /\ s.rows[m] \in Row /\ row \in Row
      /\ row.spent = s.rows[m].spent + n /\ row.pool_state = s.rows[m].pool_state
  <2>1. s.rows[m] \in Row
    BY <1>2, StoreTypes
  <2> QED
    BY <1>2, <2>1, ChargedRow
<1>6. /\ s2 \in Stores
      /\ s2.rows = [s.rows EXCEPT ![m] = row]
      /\ s2.pool = s.pool /\ s2.consumed = s.consumed /\ s2.executing = s.executing
      /\ s2.moved = s.moved /\ s2.served = s.served
  <2> HIDE DEF row
  <2> QED
    BY <1>2, <1>5 DEF WithRow, Stores
<1> HIDE DEF s2, row
<1>7. \A k \in Mandates : s2.rows[k] = IF k = m THEN row ELSE s.rows[k]
  BY <1>2, <1>6, StoreTypes
<1>8. Sound(s2)
  BY <1>1, <1>5, <1>6, <1>7 DEF Sound, Turn
<1>9. DOMAIN <<pay>> = {1} /\ <<pay>>[1] = pay
  OBVIOUS
<1>10. Collecting(<<pay>>, s2)
  BY <1>9 DEF Collecting, Transfers, Members
<1>11. \A k \in Mandates : BooksOf(<<pay>>, before, s2, k)
  <2> TAKE k \in Mandates
  <2>1. /\ ~Uncharged(<<pay>>, k)
        /\ Transfers(<<pay>>) = {1}
    BY <1>9 DEF Uncharged, Transfers
  <2>2. BooksOf(t, before, s, k)
    BY DEF Turn, Level
  <2>3. Uncharged(t, k) <=> k = m
    BY <1>1 DEF Uncharged, PaySteps
  <2>4. \A i \in Transfers(t) : t[i].id = m
    BY <1>1 DEF Transfers, PaySteps
  <2>5. Debt(s, k) = Debt(before, k)
    BY <2>2, <2>3, <2>4 DEF BooksOf
  <2>6. Debt(s, k) \in Int
    BY <1>2, StoreTypes
  <2>7. Debt(s2, k) = IF k = m THEN Debt(s, k) + n ELSE Debt(s, k)
    BY <1>2, <1>5, <1>6, <1>7, StoreTypes DEF Debt
  <2> QED
    BY <1>9, <2>1, <2>5, <2>7 DEF BooksOf
<1>12. Level(<<pay>>, before, s2)
  <2>1. Holds(t) = {} /\ Holds(<<pay>>) = {}
    BY <1>10, ShapeOfTurn, CollectingIsFree
  <2> QED
    BY <1>6, <1>10, <1>11, <2>1 DEF Level, Turn
<1>13. Settles(<<pay>>, s2)
  <2>1. Members(t) = {} /\ ~Closing(t)
    BY <1>1 DEF Members, Closing, PaySteps
  <2>2. ~Closing(<<pay>>)
    BY <1>9 DEF Closing
  <2> QED
    BY <1>5, <1>6, <1>7, <2>1, <2>2 DEF Settles, Turn
<1> QED
  BY <1>3, <1>4, <1>6, <1>8, <1>12, <1>13 DEF Done, s2

\* The pool is closed before anybody is charged.
LEMMA CloseDone ==
  ASSUME NEW t, NEW before, NEW s, Turn(t, before, s), t[1].do = "close"
  PROVE  LET s2 == [s EXCEPT !.pool = "Cleared"]
         IN  /\ Done(Tail(t), before, s2)
             /\ s2.executing = s.executing /\ s2.consumed = s.consumed
             /\ s2.served = s.served
<1> DEFINE s2 == [s EXCEPT !.pool = "Cleared"]
<1> PICK r : r = Tail(t)
  OBVIOUS
<1>1. s \in Stores /\ t \in Seq(Steps) /\ t # <<>> /\ Collecting(t, s)
  BY ShapeOfTurn DEF Turn
<1>2. /\ s2 \in Stores /\ s2.pool = "Cleared"
      /\ s2.rows = s.rows /\ s2.consumed = s.consumed /\ s2.executing = s.executing
      /\ s2.moved = s.moved /\ s2.served = s.served
  BY <1>1 DEF Stores
<1> HIDE DEF s2
<1>3. Sound(s2)
  BY <1>2 DEF Sound, Turn
<1>4. /\ Collecting(r, s2)
      /\ \A i \in DOMAIN r : i + 1 \in DOMAIN t /\ r[i] = t[i + 1]
  <2>1. \A i \in Members(t) : s2.rows[t[i].id].pool_state = "Committed" /\ s2.pool = "Cleared"
    BY <1>1, <1>2 DEF Collecting
  <2> QED
    BY <1>1, <2>1, CollectingTail
<1>5. r \in Seq(Steps) /\ DOMAIN t = 1 .. Len(t) /\ DOMAIN r = 1 .. Len(t) - 1 /\ Len(t) \in Nat
  BY <1>1, TailOf
<1>6. \A i \in DOMAIN t : i # 1 => i - 1 \in DOMAIN r /\ r[i - 1] = t[i]
  <2> TAKE i \in DOMAIN t
  <2>1. i # 1 => i - 1 \in DOMAIN r /\ (i - 1) + 1 = i
    BY <1>5
  <2> QED
    BY <1>4, <2>1
<1>7. \A k \in Mandates : BooksOf(r, before, s2, k)
  <2> TAKE k \in Mandates
  <2>1. BooksOf(t, before, s, k) /\ Debt(s2, k) = Debt(s, k)
    BY <1>2 DEF Turn, Level, Debt
  <2>2. Uncharged(t, k) <=> Uncharged(r, k)
    BY <1>4, <1>6 DEF Uncharged
  <2>3. /\ \A i \in Transfers(r) : i + 1 \in Transfers(t) /\ r[i] = t[i + 1]
        /\ \A i \in Transfers(t) : i - 1 \in Transfers(r) /\ r[i - 1] = t[i]
    BY <1>4, <1>6 DEF Transfers
  <2> QED
    BY <2>1, <2>2, <2>3 DEF BooksOf
<1>8. Level(r, before, s2)
  <2>1. Holds(t) = {} /\ Holds(r) = {}
    BY <1>1, <1>4, CollectingIsFree
  <2> QED
    BY <1>2, <1>4, <1>7, <2>1 DEF Level, Turn
<1>9. Settles(r, s2)
  <2>1. \A i \in Members(t) : i - 1 \in Members(r) /\ r[i - 1] = t[i]
    BY <1>6 DEF Members
  <2>2. Closing(t)
    BY <1>1 DEF Closing
  <2>3. \A m \in Mandates : s.rows[m].pool_state = "Committed" => \E i \in Members(t) : t[i].id = m
    BY <2>2 DEF Turn, Settles
  <2> QED
    BY <1>2, <2>1, <2>3 DEF Settles
<1> QED
  BY <1>2, <1>3, <1>5, <1>8, <1>9 DEF Done, s2

\* The row that a member is left with.
Paid(step) == IF step.do = "charge" THEN step.amount ELSE 0

Settled(step, old, row) ==
  /\ row \in Row
  /\ row.spent = old.spent + Paid(step) /\ row.spent <= MaxAmount
  /\ row.pool_state = IF step.do = "charge" THEN "Captured" ELSE "Released"

\* A member is charged, for the transfer that follows, or let go.
LEMMA MemberDone ==
  ASSUME NEW t, NEW before, NEW s, Turn(t, before, s),
         t[1].do \in {"charge", "release"},
         NEW row, Settled(t[1], s.rows[t[1].id], row),
         NEW s2, s2 = WithRow(s, t[1].id, row)
  PROVE  /\ Done(Tail(t), before, s2)
         /\ s2.executing = s.executing /\ s2.consumed = s.consumed
         /\ s2.served = s.served
<1> PICK r, m : r = Tail(t) /\ m = t[1].id
  OBVIOUS
<1>a. PICK n \in Nat :
        /\ n = IF t[1].do = "charge" THEN t[1].amount ELSE 0
        /\ row.spent = s.rows[m].spent + n
  <2>1. t \in Seq(Steps) /\ t # <<>>
    BY DEF Turn
  <2>2. t[1] \in Steps
    BY <2>1, TailOf
  <2>3. Paid(t[1]) \in Nat
    BY <2>2 DEF Paid, Steps
  <2> QED
    BY <2>3 DEF Paid, Settled
<1>b. /\ row \in Row /\ row.spent <= MaxAmount
        /\ row.pool_state = IF t[1].do = "charge" THEN "Captured" ELSE "Released"
  BY DEF Settled
<1>1. s \in Stores /\ t \in Seq(Steps) /\ t # <<>> /\ Collecting(t, s)
  BY ShapeOfTurn DEF Turn
<1>2. /\ r \in Seq(Steps) /\ DOMAIN t = 1 .. Len(t) /\ Len(t) \in Nat /\ Len(t) >= 1
      /\ DOMAIN r = 1 .. Len(t) - 1
      /\ t[1] \in Steps
  BY <1>1, TailOf
<1>3. m \in Mandates /\ 1 \in Members(t) /\ 1 \in DOMAIN t
  BY <1>2 DEF Steps, Members
<1>4. /\ s.rows[m].pool_state = "Committed" /\ s.pool = "Cleared" /\ ~Closing(t)
      /\ t[1].do = "charge" => \E j \in Transfers(t) : t[j].id = m /\ t[j].amount = n
  <2>1. ~Closing(t)
    BY DEF Closing
  <2> QED
    BY <1>1, <1>3, <1>a, <2>1 DEF Collecting
<1>5. /\ s2 \in Stores
      /\ s2.rows = [s.rows EXCEPT ![m] = row]
      /\ s2.pool = s.pool /\ s2.consumed = s.consumed /\ s2.executing = s.executing
      /\ s2.moved = s.moved /\ s2.served = s.served
  BY <1>1, <1>3, <1>b DEF Stores, WithRow
<1>6. \A k \in Mandates : s2.rows[k] = IF k = m THEN row ELSE s.rows[k]
  BY <1>1, <1>5, StoreTypes
<1>7. Sound(s2)
  BY <1>3, <1>4, <1>5, <1>6, <1>b DEF Sound, Turn
<1>8. \A i \in Members(t) : i # 1 => t[i].id # m
  BY <1>1, <1>3 DEF Collecting
<1>9. /\ Collecting(r, s2) /\ ~Closing(r)
      /\ \A i \in DOMAIN r : i + 1 \in DOMAIN t /\ r[i] = t[i + 1]
  <2>1. \A i \in Members(t) : i # 1 =>
          s2.rows[t[i].id].pool_state = "Committed" /\ s2.pool = "Cleared"
    <3> TAKE i \in Members(t)
    <3>1. i \in DOMAIN t /\ t[i] \in Steps /\ t[i].do \in {"charge", "release"}
      BY <1>1, <1>2 DEF Members
    <3>2. t[i].id \in Mandates
      BY <3>1 DEF Steps
    <3> QED
      BY <1>1, <1>4, <1>5, <1>6, <1>8, <3>2 DEF Collecting
  <2> QED
    BY <1>1, <2>1, CollectingTail
<1>10. \A i \in DOMAIN t : i # 1 => i - 1 \in DOMAIN r /\ r[i - 1] = t[i]
  <2> TAKE i \in DOMAIN t
  <2>1. i # 1 => i - 1 \in DOMAIN r /\ (i - 1) + 1 = i
    BY <1>2
  <2> QED
    BY <1>9, <2>1
<1>11. /\ \A i \in Transfers(r) : i + 1 \in Transfers(t) /\ r[i] = t[i + 1]
       /\ \A i \in Transfers(t) : i - 1 \in Transfers(r) /\ r[i - 1] = t[i]
  BY <1>9, <1>10 DEF Transfers
<1>12. \A k \in Mandates : BooksOf(r, before, s2, k)
  <2> TAKE k \in Mandates
  <2>1. BooksOf(t, before, s, k)
    BY DEF Turn, Level
  <2>2. Debt(s, k) \in Int /\ Debt(before, k) \in Int
    BY StoreTypes DEF Turn
  <2>3. Debt(s2, k) = IF k = m THEN Debt(s, k) + n ELSE Debt(s, k)
    <3>1. s.rows[k].spent \in Nat /\ s.moved[k] \in Nat /\ s2.moved[k] = s.moved[k]
      BY <1>1, <1>5, StoreTypes
    <3>2. s2.rows[k].spent = IF k = m THEN s.rows[k].spent + n ELSE s.rows[k].spent
      BY <1>6, <1>a
    <3> QED
      BY <3>1, <3>2 DEF Debt
  <2>4. CASE k = m /\ t[1].do = "charge"
    <3>1. Uncharged(t, k)
      BY <1>3, <2>4 DEF Uncharged
    <3>2. Debt(s2, k) = Debt(before, k) + n
      BY <2>1, <2>3, <2>4, <3>1 DEF BooksOf
    <3>3. PICK j \in Transfers(t) : t[j].id = m /\ t[j].amount = n
      BY <1>4, <2>4
    <3>4. \A i \in Transfers(t) : t[i].id = m => i = j
      BY <1>1, <3>3 DEF Collecting
    <3>5. \A i \in Transfers(r) : r[i].id = m => r[i].amount = n
      BY <1>11, <3>3, <3>4
    <3>6. j - 1 \in Transfers(r) /\ r[j - 1].id = m
      BY <1>11, <3>3
    <3>7. ~Uncharged(r, m)
      <4> SUFFICES ASSUME NEW i \in DOMAIN r, r[i].do \in {"write", "charge"}, r[i].id = m
                   PROVE  FALSE
        BY DEF Uncharged
      <4>1. i + 1 \in DOMAIN t /\ t[i + 1] = r[i] /\ i \in Nat /\ i >= 1
        BY <1>2, <1>9
      <4>2. t[i + 1].do # "write"
        BY <1>1, <4>1 DEF Collecting
      <4>3. i + 1 \in Members(t) /\ i + 1 # 1
        BY <4>1, <4>2 DEF Members
      <4> QED
        BY <1>8, <4>1, <4>3
    <3> QED
      BY <2>4, <3>2, <3>5, <3>6, <3>7 DEF BooksOf
  <2>5. CASE ~(k = m /\ t[1].do = "charge")
    <3>1. Debt(s2, k) = Debt(s, k)
      BY <1>a, <2>2, <2>3, <2>5
    <3>2. Uncharged(t, k) <=> Uncharged(r, k)
      <4>1. ASSUME NEW i \in DOMAIN t, t[i].do \in {"write", "charge"}, t[i].id = k
            PROVE  Uncharged(r, k)
        <5>1. i # 1
          BY <2>5, <4>1
        <5> QED
          BY <1>10, <4>1, <5>1 DEF Uncharged
      <4>2. Uncharged(r, k) => Uncharged(t, k)
        BY <1>9 DEF Uncharged
      <4> QED
        BY <4>1, <4>2 DEF Uncharged
    <3> QED
      BY <1>11, <2>1, <3>1, <3>2 DEF BooksOf
  <2> QED
    BY <2>4, <2>5
<1>13. Level(r, before, s2)
  <2>1. Holds(t) = {} /\ Holds(r) = {}
    BY <1>1, <1>9, CollectingIsFree
  <2> QED
    BY <1>5, <1>9, <1>12, <2>1 DEF Level, Turn
<1>14. Settles(r, s2)
  <2> SUFFICES ASSUME NEW k \in Mandates, s2.rows[k].pool_state = "Committed"
               PROVE  \E i \in Members(r) : r[i].id = k
    BY DEF Settles
  <2>1. k # m /\ s.rows[k].pool_state = "Committed"
    BY <1>6, <1>b
  <2>2. PICK i \in Members(t) : t[i].id = k
    BY <1>4, <2>1 DEF Turn, Settles
  <2>3. i # 1 /\ i \in DOMAIN t
    BY <2>1, <2>2 DEF Members
  <2> QED
    BY <1>10, <2>2, <2>3 DEF Members
<1> QED
  BY <1>2, <1>5, <1>7, <1>13, <1>14 DEF Done

\* What a request may do to the locks and nonces of others: nothing.
Spares(before, s, s2) ==
  /\ s.executing \cap before.executing \subseteq s2.executing
  /\ s.consumed \subseteq s2.consumed
  /\ \A x \in before.consumed : s2.served[x] = s.served[x]

\* The shape of a request, by its first step.
LEMMA RequestOfTurn ==
  ASSUME NEW t, NEW before, NEW s, Turn(t, before, s),
         t[1].do \in {"lock", "burn", "call", "called", "unlock"}
  PROVE  \E m \in Policed, n \in Amounts, x \in Nonces :
           /\ m \in Mandates /\ n \in Nat
           /\ m \notin before.executing /\ x \notin before.consumed
           /\ t[1].do = "lock" => x \notin s.consumed /\ t = ExecuteSteps(m, n, x)
           /\ t[1].do = "burn" =>
                /\ x \notin s.consumed
                /\ t = << [do |-> "burn", nonce |-> x],
                          [do |-> "call", id |-> m, amount |-> n, nonce |-> x],
                          [do |-> "unlock", id |-> m] >>
           /\ t[1].do = "call" =>
                t = << [do |-> "call", id |-> m, amount |-> n, nonce |-> x],
                       [do |-> "unlock", id |-> m] >>
           /\ t[1].do = "called" =>
                t = << [do |-> "called", id |-> m, amount |-> n, nonce |-> x],
                       [do |-> "unlock", id |-> m] >>
           /\ t[1].do = "unlock" => t = << [do |-> "unlock", id |-> m] >>
<1>1. Requesting(t, before, s)
  BY ShapeOfTurn
<1>2. PICK m \in Policed, n \in Amounts, x \in Nonces :
        /\ m \notin before.executing
        /\ x \notin before.consumed
        /\ LET call   == [do |-> "call", id |-> m, amount |-> n, nonce |-> x]
               called == [do |-> "called", id |-> m, amount |-> n, nonce |-> x]
               burn   == [do |-> "burn", nonce |-> x]
               unlock == [do |-> "unlock", id |-> m]
           IN  \/ x \notin s.consumed /\ t \in {ExecuteSteps(m, n, x),
                                                 <<burn, call, unlock>>}
               \/ t \in {<<call, unlock>>, <<called, unlock>>, <<unlock>>}
  BY <1>1 DEF Requesting
<1>3. m \in Mandates /\ n \in Nat
  BY ReentryAssumption
<1>4. ExecuteSteps(m, n, x)[1].do = "lock"
  BY DEF ExecuteSteps
<1> WITNESS m \in Policed, n \in Amounts, x \in Nonces
<1> QED
  BY <1>2, <1>3, <1>4

\* A request has nothing to write and nothing to transfer.
LEMMA RequestOwesNothing ==
  ASSUME NEW t, NEW before, NEW s, NEW u, Requesting(t, before, s)
  PROVE  /\ Transfers(t) = {} /\ Members(t) = {} /\ ~Closing(t)
         /\ \A m : ~Uncharged(t, m)
         /\ \A m : BooksOf(t, before, u, m) <=> Debt(u, m) = Debt(before, m)
         /\ Settles(t, u) <=> Quiet(u)
<1>1. /\ Transfers(t) = {} /\ Members(t) = {} /\ ~Closing(t)
      /\ \A m : ~Uncharged(t, m)
  BY DEF Requesting, ExecuteSteps, Transfers, Members, Closing, Uncharged
<1>2. \A m : BooksOf(t, before, u, m) <=> Debt(u, m) = Debt(before, m)
  BY <1>1 DEF BooksOf
<1>3. Members(<<>>) = {} /\ ~Closing(<<>>)
  BY DEF Members, Closing
<1>4. Settles(t, u) <=> Quiet(u)
  BY <1>1, <1>3 DEF Settles, Quiet
<1> QED
  BY <1>1, <1>2, <1>4

\* A step of a request: the rows stay, and the lock follows what is left.
LEMMA RequestGoesOn ==
  ASSUME NEW t, NEW before, NEW s, Turn(t, before, s), Requesting(t, before, s),
         NEW r \in Seq(Steps), NEW s2 \in Stores, Requesting(r, before, s2),
         s2.rows = s.rows, s2.moved = s.moved, s2.pool = s.pool, Sound(s2),
         Holds(r) \cap before.executing = {},
         s2.executing = before.executing \cup Holds(r)
  PROVE  Done(r, before, s2)
<1>1. \A m \in Mandates : Debt(s2, m) = Debt(s, m)
  BY DEF Debt
<1>2. \A m \in Mandates : Debt(s, m) = Debt(before, m)
  BY RequestOwesNothing DEF Turn, Level
<1>3. \A m \in Mandates : BooksOf(r, before, s2, m)
  BY <1>1, <1>2, RequestOwesNothing
<1>4. Quiet(s)
  BY RequestOwesNothing DEF Turn
<1>5. Quiet(s2) /\ Settles(r, s2)
  <2>1. Quiet(s2)
    BY <1>4 DEF Quiet, Settles, Closing
  <2> QED
    BY <2>1, RequestOwesNothing
<1> QED
  BY <1>3, <1>5 DEF Done, Level

LEMMA LockDone ==
  ASSUME NEW t, NEW before, NEW s, Turn(t, before, s), t[1].do = "lock"
  PROVE  LET s2 == [s EXCEPT !.executing = @ \cup {t[1].id}]
         IN  /\ Done(Tail(t), before, s2)
             /\ Keeps(Tail(t), s2) /\ Spares(before, s, s2)
<1>1. PICK m \in Policed, n \in Amounts, x \in Nonces :
        /\ m \in Mandates /\ n \in Nat
        /\ m \notin before.executing /\ x \notin before.consumed
        /\ x \notin s.consumed /\ t = ExecuteSteps(m, n, x)
  BY RequestOfTurn
<1> DEFINE s2 == [s EXCEPT !.executing = @ \cup {m}]
           r  == << [do |-> "burn", nonce |-> x],
                    [do |-> "call", id |-> m, amount |-> n, nonce |-> x],
                    [do |-> "unlock", id |-> m] >>
<1>2. t[1].id = m /\ Tail(t) = r
  BY <1>1 DEF ExecuteSteps
<1>3. r \in Seq(Steps)
  BY <1>1 DEF Steps
<1>4. /\ s2 \in Stores /\ s2.executing = s.executing \cup {m}
      /\ s2.rows = s.rows /\ s2.pool = s.pool /\ s2.moved = s.moved
      /\ s2.consumed = s.consumed /\ s2.served = s.served
  BY <1>1 DEF Turn, Stores
<1>5. Holds(t) = {} /\ Holds(r) = {m} /\ Burnt(r) = {}
  <2>1. Holds(t) = {}
    BY <1>1 DEF Holds, ExecuteSteps
  <2> QED
    BY <2>1 DEF Holds, Burnt
<1> HIDE DEF s2
<1>6. Requesting(r, before, s2)
  BY <1>1, <1>4 DEF Requesting
<1> HIDE DEF r
<1>7. Sound(s2)
  BY <1>4 DEF Sound, Turn
<1>8. s.executing = before.executing
  BY <1>5 DEF Turn, Level
<1>9. Requesting(t, before, s)
  BY ShapeOfTurn
<1>10. Holds(r) \cap before.executing = {} /\ s2.executing = before.executing \cup Holds(r)
  BY <1>1, <1>4, <1>5, <1>8
<1>11. Done(r, before, s2)
  BY <1>3, <1>4, <1>6, <1>7, <1>9, <1>10, RequestGoesOn
<1>12. Keeps(r, s2) /\ Spares(before, s, s2)
  BY <1>4, <1>5 DEF Keeps, Spares
<1> QED
  BY <1>2, <1>11, <1>12 DEF s2

LEMMA BurnDone ==
  ASSUME NEW t, NEW before, NEW s, Turn(t, before, s), Keeps(t, s), t[1].do = "burn"
  PROVE  LET s2 == [s EXCEPT !.consumed = @ \cup {t[1].nonce}]
         IN  /\ Done(Tail(t), before, s2)
             /\ Keeps(Tail(t), s2) /\ Spares(before, s, s2)
<1>1. PICK m \in Policed, n \in Amounts, x \in Nonces :
        /\ m \in Mandates /\ n \in Nat
        /\ m \notin before.executing /\ x \notin before.consumed
        /\ x \notin s.consumed
        /\ t = << [do |-> "burn", nonce |-> x],
                  [do |-> "call", id |-> m, amount |-> n, nonce |-> x],
                  [do |-> "unlock", id |-> m] >>
  BY RequestOfTurn
<1> DEFINE s2 == [s EXCEPT !.consumed = @ \cup {x}]
           r  == << [do |-> "call", id |-> m, amount |-> n, nonce |-> x],
                    [do |-> "unlock", id |-> m] >>
<1>2. t[1].nonce = x /\ Tail(t) = r
  BY <1>1
<1>3. r \in Seq(Steps)
  BY <1>1 DEF Steps
<1>4. /\ s2 \in Stores /\ s2.consumed = s.consumed \cup {x}
      /\ s2.rows = s.rows /\ s2.pool = s.pool /\ s2.moved = s.moved
      /\ s2.executing = s.executing /\ s2.served = s.served
  BY <1>1 DEF Turn, Stores
<1>5. Holds(t) = {m} /\ Holds(r) = {m} /\ Burnt(r) = {x}
  <2>1. Holds(t) = {m}
    BY <1>1 DEF Holds
  <2> QED
    BY <2>1 DEF Holds, Burnt
<1> HIDE DEF s2
<1>6. Requesting(r, before, s2)
  BY <1>1 DEF Requesting
<1> HIDE DEF r
<1>7. Sound(s2)
  BY <1>4 DEF Sound, Turn
<1>8. Requesting(t, before, s)
  BY ShapeOfTurn
<1>9. Holds(r) \cap before.executing = {} /\ s2.executing = before.executing \cup Holds(r)
  BY <1>1, <1>4, <1>5 DEF Turn, Level
<1>10. Done(r, before, s2)
  BY <1>3, <1>4, <1>6, <1>7, <1>8, <1>9, RequestGoesOn
<1>11. s.served[x] = 0
  BY <1>1 DEF Turn, Sound
<1>12. Keeps(r, s2) /\ Spares(before, s, s2)
  BY <1>4, <1>5, <1>9, <1>11 DEF Keeps, Spares
<1> QED
  BY <1>2, <1>10, <1>12 DEF s2

LEMMA UnlockDone ==
  ASSUME NEW t, NEW before, NEW s, Turn(t, before, s), t[1].do = "unlock"
  PROVE  LET s2 == [s EXCEPT !.executing = @ \ {t[1].id}]
         IN  /\ Done(Tail(t), before, s2)
             /\ Keeps(Tail(t), s2) /\ Spares(before, s, s2)
<1>1. PICK m \in Policed :
        /\ m \in Mandates /\ m \notin before.executing
        /\ t = << [do |-> "unlock", id |-> m] >>
  BY RequestOfTurn
<1> DEFINE s2 == [s EXCEPT !.executing = @ \ {m}]
<1>2. t[1].id = m /\ Tail(t) = <<>>
  BY <1>1
<1>3. /\ s2 \in Stores /\ s2.executing = s.executing \ {m}
      /\ s2.rows = s.rows /\ s2.pool = s.pool /\ s2.moved = s.moved
      /\ s2.consumed = s.consumed /\ s2.served = s.served
  BY <1>1 DEF Turn, Stores
<1>4. Holds(t) = {m} /\ Holds(<<>>) = {} /\ Burnt(<<>>) = {}
  <2>1. Holds(t) = {m}
    BY <1>1 DEF Holds
  <2> QED
    BY <2>1 DEF Holds, Burnt
<1> HIDE DEF s2
<1>5. Collecting(<<>>, s2)
  BY DEF Collecting, Transfers, Members
<1>6. Sound(s2)
  BY <1>3 DEF Sound, Turn
<1>7. Requesting(t, before, s)
  BY ShapeOfTurn
<1>8. s2.executing = before.executing
  BY <1>1, <1>3, <1>4 DEF Turn, Level
<1>9. \A k \in Mandates : BooksOf(<<>>, before, s2, k)
  <2> TAKE k \in Mandates
  <2>1. Debt(s2, k) = Debt(s, k) /\ Debt(s, k) = Debt(before, k)
    BY <1>3, <1>7, RequestOwesNothing DEF Debt, Turn, Level
  <2> QED
    BY <2>1 DEF BooksOf, Transfers
<1>10. Quiet(s2)
  <2>1. Quiet(s)
    BY <1>7, RequestOwesNothing DEF Turn
  <2> QED
    BY <1>3, <2>1 DEF Quiet, Settles, Closing
<1>11. Done(<<>>, before, s2)
  <2>1. <<>> \in Seq(Steps)
    OBVIOUS
  <2>2. Holds(<<>>) \cap before.executing = {} /\ s2.executing = before.executing \cup Holds(<<>>)
    BY <1>4, <1>8
  <2> QED
    BY <1>3, <1>5, <1>6, <1>9, <1>10, <2>1, <2>2 DEF Done, Level, Quiet
<1>12. Keeps(<<>>, s2) /\ Spares(before, s, s2)
  BY <1>3, <1>4, <1>8 DEF Keeps, Spares
<1> QED
  BY <1>2, <1>11, <1>12 DEF s2

\* The registry has paid for the nonce, which nobody below waits for.
LEMMA CalledDone ==
  ASSUME NEW t, NEW before, NEW s, Turn(t, before, s), Keeps(t, s), t[1].do = "called"
  PROVE  LET s2 == [s EXCEPT !.served[t[1].nonce] = @ + 1]
         IN  /\ Done(Tail(t), before, s2)
             /\ Keeps(Tail(t), s2) /\ Spares(before, s, s2)
<1>1. PICK m \in Policed, n \in Amounts, x \in Nonces :
        /\ m \in Mandates /\ n \in Nat
        /\ m \notin before.executing /\ x \notin before.consumed
        /\ t = << [do |-> "called", id |-> m, amount |-> n, nonce |-> x],
                  [do |-> "unlock", id |-> m] >>
  BY RequestOfTurn
<1> DEFINE s2 == [s EXCEPT !.served[x] = @ + 1]
           r  == << [do |-> "unlock", id |-> m] >>
<1>2. t[1].nonce = x /\ Tail(t) = r
  BY <1>1
<1>3. r \in Seq(Steps)
  BY <1>1 DEF Steps
<1>4. s \in Stores /\ s.served \in [Nonces -> Nat]
  BY StoreTypes DEF Turn
<1>5. /\ s2 \in Stores
      /\ s2.served = [s.served EXCEPT ![x] = s.served[x] + 1]
      /\ s2.rows = s.rows /\ s2.pool = s.pool /\ s2.moved = s.moved
      /\ s2.executing = s.executing /\ s2.consumed = s.consumed
  BY <1>4 DEF Stores
<1>6. Holds(t) = {m} /\ Burnt(t) = {x} /\ Holds(r) = {m} /\ Burnt(r) = {}
  <2>1. Holds(t) = {m} /\ Burnt(t) = {x}
    BY <1>1 DEF Holds, Burnt
  <2> QED
    BY <2>1 DEF Holds, Burnt
<1> HIDE DEF s2
<1>7. Requesting(r, before, s2)
  BY <1>1 DEF Requesting
<1> HIDE DEF r
<1>8. s.served[x] = 0 /\ x \in s.consumed
  BY <1>6 DEF Keeps
<1>9. \A y \in Nonces : s2.served[y] = IF y = x THEN 1 ELSE s.served[y]
  BY <1>4, <1>5, <1>8
<1>10. Sound(s2)
  BY <1>5, <1>8, <1>9 DEF Sound, Turn
<1>11. Requesting(t, before, s)
  BY ShapeOfTurn
<1>12. Holds(r) \cap before.executing = {} /\ s2.executing = before.executing \cup Holds(r)
  BY <1>1, <1>5, <1>6 DEF Turn, Level
<1>13. Done(r, before, s2)
  BY <1>3, <1>5, <1>7, <1>10, <1>11, <1>12, RequestGoesOn
<1>14. Spares(before, s, s2)
  <2>1. before.consumed \subseteq Nonces
    BY StoreTypes DEF Turn
  <2> QED
    BY <1>1, <1>5, <1>9, <2>1 DEF Spares
<1>15. Keeps(r, s2)
  BY <1>5, <1>6, <1>12 DEF Keeps
<1> QED
  BY <1>2, <1>13, <1>14, <1>15 DEF s2

\* The policy calls: its frame waits, with what it held.
LEMMA CallDone ==
  ASSUME NEW t, NEW before, NEW s, Turn(t, before, s), Keeps(t, s), t[1].do = "call"
  PROVE  LET r == <<[t[1] EXCEPT !.do = "called"]>> \o Tail(t)
         IN  /\ Done(r, before, s) /\ Keeps(r, s) /\ Waiting(r)
             /\ t[1].id \in Mandates /\ t[1].amount \in Amounts
<1>1. PICK m \in Policed, n \in Amounts, x \in Nonces :
        /\ m \in Mandates /\ n \in Nat
        /\ m \notin before.executing /\ x \notin before.consumed
        /\ t = << [do |-> "call", id |-> m, amount |-> n, nonce |-> x],
                  [do |-> "unlock", id |-> m] >>
  BY RequestOfTurn
<1> DEFINE r == << [do |-> "called", id |-> m, amount |-> n, nonce |-> x],
                   [do |-> "unlock", id |-> m] >>
<1>2. /\ <<[t[1] EXCEPT !.do = "called"]>> \o Tail(t) = r
      /\ t[1].id = m /\ t[1].amount = n
  <2>1. t[1] = [do |-> "call", id |-> m, amount |-> n, nonce |-> x]
    BY <1>1
  <2>2. Tail(t) = << [do |-> "unlock", id |-> m] >>
    BY <1>1
  <2>3. [t[1] EXCEPT !.do = "called"]
          = [do |-> "called", id |-> m, amount |-> n, nonce |-> x]
    BY <2>1
  <2> PICK a, b : /\ a = [do |-> "called", id |-> m, amount |-> n, nonce |-> x]
                  /\ b = [do |-> "unlock", id |-> m]
    OBVIOUS
  <2>4. <<a>> \o <<b>> = <<a, b>>
    <3>1. a \in Steps /\ b \in Steps
      BY <1>1 DEF Steps
    <3>2. /\ <<a>> \in Seq(Steps) /\ <<b>> \in Seq(Steps) /\ <<a, b>> \in Seq(Steps)
          /\ Len(<<a>>) = 1 /\ Len(<<b>>) = 1 /\ Len(<<a, b>>) = 2
          /\ <<a>>[1] = a /\ <<b>>[1] = b /\ <<a, b>>[1] = a /\ <<a, b>>[2] = b
      BY <3>1
    <3> PICK c, d : c = <<a>> \o <<b>> /\ d = <<a, b>>
      OBVIOUS
    <3>3. c \in Seq(Steps) /\ Len(c) = 2 /\ c[1] = a /\ c[2] = b
      BY <3>2, ConcatProperties
    <3>4. d \in Seq(Steps) /\ Len(d) = 2 /\ d[1] = a /\ d[2] = b
      BY <3>2
    <3>5. \A i \in 1 .. 2 : i = 1 \/ i = 2
      OBVIOUS
    <3>6. c = d
      BY <3>3, <3>4, <3>5, SeqEqual, ZenonT(30)
    <3> QED
      BY <3>6
  <2> QED
    BY <2>1, <2>2, <2>3, <2>4
<1>3. r \in Seq(Steps)
  BY <1>1 DEF Steps
<1>4. Holds(t) = {m} /\ Burnt(t) = {x} /\ Holds(r) = {m} /\ Burnt(r) = {x}
  <2>1. Holds(t) = {m} /\ Burnt(t) = {x}
    BY <1>1 DEF Holds, Burnt
  <2> QED
    BY <2>1 DEF Holds, Burnt
<1>5. Requesting(r, before, s)
  BY <1>1 DEF Requesting
<1>6. Waiting(r)
  BY DEF Waiting
<1> HIDE DEF r
<1>7. Requesting(t, before, s)
  BY ShapeOfTurn
<1>8. Done(r, before, s)
  BY <1>3, <1>4, <1>5, <1>7, RequestGoesOn DEF Turn, Level
<1>9. Keeps(r, s)
  BY <1>4 DEF Keeps
<1> QED
  BY <1>1, <1>2, <1>6, <1>8, <1>9

\* The token moves the money: the transfer is no longer owed.
LEMMA TransferDone ==
  ASSUME NEW t, NEW before, NEW s, Turn(t, before, s), t[1].do = "transfer"
  PROVE  LET s2 == [s EXCEPT !.moved[t[1].id] = @ + t[1].amount]
             r  == << [do |-> "moved"] >> \o Tail(t)
         IN  /\ Done(r, before, s2)
             /\ s2.executing = s.executing /\ s2.consumed = s.consumed
             /\ s2.served = s.served
<1> PICK m, n : m = t[1].id /\ n = t[1].amount
  OBVIOUS
<1> DEFINE s2 == [s EXCEPT !.moved[m] = @ + n]
           r  == << [do |-> "moved"] >> \o Tail(t)
<1>1. s \in Stores /\ t \in Seq(Steps) /\ t # <<>> /\ Collecting(t, s)
  BY ShapeOfTurn DEF Turn
<1>2. /\ Tail(t) \in Seq(Steps) /\ Len(Tail(t)) = Len(t) - 1
      /\ DOMAIN t = 1 .. Len(t) /\ Len(t) \in Nat /\ Len(t) >= 1
      /\ DOMAIN Tail(t) = 1 .. Len(t) - 1
      /\ \A i \in DOMAIN Tail(t) : Tail(t)[i] = t[i + 1]
      /\ t[1] \in Steps
  BY <1>1, TailOf
<1>3. m \in Mandates /\ n \in Nat
  BY <1>2 DEF Steps
<1>4. /\ r \in Seq(Steps) /\ DOMAIN r = 1 .. Len(t)
      /\ r[1] = [do |-> "moved"]
      /\ \A i \in 2 .. Len(t) : r[i] = t[i]
  <2>1. [do |-> "moved"] \in Steps
    BY DEF Steps
  <2>2. << [do |-> "moved"] >> \in Seq(Steps) /\ Len(<< [do |-> "moved"] >>) = 1
    BY <2>1
  <2>3. /\ r \in Seq(Steps) /\ Len(r) = Len(t)
        /\ \A i \in 1 .. Len(r) :
             r[i] = IF i <= 1 THEN << [do |-> "moved"] >>[i] ELSE Tail(t)[i - 1]
    BY <1>2, <2>2, ConcatProperties
  <2>4. \A i \in 2 .. Len(t) : i \in 1 .. Len(r) /\ i - 1 \in DOMAIN Tail(t) /\ (i - 1) + 1 = i /\ ~(i <= 1)
    BY <1>2, <2>3
  <2> HIDE DEF r
  <2>5. DOMAIN r = 1 .. Len(t)
    BY <2>3
  <2>6. r[1] = [do |-> "moved"]
    BY <1>2, <2>3
  <2>7. \A i \in 2 .. Len(t) : r[i] = t[i]
    BY <1>2, <2>3, <2>4
  <2> QED
    BY <2>3, <2>5, <2>6, <2>7
<1> HIDE DEF r
<1>5. /\ s2 \in Stores
      /\ s2.rows = s.rows /\ s2.pool = s.pool /\ s2.consumed = s.consumed
      /\ s2.executing = s.executing /\ s2.served = s.served
      /\ \A k \in Mandates : s2.moved[k] = IF k = m THEN s.moved[k] + n ELSE s.moved[k]
  <2>1. s.moved \in [Mandates -> Nat]
    BY <1>1, StoreTypes
  <2>2. /\ s2 = [s EXCEPT !.moved = [s.moved EXCEPT ![m] = s.moved[m] + n]]
        /\ [s.moved EXCEPT ![m] = s.moved[m] + n] \in [Mandates -> Nat]
    BY <1>1, <1>3, <2>1
  <2> HIDE DEF s2
  <2> QED
    BY <1>1, <1>3, <2>1, <2>2 DEF Stores
<1> HIDE DEF s2
<1>6. \A i \in 2 .. Len(t) : t[i].do = "transfer"
  <2> TAKE i \in 2 .. Len(t)
  <2>1. 1 \in DOMAIN t /\ i \in DOMAIN t /\ 1 < i
    BY <1>2
  <2> QED
    BY <1>1, <2>1 DEF Collecting
<1>7. \A i \in DOMAIN r : i # 1 => i \in 2 .. Len(t) /\ i \in DOMAIN t /\ i \in DOMAIN r
  BY <1>2, <1>4
<1>8. /\ Transfers(r) = Transfers(t) \ {1} /\ 1 \in Transfers(t)
      /\ \A i \in Transfers(r) : i \in DOMAIN t /\ r[i] = t[i]
      /\ Members(r) = {} /\ Members(t) = {}
      /\ \A k \in Mandates : ~Uncharged(r, k) /\ ~Uncharged(t, k)
      /\ ~Closing(r) /\ ~Closing(t)
      /\ \A i \in DOMAIN t : i # 1 => i \in 2 .. Len(t)
  <2>1. \A i \in DOMAIN t : i # 1 => i \in 2 .. Len(t)
    BY <1>2
  <2>2. \A i \in DOMAIN t : t[i].do = "transfer"
    BY <1>6, <2>1
  <2>3. \A i \in DOMAIN r : r[i].do = IF i = 1 THEN "moved" ELSE "transfer"
    BY <1>4, <1>6, <1>7
  <2>4. 1 \in DOMAIN t /\ DOMAIN r = DOMAIN t
    BY <1>2, <1>4
  <2>5. Transfers(r) = Transfers(t) \ {1} /\ 1 \in Transfers(t)
    BY <2>2, <2>3, <2>4 DEF Transfers
  <2>6. \A i \in Transfers(r) : i \in DOMAIN t /\ r[i] = t[i]
    BY <1>4, <2>1, <2>4, <2>5 DEF Transfers
  <2>7. Members(r) = {} /\ Members(t) = {}
    BY <2>2, <2>3 DEF Members
  <2>8. \A k \in Mandates : ~Uncharged(r, k) /\ ~Uncharged(t, k)
    BY <2>2, <2>3 DEF Uncharged
  <2>9. ~Closing(r) /\ ~Closing(t)
    BY <1>4 DEF Closing
  <2> QED
    BY <2>1, <2>5, <2>6, <2>7, <2>8, <2>9
<1>9. Collecting(r, s2)
  <2>1. \A i \in DOMAIN r : /\ r[i].do \in {"transfer", "moved"}
                            /\ r[i].do = "moved" => i = 1
    BY <1>4, <1>6, <1>7
  <2>2. \A i, j \in DOMAIN r : i < j => r[j].do = "transfer"
    <3> TAKE i, j \in DOMAIN r
    <3>1. i < j => j \in 2 .. Len(t)
      BY <1>2, <1>4
    <3> QED
      BY <1>4, <1>6, <3>1
  <2>3. \A i, j \in Transfers(r) : r[i].id = r[j].id => i = j
    BY <1>1, <1>8 DEF Collecting
  <2> QED
    BY <1>8, <2>1, <2>2, <2>3 DEF Collecting
<1>10. Sound(s2)
  BY <1>5 DEF Sound, Turn
<1>11. \A k \in Mandates : BooksOf(r, before, s2, k)
  <2> TAKE k \in Mandates
  <2>1. BooksOf(t, before, s, k)
    BY DEF Turn, Level
  <2>2. Debt(s, k) \in Int /\ Debt(before, k) \in Int
    BY StoreTypes DEF Turn
  <2>3. Debt(s2, k) = IF k = m THEN Debt(s, k) - n ELSE Debt(s, k)
    <3>1. s.rows[k].spent \in Nat /\ s.moved[k] \in Nat /\ s2.rows[k] = s.rows[k]
      BY <1>1, <1>5, StoreTypes
    <3>2. s2.moved[k] = IF k = m THEN s.moved[k] + n ELSE s.moved[k]
      BY <1>5
    <3> QED
      BY <1>3, <3>1, <3>2 DEF Debt
  <2>4. CASE k = m
    <3>1. Debt(s, k) = Debt(before, k) + n
      BY <1>8, <2>1, <2>4 DEF BooksOf
    <3>2. Debt(s2, k) = Debt(before, k)
      BY <1>3, <2>2, <2>3, <2>4, <3>1
    <3>3. \A i \in Transfers(r) : r[i].id # k
      BY <1>1, <1>8, <2>4 DEF Collecting
    <3> QED
      BY <3>2, <3>3 DEF BooksOf
  <2>5. CASE k # m
    <3>1. Debt(s2, k) = Debt(s, k)
      BY <2>3, <2>5
    <3>2. (\A i \in Transfers(r) : r[i].id # k) => \A i \in Transfers(t) : t[i].id # k
      BY <1>8, <2>5
    <3> QED
      BY <1>8, <2>1, <3>1, <3>2 DEF BooksOf
  <2> QED
    BY <2>4, <2>5
<1>12. Level(r, before, s2)
  <2>1. Holds(t) = {} /\ Holds(r) = {}
    BY <1>1, <1>9, CollectingIsFree
  <2> QED
    BY <1>5, <1>9, <1>11, <2>1 DEF Level, Turn
<1>13. Settles(r, s2)
  BY <1>5, <1>8 DEF Settles, Turn
<1>14. Done(r, before, s2)
  BY <1>4, <1>5, <1>10, <1>12, <1>13 DEF Done
<1> QED
  BY <1>5, <1>14 DEF s2, r

\* The token returns.
LEMMA MovedDone ==
  ASSUME NEW t, NEW before, NEW s, Turn(t, before, s), t[1].do = "moved"
  PROVE  Done(Tail(t), before, s)
<1> PICK r : r = Tail(t)
  OBVIOUS
<1>1. s \in Stores /\ t \in Seq(Steps) /\ t # <<>> /\ Collecting(t, s)
  BY ShapeOfTurn DEF Turn
<1>2. Members(t) = {} /\ ~Closing(t)
  <2>1. Waiting(t)
    BY <1>1 DEF Waiting
  <2> QED
    BY <1>1, <2>1, WaitingFrame DEF Turn
<1>3. /\ r \in Seq(Steps) /\ DOMAIN t = 1 .. Len(t) /\ Len(t) \in Nat
      /\ DOMAIN r = 1 .. Len(t) - 1
  BY <1>1, TailOf
<1>4. /\ Collecting(r, s) /\ ~Closing(r)
      /\ \A i \in DOMAIN r : i + 1 \in DOMAIN t /\ r[i] = t[i + 1]
  BY <1>1, <1>2, CollectingTail
<1>5. \A i \in DOMAIN t : i # 1 => i - 1 \in DOMAIN r /\ r[i - 1] = t[i]
  <2> TAKE i \in DOMAIN t
  <2>1. i # 1 => i - 1 \in DOMAIN r /\ (i - 1) + 1 = i
    BY <1>3
  <2> QED
    BY <1>4, <2>1
<1>6. \A k \in Mandates : BooksOf(r, before, s, k)
  <2> TAKE k \in Mandates
  <2>1. BooksOf(t, before, s, k)
    BY DEF Turn, Level
  <2>2. Uncharged(t, k) <=> Uncharged(r, k)
    BY <1>4, <1>5, ZenonT(30) DEF Uncharged
  <2>3. /\ \A i \in Transfers(r) : i + 1 \in Transfers(t) /\ r[i] = t[i + 1]
        /\ \A i \in Transfers(t) : i - 1 \in Transfers(r) /\ r[i - 1] = t[i]
    BY <1>4, <1>5 DEF Transfers
  <2>4. \A i \in Transfers(r) : r[i].id = k /\ ~Uncharged(r, k) =>
          Debt(s, k) = Debt(before, k) + r[i].amount
    <3> TAKE i \in Transfers(r)
    <3>1. i + 1 \in Transfers(t) /\ r[i] = t[i + 1]
      BY <2>3
    <3> QED
      BY <2>1, <2>2, <3>1 DEF BooksOf
  <2>5. (Uncharged(r, k) \/ \A i \in Transfers(r) : r[i].id # k) =>
          Debt(s, k) = Debt(before, k)
    <3>1. (\A i \in Transfers(r) : r[i].id # k) => \A i \in Transfers(t) : t[i].id # k
      BY <2>3
    <3> QED
      BY <2>1, <2>2, <3>1 DEF BooksOf
  <2> QED
    BY <2>4, <2>5 DEF BooksOf
<1>7. Level(r, before, s)
  <2>1. Holds(t) = {} /\ Holds(r) = {}
    BY <1>1, <1>4, CollectingIsFree
  <2> QED
    BY <1>4, <1>6, <2>1 DEF Level, Turn
<1>8. Settles(r, s)
  BY <1>2, <1>4 DEF Settles, Turn
<1> QED
  BY <1>3, <1>7, <1>8 DEF Done, Turn

-----------------------------------------------------------------------------
(* A step of the frame on top, in the stack. *)

\* A frame that holds no lock waits for no nonce.
LEMMA HoldsNothing ==
  ASSUME NEW r, NEW before, NEW s, Level(r, before, s), Holds(r) = {}
  PROVE  Burnt(r) = {}
<1>1. CASE Collecting(r, s) \/ Begun(r, s)
  BY <1>1, CollectingIsFree
<1>2. CASE Requesting(r, before, s)
  <2>1. PICK m \in Policed, n \in Amounts, x \in Nonces :
          LET call   == [do |-> "call", id |-> m, amount |-> n, nonce |-> x]
              called == [do |-> "called", id |-> m, amount |-> n, nonce |-> x]
              burn   == [do |-> "burn", nonce |-> x]
              unlock == [do |-> "unlock", id |-> m]
          IN  r \in {ExecuteSteps(m, n, x), <<burn, call, unlock>>,
                     <<call, unlock>>, <<called, unlock>>, <<unlock>>}
    BY <1>2 DEF Requesting
  <2>2. CASE r = ExecuteSteps(m, n, x)
    BY <2>2 DEF ExecuteSteps, Burnt
  <2>3. CASE r # ExecuteSteps(m, n, x)
    <3>1. m \in Holds(r)
      BY <2>1, <2>3 DEF Holds
    <3> QED
      BY <3>1
  <2> QED
    BY <2>2, <2>3
<1> QED
  BY <1>1, <1>2 DEF Level

\* A frame that holds nothing does a step that touches no lock and no nonce.
LEMMA FreeStep ==
  ASSUME NEW t, NEW before, NEW s, Turn(t, before, s), Collecting(t, s) \/ Begun(t, s),
         NEW r, NEW s2, Done(r, before, s2),
         s2.executing = s.executing, s2.consumed = s.consumed, s2.served = s.served
  PROVE  Keeps(r, s2) /\ Spares(before, s, s2)
<1>1. Holds(t) = {}
  BY CollectingIsFree
<1>2. Holds(r) = {}
  BY <1>1 DEF Turn, Done, Level
<1>3. Burnt(r) = {}
  BY <1>2, HoldsNothing DEF Done
<1> QED
  BY <1>2, <1>3 DEF Keeps, Spares

\* The steps that only change the store: what each leaves is in order.
LEMMA EffectDone ==
  ASSUME NEW t, NEW before, NEW s, Turn(t, before, s), Keeps(t, s),
         t[1].do \in {"write", "close", "charge", "release", "lock", "burn", "unlock"},
         t[1].do = "charge" /\ s.rows[t[1].id].pool_state = "Committed" =>
           s.rows[t[1].id].spent + t[1].amount <= MaxAmount
  PROVE  /\ Done(Tail(t), before, Effect(s, t[1]))
         /\ Keeps(Tail(t), Effect(s, t[1])) /\ Spares(before, s, Effect(s, t[1]))
<1> PICK r, e : r = Tail(t) /\ e = Effect(s, t[1])
  OBVIOUS
<1>1. CASE t[1].do = "write"
  <2>1. e = WithRow(s, t[1].id, t[1].row)
    BY <1>1 DEF Effect
  <2>2. /\ Done(r, before, e) /\ e.executing = s.executing
        /\ e.consumed = s.consumed /\ e.served = s.served
    BY <1>1, <2>1, WriteDone
  <2>3. Begun(t, s)
    BY <1>1, ShapeOfTurn
  <2> QED
    BY <2>2, <2>3, FreeStep
<1>2. CASE t[1].do = "close"
  <2>1. e = [s EXCEPT !.pool = "Cleared"]
    BY <1>2 DEF Effect
  <2>2. /\ Done(r, before, e) /\ e.executing = s.executing
        /\ e.consumed = s.consumed /\ e.served = s.served
    BY <1>2, <2>1, CloseDone
  <2>3. Collecting(t, s)
    BY <1>2, ShapeOfTurn
  <2> QED
    BY <2>2, <2>3, FreeStep
<1>3. CASE t[1].do \in {"charge", "release"}
  <2> PICK m : m = t[1].id
    OBVIOUS
  <2>1. Collecting(t, s) /\ s \in Stores /\ t \in Seq(Steps) /\ t # <<>>
    BY <1>3, ShapeOfTurn DEF Turn
  <2>2. t[1] \in Steps /\ 1 \in DOMAIN t
    BY <2>1, TailOf
  <2>3. m \in Mandates /\ 1 \in Members(t)
    BY <1>3, <2>2 DEF Steps, Members
  <2>4. s.rows[m].pool_state = "Committed" /\ s.rows[m] \in Row
    BY <2>1, <2>3, StoreTypes DEF Collecting
  <2>5. s.rows[m].spent \in Nat /\ s.rows[m].spent <= MaxAmount
    BY <2>1, <2>3, StoreTypes DEF Turn, Sound
  <2>6. CASE t[1].do = "charge"
    <3> PICK row : row = [Charged(s.rows[m], t[1].amount) EXCEPT !.pool_state = "Captured"]
      OBVIOUS
    <3>1. t[1].amount \in Nat
      BY <2>2, <2>6 DEF Steps
    <3>2. /\ row \in Row /\ row.spent = s.rows[m].spent + t[1].amount
          /\ row.pool_state = "Captured"
      <4>1. /\ Charged(s.rows[m], t[1].amount) \in Row
            /\ Charged(s.rows[m], t[1].amount).spent = s.rows[m].spent + t[1].amount
        BY <2>4, <3>1, ChargedRow
      <4> QED
        BY <4>1 DEF Row
    <3>3. e = [s EXCEPT !.rows[m] = row]
      BY <2>4, <2>6 DEF Effect, WithRow
    <3>4. row.spent <= MaxAmount
      BY <2>4, <2>6, <3>2
    <3>5. /\ Done(r, before, e) /\ e.executing = s.executing
          /\ e.consumed = s.consumed /\ e.served = s.served
      <4>1. t[1].id = m /\ Settled(t[1], s.rows[t[1].id], row)
        BY <2>6, <3>2, <3>4 DEF Settled, Paid
      <4>2. e = WithRow(s, t[1].id, row)
        BY <3>3 DEF WithRow
      <4>3. t[1].do \in {"charge", "release"}
        BY <2>6
      <4> QED
        BY <4>1, <4>2, <4>3, MemberDone
    <3> QED
      BY <2>1, <3>5, FreeStep
  <2>7. CASE t[1].do = "release"
    <3> PICK row : row = [s.rows[m] EXCEPT !.pool_state = "Released"]
      OBVIOUS
    <3>1. row \in Row /\ row.spent = s.rows[m].spent /\ row.pool_state = "Released"
      BY <2>4 DEF Row
    <3>2. e = [s EXCEPT !.rows[m] = row]
      BY <2>4, <2>7 DEF Effect
    <3>3. row.spent = s.rows[m].spent + 0 /\ row.spent <= MaxAmount
      BY <2>5, <3>1
    <3>4. /\ Done(r, before, e) /\ e.executing = s.executing
          /\ e.consumed = s.consumed /\ e.served = s.served
      <4>1. t[1].id = m /\ Settled(t[1], s.rows[t[1].id], row)
        BY <2>7, <3>1, <3>3 DEF Settled, Paid
      <4>2. e = WithRow(s, t[1].id, row)
        BY <3>2 DEF WithRow
      <4>3. t[1].do \in {"charge", "release"}
        BY <2>7
      <4> QED
        BY <4>1, <4>2, <4>3, MemberDone
    <3> QED
      BY <2>1, <3>4, FreeStep
  <2> QED
    BY <1>3, <2>6, <2>7
<1>4. CASE t[1].do = "lock"
  <2>1. e = [s EXCEPT !.executing = @ \cup {t[1].id}]
    BY <1>4 DEF Effect
  <2> QED
    BY <1>4, <2>1, LockDone
<1>5. CASE t[1].do = "burn"
  <2>1. e = [s EXCEPT !.consumed = @ \cup {t[1].nonce}]
    BY <1>5 DEF Effect
  <2> QED
    BY <1>5, <2>1, BurnDone
<1>6. CASE t[1].do = "unlock"
  <2>1. e = [s EXCEPT !.executing = @ \ {t[1].id}]
    BY <1>6 DEF Effect
  <2> QED
    BY <1>6, <2>1, UnlockDone, SMTT(30)
<1> QED
  BY <1>1, <1>2, <1>3, <1>4, <1>5, <1>6

\* The frame on top has its turn.
LEMMA OnTop ==
  ASSUME NEW frames, NEW s, Inv(frames, s), NEW n, n = Len(frames), n > 0,
         frames[n].todo # <<>>
  PROVE  /\ Turn(frames[n].todo, frames[n].saved, s) /\ Keeps(frames[n].todo, s)
         /\ Sound(s) /\ s \in Stores
<1>1. n \in Nat /\ frames \in Seq(Frames) /\ s \in Stores /\ n \in 1 .. Len(frames)
  BY DEF Inv
<1>2. /\ frames[n].todo \in Seq(Steps) /\ frames[n].saved \in Stores
      /\ Sound(frames[n].saved)
      /\ Level(frames[n].todo, frames[n].saved, s)
      /\ \A l \in n + 1 .. Len(frames) + 1 : Keeps(frames[n].todo, Found(frames, s, l))
  <2>1. Found(frames, s, n + 1) = s
    BY <1>1, AtLevel
  <2> QED
    BY <1>1, <2>1, AtLevel
<1>3. n + 1 \in 1 .. Len(frames) + 1 /\ n + 1 \in n + 1 .. Len(frames) + 1
      /\ Found(frames, s, n + 1) = s
  BY <1>1 DEF Found
<1>4. Sound(s)
  BY <1>3 DEF Inv
<1>5. Settles(frames[n].todo, s)
  <2>1. frames # <<>>
    BY <1>1
  <2> QED
    BY <2>1 DEF Inv
<1> QED
  BY <1>1, <1>2, <1>3, <1>4, <1>5 DEF Turn

\* What the frame on top spares, the frames below it keep.
LEMMA Below ==
  ASSUME NEW frames, NEW s, Inv(frames, s), NEW n, n = Len(frames), n > 0,
         NEW s2, Spares(frames[n].saved, s, s2)
  PROVE  \A k \in 1 .. n - 1 : Keeps(frames[k].todo, s2)
<1> TAKE k \in 1 .. n - 1
<1>1. n \in Nat /\ k \in 1 .. Len(frames) /\ n \in k + 1 .. Len(frames) + 1
      /\ n + 1 \in k + 1 .. Len(frames) + 1
  BY DEF Inv
<1>2. Found(frames, s, n) = frames[n].saved /\ Found(frames, s, n + 1) = s
  BY <1>1 DEF Found
<1>3. Keeps(frames[k].todo, frames[n].saved) /\ Keeps(frames[k].todo, s)
  BY <1>1, <1>2, AtLevel
<1> QED
  BY <1>3 DEF Keeps, Spares

\* The frame on top has done its step.
LEMMA GoesOn ==
  ASSUME NEW frames, NEW s, Inv(frames, s), NEW n, n = Len(frames), n > 0,
         NEW r, NEW s2, Done(r, frames[n].saved, s2), Keeps(r, s2),
         Spares(frames[n].saved, s, s2),
         NEW frames2, frames2 = [frames EXCEPT ![n].todo = r]
  PROVE  Inv(frames2, s2)
<1>1. \A k \in 1 .. n - 1 : Keeps(frames[k].todo, s2)
  BY Below
<1> QED
  BY <1>1, Advance DEF Done

-----------------------------------------------------------------------------
(* Calls, returns and failures. *)

\* The store as a call finds it.
LEMMA Entry ==
  ASSUME NEW frames, NEW s, Inv(frames, s), NEW n, n = Len(frames),
         n > 0 => Waiting(frames[n].todo)
  PROVE  /\ s \in Stores /\ Sound(s) /\ Quiet(s)
         /\ frames \in Seq(Frames) /\ n \in Nat
         /\ n = 0 => frames = <<>> /\ Balanced(s)
         /\ \A k \in 1 .. n : Keeps(frames[k].todo, s)
<1>1. frames \in Seq(Frames) /\ n \in Nat /\ s \in Stores /\ n + 1 \in 1 .. Len(frames) + 1
  BY DEF Inv
<1>2. Found(frames, s, n + 1) = s
  BY <1>1 DEF Found
<1>3. Sound(s)
  BY <1>1, <1>2 DEF Inv
<1>4. n = 0 => frames = <<>> /\ Balanced(s)
  <2>1. n = 0 => frames = <<>>
    BY <1>1, EmptySeq
  <2>2. n = 0 => n + 1 = 1
    OBVIOUS
  <2> QED
    BY <1>2, <2>1, <2>2 DEF Inv
<1>5. Quiet(s)
  <2>1. CASE n = 0
    <3>1. frames = <<>>
      BY <1>4, <2>1
    <3> QED
      BY <3>1 DEF Inv, Quiet
  <2>2. CASE n # 0
    <3>1. n \in 1 .. Len(frames) /\ n > 0 /\ frames # <<>>
      BY <1>1, <2>2
    <3>2. Settles(frames[n].todo, s)
      BY <3>1 DEF Inv
    <3>3. Level(frames[n].todo, frames[n].saved, s) /\ frames[n].todo \in Seq(Steps)
      BY <1>2, <3>1, AtLevel
    <3> QED
      BY <3>1, <3>2, <3>3, WaitingIsQuiet
  <2> QED
    BY <2>1, <2>2
<1>6. \A k \in 1 .. n : Keeps(frames[k].todo, s)
  <2> TAKE k \in 1 .. n
  <2>1. k \in 1 .. Len(frames) /\ n + 1 \in k + 1 .. Len(frames) + 1
    BY <1>1
  <2> QED
    BY <1>2, <2>1, AtLevel
<1> QED
  BY <1>1, <1>3, <1>4, <1>5, <1>6

\* A call that writes and returns at once leaves the books and the locks of
\* whoever waits as they were.
LEMMA Undisturbed ==
  ASSUME NEW frames, NEW s, Inv(frames, s), NEW n, n = Len(frames),
         n > 0 => Waiting(frames[n].todo),
         NEW s2 \in Stores, Sound(s2), Quiet(s2),
         \A m \in Mandates : Debt(s2, m) = Debt(s, m),
         s2.executing = s.executing, s2.consumed = s.consumed, s2.served = s.served
  PROVE  Inv(frames, s2)
<1>1. /\ frames \in Seq(Frames) /\ n \in Nat
      /\ n = 0 => frames = <<>> /\ Balanced(s)
      /\ \A k \in 1 .. n : Keeps(frames[k].todo, s)
  BY Entry
<1>2. \A k \in 1 .. n : Keeps(frames[k].todo, s2)
  BY <1>1 DEF Keeps
<1>3. n = 0 => Balanced(s2)
  BY <1>1 DEF Balanced
<1>4. n > 0 => /\ Level(frames[n].todo, frames[n].saved, s2)
               /\ Settles(frames[n].todo, s2)
  <2> SUFFICES ASSUME n > 0
               PROVE  /\ Level(frames[n].todo, frames[n].saved, s2)
                      /\ Settles(frames[n].todo, s2)
    OBVIOUS
  <2>1. n \in 1 .. Len(frames)
    BY <1>1
  <2>2. Level(frames[n].todo, frames[n].saved, s) /\ frames[n].todo \in Seq(Steps)
    <3>1. Found(frames, s, n + 1) = s
      BY <2>1, AtLevel
    <3> QED
      BY <2>1, <3>1, AtLevel
  <2>3. Level(frames[n].todo, frames[n].saved, s2)
    BY <2>2, WaitingLevel
  <2> QED
    BY <2>2, <2>3, WaitingIsQuiet
<1>5. n \in 0 .. Len(frames) /\ frames = SubSeq(frames, 1, n)
  <2>1. /\ SubSeq(frames, 1, n) \in Seq(Frames) /\ Len(SubSeq(frames, 1, n)) = n
        /\ \A k \in 1 .. n : SubSeq(frames, 1, n)[k] = frames[k]
    BY <1>1, SubSeqProperties
  <2>2. frames = SubSeq(frames, 1, n)
    BY <1>1, <2>1, SeqEqual
  <2> QED
    BY <1>1, <2>2
<1> QED
  BY <1>2, <1>3, <1>4, <1>5, Cut

\* A payment is begun on a row that allows it.
LEMMA PayCall ==
  ASSUME NEW frames, NEW s, Inv(frames, s), NEW l, l = Len(frames),
         l > 0 => Waiting(frames[l].todo),
         NEW m \in Mandates, NEW n \in Amounts, s.rows[m].spent + n <= MaxAmount,
         NEW frames2,
         frames2 = Append(frames, [todo |-> PaySteps(m, n, s.rows[m]), saved |-> s])
  PROVE  Inv(frames2, s)
<1> PICK t : t = PaySteps(m, n, s.rows[m])
  OBVIOUS
<1>1. s \in Stores /\ Quiet(s) /\ n \in Nat
  BY Entry, ReentryAssumption
<1>2. t \in Seq(Steps)
  <2> PICK row : row = Charged(s.rows[m], n)
    OBVIOUS
  <2>1. s.rows[m] \in Row
    BY <1>1, StoreTypes
  <2>2. row \in Row
    BY <1>1, <2>1, ChargedRow
  <2>3. [do |-> "write", id |-> m, row |-> row] \in Steps
    BY <2>2 DEF Steps
  <2>4. [do |-> "transfer", id |-> m, amount |-> n] \in Steps
    BY <1>1 DEF Steps
  <2> QED
    BY <2>3, <2>4 DEF PaySteps
<1>3. Begun(t, s)
  BY DEF Begun
<1>4. Holds(t) = {} /\ Burnt(t) = {}
  BY <1>3, CollectingIsFree
<1>5. \A k \in Mandates : BooksOf(t, s, s, k)
  <2> TAKE k \in Mandates
  <2>1. k = m => Uncharged(t, k)
    BY DEF PaySteps, Uncharged
  <2>2. k # m => \A i \in Transfers(t) : t[i].id # k
    BY DEF PaySteps, Transfers
  <2> QED
    BY <2>1, <2>2 DEF BooksOf
<1>6. Level(t, s, s) /\ Keeps(t, s)
  BY <1>3, <1>4, <1>5 DEF Level, Keeps
<1>7. Settles(t, s)
  <2>1. Members(t) = {} /\ ~Closing(t) /\ Members(<<>>) = {} /\ ~Closing(<<>>)
    BY DEF PaySteps, Members, Closing
  <2> QED
    BY <1>1, <2>1 DEF Settles, Quiet
<1> QED
  BY <1>1, <1>2, <1>6, <1>7, Call

\* A request is begun.
LEMMA ExecuteCall ==
  ASSUME NEW frames, NEW s, Inv(frames, s), NEW l, l = Len(frames),
         l > 0 => Waiting(frames[l].todo),
         NEW m \in Policed, NEW n \in Amounts, NEW x \in Nonces,
         m \notin s.executing, x \notin s.consumed,
         NEW frames2,
         frames2 = Append(frames, [todo |-> ExecuteSteps(m, n, x), saved |-> s])
  PROVE  Inv(frames2, s)
<1> PICK t : t = ExecuteSteps(m, n, x)
  OBVIOUS
<1>1. s \in Stores /\ Quiet(s) /\ n \in Nat /\ m \in Mandates
  BY Entry, ReentryAssumption
<1>2. t \in Seq(Steps)
  <2>1. /\ [do |-> "lock", id |-> m] \in Steps
        /\ [do |-> "burn", nonce |-> x] \in Steps
        /\ [do |-> "call", id |-> m, amount |-> n, nonce |-> x] \in Steps
        /\ [do |-> "unlock", id |-> m] \in Steps
    BY <1>1 DEF Steps
  <2> QED
    BY <2>1 DEF ExecuteSteps
<1>3. Requesting(t, s, s)
  BY DEF Requesting
<1>4. Holds(t) = {} /\ Burnt(t) = {}
  BY DEF ExecuteSteps, Holds, Burnt
<1>5. (\A k : BooksOf(t, s, s, k)) /\ Settles(t, s)
  BY <1>1, <1>3, RequestOwesNothing
<1>6. Level(t, s, s) /\ Keeps(t, s)
  BY <1>3, <1>4, <1>5 DEF Level, Keeps
<1> QED
  BY <1>1, <1>2, <1>5, <1>6, Call

-----------------------------------------------------------------------------
(* A capture begins. *)

\* An order of a finite set names each member once.
LEMMA OrderOfSet ==
  ASSUME NEW S, IsFiniteSet(S), NEW list \in SetToSeqs(S)
  PROVE  /\ list \in Seq(S) /\ DOMAIN list = 1 .. Len(list) /\ Len(list) \in Nat
         /\ \A i \in DOMAIN list : list[i] \in S
         /\ \A i, j \in DOMAIN list : list[i] = list[j] => i = j
         /\ \A m \in S : \E i \in DOMAIN list : list[i] = m
<1> PICK n : n = Cardinality(S)
  OBVIOUS
<1>1. n \in Nat
  BY FS_CardinalityType
<1>2. list \in [1 .. n -> S] /\ \A i, j \in 1 .. n : i # j => list[i] # list[j]
  BY DEF SetToSeqs
<1>3. list \in Seq(S) /\ Len(list) = n
  BY <1>1, <1>2
<1>4. IsFiniteSet(1 .. n) /\ Cardinality(1 .. n) = n
  BY <1>1, FS_Interval
<1>5. list \in Injection(1 .. n, S)
  BY <1>2 DEF Injection, IsInjective
<1>6. list \in Surjection(1 .. n, S)
  BY <1>4, <1>5, FS_Injection
<1>7. \A m \in S : \E i \in 1 .. n : list[i] = m
  BY <1>6 DEF Surjection
<1> QED
  BY <1>1, <1>2, <1>3, <1>7

\* The steps of a capture: every member listed, those that pay and those that
\* are let go, then the transfers.
InCapture(t, listed, eligible, a) ==
  /\ a <= Len(t) - 1
  /\ \A i \in 2 .. a + 1 :
       /\ t[i].id \in listed /\ t[i].amount = PoolLegs[t[i].id]
       /\ t[i].do = IF t[i].id \in eligible THEN "charge" ELSE "release"
  /\ \A i \in a + 2 .. Len(t) :
       /\ t[i].id \in eligible /\ t[i].amount = PoolLegs[t[i].id]
       /\ t[i].do = "transfer"
  /\ \A i, j \in 2 .. a + 1 : t[i].id = t[j].id => i = j
  /\ \A i, j \in a + 2 .. Len(t) : t[i].id = t[j].id => i = j
  /\ \A m \in listed : \E i \in 2 .. a + 1 : t[i].id = m
  /\ \A m \in eligible : \E i \in a + 2 .. Len(t) : t[i].id = m

\* What a capture has to do, step by step.
LEMMA CaptureList ==
  ASSUME NEW listed, NEW eligible, listed \subseteq Committed, eligible \subseteq listed,
         NEW list \in SetToSeqs(listed), NEW legs \in SetToSeqs(eligible),
         NEW t, t = CaptureSteps(list, legs)
  PROVE  /\ t \in Seq(Steps) /\ DOMAIN t = 1 .. Len(t) /\ Len(t) \in Nat /\ Len(t) >= 1
         /\ t[1] = [do |-> "close"]
         /\ \E a \in Nat : InCapture(t, listed, eligible, a)
<1>1. IsFiniteSet(listed) /\ IsFiniteSet(eligible)
  BY ReentryAssumption, FS_Subset
<1>2. \A m \in Committed : m \in Mandates /\ PoolLegs[m] \in Nat
  BY ReentryAssumption
<1> PICK a, b : a = Len(list) /\ b = Len(legs)
  OBVIOUS
<1>3. /\ a \in Nat /\ DOMAIN list = 1 .. a
      /\ \A i \in 1 .. a : list[i] \in listed
      /\ \A i, j \in 1 .. a : list[i] = list[j] => i = j
      /\ \A m \in listed : \E i \in 1 .. a : list[i] = m
  <2>1. /\ DOMAIN list = 1 .. Len(list) /\ Len(list) \in Nat
        /\ \A i \in DOMAIN list : list[i] \in listed
        /\ \A i, j \in DOMAIN list : list[i] = list[j] => i = j
        /\ \A m \in listed : \E i \in DOMAIN list : list[i] = m
    BY <1>1, OrderOfSet
  <2> QED
    BY <2>1
<1>4. /\ b \in Nat /\ DOMAIN legs = 1 .. b
      /\ \A i \in 1 .. b : legs[i] \in eligible
      /\ \A i, j \in 1 .. b : legs[i] = legs[j] => i = j
      /\ \A m \in eligible : \E i \in 1 .. b : legs[i] = m
  <2>1. /\ DOMAIN legs = 1 .. Len(legs) /\ Len(legs) \in Nat
        /\ \A i \in DOMAIN legs : legs[i] \in eligible
        /\ \A i, j \in DOMAIN legs : legs[i] = legs[j] => i = j
        /\ \A m \in eligible : \E i \in DOMAIN legs : legs[i] = m
    BY <1>1, OrderOfSet
  <2> QED
    BY <2>1
<1>5. \A m : m \in Range(legs) <=> m \in eligible
  BY <1>4 DEF Range
<1> PICK c, u, v : c = << [do |-> "close"] >> /\ u = MemberSteps(list, legs) /\ v = TransferSteps(legs)
  OBVIOUS
<1>6. c \in Seq(Steps) /\ Len(c) = 1 /\ c[1] = [do |-> "close"]
  <2>1. [do |-> "close"] \in Steps
    BY DEF Steps
  <2> QED
    BY <2>1
<1>7. /\ u \in Seq(Steps) /\ Len(u) = a
      /\ \A i \in 1 .. a : /\ u[i].id = list[i] /\ u[i].amount = PoolLegs[list[i]]
                           /\ u[i].do = IF list[i] \in eligible THEN "charge" ELSE "release"
  <2>1. u = [i \in 1 .. a |-> [do |-> IF list[i] \in Range(legs) THEN "charge" ELSE "release",
                               id |-> list[i], amount |-> PoolLegs[list[i]]]]
    BY <1>3 DEF MemberSteps
  <2>2. ASSUME NEW i \in 1 .. a
        PROVE  /\ u[i].id = list[i] /\ u[i].amount = PoolLegs[list[i]]
               /\ u[i].do = IF list[i] \in eligible THEN "charge" ELSE "release"
               /\ u[i] \in Steps
    <3> PICK w : w = IF list[i] \in Range(legs) THEN "charge" ELSE "release"
      OBVIOUS
    <3>1. w = IF list[i] \in eligible THEN "charge" ELSE "release"
      BY <1>5
    <3>2. u[i] = [do |-> w, id |-> list[i], amount |-> PoolLegs[list[i]]]
      BY <2>1
    <3>3. list[i] \in Mandates /\ PoolLegs[list[i]] \in Nat
      BY <1>2, <1>3
    <3>4. u[i] \in Steps
      BY <3>1, <3>2, <3>3 DEF Steps
    <3> QED
      BY <3>1, <3>2, <3>4
  <2>3. u \in [1 .. a -> Steps]
    BY <2>1, <2>2
  <2> QED
    BY <1>3, <2>2, <2>3
<1>8. /\ v \in Seq(Steps) /\ Len(v) = b
      /\ \A i \in 1 .. b : /\ v[i].id = legs[i] /\ v[i].amount = PoolLegs[legs[i]]
                           /\ v[i].do = "transfer"
  <2>1. v = [i \in 1 .. b |-> [do |-> "transfer", id |-> legs[i], amount |-> PoolLegs[legs[i]]]]
    BY <1>4 DEF TransferSteps
  <2>2. ASSUME NEW i \in 1 .. b
        PROVE  /\ v[i].id = legs[i] /\ v[i].amount = PoolLegs[legs[i]]
               /\ v[i].do = "transfer" /\ v[i] \in Steps
    <3>1. v[i] = [do |-> "transfer", id |-> legs[i], amount |-> PoolLegs[legs[i]]]
      BY <2>1
    <3>2. legs[i] \in Mandates /\ PoolLegs[legs[i]] \in Nat
      BY <1>2, <1>4
    <3>3. v[i] \in Steps
      BY <3>1, <3>2 DEF Steps
    <3> QED
      BY <3>1, <3>3
  <2>3. v \in [1 .. b -> Steps]
    BY <2>1, <2>2
  <2> QED
    BY <1>4, <2>2, <2>3
<1> PICK d : d = c \o u
  OBVIOUS
<1>9. /\ d \in Seq(Steps) /\ Len(d) = 1 + a /\ d[1] = [do |-> "close"]
      /\ \A i \in 2 .. a + 1 : d[i] = u[i - 1]
  BY <1>3, <1>6, <1>7, ConcatProperties
<1>10. t = d \o v
  BY DEF CaptureSteps
<1>11. /\ t \in Seq(Steps) /\ Len(t) = (1 + a) + b /\ t[1] = [do |-> "close"]
       /\ \A i \in 1 .. a + 1 : t[i] = d[i]
       /\ \A i \in a + 2 .. Len(t) : t[i] = v[i - (a + 1)]
  <2>1. /\ t \in Seq(Steps) /\ Len(t) = Len(d) + Len(v)
        /\ \A i \in 1 .. Len(t) : t[i] = IF i <= Len(d) THEN d[i] ELSE v[i - Len(d)]
    <3>1. /\ d \o v \in Seq(Steps) /\ Len(d \o v) = Len(d) + Len(v)
          /\ \A i \in 1 .. Len(d) + Len(v) :
               (d \o v)[i] = IF i <= Len(d) THEN d[i] ELSE v[i - Len(d)]
      <4>1. d \in Seq(Steps) /\ v \in Seq(Steps)
        BY <1>8, <1>9
      <4> QED
        BY <4>1, ConcatProperties
    <3> QED
      BY <1>10, <3>1
  <2>2. Len(d) = a + 1 /\ Len(t) = (1 + a) + b
    BY <1>3, <1>4, <1>8, <1>9, <2>1
  <2>3. \A i \in 1 .. a + 1 : i \in 1 .. Len(t) /\ i <= a + 1
    BY <1>3, <1>4, <2>2
  <2>4. \A i \in a + 2 .. Len(t) : i \in 1 .. Len(t) /\ ~(i <= a + 1)
    BY <1>3, <1>4, <2>2
  <2>5. 1 \in 1 .. a + 1
    BY <1>3
  <2>6. \A i \in 1 .. a + 1 : t[i] = d[i]
    BY <2>1, <2>2, <2>3
  <2>7. \A i \in a + 2 .. Len(t) : t[i] = v[i - (a + 1)]
    BY <2>1, <2>2, <2>4
  <2> QED
    BY <1>9, <2>1, <2>2, <2>5, <2>6, <2>7
<1>12. \A i \in 2 .. a + 1 : i - 1 \in 1 .. a /\ i \in 1 .. a + 1 /\ t[i] = u[i - 1]
  <2> TAKE i \in 2 .. a + 1
  <2>1. i - 1 \in 1 .. a /\ i \in 1 .. a + 1
    BY <1>3
  <2> QED
    BY <1>9, <1>11, <2>1
<1>13. \A i \in a + 2 .. Len(t) : i - (a + 1) \in 1 .. b /\ t[i] = v[i - (a + 1)]
  <2> TAKE i \in a + 2 .. Len(t)
  <2>1. i - (a + 1) \in 1 .. b
    BY <1>3, <1>4, <1>11
  <2> QED
    BY <1>11, <2>1
<1>14. DOMAIN t = 1 .. Len(t) /\ Len(t) \in Nat /\ Len(t) >= 1 /\ a <= Len(t) - 1
  BY <1>3, <1>4, <1>11
<1>15. \A i \in 2 .. a + 1 :
         /\ t[i].id \in listed /\ t[i].amount = PoolLegs[t[i].id]
         /\ t[i].do = IF t[i].id \in eligible THEN "charge" ELSE "release"
  <2> TAKE i \in 2 .. a + 1
  <2>1. i - 1 \in 1 .. a /\ t[i] = u[i - 1]
    BY <1>12
  <2>2. /\ t[i].id = list[i - 1] /\ t[i].amount = PoolLegs[list[i - 1]]
        /\ t[i].do = IF list[i - 1] \in eligible THEN "charge" ELSE "release"
    BY <1>7, <2>1
  <2>3. list[i - 1] \in listed
    BY <1>3, <2>1
  <2> QED
    BY <2>2, <2>3
<1>16. \A i \in a + 2 .. Len(t) :
         /\ t[i].id \in eligible /\ t[i].amount = PoolLegs[t[i].id]
         /\ t[i].do = "transfer"
  BY <1>4, <1>8, <1>13
<1>17. \A i, j \in 2 .. a + 1 : t[i].id = t[j].id => i = j
  <2> TAKE i, j \in 2 .. a + 1
  <2>1. /\ i - 1 \in 1 .. a /\ t[i].id = list[i - 1]
        /\ j - 1 \in 1 .. a /\ t[j].id = list[j - 1]
    BY <1>7, <1>12
  <2>2. ASSUME t[i].id = t[j].id  PROVE i - 1 = j - 1
    <3>1. list[i - 1] = list[j - 1]
      BY <2>1, <2>2
    <3> QED
      BY <1>3, <2>1, <3>1
  <2> QED
    BY <1>3, <2>2
<1>18. \A i, j \in a + 2 .. Len(t) : t[i].id = t[j].id => i = j
  <2> TAKE i, j \in a + 2 .. Len(t)
  <2>1. /\ i - (a + 1) \in 1 .. b /\ t[i].id = legs[i - (a + 1)]
        /\ j - (a + 1) \in 1 .. b /\ t[j].id = legs[j - (a + 1)]
    BY <1>8, <1>13
  <2>2. ASSUME t[i].id = t[j].id  PROVE i - (a + 1) = j - (a + 1)
    <3>1. legs[i - (a + 1)] = legs[j - (a + 1)]
      BY <2>1, <2>2
    <3> QED
      BY <1>4, <2>1, <3>1
  <2> QED
    BY <1>3, <2>2
<1>19. \A m \in listed : \E i \in 2 .. a + 1 : t[i].id = m
  <2> TAKE m \in listed
  <2>1. PICK i \in 1 .. a : list[i] = m
    BY <1>3
  <2>2. i + 1 \in 2 .. a + 1 /\ (i + 1) - 1 = i
    BY <1>3
  <2> QED
    BY <1>7, <1>12, <2>1, <2>2
<1>20. \A m \in eligible : \E i \in a + 2 .. Len(t) : t[i].id = m
  <2> TAKE m \in eligible
  <2>1. PICK i \in 1 .. b : legs[i] = m
    BY <1>4
  <2>2. i + (a + 1) \in a + 2 .. Len(t) /\ (i + (a + 1)) - (a + 1) = i
    BY <1>3, <1>4, <1>11
  <2> QED
    BY <1>8, <1>13, <2>1, <2>2
<1>21. InCapture(t, listed, eligible, a)
  BY <1>14, <1>15, <1>16, <1>17, <1>18, <1>19, <1>20 DEF InCapture
<1> QED
  BY <1>3, <1>11, <1>14, <1>21

\* A capture is begun: its list and the members that pay are those of the
\* pool as it is.
LEMMA CaptureCall ==
  ASSUME NEW frames, NEW s, Inv(frames, s), NEW l, l = Len(frames),
         l > 0 => Waiting(frames[l].todo),
         NEW listed, NEW eligible,
         listed = {m \in Committed : s.rows[m].pool_state = "Committed"},
         eligible \subseteq listed,
         NEW list \in SetToSeqs(listed), NEW legs \in SetToSeqs(eligible),
         NEW frames2,
         frames2 = Append(frames, [todo |-> CaptureSteps(list, legs), saved |-> s])
  PROVE  Inv(frames2, s)
<1> PICK t : t = CaptureSteps(list, legs)
  OBVIOUS
<1>1. s \in Stores /\ Quiet(s) /\ Sound(s)
  BY Entry
<1>2. listed \subseteq Committed
  OBVIOUS
<1>3. /\ t \in Seq(Steps) /\ DOMAIN t = 1 .. Len(t) /\ Len(t) \in Nat /\ Len(t) >= 1
      /\ t[1] = [do |-> "close"]
  BY <1>2, CaptureList
<1>4a. PICK a \in Nat : InCapture(t, listed, eligible, a)
  BY <1>2, CaptureList
<1>4. /\ a <= Len(t) - 1
      /\ \A i \in 2 .. a + 1 :
           /\ t[i].id \in listed /\ t[i].amount = PoolLegs[t[i].id]
           /\ t[i].do = IF t[i].id \in eligible THEN "charge" ELSE "release"
      /\ \A i \in a + 2 .. Len(t) :
           /\ t[i].id \in eligible /\ t[i].amount = PoolLegs[t[i].id]
           /\ t[i].do = "transfer"
      /\ \A i, j \in 2 .. a + 1 : t[i].id = t[j].id => i = j
      /\ \A i, j \in a + 2 .. Len(t) : t[i].id = t[j].id => i = j
      /\ \A m \in listed : \E i \in 2 .. a + 1 : t[i].id = m
      /\ \A m \in eligible : \E i \in a + 2 .. Len(t) : t[i].id = m
  BY <1>4a DEF InCapture
<1>5. /\ \A i \in DOMAIN t : i = 1 \/ i \in 2 .. a + 1 \/ i \in a + 2 .. Len(t)
      /\ \A i \in 2 .. a + 1 : i \in DOMAIN t
      /\ \A i \in a + 2 .. Len(t) : i \in DOMAIN t
  BY <1>3, <1>4
<1>6. /\ \A i \in 2 .. a + 1 : t[i].do \in {"charge", "release"}
      /\ \A i \in a + 2 .. Len(t) : t[i].do = "transfer"
      /\ t[1].do = "close"
  BY <1>3, <1>4
<1>7. Members(t) = 2 .. a + 1
  <2>1. \A i \in DOMAIN t : t[i].do \in {"charge", "release"} => i \in 2 .. a + 1
    BY <1>5, <1>6
  <2> QED
    BY <1>5, <1>6, <2>1 DEF Members
<1>8. Transfers(t) = a + 2 .. Len(t)
  <2>1. \A i \in DOMAIN t : t[i].do = "transfer" => i \in a + 2 .. Len(t)
    BY <1>5, <1>6
  <2> QED
    BY <1>5, <1>6, <2>1 DEF Transfers
<1>9. Closing(t)
  BY <1>3 DEF Closing
<1>10. Collecting(t, s)
  <2>1. \A i \in DOMAIN t :
          /\ t[i].do \in {"close", "charge", "release", "transfer", "moved"}
          /\ t[i].do \in {"close", "moved"} => i = 1
    BY <1>5, <1>6
  <2>2. \A i, j \in DOMAIN t :
          i < j /\ t[i].do \in {"transfer", "moved"} => t[j].do = "transfer"
    <3> SUFFICES ASSUME NEW i \in DOMAIN t, NEW j \in DOMAIN t, i < j,
                        t[i].do \in {"transfer", "moved"}
                 PROVE  t[j].do = "transfer"
      OBVIOUS
    <3>1. i \in a + 2 .. Len(t)
      BY <1>5, <1>6
    <3>2. j \in a + 2 .. Len(t)
      BY <1>3, <3>1
    <3> QED
      BY <1>6, <3>2
  <2>3. \A i, j \in Transfers(t) : t[i].id = t[j].id => i = j
    BY <1>4, <1>8
  <2>4. \A i, j \in Members(t) : t[i].id = t[j].id => i = j
    BY <1>4, <1>7
  <2>5. ASSUME NEW i \in Members(t)
        PROVE  /\ s.rows[t[i].id].pool_state = "Committed"
               /\ t[i].do = "charge" =>
                    \E j \in Transfers(t) : t[j].id = t[i].id /\ t[j].amount = t[i].amount
    <3>1. /\ t[i].id \in listed /\ t[i].amount = PoolLegs[t[i].id]
          /\ t[i].do = IF t[i].id \in eligible THEN "charge" ELSE "release"
      BY <1>4, <1>7
    <3>2. ASSUME t[i].do = "charge"
          PROVE  \E j \in Transfers(t) : t[j].id = t[i].id /\ t[j].amount = t[i].amount
      <4>1. t[i].id \in eligible
        BY <3>1, <3>2
      <4>2. PICK j \in a + 2 .. Len(t) : t[j].id = t[i].id
        BY <1>4, <4>1
      <4>3. t[j].amount = PoolLegs[t[j].id] /\ j \in Transfers(t)
        BY <1>4, <1>8, <4>2
      <4> QED
        BY <3>1, <4>2, <4>3
    <3> QED
      BY <3>1, <3>2
  <2> QED
    BY <1>9, <2>1, <2>2, <2>3, <2>4, <2>5 DEF Collecting
<1>11. Holds(t) = {} /\ Burnt(t) = {}
  BY <1>10, CollectingIsFree
<1>12. \A k \in Mandates : BooksOf(t, s, s, k)
  <2> TAKE k \in Mandates
  <2>1. ASSUME NEW i \in Transfers(t), t[i].id = k
        PROVE  Uncharged(t, k)
    <3>1. k \in eligible /\ k \in listed
      BY <1>4, <1>8, <2>1
    <3>2. PICK j \in 2 .. a + 1 : t[j].id = k
      BY <1>4, <3>1
    <3>3. t[j].do = "charge" /\ j \in DOMAIN t
      BY <1>4, <1>5, <3>1, <3>2
    <3> QED
      BY <3>2, <3>3 DEF Uncharged
  <2> QED
    BY <2>1 DEF BooksOf
<1>13. Level(t, s, s) /\ Keeps(t, s)
  BY <1>10, <1>11, <1>12 DEF Level, Keeps
<1>14. Settles(t, s)
  <2> SUFFICES ASSUME NEW m \in Mandates, s.rows[m].pool_state = "Committed"
               PROVE  \E i \in Members(t) : t[i].id = m
    BY DEF Settles
  <2>1. m \in listed
    BY <1>1 DEF Sound
  <2> QED
    BY <1>4, <1>7, <2>1
<1> QED
  BY <1>1, <1>3, <1>13, <1>14, Call

-----------------------------------------------------------------------------
(* The invariant is inductive: one lemma for each action. *)

\* The state in which a step of the frame on top, or a call, is taken.
LEMMA TopOfStack ==
  ASSUME IInv
  PROVE  /\ Inv(stack, store) /\ Len(stack) \in Nat /\ stack \in Seq(Frames)
         /\ store \in Stores
         /\ Running <=> Len(stack) > 0
<1>1. Inv(stack, store) /\ stack \in Seq(Frames) /\ store \in Stores
  BY DEF IInv, Inv
<1>2. stack # <<>> => Len(stack) \in Nat \ {0}
  BY <1>1, EmptySeq
<1>3. Len(stack) \in Nat /\ (stack = <<>> => Len(stack) = 0)
  BY <1>1
<1> QED
  BY <1>1, <1>2, <1>3 DEF Running

LEMMA TopTurn ==
  ASSUME IInv, Running, Top.todo # <<>>
  PROVE  /\ Turn(Top.todo, Top.saved, store) /\ Keeps(Top.todo, store)
         /\ Top.todo \in Seq(Steps) /\ Step = Top.todo[1] /\ Step \in Steps
         /\ Sound(store) /\ Len(stack) > 0
<1>1. Inv(stack, store) /\ Len(stack) > 0
  BY TopOfStack
<1>2. Turn(Top.todo, Top.saved, store) /\ Keeps(Top.todo, store) /\ Sound(store)
  BY <1>1, OnTop DEF Top
<1>3. Top.todo \in Seq(Steps)
  BY <1>2 DEF Turn
<1>4. Head(Top.todo) = Top.todo[1] /\ Top.todo[1] \in Steps
  BY <1>3, TailOf
<1> QED
  BY <1>1, <1>2, <1>3, <1>4 DEF Step

\* Whoever calls finds a stack on which everybody waits.
LEMMA CallersWait ==
  ASSUME IInv, MayCall
  PROVE  /\ Inv(stack, store) /\ Len(stack) \in Nat /\ store \in Stores
         /\ Len(stack) > 0 => Waiting(stack[Len(stack)].todo)
<1>1. Len(stack) > 0 => InToken /\ Running
  BY TopOfStack DEF MayCall
<1>2. ASSUME InToken, Running
      PROVE  Waiting(Top.todo)
  <2>1. Top.todo # <<>> /\ Step.do \in {"transfer", "moved"}
    BY <1>2 DEF InToken, Does
  <2>2. Step = Top.todo[1]
    BY <1>2, <2>1, TopTurn
  <2> QED
    BY <2>1, <2>2 DEF Waiting
<1> QED
  BY <1>1, <1>2, TopOfStack DEF Top

LEMMA ProceedKeeps ==
  ASSUME IInv, Proceed
  PROVE  IInv'
<1>1. Running /\ Top.todo # <<>>
  BY DEF Proceed, Does
<1>2. /\ Turn(Top.todo, Top.saved, store) /\ Keeps(Top.todo, store)
      /\ Step = Top.todo[1] /\ Len(stack) > 0
  BY <1>1, TopTurn
<1>3. Step.do \in {"write", "close", "charge", "release", "lock", "burn", "unlock"}
  BY DEF Proceed, Does
<1>4. Step.do = "charge" /\ store.rows[Step.id].pool_state = "Committed" =>
        store.rows[Step.id].spent + Step.amount <= MaxAmount
  <2> SUFFICES ASSUME Step.do = "charge", store.rows[Step.id].pool_state = "Committed"
               PROVE  store.rows[Step.id].spent + Step.amount <= MaxAmount
    OBVIOUS
  <2>1. ~(store.rows[Step.id].spent + Step.amount > MaxAmount)
    BY <1>1 DEF Proceed, Overcharges, Does
  <2>2. Step \in Steps /\ store \in Stores
    BY <1>1, TopTurn, TopOfStack
  <2>3. Step.id \in Mandates /\ Step.amount \in Nat
    BY <2>2 DEF Steps
  <2>4. store.rows[Step.id].spent \in Nat
    BY <2>2, <2>3, StoreTypes
  <2> QED
    BY <2>1, <2>3, <2>4, ReentryAssumption
<1>5. /\ store' = Effect(store, Step)
      /\ stack' = [stack EXCEPT ![Len(stack)].todo = Tail(Top.todo)]
  BY DEF Proceed, NextStep, TodoBecomes
<1>6. /\ Done(Tail(Top.todo), Top.saved, store')
      /\ Keeps(Tail(Top.todo), store') /\ Spares(Top.saved, store, store')
  BY <1>2, <1>3, <1>4, <1>5, EffectDone
<1>7. Inv(stack', store')
  BY <1>2, <1>5, <1>6, TopOfStack, GoesOn DEF Top
<1> QED
  BY <1>7 DEF IInv

LEMMA CallRegistryKeeps ==
  ASSUME IInv, CallRegistry
  PROVE  IInv'
<1>1. Running /\ Top.todo # <<>> /\ Step.do = "call"
  BY DEF CallRegistry, Does
<1>2. /\ Turn(Top.todo, Top.saved, store) /\ Keeps(Top.todo, store)
      /\ Step = Top.todo[1] /\ Len(stack) > 0
  BY <1>1, TopTurn
<1> PICK r, mid : /\ r = <<[Step EXCEPT !.do = "called"]>> \o Tail(Top.todo)
                  /\ mid = [stack EXCEPT ![Len(stack)].todo = r]
  OBVIOUS
<1>3. /\ Done(r, Top.saved, store) /\ Keeps(r, store) /\ Waiting(r)
      /\ Step.id \in Mandates /\ Step.amount \in Amounts
  BY <1>1, <1>2, CallDone
<1>4. Spares(Top.saved, store, store)
  BY DEF Spares
<1>5. Inv(mid, store)
  BY <1>2, <1>3, <1>4, TopOfStack, GoesOn DEF Top
<1>6. Len(mid) = Len(stack) /\ mid[Len(stack)].todo = r
  <2>1. stack \in Seq(Frames) /\ Len(stack) \in 1 .. Len(stack) /\ DOMAIN stack = 1 .. Len(stack)
    BY <1>2, TopOfStack
  <2>2. stack[Len(stack)] \in Frames
    BY <2>1
  <2> QED
    BY <2>1, <2>2 DEF Frames
<1>7. store.rows[Step.id].spent + Step.amount <= MaxAmount
  <2>1. Step.amount <= MaxAmount - store.rows[Step.id].spent
    BY DEF CallRegistry, Payable
  <2>2. store.rows[Step.id].spent \in Nat /\ Step.amount \in Nat /\ MaxAmount \in Nat
    BY <1>3, TopOfStack, StoreTypes, ReentryAssumption
  <2> QED
    BY <2>1, <2>2
<1>8. stack' = Append(mid, [todo |-> PaySteps(Step.id, Step.amount, store.rows[Step.id]),
                            saved |-> store])
  <2>1. stack' = Append([stack EXCEPT ![Len(stack)].todo =
                           <<[Step EXCEPT !.do = "called"]>> \o Tail(@)],
                   [todo |-> PaySteps(Step.id, Step.amount, store.rows[Step.id]),
                    saved |-> store])
    BY DEF CallRegistry
  <2>2. [stack EXCEPT ![Len(stack)].todo = <<[Step EXCEPT !.do = "called"]>> \o Tail(@)]
          = mid
    BY DEF Top
  <2> QED
    BY <2>1, <2>2
<1>9. Inv(stack', store)
  BY <1>3, <1>5, <1>6, <1>7, <1>8, PayCall
<1> QED
  BY <1>9 DEF IInv, CallRegistry

LEMMA RegistryReturnedKeeps ==
  ASSUME IInv, RegistryReturned
  PROVE  IInv'
<1>1. Running /\ Top.todo # <<>> /\ Step.do = "called"
  BY DEF RegistryReturned, Does
<1>2. /\ Turn(Top.todo, Top.saved, store) /\ Keeps(Top.todo, store)
      /\ Step = Top.todo[1] /\ Len(stack) > 0
  BY <1>1, TopTurn
<1>3. /\ store' = [store EXCEPT !.served[Top.todo[1].nonce] = @ + 1]
      /\ stack' = [stack EXCEPT ![Len(stack)].todo = Tail(Top.todo)]
  BY <1>2 DEF RegistryReturned, NextStep, TodoBecomes
<1>4. /\ Done(Tail(Top.todo), Top.saved, store')
      /\ Keeps(Tail(Top.todo), store') /\ Spares(Top.saved, store, store')
  BY <1>1, <1>2, <1>3, CalledDone
<1>5. Inv(stack', store')
  BY <1>2, <1>3, <1>4, TopOfStack, GoesOn DEF Top
<1> QED
  BY <1>5 DEF IInv

LEMMA TransferKeeps ==
  ASSUME IInv, Transfer
  PROVE  IInv'
<1>1. Running /\ Top.todo # <<>> /\ Step.do = "transfer"
  BY DEF Transfer, Does
<1>2. /\ Turn(Top.todo, Top.saved, store)
      /\ Step = Top.todo[1] /\ Len(stack) > 0
  BY <1>1, TopTurn
<1> PICK r : r = << [do |-> "moved"] >> \o Tail(Top.todo)
  OBVIOUS
<1>3. /\ store' = [store EXCEPT !.moved[Top.todo[1].id] = @ + Top.todo[1].amount]
      /\ stack' = [stack EXCEPT ![Len(stack)].todo = r]
  BY <1>2 DEF Transfer, TodoBecomes
<1>4. /\ Done(r, Top.saved, store') /\ store'.executing = store.executing
      /\ store'.consumed = store.consumed /\ store'.served = store.served
  <2>1. LET s2 == [store EXCEPT !.moved[Top.todo[1].id] = @ + Top.todo[1].amount]
        IN  /\ Done(<< [do |-> "moved"] >> \o Tail(Top.todo), Top.saved, s2)
            /\ s2.executing = store.executing
            /\ s2.consumed = store.consumed /\ s2.served = store.served
    BY <1>1, <1>2, TransferDone
  <2> QED
    BY <1>3, <2>1
<1>5. Collecting(Top.todo, store)
  BY <1>1, <1>2, ShapeOfTurn
<1>6. Keeps(r, store') /\ Spares(Top.saved, store, store')
  BY <1>2, <1>4, <1>5, FreeStep
<1>7. Inv(stack', store')
  BY <1>2, <1>3, <1>4, <1>6, TopOfStack, GoesOn DEF Top
<1> QED
  BY <1>7 DEF IInv

LEMMA TransferReturnedKeeps ==
  ASSUME IInv, TransferReturned
  PROVE  IInv'
<1>1. Running /\ Top.todo # <<>> /\ Step.do = "moved"
  BY DEF TransferReturned, Does
<1>2. /\ Turn(Top.todo, Top.saved, store)
      /\ Step = Top.todo[1] /\ Len(stack) > 0
  BY <1>1, TopTurn
<1>3. /\ store' = store
      /\ stack' = [stack EXCEPT ![Len(stack)].todo = Tail(Top.todo)]
  BY DEF TransferReturned, NextStep, TodoBecomes
<1>4. Done(Tail(Top.todo), Top.saved, store)
  BY <1>1, <1>2, MovedDone
<1>5. Collecting(Top.todo, store)
  BY <1>1, <1>2, ShapeOfTurn
<1>6. Keeps(Tail(Top.todo), store) /\ Spares(Top.saved, store, store)
  BY <1>2, <1>4, <1>5, FreeStep
<1>7. Inv(stack', store)
  BY <1>2, <1>3, <1>4, <1>6, TopOfStack, GoesOn DEF Top
<1> QED
  BY <1>3, <1>7 DEF IInv

LEMMA ReturnKeeps ==
  ASSUME IInv, Return
  PROVE  IInv'
<1> PICK n : n = Len(stack)
  OBVIOUS
<1>1. /\ Inv(stack, store) /\ stack \in Seq(Frames) /\ store \in Stores
      /\ n \in Nat /\ n > 0 /\ Running /\ stack[n].todo = <<>>
  BY TopOfStack DEF Return, Top
<1>2. stack' = SubSeq(stack, 1, n - 1) /\ store' = store
  BY DEF Return, Front
<1>3. /\ n \in 1 .. Len(stack) /\ n - 1 \in 0 .. Len(stack)
      /\ n + 1 \in 1 .. Len(stack) + 1
      /\ Found(stack, store, n) = stack[n].saved /\ Found(stack, store, n + 1) = store
  BY <1>1 DEF Found
<1>4. Level(<<>>, stack[n].saved, store) /\ Quiet(stack[n].saved)
  BY <1>1, <1>3, AtLevel
<1>5. Transfers(<<>>) = {} /\ Holds(<<>>) = {}
  BY DEF Transfers, Holds
<1>6. /\ \A m \in Mandates : Debt(store, m) = Debt(stack[n].saved, m)
      /\ store.executing = stack[n].saved.executing
  BY <1>4, <1>5 DEF Level, BooksOf
<1>7. Sound(store)
  <2>1. Sound(Found(stack, store, n + 1))
    BY <1>1, <1>3 DEF Inv
  <2> QED
    BY <1>3, <2>1
<1>8. Quiet(store)
  <2>1. stack # <<>>
    BY <1>1 DEF Running
  <2>2. Settles(stack[n].todo, store)
    BY <1>1, <2>1 DEF Inv
  <2> QED
    BY <1>1, <2>2 DEF Quiet
<1>9. \A k \in 1 .. n - 1 : Keeps(stack[k].todo, store)
  <2> TAKE k \in 1 .. n - 1
  <2>1. k \in 1 .. Len(stack) /\ n + 1 \in k + 1 .. Len(stack) + 1
    BY <1>1
  <2> QED
    BY <1>1, <1>3, <2>1, AtLevel
<1>10. n - 1 = 0 => Balanced(store) /\ Quiet(store)
  <2>1. n - 1 = 0 => n = 1
    <3>1. n \in Nat
      BY <1>1
    <3>2. \A i \in Nat : i - 1 = 0 => i = 1
      OBVIOUS
    <3> QED
      BY <3>1, <3>2
  <2>2. n = 1 => Balanced(stack[n].saved)
    BY <1>1, <1>3 DEF Inv
  <2> QED
    BY <1>6, <1>8, <2>1, <2>2 DEF Balanced
<1>11. n - 1 > 0 => /\ Level(stack[n - 1].todo, stack[n - 1].saved, store)
                    /\ Settles(stack[n - 1].todo, store)
  <2> SUFFICES ASSUME n - 1 > 0
               PROVE  /\ Level(stack[n - 1].todo, stack[n - 1].saved, store)
                      /\ Settles(stack[n - 1].todo, store)
    OBVIOUS
  <2>1. n - 1 \in 1 .. Len(stack) /\ n - 1 < Len(stack) /\ (n - 1) + 1 = n
    BY <1>1
  <2>2. /\ Level(stack[n - 1].todo, stack[n - 1].saved, stack[n].saved)
        /\ Waiting(stack[n - 1].todo) /\ stack[n - 1].todo \in Seq(Steps)
    BY <1>1, <1>3, <2>1, AtLevel
  <2>3. Level(stack[n - 1].todo, stack[n - 1].saved, store)
    BY <1>6, <2>2, WaitingLevel
  <2> QED
    BY <1>8, <2>2, <2>3, WaitingIsQuiet
<1>12. Inv(stack', store)
  BY <1>1, <1>2, <1>3, <1>7, <1>9, <1>10, <1>11, Cut
<1> QED
  BY <1>2, <1>12 DEF IInv

LEMMA FailKeeps ==
  ASSUME IInv, Fail
  PROVE  IInv'
<1> PICK f : f = Failing
  OBVIOUS
<1>1. /\ Inv(stack, store) /\ stack \in Seq(Frames) /\ Len(stack) \in Nat
      /\ Running /\ Len(stack) > 0
  BY TopOfStack DEF Fail, InToken, Overcharges, Does
<1>2. f \in 1 .. Len(stack)
  BY <1>1 DEF Failing
<1>3. /\ f - 1 \in 0 .. Len(stack) /\ f \in 1 .. Len(stack) + 1 /\ f \in Nat
      /\ Found(stack, store, f) = stack[f].saved
  BY <1>1, <1>2 DEF Found
<1>4. store' = stack[f].saved /\ stack' = SubSeq(stack, 1, f - 1)
  BY DEF Fail
<1>5. stack[f].saved \in Stores /\ Quiet(stack[f].saved) /\ Sound(stack[f].saved)
  BY <1>1, <1>2, AtLevel
<1>6. \A k \in 1 .. f - 1 : Keeps(stack[k].todo, stack[f].saved)
  <2> TAKE k \in 1 .. f - 1
  <2>1. k \in 1 .. Len(stack) /\ f \in k + 1 .. Len(stack) + 1
    BY <1>1, <1>2
  <2> QED
    BY <1>1, <1>3, <2>1, AtLevel
<1>7. f - 1 = 0 => Balanced(stack[f].saved) /\ Quiet(stack[f].saved)
  <2>1. f - 1 = 0 => f = 1
    BY <1>3
  <2>2. f = 1 => Balanced(stack[f].saved)
    BY <1>1, <1>3 DEF Inv
  <2> QED
    BY <1>5, <2>1, <2>2
<1>8. f - 1 > 0 => /\ Level(stack[f - 1].todo, stack[f - 1].saved, stack[f].saved)
                   /\ Settles(stack[f - 1].todo, stack[f].saved)
  <2> SUFFICES ASSUME f - 1 > 0
               PROVE  /\ Level(stack[f - 1].todo, stack[f - 1].saved, stack[f].saved)
                      /\ Settles(stack[f - 1].todo, stack[f].saved)
    OBVIOUS
  <2>1. f - 1 \in 1 .. Len(stack) /\ f - 1 < Len(stack) /\ (f - 1) + 1 = f
    BY <1>1, <1>2
  <2>2. /\ Level(stack[f - 1].todo, stack[f - 1].saved, stack[f].saved)
        /\ Waiting(stack[f - 1].todo) /\ stack[f - 1].todo \in Seq(Steps)
    BY <1>1, <1>3, <2>1, AtLevel
  <2> QED
    BY <1>5, <2>2, WaitingIsQuiet
<1>9. Inv(stack', stack[f].saved)
  BY <1>1, <1>3, <1>4, <1>5, <1>6, <1>7, <1>8, Cut
<1> QED
  BY <1>4, <1>9 DEF IInv

LEMMA ExecutePaymentKeeps ==
  ASSUME IInv, NEW m \in Mandates, NEW n \in Amounts, ExecutePayment(m, n)
  PROVE  IInv'
<1>1. /\ Inv(stack, store) /\ store \in Stores
      /\ Len(stack) > 0 => Waiting(stack[Len(stack)].todo)
  BY CallersWait DEF ExecutePayment
<1>2. store.rows[m].spent + n <= MaxAmount
  <2>1. n <= MaxAmount - store.rows[m].spent
    BY DEF ExecutePayment, Payable
  <2>2. store.rows[m].spent \in Nat /\ n \in Nat /\ MaxAmount \in Nat
    BY <1>1, StoreTypes, ReentryAssumption
  <2> QED
    BY <2>1, <2>2
<1>3. /\ stack' = Append(stack, [todo |-> PaySteps(m, n, store.rows[m]), saved |-> store])
      /\ store' = store
  BY DEF ExecutePayment, Push
<1>4. Inv(stack', store)
  BY <1>1, <1>2, <1>3, PayCall
<1> QED
  BY <1>3, <1>4 DEF IInv

LEMMA ExecuteKeeps ==
  ASSUME IInv, NEW m \in Policed, NEW n \in Amounts, NEW nonce \in Nonces,
         Execute(m, n, nonce)
  PROVE  IInv'
<1>1. /\ Inv(stack, store)
      /\ Len(stack) > 0 => Waiting(stack[Len(stack)].todo)
  BY CallersWait DEF Execute
<1>2. m \notin store.executing /\ nonce \notin store.consumed
  BY DEF Execute
<1>3. /\ stack' = Append(stack, [todo |-> ExecuteSteps(m, n, nonce), saved |-> store])
      /\ store' = store
  BY DEF Execute, Push
<1>4. Inv(stack', store)
  BY <1>1, <1>2, <1>3, ExecuteCall
<1> QED
  BY <1>3, <1>4 DEF IInv

LEMMA CapturePoolKeeps ==
  ASSUME IInv, CapturePool
  PROVE  IInv'
<1>1. /\ Inv(stack, store)
      /\ Len(stack) > 0 => Waiting(stack[Len(stack)].todo)
  BY CallersWait DEF CapturePool
<1>2. PICK list \in SetToSeqs(Listed), legs \in SetToSeqs(Eligible) :
        stack' = Append(stack, [todo |-> CaptureSteps(list, legs), saved |-> store])
  BY DEF CapturePool, Push
<1>3. Listed = {m \in Committed : store.rows[m].pool_state = "Committed"}
  BY DEF Listed
<1>4. Eligible \subseteq Listed
  BY DEF Eligible
<1>5. Inv(stack', store)
  BY <1>1, <1>2, <1>3, <1>4, CaptureCall
<1> QED
  BY <1>5 DEF IInv, CapturePool

\* A call that changes rows only in their status and pool state.
Rewritten(s, rows, pool) == [s EXCEPT !.rows = rows, !.pool = pool]

LetsGo(s, rows, pool) ==
  /\ rows \in [Mandates -> Row]
  /\ pool \in {"Open", "Cleared", "Aborted"}
  /\ pool = s.pool \/ (s.pool = "Open" /\ pool = "Aborted")
  /\ \A m \in Mandates :
       /\ rows[m].spent = s.rows[m].spent
       /\ rows[m].pool_state \in {s.rows[m].pool_state, "Released"}

LEMMA RowsRewritten ==
  ASSUME NEW s \in Stores, Sound(s), Quiet(s), NEW rows, NEW pool,
         LetsGo(s, rows, pool),
         NEW s2, s2 = Rewritten(s, rows, pool)
  PROVE  /\ s2 \in Stores /\ Sound(s2) /\ Quiet(s2)
         /\ \A m \in Mandates : Debt(s2, m) = Debt(s, m)
         /\ s2.executing = s.executing /\ s2.consumed = s.consumed
         /\ s2.served = s.served
<1>1. /\ s2 \in Stores /\ s2.rows = rows /\ s2.pool = pool
      /\ s2.executing = s.executing /\ s2.consumed = s.consumed
      /\ s2.served = s.served /\ s2.moved = s.moved
  BY DEF Stores, Rewritten, LetsGo
<1>2. Sound(s2)
  BY <1>1 DEF Sound, LetsGo
<1>3. Quiet(s2)
  <2>1. ~Closing(<<>>) /\ Members(<<>>) = {}
    BY DEF Closing, Members
  <2> QED
    BY <1>1, <2>1 DEF Quiet, Settles, LetsGo
<1>4. \A m \in Mandates : Debt(s2, m) = Debt(s, m)
  BY <1>1 DEF Debt, LetsGo
<1> QED
  BY <1>1, <1>2, <1>3, <1>4

LEMMA RevokeMandateKeeps ==
  ASSUME IInv, NEW m \in Mandates, RevokeMandate(m)
  PROVE  IInv'
<1>1. /\ Inv(stack, store) /\ store \in Stores
      /\ Len(stack) > 0 => Waiting(stack[Len(stack)].todo)
  BY CallersWait DEF RevokeMandate
<1>2. Sound(store) /\ Quiet(store)
  BY <1>1, Entry
<1> PICK state : state = IF store.rows[m].pool_state = "Committed" /\ store.pool = "Open"
                         THEN "Released" ELSE store.rows[m].pool_state
  OBVIOUS
<1> PICK row : row = [store.rows[m] EXCEPT !.status = "Revoked", !.pool_state = state]
  OBVIOUS
<1> PICK rows : rows = [store.rows EXCEPT ![m] = row]
  OBVIOUS
<1>3. store.rows \in [Mandates -> Row] /\ store.rows[m] \in Row
  BY <1>1, StoreTypes
<1>4. /\ row \in Row /\ row.spent = store.rows[m].spent
      /\ row.pool_state \in {store.rows[m].pool_state, "Released"}
  BY <1>3 DEF Row
<1>5. /\ rows \in [Mandates -> Row]
      /\ \A k \in Mandates :
           /\ rows[k].spent = store.rows[k].spent
           /\ rows[k].pool_state \in {store.rows[k].pool_state, "Released"}
  BY <1>3, <1>4
<1>6. store.pool \in {"Open", "Cleared", "Aborted"}
  BY <1>1, StoreTypes
<1>7. store' = Rewritten(store, rows, store.pool) /\ stack' = stack
  BY <1>1, <1>3, ZenonT(30) DEF RevokeMandate, Stores, Row, Rewritten
<1>8. /\ store' \in Stores /\ Sound(store') /\ Quiet(store')
      /\ \A k \in Mandates : Debt(store', k) = Debt(store, k)
      /\ store'.executing = store.executing /\ store'.consumed = store.consumed
      /\ store'.served = store.served
  <2>1. LetsGo(store, rows, store.pool)
    <3> PICK pool : pool = store.pool
      OBVIOUS
    <3>1. pool \in {"Open", "Cleared", "Aborted"}
      BY <1>6
    <3>2. rows \in [Mandates -> Row]
      BY <1>5
    <3>3. \A k \in Mandates :
            /\ rows[k].spent = store.rows[k].spent
            /\ rows[k].pool_state \in {store.rows[k].pool_state, "Released"}
      BY <1>5
    <3>4. pool = store.pool \/ (store.pool = "Open" /\ pool = "Aborted")
      OBVIOUS
    <3>5. LetsGo(store, rows, pool)
      BY <3>1, <3>2, <3>3, <3>4, Zenon DEF LetsGo
    <3> QED
      BY <3>5
  <2> QED
    BY <1>1, <1>2, <1>7, <2>1, RowsRewritten
<1>9. Inv(stack, store')
  BY <1>1, <1>8, Undisturbed
<1> QED
  BY <1>7, <1>9 DEF IInv

LEMMA AbortPoolKeeps ==
  ASSUME IInv, AbortPool
  PROVE  IInv'
<1>1. /\ Inv(stack, store) /\ store \in Stores
      /\ Len(stack) > 0 => Waiting(stack[Len(stack)].todo)
  BY CallersWait DEF AbortPool
<1>2. Sound(store) /\ Quiet(store)
  BY <1>1, Entry
<1> PICK rows : rows = [m \in Mandates |->
                          IF store.rows[m].pool_state = "Committed"
                          THEN [store.rows[m] EXCEPT !.pool_state = "Released"]
                          ELSE store.rows[m]]
  OBVIOUS
<1>3. \A k \in Mandates : store.rows[k] \in Row
  BY <1>1, StoreTypes
<1>4. ASSUME NEW k \in Mandates
      PROVE  /\ rows[k] \in Row /\ rows[k].spent = store.rows[k].spent
             /\ rows[k].pool_state \in {store.rows[k].pool_state, "Released"}
  <2>1. store.rows[k] \in Row
    BY <1>3
  <2>2. rows[k] = IF store.rows[k].pool_state = "Committed"
                  THEN [store.rows[k] EXCEPT !.pool_state = "Released"]
                  ELSE store.rows[k]
    OBVIOUS
  <2> QED
    BY <2>1, <2>2 DEF Row
<1>5. rows \in [Mandates -> Row]
  BY <1>4
<1>6. store' = Rewritten(store, rows, "Aborted") /\ stack' = stack
  BY <1>1 DEF AbortPool, Stores, Rewritten
<1>7. store.pool = "Open"
  BY DEF AbortPool
<1>8. /\ store' \in Stores /\ Sound(store') /\ Quiet(store')
      /\ \A k \in Mandates : Debt(store', k) = Debt(store, k)
      /\ store'.executing = store.executing /\ store'.consumed = store.consumed
      /\ store'.served = store.served
  <2>1. LetsGo(store, rows, "Aborted")
    BY <1>4, <1>5, <1>7 DEF LetsGo
  <2> QED
    BY <1>1, <1>2, <1>6, <2>1, RowsRewritten
<1>9. Inv(stack, store')
  BY <1>1, <1>8, Undisturbed
<1> QED
  BY <1>6, <1>9 DEF IInv

LEMMA ReentryStarts ==
  ASSUME ReentryInit
  PROVE  IInv
<1>1. PICK prior \in [Committed -> Priors] :
        store = [rows |-> [m \in Mandates |->
                    [spent |-> IF m \in Committed THEN prior[m] ELSE 0,
                     seq |-> IF (IF m \in Committed THEN prior[m] ELSE 0) > 0 THEN 1 ELSE 0,
                     status |-> "Active",
                     pool_state |-> IF m \in Committed THEN "Committed" ELSE "Unlinked"]],
                 pool |-> "Open", consumed |-> {}, executing |-> {},
                 moved |-> [m \in Mandates |-> IF m \in Committed THEN prior[m] ELSE 0],
                 served |-> [x \in Nonces |-> 0]]
  BY DEF ReentryInit
<1> PICK rows, moved, served :
      /\ rows = [m \in Mandates |->
                    [spent |-> IF m \in Committed THEN prior[m] ELSE 0,
                     seq |-> IF (IF m \in Committed THEN prior[m] ELSE 0) > 0 THEN 1 ELSE 0,
                     status |-> "Active",
                     pool_state |-> IF m \in Committed THEN "Committed" ELSE "Unlinked"]]
      /\ moved = [m \in Mandates |-> IF m \in Committed THEN prior[m] ELSE 0]
      /\ served = [x \in Nonces |-> 0]
  OBVIOUS
<1>2. stack = <<>>
  BY DEF ReentryInit
<1>3. ASSUME NEW m \in Mandates
      PROVE  /\ rows[m] \in Row /\ rows[m].spent <= MaxAmount
             /\ moved[m] \in Nat /\ rows[m].spent = moved[m] /\ rows[m].spent \in Nat
             /\ rows[m].pool_state = IF m \in Committed THEN "Committed" ELSE "Unlinked"
  <2> PICK k, q, p : /\ k = IF m \in Committed THEN prior[m] ELSE 0
                     /\ q = IF k > 0 THEN 1 ELSE 0
                     /\ p = IF m \in Committed THEN "Committed" ELSE "Unlinked"
    OBVIOUS
  <2>1. k \in Nat /\ k <= MaxAmount
    <3>1. MaxAmount \in Nat /\ Priors \subseteq 0 .. MaxAmount - 1
      BY ReentryAssumption
    <3> QED
      BY <3>1
  <2>2. q \in Nat /\ p \in {"Committed", "Unlinked"}
    OBVIOUS
  <2>3. rows[m] = [spent |-> k, seq |-> q, status |-> "Active", pool_state |-> p]
    OBVIOUS
  <2>4. moved[m] = k
    OBVIOUS
  <2>5. /\ rows[m].spent = k /\ rows[m].seq = q /\ rows[m].status = "Active"
        /\ rows[m].pool_state = p
    BY <2>3
  <2>6. rows[m] \in Row
    BY <2>1, <2>2, <2>3 DEF Row
  <2> QED
    BY <2>1, <2>4, <2>5, <2>6
<1>4. /\ store.rows = rows /\ store.pool = "Open" /\ store.consumed = {}
      /\ store.executing = {} /\ store.moved = moved /\ store.served = served
      /\ store = [rows |-> rows, pool |-> "Open", consumed |-> {}, executing |-> {},
                  moved |-> moved, served |-> served]
  BY <1>1
<1>5. store \in Stores
  <2>1. rows \in [Mandates -> Row]
    BY <1>3
  <2>2. moved \in [Mandates -> Nat]
    BY <1>3
  <2>3. served \in [Nonces -> Nat]
    OBVIOUS
  <2> QED
    BY <1>4, <2>1, <2>2, <2>3 DEF Stores
<1>6. Sound(store)
  BY <1>3, <1>4 DEF Sound
<1>7. Balanced(store)
  BY <1>3, <1>4 DEF Balanced, Debt
<1>8. Settles(<<>>, store)
  <2>1. ~Closing(<<>>)
    BY DEF Closing
  <2> QED
    BY <1>4, <2>1 DEF Settles
<1>9. stack \in Seq(Frames) /\ Len(stack) = 0
  BY <1>2
<1>10. /\ \A k \in 1 .. Len(stack) + 1 : Found(stack, store, k) = store
       /\ Found(stack, store, 1) = store
  BY <1>9 DEF Found
<1>11. \A k \in 1 .. Len(stack) : FALSE
  BY <1>9
<1> QED
  BY <1>2, <1>5, <1>6, <1>7, <1>8, <1>9, <1>10, <1>11 DEF IInv, Inv

LEMMA StepKeepsOrder ==
  ASSUME IInv, [ReentryNext]_reentryVars
  PROVE  IInv'
<1>1. CASE Proceed
  BY <1>1, ProceedKeeps
<1>2. CASE CallRegistry
  BY <1>2, CallRegistryKeeps
<1>3. CASE RegistryReturned
  BY <1>3, RegistryReturnedKeeps
<1>4. CASE Transfer
  BY <1>4, TransferKeeps
<1>5. CASE TransferReturned
  BY <1>5, TransferReturnedKeeps
<1>6. CASE Return
  BY <1>6, ReturnKeeps
<1>7. CASE Fail
  BY <1>7, FailKeeps
<1>8. CASE CapturePool
  BY <1>8, CapturePoolKeeps
<1>9. CASE AbortPool
  BY <1>9, AbortPoolKeeps
<1>10. CASE WindowEnds
  BY <1>10 DEF WindowEnds, IInv
<1>11. ASSUME NEW m \in Mandates, RevokeMandate(m)
       PROVE  IInv'
  BY <1>11, RevokeMandateKeeps
<1>12. ASSUME NEW m \in Mandates, NEW n \in Amounts, ExecutePayment(m, n)
       PROVE  IInv'
  BY <1>12, ExecutePaymentKeeps
<1>13. ASSUME NEW m \in Policed, NEW n \in Amounts, NEW nonce \in Nonces,
              Execute(m, n, nonce)
       PROVE  IInv'
  BY <1>13, ExecuteKeeps
<1>14. CASE UNCHANGED reentryVars
  BY <1>14 DEF reentryVars, IInv
<1> QED
  BY <1>1, <1>2, <1>3, <1>4, <1>5, <1>6, <1>7, <1>8, <1>9, <1>10, <1>11, <1>12,
     <1>13, <1>14 DEF ReentryNext

\* Every frame on the stack finds its level, however the calls are nested
\* and whichever of them fail.
THEOREM StackInOrder == ReentrySpec => []IInv
<1>1. ReentryInit => IInv
  BY ReentryStarts
<1>2. IInv /\ [ReentryNext]_reentryVars => IInv'
  BY StepKeepsOrder
<1> QED
  BY <1>1, <1>2, PTL DEF ReentrySpec

-----------------------------------------------------------------------------
(* What holds of the whole stack, and between transactions. *)

LEMMA NothingRuns ==
  ASSUME IInv
  PROVE  /\ store \in Stores /\ Sound(store)
         /\ ~Running => Balanced(store) /\ Quiet(store)
<1>1. /\ Inv(stack, store) /\ store \in Stores /\ Len(stack) \in Nat
      /\ Len(stack) + 1 \in 1 .. Len(stack) + 1
  BY TopOfStack
<1>2. Found(stack, store, Len(stack) + 1) = store
  BY <1>1 DEF Found
<1>3. Sound(store)
  BY <1>1, <1>2 DEF Inv
<1>4. ASSUME ~Running
      PROVE  Balanced(store) /\ Quiet(store)
  <2>1. stack = <<>>
    BY <1>4 DEF Running
  <2>2. Len(stack) + 1 = 1
    BY <2>1
  <2> QED
    BY <1>1, <1>2, <2>1, <2>2 DEF Inv, Quiet
<1> QED
  BY <1>1, <1>3, <1>4

\* Once the transaction is over, what it moved is what the books say, and
\* within the mandate: BooksHold (pool.rs:284, payment.rs:53).
THEOREM BooksBalance == ReentrySpec => []BooksHold
<1>1. IInv => BooksHold
  <2> SUFFICES ASSUME IInv, ~Running, NEW m \in Mandates
               PROVE  /\ store.moved[m] = store.rows[m].spent
                      /\ store.moved[m] <= MaxAmount
    BY DEF BooksHold
  <2>1. store \in Stores /\ Sound(store) /\ Balanced(store)
    BY NothingRuns
  <2>2. store.rows[m].spent \in Nat /\ store.moved[m] \in Nat
    BY <2>1, StoreTypes
  <2>3. store.rows[m].spent - store.moved[m] = 0 /\ store.rows[m].spent <= MaxAmount
    BY <2>1 DEF Balanced, Debt, Sound
  <2>4. \A i, j \in Nat : i - j = 0 => i = j
    OBVIOUS
  <2> QED
    BY <2>2, <2>3, <2>4
<1> QED
  BY <1>1, StackInOrder, PTL

\* A capture and an abort exclude each other at every step, and a captured
\* pool leaves nobody committed: OneOutcome (pool.rs:284).
THEOREM OutcomeIsFinal == ReentrySpec => []OneOutcome
<1>1. IInv => OneOutcome
  <2> SUFFICES ASSUME IInv PROVE OneOutcome
    OBVIOUS
  <2>1. Sound(store) /\ (~Running => Quiet(store)) /\ Committed \subseteq Mandates
    BY NothingRuns, ReentryAssumption
  <2>2. store.pool = "Aborted" =>
          \A m \in Committed : store.rows[m].pool_state # "Captured"
    BY <2>1 DEF Sound
  <2>3. store.pool = "Cleared" /\ ~Running =>
          \A m \in Committed : store.rows[m].pool_state # "Committed"
    <3>1. Members(<<>>) = {}
      BY DEF Members
    <3> QED
      BY <2>1, <3>1 DEF Quiet, Settles
  <2> QED
    BY <2>2, <2>3 DEF OneOutcome
<1> QED
  BY <1>1, StackInOrder, PTL

\* A nonce pays at most once, however often the token sends the request
\* again: NonceOnce (extension lib.rs:124).
THEOREM NoncePaysOnce == ReentrySpec => []NonceOnce
<1>1. IInv => NonceOnce
  BY NothingRuns DEF Sound, NonceOnce
<1> QED
  BY <1>1, StackInOrder, PTL

\* A request that waits for the registry holds the lock of its mandate.
LEMMA PayingHolds ==
  ASSUME IInv, NEW i \in DOMAIN stack, NEW m, Paying(stack[i], m)
  PROVE  /\ i \in 1 .. Len(stack) /\ m \in Holds(stack[i].todo)
         /\ m \notin stack[i].saved.executing
<1>1. Inv(stack, store) /\ stack \in Seq(Frames) /\ i \in 1 .. Len(stack)
  BY TopOfStack
<1> PICK t, before, after : /\ t = stack[i].todo /\ before = stack[i].saved
                            /\ after = Found(stack, store, i + 1)
  OBVIOUS
<1>2. t \in Seq(Steps) /\ Level(t, before, after)
  BY <1>1, AtLevel
<1>3. t # <<>> /\ t[1].do = "called" /\ t[1].id = m
  <2>1. t # <<>> /\ Head(t).do = "called" /\ Head(t).id = m
    BY DEF Paying
  <2> QED
    BY <1>2, <2>1, TailOf
<1>4. Requesting(t, before, after)
  <2>1. 1 \in DOMAIN t
    BY <1>2, <1>3, TailOf
  <2>2. ~Collecting(t, after)
    BY <1>3, <2>1 DEF Collecting
  <2>3. ~Begun(t, after)
    <3> SUFFICES ASSUME Begun(t, after) PROVE FALSE
      OBVIOUS
    <3>1. PICK k \in Mandates, n \in Amounts : t = PaySteps(k, n, after.rows[k])
      BY DEF Begun
    <3>2. t[1].do = "write"
      BY <3>1 DEF PaySteps
    <3> QED
      BY <1>3, <3>2
  <2> QED
    BY <1>2, <2>2, <2>3 DEF Level
<1>5. PICK k \in Policed, n \in Amounts, x \in Nonces :
        /\ k \notin before.executing
        /\ t = << [do |-> "called", id |-> k, amount |-> n, nonce |-> x],
                  [do |-> "unlock", id |-> k] >>
  BY <1>3, <1>4 DEF Requesting, ExecuteSteps
<1>6. k = m
  BY <1>3, <1>5
<1>7. m \in Holds(t)
  BY <1>5, <1>6 DEF Holds
<1> QED
  BY <1>1, <1>5, <1>6, <1>7

\* One request at a time is executing for a mandate, and no lock outlives
\* its transaction: LockHoldsAndIsReleased (extension lib.rs:137, 159).
THEOREM LockIsExclusive == ReentrySpec => []LockHoldsAndIsReleased
<1>1. IInv => LockHoldsAndIsReleased
  <2> SUFFICES ASSUME IInv PROVE LockHoldsAndIsReleased
    OBVIOUS
  <2>1. ~Running => store.executing = {}
    BY NothingRuns DEF Balanced
  <2>2. ASSUME NEW m, NEW i \in DOMAIN stack, NEW j \in DOMAIN stack, i < j,
               Paying(stack[i], m), Paying(stack[j], m)
        PROVE  FALSE
    <3>1. /\ i \in 1 .. Len(stack) /\ j \in 1 .. Len(stack)
          /\ m \in Holds(stack[i].todo) /\ m \notin stack[j].saved.executing
      BY <2>2, PayingHolds
    <3>2. Inv(stack, store) /\ Len(stack) \in Nat
      BY TopOfStack
    <3>3. j \in i + 1 .. Len(stack) + 1 /\ Found(stack, store, j) = stack[j].saved
      BY <2>2, <3>1, <3>2 DEF Found
    <3>4. Keeps(stack[i].todo, stack[j].saved)
      BY <3>1, <3>2, <3>3, AtLevel
    <3> QED
      BY <3>1, <3>4 DEF Keeps
  <2>3. ASSUME NEW m \in Policed
        PROVE  Cardinality({i \in DOMAIN stack : Paying(stack[i], m)}) <= 1
    <3> PICK S : S = {i \in DOMAIN stack : Paying(stack[i], m)}
      OBVIOUS
    <3>1. \A i, j \in S : i \in Int /\ j \in Int
      BY PayingHolds
    <3>2. \A i, j \in S : i = j
      BY <2>2, <3>1
    <3>3. CASE S = {}
      BY <3>3, FS_EmptySet
    <3>4. CASE S # {}
      <4>1. PICK i \in S : TRUE
        BY <3>4
      <4>2. S = {i}
        BY <3>2, <4>1
      <4> QED
        BY <4>2, FS_Singleton
    <3> QED
      BY <3>3, <3>4
  <2> QED
    BY <2>1, <2>3 DEF LockHoldsAndIsReleased
<1> QED
  BY <1>1, StackInOrder, PTL
=============================================================================
