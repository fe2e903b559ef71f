---------------------------- MODULE DriverProofs ----------------------------
(***************************************************************************)
(* Proofs about Driver for every finite set of slots, every generation     *)
(* range, byte budget, SQ capacity and number of receive buffers, and      *)
(* whatever events a run explores.                                         *)
(*                                                                         *)
(* The inductive invariant `Inv` has two parts.  `P!Inv` is the invariant  *)
(* of Connection, seen through the mapping that hides the queues; it needs *)
(* no second proof, because each step of the loop is shown to be a step of *)
(* Connection or a stutter (`PeersStep`) and Connection's own steps        *)
(* preserve it.  `LoopInv` is about the queues:                            *)
(*                                                                         *)
(*   RingOK            tokens are distinct from the SQ to the CQ, and the  *)
(*                     CQE that ends an operation is its last; without     *)
(*                     the order, a CQE could follow the one that freed    *)
(*                     its peer                                            *)
(*   SendsFit          a send reports no more bytes than are in flight     *)
(*   ListenerMirrored  the listener knows its operations, so its cancel    *)
(*                     is new to the ring                                  *)
(*   Fifos             entries name live peers, once, by their generation  *)
(*   PendingCoversWork, ShutdownCloses, NoHalfError, SweepHasWork          *)
(*                     what is said of them in Driver, and what the        *)
(*                     prepare phase relies on                             *)
(*                                                                         *)
(* Each action has a lemma that concludes both, LoopInv' and PeersStep;    *)
(* what several share (the ring, the FIFOs, a handled CQE, the head of     *)
(* the pending FIFO, a posted CQE) is proved once, before them.            *)
(***************************************************************************)
EXTENDS Driver, FiniteSetTheorems, SequenceTheorems, TLAPS

P == INSTANCE ConnectionProofs WITH
  parked <- [s \in Slot |-> s \in ToSet(deferred)],
  ops <- {t \in Outstanding : t.op \in {"receive", "send", "cancel"}}

-----------------------------------------------------------------------------
(* Sequences. *)

\* Appending adds one element, and a new one keeps the elements distinct.
LEMMA AppendSet ==
  ASSUME NEW S, NEW q \in Seq(S), NEW e \in S
  PROVE  /\ ToSet(Append(q, e)) = ToSet(q) \cup {e}
         /\ Append(q, e) \in Seq(S)
         /\ IsInjective(q) /\ e \notin ToSet(q) => IsInjective(Append(q, e))
<1>1. /\ DOMAIN q = 1..Len(q) /\ DOMAIN Append(q, e) = 1..(Len(q) + 1)
      /\ Len(q) \in Nat
  OBVIOUS
<1>2. /\ \A i \in 1..Len(q) : Append(q, e)[i] = q[i]
      /\ Append(q, e)[Len(q) + 1] = e
  OBVIOUS
<1>3. 1..(Len(q) + 1) = 1..Len(q) \cup {Len(q) + 1}
  BY <1>1
<1> HIDE DEF ToSet
<1>4. ToSet(Append(q, e)) = ToSet(q) \cup {e}
  BY <1>1, <1>2, <1>3 DEF ToSet
<1>5. Append(q, e) \in Seq(S)
  OBVIOUS
<1>6. IsInjective(q) /\ e \notin ToSet(q) => IsInjective(Append(q, e))
  BY <1>1, <1>2, <1>3 DEF ToSet, IsInjective
<1> QED
  BY <1>4, <1>5, <1>6

\* Taking the head removes one element, the one at its head.
LEMMA TailSet ==
  ASSUME NEW S, NEW q \in Seq(S), q # <<>>
  PROVE  /\ Tail(q) \in Seq(S) /\ Head(q) \in S /\ Head(q) \in ToSet(q)
         /\ DOMAIN Tail(q) = 1..(Len(q) - 1) /\ Len(q) \in Nat \ {0}
         /\ \A i \in 1..(Len(q) - 1) : Tail(q)[i] = q[i + 1]
         /\ Head(q) = q[1] /\ DOMAIN q = 1..Len(q)
         /\ ToSet(q) = ToSet(Tail(q)) \cup {Head(q)}
         /\ IsInjective(q) => /\ IsInjective(Tail(q))
                              /\ ToSet(Tail(q)) = ToSet(q) \ {Head(q)}
<1>1. /\ Tail(q) \in Seq(S) /\ Head(q) \in S
      /\ DOMAIN Tail(q) = 1..(Len(q) - 1) /\ Len(q) \in Nat \ {0}
      /\ \A i \in 1..(Len(q) - 1) : Tail(q)[i] = q[i + 1]
      /\ Head(q) = q[1] /\ DOMAIN q = 1..Len(q)
  OBVIOUS
<1>2. \A i \in 1..Len(q) : i = 1 \/ i - 1 \in 1..(Len(q) - 1)
  BY <1>1
<1>3. \A i \in 1..(Len(q) - 1) : i + 1 \in 1..Len(q) /\ i + 1 # 1
  BY <1>1
<1>4. 1 \in 1..Len(q)
  BY <1>1
<1>5. Head(q) \in ToSet(q)
  BY <1>1, <1>4 DEF ToSet
<1>6. ToSet(Tail(q)) \subseteq ToSet(q)
  BY <1>1, <1>3 DEF ToSet
<1>7. ASSUME NEW x \in ToSet(q), x # Head(q) PROVE x \in ToSet(Tail(q))
  <2>1. PICK i \in 1..Len(q) : q[i] = x
    BY <1>1 DEF ToSet
  <2>2. i - 1 \in 1..(Len(q) - 1) /\ (i - 1) + 1 = i
    BY <1>1, <1>2, <1>7, <2>1
  <2>3. Tail(q)[i - 1] = x
    BY <1>1, <2>1, <2>2
  <2> QED
    BY <1>1, <2>2, <2>3 DEF ToSet
<1>8. ASSUME IsInjective(q) PROVE Head(q) \notin ToSet(Tail(q))
  <2> SUFFICES ASSUME NEW i \in 1..(Len(q) - 1), Tail(q)[i] = Head(q) PROVE FALSE
    BY <1>1 DEF ToSet
  <2>1. q[i + 1] = q[1]
    BY <1>1
  <2>2. i + 1 \in DOMAIN q /\ 1 \in DOMAIN q /\ i + 1 # 1
    BY <1>1, <1>3, <1>4
  <2> QED
    BY <1>8, <2>1, <2>2 DEF IsInjective
<1>9. ASSUME IsInjective(q) PROVE IsInjective(Tail(q))
  <2> SUFFICES ASSUME NEW i \in 1..(Len(q) - 1), NEW j \in 1..(Len(q) - 1),
                      Tail(q)[i] = Tail(q)[j]
               PROVE  i = j
    BY <1>1 DEF IsInjective
  <2>1. q[i + 1] = q[j + 1] /\ i + 1 \in DOMAIN q /\ j + 1 \in DOMAIN q
    BY <1>1, <1>3
  <2>2. i + 1 = j + 1
    BY <1>9, <2>1 DEF IsInjective
  <2> QED
    BY <2>2
<1> QED
  BY <1>1, <1>5, <1>6, <1>7, <1>8, <1>9

-----------------------------------------------------------------------------
(* The ring: the submission queue s, the kernel's operations f and the     *)
(* completion queue q.                                                     *)

AnyToken == Peers!Token \cup {Accept, AcceptCancel}

Cqes == [token: AnyToken,
         result: {"data", "eof", "nobufs", "failed", "canceled", "sent",
                  "done", "accepted"},
         more: BOOLEAN, n: 0..ByteBudget]

EndingIn(q) == {i \in DOMAIN q : ~q[i].more}

EndedIn(q) == {q[i].token : i \in EndingIn(q)}

Owed(s, f, q) == ToSet(s) \cup f \cup EndedIn(q)

\* What each CQE may say.
Shaped(c) ==
  /\ c.token.op = "receive" =>
       c.result \in {"data", "eof", "nobufs", "failed", "canceled"}
  /\ c.more => \/ c.token.op = "receive" /\ c.result = "data"
               \/ c.token = Accept /\ c.result = "accepted"

RingTypes(s, f, q) ==
  /\ s \in Seq(AnyToken) /\ f \subseteq AnyToken /\ q \in Seq(Cqes)
  /\ \A i \in DOMAIN q : Shaped(q[i])

\* OneOperationPerToken.
Distinct(s, f, q) ==
  /\ IsInjective(s)
  /\ \A i, j \in EndingIn(q) : q[i].token = q[j].token => i = j
  /\ ToSet(s) \cap f = {}
  /\ EndedIn(q) \cap (ToSet(s) \cup f) = {}

\* An operation has CQEs only after it was submitted, and the one that ends
\* it comes last.
EndsLast(s, f, q) ==
  \A i \in DOMAIN q :
    /\ q[i].token \notin ToSet(s)
    /\ q[i].more => \/ q[i].token \in f
                    \/ \E j \in EndingIn(q) : i < j /\ q[j].token = q[i].token

RingOK(s, f, q) == RingTypes(s, f, q) /\ Distinct(s, f, q) /\ EndsLast(s, f, q)

\* Whatever has a CQE is still owed.
LEMMA CqeOwed ==
  ASSUME NEW s, NEW f, NEW q, EndsLast(s, f, q), NEW i \in DOMAIN q
  PROVE  q[i].token \in Owed(s, f, q)
BY DEF EndsLast, Owed, EndedIn, EndingIn

\* A new operation is prepared.
LEMMA RingPrepare ==
  ASSUME NEW s, NEW f, NEW q, RingOK(s, f, q),
         NEW t \in AnyToken, t \notin Owed(s, f, q)
  PROVE  /\ RingOK(Append(s, t), f, q)
         /\ Owed(Append(s, t), f, q) = Owed(s, f, q) \cup {t}
<1>1. /\ ToSet(Append(s, t)) = ToSet(s) \cup {t}
      /\ Append(s, t) \in Seq(AnyToken)
      /\ IsInjective(s) /\ t \notin ToSet(s) => IsInjective(Append(s, t))
  BY AppendSet DEF RingOK, RingTypes
<1>2. \A i \in DOMAIN q : q[i].token # t
  BY CqeOwed DEF RingOK
<1>3. Owed(Append(s, t), f, q) = Owed(s, f, q) \cup {t}
  BY <1>1 DEF Owed
<1>4. RingTypes(Append(s, t), f, q)
  BY <1>1 DEF RingOK, RingTypes
<1>5. Distinct(Append(s, t), f, q)
  BY <1>1 DEF RingOK, Distinct, Owed
<1>6. EndsLast(Append(s, t), f, q)
  BY <1>1, <1>2 DEF RingOK, EndsLast
<1> QED
  BY <1>3, <1>4, <1>5, <1>6 DEF RingOK

\* The SQ is handed to the kernel.
LEMMA RingSubmit ==
  ASSUME NEW s, NEW f, NEW q, RingOK(s, f, q)
  PROVE  /\ RingOK(<<>>, f \cup ToSet(s), q)
         /\ Owed(<<>>, f \cup ToSet(s), q) = Owed(s, f, q)
<1>1. ToSet(<<>>) = {} /\ IsInjective(<<>>) /\ <<>> \in Seq(AnyToken)
  BY DEF ToSet, IsInjective
<1>2. ToSet(s) \subseteq AnyToken
  BY DEF RingOK, RingTypes, ToSet
<1>3. Owed(<<>>, f \cup ToSet(s), q) = Owed(s, f, q)
  BY <1>1 DEF Owed
<1>4. RingTypes(<<>>, f \cup ToSet(s), q)
  BY <1>1, <1>2 DEF RingOK, RingTypes
<1>5. Distinct(<<>>, f \cup ToSet(s), q)
  BY <1>1 DEF RingOK, Distinct
<1>6. EndsLast(<<>>, f \cup ToSet(s), q)
  BY <1>1 DEF RingOK, EndsLast
<1> QED
  BY <1>3, <1>4, <1>5, <1>6 DEF RingOK

\* The kernel posts a CQE for one of its operations.
LEMMA RingPost ==
  ASSUME NEW s, NEW f, NEW q, RingOK(s, f, q),
         NEW c \in Cqes, Shaped(c), c.token \in f
  PROVE  LET g == IF c.more THEN f ELSE f \ {c.token} IN
         /\ RingOK(s, g, Append(q, c))
         /\ Owed(s, g, Append(q, c)) = Owed(s, f, q)
<1> DEFINE g == IF c.more THEN f ELSE f \ {c.token}
           r == Append(q, c)
<1>1. /\ r \in Seq(Cqes) /\ DOMAIN q = 1..Len(q) /\ Len(q) \in Nat
      /\ DOMAIN r = 1..Len(q) \cup {Len(q) + 1}
      /\ \A i \in 1..Len(q) : r[i] = q[i]
      /\ r[Len(q) + 1] = c
      /\ Len(q) + 1 \notin 1..Len(q)
      /\ \A i \in 1..Len(q) : i < Len(q) + 1
  BY DEF RingOK, RingTypes
<1> HIDE DEF r
<1>2. EndingIn(r) = EndingIn(q) \cup (IF c.more THEN {} ELSE {Len(q) + 1})
  BY <1>1 DEF EndingIn
<1>3. EndedIn(r) = EndedIn(q) \cup (IF c.more THEN {} ELSE {c.token})
  BY <1>1, <1>2 DEF EndedIn, EndingIn
<1>4. RingTypes(s, g, r)
  BY <1>1 DEF RingOK, RingTypes
<1>5. c.token \notin ToSet(s) /\ c.token \notin EndedIn(q)
  BY DEF RingOK, Distinct
<1>6. Distinct(s, g, r)
  <2>1. \A i, j \in EndingIn(r) : r[i].token = r[j].token => i = j
    BY <1>1, <1>2, <1>5 DEF RingOK, Distinct, EndedIn, EndingIn
  <2> QED
    BY <1>3, <1>5, <2>1 DEF RingOK, Distinct
<1>7. EndsLast(s, g, r)
  <2> SUFFICES ASSUME NEW i \in DOMAIN r
               PROVE  /\ r[i].token \notin ToSet(s)
                      /\ r[i].more => \/ r[i].token \in g
                                      \/ \E j \in EndingIn(r) : i < j /\ r[j].token = r[i].token
    BY DEF EndsLast
  <2>1. CASE i = Len(q) + 1
    BY <1>1, <1>5, <2>1
  <2>2. CASE i \in 1..Len(q)
    <3>1. /\ q[i].token \notin ToSet(s)
          /\ q[i].more => \/ q[i].token \in f
                          \/ \E j \in EndingIn(q) : i < j /\ q[j].token = q[i].token
      BY <1>1, <2>2 DEF RingOK, EndsLast
    <3>2. CASE q[i].more /\ q[i].token = c.token /\ ~c.more
      BY <1>1, <1>2, <1>5, <2>2, <3>2
    <3>3. CASE q[i].more /\ q[i].token \in f /\ (q[i].token # c.token \/ c.more)
      BY <1>1, <2>2, <3>1, <3>3
    <3>4. CASE \E j \in EndingIn(q) : i < j /\ q[j].token = q[i].token
      BY <1>1, <1>2, <2>2, <3>1, <3>4 DEF EndingIn
    <3> QED
      BY <1>1, <2>2, <3>1, <3>2, <3>3, <3>4
  <2> QED
    BY <1>1, <2>1, <2>2
<1>8. Owed(s, g, r) = Owed(s, f, q)
  BY <1>3 DEF Owed
<1> QED
  BY <1>4, <1>6, <1>7, <1>8 DEF RingOK, r

\* The loop takes the CQE at the head of the queue.
LEMMA RingPop ==
  ASSUME NEW s, NEW f, NEW q, RingOK(s, f, q), q # <<>>
  PROVE  /\ RingOK(s, f, Tail(q))
         /\ Head(q) \in Cqes /\ Shaped(Head(q))
         /\ Head(q).token \in Owed(s, f, q)
         /\ Owed(s, f, Tail(q)) =
              IF Head(q).more THEN Owed(s, f, q)
                              ELSE Owed(s, f, q) \ {Head(q).token}
<1> DEFINE r == Tail(q)
           c == Head(q)
<1>1. /\ r \in Seq(Cqes) /\ c \in Cqes /\ Len(q) \in Nat \ {0}
      /\ DOMAIN r = 1..(Len(q) - 1) /\ DOMAIN q = 1..Len(q)
      /\ \A i \in 1..(Len(q) - 1) : r[i] = q[i + 1]
      /\ c = q[1]
  BY TailSet DEF RingOK, RingTypes
<1>2. /\ \A i \in 1..Len(q) : i = 1 \/ i - 1 \in 1..(Len(q) - 1)
      /\ \A i \in 1..(Len(q) - 1) : i + 1 \in 1..Len(q) /\ i + 1 # 1
      /\ 1 \in 1..Len(q)
  BY <1>1
<1>3. ASSUME NEW i \in 1..Len(q), i # 1
      PROVE  i - 1 \in DOMAIN r /\ r[i - 1] = q[i]
  <2>1. i - 1 \in 1..(Len(q) - 1) /\ (i - 1) + 1 = i
    BY <1>1, <1>2, <1>3
  <2> QED
    BY <1>1, <2>1
<1> HIDE DEF r, c
<1>4. Shaped(c)
  BY <1>1, <1>2 DEF RingOK, RingTypes
<1>5. c.token \in Owed(s, f, q)
  BY <1>1, <1>2, CqeOwed DEF RingOK
<1>6. RingTypes(s, f, r)
  BY <1>1, <1>2 DEF RingOK, RingTypes
<1>7. \A i \in EndingIn(r) : i + 1 \in EndingIn(q) /\ r[i].token = q[i + 1].token
  BY <1>1, <1>2 DEF EndingIn
<1>8. EndedIn(r) \subseteq EndedIn(q)
  BY <1>7 DEF EndedIn
<1>9. \A i \in EndingIn(q) : i # 1 => q[i].token \in EndedIn(r)
  BY <1>1, <1>3 DEF EndedIn, EndingIn
<1>10. ~c.more => c.token \notin EndedIn(r)
  <2> SUFFICES ASSUME ~c.more, NEW i \in EndingIn(r), r[i].token = c.token
               PROVE  FALSE
    BY DEF EndedIn
  <2>1. 1 \in EndingIn(q)
    BY <1>1, <1>2 DEF EndingIn
  <2>2. i + 1 = 1
    BY <1>1, <1>7, <2>1 DEF RingOK, Distinct
  <2>3. i \in Nat \ {0}
    BY <1>1 DEF EndingIn
  <2> QED
    BY <2>2, <2>3
<1>11. EndedIn(q) = EndedIn(r) \cup (IF c.more THEN {} ELSE {c.token})
  BY <1>1, <1>2, <1>8, <1>9 DEF EndedIn, EndingIn
<1>12. Distinct(s, f, r)
  <2>1. ASSUME NEW i \in EndingIn(r), NEW j \in EndingIn(r), r[i].token = r[j].token
        PROVE  i = j
    <3>1. i + 1 = j + 1
      BY <1>7, <2>1 DEF RingOK, Distinct
    <3>2. i \in Nat /\ j \in Nat
      BY <1>1 DEF EndingIn
    <3> QED
      BY <3>1, <3>2
  <2> QED
    BY <1>8, <2>1 DEF RingOK, Distinct
<1>13. EndsLast(s, f, r)
  <2> SUFFICES ASSUME NEW i \in DOMAIN r
               PROVE  /\ r[i].token \notin ToSet(s)
                      /\ r[i].more => \/ r[i].token \in f
                                      \/ \E j \in EndingIn(r) : i < j /\ r[j].token = r[i].token
    BY DEF EndsLast
  <2>1. r[i] = q[i + 1] /\ i + 1 \in DOMAIN q /\ i \in Nat \ {0}
    BY <1>1, <1>2
  <2>2. /\ q[i + 1].token \notin ToSet(s)
        /\ q[i + 1].more => \/ q[i + 1].token \in f
                            \/ \E j \in EndingIn(q) : i + 1 < j /\ q[j].token = q[i + 1].token
    BY <2>1 DEF RingOK, EndsLast
  <2>3. ASSUME NEW j \in EndingIn(q), i + 1 < j, q[j].token = q[i + 1].token
        PROVE  \E k \in EndingIn(r) : i < k /\ r[k].token = r[i].token
    <3>1. j \in 1..Len(q) /\ j # 1 /\ i < j - 1
      BY <1>1, <2>1, <2>3 DEF EndingIn
    <3>2. j - 1 \in EndingIn(r) /\ r[j - 1].token = r[i].token
      BY <1>1, <1>3, <2>1, <2>3, <3>1 DEF EndingIn
    <3> QED
      BY <3>1, <3>2
  <2> QED
    BY <2>1, <2>2, <2>3
<1>14. Owed(s, f, r) = IF c.more THEN Owed(s, f, q) ELSE Owed(s, f, q) \ {c.token}
  <2>1. CASE c.more
    BY <1>11, <2>1 DEF Owed
  <2>2. CASE ~c.more
    <3>1. c.token \in EndedIn(q)
      BY <1>11, <2>2
    <3>2. c.token \notin ToSet(s) \cup f
      BY <3>1 DEF RingOK, Distinct
    <3> QED
      BY <1>10, <1>11, <2>2, <3>2 DEF Owed
  <2> QED
    BY <2>1, <2>2
<1> QED
  BY <1>1, <1>4, <1>5, <1>6, <1>12, <1>13, <1>14 DEF RingOK, r, c

-----------------------------------------------------------------------------
(* The receive buffers held by CQEs. *)

Held(q) == {i \in DOMAIN q : HoldsBuffer(q[i])}

\* A CQE that is posted holds at most one buffer.
LEMMA HeldAppend ==
  ASSUME NEW S, NEW q \in Seq(S), NEW c \in S
  PROVE  /\ Cardinality(Held(q)) \in Nat
         /\ Cardinality(Held(Append(q, c))) =
              Cardinality(Held(q)) + (IF HoldsBuffer(c) THEN 1 ELSE 0)
<1>1. /\ DOMAIN q = 1..Len(q) /\ Len(q) \in Nat
      /\ DOMAIN Append(q, c) = 1..Len(q) \cup {Len(q) + 1}
      /\ \A i \in 1..Len(q) : Append(q, c)[i] = q[i]
      /\ Append(q, c)[Len(q) + 1] = c
      /\ Len(q) + 1 \notin 1..Len(q)
  OBVIOUS
<1>2. IsFiniteSet(Held(q)) /\ Cardinality(Held(q)) \in Nat
  <2>1. IsFiniteSet(1..Len(q))
    BY <1>1, FS_Interval
  <2>2. Held(q) \in SUBSET (1..Len(q))
    BY <1>1 DEF Held
  <2> QED
    BY <2>1, <2>2, FS_Subset, FS_CardinalityType
<1>3. Held(Append(q, c)) =
        IF HoldsBuffer(c) THEN Held(q) \cup {Len(q) + 1} ELSE Held(q)
  BY <1>1 DEF Held
<1>4. Len(q) + 1 \notin Held(q)
  BY <1>1 DEF Held
<1>5. Cardinality(Held(q) \cup {Len(q) + 1}) = Cardinality(Held(q)) + 1
  BY <1>2, <1>4, FS_AddElement
<1> QED
  BY <1>2, <1>3, <1>5

\* Taking a CQE returns no more than there were.
LEMMA HeldTail ==
  ASSUME NEW S, NEW q \in Seq(S), q # <<>>
  PROVE  /\ Cardinality(Held(q)) \in Nat /\ Cardinality(Held(Tail(q))) \in Nat
         /\ Cardinality(Held(Tail(q))) <= Cardinality(Held(q))
<1>1. /\ DOMAIN Tail(q) = 1..(Len(q) - 1) /\ Len(q) \in Nat \ {0}
      /\ \A i \in 1..(Len(q) - 1) : Tail(q)[i] = q[i + 1]
      /\ DOMAIN q = 1..Len(q)
  BY TailSet
<1>2. IsFiniteSet(Held(q)) /\ Cardinality(Held(q)) \in Nat
  <2>1. IsFiniteSet(1..Len(q))
    BY <1>1, FS_Interval
  <2>2. Held(q) \in SUBSET (1..Len(q))
    BY <1>1 DEF Held
  <2> QED
    BY <2>1, <2>2, FS_Subset, FS_CardinalityType
<1> DEFINE next == [i \in Held(Tail(q)) |-> i + 1]
<1>3. \A i \in Held(Tail(q)) : i \in Nat /\ i + 1 \in Held(q)
  BY <1>1 DEF Held
<1>4. next \in [Held(Tail(q)) -> Held(q)]
  BY <1>3
<1>5. next \in Injection(Held(Tail(q)), Held(q))
  <2>1. \A i, j \in Held(Tail(q)) : next[i] = next[j] => i = j
    BY <1>3
  <2> QED
    BY <1>4, <2>1 DEF Injection, IsInjective
<1>6. /\ IsFiniteSet(Held(Tail(q)))
      /\ Cardinality(Held(Tail(q))) <= Cardinality(Held(q))
  BY <1>2, <1>5, FS_Injection
<1> QED
  BY <1>2, <1>6, FS_CardinalityType

-----------------------------------------------------------------------------
(* The peers, as Connection sees them. *)

\* The statechart of the loop is that of Connection.
LEMMA SameStatechart ==
  /\ \A st, input : Peers!Step(st, input) = Step(st, input)
  /\ \A st, input : Peers!Accepts(st, input) <=> Accepts(st, input)
  /\ \A st : Peers!IsClosing(st) <=> IsClosing(st)
  /\ \A st : Peers!CancelRequested(st) <=> CancelRequested(st)
  /\ Peers!State = State /\ Peers!Initial = Initial
  /\ \A st, input : P!Step(st, input) = Step(st, input)
  /\ P!State = State
<1>1. \A st, input : Peers!Step(st, input) = Step(st, input)
  BY Zenon DEF Step, Accepts, ClosedPhase, IsClosing, CancelRequested,
     Peers!Step, Peers!Accepts, Peers!ClosedPhase, Peers!IsClosing,
     Peers!CancelRequested
<1>2. \A st, input : Peers!Accepts(st, input) <=> Accepts(st, input)
  BY Zenon DEF Accepts, CancelRequested, Peers!Accepts, Peers!CancelRequested
<1>3. \A st, input : P!Step(st, input) = Step(st, input)
  BY Zenon DEF Step, Accepts, ClosedPhase, IsClosing, CancelRequested,
     P!Step, P!Accepts, P!ClosedPhase, P!IsClosing, P!CancelRequested
<1>4. /\ \A st : Peers!IsClosing(st) <=> IsClosing(st)
      /\ \A st : Peers!CancelRequested(st) <=> CancelRequested(st)
  BY DEF IsClosing, CancelRequested, Peers!IsClosing, Peers!CancelRequested
<1>5. Peers!State = State /\ Peers!Initial = Initial /\ P!State = State
  BY DEF State, Initial, Phase, Peers!State, Peers!Initial, Peers!Phase,
     P!State, P!Phase
<1> QED
  BY <1>1, <1>2, <1>3, <1>4, <1>5

\* The operations of the peers.
PeerOps == {t \in Outstanding : t.op \in {"receive", "send", "cancel"}}

\* What the loop knows of its peers from the invariant of Connection.
PeerFacts ==
  /\ live \in [Slot -> BOOLEAN]
  /\ generation \in [Slot -> 0..MaxGeneration]
  /\ state \in [Slot -> State]
  /\ queued \in [Slot -> 0..ByteBudget]
  /\ flight \in [Slot -> 0..ByteBudget]
  /\ \A t \in Peers!Token :
       t \in Outstanding <=>
         /\ live[t.slot] /\ generation[t.slot] = t.gen
         /\ \/ t.op = "receive" /\ state[t.slot].receiving
            \/ t.op = "send" /\ flight[t.slot] > 0
            \/ t.op = "cancel" /\ state[t.slot].phase = "canceling"
  /\ \A s \in Slot :
       /\ flight[s] <= queued[s]
       /\ live[s] => generation[s] # 0
       /\ ~live[s] => /\ state[s] = Initial /\ flight[s] = 0 /\ queued[s] = 0
                      /\ s \notin ToSet(deferred)
       /\ live[s] => /\ state[s].phase = "open" =>
                          state[s].receiving \/ s \in ToSet(deferred)
                     /\ s \in ToSet(deferred) => ~state[s].receiving

\* The invariant of Connection, in the loop's terms.
LEMMA PeerInvFacts == P!Inv => PeerFacts /\ Peers!TypeOK
<1> SUFFICES ASSUME P!Inv PROVE PeerFacts /\ Peers!TypeOK
  OBVIOUS
<1> USE SameStatechart
<1>1. /\ live \in [Slot -> BOOLEAN]
      /\ generation \in [Slot -> 0..MaxGeneration]
      /\ state \in [Slot -> State]
      /\ queued \in [Slot -> 0..ByteBudget]
      /\ flight \in [Slot -> 0..ByteBudget]
      /\ [s \in Slot |-> s \in ToSet(deferred)] \in [Slot -> BOOLEAN]
      /\ PeerOps \subseteq Peers!Token
  BY DEF P!Inv, P!TypeOK, P!Token, P!Op, Peers!Token, Peers!Op, PeerOps
<1>2. Peers!TypeOK
  BY <1>1 DEF Peers!TypeOK, PeerOps
<1>3. PeerOps = {t \in Peers!Token :
                   /\ live[t.slot] /\ generation[t.slot] = t.gen
                   /\ \/ t.op = "receive" /\ state[t.slot].receiving
                      \/ t.op = "send" /\ flight[t.slot] > 0
                      \/ t.op = "cancel" /\ state[t.slot].phase = "canceling"}
  BY DEF P!Inv, P!OperationsMirrored, P!Token, P!Op, Peers!Token, Peers!Op,
         P!Routes, P!RegionActive, PeerOps
<1>4. \A t \in Peers!Token :
       t \in Outstanding <=>
         /\ live[t.slot] /\ generation[t.slot] = t.gen
         /\ \/ t.op = "receive" /\ state[t.slot].receiving
            \/ t.op = "send" /\ flight[t.slot] > 0
            \/ t.op = "cancel" /\ state[t.slot].phase = "canceling"
  <2>1. \A t \in Peers!Token : t \in Outstanding <=> t \in PeerOps
    BY DEF PeerOps, Peers!Token, Peers!Op
  <2> QED
    BY <1>3, <2>1
<1>5. \A s \in Slot :
       /\ flight[s] <= queued[s]
       /\ live[s] => generation[s] # 0
       /\ ~live[s] => /\ state[s] = Initial /\ flight[s] = 0 /\ queued[s] = 0
                      /\ s \notin ToSet(deferred)
  BY DEF P!Inv, P!Bookkeeping, P!Initial, Initial
<1>6. \A s \in Slot :
       live[s] => /\ state[s].phase = "open" =>
                          state[s].receiving \/ s \in ToSet(deferred)
                  /\ s \in ToSet(deferred) => ~state[s].receiving
  BY DEF P!Inv, P!OpenIsHeard
<1> QED
  BY <1>1, <1>2, <1>4, <1>5, <1>6 DEF PeerFacts

\* The steps of the two instances of Connection are the same.
LEMMA SameNext == Peers!Next => P!Next
<1>1. \A s, phase : Peers!Attach(s, phase) => P!Attach(s, phase)
  BY Zenon DEF Peers!Attach, Peers!NextGeneration, P!Attach,
     P!NextGeneration
<1>2. \A s : Peers!AttachFails(s) => P!AttachFails(s)
  BY Zenon DEF Peers!AttachFails, Peers!NextGeneration, P!AttachFails,
     P!NextGeneration
<1>3. \A s : Peers!PrepareClose(s) => P!PrepareClose(s)
  BY Zenon DEF Peers!PrepareClose, Peers!Step, Peers!Accepts,
     Peers!ClosedPhase, Peers!IsClosing, Peers!CancelRequested,
     Peers!TokenOf, P!PrepareClose, P!Step, P!Accepts, P!ClosedPhase,
     P!IsClosing, P!CancelRequested, P!TokenOf
<1>4. \A s : Peers!DestroyPeer(s) => P!DestroyPeer(s)
  BY Zenon DEF Peers!DestroyPeer, Peers!CanDeinit, Peers!Initial,
     P!DestroyPeer, P!CanDeinit, P!Initial
<1>5. \A s : Peers!SweepDeferred(s) => P!SweepDeferred(s)
  BY Zenon DEF Peers!SweepDeferred, Peers!Step, Peers!Accepts,
     Peers!ClosedPhase, Peers!IsClosing, Peers!CancelRequested,
     Peers!TokenOf, P!SweepDeferred, P!Step, P!Accepts, P!ClosedPhase,
     P!IsClosing, P!CancelRequested, P!TokenOf
<1>6. \A s, n : Peers!Enqueue(s, n) => P!Enqueue(s, n)
  BY Zenon DEF Peers!Enqueue, P!Enqueue
<1>7. \A s, n : Peers!PrepareSend(s, n) => P!PrepareSend(s, n)
  BY Zenon DEF Peers!PrepareSend, Peers!TokenOf, P!PrepareSend,
     P!TokenOf
<1>8. \A S : Peers!BeginClose(S) => P!BeginClose(S)
  BY Zenon DEF Peers!BeginClose, Peers!Step, Peers!Accepts,
     Peers!ClosedPhase, Peers!IsClosing, Peers!CancelRequested,
     P!BeginClose, P!Step, P!Accepts, P!ClosedPhase, P!IsClosing,
     P!CancelRequested
<1>9. \A t, result, outcome :
        Peers!CompleteReceive(t, result, outcome) => P!CompleteReceive(t, result, outcome)
  <2>1. \A st, result : Peers!ReceiveInput(st, result) = P!ReceiveInput(st, result)
    BY Zenon DEF Peers!ReceiveInput, P!ReceiveInput
  <2>2. \A st, input : Peers!Step(st, input) = P!Step(st, input)
    BY SameStatechart
  <2>3. \A st, bytes, outcome :
          Peers!Dispatched(st, bytes, outcome) = P!Dispatched(st, bytes, outcome)
    BY Zenon, <2>2 DEF Peers!Dispatched, P!Dispatched
  <2>4. \A result, st : Peers!Parks(result, st) <=> P!Parks(result, st)
    BY DEF Peers!Parks, P!Parks
  <2> SUFFICES ASSUME NEW t, NEW result, NEW outcome,
                      Peers!CompleteReceive(t, result, outcome)
               PROVE  P!CompleteReceive(t, result, outcome)
    OBVIOUS
  <2> QED
    BY <2>1, <2>2, <2>3, <2>4 DEF Peers!CompleteReceive, P!CompleteReceive
<1>10. \A t, written : Peers!CompleteSend(t, written) => P!CompleteSend(t, written)
  BY ZenonT(60) DEF Peers!CompleteSend, Peers!Step, Peers!Accepts,
     Peers!ClosedPhase, Peers!IsClosing, Peers!CancelRequested,
     Peers!AfterSend, P!CompleteSend, P!Step, P!Accepts, P!ClosedPhase,
     P!IsClosing, P!CancelRequested, P!AfterSend
<1>11. \A t : Peers!CompleteCancel(t) => P!CompleteCancel(t)
  BY Zenon DEF Peers!CompleteCancel, Peers!Step, Peers!Accepts,
     Peers!ClosedPhase, Peers!IsClosing, Peers!CancelRequested,
     P!CompleteCancel, P!Step, P!Accepts, P!ClosedPhase, P!IsClosing,
     P!CancelRequested
<1>12. \A t, result, outcome, written :
        Peers!Complete(t, result, outcome, written)
          /\ t.op \in {"receive", "send", "cancel"}
          => P!Complete(t, result, outcome, written)
  BY ZenonT(40), <1>9, <1>10, <1>11 DEF Peers!Complete, P!Complete, Peers!Routes, P!Routes
<1>13. Peers!ReceiveResult = P!ReceiveResult /\ Peers!Outcome = P!Outcome
  BY DEF Peers!ReceiveResult, P!ReceiveResult, Peers!Outcome, P!Outcome
<1> QED
  BY <1>1, <1>2, <1>3, <1>4, <1>5, <1>6, <1>7, <1>8, <1>12, <1>13
     DEF Peers!Next, P!Next

-----------------------------------------------------------------------------
(* The inductive invariant. *)

Entry == [slot: Slot, gen: 1..MaxGeneration]

LoopTypes ==
  /\ permit \in BOOLEAN /\ shutdown \in BOOLEAN /\ due \in BOOLEAN
  /\ listener \in [phase: {"open", "closing", "canceling"},
                   accepting: BOOLEAN]
  /\ pc \in {"wait", "dispatch", "prepare", "sweep", "submit"}
  /\ Len(sq) <= SqCapacity
  /\ Cardinality(Held(cq)) <= BufferCount

\* A send reports no more bytes than it covered.
SendsFit ==
  \A i \in DOMAIN cq :
    cq[i].token.op = "send" => cq[i].n <= flight[cq[i].token.slot]

\* The listener's statechart and the kernel agree on its two operations.
ListenerMirrored ==
  /\ Accept \in Outstanding <=> listener.accepting
  /\ AcceptCancel \in Outstanding <=> listener.phase = "canceling"

Fifos == /\ deferred \in Seq(Slot) /\ pending \in Seq(Entry)
         /\ QueuesAreFresh

ShutdownCloses == shutdown => \A s \in Slot : live[s] => IsClosing(state[s])

\* The loop posts a protocol error and starts to drain in one step.
NoHalfError == \A s \in Slot : state[s].phase # "protocol_error"

SweepHasWork == pc = "sweep" => deferred # <<>>

LoopInv == /\ RingOK(sq, inflight, cq)
           /\ LoopTypes
           /\ SendsFit
           /\ ListenerMirrored
           /\ Fifos
           /\ PendingCoversWork
           /\ ShutdownCloses
           /\ NoHalfError
           /\ SweepHasWork

Inv == P!Inv /\ LoopInv

\* A step of the loop, seen by its peers.
PeersStep == [Peers!Next]_(Peers!vars)

\* Such a step preserves the invariant of Connection.
LEMMA PeersInv == P!Inv /\ PeersStep => P!Inv'
<1> SUFFICES ASSUME P!Inv, PeersStep PROVE P!Inv'
  OBVIOUS
<1>1. P!Inv /\ [P!Next]_(P!vars) => P!Inv'
  BY P!NextInv, GenerationAssumption, BudgetAssumption
<1>2. Peers!vars = P!vars /\ Peers!vars' = P!vars'
  BY DEF Peers!vars, P!vars
<1> QED
  BY <1>1, <1>2, SameNext DEF PeersStep

\* Outstanding, by its parts.
LEMMA OutstandingIsOwed ==
  /\ Outstanding = Owed(sq, inflight, cq)
  /\ Outstanding' = Owed(sq', inflight', cq')
BY DEF Outstanding, Ended, Ending, Owed, EndedIn, EndingIn

\* The tokens of the listener are none of a peer's.
LEMMA TokenKinds ==
  /\ \A t \in Peers!Token : /\ t.op \in {"receive", "send", "cancel"}
                            /\ t.slot \in Slot /\ t.gen \in 1..MaxGeneration
                            /\ t # Accept /\ t # AcceptCancel
                            /\ t = [op |-> t.op, slot |-> t.slot, gen |-> t.gen]
  /\ Accept.op = "accept" /\ AcceptCancel.op = "accept_cancel"
  /\ Accept # AcceptCancel
  /\ \A t \in AnyToken : /\ t.op = "accept" => t = Accept
                         /\ t.op = "accept_cancel" => t = AcceptCancel
                         /\ t.op \in {"receive", "send", "cancel"} => t \in Peers!Token
BY DEF Peers!Token, Peers!Op, Accept, AcceptCancel, AnyToken

-----------------------------------------------------------------------------
(* The FIFOs. *)

\* Scheduling a peer adds its entry, once.
LEMMA ScheduledSet ==
  ASSUME NEW q \in Seq(Entry), IsInjective(q), NEW e \in Entry,
         \A x \in ToSet(q) : x.slot = e.slot => x = e
  PROVE  /\ Scheduled(q, e) \in Seq(Entry)
         /\ IsInjective(Scheduled(q, e))
         /\ ToSet(Scheduled(q, e)) = ToSet(q) \cup {e}
<1>1. CASE \E i \in DOMAIN q : q[i].slot = e.slot
  <2>1. e \in ToSet(q)
    BY <1>1 DEF ToSet
  <2> QED
    BY <1>1, <2>1 DEF Scheduled
<1>2. CASE ~ \E i \in DOMAIN q : q[i].slot = e.slot
  <2>1. e \notin ToSet(q)
    BY <1>2 DEF ToSet
  <2>2. Scheduled(q, e) = Append(q, e)
    BY <1>2 DEF Scheduled
  <2> QED
    BY <2>1, <2>2, AppendSet
<1> QED
  BY <1>1, <1>2

\* Parking a peer adds it, once.
LEMMA ParkedSet ==
  ASSUME NEW q \in Seq(Slot), IsInjective(q), NEW s \in Slot
  PROVE  /\ Parked(q, s) \in Seq(Slot)
         /\ IsInjective(Parked(q, s))
         /\ ToSet(Parked(q, s)) = ToSet(q) \cup {s}
BY AppendSet DEF Parked

\* Unlinking a peer removes it, and nothing else.
LEMMA UnparkedSet ==
  ASSUME NEW q \in Seq(Slot), IsInjective(q), NEW s \in Slot
  PROVE  /\ Unparked(q, s) \in Seq(Slot)
         /\ IsInjective(Unparked(q, s))
         /\ ToSet(Unparked(q, s)) = ToSet(q) \ {s}
<1>1. CASE s \notin ToSet(q)
  BY <1>1 DEF Unparked
<1>2. CASE s \in ToSet(q)
  <2> DEFINE k == CHOOSE i \in DOMAIN q : q[i] = s
             r == RemoveAt(q, k)
  <2>1. k \in 1..Len(q) /\ q[k] = s /\ Len(q) \in Nat /\ DOMAIN q = 1..Len(q)
    BY <1>2 DEF ToSet
  <2> HIDE DEF k
  <2>2. /\ r \in Seq(Slot) /\ DOMAIN r = 1..(Len(q) - 1)
        /\ \A i \in 1..(Len(q) - 1) : r[i] = IF i < k THEN q[i] ELSE q[i + 1]
    <3> DEFINE u == SubSeq(q, 1, k - 1)
               v == SubSeq(q, k + 1, Len(q))
    <3>1. /\ u \in Seq(Slot) /\ Len(u) = k - 1
          /\ \A i \in 1..(k - 1) : u[i] = q[i]
      BY <2>1
    <3>2. /\ v \in Seq(Slot) /\ Len(v) = Len(q) - k
          /\ \A i \in 1..(Len(q) - k) : v[i] = q[k + i]
      <4>1. /\ \A i \in (k + 1)..Len(q) : q[i] \in Slot
            /\ k + 1 \in Int /\ Len(q) \in Int
        BY <2>1
      <4>2. /\ v \in Seq(Slot)
            /\ Len(v) = IF k + 1 <= Len(q) THEN Len(q) - (k + 1) + 1 ELSE 0
            /\ \A i \in 1..(Len(q) - (k + 1) + 1) : v[i] = q[(k + 1) + i - 1]
        BY <4>1, SubSeqProperties
      <4>3. \A i \in 1..(Len(q) - k) : /\ i \in 1..(Len(q) - (k + 1) + 1)
                                       /\ (k + 1) + i - 1 = k + i
        BY <2>1
      <4> HIDE DEF v
      <4>4. \A i \in 1..(Len(q) - k) : v[i] = q[k + i]
        BY <4>2, <4>3
      <4>5. Len(v) = Len(q) - k
        <5>1. CASE k + 1 <= Len(q)
          <6>1. Len(v) = Len(q) - (k + 1) + 1
            BY <4>2, <5>1
          <6>2. Len(q) - (k + 1) + 1 = Len(q) - k
            BY <2>1
          <6> QED
            BY <6>1, <6>2
        <5>2. CASE ~(k + 1 <= Len(q))
          <6>1. Len(v) = 0
            BY <4>2, <5>2
          <6>2. k \in Nat /\ Len(q) \in Nat /\ k <= Len(q)
            BY <2>1
          <6>3. Len(q) - k = 0
            BY <5>2, <6>2
          <6> QED
            BY <6>1, <6>3
        <5> QED
          BY <5>1, <5>2
      <4> QED
        BY <4>2, <4>4, <4>5
    <3>3. r = u \o v
      BY DEF RemoveAt
    <3> HIDE DEF u, v, r
    <3>4. /\ r \in Seq(Slot) /\ Len(r) = Len(q) - 1
          /\ \A i \in 1..(Len(q) - 1) :
               r[i] = IF i <= k - 1 THEN u[i] ELSE v[i - (k - 1)]
      <4>1. r \in Seq(Slot) /\ Len(r) = Len(u) + Len(v)
        BY <3>1, <3>2, <3>3, ConcatProperties
      <4>2. \A i \in 1..(Len(u) + Len(v)) :
              r[i] = IF i <= Len(u) THEN u[i] ELSE v[i - Len(u)]
        BY <3>1, <3>2, <3>3
      <4>3. Len(u) + Len(v) = Len(q) - 1
        BY <2>1, <3>1, <3>2
      <4> QED
        BY <3>1, <4>1, <4>2, <4>3
    <3>5. ASSUME NEW i \in 1..(Len(q) - 1), i < k PROVE r[i] = q[i]
      BY <2>1, <3>1, <3>4, <3>5
    <3>6. ASSUME NEW i \in 1..(Len(q) - 1), ~(i < k) PROVE r[i] = q[i + 1]
      <4>1. /\ i - (k - 1) \in 1..(Len(q) - k) /\ ~(i <= k - 1)
            /\ k + (i - (k - 1)) = i + 1
        BY <2>1, <3>6
      <4> QED
        BY <3>2, <3>4, <4>1
    <3> QED
      BY <3>4, <3>5, <3>6
  <2>3. Unparked(q, s) = r
    BY <1>2 DEF Unparked, k
  <2> HIDE DEF r
  <2> DEFINE f(i) == IF i < k THEN i ELSE i + 1
  <2>4. \A i \in 1..(Len(q) - 1) : f(i) \in 1..Len(q) /\ f(i) # k /\ r[i] = q[f(i)]
    <3>1. \A i \in 1..(Len(q) - 1) : f(i) \in 1..Len(q) /\ f(i) # k
      BY <2>1
    <3>2. \A i \in 1..(Len(q) - 1) : r[i] = q[f(i)]
      BY <2>2
    <3> QED
      BY <3>1, <3>2
  <2>5. \A i, j \in 1..(Len(q) - 1) : f(i) = f(j) => i = j
    BY <2>1
  <2>6. \A j \in 1..Len(q) : j # k => \E i \in 1..(Len(q) - 1) : f(i) = j
    <3> SUFFICES ASSUME NEW j \in 1..Len(q), j # k
                 PROVE  \E i \in 1..(Len(q) - 1) : f(i) = j
      OBVIOUS
    <3>1. CASE j < k
      <4>1. j \in 1..(Len(q) - 1) /\ f(j) = j
        BY <2>1, <3>1
      <4> QED
        BY <4>1
    <3>2. CASE k < j
      <4>1. j - 1 \in 1..(Len(q) - 1) /\ f(j - 1) = j
        BY <2>1, <3>2
      <4> QED
        BY <4>1
    <3> QED
      BY <2>1, <3>1, <3>2
  <2> HIDE DEF f
  <2>7. IsInjective(r)
    BY <2>1, <2>2, <2>4, <2>5 DEF IsInjective
  <2>8. s \notin ToSet(r)
    BY <2>1, <2>2, <2>4 DEF IsInjective, ToSet
  <2>9. ToSet(r) \subseteq ToSet(q)
    BY <2>1, <2>2, <2>4 DEF ToSet
  <2>10. ASSUME NEW x \in ToSet(q), x # s PROVE x \in ToSet(r)
    <3>1. PICK j \in 1..Len(q) : q[j] = x
      BY <2>1 DEF ToSet
    <3>2. PICK i \in 1..(Len(q) - 1) : f(i) = j
      BY <2>1, <2>6, <2>10, <3>1
    <3> QED
      BY <2>2, <2>4, <3>1, <3>2 DEF ToSet
  <2> QED
    BY <2>2, <2>3, <2>7, <2>8, <2>9, <2>10
<1> QED
  BY <1>1, <1>2

-----------------------------------------------------------------------------
(* Taking a CQE. *)

\* The token of an operation of a peer names the peer by the generation of
\* its slot.
LEMMA OwedToken ==
  ASSUME Inv, NEW t \in Outstanding, t.op \in {"receive", "send", "cancel"}
  PROVE  /\ t \in Peers!Token /\ t.slot \in Slot
         /\ live[t.slot] /\ generation[t.slot] = t.gen
         /\ t = Peers!TokenOf(t.op, t.slot)
         /\ t.op = "receive" => state[t.slot].receiving
         /\ t.op = "send" => flight[t.slot] > 0
         /\ t.op = "cancel" => state[t.slot].phase = "canceling"
<1>1. t \in Peers!Token
  BY PeerInvFacts DEF Inv, Peers!TypeOK
<1> QED
  BY <1>1, PeerInvFacts, TokenKinds DEF Inv, PeerFacts, Peers!TokenOf

\* Whatever is owed is an operation of a peer or of the listener.
LEMMA OwedAny == Inv => Outstanding \subseteq AnyToken
<1> SUFFICES ASSUME Inv PROVE Outstanding \subseteq AnyToken
  OBVIOUS
<1>1. RingTypes(sq, inflight, cq)
  BY DEF Inv, LoopInv, RingOK
<1>2. ToSet(sq) \subseteq AnyToken /\ inflight \subseteq AnyToken
  BY <1>1 DEF RingTypes, ToSet
<1>3. \A i \in DOMAIN cq : cq[i] \in Cqes
  BY <1>1 DEF RingTypes
<1>4. EndedIn(cq) \subseteq AnyToken
  BY <1>3 DEF EndedIn, EndingIn, Cqes
<1> QED
  BY <1>2, <1>4, OutstandingIsOwed DEF Owed

\* What holds of every CQE that is taken.
LEMMA Taken ==
  ASSUME Inv, NEW op, Handles(op)
  PROVE  LET c == Head(cq) IN
         /\ c \in Cqes /\ Shaped(c) /\ c.token.op = op
         /\ c.token \in Outstanding
         /\ RingOK(sq, inflight', cq')
         /\ Owed(sq, inflight', cq') =
              IF c.more THEN Outstanding ELSE Outstanding \ {c.token}
         /\ Cardinality(Held(cq')) <= BufferCount
         /\ \A i \in DOMAIN cq' : /\ \E j \in DOMAIN cq : cq'[i] = cq[j]
                                  /\ cq'[i].token \in Owed(sq, inflight', cq')
         /\ pc' = "dispatch" /\ shutdown' = shutdown /\ due' = due
         /\ inflight' = inflight
<1> DEFINE c == Head(cq)
<1>1. /\ cq # <<>> /\ c.token.op = op /\ cq' = Tail(cq) /\ pc' = "dispatch"
      /\ shutdown' = shutdown /\ due' = due /\ inflight' = inflight
  BY DEF Handles
<1>2. RingOK(sq, inflight, cq)
  BY DEF Inv, LoopInv
<1>3. /\ RingOK(sq, inflight, Tail(cq)) /\ c \in Cqes /\ Shaped(c)
      /\ c.token \in Owed(sq, inflight, cq)
      /\ Owed(sq, inflight, Tail(cq)) =
           IF c.more THEN Owed(sq, inflight, cq)
                     ELSE Owed(sq, inflight, cq) \ {c.token}
  BY <1>1, <1>2, RingPop
<1>4. cq \in Seq(Cqes)
  BY <1>2 DEF RingOK, RingTypes
<1>5. Cardinality(Held(cq')) <= BufferCount
  <2>1. /\ Cardinality(Held(cq)) \in Nat /\ Cardinality(Held(cq')) \in Nat
        /\ Cardinality(Held(cq')) <= Cardinality(Held(cq))
    BY <1>1, <1>4, HeldTail
  <2>2. Cardinality(Held(cq)) <= BufferCount
    BY DEF Inv, LoopInv, LoopTypes
  <2> QED
    BY <2>1, <2>2, BufferAssumption
<1>6. ASSUME NEW i \in DOMAIN cq'
      PROVE  /\ \E j \in DOMAIN cq : cq'[i] = cq[j]
             /\ cq'[i].token \in Owed(sq, inflight, cq')
  <2>1. /\ DOMAIN cq' = 1..(Len(cq) - 1) /\ Len(cq) \in Nat \ {0}
        /\ \A k \in 1..(Len(cq) - 1) : cq'[k] = cq[k + 1]
        /\ DOMAIN cq = 1..Len(cq)
    BY <1>1, <1>4, TailSet
  <2>2. i + 1 \in DOMAIN cq /\ cq'[i] = cq[i + 1]
    BY <2>1
  <2>3. EndsLast(sq, inflight, cq')
    BY <1>1, <1>3 DEF RingOK
  <2> QED
    BY <2>2, <2>3, CqeOwed
<1> HIDE DEF c
<1> QED
  BY <1>1, <1>3, <1>5, <1>6, OutstandingIsOwed DEF c

\* What a step leaves alone of every peer but s.
OthersSame(s) ==
  \A r \in Slot \ {s} :
    /\ live'[r] = live[r] /\ generation'[r] = generation[r]
    /\ state'[r] = state[r] /\ queued'[r] = queued[r] /\ flight'[r] = flight[r]

\* A live peer has an entry, and a freshly scheduled one is in the FIFO once.
LEMMA ScheduledPeer ==
  ASSUME Inv, NEW s \in Slot, live[s]
  PROVE  /\ PendingOf(s) \in Entry
         /\ Scheduled(pending, PendingOf(s)) \in Seq(Entry)
         /\ IsInjective(Scheduled(pending, PendingOf(s)))
         /\ ToSet(Scheduled(pending, PendingOf(s))) =
              ToSet(pending) \cup {PendingOf(s)}
<1>1. PendingOf(s) \in Entry /\ PendingOf(s).slot = s
  BY PeerInvFacts, GenerationAssumption DEF Inv, PeerFacts, PendingOf, Entry
<1>2. \A x \in ToSet(pending) : x.slot = s => x = PendingOf(s)
  BY DEF Inv, LoopInv, Fifos, QueuesAreFresh
<1>3. pending \in Seq(Entry) /\ IsInjective(pending)
  BY DEF Inv, LoopInv, Fifos, QueuesAreFresh
<1> QED
  BY <1>1, <1>2, <1>3, ScheduledSet

\* A peer that is scheduled, or needs nothing, is covered, and so are those
\* the step leaves alone.
LEMMA CoveredAfter ==
  ASSUME PendingCoversWork, NEW s, OthersSame(s),
         \A e \in ToSet(pending) : e.slot # s => e \in ToSet(pending'),
         s \in Slot /\ live'[s] =>
           \/ PendingOf(s)' \in ToSet(pending')
           \/ ~NeedsSend(s)' /\ ~NeedsCancel(s)' /\ ~Destroyable(s)'
  PROVE  PendingCoversWork'
<1> SUFFICES ASSUME NEW r \in Slot, live'[r], r # s
             PROVE  \/ PendingOf(r)' \in ToSet(pending')
                    \/ ~NeedsSend(r)' /\ ~NeedsCancel(r)' /\ ~Destroyable(r)'
  BY DEF PendingCoversWork
<1>1. /\ live[r] /\ generation'[r] = generation[r] /\ state'[r] = state[r]
      /\ queued'[r] = queued[r] /\ flight'[r] = flight[r]
  BY DEF OthersSame
<1>2. \/ PendingOf(r) \in ToSet(pending)
      \/ ~NeedsSend(r) /\ ~NeedsCancel(r) /\ ~Destroyable(r)
  BY <1>1 DEF PendingCoversWork
<1>3. PendingOf(r)' = PendingOf(r) /\ PendingOf(r).slot = r
  BY <1>1 DEF PendingOf
<1> QED
  BY <1>1, <1>2, <1>3 DEF NeedsSend, NeedsCancel, Destroyable, Peers!CanDeinit

\* What the three handlers of a peer's CQEs have in common: the peer is
\* scheduled, possibly parked, and stays closing if it was.
PeerHandled(op, s) ==
  /\ live' = live /\ generation' = generation
  /\ listener' = listener /\ sq' = sq /\ permit' \in BOOLEAN
  /\ OthersSame(s)
  /\ state'[s].phase # "protocol_error"
  /\ IsClosing(state[s]) => IsClosing(state'[s])
  /\ op # "send" => flight' = flight
  /\ deferred' \in {deferred, Parked(deferred, s)}
  /\ pending' = Scheduled(pending, PendingOf(s))

\* Such a handler preserves the loop's invariant.
LEMMA PeerHandledLoop ==
  ASSUME Inv, NEW op \in {"receive", "send", "cancel"}, Handles(op),
         Head(cq).token.op = op, PeerHandled(op, Head(cq).token.slot)
  PROVE  LoopInv'
<1> DEFINE c == Head(cq)
           s == c.token.slot
<1>1. /\ c \in Cqes /\ Shaped(c) /\ c.token.op = op /\ c.token \in Outstanding
      /\ RingOK(sq, inflight', cq')
      /\ Owed(sq, inflight', cq') =
           IF c.more THEN Outstanding ELSE Outstanding \ {c.token}
      /\ Cardinality(Held(cq')) <= BufferCount
      /\ \A i \in DOMAIN cq' : /\ \E j \in DOMAIN cq : cq'[i] = cq[j]
                               /\ cq'[i].token \in Owed(sq, inflight', cq')
      /\ pc' = "dispatch" /\ shutdown' = shutdown /\ due' = due
  BY Taken
<1>2. /\ c.token \in Peers!Token /\ s \in Slot /\ live[s]
      /\ generation[s] = c.token.gen
      /\ c.token = Peers!TokenOf(op, s)
  BY <1>1, OwedToken
<1>3. /\ live' = live /\ generation' = generation
      /\ listener' = listener /\ sq' = sq /\ permit' \in BOOLEAN
      /\ OthersSame(s)
      /\ state'[s].phase # "protocol_error"
      /\ IsClosing(state[s]) => IsClosing(state'[s])
      /\ op # "send" => flight' = flight
      /\ deferred' \in {deferred, Parked(deferred, s)}
      /\ pending' = Scheduled(pending, PendingOf(s))
  BY DEF PeerHandled
<1> HIDE DEF c, s
<1>4. Outstanding' = IF c.more THEN Outstanding ELSE Outstanding \ {c.token}
  BY <1>1, <1>3, OutstandingIsOwed
<1>5. RingOK(sq, inflight, cq)'
  BY <1>1, <1>3
<1>6. LoopTypes'
  <2>1. LoopTypes
    BY DEF Inv, LoopInv
  <2> QED
    BY <1>1, <1>3, <2>1 DEF LoopTypes
<1>7. SendsFit'
  <2> SUFFICES ASSUME NEW i \in DOMAIN cq', cq'[i].token.op = "send"
               PROVE  cq'[i].n <= flight'[cq'[i].token.slot]
    BY DEF SendsFit
  <2> DEFINE t == cq'[i].token
  <2>1. t \in Outstanding
    BY <1>1
  <2>2. t \in Peers!Token /\ t.slot \in Slot /\ t = Peers!TokenOf("send", t.slot)
    BY <2>1, OwedToken
  <2>3. cq'[i].n <= flight[t.slot]
    BY <1>1 DEF Inv, LoopInv, SendsFit
  <2>4. CASE op = "send" /\ t.slot = s
    <3>1. t = c.token
      BY <1>2, <2>2, <2>4
    <3>2. ~c.more
      BY <1>1, <2>4, TokenKinds DEF Shaped
    <3> QED
      BY <1>1, <3>1, <3>2
  <2>5. CASE op # "send" \/ t.slot # s
    BY <1>3, <2>2, <2>3, <2>5 DEF OthersSame
  <2> QED
    BY <2>4, <2>5
<1>8. ListenerMirrored'
  BY <1>2, <1>3, <1>4, TokenKinds DEF Inv, LoopInv, ListenerMirrored
<1>9. /\ pending' \in Seq(Entry) /\ IsInjective(pending')
      /\ ToSet(pending') = ToSet(pending) \cup {PendingOf(s)}
  BY <1>2, <1>3, ScheduledPeer
<1>10. /\ deferred' \in Seq(Slot) /\ IsInjective(deferred')
       /\ ToSet(deferred') \subseteq ToSet(deferred) \cup {s}
  BY <1>2, <1>3, ParkedSet DEF Inv, LoopInv, Fifos, QueuesAreFresh
<1>11. \A r : PendingOf(r)' = PendingOf(r) /\ PendingOf(r).slot = r
  BY <1>3 DEF PendingOf
<1>12. Fifos'
  <2>1. /\ \A e \in ToSet(pending) : live[e.slot] /\ e = PendingOf(e.slot)
        /\ \A r \in ToSet(deferred) : live[r]
    BY DEF Inv, LoopInv, Fifos, QueuesAreFresh
  <2> QED
    BY <1>2, <1>3, <1>9, <1>10, <1>11, <2>1 DEF Fifos, QueuesAreFresh
<1>13. PendingCoversWork'
  <2>1. PendingCoversWork
    BY DEF Inv, LoopInv
  <2>2. PICK r \in Slot : r = s
    BY <1>2
  <2>3. OthersSame(r) /\ \A e \in ToSet(pending) : e \in ToSet(pending')
    BY <1>3, <1>9, <2>2
  <2>4. PendingOf(r)' \in ToSet(pending')
    BY <1>9, <1>11, <2>2
  <2> QED
    BY <2>1, <2>3, <2>4, CoveredAfter
<1>14. ShutdownCloses'
  <2>1. shutdown => \A r \in Slot : live[r] => IsClosing(state[r])
    BY DEF Inv, LoopInv, ShutdownCloses
  <2>2. ASSUME shutdown', NEW r \in Slot, live'[r] PROVE IsClosing(state'[r])
    <3>1. CASE r = s
      BY <1>1, <1>3, <2>1, <2>2, <3>1
    <3>2. CASE r # s
      BY <1>1, <1>3, <2>1, <2>2, <3>2 DEF OthersSame, IsClosing
    <3> QED
      BY <3>1, <3>2
  <2> QED
    BY <2>2 DEF ShutdownCloses
<1>15. NoHalfError'
  <2>1. \A r \in Slot : state[r].phase # "protocol_error"
    BY DEF Inv, LoopInv, NoHalfError
  <2> QED
    BY <1>3, <2>1 DEF NoHalfError, OthersSame
<1>16. SweepHasWork'
  BY <1>1 DEF SweepHasWork
<1> QED
  BY <1>5, <1>6, <1>7, <1>8, <1>12, <1>13, <1>14, <1>15, <1>16 DEF LoopInv

\* A receive CQE: the statechart never leaves closing nor half an error.
LEMMA DispatchedPhase ==
  ASSUME NEW st \in State, NEW bytes \in 0..ByteBudget, NEW result, NEW c,
         NEW outcome \in OutcomesOf(c), st.phase # "protocol_error"
  PROVE  LET next == Step(st, Peers!ReceiveInput(st, result)) IN
         /\ next \in State
         /\ next.phase # "protocol_error"
         /\ IsClosing(st) => IsClosing(next)
         /\ Peers!Dispatched(st, bytes, outcome).state.phase # "protocol_error"
         /\ IsClosing(st) => IsClosing(Peers!Dispatched(st, bytes, outcome).state)
<1>1. Peers!ReceiveInput(st, result) \in
        {"receive_continues", "receive_stops", "receive_closes"}
  BY DEF Peers!ReceiveInput
<1>2. ASSUME NEW input \in {"receive_continues", "receive_stops",
                            "receive_closes", "begin_close"}
      PROVE  /\ Step(st, input) \in State
             /\ Step(st, input).phase # "protocol_error"
             /\ IsClosing(st) => IsClosing(Step(st, input))
  <2>1. Step(st, input) = IF ~Accepts(st, input) THEN st ELSE
          IF input = "receive_continues" THEN st
          ELSE IF input = "receive_stops" THEN [st EXCEPT !.receiving = FALSE]
          ELSE IF input = "receive_closes"
               THEN [phase |-> ClosedPhase(st), receiving |-> FALSE]
          ELSE [st EXCEPT !.phase = ClosedPhase(st)]
    BY ZenonT(30) DEF Step
  <2>2. /\ ClosedPhase(st) \in Phase /\ ClosedPhase(st) # "protocol_error"
        /\ ClosedPhase(st) \in {"closing", "canceling", "canceled"}
    BY DEF State, Phase, ClosedPhase, IsClosing
  <2>3. st.phase \in Phase /\ st.receiving \in BOOLEAN
    BY DEF State
  <2>4. /\ [st EXCEPT !.receiving = FALSE] = [phase |-> st.phase, receiving |-> FALSE]
        /\ [st EXCEPT !.phase = ClosedPhase(st)] =
             [phase |-> ClosedPhase(st), receiving |-> st.receiving]
        /\ st = [phase |-> st.phase, receiving |-> st.receiving]
    <3> DEFINE off == FALSE
    <3> HIDE DEF off
    <3>1. [st EXCEPT !.receiving = off] = [phase |-> st.phase, receiving |-> off]
      BY DEF State
    <3> QED
      BY <3>1 DEF State, off
  <2>5. PICK ph \in {st.phase, ClosedPhase(st)}, rc \in BOOLEAN :
          Step(st, input) = [phase |-> ph, receiving |-> rc]
    BY <2>1, <2>3, <2>4
  <2> QED
    BY <2>2, <2>3, <2>5 DEF State, IsClosing
<1>3. /\ Peers!Dispatched(st, bytes, outcome).state.phase # "protocol_error"
      /\ IsClosing(st) => IsClosing(Peers!Dispatched(st, bytes, outcome).state)
  <2>1. Peers!Step(st, "begin_close") = Step(st, "begin_close")
    BY SameStatechart
  <2> QED
    BY <1>2, <2>1 DEF Peers!Dispatched, State, IsClosing
<1> QED
  BY <1>1, <1>2, <1>3

\* A set, as one flag for each of its possible elements.
Flags(S, A) == [r \in S |-> r \in A]

\* One flag is set.
LEMMA FlagSet ==
  ASSUME NEW S, NEW A, NEW B, NEW s \in S, NEW p \in BOOLEAN,
         \A r \in S : r # s => (r \in A <=> r \in B),
         s \in A <=> s \in B \/ p
  PROVE  Flags(S, A) = [Flags(S, B) EXCEPT ![s] = @ \/ p]
<1> DEFINE F == [r \in S |-> r \in A]
           G == [r \in S |-> r \in B]
           on == G[s] \/ p
           H == [G EXCEPT ![s] = on]
<1>1. \A r \in S : F[r] <=> H[r]
  OBVIOUS
<1>2. F \in [S -> BOOLEAN]
  OBVIOUS
<1>3. H \in [S -> BOOLEAN]
  <2>1. G \in [S -> BOOLEAN] /\ on \in BOOLEAN
    OBVIOUS
  <2> HIDE DEF G, on
  <2> QED
    BY <2>1
<1>4. F = H
  <2> HIDE DEF F, H
  <2> QED
    BY <1>1, <1>2, <1>3
<1> QED
  BY <1>4 DEF Flags

\* One flag cleared.
Cleared(S, B, s) == [Flags(S, B) EXCEPT ![s] = FALSE]

\* Removing an element clears its flag.
LEMMA FlagClear ==
  ASSUME NEW S, NEW A, NEW B, NEW s \in S, A = B \ {s}
  PROVE  Flags(S, A) = Cleared(S, B, s)
<1> DEFINE off == FALSE
           F == [r \in S |-> r \in A]
           G == [r \in S |-> r \in B]
           H == [G EXCEPT ![s] = off]
<1>1. \A r \in S : F[r] <=> H[r]
  <2>1. \A r \in S : (G[r] <=> r \in B) /\ (F[r] <=> r \in A)
    OBVIOUS
  <2>2. H[s] = off /\ \A r \in S : r # s => H[r] = G[r]
    <3> HIDE DEF off
    <3> QED
      OBVIOUS
  <2>3. off = FALSE
    OBVIOUS
  <2> HIDE DEF F, G, H, off
  <2> QED
    BY <2>1, <2>2, <2>3
<1>2. F \in [S -> BOOLEAN]
  OBVIOUS
<1>3. H \in [S -> BOOLEAN]
  <2>1. G \in [S -> BOOLEAN] /\ off \in BOOLEAN
    OBVIOUS
  <2> HIDE DEF G, off
  <2> QED
    BY <2>1
<1>4. F = H
  <2> HIDE DEF F, H
  <2> QED
    BY <1>1, <1>2, <1>3
<1> QED
  BY <1>4 DEF Flags, Cleared

\* HandleReceive is a receive completion of Connection.
LEMMA HandleReceiveStep ==
  ASSUME Inv, HandleReceive
  PROVE  LoopInv' /\ PeersStep
<1> DEFINE c == Head(cq)
           s == c.token.slot
           st == Step(state[s], Peers!ReceiveInput(state[s], ResultOf(c)))
           after(outcome) == IF HoldsBuffer(c)
                             THEN Peers!Dispatched(st, queued[s], outcome)
                             ELSE [state |-> st, queued |-> queued[s]]
<1>1. /\ Handles("receive")
      /\ UNCHANGED <<live, generation, flight, listener, sq>>
  BY DEF HandleReceive
<1>2. PICK outcome \in OutcomesOf(c) :
        /\ outcome.kind = "handled" => queued[s] + outcome.n <= ByteBudget
        /\ state' = [state EXCEPT ![s] = after(outcome).state]
        /\ queued' = [queued EXCEPT ![s] = after(outcome).queued]
        /\ permit' = (permit \/ HoldsBuffer(c))
        /\ deferred' = IF Peers!Parks(ResultOf(c), after(outcome).state)
                       THEN Parked(deferred, s) ELSE deferred
        /\ pending' = Scheduled(pending, PendingOf(s))
  BY DEF HandleReceive
<1>3. /\ c \in Cqes /\ Shaped(c) /\ c.token.op = "receive" /\ c.token \in Outstanding
      /\ Owed(sq, inflight', cq') =
           IF c.more THEN Outstanding ELSE Outstanding \ {c.token}
  BY <1>1, Taken
<1>4. /\ c.token \in Peers!Token /\ s \in Slot /\ live[s]
      /\ generation[s] = c.token.gen /\ state[s].receiving
  BY <1>3, OwedToken
<1>5. /\ state \in [Slot -> State] /\ queued \in [Slot -> 0..ByteBudget]
      /\ state[s] \in State /\ queued[s] \in 0..ByteBudget
      /\ state[s].phase # "protocol_error"
  BY <1>4, PeerInvFacts DEF Inv, PeerFacts, LoopInv, NoHalfError
<1>6. st \in State /\ st.phase # "protocol_error" /\ (IsClosing(state[s]) => IsClosing(st))
  BY <1>2, <1>5, DispatchedPhase
<1>7. /\ after(outcome).state.phase # "protocol_error"
      /\ IsClosing(state[s]) => IsClosing(after(outcome).state)
  BY <1>2, <1>5, <1>6, DispatchedPhase
<1> HIDE DEF st, s, c
<1>8. PeerHandled("receive", s)
  <2>1. /\ state'[s] = after(outcome).state
        /\ \A r \in Slot \ {s} : state'[r] = state[r] /\ queued'[r] = queued[r]
    BY <1>2, <1>4, <1>5
  <2>2. permit' \in BOOLEAN
    BY <1>2 DEF Inv, LoopInv, LoopTypes
  <2>3. deferred' \in {deferred, Parked(deferred, s)}
    BY <1>2
  <2> HIDE DEF after
  <2> QED
    BY <1>1, <1>2, <1>7, <2>1, <2>2, <2>3 DEF PeerHandled, OthersSame
<1>9. LoopInv'
  BY <1>1, <1>3, <1>8, PeerHandledLoop DEF c, s
<1>10. ResultOf(c) \in Peers!ReceiveResult
       /\ (HoldsBuffer(c) <=> ResultOf(c) \in {"data_more", "data_last"})
       /\ (c.more <=> ResultOf(c) = "data_more")
  BY <1>3, TokenKinds DEF Shaped, Cqes, ResultOf, HoldsBuffer, Peers!ReceiveResult
<1>11. outcome \in Peers!Outcome
  BY <1>2, BudgetAssumption DEF OutcomesOf, Peers!Outcome
<1>12. PeerOps' = IF ResultOf(c) = "data_more" THEN PeerOps ELSE PeerOps \ {c.token}
  BY <1>1, <1>3, <1>10, OutstandingIsOwed DEF PeerOps
<1> DEFINE parks == Peers!Parks(ResultOf(c), after(outcome).state)
<1>13. Flags(Slot, ToSet(deferred')) =
         [Flags(Slot, ToSet(deferred)) EXCEPT ![s] = @ \/ parks]
  <2>1. ToSet(Parked(deferred, s)) = ToSet(deferred) \cup {s}
    BY <1>4, ParkedSet DEF Inv, LoopInv, Fifos, QueuesAreFresh
  <2>2. ToSet(deferred') = IF parks THEN ToSet(deferred) \cup {s} ELSE ToSet(deferred)
    BY <1>2, <2>1
  <2>3. parks \in BOOLEAN
    BY DEF Peers!Parks
  <2> HIDE DEF after, parks
  <2>4. \A r \in Slot : r # s => (r \in ToSet(deferred') <=> r \in ToSet(deferred))
    BY <2>2
  <2>5. s \in ToSet(deferred') <=> s \in ToSet(deferred) \/ parks
    BY <2>2
  <2> QED
    BY <1>4, <2>3, <2>4, <2>5, FlagSet
<1>14. PICK t \in Peers!Token, result \in Peers!ReceiveResult :
         t = c.token /\ result = ResultOf(c)
  BY <1>4, <1>10
<1>15. Peers!CompleteReceive(t, result, outcome)
  <2>1. Peers!Step(state[s], Peers!ReceiveInput(state[s], ResultOf(c))) = st
    BY SameStatechart DEF st
  <2>2. (IF ResultOf(c) \in {"data_more", "data_last"}
         THEN Peers!Dispatched(st, queued[s], outcome)
         ELSE [state |-> st, queued |-> queued[s]]) = after(outcome)
    BY <1>10
  <2>3. t.slot = s
    BY <1>14 DEF s
  <2> HIDE DEF after
  <2> QED
    BY <1>1, <1>2, <1>12, <1>13, <1>14, <2>1, <2>2, <2>3
       DEF Peers!CompleteReceive, PeerOps, Flags
<1>16. Peers!Routes(t) /\ t.op = "receive"
  BY <1>3, <1>4, <1>14 DEF Peers!Routes, s
<1>17. Peers!Complete(t, result, outcome, 0)
  BY <1>15, <1>16 DEF Peers!Complete
<1>18. t \in PeerOps /\ 0 \in 0..ByteBudget
  BY <1>3, <1>14, BudgetAssumption DEF PeerOps
<1>19. Peers!Next
  BY <1>11, <1>17, <1>18 DEF Peers!Next, PeerOps
<1> QED
  BY <1>9, <1>19 DEF PeersStep

\* Neither does any other transition the loop makes.
LEMMA StepPhase ==
  ASSUME NEW st \in State, st.phase # "protocol_error",
         NEW input \in {"send_fails", "send_drained", "cancel_completes",
                        "begin_close", "request_cancel", "arm_receive"}
  PROVE  /\ Step(st, input) \in State
         /\ Step(st, input).phase # "protocol_error"
         /\ IsClosing(st) => IsClosing(Step(st, input))
         /\ input = "cancel_completes" /\ st.phase = "canceling"
              => Step(st, input).phase = "canceled"
         /\ input = "begin_close" => IsClosing(Step(st, input))
         /\ input = "request_cancel" /\ ~CancelRequested(st)
              => Step(st, input) = [st EXCEPT !.phase = "canceling"]
         /\ input = "arm_receive" =>
              Step(st, input).phase = st.phase
<1>1. Step(st, input) = IF ~Accepts(st, input) THEN st ELSE
        IF input = "arm_receive" THEN [st EXCEPT !.receiving = TRUE]
        ELSE IF input \in {"send_fails", "begin_close"}
             THEN [st EXCEPT !.phase = ClosedPhase(st)]
        ELSE IF input = "request_cancel" THEN [st EXCEPT !.phase = "canceling"]
        ELSE IF input = "send_drained"
             THEN IF st.phase = "draining" THEN [st EXCEPT !.phase = "closing"]
                                           ELSE st
        ELSE [st EXCEPT !.phase = "canceled"]
  BY ZenonT(30) DEF Step
<1>2. /\ input \in {"send_fails", "begin_close", "send_drained"} => Accepts(st, input)
      /\ input = "request_cancel" => (Accepts(st, input) <=> ~CancelRequested(st))
      /\ input = "cancel_completes" => (Accepts(st, input) <=> st.phase = "canceling")
  BY DEF Accepts
<1>3. ClosedPhase(st) \in {"closing", "canceling", "canceled"}
  BY DEF ClosedPhase, IsClosing
<1>4. ASSUME NEW ph \in Phase
      PROVE  /\ [st EXCEPT !.phase = ph] \in State
             /\ [st EXCEPT !.phase = ph].phase = ph
  BY DEF State
<1>5. /\ [st EXCEPT !.receiving = TRUE] \in State
      /\ [st EXCEPT !.receiving = TRUE].phase = st.phase
  BY DEF State
<1>6. {"closing", "canceling", "canceled"} \subseteq Phase
  BY DEF Phase
<1>7. CASE input = "arm_receive"
  BY <1>1, <1>5, <1>7 DEF IsClosing
<1>8. CASE input \in {"send_fails", "begin_close"}
  BY <1>1, <1>2, <1>3, <1>4, <1>6, <1>8 DEF IsClosing
<1>9. CASE input = "request_cancel"
  BY <1>1, <1>2, <1>4, <1>6, <1>9 DEF IsClosing
<1>10. CASE input = "send_drained"
  BY <1>1, <1>2, <1>4, <1>6, <1>10 DEF IsClosing
<1>11. CASE input = "cancel_completes"
  BY <1>1, <1>2, <1>4, <1>6, <1>11 DEF IsClosing
<1> QED
  BY <1>7, <1>8, <1>9, <1>10, <1>11

\* An answer exists, for the completions that look at none.
LEMMA AnyAnswer ==
  /\ "failed" \in Peers!ReceiveResult
  /\ [kind |-> "eof", n |-> 0] \in Peers!Outcome
  /\ 0 \in 0..ByteBudget
BY BudgetAssumption DEF Peers!ReceiveResult, Peers!Outcome

\* HandleSend is a send completion of Connection.
LEMMA HandleSendStep ==
  ASSUME Inv, HandleSend
  PROVE  LoopInv' /\ PeersStep
<1> DEFINE c == Head(cq)
           s == c.token.slot
           left == queued[s] - c.n
<1>1. /\ Handles("send")
      /\ UNCHANGED <<live, generation, deferred, permit, listener, sq>>
      /\ queued' = [queued EXCEPT ![s] = left]
      /\ flight' = [flight EXCEPT ![s] = 0]
      /\ state' = [state EXCEPT ![s] = Peers!AfterSend(@, c.n, left)]
      /\ pending' = Scheduled(pending, PendingOf(s))
  BY DEF HandleSend
<1>2. /\ c \in Cqes /\ Shaped(c) /\ c.token.op = "send" /\ c.token \in Outstanding
      /\ Owed(sq, inflight', cq') =
           IF c.more THEN Outstanding ELSE Outstanding \ {c.token}
  BY <1>1, Taken
<1>3. /\ c.token \in Peers!Token /\ s \in Slot /\ live[s]
      /\ generation[s] = c.token.gen
  BY <1>2, OwedToken
<1>4. /\ state \in [Slot -> State] /\ queued \in [Slot -> 0..ByteBudget]
      /\ flight \in [Slot -> 0..ByteBudget]
      /\ state[s] \in State /\ state[s].phase # "protocol_error"
  BY <1>3, PeerInvFacts DEF Inv, PeerFacts, LoopInv, NoHalfError
<1>5. c.n \in 0..ByteBudget /\ c.n <= flight[s]
  <2>1. cq # <<>> /\ cq \in Seq(Cqes)
    BY <1>1 DEF Handles, Inv, LoopInv, RingOK, RingTypes
  <2>2. 1 \in DOMAIN cq /\ c = cq[1]
    BY <2>1
  <2> QED
    BY <1>2, <2>2 DEF Inv, LoopInv, SendsFit, Cqes
<1> HIDE DEF s, c, left
<1>6. /\ state'[s] = Peers!AfterSend(state[s], c.n, left)
      /\ \A r \in Slot \ {s} : /\ state'[r] = state[r] /\ queued'[r] = queued[r]
                               /\ flight'[r] = flight[r]
  BY <1>1, <1>3, <1>4
<1>7. /\ state'[s].phase # "protocol_error"
      /\ IsClosing(state[s]) => IsClosing(state'[s])
  <2>1. state'[s] \in {state[s], Step(state[s], "send_fails"),
                       Step(state[s], "send_drained")}
    BY <1>5, <1>6, SameStatechart DEF Peers!AfterSend
  <2> QED
    BY <1>4, <2>1, StepPhase
<1>8. PeerHandled("send", s)
  <2>1. permit' \in BOOLEAN
    BY <1>1 DEF Inv, LoopInv, LoopTypes
  <2> QED
    BY <1>1, <1>6, <1>7, <2>1 DEF PeerHandled, OthersSame
<1>9. LoopInv'
  BY <1>1, <1>2, <1>8, PeerHandledLoop DEF c, s
<1>10. ~c.more
  BY <1>2, TokenKinds DEF Shaped
<1>11. PeerOps' = PeerOps \ {c.token}
  BY <1>1, <1>2, <1>10, OutstandingIsOwed DEF PeerOps
<1>12. PICK t \in Peers!Token, written \in 0..ByteBudget :
         t = c.token /\ written = c.n
  BY <1>3, <1>5
<1>13. t.slot = s
  BY <1>12 DEF s
<1>14. Peers!CompleteSend(t, written)
  BY <1>1, <1>5, <1>11, <1>12, <1>13 DEF Peers!CompleteSend, PeerOps, left
<1>15. Peers!Routes(t) /\ t.op = "send"
  BY <1>2, <1>3, <1>12 DEF Peers!Routes, s
<1>16. PICK result \in Peers!ReceiveResult, outcome \in Peers!Outcome : TRUE
  BY AnyAnswer
<1>17. Peers!Complete(t, result, outcome, written)
  BY <1>14, <1>15 DEF Peers!Complete
<1>18. t \in PeerOps
  BY <1>2, <1>12 DEF PeerOps
<1>19. Peers!Next
  BY <1>17, <1>18 DEF Peers!Next, PeerOps
<1> QED
  BY <1>9, <1>19 DEF PeersStep

\* HandleCancel is a cancel completion of Connection.
LEMMA HandleCancelStep ==
  ASSUME Inv, HandleCancel
  PROVE  LoopInv' /\ PeersStep
<1> DEFINE c == Head(cq)
           s == c.token.slot
<1>1. /\ Handles("cancel")
      /\ UNCHANGED <<live, generation, queued, flight, deferred, permit, listener, sq>>
      /\ state' = [state EXCEPT ![s] = Step(@, "cancel_completes")]
      /\ pending' = Scheduled(pending, PendingOf(s))
  BY DEF HandleCancel
<1>2. /\ c \in Cqes /\ Shaped(c) /\ c.token.op = "cancel" /\ c.token \in Outstanding
      /\ Owed(sq, inflight', cq') =
           IF c.more THEN Outstanding ELSE Outstanding \ {c.token}
  BY <1>1, Taken
<1>3. /\ c.token \in Peers!Token /\ s \in Slot /\ live[s]
      /\ generation[s] = c.token.gen
  BY <1>2, OwedToken
<1>4. /\ state \in [Slot -> State]
      /\ state[s] \in State /\ state[s].phase # "protocol_error"
  BY <1>3, PeerInvFacts DEF Inv, PeerFacts, LoopInv, NoHalfError
<1> HIDE DEF s, c
<1>5. /\ state'[s] = Step(state[s], "cancel_completes")
      /\ \A r \in Slot \ {s} : state'[r] = state[r]
  BY <1>1, <1>3, <1>4
<1>6. /\ state'[s].phase # "protocol_error"
      /\ IsClosing(state[s]) => IsClosing(state'[s])
  BY <1>4, <1>5, StepPhase
<1>7. PeerHandled("cancel", s)
  <2>1. permit' \in BOOLEAN
    BY <1>1 DEF Inv, LoopInv, LoopTypes
  <2> QED
    BY <1>1, <1>5, <1>6, <2>1 DEF PeerHandled, OthersSame
<1>8. LoopInv'
  BY <1>1, <1>2, <1>7, PeerHandledLoop DEF c, s
<1>9. ~c.more
  BY <1>2, TokenKinds DEF Shaped
<1>10. PeerOps' = PeerOps \ {c.token}
  BY <1>1, <1>2, <1>9, OutstandingIsOwed DEF PeerOps
<1>11. PICK t \in Peers!Token : t = c.token
  BY <1>3
<1>12. t.slot = s
  BY <1>11 DEF s
<1>13. Peers!CompleteCancel(t)
  BY <1>1, <1>10, <1>11, <1>12, SameStatechart DEF Peers!CompleteCancel, PeerOps
<1>14. Peers!Routes(t) /\ t.op = "cancel"
  BY <1>2, <1>3, <1>11 DEF Peers!Routes, s
<1>15. PICK result \in Peers!ReceiveResult, outcome \in Peers!Outcome,
            written \in 0..ByteBudget : TRUE
  BY AnyAnswer
<1>16. Peers!Complete(t, result, outcome, written)
  BY <1>13, <1>14 DEF Peers!Complete
<1>17. t \in PeerOps
  BY <1>2, <1>11 DEF PeerOps
<1>18. Peers!Next
  BY <1>16, <1>17 DEF Peers!Next, PeerOps
<1> QED
  BY <1>8, <1>18 DEF PeersStep

-----------------------------------------------------------------------------
(* The listener's CQEs. *)

\* A step that leaves the peers alone is none of Connection.
PeersSame == UNCHANGED <<live, generation, state, queued, flight>>

\* Such a step is a stuttering step of Connection.
LEMMA PeersSameStep ==
  ASSUME PeersSame, PeerOps' = PeerOps, ToSet(deferred') = ToSet(deferred)
  PROVE  PeersStep
BY DEF PeersSame, PeersStep, Peers!vars, PeerOps

\* What is invariant of a step that leaves the peers and the pending FIFO alone.
LEMMA PeersSameLoop ==
  ASSUME Inv, PeersSame, pending' = pending
  PROVE  /\ PendingCoversWork' /\ NoHalfError'
         /\ shutdown' = shutdown => ShutdownCloses'
         /\ deferred' = deferred => Fifos'
<1>1. \A s : PendingOf(s)' = PendingOf(s)
  BY DEF PeersSame, PendingOf
<1>2. PendingCoversWork'
  <2>1. PendingCoversWork
    BY DEF Inv, LoopInv
  <2> QED
    BY <1>1, <2>1 DEF PeersSame, PendingCoversWork, NeedsSend, NeedsCancel,
                      Destroyable, Peers!CanDeinit
<1>3. NoHalfError'
  BY DEF Inv, LoopInv, NoHalfError, PeersSame
<1>4. ASSUME shutdown' = shutdown PROVE ShutdownCloses'
  BY <1>4 DEF Inv, LoopInv, ShutdownCloses, PeersSame
<1>5. ASSUME deferred' = deferred PROVE Fifos'
  BY <1>1, <1>5 DEF Inv, LoopInv, Fifos, QueuesAreFresh, PeersSame
<1> QED
  BY <1>2, <1>3, <1>4, <1>5

\* The sends still fit if the sends and their CQEs stay as they are.
LEMMA SendsFitTaken ==
  ASSUME Inv, flight' = flight,
         \A i \in DOMAIN cq' : \E j \in DOMAIN cq : cq'[i] = cq[j]
  PROVE  SendsFit'
BY DEF Inv, LoopInv, SendsFit

\* The end of the multishot accept.
LEMMA HandleAcceptEndStep ==
  ASSUME Inv, HandleAcceptEnd
  PROVE  LoopInv' /\ PeersStep
<1> DEFINE c == Head(cq)
<1>1. /\ Handles("accept") /\ c.result # "accepted"
      /\ listener' = [listener EXCEPT !.accepting = FALSE]
      /\ PeersSame /\ UNCHANGED <<deferred, permit, pending, sq>>
  BY DEF HandleAcceptEnd, PeersSame, peerVars
<1>2. /\ c \in Cqes /\ Shaped(c) /\ c.token.op = "accept" /\ c.token \in Outstanding
      /\ RingOK(sq, inflight', cq')
      /\ Owed(sq, inflight', cq') =
           IF c.more THEN Outstanding ELSE Outstanding \ {c.token}
      /\ Cardinality(Held(cq')) <= BufferCount
      /\ \A i \in DOMAIN cq' : \E j \in DOMAIN cq : cq'[i] = cq[j]
      /\ pc' = "dispatch" /\ shutdown' = shutdown /\ due' = due
  BY <1>1, Taken
<1>3. c.token = Accept /\ ~c.more
  BY <1>1, <1>2, OwedAny, TokenKinds DEF Shaped
<1>4. Outstanding' = Outstanding \ {Accept}
  BY <1>1, <1>2, <1>3, OutstandingIsOwed
<1>5. PeerOps' = PeerOps
  BY <1>4, TokenKinds DEF PeerOps
<1>6. RingOK(sq, inflight, cq)'
  BY <1>1, <1>2
<1>7. LoopTypes'
  BY <1>1, <1>2 DEF Inv, LoopInv, LoopTypes
<1>8. ListenerMirrored'
  BY <1>1, <1>4, TokenKinds DEF Inv, LoopInv, LoopTypes, ListenerMirrored
<1>9. SendsFit'
  BY <1>1, <1>2, SendsFitTaken DEF PeersSame
<1>10. /\ PendingCoversWork' /\ NoHalfError' /\ ShutdownCloses' /\ Fifos'
  BY <1>1, <1>2, PeersSameLoop
<1>11. SweepHasWork'
  BY <1>2 DEF SweepHasWork
<1> QED
  BY <1>1, <1>5, <1>6, <1>7, <1>8, <1>9, <1>10, <1>11, PeersSameStep DEF LoopInv

\* The end of the cancel of the accept.
LEMMA HandleAcceptCancelStep ==
  ASSUME Inv, HandleAcceptCancel
  PROVE  LoopInv' /\ PeersStep
<1> DEFINE c == Head(cq)
<1>1. /\ Handles("accept_cancel")
      /\ listener' = [listener EXCEPT !.phase = "closing"]
      /\ PeersSame /\ UNCHANGED <<deferred, permit, pending, sq>>
  BY DEF HandleAcceptCancel, PeersSame, peerVars
<1>2. /\ c \in Cqes /\ Shaped(c) /\ c.token.op = "accept_cancel"
      /\ c.token \in Outstanding
      /\ RingOK(sq, inflight', cq')
      /\ Owed(sq, inflight', cq') =
           IF c.more THEN Outstanding ELSE Outstanding \ {c.token}
      /\ Cardinality(Held(cq')) <= BufferCount
      /\ \A i \in DOMAIN cq' : \E j \in DOMAIN cq : cq'[i] = cq[j]
      /\ pc' = "dispatch" /\ shutdown' = shutdown /\ due' = due
  BY <1>1, Taken
<1>3. c.token = AcceptCancel /\ ~c.more
  BY <1>1, <1>2, OwedAny, TokenKinds DEF Shaped
<1>4. Outstanding' = Outstanding \ {AcceptCancel}
  BY <1>1, <1>2, <1>3, OutstandingIsOwed
<1>5. PeerOps' = PeerOps
  BY <1>4, TokenKinds DEF PeerOps
<1>6. RingOK(sq, inflight, cq)'
  BY <1>1, <1>2
<1>7. LoopTypes'
  BY <1>1, <1>2 DEF Inv, LoopInv, LoopTypes
<1>8. ListenerMirrored'
  BY <1>1, <1>4, TokenKinds DEF Inv, LoopInv, LoopTypes, ListenerMirrored
<1>9. SendsFit'
  BY <1>1, <1>2, SendsFitTaken DEF PeersSame
<1>10. /\ PendingCoversWork' /\ NoHalfError' /\ ShutdownCloses' /\ Fifos'
  BY <1>1, <1>2, PeersSameLoop
<1>11. SweepHasWork'
  BY <1>2 DEF SweepHasWork
<1> QED
  BY <1>1, <1>5, <1>6, <1>7, <1>8, <1>9, <1>10, <1>11, PeersSameStep DEF LoopInv

\* The next generation is one, and never zero.
LEMMA NextGenerationType ==
  ASSUME NEW g \in 0..MaxGeneration
  PROVE  Peers!NextGeneration(g) \in 1..MaxGeneration
BY GenerationAssumption DEF Peers!NextGeneration

\* Whether it is admitted or not, an accepted peer is new to every queue.
LEMMA FreeSlot ==
  ASSUME Inv, NEW s \in Slot, ~live[s]
  PROVE  /\ \A t \in Outstanding \cap Peers!Token : t.slot # s
         /\ \A e \in ToSet(pending) : e.slot # s
         /\ s \notin ToSet(deferred)
         /\ generation[s] \in 0..MaxGeneration
         /\ queued[s] = 0 /\ flight[s] = 0
<1>1. \A t \in Outstanding \cap Peers!Token : t.slot # s
  BY PeerInvFacts DEF Inv, PeerFacts
<1>2. \A e \in ToSet(pending) : e.slot # s
  BY DEF Inv, LoopInv, Fifos, QueuesAreFresh
<1> QED
  BY <1>1, <1>2, PeerInvFacts DEF Inv, PeerFacts

\* A peer without credentials leaves no trace.
LEMMA UnidentifiedStep ==
  ASSUME Inv, HandleAccepted, Unidentified
  PROVE  LoopInv' /\ PeersStep
<1> DEFINE c == Head(cq)
<1>1. /\ Handles("accept") /\ c.result = "accepted"
      /\ listener' = [listener EXCEPT !.accepting = c.more]
      /\ UNCHANGED <<queued, flight, deferred, permit>>
  BY DEF HandleAccepted
<1>2. PeersSame /\ UNCHANGED <<pending, sq>>
  BY <1>1 DEF Unidentified, PeersSame, peerVars
<1>3. /\ c \in Cqes /\ Shaped(c) /\ c.token.op = "accept" /\ c.token \in Outstanding
      /\ RingOK(sq, inflight', cq')
      /\ Owed(sq, inflight', cq') =
           IF c.more THEN Outstanding ELSE Outstanding \ {c.token}
      /\ Cardinality(Held(cq')) <= BufferCount
      /\ \A i \in DOMAIN cq' : \E j \in DOMAIN cq : cq'[i] = cq[j]
      /\ pc' = "dispatch" /\ shutdown' = shutdown /\ due' = due
  BY <1>1, Taken
<1>4. c.token = Accept /\ c.more \in BOOLEAN
  BY <1>3, OwedAny, TokenKinds DEF Cqes
<1>5. Outstanding' = IF c.more THEN Outstanding ELSE Outstanding \ {Accept}
  BY <1>2, <1>3, <1>4, OutstandingIsOwed
<1> HIDE DEF c
<1>6. PeerOps' = PeerOps
  BY <1>5, TokenKinds DEF PeerOps
<1>7. RingOK(sq, inflight, cq)'
  BY <1>2, <1>3
<1>8. LoopTypes'
  BY <1>1, <1>2, <1>3, <1>4 DEF Inv, LoopInv, LoopTypes
<1>9. ListenerMirrored'
  BY <1>1, <1>3, <1>4, <1>5, TokenKinds DEF Inv, LoopInv, LoopTypes, ListenerMirrored
<1>10. SendsFit'
  BY <1>2, <1>3, SendsFitTaken DEF PeersSame
<1>11. /\ PendingCoversWork' /\ NoHalfError' /\ ShutdownCloses' /\ Fifos'
  BY <1>1, <1>2, <1>3, PeersSameLoop
<1>12. SweepHasWork'
  BY <1>3 DEF SweepHasWork
<1>13. PeersStep
  BY <1>1, <1>2, <1>6, PeersSameStep
<1> QED
  BY <1>7, <1>8, <1>9, <1>10, <1>11, <1>12, <1>13 DEF LoopInv

\* HandleAccepted attaches a peer, uses up a generation of the slot, or neither.
LEMMA HandleAcceptedStep ==
  ASSUME Inv, HandleAccepted
  PROVE  LoopInv' /\ PeersStep
<1> SUFFICES ASSUME ~Unidentified PROVE LoopInv' /\ PeersStep
  BY UnidentifiedStep
<1> DEFINE c == Head(cq)
<1>1. /\ Handles("accept") /\ c.result = "accepted"
      /\ listener' = [listener EXCEPT !.accepting = c.more]
      /\ UNCHANGED <<queued, flight, deferred, permit>>
  BY DEF HandleAccepted
<1>2. PICK s \in Slot :
        /\ ~live[s]
        /\ generation' = [generation EXCEPT ![s] = Peers!NextGeneration(@)]
        /\ Admitted(s) \/ NotAdmitted
  BY DEF HandleAccepted
<1>3. /\ c \in Cqes /\ Shaped(c) /\ c.token.op = "accept" /\ c.token \in Outstanding
      /\ RingOK(sq, inflight', cq')
      /\ Owed(sq, inflight', cq') =
           IF c.more THEN Outstanding ELSE Outstanding \ {c.token}
      /\ Cardinality(Held(cq')) <= BufferCount
      /\ \A i \in DOMAIN cq' : \E j \in DOMAIN cq : cq'[i] = cq[j]
      /\ pc' = "dispatch" /\ shutdown' = shutdown /\ due' = due
      /\ inflight' = inflight
  BY <1>1, Taken
<1>4. c.token = Accept
  BY <1>3, OwedAny, TokenKinds
<1> DEFINE left == IF c.more THEN Outstanding ELSE Outstanding \ {Accept}
<1>5. Owed(sq, inflight', cq') = left
  BY <1>3, <1>4
<1> HIDE DEF c
<1>6. /\ \A t \in Outstanding \cap Peers!Token : t.slot # s
      /\ \A e \in ToSet(pending) : e.slot # s
      /\ s \notin ToSet(deferred) /\ queued[s] = 0 /\ flight[s] = 0
      /\ generation[s] \in 0..MaxGeneration
      /\ generation \in [Slot -> 0..MaxGeneration]
      /\ live \in [Slot -> BOOLEAN] /\ state \in [Slot -> State]
  BY <1>2, FreeSlot, PeerInvFacts DEF Inv, PeerFacts
<1> DEFINE g == Peers!NextGeneration(generation[s])
<1>7. g \in 1..MaxGeneration
  BY <1>6, NextGenerationType
<1>8. generation'[s] = g /\ \A r \in Slot \ {s} : generation'[r] = generation[r]
  BY <1>2, <1>6
<1>9. /\ LoopInv
      /\ \A e \in ToSet(pending) : live[e.slot] /\ e = PendingOf(e.slot)
      /\ \A r \in ToSet(deferred) : live[r] /\ r \in Slot
      /\ \A e \in ToSet(pending) : e \in Entry
  BY DEF Inv, LoopInv, Fifos, QueuesAreFresh, ToSet
<1>10. SendsFit'
  BY <1>1, <1>3, SendsFitTaken
<1>11. SweepHasWork'
  BY <1>3 DEF SweepHasWork
<1>12. \A r \in Slot \ {s} : PendingOf(r)' = PendingOf(r) /\ PendingOf(r).slot = r
  BY <1>8 DEF PendingOf
<1> HIDE DEF g
<1>13. CASE NotAdmitted
  <2>1. live' = live /\ state' = state /\ sq' = sq /\ pending' = pending
    BY <1>13 DEF NotAdmitted
  <2>2. RingOK(sq, inflight, cq)' /\ Outstanding' = left
    BY <1>3, <1>5, <2>1, OutstandingIsOwed
  <2>3. PeerOps' = PeerOps
    BY <2>2, TokenKinds DEF PeerOps
  <2>4. LoopTypes'
    BY <1>1, <1>3, <1>9, <2>1 DEF LoopInv, LoopTypes, Cqes
  <2>5. ListenerMirrored'
    BY <1>1, <1>3, <1>4, <1>9, <2>2, TokenKinds DEF LoopInv, LoopTypes, ListenerMirrored
  <2>6. Fifos'
    <3>1. \A e \in ToSet(pending) : e.slot \in Slot \ {s}
      BY <1>6, <1>9 DEF Entry
    <3>2. \A e \in ToSet(pending) : e = PendingOf(e.slot)'
      BY <1>9, <1>12, <3>1
    <3> QED
      BY <1>1, <1>9, <2>1, <3>2 DEF LoopInv, Fifos, QueuesAreFresh
  <2>7. PendingCoversWork'
    <3>1. PendingCoversWork /\ OthersSame(s) /\ ~live'[s]
      BY <1>1, <1>2, <1>8, <1>9, <2>1 DEF LoopInv, OthersSame
    <3> QED
      BY <2>1, <3>1, CoveredAfter
  <2>8. ShutdownCloses' /\ NoHalfError'
    BY <1>3, <1>9, <2>1 DEF LoopInv, ShutdownCloses, NoHalfError
  <2>9. LoopInv'
    BY <1>10, <1>11, <2>2, <2>4, <2>5, <2>6, <2>7, <2>8 DEF LoopInv
  <2>10. Peers!AttachFails(s)
    BY <1>1, <1>2, <2>1, <2>3 DEF Peers!AttachFails, PeerOps
  <2>11. Peers!Next
    BY <2>10 DEF Peers!Next
  <2> QED
    BY <2>9, <2>11 DEF PeersStep
<1>14. CASE Admitted(s)
  <2> DEFINE t == [op |-> "receive", slot |-> s, gen |-> g]
             e == [slot |-> s, gen |-> g]
  <2>1. /\ HasSqe /\ sq' = Append(sq, t) /\ pending' = Scheduled(pending, e)
        /\ live' = [live EXCEPT ![s] = TRUE]
        /\ state' = [state EXCEPT ![s] = [phase |-> PhaseOfAdmitted,
                                          receiving |-> TRUE]]
    BY <1>8, <1>14 DEF Admitted
  <2>2. /\ t \in Peers!Token /\ t \in AnyToken /\ t.slot = s /\ t.op = "receive"
        /\ e \in Entry /\ e.slot = s
    BY <1>7 DEF Peers!Token, Peers!Op, AnyToken, Entry
  <2>3. t \notin left
    BY <1>6, <2>2
  <2> HIDE DEF t
  <2>4. /\ RingOK(Append(sq, t), inflight', cq')
        /\ Owed(Append(sq, t), inflight', cq') = left \cup {t}
    BY <1>3, <1>5, <2>2, <2>3, RingPrepare
  <2>5. RingOK(sq, inflight, cq)' /\ Outstanding' = left \cup {t}
    BY <2>1, <2>4, OutstandingIsOwed
  <2>6. PeerOps' = PeerOps \cup {t}
    BY <2>2, <2>5, TokenKinds DEF PeerOps
  <2>7. LoopTypes'
    <3>1. Len(sq') <= SqCapacity
      <4>1. sq \in Seq(AnyToken) /\ Len(sq) < SqCapacity
        BY <1>9, <2>1 DEF LoopInv, RingOK, RingTypes, HasSqe
      <4>2. Len(sq') = Len(sq) + 1 /\ Len(sq) \in Nat
        BY <2>1, <4>1
      <4> QED
        BY <4>1, <4>2, CapacityAssumption
    <3> QED
      BY <1>1, <1>3, <1>9, <3>1 DEF LoopInv, LoopTypes, Cqes
  <2>8. ListenerMirrored'
    <3>1. t # Accept /\ t # AcceptCancel
      BY <2>2, TokenKinds
    <3> QED
      BY <1>1, <1>3, <1>4, <1>9, <2>5, <3>1, TokenKinds
         DEF LoopInv, LoopTypes, ListenerMirrored
  <2>9. /\ pending' \in Seq(Entry) /\ IsInjective(pending')
        /\ ToSet(pending') = ToSet(pending) \cup {e}
    BY <1>6, <1>9, <2>1, <2>2, ScheduledSet DEF LoopInv, Fifos, QueuesAreFresh
  <2>10. /\ live'[s] /\ state'[s] = [phase |-> PhaseOfAdmitted, receiving |-> TRUE]
         /\ \A r \in Slot \ {s} : live'[r] = live[r] /\ state'[r] = state[r]
    BY <1>6, <2>1
  <2>11. PendingOf(s)' = e
    BY <1>8 DEF PendingOf
  <2>12. Fifos'
    <3>1. \A x \in ToSet(pending) : x.slot \in Slot \ {s}
      BY <1>6, <1>9 DEF Entry
    <3>2. \A x \in ToSet(pending) : x = PendingOf(x.slot)' /\ live'[x.slot]
      BY <1>9, <1>12, <2>10, <3>1
    <3>3. e = PendingOf(e.slot)' /\ live'[e.slot]
      BY <2>2, <2>10, <2>11
    <3>4. \A r \in ToSet(deferred) : live'[r]
      BY <1>6, <1>9, <2>10
    <3> QED
      BY <1>1, <1>9, <2>9, <3>2, <3>3, <3>4 DEF LoopInv, Fifos, QueuesAreFresh
  <2>13. PendingCoversWork'
    <3>1. PendingCoversWork /\ OthersSame(s)
      BY <1>1, <1>8, <1>9, <2>10 DEF LoopInv, OthersSame
    <3>2. PendingOf(s)' \in ToSet(pending')
      BY <2>9, <2>11
    <3> QED
      BY <2>9, <3>1, <3>2, CoveredAfter
  <2>14. ShutdownCloses' /\ NoHalfError'
    <3>1. state'[s].phase = (IF shutdown THEN "closing" ELSE "open")
      BY <2>10 DEF PhaseOfAdmitted
    <3>2. ShutdownCloses'
      BY <1>3, <1>9, <2>10, <3>1 DEF LoopInv, ShutdownCloses, IsClosing
    <3>3. NoHalfError'
      BY <1>9, <2>10, <3>1 DEF LoopInv, NoHalfError
    <3> QED
      BY <3>2, <3>3
  <2>15. LoopInv'
    BY <1>10, <1>11, <2>5, <2>7, <2>8, <2>12, <2>13, <2>14 DEF LoopInv
  <2>16. PICK phase \in {"open", "closing"} : phase = PhaseOfAdmitted
    BY DEF PhaseOfAdmitted
  <2>17. Peers!Attach(s, phase)
    BY <1>1, <1>2, <2>1, <2>6, <2>16 DEF Peers!Attach, PeerOps, t, g
  <2>18. Peers!Next
    BY <2>17 DEF Peers!Next
  <2> QED
    BY <2>15, <2>18 DEF PeersStep
<1> QED
  BY <1>2, <1>13, <1>14

-----------------------------------------------------------------------------
(* The application. *)

\* A step that leaves the ring alone.
LEMMA RingSame ==
  ASSUME Inv, UNCHANGED <<sq, inflight, cq>>
  PROVE  /\ RingOK(sq, inflight, cq)' /\ Outstanding' = Outstanding
         /\ PeerOps' = PeerOps
         /\ listener' = listener => ListenerMirrored'
         /\ flight' = flight => SendsFit'
<1>1. RingOK(sq, inflight, cq)'
  BY DEF Inv, LoopInv
<1>2. Outstanding' = Outstanding
  BY OutstandingIsOwed
<1>3. ListenerMirrored /\ SendsFit
  BY DEF Inv, LoopInv
<1> QED
  BY <1>1, <1>2, <1>3 DEF PeerOps, ListenerMirrored, SendsFit

\* Produce queues a byte, or schedules only.
LEMMA ProduceStep ==
  ASSUME Inv, NEW s \in Slot, Produce(s)
  PROVE  LoopInv' /\ PeersStep
<1>1. /\ pc \in {"wait", "dispatch"} /\ due' = (pc = "wait")
      /\ live[s] /\ state[s].phase = "open"
      /\ queued' = [queued EXCEPT ![s] = IF @ < ByteBudget THEN @ + 1 ELSE @]
      /\ pending' = Scheduled(pending, PendingOf(s))
      /\ UNCHANGED <<live, generation, state, flight, deferred, permit, shutdown,
                     listener, pc, sq, inflight, cq>>
  BY DEF Produce, Calls
<1>2. /\ RingOK(sq, inflight, cq)' /\ Outstanding' = Outstanding
      /\ PeerOps' = PeerOps /\ ListenerMirrored' /\ SendsFit'
  BY <1>1, RingSame
<1>3. queued \in [Slot -> 0..ByteBudget]
  BY PeerInvFacts DEF Inv, PeerFacts
<1>4. /\ pending' \in Seq(Entry) /\ IsInjective(pending')
      /\ ToSet(pending') = ToSet(pending) \cup {PendingOf(s)}
  BY <1>1, ScheduledPeer
<1>5. \A r : PendingOf(r)' = PendingOf(r) /\ PendingOf(r).slot = r
  BY <1>1 DEF PendingOf
<1>6. LoopTypes'
  <2>1. LoopTypes /\ due' \in BOOLEAN
    BY <1>1 DEF Inv, LoopInv
  <2> QED
    BY <1>1, <2>1 DEF LoopTypes
<1>7. Fifos'
  BY <1>1, <1>4, <1>5 DEF Inv, LoopInv, Fifos, QueuesAreFresh
<1>8. PendingCoversWork'
  <2>1. OthersSame(s)
    BY <1>1, <1>3 DEF OthersSame
  <2>2. PendingCoversWork
    BY DEF Inv, LoopInv
  <2> QED
    BY <1>4, <1>5, <2>1, <2>2, CoveredAfter
<1>9. ShutdownCloses' /\ NoHalfError'
  BY <1>1 DEF Inv, LoopInv, ShutdownCloses, NoHalfError
<1>10. SweepHasWork'
  BY <1>1 DEF SweepHasWork
<1>11. LoopInv'
  BY <1>2, <1>6, <1>7, <1>8, <1>9, <1>10 DEF LoopInv
<1>12. CASE queued[s] < ByteBudget
  <2>1. queued' = [queued EXCEPT ![s] = @ + 1] /\ queued[s] + 1 <= ByteBudget
    BY <1>1, <1>3, <1>12, BudgetAssumption
  <2>2. Peers!Enqueue(s, 1)
    BY <1>1, <1>2, <2>1 DEF Peers!Enqueue, PeerOps
  <2>3. Peers!Next
    BY <2>2, BudgetAssumption DEF Peers!Next
  <2> QED
    BY <1>11, <2>3 DEF PeersStep
<1>13. CASE ~(queued[s] < ByteBudget)
  <2>1. queued' = queued
    BY <1>1, <1>3, <1>13
  <2> QED
    BY <1>1, <1>2, <1>11, <2>1, PeersSameStep DEF PeersSame
<1> QED
  BY <1>12, <1>13

\* A sequence of all elements of a finite set has each of them once.
LEMMA SeqOfSet ==
  ASSUME NEW S, IsFiniteSet(S), NEW q \in SetToSeqs(S)
  PROVE  q \in Seq(S) /\ IsInjective(q) /\ ToSet(q) = S
<1> DEFINE D == 1..Cardinality(S)
<1>1. Cardinality(S) \in Nat
  BY FS_CardinalityType
<1>2. q \in [D -> S] /\ \A i, j \in D : i # j => q[i] # q[j]
  BY DEF SetToSeqs
<1>3. IsFiniteSet(D) /\ Cardinality(D) = Cardinality(S)
  BY <1>1, FS_Interval
<1>4. IsInjective(q)
  BY <1>2 DEF IsInjective
<1>5. q \in Injection(D, S)
  BY <1>2, <1>4 DEF Injection
<1>6. q \in Surjection(D, S)
  BY <1>3, <1>5, FS_Injection
<1>7. ToSet(q) = S
  BY <1>2, <1>6 DEF Surjection, ToSet
<1>8. q \in Seq(S)
  BY <1>1, <1>2
<1> QED
  BY <1>4, <1>7, <1>8

\* Two sequences of distinct elements without a common one.
LEMMA ConcatSet ==
  ASSUME NEW S, NEW p \in Seq(S), NEW q \in Seq(S),
         IsInjective(p), IsInjective(q), ToSet(p) \cap ToSet(q) = {}
  PROVE  /\ p \o q \in Seq(S) /\ IsInjective(p \o q)
         /\ ToSet(p \o q) = ToSet(p) \cup ToSet(q)
<1> DEFINE r == p \o q
<1>1. /\ r \in Seq(S) /\ Len(r) = Len(p) + Len(q)
      /\ \A i \in 1..(Len(p) + Len(q)) :
           r[i] = IF i <= Len(p) THEN p[i] ELSE q[i - Len(p)]
  BY ConcatProperties
<1>2. /\ Len(p) \in Nat /\ Len(q) \in Nat
      /\ DOMAIN p = 1..Len(p) /\ DOMAIN q = 1..Len(q)
  OBVIOUS
<1> HIDE DEF r
<1>3. DOMAIN r = 1..(Len(p) + Len(q))
  BY <1>1
<1>4. \A i \in DOMAIN r : \/ i \in DOMAIN p /\ r[i] = p[i]
                          \/ /\ i \notin DOMAIN p /\ i - Len(p) \in DOMAIN q
                             /\ r[i] = q[i - Len(p)] /\ i \in Nat
  BY <1>1, <1>2, <1>3
<1>5. \A i \in DOMAIN p : i \in DOMAIN r /\ r[i] = p[i]
  BY <1>1, <1>2, <1>3
<1>6. ASSUME NEW i \in DOMAIN q
      PROVE  i + Len(p) \in DOMAIN r /\ r[i + Len(p)] = q[i]
  <2>1. /\ i + Len(p) \in 1..(Len(p) + Len(q)) /\ ~(i + Len(p) <= Len(p))
        /\ (i + Len(p)) - Len(p) = i
    BY <1>2
  <2> QED
    BY <1>1, <1>3, <2>1
<1>7. ToSet(r) \subseteq ToSet(p) \cup ToSet(q)
  BY <1>4 DEF ToSet
<1>8. ToSet(p) \subseteq ToSet(r) /\ ToSet(q) \subseteq ToSet(r)
  BY <1>5, <1>6 DEF ToSet
<1>9. IsInjective(r)
  <2> SUFFICES ASSUME NEW i \in DOMAIN r, NEW j \in DOMAIN r, r[i] = r[j]
               PROVE  i = j
    BY DEF IsInjective
  <2>1. CASE i \in DOMAIN p /\ j \in DOMAIN p
    BY <1>5, <2>1 DEF IsInjective
  <2>2. CASE i \notin DOMAIN p /\ j \notin DOMAIN p
    <3>1. i - Len(p) = j - Len(p) /\ i \in Nat /\ j \in Nat
      BY <1>4, <2>2 DEF IsInjective
    <3> QED
      BY <1>2, <3>1
  <2>3. CASE i \in DOMAIN p /\ j \notin DOMAIN p
    <3>1. r[i] \in ToSet(p) /\ r[j] \in ToSet(q)
      BY <1>4, <1>5, <2>3 DEF ToSet
    <3> QED
      BY <3>1
  <2>4. CASE i \notin DOMAIN p /\ j \in DOMAIN p
    <3>1. r[i] \in ToSet(q) /\ r[j] \in ToSet(p)
      BY <1>4, <1>5, <2>4 DEF ToSet
    <3> QED
      BY <3>1
  <2> QED
    BY <2>1, <2>2, <2>3, <2>4
<1> QED
  BY <1>1, <1>7, <1>8, <1>9 DEF r

\* RequestShutdown closes every peer and schedules the others.
LEMMA RequestShutdownStep ==
  ASSUME Inv, RequestShutdown
  PROVE  LoopInv' /\ PeersStep
<1> DEFINE new == {PendingOf(s) : s \in Unscheduled}
<1>1. /\ pc \in {"wait", "dispatch"} /\ due' = (pc = "wait")
      /\ shutdown' = TRUE
      /\ state' = [s \in Slot |-> IF live[s] THEN Step(state[s], "begin_close")
                                             ELSE state[s]]
      /\ UNCHANGED <<live, generation, queued, flight, deferred, permit,
                     listener, pc, sq, inflight, cq>>
  BY DEF RequestShutdown, Calls
<1>2. PICK queue \in SetToSeqs(new) : pending' = pending \o queue
  BY DEF RequestShutdown
<1>3. /\ RingOK(sq, inflight, cq)' /\ Outstanding' = Outstanding
      /\ PeerOps' = PeerOps /\ ListenerMirrored' /\ SendsFit'
  BY <1>1, RingSame
<1>4. \A s \in Slot : live[s] => PendingOf(s) \in Entry
  BY ScheduledPeer
<1>5. new \subseteq Entry
  BY <1>4 DEF Unscheduled
<1>6. IsFiniteSet(new)
  <2>1. IsFiniteSet(Unscheduled)
    BY SlotAssumption, FS_Subset DEF Unscheduled
  <2> DEFINE f == [s \in Unscheduled |-> PendingOf(s)]
  <2>2. f \in Surjection(Unscheduled, new)
    BY DEF Surjection
  <2> QED
    BY <2>1, <2>2, FS_Surjection
<1> HIDE DEF new
<1>7. queue \in Seq(new) /\ IsInjective(queue) /\ ToSet(queue) = new
  BY <1>2, <1>6, SeqOfSet
<1>8. queue \in Seq(Entry)
  BY <1>5, <1>7, SeqMonotonic
<1>9. /\ pending \in Seq(Entry) /\ IsInjective(pending)
      /\ \A e \in ToSet(pending) : live[e.slot] /\ e = PendingOf(e.slot)
  BY DEF Inv, LoopInv, Fifos, QueuesAreFresh
<1>10. ToSet(pending) \cap new = {}
  BY DEF new, Unscheduled, PendingOf
<1>11. /\ pending' \in Seq(Entry) /\ IsInjective(pending')
       /\ ToSet(pending') = ToSet(pending) \cup new
  BY <1>2, <1>7, <1>8, <1>9, <1>10, ConcatSet
<1>12. \A r : PendingOf(r)' = PendingOf(r) /\ PendingOf(r).slot = r
  BY <1>1 DEF PendingOf
<1>13. \A e \in new : live[e.slot] /\ e = PendingOf(e.slot)
  BY <1>12 DEF new, Unscheduled
<1>14. Fifos'
  <2>1. \A e \in ToSet(pending') : live'[e.slot] /\ e = PendingOf(e.slot)'
    BY <1>1, <1>9, <1>11, <1>12, <1>13
  <2> QED
    BY <1>1, <1>11, <2>1 DEF Inv, LoopInv, Fifos, QueuesAreFresh
<1>15. PendingCoversWork'
  <2> SUFFICES ASSUME NEW s \in Slot, live[s] PROVE PendingOf(s) \in ToSet(pending')
    BY <1>1, <1>12 DEF PendingCoversWork
  <2>1. CASE \E e \in ToSet(pending) : e.slot = s
    BY <1>9, <1>11, <2>1
  <2>2. CASE \A e \in ToSet(pending) : e.slot # s
    BY <1>11, <2>2 DEF new, Unscheduled
  <2> QED
    BY <2>1, <2>2
<1>16. LoopTypes'
  <2>1. LoopTypes /\ due' \in BOOLEAN
    BY <1>1 DEF Inv, LoopInv
  <2> QED
    BY <1>1, <2>1 DEF LoopTypes
<1>17. ShutdownCloses' /\ NoHalfError'
  <2>1. \A s \in Slot : state[s] \in State /\ state[s].phase # "protocol_error"
    BY PeerInvFacts DEF Inv, PeerFacts, LoopInv, NoHalfError
  <2>2. \A s \in Slot : /\ Step(state[s], "begin_close").phase # "protocol_error"
                        /\ IsClosing(Step(state[s], "begin_close"))
    BY <2>1, StepPhase
  <2> QED
    BY <1>1, <2>1, <2>2 DEF ShutdownCloses, NoHalfError
<1>18. SweepHasWork'
  BY <1>1 DEF SweepHasWork
<1>19. LoopInv'
  BY <1>3, <1>14, <1>15, <1>16, <1>17, <1>18 DEF LoopInv
<1>20. PICK S \in SUBSET Slot : S = {s \in Slot : live[s]}
  OBVIOUS
<1>21. Peers!BeginClose(S)
  BY <1>1, <1>3, <1>20, SameStatechart DEF Peers!BeginClose, PeerOps
<1>22. Peers!Next
  BY <1>21 DEF Peers!Next
<1> QED
  BY <1>19, <1>22 DEF PeersStep

-----------------------------------------------------------------------------
(* Prepare. *)

\* The listener of an endpoint that is shut down.
LEMMA BeginPrepareStep ==
  ASSUME Inv, BeginPrepare
  PROVE  LoopInv' /\ PeersStep
<1>1. /\ due' = FALSE /\ PeersSame
      /\ UNCHANGED <<deferred, permit, pending, shutdown, inflight, cq>>
  BY DEF BeginPrepare, PeersSame, peerVars
<1>2. /\ PendingCoversWork' /\ NoHalfError' /\ ShutdownCloses' /\ Fifos'
  BY <1>1, PeersSameLoop
<1>3. SendsFit'
  BY <1>1 DEF Inv, LoopInv, SendsFit, PeersSame
<1>4. LoopInv
  BY DEF Inv
<1>5. listener \in [phase: {"open", "closing", "canceling"}, accepting: BOOLEAN]
  BY <1>4 DEF LoopInv, LoopTypes
<1>6. CASE /\ shutdown /\ listener.phase = "open" /\ ~listener.accepting
           /\ listener' = [listener EXCEPT !.phase = "closing"]
           /\ pc' = "prepare" /\ UNCHANGED sq
  <2>1. /\ RingOK(sq, inflight, cq)' /\ Outstanding' = Outstanding /\ PeerOps' = PeerOps
    BY <1>1, <1>6, RingSame
  <2>2. ListenerMirrored'
    BY <1>4, <1>5, <1>6, <2>1 DEF LoopInv, ListenerMirrored
  <2>3. LoopTypes' /\ SweepHasWork'
    BY <1>1, <1>4, <1>5, <1>6 DEF LoopInv, LoopTypes, SweepHasWork
  <2> QED
    BY <1>1, <1>2, <1>3, <2>1, <2>2, <2>3, PeersSameStep DEF LoopInv
<1>7. CASE /\ shutdown /\ listener.phase = "open" /\ listener.accepting /\ HasSqe
           /\ listener' = [listener EXCEPT !.phase = "canceling"]
           /\ sq' = Append(sq, AcceptCancel) /\ pc' = "prepare"
  <2>1. RingOK(sq, inflight, cq) /\ AcceptCancel \notin Owed(sq, inflight, cq)
        /\ AcceptCancel \in AnyToken
    BY <1>4, <1>7, OutstandingIsOwed DEF LoopInv, ListenerMirrored, AnyToken
  <2>2. /\ RingOK(Append(sq, AcceptCancel), inflight, cq)
        /\ Owed(Append(sq, AcceptCancel), inflight, cq) =
             Owed(sq, inflight, cq) \cup {AcceptCancel}
    BY <2>1, RingPrepare
  <2>3. RingOK(sq, inflight, cq)' /\ Outstanding' = Outstanding \cup {AcceptCancel}
    BY <1>1, <1>7, <2>2, OutstandingIsOwed
  <2>4. PeerOps' = PeerOps
    BY <2>3, TokenKinds DEF PeerOps
  <2>5. ListenerMirrored'
    BY <1>4, <1>5, <1>7, <2>3, TokenKinds DEF LoopInv, ListenerMirrored
  <2>6. Len(sq') <= SqCapacity
    <3>1. sq \in Seq(AnyToken) /\ Len(sq) < SqCapacity
      BY <1>7, <2>1 DEF RingOK, RingTypes, HasSqe
    <3>2. Len(sq') = Len(sq) + 1 /\ Len(sq) \in Nat
      BY <1>7, <3>1
    <3> QED
      BY <3>1, <3>2, CapacityAssumption
  <2>7. LoopTypes' /\ SweepHasWork'
    BY <1>1, <1>4, <1>5, <1>7, <2>6 DEF LoopInv, LoopTypes, SweepHasWork
  <2> QED
    BY <1>1, <1>2, <1>3, <2>3, <2>4, <2>5, <2>7, PeersSameStep DEF LoopInv
<1>8. CASE pc' \in {"submit", "prepare"} /\ UNCHANGED <<listener, sq>>
  <2>1. /\ RingOK(sq, inflight, cq)' /\ PeerOps' = PeerOps /\ ListenerMirrored'
    BY <1>1, <1>8, RingSame
  <2>2. LoopTypes' /\ SweepHasWork'
    BY <1>1, <1>4, <1>8 DEF LoopInv, LoopTypes, SweepHasWork
  <2> QED
    BY <1>1, <1>2, <1>3, <2>1, <2>2, PeersSameStep DEF LoopInv
<1> QED
  BY <1>6, <1>7, <1>8 DEF BeginPrepare

\* The head of the pending FIFO leaves it.
LEMMA HeadPrepared ==
  ASSUME Inv, NEW s \in Slot, Prepares(s)
  PROVE  /\ live[s] /\ Head(pending) = PendingOf(s) /\ PendingOf(s).slot = s
         /\ Tail(pending) \in Seq(Entry) /\ IsInjective(Tail(pending))
         /\ ToSet(Tail(pending)) = ToSet(pending) \ {PendingOf(s)}
         /\ \A e \in ToSet(Tail(pending)) : /\ e.slot \in Slot \ {s} /\ live[e.slot]
                                            /\ e = PendingOf(e.slot)
<1>1. live[s] /\ pending # <<>> /\ Head(pending) = PendingOf(s) /\ PendingOf(s).slot = s
  BY DEF Prepares, PendingOf
<1>2. /\ pending \in Seq(Entry) /\ IsInjective(pending)
      /\ \A e \in ToSet(pending) : live[e.slot] /\ e = PendingOf(e.slot)
  BY DEF Inv, LoopInv, Fifos, QueuesAreFresh
<1>3. /\ Tail(pending) \in Seq(Entry) /\ IsInjective(Tail(pending))
      /\ ToSet(Tail(pending)) = ToSet(pending) \ {PendingOf(s)}
  BY <1>1, <1>2, TailSet
<1>4. \A e \in ToSet(pending) : e \in Entry
  BY <1>2 DEF ToSet
<1>5. ASSUME NEW e \in ToSet(Tail(pending))
      PROVE  e.slot \in Slot \ {s} /\ live[e.slot] /\ e = PendingOf(e.slot)
  BY <1>2, <1>3, <1>4 DEF Entry
<1> QED
  BY <1>1, <1>3, <1>5

\* What the three ways to prepare the head have in common.
HeadStep(s) ==
  /\ Prepares(s) /\ OthersSame(s) /\ Unchanged /\ permit' = permit
  /\ pending' = Tail(pending)
  /\ live'[s] => ~NeedsSend(s)' /\ ~NeedsCancel(s)' /\ ~Destroyable(s)'
  /\ live'[s] /\ IsClosing(state[s]) => IsClosing(state'[s])
  /\ state'[s].phase # "protocol_error"
  /\ deferred' \in Seq(Slot) /\ IsInjective(deferred')
  /\ ToSet(deferred') \subseteq ToSet(deferred)
  /\ ~live'[s] => s \notin ToSet(deferred')

\* Such a step preserves the loop's invariant, given the ring's.
LEMMA HeadStepLoop ==
  ASSUME Inv, NEW s \in Slot, HeadStep(s),
         RingOK(sq, inflight, cq)', ListenerMirrored', SendsFit',
         Len(sq') <= SqCapacity
  PROVE  LoopInv'
<1>1. /\ Prepares(s) /\ OthersSame(s) /\ permit' = permit
      /\ UNCHANGED <<generation, shutdown, listener, pc, due, inflight, cq>>
      /\ pending' = Tail(pending)
      /\ live'[s] => ~NeedsSend(s)' /\ ~NeedsCancel(s)' /\ ~Destroyable(s)'
      /\ live'[s] /\ IsClosing(state[s]) => IsClosing(state'[s])
      /\ state'[s].phase # "protocol_error"
      /\ deferred' \in Seq(Slot) /\ IsInjective(deferred')
      /\ ToSet(deferred') \subseteq ToSet(deferred)
      /\ ~live'[s] => s \notin ToSet(deferred')
  BY DEF HeadStep, Unchanged
<1>2. /\ live[s] /\ PendingOf(s).slot = s
      /\ Tail(pending) \in Seq(Entry) /\ IsInjective(Tail(pending))
      /\ ToSet(Tail(pending)) = ToSet(pending) \ {PendingOf(s)}
      /\ \A e \in ToSet(Tail(pending)) : /\ e.slot \in Slot \ {s} /\ live[e.slot]
                                         /\ e = PendingOf(e.slot)
  BY <1>1, HeadPrepared
<1>3. LoopInv
  BY DEF Inv
<1>4. \A r : PendingOf(r)' = PendingOf(r)
  BY <1>1 DEF PendingOf
<1>5. Fifos'
  <2>1. \A e \in ToSet(pending') : live'[e.slot] /\ e = PendingOf(e.slot)'
    BY <1>1, <1>2, <1>4 DEF OthersSame
  <2>2. \A r \in ToSet(deferred') : live'[r]
    <3>1. \A r \in ToSet(deferred') : r \in Slot /\ live[r]
      <4>1. \A r \in ToSet(deferred) : live[r]
        BY <1>3 DEF LoopInv, Fifos, QueuesAreFresh
      <4>2. \A r \in ToSet(deferred') : r \in Slot
        BY <1>1 DEF ToSet
      <4> QED
        BY <1>1, <4>1, <4>2
    <3> QED
      BY <1>1, <3>1 DEF OthersSame
  <2> QED
    BY <1>1, <1>2, <2>1, <2>2 DEF Fifos, QueuesAreFresh
<1>6. PendingCoversWork'
  <2>1. \A e \in ToSet(pending) : e.slot # s => e \in ToSet(pending')
    BY <1>1, <1>2
  <2>2. PendingCoversWork
    BY <1>3 DEF LoopInv
  <2> QED
    BY <1>1, <2>1, <2>2, CoveredAfter
<1>7. LoopTypes'
  BY <1>1, <1>3 DEF LoopInv, LoopTypes
<1>8. ShutdownCloses'
  BY <1>1, <1>2, <1>3 DEF LoopInv, ShutdownCloses, OthersSame, IsClosing
<1>9. NoHalfError'
  BY <1>1, <1>3 DEF LoopInv, NoHalfError, OthersSame
<1>10. SweepHasWork'
  BY <1>1 DEF SweepHasWork, Prepares
<1> QED
  BY <1>5, <1>6, <1>7, <1>8, <1>9, <1>10 DEF LoopInv

\* An idle closing peer is destroyed.
LEMMA DestroyHeadStep ==
  ASSUME Inv, NEW s \in Slot, DestroyHead(s)
  PROVE  LoopInv' /\ PeersStep
<1>1. /\ Prepares(s) /\ Destroyable(s)
      /\ live' = [live EXCEPT ![s] = FALSE]
      /\ state' = [state EXCEPT ![s] = Initial]
      /\ queued' = [queued EXCEPT ![s] = 0]
      /\ deferred' = Unparked(deferred, s)
      /\ pending' = Tail(pending)
      /\ UNCHANGED <<flight, permit, sq, generation, shutdown, listener, pc, due,
                     inflight, cq>>
  BY DEF DestroyHead, Unchanged
<1>2. /\ RingOK(sq, inflight, cq)' /\ Outstanding' = Outstanding
      /\ PeerOps' = PeerOps /\ ListenerMirrored' /\ SendsFit'
  BY <1>1, RingSame
<1>3. /\ live \in [Slot -> BOOLEAN] /\ state \in [Slot -> State]
      /\ queued \in [Slot -> 0..ByteBudget] /\ flight \in [Slot -> 0..ByteBudget]
  BY PeerInvFacts DEF Inv, PeerFacts
<1>4. /\ deferred' \in Seq(Slot) /\ IsInjective(deferred')
      /\ ToSet(deferred') = ToSet(deferred) \ {s}
  BY <1>1, UnparkedSet DEF Inv, LoopInv, Fifos, QueuesAreFresh
<1>5. OthersSame(s) /\ ~live'[s] /\ state'[s].phase = "open"
  BY <1>1, <1>3 DEF OthersSame, Initial
<1>6. HeadStep(s)
  BY <1>1, <1>4, <1>5 DEF HeadStep, Unchanged
<1>7. LoopInv'
  <2>1. Len(sq') <= SqCapacity
    BY <1>1 DEF Inv, LoopInv, LoopTypes
  <2> QED
    BY <1>2, <1>6, <2>1, HeadStepLoop
<1>8. live[s] /\ Peers!CanDeinit(s)
  BY <1>1 DEF Prepares, Destroyable
<1>9. flight' = [flight EXCEPT ![s] = 0]
  BY <1>1, <1>3, <1>8 DEF Peers!CanDeinit
<1>10. Flags(Slot, ToSet(deferred')) = Cleared(Slot, ToSet(deferred), s)
  BY <1>4, FlagClear
<1>11. Peers!DestroyPeer(s)
  BY <1>1, <1>2, <1>8, <1>9, <1>10, SameStatechart
     DEF Peers!DestroyPeer, Flags, Cleared, PeerOps
<1>12. Peers!Next
  BY <1>11 DEF Peers!Next
<1> QED
  BY <1>7, <1>12 DEF PeersStep

\* A peer's operation that is not outstanding is prepared.
LEMMA PeerPrepared ==
  ASSUME Inv, NEW s \in Slot, live[s], NEW op \in Peers!Op,
         Peers!TokenOf(op, s) \notin Outstanding, HasSqe,
         sq' = Append(sq, Peers!TokenOf(op, s)), UNCHANGED <<inflight, cq>>
  PROVE  /\ RingOK(sq, inflight, cq)'
         /\ PeerOps' = PeerOps \cup {Peers!TokenOf(op, s)}
         /\ Len(sq') <= SqCapacity
         /\ listener' = listener => ListenerMirrored'
<1> DEFINE t == Peers!TokenOf(op, s)
<1>1. /\ t \in Peers!Token /\ t \in AnyToken /\ t.op \in {"receive", "send", "cancel"}
      /\ t # Accept /\ t # AcceptCancel
  <2>1. generation[s] \in 1..MaxGeneration
    BY PeerInvFacts, GenerationAssumption DEF Inv, PeerFacts
  <2>2. t \in Peers!Token
    BY <2>1 DEF Peers!TokenOf, Peers!Token
  <2> QED
    BY <2>2, TokenKinds DEF AnyToken
<1>2. RingOK(sq, inflight, cq) /\ ListenerMirrored
  BY DEF Inv, LoopInv
<1> HIDE DEF t
<1>3. /\ RingOK(Append(sq, t), inflight, cq)
      /\ Owed(Append(sq, t), inflight, cq) = Owed(sq, inflight, cq) \cup {t}
  <2>1. t \notin Owed(sq, inflight, cq)
    BY OutstandingIsOwed DEF t
  <2> QED
    BY <1>1, <1>2, <2>1, RingPrepare
<1>4. RingOK(sq, inflight, cq)' /\ Outstanding' = Outstanding \cup {t}
  BY <1>3, OutstandingIsOwed DEF t
<1>5. PeerOps' = PeerOps \cup {t}
  BY <1>1, <1>4 DEF PeerOps
<1>6. Len(sq') <= SqCapacity
  <2>1. sq \in Seq(AnyToken) /\ Len(sq) < SqCapacity
    BY <1>2 DEF RingOK, RingTypes, HasSqe
  <2>2. Len(sq') = Len(sq) + 1 /\ Len(sq) \in Nat
    BY <2>1
  <2> QED
    BY <2>1, <2>2, CapacityAssumption
<1>7. ASSUME listener' = listener PROVE ListenerMirrored'
  BY <1>1, <1>2, <1>4, <1>7 DEF ListenerMirrored
<1> QED
  BY <1>4, <1>5, <1>6, <1>7 DEF t

\* A closing peer with an operation in flight is cancelled, once.
LEMMA CancelHeadStep ==
  ASSUME Inv, NEW s \in Slot, CancelHead(s)
  PROVE  LoopInv' /\ PeersStep
<1>1. /\ Prepares(s) /\ NeedsCancel(s) /\ HasSqe
      /\ state' = [state EXCEPT ![s] = Step(@, "request_cancel")]
      /\ sq' = Append(sq, Peers!TokenOf("cancel", s))
      /\ pending' = Tail(pending)
      /\ UNCHANGED <<live, queued, flight, deferred, permit, generation, shutdown,
                     listener, pc, due, inflight, cq>>
  BY DEF CancelHead, Unchanged
<1>2. live[s]
  BY <1>1 DEF Prepares
<1>3. /\ state \in [Slot -> State] /\ state[s] \in State
      /\ state[s].phase # "protocol_error" /\ flight[s] \in 0..ByteBudget
      /\ ~CancelRequested(state[s]) /\ IsClosing(state[s])
      /\ state[s].receiving \/ flight[s] > 0
  BY <1>1, PeerInvFacts
     DEF Inv, PeerFacts, LoopInv, NoHalfError, NeedsCancel, Peers!CanDeinit, CancelRequested
<1>4. /\ state'[s] = [state[s] EXCEPT !.phase = "canceling"]
      /\ \A r \in Slot \ {s} : state'[r] = state[r]
  BY <1>1, <1>3, StepPhase
<1>5. state'[s].phase = "canceling"
  BY <1>3, <1>4 DEF State
<1>6. Peers!TokenOf("cancel", s) \notin Outstanding
  <2>1. PICK t : t = Peers!TokenOf("cancel", s)
    OBVIOUS
  <2>2. t.op = "cancel" /\ t.slot = s
    BY <2>1 DEF Peers!TokenOf
  <2>3. ASSUME t \in Outstanding PROVE state[s].phase = "canceling"
    BY <2>2, <2>3, OwedToken
  <2> QED
    BY <1>3, <2>1, <2>3 DEF CancelRequested
<1>7. /\ RingOK(sq, inflight, cq)' /\ PeerOps' = PeerOps \cup {Peers!TokenOf("cancel", s)}
      /\ Len(sq') <= SqCapacity /\ ListenerMirrored'
  BY <1>1, <1>2, <1>6, PeerPrepared DEF Peers!Op
<1>8. HeadStep(s)
  <2>1. OthersSame(s)
    BY <1>1, <1>4 DEF OthersSame
  <2>2. ~NeedsSend(s)' /\ ~NeedsCancel(s)' /\ ~Destroyable(s)'
    BY <1>5 DEF NeedsSend, NeedsCancel, Destroyable, IsClosing, CancelRequested,
                Peers!CanDeinit
  <2>3. /\ deferred' \in Seq(Slot) /\ IsInjective(deferred')
        /\ ToSet(deferred') \subseteq ToSet(deferred)
    BY <1>1 DEF Inv, LoopInv, Fifos, QueuesAreFresh
  <2> QED
    BY <1>1, <1>2, <1>5, <2>1, <2>2, <2>3 DEF HeadStep, Unchanged, IsClosing
<1>9. SendsFit'
  BY <1>1 DEF Inv, LoopInv, SendsFit
<1>10. LoopInv'
  BY <1>7, <1>8, <1>9, HeadStepLoop
<1>11. Peers!PrepareClose(s)
  <2>1. /\ Peers!Accepts(state[s], "request_cancel")
        /\ Peers!Step(state[s], "request_cancel") = Step(state[s], "request_cancel")
    BY <1>3, SameStatechart DEF Accepts
  <2> QED
    BY <1>1, <1>2, <1>3, <1>7, <2>1 DEF Peers!PrepareClose, PeerOps
<1>12. Peers!Next
  BY <1>11 DEF Peers!Next
<1> QED
  BY <1>10, <1>12 DEF PeersStep

\* Waiting output is handed to the kernel.
LEMMA SendHeadStep ==
  ASSUME Inv, NEW s \in Slot, NEW n \in 1..ByteBudget, SendHead(s, n)
  PROVE  LoopInv' /\ PeersStep
<1>1. /\ Prepares(s) /\ NeedsSend(s) /\ HasSqe /\ n <= queued[s]
      /\ flight' = [flight EXCEPT ![s] = n]
      /\ sq' = Append(sq, Peers!TokenOf("send", s))
      /\ pending' = Tail(pending)
      /\ UNCHANGED <<live, state, queued, deferred, permit, generation, shutdown,
                     listener, pc, due, inflight, cq>>
  BY DEF SendHead, Unchanged
<1>2. live[s] /\ ~IsClosing(state[s]) /\ flight[s] = 0
  BY <1>1 DEF Prepares, NeedsSend
<1>3. /\ state[s] \in State /\ state[s].phase # "protocol_error"
      /\ flight \in [Slot -> 0..ByteBudget] /\ queued[s] \in 0..ByteBudget
  BY PeerInvFacts DEF Inv, PeerFacts, LoopInv, NoHalfError
<1>4. flight'[s] = n /\ \A r \in Slot \ {s} : flight'[r] = flight[r]
  BY <1>1, <1>3
<1>5. n # 0 /\ n \in 1..queued[s]
  BY <1>1, <1>3, BudgetAssumption
<1>6. Peers!TokenOf("send", s) \notin Outstanding
  <2>1. PICK t : t = Peers!TokenOf("send", s)
    OBVIOUS
  <2>2. t.op = "send" /\ t.slot = s
    BY <2>1 DEF Peers!TokenOf
  <2>3. ASSUME t \in Outstanding PROVE flight[s] > 0
    BY <2>2, <2>3, OwedToken
  <2> QED
    BY <1>2, <2>1, <2>3
<1>7. /\ RingOK(sq, inflight, cq)' /\ PeerOps' = PeerOps \cup {Peers!TokenOf("send", s)}
      /\ Len(sq') <= SqCapacity /\ ListenerMirrored'
  BY <1>1, <1>2, <1>6, PeerPrepared DEF Peers!Op
<1>8. HeadStep(s)
  <2>1. OthersSame(s)
    BY <1>1, <1>4 DEF OthersSame
  <2>2. ~NeedsSend(s)' /\ ~NeedsCancel(s)' /\ ~Destroyable(s)'
    BY <1>1, <1>2, <1>4, <1>5 DEF NeedsSend, NeedsCancel, Destroyable
  <2>3. /\ deferred' \in Seq(Slot) /\ IsInjective(deferred')
        /\ ToSet(deferred') \subseteq ToSet(deferred)
    BY <1>1 DEF Inv, LoopInv, Fifos, QueuesAreFresh
  <2> QED
    BY <1>1, <1>2, <1>3, <2>1, <2>2, <2>3 DEF HeadStep, Unchanged
<1>9. SendsFit'
  <2> SUFFICES ASSUME NEW i \in DOMAIN cq, cq[i].token.op = "send"
               PROVE  cq[i].n <= flight'[cq[i].token.slot]
    BY <1>1 DEF SendsFit
  <2>1. cq[i].token \in Outstanding
    BY CqeOwed, OutstandingIsOwed DEF Inv, LoopInv, RingOK
  <2>2. cq[i].token.slot \in Slot /\ flight[cq[i].token.slot] > 0
    BY <2>1, OwedToken
  <2>3. cq[i].n <= flight[cq[i].token.slot]
    BY DEF Inv, LoopInv, SendsFit
  <2> QED
    BY <1>2, <1>4, <2>2, <2>3
<1>10. LoopInv'
  BY <1>7, <1>8, <1>9, HeadStepLoop
<1>11. state[s].phase \in {"open", "draining"}
  BY <1>2, <1>3 DEF State, Phase, IsClosing
<1>12. Peers!PrepareSend(s, n)
  BY <1>1, <1>2, <1>5, <1>7, <1>11 DEF Peers!PrepareSend, PeerOps
<1>13. Peers!Next
  BY <1>12 DEF Peers!Next
<1> QED
  BY <1>10, <1>13 DEF PeersStep

\* The peer at the head needs nothing, and leaves the FIFO.
LEMMA SkipHeadStep ==
  ASSUME Inv, SkipHead
  PROVE  LoopInv' /\ PeersStep
<1>1. /\ pc = "prepare" /\ pending # <<>> /\ pending' = Tail(pending)
      /\ \A s \in Slot : Prepares(s) =>
           ~Destroyable(s) /\ ~NeedsCancel(s) /\ ~NeedsSend(s)
      /\ UNCHANGED <<live, state, queued, flight, deferred, permit, sq, generation,
                     shutdown, listener, pc, due, inflight, cq>>
  BY DEF SkipHead, Unchanged
<1>2. /\ pending \in Seq(Entry)
      /\ \A e \in ToSet(pending) : live[e.slot] /\ e = PendingOf(e.slot)
  BY DEF Inv, LoopInv, Fifos, QueuesAreFresh
<1>3. Head(pending) \in ToSet(pending) /\ Head(pending) \in Entry
  BY <1>1, <1>2, TailSet
<1>4. PICK s \in Slot : s = Head(pending).slot
  BY <1>3 DEF Entry
<1>5. Prepares(s)
  BY <1>1, <1>2, <1>3, <1>4 DEF Prepares
<1>6. /\ RingOK(sq, inflight, cq)' /\ Outstanding' = Outstanding
      /\ PeerOps' = PeerOps /\ ListenerMirrored' /\ SendsFit'
  BY <1>1, RingSame
<1>7. HeadStep(s)
  <2>1. ~NeedsSend(s)' /\ ~NeedsCancel(s)' /\ ~Destroyable(s)'
    <3>1. ~Destroyable(s) /\ ~NeedsCancel(s) /\ ~NeedsSend(s)
      BY <1>1, <1>5
    <3> QED
      BY <1>1, <3>1 DEF NeedsSend, NeedsCancel, Destroyable, Peers!CanDeinit
  <2>2. /\ OthersSame(s) /\ live'[s]
        /\ deferred' \in Seq(Slot) /\ IsInjective(deferred')
        /\ ToSet(deferred') \subseteq ToSet(deferred)
        /\ state'[s].phase # "protocol_error"
    BY <1>1, <1>5
       DEF OthersSame, Prepares, Inv, LoopInv, Fifos, QueuesAreFresh, NoHalfError
  <2> QED
    BY <1>1, <1>5, <2>1, <2>2 DEF HeadStep, Unchanged
<1>8. LoopInv'
  <2>1. Len(sq') <= SqCapacity
    BY <1>1 DEF Inv, LoopInv, LoopTypes
  <2> QED
    BY <1>6, <1>7, <2>1, HeadStepLoop
<1> QED
  BY <1>1, <1>6, <1>8, PeersSameStep DEF PeersSame

\* The pending FIFO is worked off, or waits for an SQE.
LEMMA EndPendingStep ==
  ASSUME Inv, EndPending
  PROVE  LoopInv' /\ PeersStep
<1>1. /\ PeersSame
      /\ \/ pc' = "sweep" /\ permit' = FALSE /\ deferred # <<>>
         \/ pc' = "submit" /\ permit' = permit
      /\ UNCHANGED <<deferred, pending, shutdown, listener, due, sq, inflight, cq>>
  BY DEF EndPending, PeersSame, peerVars
<1>2. /\ PendingCoversWork' /\ NoHalfError' /\ ShutdownCloses' /\ Fifos'
  BY <1>1, PeersSameLoop
<1>3. /\ RingOK(sq, inflight, cq)' /\ Outstanding' = Outstanding
      /\ PeerOps' = PeerOps /\ ListenerMirrored' /\ SendsFit'
  BY <1>1, RingSame DEF PeersSame
<1>4. LoopTypes'
  <2>1. LoopTypes
    BY DEF Inv, LoopInv
  <2> QED
    BY <1>1, <2>1 DEF LoopTypes
<1>5. SweepHasWork'
  BY <1>1 DEF SweepHasWork
<1> QED
  BY <1>1, <1>2, <1>3, <1>4, <1>5, PeersSameStep DEF LoopInv

\* One parked peer is rearmed or dropped, or the sweep stops.
LEMMA SweepHeadStep ==
  ASSUME Inv, SweepHead
  PROVE  LoopInv' /\ PeersStep
<1> DEFINE h == Head(deferred)
<1>1. /\ pc = "sweep"
      /\ UNCHANGED <<live, generation, queued, flight, pending, shutdown,
                     listener, due, inflight, cq>>
      /\ \/ StopSweep
         \/ /\ Rearms(h) => HasSqe
            /\ deferred' = Tail(deferred)
            /\ pc' = IF Tail(deferred) = <<>> THEN "submit" ELSE "sweep"
            /\ state' = [state EXCEPT ![h] = Step(@, "arm_receive")]
            /\ sq' = IF Rearms(h) THEN Append(sq, Peers!TokenOf("receive", h))
                                  ELSE sq
            /\ permit' = permit
  BY DEF SweepHead
<1>2. LoopInv
  BY DEF Inv
<1>3. CASE StopSweep
  <2>1. PeersSame /\ deferred' = deferred /\ sq' = sq /\ permit' = TRUE /\ pc' = "submit"
    BY <1>1, <1>3 DEF StopSweep, PeersSame
  <2>2. /\ PendingCoversWork' /\ NoHalfError' /\ ShutdownCloses' /\ Fifos'
    BY <1>1, <2>1, PeersSameLoop
  <2>3. /\ RingOK(sq, inflight, cq)' /\ Outstanding' = Outstanding
        /\ PeerOps' = PeerOps /\ ListenerMirrored' /\ SendsFit'
    BY <1>1, <2>1, RingSame DEF PeersSame
  <2>4. LoopTypes' /\ SweepHasWork'
    BY <1>1, <1>2, <2>1 DEF LoopInv, LoopTypes, SweepHasWork
  <2> QED
    BY <2>1, <2>2, <2>3, <2>4, PeersSameStep DEF LoopInv
<1>4. CASE ~StopSweep
  <2>1. /\ deferred \in Seq(Slot) /\ IsInjective(deferred) /\ deferred # <<>>
        /\ \A r \in ToSet(deferred) : live[r]
    BY <1>1, <1>2 DEF LoopInv, Fifos, QueuesAreFresh, SweepHasWork
  <2> HIDE DEF h
  <2>1a. /\ h \in Slot /\ h \in ToSet(deferred) /\ Tail(deferred) \in Seq(Slot)
         /\ IsInjective(Tail(deferred))
         /\ ToSet(Tail(deferred)) = ToSet(deferred) \ {h}
    BY <2>1, TailSet DEF h
  <2>1b. PICK s \in Slot : s = h
    BY <2>1a
  <2>2. /\ s \in Slot /\ s \in ToSet(deferred) /\ Tail(deferred) \in Seq(Slot)
        /\ IsInjective(Tail(deferred))
        /\ ToSet(Tail(deferred)) = ToSet(deferred) \ {s}
    BY <2>1a, <2>1b
  <2>3. live[s]
    BY <2>1, <2>2
  <2>4. /\ Rearms(s) => HasSqe
        /\ deferred' = Tail(deferred)
        /\ pc' = IF Tail(deferred) = <<>> THEN "submit" ELSE "sweep"
        /\ state' = [state EXCEPT ![s] = Step(@, "arm_receive")]
        /\ sq' = IF Rearms(s) THEN Append(sq, Peers!TokenOf("receive", s)) ELSE sq
        /\ permit' = permit
    BY <1>1, <1>4, <2>1b
  <2>5. /\ state \in [Slot -> State] /\ state[s] \in State
        /\ state[s].phase # "protocol_error"
    BY <1>2, <2>2, PeerInvFacts DEF Inv, PeerFacts, LoopInv, NoHalfError
  <2>6. /\ state'[s] = Step(state[s], "arm_receive")
        /\ \A r \in Slot \ {s} : state'[r] = state[r]
    BY <2>2, <2>4, <2>5
  <2>7. state'[s].phase = state[s].phase
    BY <2>5, <2>6, StepPhase
  <2>8. ~Rearms(s) => state'[s] = state[s]
    BY <2>6 DEF Step, Rearms
  <2>9. Rearms(s) => state[s].phase = "open" /\ ~state[s].receiving
    BY DEF Rearms, Accepts
  <2>10. Rearms(s) => Peers!TokenOf("receive", s) \notin Outstanding
    <3>1. PICK t : t = Peers!TokenOf("receive", s)
      OBVIOUS
    <3>2. t.op = "receive" /\ t.slot = s
      BY <3>1 DEF Peers!TokenOf
    <3>3. ASSUME t \in Outstanding PROVE state[s].receiving
      BY <3>2, <3>3, OwedToken
    <3> QED
      BY <2>9, <3>1, <3>3
  <2>11. /\ RingOK(sq, inflight, cq)' /\ ListenerMirrored' /\ Len(sq') <= SqCapacity
         /\ PeerOps' = IF Rearms(s) THEN PeerOps \cup {Peers!TokenOf("receive", s)}
                                    ELSE PeerOps
    <3>1. CASE Rearms(s)
      BY <1>1, <2>2, <2>3, <2>4, <2>10, <3>1, PeerPrepared DEF Peers!Op
    <3>2. CASE ~Rearms(s)
      <4>1. sq' = sq
        BY <2>4, <3>2
      <4>2. Len(sq') <= SqCapacity
        BY <1>2, <4>1 DEF LoopInv, LoopTypes
      <4> QED
        BY <1>1, <3>2, <4>1, <4>2, RingSame
    <3> QED
      BY <3>1, <3>2
  <2>12. SendsFit'
    BY <1>1, <1>2 DEF LoopInv, SendsFit
  <2>13. LoopTypes' /\ SweepHasWork'
    BY <1>1, <1>2, <2>4, <2>11 DEF LoopInv, LoopTypes, SweepHasWork
  <2>14. \A r : PendingOf(r)' = PendingOf(r)
    BY <1>1 DEF PendingOf
  <2>15. Fifos'
    BY <1>1, <1>2, <2>1, <2>2, <2>4, <2>14 DEF LoopInv, Fifos, QueuesAreFresh
  <2>16. PendingCoversWork'
    <3>1. OthersSame(s)
      BY <1>1, <2>6 DEF OthersSame
    <3>2. \/ PendingOf(s) \in ToSet(pending)
          \/ ~NeedsSend(s) /\ ~NeedsCancel(s) /\ ~Destroyable(s)
      BY <1>2, <2>2, <2>3 DEF LoopInv, PendingCoversWork
    <3>3. ASSUME ~NeedsSend(s), ~NeedsCancel(s), ~Destroyable(s)
          PROVE  ~NeedsSend(s)' /\ ~NeedsCancel(s)' /\ ~Destroyable(s)'
      BY <1>1, <2>7, <2>8, <2>9, <3>3
         DEF NeedsSend, NeedsCancel, Destroyable, IsClosing, Peers!CanDeinit
    <3>4. PendingCoversWork
      BY <1>2 DEF LoopInv
    <3> QED
      BY <1>1, <2>14, <3>1, <3>2, <3>3, <3>4, CoveredAfter
  <2>17. ShutdownCloses' /\ NoHalfError'
    BY <1>1, <1>2, <2>6, <2>7 DEF LoopInv, ShutdownCloses, NoHalfError, IsClosing
  <2>18. LoopInv'
    BY <2>11, <2>12, <2>13, <2>15, <2>16, <2>17 DEF LoopInv
  <2>19. Flags(Slot, ToSet(deferred')) = Cleared(Slot, ToSet(deferred), s)
    BY <2>2, <2>4, FlagClear
  <2>20. Peers!SweepDeferred(s)
    <3>1. /\ Peers!Step(state[s], "arm_receive") = Step(state[s], "arm_receive")
          /\ Peers!Accepts(state[s], "arm_receive") <=> Rearms(s)
      BY SameStatechart DEF Rearms
    <3> QED
      BY <1>1, <2>2, <2>4, <2>11, <2>19, <3>1
         DEF Peers!SweepDeferred, Flags, Cleared, PeerOps
  <2>21. Peers!Next
    BY <2>2, <2>20 DEF Peers!Next
  <2> QED
    BY <2>18, <2>21 DEF PeersStep
<1> QED
  BY <1>3, <1>4

-----------------------------------------------------------------------------
(* The kernel. *)

\* The SQ is submitted, and what is left over remembered.
LEMMA SubmitStep ==
  ASSUME Inv, Submit
  PROVE  LoopInv' /\ PeersStep
<1>1. /\ pc' = "wait" /\ inflight' = inflight \cup ToSet(sq) /\ sq' = <<>>
      /\ due' = PendingAfterPrepare /\ PeersSame
      /\ UNCHANGED <<deferred, permit, pending, shutdown, listener, cq>>
  BY DEF Submit, PeersSame, peerVars
<1>2. LoopInv
  BY DEF Inv
<1>3. RingOK(sq, inflight, cq)' /\ Outstanding' = Outstanding
  BY <1>1, <1>2, RingSubmit, OutstandingIsOwed DEF LoopInv
<1>4. PeerOps' = PeerOps
  BY <1>3 DEF PeerOps
<1>5. /\ PendingCoversWork' /\ NoHalfError' /\ ShutdownCloses' /\ Fifos'
  BY <1>1, PeersSameLoop
<1>6. SendsFit' /\ ListenerMirrored' /\ SweepHasWork'
  BY <1>1, <1>2, <1>3 DEF LoopInv, SendsFit, ListenerMirrored, SweepHasWork, PeersSame
<1>7. LoopTypes'
  <2>1. Len(sq') <= SqCapacity
    BY <1>1, CapacityAssumption
  <2>2. due' \in BOOLEAN
    BY <1>1 DEF PendingAfterPrepare
  <2> QED
    BY <1>1, <1>2, <2>1, <2>2 DEF LoopInv, LoopTypes
<1> QED
  BY <1>1, <1>3, <1>4, <1>5, <1>6, <1>7, PeersSameStep DEF LoopInv

\* A CQE takes a buffer only while one is free, and fits the send it ends.
LEMMA PostStep ==
  ASSUME Inv, NEW t, NEW result, NEW more, NEW n, Posts(t, result, more, n),
         Cqe(t, result, more, n) \in Cqes, Shaped(Cqe(t, result, more, n)),
         result \in {"data", "eof"} => FreeBuffers > 0,
         t.op = "send" => n <= flight[t.slot]
  PROVE  LoopInv' /\ PeersStep
<1> DEFINE c == Cqe(t, result, more, n)
<1>1. /\ t \in inflight /\ cq' = Append(cq, c)
      /\ inflight' = IF more THEN inflight ELSE inflight \ {t}
      /\ PeersSame
      /\ UNCHANGED <<deferred, permit, pending, shutdown, listener, pc, due, sq>>
  BY DEF Posts, PeersSame, peerVars, loopVars
<1>2. c.token = t /\ c.more = more /\ c.result = result /\ c.n = n
  BY DEF Cqe
<1>3. LoopInv /\ cq \in Seq(Cqes)
  BY DEF Inv, LoopInv, RingOK, RingTypes
<1> HIDE DEF c
<1>4. /\ RingOK(sq, IF c.more THEN inflight ELSE inflight \ {c.token}, Append(cq, c))
      /\ Owed(sq, IF c.more THEN inflight ELSE inflight \ {c.token}, Append(cq, c)) =
           Owed(sq, inflight, cq)
  BY <1>1, <1>2, <1>3, RingPost DEF LoopInv, c
<1>5. RingOK(sq, inflight, cq)' /\ Outstanding' = Outstanding
  BY <1>1, <1>2, <1>4, OutstandingIsOwed
<1>6. PeerOps' = PeerOps
  BY <1>5 DEF PeerOps
<1>7. /\ PendingCoversWork' /\ NoHalfError' /\ ShutdownCloses' /\ Fifos'
  BY <1>1, PeersSameLoop
<1>8. ListenerMirrored' /\ SweepHasWork'
  BY <1>1, <1>3, <1>5 DEF LoopInv, ListenerMirrored, SweepHasWork
<1>9. SendsFit'
  <2>1. \A i \in DOMAIN cq' : cq'[i] = c \/ (i \in DOMAIN cq /\ cq'[i] = cq[i])
    <3>1. /\ DOMAIN cq = 1..Len(cq) /\ DOMAIN Append(cq, c) = 1..(Len(cq) + 1)
          /\ Len(cq) \in Nat
          /\ \A i \in 1..Len(cq) : Append(cq, c)[i] = cq[i]
          /\ Append(cq, c)[Len(cq) + 1] = c
      BY <1>3 DEF c
    <3> QED
      BY <1>1, <3>1
  <2>2. flight' = flight
    BY <1>1 DEF PeersSame
  <2>3. \A i \in DOMAIN cq : cq[i].token.op = "send" => cq[i].n <= flight[cq[i].token.slot]
    BY <1>3 DEF LoopInv, SendsFit
  <2> QED
    BY <1>2, <2>1, <2>2, <2>3 DEF SendsFit
<1>10. LoopTypes'
  <2>1. Cardinality(Held(cq')) <= BufferCount
    <3>1. /\ Cardinality(Held(cq)) \in Nat
          /\ Cardinality(Held(cq')) =
               Cardinality(Held(cq)) + (IF HoldsBuffer(c) THEN 1 ELSE 0)
      BY <1>1, <1>3, HeldAppend DEF c
    <3>2. Cardinality(Held(cq)) <= BufferCount
      BY <1>3 DEF LoopInv, LoopTypes
    <3>3. HoldsBuffer(c) => BufferCount - Cardinality(Held(cq)) > 0
      BY <1>2 DEF HoldsBuffer, FreeBuffers, Held
    <3> QED
      BY <3>1, <3>2, <3>3, BufferAssumption
  <2> QED
    BY <1>1, <1>3, <2>1 DEF LoopInv, LoopTypes
<1> QED
  BY <1>1, <1>5, <1>6, <1>7, <1>8, <1>9, <1>10, PeersSameStep DEF LoopInv

\* Every CQE the kernel may post is of that kind.
LEMMA KernelStep ==
  ASSUME Inv, NEW t \in inflight, Kernel(t)
  PROVE  LoopInv' /\ PeersStep
<1>1. t \in AnyToken /\ t \in Outstanding
  <2>1. t \in Outstanding
    BY DEF Outstanding
  <2> QED
    BY <2>1, OwedAny
<1>2. 0 \in 0..ByteBudget
  BY BudgetAssumption
<1>3. ASSUME NEW result, NEW more \in BOOLEAN, NEW n \in 0..ByteBudget,
             result \in {"data", "eof", "nobufs", "failed", "canceled", "sent",
                         "done", "accepted"}
      PROVE  /\ Cqe(t, result, more, n) \in Cqes
             /\ Cqe(t, result, more, n).token = t
             /\ Cqe(t, result, more, n).result = result
             /\ Cqe(t, result, more, n).more = more
  BY <1>1, <1>3 DEF Cqe, Cqes
<1>4. t.op = "send" => flight[t.slot] \in 0..ByteBudget
  BY <1>1, OwedToken, PeerInvFacts DEF Inv, PeerFacts
<1>5. CASE PostReceive(t)
  <2>1. PICK result \in {"data", "eof", "nobufs", "failed"}, more \in BOOLEAN :
          /\ Posts(t, result, more, 0) /\ (more => result = "data")
          /\ result \in {"data", "eof"} => FreeBuffers > 0
    BY <1>5 DEF PostReceive
  <2>2. t.op = "receive"
    BY <1>5 DEF PostReceive
  <2>3. Shaped(Cqe(t, result, more, 0)) /\ Cqe(t, result, more, 0) \in Cqes
    BY <1>2, <1>3, <2>1, <2>2 DEF Shaped
  <2> QED
    BY <2>1, <2>2, <2>3, PostStep
<1>6. CASE PostSend(t)
  <2>1. PICK result \in {"sent", "failed"}, n \in 0..ByteBudget :
          Posts(t, result, FALSE, n) /\ n <= flight[t.slot]
    <3>1. t.op = "send"
      BY <1>6 DEF PostSend
    <3>2. CASE \E n \in 1..flight[t.slot] : Posts(t, "sent", FALSE, n)
      <4>1. PICK n \in 1..flight[t.slot] : Posts(t, "sent", FALSE, n)
        BY <3>2
      <4>2. n \in 0..ByteBudget /\ n <= flight[t.slot]
        BY <1>4, <3>1, BudgetAssumption
      <4> QED
        BY <4>1, <4>2
    <3>3. CASE Posts(t, "failed", FALSE, 0)
      <4>1. 0 <= flight[t.slot]
        BY <1>4, <3>1
      <4> QED
        BY <1>2, <3>3, <4>1
    <3> QED
      BY <1>6, <3>2, <3>3 DEF PostSend
  <2>2. t.op = "send"
    BY <1>6 DEF PostSend
  <2>3. Shaped(Cqe(t, result, FALSE, n)) /\ Cqe(t, result, FALSE, n) \in Cqes
    <3>1. PICK more \in BOOLEAN : more = FALSE
      OBVIOUS
    <3>2. /\ Cqe(t, result, more, n) \in Cqes /\ Cqe(t, result, more, n).token = t
          /\ Cqe(t, result, more, n).more = more
      BY <1>3, <2>1
    <3>3. Shaped(Cqe(t, result, more, n))
      BY <2>2, <3>1, <3>2 DEF Shaped
    <3> QED
      BY <3>1, <3>2, <3>3
  <2> QED
    BY <2>1, <2>3, PostStep
<1>7. CASE PostAccept(t)
  <2>1. PICK result \in {"accepted", "failed"}, more \in BOOLEAN :
          Posts(t, result, more, 0) /\ (more => result = "accepted")
    BY <1>7 DEF PostAccept
  <2>2. t = Accept /\ t.op = "accept"
    BY <1>7, TokenKinds DEF PostAccept
  <2>3. Shaped(Cqe(t, result, more, 0)) /\ Cqe(t, result, more, 0) \in Cqes
    BY <1>2, <1>3, <2>1, <2>2 DEF Shaped
  <2> QED
    BY <2>1, <2>2, <2>3, PostStep
<1>8. CASE Settle(t)
  <2>1. PICK result \in {"canceled", "done"} :
          /\ Posts(t, result, FALSE, 0)
          /\ t.op = "receive" => result = "canceled"
    BY <1>8 DEF Settle, PostCanceled, PostCancelDone
  <2>2. Shaped(Cqe(t, result, FALSE, 0)) /\ Cqe(t, result, FALSE, 0) \in Cqes
    <3>1. PICK more \in BOOLEAN : more = FALSE
      OBVIOUS
    <3>2. /\ Cqe(t, result, more, 0) \in Cqes /\ Cqe(t, result, more, 0).token = t
          /\ Cqe(t, result, more, 0).result = result
          /\ Cqe(t, result, more, 0).more = more
      BY <1>2, <1>3, <2>1
    <3>3. Shaped(Cqe(t, result, more, 0))
      BY <2>1, <3>1, <3>2 DEF Shaped
    <3> QED
      BY <3>1, <3>2, <3>3
  <2>3. t.op = "send" => 0 <= flight[t.slot]
    BY <1>4
  <2> QED
    BY <2>1, <2>2, <2>3, PostStep
<1> QED
  BY <1>5, <1>6, <1>7, <1>8 DEF Kernel

-----------------------------------------------------------------------------
(* The theorems. *)

\* The driver's start satisfies the invariant and is the start of Connection.
LEMMA InitInv == Init => Inv /\ Peers!Init
<1> SUFFICES ASSUME Init PROVE Inv /\ Peers!Init
  OBVIOUS
<1>1. /\ live = [s \in Slot |-> FALSE] /\ generation = [s \in Slot |-> 0]
      /\ state = [s \in Slot |-> Initial] /\ queued = [s \in Slot |-> 0]
      /\ flight = [s \in Slot |-> 0]
      /\ deferred = <<>> /\ permit = FALSE /\ pending = <<>> /\ shutdown = FALSE
      /\ listener = [phase |-> "open", accepting |-> TRUE]
      /\ pc = "submit" /\ due = FALSE /\ sq = <<Accept>> /\ inflight = {}
      /\ cq = <<>>
  BY DEF Init
<1>2. ToSet(sq) = {Accept} /\ ToSet(deferred) = {} /\ ToSet(pending) = {}
      /\ IsInjective(sq) /\ IsInjective(deferred) /\ IsInjective(pending)
      /\ DOMAIN cq = {} /\ sq \in Seq(AnyToken) /\ Len(sq) = 1
      /\ deferred \in Seq(Slot) /\ pending \in Seq(Entry) /\ cq \in Seq(Cqes)
  BY <1>1 DEF ToSet, IsInjective, AnyToken
<1>3. EndingIn(cq) = {} /\ EndedIn(cq) = {} /\ Held(cq) = {}
  BY <1>2 DEF EndingIn, EndedIn, Held
<1>4. Outstanding = {Accept}
  BY <1>1, <1>2, <1>3, OutstandingIsOwed DEF Owed
<1>5. RingOK(sq, inflight, cq)
  <2>1. RingTypes(sq, inflight, cq)
    BY <1>1, <1>2 DEF RingTypes
  <2>2. Distinct(sq, inflight, cq)
    BY <1>1, <1>2, <1>3 DEF Distinct
  <2>3. EndsLast(sq, inflight, cq)
    BY <1>2 DEF EndsLast
  <2> QED
    BY <2>1, <2>2, <2>3 DEF RingOK
<1>6. LoopTypes
  <2>1. Cardinality(Held(cq)) <= BufferCount
    BY <1>3, FS_EmptySet, BufferAssumption
  <2>2. Len(sq) <= SqCapacity
    BY <1>2, CapacityAssumption
  <2>3. listener \in [phase: {"open", "closing", "canceling"}, accepting: BOOLEAN]
    BY <1>1
  <2> QED
    BY <1>1, <2>1, <2>2, <2>3 DEF LoopTypes
<1>7. SendsFit /\ PendingCoversWork /\ ShutdownCloses /\ SweepHasWork
  BY <1>1, <1>2 DEF SendsFit, PendingCoversWork, ShutdownCloses, SweepHasWork
<1>8. ListenerMirrored
  BY <1>1, <1>4, TokenKinds DEF ListenerMirrored
<1>9. Fifos
  BY <1>1, <1>2 DEF Fifos, QueuesAreFresh
<1>10. NoHalfError
  BY <1>1 DEF NoHalfError, Initial
<1>11. Peers!Init /\ P!Init
  <2>1. PeerOps = {}
    BY <1>4, TokenKinds DEF PeerOps
  <2>2. [s \in Slot |-> s \in ToSet(deferred)] = [s \in Slot |-> FALSE]
    <3> DEFINE F == [s \in Slot |-> s \in ToSet(deferred)]
               G == [s \in Slot |-> FALSE]
    <3>1. F \in [Slot -> BOOLEAN] /\ G \in [Slot -> BOOLEAN]
      OBVIOUS
    <3>2. \A s \in Slot : F[s] <=> G[s]
      BY <1>2
    <3> HIDE DEF F, G
    <3>3. F = G
      BY <3>1, <3>2
    <3> QED
      BY <3>3 DEF F, G
  <2>3. P!Initial = Initial
    BY DEF P!Initial, Initial
  <2> QED
    BY <1>1, <2>1, <2>2, <2>3, SameStatechart DEF Peers!Init, P!Init, PeerOps
<1>12. P!Inv
  BY <1>11, P!InitInv, GenerationAssumption, BudgetAssumption
<1> QED
  BY <1>5, <1>6, <1>7, <1>8, <1>9, <1>10, <1>11, <1>12 DEF Inv, LoopInv

\* Every step of the loop preserves its part of the invariant and is a step
\* of its peers.
LEMMA NextStep == Inv /\ [Next]_vars => LoopInv' /\ PeersStep
<1> SUFFICES ASSUME Inv, [Next]_vars PROVE LoopInv' /\ PeersStep
  OBVIOUS
<1>1. CASE UNCHANGED vars
  <2>1. /\ PeersSame
        /\ UNCHANGED <<deferred, permit, pending, shutdown, listener, pc, due, sq,
                       inflight, cq>>
    BY <1>1 DEF vars, peerVars, loopVars, PeersSame
  <2>2. /\ PendingCoversWork' /\ NoHalfError' /\ ShutdownCloses' /\ Fifos'
    BY <2>1, PeersSameLoop
  <2>3. /\ RingOK(sq, inflight, cq)' /\ Outstanding' = Outstanding
        /\ PeerOps' = PeerOps /\ ListenerMirrored' /\ SendsFit'
    BY <2>1, RingSame DEF PeersSame
  <2>4. LoopTypes' /\ SweepHasWork'
    BY <2>1 DEF Inv, LoopInv, LoopTypes, SweepHasWork
  <2> QED
    BY <2>1, <2>2, <2>3, <2>4, PeersSameStep DEF LoopInv
<1>2. CASE Handle
  BY <1>2, HandleReceiveStep, HandleSendStep, HandleCancelStep,
     HandleAcceptedStep, HandleAcceptEndStep, HandleAcceptCancelStep DEF Handle
<1>3. CASE \E s \in Slot : Produce(s)
  BY <1>3, ProduceStep
<1>4. CASE RequestShutdown
  BY <1>4, RequestShutdownStep
<1>5. CASE BeginPrepare
  BY <1>5, BeginPrepareStep
<1>6. CASE Prepare
  BY <1>6, SkipHeadStep, EndPendingStep, SweepHeadStep, DestroyHeadStep,
     CancelHeadStep, SendHeadStep DEF Prepare
<1>7. CASE Submit
  BY <1>7, SubmitStep
<1>8. CASE \E t \in inflight : Kernel(t)
  BY <1>8, KernelStep
<1>9. CASE Finished
  BY <1>1, <1>9 DEF Finished
<1> QED
  BY <1>1, <1>2, <1>3, <1>4, <1>5, <1>6, <1>7, <1>8, <1>9 DEF Next

\* The invariant is inductive.
LEMMA NextInv == Inv /\ [Next]_vars => Inv'
BY NextStep, PeersInv DEF Inv

\* The invariant holds in every state the driver reaches.
THEOREM Invariance == Spec => []Inv
<1>1. Init => Inv
  BY InitInv
<1> QED
  BY <1>1, NextInv, PTL DEF Spec

\* Every variable keeps its type: the SQ never holds more entries than it
\* has, and no CQE takes a receive buffer that another one still holds.
THEOREM TypeCorrect == Spec => []TypeOK
<1>1. Inv => TypeOK
  <2> SUFFICES ASSUME Inv PROVE TypeOK
    OBVIOUS
  <2>1. Peers!TypeOK
    BY PeerInvFacts DEF Inv
  <2>2. FreeBuffers \in 0..BufferCount
    <3>1. cq \in Seq(Cqes) /\ Cardinality(Held(cq)) <= BufferCount
      BY DEF Inv, LoopInv, LoopTypes, RingOK, RingTypes
    <3>2. Cardinality(Held(cq)) \in Nat
      <4>1. DOMAIN cq = 1..Len(cq) /\ Len(cq) \in Nat
        BY <3>1
      <4>2. IsFiniteSet(1..Len(cq)) /\ Held(cq) \in SUBSET (1..Len(cq))
        BY <4>1, FS_Interval DEF Held
      <4> QED
        BY <4>2, FS_Subset, FS_CardinalityType
    <3>3. FreeBuffers = BufferCount - Cardinality(Held(cq))
      BY DEF FreeBuffers, Held
    <3> QED
      BY <3>1, <3>2, <3>3, BufferAssumption
  <2> QED
    BY <2>1, <2>2 DEF Inv, LoopInv, LoopTypes, Fifos, Entry, TypeOK
<1> QED
  BY <1>1, Invariance, PTL

\* No FIFO names a peer twice, a destroyed one, or one of an earlier
\* generation of the slot.
THEOREM FifosAreFresh == Spec => []QueuesAreFresh
<1>1. Inv => QueuesAreFresh
  BY DEF Inv, LoopInv, Fifos
<1> QED
  BY <1>1, Invariance, PTL

\* A peer whose send, cancel or destruction is to be prepared is in the
\* pending FIFO: `schedule` is called wherever such work comes to be.
THEOREM NoWorkIsForgotten == Spec => []PendingCoversWork
<1>1. Inv => PendingCoversWork
  BY DEF Inv, LoopInv
<1> QED
  BY <1>1, Invariance, PTL

\* No user_data ever names two operations, wherever they are in the ring.
THEOREM TokensAreUnique == Spec => []OneOperationPerToken
<1>1. Inv => OneOperationPerToken
  BY DEF Inv, LoopInv, RingOK, Distinct, OneOperationPerToken, Ended, Ending,
         EndedIn, EndingIn
<1> QED
  BY <1>1, Invariance, PTL

\* No peer is open after the shutdown request, and once the shutdown is
\* complete nothing of the server is left in the ring.
THEOREM QuietAfterShutdown == Spec => []ShutdownIsQuiet
<1>1. Inv => ShutdownIsQuiet
  <2> SUFFICES ASSUME Inv PROVE ShutdownIsQuiet
    OBVIOUS
  <2>1. shutdown => \A s \in Slot : live[s] => IsClosing(state[s])
    BY DEF Inv, LoopInv, ShutdownCloses
  <2>2. ASSUME ShutdownComplete
        PROVE  sq = <<>> /\ inflight = {} /\ cq = <<>> /\ deferred = <<>>
    <3>1. Outstanding = {}
      <4> SUFFICES ASSUME NEW t \in Outstanding PROVE FALSE
        OBVIOUS
      <4>1. t # Accept /\ t # AcceptCancel
        BY <2>2 DEF Inv, LoopInv, ListenerMirrored, ShutdownComplete
      <4>2. t.op \in {"receive", "send", "cancel"}
        BY <4>1, OwedAny, TokenKinds DEF AnyToken
      <4> QED
        BY <2>2, <4>2, OwedToken DEF ShutdownComplete
    <3>2. /\ sq \in Seq(AnyToken) /\ cq \in Seq(Cqes) /\ EndsLast(sq, inflight, cq)
          /\ deferred \in Seq(Slot) /\ \A s \in ToSet(deferred) : live[s]
      BY DEF Inv, LoopInv, RingOK, RingTypes, Fifos, QueuesAreFresh
    <3>3. ToSet(sq) = {} /\ inflight = {}
      BY <3>1 DEF Outstanding
    <3>4. sq = <<>>
      BY <3>2, <3>3, TailSet
    <3>5. DOMAIN cq = {}
      BY <3>1, <3>2, CqeOwed, OutstandingIsOwed
    <3>6. cq = <<>>
      <4>1. cq # <<>> => 1 \in DOMAIN cq
        BY <3>2
      <4> QED
        BY <3>5, <4>1
    <3>7. deferred = <<>>
      <4> SUFFICES ASSUME deferred # <<>> PROVE FALSE
        OBVIOUS
      <4>1. Head(deferred) \in Slot /\ Head(deferred) \in ToSet(deferred)
        BY <3>2, TailSet
      <4> QED
        BY <2>2, <3>2, <4>1 DEF ShutdownComplete
    <3> QED
      BY <3>3, <3>4, <3>6, <3>7
  <2> QED
    BY <2>1, <2>2 DEF ShutdownIsQuiet
<1> QED
  BY <1>1, Invariance, PTL

\* Whatever the loop queues, batches and defers, its peers are connections:
\* each step of the loop is one step of Connection, or none.
THEOREM Implements == Spec => Connections
<1>1. Init => Peers!Init
  BY InitInv
<1>2. Inv /\ [Next]_vars => [Peers!Next]_(Peers!vars)
  BY NextStep DEF PeersStep
<1> QED
  BY <1>1, <1>2, Invariance, PTL DEF Spec, Connections, Peers!Spec

\* What Connection promises of a peer therefore holds under the loop too.
THEOREM PeersKeepTheirPromises ==
  Spec => [](Peers!OperationsMirrored /\ Peers!OpenIsHeard /\ Peers!DrainingHasOutput)
<1>1. P!Inv => /\ Peers!OperationsMirrored /\ Peers!OpenIsHeard
               /\ Peers!DrainingHasOutput
  BY DEF P!Inv, P!OperationsMirrored, P!OpenIsHeard, P!DrainingHasOutput,
         P!Token, P!Op, P!Routes, P!RegionActive, Peers!OperationsMirrored,
         Peers!OpenIsHeard, Peers!DrainingHasOutput, Peers!Token, Peers!Op,
         Peers!Routes, Peers!RegionActive
<1>2. Inv => P!Inv
  BY DEF Inv
<1> QED
  BY <1>1, <1>2, Invariance, PTL

=============================================================================
