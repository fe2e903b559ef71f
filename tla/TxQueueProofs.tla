---------------------------- MODULE TxQueueProofs ----------------------------
(***************************************************************************)
(* Proofs about TxQueue for every number of connections, blocks and        *)
(* descriptors and every size.                                             *)
(*                                                                         *)
(* DescriptorsOwnedOnce is not inductive: that completing a send closes    *)
(* descriptors of its own queue only, and no more than there are, rests on *)
(* a send carrying at most what its queue still holds (`ControlFits`).     *)
(***************************************************************************)
EXTENDS TxQueue, TLAPS

\* Concatenation keeps the elements of both sequences.
LEMMA ConcatSet ==
  ASSUME NEW S, NEW s \in Seq(S), NEW t \in Seq(S)
  PROVE  ToSet(s \o t) = ToSet(s) \cup ToSet(t)
<1>1. ASSUME NEW i \in DOMAIN s
      PROVE  i \in DOMAIN (s \o t) /\ (s \o t)[i] = s[i]
  OBVIOUS
<1>2. ASSUME NEW i \in DOMAIN t
      PROVE  Len(s) + i \in DOMAIN (s \o t) /\ (s \o t)[Len(s) + i] = t[i]
  OBVIOUS
<1>3. ASSUME NEW i \in DOMAIN (s \o t)
      PROVE  (s \o t)[i] \in ToSet(s) \cup ToSet(t)
  BY DEF ToSet
<1> QED
  BY ZenonT(60), <1>1, <1>2, <1>3 DEF ToSet

\* A concatenation repeats nothing if its parts do not and share nothing.
LEMMA ConcatInjective ==
  ASSUME NEW S, NEW s \in Seq(S), NEW t \in Seq(S),
         IsInjective(s), IsInjective(t), ToSet(s) \cap ToSet(t) = {}
  PROVE  IsInjective(s \o t)
<1> SUFFICES ASSUME NEW i \in DOMAIN (s \o t), NEW j \in DOMAIN (s \o t),
                    (s \o t)[i] = (s \o t)[j]
             PROVE  i = j
  BY DEF IsInjective
<1>1. CASE i \in DOMAIN s /\ j \in DOMAIN s
  BY <1>1 DEF IsInjective
<1>2. CASE i \notin DOMAIN s /\ j \notin DOMAIN s
  <2>1. i - Len(s) \in DOMAIN t /\ (s \o t)[i] = t[i - Len(s)]
    BY <1>2
  <2>2. j - Len(s) \in DOMAIN t /\ (s \o t)[j] = t[j - Len(s)]
    BY <1>2
  <2>3. i - Len(s) = j - Len(s)
    BY <2>1, <2>2 DEF IsInjective
  <2> QED
    BY <2>3
<1>3. ASSUME NEW a \in DOMAIN (s \o t), NEW b \in DOMAIN (s \o t),
             a \in DOMAIN s, b \notin DOMAIN s, (s \o t)[a] = (s \o t)[b]
      PROVE  FALSE
  <2>1. b - Len(s) \in DOMAIN t /\ (s \o t)[b] = t[b - Len(s)]
    BY <1>3
  <2>2. s[a] = t[b - Len(s)]
    BY <1>3, <2>1
  <2>3. s[a] \in ToSet(s) \cap ToSet(t)
    BY <1>3, <2>1, <2>2 DEF ToSet
  <2> QED
    BY <2>3
<1> QED
  BY <1>1, <1>2, <1>3

\* The parts of a concatenation that repeats nothing.
LEMMA ConcatParts ==
  ASSUME NEW S, NEW s \in Seq(S), NEW t \in Seq(S), IsInjective(s \o t)
  PROVE  IsInjective(s) /\ IsInjective(t) /\ ToSet(s) \cap ToSet(t) = {}
<1>1. ASSUME NEW i \in DOMAIN s
      PROVE  i \in DOMAIN (s \o t) /\ (s \o t)[i] = s[i]
  OBVIOUS
<1>2. ASSUME NEW i \in DOMAIN t
      PROVE  Len(s) + i \in DOMAIN (s \o t) /\ (s \o t)[Len(s) + i] = t[i]
  OBVIOUS
<1>3. IsInjective(s)
  BY <1>1 DEF IsInjective
<1>4. IsInjective(t)
  <2> SUFFICES ASSUME NEW i \in DOMAIN t, NEW j \in DOMAIN t, t[i] = t[j]
               PROVE  i = j
    BY DEF IsInjective
  <2>1. Len(s) + i = Len(s) + j
    BY <1>2 DEF IsInjective
  <2> QED
    BY <2>1
<1>5. ASSUME NEW i \in DOMAIN s, NEW j \in DOMAIN t, s[i] = t[j]
      PROVE  FALSE
  <2>1. i = Len(s) + j
    BY <1>1, <1>2, <1>5 DEF IsInjective
  <2> QED
    BY <2>1
<1> QED
  BY <1>3, <1>4, <1>5 DEF ToSet

\* What is left when the first n elements of a sequence without repetitions
\* are taken.
LEMMA RestOf ==
  ASSUME NEW S, NEW s \in Seq(S), NEW n \in 0..Len(s), IsInjective(s)
  PROVE  LET rest == SubSeq(s, n + 1, Len(s))
         IN /\ rest \in Seq(S)
            /\ IsInjective(rest)
            /\ ToSet(rest) = ToSet(s) \ {s[i] : i \in 1..n}
            /\ {s[i] : i \in 1..n} \subseteq ToSet(s)
<1> DEFINE rest == SubSeq(s, n + 1, Len(s))
<1>1. rest \in Seq(S) /\ Len(rest) = Len(s) - n
  OBVIOUS
<1>2. \A i \in 1..Len(rest) : i + n \in DOMAIN s /\ rest[i] = s[i + n]
  BY SMT
<1>3. IsInjective(rest)
  <2> SUFFICES ASSUME NEW i \in 1..Len(rest), NEW j \in 1..Len(rest),
                      rest[i] = rest[j]
               PROVE  i = j
    BY <1>1 DEF IsInjective
  <2>1. i + n = j + n
    BY <1>2 DEF IsInjective
  <2> QED
    BY <2>1
<1>4. ToSet(rest) \subseteq ToSet(s) \ {s[i] : i \in 1..n}
  <2> SUFFICES ASSUME NEW i \in 1..Len(rest), NEW j \in 1..n, rest[i] = s[j]
               PROVE  FALSE
    BY <1>1, <1>2 DEF ToSet
  <2>1. i + n = j
    BY <1>2 DEF IsInjective
  <2> QED
    BY <2>1
<1>5. ASSUME NEW i \in DOMAIN s, s[i] \notin {s[j] : j \in 1..n}
      PROVE  s[i] \in ToSet(rest)
  <2>1. i - n \in 1..Len(rest)
    BY <1>1, <1>5
  <2>2. rest[i - n] = s[i]
    BY <1>2, <2>1
  <2> QED
    BY <1>1, <2>1, <2>2 DEF ToSet
<1>6. {s[i] : i \in 1..n} \subseteq ToSet(s)
  BY DEF ToSet
<1> HIDE DEF rest
<1>7. ToSet(rest) = ToSet(s) \ {s[i] : i \in 1..n}
  BY <1>4, <1>5 DEF ToSet
<1> QED
  BY <1>1, <1>3, <1>6, <1>7 DEF rest

\* A sequence is the function of its elements.
LEMMA SequenceOf ==
  ASSUME NEW S, NEW s \in Seq(S), NEW n \in Nat, Len(s) = n
  PROVE  s = [i \in 1..n |-> s[i]]
OBVIOUS

-----------------------------------------------------------------------------

\* What a queue keeps of a descriptor.
Entry == [fd: Fd, first: Nat]

DescriptorTypes ==
  /\ fds \in [Queue -> Seq(Entry)]
  /\ open \subseteq Fd /\ held \subseteq open
  /\ accepted \in [Queue -> Nat]
  /\ DOMAIN reservation = Queue
  /\ \A q \in Queue : reservation[q].count \in Nat
  /\ DOMAIN active = Queue

\* A send carries no more descriptors than its queue still holds, so that its
\* completion closes descriptors of this queue only.
ControlFits ==
  \A q \in Queue : /\ active[q].control \in Seq(Fd)
                    /\ Len(active[q].control) <= Len(fds[q])

\* The inductive invariant.
FdInv == DescriptorTypes /\ ControlFits /\ DescriptorsOwnedOnce

\* The rights of a queue are a sequence of descriptors.
LEMMA RightsType ==
  ASSUME NEW q \in Queue, fds[q] \in Seq(Entry)
  PROVE  Rights(q) \in Seq(Fd) /\ Len(Rights(q)) = Len(fds[q])
<1>1. ASSUME NEW i \in 1..Len(fds[q])
      PROVE  fds[q][i].fd \in Fd
  <2>1. fds[q][i] \in Entry
    OBVIOUS
  <2> QED
    BY <2>1 DEF Entry
<1>2. Rights(q) \in [1..Len(fds[q]) -> Fd]
  BY <1>1 DEF Rights
<1> QED
  BY <1>2

\* If one queue hands descriptors over to or takes them from the caller, or
\* closes some of its own, and the rest stays, ownership stays exclusive.
LEMMA OneQueueMoves ==
  ASSUME DescriptorsOwnedOnce, NEW q \in Queue,
         \A r \in Queue : r # q => Rights(r)' = Rights(r),
         IsInjective(Rights(q)'),
         ToSet(Rights(q)') \subseteq ToSet(Rights(q)) \cup held,
         ToSet(Rights(q)') \cap held' = {},
         held' \subseteq held,
         open' = (open \ (ToSet(Rights(q)) \cup held))
                   \cup held' \cup ToSet(Rights(q)')
  PROVE  DescriptorsOwnedOnce'
<1>1. \A r \in Queue : IsInjective(Rights(r)') /\ ToSet(Rights(r)') \cap held' = {}
  BY DEF DescriptorsOwnedOnce
<1>2. \A r, p \in Queue : r # p => ToSet(Rights(r)') \cap ToSet(Rights(p)') = {}
  BY DEF DescriptorsOwnedOnce
<1>3. open' = held' \cup UNION {ToSet(Rights(r)') : r \in Queue}
  <2>1. ASSUME NEW f \in open'
        PROVE  f \in held' \cup UNION {ToSet(Rights(r)') : r \in Queue}
    <3>1. CASE f \in held' \cup ToSet(Rights(q)')
      BY <3>1
    <3>2. CASE f \in open \ (ToSet(Rights(q)) \cup held)
      <4>1. PICK r \in Queue : f \in ToSet(Rights(r))
        BY <3>2 DEF DescriptorsOwnedOnce
      <4>2. r # q
        BY <3>2, <4>1
      <4> QED
        BY <4>1, <4>2
    <3> QED
      BY <2>1, <3>1, <3>2
  <2>2. ASSUME NEW r \in Queue, NEW f \in ToSet(Rights(r)')
        PROVE  f \in open'
    <3>1. CASE r = q
      BY <2>2, <3>1
    <3>2. CASE r # q
      <4>1. f \in ToSet(Rights(r))
        BY <2>2, <3>2
      <4>2. f \in open
        BY <4>1 DEF DescriptorsOwnedOnce
      <4>3. f \notin ToSet(Rights(q)) /\ f \notin held
        BY <3>2, <4>1 DEF DescriptorsOwnedOnce
      <4> QED
        BY <4>2, <4>3
    <3> QED
      BY <3>1, <3>2
  <2> QED
    BY <2>1, <2>2
<1> QED
  BY <1>1, <1>2, <1>3 DEF DescriptorsOwnedOnce

\* A message's descriptors join the queue behind the others.
LEMMA TakeDescriptorsInv ==
  ASSUME FdInv, NEW q \in Queue, NEW d \in Seq(Fd), TakeDescriptors(q, d),
         UNCHANGED active
  PROVE  /\ fds' \in [Queue -> Seq(Entry)]
         /\ open' \subseteq Fd /\ held' \subseteq open'
         /\ ControlFits' /\ DescriptorsOwnedOnce'
<1> USE DEF FdInv
<1> DEFINE tagged == [i \in DOMAIN d |-> [fd |-> d[i], first |-> accepted[q] + 1]]
<1>1. tagged \in Seq(Entry) /\ Len(tagged) = Len(d)
  <2>1. accepted[q] + 1 \in Nat
    BY DEF DescriptorTypes
  <2>2. \A i \in 1..Len(d) : [fd |-> d[i], first |-> accepted[q] + 1] \in Entry
    BY <2>1 DEF Entry
  <2>3. tagged \in [1..Len(d) -> Entry] /\ DOMAIN d = 1..Len(d)
    BY <2>2
  <2> QED
    BY <2>3
<1>2. fds' = [fds EXCEPT ![q] = fds[q] \o tagged]
  BY DEF TakeDescriptors
<1>3. fds[q] \o tagged \in Seq(Entry)
  BY <1>1 DEF DescriptorTypes
<1>4. fds'[q] = fds[q] \o tagged /\ \A r \in Queue : r # q => fds'[r] = fds[r]
  BY <1>2 DEF DescriptorTypes
<1>5. fds' \in [Queue -> Seq(Entry)]
  BY <1>2, <1>3 DEF DescriptorTypes
<1>6. Rights(q)' = Rights(q) \o d
  <2>1. Rights(q) \in Seq(Fd) /\ Len(Rights(q)) = Len(fds[q])
    BY RightsType DEF DescriptorTypes
  <2> HIDE DEF tagged
  <2>2. DOMAIN fds'[q] = 1..(Len(fds[q]) + Len(d))
    <3>1. fds[q] \in Seq(Entry)
      BY DEF DescriptorTypes
    <3>2. DOMAIN (fds[q] \o tagged) = 1..(Len(fds[q]) + Len(tagged))
      BY <1>1, <3>1
    <3> QED
      BY <1>1, <1>4, <3>2
  <2>3. ASSUME NEW i \in 1..(Len(fds[q]) + Len(d))
        PROVE  fds'[q][i].fd = (Rights(q) \o d)[i]
    <3>1. CASE i <= Len(fds[q])
      <4>1. fds'[q][i] = fds[q][i]
        BY <1>1, <1>4, <3>1 DEF DescriptorTypes
      <4>2. (Rights(q) \o d)[i] = Rights(q)[i]
        BY <2>1, <3>1
      <4>3. Rights(q)[i] = fds[q][i].fd
        BY <3>1 DEF Rights, DescriptorTypes
      <4> QED
        BY <4>1, <4>2, <4>3
    <3>2. CASE i > Len(fds[q])
      <4>1. i - Len(fds[q]) \in 1..Len(d)
        BY <3>2 DEF DescriptorTypes
      <4>2. fds'[q][i] = tagged[i - Len(fds[q])]
        BY <1>1, <1>4, <3>2, <4>1 DEF DescriptorTypes
      <4>3. (Rights(q) \o d)[i] = d[i - Len(fds[q])]
        BY <2>1, <3>2, <4>1
      <4>4. tagged[i - Len(fds[q])].fd = d[i - Len(fds[q])]
        BY <4>1 DEF tagged
      <4> QED
        BY <4>2, <4>3, <4>4
    <3>3. Len(fds[q]) \in Nat /\ i \in Nat
      BY DEF DescriptorTypes
    <3>4. i <= Len(fds[q]) \/ i > Len(fds[q])
      BY <3>3
    <3> QED
      BY <3>1, <3>2, <3>4
  <2>4. Rights(q)' = [i \in 1..(Len(fds[q]) + Len(d)) |-> (Rights(q) \o d)[i]]
    BY <2>2, <2>3 DEF Rights
  <2>5. Rights(q) \o d \in Seq(Fd) /\ Len(Rights(q) \o d) = Len(fds[q]) + Len(d)
    BY <2>1
  <2>6. Len(fds[q]) + Len(d) \in Nat
    BY DEF DescriptorTypes
  <2> QED
    BY <2>4, <2>5, <2>6, SequenceOf
<1>7. Rights(q) \in Seq(Fd)
  BY RightsType DEF DescriptorTypes
<1>8. IsInjective(Rights(q)')
  BY <1>6, <1>7, ConcatInjective DEF TakeDescriptors, DescriptorsOwnedOnce
<1>9. ToSet(Rights(q)') = ToSet(Rights(q)) \cup ToSet(d)
  BY <1>6, <1>7, ConcatSet
<1>10. \A r \in Queue : r # q => Rights(r)' = Rights(r)
  BY <1>4 DEF Rights
<1>11. DescriptorsOwnedOnce'
  <2>1. ToSet(Rights(q)') \cap held' = {}
    BY <1>9 DEF TakeDescriptors, DescriptorsOwnedOnce
  <2>2. open' = (open \ (ToSet(Rights(q)) \cup held))
                  \cup held' \cup ToSet(Rights(q)')
    <3>1. ToSet(Rights(q)) \subseteq open /\ ToSet(d) \subseteq held
      BY DEF DescriptorsOwnedOnce, TakeDescriptors
    <3> QED
      BY <1>9, <3>1 DEF TakeDescriptors, DescriptorTypes
  <2>3. ToSet(Rights(q)') \subseteq ToSet(Rights(q)) \cup held
    BY <1>9 DEF TakeDescriptors
  <2>4. held' \subseteq held
    BY DEF TakeDescriptors
  <2> QED
    BY <1>8, <1>10, <2>1, <2>2, <2>3, <2>4, OneQueueMoves
<1>12. ControlFits'
  <2> HIDE DEF tagged
  <2>1. Len(fds'[q]) >= Len(fds[q])
    BY <1>1, <1>4 DEF DescriptorTypes
  <2>2. ASSUME NEW r \in Queue
        PROVE  Len(active[r].control) <= Len(fds'[r])
    <3>1. /\ Len(active[r].control) <= Len(fds[r])
          /\ Len(active[r].control) \in Nat
      BY DEF ControlFits
    <3>2. Len(fds[r]) \in Nat /\ Len(fds'[r]) \in Nat
      BY <1>5 DEF DescriptorTypes
    <3>3. Len(fds'[r]) >= Len(fds[r])
      BY <1>4, <2>1, <3>2
    <3> QED
      BY <3>1, <3>2, <3>3
  <2> QED
    BY <2>2 DEF ControlFits
<1> QED
  BY <1>5, <1>11, <1>12 DEF TakeDescriptors, DescriptorTypes

\* Closing the oldest descriptors of a queue.
LEMMA CloseOldestInv ==
  ASSUME FdInv, NEW q \in Queue, NEW n \in 0..Len(fds[q]), CloseOldest(q, n),
         UNCHANGED held
  PROVE  /\ fds' \in [Queue -> Seq(Entry)]
         /\ \A r \in Queue : r # q => fds'[r] = fds[r]
         /\ open' \subseteq Fd /\ held' \subseteq open'
         /\ DescriptorsOwnedOnce'
<1> USE DEF FdInv
<1>1. fds[q] \in Seq(Entry)
  BY DEF DescriptorTypes
<1>2. fds' = [fds EXCEPT ![q] = SubSeq(fds[q], n + 1, Len(fds[q]))]
  BY DEF CloseOldest
<1>3. SubSeq(fds[q], n + 1, Len(fds[q])) \in Seq(Entry)
  BY <1>1
<1>4. fds' \in [Queue -> Seq(Entry)]
  BY <1>2, <1>3 DEF DescriptorTypes
<1>5. /\ fds'[q] = SubSeq(fds[q], n + 1, Len(fds[q]))
      /\ \A r \in Queue : r # q => fds'[r] = fds[r]
  BY <1>2 DEF DescriptorTypes
<1>6. Rights(q) \in Seq(Fd) /\ Len(Rights(q)) = Len(fds[q])
  BY <1>1, RightsType
<1>7. Rights(q)' = SubSeq(Rights(q), n + 1, Len(Rights(q)))
  <2> DEFINE rest == SubSeq(Rights(q), n + 1, Len(Rights(q)))
  <2>1. rest \in Seq(Fd) /\ Len(rest) = Len(fds[q]) - n
    BY <1>6
  <2>2. DOMAIN fds'[q] = 1..(Len(fds[q]) - n)
    BY <1>1, <1>5
  <2>3. ASSUME NEW i \in 1..(Len(fds[q]) - n)
        PROVE  fds'[q][i].fd = rest[i]
    <3>1. fds'[q][i] = fds[q][i + n]
      BY <1>1, <1>5
    <3>2. rest[i] = Rights(q)[i + n]
      BY <1>6
    <3>3. i + n \in DOMAIN fds[q]
      BY <1>1
    <3> QED
      BY <3>1, <3>2, <3>3 DEF Rights
  <2>4. Rights(q)' = [i \in 1..(Len(fds[q]) - n) |-> rest[i]]
    BY <2>2, <2>3 DEF Rights
  <2>5. Len(fds[q]) - n \in Nat
    BY <1>1
  <2> HIDE DEF rest
  <2>6. rest = [i \in 1..(Len(fds[q]) - n) |-> rest[i]]
    BY <2>1, <2>5, SequenceOf
  <2> QED
    BY <2>4, <2>6, <1>6 DEF rest
<1>8. {fds[q][i].fd : i \in 1..n} = {Rights(q)[i] : i \in 1..n}
  <2>1. \A i \in 1..n : Rights(q)[i] = fds[q][i].fd
    BY <1>1 DEF Rights
  <2> QED
    BY <2>1
<1>9. /\ IsInjective(Rights(q)')
      /\ ToSet(Rights(q)') = ToSet(Rights(q)) \ {Rights(q)[i] : i \in 1..n}
      /\ {Rights(q)[i] : i \in 1..n} \subseteq ToSet(Rights(q))
  BY <1>6, <1>7, RestOf DEF DescriptorsOwnedOnce
<1>10. open' = open \ {Rights(q)[i] : i \in 1..n}
  BY <1>8 DEF CloseOldest
<1>11. DescriptorsOwnedOnce'
  <2>1. \A r \in Queue : r # q => Rights(r)' = Rights(r)
    BY <1>5 DEF Rights
  <2>2. ToSet(Rights(q)) \subseteq open /\ ToSet(Rights(q)) \cap held = {}
    BY DEF DescriptorsOwnedOnce
  <2>3. open' = (open \ (ToSet(Rights(q)) \cup held))
                  \cup held' \cup ToSet(Rights(q)')
    BY <1>9, <1>10, <2>2 DEF DescriptorTypes
  <2> QED
    BY <1>9, <2>1, <2>2, <2>3, OneQueueMoves
<1> QED
  BY <1>4, <1>5, <1>9, <1>10, <1>11 DEF DescriptorTypes, DescriptorsOwnedOnce

\* Steps that leave the descriptors and the sends alone.
LEMMA QuietInv ==
  ASSUME FdInv, UNCHANGED <<fdVars, active>>,
         accepted' \in [Queue -> Nat],
         DOMAIN reservation' = Queue,
         \A q \in Queue : reservation'[q].count \in Nat
  PROVE  FdInv'
<1>1. UNCHANGED <<fds, open, held, active>>
  BY DEF fdVars
<1>2. \A q \in Queue : Rights(q)' = Rights(q)
  BY <1>1 DEF Rights
<1>3. DescriptorsOwnedOnce'
  BY <1>1, <1>2 DEF FdInv, DescriptorsOwnedOnce
<1>4. ControlFits'
  BY <1>1 DEF FdInv, ControlFits
<1> QED
  BY <1>1, <1>3, <1>4 DEF FdInv, DescriptorTypes

\* The pool, the reservations and the memory do not touch descriptors.
LEMMA ReservationInv ==
  ASSUME FdInv, NEW q \in Queue, NEW n \in 1..ByteBudget,
         \/ EnsureCapacity(q, n) \/ Write(q, n) \/ Abort(q)
         \/ \E blocks \in Leases(q, n) : Reserve(q, n, blocks)
  PROVE  FdInv'
<1>1. UNCHANGED <<fdVars, active, accepted>>
  BY DEF EnsureCapacity, Write, Abort, Reserve, chainVars
<1>2. n \in Nat
  BY SizeAssumption
<1>3. DOMAIN reservation' = Queue /\ \A r \in Queue : reservation'[r].count \in Nat
  <2>1. CASE EnsureCapacity(q, n)
    BY <2>1 DEF EnsureCapacity, FdInv, DescriptorTypes
  <2>2. CASE Write(q, n)
    BY <2>2 DEF Write, FdInv, DescriptorTypes
  <2>3. CASE Abort(q)
    BY <2>3 DEF Abort, NoReservation, FdInv, DescriptorTypes
  <2>4. CASE \E blocks \in Leases(q, n) : Reserve(q, n, blocks)
    BY <1>2, <2>4 DEF Reserve, FdInv, DescriptorTypes
  <2> QED
    BY <2>1, <2>2, <2>3, <2>4
<1> QED
  BY <1>1, <1>3, QuietInv DEF FdInv, DescriptorTypes

\* A message is queued with its descriptors, at once or from a reservation.
LEMMA MessageInv ==
  ASSUME FdInv, NEW q \in Queue, NEW n \in Nat, NEW d \in Seq(Fd),
         NEW blocks, TakeDescriptors(q, d), Publish(q, n, blocks),
         UNCHANGED active, DOMAIN reservation' = Queue,
         \A r \in Queue : reservation'[r].count \in Nat
  PROVE  FdInv'
<1>1. accepted' \in [Queue -> Nat]
  BY DEF Publish, FdInv, DescriptorTypes
<1> QED
  BY <1>1, TakeDescriptorsInv DEF FdInv, DescriptorTypes

\* A send carries what its queue holds.
LEMMA PrepareSendInv ==
  ASSUME FdInv, NEW q \in Queue, PrepareSend(q)
  PROVE  FdInv'
<1> USE DEF FdInv
<1>1. UNCHANGED <<fds, open, held, accepted, reservation>>
  BY DEF PrepareSend, fdVars, chainVars
<1>2. DescriptorsOwnedOnce'
  BY <1>1 DEF DescriptorsOwnedOnce, Rights
<1>3. /\ active'[q].control = Rights(q)
      /\ \A r \in Queue : r # q => active'[r] = active[r]
      /\ DOMAIN active' = Queue
  BY DEF PrepareSend, DescriptorTypes
<1>4. Rights(q) \in Seq(Fd) /\ Len(Rights(q)) = Len(fds[q])
  BY RightsType DEF DescriptorTypes
<1>5. ControlFits'
  <2> SUFFICES ASSUME NEW r \in Queue
               PROVE  /\ active'[r].control \in Seq(Fd)
                      /\ Len(active'[r].control) <= Len(fds[r])
    BY <1>1 DEF ControlFits
  <2>1. CASE r = q
    <3>1. Len(fds[q]) \in Nat
      BY DEF DescriptorTypes
    <3> QED
      BY <1>3, <1>4, <2>1, <3>1
  <2>2. CASE r # q
    BY <1>3, <2>2 DEF ControlFits
  <2> QED
    BY <2>1, <2>2
<1> QED
  BY <1>1, <1>2, <1>3, <1>5 DEF DescriptorTypes

\* A send ends, and with it n descriptors of its queue: those it carried, none
\* if it failed, all if the queue is torn down.
LEMMA EndOfSendInv ==
  ASSUME FdInv, NEW q \in Queue, NEW n \in 0..Len(fds[q]), CloseOldest(q, n),
         UNCHANGED <<held, reservation>>, accepted' \in [Queue -> Nat],
         DOMAIN active' = Queue, active'[q] = NoFlight,
         \A r \in Queue : r # q => active'[r] = active[r]
  PROVE  FdInv'
<1>1. /\ fds' \in [Queue -> Seq(Entry)]
      /\ \A r \in Queue : r # q => fds'[r] = fds[r]
      /\ open' \subseteq Fd /\ held' \subseteq open'
      /\ DescriptorsOwnedOnce'
  BY CloseOldestInv
<1>2. ControlFits'
  <2> SUFFICES ASSUME NEW r \in Queue
               PROVE  /\ active'[r].control \in Seq(Fd)
                      /\ Len(active'[r].control) <= Len(fds'[r])
    BY DEF ControlFits
  <2>1. CASE r = q
    <3>1. active'[r].control = <<>>
      BY <2>1 DEF NoFlight
    <3>2. Len(fds'[r]) \in Nat
      BY <1>1
    <3> QED
      BY <3>1, <3>2
  <2>2. CASE r # q
    BY <1>1, <2>2 DEF FdInv, ControlFits
  <2> QED
    BY <2>1, <2>2
<1> QED
  BY <1>1, <1>2 DEF FdInv, DescriptorTypes

\* A completed send takes its descriptors along.
LEMMA CompleteInv ==
  ASSUME FdInv, NEW q \in Queue, NEW n \in 1..ByteBudget, Complete(q, n)
  PROVE  FdInv'
<1>1. Len(active[q].control) \in 0..Len(fds[q])
  <2>1. Len(active[q].control) \in Nat /\ Len(active[q].control) <= Len(fds[q])
    BY DEF FdInv, ControlFits
  <2>2. Len(fds[q]) \in Nat
    BY DEF FdInv, DescriptorTypes
  <2> QED
    BY <2>1, <2>2
<1>2. CloseOldest(q, Len(active[q].control))
  BY DEF Complete
<1>3. /\ UNCHANGED <<held, reservation, accepted>>
      /\ active' = [active EXCEPT ![q] = NoFlight]
  BY DEF Complete
<1> QED
  BY <1>1, <1>2, <1>3, EndOfSendInv DEF FdInv, DescriptorTypes

\* A failed send leaves the descriptors in the queue.
LEMMA FailedInv ==
  ASSUME FdInv, NEW q \in Queue, Failed(q)
  PROVE  FdInv'
<1>1. UNCHANGED <<fds, open, held, accepted, reservation>>
  BY DEF Failed, fdVars, chainVars
<1>2. DescriptorsOwnedOnce'
  BY <1>1 DEF FdInv, DescriptorsOwnedOnce, Rights
<1>3. active' = [active EXCEPT ![q] = NoFlight]
  BY DEF Failed
<1>4. ControlFits'
  <2> SUFFICES ASSUME NEW r \in Queue
               PROVE  /\ active'[r].control \in Seq(Fd)
                      /\ Len(active'[r].control) <= Len(fds[r])
    BY <1>1 DEF ControlFits
  <2>1. CASE r = q
    <3>1. active'[r].control = <<>>
      BY <1>3, <2>1 DEF NoFlight, FdInv, DescriptorTypes
    <3>2. Len(fds[r]) \in Nat
      BY DEF FdInv, DescriptorTypes
    <3> QED
      BY <3>1, <3>2
  <2>2. CASE r # q
    BY <1>3, <2>2 DEF FdInv, ControlFits, DescriptorTypes
  <2> QED
    BY <2>1, <2>2
<1> QED
  BY <1>1, <1>2, <1>3, <1>4 DEF FdInv, DescriptorTypes

\* A queue that is torn down closes what is left.
LEMMA DeinitInv ==
  ASSUME FdInv, NEW q \in Queue, Deinit(q)
  PROVE  FdInv'
<1>1. Len(fds[q]) \in 0..Len(fds[q])
  BY DEF FdInv, DescriptorTypes
<1>2. CloseOldest(q, Len(fds[q]))
  BY DEF Deinit
<1>3. /\ UNCHANGED <<held, reservation, active>>
      /\ accepted' = [accepted EXCEPT ![q] = 0]
      /\ active[q] = NoFlight
  BY DEF Deinit, Sending
<1> QED
  BY <1>1, <1>2, <1>3, EndOfSendInv DEF FdInv, DescriptorTypes

\* The caller opens or closes a descriptor of its own.
LEMMA CallerInv ==
  ASSUME FdInv, NEW f \in Fd, Open(f) \/ Close(f)
  PROVE  FdInv'
<1> USE DEF FdInv
<1>1. UNCHANGED <<fds, active, accepted, reservation>>
  BY DEF Open, Close, chainVars
<1>2. DescriptorTypes' /\ ControlFits'
  BY <1>1 DEF Open, Close, DescriptorTypes, ControlFits
<1>3. \A q \in Queue : Rights(q)' = Rights(q)
  BY <1>1 DEF Rights
<1>4. DescriptorsOwnedOnce'
  <2>1. CASE Open(f)
    <3>1. \A q \in Queue : f \notin ToSet(Rights(q))
      BY <2>1 DEF Open, DescriptorsOwnedOnce
    <3> QED
      BY <1>3, <2>1, <3>1 DEF Open, DescriptorsOwnedOnce
  <2>2. CASE Close(f)
    <3>1. \A q \in Queue : f \notin ToSet(Rights(q))
      BY <2>2 DEF Close, DescriptorsOwnedOnce
    <3> QED
      BY <1>3, <2>2, <3>1 DEF Close, DescriptorsOwnedOnce
  <2> QED
    BY <2>1, <2>2
<1> QED
  BY <1>2, <1>4

\* In the beginning nothing is open.
LEMMA InitFd == Init => FdInv
<1> SUFFICES ASSUME Init PROVE FdInv
  OBVIOUS
<1>1. DescriptorTypes
  BY DEF Init, DescriptorTypes, NoReservation
<1>2. ControlFits
  <2>1. ASSUME NEW q \in Queue
        PROVE  active[q].control = <<>> /\ fds[q] = <<>>
    BY DEF Init, NoFlight
  <2>2. <<>> \in Seq(Fd) /\ Len(<<>>) <= Len(<<>>)
    OBVIOUS
  <2> QED
    BY <2>1, <2>2, Zenon DEF ControlFits
<1>3. \A q \in Queue : Rights(q) = <<>>
  BY DEF Init, Rights
<1>4. DescriptorsOwnedOnce
  BY <1>3 DEF Init, DescriptorsOwnedOnce, IsInjective, ToSet
<1> QED
  BY <1>1, <1>2, <1>4 DEF FdInv

\* Every step preserves the ownership of descriptors.
LEMMA NextFd ==
  ASSUME FdInv, [Next]_vars
  PROVE  FdInv'
<1>1. CASE UNCHANGED vars
  <2>1. UNCHANGED <<fdVars, active, accepted, reservation>>
    BY <1>1 DEF vars, chainVars
  <2> QED
    BY <2>1, QuietInv DEF FdInv, DescriptorTypes
<1>2. ASSUME NEW q \in Queue, NEW n \in 1..ByteBudget,
             NEW blocks \in Leases(q, n), NEW d \in DescriptorLists,
             Enqueue(q, n, blocks, d)
      PROVE  FdInv'
  <2>1. d \in Seq(Fd) /\ n \in Nat
    BY SizeAssumption DEF DescriptorLists, SeqOf
  <2> QED
    BY <1>2, <2>1, MessageInv DEF Enqueue, FdInv, DescriptorTypes
<1>3. ASSUME NEW q \in Queue, NEW d \in DescriptorLists, Commit(q, d)
      PROVE  FdInv'
  <2>1. d \in Seq(Fd) /\ reservation[q].count \in Nat
    BY DEF DescriptorLists, SeqOf, FdInv, DescriptorTypes
  <2>2. DOMAIN reservation' = Queue /\ \A r \in Queue : reservation'[r].count \in Nat
    BY <1>3 DEF Commit, NoReservation, FdInv, DescriptorTypes
  <2> QED
    BY <1>3, <2>1, <2>2, MessageInv DEF Commit
<1>4. ASSUME NEW q \in Queue, NEW n \in 1..ByteBudget,
             \/ EnsureCapacity(q, n) \/ Write(q, n)
             \/ \E blocks \in Leases(q, n) : Reserve(q, n, blocks)
      PROVE  FdInv'
  BY <1>4, ReservationInv
<1>5. ASSUME NEW q \in Queue, Abort(q)
      PROVE  FdInv'
  <2>1. 1 \in 1..ByteBudget
    BY SizeAssumption
  <2> QED
    BY <1>5, <2>1, ReservationInv
<1> QED
  BY <1>1, <1>2, <1>3, <1>4, <1>5, PrepareSendInv, CompleteInv, FailedInv,
     DeinitInv, CallerInv DEF Next

\* Every open descriptor belongs to the caller or to one place in one queue,
\* for every number of connections and descriptors: none is closed twice and
\* none is left open, through sends, failures, reservations and teardown.
THEOREM DescriptorsHaveOneOwner == Spec => []DescriptorsOwnedOnce
<1>1. FdInv => DescriptorsOwnedOnce
  BY DEF FdInv
<1> QED
  BY <1>1, InitFd, NextFd, PTL DEF Spec

-----------------------------------------------------------------------------
(***************************************************************************)
(* The bytes: blocks have one owner, and the memory of a chain holds what  *)
(* was published, whatever else the connections do.                        *)
(***************************************************************************)

-----------------------------------------------------------------------------
(* Arithmetic. *)

LEMMA SizeIsPositive == BlockSize \in Nat /\ BlockSize > 0
  BY SizeAssumption

LEMMA Division ==
  ASSUME NEW k \in Nat, NEW size \in Nat, size > 0
  PROVE  /\ k \div size \in Nat
         /\ k % size \in 0..(size - 1)
         /\ k = size * (k \div size) + (k % size)
<1>1. k \div size \in Nat
  OBVIOUS
<1>2. k % size \in 0..(size - 1)
  OBVIOUS
<1>3. k = size * (k \div size) + (k % size)
  OBVIOUS
<1> QED
  BY <1>1, <1>2, <1>3

\* A position is a block and an offset.
LEMMA Positions ==
  ASSUME NEW k \in Nat
  PROVE  /\ k \div BlockSize \in Nat
         /\ k % BlockSize \in 0..(BlockSize - 1)
         /\ k = BlockSize * (k \div BlockSize) + (k % BlockSize)
  BY SizeIsPositive, Division

\* A larger multiple is larger by a block at least.
LEMMA Blocks ==
  ASSUME NEW a \in Nat, NEW b \in Nat, a < b
  PROVE  BlockSize * a + BlockSize =< BlockSize * b
<1>1. PICK d \in Nat : b = a + 1 + d
  <2>1. b - a - 1 \in Nat /\ b = a + 1 + (b - a - 1)
    OBVIOUS
  <2> QED
    BY <2>1
<1>2. BlockSize * b = BlockSize * a + BlockSize + BlockSize * d
  BY <1>1, SizeIsPositive
<1>3. BlockSize * d \in Nat
  BY SizeIsPositive
<1> QED
  BY <1>2, <1>3, SizeIsPositive

\* There is one way to split a position.
LEMMA SplitOnce ==
  ASSUME NEW k \in Nat, NEW a \in Nat, NEW r \in 0..(BlockSize - 1),
         k = BlockSize * a + r
  PROVE  k \div BlockSize = a /\ k % BlockSize = r
<1> DEFINE b == k \div BlockSize
           s == k % BlockSize
<1>1. b \in Nat /\ s \in 0..(BlockSize - 1) /\ k = BlockSize * b + s
  BY Positions
<1> HIDE DEF b, s
<1>2. ~(a < b)
  <2> SUFFICES ASSUME a < b PROVE FALSE
    OBVIOUS
  <2>1. BlockSize * a + BlockSize =< BlockSize * b
    BY <1>1, Blocks
  <2>2. BlockSize * a \in Nat /\ BlockSize * b \in Nat
    BY <1>1, SizeIsPositive
  <2> QED
    BY <1>1, <2>1, <2>2, SizeIsPositive
<1>3. ~(b < a)
  <2> SUFFICES ASSUME b < a PROVE FALSE
    OBVIOUS
  <2>1. BlockSize * b + BlockSize =< BlockSize * a
    BY <1>1, Blocks
  <2>2. BlockSize * a \in Nat /\ BlockSize * b \in Nat
    BY <1>1, SizeIsPositive
  <2> QED
    BY <1>1, <2>1, <2>2, SizeIsPositive
<1>4. a = b
  BY <1>1, <1>2, <1>3
<1>5. BlockSize * a \in Nat
  BY SizeIsPositive
<1>6. r = s
  BY <1>1, <1>4, <1>5, SizeIsPositive
<1> QED
  BY <1>4, <1>6 DEF b, s

\* The bytes that blocks s can hold.
Room(s) == BlockSize * Len(s)

LEMMA RoomType ==
  ASSUME NEW s \in Seq(Block)
  PROVE  Room(s) \in Nat
  BY SizeIsPositive DEF Room

LEMMA RoomOfBoth ==
  ASSUME NEW s \in Seq(Block), NEW t \in Seq(Block)
  PROVE  Room(s \o t) = Room(s) + Room(t)
<1>1. Len(s \o t) = Len(s) + Len(t)
  OBVIOUS
<1>2. BlockSize * (Len(s) + Len(t)) = BlockSize * Len(s) + BlockSize * Len(t)
  BY SizeIsPositive
<1> QED
  BY <1>1, <1>2 DEF Room

\* A position within the room is in one of the blocks.
LEMMA InRoom ==
  ASSUME NEW s \in Seq(Block), NEW k \in Nat, k < Room(s)
  PROVE  /\ 1 + k \div BlockSize \in DOMAIN s
         /\ At(s, k) \in Cell
         /\ At(s, k)[1] \in ToSet(s)
<1> DEFINE a == k \div BlockSize
           r == k % BlockSize
<1>1. a \in Nat /\ r \in 0..(BlockSize - 1) /\ k = BlockSize * a + r
  BY Positions
<1> HIDE DEF a, r
<1>2. ~(Len(s) =< a)
  <2> SUFFICES ASSUME Len(s) =< a PROVE FALSE
    OBVIOUS
  <2>1. BlockSize * Len(s) =< BlockSize * a
    <3>1. CASE Len(s) = a
      BY <1>1, <3>1, SizeIsPositive
    <3>2. CASE Len(s) < a
      <4>1. BlockSize * Len(s) + BlockSize =< BlockSize * a
        BY <1>1, <3>2, Blocks
      <4>2. BlockSize * Len(s) \in Nat /\ BlockSize * a \in Nat
        BY <1>1, SizeIsPositive
      <4> QED
        BY <4>1, <4>2, SizeIsPositive
    <3> QED
      BY <1>1, <3>1, <3>2
  <2>2. BlockSize * Len(s) \in Nat /\ BlockSize * a \in Nat
    BY <1>1, SizeIsPositive
  <2> QED
    BY <1>1, <2>1, <2>2, SizeIsPositive DEF Room
<1>3. 1 + a \in DOMAIN s
  BY <1>1, <1>2
<1>4. At(s, k) = <<s[1 + a], r>>
  BY DEF At, a, r
<1>5. s[1 + a] \in Block /\ s[1 + a] \in ToSet(s)
  BY <1>3 DEF ToSet
<1>6. At(s, k) \in Cell /\ At(s, k)[1] \in ToSet(s)
  BY <1>1, <1>4, <1>5 DEF Cell
<1> QED
  BY <1>3, <1>6 DEF a

\* Two positions have two cells.
LEMMA AtOnce ==
  ASSUME NEW s \in Seq(Block), IsInjective(s),
         NEW k \in Nat, k < Room(s), NEW j \in Nat, j < Room(s),
         At(s, k) = At(s, j)
  PROVE  k = j
<1>1. 1 + k \div BlockSize \in DOMAIN s /\ 1 + j \div BlockSize \in DOMAIN s
  BY InRoom
<1>2. s[1 + k \div BlockSize] = s[1 + j \div BlockSize]
      /\ k % BlockSize = j % BlockSize
  BY DEF At
<1>3. 1 + k \div BlockSize = 1 + j \div BlockSize
  BY <1>1, <1>2 DEF IsInjective
<1>4. k \div BlockSize = j \div BlockSize
  BY <1>3, Positions
<1> QED
  BY <1>2, <1>4, Positions

\* Blocks behind others do not move them.
LEMMA AtFirst ==
  ASSUME NEW s \in Seq(Block), NEW t \in Seq(Block), NEW k \in Nat, k < Room(s)
  PROVE  At(s \o t, k) = At(s, k)
<1>1. 1 + k \div BlockSize \in DOMAIN s
  BY InRoom
<1>2. (s \o t)[1 + k \div BlockSize] = s[1 + k \div BlockSize]
  BY <1>1
<1> QED
  BY <1>2 DEF At

\* Without its first g blocks a chain begins g blocks later.
LEMMA AtRest ==
  ASSUME NEW s \in Seq(Block), NEW g \in 0..Len(s), NEW k \in Nat,
         k + BlockSize * g < Room(s)
  PROVE  At(SubSeq(s, g + 1, Len(s)), k) = At(s, k + BlockSize * g)
<1> DEFINE a == k \div BlockSize
           r == k % BlockSize
<1>1. a \in Nat /\ r \in 0..(BlockSize - 1) /\ k = BlockSize * a + r
  BY Positions
<1>2. BlockSize * g \in Nat /\ BlockSize * a \in Nat
  BY <1>1, SizeIsPositive
<1>3. k + BlockSize * g \in Nat
  BY <1>2
<1>4. k + BlockSize * g = BlockSize * (a + g) + r
  <2>1. BlockSize * (a + g) = BlockSize * a + BlockSize * g
    BY <1>1, SizeIsPositive
  <2> QED
    BY <1>1, <1>2, <2>1
<1>5. (k + BlockSize * g) \div BlockSize = a + g /\ (k + BlockSize * g) % BlockSize = r
  BY <1>1, <1>3, <1>4, SplitOnce
<1>6. 1 + (a + g) \in DOMAIN s
  BY <1>3, <1>5, InRoom
<1>7. SubSeq(s, g + 1, Len(s))[1 + a] = s[1 + (a + g)]
  BY <1>1, <1>6
<1> QED
  BY <1>5, <1>7 DEF At


\* What the blocks for x bytes are, and where the last of the bytes is.
LEMMA Ceiling ==
  ASSUME NEW x \in Nat, x > 0
  PROVE  LET m == (x + BlockSize - 1) \div BlockSize
             t == IF x % BlockSize = 0 THEN BlockSize ELSE x % BlockSize
         IN m \in Nat /\ m > 0 /\ t \in 1..BlockSize /\ x = BlockSize * (m - 1) + t
<1> DEFINE a == x \div BlockSize
           r == x % BlockSize
           y == x + BlockSize - 1
<1>1. a \in Nat /\ r \in 0..(BlockSize - 1) /\ x = BlockSize * a + r
  BY Positions
<1>2. BlockSize \in Nat /\ BlockSize > 0 /\ BlockSize * a \in Nat /\ y \in Nat
  BY <1>1, SizeIsPositive
<1>3. BlockSize * (a + 1) = BlockSize * a + BlockSize
  BY <1>1, <1>2
<1>4. CASE r = 0
  <2>1. a > 0
    <3>1. CASE a = 0
      BY <1>1, <1>2, <1>4, <3>1
    <3> QED
      BY <1>1, <3>1
  <2>2. BlockSize - 1 \in 0..(BlockSize - 1) /\ y = BlockSize * a + (BlockSize - 1)
    BY <1>1, <1>2, <1>4
  <2>3. y \div BlockSize = a
    BY <1>1, <1>2, <2>2, SplitOnce
  <2>4. BlockSize * a = BlockSize * (a - 1) + BlockSize
    BY <1>1, <1>2, <2>1
  <2> QED
    BY <1>1, <1>2, <1>4, <2>1, <2>3, <2>4
<1>5. CASE r > 0
  <2>1. r - 1 \in 0..(BlockSize - 1) /\ a + 1 \in Nat
        /\ y = BlockSize * (a + 1) + (r - 1)
    BY <1>1, <1>2, <1>3, <1>5
  <2>2. y \div BlockSize = a + 1
    BY <1>2, <2>1, SplitOnce
  <2> QED
    BY <1>1, <1>2, <1>5, <2>1, <2>2
<1> QED
  BY <1>1, <1>4, <1>5

\* A queue with the blocks it needs for n more bytes has room for them, and
\* knows where they end.
LEMMA Grows ==
  ASSUME NEW q \in Queue, chain[q] \in Seq(Block), tailUsed[q] \in 0..BlockSize,
         NEW n \in Nat, n > 0, NEW blocks \in Seq(Block),
         Len(blocks) = BlocksNeeded(q, n)
  PROVE  LET s == chain[q] \o blocks
         IN /\ s # <<>>
            /\ TailAfter(q, n) \in 1..BlockSize
            /\ (Len(s) - 1) * BlockSize + TailAfter(q, n) = End(q) + n
            /\ End(q) \in Nat
            /\ End(q) + n =< Room(s)
<1> DEFINE s == chain[q] \o blocks
           t == TailAfter(q, n)
           space == IF chain[q] = <<>> THEN 0 ELSE BlockSize - tailUsed[q]
           c == Len(chain[q])
           x == n - space
<1>1. BlockSize \in Nat /\ BlockSize > 0
  BY SizeIsPositive
<1>2. c \in Nat /\ BlockSize * c \in Nat /\ (c = 0 <=> chain[q] = <<>>)
  BY <1>1
<1>3. Len(s) = c + Len(blocks) /\ s \in Seq(Block)
  OBVIOUS
<1>4. /\ End(q) + space = BlockSize * c
      /\ End(q) \in Nat /\ space \in Nat
  <2>1. CASE chain[q] = <<>>
    BY <1>1, <1>2, <2>1 DEF End
  <2>2. CASE chain[q] # <<>>
    <3>1. End(q) = (c - 1) * BlockSize + tailUsed[q]
      BY <2>2 DEF End
    <3>2. (c - 1) * BlockSize = BlockSize * c - BlockSize
      BY <1>1, <1>2
    <3>3. c > 0
      BY <1>2, <2>2
    <3>4. BlockSize * c - BlockSize \in Nat
      <4>1. c - 1 \in Nat /\ BlockSize * (c - 1) \in Nat
        BY <1>1, <1>2, <3>3
      <4>2. BlockSize * (c - 1) = (c - 1) * BlockSize
        BY <1>1, <1>2
      <4> QED
        BY <3>2, <4>1, <4>2
    <3> QED
      BY SMTT(40), <1>1, <1>2, <2>2, <3>1, <3>2, <3>4
  <2> QED
    BY <2>1, <2>2
<1>5. Beyond(q, n) = IF n =< space THEN 0 ELSE x
  BY DEF Beyond
<1>6. CASE n =< space
  <2>1. chain[q] # <<>> /\ c > 0
    BY <1>2, <1>6
  <2>2. Len(blocks) = 0
    <3>1. Len(blocks) = (0 + BlockSize - 1) \div BlockSize
      BY <1>5, <1>6 DEF BlocksNeeded
    <3>2. /\ BlockSize - 1 \in 0..(BlockSize - 1) /\ 0 \in Nat
          /\ 0 + BlockSize - 1 \in Nat
          /\ 0 + BlockSize - 1 = BlockSize * 0 + (BlockSize - 1)
      BY <1>1
    <3> QED
      BY <3>1, <3>2, SplitOnce
  <2>3. t = tailUsed[q] + n /\ t \in 1..BlockSize
    <3>1. Beyond(q, n) = 0
      BY <1>5, <1>6
    <3>2. t = tailUsed[q] + n
      BY <3>1 DEF TailAfter
    <3> QED
      BY <1>1, <1>6, <2>1, <3>2
  <2>4. End(q) = (c - 1) * BlockSize + tailUsed[q]
    BY <2>1 DEF End
  <2>5. (c - 1) * BlockSize \in Int
    BY <1>1, <1>2
  <2>6. (Len(s) - 1) * BlockSize + t = End(q) + n
    BY <1>1, <1>2, <1>3, <2>2, <2>3, <2>4, <2>5
  <2>7. Len(s) = c
    BY <1>2, <1>3, <2>2
  <2>8. End(q) + n =< Room(s)
    BY <1>1, <1>2, <1>4, <1>6, <2>7 DEF Room
  <2> HIDE DEF s, t
  <2> QED
    BY <1>3, <1>4, <2>1, <2>3, <2>6, <2>7, <2>8 DEF s, t
<1>7. CASE n > space
  <2> DEFINE m == (x + BlockSize - 1) \div BlockSize
  <2>1. x \in Nat /\ x > 0
    BY <1>4, <1>7
  <2>2. Beyond(q, n) = x
    BY <1>4, <1>5, <1>7
  <2>3. Len(blocks) = m
    BY <2>2 DEF BlocksNeeded
  <2>4. t = IF x % BlockSize = 0 THEN BlockSize ELSE x % BlockSize
    BY <2>1, <2>2 DEF TailAfter
  <2>5. m \in Nat /\ m > 0 /\ t \in 1..BlockSize /\ x = BlockSize * (m - 1) + t
    BY <2>1, <2>4, Ceiling
  <2> HIDE DEF m, t
  <2>6. /\ (Len(s) - 1) * BlockSize = BlockSize * c + BlockSize * (m - 1)
        /\ Room(s) = BlockSize * c + BlockSize * (m - 1) + BlockSize
    BY SMTT(40), <1>1, <1>2, <1>3, <2>3, <2>5 DEF Room
  <2>7. BlockSize * (m - 1) \in Nat
    <3>1. m - 1 \in Nat
      BY <2>5
    <3> QED
      BY <1>1, <3>1
  <2>8. End(q) + n = BlockSize * c + x
    BY <1>2, <1>4
  <2> HIDE DEF x, s, c
  <2>9. (Len(s) - 1) * BlockSize + t = End(q) + n /\ End(q) + n =< Room(s)
    <3> DEFINE p == BlockSize * (m - 1)
               bc == BlockSize * c
    <3>1. p \in Nat /\ bc \in Nat /\ t \in Nat /\ t =< BlockSize /\ x = p + t
      BY <1>1, <1>2, <2>5, <2>7
    <3>2. /\ (Len(s) - 1) * BlockSize = bc + p /\ Room(s) = bc + p + BlockSize
          /\ End(q) + n = bc + x
      BY <2>6, <2>8
    <3> HIDE DEF p, bc
    <3> QED
      BY <1>1, <3>1, <3>2
  <2>10. s # <<>>
    BY <1>2, <1>3, <2>3, <2>5 DEF s, c
  <2> QED
    BY <1>4, <2>5, <2>9, <2>10 DEF s, t
<1> QED
  BY <1>4, <1>6, <1>7

-----------------------------------------------------------------------------
(* Memory. *)

MemoryType == mem \in [Cell -> {Unknown} \cup (Queue \X Nat)]

\* Storing n bytes writes their cells, in order, and no other.
LEMMA StoreWrites ==
  ASSUME MemoryType, NEW q \in Queue, NEW s \in Seq(Block), IsInjective(s),
         NEW from \in Nat, NEW first \in Nat, NEW n \in Nat,
         NEW last, last = first + n - 1,
         from + n =< Room(s), Store(q, s, from, first, last)
  PROVE  /\ MemoryType'
         /\ \A c \in Cell : c[1] \notin ToSet(s) => mem'[c] = mem[c]
         /\ \A k \in Nat : k < from => mem'[At(s, k)] = mem[At(s, k)]
         /\ \A i \in 1..n : mem'[At(s, from + i - 1)] = <<q, first + i - 1>>
<1> DEFINE bytes == first..(first + n - 1)
           Goes(c, i) == c = At(s, from + i - first)
<1>1. mem' = [c \in Cell |-> IF \E i \in bytes : Goes(c, i)
                             THEN <<q, CHOOSE i \in bytes : Goes(c, i)>>
                             ELSE mem[c]]
  BY DEF Store
<1>2. Room(s) \in Nat
  BY RoomType
<1>3. \A i \in bytes : from + i - first \in Nat /\ from + i - first < Room(s)
  BY <1>2
<1>4. \A i \in bytes : At(s, from + i - first) \in Cell
                       /\ At(s, from + i - first)[1] \in ToSet(s)
  BY <1>3, InRoom
<1>5. \A i, j \in bytes : At(s, from + i - first) = At(s, from + j - first) => i = j
  <2> SUFFICES ASSUME NEW i \in bytes, NEW j \in bytes,
                      At(s, from + i - first) = At(s, from + j - first)
               PROVE  i = j
    OBVIOUS
  <2>1. from + i - first = from + j - first
    BY <1>3, AtOnce
  <2> QED
    BY <2>1
<1>6. ASSUME NEW c \in Cell
      PROVE  mem'[c] = IF \E i \in bytes : Goes(c, i)
                       THEN <<q, CHOOSE i \in bytes : Goes(c, i)>>
                       ELSE mem[c]
  BY <1>1
<1>7. MemoryType'
  <2>1. ASSUME NEW c \in Cell
        PROVE  (IF \E i \in bytes : Goes(c, i)
                THEN <<q, CHOOSE i \in bytes : Goes(c, i)>>
                ELSE mem[c]) \in {Unknown} \cup (Queue \X Nat)
    <3>1. CASE \E i \in bytes : Goes(c, i)
      <4>1. (CHOOSE i \in bytes : Goes(c, i)) \in bytes
        BY <3>1
      <4>2. (CHOOSE i \in bytes : Goes(c, i)) \in Nat
        BY <4>1
      <4> QED
        BY <3>1, <4>2
    <3>2. CASE ~\E i \in bytes : Goes(c, i)
      BY <3>2 DEF MemoryType
    <3> QED
      BY <3>1, <3>2
  <2> HIDE DEF bytes, Goes
  <2> QED
    BY <1>1, <2>1 DEF MemoryType
<1>8. ASSUME NEW c \in Cell, c[1] \notin ToSet(s)
      PROVE  mem'[c] = mem[c]
  <2>1. ~\E i \in bytes : Goes(c, i)
    BY <1>4, <1>8
  <2> HIDE DEF bytes, Goes
  <2> QED
    BY <1>6, <2>1
<1>9. ASSUME NEW k \in Nat, k < from
      PROVE  mem'[At(s, k)] = mem[At(s, k)]
  <2>1. k < Room(s)
    BY <1>2, <1>9
  <2>2. At(s, k) \in Cell
    BY <2>1, InRoom
  <2>3. ~\E i \in bytes : Goes(At(s, k), i)
    <3> SUFFICES ASSUME NEW i \in bytes, At(s, k) = At(s, from + i - first)
                 PROVE  FALSE
      OBVIOUS
    <3>1. k = from + i - first
      BY <1>3, <2>1, AtOnce
    <3> QED
      BY <1>9, <3>1
  <2> HIDE DEF bytes, Goes
  <2> QED
    BY <1>6, <2>2, <2>3
<1>10. ASSUME NEW i \in 1..n
       PROVE  mem'[At(s, from + i - 1)] = <<q, first + i - 1>>
  <2> DEFINE j == first + i - 1
             c == At(s, from + i - 1)
  <2>1. j \in bytes /\ from + j - first = from + i - 1
    OBVIOUS
  <2>2. Goes(c, j)
    BY <2>1
  <2>3. c \in Cell
    BY <1>4, <2>1
  <2>4. \A l \in bytes : Goes(c, l) => l = j
    BY <1>5, <2>1, <2>2
  <2> HIDE DEF bytes, Goes, j, c
  <2>5. (CHOOSE l \in bytes : Goes(c, l)) = j
    BY <2>1, <2>2, <2>4
  <2>6. mem'[c] = <<q, j>>
    BY <1>6, <2>1, <2>2, <2>3, <2>5
  <2> QED
    BY <2>6 DEF j, c
<1> QED
  BY <1>7, <1>8, <1>9, <1>10

\* Releasing blocks touches their cells only.
LEMMA ReleaseWrites ==
  ASSUME MemoryType, NEW B \in SUBSET Block, Release(B)
  PROVE  /\ MemoryType'
         /\ \A c \in Cell : c[1] \notin B => mem'[c] = mem[c]
<1>1. mem' = [c \in Cell |-> IF c[1] \in B THEN Unknown ELSE mem[c]]
  BY DEF Release
<1>2. \A c \in Cell : (IF c[1] \in B THEN Unknown ELSE mem[c])
                        \in {Unknown} \cup (Queue \X Nat)
  BY DEF MemoryType
<1> QED
  BY <1>1, <1>2 DEF MemoryType

-----------------------------------------------------------------------------
(* Owners of blocks. *)

PoolType == nodes \subseteq Block /\ free \subseteq nodes

\* The pool grows, is leased from or given back to without a change of the
\* other owners.
LEMMA OneOwnerMoves ==
  ASSUME BlocksOwnedOnce, NEW q \in Queue,
         \A r \in Queue : r # q => Owned(r)' = Owned(r),
         IsInjective(Owned(q)'),
         ToSet(Owned(q)') \subseteq ToSet(Owned(q)) \cup free \cup (Block \ nodes),
         ToSet(Owned(q)') \cap free' = {},
         free' \subseteq ToSet(Owned(q)) \cup free \cup (Block \ nodes),
         nodes' \subseteq Block,
         nodes' = (nodes \ (ToSet(Owned(q)) \cup free)) \cup free' \cup ToSet(Owned(q)')
  PROVE  BlocksOwnedOnce' /\ PoolType'
<1>1. ASSUME NEW r \in Queue, r # q
      PROVE  /\ ToSet(Owned(r)) \cap ToSet(Owned(q)) = {}
             /\ ToSet(Owned(r)) \cap free = {}
             /\ ToSet(Owned(r)) \subseteq nodes
  BY <1>1 DEF BlocksOwnedOnce
<1>2. \A r \in Queue : r # q =>
        /\ ToSet(Owned(r)) \cap free' = {}
        /\ ToSet(Owned(r)) \cap ToSet(Owned(q)') = {}
  BY <1>1
<1>3. \A r \in Queue : IsInjective(Owned(r)') /\ ToSet(Owned(r)') \cap free' = {}
  BY <1>2 DEF BlocksOwnedOnce
<1>4. \A r, p \in Queue : r # p => ToSet(Owned(r)') \cap ToSet(Owned(p)') = {}
  BY <1>2 DEF BlocksOwnedOnce
<1>5. nodes' = free' \cup UNION {ToSet(Owned(r)') : r \in Queue}
  <2>1. ASSUME NEW b \in nodes'
        PROVE  b \in free' \cup UNION {ToSet(Owned(r)') : r \in Queue}
    <3>1. CASE b \in free' \cup ToSet(Owned(q)')
      BY <3>1
    <3>2. CASE b \in nodes \ (ToSet(Owned(q)) \cup free)
      <4>1. PICK r \in Queue : b \in ToSet(Owned(r))
        BY <3>2 DEF BlocksOwnedOnce
      <4>2. r # q
        BY <3>2, <4>1
      <4> QED
        BY <4>1, <4>2
    <3> QED
      BY <2>1, <3>1, <3>2
  <2>2. ASSUME NEW r \in Queue, NEW b \in ToSet(Owned(r)')
        PROVE  b \in nodes'
    <3>1. CASE r = q
      BY <2>2, <3>1
    <3>2. CASE r # q
      <4>1. b \in ToSet(Owned(r))
        BY <2>2, <3>2
      <4> QED
        BY <1>1, <3>2, <4>1
    <3> QED
      BY <3>1, <3>2
  <2> QED
    BY <2>1, <2>2
<1> QED
  BY <1>3, <1>4, <1>5 DEF BlocksOwnedOnce, PoolType

\* A queue leases blocks.
LEMMA AcquireOwns ==
  ASSUME BlocksOwnedOnce, PoolType, NEW q \in Queue, NEW blocks \in Seq(Block),
         Acquire(blocks), Owned(q) \in Seq(Block),
         \A r \in Queue : r # q => Owned(r)' = Owned(r),
         Owned(q)' = Owned(q) \o blocks
  PROVE  /\ BlocksOwnedOnce' /\ PoolType'
         /\ IsInjective(Owned(q) \o blocks)
         /\ \A r \in Queue : r # q => ToSet(Owned(r)) \cap ToSet(Owned(q) \o blocks) = {}
<1>1. /\ IsInjective(blocks)
      /\ ToSet(blocks) \subseteq free \cup (Block \ nodes)
      /\ nodes' = nodes \cup ToSet(blocks)
      /\ free' = free \ ToSet(blocks)
  BY DEF Acquire
<1>2. ToSet(Owned(q)) \subseteq nodes /\ ToSet(Owned(q)) \cap free = {}
      /\ IsInjective(Owned(q))
  BY DEF BlocksOwnedOnce
<1>3. ToSet(Owned(q) \o blocks) = ToSet(Owned(q)) \cup ToSet(blocks)
  BY ConcatSet
<1>4. IsInjective(Owned(q) \o blocks)
  BY <1>1, <1>2, ConcatInjective
<1>5. nodes' \subseteq Block
  BY <1>1 DEF PoolType
<1>6. /\ ToSet(Owned(q)') \subseteq ToSet(Owned(q)) \cup free \cup (Block \ nodes)
      /\ ToSet(Owned(q)') \cap free' = {}
      /\ free' \subseteq ToSet(Owned(q)) \cup free \cup (Block \ nodes)
      /\ nodes' = (nodes \ (ToSet(Owned(q)) \cup free)) \cup free' \cup ToSet(Owned(q)')
  BY <1>1, <1>2, <1>3 DEF PoolType
<1>7. IsInjective(Owned(q)')
  BY <1>4
<1>8. BlocksOwnedOnce' /\ PoolType'
  BY <1>5, <1>6, <1>7, OneOwnerMoves
<1>9. \A r \in Queue : r # q => ToSet(Owned(r)) \cap ToSet(Owned(q) \o blocks) = {}
  BY <1>1, <1>3 DEF BlocksOwnedOnce
<1> QED
  BY <1>4, <1>8, <1>9

\* A queue gives blocks back.
LEMMA ReleaseOwns ==
  ASSUME BlocksOwnedOnce, PoolType, NEW q \in Queue, NEW B \in SUBSET Block,
         Release(B), B \subseteq ToSet(Owned(q)),
         \A r \in Queue : r # q => Owned(r)' = Owned(r),
         IsInjective(Owned(q)'), ToSet(Owned(q)') = ToSet(Owned(q)) \ B
  PROVE  BlocksOwnedOnce' /\ PoolType'
<1>1. nodes' = nodes /\ free' = free \cup B
  BY DEF Release
<1>2. ToSet(Owned(q)) \subseteq nodes /\ ToSet(Owned(q)) \cap free = {}
  BY DEF BlocksOwnedOnce
<1>3. nodes' \subseteq Block
  BY <1>1 DEF PoolType
<1>4. /\ ToSet(Owned(q)') \subseteq ToSet(Owned(q)) \cup free \cup (Block \ nodes)
      /\ ToSet(Owned(q)') \cap free' = {}
      /\ free' \subseteq ToSet(Owned(q)) \cup free \cup (Block \ nodes)
      /\ nodes' = (nodes \ (ToSet(Owned(q)) \cup free)) \cup free' \cup ToSet(Owned(q)')
  BY <1>1, <1>2 DEF PoolType
<1> QED
  BY <1>3, <1>4, OneOwnerMoves

-----------------------------------------------------------------------------
(* The inductive invariant. *)

\* The offsets of a queue frame its bytes; a reservation has the blocks it
\* needs behind them.
Framed(q) ==
  /\ IF chain[q] = <<>> THEN headOffset[q] = 0 /\ tailUsed[q] = 0
     ELSE tailUsed[q] > 0 /\ headOffset[q] < End(q)
  /\ byteCount[q] = End(q) - headOffset[q]
  /\ byteCount[q] = accepted[q] - delivered[q]
  /\ IF Reserved(q)
     THEN /\ Len(reservation[q].blocks) = BlocksNeeded(q, reservation[q].count)
          /\ reservation[q].written =< reservation[q].count
          /\ reservation[q].count =< ByteBudget - byteCount[q]
     ELSE reservation[q] = NoReservation

\* Its cells hold what was published, and behind that what was written into
\* the reservation.
Filled(q) ==
  \A i \in 1..(byteCount[q] + reservation[q].written) :
    mem[At(Owned(q), headOffset[q] + i - 1)] = <<q, delivered[q] + i>>

\* The send in flight points to the first bytes of the queue and carries its
\* first descriptors; those behind belong to bytes behind.
Carried(q) ==
  /\ Len(active[q].iov) =< byteCount[q]
  /\ \A i \in 1..Len(active[q].iov) :
       active[q].iov[i] = At(chain[q], headOffset[q] + i - 1)
  /\ Len(active[q].control) =< Len(fds[q])
  /\ \A i \in 1..Len(active[q].control) : active[q].control[i] = fds[q][i].fd
  /\ \A i \in 1..Len(fds[q]) :
       /\ fds[q][i].first > delivered[q]
       /\ i > Len(active[q].control)
            => fds[q][i].first > delivered[q] + Len(active[q].iov)

BytesInv == /\ TypeOK /\ BlocksOwnedOnce
            /\ \A q \in Queue : Framed(q) /\ Filled(q) /\ Carried(q)

Flight == [iov: Seq(Cell), control: Seq(Fd)]
Reservation == [count: 0..ByteBudget, written: 0..ByteBudget, blocks: Seq(Block)]

\* The types of one queue.
QueueType(q) ==
  /\ chain[q] \in Seq(Block)
  /\ headOffset[q] \in 0..(BlockSize - 1)
  /\ tailUsed[q] \in 0..BlockSize
  /\ byteCount[q] \in 0..ByteBudget
  /\ fds[q] \in Seq(Entry)
  /\ Len(fds[q]) =< DescriptorBudget
  /\ active[q] \in Flight
  /\ reservation[q] \in Reservation
  /\ accepted[q] \in Nat /\ delivered[q] \in Nat

\* What every variable that has a value per queue is defined for.
Domains == /\ DOMAIN chain = Queue /\ DOMAIN headOffset = Queue
           /\ DOMAIN tailUsed = Queue /\ DOMAIN byteCount = Queue
           /\ DOMAIN fds = Queue /\ DOMAIN active = Queue
           /\ DOMAIN reservation = Queue /\ DOMAIN accepted = Queue
           /\ DOMAIN delivered = Queue

OtherTypes == /\ PoolType /\ MemoryType
              /\ open \subseteq Fd /\ held \subseteq open

LEMMA TypeParts ==
  TypeOK => OtherTypes /\ \A q \in Queue : QueueType(q)
  BY DEF TypeOK, OtherTypes, QueueType, PoolType, MemoryType, Entry, Position,
         Flight, Reservation

\* A function with this domain is one of its values.
LEMMA IsFunction ==
  ASSUME NEW f, NEW D, NEW S, f = [x \in D |-> f[x]], \A x \in D : f[x] \in S
  PROVE  f \in [D -> S]
OBVIOUS

Functional ==
  /\ chain = [q \in Queue |-> chain[q]]
  /\ headOffset = [q \in Queue |-> headOffset[q]]
  /\ tailUsed = [q \in Queue |-> tailUsed[q]]
  /\ byteCount = [q \in Queue |-> byteCount[q]]
  /\ fds = [q \in Queue |-> fds[q]]
  /\ active = [q \in Queue |-> active[q]]
  /\ reservation = [q \in Queue |-> reservation[q]]
  /\ accepted = [q \in Queue |-> accepted[q]]
  /\ delivered = [q \in Queue |-> delivered[q]]

LEMMA TypesOfAll ==
  ASSUME Functional', OtherTypes', \A q \in Queue : QueueType(q)'
  PROVE  TypeOK'
<1>1. /\ chain' \in [Queue -> Seq(Block)]
      /\ headOffset' \in [Queue -> 0..(BlockSize - 1)]
      /\ tailUsed' \in [Queue -> 0..BlockSize]
      /\ byteCount' \in [Queue -> 0..ByteBudget]
  BY DEF QueueType, Functional
<1>2. /\ fds' \in [Queue -> Seq([fd: Fd, first: Nat])]
      /\ \A q \in Queue : Len(fds'[q]) <= DescriptorBudget
  BY DEF QueueType, Functional, Entry
<1>3. /\ active' \in [Queue -> [iov: Seq(Cell), control: Seq(Fd)]]
      /\ reservation' \in [Queue ->
           [count: 0..ByteBudget, written: 0..ByteBudget, blocks: Seq(Block)]]
      /\ accepted' \in [Queue -> Nat] /\ delivered' \in [Queue -> Nat]
  BY DEF QueueType, Functional, Flight, Reservation
<1> QED
  BY <1>1, <1>2, <1>3 DEF TypeOK, OtherTypes, PoolType, MemoryType, Position

LEMMA AreFunctions == TypeOK => Functional
  BY DEF TypeOK, Functional

\* What a queue uses lies in its blocks.
LEMMA UsedFits ==
  ASSUME NEW q \in Queue, QueueType(q), Framed(q)
  PROVE  /\ End(q) \in Nat
         /\ End(q) =< Room(chain[q])
         /\ Owned(q) \in Seq(Block)
         /\ End(q) + reservation[q].written =< Room(Owned(q))
         /\ headOffset[q] + byteCount[q] = End(q)
         /\ accepted[q] = delivered[q] + byteCount[q]
<1>1. /\ chain[q] \in Seq(Block) /\ tailUsed[q] \in 0..BlockSize
      /\ headOffset[q] \in Nat /\ byteCount[q] \in Nat
      /\ reservation[q].count \in Nat /\ reservation[q].written \in Nat
      /\ reservation[q].blocks \in Seq(Block)
      /\ accepted[q] \in Nat /\ delivered[q] \in Nat
  BY SizeIsPositive DEF QueueType, Reservation
<1>2. Owned(q) \in Seq(Block)
  BY <1>1 DEF Owned
<1>3. End(q) \in Nat /\ End(q) =< Room(chain[q])
  <2>1. CASE chain[q] = <<>>
    <3>1. Room(chain[q]) \in Nat
      BY <1>1, RoomType
    <3>2. End(q) = 0
      BY <2>1 DEF End
    <3> QED
      BY <3>1, <3>2
  <2>2. CASE chain[q] # <<>>
    <3> DEFINE c == Len(chain[q])
    <3>1. c \in Nat /\ c > 0
      BY <1>1, <2>2
    <3>2. (c - 1) * BlockSize = BlockSize * (c - 1)
          /\ BlockSize * c = BlockSize * (c - 1) + BlockSize
      BY <3>1, SizeIsPositive
    <3>3. BlockSize * (c - 1) \in Nat
      <4>1. c - 1 \in Nat
        BY <3>1
      <4> QED
        BY <4>1, SizeIsPositive
    <3>4. End(q) = (c - 1) * BlockSize + tailUsed[q]
      BY <2>2 DEF End
    <3> HIDE DEF c
    <3> QED
      BY <1>1, <3>2, <3>3, <3>4, SizeIsPositive DEF Room, c
  <2> QED
    BY <2>1, <2>2
<1>4. End(q) + reservation[q].written =< Room(Owned(q))
  <2>1. CASE Reserved(q)
    <3>1. /\ Len(reservation[q].blocks) = BlocksNeeded(q, reservation[q].count)
          /\ reservation[q].written =< reservation[q].count
          /\ reservation[q].count > 0
      BY <2>1 DEF Framed, Reserved
    <3>2. End(q) + reservation[q].count =< Room(Owned(q))
      BY <1>1, <3>1, Grows DEF Owned
    <3>3. Room(Owned(q)) \in Nat
      BY <1>2, RoomType
    <3> QED
      BY <1>1, <1>3, <3>1, <3>2, <3>3
  <2>2. CASE ~Reserved(q)
    <3>1. reservation[q].blocks = <<>> /\ reservation[q].written = 0
      BY <2>2 DEF Framed, NoReservation
    <3>2. Owned(q) = chain[q]
      BY <1>1, <3>1 DEF Owned
    <3> QED
      BY <1>3, <3>1, <3>2
  <2> QED
    BY <2>1, <2>2
<1>5. headOffset[q] + byteCount[q] = End(q) /\ accepted[q] = delivered[q] + byteCount[q]
  <2>1. byteCount[q] = End(q) - headOffset[q] /\ byteCount[q] = accepted[q] - delivered[q]
    BY Zenon DEF Framed
  <2> QED
    BY SMTT(40), <1>1, <1>3, <2>1
<1> QED
  BY <1>2, <1>3, <1>4, <1>5

\* The cells of a queue that are in use are cells of its blocks.
LEMMA UsedCells ==
  ASSUME NEW q \in Queue, QueueType(q), Framed(q),
         NEW i \in 1..(byteCount[q] + reservation[q].written)
  PROVE  /\ headOffset[q] + i - 1 \in Nat
         /\ headOffset[q] + i - 1 < End(q) + reservation[q].written
         /\ At(Owned(q), headOffset[q] + i - 1) \in Cell
         /\ At(Owned(q), headOffset[q] + i - 1)[1] \in ToSet(Owned(q))
<1>1. /\ headOffset[q] \in Nat /\ byteCount[q] \in Nat
      /\ reservation[q].written \in Nat
  BY SizeIsPositive DEF QueueType, Reservation
<1>2. Owned(q) \in Seq(Block) /\ Room(Owned(q)) \in Nat
  BY UsedFits, RoomType
<1>3. headOffset[q] + i - 1 \in Nat
      /\ headOffset[q] + i - 1 < End(q) + reservation[q].written
  BY SMTT(40), <1>1, UsedFits
<1>4. headOffset[q] + i - 1 < Room(Owned(q))
  BY <1>1, <1>2, <1>3, UsedFits
<1> QED
  BY <1>2, <1>3, <1>4, InRoom

QueueInv(q) == QueueType(q) /\ Framed(q) /\ Filled(q) /\ Carried(q)

LEMMA InvParts ==
  ASSUME BytesInv
  PROVE  /\ OtherTypes /\ Functional /\ BlocksOwnedOnce
         /\ \A q \in Queue : QueueInv(q)
  BY TypeParts, AreFunctions DEF BytesInv, QueueInv

\* A step leaves queue q as it was.
SameQueue(q) ==
  /\ chain'[q] = chain[q] /\ headOffset'[q] = headOffset[q]
  /\ tailUsed'[q] = tailUsed[q] /\ byteCount'[q] = byteCount[q]
  /\ fds'[q] = fds[q] /\ active'[q] = active[q]
  /\ reservation'[q] = reservation[q]
  /\ accepted'[q] = accepted[q] /\ delivered'[q] = delivered[q]

\* And does not write to its blocks.
SameCells(q) == \A c \in Cell : c[1] \in ToSet(Owned(q)) => mem'[c] = mem[c]

LEMMA SameOwned ==
  ASSUME NEW q \in Queue, SameQueue(q)
  PROVE  Owned(q)' = Owned(q)
  BY DEF SameQueue, Owned

LEMMA QueueStays ==
  ASSUME NEW q \in Queue, QueueInv(q), SameQueue(q), SameCells(q)
  PROVE  QueueInv(q)'
<1> USE DEF QueueInv
<1>1. QueueType(q)'
  BY DEF SameQueue, QueueType
<1>2. Framed(q)'
  <2>1. End(q)' = End(q) /\ Reserved(q)' = Reserved(q)
    BY DEF SameQueue, End, Reserved
  <2>2. BlocksNeeded(q, reservation[q].count)' = BlocksNeeded(q, reservation[q].count)
    BY DEF SameQueue, BlocksNeeded, Beyond
  <2> QED
    BY <2>1, <2>2 DEF SameQueue, Framed
<1>3. Filled(q)'
  <2> SUFFICES ASSUME NEW i \in 1..(byteCount[q] + reservation[q].written)
               PROVE  mem'[At(Owned(q), headOffset[q] + i - 1)]
                        = <<q, delivered[q] + i>>
    BY SameOwned DEF SameQueue, Filled
  <2>1. mem[At(Owned(q), headOffset[q] + i - 1)] = <<q, delivered[q] + i>>
    BY DEF Filled
  <2> QED
    BY <2>1, UsedCells DEF SameCells
<1>4. Carried(q)'
  BY DEF SameQueue, Carried
<1> QED
  BY <1>1, <1>2, <1>3, <1>4

\* It is enough to look at the queue that takes the step.
LEMMA OneQueueSteps ==
  ASSUME BytesInv, NEW q \in Queue,
         Functional', OtherTypes', BlocksOwnedOnce', QueueInv(q)',
         \A r \in Queue : r # q => SameQueue(r) /\ SameCells(r)
  PROVE  BytesInv'
<1>1. \A r \in Queue : QueueInv(r)'
  BY InvParts, QueueStays
<1>2. TypeOK'
  BY <1>1, TypesOfAll DEF QueueInv
<1> QED
  BY <1>1, <1>2 DEF BytesInv, QueueInv

-----------------------------------------------------------------------------
(* Reservations. *)

\* What is reserved fits.
LEMMA ReservedFits ==
  ASSUME NEW q \in Queue, QueueType(q), Framed(q), Reserved(q)
  PROVE  /\ End(q) + reservation[q].count =< Room(Owned(q))
         /\ reservation[q].written =< reservation[q].count
         /\ reservation[q].count =< ByteBudget - byteCount[q]
<1>1. /\ chain[q] \in Seq(Block) /\ tailUsed[q] \in 0..BlockSize
      /\ reservation[q].count \in Nat /\ reservation[q].blocks \in Seq(Block)
  BY DEF QueueType, Reservation
<1>2. /\ Len(reservation[q].blocks) = BlocksNeeded(q, reservation[q].count)
      /\ reservation[q].written =< reservation[q].count
      /\ reservation[q].count > 0
      /\ reservation[q].count =< ByteBudget - byteCount[q]
  BY DEF Framed, Reserved
<1> QED
  BY <1>1, <1>2, Grows DEF Owned

\* Without a reservation all blocks are public.
LEMMA Unreserved ==
  ASSUME NEW q \in Queue, QueueType(q), Framed(q), ~Reserved(q)
  PROVE  /\ reservation[q] = NoReservation
         /\ reservation[q].written = 0
         /\ Owned(q) = chain[q]
<1>1. reservation[q] = NoReservation
  BY DEF Framed
<1>2. reservation[q].blocks = <<>> /\ reservation[q].written = 0
  BY <1>1 DEF NoReservation
<1>3. chain[q] \in Seq(Block)
  BY DEF QueueType
<1> QED
  BY <1>1, <1>2, <1>3 DEF Owned

\* Blocks of different queues are different.
LEMMA OthersApart ==
  ASSUME BlocksOwnedOnce, NEW q \in Queue, NEW r \in Queue, r # q,
         NEW c, c[1] \in ToSet(Owned(r))
  PROVE  c[1] \notin ToSet(Owned(q))
  BY DEF BlocksOwnedOnce

LEMMA WriteBytes ==
  ASSUME BytesInv, NEW q \in Queue, NEW n \in 1..ByteBudget, Write(q, n)
  PROVE  BytesInv'
<1> DEFINE w == reservation[q].written
           m == reservation[q].count
           from == End(q) + w
           first == accepted[q] + w + 1
<1>1. OtherTypes /\ Functional /\ BlocksOwnedOnce /\ QueueInv(q)
  BY InvParts
<1>2. QueueType(q) /\ Framed(q) /\ Filled(q) /\ Carried(q)
  BY <1>1 DEF QueueInv
<1>3. Reserved(q) /\ n \in 1..(m - w)
  BY DEF Write
<1>4. /\ n \in Nat /\ w \in Nat /\ m \in Nat
      /\ ByteBudget \in Nat /\ m =< ByteBudget
      /\ headOffset[q] \in Nat /\ byteCount[q] \in Nat
      /\ accepted[q] \in Nat /\ delivered[q] \in Nat
  BY SMTT(40), <1>2, SizeAssumption DEF QueueType, Reservation
<1>5. /\ End(q) \in Nat /\ Owned(q) \in Seq(Block)
      /\ headOffset[q] + byteCount[q] = End(q)
      /\ accepted[q] = delivered[q] + byteCount[q]
  BY <1>2, UsedFits
<1>6. Room(Owned(q)) \in Nat /\ End(q) + m =< Room(Owned(q))
  BY <1>2, <1>3, <1>5, ReservedFits, RoomType
<1>7. Store(q, Owned(q), from, first, first + n - 1)
  BY DEF Write, Owned
<1>8. /\ UNCHANGED <<chain, headOffset, tailUsed, byteCount, accepted, active,
                     nodes, free, fds, open, held, delivered>>
      /\ reservation' = [reservation EXCEPT ![q].written = @ + n]
  BY DEF Write, chainVars, poolVars, fdVars
<1>9. /\ reservation' = [r \in Queue |-> reservation'[r]]
      /\ \A r \in Queue : r # q => reservation'[r] = reservation[r]
      /\ reservation'[q] = [reservation[q] EXCEPT !.written = w + n]
  BY <1>1, <1>8 DEF Functional
<1>10. /\ reservation'[q].written = w + n
       /\ reservation'[q].count = m
       /\ reservation'[q].blocks = reservation[q].blocks
       /\ w + n \in 0..ByteBudget
       /\ reservation'[q] \in Reservation
  <2>1. reservation[q] \in Reservation
    BY <1>2 DEF QueueType
  <2>2. w + n \in 0..ByteBudget
    BY <1>3, <1>4
  <2> HIDE DEF w, m
  <2> QED
    BY <1>9, <2>1, <2>2 DEF Reservation, m
<1>11. UNCHANGED <<chain, headOffset, tailUsed, byteCount, accepted, active,
                   nodes, free, fds, open, held, delivered>>
  BY <1>8
<1>12. Owned(q)' = Owned(q) /\ End(q)' = End(q)
  BY <1>10, <1>11 DEF Owned, End
<1>13. QueueType(q)'
  BY <1>2, <1>10, <1>11 DEF QueueType
<1>14. Framed(q)'
  <2>1. /\ Reserved(q)'
        /\ BlocksNeeded(q, m)' = BlocksNeeded(q, m)
    BY <1>3, <1>10, <1>11 DEF Reserved, BlocksNeeded, Beyond
  <2>2. w + n =< m
    BY <1>3, <1>4
  <2> QED
    BY <1>2, <1>3, <1>10, <1>11, <1>12, <2>1, <2>2 DEF Framed
<1>15. \A r \in Queue : r # q => SameQueue(r)
  BY <1>9, <1>11 DEF SameQueue
<1>16. Carried(q)'
  BY <1>2, <1>11 DEF Carried
<1>17. \A i \in 1..(byteCount[q] + w) : mem[At(Owned(q), headOffset[q] + i - 1)]
                                        = <<q, delivered[q] + i>>
  BY <1>2 DEF Filled
<1>18. \A i \in 1..(byteCount[q] + w) : headOffset[q] + i - 1 \in Nat
                                        /\ headOffset[q] + i - 1 < from
  BY <1>2, UsedCells
<1> HIDE DEF w, m
<1>19. from \in Nat /\ first \in Nat /\ from + n =< Room(Owned(q))
  <2>1. /\ End(q) \in Nat /\ accepted[q] \in Nat /\ w \in Nat /\ m \in Nat
        /\ n \in 1..(m - w)
    BY <1>3, <1>4, <1>5
  <2>2. Room(Owned(q)) \in Nat /\ End(q) + m =< Room(Owned(q))
    BY <1>6
  <2> QED
    BY <2>1, <2>2
<1>20. IsInjective(Owned(q)) /\ MemoryType
  BY <1>1 DEF BlocksOwnedOnce, OtherTypes
<1> HIDE DEF from, first
<1>21. /\ MemoryType'
       /\ \A c \in Cell : c[1] \notin ToSet(Owned(q)) => mem'[c] = mem[c]
       /\ \A k \in Nat : k < from => mem'[At(Owned(q), k)] = mem[At(Owned(q), k)]
       /\ \A i \in 1..n : mem'[At(Owned(q), from + i - 1)] = <<q, first + i - 1>>
  <2> DEFINE last == first + n - 1
  <2>1. last = first + n - 1 /\ Store(q, Owned(q), from, first, last)
    BY <1>7
  <2> HIDE DEF last
  <2> DEFINE o == Owned(q)
  <2>2. o \in Seq(Block) /\ IsInjective(o) /\ from + n =< Room(o)
        /\ Store(q, o, from, first, last)
    BY <1>5, <1>19, <1>20, <2>1
  <2> HIDE DEF o
  <2>3. from \in Nat /\ first \in Nat /\ n \in Nat /\ MemoryType
    BY <1>4, <1>19, <1>20
  <2>4. /\ MemoryType'
        /\ \A c \in Cell : c[1] \notin ToSet(o) => mem'[c] = mem[c]
        /\ \A k \in Nat : k < from => mem'[At(o, k)] = mem[At(o, k)]
        /\ \A i \in 1..n : mem'[At(o, from + i - 1)] = <<q, first + i - 1>>
    BY <2>1, <2>2, <2>3, StoreWrites
  <2> QED
    BY <2>4 DEF o
<1>22. Filled(q)'
  <2> SUFFICES ASSUME NEW i \in 1..(byteCount[q] + (w + n))
               PROVE  mem'[At(Owned(q), headOffset[q] + i - 1)]
                        = <<q, delivered[q] + i>>
    BY <1>10, <1>11, <1>12 DEF Filled
  <2>1. CASE i \in 1..(byteCount[q] + w)
    BY <1>17, <1>18, <1>21, <2>1
  <2>2. CASE i > byteCount[q] + w
    <3> DEFINE j == i - (byteCount[q] + w)
    <3>1. j \in 1..n
      BY <1>4, <2>2
    <3>2. i \in Nat
      BY <1>4
    <3>3. /\ End(q) \in Nat /\ headOffset[q] \in Nat /\ byteCount[q] \in Nat
          /\ accepted[q] \in Nat /\ delivered[q] \in Nat /\ w \in Nat
          /\ headOffset[q] + byteCount[q] = End(q)
          /\ accepted[q] = delivered[q] + byteCount[q]
      BY <1>4, <1>5
    <3>4. from + j - 1 = headOffset[q] + i - 1
      BY <3>2, <3>3 DEF from
    <3>5. first + j - 1 = delivered[q] + i
      BY <3>2, <3>3 DEF first
    <3> HIDE DEF j
    <3>6. mem'[At(Owned(q), from + j - 1)] = <<q, first + j - 1>>
      BY <1>21, <3>1
    <3> QED
      BY <3>4, <3>5, <3>6
  <2> QED
    BY <1>4, <2>1, <2>2
<1>23. \A r \in Queue : r # q => SameCells(r)
  BY <1>1, <1>21, OthersApart DEF SameCells
<1>24. Functional' /\ OtherTypes'
  BY <1>1, <1>9, <1>11, <1>21 DEF Functional, OtherTypes, PoolType
<1>25. BlocksOwnedOnce'
  <2>1. \A r \in Queue : Owned(r)' = Owned(r)
    BY <1>12, <1>15, SameOwned
  <2> QED
    BY <1>1, <1>11, <2>1 DEF BlocksOwnedOnce
<1> QED
  BY <1>13, <1>14, <1>15, <1>16, <1>22, <1>23, <1>24, <1>25, OneQueueSteps
     DEF QueueInv

\* A lease is a sequence of as many blocks as are needed.
LEMMA LeaseType ==
  ASSUME NEW q \in Queue, QueueType(q), NEW n \in Nat, NEW blocks \in Leases(q, n)
  PROVE  blocks \in Seq(Block) /\ Len(blocks) = BlocksNeeded(q, n)
<1> DEFINE k == BlocksNeeded(q, n)
           x == Beyond(q, n)
<1>1. BlockSize \in Nat /\ BlockSize > 0 /\ tailUsed[q] \in 0..BlockSize
  BY SizeIsPositive DEF QueueType
<1>2. x \in Nat
  <2> DEFINE space == IF chain[q] = <<>> THEN 0 ELSE BlockSize - tailUsed[q]
  <2>1. space \in Nat
    BY <1>1
  <2>2. x = IF n =< space THEN 0 ELSE n - space
    BY DEF Beyond
  <2> HIDE DEF space, x
  <2> QED
    BY <2>1, <2>2
<1>3. k \in Nat
  <2> DEFINE y == x + BlockSize - 1
  <2>1. k = y \div BlockSize
    BY DEF BlocksNeeded
  <2>2. y \in Nat
    BY <1>1, <1>2
  <2> HIDE DEF y, k
  <2> QED
    BY <2>1, <2>2, Positions
<1>4. blocks \in [1..k -> Block]
  BY DEF Leases
<1> HIDE DEF k
<1>5. blocks \in Seq(Block) /\ Len(blocks) = k
  BY <1>3, <1>4
<1> QED
  BY <1>5 DEF k

LEMMA ReserveBytes ==
  ASSUME BytesInv, NEW q \in Queue, NEW n \in 1..ByteBudget,
         NEW blocks \in Leases(q, n), Reserve(q, n, blocks)
  PROVE  BytesInv'
<1>1. OtherTypes /\ Functional /\ BlocksOwnedOnce /\ QueueInv(q)
  BY InvParts
<1>2. QueueType(q) /\ Framed(q) /\ Filled(q) /\ Carried(q)
  BY <1>1 DEF QueueInv
<1>3. /\ n \in Nat /\ n > 0 /\ ByteBudget \in Nat /\ n =< ByteBudget
      /\ headOffset[q] \in Nat /\ byteCount[q] \in Nat /\ chain[q] \in Seq(Block)
  BY <1>2, SizeAssumption DEF QueueType
<1>4. blocks \in Seq(Block) /\ Len(blocks) = BlocksNeeded(q, n)
  BY <1>2, <1>3, LeaseType
<1>5. Fits(q, n) /\ Acquire(blocks)
  BY DEF Reserve
<1>6. ~Reserved(q) /\ n =< ByteBudget - byteCount[q]
  BY <1>5 DEF Fits
<1>7. /\ UNCHANGED <<chain, headOffset, tailUsed, byteCount, accepted, active,
                     mem, fds, open, held, delivered>>
      /\ reservation' = [reservation EXCEPT ![q] =
           [count |-> n, written |-> 0, blocks |-> blocks]]
  BY DEF Reserve, chainVars, fdVars
<1>8. /\ reservation' = [r \in Queue |-> reservation'[r]]
      /\ \A r \in Queue : r # q => reservation'[r] = reservation[r]
      /\ reservation'[q] = [count |-> n, written |-> 0, blocks |-> blocks]
  BY <1>1, <1>7 DEF Functional
<1>9. UNCHANGED <<chain, headOffset, tailUsed, byteCount, accepted, active,
                  mem, fds, open, held, delivered>>
  BY <1>7
<1>10. /\ reservation[q].written = 0
       /\ Owned(q) = chain[q] /\ Owned(q)' = chain[q] \o blocks
  <2>1. reservation'[q].blocks = blocks
    BY <1>8
  <2>2. Owned(q)' = chain[q] \o blocks
    BY <1>9, <2>1 DEF Owned
  <2> QED
    BY <1>2, <1>6, <2>2, Unreserved
<1>11. \A r \in Queue : r # q => SameQueue(r) /\ SameCells(r)
  BY <1>8, <1>9 DEF SameQueue, SameCells
<1>12. QueueType(q)'
  BY <1>2, <1>3, <1>4, <1>8, <1>9 DEF QueueType, Reservation
<1>13. Framed(q)'
  <2>1. /\ Reserved(q)' /\ End(q)' = End(q)
        /\ BlocksNeeded(q, n)' = BlocksNeeded(q, n)
    BY <1>3, <1>8, <1>9 DEF Reserved, End, BlocksNeeded, Beyond
  <2> QED
    BY <1>2, <1>3, <1>4, <1>6, <1>8, <1>9, <2>1 DEF Framed
<1>14. Filled(q)'
  <2> SUFFICES ASSUME NEW i \in 1..byteCount[q]
               PROVE  mem[At(chain[q] \o blocks, headOffset[q] + i - 1)]
                        = <<q, delivered[q] + i>>
    <3>1. byteCount'[q] + reservation'[q].written = byteCount[q]
      BY <1>3, <1>8, <1>9
    <3> QED
      BY <1>9, <1>10, <3>1 DEF Filled
  <2>1. mem[At(chain[q], headOffset[q] + i - 1)] = <<q, delivered[q] + i>>
    <3>1. byteCount[q] + reservation[q].written = byteCount[q]
      BY <1>3, <1>10
    <3> QED
      BY <1>2, <1>10, <3>1 DEF Filled
  <2>2. headOffset[q] + i - 1 \in Nat /\ headOffset[q] + i - 1 < Room(chain[q])
    BY <1>2, <1>3, UsedFits, RoomType
  <2> QED
    BY <1>3, <1>4, <2>1, <2>2, AtFirst
<1>15. Carried(q)'
  BY <1>2, <1>9 DEF Carried
<1>16. BlocksOwnedOnce' /\ PoolType'
  <2>1. \A r \in Queue : r # q => Owned(r)' = Owned(r)
    BY <1>11, SameOwned
  <2>2. Owned(q)' = Owned(q) \o blocks /\ Owned(q) \in Seq(Block)
    BY <1>3, <1>10
  <2> QED
    BY <1>1, <1>4, <1>5, <2>1, <2>2, AcquireOwns DEF OtherTypes
<1>17. Functional' /\ OtherTypes'
  BY <1>1, <1>8, <1>9, <1>16 DEF Functional, OtherTypes, MemoryType
<1> QED
  BY <1>11, <1>12, <1>13, <1>14, <1>15, <1>16, <1>17, OneQueueSteps DEF QueueInv

LEMMA AbortBytes ==
  ASSUME BytesInv, NEW q \in Queue, Abort(q)
  PROVE  BytesInv'
<1> DEFINE private == reservation[q].blocks
<1>1. OtherTypes /\ Functional /\ BlocksOwnedOnce /\ QueueInv(q)
  BY InvParts
<1>2. QueueType(q) /\ Framed(q) /\ Filled(q) /\ Carried(q)
  BY <1>1 DEF QueueInv
<1>3. /\ headOffset[q] \in Nat /\ byteCount[q] \in Nat /\ chain[q] \in Seq(Block)
      /\ private \in Seq(Block) /\ reservation[q].written \in Nat
      /\ ByteBudget \in Nat
  BY <1>2, SizeAssumption DEF QueueType, Reservation
<1>4. Release(ToSet(private))
  BY DEF Abort
<1>5. /\ UNCHANGED <<chain, headOffset, tailUsed, byteCount, accepted, active,
                     fds, open, held, delivered>>
      /\ reservation' = [reservation EXCEPT ![q] = NoReservation]
  BY DEF Abort, chainVars, fdVars
<1>6. /\ reservation' = [r \in Queue |-> reservation'[r]]
      /\ \A r \in Queue : r # q => reservation'[r] = reservation[r]
      /\ reservation'[q] = NoReservation
  BY <1>1, <1>5 DEF Functional
<1>7. UNCHANGED <<chain, headOffset, tailUsed, byteCount, accepted, active,
                  fds, open, held, delivered>>
  BY <1>5
<1>8. /\ Owned(q) = chain[q] \o private
      /\ Owned(q)' = chain[q] /\ reservation'[q].written = 0
  BY <1>3, <1>6, <1>7 DEF Owned, NoReservation
<1>9. /\ IsInjective(chain[q]) /\ ToSet(chain[q]) \cap ToSet(private) = {}
      /\ ToSet(Owned(q)) = ToSet(chain[q]) \cup ToSet(private)
      /\ ToSet(private) \subseteq Block
  <2>1. IsInjective(chain[q] \o private)
    BY <1>1, <1>8 DEF BlocksOwnedOnce
  <2>2. ToSet(private) \subseteq Block
    BY <1>3 DEF ToSet
  <2> HIDE DEF private
  <2> QED
    BY <1>3, <1>8, <2>1, <2>2, ConcatParts, ConcatSet
<1>10. MemoryType' /\ \A c \in Cell : c[1] \notin ToSet(private) => mem'[c] = mem[c]
  BY <1>1, <1>4, <1>9, ReleaseWrites DEF OtherTypes
<1>11. \A r \in Queue : r # q => SameQueue(r)
  BY <1>6, <1>7 DEF SameQueue
<1>12. \A r \in Queue : r # q => SameCells(r)
  BY <1>1, <1>9, <1>10, OthersApart DEF SameCells
<1>13. QueueType(q)'
  BY <1>2, <1>3, <1>6, <1>7 DEF QueueType, Reservation, NoReservation
<1>14. Framed(q)'
  BY <1>2, <1>6, <1>7 DEF Framed, End, Reserved, NoReservation
<1>15. Filled(q)'
  <2> SUFFICES ASSUME NEW i \in 1..byteCount[q]
               PROVE  mem'[At(chain[q], headOffset[q] + i - 1)]
                        = <<q, delivered[q] + i>>
    <3>1. byteCount'[q] + reservation'[q].written = byteCount[q]
      BY <1>3, <1>7, <1>8
    <3> QED
      BY <1>7, <1>8, <3>1 DEF Filled
  <2> DEFINE k == headOffset[q] + i - 1
  <2>1. mem[At(Owned(q), k)] = <<q, delivered[q] + i>>
    <3>1. byteCount[q] \in Nat /\ reservation[q].written \in Nat
      BY <1>3
    <3>2. i \in 1..(byteCount[q] + reservation[q].written)
      BY <3>1
    <3> QED
      BY <1>2, <3>2 DEF Filled
  <2>2. k \in Nat /\ k < Room(chain[q])
    BY SMTT(40), <1>2, <1>3, UsedFits, RoomType
  <2> HIDE DEF k
  <2>3. At(Owned(q), k) = At(chain[q], k)
    BY <1>3, <1>8, <2>2, AtFirst
  <2>4. At(chain[q], k) \in Cell /\ At(chain[q], k)[1] \in ToSet(chain[q])
    BY <1>3, <2>2, InRoom
  <2>5. mem'[At(chain[q], k)] = <<q, delivered[q] + i>>
    BY <1>9, <1>10, <2>1, <2>3, <2>4
  <2> QED
    BY <2>5 DEF k
<1>16. Carried(q)'
  BY <1>2, <1>7 DEF Carried
<1>17. BlocksOwnedOnce' /\ PoolType'
  <2>1. \A r \in Queue : r # q => Owned(r)' = Owned(r)
    BY <1>11, SameOwned
  <2>2. /\ ToSet(private) \subseteq ToSet(Owned(q))
        /\ IsInjective(Owned(q)') /\ ToSet(Owned(q)') = ToSet(Owned(q)) \ ToSet(private)
    BY <1>8, <1>9
  <2> HIDE DEF private
  <2> QED
    BY <1>1, <1>4, <1>9, <2>1, <2>2, ReleaseOwns DEF OtherTypes
<1>18. Functional' /\ OtherTypes'
  BY <1>1, <1>6, <1>7, <1>10, <1>17 DEF Functional, OtherTypes
<1> QED
  BY <1>11, <1>12, <1>13, <1>14, <1>15, <1>16, <1>17, <1>18, OneQueueSteps
     DEF QueueInv

LEMMA CapacityBytes ==
  ASSUME BytesInv, NEW q \in Queue, NEW n \in 1..ByteBudget, EnsureCapacity(q, n)
  PROVE  BytesInv'
<1>1. OtherTypes /\ Functional /\ BlocksOwnedOnce /\ QueueInv(q)
  BY InvParts
<1>2. UNCHANGED <<chain, headOffset, tailUsed, byteCount, accepted, active,
                  reservation, mem, fds, open, held, delivered>>
  BY DEF EnsureCapacity, chainVars, fdVars
<1>3. PICK new \in SUBSET (Block \ nodes) :
        nodes' = nodes \cup new /\ free' = free \cup new
  BY DEF EnsureCapacity
<1>4. \A r \in Queue : SameQueue(r) /\ SameCells(r)
  BY <1>2 DEF SameQueue, SameCells
<1>5. BlocksOwnedOnce' /\ PoolType'
  <2>1. \A r \in Queue : Owned(r)' = Owned(r)
    BY <1>4, SameOwned
  <2>2. ToSet(Owned(q)) \subseteq nodes /\ ToSet(Owned(q)) \cap free = {}
        /\ IsInjective(Owned(q))
    BY <1>1 DEF BlocksOwnedOnce
  <2>3. /\ IsInjective(Owned(q)')
        /\ ToSet(Owned(q)') \subseteq ToSet(Owned(q)) \cup free \cup (Block \ nodes)
        /\ ToSet(Owned(q)') \cap free' = {}
        /\ free' \subseteq ToSet(Owned(q)) \cup free \cup (Block \ nodes)
        /\ nodes' \subseteq Block
        /\ nodes' = (nodes \ (ToSet(Owned(q)) \cup free)) \cup free' \cup ToSet(Owned(q)')
    BY <1>1, <1>3, <2>1, <2>2 DEF OtherTypes, PoolType
  <2> QED
    BY <1>1, <2>1, <2>3, OneOwnerMoves
<1>6. Functional' /\ OtherTypes'
  BY <1>1, <1>2, <1>5 DEF Functional, OtherTypes, MemoryType
<1>7. QueueInv(q)'
  BY <1>1, <1>4, QueueStays
<1> QED
  BY <1>4, <1>5, <1>6, <1>7, OneQueueSteps

-----------------------------------------------------------------------------
(* Messages. *)

\* The descriptors of a message, with its position.
LEMMA TakenDescriptors ==
  ASSUME Functional, OtherTypes, NEW q \in Queue, QueueType(q),
         NEW d \in Seq(Fd), TakeDescriptors(q, d)
  PROVE  /\ fds'[q] \in Seq(Entry) /\ Len(fds'[q]) =< DescriptorBudget
         /\ Len(fds'[q]) >= Len(fds[q])
         /\ \A i \in 1..Len(fds[q]) : fds'[q][i] = fds[q][i]
         /\ \A i \in 1..Len(fds'[q]) :
              i > Len(fds[q]) => fds'[q][i].first = accepted[q] + 1
         /\ \A r \in Queue : r # q => fds'[r] = fds[r]
         /\ fds' = [r \in Queue |-> fds'[r]]
         /\ open' = open /\ held' \subseteq open
<1> DEFINE position == accepted[q] + 1
           tagged == [i \in DOMAIN d |-> [fd |-> d[i], first |-> position]]
<1>1. position \in Nat /\ fds[q] \in Seq(Entry)
  BY DEF QueueType
<1> HIDE DEF position
<1>2. tagged \in Seq(Entry) /\ Len(tagged) = Len(d)
      /\ \A i \in 1..Len(d) : tagged[i].first = position
  <2>1. \A i \in 1..Len(d) : [fd |-> d[i], first |-> position] \in Entry
    BY <1>1 DEF Entry
  <2>2. tagged \in [1..Len(d) -> Entry] /\ DOMAIN d = 1..Len(d)
    BY <2>1
  <2> QED
    BY <2>2
<1>3. /\ fds' = [fds EXCEPT ![q] = fds[q] \o tagged]
      /\ Len(fds[q]) + Len(d) =< DescriptorBudget
      /\ open' = open /\ held' = held \ ToSet(d)
  BY DEF TakeDescriptors, position
<1>4. /\ fds'[q] = fds[q] \o tagged
      /\ \A r \in Queue : r # q => fds'[r] = fds[r]
      /\ fds' = [r \in Queue |-> fds'[r]]
  BY <1>3 DEF Functional
<1> HIDE DEF tagged
<1>5. Len(fds'[q]) = Len(fds[q]) + Len(d) /\ fds'[q] \in Seq(Entry)
  <2>1. Len(fds[q] \o tagged) = Len(fds[q]) + Len(d) /\ fds[q] \o tagged \in Seq(Entry)
    BY SMTT(40), <1>1, <1>2
  <2> QED
    BY <1>4, <2>1
<1>6. \A i \in 1..Len(fds[q]) : fds'[q][i] = fds[q][i]
  BY <1>1, <1>2, <1>4
<1>7. ASSUME NEW i \in 1..Len(fds'[q]), i > Len(fds[q])
      PROVE  fds'[q][i].first = position
  <2>1. i - Len(fds[q]) \in 1..Len(d)
    BY <1>1, <1>5, <1>7
  <2>2. fds'[q][i] = tagged[i - Len(fds[q])]
    BY <1>1, <1>2, <1>4, <1>5, <1>7
  <2> QED
    BY <1>2, <2>1, <2>2
<1>8. open' = open /\ held' \subseteq open
  BY <1>3 DEF OtherTypes
<1>9. Len(fds'[q]) =< DescriptorBudget /\ Len(fds'[q]) >= Len(fds[q])
  BY <1>1, <1>3, <1>5
<1> QED
  BY <1>4, <1>5, <1>6, <1>7, <1>8, <1>9 DEF position

\* Queue q has n more bytes in these further blocks, published at once or from
\* its reservation, and nothing else was taken.
Extends(q, n, blocks) ==
  /\ chain'[q] = chain[q] \o blocks
  /\ tailUsed'[q] = TailAfter(q, n)
  /\ byteCount'[q] = byteCount[q] + n
  /\ accepted'[q] = accepted[q] + n
  /\ headOffset'[q] = headOffset[q]
  /\ active'[q] = active[q]
  /\ delivered'[q] = delivered[q]
  /\ reservation'[q] = NoReservation

\* The part of Publish that does not touch q.
LEMMA Published ==
  ASSUME Functional, NEW q \in Queue, NEW n, NEW blocks, Publish(q, n, blocks)
  PROVE  /\ chain'[q] = chain[q] \o blocks
         /\ tailUsed'[q] = TailAfter(q, n)
         /\ byteCount'[q] = byteCount[q] + n
         /\ accepted'[q] = accepted[q] + n
         /\ \A r \in Queue : r # q =>
              /\ chain'[r] = chain[r] /\ tailUsed'[r] = tailUsed[r]
              /\ byteCount'[r] = byteCount[r] /\ accepted'[r] = accepted[r]
         /\ chain' = [r \in Queue |-> chain'[r]]
         /\ tailUsed' = [r \in Queue |-> tailUsed'[r]]
         /\ byteCount' = [r \in Queue |-> byteCount'[r]]
         /\ accepted' = [r \in Queue |-> accepted'[r]]
  BY DEF Functional, Publish

\* What was published is framed, and what a send carries stays in front.
LEMMA ExtendedQueue ==
  ASSUME Functional, OtherTypes, NEW q \in Queue, QueueInv(q),
         NEW n \in Nat, n > 0, n =< ByteBudget - byteCount[q],
         NEW blocks \in Seq(Block), Len(blocks) = BlocksNeeded(q, n),
         NEW d \in Seq(Fd), TakeDescriptors(q, d), Extends(q, n, blocks)
  PROVE  /\ QueueType(q)' /\ Framed(q)' /\ Carried(q)'
         /\ End(q)' = End(q) + n
         /\ Owned(q)' = chain[q] \o blocks
<1>1. QueueType(q) /\ Framed(q) /\ Carried(q)
  BY DEF QueueInv
<1>2. /\ chain[q] \in Seq(Block) /\ tailUsed[q] \in 0..BlockSize
      /\ headOffset[q] \in Nat /\ byteCount[q] \in Nat /\ ByteBudget \in Nat
      /\ accepted[q] \in Nat /\ delivered[q] \in Nat
      /\ active[q] \in Flight /\ fds[q] \in Seq(Entry)
  BY <1>1, SizeAssumption DEF QueueType
<1>3. /\ headOffset[q] \in Nat /\ byteCount[q] \in Nat
      /\ accepted[q] \in Nat /\ delivered[q] \in Nat /\ End(q) \in Nat
  BY <1>1, <1>2, UsedFits
<1>4. /\ chain[q] \o blocks # <<>> /\ TailAfter(q, n) \in 1..BlockSize
      /\ (Len(chain[q] \o blocks) - 1) * BlockSize + TailAfter(q, n) = End(q) + n
      /\ End(q) \in Nat
  BY <1>2, Grows
<1>5. End(q)' = End(q) + n
  <2>1. chain'[q] # <<>>
    BY <1>4 DEF Extends
  <2>2. End(q)' = (Len(chain[q] \o blocks) - 1) * BlockSize + TailAfter(q, n)
    BY <2>1 DEF End, Extends
  <2> QED
    BY <1>4, <2>2
<1>6. Owned(q)' = chain[q] \o blocks
  <2>1. reservation'[q].blocks = <<>> /\ chain'[q] = chain[q] \o blocks
    BY DEF Extends, NoReservation
  <2>2. chain[q] \o blocks \in Seq(Block)
    BY <1>2
  <2> QED
    BY <2>1, <2>2 DEF Owned
<1>7. QueueType(q)'
  <2>1. chain'[q] \in Seq(Block)
    BY <1>2 DEF Extends
  <2>2. tailUsed'[q] \in 0..BlockSize
    BY <1>4 DEF Extends
  <2>3. byteCount'[q] \in 0..ByteBudget
    BY SMTT(40), <1>2 DEF Extends
  <2>4. accepted'[q] \in Nat /\ delivered'[q] \in Nat
    BY SMTT(40), <1>2 DEF Extends
  <2>5. reservation'[q] \in Reservation
    BY <1>2 DEF Extends, NoReservation, Reservation
  <2>6. headOffset'[q] \in 0..(BlockSize - 1) /\ active'[q] \in Flight
    BY <1>1 DEF Extends, QueueType
  <2>7. fds'[q] \in Seq(Entry) /\ Len(fds'[q]) =< DescriptorBudget
    BY <1>1, TakenDescriptors
  <2> QED
    BY <2>1, <2>2, <2>3, <2>4, <2>5, <2>6, <2>7 DEF QueueType
<1>8. Framed(q)'
  <2>1. End(q) - headOffset[q] = byteCount[q]
        /\ accepted[q] = delivered[q] + byteCount[q]
    <3>1. headOffset[q] + byteCount[q] = End(q) /\ accepted[q] = delivered[q] + byteCount[q]
      BY <1>1, UsedFits
    <3> QED
      BY <1>3, <3>1
  <2>2. headOffset[q] < End(q) + n
    BY <1>3, <2>1
  <2>3. byteCount[q] + n = End(q) + n - headOffset[q]
        /\ byteCount[q] + n = accepted[q] + n - delivered[q]
    BY SMTT(40), <1>3, <2>1
  <2>4. tailUsed'[q] > 0 /\ chain'[q] # <<>>
    BY <1>4 DEF Extends
  <2>5. ~Reserved(q)' /\ reservation'[q] = NoReservation
    BY DEF Extends, Reserved, NoReservation
  <2>6. /\ headOffset'[q] < End(q)'
        /\ byteCount'[q] = End(q)' - headOffset'[q]
        /\ byteCount'[q] = accepted'[q] - delivered'[q]
    <3>1. /\ headOffset'[q] = headOffset[q] /\ byteCount'[q] = byteCount[q] + n
          /\ accepted'[q] = accepted[q] + n /\ delivered'[q] = delivered[q]
      BY DEF Extends
    <3>2. headOffset'[q] < End(q)' /\ byteCount'[q] = End(q)' - headOffset'[q]
      BY <1>3, <1>5, <2>2, <2>3, <3>1
    <3>3. byteCount'[q] = accepted'[q] - delivered'[q]
      BY <1>3, <2>3, <3>1
    <3> QED
      BY <3>2, <3>3
  <2> QED
    BY <2>4, <2>5, <2>6, Zenon DEF Framed
<1>9. Carried(q)'
  <2> DEFINE k == Len(active[q].iov)
             c == Len(active[q].control)
  <2>1. /\ k \in Nat /\ c \in Nat /\ k =< byteCount[q] /\ c =< Len(fds[q])
        /\ End(q) =< Room(chain[q]) /\ Room(chain[q]) \in Nat
        /\ headOffset[q] + byteCount[q] = End(q)
        /\ accepted[q] = delivered[q] + byteCount[q]
    <3>1. k \in Nat /\ c \in Nat
      BY SMTT(40), <1>2 DEF Flight
    <3>2. k =< byteCount[q] /\ c =< Len(fds[q])
      BY <1>1, Zenon DEF Carried
    <3>3. Room(chain[q]) \in Nat
      BY <1>2, RoomType
    <3> QED
      BY <1>1, <3>1, <3>2, <3>3, UsedFits
  <2> HIDE DEF k, c
  <2>2. k =< byteCount[q] + n
    BY <1>2, <2>1
  <2>3. \A i \in 1..k : active[q].iov[i] = At(chain[q] \o blocks, headOffset[q] + i - 1)
    <3> SUFFICES ASSUME NEW i \in 1..k
                 PROVE  active[q].iov[i] = At(chain[q] \o blocks, headOffset[q] + i - 1)
      OBVIOUS
    <3> DEFINE o == headOffset[q] + i - 1
    <3>1. active[q].iov[i] = At(chain[q], o)
      BY <1>1 DEF Carried, k, c
    <3>2. o \in Nat /\ o < Room(chain[q])
      BY SMTT(40), <1>3, <2>1
    <3> HIDE DEF o
    <3>3. At(chain[q] \o blocks, o) = At(chain[q], o)
      BY <1>2, <3>2, AtFirst
    <3> QED
      BY <3>1, <3>3 DEF o
  <2>4. /\ Len(fds'[q]) \in Nat /\ Len(fds'[q]) >= Len(fds[q])
        /\ \A i \in 1..Len(fds[q]) : fds'[q][i] = fds[q][i]
        /\ \A i \in 1..Len(fds'[q]) :
             i > Len(fds[q]) => fds'[q][i].first = accepted[q] + 1
    BY <1>1, TakenDescriptors
  <2>5. \A i \in 1..c : active[q].control[i] = fds'[q][i].fd
    <3> SUFFICES ASSUME NEW i \in 1..c
                 PROVE  active[q].control[i] = fds'[q][i].fd
      OBVIOUS
    <3>1. i \in 1..Len(fds[q])
      BY <1>2, <2>1
    <3>2. active[q].control[i] = fds[q][i].fd
      BY <1>1 DEF Carried, k, c
    <3> QED
      BY <2>4, <3>1, <3>2
  <2>6. ASSUME NEW i \in 1..Len(fds'[q])
        PROVE  /\ fds'[q][i].first > delivered[q]
               /\ i > c => fds'[q][i].first > delivered[q] + k
    <3>1. CASE i > Len(fds[q])
      <4>1. fds'[q][i].first = accepted[q] + 1
        BY <2>4, <3>1
      <4>2. accepted[q] + 1 > delivered[q] /\ accepted[q] + 1 > delivered[q] + k
        BY SMTT(40), <1>3, <2>1
      <4> QED
        BY <4>1, <4>2
    <3>2. CASE i \in 1..Len(fds[q])
      BY <1>1, <2>4, <3>2 DEF Carried, k, c
    <3> QED
      BY <1>2, <2>4, <3>1, <3>2
  <2>7. c =< Len(fds'[q])
    BY <1>2, <2>1, <2>4
  <2> QED
    BY <2>2, <2>3, <2>5, <2>6, <2>7 DEF Carried, Extends, k, c
<1> QED
  BY <1>5, <1>6, <1>7, <1>8, <1>9

LEMMA CommitBytes ==
  ASSUME BytesInv, NEW q \in Queue, NEW d \in DescriptorLists, Commit(q, d)
  PROVE  BytesInv'
<1> DEFINE n == reservation[q].count
           blocks == reservation[q].blocks
<1>1. OtherTypes /\ Functional /\ BlocksOwnedOnce /\ QueueInv(q)
  BY InvParts
<1>2. QueueType(q) /\ Framed(q) /\ Filled(q) /\ Carried(q)
  BY <1>1 DEF QueueInv
<1>3. Reserved(q) /\ reservation[q].written = n
  BY DEF Commit
<1>4. /\ n \in Nat /\ blocks \in Seq(Block) /\ chain[q] \in Seq(Block)
      /\ byteCount[q] \in Nat /\ headOffset[q] \in Nat
  BY <1>2 DEF QueueType, Reservation
<1>5. n > 0 /\ n =< ByteBudget - byteCount[q] /\ Len(blocks) = BlocksNeeded(q, n)
  BY <1>2, <1>3 DEF Framed, Reserved
<1>6. d \in Seq(Fd)
  BY DEF DescriptorLists, SeqOf
<1>7. TakeDescriptors(q, d) /\ Publish(q, n, blocks)
  BY DEF Commit
<1>8. /\ UNCHANGED <<headOffset, active, nodes, free, mem, delivered>>
      /\ reservation' = [reservation EXCEPT ![q] = NoReservation]
  BY DEF Commit, poolVars
<1>9. /\ reservation' = [r \in Queue |-> reservation'[r]]
      /\ \A r \in Queue : r # q => reservation'[r] = reservation[r]
      /\ reservation'[q] = NoReservation
  BY <1>1, <1>8 DEF Functional
<1>10. UNCHANGED <<headOffset, active, nodes, free, mem, delivered>>
  BY <1>8
<1>11. Extends(q, n, blocks)
  <2> HIDE DEF n, blocks
  <2> QED
    BY <1>1, <1>7, <1>9, <1>10, Published DEF Extends
<1>12. /\ QueueType(q)' /\ Framed(q)' /\ Carried(q)'
       /\ Owned(q)' = Owned(q)
  <2>1. Owned(q) = chain[q] \o blocks
    BY DEF Owned
  <2> HIDE DEF n, blocks
  <2> QED
    BY <1>1, <1>4, <1>5, <1>6, <1>7, <1>11, <2>1, ExtendedQueue
<1>13. \A r \in Queue : r # q => SameQueue(r) /\ SameCells(r)
  <2>1. \A r \in Queue : r # q => fds'[r] = fds[r]
    BY <1>1, <1>2, <1>6, <1>7, TakenDescriptors
  <2>2. \A r \in Queue : r # q =>
          /\ chain'[r] = chain[r] /\ tailUsed'[r] = tailUsed[r]
          /\ byteCount'[r] = byteCount[r] /\ accepted'[r] = accepted[r]
    <3> HIDE DEF n, blocks
    <3> QED
      BY <1>1, <1>7, Published
  <2> QED
    BY <1>9, <1>10, <2>1, <2>2 DEF SameQueue, SameCells
<1>14. Filled(q)'
  <2>1. byteCount'[q] + reservation'[q].written = byteCount[q] + reservation[q].written
    <3>1. byteCount'[q] = byteCount[q] + n /\ reservation'[q].written = 0
      BY <1>11 DEF Extends, NoReservation
    <3> QED
      BY <1>3, <1>4, <3>1
  <2> QED
    BY <1>2, <1>10, <1>12, <2>1 DEF Filled
<1>15. BlocksOwnedOnce'
  <2>1. \A r \in Queue : Owned(r)' = Owned(r)
    BY <1>12, <1>13, SameOwned
  <2> QED
    BY <1>1, <1>10, <2>1 DEF BlocksOwnedOnce
<1>16. Functional' /\ OtherTypes'
  <2>1. /\ chain' = [r \in Queue |-> chain'[r]]
        /\ tailUsed' = [r \in Queue |-> tailUsed'[r]]
        /\ byteCount' = [r \in Queue |-> byteCount'[r]]
        /\ accepted' = [r \in Queue |-> accepted'[r]]
    <3> HIDE DEF n, blocks
    <3> QED
      BY <1>1, <1>7, Published
  <2>2. /\ fds' = [r \in Queue |-> fds'[r]]
        /\ open' = open /\ held' \subseteq open
    BY <1>1, <1>2, <1>6, <1>7, TakenDescriptors
  <2> QED
    BY <1>1, <1>9, <1>10, <2>1, <2>2
       DEF Functional, OtherTypes, PoolType, MemoryType
<1> QED
  BY <1>12, <1>13, <1>14, <1>15, <1>16, OneQueueSteps DEF QueueInv

LEMMA EnqueueBytes ==
  ASSUME BytesInv, NEW q \in Queue, NEW n \in 1..ByteBudget,
         NEW blocks \in Leases(q, n), NEW d \in DescriptorLists,
         Enqueue(q, n, blocks, d)
  PROVE  BytesInv'
<1> DEFINE s == chain[q] \o blocks
           first == accepted[q] + 1
           last == accepted[q] + n
<1>1. OtherTypes /\ Functional /\ BlocksOwnedOnce /\ QueueInv(q)
  BY InvParts
<1>2. QueueType(q) /\ Framed(q) /\ Filled(q) /\ Carried(q)
  BY <1>1 DEF QueueInv
<1>3. Fits(q, n) /\ Acquire(blocks) /\ TakeDescriptors(q, d) /\ Publish(q, n, blocks)
      /\ Store(q, s, End(q), first, last)
  BY DEF Enqueue
<1>4. ~Reserved(q) /\ n =< ByteBudget - byteCount[q]
  BY <1>3 DEF Fits
<1>5. reservation[q] = NoReservation /\ reservation[q].written = 0
      /\ Owned(q) = chain[q]
  BY <1>2, <1>4, Unreserved
<1>6. /\ n \in Nat /\ n > 0 /\ chain[q] \in Seq(Block)
      /\ byteCount[q] \in Nat /\ headOffset[q] \in Nat
      /\ accepted[q] \in Nat /\ delivered[q] \in Nat
  BY <1>2 DEF QueueType
<1>7. blocks \in Seq(Block) /\ Len(blocks) = BlocksNeeded(q, n)
  BY <1>2, <1>6, LeaseType
<1>8. d \in Seq(Fd)
  BY DEF DescriptorLists, SeqOf
<1>9. UNCHANGED <<active, reservation, delivered>> /\ headOffset' = headOffset
  <2>1. headOffset' = [headOffset EXCEPT ![q] = IF chain[q] = <<>> THEN 0 ELSE headOffset[q]]
    BY DEF Enqueue
  <2>2. chain[q] = <<>> => headOffset[q] = 0
    BY <1>2 DEF Framed
  <2>3. headOffset = [r \in Queue |-> headOffset[r]]
    BY <1>1 DEF Functional
  <2>4. headOffset' = headOffset
    BY <2>1, <2>2, <2>3
  <2> QED
    BY <2>4 DEF Enqueue
<1> HIDE DEF last
<1>10. Extends(q, n, blocks)
  BY <1>1, <1>3, <1>5, <1>9, Published DEF Extends
<1>11. /\ QueueType(q)' /\ Framed(q)' /\ Carried(q)'
       /\ Owned(q)' = s
  BY <1>1, <1>3, <1>4, <1>6, <1>7, <1>8, <1>10, ExtendedQueue
<1>12. \A r \in Queue : r # q => SameQueue(r)
  <2>1. \A r \in Queue : r # q => fds'[r] = fds[r]
    BY <1>1, <1>2, <1>3, <1>8, TakenDescriptors
  <2>2. \A r \in Queue : r # q =>
          /\ chain'[r] = chain[r] /\ tailUsed'[r] = tailUsed[r]
          /\ byteCount'[r] = byteCount[r] /\ accepted'[r] = accepted[r]
    BY <1>1, <1>3, Published
  <2> QED
    BY <1>9, <2>1, <2>2 DEF SameQueue
<1>13. /\ BlocksOwnedOnce' /\ PoolType' /\ IsInjective(s)
       /\ \A r \in Queue : r # q => ToSet(Owned(r)) \cap ToSet(s) = {}
  <2>1. \A r \in Queue : r # q => Owned(r)' = Owned(r)
    BY <1>12, SameOwned
  <2>2. Owned(q)' = Owned(q) \o blocks /\ Owned(q) \in Seq(Block)
    BY <1>5, <1>6, <1>11
  <2>3. /\ BlocksOwnedOnce' /\ PoolType'
        /\ IsInjective(Owned(q) \o blocks)
        /\ \A r \in Queue : r # q => ToSet(Owned(r)) \cap ToSet(Owned(q) \o blocks) = {}
    BY <1>1, <1>3, <1>7, <2>1, <2>2, AcquireOwns DEF OtherTypes
  <2> QED
    BY <1>5, <2>3
<1>14. /\ End(q) \in Nat /\ s \in Seq(Block) /\ End(q) + n =< Room(s)
       /\ End(q) =< Room(chain[q]) /\ Room(chain[q]) \in Nat
       /\ headOffset[q] + byteCount[q] = End(q)
       /\ accepted[q] = delivered[q] + byteCount[q]
  <2>1. tailUsed[q] \in 0..BlockSize
    BY <1>2 DEF QueueType
  <2>2. End(q) + n =< Room(s)
    BY <1>6, <1>7, <2>1, Grows
  <2>3. s \in Seq(Block) /\ Room(chain[q]) \in Nat
    BY <1>6, <1>7, RoomType
  <2> HIDE DEF s
  <2> QED
    BY <1>2, <2>2, <2>3, UsedFits
<1>15. \A i \in 1..byteCount[q] :
         /\ mem[At(s, headOffset[q] + i - 1)] = <<q, delivered[q] + i>>
         /\ headOffset[q] + i - 1 \in Nat /\ headOffset[q] + i - 1 < End(q)
  <2> SUFFICES ASSUME NEW i \in 1..byteCount[q]
               PROVE  /\ mem[At(s, headOffset[q] + i - 1)] = <<q, delivered[q] + i>>
                      /\ headOffset[q] + i - 1 \in Nat
                      /\ headOffset[q] + i - 1 < End(q)
    OBVIOUS
  <2> DEFINE k == headOffset[q] + i - 1
  <2>1. mem[At(chain[q], k)] = <<q, delivered[q] + i>>
    <3>1. byteCount[q] + reservation[q].written = byteCount[q]
      BY <1>5, <1>6
    <3> QED
      BY <1>2, <1>5, <3>1 DEF Filled
  <2>2. k \in Nat /\ k < End(q) /\ k < Room(chain[q])
    <3>1. /\ End(q) \in Nat /\ End(q) =< Room(chain[q]) /\ Room(chain[q]) \in Nat
          /\ headOffset[q] + byteCount[q] = End(q)
          /\ headOffset[q] \in Nat /\ byteCount[q] \in Nat
      BY <1>6, <1>14
    <3> QED
      BY <3>1
  <2> HIDE DEF k
  <2>3. At(s, k) = At(chain[q], k)
    BY <1>6, <1>7, <2>2, AtFirst
  <2> QED
    BY <2>1, <2>2, <2>3 DEF k
<1> HIDE DEF s
<1>16. first \in Nat /\ last = first + n - 1
  BY <1>6 DEF last
<1>17. MemoryType
  BY <1>1 DEF OtherTypes
<1> HIDE DEF first
<1>18. /\ MemoryType'
       /\ \A c \in Cell : c[1] \notin ToSet(s) => mem'[c] = mem[c]
       /\ \A k \in Nat : k < End(q) => mem'[At(s, k)] = mem[At(s, k)]
       /\ \A i \in 1..n : mem'[At(s, End(q) + i - 1)] = <<q, first + i - 1>>
  <2> DEFINE from == End(q)
  <2>1. from \in Nat /\ from + n =< Room(s) /\ Store(q, s, from, first, last)
    BY <1>3, <1>14
  <2> HIDE DEF from
  <2>2. /\ MemoryType'
        /\ \A c \in Cell : c[1] \notin ToSet(s) => mem'[c] = mem[c]
        /\ \A k \in Nat : k < from => mem'[At(s, k)] = mem[At(s, k)]
        /\ \A i \in 1..n : mem'[At(s, from + i - 1)] = <<q, first + i - 1>>
    <3>1. s \in Seq(Block) /\ IsInjective(s) /\ n \in Nat
      BY <1>6, <1>13, <1>14
    <3> QED
      BY <1>16, <1>17, <2>1, <3>1, StoreWrites
  <2> QED
    BY <2>2 DEF from
<1>19. \A r \in Queue : r # q => SameCells(r)
  BY <1>13, <1>18 DEF SameCells
<1>20. Filled(q)'
  <2>1. byteCount'[q] + reservation'[q].written = byteCount[q] + n
    <3>1. byteCount'[q] = byteCount[q] + n /\ reservation'[q].written = 0
      BY <1>5, <1>9, <1>10 DEF Extends
    <3> QED
      BY <1>6, <3>1
  <2> SUFFICES ASSUME NEW i \in 1..(byteCount[q] + n)
               PROVE  mem'[At(s, headOffset[q] + i - 1)] = <<q, delivered[q] + i>>
    BY <1>9, <1>11, <2>1 DEF Filled
  <2>2. CASE i \in 1..byteCount[q]
    BY <1>15, <1>18, <2>2
  <2>3. CASE i > byteCount[q]
    <3> DEFINE j == i - byteCount[q]
    <3>1. j \in 1..n /\ i \in Nat
      BY <1>6, <2>3
    <3>2. End(q) + j - 1 = headOffset[q] + i - 1
      <4>1. headOffset[q] + byteCount[q] = End(q)
        BY <1>14
      <4> QED
        BY <1>6, <3>1, <4>1
    <3>3. first + j - 1 = delivered[q] + i
      <4>1. accepted[q] = delivered[q] + byteCount[q]
        BY <1>14
      <4>2. first = delivered[q] + byteCount[q] + 1
        BY <4>1 DEF first
      <4>3. byteCount[q] \in Nat /\ delivered[q] \in Nat /\ i \in Nat
        BY <1>6, <3>1
      <4> QED
        BY <4>2, <4>3
    <3> HIDE DEF j
    <3>4. mem'[At(s, End(q) + j - 1)] = <<q, first + j - 1>>
      BY <1>18, <3>1
    <3> QED
      BY <3>2, <3>3, <3>4
  <2> QED
    BY <1>6, <2>2, <2>3
<1>21. Functional' /\ OtherTypes'
  <2>1. /\ chain' = [r \in Queue |-> chain'[r]]
        /\ tailUsed' = [r \in Queue |-> tailUsed'[r]]
        /\ byteCount' = [r \in Queue |-> byteCount'[r]]
        /\ accepted' = [r \in Queue |-> accepted'[r]]
    BY <1>1, <1>3, Published
  <2>2. /\ fds' = [r \in Queue |-> fds'[r]]
        /\ open' = open /\ held' \subseteq open
    BY <1>1, <1>2, <1>3, <1>8, TakenDescriptors
  <2> QED
    BY <1>1, <1>9, <1>13, <1>18, <2>1, <2>2 DEF Functional, OtherTypes
<1> QED
  BY <1>11, <1>12, <1>13, <1>19, <1>20, <1>21, OneQueueSteps DEF QueueInv

-----------------------------------------------------------------------------
(* Sends. *)

\* A snapshot covers queued bytes only, and some.
LEMMA SnapshotFits ==
  ASSUME NEW q \in Queue, QueueType(q), Framed(q), chain[q] # <<>>
  PROVE  /\ SnapshotEnd(q) \in Nat
         /\ headOffset[q] < SnapshotEnd(q) /\ SnapshotEnd(q) =< End(q)
<1>1. /\ chain[q] \in Seq(Block) /\ tailUsed[q] \in 0..BlockSize
      /\ headOffset[q] \in 0..(BlockSize - 1)
      /\ BlockSize \in Nat /\ BlockSize > 0
  BY SizeIsPositive DEF QueueType
<1>2. End(q) \in Nat /\ headOffset[q] < End(q)
  BY UsedFits DEF Framed
<1>3. CASE Len(chain[q]) > 2
  <2> DEFINE c == Len(chain[q]) - 3
  <2>1. c \in Nat
    BY <1>1, <1>3
  <2>2. End(q) = (Len(chain[q]) - 1) * BlockSize + tailUsed[q]
    BY DEF End
  <2>3. Len(chain[q]) - 1 = 2 + c
    BY <1>1
  <2> HIDE DEF c
  <2>4. (2 + c) * BlockSize = 2 * BlockSize + c * BlockSize /\ c * BlockSize \in Nat
    BY <1>1, <2>1
  <2>5. 2 * BlockSize =< End(q)
    BY <1>1, <2>2, <2>3, <2>4
  <2>6. SnapshotEnd(q) = 2 * BlockSize
    BY <1>3 DEF SnapshotEnd
  <2> QED
    BY <1>1, <2>5, <2>6
<1>4. CASE ~(Len(chain[q]) > 2)
  BY <1>2, <1>4 DEF SnapshotEnd
<1> QED
  BY <1>3, <1>4

LEMMA PrepareSendBytes ==
  ASSUME BytesInv, NEW q \in Queue, PrepareSend(q)
  PROVE  BytesInv'
<1> DEFINE k == SnapshotEnd(q) - headOffset[q]
           iov == [i \in 1..k |-> At(chain[q], headOffset[q] + i - 1)]
<1>1. OtherTypes /\ Functional /\ BlocksOwnedOnce /\ QueueInv(q)
  BY InvParts
<1>2. QueueType(q) /\ Framed(q) /\ Filled(q) /\ Carried(q)
  BY <1>1 DEF QueueInv
<1>3. /\ headOffset[q] \in Nat /\ byteCount[q] \in Nat /\ chain[q] \in Seq(Block)
      /\ fds[q] \in Seq(Entry)
  BY <1>2, SizeAssumption DEF QueueType
<1>4. UNCHANGED <<chain, headOffset, tailUsed, byteCount, accepted, reservation,
                  nodes, free, mem, fds, open, held, delivered>>
  BY DEF PrepareSend, chainVars, poolVars, fdVars
<1>5. /\ active' = [r \in Queue |-> active'[r]]
      /\ \A r \in Queue : r # q => active'[r] = active[r]
      /\ active'[q] = [iov |-> iov, control |-> Rights(q)]
  BY <1>1 DEF PrepareSend, Functional
<1>6. k \in Nat /\ k =< byteCount[q]
  <2>1. /\ SnapshotEnd(q) \in Nat /\ headOffset[q] < SnapshotEnd(q)
        /\ SnapshotEnd(q) =< End(q)
    BY <1>2, SnapshotFits DEF PrepareSend
  <2>2. headOffset[q] + byteCount[q] = End(q) /\ End(q) \in Nat
    BY <1>2, UsedFits
  <2> QED
    BY <1>3, <2>1, <2>2
<1>7. \A i \in 1..k : At(chain[q], headOffset[q] + i - 1) \in Cell
  <2> SUFFICES ASSUME NEW i \in 1..k
               PROVE  At(chain[q], headOffset[q] + i - 1) \in Cell
    OBVIOUS
  <2> DEFINE o == headOffset[q] + i - 1
  <2>1. /\ headOffset[q] + byteCount[q] = End(q) /\ End(q) \in Nat
        /\ End(q) =< Room(chain[q]) /\ Room(chain[q]) \in Nat
    BY <1>2, <1>3, UsedFits, RoomType
  <2> HIDE DEF k
  <2>2. o \in Nat /\ o < Room(chain[q])
    BY <1>3, <1>6, <2>1
  <2> HIDE DEF o
  <2>3. At(chain[q], o) \in Cell
    BY <1>3, <2>2, InRoom
  <2> QED
    BY <2>3 DEF o
<1> HIDE DEF k
<1>8. iov \in Seq(Cell) /\ Len(iov) = k
      /\ \A i \in 1..k : iov[i] = At(chain[q], headOffset[q] + i - 1)
  BY <1>6, <1>7
<1> HIDE DEF iov
<1>9. /\ Rights(q) \in Seq(Fd) /\ Len(Rights(q)) = Len(fds[q])
      /\ \A i \in 1..Len(fds[q]) : Rights(q)[i] = fds[q][i].fd
  BY <1>3, RightsType DEF Rights
<1>10. active'[q].iov = iov /\ active'[q].control = Rights(q)
  BY <1>5
<1>11. QueueType(q)'
  BY <1>2, <1>4, <1>5, <1>8, <1>9 DEF QueueType, Flight
<1>12. Framed(q)'
  BY <1>2, <1>4 DEF Framed, End, Reserved, BlocksNeeded, Beyond
<1>13. Filled(q)'
  BY <1>2, <1>4 DEF Filled, Owned
<1>14. Carried(q)'
  <2>1. /\ Len(active'[q].iov) = k /\ Len(active'[q].control) = Len(fds[q])
        /\ \A i \in 1..k : active'[q].iov[i] = At(chain[q], headOffset[q] + i - 1)
        /\ \A i \in 1..Len(fds[q]) : active'[q].control[i] = fds[q][i].fd
    BY <1>8, <1>9, <1>10
  <2>2. Len(fds[q]) \in Nat /\ \A i \in 1..Len(fds[q]) : ~(i > Len(fds[q]))
    BY <1>3
  <2>3. \A i \in 1..Len(fds[q]) : fds[q][i].first > delivered[q]
    BY <1>2 DEF Carried
  <2>4. Len(fds[q]) =< Len(fds[q])
    BY <2>2
  <2> QED
    BY <1>4, <1>6, <2>1, <2>2, <2>3, <2>4 DEF Carried
<1>15. \A r \in Queue : r # q => SameQueue(r) /\ SameCells(r)
  BY <1>4, <1>5 DEF SameQueue, SameCells
<1>16. Functional' /\ OtherTypes'
  BY <1>1, <1>4, <1>5 DEF Functional, OtherTypes, PoolType, MemoryType
<1>17. BlocksOwnedOnce'
  BY <1>1, <1>4 DEF BlocksOwnedOnce, Owned
<1> QED
  BY <1>11, <1>12, <1>13, <1>14, <1>15, <1>16, <1>17, OneQueueSteps DEF QueueInv

LEMMA FailedBytes ==
  ASSUME BytesInv, NEW q \in Queue, Failed(q)
  PROVE  BytesInv'
<1>1. OtherTypes /\ Functional /\ BlocksOwnedOnce /\ QueueInv(q)
  BY InvParts
<1>2. QueueType(q) /\ Framed(q) /\ Filled(q) /\ Carried(q)
  BY <1>1 DEF QueueInv
<1>3. UNCHANGED <<chain, headOffset, tailUsed, byteCount, accepted, reservation,
                  nodes, free, mem, fds, open, held, delivered>>
  BY DEF Failed, chainVars, poolVars, fdVars
<1>4. /\ active' = [r \in Queue |-> active'[r]]
      /\ \A r \in Queue : r # q => active'[r] = active[r]
      /\ active'[q] = NoFlight
  BY <1>1 DEF Failed, Functional
<1>5. /\ active'[q].iov = <<>> /\ active'[q].control = <<>>
      /\ active'[q] \in Flight
  BY <1>4 DEF NoFlight, Flight
<1>6. QueueType(q)'
  BY <1>2, <1>3, <1>5 DEF QueueType
<1>7. Framed(q)'
  BY <1>2, <1>3 DEF Framed, End, Reserved, BlocksNeeded, Beyond
<1>8. Filled(q)'
  BY <1>2, <1>3 DEF Filled, Owned
<1>9. Carried(q)'
  <2>1. byteCount[q] \in Nat /\ Len(fds[q]) \in Nat /\ delivered[q] \in Nat
    BY <1>2, SizeAssumption DEF QueueType
  <2>2. /\ Len(active'[q].iov) = 0 /\ Len(active'[q].control) = 0
        /\ 0 =< byteCount[q] /\ 0 =< Len(fds[q])
        /\ 1..0 = {} /\ delivered[q] + 0 = delivered[q]
    BY <1>5, <2>1
  <2>3. \A i \in 1..Len(fds[q]) : fds[q][i].first > delivered[q]
    BY <1>2 DEF Carried
  <2> QED
    BY <1>3, <2>2, <2>3 DEF Carried
<1>10. \A r \in Queue : r # q => SameQueue(r) /\ SameCells(r)
  BY <1>3, <1>4 DEF SameQueue, SameCells
<1>11. Functional' /\ OtherTypes'
  BY <1>1, <1>3, <1>4 DEF Functional, OtherTypes, PoolType, MemoryType
<1>12. BlocksOwnedOnce'
  BY <1>1, <1>3 DEF BlocksOwnedOnce, Owned
<1> QED
  BY <1>6, <1>7, <1>8, <1>9, <1>10, <1>11, <1>12, OneQueueSteps DEF QueueInv

\* The head of a queue from which n bytes left, and the blocks that left with
\* them.
HeadAfter(q, n) == headOffset[q] + n
GoneAfter(q, n) == IF HeadAfter(q, n) = End(q) THEN Len(chain[q])
                   ELSE HeadAfter(q, n) \div BlockSize
RestAfter(q, n) == SubSeq(chain[q], GoneAfter(q, n) + 1, Len(chain[q]))

\* Where the head is after that, as a position in the old chain.
LEMMA HeadMoves ==
  ASSUME NEW q \in Queue, QueueType(q), Framed(q),
         NEW n \in Nat, n > 0, n =< byteCount[q], HeadAfter(q, n) # End(q)
  PROVE  LET head == HeadAfter(q, n)
             gone == head \div BlockSize
         IN /\ gone \in Nat /\ gone < Len(chain[q])
            /\ head % BlockSize \in 0..(BlockSize - 1)
            /\ head = (head % BlockSize) + BlockSize * gone
            /\ head < End(q)
<1> DEFINE head == HeadAfter(q, n)
           gone == head \div BlockSize
           r == head % BlockSize
<1>1. /\ headOffset[q] \in Nat /\ byteCount[q] \in Nat /\ End(q) \in Nat
      /\ chain[q] \in Seq(Block)
      /\ headOffset[q] + byteCount[q] = End(q)
      /\ End(q) =< Room(chain[q])
  BY UsedFits, SizeAssumption DEF QueueType
<1>2. Room(chain[q]) \in Nat
  BY <1>1, RoomType
<1>3. head \in Nat /\ head < End(q) /\ head < Room(chain[q])
  BY <1>1, <1>2 DEF HeadAfter
<1> HIDE DEF head
<1>4. gone \in Nat /\ r \in 0..(BlockSize - 1) /\ head = BlockSize * gone + r
  BY <1>3, Positions
<1>5. 1 + gone \in DOMAIN chain[q]
  BY <1>1, <1>3, InRoom
<1>6. gone < Len(chain[q])
  BY <1>1, <1>4, <1>5
<1>7. head = r + BlockSize * gone
  <2>1. BlockSize * gone \in Nat
    BY <1>4, SizeIsPositive
  <2> HIDE DEF gone, r
  <2> QED
    BY <1>4, <2>1
<1> QED
  BY <1>3, <1>4, <1>6, <1>7 DEF head

\* What a completed send leaves of queue q, if c descriptors went with n bytes.
Shortens(q, n, c) ==
  /\ chain'[q] = RestAfter(q, n)
  /\ headOffset'[q] = IF HeadAfter(q, n) = End(q) THEN 0
                      ELSE HeadAfter(q, n) % BlockSize
  /\ tailUsed'[q] = IF HeadAfter(q, n) = End(q) THEN 0 ELSE tailUsed[q]
  /\ byteCount'[q] = byteCount[q] - n
  /\ delivered'[q] = delivered[q] + n
  /\ fds'[q] = SubSeq(fds[q], c + 1, Len(fds[q]))
  /\ active'[q] = NoFlight
  /\ accepted'[q] = accepted[q] /\ reservation'[q] = reservation[q]

\* The frame of the rest.
LEMMA ShortenedFrame ==
  ASSUME NEW q \in Queue, QueueType(q), Framed(q), ~Reserved(q),
         NEW n \in Nat, n > 0, n =< byteCount[q], NEW c, Shortens(q, n, c)
  PROVE  /\ GoneAfter(q, n) \in 0..Len(chain[q])
         /\ chain'[q] \in Seq(Block)
         /\ headOffset'[q] \in 0..(BlockSize - 1)
         /\ tailUsed'[q] \in 0..BlockSize
         /\ Framed(q)'
<1>1. /\ headOffset[q] \in Nat /\ byteCount[q] \in Nat /\ End(q) \in Nat
      /\ accepted[q] \in Nat /\ delivered[q] \in Nat
      /\ headOffset[q] + byteCount[q] = End(q)
      /\ accepted[q] = delivered[q] + byteCount[q]
  BY UsedFits, SizeAssumption DEF QueueType
<1>2. /\ chain[q] \in Seq(Block) /\ tailUsed[q] \in 0..BlockSize
      /\ BlockSize \in Nat /\ BlockSize > 0
  BY SizeIsPositive DEF QueueType
<1>3. /\ reservation'[q] = NoReservation /\ ~Reserved(q)'
      /\ byteCount'[q] = byteCount[q] - n
      /\ accepted'[q] - delivered'[q] = byteCount[q] - n
  <2>1. reservation'[q] = NoReservation /\ ~Reserved(q)'
    BY DEF Shortens, Framed, Reserved, NoReservation
  <2>2. byteCount'[q] = byteCount[q] - n /\ accepted'[q] = accepted[q]
        /\ delivered'[q] = delivered[q] + n
    BY DEF Shortens
  <2> QED
    BY <1>1, <2>1, <2>2
<1>4. CASE HeadAfter(q, n) = End(q)
  <2>1. GoneAfter(q, n) = Len(chain[q]) /\ GoneAfter(q, n) \in 0..Len(chain[q])
    BY <1>2, <1>4 DEF GoneAfter
  <2>2. RestAfter(q, n) = <<>>
    BY <1>2, <2>1 DEF RestAfter
  <2>3. chain'[q] = <<>> /\ headOffset'[q] = 0 /\ tailUsed'[q] = 0
    BY <1>4, <2>2 DEF Shortens
  <2>4. byteCount[q] - n = 0
    BY <1>1, <1>4 DEF HeadAfter
  <2>5. End(q)' = 0
    BY <2>3 DEF End
  <2>6. byteCount'[q] = End(q)' - headOffset'[q]
        /\ byteCount'[q] = accepted'[q] - delivered'[q]
    BY <1>3, <2>3, <2>4, <2>5
  <2>7. Framed(q)'
    BY <1>3, <2>3, <2>6, Zenon DEF Framed
  <2> QED
    BY <1>2, <2>1, <2>3, <2>7
<1>5. CASE HeadAfter(q, n) # End(q)
  <2> DEFINE head == HeadAfter(q, n)
             gone == head \div BlockSize
             r == head % BlockSize
             l == Len(chain[q])
             t == tailUsed[q]
  <2>1. /\ gone \in Nat /\ gone < l /\ r \in 0..(BlockSize - 1)
        /\ head = r + BlockSize * gone /\ head < End(q)
    BY <1>5, HeadMoves
  <2>2. GoneAfter(q, n) = gone
    BY <1>5 DEF GoneAfter
  <2>3. l \in Nat /\ gone \in Nat /\ gone < l /\ l > 0
    <3>1. l \in Nat
      BY <1>2
    <3>2. gone \in Nat /\ gone < l
      BY <2>1, Zenon
    <3> HIDE DEF gone, l
    <3> QED
      BY <3>1, <3>2
  <2> HIDE DEF gone
  <2>4. RestAfter(q, n) \in Seq(Block) /\ Len(RestAfter(q, n)) = l - gone
    BY <1>2, <2>2, <2>3 DEF RestAfter
  <2>5. /\ chain'[q] = RestAfter(q, n) /\ headOffset'[q] = r
        /\ tailUsed'[q] = t
    BY <1>5 DEF Shortens
  <2>6. chain[q] # <<>> /\ t > 0
    <3>1. chain[q] # <<>>
      BY <1>2, <2>3
    <3> QED
      BY <3>1 DEF Framed
  <2>7. chain'[q] # <<>>
    BY <2>4, <2>5, <2>3
  <2>8. End(q) = (l - 1) * BlockSize + t
    BY <2>6 DEF End
  <2>9. End(q)' = (Len(chain'[q]) - 1) * BlockSize + tailUsed'[q]
    BY <2>7 DEF End
  <2>10. Len(chain'[q]) = l - gone /\ l \in Nat /\ t \in Nat
    BY <1>2, <2>4, <2>5
  <2>11. End(q)' = (l - gone - 1) * BlockSize + t
    BY <2>5, <2>9, <2>10
  <2> HIDE DEF gone, r, l, t, head
  <2>12. (l - gone - 1) * BlockSize = (l - 1) * BlockSize - BlockSize * gone
    BY <1>2, <2>1, <2>10
  <2>13. BlockSize * gone \in Nat /\ (l - 1) * BlockSize \in Int
    BY <1>2, <2>1, <2>10
  <2>14. End(q)' = End(q) - BlockSize * gone
    <3> DEFINE a == (l - 1) * BlockSize
               b == BlockSize * gone
    <3>1. a \in Int /\ b \in Nat /\ End(q)' = (a - b) + t /\ End(q) = a + t
      BY <2>8, <2>11, <2>12, <2>13
    <3> HIDE DEF a, b
    <3>2. End(q)' = End(q) - b
      BY <2>10, <3>1
    <3> QED
      BY <3>2 DEF b
  <2>15. r < End(q)' /\ byteCount[q] - n = End(q)' - r
    <3> DEFINE b == BlockSize * gone
    <3>1. b \in Nat /\ head = r + b /\ head < End(q) /\ End(q)' = End(q) - b
          /\ r \in Nat
      BY <2>1, <2>13, <2>14
    <3>2. head = headOffset[q] + n
      BY DEF head, HeadAfter
    <3> HIDE DEF b
    <3> QED
      BY <1>1, <3>1, <3>2
  <2>16. /\ headOffset'[q] < End(q)' /\ tailUsed'[q] > 0
         /\ byteCount'[q] = End(q)' - headOffset'[q]
         /\ byteCount'[q] = accepted'[q] - delivered'[q]
    BY <1>3, <2>5, <2>6, <2>15
  <2>17. Framed(q)'
    BY <1>3, <2>7, <2>16, Zenon DEF Framed
  <2>18. GoneAfter(q, n) \in 0..l
    BY <2>1, <2>2, <2>10
  <2>19. chain'[q] \in Seq(Block) /\ headOffset'[q] \in 0..(BlockSize - 1)
         /\ tailUsed'[q] \in 0..BlockSize
    BY <1>2, <2>1, <2>4, <2>5 DEF t
  <2> QED
    BY <2>17, <2>18, <2>19 DEF l
<1> QED
  BY <1>4, <1>5

\* The blocks that left queue q, if n bytes did.
Left(q, n) == {chain[q][i] : i \in 1..GoneAfter(q, n)}

\* The cells behind the new head hold what they held.
LEMMA ShortenedCells ==
  ASSUME NEW q \in Queue, QueueType(q), Framed(q), Filled(q), ~Reserved(q),
         IsInjective(chain[q]), NEW n \in Nat, n > 0, n =< byteCount[q],
         NEW c, Shortens(q, n, c),
         \A cell \in Cell : cell[1] \notin Left(q, n) => mem'[cell] = mem[cell]
  PROVE  Filled(q)'
<1> DEFINE gone == GoneAfter(q, n)
           rest == RestAfter(q, n)
<1>1. /\ headOffset[q] \in Nat /\ byteCount[q] \in Nat /\ End(q) \in Nat
      /\ chain[q] \in Seq(Block) /\ delivered[q] \in Nat
      /\ headOffset[q] + byteCount[q] = End(q) /\ End(q) =< Room(chain[q])
      /\ Room(chain[q]) \in Nat
  BY UsedFits, RoomType, SizeAssumption DEF QueueType
<1>2. /\ Owned(q) = chain[q] /\ reservation[q].written = 0
      /\ reservation[q] = NoReservation
  BY Unreserved
<1>3. gone \in 0..Len(chain[q]) /\ chain'[q] \in Seq(Block)
  BY ShortenedFrame
<1>4. /\ chain'[q] = rest /\ byteCount'[q] = byteCount[q] - n
      /\ delivered'[q] = delivered[q] + n /\ reservation'[q] = NoReservation
  BY <1>2 DEF Shortens
<1>5. Owned(q)' = rest /\ reservation'[q].written = 0
  BY <1>3, <1>4 DEF Owned, NoReservation
<1>6. byteCount'[q] + reservation'[q].written = byteCount[q] - n
  BY <1>1, <1>4, <1>5
<1>7. /\ rest \in Seq(Block) /\ ToSet(rest) = ToSet(chain[q]) \ Left(q, n)
  <2> HIDE DEF gone
  <2>1. LET r == SubSeq(chain[q], gone + 1, Len(chain[q]))
        IN r \in Seq(Block) /\ ToSet(r) = ToSet(chain[q]) \ {chain[q][i] : i \in 1..gone}
    BY <1>1, <1>3, RestOf
  <2> QED
    BY <2>1 DEF RestAfter, Left, gone
<1> SUFFICES ASSUME NEW i \in 1..(byteCount[q] - n)
             PROVE  mem'[At(rest, headOffset'[q] + i - 1)]
                      = <<q, delivered'[q] + i>>
  BY <1>5, <1>6, Zenon DEF Filled
<1>8. HeadAfter(q, n) # End(q)
  BY <1>1 DEF HeadAfter
<1> DEFINE head == HeadAfter(q, n)
           r == head % BlockSize
           g == head \div BlockSize
           k == r + i - 1
           old == headOffset[q] + (n + i) - 1
<1>9. /\ g \in Nat /\ g < Len(chain[q]) /\ r \in 0..(BlockSize - 1)
      /\ head = r + BlockSize * g /\ head < End(q) /\ head = headOffset[q] + n
  BY <1>8, HeadMoves DEF HeadAfter
<1>10. gone = g /\ headOffset'[q] = r
  BY <1>8 DEF GoneAfter, Shortens
<1>11. BlockSize * g \in Nat /\ r \in Nat /\ i \in Nat /\ i >= 1
       /\ i =< byteCount[q] - n
  <2>1. byteCount[q] - n \in Nat
    BY <1>1
  <2>2. r \in Nat /\ g \in Nat
    BY <1>9, SizeIsPositive
  <2> HIDE DEF r, g
  <2>3. BlockSize * g \in Nat
    BY <2>2, SizeIsPositive
  <2>4. i \in Nat /\ i >= 1 /\ i =< byteCount[q] - n
    BY <2>1
  <2> QED
    BY <2>2, <2>3, <2>4
<1> HIDE DEF g, r, head, gone
<1>12. k \in Nat /\ old \in Nat /\ k + BlockSize * g = old /\ old < End(q)
  <2> DEFINE b == BlockSize * g
  <2>1. b \in Nat /\ head = r + b /\ head = headOffset[q] + n
    BY <1>9, <1>11
  <2>2. r \in Nat /\ i \in Nat /\ i >= 1 /\ i =< byteCount[q] - n
    BY <1>11
  <2>3. /\ headOffset[q] \in Nat /\ byteCount[q] \in Nat /\ End(q) \in Nat
        /\ headOffset[q] + byteCount[q] = End(q)
    BY <1>1
  <2> HIDE DEF b
  <2>4. k \in Nat /\ old \in Nat /\ k + b = old /\ old < End(q)
    BY <2>1, <2>2, <2>3
  <2> QED
    BY <2>4 DEF b
<1>13. n + i \in 1..(byteCount[q] + reservation[q].written)
  BY <1>1, <1>2, <1>11
<1>14. mem[At(chain[q], old)] = <<q, delivered[q] + (n + i)>>
  BY <1>2, <1>13 DEF Filled
<1> HIDE DEF old, k
<1>15. At(rest, k) = At(chain[q], old)
  <2>1. k + BlockSize * g < Room(chain[q])
    BY <1>1, <1>12
  <2>2. g \in 0..Len(chain[q])
    BY <1>3, <1>10
  <2>3. At(SubSeq(chain[q], g + 1, Len(chain[q])), k) = At(chain[q], k + BlockSize * g)
    BY <1>1, <1>12, <2>1, <2>2, AtRest
  <2> QED
    BY <1>10, <1>12, <2>3 DEF RestAfter, gone
<1>16. At(chain[q], old) \in Cell
  <2>1. old < Room(chain[q])
    BY <1>1, <1>12
  <2> QED
    BY <1>1, <1>12, <2>1, InRoom
<1>17. At(rest, k)[1] \in ToSet(rest)
  <2>1. Len(rest) = Len(chain[q]) - g
    BY SMTT(40), <1>1, <1>3, <1>10 DEF RestAfter, gone
  <2>2. Room(rest) = Room(chain[q]) - BlockSize * g
    <3> DEFINE l == Len(chain[q])
    <3>1. l \in Nat /\ g \in Nat /\ BlockSize \in Nat
      BY <1>1, <1>9, SizeIsPositive
    <3> HIDE DEF l
    <3>2. BlockSize * (l - g) = BlockSize * l - BlockSize * g
      BY <3>1
    <3> QED
      BY <2>1, <3>2 DEF Room, l
  <2>3. k < Room(rest)
    BY <1>1, <1>11, <1>12, <2>2
  <2> HIDE DEF rest
  <2> QED
    BY <1>7, <1>12, <2>3, InRoom
<1>18. mem'[At(rest, k)] = mem[At(chain[q], old)]
  BY <1>7, <1>15, <1>16, <1>17
<1>19. delivered[q] + (n + i) = delivered'[q] + i
  BY <1>1, <1>4, <1>11
<1> QED
  BY <1>10, <1>14, <1>18, <1>19 DEF k

\* The descriptors that are left belong to bytes that are left.
LEMMA ShortenedFds ==
  ASSUME NEW q \in Queue, QueueType(q), Carried(q),
         NEW n \in Nat, n =< Len(active[q].iov), n =< byteCount[q],
         Shortens(q, n, Len(active[q].control))
  PROVE  /\ Carried(q)'
         /\ fds'[q] \in Seq(Entry) /\ Len(fds'[q]) =< DescriptorBudget
         /\ Len(active[q].control) \in 0..Len(fds[q])
<1> DEFINE c == Len(active[q].control)
<1>1. /\ fds[q] \in Seq(Entry) /\ Len(fds[q]) \in Nat
      /\ Len(fds[q]) =< DescriptorBudget /\ DescriptorBudget \in Nat
      /\ c \in Nat /\ Len(active[q].iov) \in Nat /\ delivered[q] \in Nat
      /\ byteCount[q] \in Nat
  BY SMTT(40), SizeAssumption, BudgetAssumption DEF QueueType, Flight
<1>2. c =< Len(fds[q])
  BY DEF Carried
<1>3. /\ fds'[q] = SubSeq(fds[q], c + 1, Len(fds[q]))
      /\ delivered'[q] = delivered[q] + n /\ byteCount'[q] = byteCount[q] - n
      /\ active'[q].iov = <<>> /\ active'[q].control = <<>>
  BY DEF Shortens, NoFlight
<1> HIDE DEF c
<1>4. /\ fds'[q] \in Seq(Entry) /\ Len(fds'[q]) = Len(fds[q]) - c
      /\ \A i \in 1..(Len(fds[q]) - c) :
           fds'[q][i] = fds[q][i + c] /\ i + c \in 1..Len(fds[q]) /\ i + c > c
  <2>1. fds[q] \in Seq(Entry) /\ c \in 0..Len(fds[q])
    BY <1>1, <1>2
  <2>2. fds'[q] \in Seq(Entry) /\ Len(fds'[q]) = Len(fds[q]) - c
    BY <1>3, <2>1
  <2>3. \A i \in 1..(Len(fds[q]) - c) :
          fds'[q][i] = fds[q][i + c] /\ i + c \in 1..Len(fds[q])
    BY <1>3, <2>1
  <2>4. \A i \in 1..(Len(fds[q]) - c) : i + c > c
    BY <1>1
  <2> QED
    BY <2>2, <2>3, <2>4
<1>5. \A i \in 1..Len(fds[q]) : fds[q][i].first \in Nat
  <2> SUFFICES ASSUME NEW i \in 1..Len(fds[q]) PROVE fds[q][i].first \in Nat
    OBVIOUS
  <2>1. fds[q][i] \in Entry
    BY <1>1
  <2> QED
    BY <2>1 DEF Entry
<1>6. ASSUME NEW i \in 1..Len(fds'[q])
      PROVE  fds'[q][i].first > delivered'[q]
  <2>1. /\ fds'[q][i] = fds[q][i + c] /\ i + c \in 1..Len(fds[q]) /\ i + c > c
    BY <1>4
  <2>2. fds[q][i + c].first > delivered[q] + Len(active[q].iov)
    BY <2>1 DEF Carried, c
  <2>3. fds[q][i + c].first \in Nat
    BY <1>5, <2>1
  <2> DEFINE f == fds[q][i + c].first
             l == Len(active[q].iov)
  <2>4. f \in Nat /\ f > delivered[q] + l /\ l \in Nat /\ n =< l
    BY <1>1, <2>2, <2>3
  <2> HIDE DEF f, l
  <2>5. f > delivered[q] + n
    BY <1>1, <2>4
  <2> QED
    BY <1>3, <2>1, <2>5 DEF f
<1>7. Carried(q)'
  <2>1. /\ Len(active'[q].iov) = 0 /\ Len(active'[q].control) = 0 /\ 1..0 = {}
        /\ byteCount'[q] >= 0 /\ Len(fds'[q]) \in Nat
    BY <1>1, <1>3, <1>4
  <2>2. \A i \in 1..Len(fds'[q]) :
          fds'[q][i].first > delivered'[q] /\ fds'[q][i].first > delivered'[q] + 0
    <3>1. delivered'[q] + 0 = delivered'[q]
      BY <1>1, <1>3
    <3> QED
      BY <1>6, <3>1
  <2>3. 0 =< byteCount'[q] /\ 0 =< Len(fds'[q])
    BY <1>1, <1>3, <1>4, <2>1
  <2> QED
    BY <2>1, <2>2, <2>3 DEF Carried
<1> QED
  BY <1>1, <1>2, <1>4, <1>7 DEF c

\* Closing descriptors of q leaves the descriptors of the others.
LEMMA ClosedDescriptors ==
  ASSUME Functional, NEW q \in Queue, NEW n, CloseOldest(q, n)
  PROVE  /\ fds' = [r \in Queue |-> fds'[r]]
         /\ fds'[q] = SubSeq(fds[q], n + 1, Len(fds[q]))
         /\ \A r \in Queue : r # q => fds'[r] = fds[r]
  BY DEF CloseOldest, Functional

LEMMA CompleteBytes ==
  ASSUME BytesInv, FdInv, NEW q \in Queue, NEW n \in 1..ByteBudget, Complete(q, n)
  PROVE  BytesInv'
<1> DEFINE c == Len(active[q].control)
<1>1. OtherTypes /\ Functional /\ BlocksOwnedOnce /\ QueueInv(q)
  BY InvParts
<1>2. QueueType(q) /\ Framed(q) /\ Filled(q) /\ Carried(q) /\ ~Reserved(q)
  BY <1>1 DEF QueueInv, Complete
<1>3. /\ chain[q] \in Seq(Block) /\ byteCount[q] \in Nat
      /\ byteCount[q] =< ByteBudget /\ ByteBudget \in Nat
      /\ Len(active[q].iov) \in Nat
  BY <1>2, SizeAssumption DEF QueueType, Flight
<1>4. n \in Nat /\ n > 0 /\ n =< Len(active[q].iov) /\ n =< byteCount[q]
  <2>1. n \in 1..Len(active[q].iov)
    BY DEF Complete
  <2>2. Len(active[q].iov) =< byteCount[q]
    BY <1>2 DEF Carried
  <2> QED
    BY <1>3, <2>1, <2>2
<1>5. /\ Release(Left(q, n)) /\ CloseOldest(q, c)
      /\ chain' = [chain EXCEPT ![q] = RestAfter(q, n)]
      /\ headOffset' = [headOffset EXCEPT ![q] =
           IF HeadAfter(q, n) = End(q) THEN 0 ELSE HeadAfter(q, n) % BlockSize]
      /\ tailUsed' = [tailUsed EXCEPT ![q] =
           IF HeadAfter(q, n) = End(q) THEN 0 ELSE tailUsed[q]]
      /\ byteCount' = [byteCount EXCEPT ![q] = byteCount[q] - n]
      /\ delivered' = [delivered EXCEPT ![q] = delivered[q] + n]
      /\ active' = [active EXCEPT ![q] = NoFlight]
      /\ UNCHANGED <<accepted, reservation, held>>
  BY DEF Complete, Left, RestAfter, GoneAfter, HeadAfter
<1>6. /\ fds' = [r \in Queue |-> fds'[r]]
      /\ fds'[q] = SubSeq(fds[q], c + 1, Len(fds[q]))
      /\ \A r \in Queue : r # q => fds'[r] = fds[r]
  BY <1>1, <1>5, ClosedDescriptors
<1>7. Shortens(q, n, c)
  BY <1>1, <1>5, <1>6 DEF Shortens, Functional
<1>8. \A r \in Queue : r # q => SameQueue(r)
  BY <1>1, <1>5, <1>6 DEF SameQueue, Functional
<1>9. Functional'
  BY <1>1, <1>5, <1>6 DEF Functional
<1> HIDE DEF c
<1>10. /\ GoneAfter(q, n) \in 0..Len(chain[q]) /\ chain'[q] \in Seq(Block)
       /\ headOffset'[q] \in 0..(BlockSize - 1) /\ tailUsed'[q] \in 0..BlockSize
       /\ Framed(q)'
  BY <1>2, <1>4, <1>7, ShortenedFrame
<1>11. /\ Carried(q)'
       /\ fds'[q] \in Seq(Entry) /\ Len(fds'[q]) =< DescriptorBudget
  BY <1>2, <1>4, <1>7, ShortenedFds DEF c
<1>12. Owned(q) = chain[q] /\ IsInjective(chain[q]) /\ reservation[q] = NoReservation
  BY <1>1, <1>2, Unreserved DEF BlocksOwnedOnce
<1>13. /\ IsInjective(RestAfter(q, n))
       /\ ToSet(RestAfter(q, n)) = ToSet(chain[q]) \ Left(q, n)
       /\ Left(q, n) \subseteq ToSet(chain[q])
  <2> DEFINE gone == GoneAfter(q, n)
  <2>1. gone \in 0..Len(chain[q])
    BY <1>10
  <2> HIDE DEF gone
  <2>2. LET rest == SubSeq(chain[q], gone + 1, Len(chain[q]))
        IN /\ IsInjective(rest)
           /\ ToSet(rest) = ToSet(chain[q]) \ {chain[q][i] : i \in 1..gone}
           /\ {chain[q][i] : i \in 1..gone} \subseteq ToSet(chain[q])
    BY <1>3, <1>12, <2>1, RestOf
  <2> QED
    BY <2>2 DEF RestAfter, Left, gone
<1>14. Left(q, n) \subseteq Block
  BY <1>3, <1>13 DEF ToSet
<1>15. /\ MemoryType'
       /\ \A cell \in Cell : cell[1] \notin Left(q, n) => mem'[cell] = mem[cell]
  BY <1>1, <1>5, <1>14, ReleaseWrites DEF OtherTypes
<1>16. Filled(q)'
  BY <1>2, <1>4, <1>7, <1>12, <1>15, ShortenedCells
<1>17. QueueType(q)'
  <2>1. /\ byteCount'[q] = byteCount[q] - n /\ delivered'[q] = delivered[q] + n
        /\ active'[q] = NoFlight /\ accepted'[q] = accepted[q]
        /\ reservation'[q] = reservation[q]
    BY <1>7 DEF Shortens
  <2>2. byteCount'[q] \in 0..ByteBudget /\ delivered'[q] \in Nat
    BY <1>2, <1>3, <1>4, <2>1 DEF QueueType
  <2>3. NoFlight \in Flight
    BY DEF NoFlight, Flight
  <2>4. accepted'[q] \in Nat /\ reservation'[q] \in Reservation /\ active'[q] \in Flight
    BY <1>2, <2>1, <2>3 DEF QueueType
  <2> QED
    BY <1>10, <1>11, <2>2, <2>4 DEF QueueType
<1>18. \A r \in Queue : r # q => SameCells(r)
  <2>1. ASSUME NEW r \in Queue, r # q, NEW cell \in Cell, cell[1] \in ToSet(Owned(r))
        PROVE  mem'[cell] = mem[cell]
    <3>1. cell[1] \notin ToSet(Owned(q))
      BY <1>1, <2>1, OthersApart
    <3> QED
      BY <1>12, <1>13, <1>15, <3>1
  <2> QED
    BY <2>1 DEF SameCells
<1>19. BlocksOwnedOnce' /\ PoolType'
  <2>1. \A r \in Queue : r # q => Owned(r)' = Owned(r)
    BY <1>8, SameOwned
  <2>2. chain'[q] = RestAfter(q, n) /\ reservation'[q] = NoReservation
    BY <1>7, <1>12 DEF Shortens
  <2>3. Owned(q)' = chain'[q]
    BY <1>10, <2>2 DEF Owned, NoReservation
  <2>4. /\ IsInjective(Owned(q)') /\ ToSet(Owned(q)') = ToSet(Owned(q)) \ Left(q, n)
        /\ Left(q, n) \subseteq ToSet(Owned(q))
    BY <1>12, <1>13, <2>2, <2>3
  <2> QED
    BY <1>1, <1>5, <1>14, <2>1, <2>4, ReleaseOwns DEF OtherTypes
<1>20. open' \subseteq Fd /\ held' \subseteq open'
  BY CompleteInv DEF FdInv, DescriptorTypes
<1> QED
  BY <1>8, <1>9, <1>10, <1>11, <1>15, <1>16, <1>17, <1>18, <1>19, <1>20,
     OneQueueSteps DEF QueueInv, OtherTypes

LEMMA DeinitBytes ==
  ASSUME BytesInv, FdInv, NEW q \in Queue, Deinit(q)
  PROVE  BytesInv'
<1>1. OtherTypes /\ Functional /\ BlocksOwnedOnce /\ QueueInv(q)
  BY InvParts
<1>2. QueueType(q) /\ Framed(q) /\ ~Reserved(q) /\ active[q] = NoFlight
  BY <1>1 DEF QueueInv, Deinit, Sending
<1>3. /\ Release(ToSet(chain[q])) /\ CloseOldest(q, Len(fds[q]))
      /\ chain' = [chain EXCEPT ![q] = <<>>]
      /\ headOffset' = [headOffset EXCEPT ![q] = 0]
      /\ tailUsed' = [tailUsed EXCEPT ![q] = 0]
      /\ byteCount' = [byteCount EXCEPT ![q] = 0]
      /\ accepted' = [accepted EXCEPT ![q] = 0]
      /\ delivered' = [delivered EXCEPT ![q] = 0]
      /\ UNCHANGED <<active, reservation, held>>
  BY DEF Deinit
<1>4. /\ fds' = [r \in Queue |-> fds'[r]]
      /\ fds'[q] = SubSeq(fds[q], Len(fds[q]) + 1, Len(fds[q]))
      /\ \A r \in Queue : r # q => fds'[r] = fds[r]
  BY <1>1, <1>3, ClosedDescriptors
<1>5. Functional' /\ \A r \in Queue : r # q => SameQueue(r)
  BY <1>1, <1>3, <1>4 DEF SameQueue, Functional
<1>6. /\ reservation[q] = NoReservation /\ Owned(q) = chain[q]
      /\ chain[q] \in Seq(Block) /\ fds[q] \in Seq(Entry)
  BY <1>2, Unreserved DEF QueueType
<1>7. /\ chain'[q] = <<>> /\ headOffset'[q] = 0 /\ tailUsed'[q] = 0
      /\ byteCount'[q] = 0 /\ accepted'[q] = 0 /\ delivered'[q] = 0
      /\ active'[q] = NoFlight /\ reservation'[q] = NoReservation
  BY <1>1, <1>2, <1>3, <1>6 DEF Functional
<1>8. fds'[q] = <<>> /\ Owned(q)' = <<>> /\ End(q)' = 0
  BY <1>4, <1>6, <1>7 DEF Owned, NoReservation, End
<1>9. QueueType(q)'
  BY <1>7, <1>8, SizeAssumption, BudgetAssumption
     DEF QueueType, Flight, Reservation, NoFlight, NoReservation
<1>10. Framed(q)'
  <2>1. 0 = 0 - 0 /\ ~(NoReservation.count > 0)
    BY DEF NoReservation
  <2> QED
    BY <1>7, <1>8, <2>1 DEF Framed, Reserved
<1>11. Filled(q)'
  <2>1. 1..(byteCount'[q] + reservation'[q].written) = {}
    BY <1>7 DEF NoReservation
  <2> QED
    BY <2>1 DEF Filled
<1>12. Carried(q)'
  <2>1. /\ Len(active'[q].iov) = 0 /\ Len(active'[q].control) = 0
        /\ Len(fds'[q]) = 0 /\ 1..0 = {} /\ 0 =< 0
    BY <1>7, <1>8 DEF NoFlight
  <2> QED
    BY <1>7, <2>1 DEF Carried
<1>13. ToSet(chain[q]) \subseteq Block
  BY <1>6 DEF ToSet
<1>14. /\ MemoryType'
       /\ \A cell \in Cell : cell[1] \notin ToSet(chain[q]) => mem'[cell] = mem[cell]
  BY <1>1, <1>3, <1>13, ReleaseWrites DEF OtherTypes
<1>15. \A r \in Queue : r # q => SameCells(r)
  BY <1>1, <1>6, <1>14, OthersApart DEF SameCells
<1>16. BlocksOwnedOnce' /\ PoolType'
  <2>1. \A r \in Queue : r # q => Owned(r)' = Owned(r)
    BY <1>5, SameOwned
  <2>2. IsInjective(Owned(q)') /\ ToSet(Owned(q)') = ToSet(Owned(q)) \ ToSet(chain[q])
    BY <1>6, <1>8 DEF IsInjective, ToSet
  <2> QED
    BY <1>1, <1>3, <1>6, <1>13, <2>1, <2>2, ReleaseOwns DEF OtherTypes
<1>17. open' \subseteq Fd /\ held' \subseteq open'
  BY DeinitInv DEF FdInv, DescriptorTypes
<1> QED
  BY <1>5, <1>9, <1>10, <1>11, <1>12, <1>14, <1>15, <1>16, <1>17, OneQueueSteps
     DEF QueueInv, OtherTypes

-----------------------------------------------------------------------------
(* All steps. *)

\* What a step leaves alone.
LEMMA StutterBytes ==
  ASSUME BytesInv, UNCHANGED <<chainVars, active, reservation, poolVars, mem, fds,
                               delivered>>,
         open' \subseteq Fd, held' \subseteq open'
  PROVE  BytesInv'
<1>1. OtherTypes /\ Functional /\ BlocksOwnedOnce /\ \A q \in Queue : QueueInv(q)
  BY InvParts
<1>2. UNCHANGED <<chain, headOffset, tailUsed, byteCount, accepted, active,
                  reservation, nodes, free, mem, fds, delivered>>
  BY DEF chainVars, poolVars
<1>3. \A q \in Queue : QueueInv(q)'
  <2> SUFFICES ASSUME NEW q \in Queue PROVE QueueInv(q)'
    OBVIOUS
  <2>1. SameQueue(q) /\ SameCells(q)
    BY <1>2 DEF SameQueue, SameCells
  <2> QED
    BY <1>1, <2>1, QueueStays
<1>4. OtherTypes' /\ Functional' /\ BlocksOwnedOnce'
  <2>1. OtherTypes'
    BY <1>1, <1>2 DEF OtherTypes, PoolType, MemoryType
  <2>2. Functional'
    BY <1>1, <1>2 DEF Functional
  <2>3. BlocksOwnedOnce'
    BY <1>1, <1>2 DEF BlocksOwnedOnce, Owned
  <2> QED
    BY <2>1, <2>2, <2>3
<1>5. TypeOK'
  BY <1>3, <1>4, TypesOfAll DEF QueueInv
<1> QED
  BY <1>3, <1>4, <1>5 DEF BytesInv, QueueInv

LEMMA InitBytes == Init => BytesInv
<1> SUFFICES ASSUME Init PROVE BytesInv
  OBVIOUS
<1>1. /\ chain = [q \in Queue |-> <<>>] /\ headOffset = [q \in Queue |-> 0]
      /\ tailUsed = [q \in Queue |-> 0] /\ byteCount = [q \in Queue |-> 0]
      /\ fds = [q \in Queue |-> <<>>] /\ active = [q \in Queue |-> NoFlight]
      /\ reservation = [q \in Queue |-> NoReservation]
      /\ nodes \subseteq Block /\ free = nodes /\ mem = [c \in Cell |-> Unknown]
      /\ open = {} /\ held = {}
      /\ accepted = [q \in Queue |-> 0] /\ delivered = [q \in Queue |-> 0]
  BY DEF Init
<1>2. \A q \in Queue : Owned(q) = <<>> /\ End(q) = 0
  BY <1>1 DEF Owned, NoReservation, End
<1>3. TypeOK
  <2>1. NoFlight \in [iov: Seq(Cell), control: Seq(Fd)]
    BY DEF NoFlight
  <2>2. NoReservation \in
          [count: 0..ByteBudget, written: 0..ByteBudget, blocks: Seq(Block)]
    BY SizeAssumption DEF NoReservation
  <2>3. 0 \in 0..(BlockSize - 1) /\ 0 \in 0..BlockSize /\ 0 \in 0..ByteBudget
        /\ 0 =< DescriptorBudget
    BY SizeAssumption, BudgetAssumption
  <2>4. \A q \in Queue : Len(fds[q]) = 0
    BY <1>1
  <2> QED
    BY <1>1, <2>1, <2>2, <2>3, <2>4 DEF TypeOK, Position
<1>4. BlocksOwnedOnce
  <2>1. ToSet(<<>>) = {} /\ IsInjective(<<>>)
    BY DEF ToSet, IsInjective
  <2> QED
    BY <1>1, <1>2, <2>1 DEF BlocksOwnedOnce
<1>5. ASSUME NEW q \in Queue
      PROVE  Framed(q) /\ Filled(q) /\ Carried(q)
  <2>1. /\ chain[q] = <<>> /\ headOffset[q] = 0 /\ tailUsed[q] = 0
        /\ byteCount[q] = 0 /\ accepted[q] = 0 /\ delivered[q] = 0
        /\ active[q] = NoFlight /\ reservation[q] = NoReservation /\ fds[q] = <<>>
        /\ End(q) = 0
    BY <1>1, <1>2
  <2>2. Framed(q)
    <3>1. 0 = 0 - 0 /\ ~(NoReservation.count > 0)
      BY DEF NoReservation
    <3> QED
      BY <2>1, <3>1 DEF Framed, Reserved
  <2>3. Filled(q)
    <3>1. 1..(byteCount[q] + reservation[q].written) = {}
      BY <2>1 DEF NoReservation
    <3> QED
      BY <3>1 DEF Filled
  <2>4. Carried(q)
    <3>1. /\ Len(active[q].iov) = 0 /\ Len(active[q].control) = 0
          /\ Len(fds[q]) = 0 /\ 1..0 = {} /\ 0 =< 0
      BY <2>1 DEF NoFlight
    <3> QED
      BY <2>1, <3>1 DEF Carried
  <2> QED
    BY <2>2, <2>3, <2>4
<1> QED
  BY <1>3, <1>4, <1>5 DEF BytesInv

LEMMA NextBytes ==
  ASSUME BytesInv, FdInv, [Next]_vars
  PROVE  BytesInv'
<1>1. CASE UNCHANGED vars
  <2>1. UNCHANGED <<chainVars, active, reservation, poolVars, mem, fds, delivered,
                    open, held>>
    BY <1>1 DEF vars, fdVars
  <2>2. open \subseteq Fd /\ held \subseteq open
    BY InvParts DEF OtherTypes
  <2> QED
    BY <2>1, <2>2, StutterBytes
<1>2. ASSUME NEW f \in Fd, Open(f) \/ Close(f)
      PROVE  BytesInv'
  <2>1. open' \subseteq Fd /\ held' \subseteq open'
    BY <1>2, CallerInv DEF FdInv, DescriptorTypes
  <2>2. UNCHANGED <<chainVars, active, reservation, poolVars, mem, fds, delivered>>
    BY <1>2 DEF Open, Close
  <2> QED
    BY <2>1, <2>2, StutterBytes
<1>3. ASSUME NEW q \in Queue,
             PrepareSend(q) \/ Failed(q) \/ Abort(q) \/ Deinit(q)
      PROVE  BytesInv'
  BY <1>3, PrepareSendBytes, FailedBytes, AbortBytes, DeinitBytes
<1>4. ASSUME NEW q \in Queue, NEW d \in DescriptorLists, Commit(q, d)
      PROVE  BytesInv'
  BY <1>4, CommitBytes
<1>5. ASSUME NEW q \in Queue, NEW n \in 1..ByteBudget,
             EnsureCapacity(q, n) \/ Write(q, n) \/ Complete(q, n)
      PROVE  BytesInv'
  BY <1>5, CapacityBytes, WriteBytes, CompleteBytes
<1>6. ASSUME NEW q \in Queue, NEW n \in 1..ByteBudget, NEW blocks \in Leases(q, n),
             \/ Reserve(q, n, blocks)
             \/ \E d \in DescriptorLists : Enqueue(q, n, blocks, d)
      PROVE  BytesInv'
  BY <1>6, ReserveBytes, EnqueueBytes
<1> QED
  BY <1>1, <1>2, <1>3, <1>4, <1>5, <1>6 DEF Next

\* The public part of what the cells hold.
LEMMA InOrder ==
  ASSUME BytesInv
  PROVE  BytesInOrder
<1> SUFFICES ASSUME NEW q \in Queue
             PROVE  /\ byteCount[q] = accepted[q] - delivered[q]
                    /\ End(q) - headOffset[q] = byteCount[q]
                    /\ \A i \in 1..byteCount[q] :
                         mem[At(chain[q], headOffset[q] + i - 1)]
                           = <<q, delivered[q] + i>>
  BY DEF BytesInOrder
<1>1. QueueType(q) /\ Framed(q) /\ Filled(q)
  BY InvParts DEF QueueInv
<1>2. byteCount[q] = accepted[q] - delivered[q] /\ End(q) - headOffset[q] = byteCount[q]
  BY <1>1 DEF Framed
<1>3. /\ headOffset[q] \in Nat /\ byteCount[q] \in Nat /\ End(q) \in Nat
      /\ reservation[q].written \in Nat
      /\ chain[q] \in Seq(Block) /\ reservation[q].blocks \in Seq(Block)
      /\ headOffset[q] + byteCount[q] = End(q) /\ End(q) =< Room(chain[q])
      /\ Room(chain[q]) \in Nat
  <2>1. /\ headOffset[q] \in Nat /\ byteCount[q] \in Nat /\ chain[q] \in Seq(Block)
        /\ reservation[q] \in Reservation
    BY <1>1, SizeAssumption DEF QueueType
  <2>2. reservation[q].written \in Nat /\ reservation[q].blocks \in Seq(Block)
    BY <2>1, SizeAssumption DEF Reservation
  <2>3. Room(chain[q]) \in Nat
    BY <2>1, RoomType
  <2> QED
    BY <1>1, <2>1, <2>2, <2>3, UsedFits
<1>4. ASSUME NEW i \in 1..byteCount[q]
      PROVE  mem[At(chain[q], headOffset[q] + i - 1)] = <<q, delivered[q] + i>>
  <2> DEFINE k == headOffset[q] + i - 1
  <2>1. i \in 1..(byteCount[q] + reservation[q].written)
    BY <1>3
  <2>2. mem[At(Owned(q), k)] = <<q, delivered[q] + i>>
    BY <1>1, <2>1 DEF Filled
  <2>3. k \in Nat /\ k < Room(chain[q])
    BY <1>3
  <2> HIDE DEF k
  <2>4. At(Owned(q), k) = At(chain[q], k)
    BY <1>3, <2>3, AtFirst DEF Owned
  <2> QED
    BY <2>2, <2>4 DEF k
<1> QED
  BY <1>2, <1>4

\* A snapshot reads the first of these bytes, and descriptors of this queue.
LEMMA StableFlight ==
  ASSUME BytesInv, FdInv
  PROVE  FlightIsStable
<1> SUFFICES ASSUME NEW q \in Queue
             PROVE  /\ \A i \in DOMAIN active[q].iov :
                         mem[active[q].iov[i]] = <<q, delivered[q] + i>>
                    /\ Len(active[q].control) =< Len(fds[q])
                    /\ \A i \in DOMAIN active[q].control :
                         active[q].control[i] = fds[q][i].fd /\ fds[q][i].fd \in open
  BY DEF FlightIsStable
<1>1. QueueType(q) /\ Carried(q)
  BY InvParts DEF QueueInv
<1>2. /\ active[q].iov \in Seq(Cell) /\ active[q].control \in Seq(Fd)
      /\ fds[q] \in Seq(Entry) /\ byteCount[q] \in Nat
  BY <1>1, SizeAssumption DEF QueueType, Flight
<1>3. ASSUME NEW i \in DOMAIN active[q].iov
      PROVE  mem[active[q].iov[i]] = <<q, delivered[q] + i>>
  <2>1. i \in 1..Len(active[q].iov) /\ Len(active[q].iov) =< byteCount[q]
    BY <1>1, <1>2 DEF Carried
  <2>2. i \in 1..byteCount[q]
    BY <1>2, <2>1
  <2>3. mem[At(chain[q], headOffset[q] + i - 1)] = <<q, delivered[q] + i>>
    BY <2>2, InOrder DEF BytesInOrder
  <2>4. active[q].iov[i] = At(chain[q], headOffset[q] + i - 1)
    BY <1>1, <2>1 DEF Carried
  <2> QED
    BY <2>3, <2>4
<1>4. ASSUME NEW i \in DOMAIN active[q].control
      PROVE  active[q].control[i] = fds[q][i].fd /\ fds[q][i].fd \in open
  <2>1. i \in 1..Len(active[q].control) /\ Len(active[q].control) =< Len(fds[q])
    BY <1>1, <1>2 DEF Carried
  <2>2. i \in 1..Len(fds[q])
    BY <1>2, <2>1
  <2>3. Rights(q)[i] = fds[q][i].fd /\ Rights(q)[i] \in ToSet(Rights(q))
    <3>1. DOMAIN Rights(q) = 1..Len(fds[q]) /\ Rights(q)[i] = fds[q][i].fd
      BY <1>2, <2>2 DEF Rights
    <3> QED
      BY <2>2, <3>1 DEF ToSet
  <2>4. ToSet(Rights(q)) \subseteq open
    BY DEF FdInv, DescriptorsOwnedOnce
  <2>5. active[q].control[i] = fds[q][i].fd
    BY <1>1, <2>1 DEF Carried
  <2> QED
    BY <2>3, <2>4, <2>5
<1>5. Len(active[q].control) =< Len(fds[q])
  BY <1>1 DEF Carried
<1> QED
  BY <1>3, <1>4, <1>5

\* The invariant the properties below follow from: bytes and descriptors
\* together, because closing needs to know whose a descriptor is.
THEOREM BytesInvariance == Spec => [](FdInv /\ BytesInv)
<1>1. Init => FdInv /\ BytesInv
  BY InitFd, InitBytes
<1>2. FdInv /\ BytesInv /\ [Next]_vars => (FdInv /\ BytesInv)'
  BY NextFd, NextBytes
<1> QED
  BY <1>1, <1>2, PTL DEF Spec

\* Every queue stays within the budgets of bytes and descriptors it was given,
\* its offsets within its blocks, and the pool within what was allocated.
THEOREM TypesHold == Spec => []TypeOK
<1>1. FdInv /\ BytesInv => TypeOK
  BY DEF BytesInv
<1> QED
  BY <1>1, BytesInvariance, PTL

\* A block of the pool is free or in the chain of one connection or in one
\* reservation, once: no two connections write to the same memory, and none is
\* lost, through sends that are partly taken, aborted reservations and teardown.
THEOREM BlocksHaveOneOwner == Spec => []BlocksOwnedOnce
<1>1. FdInv /\ BytesInv => BlocksOwnedOnce
  BY DEF BytesInv
<1> QED
  BY <1>1, BytesInvariance, PTL

\* What a queue holds is what was published and not yet taken, in order, for
\* every size of a block and every number of connections that share the pool.
THEOREM BytesStayInOrder == Spec => []BytesInOrder
<1>1. FdInv /\ BytesInv => BytesInOrder
  BY InOrder
<1> QED
  BY <1>1, BytesInvariance, PTL

\* From the snapshot to its completion the kernel reads the next bytes of the
\* stream and open descriptors of this queue, while the queue grows, the pool
\* grows and reservations are written behind it.
THEOREM FlightStays == Spec => []FlightIsStable
<1>1. FdInv /\ BytesInv => FlightIsStable
  BY StableFlight
<1> QED
  BY <1>1, BytesInvariance, PTL

\* A descriptor that is still queued belongs to a message of which no byte was
\* taken, however the kernel splits the stream into sends.
THEOREM DescriptorsComeFirst == Spec => []DescriptorsLeadBytes
<1>1. ASSUME BytesInv PROVE DescriptorsLeadBytes
  <2> SUFFICES ASSUME NEW q \in Queue, NEW i \in DOMAIN fds[q]
               PROVE  fds[q][i].first > delivered[q]
    BY DEF DescriptorsLeadBytes
  <2>1. fds[q] \in Seq(Entry) /\ Carried(q)
    BY <1>1, InvParts DEF QueueInv, QueueType
  <2>2. i \in 1..Len(fds[q])
    BY <2>1
  <2> QED
    BY <2>1, <2>2 DEF Carried
<1>2. FdInv /\ BytesInv => DescriptorsLeadBytes
  BY <1>1
<1> QED
  BY <1>2, BytesInvariance, PTL

=============================================================================
