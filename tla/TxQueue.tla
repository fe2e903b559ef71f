------------------------------- MODULE TxQueue -------------------------------
(***************************************************************************)
(* The transmit queues of the connections of a reactor (`tx.Queue`): each  *)
(* a chain of blocks leased from one shared pool and a queue of            *)
(* descriptors.  A send hands the kernel pointers into the first two       *)
(* blocks and the numbers of all queued descriptors; the queue may grow    *)
(* behind it, and a message may be written into reserved space before it   *)
(* is published.                                                           *)
(*                                                                         *)
(* Bytes carry their position in the stream of their connection, so that   *)
(* the memory shows whether what the kernel reads is what was sent.  The   *)
(* content of a free block is `Unknown`.                                   *)
(***************************************************************************)
EXTENDS Naturals, Sequences, FiniteSets, SequencesExt

CONSTANTS Queue,             \* the connections
          Block,             \* what the allocator can provide
          BlockSize,
          BlockCount,        \* blocks the pool begins with
          ByteBudget,        \* bytes a queue may hold
          DescriptorBudget,  \* descriptors a queue may hold
          Fd,                \* descriptor numbers
          MaxBytes           \* bound: bytes a connection accepts

ASSUME SizeAssumption == BlockSize \in Nat \ {0} /\ ByteBudget \in Nat \ {0}
ASSUME BudgetAssumption ==
  DescriptorBudget \in Nat /\ MaxBytes \in [Queue -> Nat]

VARIABLES
  chain,        \* chain[q]: its blocks, head first
  headOffset,   \* headOffset[q]: bytes of the head block that were sent
  tailUsed,     \* tailUsed[q]: bytes of the tail block that are in use
  byteCount,    \* byteCount[q]: bytes queued
  fds,          \* fds[q]: descriptors queued, with the first byte of their message
  active,       \* active[q]: the send in flight, or NoFlight
  reservation,  \* reservation[q]: the reservation that is open, or NoReservation
  nodes, free,  \* the pool: all its blocks, and those nobody leases
  mem,          \* mem[<<b, o>>]: byte o of block b
  open, held,   \* open descriptors, and those of them the caller owns
  accepted,     \* accepted[q]: bytes published since the connection began
  delivered     \* delivered[q]: bytes the kernel took

poolVars == <<nodes, free>>
fdVars == <<fds, open, held>>
chainVars == <<chain, headOffset, tailUsed, byteCount, accepted>>
vars == <<chainVars, active, reservation, poolVars, mem, fdVars, delivered>>

Cell == Block \X (0..(BlockSize - 1))
Unknown == <<>>

NoFlight == [iov |-> <<>>, control |-> <<>>]
NoReservation == [count |-> 0, written |-> 0, blocks |-> <<>>]

Reserved(q) == reservation[q].count > 0
Sending(q) == active[q] # NoFlight

\* The bytes of a queue lie one after the other in its blocks.  Byte k,
\* counted from the start of the head block, is in this cell.
At(blocks, k) == <<blocks[1 + k \div BlockSize], k % BlockSize>>

\* The first byte after the queued ones.
End(q) == IF chain[q] = <<>> THEN 0
          ELSE (Len(chain[q]) - 1) * BlockSize + tailUsed[q]

\* What n more bytes need beyond the space left in the tail block.
Beyond(q, n) ==
  LET space == IF chain[q] = <<>> THEN 0 ELSE BlockSize - tailUsed[q]
  IN IF n <= space THEN 0 ELSE n - space

BlocksNeeded(q, n) == (Beyond(q, n) + BlockSize - 1) \div BlockSize

\* Variant: a last block that is full counts as empty.
TailWrapping(q, n) ==
  IF Beyond(q, n) = 0 THEN tailUsed[q] + n ELSE Beyond(q, n) % BlockSize

\* tailUsed after n more bytes.
TailAfter(q, n) ==
  LET rest == Beyond(q, n) % BlockSize
  IN IF Beyond(q, n) = 0 THEN tailUsed[q] + n
     ELSE IF rest = 0 THEN BlockSize ELSE rest

Init == /\ chain = [q \in Queue |-> <<>>]
        /\ headOffset = [q \in Queue |-> 0]
        /\ tailUsed = [q \in Queue |-> 0]
        /\ byteCount = [q \in Queue |-> 0]
        /\ fds = [q \in Queue |-> <<>>]
        /\ active = [q \in Queue |-> NoFlight]
        /\ reservation = [q \in Queue |-> NoReservation]
        /\ nodes \in {B \in SUBSET Block : Cardinality(B) = BlockCount}
        /\ free = nodes
        /\ mem = [c \in Cell |-> Unknown]
        /\ open = {} /\ held = {}
        /\ accepted = [q \in Queue |-> 0]
        /\ delivered = [q \in Queue |-> 0]

(***************************************************************************)
(* The pool of blocks.                                                     *)
(***************************************************************************)

\* SharedBlocks.acquire, once for each of the blocks: the pool grows only
\* when no block is free.
Acquire(blocks) ==
  /\ IsInjective(blocks)
  /\ ToSet(blocks) \subseteq free \cup (Block \ nodes)
  /\ ToSet(blocks) \subseteq free \/ free \subseteq ToSet(blocks)
  /\ nodes' = nodes \cup ToSet(blocks)
  /\ free' = free \ ToSet(blocks)

\* SharedBlocks.release, with what the blocks contained.
Release(blocks) ==
  /\ UNCHANGED nodes
  /\ free' = free \cup blocks
  /\ mem' = [c \in Cell |-> IF c[1] \in blocks THEN Unknown ELSE mem[c]]

\* Bytes first..last of the stream of q are written from cell `from` on.
Store(q, blocks, from, first, last) ==
  mem' = [c \in Cell |->
    IF \E i \in first..last : c = At(blocks, from + i - first)
    THEN <<q, CHOOSE i \in first..last : c = At(blocks, from + i - first)>>
    ELSE mem[c]]

Fits(q, n) == /\ ~Reserved(q) /\ n > 0 /\ accepted[q] + n <= MaxBytes[q]
              /\ n <= ByteBudget - byteCount[q]

\* Queue.ensureCapacity alone, or as far as it comes when the allocator fails
\* while a message is to be queued: the pool may have grown.
EnsureCapacity(q, n) ==
  /\ Fits(q, n)
  /\ \E new \in SUBSET (Block \ nodes) :
       /\ Cardinality(free \cup new) <= BlocksNeeded(q, n)
       /\ nodes' = nodes \cup new
       /\ free' = free \cup new
  /\ UNCHANGED <<chainVars, active, reservation, mem, fdVars, delivered>>

(***************************************************************************)
(* Messages.                                                               *)
(***************************************************************************)

\* The message's descriptors d pass from the caller to the queue, tagged with
\* the position of the message.
TakeDescriptors(q, d) ==
  /\ IsInjective(d) /\ ToSet(d) \subseteq held
  /\ Len(fds[q]) + Len(d) <= DescriptorBudget
  /\ fds' = [fds EXCEPT ![q] =
       @ \o [i \in DOMAIN d |-> [fd |-> d[i], first |-> accepted[q] + 1]]]
  /\ held' = held \ ToSet(d)
  /\ UNCHANGED open

\* n bytes, already in place, become part of queue q.
Publish(q, n, blocks) ==
  /\ chain' = [chain EXCEPT ![q] = @ \o blocks]
  /\ tailUsed' = [tailUsed EXCEPT ![q] = TailAfter(q, n)]
  /\ byteCount' = [byteCount EXCEPT ![q] = @ + n]
  /\ accepted' = [accepted EXCEPT ![q] = @ + n]

\* Queue.enqueue.
Enqueue(q, n, blocks, d) ==
  /\ Fits(q, n)
  /\ Acquire(blocks)
  /\ TakeDescriptors(q, d)
  /\ Store(q, chain[q] \o blocks, End(q), accepted[q] + 1, accepted[q] + n)
  /\ Publish(q, n, blocks)
  /\ headOffset' = [headOffset EXCEPT ![q] = IF chain[q] = <<>> THEN 0 ELSE @]
  /\ UNCHANGED <<active, reservation, delivered>>

\* Queue.reserve.
Reserve(q, n, blocks) ==
  /\ Fits(q, n)
  /\ Acquire(blocks)
  /\ reservation' = [reservation EXCEPT ![q] =
       [count |-> n, written |-> 0, blocks |-> blocks]]
  /\ UNCHANGED <<chainVars, active, mem, fdVars, delivered>>

\* Reservation.write: the next n bytes, first into the tail block.
Write(q, n) ==
  LET res == reservation[q]
      next == accepted[q] + res.written + 1
  IN /\ Reserved(q) /\ n \in 1..(res.count - res.written)
     /\ Store(q, chain[q] \o res.blocks, End(q) + res.written, next, next + n - 1)
     /\ reservation' = [reservation EXCEPT ![q].written = @ + n]
     /\ UNCHANGED <<chainVars, active, poolVars, fdVars, delivered>>

\* Reservation.commit, of a message that was written completely.
Commit(q, d) ==
  LET res == reservation[q]
  IN /\ Reserved(q) /\ res.written = res.count
     /\ TakeDescriptors(q, d)
     /\ Publish(q, res.count, res.blocks)
     /\ reservation' = [reservation EXCEPT ![q] = NoReservation]
     /\ UNCHANGED <<headOffset, active, poolVars, mem, delivered>>

\* Variant: the private blocks are forgotten.
AbortLeaking(q) ==
  /\ Reserved(q)
  /\ reservation' = [reservation EXCEPT ![q] = NoReservation]
  /\ UNCHANGED <<chainVars, active, poolVars, mem, fdVars, delivered>>

\* Reservation.abort, in whatever state.
Abort(q) ==
  /\ Reserved(q)
  /\ Release(ToSet(reservation[q].blocks))
  /\ reservation' = [reservation EXCEPT ![q] = NoReservation]
  /\ UNCHANGED <<chainVars, active, fdVars, delivered>>

(***************************************************************************)
(* Sends.                                                                  *)
(***************************************************************************)

\* Variant: the tail block is sent to its end.
SnapshotWholeBlocks(q) == IF Len(chain[q]) > 1 THEN 2 * BlockSize ELSE BlockSize

\* Queue.snapshot covers the first two blocks.
SnapshotEnd(q) == IF Len(chain[q]) > 2 THEN 2 * BlockSize ELSE End(q)

\* Variant: one descriptor at a time.
OneDescriptor(q) == IF fds[q] = <<>> THEN <<>> ELSE <<fds[q][1].fd>>

\* The rights of a snapshot are all that are queued.
Rights(q) == [i \in DOMAIN fds[q] |-> fds[q][i].fd]

\* Queue.snapshot and begin.
PrepareSend(q) ==
  /\ ~Reserved(q) /\ ~Sending(q) /\ chain[q] # <<>>
  /\ active' = [active EXCEPT ![q] =
       [iov |-> [i \in 1..(SnapshotEnd(q) - headOffset[q]) |->
                   At(chain[q], headOffset[q] + i - 1)],
        control |-> Rights(q)]]
  /\ UNCHANGED <<chainVars, reservation, poolVars, mem, fdVars, delivered>>

\* Variant: they leave the queue without being closed.
DropOldest(q, n) ==
  /\ fds' = [fds EXCEPT ![q] = SubSeq(@, n + 1, Len(@))]
  /\ UNCHANGED open

\* The oldest n descriptors are closed.
CloseOldest(q, n) ==
  /\ fds' = [fds EXCEPT ![q] = SubSeq(@, n + 1, Len(@))]
  /\ open' = open \ {fds[q][i].fd : i \in 1..n}

\* Queue.complete: the bytes written leave their blocks, the descriptors went
\* with the first of them.
Complete(q, written) ==
  LET flight == active[q]
      head == headOffset[q] + written
      gone == IF head = End(q) THEN Len(chain[q]) ELSE head \div BlockSize
  IN /\ ~Reserved(q) /\ Sending(q)
     /\ written \in 1..Len(flight.iov)
     /\ Release({chain[q][i] : i \in 1..gone})
     /\ chain' = [chain EXCEPT ![q] = SubSeq(@, gone + 1, Len(@))]
     /\ headOffset' = [headOffset EXCEPT ![q] =
          IF head = End(q) THEN 0 ELSE head % BlockSize]
     /\ tailUsed' = [tailUsed EXCEPT ![q] = IF head = End(q) THEN 0 ELSE @]
     /\ byteCount' = [byteCount EXCEPT ![q] = @ - written]
     /\ delivered' = [delivered EXCEPT ![q] = @ + written]
     /\ CloseOldest(q, Len(flight.control))
     /\ active' = [active EXCEPT ![q] = NoFlight]
     /\ UNCHANGED <<accepted, reservation, held>>

\* Queue.failed.
Failed(q) ==
  /\ ~Reserved(q) /\ Sending(q)
  /\ active' = [active EXCEPT ![q] = NoFlight]
  /\ UNCHANGED <<chainVars, reservation, poolVars, mem, fdVars, delivered>>

\* Queue.deinit, which Actor.canDeinit allows when no send is active; another
\* connection takes the place.
Deinit(q) ==
  /\ ~Reserved(q) /\ ~Sending(q) /\ accepted[q] > 0
  /\ Release(ToSet(chain[q]))
  /\ CloseOldest(q, Len(fds[q]))
  /\ chain' = [chain EXCEPT ![q] = <<>>]
  /\ headOffset' = [headOffset EXCEPT ![q] = 0]
  /\ tailUsed' = [tailUsed EXCEPT ![q] = 0]
  /\ byteCount' = [byteCount EXCEPT ![q] = 0]
  /\ accepted' = [accepted EXCEPT ![q] = 0]
  /\ delivered' = [delivered EXCEPT ![q] = 0]
  /\ UNCHANGED <<active, reservation, held>>

\* The caller opens and closes descriptors of its own; a number is used again.
Open(f) ==
  /\ f \notin open
  /\ open' = open \cup {f} /\ held' = held \cup {f}
  /\ UNCHANGED <<chainVars, active, reservation, poolVars, mem, fds, delivered>>

Close(f) ==
  /\ f \in held
  /\ open' = open \ {f} /\ held' = held \ {f}
  /\ UNCHANGED <<chainVars, active, reservation, poolVars, mem, fds, delivered>>

Leases(q, n) == [1..BlocksNeeded(q, n) -> Block]
DescriptorLists == SeqOf(Fd, DescriptorBudget)

Next == \/ \E q \in Queue :
             \/ PrepareSend(q) \/ Failed(q) \/ Abort(q) \/ Deinit(q)
             \/ \E d \in DescriptorLists : Commit(q, d)
             \/ \E n \in 1..ByteBudget :
                  \/ EnsureCapacity(q, n) \/ Write(q, n) \/ Complete(q, n)
                  \/ \E blocks \in Leases(q, n) :
                       \/ Reserve(q, n, blocks)
                       \/ \E d \in DescriptorLists : Enqueue(q, n, blocks, d)
        \/ \E f \in Fd : Open(f) \/ Close(f)

Spec == Init /\ [][Next]_vars

-----------------------------------------------------------------------------

Position == Nat

\* Types; a queue stays within its budgets.
TypeOK ==
  /\ chain \in [Queue -> Seq(Block)]
  /\ headOffset \in [Queue -> 0..(BlockSize - 1)]
  /\ tailUsed \in [Queue -> 0..BlockSize]
  /\ byteCount \in [Queue -> 0..ByteBudget]
  /\ fds \in [Queue -> Seq([fd: Fd, first: Position])]
  /\ \A q \in Queue : Len(fds[q]) <= DescriptorBudget
  /\ active \in [Queue -> [iov: Seq(Cell), control: Seq(Fd)]]
  /\ reservation \in [Queue ->
       [count: 0..ByteBudget, written: 0..ByteBudget, blocks: Seq(Block)]]
  /\ nodes \subseteq Block /\ free \subseteq nodes
  /\ mem \in [Cell -> {Unknown} \cup (Queue \X Position)]
  /\ open \subseteq Fd /\ held \subseteq open
  /\ accepted \in [Queue -> Position] /\ delivered \in [Queue -> Position]

\* The cells from the head to the end of the chain hold exactly the bytes that
\* were published and not yet taken, in order, whatever was written, sent,
\* reserved or aborted before, and by whichever connection.
BytesInOrder ==
  \A q \in Queue :
    /\ byteCount[q] = accepted[q] - delivered[q]
    /\ End(q) - headOffset[q] = byteCount[q]
    /\ \A i \in 1..byteCount[q] :
         mem[At(chain[q], headOffset[q] + i - 1)] = <<q, delivered[q] + i>>

\* What the kernel was given stays valid until it completes: it reads the next
\* bytes of this stream, however the queue grows meanwhile, and descriptors
\* that are still open and still the oldest of the queue.
FlightIsStable ==
  \A q \in Queue :
    /\ \A i \in DOMAIN active[q].iov :
         mem[active[q].iov[i]] = <<q, delivered[q] + i>>
    /\ Len(active[q].control) <= Len(fds[q])
    /\ \A i \in DOMAIN active[q].control :
         active[q].control[i] = fds[q][i].fd /\ fds[q][i].fd \in open

\* The blocks of a queue, public and private.
Owned(q) == chain[q] \o reservation[q].blocks

\* Every block of the pool is free or in one chain, public or private, once.
BlocksOwnedOnce ==
  /\ \A q \in Queue : IsInjective(Owned(q)) /\ ToSet(Owned(q)) \cap free = {}
  /\ \A q, r \in Queue : q # r => ToSet(Owned(q)) \cap ToSet(Owned(r)) = {}
  /\ nodes = free \cup UNION {ToSet(Owned(q)) : q \in Queue}

\* Every open descriptor has one owner, the caller or one queue, which closes
\* it: none is closed twice (its number may be somebody else's by then), none
\* is left open.
DescriptorsOwnedOnce ==
  /\ \A q \in Queue : IsInjective(Rights(q)) /\ ToSet(Rights(q)) \cap held = {}
  /\ \A q, r \in Queue : q # r => ToSet(Rights(q)) \cap ToSet(Rights(r)) = {}
  /\ open = held \cup UNION {ToSet(Rights(q)) : q \in Queue}

\* No byte of a message is delivered before its descriptors: a descriptor
\* still queued belongs to a message of which nothing was taken.
DescriptorsLeadBytes ==
  \A q \in Queue : \A i \in DOMAIN fds[q] : fds[q][i].first > delivered[q]

=============================================================================
