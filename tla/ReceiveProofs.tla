---------------------------- MODULE ReceiveProofs ---------------------------
(***************************************************************************)
(* Proofs about Receive, for any connections, buffers, blocks and sizes.   *)
(*                                                                         *)
(* IInv is the inductive invariant.  It relates the bytes of a connection  *)
(* wherever they are: what was framed, then the fragment, then the rest of *)
(* the payload, then the completions, then the socket (StreamInv,          *)
(* MessageInv); and its descriptors: what was taken, then the queue, then  *)
(* the completions (QueueInv, OwnerInv).  The parts that follow each other *)
(* are sections of their own; at the end the theorems and the refinement   *)
(* of Delivery.                                                            *)
(***************************************************************************)
EXTENDS Receive, TLAPS

\* What is known of one message of a connection.
PeerMessage(c, i) ==
  LET m == messages[c][i] IN
  /\ m.peer = c /\ m.from < m.to /\ m.fdFrom =< m.fdTo
  /\ m.to =< Bytes(c) /\ m.fdTo =< Descriptors(c)
  /\ i = 1 => m.from = 0 /\ m.fdFrom = 0
  /\ i > 1 => /\ m.from = messages[c][i-1].to
              /\ m.fdFrom = messages[c][i-1].fdTo

\* The peer writes message after message, and what it sent of them.
PeerInv(c) ==
  /\ \A i \in DOMAIN messages[c] : PeerMessage(c, i)
  /\ \A i, j \in DOMAIN messages[c] :
       i < j => messages[c][i].to =< messages[c][j].from
  /\ Bytes(c) =< MaxBytes[c] /\ Descriptors(c) =< MaxFds[c]
  /\ sent[c] =< Bytes(c) /\ Len(attached[c]) =< Descriptors(c)
  /\ \A f \in DOMAIN attached[c] : attached[c][f] =< sent[c]

\* Where the completions that are not handled start.
NextByte(c) == IF completions[c] = <<>> THEN read[c]
                                        ELSE completions[c][1].from
NextFd(c) == IF completions[c] = <<>> THEN passed[c]
                                      ELSE completions[c][1].fdFrom

\* The descriptors up to one go with the bytes up to another.
Matches(c, fd, byte) ==
  \A f \in DOMAIN attached[c] : f =< fd <=> attached[c][f] =< byte

\* What a completion of a receive is about, and one of the end.
WellFormed(k) ==
  /\ k.from =< k.to /\ k.fdFrom =< k.fdTo /\ k.fdTo =< k.fdEnd
  /\ IsEnd(k) => k.fdEnd = k.fdFrom
  /\ ~IsEnd(k) => k.buffer # None
  /\ k.to =< k.from + BufferSize

\* The completions continue each other up to what was read.
CqeInv(c, i) ==
  LET k == completions[c][i] IN
  /\ k.from =< k.to /\ k.to =< read[c]
  /\ k.fdFrom =< k.fdTo /\ k.fdTo =< k.fdEnd /\ k.fdEnd =< passed[c]
  /\ Matches(c, k.fdFrom, k.from)
  /\ WellFormed(k)

KernelInv(c) ==
  /\ read[c] =< sent[c] /\ passed[c] =< Len(attached[c])
  /\ Matches(c, passed[c], read[c])
  /\ \A i \in DOMAIN completions[c] :
       /\ CqeInv(c, i)
       /\ i = Len(completions[c]) => /\ completions[c][i].to = read[c]
                                     /\ completions[c][i].fdEnd = passed[c]
       /\ i < Len(completions[c]) =>
            /\ completions[c][i].to = completions[c][i+1].from
            /\ completions[c][i].fdEnd = completions[c][i+1].fdFrom
  /\ \A i, j \in DOMAIN completions[c] :
       i < j => completions[c][i].fdEnd =< completions[c][j].fdFrom

\* Buffers have one holder, which finds in them what the kernel wrote.
InBuffer(c, i) ==
  LET k == completions[c][i] IN
  k.buffer # None =>
    /\ ring[k.buffer] = 0
    /\ input # None => input.buffer # k.buffer
    /\ \A j \in 1..(k.to - k.from) : memory[k.buffer][j] = <<c, k.from + j>>

Held(b) ==
  \/ input # None /\ input.buffer = b
  \/ \E c \in Conn : \E i \in DOMAIN completions[c] : completions[c][i].buffer = b

BufferInv ==
  /\ \A b \in Buffer : ring[b] \in {0, 1} /\ (ring[b] = 0 => Held(b))
  /\ input # None => ring[input.buffer] = 0
  /\ \A c \in Conn : \A i \in DOMAIN completions[c] : InBuffer(c, i)
  /\ \A c, d \in Conn : \A i \in DOMAIN completions[c], j \in DOMAIN completions[d] :
       completions[c][i].buffer = completions[d][j].buffer
         /\ completions[c][i].buffer # None => c = d /\ i = j

\* The places of a descriptor that left the socket.
OwnerInv(c) ==
  /\ IsInjective(fds[c])
  /\ \A i \in DOMAIN fds[c] : 1 =< fds[c][i] /\ fds[c][i] =< NextFd(c)
  /\ \A f \in Fd(c) :
       /\ f =< NextFd(c) =>
            released[c][f] = IF f \in ToSet(fds[c]) THEN 0 ELSE 1
       /\ f > passed[c] => released[c][f] = 0
       /\ NextFd(c) < f /\ f =< passed[c] =>
            \E i \in DOMAIN completions[c] :
              completions[c][i].fdFrom < f /\ f =< completions[c][i].fdEnd
       /\ \A i \in DOMAIN completions[c] :
            LET k == completions[c][i] IN
            /\ k.fdFrom < f /\ f =< k.fdTo => released[c][f] = 0
            /\ k.fdTo < f /\ f =< k.fdEnd => released[c][f] = 1
  /\ phase[c] = "gone" => fds[c] = <<>> /\ completions[c] = <<>> /\ ~armed[c]

\* Where the thread is.
Inside == {"next", "header", "body", "handle"}
Dispatching(c) == step \in Inside /\ input.conn = c

\* A message that is handled is one that some peer wrote.
HeaderInv ==
  message # None =>
    \E c \in Conn : \E i \in DOMAIN messages[c] : message.header = messages[c][i]

ThreadInv ==
  /\ step = "idle" <=> input = None
  /\ step = "handle" <=> message # None
  /\ input # None => phase[input.conn] # "gone"
  /\ step = "release" /\ phase[input.conn] = "open" => Rest = 0
  /\ step \in {"header", "body"} =>
       ~releaseNext[input.conn] /\ buffered[input.conn] > 0
  /\ step = "body" => buffered[input.conn] >= HeaderSize
  /\ HeaderInv

\* Who leases what, and when.
Leases ==
  /\ free = Block \ Range(lease)
  /\ \A c, d \in Conn : lease[c] = lease[d] /\ c # d => lease[c] = None
  /\ \A c \in Conn : /\ scratch[c] \in {lease[c], c}
                     /\ lease[c] # None => scratch[c] = lease[c]
                     /\ lease[c] # None => InlineSize < BlockSize

LeaseInv ==
  /\ Leases
  /\ \A c \in Conn : /\ phase[c] = "gone" => lease[c] = None
                     /\ releaseNext[c] => lease[c] # None /\ buffered[c] = 0

\* The connections whose stream is followed.
Live(c) == phase[c] = "open" \/ Dispatching(c)

Handling(c) == step = "handle" /\ input.conn = c
Framed(c) == Len(log[c]) + IF Handling(c) THEN 1 ELSE 0
Upto(c, k) == IF k = 0 THEN 0 ELSE messages[c][k].to
FdUpto(c, k) == IF k = 0 THEN 0 ELSE messages[c][k].fdTo
Consumed(c) == Upto(c, Framed(c))
Left(c) == IF input # None /\ input.conn = c THEN Rest ELSE 0

\* The fragment is the start of the next message, the rest of the payload
\* follows it and the next completion follows that.
StreamInv(c) ==
  Live(c) =>
    /\ Framed(c) =< Len(messages[c])
    /\ \A i \in 1..buffered[c] : memory[scratch[c]][i] = <<c, Consumed(c) + i>>
    /\ NextByte(c) = Consumed(c) + buffered[c] + Left(c)
    /\ input # None /\ input.conn = c => \A j \in 1..Rest :
         memory[input.buffer][input.at + j] = <<c, Consumed(c) + buffered[c] + j>>
    /\ buffered[c] >= HeaderSize =>
         \/ /\ Framed(c) < Len(messages[c])
            /\ buffered[c] < Length(messages[c][Framed(c) + 1])
         \/ step = "body" /\ input.conn = c /\ buffered[c] = HeaderSize
    /\ releaseNext[c] => Dispatching(c) /\ step \in {"handle", "next"}
    /\ lease[c] # None /\ ~releaseNext[c] =>
         /\ buffered[c] > 0
         /\ Framed(c) < Len(messages[c])
         /\ Length(messages[c][Framed(c) + 1]) > InlineSize

\* The message that is handled is the next one and lies in one place.
MessageInv ==
  step = "handle" =>
    LET c == input.conn
        m == message.header
    IN  /\ m = messages[c][Framed(c)]
        /\ buffered[c] = 0
        /\ \/ /\ message.area = input.buffer
              /\ message.at + Length(m) =< input.at
           \/ /\ message.area = scratch[c] /\ message.at = 0
              /\ Length(m) =< Capacity(scratch[c])
        /\ \A i \in 1..Length(m) :
             memory[message.area][message.at + i] = <<c, m.from + i>>

\* The queue holds the descriptors from the next message's on.
QueueInv(c) ==
  Live(c) =>
    /\ \A i \in DOMAIN fds[c] : fds[c][i] = FdUpto(c, Len(log[c])) + i
    /\ FdUpto(c, Len(log[c])) + Len(fds[c]) = NextFd(c)

IInv ==
  /\ TypeOK
  /\ \A c \in Conn : PeerInv(c) /\ KernelInv(c)
  /\ BufferInv
  /\ ThreadInv /\ LeaseInv
  /\ \A c \in Conn : OwnerInv(c) /\ StreamInv(c) /\ QueueInv(c)
  /\ MessageInv
  /\ PeerIsUnderstood

-----------------------------------------------------------------------------
(* The peer. *)

PeerTypes ==
  /\ messages \in [Conn -> Seq(Posting)]
  /\ sent \in [Conn -> Nat]
  /\ attached \in [Conn -> Seq(Nat)]

\* What the peer of a connection has written so far.
LEMMA Totals ==
  ASSUME PeerTypes, NEW c \in Conn
  PROVE  /\ Bytes(c) \in Nat /\ Descriptors(c) \in Nat
         /\ messages[c] # <<>> => /\ Len(messages[c]) \in DOMAIN messages[c]
                                  /\ Bytes(c) = messages[c][Len(messages[c])].to
                                  /\ Descriptors(c) = messages[c][Len(messages[c])].fdTo
         /\ messages[c] = <<>> => Bytes(c) = 0 /\ Descriptors(c) = 0
<1>1. messages[c] \in Seq(Posting)
  BY DEF PeerTypes
<1>2. CASE messages[c] = <<>>
  BY <1>2 DEF Bytes, Descriptors
<1>3. CASE messages[c] # <<>>
  <2>1. Len(messages[c]) \in DOMAIN messages[c]
    BY <1>1, <1>3
  <2>2. messages[c][Len(messages[c])] \in Posting
    BY <1>1, <2>1
  <2> QED
    BY <1>3, <2>1, <2>2 DEF Bytes, Descriptors, Last, Posting
<1> QED
  BY <1>2, <1>3

\* The message that a write adds.
Written(c, size, count) ==
  [peer |-> c, from |-> Bytes(c), to |-> Bytes(c) + size,
   fdFrom |-> Descriptors(c), fdTo |-> Descriptors(c) + count]

LEMMA WriteAppends ==
  ASSUME PeerTypes, NEW c \in Conn, NEW size \in Size, NEW count \in Rights,
         Write(c, size, count)
  PROVE  LET m == Written(c, size, count) IN
         /\ m \in Posting /\ m.peer = c /\ m.from = Bytes(c)
         /\ m.to = Bytes(c) + size /\ m.fdFrom = Descriptors(c)
         /\ m.fdTo = Descriptors(c) + count /\ m.from < m.to /\ m.fdFrom =< m.fdTo
         /\ messages' = [messages EXCEPT ![c] = Append(messages[c], m)]
         /\ PeerTypes'
         /\ Bytes(c)' = m.to /\ Descriptors(c)' = m.fdTo
         /\ Bytes(c)' =< MaxBytes[c] /\ Descriptors(c)' =< MaxFds[c]
<1> DEFINE m == Written(c, size, count)
<1>1. size \in Nat /\ size > 0 /\ count \in Nat
  BY SizesAssumption
<1>2. Bytes(c) \in Nat /\ Descriptors(c) \in Nat
  BY Totals
<1>3. m \in Posting
  BY <1>1, <1>2 DEF Written, Posting
<1>4. messages' = [messages EXCEPT ![c] = Append(messages[c], m)]
  BY DEF Write, Written
<1>5. m.peer = c /\ m.from = Bytes(c) /\ m.to = Bytes(c) + size
        /\ m.fdFrom = Descriptors(c) /\ m.fdTo = Descriptors(c) + count
  BY DEF Written
<1> HIDE DEF m
<1>6. messages'[c] = Append(messages[c], m)
  BY <1>4 DEF PeerTypes
<1>7. PeerTypes'
  BY <1>3, <1>4 DEF PeerTypes, Write
<1>8. messages[c] \in Seq(Posting)
  BY DEF PeerTypes
<1>9. messages'[c] # <<>> /\ Last(messages'[c]) = m
  BY <1>3, <1>6, <1>8 DEF Last
<1>10. Bytes(c)' = m.to /\ Descriptors(c)' = m.fdTo
  BY <1>9 DEF Bytes, Descriptors
<1>11. Bytes(c) + size =< MaxBytes[c] /\ Descriptors(c) + count =< MaxFds[c]
  BY DEF Write
<1> QED
  BY <1>1, <1>2, <1>3, <1>4, <1>5, <1>7, <1>10, <1>11 DEF m

LEMMA WriteMessages ==
  ASSUME PeerTypes, NEW c \in Conn, NEW size \in Size, NEW count \in Rights,
         Write(c, size, count),
         \A i \in DOMAIN messages[c] : PeerMessage(c, i)
  PROVE  \A i \in (DOMAIN messages[c])' : PeerMessage(c, i)'
<1> DEFINE m == Written(c, size, count)
<1>1. /\ m \in Posting /\ m.peer = c /\ m.from = Bytes(c)
      /\ m.to = Bytes(c) + size /\ m.fdFrom = Descriptors(c)
      /\ m.fdTo = Descriptors(c) + count /\ m.from < m.to /\ m.fdFrom =< m.fdTo
      /\ messages' = [messages EXCEPT ![c] = Append(messages[c], m)]
      /\ PeerTypes'
      /\ Bytes(c)' = m.to /\ Descriptors(c)' = m.fdTo
  BY WriteAppends
<1>2. size \in Nat
  BY SizesAssumption
<1>3. Bytes(c) \in Nat /\ Descriptors(c) \in Nat
  BY Totals
<1> HIDE DEF m
<1>4. messages[c] \in Seq(Posting) /\ messages'[c] = Append(messages[c], m)
  BY <1>1 DEF PeerTypes
<1> SUFFICES ASSUME NEW i \in DOMAIN messages'[c] PROVE PeerMessage(c, i)'
  OBVIOUS
<1>5. CASE i = Len(messages[c]) + 1
  <2>1. messages'[c][i] = m
    BY <1>4, <1>5
  <2>2. i = 1 => m.from = 0 /\ m.fdFrom = 0
    <3>1. i = 1 => messages[c] = <<>>
      BY <1>4, <1>5
    <3> QED
      BY <1>1, <3>1, Totals
  <2>3. i > 1 => m.from = messages'[c][i-1].to /\ m.fdFrom = messages'[c][i-1].fdTo
    <3> SUFFICES ASSUME i > 1 PROVE m.from = messages'[c][i-1].to /\ m.fdFrom = messages'[c][i-1].fdTo
      OBVIOUS
    <3>1. messages'[c][i-1] = messages[c][Len(messages[c])] /\ messages[c] # <<>>
      BY <1>4, <1>5
    <3> QED
      BY <1>1, <3>1, Totals
  <2>5. m.to =< Bytes(c)' /\ m.fdTo =< Descriptors(c)'
    BY <1>1 DEF Posting
  <2> QED
    BY <1>1, <2>1, <2>2, <2>3, <2>5 DEF PeerMessage
<1>6. CASE i # Len(messages[c]) + 1
  <2>1. i \in DOMAIN messages[c] /\ messages'[c][i] = messages[c][i]
    BY <1>4, <1>6
  <2>2. i > 1 => messages'[c][i-1] = messages[c][i-1]
    BY <1>4, <2>1
  <2>3. PeerMessage(c, i)
    BY <2>1
  <2>4. messages[c][i] \in Posting
    BY <1>4, <2>1
  <2>5. Bytes(c) =< Bytes(c)' /\ Descriptors(c) =< Descriptors(c)' /\ Bytes(c)' \in Nat
          /\ Descriptors(c)' \in Nat
    BY <1>1, <1>3, SizesAssumption DEF Posting
  <2>6. messages[c][i].to =< Bytes(c)' /\ messages[c][i].fdTo =< Descriptors(c)'
    BY <1>3, <2>3, <2>4, <2>5 DEF PeerMessage, Posting
  <2> QED
    BY <2>1, <2>2, <2>3, <2>6 DEF PeerMessage
<1> QED
  BY <1>5, <1>6

LEMMA WritePeer ==
  ASSUME PeerTypes, NEW c \in Conn, NEW size \in Size, NEW count \in Rights,
         Write(c, size, count), PeerInv(c)
  PROVE  PeerInv(c)'
<1> DEFINE m == Written(c, size, count)
<1>1. /\ m \in Posting /\ m.from = Bytes(c) /\ m.from < m.to
      /\ m.fdFrom = Descriptors(c) /\ m.fdFrom =< m.fdTo
      /\ messages' = [messages EXCEPT ![c] = Append(messages[c], m)]
      /\ Bytes(c)' = m.to /\ Descriptors(c)' = m.fdTo
      /\ Bytes(c)' =< MaxBytes[c] /\ Descriptors(c)' =< MaxFds[c]
  BY WriteAppends
<1>2. \A i \in DOMAIN messages'[c] : PeerMessage(c, i)'
  BY WriteMessages DEF PeerInv
<1>3. Bytes(c) \in Nat /\ Descriptors(c) \in Nat
  BY Totals
<1> HIDE DEF m
<1>4. messages[c] \in Seq(Posting) /\ messages'[c] = Append(messages[c], m)
  BY <1>1 DEF PeerTypes
<1>5. sent' = sent /\ attached' = attached /\ attached[c] \in Seq(Nat) /\ sent[c] \in Nat
  BY DEF Write, PeerTypes
<1>6. \A i, j \in DOMAIN messages'[c] :
        i < j => messages'[c][i].to =< messages'[c][j].from
  <2> SUFFICES ASSUME NEW i \in DOMAIN messages'[c], NEW j \in DOMAIN messages'[c],
                      i < j
               PROVE  messages'[c][i].to =< messages'[c][j].from
    OBVIOUS
  <2>1. i \in DOMAIN messages[c] /\ messages'[c][i] = messages[c][i]
    BY <1>4
  <2>2. CASE j \in DOMAIN messages[c]
    BY <1>4, <2>1, <2>2 DEF PeerInv
  <2>3. CASE j \notin DOMAIN messages[c]
    <3>1. messages'[c][j] = m
      BY <1>4, <2>3
    <3>2. PeerMessage(c, i)
      BY <2>1 DEF PeerInv
    <3> QED
      BY <1>1, <2>1, <3>1, <3>2 DEF PeerMessage
  <2> QED
    BY <2>2, <2>3
<1>7. sent[c] =< Bytes(c)' /\ Len(attached[c]) =< Descriptors(c)'
  <2>1. sent[c] =< Bytes(c) /\ Len(attached[c]) =< Descriptors(c)
    BY DEF PeerInv
  <2> QED
    BY <1>1, <1>3, <1>5, <2>1 DEF Posting
<1>8. PeerInv(c)'
  BY <1>1, <1>2, <1>5, <1>6, <1>7 DEF PeerInv
<1> QED
  BY <1>8

\* What a send attaches: all its descriptors travel with its first byte.
LEMMA SendAttaches ==
  ASSUME PeerTypes, NEW c \in Conn, NEW upto \in 1..MaxBytes[c],
         NEW last \in 0..MaxFds[c], Send(c, upto, last)
  PROVE  /\ upto \in Nat /\ last \in Nat /\ Len(attached[c]) \in Nat
         /\ sent[c] < upto /\ upto =< Bytes(c) /\ last =< Descriptors(c)
         /\ Len(attached[c]) =< last
         /\ attached'[c] \in Seq(Nat) /\ Len(attached'[c]) = last
         /\ DOMAIN attached'[c] = 1..last
         /\ \A f \in 1..last : attached'[c][f] =
              IF f =< Len(attached[c]) THEN attached[c][f] ELSE sent[c] + 1
         /\ sent'[c] = upto /\ messages' = messages
         /\ PeerTypes'
<1>1. attached[c] \in Seq(Nat) /\ sent[c] \in Nat
  BY DEF PeerTypes
<1>2. Len(attached[c]) =< last /\ last \in Nat /\ Len(attached[c]) \in Nat /\ upto \in Nat
  BY <1>1, SizesAssumption DEF Send
<1> DEFINE more == [i \in 1..(last - Len(attached[c])) |-> sent[c] + 1]
<1>3. last - Len(attached[c]) \in Nat
  BY <1>2
<1>4. more \in Seq(Nat) /\ Len(more) = last - Len(attached[c])
        /\ \A i \in 1..(last - Len(attached[c])) : more[i] = sent[c] + 1
  BY <1>1, <1>3
<1>5. attached' = [attached EXCEPT ![c] = attached[c] \o more]
  BY DEF Send
<1> HIDE DEF more
<1>6. attached'[c] = attached[c] \o more
  BY <1>5 DEF PeerTypes
<1>7. attached'[c] \in Seq(Nat) /\ Len(attached'[c]) = last
  BY <1>1, <1>2, <1>4, <1>6
<1>8. \A f \in 1..last : attached'[c][f] =
        IF f =< Len(attached[c]) THEN attached[c][f] ELSE sent[c] + 1
  BY <1>1, <1>2, <1>4, <1>6
<1>9. sent' = [sent EXCEPT ![c] = upto] /\ messages' = messages
        /\ sent[c] < upto /\ upto =< Bytes(c) /\ last =< Descriptors(c)
  BY DEF Send
<1>10. PeerTypes'
  BY <1>2, <1>5, <1>6, <1>7, <1>9 DEF PeerTypes
<1> QED
  BY <1>2, <1>7, <1>8, <1>9, <1>10 DEF PeerTypes

LEMMA SendPeer ==
  ASSUME PeerTypes, NEW c \in Conn, NEW upto \in 1..MaxBytes[c],
         NEW last \in 0..MaxFds[c], Send(c, upto, last), PeerInv(c)
  PROVE  PeerInv(c)'
<1>1. /\ upto \in Nat /\ last \in Nat /\ Len(attached[c]) \in Nat
      /\ sent[c] < upto /\ upto =< Bytes(c) /\ last =< Descriptors(c)
      /\ Len(attached[c]) =< last
      /\ attached'[c] \in Seq(Nat) /\ Len(attached'[c]) = last
      /\ DOMAIN attached'[c] = 1..last
      /\ \A f \in 1..last : attached'[c][f] =
           IF f =< Len(attached[c]) THEN attached[c][f] ELSE sent[c] + 1
      /\ sent'[c] = upto /\ messages' = messages
  BY SendAttaches
<1>2. attached[c] \in Seq(Nat) /\ sent[c] \in Nat /\ messages[c] \in Seq(Posting)
  BY DEF PeerTypes
<1>3. Bytes(c)' = Bytes(c) /\ Descriptors(c)' = Descriptors(c)
  BY <1>1 DEF Bytes, Descriptors
<1>4. \A f \in DOMAIN attached[c] : attached[c][f] =< sent[c]
  BY DEF PeerInv
<1>5. \A f \in DOMAIN attached'[c] : attached'[c][f] =< sent'[c]
  <2> SUFFICES ASSUME NEW f \in DOMAIN attached'[c]
               PROVE  attached'[c][f] =< upto
    BY <1>1
  <2>1. CASE f =< Len(attached[c])
    <3>1. f \in DOMAIN attached[c]
      BY <1>1, <1>2, <2>1
    <3>2. attached[c][f] \in Nat
      BY <1>2, <3>1
    <3> QED
      BY <1>1, <1>2, <1>4, <2>1, <3>1, <3>2
  <2>2. CASE ~(f =< Len(attached[c]))
    BY <1>1, <1>2, <2>2
  <2> QED
    BY <2>1, <2>2
<1>6. \A i \in DOMAIN messages[c] : PeerMessage(c, i)'
  BY <1>1, <1>3 DEF PeerInv, PeerMessage
<1>7. PeerInv(c)'
  BY <1>1, <1>3, <1>5, <1>6 DEF PeerInv
<1> QED
  BY <1>7

\* The peer's side as a whole: only its own steps change it.
PeerSide == PeerTypes /\ \A c \in Conn : PeerInv(c)

PeerStep ==
  \/ \E c \in Conn, size \in Size, count \in Rights : Write(c, size, count)
  \/ \E c \in Conn, upto \in Nat, last \in Nat :
       /\ upto \in 1..MaxBytes[c] /\ last \in 0..MaxFds[c]
       /\ Send(c, upto, last)
  \/ UNCHANGED <<messages, sent, attached>>

LEMMA PeerIsAlone == ASSUME Next PROVE PeerStep
<1>1. CASE \E c \in Conn, size \in Size, count \in Rights : Write(c, size, count)
  BY <1>1 DEF PeerStep
<1>2. ASSUME NEW c \in Conn, Sends(c) PROVE PeerStep
  <2>1. PICK upto \in 1..MaxBytes[c], last \in 0..MaxFds[c] : Send(c, upto, last)
    BY <1>2 DEF Sends
  <2>2. MaxBytes[c] \in Nat /\ MaxFds[c] \in Nat
    BY SizesAssumption
  <2>3. upto \in Nat /\ last \in Nat
    BY <2>2
  <2> QED
    BY <2>1, <2>3 DEF PeerStep
<1>3. ASSUME NEW c \in Conn,
             Hangup(c) \/ Receives(c) \/ KernelEnds(c) \/ KernelCancels(c)
      PROVE PeerStep
  BY <1>3 DEF Hangup, Receives, KernelReceives, KernelEnds, KernelCancels, peer, PeerStep
<1>4. ASSUME NEW c \in Conn, Completes(c) PROVE PeerStep
  BY <1>4 DEF Completes, Disconnected, Refused, Ingest, Discard, peer, PeerStep
<1>5. ASSUME NEW c \in Conn, Frames(c) PROVE PeerStep
  BY <1>5 DEF Frames, ReleaseLease, Borrow, Drained, Fragment, FillHeader,
              FillBody, Garbled, MessageTooLarge, Terminal, peer, PeerStep
<1>6. ASSUME NEW c \in Conn, Dispatches(c) PROVE PeerStep
  BY <1>6 DEF Dispatches, Handle, HandlerFails, Rejects, Empty, Terminal, peer, PeerStep
<1>7. ASSUME NEW c \in Conn, BeginClose(c) \/ Destroy(c) PROVE PeerStep
  BY <1>7 DEF BeginClose, Destroy, peer, PeerStep
<1>8. CASE Release
  BY <1>8 DEF Release, peer, PeerStep
<1> QED
  BY <1>1, <1>2, <1>3, <1>4, <1>5, <1>6, <1>7, <1>8 DEF Next

LEMMA PeerElsewhere ==
  ASSUME NEW c \in Conn, PeerInv(c),
         messages'[c] = messages[c], sent'[c] = sent[c], attached'[c] = attached[c]
  PROVE  PeerInv(c)'
<1>1. Bytes(c)' = Bytes(c) /\ Descriptors(c)' = Descriptors(c)
  BY DEF Bytes, Descriptors
<1>2. \A i \in DOMAIN messages[c] : PeerMessage(c, i)'
  BY <1>1 DEF PeerInv, PeerMessage
<1> QED
  BY <1>1, <1>2 DEF PeerInv

LEMMA PeerSideStays == ASSUME PeerSide, Next PROVE PeerSide'
<1>1. PeerStep
  BY PeerIsAlone
<1>2. ASSUME NEW c \in Conn, NEW size \in Size, NEW count \in Rights,
             Write(c, size, count)
      PROVE  PeerSide'
  <2>1. PeerTypes /\ PeerInv(c)
    BY DEF PeerSide
  <2>2. PeerTypes' /\ PeerInv(c)'
    BY <1>2, <2>1, WriteAppends, WritePeer
  <2>3. ASSUME NEW d \in Conn, d # c PROVE PeerInv(d)'
    <3>1. messages'[d] = messages[d] /\ sent'[d] = sent[d] /\ attached'[d] = attached[d]
      BY <1>2, <2>1, <2>3 DEF Write, PeerTypes
    <3>2. PeerInv(d)
      BY DEF PeerSide
    <3> QED
      BY <3>1, <3>2, PeerElsewhere
  <2> QED
    BY <2>2, <2>3 DEF PeerSide
<1>3. ASSUME NEW c \in Conn, NEW upto \in 1..MaxBytes[c], NEW last \in 0..MaxFds[c],
             Send(c, upto, last)
      PROVE  PeerSide'
  <2>1. PeerTypes /\ PeerInv(c)
    BY DEF PeerSide
  <2>2. PeerTypes' /\ PeerInv(c)'
    BY <1>3, <2>1, SendAttaches, SendPeer
  <2>3. ASSUME NEW d \in Conn, d # c PROVE PeerInv(d)'
    <3>1. messages'[d] = messages[d] /\ sent'[d] = sent[d] /\ attached'[d] = attached[d]
      BY <1>3, <2>1, <2>3 DEF Send, PeerTypes
    <3>2. PeerInv(d)
      BY DEF PeerSide
    <3> QED
      BY <3>1, <3>2, PeerElsewhere
  <2> QED
    BY <2>2, <2>3 DEF PeerSide
<1>4. CASE UNCHANGED <<messages, sent, attached>>
  <2>1. PeerTypes'
    BY <1>4 DEF PeerSide, PeerTypes
  <2>2. ASSUME NEW d \in Conn PROVE PeerInv(d)'
    BY <1>4, PeerElsewhere DEF PeerSide
  <2> QED
    BY <2>1, <2>2 DEF PeerSide
<1> QED
  BY <1>1, <1>2, <1>3, <1>4 DEF PeerStep

-----------------------------------------------------------------------------
(* The kernel. *)

KernelTypes ==
  /\ PeerTypes
  /\ read \in [Conn -> Nat] /\ passed \in [Conn -> Nat]
  /\ completions \in [Conn -> Seq(Cqe)]

\* A completion arrives at the end of the queue of c.
Arrives(c, k) ==
  /\ k \in Cqe /\ WellFormed(k)
  /\ k.from = read[c] /\ k.from =< k.to /\ k.to =< sent[c]
  /\ k.fdFrom = passed[c] /\ k.fdFrom =< k.fdTo /\ k.fdTo =< k.fdEnd
  /\ k.fdEnd =< Len(attached[c]) /\ Matches(c, k.fdEnd, k.to)
  /\ completions' = [completions EXCEPT ![c] = Append(completions[c], k)]
  /\ read' = [read EXCEPT ![c] = k.to]
  /\ passed' = [passed EXCEPT ![c] = k.fdEnd]
  /\ UNCHANGED <<messages, sent, attached>>

\* The oldest completion of c is handled.
Leaves(c) ==
  /\ completions[c] # <<>>
  /\ completions' = [completions EXCEPT ![c] = Tail(completions[c])]
  /\ UNCHANGED <<read, passed, messages, sent, attached>>

LEMMA UpTo ==
  ASSUME NEW x \in Nat, NEW y \in Nat, NEW z \in Nat, x =< y, y =< z
  PROVE  x =< z
  OBVIOUS

LEMMA NotAbove ==
  ASSUME NEW w \in Nat, NEW x \in Nat, NEW y \in Nat, NEW z \in Nat,
         w =< x, x =< y, y =< z
  PROVE  ~(z < w)
  OBVIOUS

LEMMA LeastIsBetween ==
  ASSUME NEW m \in Nat, NEW n \in Nat
  PROVE  Least(m, n) \in Nat /\ Least(m, n) =< m /\ Least(m, n) =< n
           /\ (Least(m, n) = m \/ Least(m, n) = n)
  BY DEF Least

LEMMA ReceivingArrives ==
  ASSUME KernelTypes, NEW c \in Conn, KernelInv(c), NEW b \in Buffer,
         NEW upto \in 1..MaxBytes[c], NEW last \in 0..MaxFds[c],
         KernelReceives(c, b, upto, last)
  PROVE  LET got == Least(last, passed[c] + ControlCapacity)
             k == Completion(c, b, upto, got, last)
         IN  /\ Arrives(c, k) /\ k.buffer = b /\ k.from < k.to
             /\ k.to = upto /\ k.fdTo = got /\ k.fdEnd = last
<1> DEFINE got == Least(last, passed[c] + ControlCapacity)
           k == Completion(c, b, upto, got, last)
<1>1. read[c] \in Nat /\ passed[c] \in Nat /\ attached[c] \in Seq(Nat)
        /\ sent[c] \in Nat /\ completions[c] \in Seq(Cqe)
  BY DEF KernelTypes, PeerTypes
<1>2. upto \in Nat /\ last \in Nat /\ ControlCapacity \in Nat
  BY SizesAssumption
<1>3. passed[c] =< last /\ last =< Len(attached[c])
        /\ read[c] < upto /\ upto =< sent[c]
        /\ \A f \in passed[c]+1..Len(attached[c]) : f =< last <=> attached[c][f] =< upto
  BY DEF KernelReceives
<1>4. got \in Nat /\ got =< last /\ passed[c] =< got
  <2>1. passed[c] + ControlCapacity \in Nat
    BY <1>1, <1>2
  <2>2. got \in Nat /\ got =< last /\ (got = last \/ got = passed[c] + ControlCapacity)
    BY <1>2, <2>1, LeastIsBetween
  <2> QED
    BY <1>1, <1>2, <1>3, <2>2
<1> HIDE DEF got
<1>5. k \in Cqe
  BY <1>1, <1>2, <1>4 DEF Completion, Cqe
<1>6. k.buffer = b /\ k.from = read[c] /\ k.to = upto /\ k.fdFrom = passed[c]
        /\ k.fdTo = got /\ k.fdEnd = last
  BY DEF Completion
<1>7. Matches(c, last, upto)
  <2> SUFFICES ASSUME NEW f \in DOMAIN attached[c]
               PROVE  f =< last <=> attached[c][f] =< upto
    BY DEF Matches
  <2>1. f \in Nat /\ f >= 1 /\ f =< Len(attached[c]) /\ attached[c][f] \in Nat
    <3>1. attached[c] \in Seq(Nat)
      BY <1>1
    <3> QED
      BY ONLY <3>1, f \in DOMAIN attached[c]
  <2>2. CASE f =< passed[c]
    <3>1. attached[c][f] =< read[c]
      BY <2>2 DEF KernelInv, Matches
    <3> QED
      BY <1>1, <1>2, <1>3, <2>1, <2>2, <3>1
  <2>3. CASE ~(f =< passed[c])
    <3>1. f \in passed[c]+1..Len(attached[c])
      BY <1>1, <2>1, <2>3
    <3> QED
      BY <1>3, <3>1
  <2> QED
    BY <2>2, <2>3
<1>8. /\ completions' = [completions EXCEPT ![c] = Append(completions[c], k)]
      /\ read' = [read EXCEPT ![c] = upto] /\ passed' = [passed EXCEPT ![c] = last]
      /\ UNCHANGED <<messages, sent, attached>>
  BY DEF KernelReceives, peer, got
<1>9. b # None /\ upto =< read[c] + BufferSize
  BY NamesAssumption DEF KernelReceives, Area
<1> HIDE DEF k
<1>10. WellFormed(k)
  BY <1>1, <1>2, <1>3, <1>4, <1>6, <1>9 DEF WellFormed, IsEnd
<1>11. Arrives(c, k)
  BY <1>1, <1>3, <1>4, <1>5, <1>6, <1>7, <1>8, <1>10 DEF Arrives
<1> QED
  BY <1>3, <1>6, <1>11 DEF k, got

LEMMA EndingArrives ==
  ASSUME KernelTypes, NEW c \in Conn, KernelInv(c), KernelEnds(c)
  PROVE  \E k \in Cqe :
           /\ Arrives(c, k)
           /\ k.from = read[c] /\ k.to = k.from
           /\ k.fdTo = passed[c] /\ k.fdEnd = passed[c]
           /\ completions' = [completions EXCEPT ![c] = Append(completions[c], k)]
           /\ \/ k.buffer = None /\ ring' = ring
              \/ /\ k.buffer \in Buffer /\ ring[k.buffer] > 0
                 /\ ring' = [ring EXCEPT ![k.buffer] = ring[k.buffer] - 1]
<1>1. PICK b \in Buffer \cup {None} :
        /\ completions' = [completions EXCEPT ![c] = Append(completions[c],
             Completion(c, b, read[c], passed[c], passed[c]))]
        /\ b # None => ring[b] > 0
        /\ ring' = IF b = None THEN ring ELSE [ring EXCEPT ![b] = ring[b] - 1]
  BY DEF KernelEnds
<1> DEFINE k == Completion(c, b, read[c], passed[c], passed[c])
<1>2. read[c] \in Nat /\ passed[c] \in Nat /\ attached[c] \in Seq(Nat)
        /\ sent[c] \in Nat /\ completions[c] \in Seq(Cqe)
  BY DEF KernelTypes, PeerTypes
<1>3. k \in Cqe
  BY <1>2 DEF Completion, Cqe
<1>4. k.buffer = b /\ k.from = read[c] /\ k.to = read[c] /\ k.fdFrom = passed[c]
        /\ k.fdTo = passed[c] /\ k.fdEnd = passed[c]
  BY DEF Completion
<1>5. Matches(c, passed[c], read[c]) /\ read[c] =< sent[c]
        /\ passed[c] =< Len(attached[c])
  BY DEF KernelInv
<1>6. /\ completions' = [completions EXCEPT ![c] = Append(completions[c], k)]
      /\ read' = [read EXCEPT ![c] = read[c]] /\ passed' = [passed EXCEPT ![c] = passed[c]]
      /\ UNCHANGED <<messages, sent, attached>>
  BY <1>1 DEF KernelEnds, peer, KernelTypes
<1> HIDE DEF k
<1>7. WellFormed(k)
  BY <1>2, <1>4, SizesAssumption DEF WellFormed, IsEnd
<1>8. Arrives(c, k)
  BY <1>2, <1>3, <1>4, <1>5, <1>6, <1>7 DEF Arrives
<1> QED
  BY <1>1, <1>3, <1>4, <1>6, <1>8

LEMMA MatchesStays ==
  ASSUME KernelTypes, NEW c \in Conn, NEW fd \in Nat, NEW byte \in Nat,
         NEW upto \in 1..MaxBytes[c], NEW last \in 0..MaxFds[c],
         Send(c, upto, last), fd =< Len(attached[c]), byte =< sent[c],
         Matches(c, fd, byte)
  PROVE  Matches(c, fd, byte)'
<1>1. /\ upto \in Nat /\ last \in Nat /\ Len(attached[c]) \in Nat
      /\ DOMAIN attached'[c] = 1..last
      /\ \A f \in 1..last : attached'[c][f] =
           IF f =< Len(attached[c]) THEN attached[c][f] ELSE sent[c] + 1
  BY SendAttaches DEF KernelTypes
<1>2. attached[c] \in Seq(Nat) /\ sent[c] \in Nat
  BY DEF KernelTypes, PeerTypes
<1> SUFFICES ASSUME NEW f \in 1..last
             PROVE  f =< fd <=> attached'[c][f] =< byte
  BY <1>1 DEF Matches
<1>3. CASE f =< Len(attached[c])
  <2>1. f \in DOMAIN attached[c]
    BY <1>2, <1>3
  <2>2. attached'[c][f] = attached[c][f]
    BY <1>1, <1>3
  <2> QED
    BY <2>1, <2>2 DEF Matches
<1>4. CASE ~(f =< Len(attached[c]))
  <2>1. attached'[c][f] = sent[c] + 1
    BY <1>1, <1>4
  <2> QED
    BY <1>1, <1>2, <1>4, <2>1
<1> QED
  BY <1>3, <1>4

LEMMA ArrivalKernel ==
  ASSUME KernelTypes, NEW c \in Conn, KernelInv(c), NEW k, Arrives(c, k)
  PROVE  /\ KernelTypes' /\ KernelInv(c)'
         /\ completions'[c] = Append(completions[c], k)
         /\ read'[c] = k.to /\ passed'[c] = k.fdEnd
         /\ read[c] =< read'[c] /\ passed[c] =< passed'[c]
<1>1. read[c] \in Nat /\ passed[c] \in Nat /\ attached[c] \in Seq(Nat)
        /\ sent[c] \in Nat /\ completions[c] \in Seq(Cqe)
  BY DEF KernelTypes, PeerTypes
<1>2. k \in Cqe /\ WellFormed(k) /\ k.from = read[c] /\ k.from =< k.to /\ k.to =< sent[c]
        /\ k.fdFrom = passed[c] /\ k.fdFrom =< k.fdTo /\ k.fdTo =< k.fdEnd
        /\ k.fdEnd =< Len(attached[c]) /\ Matches(c, k.fdEnd, k.to)
  BY DEF Arrives
<1>3. k.from \in Nat /\ k.to \in Nat /\ k.fdFrom \in Nat /\ k.fdTo \in Nat /\ k.fdEnd \in Nat
  BY <1>2 DEF Cqe
<1>4. completions'[c] = Append(completions[c], k) /\ read'[c] = k.to
        /\ passed'[c] = k.fdEnd /\ sent'[c] = sent[c] /\ attached'[c] = attached[c]
  BY DEF Arrives, KernelTypes
<1>5. KernelTypes'
  BY <1>2, <1>3 DEF Arrives, KernelTypes, PeerTypes
<1>6. \A i \in DOMAIN completions'[c] :
        \/ i \in DOMAIN completions[c] /\ completions'[c][i] = completions[c][i]
        \/ i = Len(completions[c]) + 1 /\ completions'[c][i] = k
  BY <1>1, <1>4
<1>7. ASSUME NEW i \in DOMAIN completions[c]
      PROVE  /\ CqeInv(c, i)
             /\ completions[c][i].to =< read[c] /\ completions[c][i].fdEnd =< passed[c]
             /\ completions[c][i].to \in Nat /\ completions[c][i].fdEnd \in Nat
  <2>1. completions[c][i] \in Cqe
    BY <1>1
  <2> QED
    BY <2>1 DEF KernelInv, CqeInv, Cqe
<1>8. ASSUME NEW i \in DOMAIN completions'[c]
      PROVE  CqeInv(c, i)'
  <2>1. CASE i \in DOMAIN completions[c] /\ completions'[c][i] = completions[c][i]
    <3>1. read[c] =< read'[c] /\ passed[c] =< passed'[c]
      BY <1>1, <1>2, <1>3, <1>4
    <3>2. CqeInv(c, i)
      BY <1>7, <2>1
    <3>3. completions[c][i].to \in Nat /\ completions[c][i].to =< read[c]
            /\ completions[c][i].fdEnd \in Nat /\ completions[c][i].fdEnd =< passed[c]
      BY <1>7, <2>1
    <3>4. read'[c] \in Nat /\ passed'[c] \in Nat
      BY <1>3, <1>4
    <3>5. completions[c][i].to =< read'[c]
      BY <1>1, <3>1, <3>3, <3>4, UpTo
    <3>6. completions[c][i].fdEnd =< passed'[c]
      BY <1>1, <3>1, <3>3, <3>4, UpTo
    <3> QED
      BY <1>4, <2>1, <3>2, <3>5, <3>6 DEF CqeInv, Matches
  <2>2. CASE completions'[c][i] = k
    <3>1. Matches(c, passed[c], read[c])
      BY DEF KernelInv
    <3>2. k.to =< read'[c] /\ k.fdEnd =< passed'[c]
      BY <1>3, <1>4
    <3> QED
      BY <1>2, <1>4, <2>2, <3>1, <3>2 DEF CqeInv, Matches
  <2> QED
    BY <1>6, <2>1, <2>2
<1>9. Len(completions'[c]) = Len(completions[c]) + 1
  BY <1>1, <1>4
<1>10. ASSUME NEW i \in DOMAIN completions'[c]
       PROVE  /\ i = Len(completions'[c]) => /\ completions'[c][i].to = read'[c]
                                             /\ completions'[c][i].fdEnd = passed'[c]
              /\ i < Len(completions'[c]) =>
                   /\ completions'[c][i].to = completions'[c][i+1].from
                   /\ completions'[c][i].fdEnd = completions'[c][i+1].fdFrom
  <2>1. CASE i = Len(completions[c]) + 1
    BY <1>1, <1>4, <1>9, <2>1
  <2>2. CASE i = Len(completions[c])
    <3>1. completions'[c][i] = completions[c][i] /\ completions'[c][i+1] = k
            /\ i \in DOMAIN completions[c]
      BY <1>1, <1>4, <2>2
    <3>2. completions[c][i].to = read[c] /\ completions[c][i].fdEnd = passed[c]
      BY <2>2, <3>1 DEF KernelInv
    <3> QED
      BY <1>1, <1>2, <1>9, <2>2, <3>1, <3>2
  <2>3. CASE i # Len(completions[c]) /\ i # Len(completions[c]) + 1
    <3>1. completions'[c][i] = completions[c][i] /\ completions'[c][i+1] = completions[c][i+1]
            /\ i \in DOMAIN completions[c] /\ i < Len(completions[c])
      BY <1>1, <1>4, <2>3
    <3>2. completions[c][i].to = completions[c][i+1].from
            /\ completions[c][i].fdEnd = completions[c][i+1].fdFrom
      BY <3>1 DEF KernelInv
    <3> QED
      BY <1>1, <1>9, <2>3, <3>1, <3>2
  <2> QED
    BY <2>1, <2>2, <2>3
<1>11. ASSUME NEW i \in DOMAIN completions'[c], NEW j \in DOMAIN completions'[c], i < j
       PROVE  completions'[c][i].fdEnd =< completions'[c][j].fdFrom
  <2>1. i \in DOMAIN completions[c] /\ completions'[c][i] = completions[c][i]
    BY <1>1, <1>4, <1>11
  <2>2. CASE j \in DOMAIN completions[c] /\ completions'[c][j] = completions[c][j]
    BY <1>11, <2>1, <2>2 DEF KernelInv
  <2>3. CASE completions'[c][j] = k
    BY <1>1, <1>2, <1>7, <2>1, <2>3
  <2> QED
    BY <1>6, <2>2, <2>3
<1>12. Matches(c, passed[c], read[c])' /\ read'[c] =< sent'[c]
         /\ passed'[c] =< Len(attached'[c])
  BY <1>2, <1>4 DEF Matches
<1>13. KernelInv(c)'
  BY Zenon, <1>8, <1>10, <1>11, <1>12 DEF KernelInv
<1> QED
  BY <1>1, <1>2, <1>3, <1>4, <1>5, <1>13

LEMMA LeavingKernel ==
  ASSUME KernelTypes, NEW c \in Conn, KernelInv(c), Leaves(c)
  PROVE  /\ KernelTypes' /\ KernelInv(c)'
         /\ completions'[c] = Tail(completions[c])
         /\ completions[c][1] \in Cqe /\ CqeInv(c, 1)
         /\ Head(completions[c]) = completions[c][1]
         /\ NextByte(c)' = completions[c][1].to
         /\ NextFd(c)' = completions[c][1].fdEnd
         /\ NextByte(c) = completions[c][1].from
         /\ NextFd(c) = completions[c][1].fdFrom
<1>1. completions[c] \in Seq(Cqe) /\ completions[c] # <<>>
  BY DEF KernelTypes, Leaves
<1>2. completions'[c] = Tail(completions[c]) /\ UNCHANGED <<read, passed, messages, sent, attached>>
  BY DEF KernelTypes, Leaves
<1>3. KernelTypes'
  BY <1>1, <1>2 DEF KernelTypes, PeerTypes, Leaves
<1>4. Len(completions'[c]) = Len(completions[c]) - 1
        /\ \A i \in DOMAIN completions'[c] :
             /\ i + 1 \in DOMAIN completions[c]
             /\ completions'[c][i] = completions[c][i+1]
  BY <1>1, <1>2
<1>5. \A i \in DOMAIN completions[c] :
       /\ CqeInv(c, i)
       /\ i = Len(completions[c]) => /\ completions[c][i].to = read[c]
                                     /\ completions[c][i].fdEnd = passed[c]
       /\ i < Len(completions[c]) =>
            /\ completions[c][i].to = completions[c][i+1].from
            /\ completions[c][i].fdEnd = completions[c][i+1].fdFrom
  BY DEF KernelInv
<1>6. ASSUME NEW i \in DOMAIN completions'[c]
      PROVE  /\ CqeInv(c, i)'
             /\ i = Len(completions'[c]) => /\ completions'[c][i].to = read'[c]
                                            /\ completions'[c][i].fdEnd = passed'[c]
             /\ i < Len(completions'[c]) =>
                  /\ completions'[c][i].to = completions'[c][i+1].from
                  /\ completions'[c][i].fdEnd = completions'[c][i+1].fdFrom
  <2>1. CqeInv(c, i)'
    <3>1. CqeInv(c, i+1) /\ completions'[c][i] = completions[c][i+1]
      BY <1>4, <1>5
    <3> QED
      BY <1>2, <3>1 DEF CqeInv, Matches
  <2>2. i < Len(completions'[c]) => completions'[c][i+1] = completions[c][i+2]
    BY <1>1, <1>2, <1>4
  <2>3. i = Len(completions'[c]) => i + 1 = Len(completions[c])
    BY <1>1, <1>4
  <2>4. i < Len(completions'[c]) => i + 1 < Len(completions[c]) /\ i + 1 + 1 = i + 2
    BY <1>1, <1>4
  <2> QED
    BY <1>2, <1>4, <1>5, <2>1, <2>2, <2>3, <2>4
<1>7. ASSUME NEW i \in DOMAIN completions'[c], NEW j \in DOMAIN completions'[c], i < j
      PROVE  completions'[c][i].fdEnd =< completions'[c][j].fdFrom
  <2>1. i + 1 \in DOMAIN completions[c] /\ j + 1 \in DOMAIN completions[c] /\ i + 1 < j + 1
          /\ completions'[c][i] = completions[c][i+1] /\ completions'[c][j] = completions[c][j+1]
    BY <1>1, <1>2, <1>4, <1>7
  <2> QED
    BY <2>1 DEF KernelInv
<1>8. KernelInv(c)'
  <2>1. /\ read'[c] =< sent'[c] /\ passed'[c] =< Len(attached'[c])
        /\ Matches(c, passed[c], read[c])'
    BY <1>2 DEF KernelInv, Matches
  <2> QED
    BY Zenon, <1>6, <1>7, <2>1 DEF KernelInv
<1>9. 1 \in DOMAIN completions[c] /\ Head(completions[c]) = completions[c][1]
        /\ completions[c][1] \in Cqe
  BY <1>1
<1>10. NextByte(c) = completions[c][1].from /\ NextFd(c) = completions[c][1].fdFrom
  BY <1>1 DEF NextByte, NextFd
<1>11. NextByte(c)' = completions[c][1].to /\ NextFd(c)' = completions[c][1].fdEnd
  <2>1. CASE completions'[c] = <<>>
    <3>1. Len(completions[c]) = 1
      BY <1>1, <1>4, <2>1
    <3> QED
      BY <1>2, <1>5, <1>9, <2>1, <3>1 DEF NextByte, NextFd
  <2>2. CASE completions'[c] # <<>>
    <3>1. completions'[c][1] = completions[c][2] /\ 1 < Len(completions[c])
      BY <1>1, <1>2, <2>2
    <3> QED
      BY <1>2, <1>5, <1>9, <2>2, <3>1 DEF NextByte, NextFd
  <2> QED
    BY <2>1, <2>2
<1> QED
  BY <1>2, <1>3, <1>5, <1>8, <1>9, <1>10, <1>11

\* What the queue of completions starts with is where a new one changes
\* nothing.
LEMMA ArrivalAtTheEnd ==
  ASSUME KernelTypes, NEW c \in Conn, NEW k, Arrives(c, k)
  PROVE  NextByte(c)' = NextByte(c) /\ NextFd(c)' = NextFd(c)
<1>1. completions[c] \in Seq(Cqe) /\ completions'[c] = Append(completions[c], k)
  BY DEF Arrives, KernelTypes
<1>2. k.from = read[c] /\ k.fdFrom = passed[c]
  BY DEF Arrives
<1>3. completions'[c] # <<>> /\ completions'[c][1] =
        IF completions[c] = <<>> THEN k ELSE completions[c][1]
  BY <1>1
<1> QED
  BY <1>2, <1>3 DEF NextByte, NextFd

LEMMA SendKernel ==
  ASSUME KernelTypes, NEW c \in Conn, KernelInv(c),
         NEW upto \in 1..MaxBytes[c], NEW last \in 0..MaxFds[c],
         Send(c, upto, last)
  PROVE  KernelTypes' /\ KernelInv(c)'
<1>1. /\ upto \in Nat /\ last \in Nat /\ Len(attached[c]) \in Nat
      /\ sent[c] < upto /\ Len(attached[c]) =< last
      /\ Len(attached'[c]) = last /\ sent'[c] = upto /\ PeerTypes'
  BY SendAttaches DEF KernelTypes
<1>2. read[c] \in Nat /\ passed[c] \in Nat /\ sent[c] \in Nat /\ completions[c] \in Seq(Cqe)
  BY DEF KernelTypes, PeerTypes
<1>3. UNCHANGED <<read, passed, completions>>
  BY DEF Send, kernel
<1>4. read[c] =< sent[c] /\ passed[c] =< Len(attached[c]) /\ Matches(c, passed[c], read[c])
  BY DEF KernelInv
<1>5. Matches(c, passed[c], read[c])'
  <2>1. PICK fd \in Nat, byte \in Nat : fd = passed[c] /\ byte = read[c]
    BY <1>2
  <2>2. Matches(c, fd, byte)'
    BY <1>4, <2>1, MatchesStays
  <2> QED
    BY <1>3, <2>1, <2>2 DEF Matches
<1>6. ASSUME NEW i \in DOMAIN completions[c] PROVE CqeInv(c, i)'
  <2> DEFINE k == completions[c][i]
  <2>1. CqeInv(c, i)
    BY DEF KernelInv
  <2>2. k \in Cqe
    BY <1>2
  <2>3. k.from \in Nat /\ k.to \in Nat /\ k.fdFrom \in Nat /\ k.fdTo \in Nat /\ k.fdEnd \in Nat
    BY <2>2 DEF Cqe
  <2>4. k.fdFrom =< Len(attached[c]) /\ k.from =< sent[c]
    <3>1. k.from =< k.to /\ k.to =< read[c] /\ k.fdFrom =< k.fdTo /\ k.fdTo =< k.fdEnd
            /\ k.fdEnd =< passed[c]
      BY <2>1 DEF CqeInv
    <3> HIDE DEF k
    <3>2. k.fdFrom =< passed[c] /\ k.from =< read[c]
      BY <1>2, <2>3, <3>1
    <3> QED
      BY <1>1, <1>2, <1>4, <2>3, <3>2
  <2>5. Matches(c, k.fdFrom, k.from)
    BY <2>1 DEF CqeInv
  <2> HIDE DEF k
  <2>6. PICK fd \in Nat, byte \in Nat : fd = k.fdFrom /\ byte = k.from
    BY <2>3
  <2>7. Matches(c, fd, byte)'
    BY <2>4, <2>5, <2>6, MatchesStays
  <2> QED
    BY <1>3, <2>1, <2>6, <2>7 DEF CqeInv, Matches, k
<1>7. KernelTypes'
  BY <1>1, <1>3 DEF KernelTypes
<1> QED
  BY <1>1, <1>2, <1>3, <1>4, <1>5, <1>6, <1>7 DEF KernelInv

\* The kernel's side as a whole: sends, arrivals and completions that are
\* handled change it.
KernelSide ==
  PeerSide /\ KernelTypes /\ \A c \in Conn : KernelInv(c)

KernelStep ==
  \/ \E c \in Conn, upto \in Nat, last \in Nat :
       /\ upto \in 1..MaxBytes[c] /\ last \in 0..MaxFds[c]
       /\ Send(c, upto, last)
  \/ \E c \in Conn, k \in Cqe : Arrives(c, k)
  \/ \E c \in Conn : Leaves(c)
  \/ UNCHANGED <<read, passed, completions, sent, attached>>

LEMMA KernelIsAlone == ASSUME KernelSide, Next PROVE KernelStep
<1>1. CASE \E c \in Conn, size \in Size, count \in Rights : Write(c, size, count)
  BY <1>1 DEF Write, kernel, KernelStep
<1>2. ASSUME NEW c \in Conn, Sends(c) PROVE KernelStep
  <2>1. PICK upto \in 1..MaxBytes[c], last \in 0..MaxFds[c] : Send(c, upto, last)
    BY <1>2 DEF Sends
  <2>2. MaxBytes[c] \in Nat /\ MaxFds[c] \in Nat
    BY SizesAssumption
  <2>3. upto \in Nat /\ last \in Nat
    BY <2>2
  <2> QED
    BY <2>1, <2>3 DEF KernelStep
<1>3. ASSUME NEW c \in Conn, Receives(c) PROVE KernelStep
  <2>1. PICK b \in Buffer, upto \in 1..MaxBytes[c], last \in 0..MaxFds[c] :
          KernelReceives(c, b, upto, last)
    BY <1>3 DEF Receives
  <2>2. KernelTypes /\ KernelInv(c)
    BY DEF KernelSide
  <2>3. \E k : Arrives(c, k)
    BY <2>1, <2>2, ReceivingArrives
  <2> QED
    BY <2>3 DEF KernelStep, Arrives
<1>4. ASSUME NEW c \in Conn, KernelEnds(c) PROVE KernelStep
  <2>1. KernelTypes /\ KernelInv(c)
    BY DEF KernelSide
  <2>2. \E k : Arrives(c, k)
    BY <1>4, <2>1, EndingArrives
  <2> QED
    BY <2>2 DEF KernelStep, Arrives
<1>5. ASSUME NEW c \in Conn, Hangup(c) \/ KernelCancels(c) PROVE KernelStep
  BY <1>5 DEF Hangup, KernelCancels, peer, kernel, KernelStep
<1>6. ASSUME NEW c \in Conn, Completes(c) PROVE KernelStep
  <2>1. Leaves(c)
    BY <1>6 DEF Completes, Disconnected, Refused, Ingest, Discard, Pending, Dropped,
                Leaves, peer
  <2> QED
    BY <2>1 DEF KernelStep
<1>7. ASSUME NEW c \in Conn, Frames(c) PROVE KernelStep
  BY <1>7 DEF Frames, ReleaseLease, Borrow, Drained, Fragment, FillHeader,
              FillBody, Garbled, MessageTooLarge, Terminal, peer, kernel, KernelStep
<1>8. ASSUME NEW c \in Conn, Dispatches(c) PROVE KernelStep
  BY <1>8 DEF Dispatches, Handle, HandlerFails, Rejects, Empty, Terminal, peer, kernel,
              KernelStep
<1>9. ASSUME NEW c \in Conn, BeginClose(c) \/ Destroy(c) PROVE KernelStep
  BY <1>9 DEF BeginClose, Destroy, peer, kernel, KernelStep
<1>10. CASE Release
  BY <1>10 DEF Release, peer, KernelStep
<1> QED
  BY <1>1, <1>2, <1>3, <1>4, <1>5, <1>6, <1>7, <1>8, <1>9, <1>10 DEF Next

LEMMA KernelElsewhere ==
  ASSUME NEW c \in Conn, KernelInv(c), sent'[c] = sent[c], attached'[c] = attached[c],
         read'[c] = read[c], passed'[c] = passed[c], completions'[c] = completions[c]
  PROVE  KernelInv(c)'
<1>1. Matches(c, passed[c], read[c])' /\ \A i \in DOMAIN completions[c] : CqeInv(c, i)'
  BY DEF KernelInv, CqeInv, Matches
<1> QED
  BY <1>1 DEF KernelInv

LEMMA KernelSideStays == ASSUME KernelSide, Next PROVE KernelSide'
<1>1. KernelStep /\ PeerSide'
  BY KernelIsAlone, PeerSideStays DEF KernelSide
<1>2. ASSUME NEW c \in Conn, NEW upto \in 1..MaxBytes[c], NEW last \in 0..MaxFds[c],
             Send(c, upto, last)
      PROVE  KernelSide'
  <2>1. KernelTypes /\ KernelInv(c)
    BY DEF KernelSide
  <2>2. KernelTypes' /\ KernelInv(c)'
    BY <1>2, <2>1, SendKernel
  <2>3. ASSUME NEW d \in Conn, d # c PROVE KernelInv(d)'
    <3>1. /\ sent'[d] = sent[d] /\ attached'[d] = attached[d]
          /\ read'[d] = read[d] /\ passed'[d] = passed[d] /\ completions'[d] = completions[d]
      BY <1>2, <2>1, <2>3 DEF Send, KernelTypes, PeerTypes, kernel
    <3> QED
      BY <3>1, KernelElsewhere DEF KernelSide
  <2> QED
    BY <1>1, <2>2, <2>3 DEF KernelSide
<1>3. ASSUME NEW c \in Conn, NEW k \in Cqe, Arrives(c, k) PROVE KernelSide'
  <2>1. KernelTypes /\ KernelInv(c)
    BY DEF KernelSide
  <2>2. KernelTypes' /\ KernelInv(c)'
    BY <1>3, <2>1, ArrivalKernel
  <2>3. ASSUME NEW d \in Conn, d # c PROVE KernelInv(d)'
    <3>1. /\ sent'[d] = sent[d] /\ attached'[d] = attached[d]
          /\ read'[d] = read[d] /\ passed'[d] = passed[d] /\ completions'[d] = completions[d]
      BY <1>3, <2>1, <2>3 DEF Arrives, KernelTypes, PeerTypes
    <3> QED
      BY <3>1, KernelElsewhere DEF KernelSide
  <2> QED
    BY <1>1, <2>2, <2>3 DEF KernelSide
<1>4. ASSUME NEW c \in Conn, Leaves(c) PROVE KernelSide'
  <2>1. KernelTypes /\ KernelInv(c)
    BY DEF KernelSide
  <2>2. KernelTypes' /\ KernelInv(c)'
    BY <1>4, <2>1, LeavingKernel
  <2>3. ASSUME NEW d \in Conn, d # c PROVE KernelInv(d)'
    <3>1. /\ sent'[d] = sent[d] /\ attached'[d] = attached[d]
          /\ read'[d] = read[d] /\ passed'[d] = passed[d] /\ completions'[d] = completions[d]
      BY <1>4, <2>1, <2>3 DEF Leaves, KernelTypes, PeerTypes
    <3> QED
      BY <3>1, KernelElsewhere DEF KernelSide
  <2> QED
    BY <1>1, <2>2, <2>3 DEF KernelSide
<1>5. CASE UNCHANGED <<read, passed, completions, sent, attached>>
  <2>1. KernelTypes'
    BY <1>1, <1>5 DEF KernelSide, KernelTypes, PeerSide
  <2>2. ASSUME NEW d \in Conn PROVE KernelInv(d)'
    BY <1>5, KernelElsewhere DEF KernelSide
  <2> QED
    BY <1>1, <2>1, <2>2 DEF KernelSide
<1> QED
  BY <1>1, <1>2, <1>3, <1>4, <1>5 DEF KernelStep

-----------------------------------------------------------------------------
(* The descriptors. *)

RightsTypes ==
  /\ fds \in [Conn -> Seq(Nat)]
  /\ DOMAIN released = Conn /\ \A c \in Conn : released[c] \in [Fd(c) -> Nat]
  /\ phase \in [Conn -> Phase] /\ armed \in [Conn -> BOOLEAN]

LEMMA FdsAreNumbers == ASSUME NEW c \in Conn, NEW f \in Fd(c) PROVE f \in Nat /\ f >= 1
<1>1. MaxFds[c] \in Nat
  BY SizesAssumption
<1> QED
  BY <1>1 DEF Fd

LEMMA NextBounds ==
  ASSUME KernelTypes, NEW c \in Conn, KernelInv(c)
  PROVE  /\ NextFd(c) \in Nat /\ NextFd(c) =< passed[c] /\ passed[c] \in Nat
         /\ NextByte(c) \in Nat /\ NextByte(c) =< read[c] /\ read[c] \in Nat
         /\ \A i \in DOMAIN completions[c] :
              /\ completions[c][i] \in Cqe
              /\ completions[c][i].fdFrom \in Nat /\ completions[c][i].fdTo \in Nat
              /\ completions[c][i].fdEnd \in Nat
              /\ completions[c][i].fdFrom =< completions[c][i].fdTo
              /\ completions[c][i].fdTo =< completions[c][i].fdEnd
              /\ completions[c][i].fdEnd =< passed[c]
              /\ NextFd(c) =< completions[c][i].fdFrom
<1>1. read[c] \in Nat /\ passed[c] \in Nat /\ completions[c] \in Seq(Cqe)
  BY DEF KernelTypes
<1>2. ASSUME NEW i \in DOMAIN completions[c]
      PROVE  /\ completions[c][i] \in Cqe /\ CqeInv(c, i)
             /\ completions[c][i].from \in Nat /\ completions[c][i].to \in Nat
             /\ completions[c][i].fdFrom \in Nat /\ completions[c][i].fdTo \in Nat
             /\ completions[c][i].fdEnd \in Nat
             /\ completions[c][i].from =< completions[c][i].to
             /\ completions[c][i].to =< read[c]
             /\ completions[c][i].fdFrom =< completions[c][i].fdTo
             /\ completions[c][i].fdTo =< completions[c][i].fdEnd
             /\ completions[c][i].fdEnd =< passed[c]
  <2>1. completions[c][i] \in Cqe /\ CqeInv(c, i)
    BY <1>1 DEF KernelInv
  <2> QED
    BY <2>1 DEF CqeInv, Cqe
<1>3. CASE completions[c] = <<>>
  BY <1>1, <1>3 DEF NextFd, NextByte
<1>4. CASE completions[c] # <<>>
  <2>1. 1 \in DOMAIN completions[c] /\ NextFd(c) = completions[c][1].fdFrom
          /\ NextByte(c) = completions[c][1].from
    BY <1>1, <1>4 DEF NextFd, NextByte
  <2>2. /\ NextFd(c) \in Nat /\ completions[c][1].fdTo \in Nat /\ completions[c][1].fdEnd \in Nat
        /\ NextFd(c) =< completions[c][1].fdTo
        /\ completions[c][1].fdTo =< completions[c][1].fdEnd
        /\ completions[c][1].fdEnd =< passed[c]
        /\ NextByte(c) \in Nat /\ completions[c][1].to \in Nat
        /\ NextByte(c) =< completions[c][1].to /\ completions[c][1].to =< read[c]
    BY <1>2, <2>1
  <2>3. NextFd(c) =< completions[c][1].fdEnd
    BY <2>2, UpTo
  <2>4. NextFd(c) =< passed[c] /\ NextByte(c) =< read[c]
    BY <1>1, <2>2, <2>3, UpTo
  <2>5. ASSUME NEW i \in DOMAIN completions[c] PROVE NextFd(c) =< completions[c][i].fdFrom
    <3>1. CASE i = 1
      BY <1>2, <2>1, <3>1
    <3>2. CASE i # 1
      <4>1. 1 < i
        BY <1>1, <3>2
      <4>2. completions[c][1].fdEnd =< completions[c][i].fdFrom
        BY <2>1, <4>1 DEF KernelInv
      <4> QED
        BY <1>2, <2>2, <2>3, <4>2, UpTo
    <3> QED
      BY <3>1, <3>2
  <2> QED
    BY <1>1, <1>2, <2>2, <2>4, <2>5
<1> QED
  BY <1>3, <1>4

\* The descriptors first+1..last of c are closed in a step.
Counts(c, first, last) ==
  \A f \in Fd(c) : released'[c][f] =
    IF first < f /\ f =< last THEN released[c][f] + 1 ELSE released[c][f]

LEMMA CountedCounts ==
  ASSUME RightsTypes, NEW c \in Conn, NEW first, NEW last,
         released' = [released EXCEPT ![c] = Counted(released[c], first, last)]
  PROVE  Counts(c, first, last)
<1>1. released[c] \in [Fd(c) -> Nat] /\ c \in DOMAIN released
  BY DEF RightsTypes
<1>2. released'[c] = Counted(released[c], first, last)
  BY <1>1
<1> QED
  BY <1>1, <1>2 DEF Counts, Counted

LEMMA NoneCounts ==
  ASSUME RightsTypes, NEW c \in Conn, NEW n \in Nat, released'[c] = released[c]
  PROVE  Counts(c, n, n)
<1> SUFFICES ASSUME NEW f \in Fd(c) PROVE ~(n < f /\ f =< n)
  BY DEF Counts
<1> QED
  BY FdsAreNumbers

\* What is true of one descriptor.
PlaceInv(c, f) ==
  /\ f =< NextFd(c) => released[c][f] = IF f \in ToSet(fds[c]) THEN 0 ELSE 1
  /\ f > passed[c] => released[c][f] = 0
  /\ NextFd(c) < f /\ f =< passed[c] =>
       \E i \in DOMAIN completions[c] :
         completions[c][i].fdFrom < f /\ f =< completions[c][i].fdEnd
  /\ \A i \in DOMAIN completions[c] :
       /\ completions[c][i].fdFrom < f /\ f =< completions[c][i].fdTo => released[c][f] = 0
       /\ completions[c][i].fdTo < f /\ f =< completions[c][i].fdEnd => released[c][f] = 1

LEMMA OwnerElsewhere ==
  ASSUME NEW c \in Conn, OwnerInv(c),
         fds'[c] = fds[c], released'[c] = released[c],
         completions'[c] = completions[c], passed'[c] = passed[c],
         phase'[c] = "gone" => phase[c] = "gone", armed'[c] => armed[c]
  PROVE  OwnerInv(c)'
<1>1. NextFd(c)' = NextFd(c)
  BY DEF NextFd
<1>2. \A f \in Fd(c) : PlaceInv(c, f)'
  BY <1>1 DEF PlaceInv, OwnerInv
<1> QED
  BY <1>1, <1>2 DEF OwnerInv

LEMMA OwnerArrives ==
  ASSUME KernelTypes, RightsTypes, NEW c \in Conn, KernelInv(c), OwnerInv(c),
         NEW k, Arrives(c, k), Counts(c, k.fdTo, k.fdEnd), fds'[c] = fds[c],
         phase'[c] = phase[c], phase[c] # "gone"
  PROVE  OwnerInv(c)'
<1>1. /\ NextFd(c) \in Nat /\ NextFd(c) =< passed[c] /\ passed[c] \in Nat
      /\ \A i \in DOMAIN completions[c] :
           /\ completions[c][i].fdFrom \in Nat /\ completions[c][i].fdTo \in Nat
           /\ completions[c][i].fdEnd \in Nat
           /\ completions[c][i].fdTo =< completions[c][i].fdEnd
           /\ completions[c][i].fdEnd =< passed[c]
  BY NextBounds
<1>2. /\ k.fdFrom = passed[c] /\ k.fdFrom =< k.fdTo /\ k.fdTo =< k.fdEnd
      /\ k.fdTo \in Nat /\ k.fdEnd \in Nat
      /\ completions[c] \in Seq(Cqe)
      /\ completions'[c] = Append(completions[c], k) /\ passed'[c] = k.fdEnd
  BY DEF Arrives, KernelTypes, Cqe
<1>3. NextFd(c)' = NextFd(c)
  BY ArrivalAtTheEnd
<1>4. /\ Len(completions[c]) + 1 \in DOMAIN completions'[c]
      /\ completions'[c][Len(completions[c]) + 1] = k
      /\ \A i \in DOMAIN completions[c] :
           i \in DOMAIN completions'[c] /\ completions'[c][i] = completions[c][i]
      /\ \A i \in DOMAIN completions'[c] :
           i \in DOMAIN completions[c] \/ completions'[c][i] = k
  BY <1>2
<1>5. ASSUME NEW f \in Fd(c) PROVE PlaceInv(c, f)'
  <2>1. f \in Nat
    BY FdsAreNumbers
  <2>2. released'[c][f] =
          IF k.fdTo < f /\ f =< k.fdEnd THEN released[c][f] + 1 ELSE released[c][f]
    BY DEF Counts
  <2>3. PlaceInv(c, f)
    BY DEF OwnerInv, PlaceInv
  <2>4. f =< NextFd(c) => released'[c][f] = IF f \in ToSet(fds[c]) THEN 0 ELSE 1
    <3>1. f =< NextFd(c) => ~(k.fdTo < f)
      BY <1>1, <1>2, <2>1
    <3> QED
      BY <2>2, <2>3, <3>1 DEF PlaceInv
  <2>5. f > passed'[c] => released'[c][f] = 0
    <3>1. f > k.fdEnd => f > passed[c] /\ ~(f =< k.fdEnd)
      BY <1>1, <1>2, <2>1
    <3> QED
      BY <1>2, <2>2, <2>3, <3>1 DEF PlaceInv
  <2>6. NextFd(c) < f /\ f =< passed'[c] =>
         \E i \in DOMAIN completions'[c] :
           completions'[c][i].fdFrom < f /\ f =< completions'[c][i].fdEnd
    <3>1. CASE f =< passed[c]
      BY <1>4, <2>3, <3>1 DEF PlaceInv
    <3>2. CASE ~(f =< passed[c])
      <4>1. k.fdFrom < f
        BY <1>1, <1>2, <2>1, <3>2
      <4> QED
        BY <1>2, <1>4, <4>1
    <3> QED
      BY <3>1, <3>2
  <2>7. ASSUME NEW i \in DOMAIN completions'[c]
        PROVE  /\ completions'[c][i].fdFrom < f /\ f =< completions'[c][i].fdTo =>
                    released'[c][f] = 0
               /\ completions'[c][i].fdTo < f /\ f =< completions'[c][i].fdEnd =>
                    released'[c][f] = 1
    <3>1. CASE i \in DOMAIN completions[c]
      <4>1. completions'[c][i] = completions[c][i]
        BY <1>4, <3>1
      <4>2. passed[c] =< k.fdTo
        BY <1>2
      <4>3. f =< completions[c][i].fdEnd => ~(k.fdTo < f)
        BY <1>1, <1>2, <2>1, <3>1, <4>2, NotAbove
      <4>4. f =< completions[c][i].fdTo => f =< completions[c][i].fdEnd
        BY <1>1, <2>1, <3>1, UpTo
      <4> QED
        BY <2>2, <2>3, <3>1, <4>1, <4>3, <4>4 DEF PlaceInv
    <3>2. CASE completions'[c][i] = k
      <4>1. k.fdFrom < f => released[c][f] = 0
        <5>1. k.fdFrom < f => f > passed[c]
          BY <1>1, <1>2, <2>1
        <5> QED
          BY <2>3, <5>1 DEF PlaceInv
      <4>2. k.fdTo < f => k.fdFrom < f
        BY <1>1, <1>2, <2>1
      <4>3. f =< k.fdTo => ~(k.fdTo < f)
        BY <1>2, <2>1
      <4> QED
        BY <2>2, <3>2, <4>1, <4>2, <4>3
    <3> QED
      BY <1>4, <3>1, <3>2
  <2> QED
    BY <1>3, <2>4, <2>5, <2>6, <2>7 DEF PlaceInv
<1>6. IsInjective(fds[c]) /\ \A i \in DOMAIN fds[c] : 1 =< fds[c][i] /\ fds[c][i] =< NextFd(c)
  BY DEF OwnerInv
<1> QED
  BY <1>3, <1>5, <1>6 DEF OwnerInv, PlaceInv

\* What follows for the descriptors when the oldest completion is handled:
\* those it brought have a place, the others stay where they are.
LEMMA OwnerLeaves ==
  ASSUME KernelTypes, RightsTypes, NEW c \in Conn, KernelInv(c), OwnerInv(c), Leaves(c),
         passed'[c] = passed[c],
         \A f \in Fd(c) :
           /\ f > completions[c][1].fdEnd => released'[c][f] = released[c][f]
           /\ f =< completions[c][1].fdEnd =>
                released'[c][f] = IF f \in ToSet(fds'[c]) THEN 0 ELSE 1,
         IsInjective(fds'[c]),
         \A i \in DOMAIN fds'[c] :
           1 =< fds'[c][i] /\ fds'[c][i] =< completions[c][1].fdEnd,
         phase'[c] = "gone" => phase[c] = "gone"
  PROVE  OwnerInv(c)'
<1>1. /\ completions'[c] = Tail(completions[c])
      /\ NextFd(c)' = completions[c][1].fdEnd
      /\ completions[c] \in Seq(Cqe) /\ completions[c] # <<>>
  BY LeavingKernel DEF KernelTypes, Leaves
<1>2. /\ passed[c] \in Nat
      /\ \A i \in DOMAIN completions[c] :
           /\ completions[c][i].fdFrom \in Nat /\ completions[c][i].fdTo \in Nat
           /\ completions[c][i].fdEnd \in Nat
           /\ completions[c][i].fdFrom =< completions[c][i].fdTo
           /\ completions[c][i].fdEnd =< passed[c]
  BY NextBounds
<1>3. 1 \in DOMAIN completions[c]
  BY <1>1
<1>4. PICK end \in Nat : end = completions[c][1].fdEnd
  BY <1>2, <1>3
<1>5. ASSUME NEW i \in DOMAIN completions'[c]
      PROVE  /\ i + 1 \in DOMAIN completions[c] /\ completions'[c][i] = completions[c][i+1]
             /\ end =< completions[c][i+1].fdFrom
  <2>1. i + 1 \in DOMAIN completions[c] /\ completions'[c][i] = completions[c][i+1]
          /\ 1 < i + 1
    BY <1>1
  <2> QED
    BY <1>3, <1>4, <2>1 DEF KernelInv
<1>6. ASSUME NEW i \in DOMAIN completions[c], i # 1
      PROVE  i - 1 \in DOMAIN completions'[c] /\ completions'[c][i-1] = completions[c][i]
  BY <1>1, <1>6
<1>7. ASSUME NEW f \in Fd(c) PROVE PlaceInv(c, f)'
  <2>1. f \in Nat
    BY FdsAreNumbers
  <2>2. PlaceInv(c, f)
    BY DEF OwnerInv, PlaceInv
  <2>3. /\ f > end => released'[c][f] = released[c][f]
        /\ f =< end => released'[c][f] = IF f \in ToSet(fds'[c]) THEN 0 ELSE 1
    BY <1>4
  <2>4. f > passed[c] => released'[c][f] = 0
    <3>1. f > passed[c] => f > end
      BY <1>2, <1>3, <1>4, <2>1
    <3> QED
      BY <2>2, <2>3, <3>1 DEF PlaceInv
  <2>5. end < f /\ f =< passed[c] =>
          \E i \in DOMAIN completions'[c] :
            completions'[c][i].fdFrom < f /\ f =< completions'[c][i].fdEnd
    <3> SUFFICES ASSUME end < f, f =< passed[c]
                 PROVE  \E i \in DOMAIN completions'[c] :
                          completions'[c][i].fdFrom < f /\ f =< completions'[c][i].fdEnd
      OBVIOUS
    <3>1. NextFd(c) \in Nat /\ NextFd(c) =< end
      <4>1. NextFd(c) = completions[c][1].fdFrom
        BY LeavingKernel
      <4>2. WellFormed(completions[c][1])
        BY <1>3 DEF KernelInv, CqeInv
      <4>3. completions[c][1].fdFrom \in Nat /\ completions[c][1].fdTo \in Nat
        BY <1>2, <1>3
      <4> QED
        BY <1>4, <4>1, <4>2, <4>3, UpTo DEF WellFormed
    <3>2. NextFd(c) < f
      BY <2>1, <3>1
    <3>3. PICK i \in DOMAIN completions[c] :
            completions[c][i].fdFrom < f /\ f =< completions[c][i].fdEnd
      BY <2>2, <3>2 DEF PlaceInv
    <3>4. i # 1
      BY <1>4, <2>1, <3>3
    <3> QED
      BY <1>6, <3>3, <3>4
  <2>6. ASSUME NEW i \in DOMAIN completions'[c]
        PROVE  /\ completions'[c][i].fdFrom < f /\ f =< completions'[c][i].fdTo =>
                    released'[c][f] = 0
               /\ completions'[c][i].fdTo < f /\ f =< completions'[c][i].fdEnd =>
                    released'[c][f] = 1
    <3>1. i + 1 \in DOMAIN completions[c] /\ completions'[c][i] = completions[c][i+1]
            /\ end =< completions[c][i+1].fdFrom
      BY <1>5
    <3>2. PICK from \in Nat : from = completions[c][i+1].fdFrom
      BY <1>2, <3>1
    <3>3. PICK to \in Nat : to = completions[c][i+1].fdTo
      BY <1>2, <3>1
    <3>4. end =< from /\ from =< to
      BY <1>2, <3>1, <3>2, <3>3
    <3>5. from < f \/ to < f => f > end
      BY <2>1, <3>4
    <3> QED
      BY <2>2, <2>3, <3>1, <3>2, <3>3, <3>5 DEF PlaceInv
  <2> QED
    BY <1>1, <1>4, <2>3, <2>4, <2>5, <2>6 DEF PlaceInv
<1>8. phase'[c] # "gone"
  BY <1>1 DEF OwnerInv
<1> QED
  BY <1>1, <1>7, <1>8 DEF OwnerInv, PlaceInv

\* The descriptors of a completion that is refused are closed.
LEMMA OwnerDiscards ==
  ASSUME KernelTypes, RightsTypes, NEW c \in Conn, KernelInv(c), OwnerInv(c), Leaves(c),
         Counts(c, completions[c][1].fdFrom, completions[c][1].fdTo),
         fds'[c] = fds[c], phase'[c] = "gone" => phase[c] = "gone"
  PROVE  OwnerInv(c)'
<1>1. /\ 1 \in DOMAIN completions[c] /\ NextFd(c) = completions[c][1].fdFrom
      /\ passed'[c] = passed[c]
  <2>1. completions[c] \in Seq(Cqe) /\ completions[c] # <<>> /\ passed'[c] = passed[c]
    BY DEF Leaves, KernelTypes
  <2>2. NextFd(c) = completions[c][1].fdFrom
    BY LeavingKernel
  <2> QED
    BY <2>1, <2>2
<1>2. PICK from \in Nat : from = completions[c][1].fdFrom
  BY <1>1, NextBounds
<1>3. PICK to \in Nat : to = completions[c][1].fdTo
  BY <1>1, NextBounds
<1>4. PICK end \in Nat : end = completions[c][1].fdEnd
  BY <1>1, NextBounds
<1>5. from =< to /\ to =< end /\ end =< passed[c] /\ passed[c] \in Nat
  BY <1>1, <1>2, <1>3, <1>4, NextBounds
<1>6. ASSUME NEW f \in Fd(c)
      PROVE  /\ f > end => released'[c][f] = released[c][f]
             /\ f =< end => released'[c][f] = IF f \in ToSet(fds[c]) THEN 0 ELSE 1
  <2>1. f \in Nat
    BY FdsAreNumbers
  <2>2. PlaceInv(c, f)
    BY DEF OwnerInv, PlaceInv
  <2>3. released'[c][f] = IF from < f /\ f =< to THEN released[c][f] + 1 ELSE released[c][f]
    BY <1>2, <1>3 DEF Counts
  <2>4. f > end => ~(f =< to)
    BY <1>5, <2>1
  <2>5. CASE f =< from
    <3>1. ~(from < f) /\ f =< NextFd(c)
      BY <1>1, <1>2, <2>1, <2>5
    <3> QED
      BY <2>2, <2>3, <2>4, <3>1 DEF PlaceInv
  <2>6. CASE from < f /\ f =< end
    <3>1. f \notin ToSet(fds[c])
      <4> SUFFICES ASSUME NEW i \in DOMAIN fds[c] PROVE fds[c][i] # f
        BY DEF ToSet
      <4>1. fds[c][i] =< from
        BY <1>1, <1>2 DEF OwnerInv
      <4> QED
        BY <2>1, <2>6, <4>1
    <3>2. /\ f =< to => released[c][f] = 0
          /\ to < f => released[c][f] = 1
      BY <1>1, <1>2, <1>3, <1>4, <2>2, <2>6 DEF PlaceInv
    <3>3. CASE f =< to
      BY <2>3, <2>4, <2>6, <3>1, <3>2, <3>3
    <3>4. CASE ~(f =< to)
      <4>1. to < f
        BY <2>1, <3>4
      <4> QED
        BY <2>3, <2>4, <2>6, <3>1, <3>2, <3>4, <4>1
    <3> QED
      BY <3>3, <3>4
  <2>7. CASE f > end
    BY <1>5, <2>1, <2>3, <2>4, <2>7
  <2> QED
    BY <1>5, <2>1, <2>5, <2>6, <2>7
<1>7. ASSUME NEW i \in DOMAIN fds[c] PROVE 1 =< fds[c][i] /\ fds[c][i] =< end
  <2>1. fds[c][i] \in Nat
    BY DEF RightsTypes
  <2>2. 1 =< fds[c][i] /\ fds[c][i] =< from
    BY <1>1, <1>2 DEF OwnerInv
  <2> QED
    BY <1>5, <2>1, <2>2
<1>8. IsInjective(fds[c])
  BY DEF OwnerInv
<1> QED
  BY <1>1, <1>4, <1>6, <1>7, <1>8, OwnerLeaves

\* A sequence of numbers followed by count consecutive ones.
Continues(s, t, from, count) ==
  /\ t \in Seq(Nat) /\ Len(t) = Len(s) + count
  /\ \A i \in 1..Len(s) : t[i] = s[i] /\ i \in DOMAIN t
  /\ \A i \in 1..count : t[Len(s) + i] = from + i /\ Len(s) + i \in DOMAIN t
  /\ \A i \in DOMAIN t : i \in 1..Len(s) \/ \E j \in 1..count : i = Len(s) + j

LEMMA Consecutive ==
  ASSUME NEW s \in Seq(Nat), NEW from \in Nat, NEW count \in Nat
  PROVE  Continues(s, s \o [i \in 1..count |-> from + i], from, count)
<1> DEFINE new == [i \in 1..count |-> from + i]
<1>1. new \in Seq(Nat) /\ Len(new) = count /\ \A i \in 1..count : new[i] = from + i
  OBVIOUS
<1> HIDE DEF new
<1>2. s \o new \in Seq(Nat) /\ Len(s \o new) = Len(s) + count
        /\ DOMAIN (s \o new) = 1..(Len(s) + count)
  BY <1>1
<1>3. \A i \in 1..Len(s) : (s \o new)[i] = s[i] /\ i \in DOMAIN (s \o new)
  BY <1>1
<1>4. ASSUME NEW i \in 1..count
      PROVE  (s \o new)[Len(s) + i] = from + i /\ Len(s) + i \in DOMAIN (s \o new)
  BY <1>1
<1>5. ASSUME NEW i \in DOMAIN (s \o new)
      PROVE  i \in 1..Len(s) \/ \E j \in 1..count : i = Len(s) + j
  <2>1. i \in 1..Len(s) \/ (i - Len(s) \in 1..count /\ i = Len(s) + (i - Len(s)))
    BY <1>2
  <2> QED
    BY <2>1
<1>6. Continues(s, s \o new, from, count)
  BY <1>2, <1>3, <1>4, <1>5 DEF Continues
<1> QED
  BY <1>6 DEF new

\* The descriptors of a completion are queued behind the others.
LEMMA OwnerIngests ==
  ASSUME KernelTypes, RightsTypes, NEW c \in Conn, KernelInv(c), OwnerInv(c), Leaves(c),
         ~Truncated(completions[c][1]),
         fds'[c] = fds[c] \o
           [i \in 1..(completions[c][1].fdTo - completions[c][1].fdFrom) |->
              completions[c][1].fdFrom + i],
         released'[c] = released[c], phase'[c] = "gone" => phase[c] = "gone"
  PROVE  OwnerInv(c)'
<1>1. /\ 1 \in DOMAIN completions[c] /\ NextFd(c) = completions[c][1].fdFrom
      /\ passed'[c] = passed[c]
  <2>1. completions[c] \in Seq(Cqe) /\ completions[c] # <<>> /\ passed'[c] = passed[c]
    BY DEF Leaves, KernelTypes
  <2>2. NextFd(c) = completions[c][1].fdFrom
    BY LeavingKernel
  <2> QED
    BY <2>1, <2>2
<1>2. PICK from \in Nat : from = completions[c][1].fdFrom
  BY <1>1, NextBounds
<1>3. PICK to \in Nat : to = completions[c][1].fdTo
  BY <1>1, NextBounds
<1>4. PICK end \in Nat : end = completions[c][1].fdEnd
  BY <1>1, NextBounds
<1>5. from =< to /\ to =< end /\ end =< passed[c] /\ passed[c] \in Nat
  BY <1>1, <1>2, <1>3, <1>4, NextBounds
<1>6. to = end
  BY <1>3, <1>4, <1>5 DEF Truncated
<1>7. PICK count \in Nat : count = to - from /\ from + count = end
  BY <1>5, <1>6
<1>8. fds[c] \in Seq(Nat) /\ fds'[c] = fds[c] \o [i \in 1..count |-> from + i]
  BY <1>2, <1>3, <1>7 DEF RightsTypes
<1>9. PICK n \in Nat : n = Len(fds[c]) /\ DOMAIN fds[c] = 1..n
  <2>1. fds[c] \in Seq(Nat)
    BY <1>8
  <2> QED
    BY ONLY <2>1
<1>10. /\ \A i \in 1..n : fds'[c][i] = fds[c][i] /\ i \in DOMAIN fds'[c]
       /\ \A i \in 1..count : fds'[c][n + i] = from + i /\ n + i \in DOMAIN fds'[c]
       /\ \A i \in DOMAIN fds'[c] : i \in 1..n \/ \E j \in 1..count : i = n + j
  <2>1. Continues(fds[c], fds'[c], from, count)
    BY <1>8, Consecutive
  <2> QED
    BY <1>9, <2>1 DEF Continues
<1>11. ASSUME NEW i \in 1..n
       PROVE  fds[c][i] \in Nat /\ 1 =< fds[c][i] /\ fds[c][i] =< from
  <2>1. i \in DOMAIN fds[c]
    BY <1>9
  <2>2. fds[c][i] \in Nat
    BY <1>8, <2>1
  <2> QED
    BY <1>1, <1>2, <2>1, <2>2 DEF OwnerInv
<1>12. IsInjective(fds'[c])
  <2> SUFFICES ASSUME NEW i \in DOMAIN fds'[c], NEW j \in DOMAIN fds'[c],
                      fds'[c][i] = fds'[c][j]
               PROVE  i = j
    BY DEF IsInjective
  <2>1. CASE i \in 1..n /\ j \in 1..n
    BY <1>9, <1>10, <2>1 DEF OwnerInv, IsInjective
  <2>2. ASSUME i \in 1..n, NEW m \in 1..count, j = n + m PROVE FALSE
    <3>1. fds[c][i] = from + m
      BY <1>10, <2>2
    <3> QED
      BY <1>11, <2>2, <3>1
  <2>3. ASSUME j \in 1..n, NEW m \in 1..count, i = n + m PROVE FALSE
    <3>1. fds[c][j] = from + m
      BY <1>10, <2>3
    <3> QED
      BY <1>11, <2>3, <3>1
  <2>4. ASSUME NEW l \in 1..count, i = n + l, NEW m \in 1..count, j = n + m PROVE i = j
    <3>1. from + l = from + m
      BY <1>10, <2>4
    <3> QED
      BY <2>4, <3>1
  <2> QED
    BY <1>10, <2>1, <2>2, <2>3, <2>4
<1>13. ASSUME NEW i \in DOMAIN fds'[c] PROVE 1 =< fds'[c][i] /\ fds'[c][i] =< end
  <2>1. CASE i \in 1..n
    <3>1. fds[c][i] \in Nat /\ 1 =< fds[c][i] /\ fds[c][i] =< from /\ fds'[c][i] = fds[c][i]
      BY <1>10, <1>11, <2>1
    <3> QED
      BY <1>5, <1>6, <3>1, UpTo
  <2>2. ASSUME NEW m \in 1..count, i = n + m PROVE 1 =< fds'[c][i] /\ fds'[c][i] =< end
    <3>1. fds'[c][i] = from + m
      BY <1>10, <2>2
    <3>2. 1 =< from + m /\ from + m =< end
      BY <1>7
    <3> QED
      BY <3>1, <3>2
  <2> QED
    BY <1>10, <2>1, <2>2
<1>14. ASSUME NEW f \in Fd(c)
       PROVE  f =< end => released[c][f] = IF f \in ToSet(fds'[c]) THEN 0 ELSE 1
  <2>1. f \in Nat
    BY FdsAreNumbers
  <2>2. PlaceInv(c, f)
    BY DEF OwnerInv, PlaceInv
  <2>3. CASE f =< from
    <3>1. ASSUME NEW i \in DOMAIN fds[c], fds[c][i] = f PROVE f \in ToSet(fds'[c])
      <4>1. i \in DOMAIN fds'[c] /\ fds'[c][i] = f
        BY <1>9, <1>10, <3>1
      <4> QED
        BY <4>1 DEF ToSet
    <3>2. ASSUME NEW i \in DOMAIN fds'[c], fds'[c][i] = f PROVE f \in ToSet(fds[c])
      <4>1. CASE i \in 1..n
        <5>1. i \in DOMAIN fds[c] /\ fds[c][i] = f
          BY <1>9, <1>10, <3>2, <4>1
        <5> QED
          BY <5>1 DEF ToSet
      <4>2. ASSUME NEW m \in 1..count, i = n + m PROVE FALSE
        <5>1. f = from + m
          BY <1>10, <3>2, <4>2
        <5> QED
          BY <2>3, <5>1
      <4> QED
        BY <1>10, <4>1, <4>2
    <3>3. f \in ToSet(fds[c]) <=> f \in ToSet(fds'[c])
      BY <3>1, <3>2 DEF ToSet
    <3> QED
      BY <1>1, <1>2, <2>2, <2>3, <3>3 DEF PlaceInv
  <2>4. CASE from < f /\ f =< end
    <3>1. released[c][f] = 0
      BY <1>1, <1>2, <1>3, <1>6, <2>2, <2>4 DEF PlaceInv
    <3>2. f - from \in 1..count /\ from + (f - from) = f
      BY <1>7, <2>1, <2>4
    <3>3. \E i \in DOMAIN fds'[c] : fds'[c][i] = f
      BY <1>10, <3>2
    <3>4. f \in ToSet(fds'[c])
      BY <3>3 DEF ToSet
    <3> QED
      BY <3>1, <3>4
  <2> QED
    BY <2>1, <2>3, <2>4
<1>15. \A f \in Fd(c) :
         /\ f > end => released'[c][f] = released[c][f]
         /\ f =< end => released'[c][f] = IF f \in ToSet(fds'[c]) THEN 0 ELSE 1
  BY <1>14
<1> QED
  BY <1>1, <1>4, <1>12, <1>13, <1>15, OwnerLeaves

\* The oldest descriptors leave the queue; all of them do when c is gone.
LEMMA OwnerTakes ==
  ASSUME KernelTypes, RightsTypes, NEW c \in Conn, KernelInv(c), OwnerInv(c),
         NEW n \in Nat, n =< Len(fds[c]),
         fds'[c] = SubSeq(fds[c], n + 1, Len(fds[c])),
         \A f \in Fd(c) : released'[c][f] =
           IF \E i \in 1..n : fds[c][i] = f THEN released[c][f] + 1 ELSE released[c][f],
         completions'[c] = completions[c], passed'[c] = passed[c], armed'[c] = armed[c],
         phase'[c] = "gone" /\ phase[c] # "gone" =>
           fds'[c] = <<>> /\ completions[c] = <<>> /\ ~armed[c]
  PROVE  OwnerInv(c)'
<1>1. NextFd(c) \in Nat /\ passed[c] \in Nat /\ NextFd(c) =< passed[c]
        /\ \A i \in DOMAIN completions[c] :
             /\ completions[c][i].fdFrom \in Nat /\ completions[c][i].fdTo \in Nat
             /\ NextFd(c) =< completions[c][i].fdFrom
             /\ completions[c][i].fdFrom =< completions[c][i].fdTo
  BY NextBounds
<1>2. NextFd(c)' = NextFd(c)
  BY DEF NextFd
<1> DEFINE l == Len(fds[c])
<1>3. fds[c] \in Seq(Nat) /\ l \in Nat
  BY DEF RightsTypes
<1>4. /\ DOMAIN fds'[c] = 1..(l - n)
      /\ \A i \in 1..(l - n) : i + n \in 1..l /\ fds'[c][i] = fds[c][i + n]
  BY <1>3
<1>5. DOMAIN fds[c] = 1..l /\ \A i \in 1..l : fds[c][i] \in Nat
  BY <1>3
<1>6. n =< l
  OBVIOUS
<1> HIDE DEF l
<1>7. \A i, j \in 1..l : fds[c][i] = fds[c][j] => i = j
  BY <1>5 DEF OwnerInv, IsInjective
<1>8. \A i \in 1..l : 1 =< fds[c][i] /\ fds[c][i] =< NextFd(c)
  BY <1>5 DEF OwnerInv
<1>9. IsInjective(fds'[c])
  <2> SUFFICES ASSUME NEW i \in 1..(l - n), NEW j \in 1..(l - n), fds'[c][i] = fds'[c][j]
               PROVE  i = j
    BY <1>4 DEF IsInjective
  <2>1. /\ i + n \in 1..l /\ j + n \in 1..l
        /\ fds[c][i + n] = fds[c][j + n]
    BY <1>4
  <2>2. i + n = j + n
    BY <1>7, <2>1
  <2> QED
    BY <2>2
<1>10. \A i \in DOMAIN fds'[c] : 1 =< fds'[c][i] /\ fds'[c][i] =< NextFd(c)
  BY <1>4, <1>8
<1>11. ASSUME NEW f \in Fd(c), f \notin ToSet(fds[c])
       PROVE  released'[c][f] = released[c][f] /\ f \notin ToSet(fds'[c])
  <2>1. ASSUME NEW i \in 1..l PROVE fds[c][i] # f
    BY <1>5, <1>11 DEF ToSet
  <2>2. ~ \E i \in 1..n : fds[c][i] = f
    <3>1. \A i \in 1..n : i \in 1..l
      BY <1>3, <1>6
    <3> QED
      BY <2>1, <3>1
  <2>3. ASSUME NEW i \in DOMAIN fds'[c] PROVE fds'[c][i] # f
    <3>1. i + n \in 1..l /\ fds'[c][i] = fds[c][i + n]
      BY <1>4
    <3> QED
      BY <2>1, <3>1
  <2>4. f \notin ToSet(fds'[c])
    BY <2>3 DEF ToSet
  <2> QED
    BY <2>2, <2>4
<1>12. ASSUME NEW f \in Fd(c), f \in ToSet(fds[c])
       PROVE  /\ f =< NextFd(c)
              /\ released'[c][f] = IF f \in ToSet(fds'[c]) THEN 0 ELSE 1
  <2>1. PICK k \in 1..l : fds[c][k] = f
    BY <1>5, <1>12 DEF ToSet
  <2>2. f =< NextFd(c)
    BY <1>8, <2>1
  <2>3. released[c][f] = 0
    BY <1>12, <2>2 DEF OwnerInv
  <2>4. CASE k =< n
    <3>1. \E i \in 1..n : fds[c][i] = f
      BY <2>1, <2>4
    <3>2. f \notin ToSet(fds'[c])
      <4> SUFFICES ASSUME NEW i \in 1..(l - n), fds'[c][i] = f PROVE FALSE
        BY <1>4 DEF ToSet
      <4>1. i + n \in 1..l /\ fds[c][i + n] = fds[c][k]
        BY <1>4, <2>1
      <4>2. k = i + n
        BY <1>7, <4>1
      <4> QED
        BY <2>4, <4>2
    <3> QED
      BY <2>2, <2>3, <3>1, <3>2
  <2>5. CASE k > n
    <3>1. ~ \E i \in 1..n : fds[c][i] = f
      <4> SUFFICES ASSUME NEW i \in 1..n, fds[c][i] = f PROVE FALSE
        OBVIOUS
      <4>1. i \in 1..l
        BY <1>3, <1>6
      <4>2. i = k
        BY <1>7, <2>1, <4>1
      <4> QED
        BY <2>5, <4>2
    <3>2. f \in ToSet(fds'[c])
      <4>1. k - n \in 1..(l - n) /\ (k - n) + n = k
        BY <1>3, <1>6, <2>5
      <4>2. fds'[c][k - n] = f
        BY <1>4, <2>1, <4>1
      <4> QED
        BY <1>4, <4>1, <4>2 DEF ToSet
    <3> QED
      BY <2>2, <2>3, <3>1, <3>2
  <2> QED
    BY <2>4, <2>5
<1>13. ASSUME NEW f \in Fd(c) PROVE PlaceInv(c, f)'
  <2>1. f \in Nat
    BY FdsAreNumbers
  <2>2. PlaceInv(c, f)
    BY DEF OwnerInv, PlaceInv
  <2>3. CASE f \in ToSet(fds[c])
    <3>1. f =< NextFd(c) /\ released'[c][f] = IF f \in ToSet(fds'[c]) THEN 0 ELSE 1
      BY <1>12, <2>3
    <3>2. ~(f > passed[c]) /\ ~(NextFd(c) < f)
      BY <1>1, <2>1, <3>1
    <3>3. ASSUME NEW i \in DOMAIN completions[c]
          PROVE  ~(completions[c][i].fdFrom < f) /\ ~(completions[c][i].fdTo < f)
      <4>1. completions[c][i].fdFrom \in Nat /\ completions[c][i].fdTo \in Nat
              /\ NextFd(c) =< completions[c][i].fdFrom
              /\ completions[c][i].fdFrom =< completions[c][i].fdTo
        BY <1>1
      <4>2. NextFd(c) =< completions[c][i].fdTo
        BY <1>1, <4>1, UpTo
      <4> QED
        BY <1>1, <2>1, <3>1, <4>1, <4>2, NotAbove
    <3> QED
      BY <1>2, <3>1, <3>2, <3>3 DEF PlaceInv
  <2>4. CASE f \notin ToSet(fds[c])
    <3>1. released'[c][f] = released[c][f] /\ f \notin ToSet(fds'[c])
      BY <1>11, <2>4
    <3> QED
      BY <1>2, <2>2, <2>4, <3>1 DEF PlaceInv
  <2> QED
    BY <2>3, <2>4
<1>14. phase'[c] = "gone" => fds'[c] = <<>> /\ completions'[c] = <<>> /\ ~armed'[c]
  <2>1. phase[c] = "gone" => fds[c] = <<>> /\ completions[c] = <<>> /\ ~armed[c]
    BY DEF OwnerInv
  <2>2. fds[c] = <<>> => fds'[c] = <<>>
    BY <1>3
  <2> QED
    BY <2>1, <2>2
<1> QED
  BY <1>2, <1>9, <1>10, <1>13, <1>14 DEF OwnerInv, PlaceInv

\* A terminal result closes an open connection and leaves the others.
LEMMA EndsPhase ==
  ASSUME phase \in [Conn -> Phase], NEW c \in Conn, Ends(c)
  PROVE  /\ phase' \in [Conn -> Phase] /\ phase'[c] # "open"
         /\ \A d \in Conn : /\ phase'[d] = "gone" => phase[d] = "gone"
                            /\ phase[d] = "gone" => phase'[d] = "gone"
                            /\ d # c => phase'[d] = phase[d]
  BY DEF Ends, Phase

\* A step that only c takes part in: nothing else happens to descriptors.
OwnerAlone(c) ==
  \A d \in Conn \ {c} :
    /\ fds'[d] = fds[d] /\ released'[d] = released[d]
    /\ completions'[d] = completions[d] /\ passed'[d] = passed[d]
    /\ phase'[d] = "gone" => phase[d] = "gone"
    /\ armed'[d] => armed[d]

OwnerSide == RightsTypes /\ \A c \in Conn : OwnerInv(c)

LEMMA OwnerOthers ==
  ASSUME NEW c \in Conn, OwnerSide, OwnerAlone(c), OwnerInv(c)'
  PROVE  \A d \in Conn : OwnerInv(d)'
<1> SUFFICES ASSUME NEW d \in Conn, d # c PROVE OwnerInv(d)'
  OBVIOUS
<1> QED
  BY OwnerElsewhere DEF OwnerAlone, OwnerSide

LEMMA OwnerQuiet ==
  ASSUME OwnerSide, UNCHANGED <<fds, released, completions, passed>>,
         \A d \in Conn : /\ phase'[d] = "gone" => phase[d] = "gone"
                         /\ armed'[d] => armed[d]
  PROVE  \A d \in Conn : OwnerInv(d)'
  BY OwnerElsewhere DEF OwnerSide

LEMMA OwnerKernel ==
  ASSUME KernelSide, OwnerSide, NEW c \in Conn,
         Receives(c) \/ KernelEnds(c) \/ KernelCancels(c)
  PROVE  \A d \in Conn : OwnerInv(d)'
<1>1. KernelTypes /\ KernelInv(c) /\ RightsTypes /\ OwnerInv(c)
  BY DEF KernelSide, OwnerSide
<1>2. armed[c] => phase[c] # "gone"
  BY <1>1 DEF OwnerInv
<1>3. ASSUME NEW b \in Buffer, NEW upto \in 1..MaxBytes[c], NEW last \in 0..MaxFds[c],
             KernelReceives(c, b, upto, last)
      PROVE  \A d \in Conn : OwnerInv(d)'
  <2> DEFINE got == Least(last, passed[c] + ControlCapacity)
             k == Completion(c, b, upto, got, last)
  <2>1. Arrives(c, k) /\ k.fdTo = got /\ k.fdEnd = last
    BY <1>1, <1>3, ReceivingArrives
  <2>2. released' = [released EXCEPT ![c] = Counted(released[c], got, last)]
    BY <1>3 DEF KernelReceives
  <2>3. /\ UNCHANGED <<fds, phase, armed>> /\ armed[c]
        /\ completions' = [completions EXCEPT ![c] = Append(completions[c], k)]
        /\ passed' = [passed EXCEPT ![c] = last]
    BY <1>3 DEF KernelReceives, outcome
  <2> HIDE DEF k, got
  <2>4. Counts(c, got, last)
    BY <1>1, <2>2, CountedCounts
  <2>5. Counts(c, k.fdTo, k.fdEnd)
    BY <2>1, <2>4
  <2>6. OwnerInv(c)'
    BY <1>1, <1>2, <2>1, <2>3, <2>5, OwnerArrives
  <2>7. OwnerAlone(c)
    BY <1>1, <2>2, <2>3 DEF OwnerAlone, RightsTypes, KernelTypes
  <2> QED
    BY <2>6, <2>7, OwnerOthers
<1>4. CASE KernelEnds(c)
  <2>1. PICK k \in Cqe :
          /\ Arrives(c, k) /\ k.fdTo = passed[c] /\ k.fdEnd = passed[c]
          /\ completions' = [completions EXCEPT ![c] = Append(completions[c], k)]
    BY <1>1, <1>4, EndingArrives
  <2>2. /\ UNCHANGED <<fds, released, phase, passed>> /\ armed[c]
        /\ armed' = [armed EXCEPT ![c] = FALSE]
        /\ completions' = [completions EXCEPT ![c] = Append(completions[c], k)]
    BY <1>4, <2>1 DEF KernelEnds, outcome, rights
  <2>3. Counts(c, passed[c], passed[c])
    BY <1>1, <2>2, NoneCounts DEF KernelTypes
  <2>4. Counts(c, k.fdTo, k.fdEnd)
    BY <2>1, <2>3
  <2>5. OwnerInv(c)'
    BY <1>1, <1>2, <2>1, <2>2, <2>4, OwnerArrives
  <2>6. OwnerAlone(c)
    BY <1>1, <2>2 DEF OwnerAlone, RightsTypes, KernelTypes
  <2> QED
    BY <2>5, <2>6, OwnerOthers
<1>5. CASE KernelCancels(c)
  <2>1. /\ UNCHANGED <<fds, released, completions, passed, phase>>
        /\ armed' = [armed EXCEPT ![c] = FALSE]
    BY <1>5 DEF KernelCancels, rights, outcome
  <2>2. \A d \in Conn : armed'[d] => armed[d]
    BY <1>1, <2>1 DEF RightsTypes
  <2> QED
    BY <2>1, <2>2, OwnerQuiet
<1> QED
  BY <1>3, <1>4, <1>5 DEF Receives

LEMMA OwnerCompletes ==
  ASSUME KernelSide, OwnerSide, NEW c \in Conn, Completes(c)
  PROVE  \A d \in Conn : OwnerInv(d)'
<1>1. KernelTypes /\ KernelInv(c) /\ RightsTypes /\ OwnerInv(c)
  BY DEF KernelSide, OwnerSide
<1>2. Leaves(c) /\ UNCHANGED <<passed, armed>>
        /\ completions' = [completions EXCEPT ![c] = Tail(completions[c])]
  BY DEF Completes, Disconnected, Refused, Ingest, Discard, Pending, Dropped, Leaves, peer
<1>3. Head(completions[c]) = completions[c][1] /\ completions[c][1] \in Cqe
        /\ WellFormed(completions[c][1])
  BY <1>1, <1>2, LeavingKernel DEF CqeInv
<1>4. /\ \A d \in Conn : phase'[d] = "gone" => phase[d] = "gone"
      /\ \A d \in Conn \ {c} : phase'[d] = phase[d]
  <2>1. CASE Ends(c)
    BY <1>1, <2>1, EndsPhase DEF RightsTypes
  <2>2. CASE phase' = phase
    BY <2>2
  <2> QED
    BY <2>1, <2>2 DEF Completes, Disconnected, Refused, Fails, Ingest, Discard, outcome
<1>5. ASSUME released' = [released EXCEPT ![c] =
               Counted(released[c], completions[c][1].fdFrom, completions[c][1].fdTo)],
             fds' = fds
      PROVE  \A d \in Conn : OwnerInv(d)'
  <2>1. Counts(c, completions[c][1].fdFrom, completions[c][1].fdTo)
    BY <1>1, <1>5, CountedCounts
  <2>2. OwnerInv(c)'
    BY <1>1, <1>2, <1>4, <1>5, <2>1, OwnerDiscards
  <2>3. OwnerAlone(c)
    BY <1>1, <1>2, <1>4, <1>5 DEF OwnerAlone, RightsTypes, KernelTypes
  <2> QED
    BY <2>2, <2>3, OwnerOthers
<1>6. CASE Disconnected(c)
  <2>1. UNCHANGED <<fds, released>> /\ IsEnd(completions[c][1])
    BY <1>3, <1>6 DEF Disconnected, rights
  <2>2. PICK n \in Nat : n = completions[c][1].fdFrom /\ n = completions[c][1].fdTo
    <3>1. completions[c][1].fdFrom \in Nat /\ completions[c][1].fdTo \in Nat
            /\ completions[c][1].fdEnd \in Nat
      BY <1>3 DEF Cqe
    <3> QED
      BY <1>3, <2>1, <3>1 DEF WellFormed
  <2>3. Counts(c, n, n)
    BY <1>1, <2>1, NoneCounts
  <2>4. Counts(c, completions[c][1].fdFrom, completions[c][1].fdTo)
    BY <2>2, <2>3
  <2>5. OwnerInv(c)'
    BY <1>1, <1>2, <1>4, <2>1, <2>4, OwnerDiscards
  <2>6. OwnerAlone(c)
    BY <1>1, <1>2, <1>4, <2>1 DEF OwnerAlone, RightsTypes, KernelTypes
  <2> QED
    BY <2>5, <2>6, OwnerOthers
<1>7. CASE Refused(c) \/ Discard(c)
  BY <1>3, <1>5, <1>7 DEF Refused, Discard, ClosesRights
<1>8. CASE Ingest(c)
  <2>1. /\ fds' = [fds EXCEPT ![c] = fds[c] \o
             [i \in 1..(completions[c][1].fdTo - completions[c][1].fdFrom) |->
                completions[c][1].fdFrom + i]]
        /\ released' = released /\ ~Truncated(completions[c][1])
    BY <1>3, <1>8 DEF Ingest
  <2>2. fds'[c] = fds[c] \o
             [i \in 1..(completions[c][1].fdTo - completions[c][1].fdFrom) |->
                completions[c][1].fdFrom + i]
    BY <1>1, <2>1 DEF RightsTypes
  <2>3. OwnerInv(c)'
    BY <1>1, <1>2, <1>4, <2>1, <2>2, OwnerIngests
  <2>4. OwnerAlone(c)
    BY <1>1, <1>2, <1>4, <2>1 DEF OwnerAlone, RightsTypes, KernelTypes
  <2> QED
    BY <2>3, <2>4, OwnerOthers
<1> QED
  BY <1>6, <1>7, <1>8 DEF Completes

\* The message that is handled needs a number of descriptors.
LEMMA NeededIsNumber ==
  ASSUME PeerSide, HeaderInv, message # None
  PROVE  /\ message.header \in Posting /\ Needed(message.header) \in Nat
         /\ message.header.from < message.header.to
         /\ Length(message.header) \in Nat
<1>1. PICK c \in Conn : \E i \in DOMAIN messages[c] : message.header = messages[c][i]
  BY DEF HeaderInv
<1>2. PICK i \in DOMAIN messages[c] : message.header = messages[c][i]
  BY <1>1
<1>3. messages[c] \in Seq(Posting) /\ PeerMessage(c, i)
  BY DEF PeerSide, PeerTypes, PeerInv
<1>4. messages[c][i] \in Posting
  BY <1>3
<1>5. message.header \in Posting /\ message.header.fdFrom =< message.header.fdTo
        /\ message.header.from < message.header.to
  BY <1>2, <1>3, <1>4 DEF PeerMessage
<1>6. message.header.fdFrom \in Nat /\ message.header.fdTo \in Nat
        /\ message.header.from \in Nat /\ message.header.to \in Nat
  BY <1>5 DEF Posting
<1> QED
  BY <1>5, <1>6 DEF Needed, Length

LEMMA OwnerDispatches ==
  ASSUME KernelSide, OwnerSide, HeaderInv, step = "handle" => message # None,
         NEW c \in Conn, Dispatches(c)
  PROVE  \A d \in Conn : OwnerInv(d)'
<1>1. KernelTypes /\ KernelInv(c) /\ RightsTypes /\ OwnerInv(c) /\ PeerSide
  BY DEF KernelSide, OwnerSide
<1>2. step = "handle" /\ message # None
  BY DEF Dispatches, Handle, HandlerFails, Takes, Rejects, Empty
<1>3. UNCHANGED <<completions, passed, armed>>
  BY DEF Dispatches, Handle, HandlerFails, Rejects, Empty, Terminal, kernel
<1>4. \A d \in Conn : phase'[d] = "gone" => phase[d] = "gone"
  <2>1. CASE Ends(c)
    BY <1>1, <2>1, EndsPhase DEF RightsTypes
  <2>2. CASE phase' = phase
    BY <2>2
  <2> QED
    BY <2>1, <2>2 DEF Dispatches, Handle, HandlerFails, Rejects, Empty, Terminal, Fails
<1>5. ASSUME NEW fate \in Fate, Takes(c, fate)
      PROVE  \A d \in Conn : OwnerInv(d)'
  <2>1. PICK n \in Nat : n = Needed(message.header)
    BY <1>1, <1>2, NeededIsNumber
  <2>2. /\ n =< Len(fds[c])
        /\ fds' = [fds EXCEPT ![c] = SubSeq(fds[c], n + 1, Len(fds[c]))]
        /\ released' = [released EXCEPT ![c] =
             [f \in DOMAIN released[c] |->
                IF \E i \in 1..n : fds[c][i] = f THEN released[c][f] + 1
                                                 ELSE released[c][f]]]
    BY <1>5, <2>1 DEF Takes
  <2>3. fds'[c] = SubSeq(fds[c], n + 1, Len(fds[c]))
    BY <1>1, <2>2 DEF RightsTypes
  <2>4. \A f \in Fd(c) : released'[c][f] =
          IF \E i \in 1..n : fds[c][i] = f THEN released[c][f] + 1 ELSE released[c][f]
    <3>1. released[c] \in [Fd(c) -> Nat] /\ c \in DOMAIN released
      BY <1>1 DEF RightsTypes
    <3> QED
      BY <2>2, <3>1
  <2>5. OwnerInv(c)'
    BY <1>1, <1>3, <1>4, <2>2, <2>3, <2>4, OwnerTakes
  <2>6. OwnerAlone(c)
    BY <1>1, <1>3, <1>4, <2>2 DEF OwnerAlone, RightsTypes
  <2> QED
    BY <2>5, <2>6, OwnerOthers
<1>6. CASE Rejects(c) \/ Empty(c)
  <2>1. UNCHANGED <<fds, released>>
    BY <1>6 DEF Rejects, Empty, rights
  <2> QED
    BY <1>3, <1>4, <2>1, OwnerQuiet
<1> QED
  BY <1>5, <1>6 DEF Dispatches, Handle, HandlerFails, Fate

LEMMA OwnerDestroys ==
  ASSUME KernelSide, OwnerSide, NEW c \in Conn, Destroy(c)
  PROVE  \A d \in Conn : OwnerInv(d)'
<1>1. KernelTypes /\ KernelInv(c) /\ RightsTypes /\ OwnerInv(c)
  BY DEF KernelSide, OwnerSide
<1>2. /\ UNCHANGED <<completions, passed, armed>>
      /\ fds' = [fds EXCEPT ![c] = <<>>] /\ phase' = [phase EXCEPT ![c] = "gone"]
      /\ ~armed[c] /\ completions[c] = <<>>
      /\ released' = [released EXCEPT ![c] =
           [f \in DOMAIN released[c] |->
              IF \E i \in DOMAIN fds[c] : fds[c][i] = f THEN released[c][f] + 1
                                                        ELSE released[c][f]]]
  BY DEF Destroy, kernel
<1>3. fds[c] \in Seq(Nat)
  BY <1>1 DEF RightsTypes
<1>4. PICK n \in Nat : n = Len(fds[c]) /\ DOMAIN fds[c] = 1..n
  BY <1>3
<1>5. SubSeq(fds[c], n + 1, Len(fds[c])) = <<>> /\ fds'[c] = <<>>
  BY <1>1, <1>2, <1>3, <1>4 DEF RightsTypes
<1>6. \A f \in Fd(c) : released'[c][f] =
        IF \E i \in 1..n : fds[c][i] = f THEN released[c][f] + 1 ELSE released[c][f]
  <2>1. released[c] \in [Fd(c) -> Nat] /\ c \in DOMAIN released
    BY <1>1 DEF RightsTypes
  <2> QED
    BY <1>2, <1>4, <2>1
<1>7. OwnerInv(c)'
  <2>1. fds'[c] = SubSeq(fds[c], n + 1, Len(fds[c]))
    BY <1>5
  <2>2. n =< Len(fds[c])
    BY <1>4
  <2>3. completions'[c] = completions[c] /\ passed'[c] = passed[c] /\ armed'[c] = armed[c]
    BY <1>2
  <2> QED
    BY <1>1, <1>2, <1>5, <1>6, <2>1, <2>2, <2>3, OwnerTakes
<1>8. OwnerAlone(c)
  BY <1>1, <1>2 DEF OwnerAlone, RightsTypes
<1> QED
  BY <1>7, <1>8, OwnerOthers

LEMMA OwnerStays ==
  ASSUME KernelSide, OwnerSide, HeaderInv, step = "handle" => message # None, Next
  PROVE  \A c \in Conn : OwnerInv(c)'
<1>1. CASE \/ \E c \in Conn, size \in Size, count \in Rights : Write(c, size, count)
           \/ \E c \in Conn : Hangup(c) \/ Sends(c)
           \/ Release
  <2>1. UNCHANGED <<fds, released, completions, passed, phase, armed>>
    BY <1>1 DEF Write, Sends, Send, Hangup, Release, kernel, rights, outcome
  <2> QED
    BY <2>1, OwnerQuiet
<1>2. ASSUME NEW c \in Conn, Frames(c) PROVE \A d \in Conn : OwnerInv(d)'
  <2>1. UNCHANGED <<fds, released, completions, passed, armed>>
    BY <1>2 DEF Frames, ReleaseLease, Borrow, Drained, Fragment, FillHeader, FillBody,
                Garbled, MessageTooLarge, Terminal, kernel, rights
  <2>2. Ends(c) \/ phase' = phase
    BY <1>2 DEF Frames, ReleaseLease, Borrow, Drained, Fragment, FillHeader, FillBody,
                Garbled, MessageTooLarge, Terminal, Fails, outcome
  <2>3. \A d \in Conn : phase'[d] = "gone" => phase[d] = "gone"
    BY <2>2, EndsPhase DEF OwnerSide, RightsTypes
  <2> QED
    BY <2>1, <2>3, OwnerQuiet
<1>3. ASSUME NEW c \in Conn, BeginClose(c) PROVE \A d \in Conn : OwnerInv(d)'
  <2>1. UNCHANGED <<fds, released, completions, passed, armed>>
          /\ phase' = [phase EXCEPT ![c] = "closing"]
    BY <1>3 DEF BeginClose, kernel, rights
  <2>2. \A d \in Conn : phase'[d] = "gone" => phase[d] = "gone"
    BY <2>1 DEF OwnerSide, RightsTypes
  <2> QED
    BY <2>1, <2>2, OwnerQuiet
<1>4. ASSUME NEW c \in Conn, Receives(c) \/ KernelEnds(c) \/ KernelCancels(c)
      PROVE  \A d \in Conn : OwnerInv(d)'
  BY <1>4, OwnerKernel
<1> QED
  BY <1>1, <1>2, <1>3, <1>4, OwnerCompletes, OwnerDispatches, OwnerDestroys DEF Next

-----------------------------------------------------------------------------
(* The blocks. *)

FramerTypes ==
  /\ scratch \in [Conn -> Area \cup {None}] /\ lease \in [Conn -> Block \cup {None}]
  /\ buffered \in [Conn -> Nat] /\ releaseNext \in [Conn -> BOOLEAN]
  /\ free \subseteq Block

ThreadTypes ==
  /\ step \in Step /\ input \in Payload \cup {None} /\ message \in Slice \cup {None}
  /\ input # None => input.at =< input.end /\ input.end =< BufferSize

PeerOrKernel ==
  \/ \E c \in Conn, size \in Size, count \in Rights : Write(c, size, count)
  \/ \E c \in Conn : \/ Sends(c) \/ Hangup(c) \/ Receives(c)
                     \/ KernelEnds(c) \/ KernelCancels(c)

LEMMA PeerOrKernelStays ==
  ASSUME PeerOrKernel PROVE UNCHANGED <<thread, framer, fds, outcome>>
<1>1. ASSUME NEW c \in Conn, NEW size \in Size, NEW count \in Rights, Write(c, size, count)
      PROVE  UNCHANGED <<thread, framer, fds, outcome>>
  BY <1>1 DEF Write, rights
<1>2. ASSUME NEW c \in Conn, NEW upto, NEW last, Send(c, upto, last)
      PROVE  UNCHANGED <<thread, framer, fds, outcome>>
  BY <1>2 DEF Send, rights
<1>3. ASSUME NEW c \in Conn, Hangup(c) \/ KernelEnds(c) \/ KernelCancels(c)
      PROVE  UNCHANGED <<thread, framer, fds, outcome>>
  BY <1>3 DEF Hangup, KernelEnds, KernelCancels, rights
<1>4. ASSUME NEW c \in Conn, NEW b \in Buffer, NEW upto, NEW last,
             KernelReceives(c, b, upto, last)
      PROVE  UNCHANGED <<thread, framer, fds, outcome>>
  BY <1>4 DEF KernelReceives
<1> QED
  BY <1>1, <1>2, <1>3, <1>4 DEF PeerOrKernel, Sends, Receives

\* Only destroyPeer makes a connection gone.
NoneGoes == \A c \in Conn : phase'[c] = "gone" => phase[c] = "gone"

LEMMA GoneByDestroy ==
  ASSUME RightsTypes, Next
  PROVE  (\E c \in Conn : Destroy(c)) \/ NoneGoes
<1>1. ASSUME NEW c \in Conn, Ends(c) PROVE NoneGoes
  BY <1>1, EndsPhase DEF NoneGoes, RightsTypes
<1>2. ASSUME phase' = phase PROVE NoneGoes
  BY <1>2 DEF NoneGoes
<1>3. ASSUME NEW c \in Conn, BeginClose(c) PROVE NoneGoes
  BY <1>3 DEF NoneGoes, BeginClose, RightsTypes
<1>4. ASSUME Release \/ PeerOrKernel PROVE NoneGoes
  <2>1. phase' = phase
    BY <1>4, PeerOrKernelStays DEF Release, outcome
  <2> QED
    BY <1>2, <2>1
<1>5. ASSUME NEW c \in Conn, Completes(c) PROVE NoneGoes
  <2>1. Ends(c) \/ phase' = phase
    BY <1>5 DEF Completes, Disconnected, Refused, Ingest, Discard, Fails, outcome
  <2> QED
    BY <1>1, <1>2, <2>1
<1>6. ASSUME NEW c \in Conn, Frames(c) PROVE NoneGoes
  <2>1. Ends(c) \/ phase' = phase
    BY <1>6 DEF Frames, ReleaseLease, Borrow, Drained, Fragment, FillHeader, FillBody,
                Garbled, MessageTooLarge, Terminal, Fails, outcome
  <2> QED
    BY <1>1, <1>2, <2>1
<1>7. ASSUME NEW c \in Conn, Dispatches(c) PROVE NoneGoes
  <2>1. Ends(c) \/ phase' = phase
    BY <1>7 DEF Dispatches, Handle, HandlerFails, Rejects, Empty, Terminal, Fails
  <2> QED
    BY <1>1, <1>2, <2>1
<1> QED
  BY <1>3, <1>4, <1>5, <1>6, <1>7 DEF Next, PeerOrKernel

LEMMA FramerAlone ==
  ASSUME Next
  PROVE  \/ \E c \in Conn : \/ ReleaseLease(c) \/ Fragment(c) \/ FillHeader(c)
                            \/ FillBody(c) \/ Destroy(c)
         \/ UNCHANGED framer
<1>1. ASSUME NEW c \in Conn, Frames(c)
      PROVE  \/ ReleaseLease(c) \/ Fragment(c) \/ FillHeader(c) \/ FillBody(c)
             \/ UNCHANGED framer
  BY <1>1 DEF Frames, Borrow, Drained, Garbled, MessageTooLarge
<1>2. ASSUME NEW c \in Conn, Completes(c) \/ Dispatches(c) PROVE UNCHANGED framer
  BY <1>2 DEF Completes, Disconnected, Refused, Ingest, Discard, Dispatches, Handle,
              HandlerFails, Rejects, Empty
<1>3. ASSUME Release \/ PeerOrKernel PROVE UNCHANGED framer
  BY <1>3, PeerOrKernelStays DEF Release
<1>4. ASSUME NEW c \in Conn, BeginClose(c) PROVE UNCHANGED framer
  BY <1>4 DEF BeginClose
<1> QED
  BY <1>1, <1>2, <1>3, <1>4 DEF Next, PeerOrKernel

LEMMA EnsureLeases ==
  ASSUME FramerTypes, Leases, NEW c \in Conn, NEW required \in Nat,
         EnsureCapacity(c, required)
  PROVE  /\ scratch' \in [Conn -> Area \cup {None}]
         /\ lease' \in [Conn -> Block \cup {None}]
         /\ free' \subseteq Block
         /\ Leases'
         /\ \A d \in Conn \ {c} : lease'[d] = lease[d] /\ scratch'[d] = scratch[d]
         /\ Capacity(scratch'[c]) >= required
         /\ lease'[c] = lease[c] \/ InlineSize < required
<1>1. None \notin Block /\ \A d \in Conn : d \notin Block /\ d # None
  BY NamesAssumption DEF Area
<1>2. InlineSize \in Nat /\ BlockSize \in Nat /\ BufferSize \in Nat
  BY SizesAssumption
<1>3. CASE /\ Capacity(scratch[c]) >= required
           /\ UNCHANGED <<scratch, lease, free>>
  BY <1>3 DEF Leases, FramerTypes
<1>4. CASE /\ FitsInline(c, required)
           /\ scratch' = [scratch EXCEPT ![c] = c]
           /\ UNCHANGED <<lease, free>>
  <2>1. lease[c] = None /\ required =< InlineSize
    BY <1>4 DEF FitsInline
  <2>2. scratch'[c] = c /\ \A d \in Conn \ {c} : scratch'[d] = scratch[d]
    BY <1>4 DEF FramerTypes
  <2>3. Capacity(c) = InlineSize
    <3>1. c \notin Buffer /\ c # None /\ c \notin Block
      BY NamesAssumption DEF Area
    <3> QED
      BY <3>1 DEF Capacity, AreaSize
  <2>4. Capacity(scratch'[c]) >= required
    BY <1>2, <2>1, <2>2, <2>3
  <2>5. Leases'
    BY <1>4, <2>1, <2>2 DEF Leases
  <2> QED
    BY <1>4, <2>2, <2>4, <2>5 DEF FramerTypes, Area
<1>5. CASE /\ ~FitsInline(c, required) /\ lease[c] = None /\ required =< BlockSize
           /\ \E b \in free :
                /\ free' = free \ {b}
                /\ lease' = [lease EXCEPT ![c] = b]
                /\ scratch' = [scratch EXCEPT ![c] = b]
  <2>1. PICK b \in free :
          /\ free' = free \ {b}
          /\ lease' = [lease EXCEPT ![c] = b]
          /\ scratch' = [scratch EXCEPT ![c] = b]
    BY <1>5
  <2>2. b \in Block /\ b # None /\ b \notin Range(lease)
    BY <1>1 DEF Leases
  <2>3. InlineSize < required /\ InlineSize < BlockSize
    BY <1>2, <1>5 DEF FitsInline
  <2>4. /\ scratch'[c] = b /\ lease'[c] = b
        /\ \A d \in Conn \ {c} : lease'[d] = lease[d] /\ scratch'[d] = scratch[d]
    BY <2>1 DEF FramerTypes
  <2>5. DOMAIN lease = Conn /\ DOMAIN lease' = Conn
    BY <2>1 DEF FramerTypes
  <2>6. Capacity(b) = BlockSize
    <3>1. b \notin Buffer /\ b \notin Conn
      BY <2>2, NamesAssumption
    <3> QED
      BY <2>2, <3>1 DEF Capacity, AreaSize
  <2>7. Capacity(scratch'[c]) >= required
    BY <1>2, <1>5, <2>4, <2>6
  <2>8. \A d \in Conn : lease[d] # b
    BY <2>2, <2>5 DEF Range
  <2>9. free' = Block \ Range(lease')
    <3>1. Block \cap Range(lease') = (Block \cap Range(lease)) \cup {b}
      BY <1>1, <1>5, <2>2, <2>4, <2>5 DEF Range
    <3> QED
      BY <2>1, <3>1 DEF Leases
  <2>10. \A d, e \in Conn : lease'[d] = lease'[e] /\ d # e => lease'[d] = None
    BY <2>4, <2>8 DEF Leases
  <2>11. Leases'
    BY <2>3, <2>4, <2>9, <2>10 DEF Leases
  <2> QED
    BY <2>1, <2>2, <2>3, <2>4, <2>7, <2>11 DEF FramerTypes, Area
<1> QED
  BY <1>3, <1>4, <1>5 DEF EnsureCapacity

LEMMA UnleaseLeases ==
  ASSUME FramerTypes, Leases, NEW c \in Conn,
         free' = free \cup ({lease[c]} \ {None}),
         lease' = [lease EXCEPT ![c] = None],
         NEW place \in {None, c}, scratch' = [scratch EXCEPT ![c] = place]
  PROVE  /\ scratch' \in [Conn -> Area \cup {None}]
         /\ lease' \in [Conn -> Block \cup {None}]
         /\ free' \subseteq Block
         /\ Leases'
<1>1. None \notin Block
  BY NamesAssumption DEF Area
<1>2. /\ scratch'[c] = place /\ lease'[c] = None
      /\ \A d \in Conn \ {c} : lease'[d] = lease[d] /\ scratch'[d] = scratch[d]
      /\ DOMAIN lease = Conn /\ DOMAIN lease' = Conn
  BY DEF FramerTypes
<1>3. free' = Block \ Range(lease')
  <2>1. ASSUME NEW b \in Block
        PROVE  b \in Range(lease') <=> (b \in Range(lease) /\ b # lease[c])
    <3>1. ASSUME NEW d \in Conn, lease'[d] = b
          PROVE  b \in Range(lease) /\ b # lease[c]
      <4>1. d # c /\ lease[d] = b
        BY <1>1, <1>2, <3>1
      <4>2. lease[c] # b
        BY <1>1, <4>1 DEF Leases
      <4> QED
        BY <1>2, <4>1, <4>2 DEF Range
    <3>2. ASSUME NEW d \in Conn, lease[d] = b, b # lease[c]
          PROVE  b \in Range(lease')
      BY <1>2, <3>2 DEF Range
    <3> QED
      BY <1>2, <3>1, <3>2 DEF Range
  <2>2. lease[c] \in Block \cup {None}
    BY DEF FramerTypes
  <2> QED
    BY <1>1, <2>1, <2>2 DEF Leases
<1>4. \A d, e \in Conn : lease'[d] = lease'[e] /\ d # e => lease'[d] = None
  BY <1>2 DEF Leases
<1>5. \A d \in Conn : /\ scratch'[d] \in {lease'[d], d}
                      /\ lease'[d] # None => scratch'[d] = lease'[d]
                      /\ lease'[d] # None => InlineSize < BlockSize
  BY <1>2 DEF Leases
<1>6. Leases'
  BY <1>3, <1>4, <1>5 DEF Leases
<1>7. lease[c] \in Block \cup {None}
  BY DEF FramerTypes
<1> QED
  BY <1>6, <1>7 DEF FramerTypes, Area

\* A thread that is not idle has a payload.
LEMMA BusyHasInput ==
  ASSUME ThreadTypes, ThreadInv, step # "idle"
  PROVE  /\ input # None /\ input \in Payload /\ input.conn \in Conn
         /\ input.buffer \in Buffer /\ input.at \in Nat /\ input.end \in Nat
         /\ Rest \in Nat /\ input.at + Rest = input.end /\ input.end =< BufferSize
         /\ phase[input.conn] # "gone"
<1>1. input # None /\ input \in Payload
  BY DEF ThreadInv, ThreadTypes
<1>2. input.at \in Nat /\ input.end \in Nat /\ input.at =< input.end
        /\ input.conn \in Conn /\ input.buffer \in Buffer
  BY <1>1 DEF ThreadTypes, Payload
<1> QED
  BY <1>1, <1>2 DEF ThreadInv, ThreadTypes, Rest

\* A header that is found is the one of a message.
LEMMA HeadersAreMessages ==
  ASSUME PeerSide, NEW area, NEW at, NEW m \in Headers(area, at)
  PROVE  /\ \E c \in Conn : \E i \in DOMAIN messages[c] : m = messages[c][i]
         /\ m \in Posting /\ m.peer \in Conn /\ m.from \in Nat /\ m.to \in Nat
         /\ m.from < m.to /\ Length(m) \in Nat /\ Length(m) >= HeaderSize
         /\ m.from + Length(m) = m.to
<1>1. PICK c \in Conn : m \in ToSet(messages[c])
  BY DEF Headers
<1>2. PICK i \in DOMAIN messages[c] : m = messages[c][i]
  BY <1>1 DEF ToSet
<1>3. messages[c] \in Seq(Posting) /\ PeerMessage(c, i)
  BY DEF PeerSide, PeerTypes, PeerInv
<1>4. m \in Posting /\ m.from < m.to
  BY <1>2, <1>3 DEF PeerMessage
<1>5. m.from \in Nat /\ m.to \in Nat /\ m.peer \in Conn
  BY <1>4 DEF Posting
<1>6. Length(m) >= HeaderSize
  BY DEF Headers
<1> QED
  BY <1>2, <1>4, <1>5, <1>6 DEF Length

LEMMA LeaseStays ==
  ASSUME PeerSide, RightsTypes, FramerTypes, ThreadTypes, ThreadInv, LeaseInv, Next
  PROVE  LeaseInv'
<1>1. \A d \in Conn : /\ phase[d] = "gone" => lease[d] = None
                      /\ releaseNext[d] => lease[d] # None /\ buffered[d] = 0
  BY DEF LeaseInv
<1>2. Leases /\ DOMAIN lease = Conn /\ DOMAIN releaseNext = Conn /\ DOMAIN buffered = Conn
  BY DEF LeaseInv, FramerTypes
<1>3. CASE UNCHANGED framer /\ NoneGoes
  BY <1>1, <1>2, <1>3 DEF framer, NoneGoes, LeaseInv, Leases
<1>4. ASSUME NEW c \in Conn, ReleaseLease(c) PROVE LeaseInv'
  <2>1. /\ free' = free \cup {lease[c]} /\ lease' = [lease EXCEPT ![c] = None]
        /\ scratch' = [scratch EXCEPT ![c] = c]
        /\ releaseNext' = [releaseNext EXCEPT ![c] = FALSE]
        /\ UNCHANGED <<buffered, phase>> /\ releaseNext[c]
    BY <1>4 DEF ReleaseLease, outcome
  <2>2. free' = free \cup ({lease[c]} \ {None})
    BY <1>1, <2>1
  <2>3. Leases'
    BY <1>2, <2>1, <2>2, UnleaseLeases
  <2>4. \A d \in Conn : /\ phase'[d] = "gone" => lease'[d] = None
                        /\ releaseNext'[d] => lease'[d] # None /\ buffered'[d] = 0
    BY <1>1, <1>2, <2>1
  <2> QED
    BY <2>3, <2>4 DEF LeaseInv
<1>5. ASSUME NEW c \in Conn, Fragment(c) PROVE LeaseInv'
  <2>1. step = "next" /\ c = input.conn /\ ~releaseNext[c]
          /\ UNCHANGED <<phase, releaseNext>> /\ EnsureCapacity(c, Rest)
          /\ buffered' = [buffered EXCEPT ![c] = Rest]
    BY <1>5 DEF Fragment, Fresh, outcome
  <2>2. Rest \in Nat /\ phase[c] # "gone"
    BY <2>1, BusyHasInput
  <2>3. Leases' /\ \A d \in Conn \ {c} : lease'[d] = lease[d]
    BY <1>2, <2>1, <2>2, EnsureLeases
  <2>4. \A d \in Conn : /\ phase'[d] = "gone" => lease'[d] = None
                        /\ releaseNext'[d] => lease'[d] # None /\ buffered'[d] = 0
    BY <1>1, <1>2, <2>1, <2>2, <2>3
  <2> QED
    BY <2>3, <2>4 DEF LeaseInv
<1>6. ASSUME NEW c \in Conn, FillHeader(c) PROVE LeaseInv'
  <2>1. ~releaseNext[c] /\ UNCHANGED <<phase, releaseNext, scratch, lease, free>>
    BY <1>6 DEF FillHeader, Resumes, ThreadInv, outcome
  <2>2. \A d \in Conn \ {c} : buffered'[d] = buffered[d]
    <3>1. \E x : buffered' = [buffered EXCEPT ![c] = x]
      BY <1>6 DEF FillHeader
    <3> QED
      BY <1>2, <3>1
  <2>3. Leases'
    BY <1>2, <2>1 DEF Leases
  <2>4. \A d \in Conn : /\ phase'[d] = "gone" => lease'[d] = None
                        /\ releaseNext'[d] => lease'[d] # None /\ buffered'[d] = 0
    BY <1>1, <2>1, <2>2
  <2> QED
    BY <2>3, <2>4 DEF LeaseInv
<1>7. ASSUME NEW c \in Conn, FillBody(c) PROVE LeaseInv'
  <2>1. step = "body" /\ c = input.conn /\ UNCHANGED phase /\ ~releaseNext[c]
    BY <1>7 DEF FillBody, outcome, ThreadInv
  <2>2. PICK m \in Headers(scratch[c], 0) :
          LET count == Least(Length(m) - buffered[c], Rest) IN
          /\ EnsureCapacity(c, Length(m))
          /\ IF buffered[c] + count < Length(m)
               THEN /\ buffered' = [buffered EXCEPT ![c] = buffered[c] + count]
                    /\ UNCHANGED releaseNext
               ELSE /\ buffered' = [buffered EXCEPT ![c] = 0]
                    /\ releaseNext' = [releaseNext EXCEPT ![c] = lease'[c] # None]
    BY <1>7 DEF FillBody
  <2>3. Length(m) \in Nat
    BY HeadersAreMessages
  <2>4. phase[c] # "gone"
    BY <2>1, BusyHasInput
  <2>5. Leases' /\ \A d \in Conn \ {c} : lease'[d] = lease[d]
    BY <1>2, <2>2, <2>3, EnsureLeases
  <2>6. \A d \in Conn \ {c} : buffered'[d] = buffered[d] /\ releaseNext'[d] = releaseNext[d]
    BY <1>2, <2>2
  <2>7. releaseNext'[c] => lease'[c] # None /\ buffered'[c] = 0
    BY <1>2, <2>1, <2>2
  <2>8. \A d \in Conn : /\ phase'[d] = "gone" => lease'[d] = None
                        /\ releaseNext'[d] => lease'[d] # None /\ buffered'[d] = 0
    BY <1>1, <2>1, <2>4, <2>5, <2>6, <2>7
  <2> QED
    BY <2>5, <2>8 DEF LeaseInv
<1>8. ASSUME NEW c \in Conn, Destroy(c) PROVE LeaseInv'
  <2>1. /\ free' = free \cup ({lease[c]} \ {None})
        /\ lease' = [lease EXCEPT ![c] = None]
        /\ scratch' = [scratch EXCEPT ![c] = None]
        /\ buffered' = [buffered EXCEPT ![c] = 0]
        /\ releaseNext' = [releaseNext EXCEPT ![c] = FALSE]
        /\ phase' = [phase EXCEPT ![c] = "gone"]
    BY <1>8 DEF Destroy
  <2>2. Leases'
    BY <1>2, <2>1, UnleaseLeases
  <2>3. \A d \in Conn : /\ phase'[d] = "gone" => lease'[d] = None
                        /\ releaseNext'[d] => lease'[d] # None /\ buffered'[d] = 0
    BY <1>1, <1>2, <2>1 DEF RightsTypes
  <2> QED
    BY <2>2, <2>3 DEF LeaseInv
<1> QED
  BY <1>3, <1>4, <1>5, <1>6, <1>7, <1>8, FramerAlone, GoneByDestroy

-----------------------------------------------------------------------------
(* The thread. *)

LEMMA MessagesGrow ==
  ASSUME PeerTypes, Next
  PROVE  \A c \in Conn : \A i \in DOMAIN messages[c] :
           i \in DOMAIN messages'[c] /\ messages'[c][i] = messages[c][i]
<1>1. PeerStep
  BY PeerIsAlone
<1>2. ASSUME NEW c \in Conn, NEW size \in Size, NEW count \in Rights,
             Write(c, size, count), NEW d \in Conn, NEW i \in DOMAIN messages[d]
      PROVE  i \in DOMAIN messages'[d] /\ messages'[d][i] = messages[d][i]
  <2>1. messages' = [messages EXCEPT ![c] = Append(messages[c], Written(c, size, count))]
          /\ Written(c, size, count) \in Posting
    BY <1>2, WriteAppends
  <2>2. messages[d] \in Seq(Posting) /\ messages[c] \in Seq(Posting)
    BY DEF PeerTypes
  <2>3. CASE d = c
    <3>1. messages'[d] = Append(messages[d], Written(c, size, count))
      BY <2>1, <2>3 DEF PeerTypes
    <3> QED
      BY <2>1, <2>2, <3>1
  <2>4. CASE d # c
    BY <2>1, <2>4 DEF PeerTypes
  <2> QED
    BY <2>3, <2>4
<1>3. CASE UNCHANGED messages
  BY <1>3
<1> QED
  BY <1>1, <1>2, <1>3 DEF PeerStep, Send

LEMMA HeaderKept ==
  ASSUME PeerTypes, Next, HeaderInv, message' = message
  PROVE  HeaderInv'
<1>1. CASE message = None
  BY <1>1 DEF HeaderInv
<1>2. CASE message # None
  <2>1. PICK c \in Conn : \E i \in DOMAIN messages[c] : message.header = messages[c][i]
    BY <1>2 DEF HeaderInv
  <2>2. PICK i \in DOMAIN messages[c] : message.header = messages[c][i]
    BY <2>1
  <2>3. i \in DOMAIN messages'[c] /\ messages'[c][i] = messages[c][i]
    BY MessagesGrow
  <2> QED
    BY <2>2, <2>3 DEF HeaderInv
<1> QED
  BY <1>1, <1>2

\* A step that yields a message.
LEMMA YieldedThread ==
  ASSUME PeerSide, FramerTypes, ThreadTypes, ThreadInv, NEW c \in Conn,
         c = input.conn, step # "idle",
         NEW from, NEW at, NEW m \in Headers(from, at),
         NEW area \in Area, NEW place \in Nat, Yields(m, area, place),
         messages' = messages, phase' = phase,
         input' # None, input'.conn = c
  PROVE  ThreadInv'
<1>1. message' = [header |-> m, area |-> area, at |-> place] /\ step' = "handle"
  BY DEF Yields
<1>2. m \in Posting /\ \E d \in Conn : \E i \in DOMAIN messages[d] : m = messages[d][i]
  BY HeadersAreMessages
<1>3. message' \in Slice /\ message'.header = m
  BY <1>1, <1>2 DEF Slice
<1>4. message' # None
  BY <1>3, NothingAssumption
<1>5. HeaderInv'
  BY <1>2, <1>3 DEF HeaderInv
<1>6. phase'[c] # "gone"
  BY BusyHasInput
<1> QED
  BY <1>1, <1>4, <1>5, <1>6 DEF ThreadInv

\* A step after which the payload is left.
LEMMA LeavingThread ==
  ASSUME RightsTypes, ThreadTypes, ThreadInv, step # "idle",
         step' = "release", message' = None, input' # None, input'.conn = input.conn,
         phase'[input.conn] # "gone",
         phase'[input.conn] = "open" => Rest' = 0
  PROVE  ThreadInv'
  BY DEF ThreadInv, HeaderInv

LEMMA TerminalThread ==
  ASSUME RightsTypes, ThreadTypes, ThreadInv, step # "idle", NEW c \in Conn, c = input.conn,
         NEW cause, Terminal(c, cause)
  PROVE  ThreadInv'
<1>1. step' = "release" /\ message' = None /\ input' = input /\ Ends(c)
  BY DEF Terminal, Fails
<1>2. input # None /\ phase[c] # "gone"
  BY BusyHasInput
<1>3. phase'[c] # "open" /\ phase'[c] # "gone"
  BY <1>1, <1>2, EndsPhase DEF RightsTypes
<1> QED
  BY <1>1, <1>2, <1>3, LeavingThread

\* A step that goes on with the next message.
LEMMA NextThread ==
  ASSUME ThreadTypes, ThreadInv, step # "idle",
         step' = "next", message' = None, input' # None, input'.conn = input.conn,
         phase'[input.conn] # "gone"
  PROVE  ThreadInv'
  BY DEF ThreadInv, HeaderInv

LEMMA ConsumedInput ==
  ASSUME ThreadTypes, ThreadInv, step # "idle", NEW count \in Nat, count =< Rest,
         input' = [input EXCEPT !.at = @ + count]
  PROVE  /\ input' \in Payload /\ input' # None /\ input'.conn = input.conn
         /\ input'.buffer = input.buffer /\ input'.at = input.at + count
         /\ input'.end = input.end /\ Rest' = Rest - count /\ Rest' \in Nat
         /\ input'.at =< input'.end
<1>1. /\ input \in Payload /\ input.at \in Nat /\ input.end \in Nat
      /\ Rest \in Nat /\ input.at + Rest = input.end
  BY BusyHasInput
<1>2. input' \in Payload /\ input'.conn = input.conn /\ input'.buffer = input.buffer
        /\ input'.at = input.at + count /\ input'.end = input.end
  BY <1>1 DEF Payload
<1>3. input' # None
  BY <1>2, NothingAssumption
<1> QED
  BY <1>1, <1>2, <1>3 DEF Rest

LEMMA ThreadQuiet ==
  ASSUME PeerSide, RightsTypes, ThreadInv, Next, UNCHANGED <<thread, releaseNext, buffered>>,
         \A d \in Conn : /\ phase'[d] = "gone" => phase[d] = "gone"
                         /\ phase'[d] = "open" => phase[d] = "open",
         ThreadTypes
  PROVE  ThreadInv'
<1>1. HeaderInv'
  BY HeaderKept DEF ThreadInv, PeerSide, thread
<1>2. CASE step = "idle"
  <2>1. input = None /\ step' = "idle" /\ input' = None /\ message' = message
    BY <1>2 DEF ThreadInv, thread
  <2> QED
    BY <1>1, <1>2, <2>1 DEF ThreadInv
<1>3. CASE step # "idle"
  <2>1. input # None /\ input.conn \in Conn /\ phase[input.conn] # "gone"
    BY <1>3, BusyHasInput
  <2>2. step' = step /\ input' = input /\ message' = message /\ Rest' = Rest
          /\ releaseNext' = releaseNext /\ buffered' = buffered
    BY DEF thread, Rest
  <2>3. phase'[input.conn] # "gone" /\ (phase'[input.conn] = "open" => phase[input.conn] = "open")
    BY <2>1
  <2> QED
    BY <1>1, <1>3, <2>1, <2>2, <2>3 DEF ThreadInv
<1> QED
  BY <1>2, <1>3

\* What a terminal result does to the phases.
LEMMA EndsPhases ==
  ASSUME RightsTypes, NEW c \in Conn, Ends(c) \/ phase' = phase
                                       \/ phase' = [phase EXCEPT ![c] = "closing"]
  PROVE  \A d \in Conn : /\ phase'[d] = "gone" => phase[d] = "gone"
                         /\ phase'[d] = "open" => phase[d] = "open"
  BY DEF RightsTypes, Ends, Phase

\* The fragment whose header is complete is no longer than its message.
FitsInv ==
  step = "body" =>
    \A m \in Headers(scratch[input.conn], 0) : buffered[input.conn] =< Length(m)

\* The bytes that FillHeader moves.
HeaderCount(c) ==
  IF buffered[c] < HeaderSize THEN Least(HeaderSize - buffered[c], Rest) ELSE 0

LEMMA FillHeaderCounts ==
  ASSUME FramerTypes, ThreadTypes, ThreadInv, NEW c \in Conn, FillHeader(c),
         NEW count, count = HeaderCount(c)
  PROVE  /\ step \in {"next", "header"} /\ c = input.conn
         /\ ~releaseNext[c] /\ buffered[c] > 0 /\ buffered[c] \in Nat
         /\ count \in Nat /\ count =< Rest
         /\ Copy(c, count) /\ buffered' = [buffered EXCEPT ![c] = buffered[c] + count]
         /\ UNCHANGED <<scratch, lease, free, releaseNext, message, messages, phase>>
         /\ buffered[c] < HeaderSize => buffered[c] + count =< HeaderSize
         /\ buffered[c] >= HeaderSize => count = 0
         /\ buffered[c] + count < HeaderSize => step' = "release" /\ count = Rest
         /\ buffered[c] + count >= HeaderSize => step' = "body"
<1>1. step \in {"next", "header"} /\ c = input.conn /\ ~releaseNext[c] /\ buffered[c] > 0
  BY DEF FillHeader, Resumes, ThreadInv
<1>2. /\ Copy(c, count) /\ buffered' = [buffered EXCEPT ![c] = buffered[c] + count]
      /\ step' = IF buffered[c] + count < HeaderSize THEN "release" ELSE "body"
      /\ UNCHANGED <<scratch, lease, free, releaseNext, message, messages, phase>>
  BY DEF FillHeader, HeaderCount, peer, outcome
<1>3. Rest \in Nat /\ buffered[c] \in Nat /\ HeaderSize \in Nat
  BY <1>1, BusyHasInput, SizesAssumption DEF FramerTypes
<1>4. /\ buffered[c] + count < HeaderSize => step' = "release"
      /\ ~(buffered[c] + count < HeaderSize) => step' = "body"
      /\ ~(buffered[c] + count < HeaderSize) <=> buffered[c] + count >= HeaderSize
  <2>1. count \in Int
    BY <1>3 DEF HeaderCount, Least
  <2> QED
    BY <1>2, <1>3, <2>1
<1>5. CASE buffered[c] < HeaderSize
  <2>1. PICK need \in Nat : need = HeaderSize - buffered[c]
    BY <1>3, <1>5
  <2>2. count = Least(need, Rest)
    BY <1>5, <2>1 DEF HeaderCount
  <2>3. count \in Nat /\ count =< need /\ count =< Rest /\ (count = need \/ count = Rest)
    BY <1>3, <2>2, LeastIsBetween
  <2>4. buffered[c] + count =< HeaderSize /\ ~(buffered[c] >= HeaderSize)
          /\ (buffered[c] + count < HeaderSize => count = Rest)
    BY <1>3, <1>5, <2>1, <2>3
  <2>5. count \in Nat /\ count =< Rest
    BY <2>3
  <2> QED
    BY <1>1, <1>2, <1>3, <1>4, <2>4, <2>5
<1>6. CASE buffered[c] >= HeaderSize
  <2>1. count = 0
    BY <1>3, <1>6 DEF HeaderCount
  <2>2. ~(buffered[c] + count < HeaderSize) /\ ~(buffered[c] < HeaderSize)
          /\ count \in Nat /\ count =< Rest
    BY <1>3, <1>6, <2>1
  <2> QED
    BY <1>1, <1>2, <1>3, <1>4, <2>1, <2>2
<1> QED
  BY <1>3, <1>5, <1>6

LEMMA FillBodyCounts ==
  ASSUME PeerSide, FramerTypes, ThreadTypes, ThreadInv, FitsInv, NEW c \in Conn, FillBody(c)
  PROVE  /\ step = "body" /\ c = input.conn /\ ~releaseNext[c]
         /\ UNCHANGED <<messages, phase>>
         /\ buffered[c] \in Nat /\ buffered[c] >= HeaderSize /\ buffered[c] > 0
         /\ \E m \in Headers(scratch[c], 0) : \E count \in Nat :
              /\ count =< Rest /\ buffered[c] + count =< Length(m)
              /\ Length(m) \in Nat
              /\ EnsureCapacity(c, Length(m)) /\ Copy(c, count)
              /\ \/ /\ buffered[c] + count < Length(m) /\ count = Rest
                    /\ buffered' = [buffered EXCEPT ![c] = buffered[c] + count]
                    /\ step' = "release" /\ UNCHANGED <<message, releaseNext>>
                 \/ /\ buffered[c] + count = Length(m)
                    /\ buffered' = [buffered EXCEPT ![c] = 0]
                    /\ releaseNext' = [releaseNext EXCEPT ![c] = lease'[c] # None]
                    /\ Yields(m, scratch'[c], 0)
<1>1. step = "body" /\ c = input.conn /\ UNCHANGED <<messages, phase>>
  BY DEF FillBody, peer, outcome
<1>2. ~releaseNext[c] /\ buffered[c] >= HeaderSize /\ buffered[c] > 0 /\ buffered[c] \in Nat
        /\ Rest \in Nat
  BY <1>1, BusyHasInput DEF ThreadInv, FramerTypes
<1>3. PICK m \in Headers(scratch[c], 0) :
        LET count == Least(Length(m) - buffered[c], Rest) IN
        /\ EnsureCapacity(c, Length(m))
        /\ Copy(c, count)
        /\ IF buffered[c] + count < Length(m)
             THEN /\ buffered' = [buffered EXCEPT ![c] = buffered[c] + count]
                  /\ step' = "release"
                  /\ UNCHANGED <<message, releaseNext>>
             ELSE /\ buffered' = [buffered EXCEPT ![c] = 0]
                  /\ releaseNext' = [releaseNext EXCEPT ![c] = lease'[c] # None]
                  /\ Yields(m, scratch'[c], 0)
  BY DEF FillBody
<1>4. Length(m) \in Nat /\ buffered[c] =< Length(m)
  BY <1>1, HeadersAreMessages DEF FitsInv
<1>5. PICK need \in Nat : need = Length(m) - buffered[c]
  BY <1>2, <1>4
<1>6. PICK count \in Nat : count = Least(need, Rest) /\ count =< need /\ count =< Rest
                             /\ (count = need \/ count = Rest)
  <2>1. PICK rest \in Nat : rest = Rest
    BY <1>2
  <2>2. Least(need, rest) \in Nat /\ Least(need, rest) =< need /\ Least(need, rest) =< rest
          /\ (Least(need, rest) = need \/ Least(need, rest) = rest)
    BY LeastIsBetween
  <2> QED
    BY <2>1, <2>2
<1>7. /\ EnsureCapacity(c, Length(m))
      /\ Copy(c, count)
      /\ buffered[c] + count < Length(m) =>
                  /\ buffered' = [buffered EXCEPT ![c] = buffered[c] + count]
                  /\ step' = "release"
                  /\ UNCHANGED <<message, releaseNext>>
      /\ ~(buffered[c] + count < Length(m)) =>
                  /\ buffered' = [buffered EXCEPT ![c] = 0]
                  /\ releaseNext' = [releaseNext EXCEPT ![c] = lease'[c] # None]
                  /\ Yields(m, scratch'[c], 0)
  BY <1>3, <1>5, <1>6
<1>8. buffered[c] + count =< Length(m) /\ (count = Rest \/ buffered[c] + count = Length(m))
  BY <1>2, <1>4, <1>5, <1>6
<1>9. CASE buffered[c] + count < Length(m)
  BY <1>1, <1>2, <1>4, <1>6, <1>7, <1>8, <1>9
<1>10. CASE ~(buffered[c] + count < Length(m))
  <2>1. buffered[c] + count = Length(m)
    BY <1>2, <1>4, <1>8, <1>10
  <2> QED
    BY <1>1, <1>2, <1>4, <1>6, <1>7, <1>10, <2>1
<1> QED
  BY <1>9, <1>10

LEMMA ThreadFrames ==
  ASSUME PeerSide, RightsTypes, FramerTypes, ThreadTypes, ThreadInv, FitsInv, LeaseInv,
         Next, NEW c \in Conn, Frames(c)
  PROVE  ThreadInv'
<1>1. step \in {"next", "header", "body"} /\ c = input.conn /\ step # "handle"
  BY DEF Frames, ReleaseLease, Borrow, Drained, Fragment, FillHeader, FillBody, Garbled,
         MessageTooLarge, Fresh, Resumes
<1>2. /\ input # None /\ input \in Payload /\ input.buffer \in Buffer
      /\ input.at \in Nat /\ Rest \in Nat /\ phase[c] # "gone" /\ step # "idle"
  BY <1>1, BusyHasInput
<1>3. message = None
  BY <1>1 DEF ThreadInv
<1>4. HeaderInv' \/ message' # message
  BY HeaderKept DEF ThreadInv, PeerSide
<1>5. CASE ReleaseLease(c)
  <2>1. step' = step /\ step = "next" /\ input' = input /\ message' = message /\ phase' = phase
    BY <1>5 DEF ReleaseLease, thread, outcome
  <2> QED
    BY <1>1, <1>2, <1>3, <2>1, NextThread
<1>6. CASE Borrow(c)
  <2>1. PICK m \in Headers(input.buffer, input.at) :
          /\ Length(m) =< Rest /\ Yields(m, input.buffer, input.at)
          /\ input' = [input EXCEPT !.at = input.at + Length(m)]
    BY <1>6 DEF Borrow
  <2>2. Length(m) \in Nat
    BY HeadersAreMessages
  <2>3. input' # None /\ input'.conn = c
    BY <1>1, <1>2, <2>1, <2>2, ConsumedInput
  <2>4. messages' = messages /\ phase' = phase /\ input.buffer \in Area
    BY <1>2, <1>6 DEF Borrow, peer, outcome, Area
  <2> QED
    BY <1>1, <1>2, <2>1, <2>3, <2>4, YieldedThread
<1>7. CASE Drained(c)
  <2>1. Rest = 0 /\ step' = "release" /\ input' = input /\ message' = None /\ phase' = phase
    BY <1>3, <1>7 DEF Drained, outcome
  <2>2. Rest' = 0
    BY <2>1 DEF Rest
  <2> QED
    BY <1>1, <1>2, <2>1, <2>2, LeavingThread
<1>8. CASE Fragment(c)
  <2>1. /\ Rest > 0 /\ Copy(c, Rest) /\ step' = "header" /\ ~releaseNext[c]
        /\ buffered' = [buffered EXCEPT ![c] = Rest]
        /\ UNCHANGED <<message, releaseNext, phase>>
    BY <1>8 DEF Fragment, Fresh, outcome
  <2>2. input' # None /\ input'.conn = c
    BY <1>1, <1>2, <2>1, ConsumedInput DEF Copy
  <2>3. buffered'[c] = Rest /\ releaseNext'[c] = FALSE
    BY <2>1 DEF FramerTypes
  <2> QED
    BY <1>1, <1>2, <1>3, <1>4, <2>1, <2>2, <2>3 DEF ThreadInv
<1>9. CASE FillHeader(c)
  <2>1. PICK count : count = HeaderCount(c)
    OBVIOUS
  <2>2. /\ ~releaseNext[c] /\ buffered[c] > 0 /\ buffered[c] \in Nat
        /\ count \in Nat /\ count =< Rest
        /\ Copy(c, count) /\ buffered' = [buffered EXCEPT ![c] = buffered[c] + count]
        /\ UNCHANGED <<releaseNext, message, phase>>
        /\ buffered[c] + count < HeaderSize => step' = "release" /\ count = Rest
        /\ buffered[c] + count >= HeaderSize => step' = "body"
    BY <1>9, <2>1, FillHeaderCounts
  <2>3. input' # None /\ input'.conn = c /\ Rest' = Rest - count
    BY <1>1, <1>2, <2>2, ConsumedInput DEF Copy
  <2>4. buffered'[c] = buffered[c] + count /\ buffered'[c] > 0
    BY <2>2 DEF FramerTypes
  <2>5. HeaderSize \in Nat
    BY SizesAssumption
  <2>6. CASE buffered[c] + count < HeaderSize
    <3>1. step' = "release" /\ Rest' = 0 /\ message' = None
      BY <1>2, <1>3, <2>2, <2>3, <2>6
    <3> QED
      BY <1>1, <1>2, <2>2, <2>3, <3>1, LeavingThread
  <2>7. CASE buffered[c] + count >= HeaderSize
    BY <1>1, <1>2, <1>3, <1>4, <2>2, <2>3, <2>4, <2>7 DEF ThreadInv
  <2> QED
    BY <2>2, <2>5, <2>6, <2>7
<1>10. CASE FillBody(c)
  <2>1. UNCHANGED <<messages, phase>>
    BY <1>10, FillBodyCounts
  <2>2. PICK m \in Headers(scratch[c], 0) : \E count \in Nat :
              /\ count =< Rest /\ buffered[c] + count =< Length(m)
              /\ Length(m) \in Nat
              /\ EnsureCapacity(c, Length(m)) /\ Copy(c, count)
              /\ \/ /\ buffered[c] + count < Length(m) /\ count = Rest
                    /\ buffered' = [buffered EXCEPT ![c] = buffered[c] + count]
                    /\ step' = "release" /\ UNCHANGED <<message, releaseNext>>
                 \/ /\ buffered[c] + count = Length(m)
                    /\ buffered' = [buffered EXCEPT ![c] = 0]
                    /\ releaseNext' = [releaseNext EXCEPT ![c] = lease'[c] # None]
                    /\ Yields(m, scratch'[c], 0)
    BY <1>10, FillBodyCounts
  <2>3. PICK count \in Nat :
              /\ count =< Rest /\ Length(m) \in Nat
              /\ EnsureCapacity(c, Length(m)) /\ Copy(c, count)
              /\ \/ count = Rest /\ step' = "release" /\ UNCHANGED message
                 \/ Yields(m, scratch'[c], 0)
    BY <2>2
  <2>4. input' # None /\ input'.conn = c /\ Rest' = Rest - count
    BY <1>1, <1>2, <2>3, ConsumedInput DEF Copy
  <2>5. CASE count = Rest /\ step' = "release" /\ UNCHANGED message
    <3>1. Rest' = 0 /\ message' = None
      BY <1>2, <1>3, <2>4, <2>5
    <3> QED
      BY <1>1, <1>2, <2>1, <2>4, <2>5, <3>1, LeavingThread
  <2>6. CASE Yields(m, scratch'[c], 0)
    <3>1. scratch'[c] \in Area \cup {None} /\ Capacity(scratch'[c]) >= Length(m)
            /\ Length(m) > 0
      <4>1. Leases
        BY DEF LeaseInv
      <4>2. scratch' \in [Conn -> Area \cup {None}] /\ Capacity(scratch'[c]) >= Length(m)
        BY <2>3, <4>1, EnsureLeases
      <4>3. Length(m) >= HeaderSize /\ HeaderSize \in Nat /\ HeaderSize > 0
        BY HeadersAreMessages, SizesAssumption
      <4> QED
        BY <2>3, <4>2, <4>3
    <3>2. scratch'[c] # None
      BY <2>3, <3>1 DEF Capacity
    <3> QED
      BY <1>1, <1>2, <2>1, <2>4, <2>6, <3>1, <3>2, YieldedThread
  <2> QED
    BY <2>3, <2>5, <2>6
<1>11. CASE Garbled(c) \/ MessageTooLarge(c)
  BY <1>1, <1>2, <1>11, TerminalThread DEF Garbled, MessageTooLarge
<1> QED
  BY <1>5, <1>6, <1>7, <1>8, <1>9, <1>10, <1>11 DEF Frames

LEMMA ThreadCompletes ==
  ASSUME KernelSide, RightsTypes, FramerTypes, ThreadTypes, ThreadInv, Next,
         NEW c \in Conn, Completes(c)
  PROVE  ThreadInv'
<1>1. step = "idle" /\ input = None /\ message = None /\ completions[c] # <<>>
        /\ phase[c] # "gone"
  BY DEF Completes, Disconnected, Refused, Ingest, Discard, Pending, ThreadInv
<1>2. CASE Disconnected(c) \/ Refused(c) \/ Discard(c)
  <2>1. UNCHANGED <<thread, releaseNext, buffered>> /\ (Ends(c) \/ phase' = phase)
    BY <1>2 DEF Disconnected, Refused, Discard, Fails, framer, outcome
  <2>2. \A d \in Conn : /\ phase'[d] = "gone" => phase[d] = "gone"
                        /\ phase'[d] = "open" => phase[d] = "open"
    BY <2>1, EndsPhases
  <2> QED
    BY <2>1, <2>2, ThreadQuiet DEF KernelSide
<1>3. CASE Ingest(c)
  <2>1. /\ input' = [conn |-> c, buffer |-> Head(completions[c]).buffer, at |-> 0,
                     end |-> Head(completions[c]).to - Head(completions[c]).from]
        /\ ~IsEnd(Head(completions[c]))
        /\ step' = IF phase[c] = "open" THEN "next" ELSE "release"
        /\ UNCHANGED <<message, phase>>
    BY <1>3 DEF Ingest, outcome
  <2>2. input' # None /\ input'.conn = c
    <3>1. completions[c] \in Seq(Cqe) /\ KernelInv(c)
      BY DEF KernelSide, KernelTypes
    <3>2. PICK k \in Cqe : k = Head(completions[c]) /\ CqeInv(c, 1) /\ k = completions[c][1]
      BY <1>1, <3>1 DEF KernelInv
    <3>3. k.to \in Nat /\ k.from \in Nat /\ k.from =< k.to /\ k.buffer \in Buffer
      BY <2>1, <3>2 DEF Cqe, CqeInv, WellFormed
    <3>4. k.to - k.from \in Nat
      BY <3>3
    <3>5. input' \in Payload
      BY <2>1, <3>2, <3>3, <3>4 DEF Payload
    <3> QED
      BY <2>1, <3>5, NothingAssumption
  <2>3. HeaderInv'
    BY <2>1, HeaderKept DEF ThreadInv, KernelSide, PeerSide
  <2>4. CASE phase[c] = "open"
    BY <1>1, <2>1, <2>2, <2>3, <2>4 DEF ThreadInv
  <2>5. CASE phase[c] # "open"
    BY <1>1, <2>1, <2>2, <2>3, <2>5 DEF ThreadInv
  <2> QED
    BY <2>4, <2>5
<1> QED
  BY <1>2, <1>3 DEF Completes

LEMMA ThreadDispatches ==
  ASSUME PeerSide, RightsTypes, FramerTypes, ThreadTypes, ThreadInv, Next,
         NEW c \in Conn, Dispatches(c)
  PROVE  ThreadInv'
<1>1. step = "handle" /\ c = input.conn /\ step # "idle"
  BY DEF Dispatches, Handle, HandlerFails, Takes, Rejects, Empty
<1>2. input # None /\ phase[c] # "gone"
  BY <1>1, BusyHasInput
<1>3. ASSUME NEW fate \in Fate, Handle(c, fate) PROVE ThreadInv'
  <2>1. step' = "next" /\ message' = None /\ input' = input /\ phase' = phase
    BY <1>3 DEF Handle, Takes
  <2> QED
    BY <1>1, <1>2, <2>1, NextThread
<1>4. CASE HandlerFails(c)
  <2>1. step' = "release" /\ message' = None /\ input' = input /\ Ends(c)
    BY <1>4 DEF HandlerFails, Takes, Fails
  <2>2. phase'[c] # "open" /\ phase'[c] # "gone"
    BY <1>2, <2>1, EndsPhase DEF RightsTypes
  <2> QED
    BY <1>1, <1>2, <2>1, <2>2, LeavingThread
<1>5. CASE Rejects(c) \/ Empty(c)
  BY <1>1, <1>5, TerminalThread DEF Rejects, Empty
<1> QED
  BY <1>3, <1>4, <1>5 DEF Dispatches

LEMMA ThreadStays ==
  ASSUME KernelSide, RightsTypes, FramerTypes, ThreadTypes, ThreadInv, FitsInv, LeaseInv,
         Next
  PROVE  ThreadInv'
<1>1. PeerSide
  BY DEF KernelSide
<1>2. CASE PeerOrKernel
  <2>1. UNCHANGED <<thread, releaseNext, buffered, phase>>
    BY <1>2, PeerOrKernelStays DEF framer, outcome
  <2> QED
    BY <1>1, <2>1, ThreadQuiet
<1>3. ASSUME NEW c \in Conn, BeginClose(c) PROVE ThreadInv'
  <2>1. UNCHANGED <<thread, releaseNext, buffered>>
          /\ phase' = [phase EXCEPT ![c] = "closing"]
    BY <1>3 DEF BeginClose, framer
  <2>2. \A d \in Conn : /\ phase'[d] = "gone" => phase[d] = "gone"
                        /\ phase'[d] = "open" => phase[d] = "open"
    BY <2>1, EndsPhases
  <2> QED
    BY <1>1, <2>1, <2>2, ThreadQuiet
<1>4. ASSUME NEW c \in Conn, Destroy(c) PROVE ThreadInv'
  <2>1. step = "idle" /\ UNCHANGED thread
    BY <1>4 DEF Destroy
  <2>2. input = None /\ step' = "idle" /\ input' = None /\ message' = message /\ message = None
    BY <2>1 DEF ThreadInv, thread
  <2> QED
    BY <2>2 DEF ThreadInv, HeaderInv
<1>5. CASE Release
  <2>1. step = "release" /\ step' = "idle" /\ input' = None /\ UNCHANGED message
    BY <1>5 DEF Release
  <2>2. message' = None
    BY <2>1 DEF ThreadInv
  <2> QED
    BY <2>1, <2>2 DEF ThreadInv, HeaderInv
<1> QED
  BY <1>1, <1>2, <1>3, <1>4, <1>5, ThreadCompletes, ThreadFrames, ThreadDispatches
     DEF Next, PeerOrKernel

-----------------------------------------------------------------------------
(* The buffers. *)

MemoryTypes ==
  /\ ring \in [Buffer -> Nat]
  /\ DOMAIN memory = Area /\ \A a \in Area : memory[a] \in [1..AreaSize(a) -> Byte]

LEMMA Sizes ==
  /\ \A b \in Buffer : AreaSize(b) = BufferSize /\ Capacity(b) = BufferSize
  /\ \A b \in Block : AreaSize(b) = BlockSize /\ Capacity(b) = BlockSize
  /\ \A c \in Conn : AreaSize(c) = InlineSize /\ Capacity(c) = InlineSize
  /\ Capacity(None) = 0
  /\ \A a \in Area : a # None /\ AreaSize(a) \in Nat /\ Capacity(a) = AreaSize(a)
<1>1. /\ \A b \in Buffer : AreaSize(b) = BufferSize
      /\ \A b \in Block : AreaSize(b) = BlockSize
      /\ \A c \in Conn : AreaSize(c) = InlineSize
  BY NamesAssumption DEF AreaSize
<1>2. BufferSize \in Nat /\ BlockSize \in Nat /\ InlineSize \in Nat
  BY SizesAssumption
<1>3. \A a \in Area : a # None /\ AreaSize(a) \in Nat /\ Capacity(a) = AreaSize(a)
  BY <1>1, <1>2, NamesAssumption DEF Area, Capacity
<1> QED
  BY <1>1, <1>3 DEF Capacity, Area

\* A step that hands no buffer on.
LEMMA BufferQuiet ==
  ASSUME BufferInv, KernelTypes, UNCHANGED <<ring, completions>>,
         input' = None <=> input = None,
         input # None => input'.buffer = input.buffer,
         \A b \in Buffer : memory'[b] = memory[b]
  PROVE  BufferInv'
<1>1. \A b \in Buffer : Held(b) => Held(b)'
  BY DEF Held
<1>2. ASSUME NEW c \in Conn, NEW i \in DOMAIN completions[c] PROVE InBuffer(c, i)'
  <2>1. InBuffer(c, i) /\ completions[c][i] \in Cqe
    BY DEF BufferInv, KernelTypes
  <2>2. completions[c][i].buffer \in Buffer \cup {None}
    BY <2>1 DEF Cqe
  <2> QED
    BY <2>1, <2>2 DEF InBuffer
<1> QED
  BY <1>1, <1>2 DEF BufferInv

LEMMA ArrivalIndex ==
  ASSUME KernelTypes, NEW c \in Conn, NEW k, Arrives(c, k)
  PROVE  /\ Len(completions[c]) + 1 \in DOMAIN completions'[c]
         /\ completions'[c][Len(completions[c]) + 1] = k
         /\ Len(completions[c]) + 1 \notin DOMAIN completions[c]
         /\ \A d \in Conn : \A i \in DOMAIN completions[d] :
              i \in DOMAIN completions'[d] /\ completions'[d][i] = completions[d][i]
         /\ \A d \in Conn : \A i \in DOMAIN completions'[d] :
              \/ i \in DOMAIN completions[d] /\ completions'[d][i] = completions[d][i]
              \/ d = c /\ i = Len(completions[c]) + 1
<1>1. completions' = [completions EXCEPT ![c] = Append(completions[c], k)]
        /\ completions \in [Conn -> Seq(Cqe)] /\ k \in Cqe
  BY DEF Arrives, KernelTypes
<1>2. completions'[c] = Append(completions[c], k) /\ completions[c] \in Seq(Cqe)
        /\ \A d \in Conn \ {c} : completions'[d] = completions[d]
  BY <1>1
<1>3. /\ Len(completions[c]) + 1 \in DOMAIN completions'[c]
      /\ completions'[c][Len(completions[c]) + 1] = k
      /\ Len(completions[c]) + 1 \notin DOMAIN completions[c]
      /\ \A i \in DOMAIN completions[c] :
           i \in DOMAIN completions'[c] /\ completions'[c][i] = completions[c][i]
      /\ \A i \in DOMAIN completions'[c] :
           \/ i \in DOMAIN completions[c] /\ completions'[c][i] = completions[c][i]
           \/ i = Len(completions[c]) + 1
  BY <1>1, <1>2
<1> QED
  BY <1>2, <1>3

\* Where a completion was before the oldest of c left.
Shift(c, d, i) == IF d = c THEN i + 1 ELSE i

LEMMA LeavingIndex ==
  ASSUME KernelTypes, NEW c \in Conn, Leaves(c)
  PROVE  /\ 1 \in DOMAIN completions[c]
         /\ \A d \in Conn : \A i \in DOMAIN completions'[d] :
              /\ Shift(c, d, i) \in DOMAIN completions[d] /\ i \in Nat
              /\ completions'[d][i] = completions[d][Shift(c, d, i)]
              /\ d = c => Shift(c, d, i) # 1
         /\ \A d \in Conn : \A i \in DOMAIN completions[d] :
              (d = c /\ i = 1) \/ \E j \in DOMAIN completions'[d] :
                                     completions'[d][j] = completions[d][i]
<1>1. completions' = [completions EXCEPT ![c] = Tail(completions[c])]
        /\ completions \in [Conn -> Seq(Cqe)] /\ completions[c] # <<>>
  BY DEF Leaves, KernelTypes
<1>2. completions'[c] = Tail(completions[c]) /\ completions[c] \in Seq(Cqe)
        /\ \A d \in Conn \ {c} : completions'[d] = completions[d] /\ completions[d] \in Seq(Cqe)
  BY <1>1
<1>3. /\ 1 \in DOMAIN completions[c]
      /\ \A i \in DOMAIN completions'[c] :
           /\ i + 1 \in DOMAIN completions[c] /\ i \in Nat /\ i + 1 # 1
           /\ completions'[c][i] = completions[c][i + 1]
  BY <1>1, <1>2
<1>4. ASSUME NEW i \in DOMAIN completions[c], i # 1
      PROVE  i - 1 \in DOMAIN completions'[c] /\ completions'[c][i - 1] = completions[c][i]
  BY <1>1, <1>2, <1>4
<1>5. \A d \in Conn \ {c} : \A i \in DOMAIN completions[d] : i \in Nat
  BY <1>2
<1> QED
  BY <1>2, <1>3, <1>4, <1>5 DEF Shift

\* A completion arrives in a buffer that was on offer.
LEMMA BufferTaken ==
  ASSUME KernelSide, MemoryTypes, BufferInv, NEW c \in Conn, NEW b \in Buffer, NEW k,
         Arrives(c, k), k.buffer = b, input' = input,
         ring[b] > 0, ring' = [ring EXCEPT ![b] = ring[b] - 1],
         \A e \in Buffer \ {b} : memory'[e] = memory[e],
         \A i \in 1..(k.to - k.from) : memory'[b][i] = <<c, k.from + i>>
  PROVE  BufferInv'
<1> DEFINE n == Len(completions[c]) + 1
<1>1. KernelTypes /\ KernelInv(c)
  BY DEF KernelSide
<1>2. Arrives(c, k) /\ k.buffer = b
  OBVIOUS
<1>3. ring' = [ring EXCEPT ![b] = ring[b] - 1] /\ ring[b] > 0 /\ input' = input
  OBVIOUS
<1>4. /\ n \in DOMAIN completions'[c] /\ completions'[c][n] = k
      /\ n \notin DOMAIN completions[c]
      /\ \A d \in Conn : \A i \in DOMAIN completions[d] :
           i \in DOMAIN completions'[d] /\ completions'[d][i] = completions[d][i]
      /\ \A d \in Conn : \A i \in DOMAIN completions'[d] :
           \/ i \in DOMAIN completions[d] /\ completions'[d][i] = completions[d][i]
           \/ d = c /\ i = n
  BY <1>1, <1>2, ArrivalIndex
<1> HIDE DEF n
<1>5. ring[b] = 1 /\ ring'[b] = 0 /\ \A e \in Buffer \ {b} : ring'[e] = ring[e]
  BY <1>3 DEF BufferInv, MemoryTypes
<1>6. /\ \A e \in Buffer \ {b} : memory'[e] = memory[e]
      /\ \A i \in 1..(k.to - k.from) : memory'[b][i] = <<c, k.from + i>>
  OBVIOUS
<1>7. input # None => ring[input.buffer] = 0
  BY DEF BufferInv
<1>8. ASSUME NEW d \in Conn, NEW i \in DOMAIN completions[d]
      PROVE  /\ completions[d][i].buffer \in Buffer \cup {None} /\ InBuffer(d, i)
             /\ completions[d][i].buffer # None =>
                  completions[d][i].buffer \in Buffer \ {b} /\ ring[completions[d][i].buffer] = 0
  <2>1. completions[d][i] \in Cqe
    BY <1>1 DEF KernelTypes
  <2>2. InBuffer(d, i)
    BY DEF BufferInv
  <2> QED
    BY <1>5, <2>1, <2>2 DEF Cqe, InBuffer
<1>9. ASSUME NEW e \in Buffer PROVE ring'[e] \in {0, 1} /\ (ring'[e] = 0 => Held(e)')
  <2>1. CASE e = b
    BY <1>2, <1>4, <1>5, <2>1 DEF Held
  <2>2. CASE e # b
    <3>1. ring'[e] = ring[e] /\ (Held(e) => Held(e)')
      BY <1>3, <1>4, <1>5, <2>2 DEF Held
    <3> QED
      BY <3>1 DEF BufferInv
  <2> QED
    BY <2>1, <2>2
<1>10. input' # None => ring'[input'.buffer] = 0
  <2>1. input # None => input.buffer # b
    BY <1>5, <1>7
  <2>2. input # None => ring'[input.buffer] = ring[input.buffer]
    BY <1>3, <2>1 DEF MemoryTypes
  <2> QED
    BY <1>3, <1>7, <2>2
<1>11. ASSUME NEW d \in Conn, NEW i \in DOMAIN completions'[d] PROVE InBuffer(d, i)'
  <2>1. CASE i \in DOMAIN completions[d] /\ completions'[d][i] = completions[d][i]
    <3>1. PICK a : a = completions[d][i].buffer
      OBVIOUS
    <3>2. InBuffer(d, i)
      BY <1>8, <2>1
    <3>3. a # None => ring[a] = 0 /\ ring'[a] = ring[a] /\ memory'[a] = memory[a]
      BY <1>5, <1>6, <1>8, <2>1, <3>1
    <3>4. input' = input
      BY <1>3
    <3> QED
      BY <2>1, <3>1, <3>2, <3>3, <3>4 DEF InBuffer
  <2>2. CASE d = c /\ i = n
    <3>1. completions'[d][i] = k
      BY <1>4, <2>2
    <3>2. input' # None => input'.buffer # b
      BY <1>3, <1>5, <1>7
    <3> QED
      BY <1>2, <1>5, <1>6, <2>2, <3>1, <3>2 DEF InBuffer
  <2> QED
    BY <1>4, <2>1, <2>2
<1>12. ASSUME NEW d \in Conn, NEW e \in Conn,
              NEW i \in DOMAIN completions'[d], NEW j \in DOMAIN completions'[e],
              completions'[d][i].buffer = completions'[e][j].buffer,
              completions'[d][i].buffer # None
       PROVE  d = e /\ i = j
  <2>1. CASE /\ i \in DOMAIN completions[d] /\ completions'[d][i] = completions[d][i]
             /\ j \in DOMAIN completions[e] /\ completions'[e][j] = completions[e][j]
    BY <1>12, <2>1 DEF BufferInv
  <2>2. CASE /\ i \in DOMAIN completions[d] /\ completions'[d][i] = completions[d][i]
             /\ e = c /\ j = n
    BY <1>2, <1>4, <1>8, <1>12, <2>2
  <2>3. CASE /\ d = c /\ i = n
             /\ j \in DOMAIN completions[e] /\ completions'[e][j] = completions[e][j]
    BY <1>2, <1>4, <1>8, <1>12, <2>3
  <2> QED
    BY <1>4, <2>1, <2>2, <2>3
<1> QED
  BY Zenon, <1>9, <1>10, <1>11, <1>12 DEF BufferInv

\* A completion arrives without a buffer.
LEMMA BufferNone ==
  ASSUME KernelSide, BufferInv, NEW c \in Conn, NEW k, Arrives(c, k), k.buffer = None,
         UNCHANGED <<ring, input, memory>>
  PROVE  BufferInv'
<1> DEFINE n == Len(completions[c]) + 1
<1>1. KernelTypes /\ KernelInv(c)
  BY DEF KernelSide
<1>2. Arrives(c, k) /\ k.buffer = None
  OBVIOUS
<1>3. UNCHANGED <<ring, input, memory>>
  OBVIOUS
<1>4. /\ completions'[c][n] = k
      /\ \A d \in Conn : \A i \in DOMAIN completions[d] :
           i \in DOMAIN completions'[d] /\ completions'[d][i] = completions[d][i]
      /\ \A d \in Conn : \A i \in DOMAIN completions'[d] :
           \/ i \in DOMAIN completions[d] /\ completions'[d][i] = completions[d][i]
           \/ d = c /\ i = n
  BY <1>1, <1>2, ArrivalIndex
<1> HIDE DEF n
<1>5. \A e \in Buffer : Held(e) => Held(e)'
  BY <1>3, <1>4 DEF Held
<1>6. ASSUME NEW d \in Conn, NEW i \in DOMAIN completions'[d] PROVE InBuffer(d, i)'
  <2>1. CASE i \in DOMAIN completions[d] /\ completions'[d][i] = completions[d][i]
    BY <1>3, <2>1 DEF BufferInv, InBuffer
  <2>2. CASE d = c /\ i = n
    BY <1>2, <1>4, <2>2 DEF InBuffer
  <2> QED
    BY <1>4, <2>1, <2>2
<1>7. ASSUME NEW d \in Conn, NEW e \in Conn,
             NEW i \in DOMAIN completions'[d], NEW j \in DOMAIN completions'[e],
             completions'[d][i].buffer = completions'[e][j].buffer,
             completions'[d][i].buffer # None
      PROVE  d = e /\ i = j
  <2>1. /\ i \in DOMAIN completions[d] /\ completions'[d][i] = completions[d][i]
        /\ j \in DOMAIN completions[e] /\ completions'[e][j] = completions[e][j]
    BY <1>2, <1>4, <1>7
  <2> QED
    BY <1>7, <2>1 DEF BufferInv
<1>8. \A e \in Buffer : ring'[e] \in {0, 1} /\ (ring'[e] = 0 => Held(e)')
  BY <1>3, <1>5 DEF BufferInv
<1>9. input' # None => ring'[input'.buffer] = 0
  BY <1>3 DEF BufferInv
<1> QED
  BY Zenon, <1>6, <1>7, <1>8, <1>9 DEF BufferInv

\* The kernel writes to it what it read,
LEMMA BufferReceives ==
  ASSUME KernelSide, MemoryTypes, BufferInv, NEW c \in Conn, NEW b \in Buffer,
         NEW upto \in 1..MaxBytes[c], NEW last \in 0..MaxFds[c],
         KernelReceives(c, b, upto, last)
  PROVE  BufferInv'
<1> DEFINE k == Completion(c, b, upto, Least(last, passed[c] + ControlCapacity), last)
<1>1. KernelTypes /\ KernelInv(c)
  BY DEF KernelSide
<1>2. Arrives(c, k) /\ k.buffer = b /\ k.to = upto /\ k.from = read[c]
  BY <1>1, ReceivingArrives DEF Arrives
<1>3. /\ ring[b] > 0 /\ ring' = [ring EXCEPT ![b] = ring[b] - 1] /\ input' = input
      /\ upto =< read[c] + BufferSize /\ read[c] < upto
      /\ memory' = [memory EXCEPT ![b] =
           [i \in DOMAIN memory[b] |-> IF i =< upto - read[c] THEN <<c, read[c] + i>>
                                                              ELSE memory[b][i]]]
  BY DEF KernelReceives, thread
<1> HIDE DEF k
<1>4. /\ \A e \in Buffer \ {b} : memory'[e] = memory[e]
      /\ \A i \in 1..(k.to - k.from) : memory'[b][i] = <<c, k.from + i>>
  <2>1. DOMAIN memory[b] = 1..BufferSize /\ DOMAIN memory = Area /\ Buffer \subseteq Area
    BY Sizes DEF MemoryTypes, Area
  <2>2. memory'[b] = [i \in 1..BufferSize |->
                        IF i =< upto - read[c] THEN <<c, read[c] + i>> ELSE memory[b][i]]
          /\ \A e \in Buffer \ {b} : memory'[e] = memory[e]
    BY <1>3, <2>1
  <2>3. read[c] \in Nat /\ BufferSize \in Nat /\ upto \in Nat
    BY <1>1, SizesAssumption DEF KernelTypes
  <2>4. ASSUME NEW i \in 1..(upto - read[c]) PROVE i \in 1..BufferSize /\ i =< upto - read[c]
    BY <1>3, <2>3
  <2>5. \A i \in 1..(upto - read[c]) : memory'[b][i] = <<c, read[c] + i>>
    BY <2>2, <2>4
  <2> QED
    BY <1>2, <2>2, <2>5
<1> QED
  BY <1>2, <1>3, <1>4, BufferTaken

\* and nothing at the end of the stream.
LEMMA BufferEnds ==
  ASSUME KernelSide, MemoryTypes, BufferInv, NEW c \in Conn, KernelEnds(c)
  PROVE  BufferInv'
<1>1. KernelTypes /\ KernelInv(c)
  BY DEF KernelSide
<1>2. PICK k \in Cqe :
        /\ Arrives(c, k) /\ k.to = k.from
        /\ \/ k.buffer = None /\ ring' = ring
           \/ /\ k.buffer \in Buffer /\ ring[k.buffer] > 0
              /\ ring' = [ring EXCEPT ![k.buffer] = ring[k.buffer] - 1]
  BY <1>1, EndingArrives
<1>3. UNCHANGED <<input, memory>>
  BY DEF KernelEnds, thread
<1>4. CASE /\ k.buffer \in Buffer /\ ring[k.buffer] > 0
           /\ ring' = [ring EXCEPT ![k.buffer] = ring[k.buffer] - 1]
  <2>1. \A i \in 1..(k.to - k.from) : FALSE
    BY <1>2 DEF Cqe
  <2> QED
    BY <1>2, <1>3, <1>4, <2>1, BufferTaken
<1>5. CASE k.buffer = None /\ ring' = ring
  BY <1>2, <1>3, <1>5, BufferNone
<1> QED
  BY <1>2, <1>4, <1>5

\* A completion leaves, and its buffer goes back or is taken by the thread.
LEMMA BufferLeaves ==
  ASSUME KernelSide, MemoryTypes, BufferInv, NEW c \in Conn, Leaves(c), input = None,
         UNCHANGED memory,
         \/ /\ completions[c][1].buffer = None /\ ring' = ring /\ input' = None
         \/ /\ completions[c][1].buffer # None /\ input' = None
            /\ ring' = [ring EXCEPT ![completions[c][1].buffer] =
                                       ring[completions[c][1].buffer] + 1]
         \/ /\ completions[c][1].buffer # None /\ ring' = ring
            /\ input' # None /\ input'.buffer = completions[c][1].buffer
  PROVE  BufferInv'
<1>1. KernelTypes
  BY DEF KernelSide
<1>2. /\ 1 \in DOMAIN completions[c]
      /\ \A d \in Conn : \A i \in DOMAIN completions'[d] :
           /\ Shift(c, d, i) \in DOMAIN completions[d] /\ i \in Nat
           /\ completions'[d][i] = completions[d][Shift(c, d, i)]
           /\ d = c => Shift(c, d, i) # 1
      /\ \A d \in Conn : \A i \in DOMAIN completions[d] :
           (d = c /\ i = 1) \/ \E j \in DOMAIN completions'[d] :
                                  completions'[d][j] = completions[d][i]
  BY <1>1, LeavingIndex
<1>3. PICK b : b = completions[c][1].buffer
  OBVIOUS
<1>4. ASSUME NEW d \in Conn, NEW i \in DOMAIN completions[d]
      PROVE  completions[d][i].buffer \in Buffer \cup {None} /\ InBuffer(d, i)
  <2>1. completions[d][i] \in Cqe
    BY <1>1 DEF KernelTypes
  <2> QED
    BY <2>1 DEF Cqe, BufferInv
<1>5. b # None => b \in Buffer /\ ring[b] = 0
  BY <1>2, <1>3, <1>4 DEF InBuffer
<1>6. ASSUME NEW d \in Conn, NEW i \in DOMAIN completions[d], d = c => i # 1,
             completions[d][i].buffer # None
      PROVE  completions[d][i].buffer # b
  BY <1>2, <1>3, <1>6 DEF BufferInv
<1>7. ASSUME NEW e \in Buffer, e # b, Held(e) PROVE Held(e)'
  <2>1. PICK d \in Conn : \E i \in DOMAIN completions[d] : completions[d][i].buffer = e
    BY <1>7 DEF Held
  <2>2. PICK i \in DOMAIN completions[d] : completions[d][i].buffer = e
    BY <2>1
  <2>3. \E j \in DOMAIN completions'[d] : completions'[d][j] = completions[d][i]
    BY <1>2, <1>3, <1>7, <2>2
  <2> QED
    BY <2>2, <2>3 DEF Held
<1>8. /\ b # None /\ input' = None => ring'[b] = 1
      /\ \A e \in Buffer \ {b} : ring'[e] = ring[e]
      /\ b # None /\ input' # None => ring'[b] = 0 /\ input'.buffer = b
      /\ input' # None => b # None
      /\ b = None => ring' = ring
  BY <1>3, <1>5 DEF MemoryTypes
<1>9. ASSUME NEW e \in Buffer PROVE ring'[e] \in {0, 1} /\ (ring'[e] = 0 => Held(e)')
  <2>1. CASE e = b
    <3>1. b # None
      BY <2>1, Sizes DEF Area
    <3> QED
      BY <1>8, <2>1, <3>1 DEF Held
  <2>2. CASE e # b
    BY <1>7, <1>8, <2>2 DEF BufferInv
  <2> QED
    BY <2>1, <2>2
<1>10. input' # None => ring'[input'.buffer] = 0
  BY <1>8
<1>11. ASSUME NEW d \in Conn, NEW i \in DOMAIN completions'[d] PROVE InBuffer(d, i)'
  <2>1. PICK j \in DOMAIN completions[d] : j = Shift(c, d, i)
    BY <1>2
  <2>2. completions'[d][i] = completions[d][j] /\ (d = c => j # 1)
    BY <1>2, <2>1
  <2>3. InBuffer(d, j) /\ completions[d][j].buffer \in Buffer \cup {None}
    BY <1>4
  <2>4. completions[d][j].buffer # None =>
          completions[d][j].buffer # b /\ ring'[completions[d][j].buffer] = ring[completions[d][j].buffer]
    BY <1>6, <1>8, <2>2, <2>3
  <2> QED
    BY <1>8, <2>2, <2>3, <2>4 DEF InBuffer
<1>12. ASSUME NEW d \in Conn, NEW e \in Conn,
              NEW i \in DOMAIN completions'[d], NEW j \in DOMAIN completions'[e],
              completions'[d][i].buffer = completions'[e][j].buffer,
              completions'[d][i].buffer # None
       PROVE  d = e /\ i = j
  <2>1. d = e /\ Shift(c, d, i) = Shift(c, e, j)
    BY <1>2, <1>12 DEF BufferInv
  <2>2. i \in Nat /\ j \in Nat
    BY <1>2
  <2> QED
    BY <2>1, <2>2 DEF Shift
<1> QED
  BY Zenon, <1>9, <1>10, <1>11, <1>12 DEF BufferInv

LEMMA BufferReleases ==
  ASSUME KernelTypes, MemoryTypes, ThreadTypes, ThreadInv, BufferInv, Release
  PROVE  BufferInv'
<1>1. input # None /\ input.buffer \in Buffer /\ step = "release"
  BY BusyHasInput DEF Release
<1>2. /\ ring' = [ring EXCEPT ![input.buffer] = ring[input.buffer] + 1]
      /\ input' = None /\ UNCHANGED <<completions, memory>>
  BY DEF Release
<1>3. ring[input.buffer] = 0
  BY <1>1 DEF BufferInv
<1>4. ring'[input.buffer] = 1 /\ \A e \in Buffer \ {input.buffer} : ring'[e] = ring[e]
  BY <1>1, <1>2, <1>3 DEF MemoryTypes
<1>5. ASSUME NEW c \in Conn, NEW i \in DOMAIN completions[c] PROVE InBuffer(c, i)'
  <2>1. completions[c][i] \in Cqe /\ InBuffer(c, i)
    BY DEF KernelTypes, BufferInv
  <2>2. completions[c][i].buffer # None =>
          completions[c][i].buffer \in Buffer \ {input.buffer}
    BY <1>1, <2>1 DEF Cqe, InBuffer
  <2> QED
    BY <1>2, <1>4, <2>1, <2>2 DEF InBuffer
<1>6. ASSUME NEW e \in Buffer PROVE ring'[e] \in {0, 1} /\ (ring'[e] = 0 => Held(e)')
  <2>1. CASE e = input.buffer
    BY <1>4, <2>1
  <2>2. CASE e # input.buffer
    <3>1. ring'[e] = ring[e] /\ (Held(e) => Held(e)')
      BY <1>2, <1>4, <2>2 DEF Held
    <3> QED
      BY <3>1 DEF BufferInv
  <2> QED
    BY <2>1, <2>2
<1>7. \A c, d \in Conn : \A i \in DOMAIN completions'[c], j \in DOMAIN completions'[d] :
        completions'[c][i].buffer = completions'[d][j].buffer
          /\ completions'[c][i].buffer # None => c = d /\ i = j
  BY <1>2 DEF BufferInv
<1> QED
  BY <1>2, <1>5, <1>6, <1>7 DEF BufferInv

\* The framer writes to no buffer.
LEMMA BufferFrames ==
  ASSUME PeerSide, KernelTypes, FramerTypes, ThreadTypes, MemoryTypes, ThreadInv, FitsInv,
         LeaseInv, BufferInv, NEW c \in Conn, Frames(c)
  PROVE  BufferInv'
<1>1. step \in {"next", "header", "body"} /\ c = input.conn /\ UNCHANGED <<ring, completions>>
  BY DEF Frames, ReleaseLease, Borrow, Drained, Fragment, FillHeader, FillBody, Garbled,
         MessageTooLarge, Terminal, Fresh, Resumes, kernel
<1>2. input # None /\ Rest \in Nat /\ step # "idle"
  BY <1>1, BusyHasInput
<1>3. Leases
  BY DEF LeaseInv
<1>4. ASSUME NEW count \in Nat, count =< Rest, Copy(c, count),
             lease'[c] \in Block \cup {None}, scratch'[c] \in {lease'[c], c}
      PROVE  BufferInv'
  <2>1. input' # None /\ input'.buffer = input.buffer
    BY <1>2, <1>4, ConsumedInput DEF Copy
  <2>2. scratch'[c] \notin Buffer
    BY <1>4, NamesAssumption DEF Area
  <2>3. \A b \in Buffer : memory'[b] = memory[b]
    BY <1>4, <2>2, NamesAssumption DEF Copy, MemoryTypes, Area
  <2> QED
    BY <1>1, <1>2, <2>1, <2>3, BufferQuiet
<1>5. ASSUME NEW required \in Nat, EnsureCapacity(c, required)
      PROVE  lease'[c] \in Block \cup {None} /\ scratch'[c] \in {lease'[c], c}
  <2>1. lease' \in [Conn -> Block \cup {None}] /\ Leases'
    BY <1>3, <1>5, EnsureLeases
  <2> QED
    BY <2>1 DEF Leases
<1>6. CASE ReleaseLease(c) \/ Drained(c) \/ Garbled(c) \/ MessageTooLarge(c)
  <2>1. UNCHANGED <<input, memory>>
    BY <1>6 DEF ReleaseLease, Drained, Garbled, MessageTooLarge, Terminal, thread
  <2> QED
    BY <1>1, <2>1, BufferQuiet
<1>7. CASE Borrow(c)
  <2>1. PICK m \in Headers(input.buffer, input.at) :
          /\ Length(m) =< Rest
          /\ input' = [input EXCEPT !.at = input.at + Length(m)]
    BY <1>7 DEF Borrow
  <2>2. Length(m) \in Nat
    BY HeadersAreMessages
  <2>3. input' # None /\ input'.buffer = input.buffer
    BY <1>2, <2>1, <2>2, ConsumedInput
  <2>4. memory' = memory
    BY <1>7 DEF Borrow
  <2> QED
    BY <1>1, <1>2, <2>3, <2>4, BufferQuiet
<1>8. CASE Fragment(c)
  BY <1>2, <1>4, <1>5, <1>8 DEF Fragment
<1>9. CASE FillHeader(c)
  <2>1. PICK count : count = HeaderCount(c)
    OBVIOUS
  <2>2. count \in Nat /\ count =< Rest /\ Copy(c, count) /\ UNCHANGED <<scratch, lease>>
    BY <1>9, <2>1, FillHeaderCounts
  <2>3. lease'[c] \in Block \cup {None} /\ scratch'[c] \in {lease'[c], c}
    BY <1>3, <2>2 DEF Leases, FramerTypes
  <2> QED
    BY <1>4, <2>2, <2>3
<1>10. CASE FillBody(c)
  <2>1. \E m \in Headers(scratch[c], 0) : \E count \in Nat :
          /\ count =< Rest /\ Length(m) \in Nat
          /\ EnsureCapacity(c, Length(m)) /\ Copy(c, count)
    BY <1>10, FillBodyCounts
  <2> QED
    BY <1>4, <1>5, <2>1
<1> QED
  BY <1>6, <1>7, <1>8, <1>9, <1>10 DEF Frames

LEMMA BufferStays ==
  ASSUME KernelSide, FramerTypes, ThreadTypes, MemoryTypes, ThreadInv, FitsInv,
         LeaseInv, BufferInv, Next
  PROVE  BufferInv'
<1>1. KernelTypes /\ PeerSide
  BY DEF KernelSide
<1>2. CASE \/ \E c \in Conn, size \in Size, count \in Rights : Write(c, size, count)
           \/ \E c \in Conn : \/ Sends(c) \/ Hangup(c) \/ KernelCancels(c)
                              \/ BeginClose(c) \/ Destroy(c) \/ Dispatches(c)
  <2>1. ASSUME NEW c \in Conn, NEW size \in Size, NEW count \in Rights, Write(c, size, count)
        PROVE  UNCHANGED <<ring, completions, input, memory>>
    BY <2>1 DEF Write, kernel, thread
  <2>2. ASSUME NEW c \in Conn,
               Sends(c) \/ Hangup(c) \/ KernelCancels(c) \/ BeginClose(c) \/ Destroy(c)
        PROVE  UNCHANGED <<ring, completions, input, memory>>
    BY <2>2 DEF Sends, Send, Hangup, KernelCancels, BeginClose, Destroy, kernel, thread
  <2>3. ASSUME NEW c \in Conn, Dispatches(c)
        PROVE  UNCHANGED <<ring, completions, input, memory>>
    BY <2>3 DEF Dispatches, Handle, HandlerFails, Rejects, Empty, Terminal, kernel
  <2>4. UNCHANGED <<ring, completions, input, memory>>
    BY <1>2, <2>1, <2>2, <2>3
  <2> QED
    BY <1>1, <2>4, BufferQuiet
<1>3. ASSUME NEW c \in Conn, Receives(c) \/ KernelEnds(c) PROVE BufferInv'
  BY <1>3, BufferReceives, BufferEnds DEF Receives
<1>4. ASSUME NEW c \in Conn, Completes(c) PROVE BufferInv'
  <2>1. Leaves(c) /\ step = "idle" /\ input = None /\ UNCHANGED memory
    BY <1>4 DEF Completes, Disconnected, Refused, Ingest, Discard, Pending, Dropped,
                Leaves, peer, ThreadInv
  <2>2. Head(completions[c]) = completions[c][1]
    BY <1>1, <2>1, LeavingKernel DEF KernelSide
  <2>3. ~IsEnd(completions[c][1]) => completions[c][1].buffer # None
    BY <1>1, <2>1, LeavingKernel DEF KernelSide, CqeInv, WellFormed
  <2>4. CASE Disconnected(c)
    BY <2>1, <2>2, <2>4, BufferLeaves DEF Disconnected, thread
  <2>5. CASE Refused(c) \/ Discard(c)
    BY <2>1, <2>2, <2>5, <2>3, BufferLeaves DEF Refused, Discard, ClosesRights, thread
  <2>6. CASE Ingest(c)
    <3>1. /\ completions[c][1].buffer # None /\ ring' = ring
          /\ input' = [conn |-> c, buffer |-> completions[c][1].buffer, at |-> 0,
                       end |-> completions[c][1].to - completions[c][1].from]
      BY <2>2, <2>6, <2>3 DEF Ingest
    <3>2. input' # None
      <4>1. 1 \in DOMAIN completions[c] /\ completions[c][1] \in Cqe /\ CqeInv(c, 1)
        BY <1>1, <2>1, LeavingIndex, LeavingKernel DEF KernelSide
      <4>2. PICK k \in Cqe : k = completions[c][1] /\ k.from =< k.to
        BY <4>1 DEF CqeInv
      <4>3. k.to - k.from \in Nat /\ k.buffer \in Buffer
        BY <3>1, <4>2 DEF Cqe
      <4>4. input' \in Payload
        BY <3>1, <4>2, <4>3 DEF Payload
      <4> QED
        BY <4>4, NothingAssumption
    <3> QED
      BY <2>1, <3>1, <3>2, BufferLeaves
  <2> QED
    BY <1>4, <2>4, <2>5, <2>6 DEF Completes
<1>5. ASSUME NEW c \in Conn, Frames(c) PROVE BufferInv'
  BY <1>1, <1>5, BufferFrames
<1> QED
  BY <1>1, <1>2, <1>3, <1>4, <1>5, BufferReleases DEF Next

-----------------------------------------------------------------------------
(* The types. *)

FragmentFits == \A c \in Conn : buffered[c] =< Capacity(scratch[c])

\* What a step of the framer moves, and where.
LEMMA CopyMoves ==
  ASSUME FramerTypes, ThreadTypes, MemoryTypes, ThreadInv, FragmentFits, step # "idle",
         NEW c \in Conn, NEW count \in Nat, count =< Rest, Copy(c, count),
         scratch'[c] \in Area, buffered[c] + count =< Capacity(scratch'[c])
  PROVE  /\ \A i \in 1..buffered[c] : memory'[scratch'[c]][i] = memory[scratch[c]][i]
         /\ \A j \in 1..count :
              memory'[scratch'[c]][buffered[c] + j] = memory[input.buffer][input.at + j]
         /\ \A a \in Area : a # scratch'[c] => memory'[a] = memory[a]
         /\ ring' = ring => MemoryTypes'
<1>1. /\ input \in Payload /\ input.buffer \in Buffer /\ input.at \in Nat /\ Rest \in Nat
      /\ input.end \in Nat /\ input.at + Rest = input.end /\ input.end =< BufferSize
      /\ BufferSize \in Nat
  BY BusyHasInput, SizesAssumption
<1>2. PICK n \in Nat : n = buffered[c] /\ n =< Capacity(scratch[c])
  BY DEF FramerTypes, FragmentFits
<1>3. PICK a \in Area : a = scratch'[c]
  OBVIOUS
<1>4. memory' = [memory EXCEPT ![a] =
        [i \in DOMAIN memory[a] |->
           IF i =< n THEN memory[scratch[c]][i]
           ELSE IF i =< n + count THEN memory[input.buffer][input.at + i - n]
           ELSE memory[a][i]]]
  BY <1>2, <1>3 DEF Copy
<1>5. PICK size \in Nat : size = AreaSize(a) /\ size = Capacity(a)
  BY Sizes
<1>6. DOMAIN memory[a] = 1..size /\ DOMAIN memory = Area /\ n + count =< size
  BY <1>2, <1>3, <1>5 DEF MemoryTypes
<1>7. \A i \in 1..size : memory'[a][i] =
           IF i =< n THEN memory[scratch[c]][i]
           ELSE IF i =< n + count THEN memory[input.buffer][input.at + i - n]
           ELSE memory[a][i]
  BY <1>4, <1>6
<1>8. ASSUME NEW i \in 1..n PROVE memory'[a][i] = memory[scratch[c]][i]
  <2>1. i \in 1..size /\ i =< n
    BY <1>6
  <2> QED
    BY <1>7, <2>1
<1>9. ASSUME NEW j \in 1..count
      PROVE  memory'[a][n + j] = memory[input.buffer][input.at + j]
  <2>1. PICK at \in Nat : at = input.at
    BY <1>1
  <2>2. n + j \in 1..size /\ ~(n + j =< n) /\ n + j =< n + count
    BY <1>6
  <2>3. at + (n + j) - n = at + j
    OBVIOUS
  <2>4. memory'[a][n + j] = memory[input.buffer][at + (n + j) - n]
    BY <1>7, <2>1, <2>2
  <2> QED
    BY <2>1, <2>3, <2>4
<1>10. \A e \in Area : e # a => memory'[e] = memory[e]
  BY <1>4, <1>6
<1>11. ASSUME NEW i \in 1..size PROVE memory'[a][i] \in Byte
  <2>1. CASE i =< n
    <3>1. scratch[c] \in Area
      <4>1. scratch[c] \in Area \cup {None} /\ n > 0
        BY <2>1 DEF FramerTypes
      <4> QED
        BY <1>2, <4>1, Sizes
    <3>2. PICK other \in Nat : other = AreaSize(scratch[c]) /\ n =< other
      BY <1>2, <3>1, Sizes
    <3>3. i \in 1..other
      BY <2>1, <3>2
    <3>4. memory[scratch[c]] \in [1..other -> Byte]
      BY <3>1, <3>2 DEF MemoryTypes
    <3>5. memory'[a][i] = memory[scratch[c]][i]
      BY <1>7, <2>1
    <3> QED
      BY <3>3, <3>4, <3>5
  <2>2. CASE ~(i =< n) /\ i =< n + count
    <3>1. input.at + i - n \in 1..BufferSize
      BY <1>1, <2>2
    <3>2. memory[input.buffer] \in [1..BufferSize -> Byte]
      BY <1>1, Sizes DEF MemoryTypes, Area
    <3>3. memory'[a][i] = memory[input.buffer][input.at + i - n]
      BY <1>7, <2>2
    <3> QED
      BY <3>1, <3>2, <3>3
  <2>3. CASE ~(i =< n) /\ ~(i =< n + count)
    <3>1. memory[a] \in [1..size -> Byte]
      BY <1>5 DEF MemoryTypes
    <3>2. memory'[a][i] = memory[a][i]
      BY <1>7, <2>3
    <3> QED
      BY <3>1, <3>2
  <2> QED
    BY <2>1, <2>2, <2>3
<1>12. ring' = ring => MemoryTypes'
  <2>1. memory'[a] \in [1..size -> Byte]
    BY <1>4, <1>6, <1>11
  <2>2. DOMAIN memory' = Area
    BY <1>4, <1>6
  <2> QED
    BY <1>5, <1>10, <2>1, <2>2 DEF MemoryTypes
<1> QED
  BY <1>2, <1>3, <1>8, <1>9, <1>10, <1>12

\* The scratch of a fragment is an area that holds a header.
LEMMA FragmentScratch ==
  ASSUME FramerTypes, LeaseInv, FragmentFits, NEW c \in Conn, buffered[c] > 0
  PROVE  /\ scratch[c] \in Area /\ scratch[c] \in Block \cup {c}
         /\ HeaderSize =< Capacity(scratch[c]) /\ InlineSize =< Capacity(scratch[c])
         /\ Capacity(scratch[c]) \in Nat
         /\ lease[c] # None => Capacity(scratch[c]) = BlockSize
<1>1. InlineSize \in Nat /\ BlockSize \in Nat /\ HeaderSize \in Nat /\ HeaderSize =< InlineSize
  BY SizesAssumption
<1>2. scratch[c] # None
  BY Sizes DEF FramerTypes, FragmentFits
<1>3. scratch[c] \in {lease[c], c} /\ lease[c] \in Block \cup {None}
        /\ (lease[c] # None => InlineSize < BlockSize /\ scratch[c] = lease[c])
  BY DEF LeaseInv, Leases, FramerTypes
<1>4. CASE lease[c] # None
  BY <1>1, <1>3, <1>4, Sizes DEF Area
<1>5. CASE lease[c] = None
  <2>1. scratch[c] = c
    BY <1>2, <1>3, <1>5
  <2> QED
    BY <1>1, <1>5, <2>1, Sizes DEF Area
<1> QED
  BY <1>4, <1>5

\* The steps of the framer that copy, with what they need.
LEMMA Copies ==
  ASSUME PeerSide, FramerTypes, ThreadTypes, ThreadInv, FitsInv, LeaseInv, FragmentFits,
         NEW c \in Conn, Fragment(c) \/ FillHeader(c) \/ FillBody(c)
  PROVE  /\ step # "idle" /\ c = input.conn
         /\ scratch' \in [Conn -> Area \cup {None}] /\ lease' \in [Conn -> Block \cup {None}]
         /\ free' \subseteq Block /\ ring' = ring
         /\ \E total \in Nat : /\ buffered' = [buffered EXCEPT ![c] = total]
                               /\ total =< Capacity(scratch'[c])
         /\ \A d \in Conn \ {c} : scratch'[d] = scratch[d] /\ lease'[d] = lease[d]
         /\ \E count \in Nat : /\ count =< Rest /\ Copy(c, count)
                               /\ scratch'[c] \in Area
                               /\ buffered[c] + count =< Capacity(scratch'[c])
<1>1. step # "idle" /\ c = input.conn /\ ring' = ring
  BY DEF Fragment, FillHeader, FillBody, Fresh, Resumes, kernel
<1>2. Rest \in Nat /\ Leases
  BY <1>1, BusyHasInput DEF LeaseInv
<1>3. ASSUME scratch' \in [Conn -> Area \cup {None}], Capacity(scratch'[c]) > 0
      PROVE  scratch'[c] \in Area
  BY <1>3, Sizes
<1>4. CASE Fragment(c)
  <2>1. /\ Rest > 0 /\ buffered[c] = 0 /\ EnsureCapacity(c, Rest) /\ Copy(c, Rest)
        /\ buffered' = [buffered EXCEPT ![c] = Rest]
    BY <1>4 DEF Fragment, Fresh
  <2>2. /\ scratch' \in [Conn -> Area \cup {None}] /\ lease' \in [Conn -> Block \cup {None}]
        /\ free' \subseteq Block /\ Capacity(scratch'[c]) >= Rest
        /\ \A d \in Conn \ {c} : scratch'[d] = scratch[d] /\ lease'[d] = lease[d]
    BY <1>2, <2>1, EnsureLeases
  <2>3. Capacity(scratch'[c]) \in Nat
    BY <2>2, Sizes
  <2>4. scratch'[c] \in Area /\ buffered[c] + Rest =< Capacity(scratch'[c])
          /\ Rest =< Capacity(scratch'[c]) /\ Rest =< Rest
    BY <1>2, <1>3, <2>1, <2>2, <2>3
  <2> QED
    BY <1>1, <1>2, <2>1, <2>2, <2>4
<1>5. CASE FillHeader(c)
  <2>1. PICK count : count = HeaderCount(c)
    OBVIOUS
  <2>2. /\ buffered[c] > 0 /\ buffered[c] \in Nat /\ count \in Nat /\ count =< Rest
        /\ Copy(c, count) /\ buffered' = [buffered EXCEPT ![c] = buffered[c] + count]
        /\ UNCHANGED <<scratch, lease, free>>
        /\ buffered[c] < HeaderSize => buffered[c] + count =< HeaderSize
        /\ buffered[c] >= HeaderSize => count = 0
    BY <1>5, <2>1, FillHeaderCounts
  <2>3. scratch[c] \in Area /\ HeaderSize =< Capacity(scratch[c])
          /\ Capacity(scratch[c]) \in Nat /\ buffered[c] =< Capacity(scratch[c])
          /\ HeaderSize \in Nat
    BY <2>2, FragmentScratch, SizesAssumption DEF FragmentFits
  <2>4. buffered[c] + count \in Nat /\ buffered[c] + count =< Capacity(scratch[c])
    BY <2>2, <2>3
  <2> QED
    BY <1>1, <2>2, <2>3, <2>4 DEF FramerTypes
<1>6. CASE FillBody(c)
  <2>1. PICK m \in Headers(scratch[c], 0) : \E count \in Nat :
              /\ count =< Rest /\ buffered[c] + count =< Length(m)
              /\ Length(m) \in Nat
              /\ EnsureCapacity(c, Length(m)) /\ Copy(c, count)
              /\ \/ buffered' = [buffered EXCEPT ![c] = buffered[c] + count]
                 \/ buffered' = [buffered EXCEPT ![c] = 0]
    BY <1>6, FillBodyCounts
  <2>2. PICK count \in Nat :
              /\ count =< Rest /\ buffered[c] + count =< Length(m)
              /\ Length(m) \in Nat
              /\ EnsureCapacity(c, Length(m)) /\ Copy(c, count)
              /\ \/ buffered' = [buffered EXCEPT ![c] = buffered[c] + count]
                 \/ buffered' = [buffered EXCEPT ![c] = 0]
    BY <2>1
  <2>3. /\ scratch' \in [Conn -> Area \cup {None}] /\ lease' \in [Conn -> Block \cup {None}]
        /\ free' \subseteq Block /\ Capacity(scratch'[c]) >= Length(m)
        /\ \A d \in Conn \ {c} : scratch'[d] = scratch[d] /\ lease'[d] = lease[d]
    BY <1>2, <2>2, EnsureLeases
  <2>4. Capacity(scratch'[c]) \in Nat
    BY <2>3, Sizes
  <2>5. buffered[c] \in Nat /\ buffered[c] > 0
    BY <1>6, FillBodyCounts
  <2>6. buffered[c] + count =< Capacity(scratch'[c]) /\ 0 =< Capacity(scratch'[c])
          /\ Capacity(scratch'[c]) > 0
    BY <2>2, <2>3, <2>4, <2>5
  <2>7. scratch'[c] \in Area
    BY <1>3, <2>3, <2>6
  <2>8. \E total \in Nat : /\ buffered' = [buffered EXCEPT ![c] = total]
                           /\ total =< Capacity(scratch'[c])
    BY <2>2, <2>5, <2>6
  <2> QED
    BY <1>1, <2>2, <2>3, <2>6, <2>7, <2>8
<1> QED
  BY <1>4, <1>5, <1>6

LEMMA FramerTypesStay ==
  ASSUME PeerSide, FramerTypes, ThreadTypes, ThreadInv, FitsInv, LeaseInv, FragmentFits, Next
  PROVE  FramerTypes' /\ FragmentFits'
<1>1. CASE UNCHANGED framer
  BY <1>1 DEF FramerTypes, FragmentFits, framer
<1>2. ASSUME NEW c \in Conn, ReleaseLease(c) PROVE FramerTypes' /\ FragmentFits'
  <2>1. /\ free' = free \cup {lease[c]} /\ lease' = [lease EXCEPT ![c] = None]
        /\ scratch' = [scratch EXCEPT ![c] = c]
        /\ releaseNext' = [releaseNext EXCEPT ![c] = FALSE]
        /\ UNCHANGED buffered /\ releaseNext[c]
    BY <1>2 DEF ReleaseLease
  <2>2. lease[c] # None /\ buffered[c] = 0
    BY <2>1 DEF LeaseInv
  <2>3. FramerTypes'
    BY <2>1, <2>2 DEF FramerTypes, Area
  <2>4. Capacity(c) \in Nat
    BY Sizes DEF Area
  <2>5. FragmentFits'
    BY <2>1, <2>2, <2>4 DEF FragmentFits, FramerTypes
  <2> QED
    BY <2>3, <2>5
<1>3. ASSUME NEW c \in Conn, Fragment(c) \/ FillHeader(c) \/ FillBody(c)
      PROVE  FramerTypes' /\ FragmentFits'
  <2>1. /\ scratch' \in [Conn -> Area \cup {None}] /\ lease' \in [Conn -> Block \cup {None}]
        /\ free' \subseteq Block
        /\ \E total \in Nat : /\ buffered' = [buffered EXCEPT ![c] = total]
                              /\ total =< Capacity(scratch'[c])
        /\ \A d \in Conn \ {c} : scratch'[d] = scratch[d]
    BY <1>3, Copies
  <2>2. \/ UNCHANGED releaseNext
        \/ releaseNext' = [releaseNext EXCEPT ![c] = lease'[c] # None]
    BY <1>3 DEF Fragment, FillHeader, FillBody
  <2>3. PICK total \in Nat : /\ buffered' = [buffered EXCEPT ![c] = total]
                             /\ total =< Capacity(scratch'[c])
    BY <2>1
  <2>4. releaseNext' \in [Conn -> BOOLEAN]
    <3>1. PICK b \in BOOLEAN : b = (lease'[c] # None)
      OBVIOUS
    <3> QED
      BY Zenon, <2>2, <3>1 DEF FramerTypes
  <2>5. buffered' \in [Conn -> Nat] /\ buffered'[c] = total
          /\ \A d \in Conn \ {c} : buffered'[d] = buffered[d]
    BY <2>3 DEF FramerTypes
  <2>6. FragmentFits'
    BY <2>1, <2>3, <2>5 DEF FragmentFits
  <2> QED
    BY <2>1, <2>4, <2>5, <2>6 DEF FramerTypes
<1>4. ASSUME NEW c \in Conn, Destroy(c) PROVE FramerTypes' /\ FragmentFits'
  <2>1. /\ free' = free \cup ({lease[c]} \ {None})
        /\ lease' = [lease EXCEPT ![c] = None]
        /\ scratch' = [scratch EXCEPT ![c] = None]
        /\ buffered' = [buffered EXCEPT ![c] = 0]
        /\ releaseNext' = [releaseNext EXCEPT ![c] = FALSE]
    BY <1>4 DEF Destroy
  <2>2. FramerTypes'
    BY <2>1 DEF FramerTypes
  <2>3. FragmentFits'
    BY <2>1, Sizes DEF FragmentFits, FramerTypes
  <2> QED
    BY <2>2, <2>3
<1> QED
  BY <1>1, <1>2, <1>3, <1>4, FramerAlone

-----------------------------------------------------------------------------
(* The stream. *)

\* What is known of a message that was written.
LEMMA MessageFields ==
  ASSUME PeerSide, NEW c \in Conn, NEW i \in DOMAIN messages[c]
  PROVE  LET m == messages[c][i] IN
         /\ i \in Nat /\ i >= 1 /\ i =< Len(messages[c])
         /\ m \in Posting /\ m.peer = c /\ m.from \in Nat /\ m.to \in Nat
         /\ m.fdFrom \in Nat /\ m.fdTo \in Nat
         /\ m.from < m.to /\ m.fdFrom =< m.fdTo
         /\ m.to =< Bytes(c) /\ m.fdTo =< Descriptors(c)
         /\ Length(m) \in Nat /\ Length(m) > 0 /\ m.from + Length(m) = m.to
         /\ Needed(m) \in Nat /\ m.fdFrom + Needed(m) = m.fdTo
         /\ i = 1 => m.from = 0 /\ m.fdFrom = 0
         /\ i > 1 => /\ i - 1 \in DOMAIN messages[c]
                     /\ m.from = messages[c][i-1].to
                     /\ m.fdFrom = messages[c][i-1].fdTo
<1>1. messages[c] \in Seq(Posting) /\ PeerMessage(c, i)
  BY DEF PeerSide, PeerTypes, PeerInv
<1>2. messages[c][i] \in Posting /\ i \in Nat /\ i >= 1 /\ i =< Len(messages[c])
        /\ (i > 1 => i - 1 \in DOMAIN messages[c])
  BY <1>1
<1>3. /\ messages[c][i].from \in Nat /\ messages[c][i].to \in Nat
      /\ messages[c][i].fdFrom \in Nat /\ messages[c][i].fdTo \in Nat
  BY <1>2 DEF Posting
<1>4. /\ messages[c][i].from < messages[c][i].to
      /\ messages[c][i].fdFrom =< messages[c][i].fdTo
      /\ messages[c][i].to =< Bytes(c) /\ messages[c][i].fdTo =< Descriptors(c)
      /\ messages[c][i].peer = c
      /\ i = 1 => messages[c][i].from = 0 /\ messages[c][i].fdFrom = 0
      /\ i > 1 => /\ messages[c][i].from = messages[c][i-1].to
                  /\ messages[c][i].fdFrom = messages[c][i-1].fdTo
  BY <1>1 DEF PeerMessage
<1>5. PICK from \in Nat, to \in Nat, fdFrom \in Nat, fdTo \in Nat :
        /\ from = messages[c][i].from /\ to = messages[c][i].to
        /\ fdFrom = messages[c][i].fdFrom /\ fdTo = messages[c][i].fdTo
  BY <1>3
<1>6. /\ to - from \in Nat /\ to - from > 0 /\ from + (to - from) = to
      /\ fdTo - fdFrom \in Nat /\ fdFrom + (fdTo - fdFrom) = fdTo
  BY <1>4, <1>5
<1>7. Length(messages[c][i]) = to - from /\ Needed(messages[c][i]) = fdTo - fdFrom
  BY <1>5 DEF Length, Needed
<1> QED
  BY <1>2, <1>3, <1>4, <1>5, <1>6, <1>7

\* The places in a stream where a message ends.
LEMMA Places ==
  ASSUME PeerSide, NEW c \in Conn, NEW k \in Nat, k =< Len(messages[c])
  PROVE  /\ Upto(c, k) \in Nat /\ Upto(c, k) =< Bytes(c)
         /\ FdUpto(c, k) \in Nat
         /\ k = Len(messages[c]) => Upto(c, k) = Bytes(c)
         /\ k < Len(messages[c]) =>
              LET m == messages[c][k + 1] IN
              /\ k + 1 \in DOMAIN messages[c]
              /\ m.from = Upto(c, k) /\ m.fdFrom = FdUpto(c, k)
              /\ Upto(c, k + 1) = Upto(c, k) + Length(m)
              /\ FdUpto(c, k + 1) = FdUpto(c, k) + Needed(m)
<1>1. messages[c] \in Seq(Posting) /\ PeerTypes /\ Len(messages[c]) \in Nat
  BY DEF PeerSide, PeerTypes
<1>2. k = 0 \/ (k \in DOMAIN messages[c] /\ k # 0)
  BY <1>1
<1>3. Bytes(c) \in Nat /\ (messages[c] = <<>> => Bytes(c) = 0)
        /\ (messages[c] # <<>> => Bytes(c) = messages[c][Len(messages[c])].to)
  BY <1>1, Totals
<1>4. Upto(c, k) \in Nat /\ Upto(c, k) =< Bytes(c) /\ FdUpto(c, k) \in Nat
  <2>1. CASE k = 0
    BY <1>3, <2>1 DEF Upto, FdUpto
  <2>2. CASE k \in DOMAIN messages[c] /\ k # 0
    BY <2>2, MessageFields DEF Upto, FdUpto
  <2> QED
    BY <1>2, <2>1, <2>2
<1>5. ASSUME k = Len(messages[c]) PROVE Upto(c, k) = Bytes(c)
  <2>1. CASE k = 0
    <3>1. ASSUME messages[c] # <<>> PROVE FALSE
      <4>1. Len(messages[c]) \in DOMAIN messages[c]
        BY <1>1, <3>1, Totals
      <4>2. DOMAIN messages[c] = 1..Len(messages[c])
        BY <1>1
      <4> QED
        BY <1>1, <1>5, <2>1, <4>1, <4>2
    <3> QED
      BY <1>3, <2>1, <3>1 DEF Upto
  <2>2. CASE k # 0
    <3>1. messages[c] # <<>>
      BY <1>1, <1>5, <2>2
    <3> QED
      BY <1>3, <1>5, <2>2, <3>1 DEF Upto
  <2> QED
    BY <2>1, <2>2
<1>6. ASSUME k < Len(messages[c])
      PROVE  LET m == messages[c][k + 1] IN
             /\ k + 1 \in DOMAIN messages[c]
             /\ m.from = Upto(c, k) /\ m.fdFrom = FdUpto(c, k)
             /\ Upto(c, k + 1) = Upto(c, k) + Length(m)
             /\ FdUpto(c, k + 1) = FdUpto(c, k) + Needed(m)
  <2>1. PICK i \in DOMAIN messages[c] : i = k + 1
    BY <1>1, <1>6
  <2>2. i - 1 = k /\ i # 0 /\ (i = 1 <=> k = 0) /\ (i > 1 <=> k # 0)
    BY <2>1
  <2>3. messages[c][i].from = Upto(c, k) /\ messages[c][i].fdFrom = FdUpto(c, k)
    BY <2>2, MessageFields DEF Upto, FdUpto
  <2>4. Upto(c, i) = messages[c][i].to /\ FdUpto(c, i) = messages[c][i].fdTo
    BY <2>2 DEF Upto, FdUpto
  <2>5. /\ messages[c][i].from + Length(messages[c][i]) = messages[c][i].to
        /\ messages[c][i].fdFrom + Needed(messages[c][i]) = messages[c][i].fdTo
    BY MessageFields
  <2> QED
    BY <2>1, <2>3, <2>4, <2>5
<1> QED
  BY <1>4, <1>5, <1>6

\* The message that starts where the first k end is the next one.
LEMMA NextMessage ==
  ASSUME PeerSide, NEW c \in Conn, NEW k \in Nat, k =< Len(messages[c]),
         NEW d \in Conn, NEW i \in DOMAIN messages[d],
         messages[d][i].peer = c, messages[d][i].from = Upto(c, k)
  PROVE  k < Len(messages[c]) /\ messages[d][i] = messages[c][k + 1]
<1>1. d = c /\ i \in Nat /\ i >= 1 /\ i =< Len(messages[c]) /\ Len(messages[c]) \in Nat
  BY MessageFields DEF PeerSide, PeerTypes
<1>2. \A j, l \in DOMAIN messages[c] :
        j < l => messages[c][j].to =< messages[c][l].from
  BY DEF PeerSide, PeerInv
<1>3. DOMAIN messages[c] = 1..Len(messages[c])
  BY DEF PeerSide, PeerTypes
<1>4. PICK from \in Nat, to \in Nat :
        from = messages[c][i].from /\ to = messages[c][i].to /\ from < to
  BY <1>1, MessageFields
<1>5. ASSUME i =< k PROVE FALSE
  <2>1. k \in DOMAIN messages[c] /\ k # 0 /\ messages[c][k].to = from
    BY <1>1, <1>3, <1>4, <1>5 DEF Upto
  <2>2. CASE i = k
    BY <1>4, <2>1, <2>2
  <2>3. CASE i < k
    <3>1. PICK last \in Nat : last = messages[c][k].from /\ last < from
      BY <2>1, MessageFields
    <3>2. to =< last
      BY <1>1, <1>2, <1>4, <2>1, <2>3, <3>1
    <3>3. to < from /\ from < to
      BY <1>4, <3>1, <3>2
    <3> QED
      BY <3>3
  <2> QED
    BY <1>1, <1>5, <2>2, <2>3
<1>6. ASSUME k + 1 < i PROVE FALSE
  <2>1. k + 1 \in DOMAIN messages[c] /\ k < Len(messages[c])
    BY <1>1, <1>3, <1>6
  <2>2. messages[c][k + 1].from = from
    BY <1>1, <1>4, <2>1, Places
  <2>3. PICK last \in Nat : last = messages[c][k + 1].to /\ from < last
    <3>1. /\ messages[c][k + 1].to \in Nat
          /\ messages[c][k + 1].from < messages[c][k + 1].to
      BY <2>1, MessageFields
    <3> QED
      BY <2>2, <3>1
  <2>4. last =< from
    BY <1>1, <1>2, <1>4, <1>6, <2>1, <2>3
  <2> QED
    BY <2>3, <2>4
<1> QED
  BY <1>1, <1>5, <1>6

\* The header of a place is the one of the next message of the connection.
LEMMA NextHeader ==
  ASSUME PeerSide, NEW c \in Conn, NEW k \in Nat, k =< Len(messages[c]),
         NEW area, NEW at, NEW m \in Headers(area, at),
         memory[area][at + 1] = <<c, Upto(c, k) + 1>>
  PROVE  /\ k < Len(messages[c]) /\ k + 1 \in DOMAIN messages[c]
         /\ m = messages[c][k + 1] /\ m.peer = c /\ m.from = Upto(c, k)
         /\ Length(m) \in Nat /\ Length(m) >= HeaderSize /\ Length(m) > 0
         /\ Upto(c, k + 1) = Upto(c, k) + Length(m)
<1>1. PICK d \in Conn : \E i \in DOMAIN messages[d] : m = messages[d][i]
  BY HeadersAreMessages
<1>2. PICK i \in DOMAIN messages[d] : m = messages[d][i]
  BY <1>1
<1>3. /\ m.peer \in Conn /\ m.from \in Nat /\ Length(m) \in Nat /\ Length(m) >= HeaderSize
  BY HeadersAreMessages
<1>4. 1 \in 1..HeaderSize /\ HeaderSize \in Nat \ {0}
  BY SizesAssumption
<1>5. memory[area][at + 1] = <<m.peer, m.from + 1>>
  BY <1>4 DEF Headers
<1>6. Upto(c, k) \in Nat
  BY Places
<1>7. m.peer = c /\ m.from = Upto(c, k)
  BY <1>3, <1>5, <1>6
<1>8. k < Len(messages[c]) /\ m = messages[c][k + 1]
  BY <1>2, <1>7, NextMessage
<1> QED
  BY <1>3, <1>4, <1>7, <1>8, Places

OutcomeTypes ==
  log \in [Conn -> Seq(Entry)] /\ failures \in [Conn -> SUBSET Cause]

LEMMA FramedIsNumber ==
  ASSUME OutcomeTypes, NEW c \in Conn
  PROVE  /\ Len(log[c]) \in Nat /\ Framed(c) \in Nat
         /\ Handling(c) => Framed(c) = Len(log[c]) + 1
         /\ ~Handling(c) => Framed(c) = Len(log[c])
<1>1. Len(log[c]) \in Nat
  BY DEF OutcomeTypes
<1>2. CASE Handling(c)
  BY <1>1, <1>2 DEF Framed
<1>3. CASE ~Handling(c)
  BY <1>1, <1>3 DEF Framed
<1> QED
  BY <1>1, <1>2, <1>3

\* What the peer writes later does not move what it wrote.
LEMMA PlaceKept ==
  ASSUME PeerSide, Next, NEW c \in Conn, NEW k \in Nat, k =< Len(messages[c])
  PROVE  /\ k =< Len(messages'[c])
         /\ Upto(c, k)' = Upto(c, k) /\ FdUpto(c, k)' = FdUpto(c, k)
         /\ k < Len(messages[c]) => /\ k < Len(messages'[c])
                                    /\ messages'[c][k + 1] = messages[c][k + 1]
         /\ k # 0 => messages'[c][k] = messages[c][k]
<1>1. PeerSide'
  BY PeerSideStays
<1>2. /\ messages[c] \in Seq(Posting) /\ messages'[c] \in Seq(Posting)
      /\ Len(messages[c]) \in Nat /\ Len(messages'[c]) \in Nat
      /\ DOMAIN messages[c] = 1..Len(messages[c])
      /\ DOMAIN messages'[c] = 1..Len(messages'[c])
  BY <1>1 DEF PeerSide, PeerTypes
<1>3. \A i \in DOMAIN messages[c] :
        i \in DOMAIN messages'[c] /\ messages'[c][i] = messages[c][i]
  BY MessagesGrow DEF PeerSide
<1>4. k # 0 => /\ k \in DOMAIN messages[c] /\ k =< Len(messages'[c])
               /\ messages'[c][k] = messages[c][k]
  <2>1. k # 0 => k \in DOMAIN messages[c]
    BY <1>2
  <2> QED
    BY <1>2, <1>3, <2>1
<1>5. ASSUME k < Len(messages[c])
      PROVE  k < Len(messages'[c]) /\ messages'[c][k + 1] = messages[c][k + 1]
  <2>1. k + 1 \in DOMAIN messages[c]
    BY <1>2, <1>5
  <2>2. k + 1 \in DOMAIN messages'[c] /\ messages'[c][k + 1] = messages[c][k + 1]
    BY <1>3, <2>1
  <2> QED
    BY <1>2, <2>2
<1>6. Upto(c, k)' = Upto(c, k) /\ FdUpto(c, k)' = FdUpto(c, k)
  BY <1>4 DEF Upto, FdUpto
<1>7. k =< Len(messages'[c])
  BY <1>2, <1>4
<1> QED
  BY <1>4, <1>5, <1>6, <1>7

\* The payload is one of this connection.
Owns(c) == input # None /\ input.conn = c

\* A step that does not disturb the stream of a connection.
StreamSame(c) ==
  /\ log'[c] = log[c] /\ NextByte(c)' = NextByte(c)
  /\ buffered'[c] = buffered[c] /\ lease'[c] = lease[c]
  /\ releaseNext'[c] = releaseNext[c]
  /\ buffered[c] > 0 => /\ scratch'[c] = scratch[c]
                        /\ memory'[scratch[c]] = memory[scratch[c]]
  /\ phase'[c] = "open" => phase[c] = "open"
  /\ \/ /\ UNCHANGED <<step, input>>
        /\ Owns(c) => memory'[input.buffer] = memory[input.buffer]
     \/ ~Owns(c) /\ ~Owns(c)'

LEMMA OwnersDispatch ==
  ASSUME ThreadInv, NEW c \in Conn, ~Owns(c)
  PROVE  ~Dispatching(c) /\ ~Handling(c) /\ Left(c) = 0 /\ (Live(c) <=> phase[c] = "open")
BY DEF ThreadInv, Dispatching, Handling, Left, Live, Owns, Inside

LEMMA StreamKept ==
  ASSUME PeerSide, FramerTypes, OutcomeTypes, ThreadInv, ThreadInv', Next,
         NEW c \in Conn, StreamInv(c), StreamSame(c)
  PROVE  StreamInv(c)'
<1>1. /\ Handling(c)' <=> Handling(c)
      /\ Left(c)' = Left(c)
      /\ Live(c)' => Live(c)
      /\ Owns(c)' => Owns(c) /\ UNCHANGED <<step, input>>
                     /\ memory'[input.buffer] = memory[input.buffer]
      /\ Dispatching(c) => Dispatching(c)' /\ step' = step /\ UNCHANGED input
  <2>1. CASE /\ UNCHANGED <<step, input>>
             /\ Owns(c) => memory'[input.buffer] = memory[input.buffer]
    BY <2>1 DEF StreamSame, Handling, Left, Live, Dispatching, Owns, Rest
  <2>2. CASE ~Owns(c) /\ ~Owns(c)'
    <3>1. ~Dispatching(c) /\ ~Handling(c) /\ Left(c) = 0 /\ (Live(c) <=> phase[c] = "open")
      BY <2>2, OwnersDispatch
    <3>2. /\ ~Dispatching(c)' /\ ~Handling(c)' /\ Left(c)' = 0
          /\ (Live(c)' <=> phase'[c] = "open")
      BY <2>2 DEF ThreadInv, Dispatching, Handling, Left, Live, Owns, Inside
    <3>3. phase'[c] = "open" => phase[c] = "open"
      BY DEF StreamSame
    <3>4. (Handling(c)' <=> Handling(c)) /\ (Live(c)' => Live(c))
      BY Zenon, <3>1, <3>2, <3>3
    <3>5. Left(c)' = Left(c)
      BY <3>1, <3>2
    <3> QED
      BY Zenon, <2>2, <3>1, <3>4, <3>5
  <2> QED
    BY <2>1, <2>2 DEF StreamSame
<1>2. Framed(c)' = Framed(c)
  BY <1>1 DEF Framed, StreamSame
<1> SUFFICES ASSUME Live(c)'
             PROVE  StreamInv(c)'
  BY DEF StreamInv
<1>3. Live(c) /\ Framed(c) =< Len(messages[c])
  BY <1>1 DEF StreamInv
<1>4. PICK k \in Nat : k = Framed(c)
  BY FramedIsNumber
<1>5. /\ Framed(c)' = k /\ k =< Len(messages'[c]) /\ Upto(c, k)' = Upto(c, k)
      /\ k < Len(messages[c]) => /\ k < Len(messages'[c])
                                 /\ messages'[c][k + 1] = messages[c][k + 1]
  BY <1>2, <1>3, <1>4, PlaceKept
<1>6. Consumed(c)' = Consumed(c)
  BY <1>4, <1>5 DEF Consumed
<1>7. \A i \in 1..buffered[c] : memory'[scratch'[c]][i] = <<c, Consumed(c)' + i>>
  <2>1. ASSUME NEW i \in 1..buffered[c] PROVE memory'[scratch'[c]] = memory[scratch[c]]
    <3>1. buffered[c] \in Nat
      BY DEF FramerTypes
    <3>2. buffered[c] > 0
      BY <3>1
    <3> QED
      BY <3>2 DEF StreamSame
  <2> QED
    BY <1>3, <1>6, <2>1 DEF StreamInv
<1>8. NextByte(c)' = Consumed(c)' + buffered'[c] + Left(c)'
  BY <1>1, <1>3, <1>6 DEF StreamInv, StreamSame
<1>9. Owns(c)' => \A j \in 1..Rest' :
        memory'[input'.buffer][input'.at + j] = <<c, Consumed(c)' + buffered'[c] + j>>
  BY <1>1, <1>3, <1>6 DEF StreamInv, StreamSame, Owns, Rest
<1>10. buffered'[c] >= HeaderSize =>
         \/ /\ Framed(c)' < Len(messages'[c])
            /\ buffered'[c] < Length(messages'[c][Framed(c)' + 1])
         \/ step' = "body" /\ input'.conn = c /\ buffered'[c] = HeaderSize
  <2>1. buffered'[c] = buffered[c]
    BY DEF StreamSame
  <2>2. buffered[c] >= HeaderSize =>
         \/ k < Len(messages[c]) /\ buffered[c] < Length(messages[c][k + 1])
         \/ step = "body" /\ input.conn = c /\ buffered[c] = HeaderSize
    BY <1>3, <1>4 DEF StreamInv
  <2>3. step = "body" /\ input.conn = c => step' = "body" /\ input'.conn = c
    BY <1>1 DEF Dispatching, Inside
  <2> QED
    BY <1>5, <2>1, <2>2, <2>3
<1>11. releaseNext'[c] => Dispatching(c)' /\ step' \in {"handle", "next"}
  BY <1>1, <1>3 DEF StreamInv, StreamSame
<1>12. lease'[c] # None /\ ~releaseNext'[c] =>
         /\ buffered'[c] > 0
         /\ Framed(c)' < Len(messages'[c])
         /\ Length(messages'[c][Framed(c)' + 1]) > InlineSize
  <2>1. lease[c] # None /\ ~releaseNext[c] =>
         /\ buffered[c] > 0 /\ k < Len(messages[c])
         /\ Length(messages[c][k + 1]) > InlineSize
    BY <1>3, <1>4 DEF StreamInv
  <2> QED
    BY <1>5, <2>1 DEF StreamSame
<1>13. /\ \A i \in 1..buffered'[c] : memory'[scratch'[c]][i] = <<c, Consumed(c)' + i>>
       /\ Framed(c)' =< Len(messages'[c])
  BY <1>5, <1>7 DEF StreamSame
<1> QED
  BY <1>8, <1>9, <1>10, <1>11, <1>12, <1>13 DEF StreamInv, Owns

\* The peer and the kernel add at the end.
LEMMA NextKept ==
  ASSUME KernelSide, PeerOrKernel, NEW c \in Conn
  PROVE  NextByte(c)' = NextByte(c) /\ NextFd(c)' = NextFd(c)
<1>1. ASSUME completions'[c] = completions[c], read'[c] = read[c], passed'[c] = passed[c]
      PROVE  NextByte(c)' = NextByte(c) /\ NextFd(c)' = NextFd(c)
  BY <1>1 DEF NextByte, NextFd
<1>2. ASSUME NEW d \in Conn, NEW k, Arrives(d, k)
      PROVE  NextByte(c)' = NextByte(c) /\ NextFd(c)' = NextFd(c)
  <2>1. CASE d = c
    BY <1>2, <2>1, ArrivalAtTheEnd DEF KernelSide
  <2>2. CASE d # c
    <3>1. completions'[c] = completions[c] /\ read'[c] = read[c] /\ passed'[c] = passed[c]
      BY <1>2, <2>2 DEF Arrives, KernelSide, KernelTypes
    <3> QED
      BY <1>1, <3>1
  <2> QED
    BY <2>1, <2>2
<1>3. CASE UNCHANGED <<completions, read, passed>>
  BY <1>1, <1>3
<1>4. ASSUME NEW d \in Conn, Receives(d)
      PROVE  NextByte(c)' = NextByte(c) /\ NextFd(c)' = NextFd(c)
  <2>1. PICK b \in Buffer, upto \in 1..MaxBytes[d], last \in 0..MaxFds[d] :
          KernelReceives(d, b, upto, last)
    BY <1>4 DEF Receives
  <2>2. \E k : Arrives(d, k)
    BY <2>1, ReceivingArrives DEF KernelSide
  <2> QED
    BY <1>2, <2>2
<1>5. ASSUME NEW d \in Conn, KernelEnds(d)
      PROVE  NextByte(c)' = NextByte(c) /\ NextFd(c)' = NextFd(c)
  <2>1. \E k : Arrives(d, k)
    BY <1>5, EndingArrives DEF KernelSide
  <2> QED
    BY <1>2, <2>1
<1>6. ASSUME NEW d \in Conn, Hangup(d) \/ KernelCancels(d)
      PROVE  UNCHANGED <<completions, read, passed>>
  BY <1>6 DEF Hangup, KernelCancels, kernel
<1>7. ASSUME NEW d \in Conn, Sends(d) PROVE UNCHANGED <<completions, read, passed>>
  BY <1>7 DEF Sends, Send, kernel
<1>8. ASSUME NEW d \in Conn, NEW size \in Size, NEW count \in Rights, Write(d, size, count)
      PROVE  UNCHANGED <<completions, read, passed>>
  BY <1>8 DEF Write, kernel
<1> QED
  BY <1>3, <1>4, <1>5, <1>6, <1>7, <1>8 DEF PeerOrKernel

\* The kernel writes only where nobody reads.
LEMMA KernelMemory ==
  ASSUME ThreadTypes, BufferInv, PeerOrKernel
  PROVE  /\ \A a \in Area : a \notin Buffer => memory'[a] = memory[a]
         /\ input # None => memory'[input.buffer] = memory[input.buffer]
<1>1. CASE UNCHANGED memory
  BY <1>1
<1>2. ASSUME NEW c \in Conn, Receives(c)
      PROVE  /\ \A a \in Area : a \notin Buffer => memory'[a] = memory[a]
             /\ input # None => memory'[input.buffer] = memory[input.buffer]
  <2>1. PICK b \in Buffer, upto \in 1..MaxBytes[c], last \in 0..MaxFds[c] :
          KernelReceives(c, b, upto, last)
    BY <1>2 DEF Receives
  <2>2. \A a : a # b => memory'[a] = memory[a]
    BY <2>1 DEF KernelReceives
  <2>3. input # None => input.buffer # b
    <3>1. ring[b] > 0
      BY <2>1 DEF KernelReceives
    <3>2. input # None => ring[input.buffer] = 0
      BY DEF BufferInv
    <3> QED
      BY <3>1, <3>2
  <2> QED
    BY <2>2, <2>3
<1>3. ASSUME NEW d \in Conn, Hangup(d) \/ KernelCancels(d) \/ KernelEnds(d)
      PROVE  UNCHANGED memory
  BY <1>3 DEF Hangup, KernelCancels, KernelEnds
<1>4. ASSUME NEW d \in Conn, Sends(d) PROVE UNCHANGED memory
  BY <1>4 DEF Sends, Send
<1>5. ASSUME NEW d \in Conn, NEW size \in Size, NEW count \in Rights, Write(d, size, count)
      PROVE  UNCHANGED memory
  BY <1>5 DEF Write
<1> QED
  BY <1>1, <1>2, <1>3, <1>4, <1>5 DEF PeerOrKernel

LEMMA StreamQuiet ==
  ASSUME KernelSide, FramerTypes, ThreadTypes, LeaseInv, FragmentFits, BufferInv,
         PeerOrKernel, NEW c \in Conn
  PROVE  StreamSame(c)
<1>1. UNCHANGED <<thread, framer, fds, outcome>>
  BY PeerOrKernelStays
<1>2. NextByte(c)' = NextByte(c)
  BY NextKept
<1>3. ASSUME buffered[c] > 0 PROVE memory'[scratch[c]] = memory[scratch[c]]
  <2>1. scratch[c] \in Area /\ scratch[c] \in Block \cup {c}
    BY <1>3, FragmentScratch
  <2>2. scratch[c] \notin Buffer
    BY <2>1, NamesAssumption
  <2> QED
    BY <2>1, <2>2, KernelMemory
<1>4. Owns(c) => memory'[input.buffer] = memory[input.buffer]
  BY KernelMemory DEF Owns
<1> QED
  BY <1>1, <1>2, <1>3, <1>4 DEF StreamSame, thread, framer, outcome

LEMMA StreamReleases ==
  ASSUME PeerSide, FramerTypes, ThreadTypes, OutcomeTypes, ThreadInv, ThreadInv', Next, Release,
         NEW c \in Conn, StreamInv(c)
  PROVE  StreamInv(c)'
<1>1. /\ step = "release" /\ step' = "idle" /\ input' = None
      /\ UNCHANGED <<peer, memory, framer, outcome, read, completions>>
  BY DEF Release
<1>2. NextByte(c)' = NextByte(c)
  BY <1>1 DEF NextByte
<1>3. CASE ~Owns(c)
  <2>1. StreamSame(c)
    BY <1>1, <1>2, <1>3 DEF StreamSame, framer, outcome, Owns
  <2> QED
    BY <2>1, StreamKept
<1>4. CASE Owns(c)
  <2> SUFFICES ASSUME Live(c)'
               PROVE  StreamInv(c)'
    BY DEF StreamInv
  <2>1. phase[c] = "open" /\ Live(c) /\ ~Handling(c) /\ ~Handling(c)'
          /\ ~Dispatching(c) /\ Left(c) = 0 /\ Left(c)' = 0
    BY <1>1, <1>4 DEF ThreadInv, Live, Dispatching, Handling, Inside, Left, Owns, outcome
  <2>2. Framed(c)' = Framed(c) /\ Consumed(c)' = Consumed(c)
    BY <1>1, <2>1 DEF Framed, Consumed, Upto, outcome, peer
  <2>3. ~releaseNext[c] /\ step # "body" /\ input' = None
    BY <1>1, <2>1 DEF StreamInv
  <2> QED
    BY <1>1, <1>2, <2>1, <2>2, <2>3 DEF StreamInv, framer, peer
<1> QED
  BY <1>3, <1>4

\* Where the framer of a connection writes no other one keeps a fragment.
LEMMA CopyElsewhere ==
  ASSUME PeerSide, FramerTypes, ThreadTypes, ThreadInv, FitsInv, LeaseInv, LeaseInv',
         FragmentFits, NEW c \in Conn, Fragment(c) \/ FillHeader(c) \/ FillBody(c),
         NEW d \in Conn \ {c}
  PROVE  /\ scratch'[d] = scratch[d] /\ lease'[d] = lease[d]
         /\ buffered'[d] = buffered[d] /\ releaseNext'[d] = releaseNext[d]
         /\ buffered[d] > 0 => memory'[scratch[d]] = memory[scratch[d]]
<1>1. /\ scratch' \in [Conn -> Area \cup {None}] /\ lease' \in [Conn -> Block \cup {None}]
      /\ \E total \in Nat : buffered' = [buffered EXCEPT ![c] = total]
      /\ scratch'[d] = scratch[d] /\ lease'[d] = lease[d]
      /\ \E count \in Nat : Copy(c, count)
      /\ scratch'[c] \in Area
  BY Copies
<1>2. buffered'[d] = buffered[d]
  BY <1>1
<1>3. releaseNext'[d] = releaseNext[d]
  <2>1. \/ UNCHANGED releaseNext
        \/ releaseNext' = [releaseNext EXCEPT ![c] = lease'[c] # None]
    BY DEF Fragment, FillHeader, FillBody
  <2>2. PICK b \in BOOLEAN : b = (lease'[c] # None)
    OBVIOUS
  <2> QED
    BY Zenon, <2>1, <2>2 DEF FramerTypes
<1>4. ASSUME buffered[d] > 0 PROVE scratch'[c] # scratch[d]
  <2>1. scratch[d] \in Area /\ scratch[d] \in Block \cup {d}
    BY <1>4, FragmentScratch
  <2>2. /\ scratch'[c] \in {lease'[c], c} /\ scratch[d] \in {lease'[d], d}
        /\ lease'[c] = lease'[d] => lease'[c] = None
    BY <1>1 DEF LeaseInv, Leases
  <2>3. lease'[c] \in Block \cup {None} /\ lease'[d] \in Block \cup {None}
    BY <1>1
  <2> QED
    BY <1>1, <2>1, <2>2, <2>3, NamesAssumption
<1>5. PICK count \in Nat : Copy(c, count)
  BY <1>1
<1>6. \A a : a # scratch'[c] => memory'[a] = memory[a]
  BY <1>5 DEF Copy
<1> QED
  BY <1>1, <1>2, <1>3, <1>4, <1>6

LEMMA StreamOthers ==
  ASSUME KernelSide, FramerTypes, ThreadTypes, OutcomeTypes, RightsTypes, ThreadInv, FitsInv,
         LeaseInv, LeaseInv', FragmentFits, NEW c \in Conn,
         Completes(c) \/ Frames(c) \/ Dispatches(c) \/ Destroy(c),
         NEW d \in Conn \ {c}
  PROVE  StreamSame(d)
<1>1. CASE Completes(c)
  <2>1. step = "idle" /\ completions' = [completions EXCEPT ![c] = Tail(completions[c])]
          /\ UNCHANGED <<memory, framer, log, read>>
          /\ (input' = input \/ input'.conn = c)
          /\ (phase' = phase \/ Ends(c))
    <3>1. CASE Disconnected(c)
      BY <3>1 DEF Disconnected, Pending, Dropped, thread
    <3>2. CASE Refused(c)
      BY <3>2 DEF Refused, Pending, Dropped, Fails, thread
    <3>3. CASE Ingest(c)
      BY <3>3 DEF Ingest, Pending, Dropped, outcome
    <3>4. CASE Discard(c)
      BY <3>4 DEF Discard, Pending, Dropped, thread, outcome
    <3> QED
      BY <1>1, <3>1, <3>2, <3>3, <3>4 DEF Completes
  <2>2. ~Owns(d) /\ ~Owns(d)'
    BY <2>1 DEF Owns, ThreadInv
  <2>3. phase'[d] = "open" => phase[d] = "open"
    BY <2>1, EndsPhase DEF RightsTypes
  <2>4. NextByte(d)' = NextByte(d)
    BY <2>1 DEF NextByte, KernelSide, KernelTypes
  <2> QED
    BY <2>1, <2>2, <2>3, <2>4 DEF StreamSame, framer
<1>2. CASE Frames(c)
  <2>1. c = input.conn /\ step # "idle" /\ UNCHANGED <<completions, read, log>>
          /\ (phase' = phase \/ Ends(c))
    BY <1>2 DEF Frames, ReleaseLease, Borrow, Drained, Fragment, FillHeader, FillBody,
                Garbled, MessageTooLarge, Fresh, Resumes, Terminal, Fails, kernel, outcome
  <2>2. input' = input \/ \E n : input' = [input EXCEPT !.at = n]
    BY <1>2 DEF Frames, ReleaseLease, Borrow, Drained, Fragment, FillHeader, FillBody,
                Garbled, MessageTooLarge, Terminal, Copy, thread
  <2>3. ~Owns(d) /\ ~Owns(d)'
    BY <2>1, <2>2, BusyHasInput DEF Owns, Payload
  <2>4. phase'[d] = "open" => phase[d] = "open"
    BY <2>1, EndsPhase DEF RightsTypes
  <2>5. NextByte(d)' = NextByte(d)
    BY <2>1 DEF NextByte
  <2>6. /\ scratch'[d] = scratch[d] /\ lease'[d] = lease[d]
        /\ buffered'[d] = buffered[d] /\ releaseNext'[d] = releaseNext[d]
        /\ buffered[d] > 0 => memory'[scratch[d]] = memory[scratch[d]]
    <3>1. CASE UNCHANGED <<memory, framer>>
      BY <3>1 DEF framer
    <3>2. CASE ReleaseLease(c)
      BY <3>2 DEF ReleaseLease, FramerTypes
    <3>3. CASE Fragment(c) \/ FillHeader(c) \/ FillBody(c)
      BY <3>3, CopyElsewhere DEF KernelSide
    <3> QED
      BY <1>2, <3>1, <3>2, <3>3 DEF Frames, Borrow, Drained, Garbled, MessageTooLarge, Terminal
  <2> QED
    BY <2>1, <2>3, <2>4, <2>5, <2>6 DEF StreamSame
<1>3. CASE Dispatches(c)
  <2>1. /\ c = input.conn /\ step = "handle" /\ UNCHANGED <<completions, read, input, memory, framer>>
        /\ (phase' = phase \/ Ends(c))
        /\ log'[d] = log[d]
    <3>1. ASSUME NEW fate, Takes(c, fate)
          PROVE  c = input.conn /\ step = "handle" /\ log'[d] = log[d]
      BY <3>1 DEF Takes, OutcomeTypes
    <3>2. ASSUME NEW fate, Handle(c, fate)
          PROVE  Takes(c, fate) /\ UNCHANGED <<kernel, input, memory, framer, phase>>
      BY <3>2 DEF Handle
    <3>3. HandlerFails(c) =>
            /\ Takes(c, "handled") /\ UNCHANGED <<kernel, input, memory, framer>> /\ Ends(c)
      BY DEF HandlerFails, Fails
    <3>4. Rejects(c) \/ Empty(c) =>
            /\ c = input.conn /\ step = "handle" /\ UNCHANGED <<kernel, input, memory, framer, log>>
            /\ Ends(c)
      BY DEF Rejects, Empty, Terminal, Fails
    <3> QED
      BY <1>3, <3>1, <3>2, <3>3, <3>4 DEF Dispatches, kernel
  <2>2. ~Owns(d) /\ ~Owns(d)'
    BY <2>1 DEF Owns
  <2>3. phase'[d] = "open" => phase[d] = "open"
    BY <2>1, EndsPhase DEF RightsTypes
  <2>4. NextByte(d)' = NextByte(d)
    BY <2>1 DEF NextByte
  <2> QED
    BY <2>1, <2>2, <2>3, <2>4 DEF StreamSame, framer
<1>4. CASE Destroy(c)
  <2>1. /\ step = "idle" /\ UNCHANGED <<completions, read, input, memory, log>>
        /\ scratch'[d] = scratch[d] /\ lease'[d] = lease[d]
        /\ buffered'[d] = buffered[d] /\ releaseNext'[d] = releaseNext[d]
        /\ phase'[d] = phase[d]
    BY <1>4 DEF Destroy, kernel, thread
  <2>2. ~Owns(d) /\ ~Owns(d)'
    BY <2>1 DEF Owns, ThreadInv
  <2>3. NextByte(d)' = NextByte(d)
    BY <2>1 DEF NextByte
  <2> QED
    BY <2>1, <2>2, <2>3 DEF StreamSame
<1> QED
  BY <1>1, <1>2, <1>3, <1>4

LEMMA StreamIngests ==
  ASSUME KernelSide, FramerTypes, ThreadTypes, OutcomeTypes, ThreadInv, BufferInv,
         NEW c \in Conn, Ingest(c), StreamInv(c)
  PROVE  StreamInv(c)'
<1> SUFFICES ASSUME Live(c)'
             PROVE  StreamInv(c)'
  BY DEF StreamInv
<1> DEFINE k == completions[c][1]
<1>1. /\ step = "idle" /\ completions[c] # <<>> /\ Head(completions[c]) = k
      /\ ~IsEnd(k)
      /\ input' = [conn |-> c, buffer |-> k.buffer, at |-> 0, end |-> k.to - k.from]
      /\ step' = IF phase[c] = "open" THEN "next" ELSE "release"
      /\ UNCHANGED <<messages, memory, framer, log, phase>> /\ Leaves(c)
  BY DEF Ingest, Pending, Dropped, Leaves, peer, outcome
<1>2. /\ k \in Cqe /\ CqeInv(c, 1) /\ 1 \in DOMAIN completions[c]
      /\ NextByte(c)' = k.to /\ NextByte(c) = k.from
  BY <1>1, LeavingKernel, LeavingIndex DEF KernelSide
<1>3. PICK from \in Nat, to \in Nat :
        k.from = from /\ k.to = to /\ from =< to /\ k.buffer \in Buffer
  BY <1>1, <1>2 DEF Cqe, CqeInv, WellFormed
<1> HIDE DEF k
<1>4. input = None /\ input' # None /\ input'.conn = c /\ input'.at = 0
        /\ input'.buffer = k.buffer /\ Rest' = to - from
  <2>1. input = None
    BY <1>1 DEF ThreadInv
  <2>2. input'.conn = c /\ input'.at = 0 /\ input'.buffer = k.buffer /\ input'.end = to - from
    BY <1>1, <1>3
  <2>3. [conn |-> c, buffer |-> k.buffer, at |-> 0, end |-> k.to - k.from] \in Payload
    <3>1. k.buffer \in Buffer /\ to - from \in Nat
      BY <1>3
    <3> QED
      BY <1>3, <3>1 DEF Payload
  <2>4. input' # None
    BY <1>1, <2>3, NothingAssumption
  <2> QED
    BY <1>3, <2>1, <2>2, <2>4 DEF Rest
<1>5. phase[c] = "open" /\ Live(c) /\ step' = "next"
  BY <1>1 DEF Live, Dispatching, Inside
<1>6. ~Handling(c) /\ ~Handling(c)' /\ Dispatching(c)' /\ ~Dispatching(c)
        /\ Left(c) = 0 /\ Left(c)' = to - from
  BY <1>1, <1>4, <1>5 DEF Handling, Dispatching, Inside, Left
<1>7. Framed(c)' = Framed(c) /\ Consumed(c)' = Consumed(c)
  BY <1>1, <1>6 DEF Framed, Consumed, Upto
<1>8. from = Consumed(c) + buffered[c] + 0
  BY <1>2, <1>3, <1>5, <1>6 DEF StreamInv
<1>9. ~releaseNext[c]
  BY <1>5, <1>6 DEF StreamInv
<1>10. PICK n \in Nat : n = Consumed(c) + buffered[c] /\ n = from
  <2>1. Consumed(c) \in Nat /\ buffered[c] \in Nat
    <3>1. PICK f \in Nat : f = Framed(c) /\ f =< Len(messages[c])
      BY <1>5, FramedIsNumber DEF StreamInv
    <3> QED
      BY <3>1, Places DEF FramerTypes, Consumed, KernelSide
  <2> QED
    BY <1>8, <2>1
<1>11. NextByte(c)' = Consumed(c)' + buffered'[c] + Left(c)'
  <2>1. to = n + (to - from)
    BY <1>3, <1>10
  <2> QED
    BY <1>1, <1>2, <1>3, <1>6, <1>7, <1>10, <2>1 DEF framer
<1>12. \A j \in 1..Rest' :
         memory'[input'.buffer][input'.at + j] = <<c, Consumed(c)' + buffered'[c] + j>>
  <2>1. InBuffer(c, 1)
    BY <1>2 DEF BufferInv
  <2>2. \A j \in 1..(to - from) : memory[k.buffer][j] = <<c, from + j>>
    BY <1>3, <2>1, NamesAssumption DEF InBuffer, k, Area
  <2>3. ASSUME NEW j \in 1..(to - from) PROVE memory[k.buffer][0 + j] = <<c, n + j>>
    BY <1>10, <2>2
  <2> QED
    BY <1>1, <1>4, <1>7, <1>10, <2>3 DEF framer
<1>13. \A i \in 1..buffered[c] : memory[scratch[c]][i] = <<c, Consumed(c) + i>>
  BY <1>5 DEF StreamInv
<1> QED
  BY <1>1, <1>5, <1>7, <1>9, <1>11, <1>12, <1>13 DEF StreamInv, framer

\* The stream of a connection with k messages framed, the last one ending at
\* p, a fragment of n bytes and a payload with r bytes left from at on.
Stream(c, k, p, n, r, at) ==
  /\ Framed(c) = k /\ k =< Len(messages[c]) /\ p = Upto(c, k)
  /\ buffered[c] = n /\ Left(c) = r
  /\ NextByte(c) = p + n + r
  /\ \A i \in 1..n : memory[scratch[c]][i] = <<c, p + i>>
  /\ Owns(c) => /\ input.at = at
                /\ \A j \in 1..r : memory[input.buffer][at + j] = <<c, p + n + j>>
  /\ n >= HeaderSize =>
       \/ k < Len(messages[c]) /\ n < Length(messages[c][k + 1])
       \/ step = "body" /\ input.conn = c /\ n = HeaderSize
  /\ releaseNext[c] => Dispatching(c) /\ step \in {"handle", "next"}
  /\ lease[c] # None /\ ~releaseNext[c] =>
       n > 0 /\ k < Len(messages[c]) /\ Length(messages[c][k + 1]) > InlineSize

LEMMA StreamNow ==
  ASSUME PeerSide, FramerTypes, ThreadTypes, OutcomeTypes, ThreadInv, NEW c \in Conn,
         Owns(c), Live(c), StreamInv(c)
  PROVE  /\ c = input.conn /\ input.buffer \in Buffer
         /\ \E k, p, n, r, at \in Nat :
              /\ Stream(c, k, p, n, r, at)
              /\ Rest = r
<1>1. input # None /\ c = input.conn
  BY DEF Owns
<1>2. /\ input.buffer \in Buffer /\ Rest \in Nat /\ input.at \in Nat
  BY <1>1, BusyHasInput DEF ThreadInv
<1>3. PICK k \in Nat : k = Framed(c) /\ k =< Len(messages[c])
  BY FramedIsNumber DEF StreamInv
<1>4. PICK p \in Nat : p = Upto(c, k) /\ p = Consumed(c)
  BY <1>3, Places DEF Consumed
<1>5. PICK n \in Nat : n = buffered[c]
  BY DEF FramerTypes
<1>6. PICK r \in Nat : r = Rest /\ Left(c) = r
  BY <1>1, <1>2 DEF Left
<1>7. PICK at \in Nat : at = input.at
  BY <1>2
<1>8. Stream(c, k, p, n, r, at)
  BY <1>1, <1>3, <1>4, <1>5, <1>6, <1>7 DEF Stream, StreamInv, Owns
<1> QED
  BY <1>1, <1>2, <1>6, <1>8

LEMMA StreamFrom ==
  ASSUME NEW c \in Conn, NEW k \in Nat, NEW p \in Nat, NEW n \in Nat, NEW r \in Nat,
         NEW at \in Nat, Stream(c, k, p, n, r, at)'
  PROVE  StreamInv(c)'
<1>1. Owns(c)' => Rest' = r
  BY DEF Stream, Owns, Left
<1> QED
  BY <1>1 DEF Stream, StreamInv, Consumed, Owns

\* After a copy of count bytes.
Copied(c, p, n, r, at, count) ==
  /\ r - count \in Nat /\ at + count \in Nat /\ n + count \in Nat
  /\ \A i \in 1..(n + count) : memory'[scratch'[c]][i] = <<c, p + i>>
  /\ input' # None /\ input'.conn = c /\ input'.buffer = input.buffer
  /\ input'.at = at + count /\ Rest' = r - count
  /\ \A j \in 1..(r - count) :
       memory'[input'.buffer][(at + count) + j] = <<c, p + (n + count) + j>>

\* What the framer copies continues the fragment.
LEMMA CopyStream ==
  ASSUME FramerTypes, ThreadTypes, MemoryTypes, ThreadInv, FragmentFits, LeaseInv',
         scratch' \in [Conn -> Area \cup {None}], lease' \in [Conn -> Block \cup {None}],
         NEW c \in Conn, Owns(c), NEW k \in Nat, NEW p \in Nat, NEW n \in Nat, NEW r \in Nat,
         NEW at \in Nat, Stream(c, k, p, n, r, at), Rest = r,
         NEW count \in Nat, count =< r, Copy(c, count),
         scratch'[c] \in Area, buffered[c] + count =< Capacity(scratch'[c])
  PROVE  Copied(c, p, n, r, at, count)
<1>1. input # None /\ input.conn = c /\ step # "idle" /\ input.at = at /\ buffered[c] = n
  BY DEF Owns, Stream, ThreadInv
<1>2. /\ \A i \in 1..n : memory'[scratch'[c]][i] = memory[scratch[c]][i]
      /\ \A j \in 1..count : memory'[scratch'[c]][n + j] = memory[input.buffer][at + j]
      /\ \A a \in Area : a # scratch'[c] => memory'[a] = memory[a]
  BY <1>1, CopyMoves
<1>3. /\ \A i \in 1..n : memory[scratch[c]][i] = <<c, p + i>>
      /\ \A j \in 1..r : memory[input.buffer][at + j] = <<c, p + n + j>>
  BY DEF Stream
<1>4. /\ input' # None /\ input'.conn = c /\ input'.buffer = input.buffer
      /\ input'.at = at + count /\ Rest' = r - count
  BY <1>1, ConsumedInput DEF Copy
<1>5. ASSUME NEW i \in 1..(n + count) PROVE memory'[scratch'[c]][i] = <<c, p + i>>
  <2>1. CASE i =< n
    BY <1>2, <1>3, <2>1
  <2>2. CASE ~(i =< n)
    <3>1. PICK j \in 1..count : i = n + j
      <4>1. i - n \in 1..count /\ i = n + (i - n)
        BY <2>2
      <4> QED
        BY <4>1
    <3>2. j \in 1..r /\ p + n + j = p + i
      BY <3>1
    <3> QED
      BY <1>2, <1>3, <3>1, <3>2
  <2> QED
    BY <2>1, <2>2
<1>6. memory'[input.buffer] = memory[input.buffer]
  <2>1. input.buffer \in Buffer
    BY <1>1, BusyHasInput
  <2>2. scratch'[c] \in {lease'[c], c} /\ lease'[c] \in Block \cup {None}
    BY DEF LeaseInv, Leases
  <2>3. input.buffer # scratch'[c] /\ input.buffer \in Area
    BY <2>1, <2>2, NamesAssumption DEF Area
  <2> QED
    BY <1>2, <2>3
<1>7. ASSUME NEW j \in 1..(r - count)
      PROVE  memory[input.buffer][(at + count) + j] = <<c, p + (n + count) + j>>
  <2>1. /\ count + j \in 1..r /\ at + (count + j) = (at + count) + j
        /\ p + n + (count + j) = p + (n + count) + j
    OBVIOUS
  <2>2. memory[input.buffer][at + (count + j)] = <<c, p + n + (count + j)>>
    BY <1>3, <2>1
  <2> QED
    BY <2>1, <2>2
<1> QED
  BY <1>4, <1>5, <1>6, <1>7 DEF Copied

\* The framer runs for the connection of the payload only.
LEMMA FramerRuns ==
  ASSUME ThreadTypes, OutcomeTypes, ThreadInv, NEW c \in Conn, Frames(c)
  PROVE  /\ Owns(c) /\ Live(c) /\ step \in {"next", "header", "body"} /\ ~Handling(c)
         /\ Framed(c) = Len(log[c]) /\ NextByte(c)' = NextByte(c)
         /\ UNCHANGED <<messages, log, completions, read, ring>>
         /\ step' # "handle" => Framed(c)' = Framed(c)
         /\ step' = "handle" /\ input'.conn = c => Framed(c)' = Framed(c) + 1
<1>1. step \in {"next", "header", "body"} /\ c = input.conn
        /\ UNCHANGED <<messages, log, completions, read, ring>>
  BY DEF Frames, ReleaseLease, Borrow, Drained, Fragment, FillHeader, FillBody, Garbled,
         MessageTooLarge, Fresh, Resumes, Terminal, peer, kernel, outcome
<1>2. Owns(c) /\ Live(c) /\ ~Handling(c)
  BY <1>1 DEF Owns, Live, Dispatching, Handling, Inside, ThreadInv
<1>3. NextByte(c)' = NextByte(c)
  BY <1>1 DEF NextByte
<1>4. Framed(c) = Len(log[c]) /\ Len(log[c]) \in Nat
  BY <1>2, FramedIsNumber
<1>5. step' # "handle" => Framed(c)' = Framed(c)
  <2>1. ASSUME step' # "handle" PROVE Framed(c)' = Len(log[c]) + 0
    <3>1. ~Handling(c)'
      BY <2>1 DEF Handling
    <3> QED
      BY <1>1, <3>1 DEF Framed
  <2> QED
    BY <1>4, <2>1
<1>6. step' = "handle" /\ input'.conn = c => Framed(c)' = Framed(c) + 1
  <2>1. ASSUME step' = "handle", input'.conn = c PROVE Framed(c)' = Len(log[c]) + 1
    <3>1. Handling(c)'
      BY <2>1 DEF Handling
    <3> QED
      BY <1>1, <3>1 DEF Framed
  <2> QED
    BY <1>4, <2>1
<1> QED
  BY <1>1, <1>2, <1>3, <1>4, <1>5, <1>6

LEMMA StreamUnleases ==
  ASSUME PeerSide, FramerTypes, ThreadTypes, OutcomeTypes, ThreadInv, LeaseInv,
         NEW c \in Conn, ReleaseLease(c), StreamInv(c)
  PROVE  StreamInv(c)'
<1>1. /\ Owns(c) /\ Live(c) /\ NextByte(c)' = NextByte(c)
      /\ UNCHANGED <<messages, log, completions, read>>
      /\ step' # "handle" => Framed(c)' = Framed(c)
  BY FramerRuns DEF Frames
<1>2. PICK k \in Nat, p \in Nat, n \in Nat, r \in Nat, at \in Nat :
        Stream(c, k, p, n, r, at) /\ Rest = r
  BY <1>1, StreamNow
<1>3. /\ step = "next" /\ releaseNext[c] /\ UNCHANGED <<memory, thread, buffered>>
      /\ lease' = [lease EXCEPT ![c] = None]
      /\ releaseNext' = [releaseNext EXCEPT ![c] = FALSE]
  BY DEF ReleaseLease
<1>4. UNCHANGED <<step, input>> /\ Framed(c)' = Framed(c)
  BY <1>1, <1>3 DEF thread
<1>5. buffered[c] = 0 /\ n = 0 /\ buffered'[c] = n
  BY <1>2, <1>3 DEF LeaseInv, Stream
<1>6. lease'[c] = None /\ ~releaseNext'[c]
  BY <1>3 DEF FramerTypes
<1>7. HeaderSize \in Nat /\ HeaderSize > 0
  BY SizesAssumption
<1>8. Left(c)' = Left(c) /\ (Owns(c)' <=> Owns(c))
  BY <1>4 DEF Left, Owns, Rest
<1>9. Stream(c, k, p, n, r, at)'
  <2>1. /\ Framed(c)' = k /\ k =< Len(messages'[c]) /\ p = Upto(c, k)'
        /\ buffered'[c] = n /\ Left(c)' = r /\ NextByte(c)' = p + n + r
    BY <1>1, <1>2, <1>4, <1>5, <1>8 DEF Stream, Upto
  <2>2. \A i \in 1..n : memory'[scratch'[c]][i] = <<c, p + i>>
    BY <1>5
  <2>3. Owns(c)' => /\ input'.at = at
                    /\ \A j \in 1..r : memory'[input'.buffer][at + j] = <<c, p + n + j>>
    BY <1>1, <1>2, <1>3, <1>4 DEF Stream
  <2>4. ~(n >= HeaderSize)
    BY <1>5, <1>7
  <2> QED
    BY <1>6, <2>1, <2>2, <2>3, <2>4 DEF Stream
<1> QED
  BY <1>9, StreamFrom

LEMMA StreamDrains ==
  ASSUME PeerSide, FramerTypes, ThreadTypes, OutcomeTypes, ThreadInv,
         NEW c \in Conn, Drained(c), StreamInv(c)
  PROVE  StreamInv(c)'
<1>1. /\ Owns(c) /\ Live(c) /\ NextByte(c)' = NextByte(c)
      /\ UNCHANGED <<messages, log, completions, read>>
      /\ step' # "handle" => Framed(c)' = Framed(c)
  BY FramerRuns DEF Frames
<1>2. PICK k \in Nat, p \in Nat, n \in Nat, r \in Nat, at \in Nat :
        Stream(c, k, p, n, r, at) /\ Rest = r
  BY <1>1, StreamNow
<1>3. /\ step = "next" /\ step' = "release" /\ ~releaseNext[c]
      /\ UNCHANGED <<memory, input, framer>>
  BY DEF Drained, Fresh
<1>4. Framed(c)' = Framed(c)
  BY <1>1, <1>3
<1>5. Left(c)' = Left(c) /\ (Owns(c)' <=> Owns(c))
  BY <1>3 DEF Left, Owns, Rest
<1>6. Stream(c, k, p, n, r, at)'
  BY <1>1, <1>2, <1>3, <1>4, <1>5 DEF Stream, Upto, framer
<1> QED
  BY <1>6, StreamFrom

LEMMA StreamBorrows ==
  ASSUME PeerSide, FramerTypes, ThreadTypes, OutcomeTypes, ThreadInv,
         NEW c \in Conn, Borrow(c), StreamInv(c)
  PROVE  StreamInv(c)' /\ MessageInv'
<1>1. /\ Owns(c) /\ Live(c) /\ NextByte(c)' = NextByte(c)
      /\ UNCHANGED <<messages, log, completions, read>>
      /\ step' = "handle" /\ input'.conn = c => Framed(c)' = Framed(c) + 1
  BY FramerRuns DEF Frames
<1>2. PICK k \in Nat, p \in Nat, n \in Nat, r \in Nat, at \in Nat :
        Stream(c, k, p, n, r, at) /\ Rest = r
  BY <1>1, StreamNow
<1>3. /\ step = "next" /\ c = input.conn /\ ~releaseNext[c] /\ buffered[c] = 0
      /\ Rest >= HeaderSize /\ UNCHANGED <<memory, framer>> /\ input.at = at /\ n = 0
      /\ k =< Len(messages[c]) /\ p = Upto(c, k) /\ Framed(c) = k
  BY <1>1, <1>2 DEF Borrow, Fresh, Stream
<1>4. PICK m \in Headers(input.buffer, at) :
        /\ Length(m) =< Rest
        /\ Yields(m, input.buffer, at)
        /\ input' = [input EXCEPT !.at = @ + Length(m)]
  BY <1>3 DEF Borrow
<1>5. HeaderSize \in Nat /\ HeaderSize > 0
  BY SizesAssumption
<1>6. \A j \in 1..r : memory[input.buffer][at + j] = <<c, p + j>>
  BY <1>1, <1>2, <1>3 DEF Stream
<1>7. memory[input.buffer][at + 1] = <<c, Upto(c, k) + 1>>
  <2>1. 1 \in 1..r
    BY <1>2, <1>3, <1>5
  <2> QED
    BY <1>3, <1>6, <2>1
<1>8. /\ k < Len(messages[c]) /\ m = messages[c][k + 1] /\ m.from = p
      /\ Length(m) \in Nat /\ Upto(c, k + 1) = p + Length(m)
  <2>1. PICK area : area = input.buffer
    OBVIOUS
  <2>2. memory[area][at + 1] = <<c, Upto(c, k) + 1>> /\ m \in Headers(area, at)
    BY <1>4, <1>7, <2>1
  <2>3. /\ k < Len(messages[c]) /\ m = messages[c][k + 1] /\ m.from = Upto(c, k)
        /\ Length(m) \in Nat /\ Upto(c, k + 1) = Upto(c, k) + Length(m)
    BY <1>3, <2>2, NextHeader
  <2> QED
    BY <1>3, <2>3
<1>9. PICK length \in Nat : length = Length(m) /\ length =< r
  BY <1>2, <1>4, <1>8
<1>10. /\ input' # None /\ input'.conn = c /\ input'.buffer = input.buffer
       /\ input'.at = at + length /\ Rest' = r - length
  BY <1>2, <1>3, <1>4, <1>9, ConsumedInput
<1>11. step' = "handle" /\ message' = [header |-> m, area |-> input.buffer, at |-> at]
  BY <1>4 DEF Yields
<1>12. Framed(c)' = k + 1
  BY <1>1, <1>3, <1>10, <1>11
<1>13. Left(c)' = r - length /\ Owns(c)' /\ Dispatching(c)'
  BY <1>10, <1>11 DEF Left, Owns, Dispatching, Inside
<1>14. Upto(c, k + 1)' = p + length
  BY <1>1, <1>8, <1>9 DEF Upto
<1>15. ASSUME NEW j \in 1..(r - length)
       PROVE  memory'[input'.buffer][(at + length) + j] = <<c, (p + length) + 0 + j>>
  <2>1. /\ length + j \in 1..r /\ at + (length + j) = (at + length) + j
        /\ p + (length + j) = (p + length) + 0 + j
    BY <1>9
  <2>2. memory[input.buffer][at + (length + j)] = <<c, p + (length + j)>>
    BY <1>6, <2>1
  <2> QED
    BY <1>3, <1>10, <2>1, <2>2
<1>16. NextByte(c)' = (p + length) + 0 + (r - length)
  <2>1. NextByte(c) = p + 0 + r
    BY <1>2, <1>3 DEF Stream
  <2> QED
    BY <1>1, <1>9, <2>1
<1>17. lease[c] = None
  BY <1>2, <1>3 DEF Stream
<1>18. Stream(c, k + 1, p + length, 0, r - length, at + length)'
  <2>1. k + 1 =< Len(messages'[c])
    BY <1>1, <1>8 DEF PeerSide, PeerTypes
  <2>2. buffered'[c] = 0 /\ lease'[c] = None /\ ~releaseNext'[c]
    BY <1>3, <1>17 DEF framer
  <2>3. ~(0 >= HeaderSize)
    BY <1>5
  <2>4. \A i \in 1..0 : memory'[scratch'[c]][i] = <<c, (p + length) + i>>
    OBVIOUS
  <2> QED
    BY <1>10, <1>12, <1>13, <1>14, <1>15, <1>16, <2>1, <2>2, <2>3, <2>4 DEF Stream
<1>19. MessageInv'
  <2>1. /\ message'.header = m /\ message'.area = input'.buffer /\ message'.at = at
        /\ input'.at = at + length
    BY <1>10, <1>11
  <2>2. m = messages'[c][Framed(c)'] /\ buffered'[c] = 0
    BY <1>1, <1>3, <1>8, <1>12 DEF framer
  <2>3. ASSUME NEW i \in 1..length PROVE memory'[input'.buffer][at + i] = <<c, m.from + i>>
    <3>1. i \in 1..r
      BY <1>9
    <3>2. memory'[input'.buffer][at + i] = <<c, p + i>>
      BY <1>3, <1>6, <1>10, <3>1
    <3> QED
      BY <1>8, <3>2
  <2>4. at + length =< at + length
    OBVIOUS
  <2> QED
    BY <1>9, <1>10, <2>1, <2>2, <2>3, <2>4 DEF MessageInv
<1>20. r - length \in Nat /\ k + 1 \in Nat /\ p + length \in Nat /\ at + length \in Nat
  BY <1>9
<1> QED
  BY <1>18, <1>19, <1>20, StreamFrom

LEMMA StreamFragments ==
  ASSUME PeerSide, FramerTypes, ThreadTypes, OutcomeTypes, MemoryTypes, ThreadInv, FitsInv,
         LeaseInv, LeaseInv', FragmentFits, NEW c \in Conn, Fragment(c), StreamInv(c)
  PROVE  StreamInv(c)'
<1>1. /\ Owns(c) /\ Live(c) /\ NextByte(c)' = NextByte(c)
      /\ UNCHANGED <<messages, log, completions, read>>
      /\ step' # "handle" => Framed(c)' = Framed(c)
  BY FramerRuns DEF Frames
<1>2. PICK k \in Nat, p \in Nat, n \in Nat, r \in Nat, at \in Nat :
        Stream(c, k, p, n, r, at) /\ Rest = r
  BY <1>1, StreamNow
<1>3. /\ c = input.conn /\ ~releaseNext[c] /\ buffered[c] = 0 /\ n = 0 /\ r > 0
      /\ step' = "header" /\ IsFragment /\ EnsureCapacity(c, r) /\ Copy(c, r)
      /\ buffered' = [buffered EXCEPT ![c] = r] /\ input.at = at
      /\ releaseNext' = releaseNext
      /\ k =< Len(messages[c]) /\ p = Upto(c, k) /\ Framed(c) = k /\ lease[c] = None
  BY <1>1, <1>2 DEF Fragment, Fresh, Stream
<1>4. /\ scratch' \in [Conn -> Area \cup {None}] /\ lease' \in [Conn -> Block \cup {None}]
      /\ Capacity(scratch'[c]) >= r
      /\ lease'[c] = lease[c] \/ InlineSize < r
  BY <1>3, EnsureLeases DEF LeaseInv
<1>5. Capacity(scratch'[c]) \in Nat /\ scratch'[c] \in Area
  BY <1>3, <1>4, Sizes
<1>6. buffered[c] + r =< Capacity(scratch'[c]) /\ r =< r
  BY <1>3, <1>4, <1>5
<1>7. /\ \A i \in 1..(n + r) : memory'[scratch'[c]][i] = <<c, p + i>>
      /\ input' # None /\ input'.conn = c /\ input'.buffer = input.buffer
      /\ input'.at = at + r /\ Rest' = r - r
  <2>1. /\ Copy(c, r) /\ scratch' \in [Conn -> Area \cup {None}]
        /\ lease' \in [Conn -> Block \cup {None}] /\ Owns(c)
    BY <1>1, <1>3, <1>4
  <2>2. Copied(c, p, n, r, at, r)
    BY <1>2, <1>5, <1>6, <2>1, CopyStream
  <2> QED
    BY <2>2 DEF Copied
<1>8. ASSUME r >= HeaderSize
      PROVE  k < Len(messages[c]) /\ r < Length(messages[c][k + 1])
  <2>1. PICK m \in Headers(input.buffer, at) : r < Length(m)
    BY <1>2, <1>3, <1>8, SizesAssumption DEF IsFragment
  <2>2. 1 \in 1..r /\ p + n + 1 = p + 1
    BY <1>3
  <2>3. memory[input.buffer][at + 1] = <<c, Upto(c, k) + 1>>
    BY <1>1, <1>2, <1>3, <2>2 DEF Stream
  <2> QED
    BY <1>3, <2>1, <2>3, NextHeader
<1>9. ASSUME lease'[c] # None
      PROVE  k < Len(messages[c]) /\ Length(messages[c][k + 1]) > InlineSize
  <2>1. /\ InlineSize < r /\ InlineSize \in Nat /\ HeaderSize \in Nat
        /\ HeaderSize =< InlineSize
    BY <1>3, <1>4, <1>9, SizesAssumption
  <2>2. r >= HeaderSize
    BY <2>1
  <2>3. k + 1 \in DOMAIN messages[c] /\ Length(messages[c][k + 1]) \in Nat
    <3>1. k + 1 \in DOMAIN messages[c]
      BY <1>3, <1>8, <2>2, Places
    <3> QED
      BY <3>1, MessageFields
  <2> QED
    BY <1>8, <2>1, <2>2, <2>3
<1>10. Framed(c)' = k /\ Left(c)' = 0 /\ Owns(c)'
  BY <1>1, <1>3, <1>7 DEF Left, Owns
<1>11. Stream(c, k, p, r, 0, at + r)'
  <2>1. /\ k =< Len(messages'[c]) /\ p = Upto(c, k)' /\ buffered'[c] = r
    BY <1>1, <1>3 DEF Upto, FramerTypes
  <2>2. NextByte(c)' = p + r + 0
    <3>1. NextByte(c) = p + 0 + r
      BY <1>2, <1>3 DEF Stream
    <3> QED
      BY <1>1, <3>1
  <2>3. \A i \in 1..r : memory'[scratch'[c]][i] = <<c, p + i>>
    BY <1>3, <1>7
  <2>4. \A j \in 1..0 : memory'[input'.buffer][(at + r) + j] = <<c, p + r + j>>
    OBVIOUS
  <2>5. ~releaseNext'[c] /\ r > 0
    BY <1>3
  <2>6. r >= HeaderSize => k < Len(messages'[c]) /\ r < Length(messages'[c][k + 1])
    BY <1>1, <1>8
  <2>7. lease'[c] # None => k < Len(messages'[c]) /\ Length(messages'[c][k + 1]) > InlineSize
    BY <1>1, <1>9
  <2> QED
    BY <1>7, <1>10, <2>1, <2>2, <2>3, <2>4, <2>5, <2>6, <2>7 DEF Stream
<1> QED
  BY <1>11, StreamFrom

LEMMA StreamFillsHeader ==
  ASSUME PeerSide, FramerTypes, ThreadTypes, OutcomeTypes, MemoryTypes, ThreadInv, FitsInv,
         LeaseInv, LeaseInv', FragmentFits, NEW c \in Conn, FillHeader(c), StreamInv(c)
  PROVE  StreamInv(c)'
<1>1. /\ Owns(c) /\ Live(c) /\ NextByte(c)' = NextByte(c)
      /\ UNCHANGED <<messages, log, completions, read>>
      /\ step' # "handle" => Framed(c)' = Framed(c)
  BY FramerRuns DEF Frames
<1>2. PICK k \in Nat, p \in Nat, n \in Nat, r \in Nat, at \in Nat :
        Stream(c, k, p, n, r, at) /\ Rest = r
  BY <1>1, StreamNow
<1>3. PICK count : count = HeaderCount(c)
  OBVIOUS
<1>4. /\ step \in {"next", "header"} /\ ~releaseNext[c] /\ buffered[c] = n /\ n > 0
      /\ count \in Nat /\ count =< r
      /\ Copy(c, count) /\ buffered' = [buffered EXCEPT ![c] = n + count]
      /\ UNCHANGED <<scratch, lease, free, releaseNext, message, messages, phase>>
      /\ n < HeaderSize => n + count =< HeaderSize
      /\ n >= HeaderSize => count = 0
      /\ n + count < HeaderSize => step' = "release"
      /\ n + count >= HeaderSize => step' = "body"
      /\ k =< Len(messages[c]) /\ p = Upto(c, k) /\ Framed(c) = k
  <2>1. buffered[c] = n /\ k =< Len(messages[c]) /\ p = Upto(c, k) /\ Framed(c) = k
    BY <1>2 DEF Stream
  <2>2. /\ step \in {"next", "header"} /\ ~releaseNext[c] /\ buffered[c] > 0
        /\ count \in Nat /\ count =< Rest
        /\ Copy(c, count) /\ buffered' = [buffered EXCEPT ![c] = buffered[c] + count]
        /\ UNCHANGED <<scratch, lease, free, releaseNext, message, messages, phase>>
        /\ buffered[c] < HeaderSize => buffered[c] + count =< HeaderSize
        /\ buffered[c] >= HeaderSize => count = 0
        /\ buffered[c] + count < HeaderSize => step' = "release"
        /\ buffered[c] + count >= HeaderSize => step' = "body"
    BY <1>3, FillHeaderCounts
  <2> QED
    BY <1>2, <2>1, <2>2
<1>5. HeaderSize \in Nat
  BY SizesAssumption
<1>6. step' \in {"release", "body"} /\ n + count \in Nat
  BY <1>4, <1>5
<1>7. /\ scratch[c] \in Area /\ HeaderSize =< Capacity(scratch[c])
      /\ Capacity(scratch[c]) \in Nat /\ n =< Capacity(scratch[c])
  BY <1>4, FragmentScratch DEF FragmentFits
<1>8. buffered[c] + count =< Capacity(scratch'[c])
  BY <1>4, <1>5, <1>7
<1>9. /\ r - count \in Nat /\ at + count \in Nat
      /\ \A i \in 1..(n + count) : memory'[scratch'[c]][i] = <<c, p + i>>
      /\ input' # None /\ input'.conn = c /\ input'.buffer = input.buffer
      /\ input'.at = at + count /\ Rest' = r - count
      /\ \A j \in 1..(r - count) :
           memory'[input'.buffer][(at + count) + j] = <<c, p + (n + count) + j>>
  <2>1. scratch' \in [Conn -> Area \cup {None}] /\ lease' \in [Conn -> Block \cup {None}]
          /\ scratch'[c] \in Area
    BY <1>4, <1>7 DEF FramerTypes
  <2>2. Copy(c, count) /\ count \in Nat /\ count =< r /\ Owns(c)
    BY <1>1, <1>4
  <2>3. Copied(c, p, n, r, at, count)
    BY <1>2, <1>8, <2>1, <2>2, CopyStream
  <2> QED
    BY <2>3 DEF Copied
<1>10. Framed(c)' = k /\ Left(c)' = r - count /\ Owns(c)'
  BY <1>1, <1>4, <1>6, <1>9 DEF Left, Owns
<1>11. Stream(c, k, p, n + count, r - count, at + count)'
  <2>1. /\ k =< Len(messages'[c]) /\ p = Upto(c, k)' /\ buffered'[c] = n + count
    BY <1>1, <1>4 DEF Upto, FramerTypes
  <2>2. NextByte(c)' = p + (n + count) + (r - count)
    <3>1. NextByte(c) = p + n + r
      BY <1>2 DEF Stream
    <3>2. p + n + r = p + (n + count) + (r - count)
      BY <1>4
    <3> QED
      BY <1>1, <3>1, <3>2
  <2>3. ~releaseNext'[c] /\ n + count > 0
    BY <1>4
  <2>4. n + count >= HeaderSize =>
          \/ k < Len(messages'[c]) /\ n + count < Length(messages'[c][k + 1])
          \/ step' = "body" /\ input'.conn = c /\ n + count = HeaderSize
    <3>1. CASE n >= HeaderSize
      <4>1. n + count = n /\ step # "body"
        BY <1>4, <3>1
      <4>2. k < Len(messages[c]) /\ n < Length(messages[c][k + 1])
        BY <1>2, <3>1, <4>1 DEF Stream
      <4> QED
        BY <1>1, <4>1, <4>2
    <3>2. CASE ~(n >= HeaderSize)
      <4>1. n + count =< HeaderSize /\ input'.conn = c
        BY <1>4, <1>5, <1>9, <3>2
      <4>2. n + count >= HeaderSize => step' = "body"
        BY <1>4
      <4>3. n + count >= HeaderSize => n + count = HeaderSize
        BY <1>5, <1>6, <4>1
      <4> QED
        BY <4>1, <4>2, <4>3
    <3> QED
      BY <3>1, <3>2
  <2>5. lease'[c] # None =>
          k < Len(messages'[c]) /\ Length(messages'[c][k + 1]) > InlineSize
    BY <1>1, <1>2, <1>4 DEF Stream
  <2> QED
    BY <1>9, <1>10, <2>1, <2>2, <2>3, <2>4, <2>5 DEF Stream
<1> QED
  BY <1>6, <1>9, <1>11, StreamFrom

LEMMA StreamFillsBody ==
  ASSUME PeerSide, FramerTypes, ThreadTypes, OutcomeTypes, MemoryTypes, ThreadInv, FitsInv,
         LeaseInv, LeaseInv', FragmentFits, NEW c \in Conn, FillBody(c), StreamInv(c)
  PROVE  StreamInv(c)' /\ MessageInv'
<1>1. /\ Owns(c) /\ Live(c) /\ NextByte(c)' = NextByte(c)
      /\ UNCHANGED <<messages, log, completions, read>>
      /\ step' # "handle" => Framed(c)' = Framed(c)
      /\ step' = "handle" /\ input'.conn = c => Framed(c)' = Framed(c) + 1
  BY FramerRuns DEF Frames
<1>2. PICK k \in Nat, p \in Nat, n \in Nat, r \in Nat, at \in Nat :
        Stream(c, k, p, n, r, at) /\ Rest = r
  BY <1>1, StreamNow
<1>3. /\ step = "body" /\ c = input.conn /\ ~releaseNext[c] /\ n >= HeaderSize /\ n > 0
      /\ buffered[c] = n
      /\ k =< Len(messages[c]) /\ p = Upto(c, k) /\ Framed(c) = k
      /\ NextByte(c) = p + n + r
  BY <1>2, FillBodyCounts DEF Stream
<1>4. PICK m \in Headers(scratch[c], 0) : \E count \in Nat :
        /\ count =< Rest /\ buffered[c] + count =< Length(m)
        /\ Length(m) \in Nat
        /\ EnsureCapacity(c, Length(m)) /\ Copy(c, count)
        /\ \/ /\ buffered[c] + count < Length(m) /\ count = Rest
              /\ buffered' = [buffered EXCEPT ![c] = buffered[c] + count]
              /\ step' = "release" /\ UNCHANGED <<message, releaseNext>>
           \/ /\ buffered[c] + count = Length(m)
              /\ buffered' = [buffered EXCEPT ![c] = 0]
              /\ releaseNext' = [releaseNext EXCEPT ![c] = lease'[c] # None]
              /\ Yields(m, scratch'[c], 0)
  BY FillBodyCounts
<1>5. PICK length \in Nat : length = Length(m)
  BY <1>4
<1>6. PICK count \in Nat :
        /\ count =< r /\ n + count =< length
        /\ EnsureCapacity(c, length) /\ Copy(c, count)
        /\ \/ /\ n + count < length /\ count = r
              /\ buffered' = [buffered EXCEPT ![c] = n + count]
              /\ step' = "release" /\ UNCHANGED <<message, releaseNext>>
           \/ /\ n + count = length
              /\ buffered' = [buffered EXCEPT ![c] = 0]
              /\ releaseNext' = [releaseNext EXCEPT ![c] = lease'[c] # None]
              /\ Yields(m, scratch'[c], 0)
  BY <1>2, <1>3, <1>4, <1>5
<1>7. /\ scratch' \in [Conn -> Area \cup {None}] /\ lease' \in [Conn -> Block \cup {None}]
      /\ Capacity(scratch'[c]) >= length
      /\ lease'[c] = lease[c] \/ InlineSize < length
  BY <1>6, EnsureLeases DEF LeaseInv
<1>8. /\ Capacity(scratch'[c]) \in Nat /\ scratch'[c] \in Area
      /\ buffered[c] + count =< Capacity(scratch'[c])
  <2>1. PICK size \in Nat : size = Capacity(scratch'[c]) /\ size >= length
    BY <1>7, Sizes
  <2>2. size > 0 /\ n + count =< size
    BY <1>3, <1>6, <2>1
  <2>3. scratch'[c] \in Area
    BY <1>7, <2>1, <2>2, Sizes
  <2> QED
    BY <1>3, <2>1, <2>2, <2>3
<1>9. Copied(c, p, n, r, at, count)
  BY <1>1, <1>2, <1>6, <1>7, <1>8, CopyStream
<1>10. /\ k < Len(messages[c]) /\ m = messages[c][k + 1] /\ m.from = p
       /\ Upto(c, k + 1) = p + length /\ length > 0
  <2>1. 1 \in 1..n
    BY <1>3
  <2>2. memory[scratch[c]][1] = <<c, p + 1>>
    BY <1>2, <2>1 DEF Stream
  <2>3. memory[scratch[c]][0 + 1] = <<c, Upto(c, k) + 1>>
    BY <1>3, <2>2
  <2> QED
    BY <1>3, <1>5, <2>3, NextHeader
<1>11. /\ input' # None /\ input'.conn = c /\ input'.buffer = input.buffer
       /\ input'.at = at + count /\ Rest' = r - count
       /\ Left(c)' = r - count /\ Owns(c)'
       /\ r - count \in Nat /\ at + count \in Nat /\ n + count \in Nat
  BY <1>9 DEF Copied, Left, Owns
<1>12. CASE /\ n + count < length /\ count = r
            /\ buffered' = [buffered EXCEPT ![c] = n + count]
            /\ step' = "release" /\ UNCHANGED <<message, releaseNext>>
  <2>1. Framed(c)' = k
    BY <1>1, <1>3, <1>12
  <2>2. Stream(c, k, p, n + count, r - count, at + count)'
    <3>1. k =< Len(messages'[c]) /\ p = Upto(c, k)' /\ buffered'[c] = n + count
      BY <1>1, <1>3, <1>12 DEF Upto, FramerTypes
    <3>2. NextByte(c)' = p + (n + count) + (r - count)
      <4>1. p + n + r = p + (n + count) + (r - count)
        BY <1>6
      <4> QED
        BY <1>1, <1>3, <4>1
    <3>3. ~releaseNext'[c] /\ n + count > 0
      BY <1>3, <1>12
    <3>4. k < Len(messages'[c]) /\ n + count < Length(messages'[c][k + 1])
      BY <1>1, <1>5, <1>10, <1>12
    <3>5. lease'[c] # None => Length(messages'[c][k + 1]) > InlineSize
      <4>1. CASE lease'[c] = lease[c]
        BY <1>1, <1>2, <1>3, <4>1 DEF Stream
      <4>2. CASE InlineSize < length
        BY <1>1, <1>5, <1>10, <4>2, SizesAssumption
      <4> QED
        BY <1>7, <4>1, <4>2
    <3> QED
      BY <1>9, <1>11, <2>1, <3>1, <3>2, <3>3, <3>4, <3>5 DEF Stream, Copied
  <2>3. MessageInv'
    BY <1>12 DEF MessageInv
  <2> QED
    BY <1>11, <2>2, <2>3, StreamFrom
<1>13. CASE /\ n + count = length
            /\ buffered' = [buffered EXCEPT ![c] = 0]
            /\ releaseNext' = [releaseNext EXCEPT ![c] = lease'[c] # None]
            /\ Yields(m, scratch'[c], 0)
  <2>1. step' = "handle" /\ message' = [header |-> m, area |-> scratch'[c], at |-> 0]
    BY <1>13 DEF Yields
  <2>2. Framed(c)' = k + 1 /\ Dispatching(c)'
    BY <1>1, <1>3, <1>11, <2>1 DEF Dispatching, Inside
  <2>3. buffered'[c] = 0
    BY <1>13 DEF FramerTypes
  <2>4. lease'[c] # None => releaseNext'[c]
    <3>1. PICK b \in BOOLEAN : b = (lease'[c] # None)
      OBVIOUS
    <3>2. releaseNext'[c] = b
      BY Zenon, <1>13, <3>1 DEF FramerTypes
    <3> QED
      BY Zenon, <3>1, <3>2
  <2>5. Stream(c, k + 1, p + length, 0, r - count, at + count)'
    <3>1. k + 1 =< Len(messages'[c])
      BY <1>1, <1>10 DEF PeerSide, PeerTypes
    <3>2. p + length = Upto(c, k + 1)'
      BY <1>1, <1>10 DEF Upto
    <3>3. NextByte(c)' = (p + length) + 0 + (r - count)
      <4>1. p + n + r = (p + length) + 0 + (r - count)
        BY <1>6, <1>13
      <4> QED
        BY <1>1, <1>3, <4>1
    <3>4. \A i \in 1..0 : memory'[scratch'[c]][i] = <<c, (p + length) + i>>
      OBVIOUS
    <3>5. ASSUME NEW j \in 1..(r - count)
          PROVE  memory'[input'.buffer][(at + count) + j] = <<c, (p + length) + 0 + j>>
      <4>1. p + (n + count) + j = (p + length) + 0 + j
        BY <1>6, <1>13
      <4>2. memory'[input'.buffer][(at + count) + j] = <<c, p + (n + count) + j>>
        BY <1>9 DEF Copied
      <4> QED
        BY <4>1, <4>2
    <3>6. ~(0 >= HeaderSize)
      BY SizesAssumption
    <3> QED
      BY <1>11, <2>1, <2>2, <2>3, <2>4, <3>1, <3>2, <3>3, <3>4, <3>5, <3>6 DEF Stream
  <2>6. MessageInv'
    <3>1. message'.header = m /\ message'.area = scratch'[c] /\ message'.at = 0
      BY <2>1
    <3>2. m = messages'[c][Framed(c)']
      BY <1>1, <1>10, <2>2
    <3>3. ASSUME NEW i \in 1..length
          PROVE  memory'[scratch'[c]][0 + i] = <<c, m.from + i>>
      <4>1. i \in 1..(n + count) /\ 0 + i = i
        BY <1>13
      <4>2. memory'[scratch'[c]][i] = <<c, p + i>>
        BY <1>9, <4>1 DEF Copied
      <4> QED
        BY <1>10, <4>1, <4>2
    <3>4. length =< Capacity(scratch'[c])
      BY <1>7, <1>8
    <3>5. /\ m = messages'[c][Framed(c)'] /\ buffered'[c] = 0
          /\ \A i \in 1..Length(m) :
               memory'[message'.area][message'.at + i] = <<c, m.from + i>>
      BY <1>5, <2>3, <3>1, <3>2, <3>3
    <3>6. Capacity(scratch[c])' = Capacity(scratch'[c]) /\ Length(m) =< Capacity(scratch[c])'
      BY <1>5, <3>4 DEF Capacity, AreaSize
    <3> QED
      BY <1>11, <3>1, <3>5, <3>6 DEF MessageInv
  <2>7. k + 1 \in Nat /\ p + length \in Nat
    OBVIOUS
  <2> QED
    BY <1>11, <2>5, <2>6, <2>7, StreamFrom
<1> QED
  BY <1>6, <1>12, <1>13

LEMMA StreamFrames ==
  ASSUME PeerSide, FramerTypes, ThreadTypes, OutcomeTypes, MemoryTypes, RightsTypes,
         ThreadInv, FitsInv, LeaseInv, LeaseInv', FragmentFits, NEW c \in Conn, Frames(c),
         StreamInv(c)
  PROVE  StreamInv(c)' /\ MessageInv'
<1>1. step' # "handle" => MessageInv'
  BY DEF MessageInv
<1>2. CASE ReleaseLease(c)
  <2>1. step' # "handle"
    BY <1>2 DEF ReleaseLease, thread
  <2> QED
    BY <1>1, <1>2, <2>1, StreamUnleases
<1>3. CASE Borrow(c)
  BY <1>3, StreamBorrows
<1>4. CASE Drained(c)
  <2>1. step' # "handle"
    BY <1>4 DEF Drained
  <2> QED
    BY <1>1, <1>4, <2>1, StreamDrains
<1>5. CASE Fragment(c)
  <2>1. step' # "handle"
    BY <1>5 DEF Fragment
  <2> QED
    BY <1>1, <1>5, <2>1, StreamFragments
<1>6. CASE FillHeader(c)
  <2>1. step' # "handle"
    BY <1>6 DEF FillHeader
  <2> QED
    BY <1>1, <1>6, <2>1, StreamFillsHeader
<1>7. CASE FillBody(c)
  BY <1>7, StreamFillsBody
<1>8. CASE Garbled(c) \/ MessageTooLarge(c)
  <2>1. step' = "release" /\ Ends(c)
    BY <1>8 DEF Garbled, MessageTooLarge, Terminal, Fails
  <2>2. phase'[c] # "open"
    BY <2>1, EndsPhase DEF RightsTypes
  <2>3. ~Live(c)'
    BY <2>1, <2>2 DEF Live, Dispatching, Inside
  <2> QED
    BY <1>1, <2>1, <2>3 DEF StreamInv
<1> QED
  BY <1>2, <1>3, <1>4, <1>5, <1>6, <1>7, <1>8 DEF Frames

LEMMA StreamDispatches ==
  ASSUME PeerSide, RightsTypes, FramerTypes, ThreadTypes, OutcomeTypes, ThreadInv,
         NEW c \in Conn, Dispatches(c), StreamInv(c)
  PROVE  StreamInv(c)'
<1>1. ASSUME Ends(c), step' = "release" PROVE StreamInv(c)'
  <2>1. phase'[c] # "open"
    BY <1>1, EndsPhase DEF RightsTypes
  <2>2. ~Live(c)'
    BY <1>1, <2>1 DEF Live, Dispatching, Inside
  <2> QED
    BY <2>2 DEF StreamInv
<1>2. ASSUME NEW fate, Handle(c, fate) PROVE StreamInv(c)'
  <2>1. /\ step = "handle" /\ c = input.conn /\ step' = "next"
        /\ UNCHANGED <<messages, completions, read, memory, input, framer>>
        /\ \E entry : log' = [log EXCEPT ![c] = Append(log[c], entry)]
    BY <1>2 DEF Handle, Takes, peer, kernel
  <2>2. Owns(c) /\ Live(c) /\ Handling(c) /\ ~Handling(c)'
    BY <2>1 DEF Owns, Live, Dispatching, Handling, Inside, ThreadInv
  <2>3. Framed(c)' = Framed(c)
    <3>1. PICK entry : log' = [log EXCEPT ![c] = Append(log[c], entry)]
      BY <2>1
    <3>2. log'[c] = Append(log[c], entry) /\ log[c] \in Seq(Entry)
      BY <3>1 DEF OutcomeTypes
    <3>3. PICK n \in Nat : n = Len(log[c])
      BY <3>2
    <3>4. Len(log'[c]) = n + 1
      BY <3>2, <3>3
    <3>5. Framed(c)' = (n + 1) + 0
      BY <2>2, <3>4 DEF Framed
    <3>6. Framed(c) = n + 1
      BY <2>2, <3>3 DEF Framed
    <3> QED
      BY <3>5, <3>6
  <2>4. PICK k \in Nat, p \in Nat, n \in Nat, r \in Nat, at \in Nat :
          Stream(c, k, p, n, r, at) /\ Rest = r
    BY <2>2, StreamNow
  <2>5. NextByte(c)' = NextByte(c) /\ Left(c)' = Left(c) /\ Dispatching(c)' /\ Owns(c)'
    BY <2>1, <2>2 DEF NextByte, Left, Owns, Rest, Dispatching, Inside
  <2>6. Stream(c, k, p, n, r, at)'
    BY <2>1, <2>2, <2>3, <2>4, <2>5 DEF Stream, Upto, framer
  <2> QED
    BY <2>6, StreamFrom
<1>3. CASE HandlerFails(c)
  BY <1>1, <1>3 DEF HandlerFails, Fails
<1>4. CASE Rejects(c) \/ Empty(c)
  BY <1>1, <1>4 DEF Rejects, Empty, Terminal, Fails
<1> QED
  BY <1>2, <1>3, <1>4 DEF Dispatches

LEMMA StreamCompletes ==
  ASSUME KernelSide, RightsTypes, FramerTypes, ThreadTypes, OutcomeTypes, ThreadInv, BufferInv,
         NEW c \in Conn, Completes(c), StreamInv(c)
  PROVE  StreamInv(c)'
<1>1. CASE Ingest(c)
  BY <1>1, StreamIngests
<1>2. CASE Disconnected(c) \/ Refused(c) \/ Discard(c)
  <2>1. step' = "idle" /\ (Ends(c) \/ phase'[c] = "closing")
    BY <1>2 DEF Disconnected, Refused, Discard, Pending, Fails, thread, outcome
  <2>2. phase'[c] # "open"
    BY <2>1, EndsPhase DEF RightsTypes
  <2>3. ~Live(c)'
    BY <2>1, <2>2 DEF Live, Dispatching, Inside
  <2> QED
    BY <2>3 DEF StreamInv
<1> QED
  BY <1>1, <1>2 DEF Completes

LEMMA StreamCloses ==
  ASSUME PeerSide, FramerTypes, RightsTypes, OutcomeTypes, ThreadInv, ThreadInv', Next,
         NEW d \in Conn, BeginClose(d), NEW c \in Conn, StreamInv(c)
  PROVE  StreamInv(c)'
<1>1. /\ UNCHANGED <<messages, completions, read, memory, thread, framer, log>>
      /\ phase' = [phase EXCEPT ![d] = "closing"]
  BY DEF BeginClose, peer, kernel
<1>2. phase'[c] = "open" => phase[c] = "open"
  BY <1>1 DEF RightsTypes
<1>3. NextByte(c)' = NextByte(c)
  BY <1>1 DEF NextByte
<1>4. StreamSame(c)
  BY <1>1, <1>2, <1>3 DEF StreamSame, thread, framer
<1> QED
  BY <1>4, StreamKept

LEMMA StreamDestroys ==
  ASSUME RightsTypes, NEW c \in Conn, Destroy(c) PROVE StreamInv(c)'
<1>1. step' = "idle" /\ phase'[c] = "gone"
  BY DEF Destroy, thread, RightsTypes
<1>2. ~Live(c)'
  BY <1>1 DEF Live, Dispatching, Inside
<1> QED
  BY <1>2 DEF StreamInv

LEMMA StreamStays ==
  ASSUME KernelSide, RightsTypes, FramerTypes, ThreadTypes, OutcomeTypes, MemoryTypes,
         ThreadInv, ThreadInv', FitsInv, LeaseInv, LeaseInv', FragmentFits, BufferInv, Next,
         \A c \in Conn : StreamInv(c), NEW c \in Conn
  PROVE  StreamInv(c)'
<1>1. CASE PeerOrKernel
  <2>1. StreamSame(c)
    BY <1>1, StreamQuiet
  <2> QED
    BY <2>1, StreamKept DEF KernelSide
<1>2. CASE Release
  BY <1>2, StreamReleases DEF KernelSide
<1>3. ASSUME NEW d \in Conn, Completes(d) \/ Frames(d) \/ Dispatches(d) \/ Destroy(d)
      PROVE  StreamInv(c)'
  <2>1. CASE d = c
    <3>1. CASE Completes(c)
      BY <3>1, StreamCompletes
    <3>2. CASE Frames(c)
      BY <3>2, StreamFrames DEF KernelSide
    <3>3. CASE Dispatches(c)
      BY <3>3, StreamDispatches DEF KernelSide
    <3>4. CASE Destroy(c)
      BY <3>4, StreamDestroys
    <3> QED
      BY <1>3, <2>1, <3>1, <3>2, <3>3, <3>4
  <2>2. CASE d # c
    <3>1. StreamSame(c)
      BY <1>3, <2>2, StreamOthers
    <3> QED
      BY <3>1, StreamKept DEF KernelSide
  <2> QED
    BY <2>1, <2>2
<1>4. ASSUME NEW d \in Conn, BeginClose(d) PROVE StreamInv(c)'
  BY <1>4, StreamCloses DEF KernelSide
<1> QED
  BY <1>1, <1>2, <1>3, <1>4 DEF Next, PeerOrKernel

LEMMA MessageStays ==
  ASSUME KernelSide, RightsTypes, FramerTypes, ThreadTypes, OutcomeTypes, MemoryTypes,
         ThreadInv, ThreadInv', FitsInv, LeaseInv, LeaseInv', FragmentFits, BufferInv, Next,
         \A c \in Conn : StreamInv(c), MessageInv
  PROVE  MessageInv'
<1>1. CASE step' # "handle"
  BY <1>1 DEF MessageInv
<1>2. ASSUME step = "handle", UNCHANGED <<thread, framer, log>>,
             \A a \in Area : a \notin Buffer => memory'[a] = memory[a],
             memory'[input.buffer] = memory[input.buffer]
      PROVE  MessageInv'
  <2>1. /\ input # None /\ input.conn \in Conn /\ input.buffer \in Buffer
    BY <1>2, BusyHasInput
  <2>2. PICK c \in Conn : c = input.conn
    BY <2>1
  <2>3. PICK m : m = message.header
    OBVIOUS
  <2>4. /\ UNCHANGED <<step, input, message, buffered, scratch>>
    BY <1>2 DEF thread, framer
  <2>5. /\ m = messages[c][Framed(c)] /\ buffered[c] = 0
        /\ \/ message.area = input.buffer /\ message.at + Length(m) =< input.at
           \/ /\ message.area = scratch[c] /\ message.at = 0
              /\ Length(m) =< Capacity(scratch[c])
        /\ \A i \in 1..Length(m) :
             memory[message.area][message.at + i] = <<c, m.from + i>>
    BY <1>2, <2>2, <2>3 DEF MessageInv
  <2>6. /\ Framed(c) \in Nat /\ Framed(c) # 0 /\ Framed(c) =< Len(messages[c])
        /\ Framed(c)' = Framed(c)
    <3>1. Handling(c) /\ Handling(c)' /\ Live(c)
      BY <1>2, <2>2, <2>3, <2>4 DEF Handling, Live, Dispatching, Inside
    <3>2. Framed(c)' = Framed(c)
      BY <1>2, <2>4, <3>1 DEF Framed
    <3>3. Framed(c) = Len(log[c]) + 1 /\ Len(log[c]) \in Nat
      BY <2>1, <3>1, FramedIsNumber
    <3> QED
      BY <2>1, <3>1, <3>2, <3>3 DEF StreamInv
  <2>7. messages'[c][Framed(c)] = messages[c][Framed(c)]
    <3>1. PICK k \in Nat : k = Framed(c) /\ k # 0 /\ k =< Len(messages[c])
      BY <2>6
    <3> QED
      BY <2>1, <3>1, PlaceKept DEF KernelSide
  <2>8. memory'[message.area] = memory[message.area]
    <3>1. CASE message.area = input.buffer
      BY <1>2, <3>1
    <3>2. CASE message.area = scratch[c] /\ Length(m) =< Capacity(scratch[c])
      <4>1. scratch[c] \in Block \cup {c, None}
        BY <2>1 DEF LeaseInv, Leases, FramerTypes
      <4>2. Length(m) > 0 /\ Length(m) \in Nat
        <5>1. Framed(c) \in DOMAIN messages[c]
          BY <2>1, <2>6 DEF KernelSide, PeerSide, PeerTypes
        <5> QED
          BY <2>1, <2>5, <5>1, MessageFields DEF KernelSide
      <4>3. scratch[c] # None
        BY <3>2, <4>2, Sizes
      <4>4. scratch[c] \in Area /\ scratch[c] \notin Buffer
        BY <2>1, <4>1, <4>3, NamesAssumption DEF Area
      <4> QED
        BY <1>2, <3>2, <4>4
    <3> QED
      BY <2>5, <3>1, <3>2
  <2>9. Capacity(scratch[c])' = Capacity(scratch[c])
    BY <2>4 DEF Capacity, AreaSize
  <2>10. /\ m = messages'[c][Framed(c)'] /\ buffered'[c] = 0
         /\ \A i \in 1..Length(m) :
             memory'[message.area][message.at + i] = <<c, m.from + i>>
    BY <2>4, <2>5, <2>6, <2>7, <2>8
  <2>11. /\ input'.conn = c /\ message'.header = m /\ message'.area = message.area
         /\ message'.at = message.at /\ input'.at = input.at /\ input'.buffer = input.buffer
         /\ scratch'[c] = scratch[c]
    BY <2>2, <2>3, <2>4
  <2>12. \/ message'.area = input'.buffer /\ message'.at + Length(m) =< input'.at
         \/ /\ message'.area = scratch'[c] /\ message'.at = 0
            /\ Length(m) =< Capacity(scratch[c])'
    BY <2>5, <2>9, <2>11
  <2> QED
    BY <2>10, <2>11, <2>12 DEF MessageInv
<1>3. CASE PeerOrKernel
  <2>1. UNCHANGED <<thread, framer, fds, outcome>>
    BY <1>3, PeerOrKernelStays
  <2>2. CASE step = "handle"
    <3>1. input # None
      BY <2>2, BusyHasInput
    <3>2. /\ \A a \in Area : a \notin Buffer => memory'[a] = memory[a]
          /\ memory'[input.buffer] = memory[input.buffer]
      BY <1>3, <3>1, KernelMemory
    <3> QED
      BY <1>2, <2>1, <2>2, <3>2 DEF outcome
  <2> QED
    BY <1>1, <2>1, <2>2 DEF thread
<1>4. ASSUME NEW d \in Conn, BeginClose(d) PROVE MessageInv'
  BY <1>1, <1>2, <1>4 DEF BeginClose, thread
<1>5. ASSUME NEW d \in Conn, Frames(d) PROVE MessageInv'
  BY <1>5, StreamFrames DEF KernelSide
<1>6. ASSUME NEW d \in Conn, Completes(d) \/ Dispatches(d) \/ Destroy(d) PROVE MessageInv'
  <2>1. step' # "handle"
    BY <1>6 DEF Completes, Disconnected, Refused, Ingest, Discard, Pending, Dispatches, Handle,
                HandlerFails, Rejects, Empty, Terminal, Destroy, thread
  <2> QED
    BY <1>1, <2>1
<1>7. CASE Release
  BY <1>1, <1>7 DEF Release
<1> QED
  BY <1>3, <1>4, <1>5, <1>6, <1>7 DEF Next, PeerOrKernel

-----------------------------------------------------------------------------
(* The queue of descriptors. *)

\* A queue of `count` numbers from q+1 on.
RunFrom(s, q, count) ==
  /\ Len(s) = count /\ DOMAIN s = 1..count
  /\ \A i \in 1..count : s[i] = q + i

LEMMA QueueNow ==
  ASSUME PeerSide, KernelTypes, RightsTypes, OutcomeTypes, NEW c \in Conn, KernelInv(c),
         Live(c), StreamInv(c), QueueInv(c)
  PROVE  \E k, q, count \in Nat :
           /\ k = Len(log[c]) /\ k =< Framed(c) /\ k =< Len(messages[c])
           /\ q = FdUpto(c, k) /\ RunFrom(fds[c], q, count) /\ NextFd(c) = q + count
           /\ Handling(c) => Framed(c) = k + 1 /\ k < Len(messages[c])
<1>1. PICK k \in Nat : k = Len(log[c])
  BY FramedIsNumber
<1>2. PICK f \in Nat : f = Framed(c) /\ f =< Len(messages[c])
  BY FramedIsNumber DEF StreamInv
<1>3. k =< f /\ (Handling(c) => f = k + 1)
  BY <1>1, <1>2, FramedIsNumber
<1>4. PICK l \in Nat : l = Len(messages[c])
  BY DEF PeerSide, PeerTypes
<1>5. k =< l /\ (Handling(c) => k < l)
  BY <1>2, <1>3, <1>4
<1>6. PICK q \in Nat : q = FdUpto(c, k)
  BY <1>1, <1>4, <1>5, Places
<1>7. PICK count \in Nat : count = Len(fds[c]) /\ DOMAIN fds[c] = 1..count
  BY DEF RightsTypes
<1>8. RunFrom(fds[c], q, count) /\ NextFd(c) = q + count
  BY <1>1, <1>6, <1>7 DEF QueueInv, RunFrom
<1> QED
  BY <1>1, <1>2, <1>3, <1>4, <1>5, <1>6, <1>8

LEMMA QueueFrom ==
  ASSUME NEW c \in Conn, NEW k \in Nat, NEW q \in Nat, NEW count \in Nat,
         Len(log'[c]) = k, FdUpto(c, k)' = q, RunFrom(fds'[c], q, count),
         NextFd(c)' = q + count
  PROVE  QueueInv(c)'
BY DEF QueueInv, RunFrom

\* A step that does not disturb the queue of a connection.
QueueSame(c) ==
  /\ log'[c] = log[c] /\ fds'[c] = fds[c] /\ NextFd(c)' = NextFd(c)
  /\ Live(c)' => Live(c)

LEMMA QueueKept ==
  ASSUME PeerSide, KernelTypes, RightsTypes, OutcomeTypes, Next, NEW c \in Conn, KernelInv(c),
         StreamInv(c), QueueInv(c), QueueSame(c)
  PROVE  QueueInv(c)'
<1> SUFFICES ASSUME Live(c)'
             PROVE  QueueInv(c)'
  BY DEF QueueInv
<1>1. Live(c)
  BY DEF QueueSame
<1>2. PICK k \in Nat, q \in Nat, count \in Nat :
        /\ k = Len(log[c]) /\ k =< Len(messages[c])
        /\ q = FdUpto(c, k) /\ RunFrom(fds[c], q, count) /\ NextFd(c) = q + count
  BY <1>1, QueueNow
<1>3. FdUpto(c, k)' = q
  BY <1>2, PlaceKept
<1>4. Len(log'[c]) = k /\ RunFrom(fds'[c], q, count) /\ NextFd(c)' = q + count
  BY <1>2 DEF QueueSame
<1> QED
  BY <1>3, <1>4, QueueFrom

LEMMA QueueIngests ==
  ASSUME KernelSide, RightsTypes, OutcomeTypes, ThreadInv, NEW c \in Conn, Ingest(c),
         StreamInv(c), QueueInv(c)
  PROVE  QueueInv(c)'
<1> SUFFICES ASSUME Live(c)'
             PROVE  QueueInv(c)'
  BY DEF QueueInv
<1>1. Leaves(c) /\ Head(completions[c]) = completions[c][1] /\ completions[c] # <<>>
        /\ UNCHANGED <<messages, log, phase>> /\ step = "idle"
        /\ step' = IF phase[c] = "open" THEN "next" ELSE "release"
  BY DEF Ingest, Pending, Dropped, Leaves, peer, outcome, KernelSide, KernelTypes
<1>2. phase[c] = "open" /\ Live(c)
  BY <1>1 DEF Live, Dispatching, Inside
<1>3. PICK k \in Nat, q \in Nat, count \in Nat :
        /\ k = Len(log[c]) /\ k =< Len(messages[c])
        /\ q = FdUpto(c, k) /\ RunFrom(fds[c], q, count) /\ NextFd(c) = q + count
  BY <1>2, QueueNow DEF KernelSide
<1>4. /\ NextFd(c)' = completions[c][1].fdEnd /\ NextFd(c) = completions[c][1].fdFrom
      /\ completions[c][1] \in Cqe /\ CqeInv(c, 1)
  BY <1>1, LeavingKernel DEF KernelSide
<1>5. PICK from \in Nat, to \in Nat : from = completions[c][1].fdFrom
        /\ to = completions[c][1].fdTo /\ from =< to /\ completions[c][1].fdEnd = to
  <2>1. PICK from \in Nat, to \in Nat, end \in Nat : from = completions[c][1].fdFrom
          /\ to = completions[c][1].fdTo /\ end = completions[c][1].fdEnd
    BY <1>4 DEF Cqe
  <2>2. from =< to /\ to =< end
    BY <1>4, <2>1 DEF CqeInv
  <2>3. ~(to < end)
    BY <1>1, <2>1 DEF Ingest, Truncated
  <2>4. end = to
    BY <2>2, <2>3
  <2> QED
    BY <2>1, <2>2, <2>4
<1>6. fds' = [fds EXCEPT ![c] = fds[c] \o [i \in 1..(to - from) |-> from + i]]
  BY <1>1, <1>5 DEF Ingest
<1>7. fds'[c] = fds[c] \o [i \in 1..(to - from) |-> from + i] /\ fds[c] \in Seq(Nat)
  BY <1>6 DEF RightsTypes
<1>8. to - from \in Nat /\ from = q + count
  <2>1. NextFd(c) = from
    BY <1>4, <1>5
  <2>2. from = q + count
    BY <1>3, <2>1
  <2>3. from =< to
    BY <1>5
  <2>4. to - from \in Nat
    BY <2>3
  <2> QED
    BY <2>2, <2>4
<1>9. Continues(fds[c], fds'[c], from, to - from)
  BY <1>7, <1>8, Consecutive
<1>10. RunFrom(fds'[c], q, count + (to - from))
  <2>1. /\ fds'[c] \in Seq(Nat) /\ Len(fds'[c]) = count + (to - from)
        /\ \A i \in 1..count : fds'[c][i] = fds[c][i] /\ fds[c][i] = q + i
        /\ \A i \in 1..(to - from) : fds'[c][count + i] = from + i
    BY <1>3, <1>9 DEF Continues, RunFrom
  <2>2. ASSUME NEW i \in 1..(count + (to - from)) PROVE fds'[c][i] = q + i
    <3>1. CASE i =< count
      BY <2>1, <3>1
    <3>2. CASE ~(i =< count)
      <4>1. PICK j \in 1..(to - from) : i = count + j
        <5>1. i - count \in 1..(to - from) /\ i = count + (i - count)
          BY <3>2
        <5> QED
          BY <5>1
      <4>2. from + j = q + i
        BY <1>8, <4>1
      <4> QED
        BY <2>1, <4>1, <4>2
    <3> QED
      BY <3>1, <3>2
  <2>3. DOMAIN fds'[c] = 1..(count + (to - from))
    BY <2>1
  <2> QED
    BY <2>1, <2>2, <2>3 DEF RunFrom
<1>11. NextFd(c)' = q + (count + (to - from))
  <2>1. to = q + (count + (to - from))
    BY <1>8
  <2> QED
    BY <1>4, <1>5, <2>1
<1>12. FdUpto(c, k)' = q /\ Len(log'[c]) = k
  BY <1>1, <1>3 DEF FdUpto
<1>13. count + (to - from) \in Nat
  BY <1>8
<1> QED
  BY <1>10, <1>11, <1>12, <1>13, QueueFrom

LEMMA QueueHandles ==
  ASSUME KernelSide, RightsTypes, OutcomeTypes, ThreadInv, NEW c \in Conn, NEW fate,
         Handle(c, fate), StreamInv(c), QueueInv(c), MessageInv
  PROVE  QueueInv(c)'
<1>1. /\ step = "handle" /\ c = input.conn
      /\ UNCHANGED <<messages, completions, passed>>
      /\ Needed(message.header) =< Len(fds[c])
      /\ fds' = [fds EXCEPT ![c] =
                   SubSeq(fds[c], Needed(message.header) + 1, Len(fds[c]))]
      /\ \E entry : log' = [log EXCEPT ![c] = Append(log[c], entry)]
  BY DEF Handle, Takes, peer, kernel
<1>2. Live(c) /\ Handling(c)
  BY <1>1 DEF Live, Dispatching, Handling, Inside
<1>3. PICK k \in Nat, q \in Nat, count \in Nat :
        /\ k = Len(log[c]) /\ k =< Len(messages[c])
        /\ q = FdUpto(c, k) /\ RunFrom(fds[c], q, count) /\ NextFd(c) = q + count
        /\ Framed(c) = k + 1 /\ k < Len(messages[c])
  BY <1>2, QueueNow DEF KernelSide
<1>4. message.header = messages[c][k + 1]
  BY <1>1, <1>3 DEF MessageInv
<1>5. k + 1 \in DOMAIN messages[c] /\ FdUpto(c, k + 1) = q + Needed(messages[c][k + 1])
  BY <1>3, Places DEF KernelSide
<1>6. PICK n \in Nat : n = Needed(messages[c][k + 1])
  BY <1>5, MessageFields DEF KernelSide
<1>7. fds[c] \in Seq(Nat) /\ Len(fds[c]) = count /\ n =< count
        /\ fds'[c] = SubSeq(fds[c], n + 1, count)
        /\ \A i \in 1..count : fds[c][i] = q + i
  BY <1>1, <1>3, <1>4, <1>6 DEF RightsTypes, RunFrom
<1>8. /\ Len(fds'[c]) = count - n /\ DOMAIN fds'[c] = 1..(count - n)
      /\ \A i \in 1..(count - n) : fds'[c][i] = fds[c][n + i]
  BY <1>7
<1>9. RunFrom(fds'[c], q + n, count - n)
  <2>1. ASSUME NEW i \in 1..(count - n) PROVE fds'[c][i] = (q + n) + i
    <3>1. n + i \in 1..count /\ q + (n + i) = (q + n) + i
      <4>1. n =< count
        BY <1>7
      <4> QED
        BY <4>1
    <3>2. fds[c][n + i] = q + (n + i)
      BY <1>7, <3>1
    <3> QED
      BY <1>8, <3>1, <3>2
  <2> QED
    BY <1>8, <2>1 DEF RunFrom
<1>10. Len(log'[c]) = k + 1
  <2>1. PICK entry : log' = [log EXCEPT ![c] = Append(log[c], entry)]
    BY <1>1
  <2>2. log'[c] = Append(log[c], entry) /\ log[c] \in Seq(Entry)
    BY <2>1 DEF OutcomeTypes
  <2> QED
    BY <1>3, <2>2
<1>11. FdUpto(c, k + 1)' = q + n
  BY <1>1, <1>5, <1>6 DEF FdUpto
<1>12. NextFd(c)' = (q + n) + (count - n) /\ q + n \in Nat /\ count - n \in Nat /\ k + 1 \in Nat
  <2>1. q + count = (q + n) + (count - n) /\ q + n \in Nat /\ count - n \in Nat
    BY <1>7
  <2> QED
    BY <1>1, <1>3, <2>1 DEF NextFd
<1> QED
  BY <1>9, <1>10, <1>11, <1>12, QueueFrom

LEMMA LiveKept ==
  ASSUME ThreadInv, ThreadInv', NEW c \in Conn, StreamSame(c), Live(c)' PROVE Live(c)
<1>1. CASE UNCHANGED <<step, input>>
  BY <1>1 DEF StreamSame, Live, Dispatching
<1>2. CASE ~Owns(c) /\ ~Owns(c)'
  <2>1. Live(c)' <=> phase'[c] = "open"
    BY <1>2 DEF ThreadInv, Dispatching, Live, Owns, Inside
  <2> QED
    BY <1>2, <2>1, OwnersDispatch DEF StreamSame
<1> QED
  BY <1>1, <1>2 DEF StreamSame

LEMMA QueueStays ==
  ASSUME KernelSide, RightsTypes, FramerTypes, ThreadTypes, OutcomeTypes, MemoryTypes,
         ThreadInv, ThreadInv', FitsInv, LeaseInv, LeaseInv', FragmentFits, BufferInv,
         MessageInv, Next, \A c \in Conn : StreamInv(c) /\ QueueInv(c), NEW c \in Conn
  PROVE  QueueInv(c)'
<1>1. PeerSide /\ KernelTypes /\ KernelInv(c) /\ StreamInv(c) /\ QueueInv(c)
  BY DEF KernelSide
<1>2. ASSUME fds'[c] = fds[c], StreamSame(c), NextFd(c)' = NextFd(c)
      PROVE  QueueInv(c)'
  <2>1. QueueSame(c)
    BY <1>2, LiveKept DEF QueueSame, StreamSame
  <2> QED
    BY <1>1, <2>1, QueueKept
<1>3. ASSUME phase'[c] # "open", step' \notin Inside PROVE QueueInv(c)'
  BY <1>3 DEF QueueInv, Live, Dispatching
<1>4. CASE PeerOrKernel
  BY <1>2, <1>4, StreamQuiet, NextKept, PeerOrKernelStays
<1>5. CASE Release
  <2>1. UNCHANGED <<log, fds, phase, completions, passed>> /\ step' = "idle"
    BY <1>5 DEF Release, rights, outcome
  <2>2. Live(c)' => Live(c)
    BY <2>1 DEF Live, Dispatching, Inside
  <2>3. QueueSame(c)
    BY <2>1, <2>2 DEF QueueSame, NextFd
  <2> QED
    BY <1>1, <2>3, QueueKept
<1>6. ASSUME NEW d \in Conn, BeginClose(d) PROVE QueueInv(c)'
  <2>1. UNCHANGED <<log, fds, step, input, completions, passed>>
          /\ phase' = [phase EXCEPT ![d] = "closing"]
    BY <1>6 DEF BeginClose, rights, kernel, thread
  <2>2. Live(c)' => Live(c)
    BY <2>1 DEF Live, Dispatching, RightsTypes
  <2>3. QueueSame(c)
    BY <2>1, <2>2 DEF QueueSame, NextFd
  <2> QED
    BY <1>1, <2>3, QueueKept
<1>7. ASSUME NEW d \in Conn \ {c}, Completes(d) \/ Frames(d) \/ Dispatches(d) \/ Destroy(d)
      PROVE  QueueInv(c)'
  <2>1. StreamSame(c)
    BY <1>7, StreamOthers
  <2>2. fds'[c] = fds[c] /\ completions'[c] = completions[c] /\ passed'[c] = passed[c]
    <3>1. CASE Completes(d)
      BY <3>1 DEF Completes, Disconnected, Refused, Ingest, Discard, Dropped, rights,
                  RightsTypes, KernelSide, KernelTypes
    <3>2. CASE Frames(d)
      BY <3>2 DEF Frames, ReleaseLease, Borrow, Drained, Fragment, FillHeader, FillBody,
                  Garbled, MessageTooLarge, Terminal, rights, kernel
    <3>3. CASE Dispatches(d)
      BY <3>3 DEF Dispatches, Handle, HandlerFails, Rejects, Empty, Takes, Terminal, rights,
                  kernel, RightsTypes
    <3>4. CASE Destroy(d)
      BY <3>4 DEF Destroy, kernel, RightsTypes
    <3> QED
      BY <1>7, <3>1, <3>2, <3>3, <3>4
  <2> QED
    BY <1>2, <2>1, <2>2 DEF NextFd
<1>8. CASE Completes(c)
  <2>1. CASE Ingest(c)
    BY <1>1, <2>1, QueueIngests
  <2>2. CASE Disconnected(c) \/ Refused(c) \/ Discard(c)
    <3>1. step' = "idle" /\ (Ends(c) \/ phase'[c] = "closing")
      BY <2>2 DEF Disconnected, Refused, Discard, Pending, Fails, thread, outcome
    <3>2. phase'[c] # "open"
      BY <3>1, EndsPhase DEF RightsTypes
    <3> QED
      BY <1>3, <3>1, <3>2 DEF Inside
  <2> QED
    BY <1>8, <2>1, <2>2 DEF Completes
<1>9. CASE Frames(c)
  <2>1. Live(c) /\ UNCHANGED <<log, completions>>
    BY <1>9, FramerRuns
  <2>2. UNCHANGED <<fds, passed>>
    BY <1>9 DEF Frames, ReleaseLease, Borrow, Drained, Fragment, FillHeader, FillBody,
                Garbled, MessageTooLarge, Terminal, rights, kernel
  <2>3. QueueSame(c)
    BY <2>1, <2>2 DEF QueueSame, NextFd
  <2> QED
    BY <1>1, <2>3, QueueKept
<1>10. CASE Dispatches(c)
  <2>1. ASSUME NEW fate, Handle(c, fate) PROVE QueueInv(c)'
    BY <1>1, <2>1, QueueHandles
  <2>2. CASE HandlerFails(c) \/ Rejects(c) \/ Empty(c)
    <3>1. step' = "release" /\ Ends(c)
      BY <2>2 DEF HandlerFails, Rejects, Empty, Terminal, Fails
    <3>2. phase'[c] # "open"
      BY <3>1, EndsPhase DEF RightsTypes
    <3> QED
      BY <1>3, <3>1, <3>2 DEF Inside
  <2> QED
    BY <1>10, <2>1, <2>2 DEF Dispatches
<1>11. CASE Destroy(c)
  <2>1. step' = "idle" /\ phase'[c] = "gone"
    BY <1>11 DEF Destroy, thread, RightsTypes
  <2> QED
    BY <1>3, <2>1 DEF Inside
<1> QED
  <2>1. \/ PeerOrKernel \/ Release \/ \E d \in Conn : BeginClose(d)
        \/ \E d \in Conn : Completes(d) \/ Frames(d) \/ Dispatches(d) \/ Destroy(d)
    BY DEF Next, PeerOrKernel
  <2> QED
    BY <2>1, <1>4, <1>5, <1>6, <1>7, <1>8, <1>9, <1>10, <1>11

-----------------------------------------------------------------------------
(* The rest of the types. *)

LEMMA PhasesStay == ASSUME phase \in [Conn -> Phase], Next PROVE phase' \in [Conn -> Phase]
<1>1. CASE phase' = phase
  BY <1>1
<1>2. ASSUME NEW c \in Conn, Ends(c) PROVE phase' \in [Conn -> Phase]
  BY <1>2, EndsPhase
<1>3. ASSUME NEW c \in Conn, NEW p \in Phase, phase' = [phase EXCEPT ![c] = p]
      PROVE  phase' \in [Conn -> Phase]
  BY <1>3
<1>4. CASE PeerOrKernel \/ Release
  BY <1>1, <1>4, PeerOrKernelStays DEF Release, outcome
<1>5. ASSUME NEW c \in Conn, Completes(c) PROVE phase' \in [Conn -> Phase]
  BY <1>1, <1>2, <1>5 DEF Completes, Disconnected, Refused, Fails, Ingest, Discard, outcome
<1>6. ASSUME NEW c \in Conn, Frames(c) PROVE phase' \in [Conn -> Phase]
  BY <1>1, <1>2, <1>6 DEF Frames, ReleaseLease, Borrow, Drained, Fragment, FillHeader, FillBody,
                          Garbled, MessageTooLarge, Terminal, Fails, outcome
<1>7. ASSUME NEW c \in Conn, Dispatches(c) PROVE phase' \in [Conn -> Phase]
  BY <1>1, <1>2, <1>7 DEF Dispatches, Handle, HandlerFails, Rejects, Empty, Terminal, Fails
<1>8. ASSUME NEW c \in Conn, BeginClose(c) \/ Destroy(c) PROVE phase' \in [Conn -> Phase]
  BY <1>3, <1>8 DEF BeginClose, Destroy, Phase
<1> QED
  BY <1>4, <1>5, <1>6, <1>7, <1>8 DEF Next, PeerOrKernel

LEMMA ArmedStays ==
  ASSUME armed \in [Conn -> BOOLEAN], Next PROVE armed' \in [Conn -> BOOLEAN]
<1>1. CASE armed' = armed
  BY <1>1
<1>2. ASSUME NEW c \in Conn, armed' = [armed EXCEPT ![c] = FALSE]
      PROVE  armed' \in [Conn -> BOOLEAN]
  BY <1>2
<1>3. ASSUME NEW c \in Conn, KernelEnds(c) \/ KernelCancels(c)
      PROVE  armed' \in [Conn -> BOOLEAN]
  BY <1>2, <1>3 DEF KernelEnds, KernelCancels
<1>4. ASSUME NEW c \in Conn, Sends(c) \/ Hangup(c) \/ Receives(c) PROVE armed' = armed
  BY <1>4 DEF Sends, Send, Hangup, Receives, KernelReceives, kernel
<1>5. ASSUME NEW c \in Conn, NEW size \in Size, NEW count \in Rights, Write(c, size, count)
      PROVE  armed' = armed
  BY <1>5 DEF Write, kernel
<1>6. ASSUME NEW c \in Conn, Completes(c) PROVE armed' = armed
  BY <1>6 DEF Completes, Disconnected, Refused, Ingest, Discard
<1>7. ASSUME NEW c \in Conn, Frames(c) PROVE armed' = armed
  BY <1>7 DEF Frames, ReleaseLease, Borrow, Drained, Fragment, FillHeader, FillBody,
              Garbled, MessageTooLarge, Terminal, kernel
<1>8. ASSUME NEW c \in Conn, Dispatches(c) \/ BeginClose(c) \/ Destroy(c) PROVE armed' = armed
  BY <1>8 DEF Dispatches, Handle, HandlerFails, Rejects, Empty, Terminal, BeginClose, Destroy,
              kernel
<1>9. CASE Release
  BY <1>1, <1>9 DEF Release
<1> QED
  BY <1>1, <1>3, <1>4, <1>5, <1>6, <1>7, <1>8, <1>9 DEF Next

LEMMA CountedTypes ==
  ASSUME RightsTypes, NEW c \in Conn, NEW first, NEW last
  PROVE  Counted(released[c], first, last) \in [Fd(c) -> Nat]
<1>1. released[c] \in [Fd(c) -> Nat]
  BY DEF RightsTypes
<1> QED
  BY <1>1 DEF Counted

FdTypes ==
  /\ fds \in [Conn -> Seq(Nat)]
  /\ DOMAIN released = Conn /\ \A c \in Conn : released[c] \in [Fd(c) -> Nat]

LEMMA FdTypesStay ==
  ASSUME KernelSide, RightsTypes, HeaderInv, step = "handle" => message # None, Next
  PROVE  FdTypes'
<1>1. ASSUME NEW c \in Conn, NEW s \in Seq(Nat), NEW g \in [Fd(c) -> Nat],
             fds' = fds \/ fds' = [fds EXCEPT ![c] = s],
             released' = released \/ released' = [released EXCEPT ![c] = g]
      PROVE  FdTypes'
  BY <1>1 DEF RightsTypes, FdTypes
<1>2. ASSUME NEW c \in Conn PROVE fds[c] \in Seq(Nat) /\ released[c] \in [Fd(c) -> Nat]
  BY DEF RightsTypes
<1>3. CASE UNCHANGED <<fds, released>>
  BY <1>3 DEF RightsTypes, FdTypes
<1>4. ASSUME NEW c \in Conn, Receives(c) PROVE FdTypes'
  <2>1. PICK b \in Buffer, upto \in 1..MaxBytes[c], last \in 0..MaxFds[c] :
          KernelReceives(c, b, upto, last)
    BY <1>4 DEF Receives
  <2>2. PICK g : /\ fds' = fds /\ released' = [released EXCEPT ![c] = g]
                 /\ \E first : g = Counted(released[c], first, last)
    BY <2>1 DEF KernelReceives
  <2>3. g \in [Fd(c) -> Nat] /\ fds[c] \in Seq(Nat)
    BY <1>2, <2>2, CountedTypes
  <2> QED
    BY <1>1, <2>2, <2>3
<1>5. ASSUME NEW c \in Conn, Completes(c) PROVE FdTypes'
  <2>1. CASE Disconnected(c)
    BY <1>3, <2>1 DEF Disconnected, rights
  <2>2. CASE Refused(c) \/ Discard(c)
    <3>1. PICK g : /\ fds' = fds /\ released' = [released EXCEPT ![c] = g]
                   /\ \E k : g = Counted(released[c], k.fdFrom, k.fdTo)
      BY <2>2 DEF Refused, Discard, ClosesRights
    <3>2. PICK k : g = Counted(released[c], k.fdFrom, k.fdTo)
      BY <3>1
    <3>3. PICK first : first = k.fdFrom
      OBVIOUS
    <3>4. PICK last : last = k.fdTo
      OBVIOUS
    <3>5. g = Counted(released[c], first, last)
      BY <3>2, <3>3, <3>4
    <3>6. g \in [Fd(c) -> Nat] /\ fds[c] \in Seq(Nat)
      BY <1>2, <3>5, CountedTypes
    <3> QED
      BY <1>1, <3>1, <3>6
  <2>3. CASE Ingest(c)
    <3>1. Head(completions[c]) \in Cqe
      BY <2>3 DEF Ingest, Pending, KernelSide, KernelTypes
    <3>2. PICK from \in Nat : from = Head(completions[c]).fdFrom
      BY <3>1 DEF Cqe
    <3>4. PICK to \in Nat : to = Head(completions[c]).fdTo
      BY <3>1 DEF Cqe
    <3>5. PICK count \in Int : count = to - from
      OBVIOUS
    <3>6. released' = released /\ fds' = [fds EXCEPT ![c] = fds[c] \o
                                            [i \in 1..count |-> from + i]]
      BY <2>3, <3>2, <3>4, <3>5 DEF Ingest
    <3>3. fds[c] \o [i \in 1..count |-> from + i] \in Seq(Nat)
      <4>1. CASE count \in Nat
        BY <1>2, <4>1
      <4>2. CASE count \notin Nat
        <5>1. [i \in 1..count |-> from + i] = <<>>
          BY <4>2
        <5> QED
          BY <1>2, <5>1
      <4> QED
        BY <4>1, <4>2
    <3> QED
      BY <1>1, <1>2, <3>3, <3>6
  <2> QED
    BY <1>5, <2>1, <2>2, <2>3 DEF Completes
<1>6. ASSUME NEW c \in Conn, NEW fate, Takes(c, fate) PROVE FdTypes'
  <2>1. PICK n \in Nat : n = Needed(message.header)
    BY <1>6, NeededIsNumber DEF Takes, KernelSide
  <2>2. /\ fds' = [fds EXCEPT ![c] = SubSeq(fds[c], n + 1, Len(fds[c]))]
        /\ released' = [released EXCEPT ![c] =
             [f \in DOMAIN released[c] |->
                IF \E i \in 1..n : fds[c][i] = f THEN released[c][f] + 1
                                                 ELSE released[c][f]]]
    BY <1>6, <2>1 DEF Takes
  <2>3. SubSeq(fds[c], n + 1, Len(fds[c])) \in Seq(Nat)
    BY <1>2
  <2>4. [f \in DOMAIN released[c] |->
           IF \E i \in 1..n : fds[c][i] = f THEN released[c][f] + 1 ELSE released[c][f]]
          \in [Fd(c) -> Nat]
    BY <1>2
  <2> QED
    BY <1>1, <2>2, <2>3, <2>4
<1>7. ASSUME NEW c \in Conn, Dispatches(c) PROVE FdTypes'
  BY <1>3, <1>6, <1>7 DEF Dispatches, Handle, HandlerFails, Rejects, Empty, rights
<1>8. ASSUME NEW c \in Conn, Destroy(c) PROVE FdTypes'
  <2>1. /\ fds' = [fds EXCEPT ![c] = <<>>]
        /\ released' = [released EXCEPT ![c] =
             [f \in DOMAIN released[c] |->
                IF \E i \in DOMAIN fds[c] : fds[c][i] = f THEN released[c][f] + 1
                                                          ELSE released[c][f]]]
    BY <1>8 DEF Destroy
  <2>2. <<>> \in Seq(Nat)
    OBVIOUS
  <2>3. [f \in DOMAIN released[c] |->
           IF \E i \in DOMAIN fds[c] : fds[c][i] = f THEN released[c][f] + 1
                                                     ELSE released[c][f]]
          \in [Fd(c) -> Nat]
    BY <1>2
  <2> QED
    BY <1>1, <2>1, <2>2, <2>3
<1>9. ASSUME NEW c \in Conn, Frames(c) PROVE FdTypes'
  BY <1>3, <1>9 DEF Frames, ReleaseLease, Borrow, Drained, Fragment, FillHeader, FillBody,
              Garbled, MessageTooLarge, rights
<1>10. ASSUME NEW c \in Conn, Sends(c) \/ Hangup(c) \/ KernelEnds(c) \/ KernelCancels(c)
                                \/ BeginClose(c)
       PROVE  FdTypes'
  BY <1>3, <1>10 DEF Sends, Send, Hangup, KernelEnds, KernelCancels, BeginClose, rights
<1>11. ASSUME NEW c \in Conn, NEW size \in Size, NEW count \in Rights, Write(c, size, count)
       PROVE  FdTypes'
  BY <1>3, <1>11 DEF Write, rights
<1>12. CASE Release
  BY <1>3, <1>12 DEF Release, rights
<1> QED
  BY <1>4, <1>5, <1>7, <1>8, <1>9, <1>10, <1>11, <1>12 DEF Next

LEMMA RightsTypesStay ==
  ASSUME KernelSide, RightsTypes, HeaderInv, step = "handle" => message # None, Next
  PROVE  RightsTypes'
BY FdTypesStay, PhasesStay, ArmedStays DEF RightsTypes, FdTypes

\* What a step of the framer leaves of the payload and yields.
LEMMA ThreadTypesStay ==
  ASSUME KernelSide, FramerTypes, ThreadTypes, ThreadInv, FitsInv, LeaseInv, FragmentFits, Next
  PROVE  ThreadTypes'
<1>1. ASSUME UNCHANGED <<input, message>>, step' \in Step PROVE ThreadTypes'
  BY <1>1 DEF ThreadTypes
<1>2. ASSUME step' \in Step, input' = None, message' = message PROVE ThreadTypes'
  BY <1>2 DEF ThreadTypes
<1>3. ASSUME UNCHANGED input, message' = None, step' \in Step PROVE ThreadTypes'
  BY <1>3 DEF ThreadTypes
<1>4. ASSUME step # "idle", NEW count \in Nat, count =< Rest,
             input' = [input EXCEPT !.at = @ + count],
             message' \in Slice \cup {None}, step' \in Step
      PROVE  ThreadTypes'
  <2>1. /\ input' \in Payload /\ input'.end = input.end /\ input'.at =< input'.end
    BY <1>4, ConsumedInput
  <2>2. input.end =< BufferSize
    BY <1>4, BusyHasInput
  <2> QED
    BY <1>4, <2>1, <2>2 DEF ThreadTypes
<1>5. CASE PeerOrKernel
  BY <1>1, <1>5, PeerOrKernelStays DEF thread, ThreadTypes
<1>6. ASSUME NEW c \in Conn, Ingest(c) PROVE ThreadTypes'
  <2>1. /\ completions[c] # <<>> /\ Head(completions[c]) = completions[c][1] /\ Leaves(c)
    BY <1>6 DEF Ingest, Pending, Dropped, Leaves, peer, KernelSide, KernelTypes
  <2>2. completions[c][1] \in Cqe /\ WellFormed(completions[c][1])
          /\ ~IsEnd(completions[c][1])
    BY <1>6, <2>1, LeavingKernel DEF KernelSide, CqeInv, Ingest
  <2>3. PICK from \in Nat, to \in Nat : /\ completions[c][1].from = from
                                       /\ completions[c][1].to = to
    BY <2>2 DEF Cqe
  <2>4. from < to /\ to =< from + BufferSize /\ completions[c][1].buffer \in Buffer
    BY <2>2, <2>3 DEF WellFormed, IsEnd, Cqe
  <2>5. to - from \in Nat /\ to - from =< BufferSize /\ 0 \in Nat /\ 0 =< to - from
    BY <2>4, SizesAssumption
  <2>6. input' = [conn |-> c, buffer |-> completions[c][1].buffer, at |-> 0, end |-> to - from]
    BY <1>6, <2>1, <2>3 DEF Ingest
  <2>7. input' \in Payload /\ input'.at = 0 /\ input'.end = to - from
    BY <2>4, <2>5, <2>6 DEF Payload
  <2>8. step' \in Step /\ message' = message
    BY <1>6 DEF Ingest, Step
  <2> QED
    BY <2>5, <2>7, <2>8 DEF ThreadTypes
<1>7. ASSUME NEW c \in Conn, Disconnected(c) \/ Refused(c) \/ Discard(c) PROVE ThreadTypes'
  BY <1>1, <1>7 DEF Disconnected, Refused, Discard, thread, ThreadTypes
<1>8. CASE Release
  BY <1>2, <1>8 DEF Release, Step
<1>9. ASSUME NEW c \in Conn, Frames(c) PROVE ThreadTypes'
  <2>1. CASE ReleaseLease(c) \/ Drained(c)
    BY <1>1, <2>1 DEF ReleaseLease, Drained, thread, ThreadTypes, Step
  <2>2. CASE Garbled(c) \/ MessageTooLarge(c)
    BY <1>3, <2>2 DEF Garbled, MessageTooLarge, Terminal, Step
  <2>3. CASE Borrow(c)
    <3>1. PICK m \in Headers(input.buffer, input.at) :
            /\ Length(m) =< Rest /\ Yields(m, input.buffer, input.at)
            /\ input' = [input EXCEPT !.at = @ + Length(m)]
      BY <2>3 DEF Borrow
    <3>2. m \in Posting /\ Length(m) \in Nat
      BY HeadersAreMessages DEF KernelSide
    <3>3. step # "idle" /\ input.buffer \in Buffer /\ input.at \in Nat
      BY <2>3, BusyHasInput DEF Borrow, Fresh
    <3>4. [header |-> m, area |-> input.buffer, at |-> input.at] \in Slice
      BY <3>2, <3>3 DEF Slice, Area
    <3> QED
      BY <1>4, <3>1, <3>2, <3>3, <3>4 DEF Yields, Step
  <2>4. CASE Fragment(c) \/ FillHeader(c) \/ FillBody(c)
    <3>1. step # "idle" /\ scratch'[c] \in Area
            /\ \E count \in Nat : count =< Rest /\ Copy(c, count)
      BY <2>4, Copies DEF KernelSide
    <3>2. PICK count \in Nat : count =< Rest /\ Copy(c, count)
      BY <3>1
    <3>3. step' \in Step
      BY <2>4 DEF Fragment, FillHeader, FillBody, Yields, Step
    <3>4. message' \in Slice \cup {None}
      <4>1. CASE message' = message
        BY <4>1 DEF ThreadTypes
      <4>2. CASE \E m \in Headers(scratch[c], 0) : Yields(m, scratch'[c], 0)
        <5>1. PICK m \in Headers(scratch[c], 0) : Yields(m, scratch'[c], 0)
          BY <4>2
        <5>2. m \in Posting
          BY HeadersAreMessages DEF KernelSide
        <5> QED
          BY <3>1, <5>1, <5>2 DEF Yields, Slice
      <4> QED
        BY <2>4, <4>1, <4>2 DEF Fragment, FillHeader, FillBody
    <3> QED
      BY <1>4, <3>1, <3>2, <3>3, <3>4 DEF Copy
  <2> QED
    BY <1>9, <2>1, <2>2, <2>3, <2>4 DEF Frames
<1>10. ASSUME NEW c \in Conn, Dispatches(c) PROVE ThreadTypes'
  BY <1>3, <1>10 DEF Dispatches, Handle, HandlerFails, Takes, Rejects, Empty, Terminal, Step
<1>11. ASSUME NEW c \in Conn, BeginClose(c) \/ Destroy(c) PROVE ThreadTypes'
  BY <1>1, <1>11 DEF BeginClose, Destroy, thread, ThreadTypes
<1> QED
  BY <1>5, <1>6, <1>7, <1>8, <1>9, <1>10, <1>11 DEF Next, PeerOrKernel, Completes

LEMMA MemoryTypesStay ==
  ASSUME KernelSide, FramerTypes, ThreadTypes, MemoryTypes, ThreadInv, FitsInv, LeaseInv,
         FragmentFits, Next
  PROVE  MemoryTypes'
<1>1. CASE UNCHANGED <<memory, ring>>
  BY <1>1 DEF MemoryTypes
<1>2. ASSUME UNCHANGED memory, NEW b, ring' = [ring EXCEPT ![b] = @ + 1]
      PROVE  MemoryTypes'
  <2>1. CASE b \in Buffer
    <3>1. ring[b] \in Nat /\ ring \in [Buffer -> Nat]
      BY <2>1 DEF MemoryTypes
    <3>2. ring[b] + 1 \in Nat
      BY <3>1
    <3>3. ring' \in [Buffer -> Nat]
      BY <1>2, <2>1, <3>1, <3>2
    <3> QED
      BY <1>2, <3>3 DEF MemoryTypes
  <2>2. CASE b \notin Buffer
    <3>1. ring' = ring
      BY <1>2, <2>2 DEF MemoryTypes
    <3> QED
      BY <1>2, <3>1 DEF MemoryTypes
  <2> QED
    BY <2>1, <2>2
<1>3. ASSUME NEW c \in Conn, Receives(c) PROVE MemoryTypes'
  <2>1. PICK b \in Buffer, upto \in 1..MaxBytes[c], last \in 0..MaxFds[c] :
          KernelReceives(c, b, upto, last)
    BY <1>3 DEF Receives
  <2>2. read[c] \in Nat /\ b \in Area /\ ring[b] \in Nat /\ memory[b] \in [1..AreaSize(b) -> Byte]
    BY DEF KernelSide, KernelTypes, MemoryTypes, Area
  <2>3. ring' \in [Buffer -> Nat]
    <3>1. ring[b] - 1 \in Nat /\ ring' = [ring EXCEPT ![b] = ring[b] - 1]
      BY <2>1, <2>2 DEF KernelReceives
    <3> QED
      BY <3>1 DEF MemoryTypes
  <2>4. memory' = [memory EXCEPT ![b] =
          [i \in DOMAIN memory[b] |-> IF i =< upto - read[c] THEN <<c, read[c] + i>>
                                                            ELSE memory[b][i]]]
    BY <2>1 DEF KernelReceives
  <2>5. [i \in DOMAIN memory[b] |-> IF i =< upto - read[c] THEN <<c, read[c] + i>>
                                                          ELSE memory[b][i]]
          \in [1..AreaSize(b) -> Byte]
    <3>1. AreaSize(b) \in Nat
      BY <2>2, Sizes
    <3>2. \A i \in 1..AreaSize(b) : read[c] + i \in Nat /\ memory[b][i] \in Byte
      BY <2>2, <3>1
    <3> QED
      BY <2>2, <3>2 DEF Byte
  <2>6. DOMAIN memory' = Area /\ \A a \in Area : memory'[a] \in [1..AreaSize(a) -> Byte]
    BY <2>2, <2>4, <2>5 DEF MemoryTypes
  <2> QED
    BY <2>3, <2>6 DEF MemoryTypes
<1>4. ASSUME NEW c \in Conn, Completes(c) PROVE MemoryTypes'
  BY <1>1, <1>2, <1>4 DEF Completes, Disconnected, Refused, Ingest, Discard, ClosesRights
<1>5. ASSUME NEW c \in Conn, Frames(c) PROVE MemoryTypes'
  <2>1. CASE Fragment(c) \/ FillHeader(c) \/ FillBody(c)
    <3>1. /\ step # "idle" /\ ring' = ring
          /\ \E count \in Nat : /\ count =< Rest /\ Copy(c, count)
                                /\ scratch'[c] \in Area
                                /\ buffered[c] + count =< Capacity(scratch'[c])
      BY <2>1, Copies DEF KernelSide
    <3> QED
      BY <3>1, CopyMoves
  <2> QED
    BY <1>1, <1>5, <2>1 DEF Frames, ReleaseLease, Borrow, Drained, Garbled, MessageTooLarge,
                            Terminal, kernel
<1>6. ASSUME NEW c \in Conn, Dispatches(c) \/ BeginClose(c) \/ Destroy(c) PROVE MemoryTypes'
  BY <1>1, <1>6 DEF Dispatches, Handle, HandlerFails, Rejects, Empty, Terminal, BeginClose,
                    Destroy, kernel
<1>7. ASSUME NEW c \in Conn, Sends(c) \/ Hangup(c) \/ KernelCancels(c)
      PROVE  MemoryTypes'
  BY <1>1, <1>7 DEF Sends, Send, Hangup, KernelCancels, kernel
<1>10. ASSUME NEW c \in Conn, KernelEnds(c) PROVE MemoryTypes'
  <2>1. memory' = memory
    BY <1>10 DEF KernelEnds
  <2>2. ring' \in [Buffer -> Nat]
    <3>1. PICK b \in Buffer \cup {None} :
            /\ b # None => ring[b] > 0
            /\ ring' = IF b = None THEN ring ELSE [ring EXCEPT ![b] = ring[b] - 1]
      BY <1>10 DEF KernelEnds
    <3>2. CASE b = None
      BY <3>1, <3>2 DEF MemoryTypes
    <3>3. CASE b # None
      <4>1. ring[b] \in Nat /\ ring[b] > 0
        BY <3>1, <3>3 DEF MemoryTypes
      <4>2. ring[b] - 1 \in Nat
        BY <4>1
      <4> QED
        BY <3>1, <3>3, <4>2 DEF MemoryTypes
    <3> QED
      BY <3>2, <3>3
  <2> QED
    BY <2>1, <2>2 DEF MemoryTypes
<1>8. ASSUME NEW c \in Conn, NEW size \in Size, NEW count \in Rights, Write(c, size, count)
      PROVE  MemoryTypes'
  BY <1>1, <1>8 DEF Write, kernel
<1>9. CASE Release
  BY <1>2, <1>9 DEF Release
<1> QED
  BY <1>3, <1>4, <1>5, <1>6, <1>7, <1>8, <1>9, <1>10 DEF Next

-----------------------------------------------------------------------------
(* What is handed over. *)

\* The content of a message, as it is handed over.
LEMMA ContentTypes ==
  ASSUME PeerSide, NEW c \in Conn, NEW i \in DOMAIN messages[c]
  PROVE  Content(messages[c][i]) \in [bytes : Seq(Byte), fds : Seq(Nat)]
<1>1. PICK m : m = messages[c][i]
  OBVIOUS
<1>2. PICK from \in Nat, first \in Nat, size \in Nat, count \in Nat :
        from = m.from /\ first = m.fdFrom /\ size = Length(m) /\ count = Needed(m)
        /\ m.peer = c
  BY <1>1, MessageFields
<1>3. Content(m) = [bytes |-> [j \in 1..size |-> <<c, from + j>>],
                    fds |-> [j \in 1..count |-> first + j]]
  BY <1>2 DEF Content
<1>4. [j \in 1..size |-> <<c, from + j>>] \in Seq(Byte)
  <2>1. \A j \in 1..size : <<c, from + j>> \in Byte
    BY <1>2 DEF Byte
  <2> QED
    BY <1>2, <2>1
<1>5. [j \in 1..count |-> first + j] \in Seq(Nat)
  <2>1. \A j \in 1..count : first + j \in Nat
    BY <1>2
  <2> QED
    BY <1>2, <2>1
<1>6. PICK bytes \in Seq(Byte) : bytes = [j \in 1..size |-> <<c, from + j>>]
  BY <1>4
<1>7. PICK numbers \in Seq(Nat) : numbers = [j \in 1..count |-> first + j]
  BY <1>5
<1>8. Content(m) = [bytes |-> bytes, fds |-> numbers]
  BY <1>3, <1>6, <1>7
<1>9. [bytes |-> bytes, fds |-> numbers] \in [bytes : Seq(Byte), fds : Seq(Nat)]
  OBVIOUS
<1> QED
  BY <1>1, <1>8, <1>9

\* The message that leaves the receive side.
Taken(c) ==
  [bytes |-> [i \in 1..Length(message.header) |-> memory[message.area][message.at + i]],
   fds |-> SubSeq(fds[c], 1, Needed(message.header))]

\* It is the oldest that was not handed over.
LEMMA TakesNext ==
  ASSUME KernelSide, RightsTypes, OutcomeTypes, ThreadInv, NEW c \in Conn, NEW fate,
         Takes(c, fate), StreamInv(c), QueueInv(c), MessageInv
  PROVE  \E k \in Nat :
           /\ k = Len(log[c]) /\ k < Len(messages[c]) /\ k + 1 \in DOMAIN messages[c]
           /\ Taken(c) = Content(messages[c][k + 1])
           /\ log' = [log EXCEPT ![c] = Append(log[c],
                [message |-> Content(messages[c][k + 1]), outcome |-> fate])]
<1>1. /\ step = "handle" /\ c = input.conn
      /\ Needed(message.header) =< Len(fds[c])
      /\ log' = [log EXCEPT ![c] = Append(log[c], [message |-> Taken(c), outcome |-> fate])]
  BY DEF Takes, Taken
<1>2. Live(c) /\ Handling(c)
  BY <1>1 DEF Live, Dispatching, Handling, Inside
<1>3. PICK k \in Nat, q \in Nat, count \in Nat :
        /\ k = Len(log[c]) /\ k =< Len(messages[c])
        /\ q = FdUpto(c, k) /\ RunFrom(fds[c], q, count) /\ NextFd(c) = q + count
        /\ Framed(c) = k + 1 /\ k < Len(messages[c])
  BY <1>2, QueueNow DEF KernelSide
<1>4. PICK m : m = message.header /\ m = messages[c][k + 1]
  BY <1>1, <1>3 DEF MessageInv
<1>5. k + 1 \in DOMAIN messages[c] /\ m.fdFrom = q
  BY <1>3, <1>4, Places DEF KernelSide
<1>6. PICK n \in Nat, size \in Nat : n = Needed(m) /\ size = Length(m)
  BY <1>4, <1>5, MessageFields DEF KernelSide
<1>7. m.peer = c
  BY <1>4, <1>5, MessageFields DEF KernelSide
<1>8. [i \in 1..size |-> memory[message.area][message.at + i]] =
        [i \in 1..size |-> <<m.peer, m.from + i>>]
  BY <1>1, <1>4, <1>6, <1>7 DEF MessageInv
<1>9. SubSeq(fds[c], 1, n) = [i \in 1..n |-> q + i]
  <2>1. fds[c] \in Seq(Nat) /\ Len(fds[c]) = count /\ n =< count
        /\ \A i \in 1..count : fds[c][i] = q + i
    BY <1>1, <1>3, <1>4, <1>6 DEF RightsTypes, RunFrom
  <2>2. SubSeq(fds[c], 1, n) = [i \in 1..n |-> fds[c][i]]
    BY <2>1
  <2>3. \A i \in 1..n : fds[c][i] = q + i
    BY <2>1
  <2> QED
    BY <2>2, <2>3
<1>10. Taken(c) = Content(m)
  BY <1>4, <1>5, <1>6, <1>8, <1>9 DEF Taken, Content
<1> QED
  BY <1>1, <1>3, <1>4, <1>5, <1>10

LEMMA OutcomeTypesStay ==
  ASSUME KernelSide, RightsTypes, OutcomeTypes, ThreadInv, MessageInv, Next,
         \A c \in Conn : StreamInv(c) /\ QueueInv(c)
  PROVE  OutcomeTypes'
<1>1. CASE UNCHANGED <<log, failures>>
  BY <1>1 DEF OutcomeTypes
<1>2. ASSUME NEW c \in Conn, NEW cause \in Cause, Fails(c, cause)
      PROVE  failures' \in [Conn -> SUBSET Cause]
  BY <1>2 DEF Fails, OutcomeTypes
<1>3. ASSUME NEW c \in Conn, NEW fate \in Fate, Takes(c, fate)
      PROVE  log' \in [Conn -> Seq(Entry)]
  <2>1. PICK k \in Nat :
          /\ k + 1 \in DOMAIN messages[c]
          /\ log' = [log EXCEPT ![c] = Append(log[c],
                [message |-> Content(messages[c][k + 1]), outcome |-> fate])]
    BY <1>3, TakesNext
  <2>2. PICK content \in [bytes : Seq(Byte), fds : Seq(Nat)] :
          content = Content(messages[c][k + 1])
    BY <2>1, ContentTypes DEF KernelSide
  <2>3. PICK entry \in Entry : entry = [message |-> content, outcome |-> fate]
    BY DEF Entry
  <2>4. log' = [log EXCEPT ![c] = Append(log[c], entry)]
    BY <2>1, <2>2, <2>3
  <2>5. Append(log[c], entry) \in Seq(Entry)
    BY DEF OutcomeTypes
  <2> QED
    BY <2>4, <2>5 DEF OutcomeTypes
<1>4. ASSUME NEW c \in Conn, Completes(c) PROVE OutcomeTypes'
  <2>1. CASE Disconnected(c) \/ Ingest(c) \/ Discard(c)
    BY <1>1, <2>1 DEF Disconnected, Ingest, Discard, outcome
  <2>2. CASE Refused(c)
    <3>1. log' = log /\ \E cause \in Cause : Fails(c, cause)
      BY <2>2 DEF Refused, Cause
    <3>2. failures' \in [Conn -> SUBSET Cause]
      BY <1>2, <3>1
    <3> QED
      BY <3>1, <3>2 DEF OutcomeTypes
  <2> QED
    BY <1>4, <2>1, <2>2 DEF Completes
<1>5. ASSUME NEW c \in Conn, NEW cause \in Cause, Terminal(c, cause) PROVE OutcomeTypes'
  <2>1. log' = log /\ failures' \in [Conn -> SUBSET Cause]
    BY <1>2, <1>5 DEF Terminal
  <2> QED
    BY <2>1 DEF OutcomeTypes
<1>6. ASSUME NEW c \in Conn, Frames(c) PROVE OutcomeTypes'
  <2>1. CASE Garbled(c) \/ MessageTooLarge(c)
    <3>1. \E cause \in Cause : Terminal(c, cause)
      BY <2>1 DEF Garbled, MessageTooLarge, Cause
    <3> QED
      BY <1>5, <3>1
  <2> QED
    BY <1>1, <1>6, <2>1 DEF Frames, ReleaseLease, Borrow, Drained, Fragment, FillHeader,
                            FillBody, outcome
<1>7. ASSUME NEW c \in Conn, Dispatches(c) PROVE OutcomeTypes'
  <2>1. CASE Rejects(c) \/ Empty(c)
    <3>1. \E cause \in Cause : Terminal(c, cause)
      BY <2>1 DEF Rejects, Empty, Cause
    <3> QED
      BY <1>5, <3>1
  <2>2. ASSUME NEW fate \in Fate, Handle(c, fate) PROVE OutcomeTypes'
    <3>1. failures' = failures /\ log' \in [Conn -> Seq(Entry)]
      BY <1>3, <2>2 DEF Handle
    <3> QED
      BY <3>1 DEF OutcomeTypes
  <2>3. CASE HandlerFails(c)
    <3>1. Takes(c, "handled") /\ Fails(c, "HandlerFailed")
      BY <2>3 DEF HandlerFails
    <3>2. "handled" \in Fate /\ "HandlerFailed" \in Cause
      BY DEF Fate, Cause
    <3> QED
      BY <1>2, <1>3, <3>1, <3>2 DEF OutcomeTypes
  <2> QED
    BY <1>7, <2>1, <2>2, <2>3 DEF Dispatches
<1>8. ASSUME NEW c \in Conn, BeginClose(c) \/ Destroy(c) PROVE OutcomeTypes'
  BY <1>1, <1>8 DEF BeginClose, Destroy
<1>9. CASE PeerOrKernel
  <2>1. UNCHANGED <<log, failures>>
    BY <1>9, PeerOrKernelStays DEF outcome
  <2> QED
    BY <1>1, <2>1
<1>10. CASE Release
  BY <1>1, <1>10 DEF Release, outcome
<1> QED
  BY <1>4, <1>6, <1>7, <1>8, <1>9, <1>10 DEF Next, PeerOrKernel

LEMMA HungStays == ASSUME hung \in [Conn -> BOOLEAN], Next PROVE hung' \in [Conn -> BOOLEAN]
<1>1. ASSUME NEW c \in Conn, Hangup(c) PROVE hung' \in [Conn -> BOOLEAN]
  BY <1>1 DEF Hangup
<1>2. CASE hung' = hung
  BY <1>2
<1>3. ASSUME NEW c \in Conn, NEW size \in Size, NEW count \in Rights, Write(c, size, count)
      PROVE  hung' = hung
  BY <1>3 DEF Write
<1>4. ASSUME NEW c \in Conn, Sends(c) \/ KernelEnds(c) \/ KernelCancels(c) PROVE hung' = hung
  BY <1>4 DEF Sends, Send, KernelEnds, KernelCancels, peer
<1>5. ASSUME NEW c \in Conn, Receives(c) PROVE hung' = hung
  <2>1. PICK b \in Buffer, upto \in 1..MaxBytes[c], last \in 0..MaxFds[c] :
          KernelReceives(c, b, upto, last)
    BY <1>5 DEF Receives
  <2> QED
    BY <2>1 DEF KernelReceives, peer
<1>6. ASSUME NEW c \in Conn, Completes(c) PROVE hung' = hung
  BY <1>6 DEF Completes, Disconnected, Refused, Ingest, Discard, peer
<1>7. ASSUME NEW c \in Conn, Frames(c) PROVE hung' = hung
  BY <1>7 DEF Frames, ReleaseLease, Borrow, Drained, Fragment, FillHeader, FillBody, Garbled,
              MessageTooLarge, Terminal, peer
<1>8. ASSUME NEW c \in Conn, Dispatches(c) \/ BeginClose(c) \/ Destroy(c) PROVE hung' = hung
  BY <1>8 DEF Dispatches, Handle, HandlerFails, Rejects, Empty, Terminal, BeginClose, Destroy,
              peer
<1>9. CASE Release
  BY <1>2, <1>9 DEF Release, peer
<1> QED
  BY <1>1, <1>2, <1>3, <1>4, <1>5, <1>6, <1>7, <1>8, <1>9 DEF Next

LEMMA TypesAre ==
  TypeOK <=> /\ KernelTypes /\ RightsTypes /\ FramerTypes /\ FragmentFits /\ ThreadTypes
             /\ MemoryTypes /\ OutcomeTypes /\ hung \in [Conn -> BOOLEAN]
BY DEF TypeOK, PeerTypes, KernelTypes, RightsTypes, FramerTypes, FragmentFits, ThreadTypes,
       MemoryTypes, OutcomeTypes

-----------------------------------------------------------------------------
(* A peer that keeps to the protocol is understood. *)

\* Where the next message of a connection begins, its header is found.
LEMMA HeaderPresent ==
  ASSUME KernelSide, NEW c \in Conn, KeepsToProtocol(c), NEW k \in Nat, NEW p \in Nat,
         k =< Len(messages[c]), p = Upto(c, k), p < NextByte(c), NEW area, NEW at,
         \A i \in 1..HeaderSize : memory[area][at + i] = <<c, p + i>>
  PROVE  messages[c][k + 1] \in Headers(area, at)
<1>1. PeerSide /\ KernelTypes /\ KernelInv(c) /\ PeerInv(c)
  BY DEF KernelSide, PeerSide
<1>2. NextByte(c) \in Nat /\ NextByte(c) =< read[c] /\ read[c] \in Nat /\ sent[c] \in Nat
        /\ read[c] =< sent[c] /\ sent[c] =< Bytes(c)
  BY <1>1, NextBounds DEF KernelInv, PeerInv, PeerSide, PeerTypes
<1>3. Bytes(c) \in Nat
  BY <1>1, Totals DEF PeerSide, PeerTypes
<1>4. p < Bytes(c)
  BY <1>2, <1>3
<1>5. Len(messages[c]) \in Nat
  BY <1>1 DEF PeerSide, PeerTypes
<1>6. k < Len(messages[c])
  <2>1. k # Len(messages[c])
    BY <1>1, <1>4, <1>3, Places
  <2> QED
    BY <1>5, <2>1
<1>7. PICK m : m = messages[c][k + 1] /\ k + 1 \in DOMAIN messages[c] /\ m.from = p
  BY <1>1, <1>6, Places
<1>8. m.peer = c
  BY <1>1, <1>7, MessageFields
<1>9. Length(m) >= HeaderSize
  BY <1>7 DEF KeepsToProtocol
<1>10. m \in UNION {ToSet(messages[d]) : d \in Conn}
  BY <1>7 DEF ToSet
<1> QED
  BY <1>7, <1>8, <1>9, <1>10 DEF Headers

LEMMA NeverGarbled ==
  ASSUME KernelSide, FramerTypes, ThreadTypes, OutcomeTypes, ThreadInv, NEW c \in Conn,
         StreamInv(c), KeepsToProtocol(c), Garbled(c)
  PROVE  FALSE
<1>1. Owns(c) /\ Live(c)
  BY DEF Garbled, Fresh, Owns, Live, Dispatching, Inside, ThreadInv
<1>2. PICK k \in Nat, p \in Nat, n \in Nat, r \in Nat, at \in Nat :
        Stream(c, k, p, n, r, at) /\ Rest = r
  BY <1>1, StreamNow DEF KernelSide
<1>3. /\ buffered[c] = n /\ k =< Len(messages[c]) /\ p = Upto(c, k)
      /\ NextByte(c) = p + n + r /\ input.at = at
      /\ \A i \in 1..n : memory[scratch[c]][i] = <<c, p + i>>
      /\ \A j \in 1..r : memory[input.buffer][at + j] = <<c, p + n + j>>
  BY <1>1, <1>2 DEF Stream
<1>4. HeaderSize \in Nat \ {0}
  BY SizesAssumption
<1>5. CASE Fresh(c) /\ Rest >= HeaderSize /\ Headers(input.buffer, input.at) = {}
  <2>1. n = 0 /\ r >= HeaderSize
    BY <1>2, <1>3, <1>5 DEF Fresh
  <2>2. p < p + n + r /\ \A i \in 1..HeaderSize : i \in 1..r /\ p + n + i = p + i
    BY <1>4, <2>1
  <2>3. p < NextByte(c)
    BY <1>3, <2>2
  <2>4. \A i \in 1..HeaderSize : memory[input.buffer][at + i] = <<c, p + i>>
    BY <1>3, <2>2
  <2>5. messages[c][k + 1] \in Headers(input.buffer, at)
    BY <1>3, <2>3, <2>4, HeaderPresent
  <2> QED
    BY <1>3, <1>5, <2>5
<1>6. CASE step = "body" /\ Headers(scratch[c], 0) = {}
  <2>1. n >= HeaderSize
    BY <1>1, <1>3, <1>6 DEF ThreadInv, Owns
  <2>2. p < p + n + r /\ \A i \in 1..HeaderSize : i \in 1..n /\ 0 + i = i
    BY <1>4, <2>1
  <2>3. p < NextByte(c)
    BY <1>3, <2>2
  <2>4. \A i \in 1..HeaderSize : memory[scratch[c]][0 + i] = <<c, p + i>>
    BY <1>3, <2>2
  <2> QED
    BY <1>3, <1>6, <2>3, <2>4, HeaderPresent
<1> QED
  BY <1>5, <1>6 DEF Garbled

\* The descriptors of a message were received with its first byte.
LEMMA NeverEmpty ==
  ASSUME KernelSide, RightsTypes, FramerTypes, ThreadTypes, OutcomeTypes, ThreadInv,
         NEW c \in Conn, StreamInv(c), QueueInv(c), MessageInv, KeepsToProtocol(c),
         Empty(c)
  PROVE  FALSE
<1>1. PeerSide /\ KernelTypes /\ KernelInv(c) /\ PeerInv(c)
  BY DEF KernelSide, PeerSide
<1>2. /\ step = "handle" /\ c = input.conn
      /\ Owns(c) /\ Live(c) /\ Handling(c) /\ Needed(message.header) > Len(fds[c])
  BY DEF Empty, Owns, Live, Handling, Dispatching, Inside, ThreadInv
<1>3. PICK k \in Nat, q \in Nat, count \in Nat :
        /\ k = Len(log[c]) /\ k =< Len(messages[c])
        /\ q = FdUpto(c, k) /\ RunFrom(fds[c], q, count) /\ NextFd(c) = q + count
        /\ Framed(c) = k + 1 /\ k < Len(messages[c])
  BY <1>1, <1>2, QueueNow
<1>4. PICK m : m = message.header /\ m = messages[c][k + 1]
  BY <1>2, <1>3 DEF MessageInv
<1>5. /\ k + 1 \in DOMAIN messages[c] /\ m.fdFrom = q
      /\ Upto(c, k + 1) = messages[c][k + 1].to
  BY <1>1, <1>3, <1>4, Places DEF Upto
<1>6. PICK from \in Nat, to \in Nat, end \in Nat, n \in Nat :
        /\ from = m.from /\ to = m.to /\ end = m.fdTo /\ n = Needed(m)
        /\ from < to /\ q + n = end
  <2>1. /\ m.from \in Nat /\ m.to \in Nat /\ m.fdTo \in Nat /\ Needed(m) \in Nat
        /\ m.from < m.to /\ m.fdFrom + Needed(m) = m.fdTo
    BY <1>1, <1>4, <1>5, MessageFields
  <2> QED
    BY <1>5, <2>1
<1>7. n > count
  BY <1>2, <1>3, <1>4, <1>6 DEF RunFrom
<1>8. PICK x \in Nat, r \in Nat, b \in Nat : NextByte(c) = x /\ x = Upto(c, k + 1) + b + r
  <2>1. PICK l \in Nat, p \in Nat, b \in Nat, r \in Nat, at \in Nat :
          Stream(c, l, p, b, r, at) /\ Rest = r
    BY <1>1, <1>2, StreamNow
  <2>2. NextByte(c) = p + b + r /\ p = Upto(c, k + 1)
    BY <1>3, <2>1 DEF Stream
  <2> QED
    BY <2>2
<1>9. to =< x
  <2>1. x = to + b + r
    BY <1>4, <1>5, <1>6, <1>8
  <2> QED
    BY <1>6, <1>8, <2>1
<1>10. from < sent[c]
  <2>1. x =< read[c] /\ read[c] \in Nat /\ read[c] =< sent[c] /\ sent[c] \in Nat
    BY <1>1, <1>8, NextBounds DEF KernelInv, PeerTypes, PeerSide
  <2> QED
    BY <1>6, <1>9, <2>1
<1>11. end =< Len(attached[c]) /\ \A f \in 1..end : attached[c][f] =< from + 1
  BY <1>4, <1>5, <1>6, <1>10 DEF KeepsToProtocol
<1>12. end \in DOMAIN attached[c] /\ attached[c][end] =< from + 1 /\ attached[c][end] \in Nat
  <2>1. attached[c] \in Seq(Nat) /\ DOMAIN attached[c] = 1..Len(attached[c])
          /\ Len(attached[c]) \in Nat
    BY <1>1 DEF PeerSide, PeerTypes
  <2>2. end \in 1..end
    BY <1>6, <1>7
  <2>3. end \in DOMAIN attached[c]
    BY <1>6, <1>11, <2>1, <2>2
  <2>4. attached[c][end] \in Nat
    BY <2>1, <2>3
  <2> QED
    BY <1>11, <2>2, <2>3, <2>4
<1>13. attached[c][end] =< x
  BY <1>6, <1>9, <1>12
<1>14. Matches(c, NextFd(c), NextByte(c))
  <2>1. completions[c] \in Seq(Cqe)
    BY <1>1 DEF KernelTypes
  <2>2. completions[c] # <<>> => CqeInv(c, 1)
    BY <1>1, <2>1 DEF KernelInv
  <2> QED
    BY <1>1, <2>2 DEF KernelInv, CqeInv, NextFd, NextByte
<1>15. end =< q + count
  BY <1>3, <1>8, <1>12, <1>13, <1>14 DEF Matches
<1> QED
  BY <1>6, <1>7, <1>15

\* A peer that has kept to the protocol did so at every earlier moment.
LEMMA KeptBefore ==
  ASSUME KernelSide, Next, NEW c \in Conn, KeepsToProtocol(c)'
  PROVE  KeepsToProtocol(c)
<1>1. PeerTypes /\ PeerStep
  BY PeerIsAlone DEF KernelSide, PeerSide
<1>2. messages[c] \in Seq(Posting) /\ attached[c] \in Seq(Nat) /\ sent[c] \in Nat
  BY <1>1 DEF PeerTypes
<1>3. CASE messages'[c] = messages[c] /\ sent'[c] = sent[c] /\ attached'[c] = attached[c]
  BY <1>3 DEF KeepsToProtocol
<1>4. ASSUME NEW size \in Size, NEW count \in Rights, Write(c, size, count)
      PROVE  KeepsToProtocol(c)
  <2>1. messages'[c] = Append(messages[c], Written(c, size, count))
    BY <1>1, <1>4, WriteAppends DEF PeerTypes
  <2>2. Written(c, size, count) \in Posting
    BY <1>1, <1>4, WriteAppends
  <2>3. \A i \in DOMAIN messages[c] :
          i \in DOMAIN messages'[c] /\ messages'[c][i] = messages[c][i]
    BY <1>2, <2>1, <2>2
  <2>4. sent' = sent /\ attached' = attached
    BY <1>4 DEF Write
  <2> QED
    BY <2>3, <2>4 DEF KeepsToProtocol
<1>5. ASSUME NEW upto \in 1..MaxBytes[c], NEW last \in 0..MaxFds[c], Send(c, upto, last)
      PROVE  KeepsToProtocol(c)
  <2>1. /\ upto \in Nat /\ last \in Nat /\ Len(attached[c]) \in Nat
        /\ sent[c] < upto /\ Len(attached[c]) =< last
        /\ Len(attached'[c]) = last
        /\ \A f \in 1..last : attached'[c][f] =
             IF f =< Len(attached[c]) THEN attached[c][f] ELSE sent[c] + 1
        /\ sent'[c] = upto /\ messages' = messages
    BY <1>1, <1>5, SendAttaches
  <2>2. \A i \in DOMAIN messages[c] : Length(messages[c][i]) >= HeaderSize
    BY <2>1 DEF KeepsToProtocol
  <2> SUFFICES ASSUME NEW i \in DOMAIN messages[c], messages[c][i].from < sent[c]
               PROVE  /\ messages[c][i].fdTo =< Len(attached[c])
                      /\ \A f \in 1..messages[c][i].fdTo :
                           attached[c][f] =< messages[c][i].from + 1
    BY <2>2 DEF KeepsToProtocol
  <2>3. messages[c][i].from \in Nat /\ messages[c][i].fdTo \in Nat
    <3>1. messages[c][i] \in Posting
      BY <1>2
    <3> QED
      BY <3>1 DEF Posting
  <2>4. /\ messages[c][i].fdTo =< last
        /\ \A f \in 1..messages[c][i].fdTo : attached'[c][f] =< messages[c][i].from + 1
    BY <1>2, <2>1, <2>3 DEF KeepsToProtocol
  <2>5. messages[c][i].fdTo =< Len(attached[c])
    <3> SUFFICES ASSUME ~(messages[c][i].fdTo =< Len(attached[c])) PROVE FALSE
      OBVIOUS
    <3>1. attached'[c][messages[c][i].fdTo] = sent[c] + 1
      BY <2>1, <2>3, <2>4
    <3>2. attached'[c][messages[c][i].fdTo] =< messages[c][i].from + 1
      BY <2>1, <2>3, <2>4
    <3> QED
      BY <1>2, <2>3, <3>1, <3>2
  <2> QED
    BY <2>1, <2>3, <2>4, <2>5
<1>6. ASSUME NEW d \in Conn, d # c, NEW size \in Size, NEW count \in Rights,
             Write(d, size, count)
      PROVE  KeepsToProtocol(c)
  BY <1>1, <1>3, <1>6 DEF Write, PeerTypes
<1>7. ASSUME NEW d \in Conn, d # c, NEW upto, NEW last, Send(d, upto, last)
      PROVE  KeepsToProtocol(c)
  BY <1>1, <1>3, <1>7 DEF Send, PeerTypes
<1> QED
  BY <1>1, <1>3, <1>4, <1>5, <1>6, <1>7 DEF PeerStep

LEMMA PeerIsUnderstoodStays ==
  ASSUME KernelSide, RightsTypes, FramerTypes, ThreadTypes, OutcomeTypes, ThreadInv,
         MessageInv, \A c \in Conn : StreamInv(c) /\ QueueInv(c), PeerIsUnderstood, Next
  PROVE  PeerIsUnderstood'
<1> DEFINE Understood(d) == failures[d] \cap {"InvalidSize", "Empty"} = {}
<1>0. ASSUME NEW d \in Conn, KeepsToProtocol(d)' PROVE KeepsToProtocol(d) /\ Understood(d)
  BY <1>0, KeptBefore DEF PeerIsUnderstood
<1>1. CASE failures' = failures
  BY <1>0, <1>1 DEF PeerIsUnderstood
<1>2. ASSUME NEW c \in Conn, NEW cause, cause \notin {"InvalidSize", "Empty"}, Fails(c, cause)
      PROVE  PeerIsUnderstood'
  <2>1. failures' = [failures EXCEPT ![c] = failures[c] \cup {cause}]
    BY <1>2 DEF Fails
  <2>2. ASSUME NEW d \in Conn, KeepsToProtocol(d)' PROVE Understood(d)'
    <3>1. Understood(d)
      BY <1>0, <2>2
    <3>2. failures'[d] = failures[d] \/ failures'[d] = failures[d] \cup {cause}
      BY <2>1 DEF OutcomeTypes
    <3> QED
      BY <1>2, <3>1, <3>2
  <2> QED
    BY <2>2 DEF PeerIsUnderstood
<1>3. ASSUME NEW c \in Conn, ~KeepsToProtocol(c), NEW cause, Fails(c, cause)
      PROVE  PeerIsUnderstood'
  <2>1. ASSUME NEW d \in Conn, KeepsToProtocol(d)' PROVE Understood(d)'
    <3>1. Understood(d) /\ d # c
      BY <1>0, <1>3, <2>1
    <3>2. failures'[d] = failures[d]
      BY <1>3, <3>1 DEF Fails, OutcomeTypes
    <3> QED
      BY <3>1, <3>2
  <2> QED
    BY <2>1 DEF PeerIsUnderstood
<1>4. ASSUME NEW c \in Conn, Completes(c) PROVE PeerIsUnderstood'
  <2>1. CASE Refused(c)
    <3>1. Fails(c, "InvalidMessage") \/ Fails(c, "DescriptorBudgetExceeded")
      BY <2>1 DEF Refused
    <3> QED
      BY <1>2, <3>1
  <2> QED
    BY <1>1, <1>4, <2>1 DEF Completes, Disconnected, Ingest, Discard, outcome
<1>5. ASSUME NEW c \in Conn, Frames(c) PROVE PeerIsUnderstood'
  <2>1. CASE Garbled(c)
    <3>1. ~KeepsToProtocol(c)
      BY <2>1, NeverGarbled
    <3>2. Fails(c, "InvalidSize")
      BY <2>1 DEF Garbled, Terminal
    <3> QED
      BY <1>3, <3>1, <3>2
  <2>2. CASE MessageTooLarge(c)
    <3>1. Fails(c, "MessageTooLarge")
      BY <2>2 DEF MessageTooLarge, Terminal
    <3> QED
      BY <1>2, <3>1
  <2> QED
    BY <1>1, <1>5, <2>1, <2>2 DEF Frames, ReleaseLease, Borrow, Drained, Fragment, FillHeader,
                                  FillBody, outcome
<1>6. ASSUME NEW c \in Conn, Dispatches(c) PROVE PeerIsUnderstood'
  <2>1. CASE Empty(c)
    <3>1. ~KeepsToProtocol(c)
      BY <2>1, NeverEmpty
    <3>2. Fails(c, "Empty")
      BY <2>1 DEF Empty, Terminal
    <3> QED
      BY <1>3, <3>1, <3>2
  <2>2. CASE Rejects(c) \/ HandlerFails(c)
    <3>1. Fails(c, "UnknownObject") \/ Fails(c, "HandlerFailed")
      BY <2>2 DEF Rejects, HandlerFails, Terminal
    <3> QED
      BY <1>2, <3>1
  <2> QED
    BY <1>1, <1>6, <2>1, <2>2 DEF Dispatches, Handle
<1>7. ASSUME NEW c \in Conn, BeginClose(c) \/ Destroy(c) PROVE PeerIsUnderstood'
  BY <1>1, <1>7 DEF BeginClose, Destroy
<1>8. CASE PeerOrKernel
  <2>1. failures' = failures
    BY <1>8, PeerOrKernelStays DEF outcome
  <2> QED
    BY <1>1, <2>1
<1>9. CASE Release
  BY <1>1, <1>9 DEF Release, outcome
<1> QED
  BY <1>4, <1>5, <1>6, <1>7, <1>8, <1>9 DEF Next, PeerOrKernel

\* A fragment whose header is complete is not longer than its message.
LEMMA FitsFollows ==
  ASSUME PeerSide, FramerTypes, ThreadTypes, OutcomeTypes, ThreadInv,
         \A c \in Conn : StreamInv(c)
  PROVE  FitsInv
<1> SUFFICES ASSUME step = "body", NEW m \in Headers(scratch[input.conn], 0)
             PROVE  buffered[input.conn] =< Length(m)
  BY DEF FitsInv
<1>1. PICK c \in Conn : c = input.conn /\ Owns(c) /\ Live(c)
  BY BusyHasInput DEF Owns, Live, Dispatching, Inside
<1>2. PICK k \in Nat, p \in Nat, n \in Nat, r \in Nat, at \in Nat :
        Stream(c, k, p, n, r, at) /\ Rest = r
  BY <1>1, StreamNow
<1>3. /\ buffered[c] = n /\ k =< Len(messages[c]) /\ p = Upto(c, k)
      /\ \A i \in 1..n : memory[scratch[c]][i] = <<c, p + i>>
      /\ n < Length(messages[c][k + 1]) \/ n = HeaderSize \/ ~(n >= HeaderSize)
  BY <1>2 DEF Stream
<1>4. n >= HeaderSize /\ HeaderSize \in Nat \ {0}
  BY <1>1, <1>3, SizesAssumption DEF ThreadInv
<1>5. memory[scratch[c]][0 + 1] = <<c, p + 1>>
  <2>1. 1 \in 1..n /\ 0 + 1 = 1
    BY <1>4
  <2> QED
    BY <1>3, <2>1
<1>6. m = messages[c][k + 1] /\ Length(m) \in Nat /\ Length(m) >= HeaderSize
  BY <1>1, <1>3, <1>5, NextHeader
<1>7. n =< Length(m)
  BY <1>3, <1>4, <1>6
<1> QED
  BY <1>1, <1>3, <1>7

-----------------------------------------------------------------------------
(* The invariant: it holds at the start and every step keeps it. *)

LEMMA InitTypes == ASSUME Init PROVE TypeOK
<1>1. /\ messages \in [Conn -> Seq(Posting)] /\ sent \in [Conn -> Nat]
      /\ read \in [Conn -> Nat] /\ passed \in [Conn -> Nat]
      /\ attached \in [Conn -> Seq(Nat)]
      /\ hung \in [Conn -> BOOLEAN] /\ armed \in [Conn -> BOOLEAN]
      /\ completions \in [Conn -> Seq(Cqe)] /\ ring \in [Buffer -> Nat]
  BY DEF Init
<1>2. DOMAIN memory = Area /\ \A a \in Area : memory[a] \in [1..AreaSize(a) -> Byte]
  BY DEF Init, Byte
<1>3. /\ step \in Step /\ input = None /\ message = None
  BY DEF Init, Step
<1>4. /\ scratch \in [Conn -> Area \cup {None}] /\ lease \in [Conn -> Block \cup {None}]
      /\ buffered \in [Conn -> Nat] /\ releaseNext \in [Conn -> BOOLEAN]
      /\ free \subseteq Block
  BY DEF Init
<1>5. /\ fds \in [Conn -> Seq(Nat)] /\ DOMAIN released = Conn
      /\ \A c \in Conn : released[c] \in [Fd(c) -> Nat]
  BY DEF Init
<1>6. /\ log \in [Conn -> Seq(Entry)] /\ phase \in [Conn -> Phase]
      /\ failures \in [Conn -> SUBSET Cause]
  BY DEF Init, Phase
<1>7. \A c \in Conn : buffered[c] =< Capacity(scratch[c])
  BY DEF Init, Capacity
<1> QED
  BY <1>1, <1>2, <1>3, <1>4, <1>5, <1>6, <1>7 DEF TypeOK

LEMMA InitIInv == ASSUME Init PROVE IInv
<1>1. TypeOK
  BY InitTypes
<1>2. ASSUME NEW c \in Conn
      PROVE  /\ messages[c] = <<>> /\ sent[c] = 0 /\ attached[c] = <<>>
             /\ read[c] = 0 /\ passed[c] = 0 /\ completions[c] = <<>>
             /\ fds[c] = <<>> /\ log[c] = <<>> /\ phase[c] = "open" /\ failures[c] = {}
             /\ buffered[c] = 0 /\ scratch[c] = None /\ lease[c] = None /\ ~releaseNext[c]
             /\ Len(messages[c]) = 0 /\ Len(log[c]) = 0 /\ Len(attached[c]) = 0
             /\ \A f \in Fd(c) : released[c][f] = 0
  BY DEF Init
<1>3. step = "idle" /\ input = None /\ message = None
  BY DEF Init
<1>4. MaxBytes \in [Conn -> Nat] /\ MaxFds \in [Conn -> Nat] /\ HeaderSize \in Nat \ {0}
  BY SizesAssumption
<1>5. ASSUME NEW c \in Conn PROVE PeerInv(c)
  <2>1. Bytes(c) = 0 /\ Descriptors(c) = 0 /\ DOMAIN messages[c] = {} /\ DOMAIN attached[c] = {}
    BY <1>2 DEF Bytes, Descriptors
  <2> QED
    BY <1>2, <1>4, <2>1 DEF PeerInv
<1>6. ASSUME NEW c \in Conn PROVE KernelInv(c)
  <2>1. DOMAIN completions[c] = {} /\ DOMAIN attached[c] = {}
    BY <1>2
  <2> QED
    BY <1>2, <2>1 DEF KernelInv, Matches
<1>7. BufferInv
  <2>1. \A c \in Conn : DOMAIN completions[c] = {}
    BY <1>2
  <2>2. \A b \in Buffer : ring[b] = 1
    BY DEF Init
  <2> QED
    BY <1>3, <2>1, <2>2 DEF BufferInv
<1>8. ThreadInv
  BY <1>3 DEF ThreadInv, HeaderInv
<1>9. LeaseInv
  <2>1. DOMAIN lease = Conn /\ free = Block
    BY DEF Init
  <2>2. None \notin Block
    BY NamesAssumption DEF Area
  <2>3. free = Block \ Range(lease)
    BY <1>2, <2>1, <2>2 DEF Range
  <2> QED
    BY <1>2, <2>3 DEF LeaseInv, Leases
<1>10. ASSUME NEW c \in Conn PROVE OwnerInv(c)
  <2>1. DOMAIN completions[c] = {} /\ DOMAIN fds[c] = {} /\ NextFd(c) = 0
    BY <1>2 DEF NextFd
  <2>2. \A f \in Fd(c) : f > 0
    BY FdsAreNumbers
  <2> QED
    BY <1>2, <2>1, <2>2, FdsAreNumbers DEF OwnerInv, IsInjective
<1>11. ASSUME NEW c \in Conn PROVE StreamInv(c) /\ QueueInv(c)
  <2>1. ~Handling(c) /\ Left(c) = 0
    BY <1>3 DEF Handling, Left
  <2>2. Framed(c) = 0
    BY <1>2, <2>1 DEF Framed
  <2>3. Consumed(c) = 0 /\ NextByte(c) = 0 /\ NextFd(c) = 0 /\ FdUpto(c, Len(log[c])) = 0
    BY <1>2, <2>2 DEF Consumed, Upto, FdUpto, NextByte, NextFd
  <2>4. ~(buffered[c] >= HeaderSize)
    BY <1>2, <1>4
  <2>5. StreamInv(c)
    BY <1>2, <1>3, <2>1, <2>2, <2>3, <2>4 DEF StreamInv
  <2>6. QueueInv(c)
    BY <1>2, <2>3 DEF QueueInv
  <2> QED
    BY <2>5, <2>6
<1>12. MessageInv
  BY <1>3 DEF MessageInv
<1>13. PeerIsUnderstood
  BY <1>2 DEF PeerIsUnderstood
<1> QED
  BY <1>1, <1>5, <1>6, <1>7, <1>8, <1>9, <1>10, <1>11, <1>12, <1>13 DEF IInv

LEMMA IInvParts ==
  ASSUME IInv
  PROVE  /\ KernelSide /\ RightsTypes /\ FramerTypes /\ FragmentFits /\ ThreadTypes
         /\ MemoryTypes /\ OutcomeTypes /\ hung \in [Conn -> BOOLEAN]
         /\ ThreadInv /\ LeaseInv /\ BufferInv /\ OwnerSide /\ MessageInv /\ FitsInv
         /\ \A c \in Conn : StreamInv(c) /\ QueueInv(c)
         /\ PeerIsUnderstood
<1>1. KernelTypes /\ RightsTypes /\ FramerTypes /\ FragmentFits /\ ThreadTypes /\ MemoryTypes
        /\ OutcomeTypes /\ hung \in [Conn -> BOOLEAN]
  BY TypesAre DEF IInv
<1>2. KernelSide
  BY <1>1 DEF IInv, KernelSide, KernelTypes, PeerSide
<1>3. OwnerSide
  BY <1>1 DEF IInv, OwnerSide
<1>4. FitsInv
  BY <1>1, <1>2, FitsFollows DEF IInv, KernelSide
<1> QED
  BY <1>1, <1>2, <1>3, <1>4 DEF IInv

LEMMA NextIInv == ASSUME IInv, Next PROVE IInv'
<1>1. /\ KernelSide /\ PeerSide /\ RightsTypes /\ FramerTypes /\ FragmentFits /\ ThreadTypes
      /\ MemoryTypes /\ OutcomeTypes /\ hung \in [Conn -> BOOLEAN]
      /\ ThreadInv /\ LeaseInv /\ BufferInv /\ OwnerSide /\ MessageInv /\ FitsInv
      /\ \A c \in Conn : StreamInv(c) /\ QueueInv(c)
      /\ PeerIsUnderstood
  BY IInvParts DEF KernelSide
<1>2. HeaderInv /\ (step = "handle" => message # None)
  BY <1>1 DEF ThreadInv
<1>3. KernelSide'
  BY <1>1, KernelSideStays
<1>4. LeaseInv'
  BY <1>1, LeaseStays
<1>5. ThreadInv'
  BY <1>1, ThreadStays
<1>6. BufferInv'
  BY <1>1, BufferStays
<1>7. FramerTypes' /\ FragmentFits'
  BY <1>1, FramerTypesStay
<1>8. ThreadTypes'
  BY <1>1, ThreadTypesStay
<1>9. MemoryTypes'
  BY <1>1, MemoryTypesStay
<1>10. RightsTypes'
  BY <1>1, <1>2, RightsTypesStay
<1>11. OutcomeTypes' /\ hung' \in [Conn -> BOOLEAN]
  BY <1>1, OutcomeTypesStay, HungStays
<1>12. \A c \in Conn : OwnerInv(c)'
  BY <1>1, <1>2, OwnerStays
<1>13. \A c \in Conn : StreamInv(c)'
  BY <1>1, <1>4, <1>5, StreamStays
<1>14. \A c \in Conn : QueueInv(c)'
  BY <1>1, <1>4, <1>5, QueueStays
<1>15. MessageInv'
  BY <1>1, <1>4, <1>5, MessageStays
<1>16. PeerIsUnderstood'
  BY <1>1, PeerIsUnderstoodStays
<1>17. TypeOK'
  BY <1>3, <1>7, <1>8, <1>9, <1>10, <1>11
     DEF KernelSide, KernelTypes, PeerTypes, FramerTypes, FragmentFits, ThreadTypes,
         MemoryTypes, RightsTypes, OutcomeTypes, TypeOK
<1> QED
  BY <1>3, <1>4, <1>5, <1>6, <1>12, <1>13, <1>14, <1>15, <1>16, <1>17
     DEF IInv, KernelSide, PeerSide

LEMMA StutterIInv == ASSUME IInv, UNCHANGED vars PROVE IInv'
<1>1. /\ UNCHANGED <<messages, sent, attached, hung, armed, read, passed, completions, ring>>
      /\ UNCHANGED <<memory, step, input, message, scratch, lease, buffered, releaseNext>>
      /\ UNCHANGED <<free, fds, released, log, phase, failures>>
  BY DEF vars, peer, kernel, thread, framer, rights, outcome
<1>2. TypeOK'
  BY <1>1 DEF IInv, TypeOK, AreaSize, Capacity, Fd
<1>3. ASSUME NEW c \in Conn PROVE (PeerInv(c) /\ KernelInv(c))'
  BY <1>1 DEF IInv, PeerInv, PeerMessage, KernelInv, CqeInv, Matches, Bytes,
              Descriptors
<1>4. (BufferInv /\ ThreadInv /\ LeaseInv /\ MessageInv /\ PeerIsUnderstood)'
  <2>1. BufferInv'
    <3>1. BufferInv /\ KernelTypes
      BY IInvParts DEF KernelSide
    <3> QED
      BY <1>1, <3>1, BufferQuiet
  <2>2. ThreadInv'
    BY <1>1 DEF IInv, ThreadInv, HeaderInv, Rest
  <2>3. LeaseInv'
    BY <1>1 DEF IInv, LeaseInv, Leases
  <2>4. MessageInv'
    BY <1>1 DEF IInv, MessageInv, Framed, Handling, Capacity, AreaSize
  <2>5. PeerIsUnderstood'
    BY <1>1 DEF IInv, PeerIsUnderstood, KeepsToProtocol
  <2> QED
    BY <2>1, <2>2, <2>3, <2>4, <2>5
<1>5. ASSUME NEW c \in Conn PROVE (OwnerInv(c) /\ StreamInv(c) /\ QueueInv(c))'
  <2>1. /\ NextFd(c)' = NextFd(c) /\ NextByte(c)' = NextByte(c) /\ Framed(c)' = Framed(c)
        /\ Left(c)' = Left(c) /\ Live(c)' = Live(c) /\ Dispatching(c)' = Dispatching(c)
        /\ \A k : Upto(c, k)' = Upto(c, k) /\ FdUpto(c, k)' = FdUpto(c, k)
        /\ Rest' = Rest
    BY <1>1 DEF NextFd, NextByte, Framed, Left, Live, Dispatching, Upto, FdUpto, Rest, Handling
  <2>2. OwnerInv(c)'
    BY <1>1, <2>1 DEF IInv, OwnerInv
  <2>3. Consumed(c)' = Consumed(c)
    BY <2>1 DEF Consumed
  <2>4. StreamInv(c)'
    BY <1>1, <2>1, <2>3 DEF IInv, StreamInv
  <2>5. QueueInv(c)'
    BY <1>1, <2>1 DEF IInv, QueueInv
  <2> QED
    BY <2>2, <2>4, <2>5
<1> QED
  BY <1>2, <1>3, <1>4, <1>5 DEF IInv

THEOREM IInvHolds == Spec => []IInv
<1>1. Init => IInv
  BY InitIInv
<1>2. IInv /\ [Next]_vars => IInv'
  BY NextIInv, StutterIInv
<1> QED
  BY <1>1, <1>2, PTL DEF Spec

-----------------------------------------------------------------------------
(* What the invariant says. *)

\* Everything has its type, a payload lies within its buffer and a fragment
\* within its scratch, whatever peers send.
THEOREM Types == Spec => []TypeOK
BY IInvHolds, PTL DEF IInv

\* A peer that keeps to the protocol never has its connection closed for
\* InvalidSize or Empty: Framer.next finds a header where a message starts
\* and the decoder finds every descriptor, however bytes and descriptors
\* were cut into receives.
THEOREM FaithfulPeers == Spec => []PeerIsUnderstood
BY IInvHolds, PTL DEF IInv

LEMMA BlocksFollow == ASSUME IInv PROVE BlocksOwnedOnce /\ BlocksHoldFragments
<1>1. LeaseInv /\ ThreadInv /\ OutcomeTypes /\ FramerTypes
  BY IInvParts
<1>2. BlocksOwnedOnce
  BY <1>1 DEF LeaseInv, Leases, BlocksOwnedOnce
<1>3. ASSUME step = "idle", NEW c \in Conn, phase[c] = "open", lease[c] # None
      PROVE  /\ buffered[c] > 0
             /\ \E i \in DOMAIN messages[c] : i = Len(log[c]) + 1
                                              /\ Length(messages[c][i]) > InlineSize
  <2>1. ~Dispatching(c) /\ ~Handling(c) /\ Live(c)
    BY <1>3 DEF Dispatching, Handling, Live, Inside
  <2>2. Framed(c) = Len(log[c]) /\ Len(log[c]) \in Nat
    BY <1>1, <2>1, FramedIsNumber
  <2>3. /\ buffered[c] > 0 /\ Framed(c) < Len(messages[c])
        /\ Length(messages[c][Framed(c) + 1]) > InlineSize
    BY <1>3, <2>1 DEF IInv, StreamInv
  <2>4. messages[c] \in Seq(Posting)
    BY DEF IInv, TypeOK
  <2>5. Len(log[c]) + 1 \in DOMAIN messages[c]
    BY <2>2, <2>3, <2>4
  <2> QED
    BY <2>2, <2>3, <2>5
<1>4. BlocksHoldFragments
  BY <1>3 DEF BlocksHoldFragments
<1> QED
  BY <1>2, <1>4

\* The shared blocks are never leased twice nor lost: one is free or the
\* scratch of one connection, and destroyPeer gives back what a connection
\* that is gone had.
THEOREM BlocksOwned == Spec => []BlocksOwnedOnce
BY IInvHolds, BlocksFollow, PTL

\* No block outlasts its message: between completions an open connection has
\* one only while the start of a message that is too long for the inline
\* scratch waits in it (Framer.releaseLease).
THEOREM BlocksForFragments == Spec => []BlocksHoldFragments
BY IInvHolds, BlocksFollow, PTL

LEMMA BuffersFollow == ASSUME IInv PROVE BuffersReturnedOnce
<1> SUFFICES ASSUME NEW b \in Buffer
             PROVE  \/ ring[b] = 1 /\ Holders(b) = {}
                    \/ ring[b] = 0 /\ \E h \in Holders(b) : Holders(b) = {h}
  BY DEF BuffersReturnedOnce
<1> DEFINE Queued == {h \in UNION {{c} \X DOMAIN completions[c] : c \in Conn} :
                        completions[h[1]][h[2]].buffer = b}
           Given == IF input # None /\ input.buffer = b THEN {<<None, 0>>} ELSE {}
<1>1. BufferInv /\ Holders(b) = Queued \cup Given /\ b # None
  BY NamesAssumption DEF IInv, Holders, Area
<1>2. \A h : h \in Queued <=> \E c \in Conn : \E i \in DOMAIN completions[c] :
                                h = <<c, i>> /\ completions[c][i].buffer = b
  OBVIOUS
<1>3. \A h : h \in Given <=> h = <<None, 0>> /\ input # None /\ input.buffer = b
  OBVIOUS
<1> HIDE DEF Queued, Given
<1>4. ring[b] \in {0, 1} /\ (ring[b] = 0 => Held(b))
  BY <1>1 DEF BufferInv
<1>5. CASE ring[b] = 1
  <2>1. \A h : h \notin Queued
    BY <1>1, <1>2, <1>5 DEF BufferInv, InBuffer
  <2>2. \A h : h \notin Given
    BY <1>1, <1>3, <1>5 DEF BufferInv
  <2> QED
    BY <1>1, <1>5, <2>1, <2>2
<1>6. CASE ring[b] = 0 /\ input # None /\ input.buffer = b
  <2>1. \A h : h \notin Queued
    BY <1>1, <1>2, <1>6 DEF BufferInv, InBuffer
  <2>2. Holders(b) = {<<None, 0>>}
    BY <1>1, <1>3, <1>6, <2>1
  <2> QED
    BY <1>6, <2>2
<1>7. CASE ring[b] = 0 /\ ~(input # None /\ input.buffer = b)
  <2>1. PICK c \in Conn : \E i \in DOMAIN completions[c] : completions[c][i].buffer = b
    BY <1>4, <1>7 DEF Held
  <2>2. PICK i \in DOMAIN completions[c] : completions[c][i].buffer = b
    BY <2>1
  <2>3. \A d \in Conn : \A j \in DOMAIN completions[d] :
          completions[d][j].buffer = b => d = c /\ j = i
    BY <1>1, <2>2 DEF BufferInv
  <2>4. \A h : h \in Queued <=> h = <<c, i>>
    BY <1>2, <2>2, <2>3
  <2>5. \A h : h \notin Given
    BY <1>3, <1>7
  <2>6. Holders(b) = {<<c, i>>}
    BY <1>1, <2>4, <2>5
  <2> QED
    BY <1>7, <2>6
<1> QED
  BY <1>4, <1>5, <1>6, <1>7

\* A receive buffer is on offer to the kernel or held once: no path of
\* receivedRequests, Receiver.stop or a refused completion returns it twice
\* or forgets it.
THEOREM BuffersReturned == Spec => []BuffersReturnedOnce
BY IInvHolds, BuffersFollow, PTL

LEMMA DescriptorsFollow == ASSUME IInv PROVE DescriptorsOwnedOnce
<1> SUFFICES ASSUME NEW c \in Conn
    PROVE  /\ IsInjective(fds[c])
           /\ phase[c] = "gone" => fds[c] = <<>> /\ completions[c] = <<>>
           /\ \A f \in Fd(c) :
                /\ released[c][f] =< 1
                /\ f > passed[c] => /\ f \notin ToSet(fds[c]) /\ ~InCompletion(c, f)
                                    /\ released[c][f] = 0
                /\ f =< passed[c] =>
                     \/ f \in ToSet(fds[c]) /\ ~InCompletion(c, f) /\ released[c][f] = 0
                     \/ f \notin ToSet(fds[c]) /\ InCompletion(c, f) /\ released[c][f] = 0
                     \/ f \notin ToSet(fds[c]) /\ ~InCompletion(c, f) /\ released[c][f] = 1
  BY Zenon DEF DescriptorsOwnedOnce
<1>1. KernelTypes /\ KernelInv(c) /\ OwnerInv(c)
  BY IInvParts DEF KernelSide, OwnerSide
<1>2. PICK next \in Nat, end \in Nat : next = NextFd(c) /\ end = passed[c] /\ next =< end
  BY <1>1, NextBounds
<1>3. ASSUME NEW f \in Fd(c)
      PROVE  /\ f \in ToSet(fds[c]) => f =< next
             /\ InCompletion(c, f) => next < f /\ f =< end /\ released[c][f] = 0
  <2>1. f \in Nat
    BY <1>3, FdsAreNumbers
  <2>2. f \in ToSet(fds[c]) => f =< next
    BY <1>1, <1>2 DEF OwnerInv, ToSet
  <2>3. ASSUME InCompletion(c, f) PROVE next < f /\ f =< end /\ released[c][f] = 0
    <3>1. PICK i \in DOMAIN completions[c] :
            completions[c][i].fdFrom < f /\ f =< completions[c][i].fdTo
      BY <2>3 DEF InCompletion
    <3>2. PICK a \in Nat, b \in Nat, e \in Nat :
            /\ a = completions[c][i].fdFrom /\ b = completions[c][i].fdTo
            /\ e = completions[c][i].fdEnd /\ a =< b /\ b =< e /\ e =< end /\ next =< a
      BY <1>1, <1>2, NextBounds
    <3>3. a < f /\ f =< b
      BY <3>1, <3>2
    <3>4. next < f /\ f =< end
      BY <1>2, <2>1, <3>2, <3>3
    <3>5. released[c][f] = 0
      BY <1>1, <3>1 DEF OwnerInv
    <3> QED
      BY <3>4, <3>5
  <2> QED
    BY <2>2, <2>3
<1>4. ASSUME NEW f \in Fd(c)
      PROVE  /\ released[c][f] =< 1
             /\ f > passed[c] => /\ f \notin ToSet(fds[c]) /\ ~InCompletion(c, f)
                                 /\ released[c][f] = 0
             /\ f =< passed[c] =>
                  \/ f \in ToSet(fds[c]) /\ ~InCompletion(c, f) /\ released[c][f] = 0
                  \/ f \notin ToSet(fds[c]) /\ InCompletion(c, f) /\ released[c][f] = 0
                  \/ f \notin ToSet(fds[c]) /\ ~InCompletion(c, f) /\ released[c][f] = 1
  <2>1. f \in Nat
    BY <1>4, FdsAreNumbers
  <2>2. CASE f =< next
    <3>1. released[c][f] = IF f \in ToSet(fds[c]) THEN 0 ELSE 1
      BY <1>1, <1>2, <1>4, <2>2 DEF OwnerInv
    <3>2. ~(f > end) /\ ~(next < f)
      BY <1>2, <2>1, <2>2
    <3>3. ~InCompletion(c, f)
      BY <1>3, <3>2
    <3> QED
      BY <1>2, <3>1, <3>2, <3>3
  <2>3. CASE next < f /\ f =< end
    <3>1. ~(f > end) /\ ~(f =< next)
      BY <1>2, <2>1, <2>3
    <3>2. f \notin ToSet(fds[c])
      BY <1>3, <3>1
    <3>3. PICK i \in DOMAIN completions[c] :
            completions[c][i].fdFrom < f /\ f =< completions[c][i].fdEnd
      BY <1>1, <1>2, <1>4, <2>3 DEF OwnerInv
    <3>4. PICK b \in Nat, e \in Nat : b = completions[c][i].fdTo /\ e = completions[c][i].fdEnd
      BY <1>1, NextBounds
    <3>5. CASE f =< b
      <4>1. InCompletion(c, f)
        BY <3>3, <3>4, <3>5 DEF InCompletion
      <4>2. released[c][f] = 0
        BY <1>3, <4>1
      <4> QED
        BY <1>2, <3>1, <3>2, <4>1, <4>2
    <3>6. CASE b < f
      <4>1. released[c][f] = 1
        BY <1>1, <1>4, <3>3, <3>4, <3>6 DEF OwnerInv
      <4>2. ~InCompletion(c, f)
        BY <1>3, <4>1
      <4> QED
        BY <1>2, <3>1, <3>2, <4>1, <4>2
    <3> QED
      BY <2>1, <3>4, <3>5, <3>6
  <2>4. CASE f > end
    <3>1. ~(f =< next) /\ ~(f =< end)
      BY <1>2, <2>1, <2>4
    <3>2. released[c][f] = 0
      BY <1>1, <1>2, <1>4, <2>4 DEF OwnerInv
    <3>3. f \notin ToSet(fds[c]) /\ ~InCompletion(c, f)
      BY <1>3, <3>1
    <3> QED
      BY <1>2, <3>1, <3>2, <3>3
  <2>5. f =< next \/ (next < f /\ f =< end) \/ f > end
    BY <1>2, <2>1
  <2> QED
    BY <2>2, <2>3, <2>4, <2>5
<1>5. IsInjective(fds[c]) /\ (phase[c] = "gone" => fds[c] = <<>> /\ completions[c] = <<>>)
  BY <1>1 DEF OwnerInv
<1> QED
  BY <1>4, <1>5

\* Every descriptor the kernel passed is in one place and is handed over or
\* closed once: none leaks and none is closed twice, whether its completion
\* is queued, refused, discarded or its connection destroyed.
THEOREM DescriptorsOwned == Spec => []DescriptorsOwnedOnce
BY IInvHolds, DescriptorsFollow, PTL

-----------------------------------------------------------------------------
(* The refinement of Delivery. *)

\* Only the peer writes messages.
LEMMA WritersWrite ==
  ASSUME Next, messages' # messages
  PROVE  \E c \in Conn, size \in Size, count \in Rights : Write(c, size, count)
<1>1. ASSUME NEW c \in Conn, Sends(c) \/ Hangup(c) \/ KernelEnds(c) \/ KernelCancels(c)
      PROVE  messages' = messages
  BY <1>1 DEF Sends, Send, Hangup, KernelEnds, KernelCancels, peer
<1>2. ASSUME NEW c \in Conn, Receives(c) PROVE messages' = messages
  <2>1. PICK b \in Buffer, upto \in 1..MaxBytes[c], last \in 0..MaxFds[c] :
          KernelReceives(c, b, upto, last)
    BY <1>2 DEF Receives
  <2> QED
    BY <2>1 DEF KernelReceives, peer
<1>3. ASSUME NEW c \in Conn, Completes(c) PROVE messages' = messages
  BY <1>3 DEF Completes, Disconnected, Refused, Ingest, Discard, peer
<1>4. ASSUME NEW c \in Conn, Frames(c) PROVE messages' = messages
  BY <1>4 DEF Frames, ReleaseLease, Borrow, Drained, Fragment, FillHeader, FillBody, Garbled,
              MessageTooLarge, Terminal, peer
<1>5. ASSUME NEW c \in Conn, Dispatches(c) \/ BeginClose(c) \/ Destroy(c)
      PROVE  messages' = messages
  BY <1>5 DEF Dispatches, Handle, HandlerFails, Rejects, Empty, Terminal, BeginClose, Destroy,
              peer
<1>6. CASE Release
  BY <1>6 DEF Release, peer
<1> QED
  BY <1>1, <1>2, <1>3, <1>4, <1>5, <1>6 DEF Next

\* Only the dispatcher hands messages over.
LEMMA TakersLog ==
  ASSUME Next, log' # log
  PROVE  \E c \in Conn : \E fate \in Fate : Takes(c, fate) /\ messages' = messages
<1>1. ASSUME NEW c \in Conn, Completes(c) PROVE log' = log
  BY <1>1 DEF Completes, Disconnected, Refused, Ingest, Discard, outcome
<1>2. ASSUME NEW c \in Conn, Frames(c) PROVE log' = log
  BY <1>2 DEF Frames, ReleaseLease, Borrow, Drained, Fragment, FillHeader, FillBody, Garbled,
              MessageTooLarge, Terminal, outcome
<1>3. ASSUME NEW c \in Conn, Dispatches(c), log' # log
      PROVE  \E fate \in Fate : Takes(c, fate) /\ messages' = messages
  BY <1>3 DEF Dispatches, Handle, HandlerFails, Rejects, Empty, Terminal, peer, Fate
<1>4. ASSUME NEW c \in Conn, BeginClose(c) \/ Destroy(c) PROVE log' = log
  BY <1>4 DEF BeginClose, Destroy
<1>5. CASE Release
  BY <1>5 DEF Release, outcome
<1>6. PeerOrKernel => log' = log
  BY PeerOrKernelStays DEF outcome
<1> QED
  BY <1>1, <1>2, <1>3, <1>4, <1>5, <1>6 DEF Next, PeerOrKernel

LEMMA WritePosts ==
  ASSUME PeerSide, NEW c \in Conn, NEW size \in Size, NEW count \in Rights,
         Write(c, size, count)
  PROVE  D!Post(c)
<1>1. PICK m : messages' = [messages EXCEPT ![c] = Append(messages[c], m)]
  BY DEF Write
<1>2. messages \in [Conn -> Seq(Posting)] /\ log' = log /\ PeerSide
  BY DEF Write, PeerSide, PeerTypes, outcome
<1>3. PICK n \in Nat : n = Len(messages[c]) /\ DOMAIN messages[c] = 1..n
  BY <1>2
<1>4. /\ messages'[c] = Append(messages[c], m) /\ DOMAIN messages'[c] = 1..(n + 1)
      /\ \A i \in 1..n : messages'[c][i] = messages[c][i]
      /\ messages'[c][n + 1] = m
      /\ \A d \in Conn : d # c => messages'[d] = messages[d]
  BY <1>1, <1>2, <1>3
<1>5. PICK old : old = Posted[c] /\ old = [i \in 1..n |-> Content(messages[c][i])]
  BY <1>3 DEF Posted
<1>6. PICK new : new = Posted'[c] /\ new = [i \in 1..(n + 1) |-> Content(messages'[c][i])]
  BY <1>4 DEF Posted
<1>7. old \in Seq({Content(messages[c][i]) : i \in 1..n}) /\ Len(old) = n
  BY <1>5
<1>8. Len(new) = n + 1
  BY <1>6
<1>9. new = Append(old, new[n + 1])
  <2>1. /\ Append(old, new[n + 1]) = [i \in 1..(n + 1) |-> IF i = n + 1 THEN new[n + 1]
                                                                      ELSE old[i]]
    BY <1>7
  <2>2. \A i \in 1..(n + 1) : new[i] = IF i = n + 1 THEN new[n + 1] ELSE old[i]
    BY <1>4, <1>5, <1>6
  <2> QED
    BY <1>6, <2>1, <2>2
<1>10. DOMAIN Posted = Conn /\ DOMAIN Posted' = Conn
       /\ \A d \in Conn : d # c => Posted'[d] = Posted[d]
  BY <1>4 DEF Posted
<1>11. Posted' = [Posted EXCEPT ![c] = Append(old, new[n + 1])]
  <2>1. Posted = [d \in Conn |-> Posted[d]] /\ Posted' = [d \in Conn |-> Posted'[d]]
    BY DEF Posted
  <2> QED
    BY <1>6, <1>9, <1>10, <2>1
<1> QED
  BY <1>2, <1>5, <1>6, <1>7, <1>8, <1>11 DEF D!Post

LEMMA TakesHands ==
  ASSUME KernelSide, RightsTypes, OutcomeTypes, ThreadInv, NEW c \in Conn, NEW fate \in Fate,
         Takes(c, fate), StreamInv(c), QueueInv(c), MessageInv, messages' = messages
  PROVE  D!Hand(c, fate)
<1>1. PICK k \in Nat :
        /\ k = Len(log[c]) /\ k < Len(messages[c]) /\ k + 1 \in DOMAIN messages[c]
        /\ log' = [log EXCEPT ![c] = Append(log[c],
             [message |-> Content(messages[c][k + 1]), outcome |-> fate])]
  BY TakesNext
<1>2. messages[c] \in Seq(Posting)
  BY DEF KernelSide, PeerSide, PeerTypes
<1>3. Posted[c][k + 1] = Content(messages[c][k + 1]) /\ Len(Posted[c]) = Len(messages[c])
  BY <1>1, <1>2 DEF Posted
<1>4. Posted' = Posted
  BY DEF Posted
<1> QED
  BY <1>1, <1>3, <1>4 DEF D!Hand

LEMMA DeliverySteps == ASSUME IInv, Next PROVE D!Next \/ UNCHANGED D!vars
<1>1. /\ KernelSide /\ PeerSide /\ RightsTypes /\ OutcomeTypes /\ ThreadInv /\ MessageInv
      /\ \A c \in Conn : StreamInv(c) /\ QueueInv(c)
  BY IInvParts DEF KernelSide
<1>2. CASE messages' # messages
  <2>1. PICK c \in Conn, size \in Size, count \in Rights : Write(c, size, count)
    BY <1>2, WritersWrite
  <2>2. D!Post(c)
    BY <1>1, <2>1, WritePosts
  <2> QED
    BY <2>2 DEF D!Next
<1>3. CASE messages' = messages /\ log' # log
  <2>1. PICK c \in Conn : \E fate \in Fate : Takes(c, fate)
    BY <1>3, TakersLog
  <2>2. PICK fate \in Fate : Takes(c, fate)
    BY <2>1
  <2>3. D!Hand(c, fate)
    BY <1>1, <1>3, <2>2, TakesHands
  <2> QED
    BY <2>3 DEF D!Next
<1>4. CASE messages' = messages /\ log' = log
  <2>1. Posted' = Posted
    BY <1>4 DEF Posted
  <2> QED
    BY <1>4, <2>1 DEF D!vars
<1> QED
  BY <1>2, <1>3, <1>4

\* The receive side implements Delivery: what is handed to the application is
\* a prefix of what the peer posted, message by message with its bytes and
\* its descriptors.  Fragments, leased blocks, buffers that return to the
\* kernel and a separate descriptor queue never show.
THEOREM Refinement == Spec => Delivered
<1>1. Init => D!Init
  <2>1. ASSUME Init PROVE D!Init
    <3>1. \A c \in Conn : messages[c] = <<>>
      BY <2>1 DEF Init
    <3>2. \A c \in Conn : [i \in DOMAIN messages[c] |-> Content(messages[c][i])] = <<>>
      BY <3>1
    <3>3. Posted = [c \in Conn |-> <<>>]
      BY <3>2 DEF Posted
    <3> QED
      BY <2>1, <3>3 DEF Init, D!Init
  <2> QED
    BY <2>1
<1>2. IInv /\ [Next]_vars => [D!Next]_(D!vars)
  <2>1. ASSUME UNCHANGED vars PROVE UNCHANGED D!vars
    <3>1. messages' = messages /\ log' = log
      BY <2>1 DEF vars, peer, outcome
    <3> QED
      BY <3>1 DEF D!vars, Posted
  <2> QED
    BY <2>1, DeliverySteps
<1> QED
  BY <1>1, <1>2, IInvHolds, PTL DEF Spec, Delivered, D!Spec

=============================================================================
