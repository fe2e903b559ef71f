------------------------------ MODULE Receive -------------------------------
(***************************************************************************)
(* The receive side of the connections of a reactor: bytes that the kernel *)
(* puts into provided buffers become messages, and the descriptors that    *)
(* come with them a queue from which each message takes its own.           *)
(*                                                                         *)
(* One thread handles one receive completion at a time, in the steps of    *)
(* `step`: the framer yields a message (next, header, body), the           *)
(* dispatcher hands it over (handle), at the end the buffer goes back      *)
(* (release).  Between any two of them the kernel may fill a buffer it     *)
(* was given.  A byte is its connection and its place in that stream.      *)
(***************************************************************************)
EXTENDS Naturals, Sequences, Functions, SequencesExt

CONSTANTS
  Conn,
  Buffer, BufferSize,       \* the provided buffers and their payload
  Block, BlockSize,         \* the shared blocks for fragments
  InlineSize,               \* Framer.inline_scratch
  HeaderSize,
  FdBudget,                 \* descriptors a connection may queue
  ControlCapacity,          \* descriptors one receive can carry
  Size, Rights,             \* bound: bytes and descriptors of a message
  MaxBytes, MaxFds,         \* bound: what the peer of a connection sends
  None, Junk

Area == Buffer \cup Block \cup Conn   \* a connection names its inline scratch

ASSUME SizesAssumption ==
  /\ {BufferSize, BlockSize, InlineSize, HeaderSize} \subseteq Nat \ {0}
  /\ HeaderSize =< InlineSize
  /\ {FdBudget, ControlCapacity} \subseteq Nat
  /\ Size \subseteq Nat \ {0}
  /\ Rights \subseteq Nat
  /\ MaxBytes \in [Conn -> Nat]
  /\ MaxFds \in [Conn -> Nat]

ASSUME NamesAssumption ==
  /\ Buffer \cap Block = {} /\ Buffer \cap Conn = {} /\ Block \cap Conn = {}
  /\ None \notin Area
  /\ Junk \notin Conn \X Nat

VARIABLES
  messages,     \* messages[c]: what the peer wrote
  sent,         \* sent[c]: bytes of it in the socket or beyond
  attached,     \* attached[c][f]: the byte descriptor f travels with
  hung,         \* hung[c]: the peer has hung up
  armed,        \* armed[c]: the kernel holds a multishot receive
  read,         \* read[c]: bytes moved out of the socket
  passed,       \* passed[c]: descriptors moved out of the socket
  completions,  \* completions[c]: receive CQEs not handled yet
  ring,         \* ring[b]: how often buffer b is on offer to the kernel
  memory,       \* memory[a]: the bytes of an area
  step, input, message,     \* the completion that is handled: where the
                            \* thread is, the rest of the payload, the message
  scratch, lease, buffered, releaseNext,          \* the framer of c
  free,         \* the blocks nobody leases
  fds,          \* fds[c]: received descriptors, oldest first
  released,     \* released[c][f]: how often f was closed or handed over
  log,          \* log[c]: what became of the messages of c
  phase, failures           \* the lifecycle of c and its terminal causes

peer == <<messages, sent, attached, hung>>
kernel == <<armed, read, passed, completions, ring>>
thread == <<step, input, message>>
framer == <<scratch, lease, buffered, releaseNext, free>>
rights == <<fds, released>>
outcome == <<log, phase, failures>>
vars == <<peer, kernel, memory, thread, framer, rights, outcome>>

AreaSize(a) == CASE a \in Buffer -> BufferSize
                 [] a \in Block -> BlockSize
                 [] a \in Conn -> InlineSize

Capacity(a) == IF a = None THEN 0 ELSE AreaSize(a)

Least(m, n) == IF m < n THEN m ELSE n

Fd(c) == 1..MaxFds[c]

\* The counts of [c] with one more for the descriptors first+1..last.
Counted(counts, first, last) ==
  [f \in DOMAIN counts |->
     IF first < f /\ f =< last THEN counts[f] + 1 ELSE counts[f]]

-----------------------------------------------------------------------------
(* The peer, which sends what it likes.                                    *)

Bytes(c) == IF messages[c] = <<>> THEN 0 ELSE Last(messages[c]).to
Descriptors(c) == IF messages[c] = <<>> THEN 0 ELSE Last(messages[c]).fdTo

Write(c, size, count) ==
  /\ ~hung[c]
  /\ Bytes(c) + size =< MaxBytes[c]
  /\ Descriptors(c) + count =< MaxFds[c]
  /\ messages' = [messages EXCEPT ![c] =
       Append(@, [peer |-> c, from |-> Bytes(c), to |-> Bytes(c) + size,
                  fdFrom |-> Descriptors(c), fdTo |-> Descriptors(c) + count])]
  /\ UNCHANGED <<sent, attached, hung, kernel, memory, thread, framer, rights,
                 outcome>>

Send(c, upto, last) ==
  /\ ~hung[c]
  /\ sent[c] < upto /\ upto =< Bytes(c)
  /\ Len(attached[c]) =< last /\ last =< Descriptors(c)
  /\ sent' = [sent EXCEPT ![c] = upto]
  /\ attached' = [attached EXCEPT ![c] =
       @ \o [i \in 1..(last - Len(attached[c])) |-> sent[c] + 1]]
  /\ UNCHANGED <<messages, hung, kernel, memory, thread, framer, rights,
                 outcome>>

Hangup(c) ==
  /\ ~hung[c]
  /\ hung' = [hung EXCEPT ![c] = TRUE]
  /\ UNCHANGED <<messages, sent, attached, kernel, memory, thread, framer,
                 rights, outcome>>

-----------------------------------------------------------------------------
(* The kernel.                                                             *)

Completion(c, b, upto, got, last) ==
  [buffer |-> b, from |-> read[c], to |-> upto,
   fdFrom |-> passed[c], fdTo |-> got, fdEnd |-> last]

\* A receive fills a buffer that is on offer, with the descriptors that the
\* peer attached to those bytes; it does not read past a second set of them,
\* and those that do not fit the control buffer are dropped (MSG_CTRUNC).
KernelReceives(c, b, upto, last) ==
  /\ armed[c]
  /\ ring[b] > 0
  /\ read[c] < upto /\ upto =< sent[c] /\ upto =< read[c] + BufferSize
  /\ passed[c] =< last /\ last =< Len(attached[c])
  /\ \A f \in passed[c]+1..Len(attached[c]) :
       /\ f =< last <=> attached[c][f] =< upto
       /\ f =< last => attached[c][f] = attached[c][passed[c] + 1]
  /\ LET got == Least(last, passed[c] + ControlCapacity) IN
       /\ completions' = [completions EXCEPT ![c] =
            Append(@, Completion(c, b, upto, got, last))]
       /\ released' = [released EXCEPT ![c] = Counted(@, got, last)]
  /\ memory' = [memory EXCEPT ![b] =
       [i \in DOMAIN @ |-> IF i =< upto - read[c] THEN <<c, read[c] + i>>
                                                  ELSE @[i]]]
  /\ ring' = [ring EXCEPT ![b] = @ - 1]
  /\ read' = [read EXCEPT ![c] = upto]
  /\ passed' = [passed EXCEPT ![c] = last]
  /\ UNCHANGED <<peer, armed, thread, framer, fds, outcome>>

\* The peer has hung up and everything it sent was read: the completion of
\* the end has an empty payload in a buffer, or no buffer.
KernelEnds(c) ==
  /\ armed[c] /\ hung[c] /\ read[c] = sent[c]
  /\ armed' = [armed EXCEPT ![c] = FALSE]
  /\ \E b \in Buffer \cup {None} :
       /\ completions' = [completions EXCEPT ![c] =
            Append(@, Completion(c, b, read[c], passed[c], passed[c]))]
       /\ b # None => ring[b] > 0
       /\ ring' = IF b = None THEN ring ELSE [ring EXCEPT ![b] = @ - 1]
  /\ UNCHANGED <<peer, read, passed, memory, thread, framer, rights, outcome>>

\* The cancel of a closing connection takes effect.
KernelCancels(c) ==
  /\ armed[c] /\ phase[c] = "closing"
  /\ armed' = [armed EXCEPT ![c] = FALSE]
  /\ UNCHANGED <<peer, read, passed, completions, ring, memory, thread, framer,
                 rights, outcome>>

-----------------------------------------------------------------------------
(* A receive completion reaches the library.                               *)

\* The connection is not dispatched any more.
Ends(c) == phase' = [phase EXCEPT ![c] = IF @ = "open" THEN "closing" ELSE @]

\* A terminal result, with its cause.
Fails(c, cause) ==
  /\ Ends(c)
  /\ failures' = [failures EXCEPT ![c] = @ \cup {cause}]

Dropped(c) == completions' = [completions EXCEPT ![c] = Tail(@)]

\* Variant: its descriptors leak.
ReturnsBuffer(c, cqe) ==
  /\ ring' = [ring EXCEPT ![cqe.buffer] = @ + 1]
  /\ UNCHANGED released

\* The descriptors of a completion are closed and its buffer is returned.
ClosesRights(c, cqe) ==
  /\ released' = [released EXCEPT ![c] = Counted(@, cqe.fdFrom, cqe.fdTo)]
  /\ ring' = [ring EXCEPT ![cqe.buffer] = @ + 1]

Pending(c) == step = "idle" /\ completions[c] # <<>> /\ phase[c] # "gone"

IsEnd(cqe) == cqe.to = cqe.from

\* The end of the stream closes the connection; its buffer, if it took one,
\* is returned.
Disconnected(c) ==
  /\ Pending(c)
  /\ LET cqe == Head(completions[c]) IN
       /\ IsEnd(cqe)
       /\ ring' = IF cqe.buffer = None THEN ring
                   ELSE [ring EXCEPT ![cqe.buffer] = @ + 1]
  /\ Dropped(c)
  /\ Ends(c)
  /\ UNCHANGED <<peer, armed, read, passed, memory, thread, framer, rights, log,
                 failures>>

Truncated(cqe) == cqe.fdTo < cqe.fdEnd

OverBudget(c, cqe) == Len(fds[c]) + cqe.fdTo - cqe.fdFrom > FdBudget

\* A completion that lost descriptors, or brings too many, is refused whole.
Refused(c) ==
  /\ Pending(c)
  /\ LET cqe == Head(completions[c]) IN
       /\ ~IsEnd(cqe)
       /\ \/ Truncated(cqe) /\ Fails(c, "InvalidMessage")
          \/ /\ ~Truncated(cqe) /\ OverBudget(c, cqe)
             /\ Fails(c, "DescriptorBudgetExceeded")
       /\ ClosesRights(c, cqe)
  /\ Dropped(c)
  /\ UNCHANGED <<peer, armed, read, passed, memory, thread, framer, fds, log>>

\* The descriptors are queued, then the payload is dispatched; that of a
\* connection that is not open is dropped.
Ingest(c) ==
  /\ Pending(c)
  /\ LET cqe == Head(completions[c]) IN
       /\ ~IsEnd(cqe)
       /\ ~Truncated(cqe) /\ ~OverBudget(c, cqe)
       /\ fds' = [fds EXCEPT ![c] =
            @ \o [i \in 1..(cqe.fdTo - cqe.fdFrom) |-> cqe.fdFrom + i]]
       /\ input' = [conn |-> c, buffer |-> cqe.buffer,
                    at |-> 0, end |-> cqe.to - cqe.from]
  /\ step' = IF phase[c] = "open" THEN "next" ELSE "release"
  /\ Dropped(c)
  /\ UNCHANGED <<peer, armed, read, passed, ring, memory, message, framer,
                 released, outcome>>

\* Receiver.stop instead closes what a closing connection still receives.
Discard(c) ==
  /\ Pending(c) /\ phase[c] = "closing"
  /\ ~IsEnd(Head(completions[c]))
  /\ ClosesRights(c, Head(completions[c]))
  /\ Dropped(c)
  /\ UNCHANGED <<peer, armed, read, passed, memory, thread, framer, fds,
                 outcome>>

\* The payload was dispatched, or was not worth it, and its buffer goes back.
Release ==
  /\ step = "release"
  /\ ring' = [ring EXCEPT ![input.buffer] = @ + 1]
  /\ step' = "idle"
  /\ input' = None
  /\ UNCHANGED <<peer, armed, read, passed, completions, memory, message,
                 framer, rights, outcome>>

-----------------------------------------------------------------------------
(* Framer.next for the connection c whose payload is handled.              *)

Rest == input.end - input.at

Length(m) == m.to - m.from

\* Variant: a message without a body is not one.
HeadersWithBody(area, at) ==
  {m \in UNION {ToSet(messages[c]) : c \in Conn} :
     /\ Length(m) > HeaderSize
     /\ \A i \in 1..HeaderSize : memory[area][at + i] = <<m.peer, m.from + i>>}

\* The messages whose header starts at an offset of an area; a size that does
\* not cover the header is not one.
Headers(area, at) ==
  {m \in UNION {ToSet(messages[c]) : c \in Conn} :
     /\ Length(m) >= HeaderSize
     /\ \A i \in 1..HeaderSize : memory[area][at + i] = <<m.peer, m.from + i>>}

\* Variant: the buffer goes back at once, and again at the end.
TerminalReturning(c, cause) ==
  /\ Fails(c, cause)
  /\ ring' = [ring EXCEPT ![input.buffer] = @ + 1]
  /\ step' = "release"
  /\ message' = None
  /\ UNCHANGED <<peer, armed, read, passed, completions, memory, input, log>>

\* The rest of the payload of a connection that fails is dropped.
Terminal(c, cause) ==
  /\ Fails(c, cause)
  /\ step' = "release"
  /\ message' = None
  /\ UNCHANGED <<peer, kernel, memory, input, log>>

Yields(m, area, at) ==
  /\ message' = [header |-> m, area |-> area, at |-> at]
  /\ step' = "handle"

\* Variant: it is given back and still leased.
ReleaseLeaseKeeping(c) ==
  /\ step = "next" /\ c = input.conn /\ releaseNext[c]
  /\ free' = free \cup {lease[c]}
  /\ releaseNext' = [releaseNext EXCEPT ![c] = FALSE]
  /\ UNCHANGED <<peer, kernel, memory, thread, scratch, lease, buffered, rights, outcome>>

\* The block of the last message is given back before the next one.
ReleaseLease(c) ==
  /\ step = "next" /\ c = input.conn /\ releaseNext[c]
  /\ free' = free \cup {lease[c]}
  /\ lease' = [lease EXCEPT ![c] = None]
  /\ scratch' = [scratch EXCEPT ![c] = c]
  /\ releaseNext' = [releaseNext EXCEPT ![c] = FALSE]
  /\ UNCHANGED <<peer, kernel, memory, thread, buffered, rights, outcome>>

\* Whether a frame starts in the receive buffer itself.
Fresh(c) ==
  step = "next" /\ c = input.conn /\ ~releaseNext[c] /\ buffered[c] = 0

\* The whole message is in the receive buffer and is lent from there.
Borrow(c) ==
  /\ Fresh(c) /\ Rest >= HeaderSize
  /\ \E m \in Headers(input.buffer, input.at) :
       /\ Length(m) =< Rest
       /\ Yields(m, input.buffer, input.at)
       /\ input' = [input EXCEPT !.at = @ + Length(m)]
  /\ UNCHANGED <<peer, kernel, memory, framer, rights, outcome>>

Drained(c) ==
  /\ Fresh(c) /\ Rest = 0
  /\ step' = "release"
  /\ UNCHANGED <<peer, kernel, memory, input, message, framer, rights, outcome>>

\* ensureCapacity: the scratch is large enough, or becomes the inline one, or
\* a leased block.
FitsInline(c, required) == required =< InlineSize /\ lease[c] = None

EnsureCapacity(c, required) ==
  \/ /\ Capacity(scratch[c]) >= required
     /\ UNCHANGED <<scratch, lease, free>>
  \/ /\ Capacity(scratch[c]) < required /\ FitsInline(c, required)
     /\ scratch' = [scratch EXCEPT ![c] = c]
     /\ UNCHANGED <<lease, free>>
  \/ /\ Capacity(scratch[c]) < required /\ ~FitsInline(c, required)
     /\ lease[c] = None /\ required =< BlockSize
     /\ \E b \in free :
          /\ free' = free \ {b}
          /\ lease' = [lease EXCEPT ![c] = b]
          /\ scratch' = [scratch EXCEPT ![c] = b]

NoCapacity(c, required) ==
  /\ Capacity(scratch[c]) < required /\ ~FitsInline(c, required)
  /\ lease[c] # None \/ required > BlockSize \/ free = {}

\* Variant: the fragment stays behind.
CopyPayload(c, count) ==
  /\ memory' = [memory EXCEPT ![scratch'[c]] =
       [i \in DOMAIN @ |->
          IF buffered[c] < i /\ i =< buffered[c] + count
            THEN memory[input.buffer][input.at + i - buffered[c]]
          ELSE @[i]]]
  /\ input' = [input EXCEPT !.at = @ + count]

\* The next `count` bytes of the payload follow the fragment, which moves
\* along if the scratch is a new one.
Copy(c, count) ==
  /\ memory' = [memory EXCEPT ![scratch'[c]] =
       [i \in DOMAIN @ |->
          IF i =< buffered[c] THEN memory[scratch[c]][i]
          ELSE IF i =< buffered[c] + count
               THEN memory[input.buffer][input.at + i - buffered[c]]
          ELSE @[i]]]
  /\ input' = [input EXCEPT !.at = @ + count]

\* Variant: it is not kept once its header is complete.
IsHeaderFragment == Rest < HeaderSize

\* A message that goes on in the next receive buffer is kept.
IsFragment ==
  \/ Rest < HeaderSize
  \/ /\ Rest >= HeaderSize
     /\ \E m \in Headers(input.buffer, input.at) : Rest < Length(m)

Fragment(c) ==
  /\ Fresh(c) /\ Rest > 0 /\ IsFragment
  /\ EnsureCapacity(c, Rest)
  /\ Copy(c, Rest)
  /\ buffered' = [buffered EXCEPT ![c] = Rest]
  /\ step' = "header"
  /\ UNCHANGED <<peer, kernel, message, releaseNext, rights, outcome>>

Resumes(c) ==
  step = "next" /\ c = input.conn /\ ~releaseNext[c] /\ buffered[c] > 0

FillHeader(c) ==
  /\ Resumes(c) \/ (step = "header" /\ c = input.conn)
  /\ LET count == IF buffered[c] < HeaderSize
                    THEN Least(HeaderSize - buffered[c], Rest) ELSE 0
     IN  /\ UNCHANGED <<scratch, lease, free>>
         /\ Copy(c, count)
         /\ buffered' = [buffered EXCEPT ![c] = @ + count]
         /\ step' = IF buffered[c] + count < HeaderSize THEN "release" ELSE "body"
  /\ UNCHANGED <<peer, kernel, message, releaseNext, rights, outcome>>

FillBody(c) ==
  /\ step = "body" /\ c = input.conn
  /\ \E m \in Headers(scratch[c], 0) :
       LET count == Least(Length(m) - buffered[c], Rest) IN
       /\ EnsureCapacity(c, Length(m))
       /\ Copy(c, count)
       /\ IF buffered[c] + count < Length(m)
            THEN /\ buffered' = [buffered EXCEPT ![c] = @ + count]
                 /\ step' = "release"
                 /\ UNCHANGED <<message, releaseNext>>
            ELSE /\ buffered' = [buffered EXCEPT ![c] = 0]
                 /\ releaseNext' = [releaseNext EXCEPT ![c] = lease'[c] # None]
                 /\ Yields(m, scratch'[c], 0)
  /\ UNCHANGED <<peer, kernel, rights, outcome>>

\* No header where one must be.
Garbled(c) ==
  /\ \/ Fresh(c) /\ Rest >= HeaderSize /\ Headers(input.buffer, input.at) = {}
     \/ step = "body" /\ c = input.conn /\ Headers(scratch[c], 0) = {}
  /\ Terminal(c, "InvalidSize")
  /\ UNCHANGED <<framer, rights>>

MessageTooLarge(c) ==
  /\ \/ Fresh(c) /\ Rest > 0 /\ IsFragment /\ NoCapacity(c, Rest)
     \/ /\ step = "body" /\ c = input.conn
        /\ \E m \in Headers(scratch[c], 0) : NoCapacity(c, Length(m))
  /\ Terminal(c, "MessageTooLarge")
  /\ UNCHANGED <<framer, rights>>

-----------------------------------------------------------------------------
(* The dispatcher.                                                         *)

Needed(m) == m.fdTo - m.fdFrom

\* The message and the oldest descriptors leave the receive side: to the
\* handler, or, for a destroyed target, to be closed.
Takes(c, fate) ==
  LET m == message.header IN
  /\ step = "handle" /\ c = input.conn
  /\ Needed(m) =< Len(fds[c])
  /\ log' = [log EXCEPT ![c] = Append(@,
       [message |->
          [bytes |-> [i \in 1..Length(m) |->
                        memory[message.area][message.at + i]],
           fds |-> SubSeq(fds[c], 1, Needed(m))],
        outcome |-> fate])]
  /\ fds' = [fds EXCEPT ![c] = SubSeq(@, Needed(m) + 1, Len(@))]
  /\ released' = [released EXCEPT ![c] =
       [f \in DOMAIN @ |->
          IF \E i \in 1..Needed(m) : fds[c][i] = f THEN @[f] + 1 ELSE @[f]]]
  /\ message' = None

\* It is handled, or its target was destroyed, and the next one follows.
Handle(c, fate) ==
  /\ Takes(c, fate)
  /\ step' = "next"
  /\ UNCHANGED <<peer, kernel, memory, input, framer, phase, failures>>

\* The handler takes the message and fails, or posts an error and stops.
HandlerFails(c) ==
  /\ Takes(c, "handled")
  /\ Fails(c, "HandlerFailed")
  /\ step' = "release"
  /\ UNCHANGED <<peer, kernel, memory, input, framer>>

\* The target is unknown, or an argument is not valid: nothing is taken.
Rejects(c) ==
  /\ step = "handle" /\ c = input.conn
  /\ Terminal(c, "UnknownObject")
  /\ UNCHANGED <<framer, rights>>

\* The decoder finds fewer descriptors than the message has arguments.
Empty(c) ==
  /\ step = "handle" /\ c = input.conn
  /\ Needed(message.header) > Len(fds[c])
  /\ Terminal(c, "Empty")
  /\ UNCHANGED <<framer, rights>>

\* The application closes a connection, between completions or in a handler;
\* the rest of a payload that is being dispatched still is.
BeginClose(c) ==
  /\ step \in {"idle", "handle"}
  /\ phase[c] = "open"
  /\ phase' = [phase EXCEPT ![c] = "closing"]
  /\ UNCHANGED <<peer, kernel, memory, thread, framer, rights, log, failures>>

\* destroyPeer: the framer's block goes back, queued descriptors are closed.
Destroy(c) ==
  /\ step = "idle" /\ phase[c] = "closing"
  /\ ~armed[c] /\ completions[c] = <<>>
  /\ free' = free \cup ({lease[c]} \ {None})
  /\ lease' = [lease EXCEPT ![c] = None]
  /\ scratch' = [scratch EXCEPT ![c] = None]
  /\ buffered' = [buffered EXCEPT ![c] = 0]
  /\ releaseNext' = [releaseNext EXCEPT ![c] = FALSE]
  /\ released' = [released EXCEPT ![c] =
       [f \in DOMAIN @ |->
          IF \E i \in DOMAIN fds[c] : fds[c][i] = f THEN @[f] + 1 ELSE @[f]]]
  /\ fds' = [fds EXCEPT ![c] = <<>>]
  /\ phase' = [phase EXCEPT ![c] = "gone"]
  /\ UNCHANGED <<peer, kernel, memory, thread, log, failures>>

-----------------------------------------------------------------------------
Init ==
  /\ messages = [c \in Conn |-> <<>>]
  /\ sent = [c \in Conn |-> 0]
  /\ attached = [c \in Conn |-> <<>>]
  /\ hung = [c \in Conn |-> FALSE]
  /\ armed = [c \in Conn |-> TRUE]
  /\ read = [c \in Conn |-> 0]
  /\ passed = [c \in Conn |-> 0]
  /\ completions = [c \in Conn |-> <<>>]
  /\ ring = [b \in Buffer |-> 1]
  /\ memory = [a \in Area |-> [i \in 1..AreaSize(a) |-> Junk]]
  /\ step = "idle" /\ input = None /\ message = None
  /\ scratch = [c \in Conn |-> None]
  /\ lease = [c \in Conn |-> None]
  /\ buffered = [c \in Conn |-> 0]
  /\ releaseNext = [c \in Conn |-> FALSE]
  /\ free = Block
  /\ fds = [c \in Conn |-> <<>>]
  /\ released = [c \in Conn |-> [f \in Fd(c) |-> 0]]
  /\ log = [c \in Conn |-> <<>>]
  /\ phase = [c \in Conn |-> "open"]
  /\ failures = [c \in Conn |-> {}]

Sends(c) == \E upto \in 1..MaxBytes[c], last \in 0..MaxFds[c] : Send(c, upto, last)

Receives(c) ==
  \E b \in Buffer, upto \in 1..MaxBytes[c], last \in 0..MaxFds[c] :
    KernelReceives(c, b, upto, last)

Completes(c) == Disconnected(c) \/ Refused(c) \/ Ingest(c) \/ Discard(c)

Frames(c) ==
  \/ ReleaseLease(c) \/ Borrow(c) \/ Drained(c) \/ Fragment(c)
  \/ FillHeader(c) \/ FillBody(c) \/ Garbled(c) \/ MessageTooLarge(c)

Fate == {"handled", "discarded"}

Dispatches(c) ==
  \/ \E fate \in Fate : Handle(c, fate)
  \/ HandlerFails(c) \/ Rejects(c) \/ Empty(c)

Next ==
  \/ \E c \in Conn, size \in Size, count \in Rights : Write(c, size, count)
  \/ \E c \in Conn : \/ Sends(c) \/ Hangup(c)
                     \/ Receives(c) \/ KernelEnds(c) \/ KernelCancels(c)
                     \/ Completes(c) \/ Frames(c) \/ Dispatches(c)
                     \/ BeginClose(c) \/ Destroy(c)
  \/ Release

\* The peer sends what it wrote, the kernel receives and cancels what it can,
\* and the loop handles completions to their end.
Fairness ==
  /\ \A c \in Conn : /\ WF_vars(Sends(c))
                     /\ WF_vars(Receives(c))
                     /\ WF_vars(KernelEnds(c))
                     /\ WF_vars(KernelCancels(c))
                     /\ WF_vars(Completes(c))
                     /\ WF_vars(Frames(c))
                     /\ WF_vars(Dispatches(c))
  /\ WF_vars(Release)

Spec == Init /\ [][Next]_vars
FairSpec == Spec /\ Fairness

-----------------------------------------------------------------------------
Phase == {"open", "closing", "gone"}
Step == {"idle", "next", "header", "body", "handle", "release"}

Posting == [peer : Conn, from : Nat, to : Nat, fdFrom : Nat, fdTo : Nat]
Cqe == [buffer : Buffer \cup {None}, from : Nat, to : Nat,
        fdFrom : Nat, fdTo : Nat, fdEnd : Nat]
Byte == (Conn \X Nat) \cup {Junk}
Payload == [conn : Conn, buffer : Buffer, at : Nat, end : Nat]
Slice == [header : Posting, area : Area, at : Nat]

ASSUME NothingAssumption == None \notin Payload \cup Slice

Entry == [message : [bytes : Seq(Byte), fds : Seq(Nat)], outcome : Fate]
Cause == {"InvalidMessage", "DescriptorBudgetExceeded", "InvalidSize",
          "MessageTooLarge", "HandlerFailed", "UnknownObject", "Empty"}

\* Types and bounds: a payload fits its buffer, a fragment its scratch.
TypeOK ==
  /\ messages \in [Conn -> Seq(Posting)]
  /\ sent \in [Conn -> Nat] /\ read \in [Conn -> Nat]
  /\ passed \in [Conn -> Nat]
  /\ attached \in [Conn -> Seq(Nat)]
  /\ hung \in [Conn -> BOOLEAN] /\ armed \in [Conn -> BOOLEAN]
  /\ completions \in [Conn -> Seq(Cqe)]
  /\ ring \in [Buffer -> Nat]
  /\ DOMAIN memory = Area /\ \A a \in Area : memory[a] \in [1..AreaSize(a) -> Byte]
  /\ step \in Step
  /\ input \in Payload \cup {None}
  /\ message \in Slice \cup {None}
  /\ scratch \in [Conn -> Area \cup {None}]
  /\ lease \in [Conn -> Block \cup {None}]
  /\ buffered \in [Conn -> Nat] /\ releaseNext \in [Conn -> BOOLEAN]
  /\ free \subseteq Block
  /\ fds \in [Conn -> Seq(Nat)]
  /\ DOMAIN released = Conn /\ \A c \in Conn : released[c] \in [Fd(c) -> Nat]
  /\ log \in [Conn -> Seq(Entry)]
  /\ phase \in [Conn -> Phase]
  /\ failures \in [Conn -> SUBSET Cause]
  /\ \A c \in Conn : buffered[c] =< Capacity(scratch[c])
  /\ input # None => input.at =< input.end /\ input.end =< BufferSize

\* A buffer is on offer to the kernel once, or is held by one completion or
\* by the payload that is dispatched: it is returned exactly once.
Holders(b) ==
  {h \in UNION {{c} \X DOMAIN completions[c] : c \in Conn} :
     completions[h[1]][h[2]].buffer = b}
    \cup (IF input # None /\ input.buffer = b THEN {<<None, 0>>} ELSE {})

BuffersReturnedOnce ==
  \A b \in Buffer : \/ ring[b] = 1 /\ Holders(b) = {}
                    \/ ring[b] = 0 /\ \E h \in Holders(b) : Holders(b) = {h}

\* A block is free or leased by one connection, which uses it as its scratch;
\* no block stays with a connection that is gone.
BlocksOwnedOnce ==
  /\ free = Block \ Range(lease)
  /\ \A c, d \in Conn : lease[c] = lease[d] /\ c # d => lease[c] = None
  /\ \A c \in Conn : /\ scratch[c] \in {lease[c], c}
                     /\ lease[c] # None => scratch[c] = lease[c]
                     /\ phase[c] = "gone" => lease[c] = None

\* Between completions an open connection holds a block only for the fragment
\* of a message that does not fit the inline scratch.
BlocksHoldFragments ==
  step = "idle" =>
    \A c \in Conn : phase[c] = "open" /\ lease[c] # None =>
      /\ buffered[c] > 0
      /\ \E i \in DOMAIN messages[c] :
           /\ i = Len(log[c]) + 1
           /\ Length(messages[c][i]) > InlineSize

\* Every descriptor that left the socket has one place: a completion, the
\* queue, or it was handed over or closed, once.  A connection that is gone
\* keeps none.
InCompletion(c, f) ==
  \E i \in DOMAIN completions[c] :
    completions[c][i].fdFrom < f /\ f =< completions[c][i].fdTo

DescriptorsOwnedOnce ==
  \A c \in Conn :
    /\ IsInjective(fds[c])
    /\ phase[c] = "gone" => fds[c] = <<>> /\ completions[c] = <<>>
    /\ \A f \in Fd(c) :
         LET queued == f \in ToSet(fds[c])
             pending == InCompletion(c, f)
         IN  /\ released[c][f] =< 1
             /\ f > passed[c] => ~queued /\ ~pending /\ released[c][f] = 0
             /\ f =< passed[c] =>
                  \/ queued /\ ~pending /\ released[c][f] = 0
                  \/ ~queued /\ pending /\ released[c][f] = 0
                  \/ ~queued /\ ~pending /\ released[c][f] = 1

\* So far the peer has kept to the protocol: it writes whole headers, and as a
\* transmit queue promises of it (TxQueue, DescriptorsLeadBytes) the
\* descriptors of a message left no later than its first byte.
KeepsToProtocol(c) ==
  \A i \in DOMAIN messages[c] :
    LET m == messages[c][i] IN
    /\ Length(m) >= HeaderSize
    /\ m.from < sent[c] =>
         /\ m.fdTo =< Len(attached[c])
         /\ \A f \in 1..m.fdTo : attached[c][f] =< m.from + 1

\* Such a peer is never refused for its framing or for a missing descriptor,
\* however its bytes and descriptors are cut up.
PeerIsUnderstood ==
  \A c \in Conn : KeepsToProtocol(c) => failures[c] \cap {"InvalidSize", "Empty"} = {}

\* The receive side delivers the messages as they were posted.
Content(m) ==
  [bytes |-> [i \in 1..Length(m) |-> <<m.peer, m.from + i>>],
   fds |-> [i \in 1..Needed(m) |-> m.fdFrom + i]]

Posted == [c \in Conn |-> [i \in DOMAIN messages[c] |-> Content(messages[c][i])]]

D == INSTANCE Delivery WITH Outcome <- Fate, posted <- Posted, handed <- log

Delivered == D!Spec

\* A message of a peer that keeps to the protocol is taken, or its connection
\* closes.
MessagesArrive ==
  \A c \in Conn : \A k \in 1..MaxBytes[c] :
    KeepsToProtocol(c) /\ Len(messages[c]) >= k
      ~> (Len(log[c]) >= k \/ phase[c] # "open")

=============================================================================
