------------------------------ MODULE Connection ------------------------------
(***************************************************************************)
(* The connections of one reactor and the io_uring operations issued for   *)
(* them: `connection.Actor`, the byte accounting of `tx.Queue`, the slot   *)
(* directory `reactor.Slots`, and the Reactor calls that attach, close and *)
(* destroy a peer.                                                         *)
(*                                                                         *)
(* The kernel is the set `ops` of outstanding operations.  An operation is *)
(* outstanding from the moment its SQE is prepared until its terminating   *)
(* CQE has been applied, and is known only by the token in its user_data.  *)
(* Between those moments the kernel reads and writes the connection record *)
(* the token names, so a record must outlive its operations.               *)
(*                                                                         *)
(* No schedule is assumed: any caller may make any call its guards permit, *)
(* and CQEs arrive in any order.  An SQE that finds the submission queue   *)
(* full leaves everything as it was, so it is a stuttering step here.      *)
(* Module Driver refines this one with the queues and the loop of the      *)
(* server.                                                                 *)
(***************************************************************************)
EXTENDS Naturals, FiniteSets, ActorState

CONSTANTS Slot,            \* indices of the slot directory
          MaxGeneration,   \* generations run from 1 to this and wrap to 1
          ByteBudget       \* transmit_byte_budget of every connection

ASSUME GenerationAssumption == MaxGeneration \in Nat \ {0}
ASSUME BudgetAssumption == ByteBudget \in Nat \ {0}

VARIABLES live,        \* live[s]: slot s is active and owns a record
          generation,  \* generation[s]: the latest generation of slot s
          state,       \* state[s]: the actor's statechart
          queued,      \* queued[s]: bytes in the transmit queue
          flight,      \* flight[s]: bytes of the active send, 0 for none
          parked,      \* parked[s]: s is in the deferred-receive FIFO
          ops          \* tokens of the outstanding operations

vars == <<live, generation, state, queued, flight, parked, ops>>

Op == {"receive", "send", "cancel"}

Token == [op: Op, slot: Slot, gen: 1..MaxGeneration]

\* completion.nextGeneration: wraps past the largest value, and zero, the
\* generation of a slot never used, is skipped.
NextGeneration(g) == IF g = MaxGeneration THEN 1 ELSE g + 1

TokenOf(op, s) == [op |-> op, slot |-> s, gen |-> generation[s]]

\* Slots.routeToken: an inactive slot or another generation routes nowhere.
Routes(t) == live[t.slot] /\ generation[t.slot] = t.gen

\* Variant: teardown forgets that the cancel SQE is an operation too.
CanDeinitIgnoringCancel(s) == ~state[s].receiving /\ flight[s] = 0

\* Actor.canDeinit: no region has an operation in flight.
CanDeinit(s) == /\ ~state[s].receiving
                /\ state[s].phase # "canceling"
                /\ flight[s] = 0

Init == /\ live = [s \in Slot |-> FALSE]
        /\ generation = [s \in Slot |-> 0]
        /\ state = [s \in Slot |-> Initial]
        /\ queued = [s \in Slot |-> 0]
        /\ flight = [s \in Slot |-> 0]
        /\ parked = [s \in Slot |-> FALSE]
        /\ ops = {}

(***************************************************************************)
(* Admission and teardown.                                                 *)
(***************************************************************************)

\* Reactor.attachReceiving.  A peer whose accept completion raced with a
\* shutdown request is admitted and at once moved to closing.
Attach(s, phase) ==
  /\ ~live[s]
  /\ live' = [live EXCEPT ![s] = TRUE]
  /\ generation' = [generation EXCEPT ![s] = NextGeneration(@)]
  /\ state' = [state EXCEPT ![s] = [phase |-> phase, receiving |-> TRUE]]
  /\ ops' = ops \cup {[op |-> "receive", slot |-> s,
                       gen |-> NextGeneration(generation[s])]}
  /\ UNCHANGED <<queued, flight, parked>>

\* The admission fails after the slot was acquired: the slot is free again
\* but its generation has advanced.
AttachFails(s) ==
  /\ ~live[s]
  /\ generation' = [generation EXCEPT ![s] = NextGeneration(@)]
  /\ UNCHANGED <<live, state, queued, flight, parked, ops>>

\* Actor.beginClose, for one peer or, at shutdown, for all of them.
BeginClose(S) ==
  /\ \A s \in S : live[s]
  /\ state' = [s \in Slot |-> IF s \in S THEN Step(state[s], "begin_close")
                                         ELSE state[s]]
  /\ UNCHANGED <<live, generation, queued, flight, parked, ops>>

\* Reactor.prepareClose: closing, and a descriptor-wide cancel SQE when a
\* receive or a send is outstanding.  A second cancel is refused.
PrepareClose(s) ==
  /\ live[s]
  /\ IF state[s].receiving \/ flight[s] > 0
     THEN /\ Accepts(state[s], "request_cancel")
          /\ state' = [state EXCEPT ![s] = Step(@, "request_cancel")]
          /\ ops' = ops \cup {TokenOf("cancel", s)}
     ELSE /\ state' = [state EXCEPT ![s] = Step(@, "begin_close")]
          /\ UNCHANGED ops
  /\ UNCHANGED <<live, generation, queued, flight, parked>>

\* Reactor.destroyPeer: refused while busy; drops the deferred-receive entry,
\* frees the slot, the queue and the record.
DestroyPeer(s) ==
  /\ live[s] /\ CanDeinit(s)
  /\ live' = [live EXCEPT ![s] = FALSE]
  /\ state' = [state EXCEPT ![s] = Initial]
  /\ queued' = [queued EXCEPT ![s] = 0]
  /\ flight' = [flight EXCEPT ![s] = 0]
  /\ parked' = [parked EXCEPT ![s] = FALSE]
  /\ UNCHANGED <<generation, ops>>

(***************************************************************************)
(* Preparing work.                                                         *)
(***************************************************************************)

\* Variant: only closing refuses output, so it may follow the terminal error.
EnqueueUntilClosing(s, n) ==
  /\ live[s] /\ ~IsClosing(state[s])
  /\ queued[s] + n <= ByteBudget
  /\ queued' = [queued EXCEPT ![s] = @ + n]
  /\ UNCHANGED <<live, generation, state, flight, parked, ops>>

\* Actor.enqueue: ordinary output is accepted only while open.
Enqueue(s, n) ==
  /\ live[s] /\ state[s].phase = "open"
  /\ queued[s] + n <= ByteBudget
  /\ queued' = [queued EXCEPT ![s] = @ + n]
  /\ UNCHANGED <<live, generation, state, flight, parked, ops>>

\* SendState.prepare: one send at a time, of the first n queued bytes.
PrepareSend(s, n) ==
  /\ live[s] /\ state[s].phase \in {"open", "draining"}
  /\ flight[s] = 0 /\ n \in 1..queued[s]
  /\ flight' = [flight EXCEPT ![s] = n]
  /\ ops' = ops \cup {TokenOf("send", s)}
  /\ UNCHANGED <<live, generation, state, queued, parked>>

\* One entry of the deferred-receive sweep: a peer that is no longer open
\* leaves the FIFO without an SQE.
SweepDeferred(s) ==
  /\ parked[s]
  /\ parked' = [parked EXCEPT ![s] = FALSE]
  /\ state' = [state EXCEPT ![s] = Step(@, "arm_receive")]
  /\ ops' = IF Accepts(state[s], "arm_receive")
            THEN ops \cup {TokenOf("receive", s)} ELSE ops
  /\ UNCHANGED <<live, generation, queued, flight>>

(***************************************************************************)
(* Applying completions.                                                   *)
(***************************************************************************)

\* What the multishot receive can report, and the statechart input each
\* result is mapped to by Actor.completeReceive.
ReceiveResult == {"data_more", "data_last", "zero", "canceled", "nobufs",
                  "failed"}

ReceiveInput(st, result) ==
  CASE result = "data_more" -> "receive_continues"
    [] result \in {"data_last", "nobufs"} -> "receive_stops"
    [] result = "canceled" /\ st.phase # "open" -> "receive_stops"
    [] OTHER -> "receive_closes"

\* What the dispatch of a received batch does to the connection: requests
\* are handled and n reply bytes queued; a protocol error of n bytes is
\* posted, and closes at once when it does not fit; or the batch is empty,
\* which is how a multishot recvmsg reports the end of the stream.
Outcome == [kind: {"handled", "error", "eof"}, n: 0..ByteBudget]

\* Core.dispatchRequests and terminalRequest on the actor left by the CQE:
\* once the phase is not open nothing is dispatched, only an end of stream
\* still closes.
Dispatched(st, bytes, outcome) ==
  CASE outcome.kind = "eof" ->
         [state |-> Step(st, "begin_close"), queued |-> bytes]
    [] outcome.kind = "handled" /\ st.phase = "open" ->
         [state |-> st, queued |-> bytes + outcome.n]
    [] outcome.kind = "error" /\ st.phase = "open" ->
         IF outcome.n > 0 /\ bytes + outcome.n <= ByteBudget
         THEN [state |-> [st EXCEPT !.phase = "draining"],
               queued |-> bytes + outcome.n]
         ELSE [state |-> [st EXCEPT !.phase = "closing"], queued |-> bytes]
    [] OTHER -> [state |-> st, queued |-> bytes]

\* Variant: only ENOBUFS parks, so a multishot that ends with data is lost.
ParksOnlyExhausted(result, st) ==
  result = "nobufs" /\ st.phase = "open"

\* Driver.completeRouted: an open connection whose receive ended is deferred.
Parks(result, st) == st.phase = "open" /\ ~st.receiving

\* Driver.completeRouted for a receive CQE: the statechart advances, data is
\* dispatched, and a connection left open without a receive is parked.
CompleteReceive(t, result, outcome) ==
  LET s == t.slot
      st == Step(state[s], ReceiveInput(state[s], result))
      after == IF result \in {"data_more", "data_last"}
               THEN Dispatched(st, queued[s], outcome)
               ELSE [state |-> st, queued |-> queued[s]]
  IN /\ outcome.kind = "handled" => queued[s] + outcome.n <= ByteBudget
     /\ state' = [state EXCEPT ![s] = after.state]
     /\ queued' = [queued EXCEPT ![s] = after.queued]
     /\ parked' = [parked EXCEPT ![s] =
          @ \/ Parks(result, after.state)]
     /\ ops' = IF result = "data_more" THEN ops ELSE ops \ {t}
     /\ UNCHANGED <<live, generation, flight>>

\* Variant: a drained connection is not told that its last byte left.
AfterSendWithoutDrain(st, written, left) ==
  IF written = 0 THEN Step(st, "send_fails") ELSE st

\* The statechart after a send CQE.
AfterSend(st, written, left) ==
  CASE written = 0 -> Step(st, "send_fails")
    [] written > 0 /\ left = 0 -> Step(st, "send_drained")
    [] OTHER -> st

\* Actor.completeSend: a partial write leaves the rest queued, the last byte
\* of a draining connection closes it, and a failure (written = 0) keeps the
\* queue and closes.
CompleteSend(t, written) ==
  LET s == t.slot
      left == queued[s] - written
  IN /\ written <= flight[s]
     /\ queued' = [queued EXCEPT ![s] = left]
     /\ flight' = [flight EXCEPT ![s] = 0]
     /\ state' = [state EXCEPT ![s] = AfterSend(@, written, left)]
     /\ ops' = ops \ {t}
     /\ UNCHANGED <<live, generation, parked>>

\* Actor.completeCancel: whatever the result, the cancel is over.
CompleteCancel(t) ==
  /\ state' = [state EXCEPT ![t.slot] = Step(@, "cancel_completes")]
  /\ ops' = ops \ {t}
  /\ UNCHANGED <<live, generation, queued, flight, parked>>

\* A CQE is routed by its token.  One that routes nowhere is consumed without
\* touching any record.
Complete(t, result, outcome, written) ==
  IF ~Routes(t)
  THEN /\ ops' = ops \ {t}
       /\ UNCHANGED <<live, generation, state, queued, flight, parked>>
  ELSE CASE t.op = "receive" -> CompleteReceive(t, result, outcome)
         [] t.op = "send" -> CompleteSend(t, written)
         [] t.op = "cancel" -> CompleteCancel(t)

Next ==
  \/ \E s \in Slot :
       \/ \E phase \in {"open", "closing"} : Attach(s, phase)
       \/ AttachFails(s)
       \/ PrepareClose(s)
       \/ DestroyPeer(s)
       \/ SweepDeferred(s)
       \/ \E n \in 1..ByteBudget : Enqueue(s, n) \/ PrepareSend(s, n)
  \/ \E S \in SUBSET Slot : BeginClose(S)
  \/ \E t \in ops, result \in ReceiveResult, outcome \in Outcome,
        written \in 0..ByteBudget : Complete(t, result, outcome, written)

Spec == Init /\ [][Next]_vars

-----------------------------------------------------------------------------

TypeOK ==
  /\ live \in [Slot -> BOOLEAN]
  /\ generation \in [Slot -> 0..MaxGeneration]
  /\ state \in [Slot -> State]
  /\ queued \in [Slot -> 0..ByteBudget]
  /\ flight \in [Slot -> 0..ByteBudget]
  /\ parked \in [Slot -> BOOLEAN]
  /\ ops \subseteq Token

\* The region of a live connection that owns an operation of kind op.
RegionActive(op, s) ==
  \/ op = "receive" /\ state[s].receiving
  \/ op = "send" /\ flight[s] > 0
  \/ op = "cancel" /\ state[s].phase = "canceling"

\* The statechart and the kernel never disagree: the outstanding operations
\* are exactly those of the active regions of live connections, under the
\* current generation.  So a peer has at most one receive, one send and one
\* cancel, a destroyed record is referenced by no operation, and a recycled
\* slot inherits none.
OperationsMirrored ==
  ops = {t \in Token : Routes(t) /\ RegionActive(t.op, t.slot)}

\* An open connection always has its receive armed or is parked in the FIFO
\* that rearms it; a parked one has none armed, so no peer holds two
\* receives and no open peer is left deaf.
OpenIsHeard ==
  \A s \in Slot : live[s] =>
    /\ state[s].phase = "open" => state[s].receiving \/ parked[s]
    /\ parked[s] => ~state[s].receiving

\* A connection draining its terminal error still has bytes to send: without
\* them no completion would ever move it to closing.
DrainingHasOutput ==
  \A s \in Slot : live[s] /\ state[s].phase = "draining" => queued[s] > 0

\* A step of a connection past open that keeps its slot keeps it past open,
\* and adds no output; once closing it stays so and starts no receive or send.
TearsDown(s) ==
  live[s] /\ live'[s] /\ state[s].phase # "open" =>
    /\ state'[s].phase # "open"
    /\ queued'[s] <= queued[s]
    /\ IsClosing(state[s]) =>
         /\ IsClosing(state'[s])
         /\ state'[s].receiving => state[s].receiving
         /\ flight'[s] > 0 => flight'[s] = flight[s]

\* After the terminal error is queued nothing may follow it, and closing
\* permits teardown only: until the slot is freed the phase never returns,
\* the queue never grows, and closing starts no receive and no send.
TeardownOnly == [][\A s \in Slot : TearsDown(s)]_vars

=============================================================================
