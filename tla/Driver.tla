-------------------------------- MODULE Driver --------------------------------
(***************************************************************************)
(* The server's event loop over one ring: `server.Driver`, the             *)
(* deferred-receive FIFO of `io_uring.Reactor`, `io_uring.Listener`, and   *)
(* the submission and completion queues between them and the kernel.       *)
(*                                                                         *)
(* One turn of the loop, in the order of `pc`:                             *)
(*                                                                         *)
(*   wait       the caller waits for CQEs or has a reason not to           *)
(*   dispatch   a batch of CQEs is handled, from the head of the queue     *)
(*   prepare    the pending FIFO is worked off into SQEs                   *)
(*   sweep      parked receives are rearmed, if a buffer has come back     *)
(*   submit     the SQ is handed to the kernel                             *)
(*                                                                         *)
(* A batch is the CQEs the caller found, so one posted after the wait is   *)
(* handled in a later turn at the earliest and the kernel acts only during *)
(* wait.  Either FIFO stops where the SQ is full and resumes in the next   *)
(* turn.                                                                   *)
(*                                                                         *)
(* Hidden behind its queues the loop implements Connection.                *)
(***************************************************************************)
EXTENDS Naturals, Sequences, FiniteSets, SequencesExt, ActorState

CONSTANTS Slot, MaxGeneration, ByteBudget,
          SqCapacity,     \* entries of the submission queue
          BufferCount,    \* provided receive buffers of the reactor
          Events          \* the optional events a run explores

EventKind == {"eof", "receive_ends", "receive_fails", "send_fails",
              "accept_ends", "accept_fails", "admission_fails",
              "protocol_error", "output", "shutdown"}

ASSUME SlotAssumption == IsFiniteSet(Slot)
ASSUME GenerationAssumption == MaxGeneration \in Nat \ {0}
ASSUME BudgetAssumption == ByteBudget \in Nat \ {0}
ASSUME CapacityAssumption == SqCapacity \in Nat \ {0}
ASSUME BufferAssumption == BufferCount \in Nat \ {0}
ASSUME EventAssumption == Events \subseteq EventKind

VARIABLES
  live, generation, state, queued, flight,    \* as in Connection
  deferred,    \* the deferred-receive FIFO, a sequence of slots
  permit,      \* receive_rearm_pending: a buffer came back since the sweep
  pending,     \* the FIFO of peers whose work is to be prepared
  shutdown,    \* requestShutdown was called
  listener,    \* the listener's statechart
  pc,          \* where the loop is
  due,         \* the caller is to prepare before it takes the next batch
  sq,          \* SQEs prepared and not submitted
  inflight,    \* operations the kernel has
  cq           \* CQEs not yet handled

peerVars == <<live, generation, state, queued, flight>>
loopVars == <<deferred, permit, pending, shutdown, listener, pc, due>>
vars == <<peerVars, loopVars, sq, inflight, cq>>

\* The listener's operations; a listener is armed once, so they need no
\* generation.
Accept == [op |-> "accept"]
AcceptCancel == [op |-> "accept_cancel"]

\* A CQE: the token it answers, what it says, and whether more will follow.
Cqe(token, result, more, n) ==
  [token |-> token, result |-> result, more |-> more, n |-> n]

\* The positions of the CQEs that end their operation, and those operations.
Ending == {i \in DOMAIN cq : ~cq[i].more}

Ended == {cq[i].token : i \in Ending}

\* The operations that still owe a terminating CQE to the loop.
Outstanding == ToSet(sq) \cup inflight \cup Ended

Peers == INSTANCE Connection WITH
  parked <- [s \in Slot |-> s \in ToSet(deferred)],
  ops <- {t \in Outstanding : t.op \in {"receive", "send", "cancel"}}

HoldsBuffer(c) == c.result \in {"data", "eof"}

\* A buffer is with the kernel unless a CQE that selected it is unhandled.
FreeBuffers ==
  BufferCount - Cardinality({i \in DOMAIN cq : HoldsBuffer(cq[i])})

\* IoUring.get_sqe finds an entry; otherwise SubmissionQueueFull.
HasSqe == Len(sq) < SqCapacity

PendingOf(s) == [slot |-> s, gen |-> generation[s]]

\* Variant: a peer is queued once more each time it is scheduled.
ScheduledAgain(queue, entry) == Append(queue, entry)

\* Driver.schedule: one node for each slot, however often it is scheduled.
Scheduled(queue, entry) ==
  IF \E i \in DOMAIN queue : queue[i].slot = entry.slot
  THEN queue ELSE Append(queue, entry)

\* Reactor.deferReceive: one node for each peer.
Parked(queue, s) == IF s \in ToSet(queue) THEN queue ELSE Append(queue, s)

\* The caller has prepared the accept and is about to submit it.
Init == /\ live = [s \in Slot |-> FALSE]
        /\ generation = [s \in Slot |-> 0]
        /\ state = [s \in Slot |-> Initial]
        /\ queued = [s \in Slot |-> 0]
        /\ flight = [s \in Slot |-> 0]
        /\ deferred = <<>>
        /\ permit = FALSE
        /\ pending = <<>>
        /\ shutdown = FALSE
        /\ listener = [phase |-> "open", accepting |-> TRUE]
        /\ pc = "submit"
        /\ due = FALSE
        /\ sq = <<Accept>>
        /\ inflight = {}
        /\ cq = <<>>

(***************************************************************************)
(* Dispatch: Driver.completeRouted on the CQE at the head of the queue.    *)
(***************************************************************************)

Handles(op) == /\ pc = "dispatch" \/ (pc = "wait" /\ ~due)
               /\ cq # <<>> /\ Head(cq).token.op = op
               /\ cq' = Tail(cq)
               /\ pc' = "dispatch"
               /\ UNCHANGED <<shutdown, due, inflight>>

ResultOf(c) ==
  IF ~HoldsBuffer(c) THEN c.result
  ELSE IF c.more THEN "data_more" ELSE "data_last"

\* What dispatching the batch of a CQE may come to; a reply and an error
\* event are one byte each.
OutcomesOf(c) ==
  IF c.result = "eof" THEN {[kind |-> "eof", n |-> 0]}
  ELSE {[kind |-> "handled", n |-> 0]}
       \cup {[kind |-> "handled", n |-> 1] : e \in Events \cap {"output"}}
       \cup {[kind |-> "error", n |-> 1] : e \in Events \cap {"protocol_error"}}

\* The buffer is returned before the peer is parked or scheduled, and every
\* return permits a sweep.
HandleReceive ==
  /\ Handles("receive")
  /\ LET c == Head(cq)
         s == c.token.slot
         st == Step(state[s], Peers!ReceiveInput(state[s], ResultOf(c)))
     IN \E outcome \in OutcomesOf(c) :
          LET after == IF HoldsBuffer(c)
                       THEN Peers!Dispatched(st, queued[s], outcome)
                       ELSE [state |-> st, queued |-> queued[s]]
          IN /\ outcome.kind = "handled" => queued[s] + outcome.n <= ByteBudget
             /\ state' = [state EXCEPT ![s] = after.state]
             /\ queued' = [queued EXCEPT ![s] = after.queued]
             /\ permit' = (permit \/ HoldsBuffer(c))
             /\ deferred' = IF Peers!Parks(ResultOf(c), after.state)
                            THEN Parked(deferred, s) ELSE deferred
             /\ pending' = Scheduled(pending, PendingOf(s))
  /\ UNCHANGED <<live, generation, flight, listener, sq>>

\* Variant: a peer is scheduled again once all it had was written.
HandleSendOfAll ==
  /\ Handles("send")
  /\ LET c == Head(cq)
         s == c.token.slot
         left == queued[s] - c.n
     IN /\ queued' = [queued EXCEPT ![s] = left]
        /\ flight' = [flight EXCEPT ![s] = 0]
        /\ state' = [state EXCEPT ![s] = Peers!AfterSend(@, c.n, left)]
        /\ pending' = IF left = 0 THEN Scheduled(pending, PendingOf(s)) ELSE pending
  /\ UNCHANGED <<live, generation, deferred, permit, listener, sq>>

HandleSend ==
  /\ Handles("send")
  /\ LET c == Head(cq)
         s == c.token.slot
         left == queued[s] - c.n
     IN /\ queued' = [queued EXCEPT ![s] = left]
        /\ flight' = [flight EXCEPT ![s] = 0]
        /\ state' = [state EXCEPT ![s] = Peers!AfterSend(@, c.n, left)]
        /\ pending' = Scheduled(pending, PendingOf(s))
  /\ UNCHANGED <<live, generation, deferred, permit, listener, sq>>

\* Variant: the end of the cancel does not schedule the peer.
HandleCancelUnscheduled ==
  /\ Handles("cancel")
  /\ LET s == Head(cq).token.slot
     IN state' = [state EXCEPT ![s] = Step(@, "cancel_completes")]
  /\ UNCHANGED <<live, generation, queued, flight, deferred, permit, pending,
                 listener, sq>>

HandleCancel ==
  /\ Handles("cancel")
  /\ LET s == Head(cq).token.slot
     IN /\ state' = [state EXCEPT ![s] = Step(@, "cancel_completes")]
        /\ pending' = Scheduled(pending, PendingOf(s))
  /\ UNCHANGED <<live, generation, queued, flight, deferred, permit,
                 listener, sq>>

\* Variant: an accept that raced with shutdown is admitted as any other.
PhaseOfAnyAdmitted == "open"

\* An accept that completes after a shutdown request is admitted and closed.
PhaseOfAdmitted == IF shutdown THEN "closing" ELSE "open"

\* SharedClients.admit: the peer takes a slot, its first receive and a place
\* in the pending FIFO, or nothing but the next generation of the slot.
Admitted(s) ==
  /\ HasSqe
  /\ live' = [live EXCEPT ![s] = TRUE]
  /\ state' = [state EXCEPT ![s] = [phase |-> PhaseOfAdmitted,
                                    receiving |-> TRUE]]
  /\ sq' = Append(sq, [op |-> "receive", slot |-> s, gen |-> generation'[s]])
  /\ pending' = Scheduled(pending, [slot |-> s, gen |-> generation'[s]])

NotAdmitted ==
  /\ ~HasSqe \/ "admission_fails" \in Events
  /\ UNCHANGED <<live, state, sq, pending>>

\* A peer without credentials is turned away before it takes a slot.
Unidentified ==
  /\ "admission_fails" \in Events
  /\ UNCHANGED <<generation, live, state, sq, pending>>

HandleAccepted ==
  /\ Handles("accept") /\ Head(cq).result = "accepted"
  /\ listener' = [listener EXCEPT !.accepting = Head(cq).more]
  /\ \/ \E s \in {r \in Slot : ~live[r]} :
          /\ generation' = [generation EXCEPT ![s] = Peers!NextGeneration(@)]
          /\ Admitted(s) \/ NotAdmitted
     \/ Unidentified
  /\ UNCHANGED <<queued, flight, deferred, permit>>

\* An accept that failed or was cancelled ends the multishot.
HandleAcceptEnd ==
  /\ Handles("accept") /\ Head(cq).result # "accepted"
  /\ listener' = [listener EXCEPT !.accepting = FALSE]
  /\ UNCHANGED <<peerVars, deferred, permit, pending, sq>>

HandleAcceptCancel ==
  /\ Handles("accept_cancel")
  /\ listener' = [listener EXCEPT !.phase = "closing"]
  /\ UNCHANGED <<peerVars, deferred, permit, pending, sq>>

Handle == \/ HandleReceive \/ HandleSend \/ HandleCancel
          \/ HandleAccepted \/ HandleAcceptEnd \/ HandleAcceptCancel

(***************************************************************************)
(* The application, between two calls of the driver.                       *)
(***************************************************************************)

\* After a call outside a batch the caller prepares without waiting.
Calls == pc \in {"wait", "dispatch"} /\ due' = (pc = "wait")

\* Variant: the event is queued and the peer left to its next completion.
ProduceUnscheduled(s) ==
  /\ Calls /\ "output" \in Events
  /\ live[s] /\ state[s].phase = "open" /\ queued[s] < ByteBudget
  /\ queued' = [queued EXCEPT ![s] = @ + 1]
  /\ UNCHANGED <<live, generation, state, flight, deferred, permit, pending,
                 shutdown, listener, pc, sq, inflight, cq>>

\* A handler or the publication pass queues an event for a peer and
\* schedules it.  The pass, part of a turn, also schedules a peer whose budget
\* is used up and leaves the event for a later one.
Produce(s) ==
  /\ Calls /\ "output" \in Events
  /\ live[s] /\ state[s].phase = "open"
  /\ queued[s] < ByteBudget \/ pc = "dispatch" \/ due
  /\ queued' = [queued EXCEPT ![s] = IF @ < ByteBudget THEN @ + 1 ELSE @]
  /\ pending' = Scheduled(pending, PendingOf(s))
  /\ UNCHANGED <<live, generation, state, flight, deferred, permit, shutdown,
                 listener, pc, sq, inflight, cq>>

\* Variant: shutdown closes the peers but leaves them to their next event.
RequestShutdownQuietly ==
  /\ Calls /\ ~shutdown /\ "shutdown" \in Events
  /\ shutdown' = TRUE
  /\ state' = [s \in Slot |-> IF live[s] THEN Step(state[s], "begin_close")
                                         ELSE state[s]]
  /\ UNCHANGED <<live, generation, queued, flight, deferred, permit, pending,
                 listener, pc, sq, inflight, cq>>

\* The peers without a node in the pending FIFO.
Unscheduled == {s \in Slot : live[s] /\ \A e \in ToSet(pending) : e.slot # s}

\* Driver.requestShutdown: every peer is closed and scheduled.
RequestShutdown ==
  /\ Calls /\ ~shutdown /\ "shutdown" \in Events
  /\ shutdown' = TRUE
  /\ state' = [s \in Slot |-> IF live[s] THEN Step(state[s], "begin_close")
                                         ELSE state[s]]
  /\ \E queue \in SetToSeqs({PendingOf(s) : s \in Unscheduled}) :
       pending' = pending \o queue
  /\ UNCHANGED <<live, generation, queued, flight, deferred, permit,
                 listener, pc, sq, inflight, cq>>

(***************************************************************************)
(* Prepare.                                                                *)
(***************************************************************************)

\* Driver.prepare begins with the listener of an endpoint being shut down.
\* Without an SQE for its cancel the call ends at once.
BeginPrepare ==
  /\ pc = "dispatch" \/ (pc = "wait" /\ due)
  /\ due' = FALSE
  /\ LET stopping == shutdown /\ listener.phase = "open"
     IN \/ /\ stopping /\ ~listener.accepting
           /\ listener' = [listener EXCEPT !.phase = "closing"]
           /\ pc' = "prepare" /\ UNCHANGED sq
        \/ /\ stopping /\ listener.accepting /\ HasSqe
           /\ listener' = [listener EXCEPT !.phase = "canceling"]
           /\ sq' = Append(sq, AcceptCancel) /\ pc' = "prepare"
        \/ /\ stopping /\ listener.accepting /\ ~HasSqe
           /\ pc' = "submit" /\ UNCHANGED <<listener, sq>>
        \/ /\ ~stopping
           /\ pc' = "prepare" /\ UNCHANGED <<listener, sq>>
  /\ UNCHANGED <<peerVars, deferred, permit, pending, shutdown, inflight, cq>>

\* The peer at the head of the pending FIFO, if its slot still holds it.
Prepares(s) ==
  /\ pc = "prepare"
  /\ pending # <<>> /\ Head(pending) = PendingOf(s) /\ live[s]

Unchanged == UNCHANGED <<generation, shutdown, listener, pc, due, inflight, cq>>

\* Variant: a closing peer is destroyed whatever is in flight.
DestroyableBusy(s) == IsClosing(state[s])

\* Closing, with nothing in flight.
Destroyable(s) == IsClosing(state[s]) /\ Peers!CanDeinit(s)

\* Variant: the entry of the destroyed peer stays.
StillParked(queue, s) == queue

\* Reactor.removeDeferredReceive, wherever the peer is in the FIFO.
Unparked(queue, s) ==
  IF s \in ToSet(queue)
  THEN RemoveAt(queue, CHOOSE i \in DOMAIN queue : queue[i] = s) ELSE queue

\* Closing and idle: the client is destroyed, and its deferred entry with it.
DestroyHead(s) ==
  /\ Prepares(s)
  /\ Destroyable(s)
  /\ live' = [live EXCEPT ![s] = FALSE]
  /\ state' = [state EXCEPT ![s] = Initial]
  /\ queued' = [queued EXCEPT ![s] = 0]
  /\ deferred' = Unparked(deferred, s)
  /\ pending' = Tail(pending)
  /\ UNCHANGED <<flight, permit, sq>> /\ Unchanged

\* Variant: the peer is cancelled again each time it is scheduled.
NeedsCancelAgain(s) == IsClosing(state[s]) /\ ~Peers!CanDeinit(s)

\* Closing with an operation outstanding: one descriptor-wide cancel.
NeedsCancel(s) == /\ IsClosing(state[s]) /\ ~Peers!CanDeinit(s)
                  /\ ~CancelRequested(state[s])

CancelHead(s) ==
  /\ Prepares(s) /\ NeedsCancel(s) /\ HasSqe
  /\ state' = [state EXCEPT ![s] = Step(@, "request_cancel")]
  /\ sq' = Append(sq, Peers!TokenOf("cancel", s))
  /\ pending' = Tail(pending)
  /\ UNCHANGED <<live, queued, flight, deferred, permit>> /\ Unchanged

\* Variant: the send is prepared whatever is in flight.
NeedsSendRegardless(s) == ~IsClosing(state[s]) /\ queued[s] # 0

\* Output is waiting and nothing is in flight for it.
NeedsSend(s) == ~IsClosing(state[s]) /\ queued[s] # 0 /\ flight[s] = 0

\* The send covers the first blocks of the queue, n of its bytes.
SendHead(s, n) ==
  /\ Prepares(s) /\ NeedsSend(s) /\ HasSqe
  /\ n <= queued[s]
  /\ flight' = [flight EXCEPT ![s] = n]
  /\ sq' = Append(sq, Peers!TokenOf("send", s))
  /\ pending' = Tail(pending)
  /\ UNCHANGED <<live, state, queued, deferred, permit>> /\ Unchanged

\* A peer that is gone, waits for its cancel, or has nothing to send.
SkipHead ==
  /\ pc = "prepare" /\ pending # <<>>
  /\ \A s \in Slot : Prepares(s) =>
       ~Destroyable(s) /\ ~NeedsCancel(s) /\ ~NeedsSend(s)
  /\ pending' = Tail(pending)
  /\ UNCHANGED <<live, state, queued, flight, deferred, permit, sq>>
  /\ Unchanged

\* The FIFO is empty, or its head finds the SQ full and stays.  The sweep
\* takes the permit before it looks at the first parked peer.
EndPending ==
  /\ pc = "prepare"
  /\ pending = <<>> \/ \E s \in Slot : /\ Prepares(s) /\ ~HasSqe
                                       /\ NeedsCancel(s) \/ NeedsSend(s)
  /\ IF permit /\ deferred # <<>>
     THEN pc' = "sweep" /\ permit' = FALSE
     ELSE pc' = "submit" /\ UNCHANGED permit
  /\ UNCHANGED <<peerVars, deferred, pending, shutdown, listener, due, sq,
                 inflight, cq>>

\* Variant: a sweep that stops at a full SQ has used up its permit.
StopSweepForGood == /\ pc' = "submit"
                    /\ UNCHANGED <<permit, state, deferred, sq>>

\* A full SQ gives the permit back and leaves the rest parked.
StopSweep == /\ permit' = TRUE /\ pc' = "submit"
             /\ UNCHANGED <<state, deferred, sq>>

\* Variant: whoever is parked is rearmed.
RearmsAnyone(s) == TRUE

\* A parked peer is rearmed while it is open and has no receive.
Rearms(s) == Accepts(state[s], "arm_receive")

\* One entry of Reactor.prepareDeferredReceives.
SweepHead ==
  /\ pc = "sweep"
  /\ LET s == Head(deferred)
     IN IF Rearms(s) /\ ~HasSqe
        THEN StopSweep
        ELSE /\ deferred' = Tail(deferred)
             /\ pc' = IF Tail(deferred) = <<>> THEN "submit" ELSE "sweep"
             /\ state' = [state EXCEPT ![s] = Step(@, "arm_receive")]
             /\ sq' = IF Rearms(s) THEN Append(sq, Peers!TokenOf("receive", s))
                                   ELSE sq
             /\ UNCHANGED permit
  /\ UNCHANGED <<live, generation, queued, flight, pending, shutdown,
                 listener, due, inflight, cq>>

\* Variant: what did not fit into the SQ is left for the next completion.
PendingAfterPrepareIgnored == shutdown /\ listener.phase = "open"

\* Progress.pending, what is left over for a turn without completions.
PendingAfterPrepare == \/ pending # <<>>
                       \/ permit /\ deferred # <<>>
                       \/ shutdown /\ listener.phase = "open"

\* The caller submits, and if something is left prepares again before it
\* dispatches another batch.
Submit ==
  /\ pc = "submit"
  /\ pc' = "wait"
  /\ inflight' = inflight \cup ToSet(sq)
  /\ sq' = <<>>
  /\ due' = PendingAfterPrepare
  /\ UNCHANGED <<peerVars, deferred, permit, pending, shutdown, listener, cq>>

Prepare == \/ SkipHead \/ EndPending \/ SweepHead
           \/ \E s \in Slot : \/ DestroyHead(s) \/ CancelHead(s)
                              \/ \E n \in 1..ByteBudget : SendHead(s, n)

(***************************************************************************)
(* The kernel.                                                             *)
(***************************************************************************)

Posts(t, result, more, n) ==
  /\ pc = "wait" /\ t \in inflight
  /\ cq' = Append(cq, Cqe(t, result, more, n))
  /\ inflight' = IF more THEN inflight ELSE inflight \ {t}
  /\ UNCHANGED <<peerVars, loopVars, sq>>

\* The cancel for t has been submitted.  A multishot delivers nothing more
\* from then on; what it delivered before is in the CQ.
Doomed(t) ==
  \/ /\ t.op \in {"receive", "send"}
     /\ CancelRequested(state[t.slot])
     /\ Peers!TokenOf("cancel", t.slot) \notin ToSet(sq)
  \/ /\ t.op = "accept"
     /\ listener.phase # "open" /\ AcceptCancel \notin ToSet(sq)

\* Data while a buffer is free, with MORE unless the kernel ends the
\* multishot; the end of the stream takes a buffer for its header; without
\* one the multishot ends with ENOBUFS.
PostReceive(t) ==
  /\ t.op = "receive" /\ ~Doomed(t)
  /\ \/ FreeBuffers > 0 /\ Posts(t, "data", TRUE, 0)
     \/ FreeBuffers > 0 /\ "receive_ends" \in Events
        /\ Posts(t, "data", FALSE, 0)
     \/ FreeBuffers > 0 /\ "eof" \in Events /\ Posts(t, "eof", FALSE, 0)
     \/ FreeBuffers = 0 /\ Posts(t, "nobufs", FALSE, 0)
     \/ "receive_fails" \in Events /\ Posts(t, "failed", FALSE, 0)

\* A send writes a part of what it covers, or fails.
PostSend(t) ==
  /\ t.op = "send"
  /\ \/ \E n \in 1..flight[t.slot] : Posts(t, "sent", FALSE, n)
     \/ "send_fails" \in Events /\ Posts(t, "failed", FALSE, 0)

\* Bound: no more peers than slots, those with their accept in the CQ
\* included.
RoomForPeer ==
  Cardinality({s \in Slot : live[s]})
    + Cardinality({i \in DOMAIN cq : cq[i].result = "accepted"})
    < Cardinality(Slot)

PostAccept(t) ==
  /\ t = Accept /\ ~Doomed(t)
  /\ \/ RoomForPeer /\ Posts(t, "accepted", TRUE, 0)
     \/ RoomForPeer /\ "accept_ends" \in Events
        /\ Posts(t, "accepted", FALSE, 0)
     \/ "accept_fails" \in Events /\ Posts(t, "failed", FALSE, 0)

\* A cancel completes, and so does what it cancelled, in any order.
PostCanceled(t) == Doomed(t) /\ Posts(t, "canceled", FALSE, 0)

PostCancelDone(t) ==
  t.op \in {"cancel", "accept_cancel"} /\ Posts(t, "done", FALSE, 0)

Settle(t) == PostCanceled(t) \/ PostCancelDone(t)

Kernel(t) == PostReceive(t) \/ PostSend(t) \/ PostAccept(t) \/ Settle(t)

\* prepare reports shutdown_complete: the listener and every slot are idle.
ShutdownComplete ==
  /\ shutdown /\ ~listener.accepting /\ listener.phase = "closing"
  /\ \A s \in Slot : ~live[s]

\* Nothing is prepared, submitted or to be handled.
AtRest == pc = "wait" /\ ~due /\ cq = <<>> /\ sq = <<>>

\* After the shutdown the caller has nothing left to turn the loop for.
Finished == ShutdownComplete /\ AtRest /\ UNCHANGED vars

Next == \/ Handle
        \/ \E s \in Slot : Produce(s)
        \/ RequestShutdown
        \/ BeginPrepare \/ Prepare \/ Submit
        \/ \E t \in inflight : Kernel(t)
        \/ Finished

\* The caller keeps turning the loop while it has a reason to: it handles the
\* CQEs it finds, ends a batch, prepares and submits.  The kernel settles the
\* operations it was asked to cancel; it owes nothing else, since a client may
\* neither write nor read.
Fairness ==
  /\ WF_vars(Handle) /\ WF_vars(BeginPrepare)
  /\ WF_vars(Prepare) /\ WF_vars(Submit)
  /\ SF_vars(\E t \in inflight \cap {Accept, AcceptCancel} : Settle(t))
  /\ \A s \in Slot :
       SF_vars(\E t \in inflight \ {Accept, AcceptCancel} :
                 t.slot = s /\ Settle(t))

Spec == Init /\ [][Next]_vars

FairSpec == Spec /\ Fairness

-----------------------------------------------------------------------------

\* The loop implements Connection: whatever it queues, batches and defers,
\* each of its steps is a step of the peers' statecharts or changes nothing
\* of them.
Connections == Peers!Spec

TypeOK ==
  /\ Peers!TypeOK
  /\ deferred \in Seq(Slot)
  /\ permit \in BOOLEAN /\ shutdown \in BOOLEAN /\ due \in BOOLEAN
  /\ pending \in Seq([slot: Slot, gen: 1..MaxGeneration])
  /\ listener \in [phase: {"open", "closing", "canceling"},
                   accepting: BOOLEAN]
  /\ pc \in {"wait", "dispatch", "prepare", "sweep", "submit"}
  /\ Len(sq) <= SqCapacity
  /\ FreeBuffers \in 0..BufferCount

\* No work is forgotten: every peer that has output and no send, or is
\* closing and either idle or without a cancel, is in the pending FIFO.
\* Nothing else would prepare its send, its cancel or its destruction.
PendingCoversWork ==
  \A s \in Slot : live[s] =>
    \/ PendingOf(s) \in ToSet(pending)
    \/ ~NeedsSend(s) /\ ~NeedsCancel(s) /\ ~Destroyable(s)

\* The FIFOs name live peers by their current generation, each at most once,
\* so a recycled slot is never linked into a queue of its predecessor.
QueuesAreFresh ==
  /\ IsInjective(pending) /\ IsInjective(deferred)
  /\ \A entry \in ToSet(pending) : live[entry.slot] /\ entry = PendingOf(entry.slot)
  /\ \A s \in ToSet(deferred) : live[s]

\* The same user_data never stands for two operations at once, wherever they
\* are between the SQ and the handling of their last CQE.
OneOperationPerToken ==
  /\ IsInjective(sq)
  /\ \A i, j \in Ending : cq[i].token = cq[j].token => i = j
  /\ ToSet(sq) \cap inflight = {}
  /\ Ended \cap (ToSet(sq) \cup inflight) = {}

\* Once shutdown was requested no peer is open again, and when it is reported
\* complete the ring holds nothing of the server any more: no SQE, no
\* operation, no CQE.
ShutdownIsQuiet ==
  /\ shutdown => \A s \in Slot : live[s] => IsClosing(state[s])
  /\ ShutdownComplete =>
       sq = <<>> /\ inflight = {} /\ cq = <<>> /\ deferred = <<>>

\* A closing peer is destroyed, whatever was in flight for it.
ClosingEnds == \A s \in Slot : live[s] /\ IsClosing(state[s]) ~> ~live[s]

\* A requested shutdown completes.
ShutdownEnds == shutdown ~> ShutdownComplete

\* Queued output is handed to the kernel unless the peer closes first.
OutputIsSent ==
  \A s \in Slot : live[s] /\ NeedsSend(s)
    ~> flight[s] # 0 \/ IsClosing(state[s]) \/ ~live[s]

\* A returned buffer rearms or drops every peer parked at that time, across
\* as many turns as the SQ takes.
PermitRearms ==
  \A s \in Slot : permit /\ s \in ToSet(deferred) ~> s \notin ToSet(deferred)

(***************************************************************************)
(* What the documentation says and the code does not do.                   *)
(***************************************************************************)

\* Every stream resumes after the buffers are returned: the loop does not
\* rest with a parked peer while the kernel has all buffers.
ParkedStreamsResume ==
  AtRest /\ FreeBuffers = BufferCount => deferred = <<>>

\* The listener keeps one multishot accept active until it is shut down.
ListenerKeepsAccepting ==
  AtRest /\ ~shutdown => listener.accepting

=============================================================================
