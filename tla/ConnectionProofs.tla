--------------------------- MODULE ConnectionProofs ---------------------------
(***************************************************************************)
(* Proofs about Connection for every set of slots, every generation range  *)
(* and every byte budget.                                                  *)
(*                                                                         *)
(* The inductive invariant `Inv` adds to the checked invariants only       *)
(* `Bookkeeping`: what a freed slot looks like, that a live one has a       *)
(* generation, and that an active send never covers more than is queued.   *)
(* Without the first, a slot could be recycled with a region already       *)
(* active and OperationsMirrored would not be preserved by Attach; without *)
(* the last, a completed send could take the queue below zero.             *)
(***************************************************************************)
EXTENDS Connection, TLAPS

\* A freed slot keeps nothing of its last connection, and a send only covers
\* bytes that are queued.
Bookkeeping ==
  \A s \in Slot :
    /\ flight[s] <= queued[s]
    /\ live[s] => generation[s] # 0
    /\ ~live[s] => /\ state[s] = Initial
                   /\ flight[s] = 0
                   /\ queued[s] = 0
                   /\ ~parked[s]

Inv == /\ TypeOK
       /\ OperationsMirrored
       /\ Bookkeeping
       /\ OpenIsHeard
       /\ DrainingHasOutput

\* OperationsMirrored, token by token.
Mirrored(t) == t \in ops <=> Routes(t) /\ RegionActive(t.op, t.slot)

-----------------------------------------------------------------------------
(* The statechart. *)

\* A transition of the statechart, accepted or refused, ends in a state.
LEMMA StepType ==
  ASSUME NEW st \in State, NEW input
  PROVE  Step(st, input) \in State
BY DEF Step, State, Phase, Accepts, ClosedPhase, IsClosing

\* The three inputs a receive CQE is mapped to.
LEMMA ReceiveInputType ==
  ASSUME NEW st, NEW result
  PROVE  ReceiveInput(st, result) \in
           {"receive_continues", "receive_stops", "receive_closes"}
BY DEF ReceiveInput

\* A receive CQE clears the receive region unless the multishot goes on, and
\* leaves the cancel substate alone; only an open phase can stay open.
LEMMA ReceiveStep ==
  ASSUME NEW st \in State, st.receiving, NEW result \in ReceiveResult
  PROVE  LET next == Step(st, ReceiveInput(st, result)) IN
         /\ next \in State
         /\ next.receiving <=> result = "data_more"
         /\ next.phase = "canceling" <=> st.phase = "canceling"
         /\ next.phase \in {"open", "protocol_error", "draining"}
              => next.phase = st.phase
         /\ IsClosing(st) => IsClosing(next)
         /\ st.phase # "open" => next.phase # "open"
BY ZenonT(60) DEF Step, State, Phase, Accepts, ClosedPhase, IsClosing, CancelRequested,
       ReceiveInput, ReceiveResult

\* Dispatching a batch touches neither the receive region nor a closing
\* phase, keeps the queue within its budget, and drains only with output.
LEMMA DispatchStep ==
  ASSUME NEW st \in State, NEW bytes \in 0..ByteBudget,
         NEW outcome \in Outcome,
         outcome.kind = "handled" => bytes + outcome.n <= ByteBudget
  PROVE  LET d == Dispatched(st, bytes, outcome) IN
         /\ d.state \in State
         /\ d.queued \in 0..ByteBudget
         /\ d.queued >= bytes
         /\ d.state.receiving = st.receiving
         /\ d.state.phase = "canceling" <=> st.phase = "canceling"
         /\ d.state.phase = "draining" => st.phase = "draining" \/ d.queued > 0
         /\ st.phase # "open" => d.state.phase # "open" /\ d.queued = bytes
         /\ IsClosing(st) => IsClosing(d.state)
BY BudgetAssumption
   DEF Dispatched, Outcome, Step, State, Phase, Accepts, ClosedPhase,
       IsClosing, CancelRequested

-----------------------------------------------------------------------------
(* Preservation, one lemma per group of actions. *)

\* OperationsMirrored may be shown one token at a time.
LEMMA MirrorPointwise ==
  ASSUME TypeOK
  PROVE  OperationsMirrored <=> \A t \in Token : Mirrored(t)
BY DEF TypeOK, OperationsMirrored, Mirrored

\* A live connection names its operations by a generation that is not zero.
LEMMA LiveToken ==
  ASSUME TypeOK, Bookkeeping, NEW s \in Slot, live[s], NEW op \in Op
  PROVE  TokenOf(op, s) \in Token
BY GenerationAssumption DEF TypeOK, Bookkeeping, TokenOf, Token

\* A step changes the regions and tokens of one slot.
OnlySlot(s) ==
  \A r \in Slot \ {s} :
    /\ live'[r] = live[r]
    /\ generation'[r] = generation[r]
    /\ state'[r] = state[r]
    /\ flight'[r] = flight[r]

\* A step of one slot preserves OperationsMirrored if it does for the tokens
\* of that slot and leaves the other tokens alone.
LEMMA MirrorLocal ==
  ASSUME TypeOK, TypeOK', OperationsMirrored, NEW s \in Slot, OnlySlot(s),
         \A t \in Token : t.slot # s => (t \in ops' <=> t \in ops),
         \A t \in Token : t.slot = s => Mirrored(t)'
  PROVE  OperationsMirrored'
<1>1. ASSUME NEW t \in Token, t.slot # s PROVE Mirrored(t)'
  <2>1. t.slot \in Slot \ {s}
    BY <1>1 DEF Token
  <2>2. Mirrored(t)
    BY MirrorPointwise
  <2> QED
    BY <1>1, <2>1, <2>2 DEF Mirrored, Routes, RegionActive, OnlySlot
<1> QED
  BY <1>1 DEF TypeOK, OperationsMirrored, Mirrored

\* Starting the operation of an idle region.
LEMMA MirrorStart ==
  ASSUME TypeOK, TypeOK', OperationsMirrored, NEW s \in Slot, OnlySlot(s),
         NEW op \in Op, live[s], live'[s], generation'[s] = generation[s],
         ops' = ops \cup {TokenOf(op, s)},
         RegionActive(op, s)',
         \A o \in Op \ {op} : RegionActive(o, s)' <=> RegionActive(o, s)
  PROVE  OperationsMirrored'
<1>1. ASSUME NEW t \in Token PROVE t.op \in Op /\ t.slot \in Slot
  BY DEF Token
<1>2. \A t \in Token : t = TokenOf(op, s) <=>
        t.slot = s /\ t.op = op /\ t.gen = generation[s]
  BY DEF Token, TokenOf
<1>3. \A t \in Token : t.slot # s => (t \in ops' <=> t \in ops)
  BY <1>2
<1>4. ASSUME NEW t \in Token, t.slot = s PROVE Mirrored(t)'
  <2>1. Mirrored(t)
    BY MirrorPointwise
  <2> QED
    BY <1>1, <1>2, <1>4, <2>1 DEF Mirrored, Routes
<1> QED
  BY <1>3, <1>4, MirrorLocal

\* Ending the operation of an active region.
LEMMA MirrorEnd ==
  ASSUME TypeOK, TypeOK', OperationsMirrored, NEW s \in Slot, OnlySlot(s),
         NEW op \in Op, live[s], live'[s], generation'[s] = generation[s],
         ops' = ops \ {TokenOf(op, s)},
         ~RegionActive(op, s)',
         \A o \in Op \ {op} : RegionActive(o, s)' <=> RegionActive(o, s)
  PROVE  OperationsMirrored'
<1>1. ASSUME NEW t \in Token PROVE t.op \in Op /\ t.slot \in Slot
  BY DEF Token
<1>2. \A t \in Token : t = TokenOf(op, s) <=>
        t.slot = s /\ t.op = op /\ t.gen = generation[s]
  BY DEF Token, TokenOf
<1>3. \A t \in Token : t.slot # s => (t \in ops' <=> t \in ops)
  BY <1>2
<1>4. ASSUME NEW t \in Token, t.slot = s PROVE Mirrored(t)'
  <2>1. Mirrored(t)
    BY MirrorPointwise
  <2> QED
    BY <1>1, <1>2, <1>4, <2>1 DEF Mirrored, Routes
<1> QED
  BY <1>3, <1>4, MirrorLocal

\* A step that starts and ends nothing.
LEMMA MirrorSame ==
  ASSUME TypeOK, TypeOK', OperationsMirrored, ops' = ops,
         \A s \in Slot :
           /\ live'[s] = live[s]
           /\ generation'[s] = generation[s] \/ ~live[s]
           /\ \A o \in Op : RegionActive(o, s)' <=> RegionActive(o, s)
  PROVE  OperationsMirrored'
<1>1. ASSUME NEW t \in Token PROVE Mirrored(t)'
  <2>1. t.op \in Op /\ t.slot \in Slot
    BY DEF Token
  <2>2. Mirrored(t)
    BY MirrorPointwise
  <2> QED
    BY <2>1, <2>2 DEF Mirrored, Routes
<1> QED
  BY <1>1 DEF TypeOK, OperationsMirrored, Mirrored

\* Nothing is outstanding and nothing is kept at the start.
LEMMA InitInv == Init => Inv
<1> SUFFICES ASSUME Init PROVE Inv
  OBVIOUS
<1>1. TypeOK
  BY BudgetAssumption, GenerationAssumption
     DEF Init, TypeOK, Initial, State, Phase
<1>2. OperationsMirrored
  <2>1. \A t \in Token : t.slot \in Slot
    BY DEF Token
  <2> QED
    BY <2>1 DEF Init, OperationsMirrored, Routes
<1>3. Bookkeeping /\ OpenIsHeard /\ DrainingHasOutput
  BY DEF Init, Bookkeeping, OpenIsHeard, DrainingHasOutput
<1> QED
  BY <1>1, <1>2, <1>3 DEF Inv

-----------------------------------------------------------------------------
(* Admission and teardown. *)

\* The new generation is not in any outstanding token, because a slot that is
\* not live has none.
LEMMA AttachInv ==
  ASSUME Inv, NEW s \in Slot, NEW phase \in {"open", "closing"},
         Attach(s, phase)
  PROVE  Inv'
<1> DEFINE new == [op |-> "receive", slot |-> s,
                   gen |-> NextGeneration(generation[s])]
<1> USE DEF Inv
<1>1. NextGeneration(generation[s]) \in 1..MaxGeneration
  BY GenerationAssumption DEF TypeOK, NextGeneration
<1>2. new \in Token
  BY <1>1 DEF Token, Op
<1>3. TypeOK'
  <2>1. [phase |-> phase, receiving |-> TRUE] \in State
    BY DEF State, Phase
  <2> QED
    BY <1>1, <1>2, <2>1 DEF TypeOK, Attach
<1>4. OperationsMirrored'
  <2>1. \A t \in Token : t.slot # s => (t \in ops' <=> t \in ops)
    BY DEF Attach
  <2>2. ASSUME NEW t \in Token, t.slot = s PROVE Mirrored(t)'
    <3>1. t.op \in Op
      BY DEF Token
    <3>2. t \notin ops
      BY <2>2, MirrorPointwise DEF Mirrored, Routes, Attach
    <3>3. flight'[s] = 0 /\ state'[s] = [phase |-> phase, receiving |-> TRUE]
      BY DEF Attach, Bookkeeping, TypeOK
    <3>4. live'[s] /\ generation'[s] = NextGeneration(generation[s])
      BY DEF Attach, TypeOK
    <3>5. t = new <=> t.op = "receive" /\ t.gen = generation'[s]
      BY <2>2, <3>4 DEF Token
    <3>6. RegionActive(t.op, t.slot)' <=> t.op = "receive"
      BY <2>2, <3>1, <3>3 DEF RegionActive, Op
    <3> QED
      BY <2>2, <3>2, <3>4, <3>5, <3>6 DEF Mirrored, Routes, Attach
  <2> QED
    BY <1>3, <2>1, <2>2, MirrorLocal DEF OnlySlot, Attach, TypeOK
<1>5. Bookkeeping'
  BY <1>1 DEF Attach, Bookkeeping, TypeOK
<1>6. OpenIsHeard' /\ DrainingHasOutput'
  BY DEF Attach, OpenIsHeard, DrainingHasOutput, Bookkeeping, TypeOK
<1> QED
  BY <1>3, <1>4, <1>5, <1>6

\* A generation may be spent on an admission that fails.
LEMMA AttachFailsInv ==
  ASSUME Inv, NEW s \in Slot, AttachFails(s)
  PROVE  Inv'
<1> USE DEF Inv, AttachFails
<1>1. TypeOK'
  BY GenerationAssumption DEF TypeOK, NextGeneration
<1>2. OperationsMirrored'
  BY <1>1, MirrorSame DEF TypeOK, RegionActive
<1>3. Bookkeeping' /\ OpenIsHeard' /\ DrainingHasOutput'
  BY DEF Bookkeeping, OpenIsHeard, DrainingHasOutput
<1> QED
  BY <1>1, <1>2, <1>3

\* Closing moves phases, but no receive region and no cancel.
LEMMA BeginCloseInv ==
  ASSUME Inv, NEW S \in SUBSET Slot, BeginClose(S)
  PROVE  Inv'
<1> USE DEF Inv, BeginClose
<1>1. ASSUME NEW st \in State
      PROVE  LET next == Step(st, "begin_close") IN
             /\ next \in State
             /\ next.receiving = st.receiving
             /\ next.phase = "canceling" <=> st.phase = "canceling"
             /\ IsClosing(next)
  BY DEF Step, State, Phase, Accepts, ClosedPhase, IsClosing
<1>2. TypeOK'
  BY <1>1 DEF TypeOK
<1>3. OperationsMirrored'
  BY <1>1, <1>2, MirrorSame DEF TypeOK, RegionActive
<1>4. Bookkeeping'
  BY DEF Bookkeeping, TypeOK
<1>5. OpenIsHeard' /\ DrainingHasOutput'
  BY <1>1 DEF OpenIsHeard, DrainingHasOutput, TypeOK, IsClosing
<1> QED
  BY <1>2, <1>3, <1>4, <1>5

\* The cancel SQE is the operation of the canceling substate.
LEMMA PrepareCloseInv ==
  ASSUME Inv, NEW s \in Slot, PrepareClose(s)
  PROVE  Inv'
<1> USE DEF Inv
<1>1. CASE ~(state[s].receiving \/ flight[s] > 0)
  <2>1. BeginClose({s})
    BY <1>1 DEF PrepareClose, BeginClose, TypeOK
  <2> QED
    BY <2>1, BeginCloseInv
<1>2. CASE state[s].receiving \/ flight[s] > 0
  <2>1. state'[s] = [state[s] EXCEPT !.phase = "canceling"]
    BY <1>2 DEF PrepareClose, Step, TypeOK
  <2>2. state'[s] \in State /\ state'[s].phase = "canceling"
        /\ state'[s].receiving = state[s].receiving
    BY <2>1 DEF TypeOK, State, Phase
  <2>3. TokenOf("cancel", s) \in Token
    BY LiveToken DEF PrepareClose, Op
  <2>4. TypeOK'
    BY <1>2, <2>2, <2>3 DEF PrepareClose, TypeOK
  <2>5. OperationsMirrored'
    <3>1. live[s] /\ live'[s] /\ generation'[s] = generation[s] /\ OnlySlot(s)
      BY <1>2 DEF PrepareClose, OnlySlot, TypeOK
    <3>2. RegionActive("cancel", s)'
      BY <2>2 DEF RegionActive
    <3>3. \A o \in Op \ {"cancel"} : RegionActive(o, s)' <=> RegionActive(o, s)
      BY <1>2, <2>2 DEF RegionActive, Op, PrepareClose
    <3> QED
      BY <1>2, <2>4, <3>1, <3>2, <3>3, MirrorStart DEF PrepareClose, Op
  <2>6. Bookkeeping' /\ OpenIsHeard' /\ DrainingHasOutput'
    BY <1>2, <2>2
       DEF PrepareClose, Bookkeeping, OpenIsHeard, DrainingHasOutput, TypeOK
  <2> QED
    BY <2>4, <2>5, <2>6
<1> QED
  BY <1>1, <1>2

\* Only a connection without operations is destroyed, so what disappears from
\* the directory was not in ops.
LEMMA DestroyPeerInv ==
  ASSUME Inv, NEW s \in Slot, DestroyPeer(s)
  PROVE  Inv'
<1> USE DEF Inv, DestroyPeer
<1>1. TypeOK'
  BY BudgetAssumption DEF TypeOK, Initial, State, Phase
<1>2. OperationsMirrored'
  <2>1. ASSUME NEW t \in Token, t.slot = s PROVE Mirrored(t)'
    <3>1. t.op \in Op
      BY DEF Token
    <3>2. ~RegionActive(t.op, s)
      BY <3>1 DEF RegionActive, Op, CanDeinit, TypeOK
    <3>3. t \notin ops
      BY <2>1, <3>2, MirrorPointwise DEF Mirrored
    <3> QED
      BY <2>1, <3>3 DEF Mirrored, Routes, TypeOK
  <2> QED
    BY <1>1, <2>1, MirrorLocal DEF OnlySlot, TypeOK
<1>3. Bookkeeping' /\ OpenIsHeard' /\ DrainingHasOutput'
  BY DEF Bookkeeping, OpenIsHeard, DrainingHasOutput, TypeOK
<1> QED
  BY <1>1, <1>2, <1>3

-----------------------------------------------------------------------------
(* Preparing work. *)

\* Output is accepted within the budget and only while open.
LEMMA EnqueueInv ==
  ASSUME Inv, NEW s \in Slot, NEW n \in 1..ByteBudget, Enqueue(s, n)
  PROVE  Inv'
<1> USE DEF Inv, Enqueue
<1>1. TypeOK'
  BY BudgetAssumption DEF TypeOK
<1>2. OperationsMirrored'
  BY <1>1, MirrorSame DEF TypeOK, RegionActive
<1>3. Bookkeeping' /\ OpenIsHeard' /\ DrainingHasOutput'
  BY BudgetAssumption DEF Bookkeeping, OpenIsHeard, DrainingHasOutput, TypeOK
<1> QED
  BY <1>1, <1>2, <1>3

\* The send SQE is the operation of the flight.
LEMMA PrepareSendInv ==
  ASSUME Inv, NEW s \in Slot, NEW n \in 1..ByteBudget, PrepareSend(s, n)
  PROVE  Inv'
<1> USE DEF Inv, PrepareSend
<1>1. TokenOf("send", s) \in Token
  BY LiveToken DEF Op
<1>2. TypeOK'
  BY <1>1, BudgetAssumption DEF TypeOK
<1>3. OperationsMirrored'
  <2>1. live'[s] /\ generation'[s] = generation[s] /\ OnlySlot(s)
    BY DEF OnlySlot, TypeOK
  <2>2. RegionActive("send", s)'
    BY DEF RegionActive, TypeOK
  <2>3. \A o \in Op \ {"send"} : RegionActive(o, s)' <=> RegionActive(o, s)
    BY DEF RegionActive, Op
  <2> QED
    BY <1>2, <2>1, <2>2, <2>3, MirrorStart DEF Op
<1>4. Bookkeeping' /\ OpenIsHeard' /\ DrainingHasOutput'
  BY BudgetAssumption DEF Bookkeeping, OpenIsHeard, DrainingHasOutput, TypeOK
<1> QED
  BY <1>2, <1>3, <1>4

\* A parked peer is live and idle: it is rearmed while open, dropped if not.
LEMMA SweepDeferredInv ==
  ASSUME Inv, NEW s \in Slot, SweepDeferred(s)
  PROVE  Inv'
<1> USE DEF Inv, SweepDeferred
<1>1. live[s] /\ ~state[s].receiving
  BY DEF Bookkeeping, OpenIsHeard
<1>2. CASE Accepts(state[s], "arm_receive")
  <2>1. state'[s] = [state[s] EXCEPT !.receiving = TRUE]
    BY <1>2 DEF Step, TypeOK
  <2>2. state'[s] \in State /\ state'[s].receiving
        /\ state'[s].phase = state[s].phase
    BY <2>1 DEF TypeOK, State
  <2>3. TokenOf("receive", s) \in Token
    BY <1>1, LiveToken DEF Op
  <2>4. TypeOK'
    BY <1>2, <2>2, <2>3 DEF TypeOK
  <2>5. OperationsMirrored'
    <3>1. live'[s] /\ generation'[s] = generation[s] /\ OnlySlot(s)
      BY <1>1 DEF OnlySlot, TypeOK
    <3>2. RegionActive("receive", s)'
      BY <2>2 DEF RegionActive
    <3>3. \A o \in Op \ {"receive"} : RegionActive(o, s)' <=> RegionActive(o, s)
      BY <2>2 DEF RegionActive, Op
    <3> QED
      BY <1>1, <1>2, <2>4, <3>1, <3>2, <3>3, MirrorStart DEF Op
  <2>6. Bookkeeping' /\ OpenIsHeard' /\ DrainingHasOutput'
    BY <1>1, <2>2 DEF Bookkeeping, OpenIsHeard, DrainingHasOutput, TypeOK
  <2> QED
    BY <2>4, <2>5, <2>6
<1>3. CASE ~Accepts(state[s], "arm_receive")
  <2>1. state' = state /\ ops' = ops
    BY <1>3 DEF Step, TypeOK
  <2>2. state[s].phase # "open"
    BY <1>1, <1>3 DEF Accepts
  <2>3. TypeOK'
    BY <2>1 DEF TypeOK
  <2>4. OperationsMirrored'
    BY <2>1, <2>3, MirrorSame DEF TypeOK, RegionActive
  <2>5. Bookkeeping' /\ OpenIsHeard' /\ DrainingHasOutput'
    BY <2>1, <2>2 DEF Bookkeeping, OpenIsHeard, DrainingHasOutput, TypeOK
  <2> QED
    BY <2>3, <2>4, <2>5
<1> QED
  BY <1>2, <1>3

-----------------------------------------------------------------------------
(* Applying completions. *)

\* A CQE always finds its connection, with the region it ends still active:
\* the error paths of a stale or unexpected completion are never taken.
LEMMA CompletionIsExpected ==
  ASSUME Inv, NEW t \in ops
  PROVE  /\ t \in Token /\ t.slot \in Slot /\ t.op \in Op
         /\ live[t.slot]
         /\ t = TokenOf(t.op, t.slot)
         /\ RegionActive(t.op, t.slot)
         /\ Routes(t)
<1>1. t \in Token
  BY DEF Inv, TypeOK
<1>2. Mirrored(t)
  BY <1>1, MirrorPointwise DEF Inv
<1> QED
  BY <1>1, <1>2 DEF Mirrored, Routes, Token, TokenOf

\* What is dispatched may post output, a terminal error or a close, all of it
\* within the budget; a receive that ends while open is parked.
LEMMA CompleteReceiveInv ==
  ASSUME Inv, NEW t \in ops, t.op = "receive",
         NEW result \in ReceiveResult, NEW outcome \in Outcome,
         CompleteReceive(t, result, outcome)
  PROVE  Inv'
<1> DEFINE s == t.slot
<1> DEFINE st == Step(state[s], ReceiveInput(state[s], result))
<1> DEFINE after == IF result \in {"data_more", "data_last"}
                    THEN Dispatched(st, queued[s], outcome)
                    ELSE [state |-> st, queued |-> queued[s]]
<1> USE DEF Inv
<1>1. /\ s \in Slot /\ live[s] /\ t = TokenOf("receive", s)
      /\ state[s].receiving /\ t \in Token
  BY CompletionIsExpected DEF RegionActive
<1>2. state[s] \in State /\ queued[s] \in 0..ByteBudget
  BY <1>1 DEF TypeOK
<1>3. outcome.kind = "handled" => queued[s] + outcome.n <= ByteBudget
  BY DEF CompleteReceive
<1>4. /\ state' = [state EXCEPT ![s] = after.state]
      /\ queued' = [queued EXCEPT ![s] = after.queued]
      /\ parked' = [parked EXCEPT ![s] = @ \/ Parks(result, after.state)]
      /\ ops' = IF result = "data_more" THEN ops ELSE ops \ {t}
      /\ UNCHANGED <<live, generation, flight>>
  BY DEF CompleteReceive
<1>5. /\ st \in State
      /\ st.receiving <=> result = "data_more"
      /\ st.phase = "canceling" <=> state[s].phase = "canceling"
      /\ st.phase \in {"open", "protocol_error", "draining"}
           => st.phase = state[s].phase
  BY <1>1, <1>2, ReceiveStep
<1>6. /\ after.state \in State
      /\ after.queued \in 0..ByteBudget
      /\ after.queued >= queued[s]
      /\ after.state.receiving <=> result = "data_more"
      /\ after.state.phase = "canceling" <=> state[s].phase = "canceling"
      /\ after.state.phase = "draining"
           => state[s].phase = "draining" \/ after.queued > 0
  <2>1. CASE result \in {"data_more", "data_last"}
    <3>1. after = Dispatched(st, queued[s], outcome)
      BY <2>1
    <3> HIDE DEF after, st
    <3> QED
      BY <1>2, <1>3, <1>5, <3>1, DispatchStep
  <2>2. CASE result \notin {"data_more", "data_last"}
    BY <1>2, <1>5, <2>2
  <2> QED
    BY <2>1, <2>2
<1> HIDE DEF after, st
<1>7. TypeOK'
  BY <1>1, <1>4, <1>6 DEF TypeOK, Parks
<1>8. OperationsMirrored'
  <2>1. live'[s] /\ generation'[s] = generation[s] /\ OnlySlot(s)
    BY <1>1, <1>4 DEF OnlySlot, TypeOK
  <2>2. state'[s] = after.state
    BY <1>1, <1>4 DEF TypeOK
  <2>3. \A o \in Op \ {"receive"} : RegionActive(o, s)' <=> RegionActive(o, s)
    BY <1>4, <1>6, <2>2 DEF RegionActive, Op
  <2>4. CASE result = "data_more"
    <3>1. \A r \in Slot : \A o \in Op : RegionActive(o, r)' <=> RegionActive(o, r)
      BY <1>1, <1>4, <1>6, <2>2, <2>3, <2>4 DEF RegionActive, TypeOK
    <3> QED
      BY <1>4, <1>7, <2>4, <3>1, MirrorSame
  <2>5. CASE result # "data_more"
    <3>1. ~RegionActive("receive", s)'
      BY <1>6, <2>2, <2>5 DEF RegionActive
    <3>2. ops' = ops \ {TokenOf("receive", s)}
      BY <1>1, <1>4, <2>5
    <3> QED
      BY <1>1, <1>7, <2>1, <2>3, <3>1, <3>2, MirrorEnd DEF Op
  <2> QED
    BY <2>4, <2>5
<1>9. Bookkeeping'
  BY <1>1, <1>4, <1>6 DEF Bookkeeping, TypeOK
<1>10. OpenIsHeard' /\ DrainingHasOutput'
  BY <1>1, <1>4, <1>6 DEF OpenIsHeard, DrainingHasOutput, Parks, TypeOK
<1> QED
  BY <1>7, <1>8, <1>9, <1>10

\* A send completes at most what it covered, and a draining connection that
\* keeps draining keeps bytes.
LEMMA CompleteSendInv ==
  ASSUME Inv, NEW t \in ops, t.op = "send", NEW written \in 0..ByteBudget,
         CompleteSend(t, written)
  PROVE  Inv'
<1> DEFINE s == t.slot
<1> DEFINE left == queued[s] - written
<1> DEFINE after == AfterSend(state[s], written, left)
<1> USE DEF Inv
<1>1. s \in Slot /\ live[s] /\ t = TokenOf("send", s) /\ t \in Token
  BY CompletionIsExpected
<1>2. /\ written <= flight[s]
      /\ queued' = [queued EXCEPT ![s] = left]
      /\ flight' = [flight EXCEPT ![s] = 0]
      /\ state' = [state EXCEPT ![s] = after]
      /\ ops' = ops \ {t}
      /\ UNCHANGED <<live, generation, parked>>
  BY DEF CompleteSend
<1>3. left \in 0..ByteBudget /\ left <= queued[s]
  BY <1>1, <1>2, BudgetAssumption DEF Bookkeeping, TypeOK
<1>4. /\ after \in State
      /\ after.receiving = state[s].receiving
      /\ after.phase = "canceling" <=> state[s].phase = "canceling"
      /\ after.phase = "open" => state[s].phase = "open"
      /\ after.phase = "draining" => state[s].phase = "draining" /\ left # 0
  <2>1. state[s] \in State /\ written \in Nat
    BY <1>1 DEF TypeOK
  <2> HIDE DEF left
  <2> QED
    BY <2>1 DEF AfterSend, Step, State, Phase, Accepts, ClosedPhase, IsClosing
<1> HIDE DEF after
<1>5. TypeOK'
  BY <1>1, <1>2, <1>3, <1>4, BudgetAssumption DEF TypeOK
<1>6. OperationsMirrored'
  <2>1. live'[s] /\ generation'[s] = generation[s] /\ OnlySlot(s)
    BY <1>1, <1>2 DEF OnlySlot, TypeOK
  <2>2. state'[s] = after /\ flight'[s] = 0
    BY <1>1, <1>2 DEF TypeOK
  <2>3. ~RegionActive("send", s)'
    BY <2>2 DEF RegionActive
  <2>4. \A o \in Op \ {"send"} : RegionActive(o, s)' <=> RegionActive(o, s)
    BY <1>4, <2>2 DEF RegionActive, Op
  <2> QED
    BY <1>1, <1>2, <1>5, <2>1, <2>3, <2>4, MirrorEnd DEF Op
<1>7. Bookkeeping'
  BY <1>1, <1>2, <1>3 DEF Bookkeeping, TypeOK
<1>8. OpenIsHeard' /\ DrainingHasOutput'
  BY <1>1, <1>2, <1>3, <1>4 DEF OpenIsHeard, DrainingHasOutput, TypeOK
<1> QED
  BY <1>5, <1>6, <1>7, <1>8

\* The cancel CQE ends the canceling substate.
LEMMA CompleteCancelInv ==
  ASSUME Inv, NEW t \in ops, t.op = "cancel", CompleteCancel(t)
  PROVE  Inv'
<1> DEFINE s == t.slot
<1> USE DEF Inv
<1>1. /\ s \in Slot /\ live[s] /\ t = TokenOf("cancel", s)
      /\ state[s].phase = "canceling" /\ state[s] \in State
  BY CompletionIsExpected DEF RegionActive, TypeOK
<1>2. Step(state[s], "cancel_completes")
        = [state[s] EXCEPT !.phase = "canceled"]
  BY <1>1 DEF Step, Accepts
<1>3. /\ state' = [state EXCEPT ![s] = [state[s] EXCEPT !.phase = "canceled"]]
      /\ ops' = ops \ {t}
      /\ UNCHANGED <<live, generation, queued, flight, parked>>
  BY <1>2 DEF CompleteCancel
<1>4. /\ state'[s] \in State /\ state'[s].phase = "canceled"
      /\ state'[s].receiving = state[s].receiving
  BY <1>1, <1>3 DEF TypeOK, State, Phase
<1>5. TypeOK'
  BY <1>1, <1>3, <1>4 DEF TypeOK
<1>6. OperationsMirrored'
  <2>1. live'[s] /\ generation'[s] = generation[s] /\ OnlySlot(s)
    BY <1>1, <1>3 DEF OnlySlot, TypeOK
  <2>2. ~RegionActive("cancel", s)'
    BY <1>4 DEF RegionActive
  <2>3. \A o \in Op \ {"cancel"} : RegionActive(o, s)' <=> RegionActive(o, s)
    BY <1>3, <1>4 DEF RegionActive, Op
  <2> QED
    BY <1>1, <1>3, <1>5, <2>1, <2>2, <2>3, MirrorEnd DEF Op
<1>7. Bookkeeping' /\ OpenIsHeard' /\ DrainingHasOutput'
  BY <1>1, <1>3, <1>4 DEF Bookkeeping, OpenIsHeard, DrainingHasOutput, TypeOK
<1> QED
  BY <1>5, <1>6, <1>7

-----------------------------------------------------------------------------
(* Every step, and the theorems. *)

\* The next-state relation, with a case for each call and each completion.
LEMMA NextInv == Inv /\ [Next]_vars => Inv'
<1> SUFFICES ASSUME Inv, [Next]_vars PROVE Inv'
  OBVIOUS
<1>1. CASE UNCHANGED vars
  BY <1>1 DEF Inv, vars, TypeOK, OperationsMirrored, Bookkeeping,
     OpenIsHeard, DrainingHasOutput, Routes, RegionActive
<1>2. ASSUME NEW s \in Slot, NEW phase \in {"open", "closing"},
             Attach(s, phase)
      PROVE  Inv'
  BY <1>2, AttachInv
<1>3. ASSUME NEW s \in Slot,
             AttachFails(s) \/ PrepareClose(s) \/ DestroyPeer(s)
               \/ SweepDeferred(s)
      PROVE  Inv'
  BY <1>3, AttachFailsInv, PrepareCloseInv, DestroyPeerInv, SweepDeferredInv
<1>4. ASSUME NEW s \in Slot, NEW n \in 1..ByteBudget,
             Enqueue(s, n) \/ PrepareSend(s, n)
      PROVE  Inv'
  BY <1>4, EnqueueInv, PrepareSendInv
<1>5. ASSUME NEW S \in SUBSET Slot, BeginClose(S) PROVE Inv'
  BY <1>5, BeginCloseInv
<1>6. ASSUME NEW t \in ops, NEW result \in ReceiveResult,
             NEW outcome \in Outcome, NEW written \in 0..ByteBudget,
             Complete(t, result, outcome, written)
      PROVE  Inv'
  <2>1. Routes(t) /\ t.op \in Op
    BY CompletionIsExpected
  <2>2. \/ t.op = "receive" /\ CompleteReceive(t, result, outcome)
        \/ t.op = "send" /\ CompleteSend(t, written)
        \/ t.op = "cancel" /\ CompleteCancel(t)
    BY <1>6, <2>1 DEF Complete, Op
  <2> QED
    BY <2>2, CompleteReceiveInv, CompleteSendInv, CompleteCancelInv
<1> QED
  BY <1>1, <1>2, <1>3, <1>4, <1>5, <1>6 DEF Next

\* Inv holds in every reachable state: it is true before the first connection
\* and every call and completion of Connection preserves it.
THEOREM Invariance == Spec => []Inv
BY InitInv, NextInv, PTL DEF Spec

\* Every variable keeps its type; in particular no connection ever queues
\* more than its transmit budget.
THEOREM TypeCorrect == Spec => []TypeOK
BY Invariance, PTL DEF Inv

\* Whatever the order of the calls and of the CQEs, and however often slots
\* and generations are reused, the outstanding operations are those of the
\* active regions of live connections: no record is freed under the kernel,
\* no second receive, send or cancel is issued, no completion is stale.
THEOREM NothingOutlivesItsRecord == Spec => []OperationsMirrored
BY Invariance, PTL DEF Inv

\* An open connection has its receive armed or waits in the FIFO to rearm it.
THEOREM NoOpenPeerIsDeaf == Spec => []OpenIsHeard
BY Invariance, PTL DEF Inv

\* A connection draining its terminal error still has bytes whose completion
\* will close it.
THEOREM DrainingEnds == Spec => []DrainingHasOutput
BY Invariance, PTL DEF Inv

-----------------------------------------------------------------------------
(* The action property. *)

\* A transition other than arming keeps a connection that is past open there,
\* and closing closed, and starts no receive.
LEMMA StepTearsDown ==
  ASSUME NEW st \in State, NEW input, st.phase # "open"
  PROVE  LET next == Step(st, input) IN
         /\ next.phase # "open"
         /\ IsClosing(st) => IsClosing(next)
         /\ next.receiving => st.receiving
BY DEF Step, State, Phase, Accepts, ClosedPhase, IsClosing

\* A send CQE never returns the phase either.
LEMMA AfterSendTearsDown ==
  ASSUME NEW st \in State, NEW written, NEW left, st.phase # "open"
  PROVE  LET next == AfterSend(st, written, left) IN
         /\ next.phase # "open"
         /\ IsClosing(st) => IsClosing(next)
         /\ next.receiving => st.receiving
BY StepTearsDown DEF AfterSend

\* Each action tears down only; the slot it acts on is the one to look at.
LEMMA NextTearsDown ==
  ASSUME Inv, [Next]_vars, NEW s \in Slot
  PROVE  TearsDown(s)
<1> SUFFICES ASSUME live[s], live'[s], state[s].phase # "open"
             PROVE  /\ state'[s].phase # "open"
                    /\ queued'[s] <= queued[s]
                    /\ IsClosing(state[s]) =>
                         /\ IsClosing(state'[s])
                         /\ state'[s].receiving => state[s].receiving
                         /\ flight'[s] > 0 => flight'[s] = flight[s]
  BY DEF TearsDown
<1> USE DEF Inv
<1>1. /\ state \in [Slot -> State] /\ state[s] \in State
      /\ queued \in [Slot -> 0..ByteBudget] /\ queued[s] \in 0..ByteBudget
      /\ flight \in [Slot -> 0..ByteBudget] /\ flight[s] \in 0..ByteBudget
  BY DEF TypeOK
<1>2. CASE UNCHANGED vars
  BY <1>1, <1>2 DEF vars
<1>3. ASSUME NEW r \in Slot, NEW phase \in {"open", "closing"},
             Attach(r, phase)
      PROVE  UNCHANGED <<state[s], queued[s], flight[s]>>
  BY <1>1, <1>3 DEF Attach
<1>4. ASSUME NEW r \in Slot, AttachFails(r)
      PROVE  UNCHANGED <<state[s], queued[s], flight[s]>>
  BY <1>4 DEF AttachFails
<1>5. ASSUME NEW r \in Slot, DestroyPeer(r)
      PROVE  UNCHANGED <<state[s], queued[s], flight[s]>>
  BY <1>1, <1>5 DEF DestroyPeer, TypeOK
<1>6. ASSUME NEW r \in Slot, PrepareClose(r)
      PROVE  /\ UNCHANGED <<queued, flight>>
             /\ \E input : state'[s] = Step(state[s], input)
                           \/ state'[s] = state[s]
  BY <1>1, <1>6 DEF PrepareClose
<1>7. ASSUME NEW r \in Slot, SweepDeferred(r)
      PROVE  /\ UNCHANGED <<queued, flight>>
             /\ \E input : state'[s] = Step(state[s], input)
                           \/ state'[s] = state[s]
  BY <1>1, <1>7 DEF SweepDeferred
<1>8. ASSUME NEW S \in SUBSET Slot, BeginClose(S)
      PROVE  /\ UNCHANGED <<queued, flight>>
             /\ \E input : state'[s] = Step(state[s], input)
                           \/ state'[s] = state[s]
  BY <1>1, <1>8 DEF BeginClose
<1>9. ASSUME NEW r \in Slot, NEW n \in 1..ByteBudget, Enqueue(r, n)
      PROVE  UNCHANGED <<state[s], queued[s], flight[s]>>
  BY <1>1, <1>9 DEF Enqueue
<1>10. ASSUME NEW r \in Slot, NEW n \in 1..ByteBudget, PrepareSend(r, n)
       PROVE  /\ UNCHANGED <<state, queued>>
              /\ IsClosing(state[s]) => UNCHANGED flight[s]
  BY <1>1, <1>10 DEF PrepareSend, IsClosing
<1>11. ASSUME NEW t \in ops, NEW result \in ReceiveResult,
              NEW outcome \in Outcome, NEW written \in 0..ByteBudget,
              Complete(t, result, outcome, written)
       PROVE  /\ state'[s].phase # "open"
              /\ queued'[s] <= queued[s]
              /\ IsClosing(state[s]) => IsClosing(state'[s])
              /\ state'[s].receiving => state[s].receiving
              /\ flight'[s] > 0 => flight'[s] = flight[s]
  <2>1. Routes(t) /\ t.op \in Op /\ t.slot \in Slot /\ live[t.slot]
        /\ RegionActive(t.op, t.slot)
    BY CompletionIsExpected
  <2>2. CASE t.op = "receive" /\ CompleteReceive(t, result, outcome)
    <3>1. CASE t.slot # s
      BY <1>1, <2>2, <3>1 DEF CompleteReceive
    <3>2. CASE t.slot = s
      <4> DEFINE st == Step(state[s], ReceiveInput(state[s], result))
      <4> DEFINE after == IF result \in {"data_more", "data_last"}
                          THEN Dispatched(st, queued[s], outcome)
                          ELSE [state |-> st, queued |-> queued[s]]
      <4>1. st \in State /\ st.phase # "open"
            /\ (IsClosing(state[s]) => IsClosing(st))
            /\ (st.receiving => state[s].receiving)
        BY <1>1, StepType, StepTearsDown
      <4>2. /\ state'[s] = after.state /\ queued'[s] = after.queued
            /\ UNCHANGED flight
        BY <1>1, <2>2, <3>2 DEF CompleteReceive
      <4>3. outcome.kind = "handled" => queued[s] + outcome.n <= ByteBudget
        BY <2>2, <3>2 DEF CompleteReceive
      <4> HIDE DEF st
      <4>4. /\ after.state.phase # "open" /\ after.queued = queued[s]
            /\ IsClosing(st) => IsClosing(after.state)
            /\ after.state.receiving => st.receiving
        BY <1>1, <4>1, <4>3, DispatchStep
      <4> QED
        BY <1>1, <4>1, <4>2, <4>4
    <3> QED
      BY <3>1, <3>2
  <2>3. CASE t.op = "send" /\ CompleteSend(t, written)
    <3>1. CASE t.slot # s
      BY <1>1, <2>3, <3>1 DEF CompleteSend
    <3>2. CASE t.slot = s
      <4> DEFINE next == AfterSend(state[s], written, queued[s] - written)
      <4>1. /\ state'[s] = next /\ queued'[s] = queued[s] - written
            /\ flight'[s] = 0
        BY <1>1, <2>3, <3>2 DEF CompleteSend
      <4>2. /\ next.phase # "open"
            /\ IsClosing(state[s]) => IsClosing(next)
            /\ next.receiving => state[s].receiving
        BY <1>1, AfterSendTearsDown
      <4> QED
        BY <1>1, <4>1, <4>2
    <3> QED
      BY <3>1, <3>2
  <2>4. CASE t.op = "cancel" /\ CompleteCancel(t)
    <3>1. UNCHANGED <<queued, flight>>
          /\ \/ state'[s] = state[s]
             \/ state'[s] = Step(state[s], "cancel_completes")
      BY <1>1, <2>4 DEF CompleteCancel
    <3> QED
      BY <1>1, <3>1, StepTearsDown
  <2> QED
    BY <1>11, <2>1, <2>2, <2>3, <2>4 DEF Complete, Op
<1> QED
  BY <1>1, <1>2, <1>3, <1>4, <1>5, <1>6, <1>7, <1>8, <1>9, <1>10, <1>11,
     StepTearsDown DEF Next

\* Nothing follows the terminal error, and closing permits teardown only.
THEOREM OnlyTeardownFollows == Spec => TeardownOnly
<1>1. Inv /\ [Next]_vars => [\A s \in Slot : TearsDown(s)]_vars
  BY NextTearsDown
<1> QED
  BY <1>1, Invariance, PTL DEF Spec, TeardownOnly

=============================================================================
