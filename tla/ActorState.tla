------------------------------ MODULE ActorState ------------------------------
(***************************************************************************)
(* The statechart of one connection: `connection.State`, a pure value with *)
(* two orthogonal regions.                                                 *)
(*                                                                         *)
(*    phase:    open -> protocol_error -> draining -> closing              *)
(*              closing -> canceling -> canceled, substates of closing     *)
(*    receive:  idle <-> active, armed only while open                     *)
(*                                                                         *)
(* `Accepts` is the guard of the transition table and `Step` its result.   *)
(* A transition the table refuses returns an error and leaves the state as *)
(* it was, because every caller assigns only a successful result.          *)
(***************************************************************************)

Phase == {"open", "protocol_error", "draining",
          "closing", "canceling", "canceled"}

State == [phase: Phase, receiving: BOOLEAN]

\* The value `State = .{}` a fresh actor starts from.
Initial == [phase |-> "open", receiving |-> FALSE]

\* State.lifecycle folds the cancellation substates into closing.
IsClosing(state) == state.phase \in {"closing", "canceling", "canceled"}

CancelRequested(state) == state.phase \in {"canceling", "canceled"}

\* Entering closing keeps a closing substate that is already there.
ClosedPhase(state) == IF IsClosing(state) THEN state.phase ELSE "closing"

Accepts(state, input) ==
  /\ input = "arm_receive" => state.phase = "open" /\ ~state.receiving
  /\ input = "begin_protocol_error" => state.phase = "open"
  /\ input = "commit_protocol_error" => state.phase = "protocol_error"
  /\ input = "request_cancel" => ~CancelRequested(state)
  /\ input \in {"receive_continues", "receive_stops", "receive_closes"}
       => state.receiving
  /\ input = "cancel_completes" => state.phase = "canceling"

Step(state, input) ==
  IF ~Accepts(state, input) THEN state ELSE
  CASE input = "arm_receive" -> [state EXCEPT !.receiving = TRUE]
    [] input = "begin_protocol_error" ->
         [state EXCEPT !.phase = "protocol_error"]
    [] input = "commit_protocol_error" -> [state EXCEPT !.phase = "draining"]
    [] input \in {"begin_close", "send_fails"} ->
         [state EXCEPT !.phase = ClosedPhase(state)]
    [] input = "request_cancel" -> [state EXCEPT !.phase = "canceling"]
    [] input = "receive_stops" -> [state EXCEPT !.receiving = FALSE]
    [] input = "receive_closes" ->
         [phase |-> ClosedPhase(state), receiving |-> FALSE]
    [] input = "send_drained" ->
         IF state.phase = "draining" THEN [state EXCEPT !.phase = "closing"]
                                     ELSE state
    [] input = "cancel_completes" -> [state EXCEPT !.phase = "canceled"]
    [] OTHER -> state       \* receive_continues

=============================================================================
