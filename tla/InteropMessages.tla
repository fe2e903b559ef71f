-------------------------- MODULE InteropMessages --------------------------
(***************************************************************************)
(* What the interoperability programs of bench/ say to each other, and     *)
(* what they are made of.                                                  *)
(*                                                                         *)
(* A request or an event is a message to an object; its arguments are      *)
(* small integers and names (a fixed-point argument is in 256ths, as on    *)
(* the wire, a string its name), and objects are named instead of          *)
(* numbered: module Objects is about the numbers.  A handler answers a     *)
(* message with a reply.  A program of the client's side is a sequence of  *)
(* phases.                                                                 *)
(***************************************************************************)
EXTENDS Integers, Sequences

\* `op' of the object `on'; a request that constructs an object names it.
Message(on, op, args) == [on |-> on, op |-> op, new |-> "none", args |-> args]
Call(on, op) == Message(on, op, <<>>)
Construct(on, op, new) == [Call(on, op) EXCEPT !.new = new]

GetRegistry == Construct("display", "get_registry", "registry")
Sync == Construct("display", "sync", "callback")
Bind(global) == Construct("registry", "bind", global)
Global(global) == Message("registry", "global", <<global>>)

(***************************************************************************)
(* What a handler does: the flags it sets, the messages it sends, the      *)
(* objects it destroys, the pipes it writes.  A handler that refuses its   *)
(* message posts an error (a server) or gives up (a Wayring client); a     *)
(* listener of a libwayland client that does not know an argument leaves   *)
(* its flag alone, which fails the client later: Interop tells the two     *)
(* apart.                                                                  *)
(***************************************************************************)
Reply == [ok |-> TRUE, sets |-> {}, sends |-> <<>>, destroys |-> {}, fills |-> {}]
Sets(flags) == [Reply EXCEPT !.sets = flags]
Sends(messages) == [Reply EXCEPT !.sends = messages]
Destroys(object, flags) == [Sets(flags) EXCEPT !.destroys = {object}]
SetsAndSends(flags, messages) == [Sets(flags) EXCEPT !.sends = messages]
Refuses == [Reply EXCEPT !.ok = FALSE]

\* reply if the arguments are the expected ones
When(expected, reply) == IF expected THEN reply ELSE Refuses

(***************************************************************************)
(* A phase: write these requests, then dispatch events until every flag of *)
(* `until' is set, then read what a pipe holds ("none": no pipe), then     *)
(* expect the flags of `expect'.  wl_display_roundtrip is the phase that   *)
(* waits for the answer to a sync.                                         *)
(***************************************************************************)
Phase(writes, until) ==
  [writes |-> writes, until |-> until, sent |-> FALSE, reads |-> "none", expect |-> {}]

Roundtrip(writes, expect) ==
  [Phase(Append(writes, Sync), {"synced"}) EXCEPT !.expect = expect]

\* The Wayring clients wait for the callback's delete_id as well.
SyncedPhase(writes, until) ==
  Phase(Append(writes, Sync), {"synced", "deleted"} \cup until)

\* and until everything written has been sent
Sent(phase) == [phase EXCEPT !.sent = TRUE]
=============================================================================
