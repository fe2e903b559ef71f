----------------------------- MODULE InteropXdg -----------------------------
(***************************************************************************)
(* The xdg-shell and presentation-time programs: ping and pong, configure  *)
(* and ack_configure, one presented and one discarded feedback, and the    *)
(* destruction of the toplevel, the surfaces and the globals in order.     *)
(***************************************************************************)
EXTENDS InteropMessages

XdgGlobals == <<"compositor", "wm_base", "presentation">>

Presented == <<1, 2, 3, 16666667, 4, 5, "vsync">>

(***************************************************************************)
(* The clients.                                                            *)
(***************************************************************************)
XdgHeard(e, seen) ==
  CASE e.op = "ping" -> SetsAndSends({"pinged"}, <<Message("wm_base", "pong", e.args)>>)
    [] e.op = "clock_id" -> When(e.args = <<1>>, Sets({"clock_seen"}))
    [] e.on = "toplevel" -> Reply
    [] e.on = "xdg_surface" /\ e.op = "configure" ->
         SetsAndSends({"configured"}, <<Message("xdg_surface", "ack_configure", e.args)>>)
    [] e.op = "presented" -> When(e.args = Presented, Sets({"presented"}))
    [] e.op = "discarded" -> Sets({"discarded"})
    [] OTHER -> Refuses

\* The Wayring client also checks the serials and counts the feedbacks freed.
XdgWayringHeard(e, seen) ==
  CASE e.op = "ping" /\ e.args # <<41>> -> Refuses
    [] e.on = "xdg_surface" /\ e.args # <<77>> -> Refuses
    [] e.op = "delete_id" ->
         Sets(CASE e.args = <<"first feedback">> -> {"first freed"}
                [] e.args = <<"second feedback">> -> {"second freed"}
                [] OTHER -> {})
    [] OTHER -> XdgHeard(e, seen)

Feedback(new) == << Construct("presentation", "feedback", new), Call("surface", "commit") >>

XdgWindow ==
  << Construct("compositor", "create_surface", "surface"),
     Construct("wm_base", "get_xdg_surface", "xdg_surface"),
     Construct("xdg_surface", "get_toplevel", "toplevel") >> \o Feedback("first feedback")

XdgCleanup ==
  << Call("toplevel", "destroy"), Call("xdg_surface", "destroy"), Call("surface", "destroy"),
     Call("wm_base", "destroy"), Call("presentation", "destroy") >>

XdgClient ==
  << Roundtrip(<<GetRegistry>>, {"compositor", "wm_base", "presentation"}),
     Roundtrip(<<>>, {"pinged", "clock_seen"}),
     Phase(XdgWindow, {"configured", "presented"}),
     Phase(Feedback("second feedback"), {"discarded"}),
     Roundtrip(<<>>, {}) >>

\* The second feedback takes the id that the first one left: module Objects.
XdgWayringClient ==
  << SyncedPhase(<<GetRegistry>>,
                 {"compositor", "wm_base", "presentation", "pinged", "clock_seen"}),
     Phase(XdgWindow, {"configured", "presented", "first freed"}),
     Phase(Feedback("second feedback"), {"discarded", "second freed"}),
     SyncedPhase(<<>>, {}),
     Sent(Phase(XdgCleanup, {})) >>

-----------------------------------------------------------------------------
(***************************************************************************)
(* The servers.  In libwayland's a destruction counts only after the one   *)
(* before it in the order toplevel, xdg_surface, surface, wm_base.         *)
(***************************************************************************)
XdgFeedback(r, noted) ==
  CASE "presented" \notin noted ->
         [SetsAndSends({"presented"}, <<Message(r.new, "presented", Presented)>>)
            EXCEPT !.destroys = {r.new}]
    [] "presented" \in noted /\ "discarded" \notin noted ->
         [SetsAndSends({"discarded"}, <<Message(r.new, "discarded", <<>>)>>)
            EXCEPT !.destroys = {r.new}]
    [] OTHER -> Refuses

XdgAfter ==
  [toplevel |-> {}, xdg_surface |-> {"toplevel"}, surface |-> {"xdg_surface"},
   wm_base |-> {"surface"}, presentation |-> {}]

XdgDestroyed(object, noted) ==
  Destroys(object, IF XdgAfter[object] \subseteq noted THEN {object} ELSE {})

XdgServed(r, noted) ==
  CASE r = Bind("wm_base") -> Sends(<<Message("wm_base", "ping", <<41>>)>>)
    [] r = Bind("presentation") ->
         SetsAndSends({"clock sent"}, <<Message("presentation", "clock_id", <<1>>)>>)
    [] r = Bind("compositor") -> Reply
    [] r.op \in {"create_surface", "get_xdg_surface", "commit"} -> Reply
    [] r.op = "get_toplevel" ->
         Sends(<< Message("toplevel", "configure", <<0, 0>>),
                  Message("xdg_surface", "configure", <<77>>) >>)
    [] r.op = "pong" -> Sets(IF r.args = <<41>> THEN {"ponged"} ELSE {})
    [] r.op = "ack_configure" -> Sets(IF r.args = <<77>> THEN {"configured"} ELSE {})
    [] r.op = "feedback" -> XdgFeedback(r, noted)
    [] r.op = "destroy" -> XdgDestroyed(r.on, noted)
    [] OTHER -> Refuses

\* Wayring's server refuses a serial it did not send.
WayringXdgServed(r, noted) ==
  CASE r.op = "pong" /\ r.args # <<41>> -> Refuses
    [] r.op = "ack_configure" /\ r.args # <<77>> -> Refuses
    [] OTHER -> XdgServed(r, noted)

XdgExpects == {"ponged", "configured", "presented", "discarded"} \cup DOMAIN XdgAfter
WayringXdgExpects == {"ponged", "configured", "clock sent", "presented", "discarded"}
=============================================================================
