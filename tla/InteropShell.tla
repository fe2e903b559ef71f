---------------------------- MODULE InteropShell ----------------------------
(***************************************************************************)
(* The wl_shell programs: a ping, a configure and a popup_done as soon as  *)
(* there is a shell surface.  wl_shell_surface has no destructor: the      *)
(* server's resource lives as long as the client.                          *)
(***************************************************************************)
EXTENDS InteropMessages

ShellGlobals == <<"compositor", "shell">>

ShellHeard(e) ==
  CASE e.op = "ping" ->
         When(e.args = <<41>>,
              SetsAndSends({"ping"}, <<Message("shell_surface", "pong", e.args)>>))
    [] e.op = "configure" -> When(e.args = <<"bottom_right", 800, 600>>, Sets({"configure"}))
    [] e.op = "popup_done" -> Sets({"popup_done"})
    [] OTHER -> Refuses

ShellWindow ==
  << Construct("compositor", "create_surface", "surface"),
     [Construct("shell", "get_shell_surface", "shell_surface") EXCEPT !.args = <<"surface">>],
     Message("shell_surface", "set_title", <<"wayring-shell">>),
     Message("shell_surface", "set_class", <<"wayring">>),
     Call("shell_surface", "set_toplevel") >>

ShellHeeds == {"ping", "configure", "popup_done"}

ShellCleanup == <<Call("surface", "destroy")>>

ShellClient ==
  << Roundtrip(<<GetRegistry>>, {"compositor", "shell"}),
     Roundtrip(ShellWindow, ShellHeeds),
     Roundtrip(ShellCleanup, {}) >>

ShellWayringClient ==
  << SyncedPhase(<<GetRegistry>>, {"compositor", "shell"}),
     SyncedPhase(ShellWindow, ShellHeeds),
     Sent(SyncedPhase(ShellCleanup, {})) >>

-----------------------------------------------------------------------------
(***************************************************************************)
(* The servers.  libwayland's does not check arguments but leaves a flag   *)
(* unset; Wayring's refuses them.                                          *)
(***************************************************************************)
ShellSetters ==
  [pong |-> <<41>>, set_title |-> <<"wayring-shell">>, set_class |-> <<"wayring">>,
   set_toplevel |-> <<>>]

ShellServed(r) ==
  CASE r.op = "bind" -> Reply
    [] r.op = "create_surface" -> Sets({"surface created"})
    [] r.op = "get_shell_surface" ->
         SetsAndSends({"created"}, << Message(r.new, "ping", <<41>>),
                                      Message(r.new, "configure", <<"bottom_right", 800, 600>>),
                                      Call(r.new, "popup_done") >>)
    [] r.op \in DOMAIN ShellSetters ->
         Sets(IF r.args = ShellSetters[r.op] THEN {r.op} ELSE {})
    [] r.on = "surface" /\ r.op = "destroy" -> Destroys("surface", {"surface destroyed"})
    [] OTHER -> Refuses

WayringShellServed(r, live) ==
  CASE r.op = "get_shell_surface" /\ ~(r.args = <<"surface">> /\ "surface" \in live) -> Refuses
    [] r.op \in DOMAIN ShellSetters /\ r.args # ShellSetters[r.op] -> Refuses
    [] OTHER -> ShellServed(r)

ShellExpects == {"created", "surface destroyed"} \cup DOMAIN ShellSetters
WayringShellExpects == ShellExpects \cup {"surface created"}
=============================================================================
