--------------------------- MODULE InteropOutput ---------------------------
(***************************************************************************)
(* The output programs: one monitor, described by six events as soon as it *)
(* is bound, and released.                                                 *)
(***************************************************************************)
EXTENDS InteropMessages

OutputGlobals == <<"output">>

\* What the servers send on bind; `done' closes the description.
OutputDescription ==
  LET Say(op, args) == Message("output", op, args) IN
  << Say("geometry", <<-10, 20, 600, 340, "horizontal_rgb", "Wayring", "Virtual-1", 90>>),
     Say("mode", <<3, 1920, 1080, 60000>>), Say("scale", <<2>>), Say("name", <<"WL-1">>),
     Say("description", <<"Wayring virtual output">>), Say("done", <<>>) >>

OutputExpected ==
  [geometry |-> <<-10, 20, 600, 340, "horizontal_rgb", "Wayring", "Virtual-1", 90>>,
   mode |-> <<3, 1920, 1080, 60000>>, scale |-> <<2>>, name |-> <<"WL-1">>,
   description |-> <<"Wayring virtual output">>, done |-> <<>>]

OutputHeard(e) ==
  When(e.op \in DOMAIN OutputExpected /\ e.args = OutputExpected[e.op], Sets({e.op}))

OutputCleanup == <<Call("output", "release")>>

OutputClient ==
  << Roundtrip(<<GetRegistry>>, {"output"}),
     Roundtrip(<<>>, DOMAIN OutputExpected) >>

OutputWayringClient ==
  << SyncedPhase(<<GetRegistry>>, {"output"} \cup DOMAIN OutputExpected),
     Sent(SyncedPhase(OutputCleanup, {})) >>

OutputServed(r) ==
  CASE r = Bind("output") -> SetsAndSends({"output_sent"}, OutputDescription)
    [] r.on = "output" /\ r.op = "release" -> Destroys("output", {"output_released"})
    [] OTHER -> Refuses

OutputExpects == {"output_released"}
WayringOutputExpects == {"output_sent", "output_released"}
=============================================================================
