----------------------------- MODULE InteropShm -----------------------------
(***************************************************************************)
(* The shared-memory programs: a pool and a buffer of it, a surface with   *)
(* its region, its viewport and its frame callback, one commit, and their  *)
(* destruction.  libwayland's client leaves a second pool and buffer for   *)
(* the server to release when the client disconnects.                      *)
(***************************************************************************)
EXTENDS InteropMessages

ShmGlobals == <<"shm", "compositor", "viewporter">>

(***************************************************************************)
(* The requests that only set something, with the arguments that both      *)
(* servers expect; the flag a handler sets is named after its request.     *)
(***************************************************************************)
ShmSetters ==
  [attach |-> <<"buffer", 0, 0>>, damage |-> <<1, 2, 3, 4>>, damage_buffer |-> <<5, 6, 7, 8>>,
   set_opaque_region |-> <<"region">>, set_input_region |-> <<"region">>,
   set_buffer_transform |-> <<90>>, set_buffer_scale |-> <<2>>, offset |-> <<2, -3>>,
   add |-> <<1, 2, 3, 4>>, subtract |-> <<5, 6, 7, 8>>,
   set_source |-> <<0, 0, 256, 256>>, set_destination |-> <<3, 4>>]

(***************************************************************************)
(* The clients.                                                            *)
(***************************************************************************)
ShmHeard(e) ==
  CASE e.op = "format" -> Sets(IF e.args = <<"argb8888">> THEN {"format"} ELSE {})
    [] e.op = "release" -> Sets({"release"})
    [] e.on = "frame" -> When(e.args = <<123>>, Sets({"frame done"}))
    [] OTHER -> Refuses

CreatePool(pool, buffer) ==
  << [Construct("shm", "create_pool", pool) EXCEPT !.args = <<4096>>],
     [Construct(pool, "create_buffer", buffer) EXCEPT !.args = <<0, 2, 2, 8, "argb8888">>] >>

ShmObjects ==
  CreatePool("pool", "buffer") \o
  << Construct("compositor", "create_surface", "surface"),
     Construct("viewporter", "get_viewport", "viewport"),
     Construct("compositor", "create_region", "region") >>

ShmState ==
  LET Set(on, op) == Message(on, op, ShmSetters[op]) IN
  << Set("region", "add"), Set("region", "subtract"),
     Set("surface", "attach"), Set("surface", "damage"),
     Set("surface", "set_opaque_region"), Set("surface", "set_input_region"),
     Set("surface", "set_buffer_transform"), Set("surface", "set_buffer_scale"),
     Set("viewport", "set_source"), Set("viewport", "set_destination"),
     Set("surface", "offset"), Construct("surface", "frame", "frame") >>

ShmCommit ==
  << Message("surface", "damage_buffer", ShmSetters.damage_buffer), Call("surface", "commit") >>

Undo(objects) == [i \in DOMAIN objects |-> Call(objects[i], "destroy")]

\* What it still has; with a live server nothing is left but the viewporter.
ShmCleanup == Undo(<<"buffer", "pool", "viewport", "surface", "region", "viewporter">>)

ShmClient ==
  << Roundtrip(<<GetRegistry>>, {"shm", "compositor", "viewporter"}),
     Roundtrip(<<>>, {"format"}),
     Roundtrip(ShmObjects \o ShmState \o ShmCommit, {"release", "frame done"}),
     Roundtrip(Undo(<<"region", "viewport", "surface", "buffer", "pool">>), {}),
     Sent(Phase(CreatePool("second pool", "second buffer"), {})) >>

\* The region is destroyed before the commit that uses it.
ShmWayringClient ==
  << SyncedPhase(<<GetRegistry>>, {"shm", "compositor", "viewporter", "format"}),
     SyncedPhase(ShmObjects \o ShmState \o Undo(<<"region">>) \o ShmCommit,
                 {"release", "frame done"}),
     Sent(SyncedPhase(Undo(<<"viewport", "surface", "buffer", "pool">>), {})) >>

-----------------------------------------------------------------------------
(***************************************************************************)
(* The servers.  libwayland's looks at a commit only; Wayring's also       *)
(* insists on an order of the requests, and takes the viewport's state     *)
(* with the commit.  Its shared-memory service has room for one pool and   *)
(* one buffer.                                                             *)
(***************************************************************************)
ShmCommitNeeds == {"attach", "damage", "damage_buffer", "set_source", "set_destination"}

WayringShmCommitNeeds ==
  ShmCommitNeeds \cup
  {"set_opaque_region", "set_input_region", "set_buffer_transform", "set_buffer_scale",
   "offset"}

ViewportIsPending(noted) ==
  {"set_source", "set_destination"} \cap noted # {} /\ "commit" \notin noted

WayringShmAllows(r, noted, live) ==
  CASE r.op = "create_pool" -> {"pool", "second pool"} \cap live = {}
    [] r.op = "create_buffer" -> {"buffer", "second buffer"} \cap live = {}
    [] r.op = "add" -> "add" \notin noted
    [] r.op = "subtract" -> "add" \in noted /\ "subtract" \notin noted
    [] r.op \in {"set_opaque_region", "set_input_region"} -> {"add", "subtract"} \subseteq noted
    [] r.on = "region" /\ r.op = "destroy" ->
         {"set_opaque_region", "set_input_region"} \subseteq noted
    [] r.op = "set_source" -> ~ViewportIsPending(noted)
    [] r.op = "set_destination" -> "set_source" \in noted /\ "set_destination" \notin noted
    [] r.on = "viewport" /\ r.op = "destroy" -> ~ViewportIsPending(noted)
    [] r.op = "commit" -> WayringShmCommitNeeds \subseteq noted
    [] OTHER -> TRUE

\* A pool counts as destroyed only after a buffer.
ShmDestroyed(object, noted) ==
  CASE object \in {"pool", "second pool"} ->
         Destroys(object, IF "buffer" \in noted THEN {"pool"} ELSE {})
    [] object = "second buffer" -> Destroys(object, {"buffer"})
    [] OTHER -> Destroys(object, {object})

ShmServed(r, noted, live) ==
  CASE r = Bind("shm") -> Sends(<<Message("shm", "format", <<"argb8888">>)>>)
    [] r.op = "bind" /\ r # Bind("shm") -> Reply
    [] r.op = "create_pool" -> When(r.args = <<4096>>, Sets({r.op}))
    [] r.op = "create_buffer" -> When(r.args = <<0, 2, 2, 8, "argb8888">>, Sets({r.op}))
    [] r.op \in {"create_surface", "create_region", "frame"} -> Sets({r.op})
    [] r.op = "get_viewport" -> When("surface" \in live, Sets({r.op}))
    [] r.op \in DOMAIN ShmSetters -> When(r.args = ShmSetters[r.op], Sets({r.op}))
    [] r.op = "commit" ->
         When(ShmCommitNeeds \subseteq noted /\ "frame" \in live,
              [SetsAndSends({"commit"}, << Call("buffer", "release"),
                                           Message("frame", "done", <<123>>) >>)
                 EXCEPT !.destroys = {"frame"}])
    [] r.op = "destroy" -> ShmDestroyed(r.on, noted)
    [] OTHER -> Refuses

WayringShmServed(r, noted, live) ==
  CASE ~WayringShmAllows(r, noted, live) -> Refuses
    [] r = Bind("shm") -> Sends(<< Message("shm", "format", <<"argb8888">>),
                                   Message("shm", "format", <<"xrgb8888">>) >>)
    [] OTHER -> ShmServed(r, noted, live)

ShmExpects ==
  {"create_pool", "create_buffer", "create_surface", "get_viewport", "commit", "add",
   "subtract", "set_opaque_region", "set_input_region", "set_buffer_transform",
   "set_buffer_scale", "offset", "set_source", "set_destination",
   "buffer", "pool", "surface", "region", "viewport"}

WayringShmExpects ==
  (ShmExpects \ {"set_source", "set_destination"}) \cup {"create_region"}
=============================================================================
