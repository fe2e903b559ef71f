--------------------------- MODULE InteropDmabuf ---------------------------
(***************************************************************************)
(* The dmabuf programs: three sets of parameters, of which one makes a     *)
(* buffer at once, one makes it by an event that carries a new object, and *)
(* one is told that it failed.                                             *)
(***************************************************************************)
EXTENDS InteropMessages

DmabufGlobals == <<"dmabuf">>

Modifier == <<"argb8888", "invalid">>
Plane == <<0, 0, 4, "invalid">>
Size(width) == <<width, 1, "argb8888", 0>>

\* created carries the new buffer: the server's side constructs it.
DmabufHeard(e) ==
  CASE e.op = "modifier" -> Sets(IF e.args = Modifier THEN {"modifier"} ELSE {})
    [] e.op \in {"created", "failed"} -> Sets({e.op})
    [] OTHER -> Refuses

Parameters(params) ==
  << Construct("dmabuf", "create_params", params), Message(params, "add", Plane) >>

Immediate ==
  Parameters("first params") \o
  << [Construct("first params", "create_immed", "buffer") EXCEPT !.args = Size(1)] >>

Deferred(params, width) == Parameters(params) \o << Message(params, "create", Size(width)) >>

Discards(objects) == [i \in DOMAIN objects |-> Call(objects[i], "destroy")]

DmabufCleanup ==
  Discards(<<"buffer", "async buffer", "first params", "second params", "third params", "dmabuf">>)

DmabufClient ==
  << Roundtrip(<<GetRegistry>>, {"dmabuf"}),
     Roundtrip(<<>>, {"modifier"}),
     Roundtrip(Immediate, {}),
     Roundtrip(Discards(<<"buffer", "first params">>), {}),
     Phase(Deferred("second params", 1), {"created"}),
     Roundtrip(Discards(<<"async buffer", "second params">>), {}),
     Phase(Deferred("third params", 2), {"failed"}),
     Roundtrip(Discards(<<"third params">>), {}) >>

DmabufWayringClient ==
  << SyncedPhase(<<GetRegistry>>, {"dmabuf", "modifier"}),
     SyncedPhase(Immediate, {}),
     Sent(SyncedPhase(Discards(<<"buffer", "first params">>), {})),
     Phase(Deferred("second params", 1), {"created"}),
     SyncedPhase(Discards(<<"async buffer", "second params">>), {}),
     Phase(Deferred("third params", 2), {"failed"}),
     Sent(SyncedPhase(Discards(<<"third params", "dmabuf">>), {})) >>

-----------------------------------------------------------------------------
(***************************************************************************)
(* The servers count what they create and destroy; every object has a name *)
(* of its own, and a flag of its own stands for its part of the count.     *)
(***************************************************************************)
AllParams == <<"first params", "second params", "third params">>
Created == <<"first created", "second created", "third created">>
Planes == <<"first plane", "second plane", "third plane">>

\* The flag of these parameters
FlagOf(params, flags) == flags[CHOOSE i \in DOMAIN AllParams : AllParams[i] = params]

DmabufCreate(r) ==
  CASE r.args = Size(2) -> SetsAndSends({"create failed"}, <<Call(r.on, "failed")>>)
    [] r.args = Size(1) ->
         SetsAndSends({"async buffer created"}, <<Construct(r.on, "created", "async buffer")>>)
    [] OTHER -> Refuses

DmabufDestroyed(object, noted) ==
  CASE object = "dmabuf" ->
         Destroys("dmabuf", IF "params destroyed" \in noted THEN {"dmabuf"} ELSE {})
    [] object \in {"buffer", "async buffer"} -> Destroys(object, {object, "buffer destroyed"})
    [] OTHER -> Destroys(object, {object} \cup
                  (IF "buffer destroyed" \in noted THEN {"params destroyed"} ELSE {}))

DmabufServed(r, noted) ==
  CASE r = Bind("dmabuf") -> Sends(<<Message("dmabuf", "modifier", Modifier)>>)
    [] r.op = "create_params" -> Sets({FlagOf(r.new, Created)})
    [] r.op = "add" -> When(r.args = Plane, Sets({"plane added", FlagOf(r.on, Planes)}))
    [] r.op = "create_immed" ->
         When("plane added" \in noted /\ r.args = Size(1), Sets({"buffer created"}))
    [] r.op = "create" /\ "plane added" \in noted -> DmabufCreate(r)
    [] r.op = "destroy" -> DmabufDestroyed(r.on, noted)
    [] OTHER -> Refuses

WayringDmabufExpects ==
  UNION {{flags[i] : i \in 1..3} : flags \in {AllParams, Created, Planes}} \cup
  {"buffer created", "async buffer created", "create failed", "buffer", "async buffer",
   "params destroyed"}

DmabufExpects == WayringDmabufExpects \cup {"dmabuf"}
=============================================================================
