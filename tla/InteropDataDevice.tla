------------------------- MODULE InteropDataDevice -------------------------
(***************************************************************************)
(* The data-device programs: a selection and a drag of one source, whose   *)
(* bytes travel through pipes that one side creates and the other writes.  *)
(* The server plays the destination of the drag as well: it creates an     *)
(* offer of its own and enters the client's first surface with it.         *)
(***************************************************************************)
EXTENDS InteropMessages

DataDeviceGlobals == <<"seat", "manager", "compositor">>

\* copy and move, of which move is preferred
Actions == 3
Move == 2

(***************************************************************************)
(* The clients write the selection into the pipe they are sent.            *)
(***************************************************************************)
DataDeviceSeen(e, seen, selection) ==
  CASE e.on = "offer" /\ e.op = "offer" -> When(e.args = <<"text/plain">>, Sets({"offer mime"}))
    [] e.on = "offer" /\ e.op = "source_actions" ->
         When(e.args = <<Actions>>, Sets({"offer actions"}))
    [] e.on = "offer" /\ e.op = "action" -> When(e.args = <<Move>>, Sets({"offer action"}))
    [] e.on = "source" /\ e.op = "target" -> When(e.args = <<"text/plain">>, Sets({"target"}))
    [] e.on = "source" /\ e.op = "send" ->
         When(e.args = <<"text/plain">>, [Sets({"sent"}) EXCEPT !.fills = {selection}])
    [] e.on = "source" /\ e.op = "action" -> When(e.args = <<Move>>, Sets({"action"}))
    [] e.op \in {"dnd_drop_performed", "dnd_finished"} -> Sets({e.op})
    [] e.op = "data_offer" -> Sets({"offer"})
    [] e.op = "enter" ->
         When(e.args = <<99, "origin", 384, -512, "offer">> /\ "offer" \in seen, Sets({"enter"}))
    [] e.op = "motion" -> When(e.args = <<300, 512, 768>>, Sets({"motion"}))
    [] e.op \in {"drop", "leave"} -> Sets({e.op})
    [] OTHER -> Refuses

\* libwayland's client answers from its listeners.
DataDeviceHeard(e, seen) ==
  LET h == DataDeviceSeen(e, seen, "libwayland-selection") IN
  CASE e.op = "enter" /\ h.ok ->
         [h EXCEPT !.sends = << Message("offer", "accept", <<99, "text/plain">>),
                                Message("offer", "set_actions", <<Actions, Move>>) >>]
    [] e.op = "drop" ->
         [h EXCEPT !.sends = << Message("offer", "receive", <<"text/plain">>),
                                Call("offer", "finish") >>]
    [] OTHER -> h

DataDeviceWayringHeard(e, seen) == DataDeviceSeen(e, seen, "wayring-selection")

DataDeviceHeeds ==
  {"sent", "target", "dnd_drop_performed", "dnd_finished", "action", "offer mime",
   "offer actions", "offer action", "enter", "motion", "drop", "leave"}

Drags ==
  << Construct("manager", "create_data_source", "source"),
     Construct("manager", "get_data_device", "device"),
     Construct("compositor", "create_surface", "origin"),
     Construct("compositor", "create_surface", "icon"),
     Message("source", "offer", <<"text/plain">>),
     Message("source", "set_actions", <<Actions>>),
     Message("device", "set_selection", <<"source", 77>>),
     Message("device", "start_drag", <<"source", "origin", "icon", 88>>) >>

DataDeviceCleanup ==
  << Call("offer", "destroy"), Call("source", "destroy"), Call("device", "release"),
     Call("icon", "destroy"), Call("origin", "destroy"), Call("seat", "release") >>

\* A bug: the pipe is read before the request that carries it was written out.
DataDeviceClientReadsFirst ==
  << Roundtrip(<<GetRegistry>>, {"seat", "manager", "compositor"}),
     [Roundtrip(Drags, DataDeviceHeeds) EXCEPT !.reads = "wayring-drag-offer"],
     Roundtrip(<<>>, {}) >>

DataDeviceClient ==
  << Roundtrip(<<GetRegistry>>, {"seat", "manager", "compositor"}),
     Roundtrip(Drags, DataDeviceHeeds),
     [Roundtrip(<<>>, {}) EXCEPT !.reads = "wayring-drag-offer"] >>

DataDeviceWayringClient ==
  << SyncedPhase(<<GetRegistry>>, {"seat", "manager", "compositor"}),
     SyncedPhase(Drags, DataDeviceHeeds \cup {"offer"}),
     [SyncedPhase(<< Message("offer", "accept", <<99, "text/plain">>),
                     Message("offer", "set_actions", <<Actions, Move>>),
                     Message("offer", "receive", <<"text/plain">>) >>, {})
        EXCEPT !.reads = "libwayland-offer"],
     Sent(SyncedPhase(
       << Call("offer", "finish"), Call("icon", "destroy"), Call("origin", "destroy"),
          Call("offer", "destroy"), Call("source", "destroy"),
          Call("device", "release"), Call("seat", "release") >>, {})) >>

-----------------------------------------------------------------------------
(***************************************************************************)
(* The servers.  `offer' is what they write when the offer is received,    *)
(* `selection' what they expect in the pipe of the selection.              *)
(***************************************************************************)
OfferServed(r, offer) ==
  CASE r.op = "accept" -> When(r.args = <<99, "text/plain">>, Sets({"offer accepted"}))
    [] r.op = "receive" ->
         When(r.args = <<"text/plain">>, [Sets({"offer received"}) EXCEPT !.fills = {offer}])
    [] r.op = "set_actions" -> When(r.args = <<Actions, Move>>, Sets({"offer actions"}))
    [] r.op = "finish" -> Sets({"offer finished"})
    [] r.op = "destroy" -> Destroys("offer", {"offer destroyed"})
    [] OTHER -> Refuses

SourceServed(r, pipes, selection) ==
  CASE r.op = "offer" -> When(r.args = <<"text/plain">>, Sets({"source offered"}))
    [] r.op = "set_actions" -> When(r.args = <<Actions>>, Sets({"source actions"}))
    [] r.op = "destroy" ->
         Destroys("source", IF selection \in pipes THEN {"source destroyed"} ELSE {})
    [] OTHER -> Refuses

DeviceServed(r, noted) ==
  CASE r.op = "set_selection" ->
         When(r.args = <<"source", 77>> /\ "source offered" \in noted,
              SetsAndSends({"selection set"}, <<Message("source", "send", <<"text/plain">>)>>))
    [] r.op = "start_drag" ->
         When(/\ r.args = <<"source", "origin", "icon", 88>>
              /\ "source actions" \in noted,
              SetsAndSends({"drag started"},
                           << Message("source", "target", <<"text/plain">>),
                              Message("source", "action", <<Move>>),
                              Call("source", "dnd_drop_performed"),
                              Call("source", "dnd_finished") >>))
    [] r.op = "release" -> Destroys("device", {"device released"})
    [] OTHER -> Refuses

ManagerServed(r) ==
  CASE r.op = "create_data_source" -> Sets({"source created"})
    [] r.op = "get_data_device" ->
         SetsAndSends({"device created"},
                      << Construct("device", "data_offer", "offer"),
                         Message("offer", "offer", <<"text/plain">>),
                         Message("offer", "source_actions", <<Actions>>),
                         Message("offer", "action", <<Move>>) >>)
    [] OTHER -> Refuses

\* The second surface is the icon, and starts the destination's half.
CompositorServed(r, live) ==
  CASE r.op = "create_surface" /\ "origin" \notin live -> Reply
    [] r.op = "create_surface" /\ {"origin", "device", "offer"} \subseteq live ->
         SetsAndSends({"destination"},
                      << Message("device", "enter", <<99, "origin", 384, -512, "offer">>),
                         Message("device", "motion", <<300, 512, 768>>),
                         Call("device", "drop"), Call("device", "leave") >>)
    [] OTHER -> Refuses

DataDeviceServed(r, noted, live, pipes, offer, selection) ==
  CASE r.op = "bind" -> Reply
    [] r.on = "offer" -> OfferServed(r, offer)
    [] r.on = "source" -> SourceServed(r, pipes, selection)
    [] r.on = "device" -> DeviceServed(r, noted)
    [] r.on = "manager" -> ManagerServed(r)
    [] r.on = "compositor" -> CompositorServed(r, live)
    [] r.on \in {"origin", "icon"} /\ r.op = "destroy" -> Destroys(r.on, {r.on})
    [] r.on = "seat" /\ r.op = "release" -> Destroys("seat", {"seat released"})
    [] OTHER -> Refuses

\* The destructor of the source reads the pipe, and waits for its writer.
SelectionRead(r, noted, selection) ==
  IF r.on = "source" /\ r.op = "destroy" /\ "selection set" \in noted
  THEN selection
  ELSE "none"

DataDeviceExpects ==
  {"source created", "device created", "source offered", "selection set", "offer received",
   "offer destroyed", "source destroyed", "device released", "seat released",
   "source actions", "drag started", "origin", "icon", "offer accepted", "offer actions",
   "offer finished", "destination"}

\* The Wayring server does not count the surfaces destroyed.
WayringDataDeviceExpects == DataDeviceExpects \ {"origin", "icon"}
=============================================================================
