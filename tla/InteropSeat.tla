---------------------------- MODULE InteropSeat ----------------------------
(***************************************************************************)
(* The pointer, keyboard and touch programs: a seat with one device, which *)
(* sends a fixed burst of events as soon as it is created.  The three      *)
(* pairs of programs differ in the burst only, so each is the seat with    *)
(* its device.  Clients and servers state the burst separately.            *)
(***************************************************************************)
EXTENDS InteropMessages

SeatGlobals == <<"compositor", "seat">>

SeatHeard(device, e) ==
  CASE e.op = "capabilities" -> When(e.args = <<device>>, Sets({"capabilities"}))
    [] e.op = "name" -> When(e.args = <<"wayring-seat">>, Sets({"name"}))
    [] OTHER -> Refuses

(***************************************************************************)
(* The requests of a seat server.  The device is only created over a       *)
(* surface, which the burst names.                                         *)
(***************************************************************************)
SeatServed(device, get, burst, r, live) ==
  CASE r = Bind("seat") ->
         SetsAndSends({"advertised"}, << Message("seat", "capabilities", <<device>>),
                                         Message("seat", "name", <<"wayring-seat">>) >>)
    [] r = Bind("compositor") -> Reply
    [] r.op = "create_surface" -> Reply
    [] r.op = get /\ "surface" \in live -> SetsAndSends({"created", "sent"}, burst)
    [] r.on = device /\ r.op = "release" -> Destroys(device, {"device_released"})
    [] r.on = "surface" /\ r.op = "destroy" -> Destroys("surface", {"surface_destroyed"})
    [] r.on = "seat" /\ r.op = "release" -> Destroys("seat", {"seat_released"})
    [] OTHER -> Refuses

SeatExpects == {"device_released", "surface_destroyed", "seat_released"}
WayringSeatExpects == SeatExpects \cup {"advertised", "created", "sent"}

Opens(device, get) ==
  << Construct("compositor", "create_surface", "surface"), Construct("seat", get, device) >>

Closes(device) ==
  << Call(device, "release"), Call("surface", "destroy"), Call("seat", "release") >>

SeatClient(device, get, heard) ==
  << Roundtrip(<<GetRegistry>>, {"compositor", "seat"}),
     Roundtrip(<<>>, {"capabilities", "name"}),
     Roundtrip(Opens(device, get), heard) >>

SeatWayringClient(device, get, heard) ==
  << SyncedPhase(<<GetRegistry>>, {"compositor", "seat", "capabilities", "name"}),
     SyncedPhase(Opens(device, get), heard),
     Sent(SyncedPhase(Closes(device), {})) >>

-----------------------------------------------------------------------------
(***************************************************************************)
(* The pointer.                                                            *)
(***************************************************************************)
PointerBurst ==
  LET Say(op, args) == Message("pointer", op, args) IN
  << Say("enter", <<41, "surface", 896, -576>>), Say("motion", <<100, 1024, 1280>>),
     Say("button", <<42, 101, 272, "pressed">>), Say("axis_source", <<"wheel">>),
     Say("axis", <<102, "vertical", -256>>), Say("axis_discrete", <<"vertical", -1>>),
     Say("axis_value120", <<"vertical", -120>>), Say("axis_stop", <<103, "vertical">>),
     Say("frame", <<>>) >>

PointerExpected ==
  [enter |-> <<41, "surface", 896, -576>>, motion |-> <<100, 1024, 1280>>,
   button |-> <<42, 101, 272, "pressed">>, axis |-> <<102, "vertical", -256>>,
   axis_source |-> <<"wheel">>, axis_stop |-> <<103, "vertical">>,
   axis_discrete |-> <<"vertical", -1>>, axis_value120 |-> <<"vertical", -120>>,
   frame |-> <<>>]

PointerHeard(e, seen) ==
  IF e.on = "seat" THEN SeatHeard("pointer", e)
  ELSE When(e.op \in DOMAIN PointerExpected /\ e.args = PointerExpected[e.op], Sets({e.op}))

PointerServed(r, live) == SeatServed("pointer", "get_pointer", PointerBurst, r, live)
PointerClient == SeatClient("pointer", "get_pointer", DOMAIN PointerExpected)
PointerWayringClient == SeatWayringClient("pointer", "get_pointer", DOMAIN PointerExpected)

-----------------------------------------------------------------------------
(***************************************************************************)
(* The keyboard: its clients also insist on the order of the events.       *)
(***************************************************************************)
\* A bug: the focus moves before the client has the keymap.
KeyboardBurstEarly ==
  LET Say(op, args) == Message("keyboard", op, args) IN
  << Say("repeat_info", <<25, 600>>), Say("enter", <<41, "surface", 30, 31>>),
     Say("keymap", <<"xkb_v1", "xkb_keymap {}">>), Say("modifiers", <<42, 1, 2, 4, 3>>),
     Say("key", <<43, 100, 30, "pressed">>), Say("leave", <<44, "surface">>) >>

KeyboardBurst ==
  LET Say(op, args) == Message("keyboard", op, args) IN
  << Say("repeat_info", <<25, 600>>), Say("keymap", <<"xkb_v1", "xkb_keymap {}">>),
     Say("enter", <<41, "surface", 30, 31>>), Say("modifiers", <<42, 1, 2, 4, 3>>),
     Say("key", <<43, 100, 30, "pressed">>), Say("leave", <<44, "surface">>) >>

KeyboardExpected ==
  [keymap |-> <<"xkb_v1", "xkb_keymap {}">>, enter |-> <<41, "surface", 30, 31>>,
   modifiers |-> <<42, 1, 2, 4, 3>>, key |-> <<43, 100, 30, "pressed">>,
   repeat_info |-> <<25, 600>>, leave |-> <<44, "surface">>]

KeyboardFollows ==
  [keymap |-> {}, repeat_info |-> {}, enter |-> {"keymap"}, modifiers |-> {"enter"},
   key |-> {"repeat_info", "modifiers"}, leave |-> {"key"}]

KeyboardHeard(e, seen) ==
  IF e.on = "seat" THEN SeatHeard("keyboard", e)
  ELSE When(/\ e.op \in DOMAIN KeyboardExpected
            /\ e.args = KeyboardExpected[e.op]
            /\ KeyboardFollows[e.op] \subseteq seen,
            Sets({e.op}))

KeyboardServed(r, live) == SeatServed("keyboard", "get_keyboard", KeyboardBurst, r, live)
KeyboardClient == SeatClient("keyboard", "get_keyboard", DOMAIN KeyboardExpected)
KeyboardWayringClient ==
  SeatWayringClient("keyboard", "get_keyboard", DOMAIN KeyboardExpected)

-----------------------------------------------------------------------------
(***************************************************************************)
(* The touch screen: two contacts and two frames, then a cancellation,     *)
(* which counts only after both contacts.                                  *)
(***************************************************************************)
TouchBurst ==
  LET Say(op, args) == Message("touch", op, args) IN
  << Say("down", <<51, 200, "surface", 7, 384, -512>>), Say("motion", <<201, 7, 768, 1024>>),
     Say("shape", <<7, 1280, 512>>), Say("orientation", <<7, -11520>>),
     Say("frame", <<>>), Say("up", <<52, 202, 7>>), Say("frame", <<>>),
     Say("down", <<53, 203, "surface", 8, 0, 0>>), Say("cancel", <<>>) >>

TouchExpected ==
  [motion |-> <<201, 7, 768, 1024>>, shape |-> <<7, 1280, 512>>,
   orientation |-> <<7, -11520>>, up |-> <<52, 202, 7>>]

TouchHeard(e, seen) ==
  CASE e.on = "seat" -> SeatHeard("touch", e)
    [] e.op = "down" /\ "down" \notin seen ->
         When(e.args = <<51, 200, "surface", 7, 384, -512>>, Sets({"down"}))
    [] e.op = "down" /\ "down" \in seen ->
         When(e.args = <<53, 203, "surface", 8, 0, 0>> /\ "second down" \notin seen,
              Sets({"second down"}))
    [] e.op = "frame" ->
         When("second frame" \notin seen,
              Sets(IF "frame" \in seen THEN {"second frame"} ELSE {"frame"}))
    [] e.op = "cancel" -> When("second down" \in seen, Sets({"cancel"}))
    [] e.op \in DOMAIN TouchExpected -> When(e.args = TouchExpected[e.op], Sets({e.op}))
    [] OTHER -> Refuses

TouchHeeds == DOMAIN TouchExpected \cup {"down", "second down", "frame", "second frame", "cancel"}

TouchServed(r, live) == SeatServed("touch", "get_touch", TouchBurst, r, live)
TouchClient == SeatClient("touch", "get_touch", TouchHeeds)
TouchWayringClient == SeatWayringClient("touch", "get_touch", TouchHeeds)
=============================================================================
