------------------------------ MODULE Interop ------------------------------
(***************************************************************************)
(* The interoperability programs of bench/: a libwayland client against a  *)
(* Wayring server and a Wayring client against a libwayland server, for    *)
(* each protocol.  Two processes, a socket, and the pipes whose            *)
(* descriptors travel over it.                                             *)
(*                                                                         *)
(* The programs are the modules Interop<Protocol>; this one runs a pair of *)
(* them.  libwayland is external: it writes requests out when the client   *)
(* is about to wait, dispatches all that one read returned, destroys a     *)
(* client whose socket was hung up without reading the rest, and writes    *)
(* events out at the end of a turn of the server's loop.                   *)
(***************************************************************************)
EXTENDS InteropSeat, InteropXdg, InteropDataDevice, InteropShm, InteropDmabuf, InteropOutput,
        InteropSubsurface, InteropShell, FiniteSets, SequencesExt

Protocols ==
  {"pointer", "keyboard", "touch", "xdg", "data_device", "shm", "dmabuf", "output",
   "subsurface", "shell"}
Libraries == {"libwayland", "wayring"}

VARIABLES
  pair,       \* the protocol, and the library of the client
  phase,      \* the client's phase
  stage,      \* where in it: "writing", "waiting", "cleaning", "leaving", "gone"
  outcome,    \* the client's exit status: "none", "ok" or "failed"
  has,        \* the client's objects
  seen,       \* the flags its listeners have set
  inbox,      \* events it has read and not dispatched
  unsent,     \* requests written and not flushed
  requests,   \* requests in the socket
  events,     \* events in the socket
  turn,       \* requests the server has read and not handled
  replies,    \* events the server has written and not flushed
  live,       \* the server's resources
  noted,      \* the flags its handlers have set
  served,     \* the server's exit status: "none", "ok" or "failed"
  pipes       \* what the pipes hold

vars == <<pair, phase, stage, outcome, has, seen, inbox, unsent, requests, events,
          turn, replies, live, noted, served, pipes>>

client == <<phase, stage, outcome, has, seen, inbox, unsent>>
server == <<turn, replies, live, noted, served>>

-----------------------------------------------------------------------------
(***************************************************************************)
(* The programs of the pair.                                               *)
(***************************************************************************)
ByWayring == pair.client = "wayring"

Globals ==
  CASE pair.protocol \in {"pointer", "keyboard", "touch"} -> SeatGlobals
    [] pair.protocol = "xdg" -> XdgGlobals
    [] pair.protocol = "data_device" -> DataDeviceGlobals
    [] pair.protocol = "shm" -> ShmGlobals
    [] pair.protocol = "dmabuf" -> DmabufGlobals
    [] pair.protocol = "output" -> OutputGlobals
    [] pair.protocol = "subsurface" -> SubsurfaceGlobals
    [] pair.protocol = "shell" -> ShellGlobals

Script ==
  CASE pair.protocol = "pointer" -> IF ByWayring THEN PointerWayringClient ELSE PointerClient
    [] pair.protocol = "keyboard" -> IF ByWayring THEN KeyboardWayringClient ELSE KeyboardClient
    [] pair.protocol = "touch" -> IF ByWayring THEN TouchWayringClient ELSE TouchClient
    [] pair.protocol = "xdg" -> IF ByWayring THEN XdgWayringClient ELSE XdgClient
    [] pair.protocol = "data_device" ->
         IF ByWayring THEN DataDeviceWayringClient ELSE DataDeviceClient
    [] pair.protocol = "shm" -> IF ByWayring THEN ShmWayringClient ELSE ShmClient
    [] pair.protocol = "dmabuf" -> IF ByWayring THEN DmabufWayringClient ELSE DmabufClient
    [] pair.protocol = "output" -> IF ByWayring THEN OutputWayringClient ELSE OutputClient
    [] pair.protocol = "subsurface" ->
         IF ByWayring THEN SubsurfaceWayringClient ELSE SubsurfaceClient
    [] pair.protocol = "shell" -> IF ByWayring THEN ShellWayringClient ELSE ShellClient

\* What a libwayland client sends before it disconnects, whatever happened.
Cleanup ==
  CASE ByWayring -> <<>>
    [] ~ByWayring /\ pair.protocol \in {"pointer", "keyboard", "touch"} -> Closes(pair.protocol)
    [] ~ByWayring /\ pair.protocol = "xdg" -> XdgCleanup
    [] ~ByWayring /\ pair.protocol = "data_device" -> DataDeviceCleanup
    [] ~ByWayring /\ pair.protocol = "shm" -> ShmCleanup
    [] ~ByWayring /\ pair.protocol = "dmabuf" -> DmabufCleanup
    [] ~ByWayring /\ pair.protocol = "output" -> OutputCleanup
    [] ~ByWayring /\ pair.protocol = "subsurface" -> SubsurfaceCleanup
    [] ~ByWayring /\ pair.protocol = "shell" -> ShellCleanup

ProtocolHeard(e, flags) ==
  CASE pair.protocol = "pointer" -> PointerHeard(e, flags)
    [] pair.protocol = "keyboard" -> KeyboardHeard(e, flags)
    [] pair.protocol = "touch" -> TouchHeard(e, flags)
    [] pair.protocol = "xdg" -> IF ByWayring THEN XdgWayringHeard(e, flags) ELSE XdgHeard(e, flags)
    [] pair.protocol = "data_device" ->
         IF ByWayring THEN DataDeviceWayringHeard(e, flags) ELSE DataDeviceHeard(e, flags)
    [] pair.protocol = "shm" -> ShmHeard(e)
    [] pair.protocol = "dmabuf" -> DmabufHeard(e)
    [] pair.protocol = "output" -> OutputHeard(e)
    [] pair.protocol = "subsurface" -> Refuses
    [] pair.protocol = "shell" -> ShellHeard(e)

\* What the two ends of the data-device programs write into the pipes.
Selection == IF ByWayring THEN "wayring-selection" ELSE "libwayland-selection"
Offer == IF ByWayring THEN "libwayland-offer" ELSE "wayring-drag-offer"

ProtocolServed(r, flags, objects, filled) ==
  CASE pair.protocol = "pointer" -> PointerServed(r, objects)
    [] pair.protocol = "keyboard" -> KeyboardServed(r, objects)
    [] pair.protocol = "touch" -> TouchServed(r, objects)
    [] pair.protocol = "xdg" ->
         IF ByWayring THEN XdgServed(r, flags) ELSE WayringXdgServed(r, flags)
    [] pair.protocol = "data_device" ->
         DataDeviceServed(r, flags, objects, filled, Offer, Selection)
    [] pair.protocol = "shm" ->
         IF ByWayring THEN ShmServed(r, flags, objects) ELSE WayringShmServed(r, flags, objects)
    [] pair.protocol = "dmabuf" -> DmabufServed(r, flags)
    [] pair.protocol = "output" -> OutputServed(r)
    [] pair.protocol = "subsurface" ->
         IF ByWayring THEN SubsurfaceServed(r, flags) ELSE WayringSubsurfaceServed(r, flags)
    [] pair.protocol = "shell" ->
         IF ByWayring THEN ShellServed(r) ELSE WayringShellServed(r, objects)

\* The flags the server's exit status depends on.
Expects ==
  CASE pair.protocol \in {"pointer", "keyboard", "touch"} ->
         IF ByWayring THEN SeatExpects ELSE WayringSeatExpects
    [] pair.protocol = "xdg" -> IF ByWayring THEN XdgExpects ELSE WayringXdgExpects
    [] pair.protocol = "data_device" ->
         IF ByWayring THEN DataDeviceExpects ELSE WayringDataDeviceExpects
    [] pair.protocol = "shm" -> IF ByWayring THEN ShmExpects ELSE WayringShmExpects
    [] pair.protocol = "dmabuf" -> IF ByWayring THEN DmabufExpects ELSE WayringDmabufExpects
    [] pair.protocol = "output" -> IF ByWayring THEN OutputExpects ELSE WayringOutputExpects
    [] pair.protocol = "subsurface" ->
         IF ByWayring THEN SubsurfaceExpects ELSE WayringSubsurfaceExpects
    [] pair.protocol = "shell" -> IF ByWayring THEN ShellExpects ELSE WayringShellExpects

-----------------------------------------------------------------------------
(***************************************************************************)
(* The client.                                                             *)
(***************************************************************************)
Heard(e, flags) ==
  CASE e.op = "global" -> SetsAndSends({e.args[1]}, <<Bind(e.args[1])>>)
    [] e.on = "callback" -> Sets({"synced"})
    [] e.op = "delete_id" /\ e.args = <<"callback">> -> Sets({"deleted"})
    [] e.op = "delete_id" /\ e.args # <<"callback">> ->
         IF pair.protocol = "xdg" /\ ByWayring THEN ProtocolHeard(e, flags) ELSE Reply
    [] OTHER -> ProtocolHeard(e, flags)

\* The condition of a loop is looked at between two batches of events.
Waits == stage = "waiting" /\ inbox = <<>> /\ ~(Script[phase].until \subseteq seen)

\* A libwayland client goes to its cleanup, a Wayring client exits.
Fails ==
  /\ outcome' = "failed"
  /\ stage' = IF ByWayring THEN "gone" ELSE "cleaning"

\* The client's objects after these requests.
Held(w) ==
  (has \cup {w[i].new : i \in DOMAIN w})
    \ {w[i].on : i \in {j \in DOMAIN w : w[j].op \in {"destroy", "release"}}}

ClientWrites ==
  /\ stage = "writing"
  /\ LET w == Script[phase].writes IN
     /\ unsent' = unsent \o w
     /\ has' = Held(w)
     /\ seen' = IF Sync \in ToSet(w) THEN seen \ {"synced", "deleted"} ELSE seen
  /\ stage' = "waiting"
  /\ UNCHANGED <<pair, phase, outcome, inbox, requests, events, server, pipes>>

\* The Wayring clients submit at once, libwayland when it is about to wait or
\* is told to.  Writing to a server that is gone fails a Wayring client, and a
\* libwayland client that looks at the result.
Flushes == stage = "waiting" /\ inbox = <<>> /\ Script[phase].sent

ClientFlushes ==
  /\ unsent # <<>>
  /\ Waits \/ Flushes \/ stage = "leaving" \/ ByWayring
  /\ unsent' = <<>>
  /\ IF served = "none"
     THEN /\ requests' = requests \o unsent
          /\ UNCHANGED <<stage, outcome>>
     ELSE /\ IF Flushes \/ ByWayring THEN Fails ELSE UNCHANGED <<stage, outcome>>
          /\ UNCHANGED requests
  /\ UNCHANGED <<pair, phase, has, seen, inbox, events, server, pipes>>

ClientReads ==
  /\ Waits
  /\ events # <<>>
  /\ unsent = <<>> \/ ByWayring
  /\ inbox' = events
  /\ events' = <<>>
  /\ UNCHANGED <<pair, phase, stage, outcome, has, seen, unsent, requests, server, pipes>>

\* A listener of a libwayland client ignores what it does not expect.
ClientDispatches ==
  /\ stage = "waiting"
  /\ inbox # <<>>
  /\ LET e == Head(inbox)
         h == Heard(e, seen)
     IN IF h.ok
        THEN /\ seen' = seen \cup h.sets
             /\ has' = Held(h.sends) \cup {e.new}
             /\ unsent' = unsent \o h.sends
             /\ pipes' = pipes \cup h.fills
             /\ UNCHANGED <<stage, outcome>>
        ELSE /\ IF ByWayring THEN Fails ELSE UNCHANGED <<stage, outcome>>
             /\ UNCHANGED <<seen, has, unsent, pipes>>
  /\ inbox' = Tail(inbox)
  /\ UNCHANGED <<pair, phase, requests, events, server>>

\* A read of a pipe returns once it was written, or its other end is gone.
ClientAdvances ==
  /\ stage = "waiting"
  /\ inbox = <<>>
  /\ Script[phase].until \subseteq seen
  /\ Script[phase].sent => unsent = <<>>
  /\ LET p == Script[phase]
         read == p.reads = "none" \/ p.reads \in pipes
     IN /\ read \/ served # "none"
        /\ IF ~read \/ ~(p.expect \subseteq seen)
           THEN Fails /\ UNCHANGED phase
           ELSE IF phase = Len(Script)
           THEN /\ outcome' = "ok"
                /\ stage' = "cleaning"
                /\ UNCHANGED phase
           ELSE /\ phase' = phase + 1
                /\ stage' = "writing"
                /\ UNCHANGED outcome
  /\ UNCHANGED <<pair, has, seen, inbox, unsent, requests, events, server, pipes>>

ClientLosesServer ==
  /\ Waits
  /\ served # "none"
  /\ events = <<>>
  /\ Fails
  /\ UNCHANGED <<pair, phase, has, seen, inbox, unsent, requests, events, server, pipes>>

ClientCleansUp ==
  /\ stage = "cleaning"
  /\ stage' = "leaving"
  /\ unsent' = unsent \o SelectSeq(Cleanup, LAMBDA r : r.on \in has)
  /\ UNCHANGED <<pair, phase, outcome, has, seen, inbox, requests, events, server, pipes>>

ClientCloses ==
  /\ stage = "leaving"
  /\ unsent = <<>>
  /\ stage' = "gone"
  /\ UNCHANGED <<pair, phase, outcome, has, seen, inbox, unsent, requests, events, server, pipes>>

-----------------------------------------------------------------------------
(***************************************************************************)
(* The server.                                                             *)
(***************************************************************************)
\* Ids are given back to the client that chose them.
ServerCreated == {"offer", "async buffer"}

DeleteIds(objects) ==
  SetToSeq({Message("display", "delete_id", <<o>>) : o \in objects \ ServerCreated})

\* A read of the pipe of the selection returns when it was written, or when
\* the client that was to write it is gone.
MayRead(r) ==
  LET p == SelectionRead(r, noted, Selection) IN
  pair.protocol = "data_device" /\ p # "none" => p \in pipes \/ stage = "gone"

Serve(r) ==
  CASE r.on \notin live -> Refuses
    [] r = Sync -> [Sends(<<Message("callback", "done", <<>>)>>) EXCEPT !.destroys = {"callback"}]
    [] r = GetRegistry -> Sends([i \in DOMAIN Globals |-> Global(Globals[i])])
    [] OTHER -> ProtocolServed(r, noted, live, pipes)

ServerReads ==
  /\ served = "none"
  /\ turn = <<>> /\ replies = <<>> /\ requests # <<>>
  /\ ByWayring => stage # "gone"
  /\ turn' = requests
  /\ requests' = <<>>
  /\ UNCHANGED <<pair, client, events, replies, live, noted, served, pipes>>

ServerHandles ==
  /\ served = "none"
  /\ turn # <<>>
  /\ MayRead(Head(turn))
  /\ LET r == Head(turn)
         s == Serve(r)
     IN IF s.ok
        THEN /\ turn' = Tail(turn)
             /\ replies' = replies \o s.sends \o DeleteIds(s.destroys)
             /\ live' = (live \cup {r.new} \cup {s.sends[i].new : i \in DOMAIN s.sends})
                          \ s.destroys
             /\ noted' = noted \cup s.sets
             /\ pipes' = pipes \cup s.fills
             /\ UNCHANGED <<events, served>>
        ELSE /\ served' = "failed"
             /\ events' = IF ByWayring THEN events \o replies ELSE events
             /\ UNCHANGED <<turn, replies, live, noted, pipes>>
  /\ UNCHANGED <<pair, client, requests>>

(***************************************************************************)
(* A libwayland server has no memory for an object: it posts an error and  *)
(* destroys the client, whose events are written out before.               *)
(***************************************************************************)
Makes(r) ==
  LET s == Serve(r) IN
  s.ok /\ (r.new # "none" \/ \E i \in DOMAIN s.sends : s.sends[i].new # "none")

ServerRunsOut ==
  /\ served = "none"
  /\ ByWayring
  /\ turn # <<>>
  /\ Makes(Head(turn))
  /\ noted' = noted \cup {"no memory"}
  /\ served' = "failed"
  /\ events' = events \o replies
  /\ UNCHANGED <<pair, client, requests, turn, replies, live, pipes>>

ServerFlushes ==
  /\ served = "none"
  /\ turn = <<>> /\ replies # <<>>
  /\ stage # "gone"
  /\ events' = events \o replies
  /\ replies' = <<>>
  /\ UNCHANGED <<pair, client, requests, turn, live, noted, served, pipes>>

(***************************************************************************)
(* The socket was hung up.  libwayland does not look for requests then; a  *)
(* Wayring server reads them unless a write of events failed before.       *)
(***************************************************************************)
ServerHangsUp ==
  /\ served = "none"
  /\ stage = "gone"
  /\ turn = <<>>
  /\ ByWayring \/ requests = <<>> \/ replies # <<>>
  /\ served' = IF Expects \subseteq noted THEN "ok" ELSE "failed"
  /\ UNCHANGED <<pair, client, requests, events, turn, replies, live, noted, pipes>>

-----------------------------------------------------------------------------
Init ==
  /\ pair \in [protocol : Protocols, client : Libraries]
  /\ phase = 1 /\ stage = "writing" /\ outcome = "none"
  /\ has = {"display"} /\ seen = {} /\ inbox = <<>> /\ unsent = <<>>
  /\ requests = <<>> /\ events = <<>>
  /\ turn = <<>> /\ replies = <<>> /\ live = {"display"} /\ noted = {} /\ served = "none"
  /\ pipes = {}

Client ==
  \/ ClientWrites \/ ClientFlushes \/ ClientReads \/ ClientDispatches \/ ClientAdvances
  \/ ClientLosesServer \/ ClientCleansUp \/ ClientCloses

Server ==
  \/ ServerReads \/ ServerHandles \/ ServerRunsOut \/ ServerFlushes \/ ServerHangsUp

Over == stage = "gone" /\ served # "none"

Next == Client \/ Server \/ (Over /\ UNCHANGED vars)

Spec == Init /\ [][Next]_vars /\ WF_vars(Client) /\ WF_vars(Server)

-----------------------------------------------------------------------------
(***************************************************************************)
(* Properties.                                                             *)
(***************************************************************************)
\* Wayring's xdg-shell client sends its destructors and leaves without another
\* round trip: libwayland may hang up on them, and its server misses them only.
FarewellDropped ==
  /\ pair = [protocol |-> "xdg", client |-> "wayring"]
  /\ outcome = "ok" /\ stage = "gone"
  /\ requests = XdgCleanup
  /\ Expects \ noted = DOMAIN XdgAfter

\* Of what a client created, a server that reports success has nothing left to
\* release for it but the globals without a destructor and the pool and buffer
\* that were left for it to release.
Outlive ==
  {"none", "display", "registry", "compositor", "manager", "shm", "viewporter", "shell",
   "shell_surface", "second pool", "second buffer"}

\* A client or a server reports failure only if the server ran out of memory, or
\* if the last requests of a client that succeeded were dropped.  A client that
\* succeeds was served all it asked for, and where the server succeeds everything
\* the client created was released in order.
NobodyFails ==
  /\ outcome = "failed" => "no memory" \in noted
  /\ outcome = "ok" => "no memory" \notin noted
  /\ served = "failed" => "no memory" \in noted \/ FarewellDropped
  /\ served = "ok" => live \subseteq Outlive

\* Every pair of programs comes to an end: nobody waits for an event that was
\* not sent, for a request that was not written out, or for a pipe nobody fills.
Finishes == <>Over
=============================================================================
