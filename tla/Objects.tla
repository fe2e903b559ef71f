------------------------------- MODULE Objects --------------------------------
(***************************************************************************)
(* The object ids of one connection: `ClientIds` and `ClientObjects` on    *)
(* the client, `SharedNamespace` and `SharedServerObjects` on the server,  *)
(* and the requests and events between them, each way in order.            *)
(*                                                                         *)
(* A message names its object by a number that both sides reuse.  Every    *)
(* object here also has a serial, given out once and never read by an      *)
(* action to decide anything: it says which object a sender meant, and so  *)
(* whether the receiver found that one.                                    *)
(*                                                                         *)
(* Three kinds of object stand for all: a device is created and destroyed  *)
(* by the client and receives events, some of which create an offer; an    *)
(* offer is created by the server and destroyed by the client; a callback  *)
(* is created by the client and destroyed by its one event.  The registry  *)
(* through which a device is bound is never destroyed and not told apart   *)
(* from the display.                                                       *)
(***************************************************************************)
EXTENDS Naturals, Sequences, FiniteSets, SequencesExt, FiniteSetsExt

CONSTANTS MaxClientIds,  \* max_client_ids, the ids a client can hold
          MaxServerIds,  \* bound: high ids the server has
          Quota,         \* objects of one connection on the server
          LateEvents,    \* the server sends events to objects it created
          MaxObjects,    \* bound: objects of a behaviour
          MaxQueued      \* bound: messages on their way before another is sent

ASSUME IdAssumption == MaxClientIds \in Nat \ {0} /\ MaxServerIds \in Nat
ASSUME QuotaAssumption == Quota \in Nat
ASSUME LateAssumption == LateEvents \in BOOLEAN
ASSUME BoundAssumption == MaxObjects \in Nat /\ MaxQueued \in Nat

VARIABLES
  entries,    \* ClientIds.entries: never, active, awaiting or free
  freeIds,    \* the intrusive free list, its head first
  nextIndex,  \* entries from here on were never used
  local,      \* the client's namespace
  roundtrip,  \* the round trip: its state, and the id of its callback
  closed,     \* the client gave the connection up on an event
  remote,     \* the server's namespace
  cursor,     \* next_server_id
  cached,     \* cached_id and the object of cached_index
  ended,      \* why the server ended the connection
  requests,   \* requests sent and not yet dispatched
  events,     \* events sent and not yet dispatched
  born        \* the latest serial

idVars == <<entries, freeIds, nextIndex>>
clientVars == <<idVars, local, roundtrip, closed>>
serverVars == <<remote, cursor, cached, ended>>
vars == <<clientVars, serverVars, requests, events, born>>

Display == 1
ClientId == 2..(MaxClientIds + 1)
ServerIdStart == MaxClientIds + 2
ServerId == ServerIdStart..(ServerIdStart + MaxServerIds - 1)
Id == {Display} \union ClientId \union ServerId

\* No object, and the object of the display.
None == 0
DisplayObject == 1

Nothing == [obj |-> None, kind |-> "none", destroyed |-> FALSE]
Entry(obj, kind) == [obj |-> obj, kind |-> kind, destroyed |-> FALSE]
Start == [id \in Id |-> IF id = Display THEN Entry(DisplayObject, "display")
                        ELSE Nothing]

\* A message: its opcode, the object it is sent to, and the id (and, as a
\* ghost, the object) it is about, if any.
Message(op, id, obj, arg, argObj) ==
  [op |-> op, id |-> id, obj |-> obj, arg |-> arg, argObj |-> argObj]
DeleteId(id, obj) == Message("delete_id", Display, DisplayObject, id, obj)

NoRoundtrip == [state |-> "idle", id |-> None]
NotCached == [id |-> None, obj |-> None]

Init == /\ entries = [id \in ClientId |-> "never"]
        /\ freeIds = <<>>
        /\ nextIndex = 2
        /\ local = Start
        /\ roundtrip = NoRoundtrip
        /\ closed = FALSE
        /\ remote = Start
        /\ cursor = ServerIdStart
        /\ cached = NotCached
        /\ ended = "no"
        /\ requests = <<>>
        /\ events = <<>>
        /\ born = DisplayObject

-----------------------------------------------------------------------------
(* ClientIds. *)

CanAcquire == freeIds # <<>> \/ nextIndex \in ClientId
Acquired == IF freeIds # <<>> THEN Head(freeIds) ELSE nextIndex

\* acquire: the id released last, or else one never used.
Acquire ==
  /\ CanAcquire
  /\ freeIds' = IF freeIds # <<>> THEN Tail(freeIds) ELSE freeIds
  /\ nextIndex' = IF freeIds # <<>> THEN nextIndex ELSE nextIndex + 1
  /\ entries' = [entries EXCEPT ![Acquired] = "active"]

\* releaseIndex.
Release(id) == /\ entries' = [entries EXCEPT ![id] = "free"]
               /\ freeIds' = <<id>> \o freeIds
               /\ UNCHANGED nextIndex

-----------------------------------------------------------------------------
(* The client. *)

MaySend == ~closed /\ Len(requests) < MaxQueued
Live(id) == local[id].obj # None /\ ~local[id].destroyed

\* createLocal and the request that tells the server of the new object.
Create(op, kind) ==
  /\ MaySend
  /\ born < MaxObjects
  /\ born' = born + 1
  /\ Acquire
  /\ local' = [local EXCEPT ![Acquired] = Entry(born + 1, kind)]
  /\ requests' = Append(requests,
                   Message(op, Display, DisplayObject, Acquired, born + 1))
  /\ UNCHANGED <<closed, serverVars, events>>

Bind == Create("bind", "device") /\ UNCHANGED roundtrip
Sync == Create("sync", "callback") /\ UNCHANGED roundtrip

\* Roundtrip.begin.
Begin == /\ roundtrip.state \in {"idle", "complete"}
         /\ Create("sync", "callback")
         /\ roundtrip' = [state |-> "waiting_done", id |-> Acquired]

\* A request that cannot be queued takes its object back: an id that was
\* never used is now a free one.
CreateCancelled ==
  /\ ~closed
  /\ CanAcquire
  /\ entries' = [entries EXCEPT ![Acquired] = "free"]
  /\ freeIds' = IF freeIds # <<>> THEN freeIds ELSE <<Acquired>>
  /\ nextIndex' = IF freeIds # <<>> THEN nextIndex ELSE nextIndex + 1
  /\ UNCHANGED <<local, roundtrip, closed, serverVars, requests, events, born>>

\* Variant: an id may be used again as soon as its destructor is sent.
RetireForGood(id) ==
  /\ local' = [local EXCEPT ![id] = Nothing]
  /\ IF id \in ClientId THEN Release(id) ELSE UNCHANGED idVars

\* Variant: no tombstone is left for late events.
RetireWithoutTombstone(id) ==
  /\ local' = [local EXCEPT ![id] = Nothing]
  /\ entries' = IF id \in ClientId THEN [entries EXCEPT ![id] = "awaiting"] ELSE entries
  /\ UNCHANGED <<freeIds, nextIndex>>

\* retire: a client id stays as a tombstone, a server id goes.
Retire(id) ==
  IF id \in ClientId
  THEN /\ entries' = [entries EXCEPT ![id] = "awaiting"]
       /\ local' = [local EXCEPT ![id].destroyed = TRUE]
       /\ UNCHANGED <<freeIds, nextIndex>>
  ELSE /\ local' = [local EXCEPT ![id] = Nothing]
       /\ UNCHANGED idVars

Request(op, id) ==
  /\ MaySend
  /\ Live(id) /\ local[id].kind \in {"device", "offer"}
  /\ requests' = Append(requests, Message(op, id, local[id].obj, None, None))

\* sendRequest of a request that is a destructor, and of one that is not.
Use(id) == /\ Request("use", id)
           /\ UNCHANGED <<clientVars, serverVars, events, born>>
Destroy(id) == /\ Request("destroy", id)
               /\ Retire(id)
               /\ UNCHANGED <<roundtrip, closed, serverVars, events, born>>

\* dispatchEvents gives the connection up.
Terminal == /\ closed' = TRUE
            /\ UNCHANGED <<idVars, local, roundtrip>>

Ignore == UNCHANGED clientVars

\* insertPeer, under the decoding of an event that creates an object.
InsertPeer(m) ==
  IF local[m.arg].obj # None
  THEN Terminal
  ELSE /\ local' = [local EXCEPT ![m.arg] = Entry(m.argObj, "offer")]
       /\ UNCHANGED <<idVars, roundtrip, closed>>

\* callback.done, whether it is the round trip's or another's.
Done(m) == /\ Retire(m.id)
           /\ roundtrip' = IF /\ roundtrip.state = "waiting_done"
                              /\ roundtrip.id = m.id
                           THEN [roundtrip EXCEPT !.state = "waiting_delete"]
                           ELSE roundtrip
           /\ UNCHANGED closed

\* delete_id: the tombstone goes and the id may be used again.
Deleted(m) ==
  IF ~local[m.arg].destroyed
  THEN Terminal
  ELSE /\ Release(m.arg)
       /\ local' = [local EXCEPT ![m.arg] = Nothing]
       /\ roundtrip' = IF /\ roundtrip.state = "waiting_delete"
                          /\ roundtrip.id = m.arg
                       THEN [state |-> "complete", id |-> None]
                       ELSE roundtrip
       /\ UNCHANGED closed

\* One event of a batch.
ClientReceives ==
  /\ ~closed
  /\ events # <<>>
  /\ events' = Tail(events)
  /\ LET m == Head(events) IN
       IF local[m.id].obj = None THEN Terminal
       ELSE IF local[m.id].destroyed THEN Ignore
       ELSE CASE m.op = "offer"     -> InsertPeer(m)
              [] m.op = "done"      -> Done(m)
              [] m.op = "delete_id" -> Deleted(m)
              [] m.op = "error"     -> Terminal
              [] m.op = "event"     -> Ignore
  /\ UNCHANGED <<serverVars, requests, born>>

-----------------------------------------------------------------------------
(* The server. *)

Count(table) == Cardinality({id \in Id : table[id].obj # None})

\* find: the cached entry, or a walk of the bucket, which it caches.
Found(id) == IF cached.id = id THEN cached.obj ELSE remote[id].obj
Caches(id) == cached' = [id |-> id, obj |-> Found(id)]

\* Variant: the lookup cache outlives what it caches.
RemoveUncached(id) ==
  /\ remote' = [remote EXCEPT ![id] = Nothing]
  /\ cached' = [id |-> id, obj |-> Found(id)]
  /\ cursor' = IF id \in ServerId THEN Min({cursor, id}) ELSE cursor

\* remove: what the lookup cache holds of the object goes with it, and the cursor
\* falls back to a server id that comes free.
RemoveObject(id) ==
  /\ remote' = [remote EXCEPT ![id] = Nothing]
  /\ cached' = IF cached.obj = remote[id].obj THEN NotCached ELSE cached
  /\ cursor' = IF id \in ServerId THEN Min({cursor, id}) ELSE cursor

\* terminalRequest.
End(why) == /\ ended' = why
            /\ events' = Append(events, Message("error", Display, DisplayObject,
                                                None, None))
            /\ UNCHANGED <<remote, cursor, cached>>

\* insertClient.
InsertClient(m, kind) ==
  IF Found(m.arg) # None THEN End("implementation")
  ELSE IF Count(remote) = Quota THEN End("no_memory")
  ELSE /\ remote' = [remote EXCEPT ![m.arg] = Entry(m.argObj, kind)]
       /\ Caches(Display)
       /\ UNCHANGED <<cursor, ended, events>>

\* DecodedRequest.finish: the client hears that its id is free, and of a
\* server id it knows.
Finish(m) ==
  /\ events' = IF m.id \in ClientId
               THEN Append(events, DeleteId(m.id, remote[m.id].obj))
               ELSE events
  /\ RemoveObject(m.id)
  /\ UNCHANGED ended

\* One request of a batch.
ServerReceives ==
  /\ ended = "no"
  /\ requests # <<>>
  /\ requests' = Tail(requests)
  /\ LET m == Head(requests) IN
       IF Found(m.id) = None THEN End("invalid_object")
       ELSE CASE m.op = "bind"    -> InsertClient(m, "device")
              [] m.op = "sync"    -> InsertClient(m, "callback")
              [] m.op = "destroy" -> Finish(m)
              [] m.op = "use"     -> /\ Caches(m.id)
                                     /\ UNCHANGED <<remote, cursor, ended, events>>
  /\ UNCHANGED <<clientVars, born>>

MayEmit == ended = "no" /\ Len(events) < MaxQueued

\* An event that is not a destructor.
SendEvent(id) ==
  /\ MayEmit
  /\ remote[id].kind \in {"device", "offer"}
  /\ remote[id].kind = "offer" => LateEvents
  /\ events' = Append(events, Message("event", id, remote[id].obj, None, None))
  /\ Caches(id)
  /\ UNCHANGED <<clientVars, remote, cursor, ended, requests, born>>

\* insertServer: the first id from the cursor on that is free.
HasServerId == \E id \in ServerId : id >= cursor /\ remote[id].obj = None
NextServerId == Min({id \in ServerId : id >= cursor /\ remote[id].obj = None})

\* An event that creates an object.
SendOffer(id) ==
  /\ MayEmit
  /\ born < MaxObjects
  /\ remote[id].kind = "device"
  /\ Count(remote) < Quota
  /\ HasServerId
  /\ born' = born + 1
  /\ remote' = [remote EXCEPT ![NextServerId] = Entry(born + 1, "offer")]
  /\ cursor' = NextServerId + 1
  /\ events' = Append(events, Message("offer", id, remote[id].obj,
                                      NextServerId, born + 1))
  /\ Caches(id)
  /\ UNCHANGED <<clientVars, ended, requests>>

\* The same, taken back because the event could not be queued.
OfferCancelled(id) ==
  /\ ended = "no"
  /\ remote[id].kind = "device"
  /\ Count(remote) < Quota
  /\ HasServerId
  /\ cursor' = NextServerId
  /\ Caches(id)
  /\ UNCHANGED <<clientVars, remote, ended, requests, events, born>>

\* Variant: the callback is removed and its id kept from the client.
CompleteWithoutDelete(id) ==
  /\ ended = "no"
  /\ remote[id].kind = "callback"
  /\ events' = Append(events, Message("done", id, remote[id].obj, None, None))
  /\ RemoveObject(id)
  /\ UNCHANGED <<clientVars, ended, requests, born>>

\* completeSync: done and delete_id leave together.
CompleteSync(id) ==
  /\ ended = "no"
  /\ remote[id].kind = "callback"
  /\ events' = events \o <<Message("done", id, remote[id].obj, None, None),
                           DeleteId(id, remote[id].obj)>>
  /\ RemoveObject(id)
  /\ UNCHANGED <<clientVars, ended, requests, born>>

-----------------------------------------------------------------------------

Next == \/ Bind \/ Sync \/ Begin \/ CreateCancelled
        \/ \E id \in Id : Use(id) \/ Destroy(id)
        \/ ClientReceives
        \/ ServerReceives
        \/ \E id \in Id : \/ SendEvent(id) \/ SendOffer(id)
                          \/ OfferCancelled(id) \/ CompleteSync(id)

Spec == Init /\ [][Next]_vars

\* What was sent is received, and the server answers its syncs.
FairSpec == /\ Spec
            /\ WF_vars(ClientReceives)
            /\ WF_vars(ServerReceives)
            /\ \A id \in ClientId : WF_vars(CompleteSync(id))

-----------------------------------------------------------------------------
Opcodes == {"bind", "sync", "use", "destroy",
            "event", "offer", "done", "delete_id", "error"}
Messages == [op : Opcodes, id : Id, obj : Nat, arg : Id \union {None}, argObj : Nat]
Entries == [obj : Nat, kind : {"none", "display", "device", "offer", "callback"},
            destroyed : BOOLEAN]

(* Types; and the free list holds exactly the free entries, each once.     *)
TypeOK ==
  /\ entries \in [ClientId -> {"never", "active", "awaiting", "free"}]
  /\ freeIds \in Seq(ClientId)
  /\ IsInjective(freeIds)
  /\ ToSet(freeIds) = {id \in ClientId : entries[id] = "free"}
  /\ nextIndex \in 2..(MaxClientIds + 2)
  /\ local \in [Id -> Entries] /\ remote \in [Id -> Entries]
  /\ roundtrip \in [state : {"idle", "waiting_done", "waiting_delete", "complete"},
                    id : ClientId \union {None}]
  /\ closed \in BOOLEAN
  /\ cursor \in ServerIdStart..(ServerIdStart + MaxServerIds)
  /\ cached \in [id : Id \union {None}, obj : Nat]
  /\ ended \in {"no", "invalid_object", "implementation", "no_memory"}
  /\ requests \in Seq(Messages) /\ events \in Seq(Messages)
  /\ born \in Nat

(* A request is dispatched to the object its sender meant, however often   *)
(* the number was used before, and what it creates takes a number that the *)
(* server does not have in use.                                            *)
RequestsMeetTheirObject ==
  ended = "no" /\ requests # <<>> =>
    LET m == Head(requests) IN
      /\ Found(m.id) = m.obj
      /\ m.arg # None => Found(m.arg) = None

(* An event is dispatched to the object its sender meant, or to the        *)
(* tombstone of that object, and delete_id names an object that the client *)
(* has destroyed.                                                          *)
EventsMeetTheirObject ==
  ~closed /\ events # <<>> =>
    LET m == Head(events) IN
      /\ local[m.id].obj = m.obj
      /\ m.op = "delete_id" => /\ local[m.arg].obj = m.argObj
                               /\ local[m.arg].destroyed
      /\ m.op = "offer" => local[m.arg].obj = None

(* A client id that the client may use again is forgotten: the server has  *)
(* no object there, and no message that is on its way mentions it.         *)
FreeIdsAreForgotten ==
  ~closed => \A id \in ClientId : entries[id] \in {"never", "free"} =>
    /\ local[id].obj = None
    /\ remote[id].obj = None
    /\ \A m \in ToSet(requests) \union ToSet(events) : id \notin {m.id, m.arg}

(* The server takes the lowest free high id: below the cursor every id is  *)
(* in use, through every order of insertion, removal and rollback.         *)
LowestServerId == \A id \in ServerId : id < cursor => remote[id].obj # None

(* Neither side ends the connection over an object that the other one used *)
(* as it may: a late event to a destroyed object is discarded.             *)
NobodyIsBlamed == /\ ended \in {"no", "no_memory"}
                  /\ closed => ended # "no"

(* A round trip settles: its done and then its delete_id arrive, unless    *)
(* the connection ends.                                                    *)
RoundtripSettles == (roundtrip.state = "waiting_done") ~>
                    (roundtrip.state = "complete" \/ ended # "no")

=============================================================================
