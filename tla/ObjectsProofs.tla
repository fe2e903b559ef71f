---------------------------- MODULE ObjectsProofs -----------------------------
(***************************************************************************)
(* Proofs about Objects for every number of ids, every quota and queues of *)
(* every length.                                                           *)
(*                                                                         *)
(* That a message meets the object its sender meant is a statement about   *)
(* two tables and what is on its way between them.  The inductive          *)
(* invariant says of every message in either queue what both tables hold   *)
(* for the ids it mentions, and which messages about the same id may be    *)
(* before or behind it.                                                    *)
(***************************************************************************)
EXTENDS Objects, WellFoundedInduction, TLAPS

Requests == 1..Len(requests)
Events == 1..Len(events)

Creates(m) == m.op \in {"bind", "sync"}
KindOf(m) == IF m.op = "bind" THEN "device" ELSE "callback"

-----------------------------------------------------------------------------
(* The two tables. *)

\* What the id allocator records of an id agrees with the client's table.
LocalTable ==
  /\ local[Display] = Entry(DisplayObject, "display")
  /\ \A c \in ClientId :
       /\ entries[c] \in {"never", "free"} <=> local[c].obj = None
       /\ entries[c] = "awaiting" <=> local[c].destroyed
       /\ local[c].obj # None => local[c].kind \in {"device", "callback"}
       /\ c >= nextIndex <=> entries[c] = "never"
  /\ \A s \in ServerId :
       /\ local[s].obj # None => local[s].kind = "offer"
       /\ ~local[s].destroyed

\* Where both sides hold an object for an id it is the same, the client has
\* every client id the server has, and the server every server id.  A callback
\* that the server holds has not been done.
RemoteTable ==
  /\ remote[Display] = Entry(DisplayObject, "display")
  /\ \A id \in Id : remote[id].obj = None <=> remote[id].kind = "none"
  /\ \A c \in ClientId : remote[c].obj # None =>
       /\ remote[c].obj = local[c].obj /\ remote[c].kind = local[c].kind
       /\ remote[c].kind = "callback" => ~local[c].destroyed
  /\ \A s \in ServerId :
       /\ remote[s].kind \in {"none", "offer"}
       /\ ended = "no" /\ local[s].obj # None => remote[s].obj = local[s].obj

CacheHolds == cached.id # None => cached.obj = remote[cached.id].obj

\* The server ends a connection for want of memory only.
Blameless == /\ ended \in {"no", "no_memory"}
             /\ closed => ended # "no" \/ LateEvents

-----------------------------------------------------------------------------
(* Requests on their way. *)

RequestShape ==
  \A i \in Requests : LET m == requests[i] IN
    IF Creates(m)
    THEN m.id = Display /\ m.obj = DisplayObject /\ m.arg \in ClientId
    ELSE m.op \in {"use", "destroy"} /\ m.id \in ClientId \union ServerId
         /\ m.arg = None

\* The id of an object to be created is unknown to the server and to every
\* message before it.
CreationsAreNew ==
  \A i \in Requests : Creates(requests[i]) =>
    LET m == requests[i]
        c == requests[i].arg
    IN /\ m.argObj = local[c].obj /\ m.argObj # None
       /\ local[c].kind = KindOf(m)
       /\ m.op = "sync" => ~local[c].destroyed
       /\ remote[c].obj = None
       /\ \A j \in Requests : j # i => requests[j].arg # c
       /\ \A j \in Requests : j < i => requests[j].id # c
       /\ \A k \in Events : events[k].id # c /\ events[k].arg # c

\* The server knows the target of any other request, or will when it gets to
\* it, and has not told the client of its end.
UsesAreKnown ==
  \A i \in Requests : ~Creates(requests[i]) =>
    LET m == requests[i] IN
      /\ m.obj # None
      /\ \A k \in Events : events[k].arg # m.id
      /\ m.id \in ClientId => m.obj = local[m.id].obj /\ local[m.id].kind = "device"
      /\ ended = "no" => \/ remote[m.id].obj = m.obj
                         \/ \E j \in Requests : j < i /\ requests[j].arg = m.id

\* The server knows a device the client has not destroyed, or will.
DevicesAreKnown ==
  \A c \in ClientId :
    /\ ended = "no" /\ local[c].obj # None
    /\ local[c].kind = "device" /\ ~local[c].destroyed
    => \/ remote[c].obj = local[c].obj
       \/ \E j \in Requests : requests[j].arg = c

\* A destructor is the last request its object gets.
DestructorsAreLast ==
  \A i \in Requests : requests[i].op = "destroy" =>
    LET id == requests[i].id IN
      /\ \A j \in Requests : j > i => requests[j].id # id
      /\ id \in ClientId => local[id].destroyed
      /\ id \in ServerId => local[id].obj = None

-----------------------------------------------------------------------------
(* Events on their way. *)

EventShape ==
  \A k \in Events : LET m == events[k] IN
    /\ m.op \in {"event", "offer", "done", "delete_id", "error"}
    /\ m.op \in {"event", "offer", "done"} =>
         m.id \in ClientId \/ (m.op = "event" /\ LateEvents /\ m.id \in ServerId)
    /\ m.op \in {"delete_id", "error"} => m.id = Display /\ m.obj = DisplayObject
    /\ m.op \in {"event", "done", "error"} => m.arg = None
    /\ m.op = "offer" => m.arg \in ServerId
    /\ m.op = "delete_id" => m.arg \in ClientId
    /\ m.op = "error" => ended # "no"

\* The client holds the target of an event, perhaps as a tombstone.
EventsAreKnown ==
  \A k \in Events : events[k].id \in ClientId =>
    events[k].obj = local[events[k].id].obj /\ events[k].obj # None

\* An object on its way to the client is new to it, and announced once.
OffersAreNew ==
  \A k \in Events : events[k].op = "offer" =>
    LET s == events[k].arg IN
      /\ local[s].obj = None
      /\ events[k].argObj # None
      /\ \A l \in Events : l # k => events[l].arg # s
      /\ ended = "no" => remote[s].obj = events[k].argObj

\* A callback is done once, and the server has forgotten it.
DoneOnce ==
  \A k \in Events : events[k].op = "done" =>
    LET c == events[k].id IN
      /\ local[c].kind = "callback" /\ ~local[c].destroyed
      /\ remote[c].obj = None
      /\ \A l \in Events : l # k /\ events[l].op = "done" => events[l].id # c

\* delete_id is the last event of its object: the server has forgotten the
\* object, and the client has destroyed it or will before it gets here.
DeletesAreLast ==
  \A k \in Events : events[k].op = "delete_id" =>
    LET c == events[k].arg IN
      /\ events[k].argObj = local[c].obj /\ local[c].obj # None
      /\ remote[c].obj = None
      /\ \A l \in Events : l > k => events[l].id # c /\ events[l].arg # c
      /\ \/ local[c].destroyed
         \/ \E l \in Events : l < k /\ events[l].op = "done" /\ events[l].id = c

-----------------------------------------------------------------------------

Tables == LocalTable /\ RemoteTable /\ CacheHolds /\ Blameless /\ LowestServerId
Upward == /\ RequestShape /\ CreationsAreNew /\ UsesAreKnown
          /\ DevicesAreKnown /\ DestructorsAreLast
Downward == /\ EventShape /\ EventsAreKnown /\ OffersAreNew
            /\ DoneOnce /\ DeletesAreLast

\* The inductive invariant.
Inv == TypeOK /\ Tables /\ Upward /\ Downward

-----------------------------------------------------------------------------
(* Ids, messages and sequences. *)

\* Display, client ids and server ids are told apart by their number.
LEMMA IdFacts ==
  /\ Display \in Id /\ Display \notin ClientId /\ Display \notin ServerId
  /\ ClientId \subseteq Id /\ ServerId \subseteq Id
  /\ \A id \in ClientId : id \notin ServerId
  /\ \A id \in Id : id = Display \/ id \in ClientId \/ id \in ServerId
  /\ None \notin Id /\ Id \subseteq Nat
  /\ DisplayObject \in Nat /\ DisplayObject # None /\ None \in Nat
BY IdAssumption DEF Id, ClientId, ServerId, ServerIdStart, Display, None, DisplayObject

\* The fields of a message.
LEMMA MessageFields ==
  ASSUME NEW op, NEW id, NEW obj, NEW arg, NEW argObj
  PROVE  LET m == Message(op, id, obj, arg, argObj)
         IN m.op = op /\ m.id = id /\ m.obj = obj /\ m.arg = arg /\ m.argObj = argObj
BY DEF Message

\* A message sent comes behind the others.
LEMMA Appended ==
  ASSUME NEW S, NEW s \in Seq(S), NEW e \in S
  PROVE  /\ Append(s, e) \in Seq(S)
         /\ Len(Append(s, e)) = Len(s) + 1
         /\ \A i \in 1..Len(s) : Append(s, e)[i] = s[i]
         /\ Append(s, e)[Len(s) + 1] = e
OBVIOUS

\* Two messages sent together.
LEMMA AppendedTwo ==
  ASSUME NEW S, NEW s \in Seq(S), NEW e \in S, NEW f \in S
  PROVE  /\ s \o <<e, f>> \in Seq(S)
         /\ Len(s \o <<e, f>>) = Len(s) + 2
         /\ \A i \in 1..Len(s) : (s \o <<e, f>>)[i] = s[i]
         /\ (s \o <<e, f>>)[Len(s) + 1] = e
         /\ (s \o <<e, f>>)[Len(s) + 2] = f
OBVIOUS

\* A message received is the first, and the others move up.
LEMMA Received ==
  ASSUME NEW S, NEW s \in Seq(S), s # <<>>
  PROVE  /\ Head(s) = s[1] /\ s[1] \in S /\ 1 \in 1..Len(s)
         /\ Tail(s) \in Seq(S)
         /\ Len(Tail(s)) = Len(s) - 1
         /\ \A i \in 1..Len(Tail(s)) : Tail(s)[i] = s[i + 1] /\ i + 1 \in 1..Len(s)
OBVIOUS

\* An id the client has no object for is not mentioned anywhere.
LEMMA UnknownIsForgotten ==
  ASSUME Inv, NEW c \in ClientId, local[c].obj = None
  PROVE  /\ remote[c].obj = None
         /\ \A i \in Requests : requests[i].id # c /\ requests[i].arg # c
         /\ \A k \in Events : events[k].id # c /\ events[k].arg # c
<1>1. remote[c].obj = None
  BY DEF Inv, Tables, RemoteTable
<1>2. ASSUME NEW i \in Requests
      PROVE  requests[i].id # c /\ requests[i].arg # c
  <2>1. CASE Creates(requests[i])
    BY <2>1, IdFacts DEF Inv, Upward, RequestShape, CreationsAreNew
  <2>2. CASE ~Creates(requests[i])
    BY <2>2, IdFacts DEF Inv, Upward, RequestShape, UsesAreKnown
  <2> QED
    BY <2>1, <2>2
<1>3. ASSUME NEW k \in Events
      PROVE  events[k].id # c /\ events[k].arg # c
  <2>1. events[k].id # c
    BY DEF Inv, Downward, EventsAreKnown
  <2>2. events[k].op = "delete_id" => events[k].arg # c
    BY DEF Inv, Downward, DeletesAreLast
  <2>3. events[k].op # "delete_id" => events[k].arg # c
    BY IdFacts DEF Inv, Downward, EventShape
  <2> QED
    BY <2>1, <2>2, <2>3
<1> QED
  BY <1>1, <1>2, <1>3

-----------------------------------------------------------------------------
(* The id allocator. *)

AllocatorTypes ==
  /\ entries \in [ClientId -> {"never", "active", "awaiting", "free"}]
  /\ freeIds \in Seq(ClientId)
  /\ IsInjective(freeIds)
  /\ ToSet(freeIds) = {id \in ClientId : entries[id] = "free"}
  /\ nextIndex \in 2..(MaxClientIds + 2)

\* The id given out next is one the client has no object for.
LEMMA AcquiredIsFree ==
  ASSUME AllocatorTypes, LocalTable, CanAcquire
  PROVE  /\ Acquired \in ClientId
         /\ entries[Acquired] \in {"never", "free"}
         /\ local[Acquired].obj = None
<1>1. CASE freeIds # <<>>
  <2>1. 1 \in DOMAIN freeIds /\ Acquired = freeIds[1]
    BY <1>1 DEF Acquired, AllocatorTypes
  <2>2. Acquired \in ToSet(freeIds)
    BY <2>1 DEF ToSet
  <2> QED
    BY <2>2 DEF AllocatorTypes, LocalTable
<1>2. CASE freeIds = <<>>
  <2>1. Acquired = nextIndex /\ nextIndex \in ClientId
    BY <1>2 DEF Acquired, CanAcquire
  <2>2. Acquired >= nextIndex
    BY <2>1, IdFacts
  <2> QED
    BY <2>1, <2>2 DEF LocalTable
<1> QED
  BY <1>1, <1>2

\* Taking the head of the free list, or the next fresh id, keeps the list.
LEMMA TakeId ==
  ASSUME AllocatorTypes, LocalTable, CanAcquire, NEW st \in {"active", "free"},
         entries' = [entries EXCEPT ![Acquired] = st],
         nextIndex' = IF freeIds # <<>> THEN nextIndex ELSE nextIndex + 1,
         freeIds' = IF st = "active"
                    THEN IF freeIds # <<>> THEN Tail(freeIds) ELSE freeIds
                    ELSE IF freeIds # <<>> THEN freeIds ELSE <<Acquired>>
  PROVE  /\ AllocatorTypes'
         /\ \A c \in ClientId : c >= nextIndex' <=> entries'[c] = "never"
<1>1. /\ Acquired \in ClientId /\ entries[Acquired] \in {"never", "free"}
  BY AcquiredIsFree
<1>2. /\ entries' \in [ClientId -> {"never", "active", "awaiting", "free"}]
      /\ \A c \in ClientId : entries'[c] = IF c = Acquired THEN st ELSE entries[c]
  BY <1>1 DEF AllocatorTypes
<1>3. CASE freeIds # <<>>
  <2>1. /\ freeIds[1] = Acquired /\ 1 \in DOMAIN freeIds
        /\ entries[Acquired] = "free"
    <3>1. freeIds[1] = Acquired /\ 1 \in DOMAIN freeIds
      BY <1>3 DEF Acquired, AllocatorTypes
    <3>2. Acquired \in ToSet(freeIds)
      BY <3>1 DEF ToSet
    <3> QED
      BY <3>1, <3>2 DEF AllocatorTypes
  <2>2. nextIndex' = nextIndex
    BY <1>3
  <2>3. \A c \in ClientId : c >= nextIndex' <=> entries'[c] = "never"
    BY <1>2, <2>1, <2>2 DEF LocalTable
  <2>4. CASE st = "free"
    BY <1>2, <1>3, <2>1, <2>2, <2>3, <2>4 DEF AllocatorTypes
  <2>5. CASE st = "active"
    <3>1. /\ freeIds' = Tail(freeIds) /\ freeIds' \in Seq(ClientId)
          /\ Len(freeIds') = Len(freeIds) - 1
          /\ \A i \in 1..Len(freeIds') : freeIds'[i] = freeIds[i + 1]
                                         /\ i + 1 \in 1..Len(freeIds)
      BY <1>3, <2>5, Received DEF AllocatorTypes
    <3>5. DOMAIN freeIds' = 1..Len(freeIds')
      BY <3>1
    <3>2. IsInjective(freeIds')
      <4> SUFFICES ASSUME NEW i \in 1..Len(freeIds'), NEW j \in 1..Len(freeIds'),
                          freeIds'[i] = freeIds'[j]
                   PROVE  i = j
        BY <3>5 DEF IsInjective
      <4>1. i + 1 = j + 1
        BY <3>1 DEF AllocatorTypes, IsInjective
      <4> QED
        BY <4>1
    <3>3. ToSet(freeIds') = ToSet(freeIds) \ {Acquired}
      <4>1. ASSUME NEW i \in 1..Len(freeIds')
            PROVE  freeIds'[i] \in ToSet(freeIds) \ {Acquired}
        <5>1. freeIds'[i] = freeIds[i + 1] /\ i + 1 \in DOMAIN freeIds
          BY <3>1 DEF AllocatorTypes
        <5>2. freeIds[i + 1] # freeIds[1]
          BY <2>1, <5>1 DEF AllocatorTypes, IsInjective
        <5> QED
          BY <2>1, <5>1, <5>2 DEF ToSet
      <4>2. ASSUME NEW i \in DOMAIN freeIds, freeIds[i] # Acquired
            PROVE  freeIds[i] \in ToSet(freeIds')
        <5>1. i - 1 \in 1..Len(freeIds')
          BY <2>1, <3>1, <4>2 DEF AllocatorTypes
        <5>2. freeIds'[i - 1] = freeIds[i]
          BY <3>1, <5>1
        <5> QED
          BY <3>1, <5>1, <5>2 DEF ToSet
      <4> QED
        <5>1. ToSet(freeIds') \subseteq ToSet(freeIds) \ {Acquired}
          BY <3>5, <4>1 DEF ToSet
        <5>2. ToSet(freeIds) \ {Acquired} \subseteq ToSet(freeIds')
          <6> SUFFICES ASSUME NEW x \in ToSet(freeIds), x # Acquired
                       PROVE  x \in ToSet(freeIds')
            OBVIOUS
          <6>1. PICK i \in DOMAIN freeIds : x = freeIds[i]
            BY DEF ToSet
          <6> QED
            BY <4>2, <6>1
        <5> QED
          BY <5>1, <5>2
    <3>4. ToSet(freeIds') = {c \in ClientId : entries'[c] = "free"}
      BY <1>2, <2>5, <3>3 DEF AllocatorTypes
    <3> QED
      BY <1>2, <2>2, <2>3, <3>1, <3>2, <3>4 DEF AllocatorTypes
  <2> QED
    BY <2>4, <2>5
<1>4. CASE freeIds = <<>>
  <2>1. Acquired = nextIndex /\ nextIndex \in ClientId /\ nextIndex' = nextIndex + 1
    BY <1>4 DEF Acquired, CanAcquire
  <2>2. nextIndex' \in 2..(MaxClientIds + 2)
    BY <2>1, IdAssumption DEF ClientId
  <2>3. \A c \in ClientId : c >= nextIndex' <=> entries'[c] = "never"
    BY <1>2, <2>1, IdFacts DEF LocalTable
  <2>4. {c \in ClientId : entries[c] = "free"} = {}
    BY <1>4 DEF AllocatorTypes, ToSet
  <2>5. freeIds' = IF st = "active" THEN <<>> ELSE <<Acquired>>
    BY <1>4
  <2>6. freeIds' \in Seq(ClientId) /\ IsInjective(freeIds')
    <3>1. CASE st = "active"
      <4>1. <<>> \in Seq(ClientId) /\ IsInjective(<<>>)
        BY DEF IsInjective
      <4> QED
        BY <2>5, <3>1, <4>1
    <3>2. CASE st # "active"
      <4>1. <<Acquired>> \in Seq(ClientId) /\ IsInjective(<<Acquired>>)
        BY <1>1 DEF IsInjective
      <4> QED
        BY <2>5, <3>2, <4>1
    <3> QED
      BY <3>1, <3>2
  <2>7. ToSet(freeIds') = {c \in ClientId : entries'[c] = "free"}
    BY <1>1, <1>2, <2>4, <2>5 DEF ToSet
  <2> QED
    BY <1>2, <2>2, <2>3, <2>6, <2>7 DEF AllocatorTypes
<1> QED
  BY <1>3, <1>4

\* A released id is put before the others.
LEMMA ReleaseId ==
  ASSUME AllocatorTypes, NEW c \in ClientId, entries[c] = "awaiting", Release(c)
  PROVE  AllocatorTypes'
<1>1. /\ entries' = [entries EXCEPT ![c] = "free"]
      /\ freeIds' = <<c>> \o freeIds /\ nextIndex' = nextIndex
  BY DEF Release
<1>2. /\ freeIds' \in Seq(ClientId) /\ Len(freeIds') = Len(freeIds) + 1
      /\ freeIds'[1] = c
      /\ \A i \in 2..(Len(freeIds) + 1) : freeIds'[i] = freeIds[i - 1]
  BY <1>1 DEF AllocatorTypes
<1>3. c \notin ToSet(freeIds)
  BY DEF AllocatorTypes
<1>4. \A i \in DOMAIN freeIds : freeIds[i] # c
  BY <1>3 DEF ToSet
<1>5. IsInjective(freeIds')
  <2> SUFFICES ASSUME NEW i \in 1..(Len(freeIds) + 1), NEW j \in 1..(Len(freeIds) + 1),
                      freeIds'[i] = freeIds'[j]
               PROVE  i = j
    BY <1>2 DEF IsInjective, AllocatorTypes
  <2>1. Len(freeIds) \in Nat /\ DOMAIN freeIds = 1..Len(freeIds)
    BY DEF AllocatorTypes
  <2>2. CASE i = 1 \/ j = 1
    BY <1>2, <1>4, <2>1, <2>2
  <2>3. CASE i # 1 /\ j # 1
    <3>1. i - 1 \in DOMAIN freeIds /\ j - 1 \in DOMAIN freeIds
      BY <2>1, <2>3
    <3>2. freeIds[i - 1] = freeIds[j - 1]
      BY <1>2, <2>1, <2>3
    <3>3. i - 1 = j - 1
      BY <3>1, <3>2 DEF AllocatorTypes, IsInjective
    <3> QED
      BY <2>1, <3>3
  <2> QED
    BY <2>2, <2>3
<1>6. ToSet(freeIds') = ToSet(freeIds) \union {c}
  <2>1. ASSUME NEW i \in DOMAIN freeIds'
        PROVE  freeIds'[i] \in ToSet(freeIds) \union {c}
    <3>1. i = 1 \/ (i - 1 \in DOMAIN freeIds /\ i \in 2..(Len(freeIds) + 1))
      BY <1>2 DEF AllocatorTypes
    <3>2. CASE i = 1
      BY <1>2, <3>2
    <3>3. CASE i - 1 \in DOMAIN freeIds /\ i \in 2..(Len(freeIds) + 1)
      <4>1. freeIds'[i] = freeIds[i - 1]
        BY <1>2, <3>3
      <4> QED
        BY <3>3, <4>1 DEF ToSet
    <3> QED
      BY <3>1, <3>2, <3>3
  <2>2. c \in ToSet(freeIds')
    BY <1>2 DEF ToSet, AllocatorTypes
  <2>3. ASSUME NEW i \in DOMAIN freeIds
        PROVE  freeIds[i] \in ToSet(freeIds')
    <3>1. i + 1 \in 2..(Len(freeIds) + 1)
      BY DEF AllocatorTypes
    <3>2. freeIds'[i + 1] = freeIds[i] /\ i + 1 \in DOMAIN freeIds'
      BY <1>2, <3>1 DEF AllocatorTypes
    <3> QED
      BY <3>2 DEF ToSet
  <2> QED
    BY <2>1, <2>2, <2>3 DEF ToSet
<1>7. ToSet(freeIds') = {id \in ClientId : entries'[id] = "free"}
  BY <1>1, <1>6 DEF AllocatorTypes
<1> QED
  BY <1>1, <1>2, <1>5, <1>7 DEF AllocatorTypes

OtherTypes ==
  /\ local \in [Id -> Entries] /\ remote \in [Id -> Entries]
  /\ roundtrip \in [state : {"idle", "waiting_done", "waiting_delete", "complete"},
                    id : ClientId \union {None}]
  /\ closed \in BOOLEAN
  /\ cursor \in ServerIdStart..(ServerIdStart + MaxServerIds)
  /\ cached \in [id : Id \union {None}, obj : Nat]
  /\ ended \in {"no", "invalid_object", "implementation", "no_memory"}
  /\ requests \in Seq(Messages) /\ events \in Seq(Messages)
  /\ born \in Nat

LEMMA TypeParts ==
  /\ TypeOK <=> AllocatorTypes /\ OtherTypes
  /\ TypeOK' <=> AllocatorTypes' /\ OtherTypes'
BY DEF TypeOK, AllocatorTypes, OtherTypes

-----------------------------------------------------------------------------
(* The client sends. *)

\* Creating an object: its id is nowhere else, so the request that names it is
\* the only message that does.
LEMMA CreateInv ==
  ASSUME Inv, NEW op \in {"bind", "sync"},
         Create(op, IF op = "bind" THEN "device" ELSE "callback"),
         roundtrip' \in [state : {"idle", "waiting_done", "waiting_delete", "complete"},
                         id : ClientId \union {None}]
  PROVE  Inv'
<1> DEFINE c == Acquired
           kind == IF op = "bind" THEN "device" ELSE "callback"
           m == Message(op, Display, DisplayObject, c, born + 1)
<1> USE DEF Inv, Tables, Upward, Downward
<1>1. /\ UNCHANGED <<closed, remote, cursor, cached, ended, events>>
      /\ born' = born + 1 /\ Acquire
      /\ local' = [local EXCEPT ![c] = Entry(born + 1, kind)]
      /\ requests' = Append(requests, m)
  BY DEF Create, serverVars
<1>2. AllocatorTypes /\ OtherTypes
  BY TypeParts
<1>3. /\ c \in ClientId /\ entries[c] \in {"never", "free"} /\ local[c].obj = None
      /\ c \in Id
  BY <1>1, <1>2, AcquiredIsFree, IdFacts DEF Acquire
<1>4. /\ remote[c].obj = None
      /\ \A i \in Requests : requests[i].id # c /\ requests[i].arg # c
      /\ \A k \in Events : events[k].id # c /\ events[k].arg # c
  BY <1>3, UnknownIsForgotten
<1>5. /\ entries' = [entries EXCEPT ![c] = "active"]
      /\ AllocatorTypes'
      /\ \A id \in ClientId : id >= nextIndex' <=> entries'[id] = "never"
  <2>1. /\ CanAcquire
        /\ freeIds' = IF freeIds # <<>> THEN Tail(freeIds) ELSE freeIds
        /\ nextIndex' = IF freeIds # <<>> THEN nextIndex ELSE nextIndex + 1
        /\ entries' = [entries EXCEPT ![c] = "active"]
    BY <1>1 DEF Acquire
  <2> HIDE DEF Inv, Tables, c
  <2> QED
    BY <1>2, <2>1, TakeId DEF Tables, Inv, c
<1>6. \A id \in ClientId : entries'[id] = IF id = c THEN "active" ELSE entries[id]
  BY <1>2, <1>3, <1>5 DEF AllocatorTypes
<1>7. born \in Nat /\ born + 1 \in Nat /\ born + 1 # None
  BY <1>2 DEF OtherTypes, None
<1>8. /\ local' \in [Id -> Entries]
      /\ local'[c].obj = born + 1 /\ local'[c].kind = kind /\ ~local'[c].destroyed
      /\ \A id \in Id : id # c => local'[id] = local[id]
  BY <1>1, <1>2, <1>3, <1>7 DEF OtherTypes, Entries, Entry
<1>9. m \in Messages
  BY <1>3, <1>7, IdFacts DEF Message, Messages, Opcodes
<1>10. /\ m.op = op /\ m.id = Display /\ m.obj = DisplayObject /\ m.arg = c
       /\ m.argObj = born + 1
  BY DEF Message
<1> HIDE DEF c, m
<1>11. /\ requests' \in Seq(Messages) /\ Len(requests') = Len(requests) + 1
       /\ \A i \in 1..Len(requests) : requests'[i] = requests[i]
       /\ requests'[Len(requests) + 1] = m
       /\ Len(requests) \in Nat
  BY <1>1, <1>2, <1>9, Appended DEF OtherTypes
<1>12. OtherTypes'
  BY <1>1, <1>2, <1>7, <1>8, <1>11 DEF OtherTypes
<1>13. LocalTable'
  <2>1. ASSUME NEW id \in ClientId
        PROVE  /\ entries'[id] \in {"never", "free"} <=> local'[id].obj = None
               /\ entries'[id] = "awaiting" <=> local'[id].destroyed
               /\ local'[id].obj # None => local'[id].kind \in {"device", "callback"}
               /\ id >= nextIndex' <=> entries'[id] = "never"
    BY <1>3, <1>5, <1>6, <1>7, <1>8, IdFacts DEF LocalTable
  <2>2. \A s \in ServerId : local'[s] = local[s]
    BY <1>3, <1>8, IdFacts
  <2>3. local'[Display] = local[Display]
    BY <1>3, <1>8, IdFacts
  <2> QED
    BY <2>1, <2>2, <2>3 DEF LocalTable
<1>14. RemoteTable'
  BY <1>1, <1>3, <1>4, <1>8, IdFacts DEF RemoteTable
<1>15. CacheHolds' /\ Blameless' /\ LowestServerId'
  BY <1>1 DEF CacheHolds, Blameless, LowestServerId
<1>16. RequestShape'
  BY <1>3, <1>10, <1>11 DEF RequestShape, Creates, Requests
<1>17. CreationsAreNew'
  <2> SUFFICES ASSUME NEW i \in 1..(Len(requests) + 1), Creates(requests'[i])
               PROVE  /\ requests'[i].argObj = local'[requests'[i].arg].obj
                      /\ requests'[i].argObj # None
                      /\ local'[requests'[i].arg].kind = KindOf(requests'[i])
                      /\ requests'[i].op = "sync" => ~local'[requests'[i].arg].destroyed
                      /\ remote[requests'[i].arg].obj = None
                      /\ \A j \in 1..(Len(requests) + 1) :
                            j # i => requests'[j].arg # requests'[i].arg
                      /\ \A j \in 1..(Len(requests) + 1) :
                            j < i => requests'[j].id # requests'[i].arg
                      /\ \A k \in Events : /\ events[k].id # requests'[i].arg
                                           /\ events[k].arg # requests'[i].arg
    BY <1>1, <1>11 DEF CreationsAreNew, Requests, Events
  <2>1. CASE i = Len(requests) + 1
    <3>1. requests'[i] = m
      BY <1>11, <2>1
    <3>2. KindOf(m) = kind
      BY <1>10 DEF KindOf
    <3>3. ASSUME NEW j \in 1..(Len(requests) + 1), j # i
          PROVE  requests'[j].arg # c /\ requests'[j].id # c
      <4>1. j \in Requests
        BY <1>11, <2>1, <3>3 DEF Requests
      <4>2. requests'[j] = requests[j]
        BY <1>11, <4>1 DEF Requests
      <4> QED
        BY <1>4, <4>1, <4>2
    <3>4. ~(i < i)
      BY <1>11, <2>1
    <3> HIDE DEF kind
    <3> QED
      BY <1>4, <1>7, <1>8, <1>10, <3>1, <3>2, <3>3, <3>4
  <2>2. CASE i \in Requests
    <3>1. requests'[i] = requests[i]
      BY <1>11, <2>2 DEF Requests
    <3>2. requests[i].arg \in ClientId /\ requests[i].arg # c
      BY <1>4, <2>2, <3>1 DEF RequestShape
    <3>3. local'[requests[i].arg] = local[requests[i].arg]
      BY <1>8, <3>2, IdFacts
    <3>4. \A j \in 1..(Len(requests) + 1) :
            \/ j \in Requests /\ requests'[j] = requests[j]
            \/ j = Len(requests) + 1 /\ requests'[j] = m
      BY <1>11 DEF Requests
    <3>5. ~(Len(requests) + 1 < i)
      BY <1>11
    <3> QED
      BY <1>10, <2>2, <3>1, <3>2, <3>3, <3>4, <3>5 DEF CreationsAreNew
  <2> QED
    BY <1>11, <2>1, <2>2 DEF Requests
<1>18. UsesAreKnown'
  <2> SUFFICES ASSUME NEW i \in 1..(Len(requests) + 1), ~Creates(requests'[i])
               PROVE  LET u == requests'[i] IN
                        /\ u.obj # None
                        /\ \A k \in Events : events[k].arg # u.id
                        /\ u.id \in ClientId => /\ u.obj = local'[u.id].obj
                                                /\ local'[u.id].kind = "device"
                        /\ ended = "no" =>
                             \/ remote[u.id].obj = u.obj
                             \/ \E j \in 1..(Len(requests) + 1) :
                                  j < i /\ requests'[j].arg = u.id
    BY SMTT(40), <1>1, <1>11 DEF UsesAreKnown, Requests, Events
  <2>1. i \in Requests /\ requests'[i] = requests[i]
    BY <1>10, <1>11 DEF Requests, Creates
  <2>2. requests[i].id # c
    BY <1>4, <2>1
  <2>3. requests[i].id \in ClientId => local'[requests[i].id] = local[requests[i].id]
    BY <1>8, <2>2, IdFacts
  <2>4. \A j \in Requests : requests'[j] = requests[j] /\ j \in 1..(Len(requests) + 1)
    BY <1>11 DEF Requests
  <2> QED
    BY <2>1, <2>3, <2>4 DEF UsesAreKnown
<1>19. DestructorsAreLast'
  <2> SUFFICES ASSUME NEW i \in 1..(Len(requests) + 1), requests'[i].op = "destroy"
               PROVE  LET id == requests'[i].id IN
                        /\ \A j \in 1..(Len(requests) + 1) :
                              j > i => requests'[j].id # id
                        /\ id \in ClientId => local'[id].destroyed
                        /\ id \in ServerId => local'[id].obj = None
    BY <1>1, <1>11 DEF DestructorsAreLast, Requests
  <2>1. i \in Requests /\ requests'[i] = requests[i]
    BY <1>10, <1>11 DEF Requests
  <2>2. requests[i].id # c /\ requests[i].id \in ClientId \union ServerId
    BY <1>4, <2>1 DEF RequestShape, Creates
  <2>3. local'[requests[i].id] = local[requests[i].id]
    BY <1>8, <2>2, IdFacts
  <2>4. \A j \in 1..(Len(requests) + 1) :
          \/ j \in Requests /\ requests'[j] = requests[j]
          \/ j = Len(requests) + 1 /\ requests'[j] = m
    BY <1>11 DEF Requests
  <2>5. m.id # requests[i].id
    BY <1>10, <2>2, IdFacts
  <2> QED
    BY <2>1, <2>3, <2>4, <2>5 DEF DestructorsAreLast
<1>21. DevicesAreKnown'
  <2> SUFFICES ASSUME NEW id \in ClientId, ended = "no", local'[id].obj # None,
                      local'[id].kind = "device", ~local'[id].destroyed
               PROVE  \/ remote[id].obj = local'[id].obj
                      \/ \E j \in 1..(Len(requests) + 1) : requests'[j].arg = id
    BY <1>1, <1>11 DEF DevicesAreKnown, Requests
  <2>1. CASE id = c
    BY <1>10, <1>11, <2>1
  <2>2. CASE id # c
    <3>1. local'[id] = local[id]
      BY <1>8, <2>2, IdFacts
    <3>2. \A j \in Requests : requests'[j] = requests[j] /\ j \in 1..(Len(requests) + 1)
      BY <1>11 DEF Requests
    <3> QED
      BY <3>1, <3>2 DEF DevicesAreKnown
  <2> QED
    BY <2>1, <2>2
<1>20. Downward'
  <2>1. /\ \A k \in Events : events[k].id # c /\ events[k].arg # c
        /\ Events' = Events
    BY <1>1, <1>4 DEF Events
  <2>2. \A k \in Events : /\ events[k].id \in ClientId =>
                               local'[events[k].id] = local[events[k].id]
                          /\ events[k].arg \in ClientId \union ServerId =>
                               local'[events[k].arg] = local[events[k].arg]
    BY <1>8, <2>1, IdFacts
  <2>3. EventShape'
    BY <1>1, <2>1 DEF EventShape
  <2>4. EventsAreKnown'
    BY <1>1, <2>1, <2>2 DEF EventsAreKnown
  <2>5. OffersAreNew'
    BY <1>1, <2>1, <2>2 DEF OffersAreNew, EventShape
  <2>6. DoneOnce'
    BY <1>1, <2>1, <2>2 DEF DoneOnce, EventShape
  <2>7. DeletesAreLast'
    BY <1>1, <2>1, <2>2 DEF DeletesAreLast, EventShape
  <2> QED
    BY <2>3, <2>4, <2>5, <2>6, <2>7
<1> QED
  BY <1>5, <1>12, <1>13, <1>14, <1>15, <1>16, <1>17, <1>18, <1>19, <1>20, <1>21,
     TypeParts

\* Steps that touch neither the tables nor what is on its way.
LEMMA TablesStay ==
  ASSUME Inv, UNCHANGED <<local, remote, cached, ended, closed, requests, events>>
  PROVE  RemoteTable' /\ CacheHolds' /\ Blameless' /\ Upward' /\ Downward'
<1> USE DEF Inv, Tables, Upward, Downward
<1>1. Requests' = Requests /\ Events' = Events
  BY DEF Requests, Events
<1>2. RemoteTable' /\ CacheHolds' /\ Blameless'
  BY DEF RemoteTable, CacheHolds, Blameless
<1>3. RequestShape' /\ CreationsAreNew'
  BY <1>1 DEF RequestShape, CreationsAreNew
<1>4. UsesAreKnown' /\ DevicesAreKnown' /\ DestructorsAreLast'
  BY <1>1 DEF UsesAreKnown, DevicesAreKnown, DestructorsAreLast
<1>5. EventShape' /\ EventsAreKnown' /\ OffersAreNew'
  BY <1>1 DEF EventShape, EventsAreKnown, OffersAreNew
<1>6. DoneOnce' /\ DeletesAreLast'
  BY <1>1 DEF DoneOnce, DeletesAreLast
<1> QED
  BY <1>2, <1>3, <1>4, <1>5, <1>6

\* A creation taken back leaves a free id.
LEMMA CreateCancelledInv ==
  ASSUME Inv, CreateCancelled
  PROVE  Inv'
<1> DEFINE c == Acquired
<1> USE DEF Inv, Tables
<1>1. /\ UNCHANGED <<local, roundtrip, closed, remote, cursor, cached, ended,
                     requests, events, born>>
      /\ CanAcquire
      /\ entries' = [entries EXCEPT ![c] = "free"]
      /\ freeIds' = IF freeIds # <<>> THEN freeIds ELSE <<c>>
      /\ nextIndex' = IF freeIds # <<>> THEN nextIndex ELSE nextIndex + 1
  BY DEF CreateCancelled, serverVars
<1>2. AllocatorTypes /\ OtherTypes
  BY TypeParts
<1>3. c \in ClientId /\ entries[c] \in {"never", "free"}
  BY <1>1, <1>2, AcquiredIsFree
<1>4. /\ AllocatorTypes'
      /\ \A id \in ClientId : id >= nextIndex' <=> entries'[id] = "never"
  <2> HIDE DEF Inv, Tables, c
  <2> QED
    BY <1>1, <1>2, TakeId DEF Inv, Tables, c
<1>5. \A id \in ClientId : entries'[id] = IF id = c THEN "free" ELSE entries[id]
  BY <1>1, <1>2, <1>3 DEF AllocatorTypes
<1> HIDE DEF c
<1>6. OtherTypes'
  BY <1>1, <1>2 DEF OtherTypes
<1>7. LocalTable'
  BY <1>1, <1>3, <1>4, <1>5 DEF LocalTable
<1>8. LowestServerId'
  BY <1>1 DEF LowestServerId
<1> QED
  BY <1>1, <1>4, <1>6, <1>7, <1>8, TablesStay, TypeParts

\* A request to an object the client holds: it is no callback, so the server
\* has not ended it, and the client has not sent its destructor.
LEMMA UseInv ==
  ASSUME Inv, NEW op \in {"use", "destroy"}, NEW id \in Id,
         Request(op, id),
         IF op = "destroy" THEN Retire(id) ELSE UNCHANGED <<idVars, local>>,
         UNCHANGED <<roundtrip, closed, serverVars, events, born>>
  PROVE  Inv'
<1> DEFINE m == Message(op, id, local[id].obj, None, None)
<1> USE DEF Inv, Tables, Upward, Downward
<1>1. /\ UNCHANGED <<closed, remote, cursor, cached, ended, events, roundtrip, born>>
      /\ Live(id) /\ local[id].kind \in {"device", "offer"}
      /\ requests' = Append(requests, m)
  BY DEF Request, serverVars
<1>2. AllocatorTypes /\ OtherTypes
  BY TypeParts
<1>3. /\ id \in ClientId \union ServerId
      /\ id \in ClientId => local[id].kind = "device"
      /\ local[id].obj # None /\ ~local[id].destroyed /\ local[id].obj \in Nat
      /\ id # None
  <2>1. id # Display
    BY <1>1 DEF LocalTable, Entry
  <2>2. local[id].obj \in Nat
    BY <1>2 DEF OtherTypes, Entries
  <2> QED
    BY <1>1, <2>1, <2>2, IdFacts DEF LocalTable, Live
<1>4. m \in Messages
  BY <1>3, IdFacts DEF Message, Messages, Opcodes
<1>5. /\ m.op = op /\ m.id = id /\ m.obj = local[id].obj /\ m.arg = None
  BY DEF Message
<1> HIDE DEF m
<1>6. /\ requests' \in Seq(Messages) /\ Len(requests') = Len(requests) + 1
      /\ Requests \subseteq 1..(Len(requests) + 1)
      /\ \A i \in Requests : requests'[i] = requests[i]
      /\ requests'[Len(requests) + 1] = m
      /\ \A i \in 1..(Len(requests) + 1) : i \in Requests \/ i = Len(requests) + 1
      /\ \A i \in Requests : i < Len(requests) + 1 /\ ~(Len(requests) + 1 < i)
      /\ Requests' = 1..(Len(requests) + 1)
  <2>1. /\ requests' \in Seq(Messages) /\ Len(requests') = Len(requests) + 1
        /\ \A i \in 1..Len(requests) : requests'[i] = requests[i]
        /\ requests'[Len(requests) + 1] = m
        /\ Len(requests) \in Nat
    BY <1>1, <1>2, <1>4, Appended DEF OtherTypes
  <2> QED
    BY <2>1 DEF Requests
<1>7. /\ local' \in [Id -> Entries]
      /\ \A x \in Id : x # id => local'[x] = local[x]
      /\ local'[id].kind = local[id].kind \/ id \in ServerId
      /\ id \in ClientId => local'[id].obj = local[id].obj
      /\ op = "use" => local'[id] = local[id]
      /\ op = "destroy" /\ id \in ClientId => local'[id].destroyed
      /\ op = "destroy" /\ id \in ServerId => local'[id] = Nothing
  <2>1. CASE op = "use"
    BY <1>2, <2>1 DEF OtherTypes, idVars
  <2>2. CASE op = "destroy" /\ id \in ClientId
    <3>1. local' = [local EXCEPT ![id].destroyed = TRUE]
      BY <2>2 DEF Retire
    <3>2. local'[id] = [local[id] EXCEPT !.destroyed = TRUE] /\ local[id] \in Entries
      BY <1>2, <3>1 DEF OtherTypes
    <3> QED
      BY <1>2, <2>2, <3>1, <3>2, IdFacts DEF OtherTypes, Entries
  <2>3. CASE op = "destroy" /\ id \notin ClientId
    <3>1. local' = [local EXCEPT ![id] = Nothing]
      BY <2>3 DEF Retire
    <3>2. Nothing \in Entries
      BY IdFacts DEF Nothing, Entries
    <3> QED
      BY <1>2, <1>3, <2>3, <3>1, <3>2 DEF OtherTypes
  <2> QED
    BY <2>1, <2>2, <2>3
<1>8. /\ freeIds' = freeIds /\ nextIndex' = nextIndex
      /\ \A c \in ClientId : entries'[c] =
           IF op = "destroy" /\ c = id THEN "awaiting" ELSE entries[c]
      /\ entries' \in [ClientId -> {"never", "active", "awaiting", "free"}]
  <2>1. CASE op = "use"
    BY <1>2, <2>1 DEF AllocatorTypes, idVars
  <2>2. CASE op = "destroy" /\ id \in ClientId
    BY <1>2, <2>2 DEF AllocatorTypes, Retire
  <2>3. CASE op = "destroy" /\ id \notin ClientId
    BY <1>2, <2>3 DEF AllocatorTypes, Retire, idVars
  <2> QED
    BY <2>1, <2>2, <2>3
<1>9. id \in ClientId => entries[id] = "active"
  BY <1>2, <1>3 DEF LocalTable, AllocatorTypes
<1>10. AllocatorTypes'
  <2>1. {c \in ClientId : entries'[c] = "free"} = {c \in ClientId : entries[c] = "free"}
    BY <1>8, <1>9
  <2> QED
    BY <1>2, <1>8, <2>1 DEF AllocatorTypes
<1>11. OtherTypes'
  BY <1>1, <1>2, <1>6, <1>7 DEF OtherTypes
<1>12. LocalTable'
  <2>1. ASSUME NEW c \in ClientId
        PROVE  /\ entries'[c] \in {"never", "free"} <=> local'[c].obj = None
               /\ entries'[c] = "awaiting" <=> local'[c].destroyed
               /\ local'[c].obj # None => local'[c].kind \in {"device", "callback"}
               /\ c >= nextIndex' <=> entries'[c] = "never"
    BY <1>3, <1>7, <1>8, <1>9, IdFacts DEF LocalTable
  <2>2. ASSUME NEW s \in ServerId
        PROVE  /\ local'[s].obj # None => local'[s].kind = "offer"
               /\ ~local'[s].destroyed
    BY <1>3, <1>7, IdFacts DEF LocalTable, Nothing
  <2>3. local'[Display] = local[Display]
    BY <1>3, <1>7, IdFacts
  <2> QED
    BY <2>1, <2>2, <2>3 DEF LocalTable
<1>13. RemoteTable'
  <2>1. \A c \in ClientId : /\ local'[c].obj = local[c].obj /\ local'[c].kind = local[c].kind
                            /\ local'[c].kind = "callback" => local'[c] = local[c]
    BY <1>3, <1>7, IdFacts
  <2>2. \A s \in ServerId : local'[s].obj # None => local'[s] = local[s]
    BY <1>7, IdFacts DEF Nothing
  <2> QED
    BY <1>1, <2>1, <2>2 DEF RemoteTable
<1>14. CacheHolds' /\ Blameless' /\ LowestServerId'
  BY <1>1 DEF CacheHolds, Blameless, LowestServerId
<1>15. \A k \in Events : events[k].arg # id /\ ~(events[k].op = "done" /\ events[k].id = id)
  <2> SUFFICES ASSUME NEW k \in Events
               PROVE  events[k].arg # id /\ ~(events[k].op = "done" /\ events[k].id = id)
    OBVIOUS
  <2>1. ~(events[k].op = "done" /\ events[k].id = id)
    BY <1>3, IdFacts DEF DoneOnce, EventShape
  <2>2. CASE events[k].op = "delete_id"
    <3>1. \A l \in Events : ~(events[l].op = "done" /\ events[l].id = id)
      BY <1>3, IdFacts DEF DoneOnce, EventShape
    <3> QED
      BY <1>3, <2>2, <2>1, <3>1 DEF DeletesAreLast
  <2>3. CASE events[k].op = "offer"
    BY <1>3, <2>1, <2>3 DEF OffersAreNew
  <2>4. CASE events[k].op \notin {"delete_id", "offer"}
    BY <1>3, <2>1, <2>4 DEF EventShape
  <2> QED
    BY <2>2, <2>3, <2>4, <2>1
<1>16. \A j \in Requests : requests[j].op = "destroy" => requests[j].id # id
  BY <1>3 DEF DestructorsAreLast
<1>17. RequestShape'
  BY <1>3, <1>5, <1>6 DEF RequestShape, Creates
<1>18. CreationsAreNew'
  <2> SUFFICES ASSUME NEW i \in Requests, Creates(requests[i])
               PROVE  LET c == requests[i].arg
                      IN /\ local'[c].obj = local[c].obj /\ local'[c].kind = local[c].kind
                         /\ local[c].kind = "callback" => local'[c] = local[c]
                         /\ m.arg # c
    BY <1>1, <1>5, <1>6 DEF CreationsAreNew, Creates, KindOf, Events
  <2> QED
    BY <1>3, <1>5, <1>7, IdFacts DEF RequestShape
<1>19. UsesAreKnown'
  <2> SUFFICES ASSUME NEW i \in 1..(Len(requests) + 1), ~Creates(requests'[i])
               PROVE  LET u == requests'[i] IN
                        /\ u.obj # None
                        /\ \A k \in Events : events[k].arg # u.id
                        /\ u.id \in ClientId => /\ u.obj = local'[u.id].obj
                                                /\ local'[u.id].kind = "device"
                        /\ ended = "no" =>
                             \/ remote[u.id].obj = u.obj
                             \/ \E j \in 1..(Len(requests) + 1) :
                                  j < i /\ requests'[j].arg = u.id
    BY <1>1, <1>6 DEF UsesAreKnown, Events
  <2>1. CASE i \in Requests
    <3>1. requests'[i] = requests[i]
      BY <1>6, <2>1
    <3>2. requests[i].id \in ClientId =>
            /\ local'[requests[i].id].obj = local[requests[i].id].obj
            /\ local'[requests[i].id].kind = local[requests[i].id].kind
      BY <1>7, IdFacts
    <3>3. \A j \in Requests : requests'[j] = requests[j] /\ j \in 1..(Len(requests) + 1)
      BY <1>6
    <3> QED
      BY <2>1, <3>1, <3>2, <3>3 DEF UsesAreKnown
  <2>2. CASE i = Len(requests) + 1
    <3>1. requests'[i] = m
      BY <1>6, <2>2
    <3>2. id \in ClientId => m.obj = local'[id].obj /\ local'[id].kind = "device"
      BY <1>3, <1>5, <1>7, IdFacts
    <3>3. ended = "no" /\ remote[id].obj # local[id].obj =>
            \E j \in Requests : requests[j].arg = id
      BY <1>3 DEF DevicesAreKnown, RemoteTable
    <3>4. \A j \in Requests : /\ requests'[j] = requests[j]
                              /\ j \in 1..(Len(requests) + 1) /\ j < i
      BY <1>6, <2>2
    <3> QED
      BY <1>3, <1>5, <1>15, <3>1, <3>2, <3>3, <3>4
  <2> QED
    BY <1>6, <2>1, <2>2
<1>20. DevicesAreKnown'
  <2> SUFFICES ASSUME NEW c \in ClientId, ended = "no", local'[c].obj # None,
                      local'[c].kind = "device", ~local'[c].destroyed
               PROVE  \/ remote[c].obj = local'[c].obj
                      \/ \E j \in 1..(Len(requests) + 1) : requests'[j].arg = c
    BY <1>1, <1>6 DEF DevicesAreKnown
  <2>1. local'[c] = local[c]
    BY <1>7, IdFacts
  <2>2. \A j \in Requests : requests'[j] = requests[j] /\ j \in 1..(Len(requests) + 1)
    BY <1>6
  <2> QED
    BY <2>1, <2>2 DEF DevicesAreKnown
<1>21. DestructorsAreLast'
  <2> SUFFICES ASSUME NEW i \in 1..(Len(requests) + 1), requests'[i].op = "destroy"
               PROVE  LET d == requests'[i].id IN
                        /\ \A j \in 1..(Len(requests) + 1) :
                              j > i => requests'[j].id # d
                        /\ d \in ClientId => local'[d].destroyed
                        /\ d \in ServerId => local'[d].obj = None
    BY <1>6 DEF DestructorsAreLast
  <2>1. CASE i \in Requests
    <3>1. requests'[i] = requests[i] /\ requests[i].id # id
      BY <1>6, <1>16, <2>1
    <3>2. requests[i].id \in Id => local'[requests[i].id] = local[requests[i].id]
      BY <1>7, <3>1
    <3>3. \A j \in 1..(Len(requests) + 1) : \/ j \in Requests /\ requests'[j] = requests[j]
                                            \/ requests'[j].id = id
      BY <1>5, <1>6
    <3> QED
      BY ZenonT(60), <2>1, <3>1, <3>2, <3>3, IdFacts DEF DestructorsAreLast
  <2>2. CASE i = Len(requests) + 1
    <3>1. requests'[i] = m /\ op = "destroy"
      BY <1>5, <1>6, <2>2
    <3>2. \A j \in 1..(Len(requests) + 1) : ~(j > i)
      BY <1>6, <2>2
    <3> QED
      BY <1>5, <1>7, <3>1, <3>2 DEF Nothing
  <2> QED
    BY <1>6, <2>1, <2>2
<1>22. Downward'
  <2>1. Events' = Events
    BY <1>1 DEF Events
  <2>2. \A c \in ClientId : local'[c].obj = local[c].obj /\ local'[c].kind = local[c].kind
    BY <1>7, IdFacts
  <2>3. EventShape'
    BY <1>1, <2>1 DEF EventShape
  <2>4. EventsAreKnown'
    BY <1>1, <2>1, <2>2 DEF EventsAreKnown
  <2>5. OffersAreNew'
    <3>1. \A k \in Events : events[k].op = "offer" => local'[events[k].arg] = local[events[k].arg]
      BY <1>7, <1>15, IdFacts DEF EventShape
    <3> QED
      BY <1>1, <2>1, <3>1 DEF OffersAreNew
  <2>6. DoneOnce'
    <3>1. \A k \in Events : events[k].op = "done" => local'[events[k].id] = local[events[k].id]
      BY <1>7, <1>15, IdFacts DEF EventShape
    <3> QED
      BY <1>1, <2>1, <3>1 DEF DoneOnce
  <2>7. DeletesAreLast'
    <3>1. \A k \in Events : events[k].op = "delete_id" => local'[events[k].arg] = local[events[k].arg]
      BY <1>7, <1>15, IdFacts DEF EventShape
    <3> QED
      BY <1>1, <2>1, <3>1 DEF DeletesAreLast
  <2> QED
    BY <2>3, <2>4, <2>5, <2>6, <2>7
<1> QED
  BY <1>10, <1>11, <1>12, <1>13, <1>14, <1>17, <1>18, <1>19, <1>20, <1>21, <1>22,
     TypeParts

-----------------------------------------------------------------------------
(* The client receives. *)

\* What a step does to the client's table leaves alone what the requests, and
\* the events behind the first, say of it.
Undisturbed ==
  /\ \A i \in Requests : \A x \in Id :
       x \in {requests[i].id, requests[i].arg} => local'[x] = local[x]
  /\ \A c \in ClientId : \/ local'[c] = local[c]
                         \/ local'[c].obj = None \/ local'[c].destroyed
  /\ \A k \in Events : k > 1 =>
       LET m == events[k] IN
         /\ m.id \in ClientId => local'[m.id].obj = local[m.id].obj
         /\ m.op = "offer" => local'[m.arg] = local[m.arg]
         /\ m.op = "done" => local'[m.id] = local[m.id]
         /\ m.op = "delete_id" => /\ local'[m.arg].obj = local[m.arg].obj
                                  /\ local[m.arg].destroyed => local'[m.arg].destroyed
  /\ events[1].op = "done" => local'[events[1].id].destroyed

TakesEvent == /\ events # <<>>
              /\ events' = Tail(events)
              /\ UNCHANGED <<remote, ended, requests>>

\* The first event is taken.
LEMMA EventTaken ==
  ASSUME Inv, TakesEvent, Undisturbed
  PROVE  Upward' /\ Downward'
<1>1. /\ Len(events') = Len(events) - 1 /\ Len(events) \in Nat
      /\ 1 \in Events /\ events \in Seq(Messages)
      /\ \A k \in Events' : /\ events'[k] = events[k + 1]
                            /\ k + 1 \in Events /\ k + 1 > 1 /\ k \in Nat
      /\ \A k \in Events : k > 1 => k - 1 \in Events' /\ events'[k - 1] = events[k]
  <2>1. events \in Seq(Messages)
    BY TypeParts DEF OtherTypes, Inv
  <2>2. /\ Len(events') = Len(events) - 1 /\ 1 \in Events
        /\ \A k \in 1..Len(events') : events'[k] = events[k + 1] /\ k + 1 \in Events
    BY <2>1, Received DEF Events, TakesEvent
  <2> QED
    BY <2>1, <2>2 DEF Events
<1>2. Requests' = Requests /\ requests' = requests /\ remote' = remote /\ ended' = ended
  BY DEF Requests, TakesEvent
<1>3. /\ RequestShape /\ CreationsAreNew /\ UsesAreKnown
      /\ DevicesAreKnown /\ DestructorsAreLast
      /\ EventShape /\ EventsAreKnown /\ OffersAreNew
      /\ DoneOnce /\ DeletesAreLast
  BY DEF Inv, Upward, Downward
<1> DEFINE Same(x) == local'[x] = local[x]
<1>4. ASSUME NEW i \in Requests
      PROVE  /\ requests[i].id \in Id => Same(requests[i].id)
             /\ requests[i].arg \in Id => Same(requests[i].arg)
  BY DEF Undisturbed
<1>15. ASSUME NEW k \in Events, k > 1
       PROVE  /\ events[k].id \in ClientId =>
                   local'[events[k].id].obj = local[events[k].id].obj
              /\ events[k].op = "offer" => Same(events[k].arg)
              /\ events[k].op = "done" => Same(events[k].id)
              /\ events[k].op = "delete_id" =>
                   /\ local'[events[k].arg].obj = local[events[k].arg].obj
                   /\ local[events[k].arg].destroyed => local'[events[k].arg].destroyed
  BY <1>15 DEF Undisturbed
<1>5. RequestShape'
  BY <1>2, <1>3 DEF RequestShape
<1>6. CreationsAreNew'
  <2> SUFFICES ASSUME NEW i \in Requests, Creates(requests[i])
               PROVE  LET m == requests[i]
                          c == requests[i].arg
                      IN /\ m.argObj = local'[c].obj /\ m.argObj # None
                         /\ local'[c].kind = KindOf(m)
                         /\ m.op = "sync" => ~local'[c].destroyed
                         /\ remote[c].obj = None
                         /\ \A j \in Requests : j # i => requests[j].arg # c
                         /\ \A j \in Requests : j < i => requests[j].id # c
                         /\ \A k \in Events' : events'[k].id # c /\ events'[k].arg # c
    BY <1>2 DEF CreationsAreNew
  <2>1. Same(requests[i].arg)
    BY <1>3, <1>4, IdFacts DEF RequestShape
  <2>2. /\ \A k \in Events' : /\ events'[k].id # requests[i].arg
                              /\ events'[k].arg # requests[i].arg
    BY <1>1, <1>3 DEF CreationsAreNew
  <2> QED
    BY <1>3, <2>1, <2>2 DEF CreationsAreNew
<1>7. UsesAreKnown'
  <2> SUFFICES ASSUME NEW i \in Requests, ~Creates(requests[i])
               PROVE  LET m == requests[i] IN
                        /\ m.obj # None
                        /\ \A k \in Events' : events'[k].arg # m.id
                        /\ m.id \in ClientId => /\ m.obj = local'[m.id].obj
                                                /\ local'[m.id].kind = "device"
                        /\ ended = "no" =>
                             \/ remote[m.id].obj = m.obj
                             \/ \E j \in Requests : j < i /\ requests[j].arg = m.id
    BY <1>2 DEF UsesAreKnown
  <2>1. requests[i].id \in ClientId => Same(requests[i].id)
    BY <1>4, IdFacts
  <2>2. \A k \in Events' : events'[k].arg # requests[i].id
    BY <1>1, <1>3 DEF UsesAreKnown
  <2> QED
    BY <1>3, <2>1, <2>2 DEF UsesAreKnown
<1>8. DevicesAreKnown'
  <2> SUFFICES ASSUME NEW c \in ClientId, ended = "no", local'[c].obj # None,
                      local'[c].kind = "device", ~local'[c].destroyed
               PROVE  \/ remote[c].obj = local'[c].obj
                      \/ \E j \in Requests : requests[j].arg = c
    BY <1>2 DEF DevicesAreKnown
  <2>1. local'[c] = local[c]
    BY DEF Undisturbed
  <2> QED
    BY <1>3, <2>1 DEF DevicesAreKnown
<1>9. DestructorsAreLast'
  <2> SUFFICES ASSUME NEW i \in Requests, requests[i].op = "destroy"
               PROVE  LET id == requests[i].id IN
                        /\ \A j \in Requests : j > i => requests[j].id # id
                        /\ id \in ClientId => local'[id].destroyed
                        /\ id \in ServerId => local'[id].obj = None
    BY <1>2 DEF DestructorsAreLast
  <2>1. requests[i].id \in Id => Same(requests[i].id)
    BY <1>4
  <2> QED
    BY <1>3, <2>1, IdFacts DEF DestructorsAreLast
<1>10. EventShape'
  BY <1>1, <1>2, <1>3 DEF EventShape
<1>11. EventsAreKnown'
  <2> SUFFICES ASSUME NEW k \in Events, k > 1, events[k].id \in ClientId
               PROVE  events[k].obj = local'[events[k].id].obj /\ events[k].obj # None
    BY <1>1 DEF EventsAreKnown
  <2> QED
    BY <1>3, <1>15 DEF EventsAreKnown
<1>12. OffersAreNew'
  <2> SUFFICES ASSUME NEW k \in Events', events'[k].op = "offer"
               PROVE  LET s == events'[k].arg IN
                        /\ local'[s].obj = None
                        /\ events'[k].argObj # None
                        /\ \A l \in Events' : l # k => events'[l].arg # s
                        /\ ended = "no" => remote[s].obj = events'[k].argObj
    BY <1>2 DEF OffersAreNew
  <2> DEFINE s == events[k + 1].arg
  <2>1. /\ k + 1 \in Events /\ events'[k] = events[k + 1] /\ k + 1 > 1
        /\ \A l \in Events' : l # k => l + 1 # k + 1
    BY <1>1
  <2>3. local'[s] = local[s]
    BY <1>15, <2>1
  <2>4. \A l \in Events' : l # k => events'[l].arg # s
    BY <1>1, <1>3, <2>1 DEF OffersAreNew
  <2> QED
    BY <1>3, <2>1, <2>3, <2>4 DEF OffersAreNew
<1>13. DoneOnce'
  <2> SUFFICES ASSUME NEW k \in Events', events'[k].op = "done"
               PROVE  LET c == events'[k].id IN
                        /\ local'[c].kind = "callback" /\ ~local'[c].destroyed
                        /\ remote[c].obj = None
                        /\ \A l \in Events' : l # k /\ events'[l].op = "done"
                                                => events'[l].id # c
    BY <1>2 DEF DoneOnce
  <2> DEFINE c == events[k + 1].id
  <2>1. /\ k + 1 \in Events /\ events'[k] = events[k + 1] /\ k + 1 > 1
        /\ \A l \in Events' : l # k => l + 1 # k + 1
    BY <1>1
  <2>4. local'[c] = local[c]
    BY <1>15, <2>1
  <2>5. \A l \in Events' : l # k /\ events'[l].op = "done" => events'[l].id # c
    BY <1>1, <1>3, <2>1 DEF DoneOnce
  <2> QED
    BY <1>3, <2>1, <2>4, <2>5 DEF DoneOnce
<1>14. DeletesAreLast'
  <2> SUFFICES ASSUME NEW k \in Events', events'[k].op = "delete_id"
               PROVE  LET c == events'[k].arg IN
                        /\ events'[k].argObj = local'[c].obj /\ local'[c].obj # None
                        /\ remote[c].obj = None
                        /\ \A l \in Events' : l > k => events'[l].id # c /\ events'[l].arg # c
                        /\ \/ local'[c].destroyed
                           \/ \E l \in Events' : /\ l < k /\ events'[l].op = "done"
                                                 /\ events'[l].id = c
    BY <1>2 DEF DeletesAreLast
  <2> DEFINE c == events[k + 1].arg
  <2>1. /\ k + 1 \in Events /\ events'[k] = events[k + 1] /\ k + 1 > 1 /\ k \in Nat
        /\ \A l \in Events' : l > k => l + 1 > k + 1
    BY <1>1
  <2>3. local'[c].obj = local[c].obj /\ (local[c].destroyed => local'[c].destroyed)
    BY <1>15, <2>1
  <2>4. \A l \in Events' : l > k => events'[l].id # c /\ events'[l].arg # c
    BY <1>1, <1>3, <2>1 DEF DeletesAreLast
  <2>5. \/ local'[c].destroyed
        \/ \E l \in Events' : l < k /\ events'[l].op = "done" /\ events'[l].id = c
    <3>1. CASE local[c].destroyed
      BY <2>3, <3>1
    <3>2. ASSUME NEW l \in Events, l < k + 1, events[l].op = "done", events[l].id = c
          PROVE  \/ local'[c].destroyed
                 \/ \E j \in Events' : j < k /\ events'[j].op = "done" /\ events'[j].id = c
      <4>1. CASE l = 1
        BY <3>2, <4>1 DEF Undisturbed
      <4>2. CASE l > 1
        <5>1. l - 1 \in Events' /\ events'[l - 1] = events[l] /\ l - 1 < k
          BY <1>1, <2>1, <3>2, <4>2 DEF Events
        <5> QED
          BY <3>2, <5>1
      <4> QED
        BY <4>1, <4>2 DEF Events
    <3> QED
      BY <1>3, <2>1, <3>1, <3>2 DEF DeletesAreLast
  <2> QED
    BY <1>3, <2>1, <2>3, <2>4, <2>5 DEF DeletesAreLast
<1> QED
  BY <1>5, <1>6, <1>7, <1>8, <1>9, <1>10, <1>11, <1>12, <1>13, <1>14
     DEF Upward, Downward

\* What an event may come to.
LEMMA ClientCases ==
  ASSUME ClientReceives, NEW m, m = Head(events),
         m.op \in {"event", "offer", "done", "delete_id", "error"}
  PROVE  \/ local[m.id].obj = None /\ Terminal
         \/ local[m.id].destroyed /\ Ignore
         \/ m.op = "offer" /\ ~local[m.id].destroyed /\ InsertPeer(m)
         \/ m.op = "done" /\ ~local[m.id].destroyed /\ Done(m)
         \/ m.op = "delete_id" /\ Deleted(m)
         \/ m.op = "error" /\ Terminal
         \/ m.op = "event" /\ Ignore
BY DEF ClientReceives

\* What an event does to the client keeps the two tables in agreement.
Agrees ==
  /\ AllocatorTypes' /\ LocalTable'
  /\ local' \in [Id -> Entries]
  /\ roundtrip' \in [state : {"idle", "waiting_done", "waiting_delete", "complete"},
                     id : ClientId \union {None}]
  /\ closed' \in BOOLEAN
  /\ closed' => ended # "no" \/ LateEvents
  /\ \A c \in ClientId : remote[c].obj # None =>
       /\ local'[c].obj = local[c].obj /\ local'[c].kind = local[c].kind
       /\ local'[c].kind = "callback" => ~local'[c].destroyed
  /\ \A s \in ServerId : ended = "no" /\ local'[s].obj # None =>
       remote[s].obj = local'[s].obj

LEMMA ClientInv ==
  ASSUME Inv, TakesEvent, Undisturbed, Agrees,
         UNCHANGED <<serverVars, requests, born>>
  PROVE  Inv'
<1>1. UNCHANGED <<remote, cursor, cached, ended, requests, born>>
  BY DEF serverVars
<1>2. Upward' /\ Downward'
  BY EventTaken
<1>3. OtherTypes /\ RemoteTable /\ CacheHolds /\ Blameless /\ LowestServerId
  BY TypeParts DEF Inv, Tables
<1>4. events' \in Seq(Messages)
  BY <1>3, Received DEF OtherTypes, TakesEvent
<1>5. OtherTypes'
  BY <1>1, <1>3, <1>4 DEF OtherTypes, Agrees
<1>6. RemoteTable'
  BY <1>1, <1>3 DEF RemoteTable, Agrees
<1>7. CacheHolds' /\ Blameless' /\ LowestServerId'
  BY <1>1, <1>3 DEF CacheHolds, Blameless, LowestServerId, Agrees
<1> QED
  BY <1>2, <1>5, <1>6, <1>7, TypeParts DEF Inv, Tables, Agrees

\* The first event, by its kind.
LEMMA FirstEvent ==
  ASSUME Inv, events # <<>>
  PROVE  LET m == Head(events) IN
    /\ m = events[1] /\ 1 \in Events /\ m \in Messages
    /\ m.op \in {"event", "offer", "done", "delete_id", "error"}
    /\ local[m.id].obj = None => m.op = "event" /\ LateEvents
    /\ local[m.id].destroyed => m.op \in {"event", "offer"}
    /\ m.op = "error" => ended # "no"
    /\ m.op = "done" => /\ m.id \in ClientId /\ local[m.id].obj # None
                        /\ local[m.id].kind = "callback"
    /\ m.op = "offer" => /\ m.arg \in ServerId /\ local[m.arg].obj = None
                         /\ m.argObj # None /\ m.argObj \in Nat
                         /\ ended = "no" => remote[m.arg].obj = m.argObj
    /\ m.op = "delete_id" => /\ m.arg \in ClientId /\ local[m.arg].destroyed
                             /\ remote[m.arg].obj = None
<1>1. events \in Seq(Messages)
  BY TypeParts DEF Inv, OtherTypes
<1>2. Head(events) = events[1] /\ 1 \in Events /\ events[1] \in Messages
  BY <1>1, Received DEF Events
<1> DEFINE m == events[1]
<1>3. /\ m.op \in {"event", "offer", "done", "delete_id", "error"}
      /\ m.op \in {"event", "offer", "done"} =>
           m.id \in ClientId \/ (m.op = "event" /\ LateEvents /\ m.id \in ServerId)
      /\ m.op \in {"delete_id", "error"} => m.id = Display
      /\ m.op = "offer" => m.arg \in ServerId
      /\ m.op = "delete_id" => m.arg \in ClientId
      /\ m.op = "error" => ended # "no"
  BY <1>2 DEF Inv, Downward, EventShape
<1>4. m.id \in ClientId => local[m.id].obj # None
  BY <1>2 DEF Inv, Downward, EventsAreKnown
<1>5. local[Display].obj # None /\ ~local[Display].destroyed
  BY IdFacts DEF Inv, Tables, LocalTable, Entry
<1>6. \A s \in ServerId : ~local[s].destroyed
  BY DEF Inv, Tables, LocalTable
<1>7. m.op = "done" => local[m.id].kind = "callback" /\ ~local[m.id].destroyed
  BY <1>2 DEF Inv, Downward, DoneOnce
<1>8. m.op = "offer" => /\ local[m.arg].obj = None /\ m.argObj # None
                        /\ ended = "no" => remote[m.arg].obj = m.argObj
  BY <1>2 DEF Inv, Downward, OffersAreNew
<1>9. m.op = "delete_id" => local[m.arg].destroyed /\ remote[m.arg].obj = None
  <2>1. \A l \in Events : ~(l < 1)
    BY DEF Events
  <2> QED
    BY <1>2, <2>1 DEF Inv, Downward, DeletesAreLast
<1>10. m.argObj \in Nat
  BY <1>2 DEF Messages
<1> HIDE DEF m
<1> QED
  BY <1>2, <1>3, <1>4, <1>5, <1>6, <1>7, <1>8, <1>9, <1>10 DEF m

\* An event is discarded, or the last the client reads.
LEMMA LeftAlone ==
  ASSUME Inv, TakesEvent, UNCHANGED <<idVars, local, roundtrip>>,
         closed' \in BOOLEAN, closed' => ended # "no" \/ LateEvents,
         events[1].op # "done"
  PROVE  Undisturbed /\ Agrees
<1>1. UNCHANGED <<entries, freeIds, nextIndex, local, roundtrip>>
  BY DEF idVars
<1>2. AllocatorTypes /\ OtherTypes /\ LocalTable /\ RemoteTable
  BY TypeParts DEF Inv, Tables
<1>3. Undisturbed
  BY <1>1 DEF Undisturbed
<1>4. AllocatorTypes' /\ LocalTable'
  BY <1>1, <1>2 DEF AllocatorTypes, LocalTable
<1>5. Agrees
  BY <1>1, <1>2, <1>4 DEF Agrees, OtherTypes, RemoteTable
<1> QED
  BY <1>3, <1>5

\* An offer is registered.
LEMMA OfferReceived ==
  ASSUME Inv, TakesEvent, NEW s \in ServerId, events[1].op = "offer",
         events[1].arg = s, local[s].obj = None,
         NEW o \in Nat, o # None, ended = "no" => remote[s].obj = o,
         local' = [local EXCEPT ![s] = Entry(o, "offer")],
         UNCHANGED <<idVars, roundtrip, closed>>
  PROVE  Undisturbed /\ Agrees
<1>1. UNCHANGED <<entries, freeIds, nextIndex, roundtrip, closed>>
  BY DEF idVars
<1>2. AllocatorTypes /\ OtherTypes /\ LocalTable /\ RemoteTable /\ Blameless
  BY TypeParts DEF Inv, Tables
<1>3. /\ local' \in [Id -> Entries]
      /\ local'[s].obj = o /\ local'[s].kind = "offer" /\ ~local'[s].destroyed
      /\ \A x \in Id : x # s => local'[x] = local[x]
      /\ s \in Id /\ s # Display
  BY <1>2, IdFacts DEF OtherTypes, Entries, Entry
<1>4. \A c \in ClientId : c # s
  BY IdFacts
<1>5. 1 \in Events
  BY FirstEvent DEF TakesEvent
<1>6. Undisturbed
  <2>1. ASSUME NEW i \in Requests
        PROVE  requests[i].id # s /\ requests[i].arg # s
    <3>1. CASE Creates(requests[i])
      BY <1>3, <1>4, <3>1 DEF Inv, Upward, RequestShape
    <3>2. CASE ~Creates(requests[i])
      BY <1>3, <1>5, <3>2, IdFacts DEF Inv, Upward, RequestShape, UsesAreKnown
    <3> QED
      BY <3>1, <3>2
  <2>2. ASSUME NEW k \in Events, k > 1
        PROVE  /\ events[k].op = "offer" => events[k].arg # s /\ events[k].arg \in Id
               /\ events[k].op = "done" => events[k].id \in ClientId
               /\ events[k].op = "delete_id" => events[k].arg \in ClientId
    <3>1. k # 1
      BY <2>2
    <3> QED
      BY <1>5, <3>1, IdFacts DEF Inv, Downward, OffersAreNew, EventShape
  <2>3. \A c \in ClientId : local'[c] = local[c]
    BY <1>3, <1>4, IdFacts
  <2> QED
    BY <1>3, <2>1, <2>2, <2>3 DEF Undisturbed
<1>7. AllocatorTypes'
  BY <1>1, <1>2 DEF AllocatorTypes
<1>8. LocalTable'
  BY <1>1, <1>2, <1>3, <1>4, IdFacts DEF LocalTable
<1>10. \A c \in ClientId : local'[c] = local[c]
  BY <1>3, <1>4, IdFacts
<1>9. Agrees
  BY <1>1, <1>2, <1>3, <1>7, <1>8, <1>10, IdFacts
     DEF Agrees, OtherTypes, RemoteTable, Blameless
<1> QED
  BY <1>6, <1>9

\* A callback is done, and leaves a tombstone.
LEMMA DoneReceived ==
  ASSUME Inv, TakesEvent, Done(events[1]), events[1].op = "done"
  PROVE  Undisturbed /\ Agrees
<1> DEFINE c == events[1].id
<1>1. /\ c \in ClientId /\ local[c].obj # None /\ local[c].kind = "callback"
      /\ 1 \in Events /\ ~local[c].destroyed /\ remote[c].obj = None
  <2>1. /\ c \in ClientId /\ local[c].obj # None /\ local[c].kind = "callback"
        /\ 1 \in Events
    BY FirstEvent DEF TakesEvent
  <2>2. DoneOnce
    BY DEF Inv, Downward
  <2> QED
    BY <2>1, <2>2 DEF DoneOnce
<1>2. AllocatorTypes /\ OtherTypes /\ LocalTable /\ RemoteTable /\ Blameless
  BY TypeParts DEF Inv, Tables
<1>3. /\ entries' = [entries EXCEPT ![c] = "awaiting"]
      /\ local' = [local EXCEPT ![c].destroyed = TRUE]
      /\ UNCHANGED <<freeIds, nextIndex, closed>>
      /\ roundtrip' \in {[roundtrip EXCEPT !.state = "waiting_delete"], roundtrip}
  BY <1>1 DEF Done, Retire
<1> HIDE DEF c
<1>4. /\ local' \in [Id -> Entries]
      /\ local'[c].obj = local[c].obj /\ local'[c].kind = local[c].kind
      /\ local'[c].destroyed
      /\ \A x \in Id : x # c => local'[x] = local[x]
  <2>1. c \in Id /\ local \in [Id -> Entries] /\ local[c] \in Entries
    BY <1>1, <1>2, IdFacts DEF OtherTypes
  <2>2. /\ [local[c] EXCEPT !.destroyed = TRUE] \in Entries
        /\ [local[c] EXCEPT !.destroyed = TRUE].obj = local[c].obj
        /\ [local[c] EXCEPT !.destroyed = TRUE].kind = local[c].kind
        /\ [local[c] EXCEPT !.destroyed = TRUE].destroyed
    BY <2>1 DEF Entries
  <2>3. local' = [local EXCEPT ![c] = [local[c] EXCEPT !.destroyed = TRUE]]
    BY <1>3
  <2> QED
    BY <2>1, <2>2, <2>3
<1>5. /\ entries' \in [ClientId -> {"never", "active", "awaiting", "free"}]
      /\ \A x \in ClientId : entries'[x] = IF x = c THEN "awaiting" ELSE entries[x]
      /\ entries[c] = "active"
  BY <1>1, <1>2, <1>3 DEF AllocatorTypes, LocalTable
<1>6. Undisturbed
  <2>1. ASSUME NEW i \in Requests
        PROVE  requests[i].id # c /\ requests[i].arg # c
    <3>1. CASE Creates(requests[i])
      BY <1>1, <3>1, IdFacts DEF c, Inv, Upward, CreationsAreNew, RequestShape
    <3>2. CASE ~Creates(requests[i])
      BY <1>1, <3>2, IdFacts DEF Inv, Upward, UsesAreKnown, RequestShape
    <3> QED
      BY <3>1, <3>2
  <2>2. ASSUME NEW k \in Events, k > 1
        PROVE  /\ events[k].op = "offer" => events[k].arg # c /\ events[k].arg \in Id
               /\ events[k].op = "done" => events[k].id # c /\ events[k].id \in Id
               /\ events[k].op = "delete_id" => events[k].arg \in ClientId
    <3>1. k # 1
      BY <2>2
    <3>2. events[k].op = "done" => events[k].id # c
      BY <1>1, <3>1 DEF c, Inv, Downward, DoneOnce
    <3> QED
      BY <1>1, <3>2, IdFacts DEF Inv, Downward, EventShape
  <2>3. \A x \in ClientId : /\ local'[x].obj = local[x].obj
                            /\ local[x].destroyed => local'[x].destroyed
                            /\ local'[x] = local[x] \/ local'[x].destroyed
    BY <1>4, IdFacts
  <2>4. \A i \in Requests : \A x \in Id :
          x \in {requests[i].id, requests[i].arg} => local'[x] = local[x]
    BY <1>4, <2>1
  <2>5. local'[events[1].id].destroyed
    BY <1>4 DEF c
  <2>6. ASSUME NEW k \in Events, k > 1
        PROVE  /\ events[k].op = "offer" => local'[events[k].arg] = local[events[k].arg]
               /\ events[k].op = "done" => local'[events[k].id] = local[events[k].id]
    BY <1>4, <2>2, <2>6
  <2> QED
    BY <2>2, <2>3, <2>4, <2>5, <2>6 DEF Undisturbed
<1>7. AllocatorTypes'
  BY <1>2, <1>3, <1>5 DEF AllocatorTypes
<1>8. LocalTable'
  <2>1. ASSUME NEW x \in ClientId
        PROVE  /\ entries'[x] \in {"never", "free"} <=> local'[x].obj = None
               /\ entries'[x] = "awaiting" <=> local'[x].destroyed
               /\ local'[x].obj # None => local'[x].kind \in {"device", "callback"}
               /\ x >= nextIndex' <=> entries'[x] = "never"
    BY <1>1, <1>2, <1>3, <1>4, <1>5, IdFacts DEF LocalTable
  <2>2. /\ local'[Display] = local[Display]
        /\ \A s \in ServerId : local'[s] = local[s]
    BY <1>1, <1>4, IdFacts
  <2> QED
    BY <1>2, <2>1, <2>2 DEF LocalTable
<1>9. roundtrip' \in [state : {"idle", "waiting_done", "waiting_delete", "complete"},
                      id : ClientId \union {None}]
  BY <1>2, <1>3 DEF OtherTypes
<1>10. /\ \A x \in ClientId : local'[x].obj = local[x].obj /\ local'[x].kind = local[x].kind
       /\ \A x \in ClientId : remote[x].obj # None => local'[x] = local[x]
       /\ \A s \in ServerId : local'[s] = local[s]
  BY <1>1, <1>4, IdFacts
<1>12. \A x \in ClientId : remote[x].obj # None =>
          /\ local'[x].obj = local[x].obj /\ local'[x].kind = local[x].kind
          /\ local'[x].kind = "callback" => ~local'[x].destroyed
  BY <1>2, <1>10 DEF RemoteTable
<1>13. \A s \in ServerId : ended = "no" /\ local'[s].obj # None =>
         remote[s].obj = local'[s].obj
  BY <1>2, <1>10 DEF RemoteTable
<1>14. closed' \in BOOLEAN /\ (closed' => ended # "no" \/ LateEvents)
  BY <1>2, <1>3 DEF OtherTypes, Blameless
<1>11. Agrees
  BY <1>4, <1>7, <1>8, <1>9, <1>12, <1>13, <1>14 DEF Agrees
<1> QED
  BY <1>6, <1>11

\* The server is done with an id, and it is free.
LEMMA DeletedReceived ==
  ASSUME Inv, TakesEvent, Deleted(events[1]), events[1].op = "delete_id"
  PROVE  Undisturbed /\ Agrees
<1> DEFINE c == events[1].arg
<1>1. /\ c \in ClientId /\ local[c].destroyed /\ remote[c].obj = None
      /\ 1 \in Events
  BY FirstEvent DEF TakesEvent
<1>2. AllocatorTypes /\ OtherTypes /\ LocalTable /\ RemoteTable /\ Blameless
  BY TypeParts DEF Inv, Tables
<1>3. /\ Release(c) /\ entries' = [entries EXCEPT ![c] = "free"]
      /\ local' = [local EXCEPT ![c] = Nothing]
      /\ UNCHANGED <<nextIndex, closed>>
      /\ roundtrip' \in {[state |-> "complete", id |-> None], roundtrip}
  BY <1>1 DEF Deleted, Release
<1> HIDE DEF c
<1>4. /\ local' \in [Id -> Entries]
      /\ local'[c].obj = None /\ ~local'[c].destroyed
      /\ \A x \in Id : x # c => local'[x] = local[x]
  BY <1>1, <1>2, <1>3, IdFacts DEF OtherTypes, Entries, Nothing
<1>5. /\ \A x \in ClientId : entries'[x] = IF x = c THEN "free" ELSE entries[x]
      /\ entries[c] = "awaiting"
  BY <1>1, <1>2, <1>3 DEF AllocatorTypes, LocalTable
<1>6. Undisturbed
  <2>1. ASSUME NEW i \in Requests
        PROVE  requests[i].id # c /\ requests[i].arg # c
    <3>1. CASE Creates(requests[i])
      BY <1>1, <3>1, IdFacts DEF c, Inv, Upward, CreationsAreNew, RequestShape
    <3>2. CASE ~Creates(requests[i])
      BY <1>1, <3>2, IdFacts DEF c, Inv, Upward, UsesAreKnown, RequestShape
    <3> QED
      BY <3>1, <3>2
  <2>2. \A k \in Events : k > 1 => events[k].id # c /\ events[k].arg # c
    BY <1>1 DEF c, Inv, Downward, DeletesAreLast
  <2>3. \A k \in Events : /\ events[k].op = "offer" => events[k].arg \in Id
                          /\ events[k].op = "done" => events[k].id \in Id
                          /\ events[k].op = "delete_id" => events[k].arg \in Id
    BY IdFacts DEF Inv, Downward, EventShape
  <2>4. \A x \in ClientId : local'[x] = local[x] \/ local'[x].obj = None
    BY <1>4, IdFacts
  <2> QED
    BY <1>4, <2>1, <2>2, <2>3, <2>4, IdFacts DEF Undisturbed
<1>7. AllocatorTypes'
  BY <1>1, <1>2, <1>3, <1>5, ReleaseId
<1>8. LocalTable'
  <2>1. ASSUME NEW x \in ClientId
        PROVE  /\ entries'[x] \in {"never", "free"} <=> local'[x].obj = None
               /\ entries'[x] = "awaiting" <=> local'[x].destroyed
               /\ local'[x].obj # None => local'[x].kind \in {"device", "callback"}
               /\ x >= nextIndex' <=> entries'[x] = "never"
    BY <1>1, <1>2, <1>3, <1>4, <1>5, IdFacts DEF LocalTable
  <2>2. /\ local'[Display] = local[Display]
        /\ \A s \in ServerId : local'[s] = local[s]
    BY <1>1, <1>4, IdFacts
  <2> QED
    BY <1>2, <2>1, <2>2 DEF LocalTable
<1>9. roundtrip' \in [state : {"idle", "waiting_done", "waiting_delete", "complete"},
                      id : ClientId \union {None}]
  BY <1>2, <1>3 DEF OtherTypes
<1>10. /\ \A x \in ClientId : remote[x].obj # None => local'[x] = local[x]
       /\ \A s \in ServerId : local'[s] = local[s]
  BY <1>1, <1>4, IdFacts
<1>11. Agrees
  BY SMTT(40), <1>2, <1>3, <1>4, <1>7, <1>8, <1>9, <1>10
     DEF Agrees, OtherTypes, RemoteTable, Blameless
<1> QED
  BY <1>6, <1>11

\* The client never has to refuse what the server sends it but for an event to
\* an object of the server that it has destroyed.
LEMMA ClientReceivesInv ==
  ASSUME Inv, ClientReceives
  PROVE  Inv'
<1> DEFINE m == Head(events)
<1>1. /\ TakesEvent /\ ~closed
      /\ UNCHANGED <<serverVars, requests, born>>
  BY DEF ClientReceives, TakesEvent, serverVars
<1>2. /\ m = events[1] /\ m \in Messages
      /\ m.op \in {"event", "offer", "done", "delete_id", "error"}
      /\ local[m.id].obj = None => m.op = "event" /\ LateEvents
      /\ local[m.id].destroyed => m.op \in {"event", "offer"}
      /\ m.op = "error" => ended # "no"
      /\ m.op = "offer" => /\ m.arg \in ServerId /\ local[m.arg].obj = None
                           /\ m.argObj # None /\ m.argObj \in Nat
                           /\ ended = "no" => remote[m.arg].obj = m.argObj
  BY <1>1, FirstEvent DEF TakesEvent
<1> HIDE DEF m
<1>3. CASE Terminal /\ (local[m.id].obj = None \/ m.op = "error")
  <2>1. UNCHANGED <<idVars, local, roundtrip>> /\ closed' = TRUE
    BY <1>3 DEF Terminal
  <2> QED
    BY <1>1, <1>2, <1>3, <2>1, LeftAlone, ClientInv
<1>4. CASE Ignore /\ (local[m.id].destroyed \/ m.op = "event")
  <2>1. UNCHANGED <<idVars, local, roundtrip>> /\ closed' = closed
    BY <1>4 DEF Ignore, clientVars
  <2>2. closed' \in BOOLEAN
    BY <2>1, TypeParts DEF Inv, OtherTypes
  <2> QED
    BY <1>1, <1>2, <1>4, <2>1, <2>2, LeftAlone, ClientInv
<1>5. CASE m.op = "offer" /\ InsertPeer(m)
  <2>1. /\ local' = [local EXCEPT ![m.arg] = Entry(m.argObj, "offer")]
        /\ UNCHANGED <<idVars, roundtrip, closed>>
    BY <1>2, <1>5 DEF InsertPeer
  <2> QED
    BY <1>1, <1>2, <1>5, <2>1, OfferReceived, ClientInv
<1>6. CASE m.op = "done" /\ Done(m)
  BY <1>1, <1>2, <1>6, DoneReceived, ClientInv
<1>7. CASE m.op = "delete_id" /\ Deleted(m)
  BY <1>1, <1>2, <1>7, DeletedReceived, ClientInv
<1>8. \/ local[m.id].obj = None /\ Terminal
      \/ local[m.id].destroyed /\ Ignore
      \/ m.op = "offer" /\ ~local[m.id].destroyed /\ InsertPeer(m)
      \/ m.op = "done" /\ ~local[m.id].destroyed /\ Done(m)
      \/ m.op = "delete_id" /\ Deleted(m)
      \/ m.op = "error" /\ Terminal
      \/ m.op = "event" /\ Ignore
  BY <1>2, ClientCases DEF m
<1> QED
  BY <1>3, <1>4, <1>5, <1>6, <1>7, <1>8

-----------------------------------------------------------------------------
(* The server. *)

\* A step of the server takes n requests and sends some events.
Moves(n) ==
  /\ Len(requests') = Len(requests) - n
  /\ \A i \in Requests' : requests'[i] = requests[i + n] /\ i + n \in Requests
  /\ \A i \in Requests : i > n => i - n \in Requests' /\ requests'[i - n] = requests[i]
  /\ Events \subseteq Events'
  /\ \A k \in Events : events'[k] = events[k]
  /\ \A k \in Events' \ Events : \A l \in Events : l < k
  /\ local' = local
  /\ ended # "no" => ended' # "no"

\* What it does to the server's table agrees with what else is on its way.
Fits(n) ==
  /\ \A i \in Requests : i > n =>
       /\ Creates(requests[i]) => remote'[requests[i].arg].obj = None
       /\ ~Creates(requests[i]) /\ ended' = "no" =>
            \/ remote'[requests[i].id].obj = requests[i].obj
            \/ \E j \in Requests : j > n /\ j < i /\ requests[j].arg = requests[i].id
  /\ \A c \in ClientId :
       /\ ended' = "no" /\ local[c].obj # None
       /\ local[c].kind = "device" /\ ~local[c].destroyed
       => \/ remote'[c].obj = local[c].obj
          \/ \E j \in Requests : j > n /\ requests[j].arg = c
  /\ \A k \in Events :
       /\ events[k].op = "offer" /\ ended' = "no" =>
            remote'[events[k].arg].obj = events[k].argObj
       /\ events[k].op = "done" => remote'[events[k].id].obj = None
       /\ events[k].op = "delete_id" => remote'[events[k].arg].obj = None

\* So do the events it sends.
IsNews(k, n) ==
  LET m == events'[k] IN
    /\ m.op \in {"event", "offer", "done", "delete_id", "error"}
    /\ m.op \in {"event", "offer", "done"} =>
         m.id \in ClientId \/ (m.op = "event" /\ LateEvents /\ m.id \in ServerId)
    /\ m.op \in {"delete_id", "error"} => m.id = Display /\ m.obj = DisplayObject
    /\ m.op \in {"event", "done", "error"} => m.arg = None
    /\ m.op = "offer" => m.arg \in ServerId
    /\ m.op = "delete_id" => m.arg \in ClientId
    /\ m.op = "error" => ended' # "no"
    /\ m.id \in ClientId => m.obj = local[m.id].obj /\ m.obj # None
    /\ \A i \in Requests : i > n =>
         IF Creates(requests[i]) THEN requests[i].arg \notin {m.id, m.arg}
                                 ELSE requests[i].id # m.arg
    /\ \A l \in Events :
         /\ events[l].op = "offer" => events[l].arg # m.arg
         /\ events[l].op = "done" /\ m.op = "done" => events[l].id # m.id
         /\ events[l].op = "delete_id" => events[l].arg \notin {m.id, m.arg}
    /\ m.op = "offer" => /\ local[m.arg].obj = None /\ m.argObj # None
                         /\ ended' = "no" => remote'[m.arg].obj = m.argObj
                         /\ \A l \in Events' : l # k => events'[l].arg # m.arg
    /\ m.op = "done" => /\ local[m.id].kind = "callback" /\ ~local[m.id].destroyed
                        /\ remote'[m.id].obj = None
                        /\ \A l \in Events' : l # k /\ events'[l].op = "done"
                                                => events'[l].id # m.id
    /\ m.op = "delete_id" =>
         /\ m.argObj = local[m.arg].obj /\ local[m.arg].obj # None
         /\ remote'[m.arg].obj = None
         /\ \A l \in Events' : l > k => events'[l].id # m.arg /\ events'[l].arg # m.arg
         /\ \/ local[m.arg].destroyed
            \/ \E l \in Events' : l < k /\ events'[l].op = "done" /\ events'[l].id = m.arg

News(n) == \A k \in Events' \ Events : IsNews(k, n)

LEMMA ServerStepUp ==
  ASSUME Inv, NEW n \in {0, 1}, Moves(n), Fits(n), News(n)
  PROVE  Upward'
<1>1. /\ RequestShape /\ CreationsAreNew /\ UsesAreKnown
      /\ DevicesAreKnown /\ DestructorsAreLast
  BY DEF Inv, Upward
<1>2. /\ \A i \in Requests' : /\ requests'[i] = requests[i + n]
                              /\ i + n \in Requests /\ i + n > n /\ i \in Nat
      /\ \A i \in Requests : i > n =>
           /\ i - n \in Requests' /\ requests'[i - n] = requests[i]
           /\ i = (i - n) + n
      /\ \A k \in Events' : \/ k \in Events /\ events'[k] = events[k]
                            \/ k \in Events' \ Events
      /\ local' = local /\ (ended # "no" => ended' # "no")
  BY DEF Moves, Requests
<1>3. RequestShape'
  BY <1>1, <1>2 DEF RequestShape
<1>4. CreationsAreNew'
  <2> SUFFICES ASSUME NEW i \in Requests', Creates(requests'[i])
               PROVE  LET m == requests'[i]
                          c == requests'[i].arg
                      IN /\ m.argObj = local[c].obj /\ m.argObj # None
                         /\ local[c].kind = KindOf(m)
                         /\ m.op = "sync" => ~local[c].destroyed
                         /\ remote'[c].obj = None
                         /\ \A j \in Requests' : j # i => requests'[j].arg # c
                         /\ \A j \in Requests' : j < i => requests'[j].id # c
                         /\ \A k \in Events' : events'[k].id # c /\ events'[k].arg # c
    BY <1>2 DEF CreationsAreNew
  <2> DEFINE c == requests[i + n].arg
  <2>1. /\ i + n \in Requests /\ requests'[i] = requests[i + n] /\ i + n > n
        /\ Creates(requests[i + n])
    BY <1>2
  <2>2. \A j \in Requests' : /\ j # i => j + n # i + n
                             /\ j < i => j + n < i + n
    BY <2>1 DEF Requests
  <2>3. \A k \in Events' : events'[k].id # c /\ events'[k].arg # c
    BY <1>1, <1>2, <2>1 DEF CreationsAreNew, News, IsNews
  <2>4. remote'[c].obj = None
    BY <2>1 DEF Fits
  <2>5. /\ \A j \in Requests' : j # i => requests'[j].arg # c
        /\ \A j \in Requests' : j < i => requests'[j].id # c
    BY <1>1, <1>2, <2>1, <2>2 DEF CreationsAreNew
  <2> QED
    BY <1>1, <2>1, <2>3, <2>4, <2>5 DEF CreationsAreNew
<1>5. UsesAreKnown'
  <2> SUFFICES ASSUME NEW i \in Requests', ~Creates(requests'[i])
               PROVE  LET m == requests'[i] IN
                        /\ m.obj # None
                        /\ \A k \in Events' : events'[k].arg # m.id
                        /\ m.id \in ClientId => /\ m.obj = local[m.id].obj
                                                /\ local[m.id].kind = "device"
                        /\ ended' = "no" =>
                             \/ remote'[m.id].obj = m.obj
                             \/ \E j \in Requests' : j < i /\ requests'[j].arg = m.id
    BY <1>2 DEF UsesAreKnown
  <2> DEFINE m == requests[i + n]
  <2>1. /\ i + n \in Requests /\ requests'[i] = m /\ i + n > n
        /\ ~Creates(m)
    BY <1>2
  <2>2. \A k \in Events' : events'[k].arg # m.id
    BY <1>1, <1>2, <2>1 DEF UsesAreKnown, News, IsNews
  <2>3. ended' = "no" => \/ remote'[m.id].obj = m.obj
                         \/ \E j \in Requests' : j < i /\ requests'[j].arg = m.id
    <3> SUFFICES ASSUME ended' = "no", NEW j \in Requests, j > n, j < i + n,
                        requests[j].arg = m.id
                 PROVE  \E l \in Requests' : l < i /\ requests'[l].arg = m.id
      BY <2>1 DEF Fits
    <3>1. j - n \in Requests' /\ requests'[j - n] = requests[j] /\ j - n < i
      BY <1>2, <2>1 DEF Requests
    <3> QED
      BY <3>1
  <2> QED
    BY <1>1, <2>1, <2>2, <2>3 DEF UsesAreKnown
<1>6. DevicesAreKnown'
  <2> SUFFICES ASSUME NEW c \in ClientId, ended' = "no", local[c].obj # None,
                      local[c].kind = "device", ~local[c].destroyed
               PROVE  \/ remote'[c].obj = local[c].obj
                      \/ \E j \in Requests' : requests'[j].arg = c
    BY <1>2 DEF DevicesAreKnown
  <2> QED
    BY <1>2 DEF Fits
<1>7. DestructorsAreLast'
  <2> SUFFICES ASSUME NEW i \in Requests', requests'[i].op = "destroy"
               PROVE  LET id == requests'[i].id IN
                        /\ \A j \in Requests' : j > i => requests'[j].id # id
                        /\ id \in ClientId => local[id].destroyed
                        /\ id \in ServerId => local[id].obj = None
    BY <1>2 DEF DestructorsAreLast
  <2>1. i + n \in Requests /\ requests'[i] = requests[i + n]
    BY <1>2
  <2>2. \A j \in Requests' : j > i => j + n > i + n
    BY <2>1 DEF Requests
  <2> QED
    BY <1>1, <1>2, <2>1, <2>2 DEF DestructorsAreLast
<1> QED
  BY <1>3, <1>4, <1>5, <1>6, <1>7 DEF Upward

LEMMA ServerStepDown ==
  ASSUME Inv, NEW n \in {0, 1}, Moves(n), Fits(n), News(n)
  PROVE  Downward'
<1>1. EventShape /\ EventsAreKnown /\ OffersAreNew /\ DoneOnce /\ DeletesAreLast
  BY DEF Inv, Downward
<1> DEFINE New == Events' \ Events
<1>2. /\ \A k \in Events' : k \in Events \/ k \in New
      /\ \A k \in Events : k \in Events' /\ events'[k] = events[k]
      /\ \A k \in New : \A l \in Events : l < k /\ ~(l > k)
      /\ local' = local /\ (ended # "no" => ended' # "no")
  BY DEF Moves, Events
<1> HIDE DEF New
<1>3. EventShape'
  <2>1. ASSUME NEW k \in Events
        PROVE  LET m == events'[k] IN
          /\ m.op \in {"event", "offer", "done", "delete_id", "error"}
          /\ m.op \in {"event", "offer", "done"} =>
               m.id \in ClientId \/ (m.op = "event" /\ LateEvents /\ m.id \in ServerId)
          /\ m.op \in {"delete_id", "error"} => m.id = Display /\ m.obj = DisplayObject
          /\ m.op \in {"event", "done", "error"} => m.arg = None
          /\ m.op = "offer" => m.arg \in ServerId
          /\ m.op = "delete_id" => m.arg \in ClientId
          /\ m.op = "error" => ended' # "no"
    BY <1>1, <1>2 DEF EventShape
  <2> QED
    BY <1>2, <2>1 DEF EventShape, News, IsNews, New
<1>4. EventsAreKnown'
  <2>1. \A k \in Events : events'[k].id \in ClientId =>
          events'[k].obj = local[events'[k].id].obj /\ events'[k].obj # None
    BY <1>1, <1>2 DEF EventsAreKnown
  <2>2. \A k \in New : events'[k].id \in ClientId =>
          events'[k].obj = local[events'[k].id].obj /\ events'[k].obj # None
    BY DEF News, IsNews, New
  <2> QED
    BY <1>2, <2>1, <2>2 DEF EventsAreKnown
<1>5. OffersAreNew'
  <2> SUFFICES ASSUME NEW k \in Events', events'[k].op = "offer"
               PROVE  LET s == events'[k].arg IN
                        /\ local[s].obj = None
                        /\ events'[k].argObj # None
                        /\ \A l \in Events' : l # k => events'[l].arg # s
                        /\ ended' = "no" => remote'[s].obj = events'[k].argObj
    BY <1>2 DEF OffersAreNew
  <2>1. CASE k \in New
    BY <2>1 DEF News, IsNews, New
  <2>2. CASE k \in Events
    <3>1. /\ events'[k] = events[k] /\ events[k].op = "offer"
          /\ ended' = "no" => remote'[events[k].arg].obj = events[k].argObj
      BY <1>2, <2>2 DEF Fits
    <3>2. \A l \in New : events'[l].arg # events[k].arg
      BY <2>2, <3>1 DEF News, IsNews, New
    <3> QED
      BY <1>1, <1>2, <2>2, <3>1, <3>2 DEF OffersAreNew
  <2> QED
    BY <1>2, <2>1, <2>2
<1>6. DoneOnce'
  <2> SUFFICES ASSUME NEW k \in Events', events'[k].op = "done"
               PROVE  LET c == events'[k].id IN
                        /\ local[c].kind = "callback" /\ ~local[c].destroyed
                        /\ remote'[c].obj = None
                        /\ \A l \in Events' : l # k /\ events'[l].op = "done"
                                                => events'[l].id # c
    BY <1>2 DEF DoneOnce
  <2>1. CASE k \in New
    BY <2>1 DEF News, IsNews, New
  <2>2. CASE k \in Events
    <3>1. /\ events'[k] = events[k] /\ events[k].op = "done"
          /\ remote'[events[k].id].obj = None
      BY <1>2, <2>2 DEF Fits
    <3>2. \A l \in New : events'[l].op = "done" => events'[l].id # events[k].id
      BY <2>2, <3>1 DEF News, IsNews, New
    <3> QED
      BY <1>1, <1>2, <2>2, <3>1, <3>2 DEF DoneOnce
  <2> QED
    BY <1>2, <2>1, <2>2
<1>7. DeletesAreLast'
  <2> SUFFICES ASSUME NEW k \in Events', events'[k].op = "delete_id"
               PROVE  LET c == events'[k].arg IN
                        /\ events'[k].argObj = local[c].obj /\ local[c].obj # None
                        /\ remote'[c].obj = None
                        /\ \A l \in Events' : l > k => events'[l].id # c /\ events'[l].arg # c
                        /\ \/ local[c].destroyed
                           \/ \E l \in Events' : /\ l < k /\ events'[l].op = "done"
                                                 /\ events'[l].id = c
    BY <1>2 DEF DeletesAreLast
  <2>1. CASE k \in New
    BY <2>1 DEF News, IsNews, New
  <2>2. CASE k \in Events
    <3> DEFINE c == events[k].arg
    <3>1. /\ events'[k] = events[k] /\ events[k].op = "delete_id"
          /\ remote'[c].obj = None
      BY <1>2, <2>2 DEF Fits
    <3>2. \A l \in New : events'[l].id # c /\ events'[l].arg # c
      BY <2>2, <3>1 DEF News, IsNews, New
    <3>3. /\ events[k].argObj = local[c].obj /\ local[c].obj # None
          /\ \A l \in Events : l > k => events[l].id # c /\ events[l].arg # c
          /\ \/ local[c].destroyed
             \/ \E l \in Events : l < k /\ events[l].op = "done" /\ events[l].id = c
      BY <1>1, <2>2, <3>1 DEF DeletesAreLast
    <3> HIDE DEF c
    <3>4. \/ local[c].destroyed
          \/ \E l \in Events' : l < k /\ events'[l].op = "done" /\ events'[l].id = c
      BY <1>2, <3>3
    <3>5. \A l \in Events' : l > k => events'[l].id # c /\ events'[l].arg # c
      BY <1>2, <3>2, <3>3
    <3> QED
      BY <3>1, <3>3, <3>4, <3>5 DEF c
  <2> QED
    BY <1>2, <2>1, <2>2
<1> QED
  BY <1>3, <1>4, <1>5, <1>6, <1>7 DEF Downward

LEMMA RequestTaken ==
  ASSUME Inv, requests # <<>>, requests' = Tail(requests)
  PROVE  /\ requests' \in Seq(Messages) /\ Len(requests') = Len(requests) - 1
         /\ \A i \in Requests' : requests'[i] = requests[i + 1] /\ i + 1 \in Requests
         /\ \A i \in Requests : i > 1 => /\ i - 1 \in Requests'
                                         /\ requests'[i - 1] = requests[i]
<1>1. requests \in Seq(Messages)
  BY TypeParts DEF Inv, OtherTypes
<1>2. /\ requests' \in Seq(Messages) /\ Len(requests') = Len(requests) - 1
      /\ \A i \in 1..Len(requests') : /\ requests'[i] = requests[i + 1]
                                      /\ i + 1 \in 1..Len(requests)
      /\ Len(requests) \in Nat
  BY <1>1, Received
<1> QED
  BY <1>2 DEF Requests

LEMMA RequestsStay ==
  ASSUME Inv, requests' = requests
  PROVE  /\ requests' \in Seq(Messages) /\ Len(requests') = Len(requests) - 0
         /\ \A i \in Requests' : requests'[i] = requests[i + 0] /\ i + 0 \in Requests
         /\ \A i \in Requests : i > 0 => /\ i - 0 \in Requests'
                                         /\ requests'[i - 0] = requests[i]
<1>1. requests \in Seq(Messages) /\ Len(requests) \in Nat
  BY TypeParts DEF Inv, OtherTypes
<1>2. Requests' = Requests /\ \A i \in Requests : i + 0 = i /\ i - 0 = i
  BY DEF Requests
<1> QED
  BY <1>1, <1>2

\* n events are sent.
Sends(n) ==
  /\ events' \in Seq(Messages)
  /\ Events \subseteq Events'
  /\ Events' \ Events = (Len(events) + 1)..(Len(events) + n)
  /\ \A k \in Events : events'[k] = events[k]
  /\ \A k \in Events' \ Events : \A l \in Events : l < k
  /\ Len(events) \in Nat

LEMMA EventsStay ==
  ASSUME Inv, events' = events
  PROVE  Sends(0)
<1>1. events \in Seq(Messages) /\ Len(events) \in Nat
  BY TypeParts DEF Inv, OtherTypes
<1>2. Events' = Events
  BY DEF Events
<1>3. (Len(events) + 1)..(Len(events) + 0) = {}
  BY <1>1
<1> QED
  BY <1>1, <1>2, <1>3 DEF Sends

LEMMA EventSent ==
  ASSUME Inv, NEW e \in Messages, events' = Append(events, e)
  PROVE  Sends(1) /\ events'[Len(events) + 1] = e
<1>1. events \in Seq(Messages) /\ Len(events) \in Nat
  BY TypeParts DEF Inv, OtherTypes
<1>2. /\ events' \in Seq(Messages) /\ Len(events') = Len(events) + 1
      /\ \A k \in 1..Len(events) : events'[k] = events[k]
      /\ events'[Len(events) + 1] = e
  BY <1>1, Appended
<1> QED
  BY <1>1, <1>2 DEF Sends, Events

LEMMA EventsSent ==
  ASSUME Inv, NEW e \in Messages, NEW f \in Messages, events' = events \o <<e, f>>
  PROVE  /\ Sends(2) /\ events'[Len(events) + 1] = e /\ events'[Len(events) + 2] = f
<1>1. events \in Seq(Messages) /\ Len(events) \in Nat
  BY TypeParts DEF Inv, OtherTypes
<1>2. /\ events' \in Seq(Messages) /\ Len(events') = Len(events) + 2
      /\ \A k \in 1..Len(events) : events'[k] = events[k]
      /\ events'[Len(events) + 1] = e /\ events'[Len(events) + 2] = f
  BY <1>1, AppendedTwo
<1> QED
  BY <1>1, <1>2 DEF Sends, Events

\* The lookup cache is no more than a cache.
LEMMA FoundIs ==
  ASSUME CacheHolds, NEW id \in Id
  PROVE  Found(id) = remote[id].obj
BY IdFacts DEF Found, CacheHolds

\* The first request, by its kind.
LEMMA FirstRequest ==
  ASSUME Inv, requests # <<>>, ended = "no"
  PROVE  LET m == Head(requests) IN
    /\ m = requests[1] /\ 1 \in Requests /\ m \in Messages
    /\ m.op \in {"bind", "sync", "use", "destroy"}
    /\ m.id \in Id /\ Found(m.id) = m.obj /\ remote[m.id].obj = m.obj /\ m.obj # None
    /\ Creates(m) => /\ m.arg \in ClientId /\ Found(m.arg) = None
                     /\ remote[m.arg].obj = None
                     /\ m.argObj = local[m.arg].obj /\ m.argObj # None
                     /\ local[m.arg].kind = KindOf(m)
                     /\ m.op = "sync" => ~local[m.arg].destroyed
                     /\ m.argObj \in Nat
    /\ ~Creates(m) => m.id \in ClientId \union ServerId /\ m.arg = None
<1>1. requests \in Seq(Messages)
  BY TypeParts DEF Inv, OtherTypes
<1>2. Head(requests) = requests[1] /\ 1 \in Requests /\ requests[1] \in Messages
  BY <1>1, Received DEF Requests
<1>3. CacheHolds /\ RemoteTable
  BY DEF Inv, Tables
<1> DEFINE m == requests[1]
<1>4. IF Creates(m)
      THEN m.id = Display /\ m.obj = DisplayObject /\ m.arg \in ClientId
      ELSE /\ m.op \in {"use", "destroy"} /\ m.id \in ClientId \union ServerId
           /\ m.arg = None
  BY <1>2 DEF Inv, Upward, RequestShape
<1>5. \A j \in Requests : ~(j < 1)
  BY DEF Requests
<1>6. Creates(m) => /\ remote[m.arg].obj = None
                    /\ m.argObj = local[m.arg].obj /\ m.argObj # None
                    /\ local[m.arg].kind = KindOf(m)
                    /\ m.op = "sync" => ~local[m.arg].destroyed
  BY <1>2 DEF Inv, Upward, CreationsAreNew
<1>7. ~Creates(m) => remote[m.id].obj = m.obj /\ m.obj # None
  BY <1>2, <1>5 DEF Inv, Upward, UsesAreKnown
<1>8. Creates(m) => remote[m.id].obj = m.obj /\ m.obj # None
  BY <1>3, <1>4, IdFacts DEF RemoteTable, Entry
<1>9. m.argObj \in Nat /\ (Creates(m) => m.op \in {"bind", "sync"})
  BY <1>2 DEF Messages, Creates
<1>10. m.id \in Id /\ (Creates(m) => m.arg \in Id)
  BY <1>4, IdFacts
<1>11. Found(m.id) = remote[m.id].obj /\ (Creates(m) => Found(m.arg) = remote[m.arg].obj)
  BY <1>3, <1>10, FoundIs
<1> HIDE DEF m
<1> QED
  BY <1>2, <1>4, <1>6, <1>7, <1>8, <1>9, <1>10, <1>11 DEF m

\* What a request may come to.
LEMMA ServerCases ==
  ASSUME ServerReceives, NEW m, m = Head(requests),
         m.op \in {"bind", "sync", "use", "destroy"}, Found(m.id) # None
  PROVE  \/ m.op = "bind" /\ InsertClient(m, "device")
         \/ m.op = "sync" /\ InsertClient(m, "callback")
         \/ m.op = "destroy" /\ Finish(m)
         \/ m.op = "use" /\ Caches(m.id) /\ UNCHANGED <<remote, cursor, ended, events>>
BY DEF ServerReceives

\* A step of the server, all it must keep.
ServerAgrees ==
  /\ remote' \in [Id -> Entries]
  /\ cursor' \in ServerIdStart..(ServerIdStart + MaxServerIds)
  /\ cached' \in [id : Id \union {None}, obj : Nat]
  /\ ended' \in {"no", "no_memory"} /\ (ended # "no" => ended' # "no")
  /\ requests' \in Seq(Messages)
  /\ born' \in Nat
  /\ RemoteTable' /\ CacheHolds' /\ LowestServerId'

LEMMA ServerInv ==
  ASSUME Inv, NEW n \in {0, 1}, NEW k \in {0, 1, 2}, Moves(n), Fits(n), News(n),
         Sends(k), ServerAgrees, UNCHANGED clientVars
  PROVE  Inv'
<1>1. UNCHANGED <<entries, freeIds, nextIndex, local, roundtrip, closed>>
  BY DEF clientVars, idVars
<1>2. AllocatorTypes /\ OtherTypes /\ LocalTable /\ Blameless
  BY TypeParts DEF Inv, Tables
<1>3. AllocatorTypes' /\ LocalTable'
  BY <1>1, <1>2 DEF AllocatorTypes, LocalTable
<1>4. OtherTypes'
  BY <1>1, <1>2 DEF OtherTypes, ServerAgrees, Sends
<1>5. Blameless'
  BY <1>1, <1>2 DEF Blameless, ServerAgrees
<1>6. Upward' /\ Downward'
  BY ServerStepUp, ServerStepDown
<1> QED
  BY <1>3, <1>4, <1>5, <1>6, TypeParts DEF Inv, Tables, ServerAgrees

\* A lookup is cached for an id whose object stays.
LEMMA CachesHold ==
  ASSUME Inv, NEW id \in Id, Caches(id), remote'[id].obj = remote[id].obj
  PROVE  CacheHolds' /\ cached' \in [id : Id \union {None}, obj : Nat]
<1>1. CacheHolds /\ remote \in [Id -> Entries]
  BY TypeParts DEF Inv, Tables, OtherTypes
<1>2. Found(id) = remote[id].obj /\ remote[id].obj \in Nat
  BY <1>1, FoundIs DEF Entries
<1>3. cached' = [id |-> id, obj |-> remote[id].obj]
  BY <1>2 DEF Caches
<1> QED
  BY <1>2, <1>3 DEF CacheHolds

\* The table that does not change still fits, unless the request taken was to
\* change it.
LEMMA SameTable ==
  ASSUME Inv, NEW n \in {0, 1}, remote' = remote, local' = local,
         ended' = "no" => ended = "no",
         n = 1 => ended' # "no" \/ requests[1].arg = None
  PROVE  Fits(n) /\ RemoteTable'
<1>1. \A i \in Requests : i > n =>
        /\ Creates(requests[i]) => remote'[requests[i].arg].obj = None
        /\ ~Creates(requests[i]) /\ ended' = "no" =>
             \/ remote'[requests[i].id].obj = requests[i].obj
             \/ \E j \in Requests : j > n /\ j < i /\ requests[j].arg = requests[i].id
  <2> SUFFICES ASSUME NEW i \in Requests, i > n
               PROVE  /\ Creates(requests[i]) => remote[requests[i].arg].obj = None
                      /\ ~Creates(requests[i]) /\ ended' = "no" =>
                           \/ remote[requests[i].id].obj = requests[i].obj
                           \/ \E j \in Requests : /\ j > n /\ j < i
                                                  /\ requests[j].arg = requests[i].id
    OBVIOUS
  <2>1. Creates(requests[i]) => remote[requests[i].arg].obj = None
    BY DEF Inv, Upward, CreationsAreNew
  <2>2. ASSUME ~Creates(requests[i]), ended' = "no",
               NEW j \in Requests, j < i, requests[j].arg = requests[i].id
        PROVE  j > n
    <3>1. requests[i].id \in Id
      BY <2>2, IdFacts DEF Inv, Upward, RequestShape
    <3> QED
      BY <2>2, <3>1, IdFacts DEF Requests
  <2>3. ~Creates(requests[i]) /\ ended' = "no" =>
          \/ remote[requests[i].id].obj = requests[i].obj
          \/ \E j \in Requests : j < i /\ requests[j].arg = requests[i].id
    BY DEF Inv, Upward, UsesAreKnown
  <2> QED
    BY <2>1, <2>2, <2>3
<1>2. ASSUME NEW c \in ClientId, ended' = "no", local[c].obj # None,
             local[c].kind = "device", ~local[c].destroyed
      PROVE  \/ remote'[c].obj = local[c].obj
             \/ \E j \in Requests : j > n /\ requests[j].arg = c
  <2>1. \/ remote[c].obj = local[c].obj
        \/ \E j \in Requests : requests[j].arg = c
    BY <1>2 DEF Inv, Upward, DevicesAreKnown
  <2>2. ASSUME NEW j \in Requests, requests[j].arg = c
        PROVE  j > n
    BY <1>2, <2>2, IdFacts DEF Requests
  <2> QED
    BY <2>1, <2>2
<1>3. \A k \in Events :
       /\ events[k].op = "offer" /\ ended' = "no" =>
            remote'[events[k].arg].obj = events[k].argObj
       /\ events[k].op = "done" => remote'[events[k].id].obj = None
       /\ events[k].op = "delete_id" => remote'[events[k].arg].obj = None
  BY DEF Inv, Downward, OffersAreNew, DoneOnce, DeletesAreLast
<1>4. Fits(n)
  BY <1>1, <1>2, <1>3 DEF Fits
<1>5. RemoteTable'
  BY DEF Inv, Tables, RemoteTable
<1> QED
  BY <1>4, <1>5

\* The server takes a request.
ServerTakes == /\ ended = "no"
               /\ requests # <<>>
               /\ requests' = Tail(requests)
               /\ UNCHANGED <<clientVars, born>>

LEMMA TakingMoves ==
  ASSUME Inv, ServerTakes, NEW k \in {0, 1, 2}, Sends(k)
  PROVE  Moves(1) /\ requests' \in Seq(Messages) /\ born' \in Nat
<1>1. born \in Nat /\ born' = born /\ local' = local /\ ended = "no"
  BY TypeParts DEF Inv, OtherTypes, ServerTakes, clientVars
<1>2. /\ requests' \in Seq(Messages) /\ Len(requests') = Len(requests) - 1
      /\ \A i \in Requests' : requests'[i] = requests[i + 1] /\ i + 1 \in Requests
      /\ \A i \in Requests : i > 1 => i - 1 \in Requests' /\ requests'[i - 1] = requests[i]
  BY RequestTaken DEF ServerTakes
<1> QED
  BY <1>1, <1>2 DEF Moves, Sends

\* A request that asks for no new object.
LEMMA UseReceived ==
  ASSUME Inv, ServerTakes, requests[1].op = "use", Caches(requests[1].id),
         UNCHANGED <<remote, cursor, ended, events>>
  PROVE  Inv'
<1>1. /\ requests[1].id \in Id /\ requests[1].arg = None
      /\ ended = "no" /\ UNCHANGED clientVars /\ local' = local
  BY FirstRequest DEF ServerTakes, Creates, clientVars
<1>2. Sends(0)
  BY EventsStay
<1>3. Moves(1) /\ requests' \in Seq(Messages) /\ born' \in Nat
  BY <1>2, TakingMoves
<1>4. Fits(1) /\ RemoteTable'
  BY <1>1, SameTable
<1>5. News(1)
  <2>1. Events' \ Events = {}
    BY <1>2 DEF Sends
  <2> QED
    BY <2>1 DEF News, IsNews
<1>6. CacheHolds' /\ cached' \in [id : Id \union {None}, obj : Nat]
  BY <1>1, CachesHold
<1>7. ServerAgrees
  <2>1. OtherTypes /\ LowestServerId
    BY TypeParts DEF Inv, Tables
  <2> QED
    BY <1>1, <1>3, <1>4, <1>6, <2>1 DEF ServerAgrees, OtherTypes, LowestServerId
<1> QED
  BY <1>1, <1>2, <1>3, <1>4, <1>5, <1>7, ServerInv

\* A request that the server has no memory for ends the connection.
LEMMA RequestFails ==
  ASSUME Inv, ServerTakes, End("no_memory")
  PROVE  Inv'
<1> DEFINE e == Message("error", Display, DisplayObject, None, None)
<1>1. /\ ended' = "no_memory" /\ events' = Append(events, e)
      /\ UNCHANGED <<remote, cursor, cached>>
  BY DEF End
<1>2. ended = "no" /\ UNCHANGED clientVars /\ local' = local
  BY DEF ServerTakes, clientVars
<1>3. /\ e \in Messages /\ e.op = "error" /\ e.id = Display /\ e.obj = DisplayObject
      /\ e.arg = None
  BY IdFacts DEF Message, Messages, Opcodes
<1> HIDE DEF e
<1>4. Sends(1) /\ events'[Len(events) + 1] = e
  BY <1>1, <1>3, EventSent
<1>5. Moves(1) /\ requests' \in Seq(Messages) /\ born' \in Nat
  BY <1>4, TakingMoves
<1>6. Fits(1) /\ RemoteTable'
  BY <1>1, <1>2, SameTable
<1>7. News(1)
  <2>1. \A k \in Events' \ Events : events'[k] = e
    BY <1>4 DEF Sends
  <2>2. ASSUME NEW i \in Requests
        PROVE  IF Creates(requests[i]) THEN requests[i].arg \notin {e.id, e.arg}
                                       ELSE requests[i].id # e.arg
    BY <1>3, IdFacts DEF Inv, Upward, RequestShape
  <2>3. ASSUME NEW l \in Events
        PROVE  /\ events[l].op = "offer" => events[l].arg # e.arg
               /\ events[l].op = "delete_id" => events[l].arg \notin {e.id, e.arg}
    BY <1>3, IdFacts DEF Inv, Downward, EventShape
  <2> QED
    BY <1>1, <1>3, <2>1, <2>2, <2>3, IdFacts DEF News, IsNews
<1>8. ServerAgrees
  <2>1. OtherTypes /\ LowestServerId /\ CacheHolds
    BY TypeParts DEF Inv, Tables
  <2> QED
    BY <1>1, <1>2, <1>5, <1>6, <2>1
       DEF ServerAgrees, OtherTypes, LowestServerId, CacheHolds
<1> QED
  BY <1>2, <1>4, <1>5, <1>6, <1>7, <1>8, ServerInv

\* The object a request creates is registered.
LEMMA RequestCreates ==
  ASSUME Inv, ServerTakes, Creates(requests[1]),
         NEW kind, kind = KindOf(requests[1]), NEW a, a = requests[1].arg,
         remote' = [remote EXCEPT ![a] = Entry(requests[1].argObj, kind)],
         Caches(Display), UNCHANGED <<cursor, ended, events>>
  PROVE  Inv'
<1> DEFINE o == requests[1].argObj
<1>1. /\ a \in ClientId /\ a \in Id /\ remote[a].obj = None /\ 1 \in Requests
      /\ o = local[a].obj /\ o # None /\ o \in Nat /\ local[a].kind = kind
      /\ kind \in {"device", "callback"} /\ (kind = "callback" => ~local[a].destroyed)
      /\ ended = "no" /\ UNCHANGED clientVars /\ local' = local
  BY FirstRequest, IdFacts DEF ServerTakes, KindOf, Creates, clientVars
<1>2. OtherTypes /\ RemoteTable /\ LowestServerId
  BY TypeParts DEF Inv, Tables
<1> HIDE DEF o
<1>3. /\ remote' \in [Id -> Entries]
      /\ remote'[a].obj = o /\ remote'[a].kind = kind
      /\ \A x \in Id : x # a => remote'[x] = remote[x]
  BY <1>1, <1>2 DEF o, OtherTypes, Entries, Entry
<1>4. Sends(0) /\ Events' \ Events = {}
  BY EventsStay DEF Sends
<1>5. Moves(1) /\ requests' \in Seq(Messages) /\ born' \in Nat
  BY <1>4, TakingMoves
<1>6. News(1)
  BY <1>4 DEF News, IsNews
<1>7. Fits(1)
  <2>1. ASSUME NEW i \in Requests, i > 1, Creates(requests[i])
        PROVE  remote'[requests[i].arg].obj = None
    <3>1. /\ requests[i].arg \in ClientId /\ requests[i].arg # a
          /\ remote[requests[i].arg].obj = None
      BY <1>1, <2>1 DEF Inv, Upward, CreationsAreNew, RequestShape
    <3> QED
      BY <1>3, <3>1, IdFacts
  <2>2. ASSUME NEW i \in Requests, i > 1, ~Creates(requests[i]), ended' = "no"
        PROVE  \/ remote'[requests[i].id].obj = requests[i].obj
               \/ \E j \in Requests : j > 1 /\ j < i /\ requests[j].arg = requests[i].id
    <3>1. /\ requests[i].id \in Id
          /\ requests[i].id \in ClientId => requests[i].obj = local[requests[i].id].obj
          /\ \/ remote[requests[i].id].obj = requests[i].obj
             \/ \E j \in Requests : j < i /\ requests[j].arg = requests[i].id
      BY <1>1, <2>2, IdFacts DEF Inv, Upward, UsesAreKnown, RequestShape
    <3>2. CASE requests[i].id = a
      BY <1>1, <1>3, <3>1, <3>2
    <3>3. CASE requests[i].id # a
      <4>1. \A j \in Requests : requests[j].arg = requests[i].id => j > 1
        BY <3>3 DEF Requests
      <4> QED
        BY <1>3, <3>1, <3>3, <4>1
    <3> QED
      BY <3>2, <3>3
  <2>3. ASSUME NEW c \in ClientId, ended' = "no", local[c].obj # None,
               local[c].kind = "device", ~local[c].destroyed
        PROVE  \/ remote'[c].obj = local[c].obj
               \/ \E j \in Requests : j > 1 /\ requests[j].arg = c
    <3>1. CASE c = a
      BY <1>1, <1>3, <3>1
    <3>2. CASE c # a
      <4>1. \/ remote[c].obj = local[c].obj
            \/ \E j \in Requests : requests[j].arg = c
        BY <1>1, <2>3 DEF Inv, Upward, DevicesAreKnown
      <4>2. \A j \in Requests : requests[j].arg = c => j > 1
        BY <3>2 DEF Requests
      <4> QED
        BY <1>3, <3>2, <4>1, <4>2, IdFacts
    <3> QED
      BY <3>1, <3>2
  <2>4. \A k \in Events : /\ events[k].id # a /\ events[k].arg # a
                          /\ events[k].op = "offer" => events[k].arg \in Id
                          /\ events[k].op = "done" => events[k].id \in Id
                          /\ events[k].op = "delete_id" => events[k].arg \in Id
    BY <1>1, IdFacts DEF Inv, Upward, CreationsAreNew, Downward, EventShape
  <2>5. \A k \in Events :
         /\ events[k].op = "offer" /\ ended' = "no" =>
              remote'[events[k].arg].obj = events[k].argObj
         /\ events[k].op = "done" => remote'[events[k].id].obj = None
         /\ events[k].op = "delete_id" => remote'[events[k].arg].obj = None
    BY <1>1, <1>3, <2>4 DEF Inv, Downward, OffersAreNew, DoneOnce, DeletesAreLast
  <2> QED
    BY <2>1, <2>2, <2>3, <2>5 DEF Fits
<1>8. RemoteTable'
  <2>1. \A c \in ClientId : remote'[c].obj # None =>
          /\ remote'[c].obj = local[c].obj /\ remote'[c].kind = local[c].kind
          /\ remote'[c].kind = "callback" => ~local[c].destroyed
    BY <1>1, <1>2, <1>3, IdFacts DEF RemoteTable
  <2>2. /\ remote'[Display] = remote[Display]
        /\ \A s \in ServerId : remote'[s] = remote[s]
    BY <1>1, <1>3, IdFacts
  <2>3. \A x \in Id : remote'[x].obj = None <=> remote'[x].kind = "none"
    BY <1>1, <1>2, <1>3 DEF RemoteTable
  <2> QED
    BY <1>1, <1>2, <2>1, <2>2, <2>3 DEF RemoteTable
<1>9. CacheHolds' /\ cached' \in [id : Id \union {None}, obj : Nat]
  BY <1>1, <1>3, CachesHold, IdFacts
<1>10. LowestServerId'
  BY <1>1, <1>2, <1>3, IdFacts DEF LowestServerId
<1>11. ServerAgrees
  BY <1>1, <1>2, <1>3, <1>5, <1>8, <1>9, <1>10 DEF ServerAgrees, OtherTypes
<1> QED
  BY <1>1, <1>4, <1>5, <1>6, <1>7, <1>11, ServerInv

LEMMA LesserOfTwo ==
  ASSUME NEW x \in Nat, NEW y \in Nat
  PROVE  Min({x, y}) = IF x =< y THEN x ELSE y
BY DEF Min

\* An object is removed from the namespace.
LEMMA Removed ==
  ASSUME Inv, NEW a \in ClientId \union ServerId, RemoveObject(a),
         UNCHANGED <<local, ended>>, a \in ServerId => local[a].obj = None
  PROVE  /\ remote' \in [Id -> Entries] /\ remote'[a].obj = None
         /\ \A x \in Id : x # a => remote'[x] = remote[x]
         /\ cached' \in [id : Id \union {None}, obj : Nat]
         /\ cursor' \in ServerIdStart..(ServerIdStart + MaxServerIds)
         /\ RemoteTable' /\ CacheHolds' /\ LowestServerId'
<1>1. /\ remote' = [remote EXCEPT ![a] = Nothing]
      /\ cached' = IF cached.obj = remote[a].obj THEN NotCached ELSE cached
      /\ cursor' = IF a \in ServerId THEN Min({cursor, a}) ELSE cursor
  BY DEF RemoveObject
<1>2. OtherTypes /\ RemoteTable /\ LowestServerId
  BY TypeParts DEF Inv, Tables
<1>3. /\ remote' \in [Id -> Entries] /\ remote'[a].obj = None /\ remote'[a].kind = "none"
      /\ \A x \in Id : x # a => remote'[x] = remote[x]
      /\ a \in Id /\ a # Display
  BY <1>1, <1>2, IdFacts DEF OtherTypes, Entries, Nothing
<1>4. CacheHolds' /\ cached' \in [id : Id \union {None}, obj : Nat]
  <2>1. CacheHolds /\ cached \in [id : Id \union {None}, obj : Nat]
    BY <1>2 DEF OtherTypes, Inv, Tables
  <2>2. CASE cached.obj = remote[a].obj
    BY <1>1, <2>2, IdFacts DEF CacheHolds, NotCached
  <2>3. CASE cached.obj # remote[a].obj
    <3>1. cached' = cached /\ (cached.id # None => cached.id \in Id \ {a})
      BY <1>1, <2>1, <2>3 DEF CacheHolds
    <3> QED
      BY <1>3, <2>1, <3>1 DEF CacheHolds
  <2> QED
    BY <2>2, <2>3
<1>5. /\ cursor' \in ServerIdStart..(ServerIdStart + MaxServerIds)
      /\ \A s \in ServerId : s < cursor' => s < cursor /\ s # a
  <2>1. cursor \in Nat /\ cursor \in ServerIdStart..(ServerIdStart + MaxServerIds)
    BY <1>2, IdAssumption DEF OtherTypes, ServerIdStart
  <2>2. CASE a \in ServerId
    <3>1. a \in Nat /\ cursor' = IF cursor =< a THEN cursor ELSE a
      BY <1>1, <1>3, <2>1, <2>2, LesserOfTwo, IdFacts
    <3> QED
      BY <2>1, <2>2, <3>1, IdAssumption DEF ServerId, ServerIdStart
  <2>3. CASE a \notin ServerId
    BY <1>1, <2>1, <2>3
  <2> QED
    BY <2>2, <2>3
<1>6. LowestServerId'
  BY <1>2, <1>3, <1>5, IdFacts DEF LowestServerId
<1>7. RemoteTable'
  <2>1. \A c \in ClientId : remote'[c].obj # None => remote'[c] = remote[c]
    BY <1>3, IdFacts
  <2>2. \A s \in ServerId : /\ remote'[s].kind \in {"none", "offer"}
                            /\ ended = "no" /\ local[s].obj # None =>
                                 remote'[s].obj = local[s].obj
    BY <1>2, <1>3, IdFacts DEF RemoteTable
  <2>3. \A x \in Id : remote'[x].obj = None <=> remote'[x].kind = "none"
    BY <1>2, <1>3 DEF RemoteTable
  <2>4. /\ remote'[Display] = Entry(DisplayObject, "display")
        /\ UNCHANGED <<local, ended>>
    BY <1>2, <1>3, IdFacts DEF RemoteTable
  <2>5. \A c \in ClientId : remote'[c].obj # None =>
          /\ remote'[c].obj = local'[c].obj /\ remote'[c].kind = local'[c].kind
          /\ remote'[c].kind = "callback" => ~local'[c].destroyed
    BY <1>2, <2>1, <2>4 DEF RemoteTable
  <2>6. \A s \in ServerId :
          /\ remote'[s].kind \in {"none", "offer"}
          /\ ended' = "no" /\ local'[s].obj # None => remote'[s].obj = local'[s].obj
    BY <2>2, <2>4
  <2> QED
    BY <2>3, <2>4, <2>5, <2>6 DEF RemoteTable
<1> QED
  BY <1>3, <1>4, <1>5, <1>6, <1>7

\* A removed object is one no message on its way still needs.
LEMMA RemovalFits ==
  ASSUME Inv, ended = "no", NEW n \in {0, 1}, NEW a \in ClientId \union ServerId,
         UNCHANGED <<local, ended>>,
         remote'[a].obj = None, \A x \in Id : x # a => remote'[x] = remote[x],
         \A i \in Requests : i > n /\ ~Creates(requests[i]) => requests[i].id # a,
         \A c \in ClientId : local[c].kind = "device" /\ ~local[c].destroyed => c # a,
         \A k \in Events : events[k].op = "offer" => events[k].arg # a,
         n = 1 => requests[1].arg = None
  PROVE  Fits(n)
<1>1. ASSUME NEW i \in Requests, i > n, Creates(requests[i])
      PROVE  remote'[requests[i].arg].obj = None
  <2>1. requests[i].arg \in Id /\ remote[requests[i].arg].obj = None
    BY <1>1, IdFacts DEF Inv, Upward, CreationsAreNew, RequestShape
  <2> QED
    BY <2>1
<1>2. \A j \in Requests : requests[j].arg \in Id => j > n
  BY IdFacts DEF Requests
<1>3. ASSUME NEW i \in Requests, i > n, ~Creates(requests[i])
      PROVE  \/ remote'[requests[i].id].obj = requests[i].obj
             \/ \E j \in Requests : j > n /\ j < i /\ requests[j].arg = requests[i].id
  <2>1. /\ requests[i].id \in Id
        /\ \/ remote[requests[i].id].obj = requests[i].obj
           \/ \E j \in Requests : j < i /\ requests[j].arg = requests[i].id
    BY <1>3, IdFacts DEF Inv, Upward, UsesAreKnown, RequestShape
  <2> QED
    BY <1>2, <1>3, <2>1
<1>4. ASSUME NEW c \in ClientId, local[c].obj # None,
             local[c].kind = "device", ~local[c].destroyed
      PROVE  \/ remote'[c].obj = local[c].obj
             \/ \E j \in Requests : j > n /\ requests[j].arg = c
  <2>1. /\ c # a /\ c \in Id
        /\ \/ remote[c].obj = local[c].obj
           \/ \E j \in Requests : requests[j].arg = c
    BY <1>4, IdFacts DEF Inv, Upward, DevicesAreKnown
  <2> QED
    BY <1>2, <2>1
<1>5. \A k \in Events :
       /\ events[k].op = "offer" /\ ended' = "no" =>
            remote'[events[k].arg].obj = events[k].argObj
       /\ events[k].op = "done" => remote'[events[k].id].obj = None
       /\ events[k].op = "delete_id" => remote'[events[k].arg].obj = None
  <2> SUFFICES ASSUME NEW k \in Events
               PROVE  /\ events[k].op = "offer" /\ ended' = "no" =>
                           remote'[events[k].arg].obj = events[k].argObj
                      /\ events[k].op = "done" => remote'[events[k].id].obj = None
                      /\ events[k].op = "delete_id" => remote'[events[k].arg].obj = None
    OBVIOUS
  <2>1. /\ events[k].op = "offer" => events[k].arg \in Id
        /\ events[k].op = "done" => events[k].id \in Id
        /\ events[k].op = "delete_id" => events[k].arg \in Id
    BY IdFacts DEF Inv, Downward, EventShape
  <2>2. /\ events[k].op = "offer" => remote[events[k].arg].obj = events[k].argObj
        /\ events[k].op = "done" => remote[events[k].id].obj = None
        /\ events[k].op = "delete_id" => remote[events[k].arg].obj = None
    BY DEF Inv, Downward, OffersAreNew, DoneOnce, DeletesAreLast
  <2> QED
    BY <2>1, <2>2
<1> QED
  BY <1>1, <1>3, <1>4, <1>5 DEF Fits

\* A destructor: the client hears that its id is free.
LEMMA DestructorReceived ==
  ASSUME Inv, ServerTakes, requests[1].op = "destroy", Finish(requests[1])
  PROVE  Inv'
<1> DEFINE a == requests[1].id
           e == DeleteId(a, remote[a].obj)
<1>1. /\ a \in ClientId \union ServerId /\ a \in Id /\ 1 \in Requests
      /\ remote[a].obj # None /\ requests[1].arg = None
      /\ ended = "no" /\ UNCHANGED clientVars /\ local' = local
  BY FirstRequest DEF ServerTakes, Creates, clientVars
<1>2. OtherTypes /\ RemoteTable
  BY TypeParts DEF Inv, Tables
<1>3. /\ a \in ClientId => local[a].destroyed
      /\ a \in ServerId => local[a].obj = None
      /\ \A i \in Requests : i > 1 => requests[i].id # a
  BY <1>1 DEF Inv, Upward, DestructorsAreLast
<1>4. /\ events' = IF a \in ClientId THEN Append(events, e) ELSE events
      /\ RemoveObject(a) /\ ended' = ended
  BY DEF Finish
<1> HIDE DEF a
<1>5. /\ remote' \in [Id -> Entries] /\ remote'[a].obj = None
      /\ \A x \in Id : x # a => remote'[x] = remote[x]
      /\ cached' \in [id : Id \union {None}, obj : Nat]
      /\ cursor' \in ServerIdStart..(ServerIdStart + MaxServerIds)
      /\ RemoteTable' /\ CacheHolds' /\ LowestServerId'
  BY <1>1, <1>3, <1>4, Removed
<1>6. \A k \in Events : events[k].arg # a
  BY <1>1 DEF a, Inv, Upward, UsesAreKnown, Creates
<1>7. Fits(1)
  BY <1>1, <1>3, <1>4, <1>5, <1>6, RemovalFits
<1>8. /\ e.op = "delete_id" /\ e.id = Display /\ e.obj = DisplayObject
      /\ e.arg = a /\ e.argObj = remote[a].obj
      /\ e \in Messages
  BY <1>1, <1>2, IdFacts DEF DeleteId, Message, Messages, Opcodes, OtherTypes, Entries
<1> HIDE DEF e
<1>9. CASE a \in ClientId
  <2>1. Sends(1) /\ events'[Len(events) + 1] = e
    BY <1>4, <1>8, <1>9, EventSent
  <2>2. Moves(1) /\ requests' \in Seq(Messages) /\ born' \in Nat
    BY <2>1, TakingMoves
  <2>3. News(1)
    <3>1. /\ \A k \in Events' \ Events : events'[k] = e
          /\ \A k \in Events' \ Events : \A l \in Events' : ~(l > k)
      <4>1. \A k \in Events' : k \in Events \/ k = Len(events) + 1
        BY <2>1 DEF Sends
      <4>2. \A k \in Events' \ Events : k = Len(events) + 1
        BY <2>1 DEF Sends
      <4>3. \A l \in Events : ~(l > Len(events) + 1)
        BY <2>1 DEF Sends, Events
      <4>4. ~(Len(events) + 1 > Len(events) + 1)
        BY <2>1 DEF Sends
      <4> QED
        BY <2>1, <4>1, <4>2, <4>3, <4>4
    <3>2. ASSUME NEW i \in Requests, i > 1
          PROVE  IF Creates(requests[i]) THEN requests[i].arg \notin {Display, a}
                                         ELSE requests[i].id # a
      <4>1. CASE Creates(requests[i])
        BY <1>1, <3>2, <4>1, IdFacts DEF a, Inv, Upward, CreationsAreNew, RequestShape
      <4>2. CASE ~Creates(requests[i])
        BY <1>3, <3>2, <4>2
      <4> QED
        BY <4>1, <4>2
    <3>3. ASSUME NEW l \in Events
          PROVE  /\ events[l].op = "offer" => events[l].arg # a
                 /\ events[l].op = "delete_id" => events[l].arg \notin {Display, a}
      BY <1>6, IdFacts DEF Inv, Downward, EventShape
    <3>4. remote[a].obj = local[a].obj
      BY <1>1, <1>2, <1>9 DEF RemoteTable
    <3> QED
      BY <1>1, <1>3, <1>5, <1>8, <1>9, <3>1, <3>2, <3>3, <3>4, IdFacts DEF News, IsNews
  <2>4. ServerAgrees
    BY <1>1, <1>4, <1>5, <2>2 DEF ServerAgrees
  <2> QED
    BY <1>1, <1>7, <2>1, <2>2, <2>3, <2>4, ServerInv
<1>10. CASE a \notin ClientId
  <2>1. Sends(0) /\ Events' \ Events = {}
    BY <1>4, <1>10, EventsStay DEF Sends
  <2>2. Moves(1) /\ requests' \in Seq(Messages) /\ born' \in Nat
    BY <2>1, TakingMoves
  <2>3. News(1)
    BY <2>1 DEF News, IsNews
  <2>4. ServerAgrees
    BY <1>1, <1>4, <1>5, <2>2 DEF ServerAgrees
  <2> QED
    BY <1>1, <1>7, <2>1, <2>2, <2>3, <2>4, ServerInv
<1> QED
  BY <1>9, <1>10

\* No request is refused but for want of memory.
LEMMA ServerReceivesInv ==
  ASSUME Inv, ServerReceives
  PROVE  Inv'
<1> DEFINE m == Head(requests)
<1>1. ServerTakes /\ requests # <<>> /\ ended = "no"
  BY DEF ServerReceives, ServerTakes
<1>2. /\ m = requests[1] /\ m.op \in {"bind", "sync", "use", "destroy"}
      /\ Found(m.id) # None /\ (Creates(m) => Found(m.arg) = None)
  BY <1>1, FirstRequest
<1>3. \/ m.op = "bind" /\ InsertClient(m, "device")
      \/ m.op = "sync" /\ InsertClient(m, "callback")
      \/ m.op = "destroy" /\ Finish(m)
      \/ m.op = "use" /\ Caches(m.id) /\ UNCHANGED <<remote, cursor, ended, events>>
  <2> HIDE DEF m
  <2> QED
    BY <1>2, ServerCases DEF m
<1> HIDE DEF m
<1>4. ASSUME Creates(m), InsertClient(m, KindOf(m))
      PROVE  Inv'
  <2>1. CASE End("no_memory")
    BY <1>1, <2>1, RequestFails
  <2>2. CASE /\ remote' = [remote EXCEPT ![m.arg] = Entry(m.argObj, KindOf(m))]
             /\ Caches(Display) /\ UNCHANGED <<cursor, ended, events>>
    BY <1>1, <1>2, <1>4, <2>2, RequestCreates
  <2> QED
    BY <1>2, <1>4, <2>1, <2>2 DEF InsertClient
<1>5. CASE m.op = "bind" /\ InsertClient(m, "device")
  BY <1>4, <1>5 DEF Creates, KindOf
<1>6. CASE m.op = "sync" /\ InsertClient(m, "callback")
  BY <1>4, <1>6 DEF Creates, KindOf
<1>7. CASE m.op = "destroy" /\ Finish(m)
  BY <1>1, <1>2, <1>7, DestructorReceived
<1>8. CASE m.op = "use" /\ Caches(m.id) /\ UNCHANGED <<remote, cursor, ended, events>>
  BY <1>1, <1>2, <1>8, UseReceived
<1> QED
  BY <1>3, <1>5, <1>6, <1>7, <1>8

\* The server sends without having received anything.
ServerSpeaks == ended = "no" /\ UNCHANGED <<clientVars, ended, requests>>

LEMMA SpeakingMoves ==
  ASSUME Inv, ServerSpeaks, NEW k \in {0, 1, 2}, Sends(k)
  PROVE  Moves(0) /\ requests' \in Seq(Messages)
<1>1. local' = local /\ ended = "no"
  BY DEF ServerSpeaks, clientVars
<1>2. /\ requests' \in Seq(Messages) /\ Len(requests') = Len(requests) - 0
      /\ \A i \in Requests' : requests'[i] = requests[i + 0] /\ i + 0 \in Requests
      /\ \A i \in Requests : i > 0 => i - 0 \in Requests' /\ requests'[i - 0] = requests[i]
  BY RequestsStay DEF ServerSpeaks
<1> QED
  BY <1>1, <1>2 DEF Moves, Sends

\* An event that is not a destructor.
LEMMA SendEventInv ==
  ASSUME Inv, NEW id \in Id, SendEvent(id)
  PROVE  Inv'
<1> DEFINE e == Message("event", id, remote[id].obj, None, None)
<1>1. /\ ServerSpeaks /\ ended = "no" /\ ended' = ended /\ UNCHANGED clientVars
      /\ local' = local /\ remote' = remote /\ cursor' = cursor /\ born' = born
      /\ remote[id].kind \in {"device", "offer"}
      /\ remote[id].kind = "offer" => LateEvents
      /\ events' = Append(events, e) /\ Caches(id)
  BY DEF SendEvent, ServerSpeaks, MayEmit, clientVars
<1>2. OtherTypes /\ RemoteTable /\ LowestServerId
  BY TypeParts DEF Inv, Tables
<1>3. /\ id \in ClientId \/ (LateEvents /\ id \in ServerId)
      /\ remote[id].obj # None /\ remote[id].obj \in Nat
      /\ id \in ClientId => remote[id].obj = local[id].obj
  <2>1. remote[id].obj # None /\ remote[id].obj \in Nat
    BY <1>1, <1>2 DEF RemoteTable, OtherTypes, Entries
  <2>2. id # Display
    BY <1>1, <1>2 DEF RemoteTable, Entry
  <2>3. id \in ClientId => remote[id].obj = local[id].obj
    BY <1>2, <2>1 DEF RemoteTable
  <2>4. id \in ServerId => LateEvents
    BY <1>1, <1>2 DEF RemoteTable
  <2> QED
    BY <2>1, <2>2, <2>3, <2>4, IdFacts
<1>4. /\ e.op = "event" /\ e.id = id /\ e.obj = remote[id].obj /\ e.arg = None
      /\ e \in Messages
  BY <1>3, IdFacts DEF Message, Messages, Opcodes
<1> HIDE DEF e
<1>5. Sends(1) /\ events'[Len(events) + 1] = e
  BY <1>1, <1>4, EventSent
<1>6. Moves(0) /\ requests' \in Seq(Messages)
  BY <1>1, <1>5, SpeakingMoves
<1>7. Fits(0) /\ RemoteTable'
  BY <1>1, SameTable
<1>8. News(0)
  <2>1. \A k \in Events' \ Events : events'[k] = e
    BY <1>5 DEF Sends
  <2>2. ASSUME NEW i \in Requests
        PROVE  IF Creates(requests[i]) THEN requests[i].arg \notin {id, None}
                                       ELSE requests[i].id # None
    BY <1>3, IdFacts DEF Inv, Upward, RequestShape, CreationsAreNew
  <2>3. ASSUME NEW l \in Events
        PROVE  /\ events[l].op = "offer" => events[l].arg # None
               /\ events[l].op = "delete_id" => events[l].arg \notin {id, None}
    BY <1>3, IdFacts DEF Inv, Downward, EventShape, DeletesAreLast
  <2> QED
    BY <1>3, <1>4, <2>1, <2>2, <2>3 DEF News, IsNews
<1>9. CacheHolds' /\ cached' \in [id : Id \union {None}, obj : Nat]
  BY <1>1, CachesHold
<1>10. ServerAgrees
  BY <1>1, <1>2, <1>6, <1>7, <1>9 DEF ServerAgrees, OtherTypes, LowestServerId
<1> QED
  BY <1>1, <1>5, <1>6, <1>7, <1>8, <1>10, ServerInv

\* A sync is answered: done, and its id is free.
LEMMA CompleteSyncInv ==
  ASSUME Inv, NEW id \in Id, CompleteSync(id)
  PROVE  Inv'
<1> DEFINE d == Message("done", id, remote[id].obj, None, None)
           e == DeleteId(id, remote[id].obj)
           n == Len(events)
<1>1. /\ ServerSpeaks /\ ended = "no" /\ ended' = ended /\ UNCHANGED clientVars
      /\ local' = local /\ born' = born
      /\ remote[id].kind = "callback"
      /\ events' = events \o <<d, e>> /\ RemoveObject(id)
  BY DEF CompleteSync, ServerSpeaks, clientVars
<1>2. OtherTypes /\ RemoteTable
  BY TypeParts DEF Inv, Tables
<1>3. /\ id \in ClientId /\ remote[id].obj # None /\ remote[id].obj \in Nat
      /\ remote[id].obj = local[id].obj /\ local[id].kind = "callback"
      /\ ~local[id].destroyed
  <2>1. remote[id].obj # None /\ remote[id].obj \in Nat
    BY <1>1, <1>2 DEF RemoteTable, OtherTypes, Entries
  <2>2. id # Display
    BY <1>1, <1>2 DEF RemoteTable, Entry
  <2>3. id \notin ServerId
    BY <1>1, <1>2 DEF RemoteTable
  <2>4. id \in ClientId
    BY <2>2, <2>3, IdFacts
  <2> QED
    BY <1>1, <1>2, <2>1, <2>4 DEF RemoteTable
<1>4. /\ d.op = "done" /\ d.id = id /\ d.obj = local[id].obj /\ d.arg = None
      /\ e.op = "delete_id" /\ e.id = Display /\ e.obj = DisplayObject
      /\ e.arg = id /\ e.argObj = local[id].obj
      /\ d \in Messages /\ e \in Messages
  BY <1>3, IdFacts DEF DeleteId, Message, Messages, Opcodes
<1> HIDE DEF d, e
<1>5. Sends(2) /\ events'[n + 1] = d /\ events'[n + 2] = e
  BY <1>1, <1>4, EventsSent
<1>6. Moves(0) /\ requests' \in Seq(Messages)
  BY <1>1, <1>5, SpeakingMoves
<1>7. /\ remote' \in [Id -> Entries] /\ remote'[id].obj = None
      /\ \A x \in Id : x # id => remote'[x] = remote[x]
      /\ cached' \in [id : Id \union {None}, obj : Nat]
      /\ cursor' \in ServerIdStart..(ServerIdStart + MaxServerIds)
      /\ RemoteTable' /\ CacheHolds' /\ LowestServerId'
  BY <1>1, <1>3, Removed, IdFacts
<1>8. \A i \in Requests : ~Creates(requests[i]) => requests[i].id # id
  BY <1>3 DEF Inv, Upward, UsesAreKnown
<1>9. \A i \in Requests : Creates(requests[i]) => requests[i].arg \notin {id, Display, None}
  BY <1>3, IdFacts DEF Inv, Upward, CreationsAreNew, RequestShape
<1>10. \A l \in Events :
         /\ events[l].op = "offer" => events[l].arg \notin {id, None}
         /\ events[l].op = "done" => events[l].id # id
         /\ events[l].op = "delete_id" => events[l].arg \notin {id, None, Display}
  BY <1>3, IdFacts DEF Inv, Downward, EventShape, DeletesAreLast, DoneOnce
<1>11. Fits(0)
  BY <1>1, <1>3, <1>7, <1>8, <1>10, RemovalFits
<1>12. News(0)
  <2>1. /\ n \in Nat
        /\ \A k \in Events' : \/ k \in Events /\ events'[k] = events[k]
                              \/ k = n + 1 \/ k = n + 2
        /\ \A k \in Events' \ Events : k = n + 1 \/ k = n + 2
        /\ n + 1 \in Events' /\ ~(n + 1 > n + 2) /\ ~(n + 2 > n + 2) /\ n + 1 < n + 2
        /\ n + 1 # n + 2
        /\ \A l \in Events : ~(l > n + 2)
    BY <1>5 DEF Sends, Events
  <2> HIDE DEF n
  <2>2. \A i \in Requests : requests[i].id # None
    BY IdFacts DEF Inv, Upward, RequestShape
  <2> SUFFICES ASSUME NEW k \in Events' \ Events
               PROVE  IsNews(k, 0)
    BY DEF News
  <2>3. CASE k = n + 1
    <3>1. events'[k] = d
      BY <1>5, <2>3 DEF n
    <3>2. \A l \in Events' : l # k /\ events'[l].op = "done" => events'[l].id # id
      BY <1>4, <1>5, <1>10, <2>1, <2>3 DEF n
    <3> QED
      BY <1>3, <1>4, <1>7, <1>8, <1>9, <1>10, <2>2, <3>1, <3>2 DEF IsNews
  <2>4. CASE k = n + 2
    <3>1. events'[k] = e
      BY <1>5, <2>4 DEF n
    <3>2. \A l \in Events' : ~(l > k)
      BY <2>1, <2>4
    <3>3. \E l \in Events' : l < k /\ events'[l].op = "done" /\ events'[l].id = id
      BY <1>4, <1>5, <2>1, <2>4 DEF n
    <3> QED
      BY <1>3, <1>4, <1>7, <1>8, <1>9, <1>10, <2>2, <3>1, <3>2, <3>3, IdFacts
         DEF IsNews
  <2> QED
    BY <2>1, <2>3, <2>4
<1>13. ServerAgrees
  BY <1>1, <1>2, <1>6, <1>7 DEF ServerAgrees, OtherTypes
<1> QED
  BY <1>1, <1>5, <1>6, <1>11, <1>12, <1>13, ServerInv

-----------------------------------------------------------------------------
(* The ids of the server. *)

\* A well-founded relation has minimal elements; stated without a parameter that
\* is an operator.
LEMMA MinimumIn ==
  \A R, S, T : IsWellFoundedOn(R, S) /\ T \subseteq S /\ T # {}
                 => \E x \in T : \A y \in T : <<y, x>> \notin R
<1> TAKE R, S, T
<1> QED
  BY WFMin

\* So has the order of the numbers.
LEMMA LessThanOnNat ==
  \E R : IsWellFoundedOn(R, Nat) /\ \A x, y \in Nat : <<x, y>> \in R <=> x < y
<1> DEFINE R == OpToRel(<, Nat)
<1>1. IsWellFoundedOn(R, Nat)
  BY NatLessThanWellFounded
<1>2. \A x, y \in Nat : <<x, y>> \in R <=> x < y
  BY DEF OpToRel
<1> QED
  BY <1>1, <1>2, Zenon

\* Hence a set of numbers has a least one.
LEMMA LeastNat ==
  ASSUME NEW T, T \subseteq Nat, T # {}
  PROVE  \E x \in T : \A y \in T : x <= y
<1>1. PICK R : IsWellFoundedOn(R, Nat) /\ \A x, y \in Nat : <<x, y>> \in R <=> x < y
  BY LessThanOnNat, Zenon
<1>2. PICK x \in T : \A y \in T : <<y, x>> \notin R
  <2>1. IsWellFoundedOn(R, Nat) /\ T \subseteq Nat /\ T # {}
    BY <1>1
  <2> QED
    BY <2>1, MinimumIn, ZenonT(60)
<1>3. ASSUME NEW y \in T
      PROVE  x <= y
  <2>1. ~(y < x)
    BY <1>1, <1>2, Zenon
  <2> QED
    BY <2>1
<1> QED
  BY <1>3

\* The next id of the server is the lowest one it has no object for.
LEMMA NextIs ==
  ASSUME TypeOK, LowestServerId, HasServerId
  PROVE  /\ NextServerId \in ServerId /\ remote[NextServerId].obj = None
         /\ \A s \in ServerId : s < NextServerId => remote[s].obj # None
<1> DEFINE T == {s \in ServerId : s >= cursor /\ remote[s].obj = None}
           a == NextServerId
<1>1. T # {} /\ T \subseteq Nat
  BY IdFacts DEF HasServerId
<1>2. a \in T /\ \A s \in T : a =< s
  <2>1. \E x \in T : \A y \in T : x =< y
    <3> HIDE DEF T
    <3> QED
      BY <1>1, LeastNat
  <2>2. a = CHOOSE x \in T : \A y \in T : x =< y
    BY DEF NextServerId, Min
  <2> HIDE DEF T, a
  <2> QED
    BY <2>1, <2>2
<1> HIDE DEF a
<1>3. ASSUME NEW s \in ServerId, s < a
      PROVE  remote[s].obj # None
  <2>1. /\ s \in Nat /\ a \in Nat /\ cursor \in Nat
    BY <1>1, <1>2, IdFacts, IdAssumption DEF TypeOK, ServerIdStart
  <2>2. CASE s < cursor
    BY <2>2 DEF LowestServerId
  <2>3. CASE s >= cursor
    BY <1>2, <1>3, <2>1, <2>3
  <2> QED
    BY <2>1, <2>2, <2>3
<1> QED
  BY <1>2, <1>3 DEF a

\* An event that creates an object.
LEMMA SendOfferInv ==
  ASSUME Inv, NEW id \in Id, SendOffer(id)
  PROVE  Inv'
<1> DEFINE a == NextServerId
           o == born + 1
           e == Message("offer", id, remote[id].obj, a, o)
<1>1. /\ ServerSpeaks /\ ended = "no" /\ ended' = ended /\ UNCHANGED clientVars
      /\ local' = local /\ born' = o
      /\ remote[id].kind = "device" /\ HasServerId
      /\ remote' = [remote EXCEPT ![a] = Entry(o, "offer")]
      /\ cursor' = a + 1
      /\ events' = Append(events, e) /\ Caches(id)
  BY DEF SendOffer, ServerSpeaks, MayEmit, clientVars
<1>2. OtherTypes /\ RemoteTable /\ LowestServerId /\ TypeOK
  BY TypeParts DEF Inv, Tables
<1>3. /\ a \in ServerId /\ remote[a].obj = None /\ a \in Id /\ a # Display /\ a # None
      /\ \A s \in ServerId : s < a => remote[s].obj # None
  BY <1>1, <1>2, NextIs, IdFacts
<1>4. o \in Nat /\ o # None
  BY <1>2 DEF OtherTypes, None
<1> HIDE DEF a, o
<1>5. /\ id \in ClientId /\ remote[id].obj # None /\ remote[id].obj = local[id].obj
      /\ remote[id].obj \in Nat
  <2>1. remote[id].obj # None /\ remote[id].obj \in Nat
    BY <1>1, <1>2 DEF RemoteTable, OtherTypes, Entries
  <2>2. id # Display /\ id \notin ServerId
    BY <1>1, <1>2 DEF RemoteTable, Entry
  <2> QED
    BY <1>2, <2>1, <2>2, IdFacts DEF RemoteTable
<1>6. /\ e.op = "offer" /\ e.id = id /\ e.obj = remote[id].obj
      /\ e.arg = a /\ e.argObj = o /\ e \in Messages
  BY <1>3, <1>4, <1>5 DEF Message, Messages, Opcodes
<1> HIDE DEF e
<1>7. Sends(1) /\ events'[Len(events) + 1] = e
  BY <1>1, <1>6, EventSent
<1>8. Moves(0) /\ requests' \in Seq(Messages)
  BY <1>1, <1>7, SpeakingMoves
<1>9. /\ remote' \in [Id -> Entries]
      /\ remote'[a].obj = o /\ remote'[a].kind = "offer"
      /\ \A x \in Id : x # a => remote'[x] = remote[x]
  BY <1>1, <1>2, <1>3, <1>4 DEF OtherTypes, Entries, Entry
<1>10. local[a].obj = None
  BY <1>1, <1>2, <1>3 DEF RemoteTable
<1>11. \A i \in Requests :
         /\ Creates(requests[i]) => /\ requests[i].arg \in ClientId
                                    /\ requests[i].arg \notin {id, a}
                                    /\ remote[requests[i].arg].obj = None
         /\ ~Creates(requests[i]) => requests[i].id # a /\ requests[i].id \in Id
         /\ requests[i].arg # a
  <2> SUFFICES ASSUME NEW i \in Requests
               PROVE  /\ Creates(requests[i]) => /\ requests[i].arg \in ClientId
                                                 /\ requests[i].arg \notin {id, a}
                                                 /\ remote[requests[i].arg].obj = None
                      /\ ~Creates(requests[i]) => /\ requests[i].id # a
                                                  /\ requests[i].id \in Id
                      /\ requests[i].arg # a
    OBVIOUS
  <2>1. \A j \in Requests : requests[j].arg # a
    BY <1>3, IdFacts DEF Inv, Upward, RequestShape
  <2>2. CASE Creates(requests[i])
    BY <1>3, <1>5, <2>1, <2>2, IdFacts DEF Inv, Upward, CreationsAreNew, RequestShape
  <2>3. CASE ~Creates(requests[i])
    <3>1. /\ requests[i].obj # None /\ requests[i].id \in Id
          /\ \/ remote[requests[i].id].obj = requests[i].obj
             \/ \E j \in Requests : j < i /\ requests[j].arg = requests[i].id
      BY <1>1, <2>3, IdFacts DEF Inv, Upward, UsesAreKnown, RequestShape
    <3> QED
      BY <1>3, <2>1, <2>3, <3>1
  <2> QED
    BY <2>2, <2>3
<1>12. \A l \in Events :
         /\ events[l].arg # a
         /\ events[l].op = "offer" => events[l].arg \in Id
         /\ events[l].op = "done" => events[l].id \in ClientId
         /\ events[l].op = "delete_id" => events[l].arg \in ClientId \ {id}
  <2> SUFFICES ASSUME NEW l \in Events
               PROVE  /\ events[l].arg # a
                      /\ events[l].op = "offer" => events[l].arg \in Id
                      /\ events[l].op = "done" => events[l].id \in ClientId
                      /\ events[l].op = "delete_id" => events[l].arg \in ClientId \ {id}
    OBVIOUS
  <2>1. /\ events[l].op = "offer" => events[l].arg # a /\ events[l].arg \in Id
        /\ events[l].op = "delete_id" => events[l].arg \in ClientId /\ events[l].arg # id
    BY ZenonT(60), <1>1, <1>3, <1>5, IdFacts DEF Inv, Downward, OffersAreNew, EventShape, DeletesAreLast
  <2>2. /\ events[l].op \notin {"offer", "delete_id"} => events[l].arg = None
        /\ events[l].op = "done" => events[l].id \in ClientId
    BY DEF Inv, Downward, EventShape
  <2> QED
    BY <1>3, <2>1, <2>2, IdFacts
<1>13. Fits(0)
  <2>1. \A i \in Requests :
          /\ Creates(requests[i]) => remote'[requests[i].arg].obj = None
          /\ ~Creates(requests[i]) =>
               \/ remote'[requests[i].id].obj = requests[i].obj
               \/ \E j \in Requests : j > 0 /\ j < i /\ requests[j].arg = requests[i].id
    <3>1. \A j \in Requests : j > 0
      BY DEF Requests
    <3> QED
      BY <1>1, <1>9, <1>11, <3>1, IdFacts DEF Inv, Upward, UsesAreKnown
  <2>2. ASSUME NEW c \in ClientId, local[c].obj # None,
               local[c].kind = "device", ~local[c].destroyed
        PROVE  \/ remote'[c].obj = local[c].obj
               \/ \E j \in Requests : j > 0 /\ requests[j].arg = c
    <3>1. remote'[c] = remote[c] /\ \A j \in Requests : j > 0
      <4>1. c # a /\ c \in Id
        BY <1>3, IdFacts
      <4>2. \A j \in Requests : j > 0
        BY DEF Requests
      <4> QED
        BY <1>9, <4>1, <4>2
    <3>2. \/ remote[c].obj = local[c].obj
          \/ \E j \in Requests : requests[j].arg = c
      BY <1>1, <2>2 DEF Inv, Upward, DevicesAreKnown
    <3> QED
      BY <3>1, <3>2
  <2>3. \A k \in Events :
         /\ events[k].op = "offer" => remote'[events[k].arg].obj = events[k].argObj
         /\ events[k].op = "done" => remote'[events[k].id].obj = None
         /\ events[k].op = "delete_id" => remote'[events[k].arg].obj = None
    BY <1>1, <1>3, <1>9, <1>12, IdFacts
       DEF Inv, Downward, OffersAreNew, DoneOnce, DeletesAreLast
  <2> QED
    BY <2>1, <2>2, <2>3 DEF Fits
<1>14. News(0)
  <2>1. /\ \A k \in Events' : \/ k \in Events /\ events'[k] = events[k]
                              \/ k = Len(events) + 1
        /\ \A k \in Events' \ Events : k = Len(events) + 1 /\ events'[k] = e
    BY <1>7 DEF Sends
  <2>2. \A k \in Events' \ Events : \A l \in Events' : l # k => events'[l].arg # a
    BY <1>12, <2>1
  <2> QED
    BY <1>3, <1>4, <1>5, <1>6, <1>9, <1>10, <1>11, <1>12, <2>1, <2>2, IdFacts
       DEF News, IsNews
<1>15. RemoteTable'
  <2>1. \A x \in Id : remote'[x].obj = None <=> remote'[x].kind = "none"
    BY <1>2, <1>4, <1>9 DEF RemoteTable
  <2>2. /\ remote'[Display] = remote[Display]
        /\ \A c \in ClientId : remote'[c] = remote[c]
    BY <1>3, <1>9, IdFacts
  <2>3. ASSUME NEW s \in ServerId
        PROVE  /\ remote'[s].kind \in {"none", "offer"}
               /\ local[s].obj # None => remote'[s].obj = local[s].obj
    BY <1>1, <1>2, <1>3, <1>9, <1>10, IdFacts DEF RemoteTable
  <2> QED
    BY <1>1, <1>2, <2>1, <2>2, <2>3 DEF RemoteTable
<1>16. CacheHolds' /\ cached' \in [id : Id \union {None}, obj : Nat]
  <2>1. remote'[id].obj = remote[id].obj
    BY <1>3, <1>5, <1>9, IdFacts
  <2> QED
    BY <1>1, <2>1, CachesHold
<1>17. LowestServerId' /\ cursor' \in ServerIdStart..(ServerIdStart + MaxServerIds)
  <2>1. ASSUME NEW s \in ServerId, s < a + 1
        PROVE  s < a \/ s = a
    <3>1. s \in Nat /\ a \in Nat
      BY <1>3, IdFacts
    <3> QED
      BY <2>1, <3>1
  <2>2. \A s \in ServerId : s < a + 1 => remote'[s].obj # None
    BY <1>3, <1>4, <1>9, <2>1, IdFacts
  <2>3. a + 1 \in ServerIdStart..(ServerIdStart + MaxServerIds)
    BY <1>3, IdAssumption DEF ServerId, ServerIdStart
  <2> QED
    BY <1>1, <2>2, <2>3 DEF LowestServerId
<1>18. ServerAgrees
  BY <1>1, <1>2, <1>4, <1>8, <1>9, <1>15, <1>16, <1>17 DEF ServerAgrees, OtherTypes
<1> QED
  BY <1>1, <1>7, <1>8, <1>13, <1>14, <1>18, ServerInv

\* An offer taken back leaves the cursor at its id.
LEMMA OfferCancelledInv ==
  ASSUME Inv, NEW id \in Id, OfferCancelled(id)
  PROVE  Inv'
<1>1. /\ ServerSpeaks /\ ended = "no" /\ ended' = ended /\ UNCHANGED clientVars
      /\ local' = local /\ remote' = remote /\ born' = born /\ events' = events
      /\ HasServerId /\ cursor' = NextServerId /\ Caches(id)
  BY DEF OfferCancelled, ServerSpeaks, clientVars
<1>2. OtherTypes /\ LowestServerId /\ TypeOK
  BY TypeParts DEF Inv, Tables
<1>3. /\ NextServerId \in ServerId
      /\ \A s \in ServerId : s < NextServerId => remote[s].obj # None
  BY <1>1, <1>2, NextIs
<1>4. Sends(0) /\ Events' \ Events = {}
  BY <1>1, EventsStay DEF Sends
<1>5. Moves(0) /\ requests' \in Seq(Messages)
  BY <1>1, <1>4, SpeakingMoves
<1>6. Fits(0) /\ RemoteTable'
  BY <1>1, SameTable
<1>7. News(0)
  BY <1>4 DEF News
<1>8. CacheHolds' /\ cached' \in [id : Id \union {None}, obj : Nat]
  BY <1>1, CachesHold
<1>9. LowestServerId'
  BY <1>1, <1>3 DEF LowestServerId
<1>10. cursor' \in ServerIdStart..(ServerIdStart + MaxServerIds)
  BY <1>1, <1>3, IdAssumption DEF ServerId, ServerIdStart
<1>11. ServerAgrees
  BY <1>1, <1>2, <1>5, <1>6, <1>8, <1>9, <1>10 DEF ServerAgrees, OtherTypes
<1> QED
  BY <1>1, <1>4, <1>5, <1>6, <1>7, <1>11, ServerInv

-----------------------------------------------------------------------------
(* Every step. *)

LEMMA InitInv ==
  ASSUME Init
  PROVE  Inv
<1>1. /\ entries = [id \in ClientId |-> "never"] /\ freeIds = <<>> /\ nextIndex = 2
      /\ local = Start /\ remote = Start /\ roundtrip = NoRoundtrip /\ closed = FALSE
      /\ cursor = ServerIdStart /\ cached = NotCached /\ ended = "no"
      /\ requests = <<>> /\ events = <<>> /\ born = DisplayObject
  BY DEF Init
<1>2. /\ Start \in [Id -> Entries]
      /\ Start[Display] = Entry(DisplayObject, "display")
      /\ \A id \in Id : id # Display => Start[id] = Nothing
  BY IdFacts DEF Start, Entries, Entry, Nothing
<1>3. Requests = {} /\ Events = {}
  BY <1>1 DEF Requests, Events
<1>4. AllocatorTypes
  <2>1. IsInjective(<<>>) /\ ToSet(<<>>) = {} /\ <<>> \in Seq(ClientId)
    BY DEF IsInjective, ToSet
  <2>2. {id \in ClientId : entries[id] = "free"} = {}
    BY <1>1
  <2>3. nextIndex \in 2..(MaxClientIds + 2)
    BY <1>1, IdAssumption
  <2>4. entries \in [ClientId -> {"never", "active", "awaiting", "free"}]
    BY <1>1
  <2> QED
    BY <1>1, <2>1, <2>2, <2>3, <2>4 DEF AllocatorTypes
<1>5. OtherTypes
  <2>1. <<>> \in Seq(Messages)
    OBVIOUS
  <2>2. cursor \in ServerIdStart..(ServerIdStart + MaxServerIds)
    BY <1>1, IdAssumption DEF ServerIdStart
  <2>3. /\ NoRoundtrip \in [state : {"idle", "waiting_done", "waiting_delete", "complete"},
                            id : ClientId \union {None}]
        /\ NotCached \in [id : Id \union {None}, obj : Nat]
    BY IdFacts DEF NoRoundtrip, NotCached
  <2> QED
    BY <1>1, <1>2, <2>1, <2>2, <2>3, IdFacts DEF OtherTypes
<1>6. LocalTable
  <2>1. \A c \in ClientId : c >= nextIndex
    BY <1>1, IdFacts DEF ClientId
  <2> QED
    BY <1>1, <1>2, <2>1, IdFacts DEF LocalTable, Nothing
<1>7. RemoteTable
  BY <1>1, <1>2, IdFacts DEF RemoteTable, Nothing, Entry
<1>8. CacheHolds /\ Blameless
  BY <1>1 DEF CacheHolds, Blameless, NotCached
<1>9. LowestServerId
  <2>1. \A s \in ServerId : ~(s < cursor)
    BY <1>1, IdAssumption DEF ServerId, ServerIdStart
  <2> QED
    BY <2>1 DEF LowestServerId
<1>10. Upward
  <2>1. DevicesAreKnown
    BY <1>1, <1>2, IdFacts DEF DevicesAreKnown, Nothing
  <2> QED
    BY <1>3, <2>1 DEF Upward, RequestShape, CreationsAreNew, UsesAreKnown,
                      DestructorsAreLast
<1>11. Downward
  BY <1>3 DEF Downward, EventShape, EventsAreKnown, OffersAreNew, DoneOnce,
              DeletesAreLast
<1> QED
  BY <1>4, <1>5, <1>6, <1>7, <1>8, <1>9, <1>10, <1>11, TypeParts DEF Inv, Tables

LEMMA NextInv ==
  ASSUME Inv, [Next]_vars
  PROVE  Inv'
<1>1. AllocatorTypes /\ OtherTypes /\ LocalTable /\ LowestServerId
  BY TypeParts DEF Inv, Tables
<1> DEFINE Roundtrips == [state : {"idle", "waiting_done", "waiting_delete", "complete"},
                          id : ClientId \union {None}]
<1>2. roundtrip \in Roundtrips
  BY <1>1 DEF OtherTypes
<1> HIDE DEF Roundtrips
<1>3. CASE Bind
  <2>1. Create("bind", "device") /\ roundtrip' \in Roundtrips
    BY <1>2, <1>3 DEF Bind
  <2> QED
    BY <2>1, CreateInv DEF Roundtrips
<1>4. CASE Sync
  <2>1. Create("sync", "callback") /\ roundtrip' \in Roundtrips
    BY <1>2, <1>4 DEF Sync
  <2> QED
    BY <2>1, CreateInv DEF Roundtrips
<1>5. CASE Begin
  <2>1. /\ Create("sync", "callback")
        /\ roundtrip' = [state |-> "waiting_done", id |-> Acquired]
    BY <1>5 DEF Begin
  <2>2. Acquired \in ClientId
    BY <1>1, <2>1, AcquiredIsFree DEF Create, Acquire
  <2>3. roundtrip' \in Roundtrips
    BY <2>1, <2>2 DEF Roundtrips
  <2> QED
    BY <2>1, <2>3, CreateInv DEF Roundtrips
<1>6. CASE CreateCancelled
  BY <1>6, CreateCancelledInv
<1>7. ASSUME NEW id \in Id, Use(id)
      PROVE  Inv'
  <2>1. /\ Request("use", id) /\ UNCHANGED <<idVars, local>>
        /\ UNCHANGED <<roundtrip, closed, serverVars, events, born>>
    BY <1>7 DEF Use, clientVars
  <2> QED
    BY <2>1, UseInv
<1>8. ASSUME NEW id \in Id, Destroy(id)
      PROVE  Inv'
  <2>1. /\ Request("destroy", id) /\ Retire(id)
        /\ UNCHANGED <<roundtrip, closed, serverVars, events, born>>
    BY <1>8 DEF Destroy
  <2> QED
    BY <2>1, UseInv
<1>9. CASE ClientReceives
  BY <1>9, ClientReceivesInv
<1>10. CASE ServerReceives
  BY <1>10, ServerReceivesInv
<1>11. ASSUME NEW id \in Id,
              SendEvent(id) \/ SendOffer(id) \/ OfferCancelled(id) \/ CompleteSync(id)
       PROVE  Inv'
  BY <1>11, SendEventInv, SendOfferInv, OfferCancelledInv, CompleteSyncInv
<1>12. CASE UNCHANGED vars
  <2>1. UNCHANGED <<entries, freeIds, nextIndex, local, roundtrip, closed, remote,
                    cursor, cached, ended, requests, events, born>>
    BY <1>12 DEF vars, clientVars, idVars, serverVars
  <2>2. AllocatorTypes' /\ OtherTypes' /\ LocalTable' /\ LowestServerId'
    BY <1>1, <2>1 DEF AllocatorTypes, OtherTypes, LocalTable, LowestServerId
  <2> QED
    BY <2>1, <2>2, TablesStay, TypeParts DEF Inv, Tables
<1> QED
  BY <1>3, <1>4, <1>5, <1>6, <1>7, <1>8, <1>9, <1>10, <1>11, <1>12 DEF Next

\* The inductive invariant, for every number of ids, every quota, and whether
\* or not the server sends events to the objects it created.
THEOREM ObjectsInvariant == Spec => []Inv
<1>1. Init => Inv
  BY InitInv
<1>2. Inv /\ [Next]_vars => Inv'
  BY NextInv
<1> QED
  BY <1>1, <1>2, PTL DEF Spec

\* The client's free list holds exactly its free ids, each once, and every other
\* variable has its type.
THEOREM ObjectsTypes == Spec => []TypeOK
<1>1. Inv => TypeOK
  BY DEF Inv
<1> QED
  BY <1>1, ObjectsInvariant, PTL

\* A request is dispatched to the object its sender meant, and what it creates
\* takes an id that the server does not have in use (Core.dispatchRequests).
THEOREM RequestsAreMet == Spec => []RequestsMeetTheirObject
<1>1. Inv => RequestsMeetTheirObject
  <2> SUFFICES ASSUME Inv, ended = "no", requests # <<>>
               PROVE  LET m == Head(requests) IN
                        /\ Found(m.id) = m.obj
                        /\ m.arg # None => Found(m.arg) = None
    BY DEF RequestsMeetTheirObject
  <2> QED
    BY FirstRequest
<1> QED
  BY <1>1, ObjectsInvariant, PTL

\* An id the client may use again is forgotten by the server and mentioned by
\* nothing on its way (ClientIds.acquire, delete_id).
THEOREM FreeIdsForgotten == Spec => []FreeIdsAreForgotten
<1>1. Inv => FreeIdsAreForgotten
  <2> SUFFICES ASSUME Inv, NEW c \in ClientId, entries[c] \in {"never", "free"}
               PROVE  /\ local[c].obj = None
                      /\ remote[c].obj = None
                      /\ \A m \in ToSet(requests) \union ToSet(events) :
                            c \notin {m.id, m.arg}
    BY DEF FreeIdsAreForgotten
  <2>1. local[c].obj = None
    BY DEF Inv, Tables, LocalTable
  <2>2. /\ remote[c].obj = None
        /\ \A i \in Requests : requests[i].id # c /\ requests[i].arg # c
        /\ \A k \in Events : events[k].id # c /\ events[k].arg # c
    BY <2>1, UnknownIsForgotten
  <2>3. DOMAIN requests = Requests /\ DOMAIN events = Events
    BY TypeParts DEF Inv, OtherTypes, Requests, Events
  <2> QED
    BY <2>1, <2>2, <2>3 DEF ToSet
<1> QED
  BY <1>1, ObjectsInvariant, PTL

\* The server takes the lowest free high id (SharedNamespace.insertServer).
THEOREM LowestIds == Spec => []LowestServerId
<1>1. Inv => LowestServerId
  BY DEF Inv, Tables
<1> QED
  BY <1>1, ObjectsInvariant, PTL

\* Where the server sends nothing to the objects it created, every event meets
\* the object its sender meant, or the tombstone of that object.
THEOREM EventsAreMet ==
  ASSUME ~LateEvents
  PROVE  Spec => []EventsMeetTheirObject
<1>1. Inv => EventsMeetTheirObject
  <2> SUFFICES ASSUME Inv, events # <<>>
               PROVE  LET m == events[1] IN
                        /\ local[m.id].obj = m.obj
                        /\ m.op = "delete_id" => /\ local[m.arg].obj = m.argObj
                                                 /\ local[m.arg].destroyed
                        /\ m.op = "offer" => local[m.arg].obj = None
    BY FirstEvent DEF EventsMeetTheirObject
  <2>1. 1 \in Events
    BY FirstEvent
  <2>2. \A l \in Events : ~(l < 1)
    BY DEF Events
  <2>3. events[1].id \in ClientId => local[events[1].id].obj = events[1].obj
    BY <2>1 DEF Inv, Downward, EventsAreKnown
  <2>4. events[1].id \notin ClientId => local[events[1].id].obj = events[1].obj
    BY <2>1, IdFacts DEF Inv, Downward, EventShape, Tables, LocalTable, Entry
  <2>5. events[1].op = "delete_id" => /\ local[events[1].arg].obj = events[1].argObj
                                      /\ local[events[1].arg].destroyed
    BY <2>1, <2>2 DEF Inv, Downward, DeletesAreLast
  <2>6. events[1].op = "offer" => local[events[1].arg].obj = None
    BY <2>1 DEF Inv, Downward, OffersAreNew
  <2> QED
    BY <2>3, <2>4, <2>5, <2>6
<1> QED
  BY <1>1, ObjectsInvariant, PTL

\* And neither side ends the connection over an object that the other used as
\* it may (Core.terminalRequest, Core.terminalEvent).
THEOREM NobodyBlamed ==
  ASSUME ~LateEvents
  PROVE  Spec => []NobodyIsBlamed
<1>1. Inv => NobodyIsBlamed
  BY DEF Inv, Tables, Blameless, NobodyIsBlamed
<1> QED
  BY <1>1, ObjectsInvariant, PTL

=============================================================================
