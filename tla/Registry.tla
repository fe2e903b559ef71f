------------------------------- MODULE Registry -------------------------------
(***************************************************************************)
(* The registry side of `server.Runtime`: the globals, the offers of each  *)
(* registry (`RegistrySubscriptions`), the sync barriers (`SyncBarriers`), *)
(* and the publication pass that `Driver.prepare` runs over them.          *)
(*                                                                         *)
(* What a client is owed is not queued: each registry keeps one offer per  *)
(* global, whose state says what is owed and whose epoch when it became    *)
(* owed, and a barrier keeps the epoch at which its sync arrived.  The     *)
(* pass visits the peer slots in turn, one event at a time, and skips a    *)
(* peer whose transmit budget is used up.                                  *)
(*                                                                         *)
(* That this comes to queues in the order of events is module              *)
(* Announcements, which this one implements.                               *)
(***************************************************************************)
EXTENDS Naturals, Sequences, FiniteSets

CONSTANTS SlotCount,       \* peer slots, visited in order
          Registry,        \* registry handles; a freed one may be used again
          NameCount,       \* bound: names given out are 1..NameCount
          TableCapacity,   \* max_globals, the live globals at one time
          Visible,         \* the global filter: pairs <<peer, global>>
          Room,            \* events that fit into the transmit budget
          MaxSyncs,        \* bound: syncs of a peer that wait for an answer
          MaxEpoch,        \* bound: epochs of a behaviour
          Reader           \* the peers assumed to keep reading

Peer == 0..(SlotCount - 1)
Global == 1..NameCount
NoPeer == SlotCount

ASSUME SlotAssumption == SlotCount \in Nat \ {0}
ASSUME BoundAssumption ==
  /\ NameCount \in Nat /\ TableCapacity \in Nat
  /\ MaxSyncs \in Nat /\ MaxEpoch \in Nat
ASSUME RoomAssumption == Room \in Nat \ {0}
ASSUME VisibleAssumption == Visible \subseteq Peer \X Global
ASSUME ReaderAssumption == Reader \subseteq Peer

VARIABLES
  phase,       \* phase[p]: absent, open, or closing (no longer dispatched)
  room,        \* room[p]: events its transmit queue still accepts
  owner,       \* owner[r]: the peer a registry is subscribed for, or NoPeer
  object,      \* object[r]: its wl_registry object is still alive
  offers,      \* offers[r][g]: the offer of global g to registry r
  syncs,       \* syncs[p]: its barriers, oldest first
  globals,     \* the global table
  removed,     \* removed_globals, unpublished and still offered somewhere
  nextName,    \* the next name to give out
  epoch,       \* the epoch of the latest subscription or change
  publishing,  \* a publication pass is running
  cursor,      \* publish_cursor, the slot visited next
  left,        \* slots the running call of publishNext has still to visit
  blocked      \* peers that reported backpressure in this pass

tableVars == <<owner, object, offers, globals, removed, nextName, epoch>>
passVars == <<publishing, cursor, left, blocked>>
vars == <<phase, room, syncs, tableVars, passVars>>

\* An offer that does not exist, and one whose epoch is no longer read.
NoOffer == [state |-> "none", epoch |-> 0]
Settled(st) == [state |-> st, epoch |-> 0]

OfferState == {"none", "add_pending", "offered", "remove_pending",
               "removal_sent"}

IsPending(offer) == offer.state \in {"add_pending", "remove_pending"}

\* RegistrySubscriptions.hasOffers.
HasOffers(offs, g) == \E r \in Registry : offs[r][g].state # "none"

\* Runtime.collectRemovedGlobals: withdrawn globals leave the list.
Collected(list, offs) == {g \in list : HasOffers(offs, g)}

Init == /\ phase = [p \in Peer |-> "absent"]
        /\ room = [p \in Peer |-> Room]
        /\ owner = [r \in Registry |-> NoPeer]
        /\ object = [r \in Registry |-> FALSE]
        /\ offers = [r \in Registry |-> [g \in Global |-> NoOffer]]
        /\ syncs = [p \in Peer |-> <<>>]
        /\ globals = {}
        /\ removed = {}
        /\ nextName = 1
        /\ epoch = 0
        /\ publishing = FALSE
        /\ cursor = 0
        /\ left = 0
        /\ blocked = {}

(***************************************************************************)
(* Peers come and go.  A pass is one call on the server's only thread, so  *)
(* nothing else happens during it.                                         *)
(***************************************************************************)

Calls == ~publishing /\ UNCHANGED passVars

Connect(p) ==
  /\ Calls /\ phase[p] = "absent"
  /\ phase' = [phase EXCEPT ![p] = "open"]
  /\ room' = [room EXCEPT ![p] = Room]
  /\ UNCHANGED <<syncs, tableVars>>

\* The actor leaves open, for whatever reason.
Close(p) ==
  /\ Calls /\ phase[p] = "open"
  /\ phase' = [phase EXCEPT ![p] = "closing"]
  /\ UNCHANGED <<room, syncs, tableVars>>

\* A send completes and makes room for another event.
Drain(p) ==
  /\ Calls /\ phase[p] = "open" /\ room[p] < Room
  /\ room' = [room EXCEPT ![p] = @ + 1]
  /\ UNCHANGED <<phase, syncs, tableVars>>

\* Registries R are unlinked and their offers forgotten.
Unlink(R) ==
  /\ owner' = [r \in Registry |-> IF r \in R THEN NoPeer ELSE owner[r]]
  /\ object' = [r \in Registry |-> object[r] /\ r \notin R]
  /\ offers' = [r \in Registry |->
       IF r \in R THEN [g \in Global |-> NoOffer] ELSE offers[r]]

\* Variant: the withdrawn globals are not collected.
UnlinkAndKeep(R) == Unlink(R) /\ UNCHANGED removed

\* Every caller that unlinks collects afterwards.
UnlinkAndCollect(R) == Unlink(R) /\ removed' = Collected(removed, offers')

\* Runtime.destroyClient.
DestroyClient(p) ==
  /\ Calls /\ phase[p] = "closing"
  /\ phase' = [phase EXCEPT ![p] = "absent"]
  /\ syncs' = [syncs EXCEPT ![p] = <<>>]
  /\ UnlinkAndCollect({r \in Registry : owner[r] = p})
  /\ UNCHANGED <<room, globals, nextName, epoch>>

(***************************************************************************)
(* Requests of a client.                                                   *)
(***************************************************************************)

Requests(p) == Calls /\ phase[p] = "open"

\* Runtime.subscribe: the initial listing is every visible live global.
Subscribe(p, r) ==
  /\ Requests(p) /\ owner[r] = NoPeer /\ epoch < MaxEpoch
  /\ owner' = [owner EXCEPT ![r] = p]
  /\ object' = [object EXCEPT ![r] = TRUE]
  /\ epoch' = epoch + 1
  /\ offers' = [offers EXCEPT ![r] = [g \in Global |->
       IF g \in globals /\ <<p, g>> \in Visible
       THEN [state |-> "add_pending", epoch |-> epoch'] ELSE NoOffer]]
  /\ UNCHANGED <<phase, room, syncs, globals, removed, nextName>>

\* Runtime.completeSync: the barrier keeps the epoch of its arrival.
CompleteSync(p) ==
  /\ Requests(p) /\ Len(syncs[p]) < MaxSyncs
  /\ syncs' = [syncs EXCEPT ![p] = Append(@, [limit |-> epoch, alive |-> TRUE])]
  /\ UNCHANGED <<phase, room, tableVars>>

\* Runtime.removeRegistry, which needs room for delete_id.
RemoveRegistry(p, r) ==
  /\ Requests(p) /\ owner[r] = p /\ object[r] /\ room[p] > 0
  /\ room' = [room EXCEPT ![p] = @ - 1]
  /\ UnlinkAndCollect({r})
  /\ UNCHANGED <<phase, syncs, globals, nextName, epoch>>

\* Runtime.ackGlobalRemove.
AckGlobalRemove(p, r, g) ==
  /\ Requests(p) /\ owner[r] = p /\ object[r]
  /\ offers[r][g].state = "removal_sent"
  /\ offers' = [offers EXCEPT ![r][g] = NoOffer]
  /\ removed' = Collected(removed, offers')
  /\ UNCHANGED <<phase, room, syncs, owner, object, globals, nextName, epoch>>

\* The registry object is deleted behind the runtime's back.
LoseRegistry(r) ==
  /\ Calls /\ object[r]
  /\ object' = [object EXCEPT ![r] = FALSE]
  /\ UNCHANGED <<phase, room, syncs, owner, offers, globals, removed, nextName,
                 epoch>>

\* So is the callback of a sync.
LoseCallback(p) ==
  /\ Calls
  /\ \E i \in DOMAIN syncs[p] :
       syncs[p][i].alive /\ syncs' = [syncs EXCEPT ![p][i].alive = FALSE]
  /\ UNCHANGED <<phase, room, tableVars>>

\* Variant: a global leaves the table for its clients, too.
BindableWhileLive(p, g) == g \in globals /\ <<p, g>> \in Visible

\* Runtime.bindGlobal accepts the name: the global is live and visible, or
\* was removed and this peer still holds an offer of it.
Bindable(p, g) ==
  IF g \in globals THEN <<p, g>> \in Visible
  ELSE g \in removed
       /\ \E r \in Registry : owner[r] = p /\ offers[r][g].state # "none"

(***************************************************************************)
(* Changes of the global table.                                            *)
(***************************************************************************)

\* Runtime.addGlobal owes the global to every registry that may see it.
AddGlobal ==
  /\ Calls /\ epoch < MaxEpoch
  /\ nextName \in Global /\ Cardinality(globals) < TableCapacity
  /\ nextName' = nextName + 1
  /\ globals' = globals \cup {nextName}
  /\ epoch' = epoch + 1
  /\ offers' = [r \in Registry |->
       IF <<owner[r], nextName>> \in Visible
       THEN [offers[r] EXCEPT ![nextName] = [state |-> "add_pending",
                                             epoch |-> epoch']]
       ELSE offers[r]]
  /\ UNCHANGED <<phase, room, syncs, owner, object, removed>>

\* The table is full; the name is spent.
AddGlobalFails ==
  /\ Calls
  /\ nextName \in Global /\ Cardinality(globals) >= TableCapacity
  /\ nextName' = nextName + 1
  /\ UNCHANGED <<phase, room, syncs, owner, object, offers, globals, removed,
                 epoch>>

\* RegistrySubscriptions.retract: an announcement that was not sent is
\* forgotten, one that was is owed its removal.
Retracted(offer, at) ==
  CASE offer.state = "add_pending" -> NoOffer
    [] offer.state = "offered" -> [state |-> "remove_pending", epoch |-> at]
    [] OTHER -> offer

\* Runtime.removeGlobal.
RemoveGlobal(g) ==
  /\ Calls /\ g \in globals /\ epoch < MaxEpoch
  /\ globals' = globals \ {g}
  /\ epoch' = epoch + 1
  /\ offers' = [r \in Registry |->
       [offers[r] EXCEPT ![g] = Retracted(@, epoch')]]
  /\ removed' = Collected(removed \cup {g}, offers')
  /\ UNCHANGED <<phase, room, syncs, owner, object, nextName>>

(***************************************************************************)
(* The publication pass: Driver.prepare calls Runtime.publishNext until it *)
(* reports complete.                                                       *)
(***************************************************************************)

BeginPass ==
  /\ ~publishing
  /\ publishing' = TRUE /\ left' = SlotCount
  /\ UNCHANGED <<phase, room, syncs, tableVars, cursor, blocked>>

\* The call visits slot p.
Visits(p) ==
  /\ publishing /\ left > 0
  /\ p = IF cursor >= SlotCount THEN 0 ELSE cursor

\* The call returns having served p; the loop makes the next one.
Returns(p) == /\ cursor' = p + 1 /\ left' = SlotCount
              /\ UNCHANGED publishing

\* The events owed to a peer, and the earliest of them.  Equal epochs leave in
\* the order of the table, on which nothing depends.
Pending(p) ==
  {x \in Registry \X Global : owner[x[1]] = p /\ IsPending(offers[x[1]][x[2]])}

EpochOf(x) == offers[x[1]][x[2]].epoch

NextPending(p) ==
  {x \in Pending(p) : \A y \in Pending(p) : EpochOf(x) <= EpochOf(y)}

\* Variant: a sync waits for later events as well.
SyncIsLast(p) == syncs[p] # <<>> /\ Pending(p) = {}

\* The oldest sync is next: nothing owed before its arrival is left.
SyncIsNext(p) ==
  /\ syncs[p] # <<>>
  /\ \A x \in Pending(p) : EpochOf(x) > Head(syncs[p]).limit

Serves(p) == Visits(p) /\ phase[p] = "open" /\ p \notin blocked

\* A sync without callback is dropped, and the peer looked at again.
DropSync(p) ==
  /\ Serves(p) /\ SyncIsNext(p) /\ ~Head(syncs[p]).alive
  /\ syncs' = [syncs EXCEPT ![p] = Tail(@)]
  /\ UNCHANGED <<phase, room, tableVars, passVars>>

\* So is the subscription of a registry that is gone.
DropRegistry(p, r) ==
  /\ Serves(p) /\ ~SyncIsNext(p)
  /\ \E x \in NextPending(p) : x[1] = r
  /\ ~object[r]
  /\ UnlinkAndCollect({r})
  /\ UNCHANGED <<phase, room, syncs, globals, nextName, epoch, passVars>>

\* The event is encoded into the transmit queue, which must have room for it.
Takes(p) == room[p] > 0 /\ room' = [room EXCEPT ![p] = @ - 1]

\* done and delete_id leave together.
SendDone(p) ==
  /\ Serves(p) /\ SyncIsNext(p) /\ Head(syncs[p]).alive
  /\ Takes(p)
  /\ syncs' = [syncs EXCEPT ![p] = Tail(@)]
  /\ Returns(p)
  /\ UNCHANGED <<phase, tableVars, blocked>>

Sent(offer) ==
  IF offer.state = "add_pending" THEN Settled("offered")
                                 ELSE Settled("removal_sent")

\* wl_registry.global or global_remove.
SendOffer(p, r, g) ==
  /\ Serves(p) /\ ~SyncIsNext(p)
  /\ <<r, g>> \in NextPending(p) /\ object[r]
  /\ Takes(p)
  /\ offers' = [offers EXCEPT ![r][g] = Sent(@)]
  /\ Returns(p)
  /\ UNCHANGED <<phase, syncs, owner, object, globals, removed, nextName,
                 epoch, blocked>>

\* Something that can be sent is owed to p.
HasEvent(p) ==
  IF SyncIsNext(p) THEN Head(syncs[p]).alive
                   ELSE \E x \in NextPending(p) : object[x[1]]

\* Variant: the first peer without room ends the pass.
BlockEveryone(p) ==
  /\ Serves(p) /\ HasEvent(p) /\ room[p] = 0
  /\ blocked' = Peer
  /\ Returns(p)
  /\ UNCHANGED <<phase, room, syncs, tableVars>>

\* A peer without room is reported once and skipped for the rest of the pass.
Block(p) ==
  /\ Serves(p) /\ HasEvent(p) /\ room[p] = 0
  /\ blocked' = blocked \cup {p}
  /\ Returns(p)
  /\ UNCHANGED <<phase, room, syncs, tableVars>>

\* Variant: the cursor stays where nothing was owed.
SkipInPlace(p) ==
  /\ Visits(p)
  /\ Serves(p) => syncs[p] = <<>> /\ Pending(p) = {}
  /\ cursor' = p /\ left' = left - 1
  /\ UNCHANGED <<phase, room, syncs, tableVars, publishing, blocked>>

\* A slot without a peer to serve, or a peer to which nothing is owed.
Skip(p) ==
  /\ Visits(p)
  /\ Serves(p) => syncs[p] = <<>> /\ Pending(p) = {}
  /\ cursor' = p + 1 /\ left' = left - 1
  /\ UNCHANGED <<phase, room, syncs, tableVars, publishing, blocked>>

\* Variant: the marks of the pass outlive it.
EndPassMarked ==
  /\ publishing /\ left = 0
  /\ publishing' = FALSE
  /\ UNCHANGED <<phase, room, syncs, tableVars, cursor, left, blocked>>

\* A call that visited every slot in vain completes the pass.
EndPass ==
  /\ publishing /\ left = 0
  /\ publishing' = FALSE
  /\ blocked' = {}
  /\ UNCHANGED <<phase, room, syncs, tableVars, cursor, left>>

Publish == \/ BeginPass \/ EndPass
           \/ \E p \in Peer : \/ DropSync(p) \/ SendDone(p)
                              \/ Block(p) \/ Skip(p)
                              \/ \E r \in Registry :
                                   \/ DropRegistry(p, r)
                                   \/ \E g \in Global : SendOffer(p, r, g)

Next == \/ \E p \in Peer :
             \/ Connect(p) \/ Close(p) \/ Drain(p) \/ DestroyClient(p)
             \/ CompleteSync(p) \/ LoseCallback(p)
             \/ \E r \in Registry :
                  \/ Subscribe(p, r) \/ RemoveRegistry(p, r)
                  \/ \E g \in Global : AckGlobalRemove(p, r, g)
        \/ \E r \in Registry : LoseRegistry(r)
        \/ AddGlobal \/ AddGlobalFails
        \/ \E g \in Global : RemoveGlobal(g)
        \/ Publish

Spec == Init /\ [][Next]_vars

\* The driver publishes in every turn, and the readers read.
FairSpec == /\ Spec
            /\ WF_vars(Publish)
            /\ \A p \in Reader : SF_vars(Drain(p))

-----------------------------------------------------------------------------

TypeOK ==
  /\ phase \in [Peer -> {"absent", "open", "closing"}]
  /\ room \in [Peer -> 0..Room]
  /\ owner \in [Registry -> Peer \cup {NoPeer}]
  /\ object \in [Registry -> BOOLEAN]
  /\ offers \in [Registry ->
                   [Global -> [state: OfferState, epoch: 0..MaxEpoch]]]
  /\ syncs \in [Peer -> Seq([limit: 0..MaxEpoch, alive: BOOLEAN])]
  /\ globals \subseteq Global /\ removed \subseteq Global
  /\ nextName \in 1..(NameCount + 1)
  /\ epoch \in 0..MaxEpoch
  /\ publishing \in BOOLEAN
  /\ cursor \in 0..SlotCount /\ left \in 0..SlotCount
  /\ blocked \subseteq Peer

\* The events queued for a peer in the abstraction, each with its place in the
\* queue: an event owed since epoch e is at <<e, 0>>, and the answer to its i-th
\* sync, if that arrived in epoch e, at <<e, i>>.
EventOf(x) ==
  IF offers[x[1]][x[2]].state = "add_pending"
  THEN [kind |-> "global", registry |-> x[1], global |-> x[2]]
  ELSE [kind |-> "global_remove", registry |-> x[1], global |-> x[2]]

OwedOffers(p) ==
  {<<<<EpochOf(x), 0>>, EventOf(x)>> : x \in {y \in Pending(p) : object[y[1]]}}

OwedAnswers(p) ==
  {<<<<syncs[p][i].limit, i>>, [kind |-> "done"]>> :
     i \in {j \in DOMAIN syncs[p] : syncs[p][j].alive}}

Entries(p) == OwedOffers(p) \cup OwedAnswers(p)

\* The events at one place are one batch.
Batches(entries) ==
  [place \in {e[1] : e \in entries} |->
     {e[2] : e \in {f \in entries : f[1] = place}}]

Precedes(a, b) == a[1] < b[1] \/ (a[1] = b[1] /\ a[2] < b[2])

\* Batches in the order of their places.
InSequence(batches) ==
  LET places == DOMAIN batches
  IN  [j \in 1..Cardinality(places) |->
         batches[CHOOSE x \in places :
                   Cardinality({y \in places : Precedes(y, x)}) = j - 1]]

NamesUsed == 1..(nextName - 1)

ListeningPeers == [r \in Registry |-> IF object[r] THEN owner[r] ELSE NoPeer]

Announced ==
  {x \in Registry \X Global :
     object[x[1]] /\ offers[x[1]][x[2]].state \in {"offered", "remove_pending"}}

Queued == [p \in Peer |-> InSequence(Batches(Entries(p)))]

Clients == INSTANCE Announcements WITH
  Client <- Peer,
  Nobody <- NoPeer,
  used <- NamesUsed,
  owner <- ListeningPeers,
  told <- Announced,
  owed <- Queued

\* Offers, epochs and limits come to one queue for each client in the order
\* of events: announcements, removals and answers to syncs reach it in that
\* order, none twice, none missing, and no removal of what was not announced.
InOrder == Clients!Spec

\* A removed global is kept exactly as long as some registry holds an offer of
\* it, and no offer names a global that is neither live nor kept: the binder
\* of an offered global is never withdrawn, and none is kept for ever.
RemovedWhileOffered ==
  /\ removed = {g \in 1..(nextName - 1) : g \notin globals
                                            /\ HasOffers(offers, g)}
  /\ \A g \in Global : HasOffers(offers, g) => g \in globals \cup removed

\* A client may bind whatever it was told of and has not acknowledged the
\* removal of, however the removal raced with its request.
ToldIsBindable ==
  \A r \in Registry, g \in Global :
    offers[r][g].state \in {"offered", "remove_pending", "removal_sent"}
      => Bindable(owner[r], g)

\* A pass ends with every open peer told all it is owed or out of room, so a
\* slow client delays nobody else.
PassServesAll ==
  [][publishing /\ ~publishing' =>
       \A p \in Peer : phase[p] = "open" =>
         room[p] = 0 \/ (syncs[p] = <<>> /\ Pending(p) = {})]_vars

\* An open peer that reads is told what it is owed, whatever the others do.
ReadersAreTold ==
  \A p \in Reader, r \in Registry, g \in Global,
     st \in {"add_pending", "remove_pending"} :
    (owner[r] = p /\ phase[p] = "open" /\ offers[r][g].state = st)
      ~> (phase[p] # "open" \/ offers[r][g].state # st)

\* Its oldest sync is answered.
ReadersAreAnswered ==
  \A p \in Reader :
    (phase[p] = "open" /\ Len(syncs[p]) = MaxSyncs)
      ~> (phase[p] # "open" \/ Len(syncs[p]) < MaxSyncs)

\* A peer that reads gets all that publishNext is to send it: what it is owed,
\* and the answers to its syncs.
ReadersAreServed == ReadersAreTold /\ ReadersAreAnswered

=============================================================================
