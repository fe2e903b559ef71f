---------------------------- MODULE RegistryProofs ----------------------------
(***************************************************************************)
(* Proofs about Registry for every number of slots, registries and names   *)
(* and every global filter.                                                *)
(*                                                                         *)
(* RemovedWhileOffered is not inductive: a withdrawn global stays out of   *)
(* the table only because names are never given out again, and its offers  *)
(* can end only by unlinking or acknowledging, because an offer that owes  *)
(* an announcement always names a live global.  `Inv` adds these facts as  *)
(* OwnersHold, NamesAreFresh and OffersAreCurrent.                          *)
(*                                                                         *)
(* PassServesAll speaks of the end of a pass, and what justifies it is     *)
(* spread over the whole pass: the call that completes it has visited      *)
(* every slot in vain.  `VisitsCount` says what visits in vain are worth:  *)
(* a slot whose `Age` is at most the number of visits of the running call  *)
(* still has nothing to do, because nothing a pass does owes anyone more,  *)
(* and a peer is marked only when its queue is full.                       *)
(***************************************************************************)
EXTENDS Registry, SequenceTheorems, TLAPS

TableTypes ==
  /\ owner \in [Registry -> Peer \cup {NoPeer}]
  /\ object \in [Registry -> BOOLEAN]
  /\ offers \in [Registry ->
                   [Global -> [state: OfferState, epoch: 0..MaxEpoch]]]
  /\ globals \subseteq Global /\ removed \subseteq Global
  /\ nextName \in 1..(NameCount + 1)
  /\ epoch \in 0..MaxEpoch

\* A registry that is not subscribed has no object and no offers.
OwnersHold ==
  \A r \in Registry : owner[r] = NoPeer =>
    ~object[r] /\ \A g \in Global : offers[r][g].state = "none"

\* Names that were not given out yet are in no table and no offer.
NamesAreFresh ==
  \A g \in Global : g >= nextName =>
    /\ g \notin globals /\ g \notin removed
    /\ \A r \in Registry : offers[r][g].state = "none"

\* An announcement is owed or stands for a live global the peer may see; a
\* removal is owed or stands for a global that is gone.
OffersAreCurrent ==
  \A r \in Registry, g \in Global :
    /\ offers[r][g].state \in {"add_pending", "offered"} =>
         g \in globals /\ <<owner[r], g>> \in Visible
    /\ offers[r][g].state \in {"remove_pending", "removal_sent"} =>
         g \notin globals

Inv == /\ TableTypes
       /\ OwnersHold
       /\ NamesAreFresh
       /\ OffersAreCurrent
       /\ RemovedWhileOffered

-----------------------------------------------------------------------------

\* Collecting after globals were taken out of the table, or after offers
\* ended, keeps exactly the removed globals that are still offered.
LEMMA CollectedExactly ==
  ASSUME TableTypes, NamesAreFresh, RemovedWhileOffered, NEW gone \in SUBSET globals,
         globals' = globals \ gone,
         removed' = Collected(removed \cup gone, offers'),
         nextName' = nextName,
         \A g \in Global : HasOffers(offers', g) => HasOffers(offers, g)
  PROVE  RemovedWhileOffered'
<1>1. removed' \subseteq {g \in 1..(nextName - 1) : g \notin globals'
                                            /\ HasOffers(offers', g)}
  <2> SUFFICES ASSUME NEW g \in removed'
               PROVE  /\ g \in 1..(nextName - 1) /\ g \notin globals'
                      /\ HasOffers(offers', g)
    OBVIOUS
  <2>1. g \in removed \cup gone /\ HasOffers(offers', g)
    BY DEF Collected
  <2>2. CASE g \in removed
    BY <2>1, <2>2 DEF RemovedWhileOffered
  <2>3. CASE g \in gone
    <3>1. g \in Global /\ ~(g >= nextName)
      BY <2>3 DEF TableTypes, NamesAreFresh
    <3> QED
      BY <2>1, <2>3, <3>1, BoundAssumption DEF TableTypes, Global
  <2> QED
    BY <2>1, <2>2, <2>3
<1>2. {g \in 1..(nextName - 1) : g \notin globals' /\ HasOffers(offers', g)}
        \subseteq removed'
  <2> SUFFICES ASSUME NEW g \in 1..(nextName - 1), g \notin globals',
                      HasOffers(offers', g)
               PROVE  g \in removed'
    OBVIOUS
  <2>1. g \in Global
    BY BoundAssumption DEF TableTypes, Global
  <2>2. HasOffers(offers, g)
    BY <2>1
  <2> QED
    BY <2>2 DEF Collected, RemovedWhileOffered
<1>3. ASSUME NEW g \in Global, HasOffers(offers', g)
      PROVE  g \in globals' \cup removed'
  <2>1. g \in globals \cup removed
    BY <1>3 DEF RemovedWhileOffered
  <2> QED
    BY <1>3, <2>1 DEF Collected
<1> QED
  BY <1>1, <1>2, <1>3 DEF RemovedWhileOffered

\* Where no global changes place, it suffices that the same are offered.
LEMMA SameOffered ==
  ASSUME RemovedWhileOffered,
         UNCHANGED <<globals, removed, nextName>>,
         \A g \in Global : HasOffers(offers', g) <=> HasOffers(offers, g),
         TableTypes
  PROVE  RemovedWhileOffered'
<1>1. 1..(nextName - 1) \subseteq Global
  BY BoundAssumption DEF TableTypes, Global
<1> QED
  BY <1>1 DEF RemovedWhileOffered

\* Unlinking registries and collecting, whoever does it.
LEMMA UnlinkInv ==
  ASSUME Inv, NEW R \in SUBSET Registry, UnlinkAndCollect(R),
         UNCHANGED <<globals, nextName, epoch>>
  PROVE  Inv'
<1> USE DEF Inv
<1>1. offers' = [r \in Registry |->
        IF r \in R THEN [g \in Global |-> NoOffer] ELSE offers[r]]
  BY DEF UnlinkAndCollect, Unlink
<1>2. TableTypes'
  <2>1. offers' \in [Registry ->
                       [Global -> [state: OfferState, epoch: 0..MaxEpoch]]]
    BY <1>1, BoundAssumption DEF TableTypes, NoOffer, OfferState
  <2>2. removed' \subseteq Global
    BY DEF TableTypes, UnlinkAndCollect, Collected
  <2> QED
    BY <2>1, <2>2 DEF TableTypes, UnlinkAndCollect, Unlink
<1>3. OwnersHold'
  <2> SUFFICES ASSUME NEW r \in Registry, owner'[r] = NoPeer
               PROVE  /\ ~object'[r]
                      /\ \A g \in Global : offers'[r][g].state = "none"
    BY DEF OwnersHold
  <2>1. object' = [q \in Registry |-> object[q] /\ q \notin R]
    BY DEF UnlinkAndCollect, Unlink
  <2>2. r \in R \/ owner[r] = NoPeer
    BY DEF UnlinkAndCollect, Unlink
  <2>3. CASE r \in R
    <3>1. ~object'[r]
      BY <2>1, <2>3
    <3> QED
      BY <1>1, <2>3, <3>1 DEF NoOffer
  <2>4. CASE r \notin R
    <3>1. ~object[r]
      BY <2>2, <2>4 DEF OwnersHold
    <3>2. ~object'[r]
      BY <2>1, <3>1
    <3>3. offers'[r] = offers[r]
      BY <1>1, <2>4
    <3> QED
      BY <2>2, <2>4, <3>2, <3>3 DEF OwnersHold
  <2> QED
    BY <2>3, <2>4
<1>4. \A g \in Global : HasOffers(offers', g) => HasOffers(offers, g)
  BY <1>1 DEF HasOffers, NoOffer
<1>5. NamesAreFresh'
  BY <1>1 DEF NamesAreFresh, UnlinkAndCollect, Collected, NoOffer
<1>6. OffersAreCurrent'
  BY <1>1 DEF OffersAreCurrent, UnlinkAndCollect, Unlink, NoOffer
<1>7. RemovedWhileOffered'
  <2>1. removed' = Collected(removed \cup {}, offers')
    BY DEF UnlinkAndCollect
  <2> QED
    BY <1>4, <2>1, CollectedExactly
<1> QED
  BY <1>2, <1>3, <1>5, <1>6, <1>7

\* Every table starts empty.
LEMMA InitInv == Init => Inv
BY BoundAssumption
   DEF Init, Inv, TableTypes, OwnersHold, NamesAreFresh, OffersAreCurrent,
       RemovedWhileOffered, HasOffers, NoOffer, OfferState, Global

\* The listing of a new registry offers live visible globals only.
LEMMA SubscribeInv ==
  ASSUME Inv, NEW p \in Peer, NEW r \in Registry, Subscribe(p, r)
  PROVE  Inv'
<1> USE DEF Inv
<1>1. p # NoPeer
  BY SlotAssumption DEF Peer, NoPeer
<1>2. /\ owner[r] = NoPeer
      /\ owner' = [owner EXCEPT ![r] = p]
      /\ object' = [object EXCEPT ![r] = TRUE]
      /\ epoch' = epoch + 1 /\ epoch' \in 0..MaxEpoch
      /\ UNCHANGED <<globals, removed, nextName>>
  BY BoundAssumption DEF Subscribe, TableTypes
<1>3. offers' = [offers EXCEPT ![r] = [g \in Global |->
        IF g \in globals /\ <<p, g>> \in Visible
        THEN [state |-> "add_pending", epoch |-> epoch'] ELSE NoOffer]]
  BY DEF Subscribe
<1>4. TableTypes'
  BY <1>2, <1>3, BoundAssumption DEF TableTypes, NoOffer, OfferState
<1>5. OwnersHold'
  BY <1>1, <1>2, <1>3 DEF OwnersHold, TableTypes
<1>6. NamesAreFresh'
  BY <1>2, <1>3 DEF NamesAreFresh, TableTypes, NoOffer
<1>7. OffersAreCurrent'
  BY <1>2, <1>3 DEF OffersAreCurrent, TableTypes, NoOffer
<1>8. ASSUME NEW g \in Global PROVE HasOffers(offers', g) =>
        g \in globals \/ HasOffers(offers, g)
  BY <1>3 DEF HasOffers, NoOffer, TableTypes
<1>9. ASSUME NEW g \in Global PROVE HasOffers(offers, g) => HasOffers(offers', g)
  BY <1>2, <1>3 DEF HasOffers, NoOffer, TableTypes, OwnersHold
<1>10. RemovedWhileOffered'
  <2>1. 1..(nextName - 1) \subseteq Global
    BY BoundAssumption DEF TableTypes, Global
  <2> QED
    BY <1>2, <1>8, <1>9, <2>1 DEF RemovedWhileOffered
<1> QED
  BY <1>4, <1>5, <1>6, <1>7, <1>10

\* An acknowledgment ends one offer and collects the global if it was the last.
LEMMA AckInv ==
  ASSUME Inv, NEW p \in Peer, NEW r \in Registry, NEW g \in Global,
         AckGlobalRemove(p, r, g)
  PROVE  Inv'
<1> USE DEF Inv
<1>1. /\ offers' = [offers EXCEPT ![r][g] = NoOffer]
      /\ removed' = Collected(removed, offers')
      /\ UNCHANGED <<owner, object, globals, nextName, epoch>>
  BY DEF AckGlobalRemove
<1>2. TableTypes'
  <2>1. removed' \subseteq Global
    BY <1>1 DEF TableTypes, Collected
  <2>2. NoOffer \in [state: OfferState, epoch: 0..MaxEpoch]
    BY BoundAssumption DEF NoOffer, OfferState
  <2>3. offers' \in [Registry ->
                       [Global -> [state: OfferState, epoch: 0..MaxEpoch]]]
    BY <1>1, <2>2 DEF TableTypes
  <2> QED
    BY <1>1, <2>1, <2>3 DEF TableTypes
<1>3. \A q \in Registry, h \in Global :
        offers'[q][h] = offers[q][h] \/ offers'[q][h].state = "none"
  BY <1>1 DEF TableTypes, NoOffer
<1>4. OwnersHold'
  BY <1>1, <1>3 DEF OwnersHold
<1>5. NamesAreFresh'
  BY <1>1, <1>3 DEF NamesAreFresh, Collected
<1>6. OffersAreCurrent'
  BY <1>1, <1>3 DEF OffersAreCurrent
<1>7. RemovedWhileOffered'
  <2>1. \A h \in Global : HasOffers(offers', h) => HasOffers(offers, h)
    BY <1>3 DEF HasOffers
  <2>2. removed' = Collected(removed \cup {}, offers')
    BY <1>1
  <2> QED
    BY <1>1, <2>1, <2>2, CollectedExactly
<1> QED
  BY <1>2, <1>4, <1>5, <1>6, <1>7

\* Removal takes a global from the table, withdraws unsent announcements, and
\* keeps the global if it is still offered.
LEMMA RemoveGlobalInv ==
  ASSUME Inv, NEW g \in Global, RemoveGlobal(g)
  PROVE  Inv'
<1> USE DEF Inv
<1>1. /\ g \in globals
      /\ globals' = globals \ {g}
      /\ epoch' = epoch + 1 /\ epoch' \in 0..MaxEpoch
      /\ offers' = [r \in Registry |->
           [offers[r] EXCEPT ![g] = Retracted(@, epoch')]]
      /\ removed' = Collected(removed \cup {g}, offers')
      /\ UNCHANGED <<owner, object, nextName>>
  BY BoundAssumption DEF RemoveGlobal, TableTypes
<1>2. ASSUME NEW r \in Registry, NEW h \in Global, h # g
      PROVE  offers'[r][h] = offers[r][h]
  BY <1>1, <1>2 DEF TableTypes
<1>3. ASSUME NEW r \in Registry
      PROVE  offers'[r][g] = Retracted(offers[r][g], epoch')
  BY <1>1 DEF TableTypes
<1>4. ASSUME NEW r \in Registry
      PROVE  /\ offers'[r][g] \in [state: OfferState, epoch: 0..MaxEpoch]
             /\ offers'[r][g].state \in {"none", "remove_pending"}
             /\ offers'[r][g].state # "none" => offers[r][g].state # "none"
  <2>1. offers[r][g] \in [state: OfferState, epoch: 0..MaxEpoch]
    BY DEF TableTypes
  <2>2. offers[r][g].state \in {"none", "add_pending", "offered"}
    BY <1>1, <2>1 DEF OffersAreCurrent, OfferState
  <2> QED
    BY <1>1, <1>3, <2>1, <2>2, BoundAssumption DEF Retracted, NoOffer, OfferState
<1>5. TableTypes'
  <2>1. offers' \in [Registry ->
                       [Global -> [state: OfferState, epoch: 0..MaxEpoch]]]
    BY <1>1, <1>4 DEF TableTypes
  <2>2. removed' \subseteq Global
    BY <1>1 DEF TableTypes, Collected
  <2> QED
    BY <1>1, <2>1, <2>2 DEF TableTypes
<1>6. \A r \in Registry, h \in Global :
        offers'[r][h].state # "none" => offers[r][h].state # "none"
  BY <1>2, <1>4
<1>7. OwnersHold'
  BY <1>1, <1>6 DEF OwnersHold
<1>8. NamesAreFresh'
  BY <1>1, <1>6 DEF NamesAreFresh, Collected
<1>9. OffersAreCurrent'
  BY <1>1, <1>2, <1>4 DEF OffersAreCurrent
<1>10. RemovedWhileOffered'
  <2>1. \A h \in Global : HasOffers(offers', h) => HasOffers(offers, h)
    BY <1>6 DEF HasOffers
  <2> QED
    BY <1>1, <2>1, CollectedExactly
<1> QED
  BY <1>5, <1>7, <1>8, <1>9, <1>10

\* Adding offers a fresh name to the registries that may see it.
LEMMA AddGlobalInv ==
  ASSUME Inv, AddGlobal
  PROVE  Inv'
<1> USE DEF Inv
<1>1. /\ nextName \in Global /\ nextName' = nextName + 1
      /\ globals' = globals \cup {nextName}
      /\ epoch' = epoch + 1 /\ epoch' \in 0..MaxEpoch
      /\ UNCHANGED <<owner, object, removed>>
  BY BoundAssumption DEF AddGlobal, TableTypes
<1>2. offers' = [r \in Registry |->
        IF <<owner[r], nextName>> \in Visible
        THEN [offers[r] EXCEPT ![nextName] = [state |-> "add_pending",
                                              epoch |-> epoch']]
        ELSE offers[r]]
  BY DEF AddGlobal
<1>3. \A r \in Registry : offers[r][nextName].state = "none"
  BY <1>1, BoundAssumption DEF NamesAreFresh, TableTypes, Global
<1>4. ASSUME NEW r \in Registry, NEW h \in Global, h # nextName
      PROVE  offers'[r][h] = offers[r][h]
  BY <1>2, <1>4 DEF TableTypes
<1>5. ASSUME NEW r \in Registry
      PROVE  \/ /\ <<owner[r], nextName>> \in Visible
                /\ offers'[r][nextName] = [state |-> "add_pending",
                                           epoch |-> epoch']
             \/ offers'[r][nextName] = offers[r][nextName]
  BY <1>1, <1>2 DEF TableTypes
<1>6. TableTypes'
  <2>1. offers' \in [Registry ->
                       [Global -> [state: OfferState, epoch: 0..MaxEpoch]]]
    BY <1>1, <1>2 DEF TableTypes, OfferState
  <2>2. nextName' \in 1..(NameCount + 1)
    BY <1>1, BoundAssumption DEF TableTypes, Global
  <2> QED
    BY <1>1, <2>1, <2>2 DEF TableTypes
<1>7. OwnersHold'
  <2>1. \A r \in Registry : owner[r] = NoPeer => <<owner[r], nextName>> \notin Visible
    BY VisibleAssumption, SlotAssumption DEF Peer, NoPeer
  <2> QED
    BY <1>1, <1>3, <1>4, <1>5, <2>1 DEF OwnersHold
<1>8. NamesAreFresh'
  <2>1. nextName \notin globals /\ nextName \notin removed
    BY <1>1, BoundAssumption DEF NamesAreFresh, TableTypes, Global
  <2>2. ASSUME NEW g \in Global, g >= nextName'
        PROVE  g # nextName /\ g >= nextName
    BY <1>1, <2>2, BoundAssumption DEF Global
  <2> QED
    BY <1>1, <1>4, <2>2 DEF NamesAreFresh
<1>9. OffersAreCurrent'
  BY <1>1, <1>3, <1>4, <1>5 DEF OffersAreCurrent
<1>10. RemovedWhileOffered'
  <2>1. ASSUME NEW g \in Global, g # nextName
        PROVE  HasOffers(offers', g) <=> HasOffers(offers, g)
    BY <1>4, <2>1 DEF HasOffers
  <2>2. ~HasOffers(offers, nextName)
    BY <1>3 DEF HasOffers
  <2>3. nextName' - 1 = nextName /\ nextName - 1 < nextName
    BY <1>1, BoundAssumption DEF Global
  <2>4. 1..(nextName' - 1) \subseteq Global /\ 1..(nextName - 1) \subseteq Global
    BY <1>1, <2>3, BoundAssumption DEF Global
  <2>5. removed' = {g \in 1..(nextName' - 1) : g \notin globals'
                                              /\ HasOffers(offers', g)}
    <3>1. ASSUME NEW g \in 1..(nextName' - 1)
          PROVE  g \in removed' <=> g \notin globals' /\ HasOffers(offers', g)
      <4>1. CASE g = nextName
        BY <1>1, <2>3, <4>1, BoundAssumption
           DEF NamesAreFresh, TableTypes, Global
      <4>2. CASE g # nextName
        <5>1. g \in 1..(nextName - 1) /\ g \in Global
          BY <1>1, <2>3, <2>4, <4>2, BoundAssumption DEF Global
        <5> QED
          BY <1>1, <2>1, <4>2, <5>1 DEF RemovedWhileOffered
      <4> QED
        BY <4>1, <4>2
    <3>2. removed' \subseteq 1..(nextName' - 1)
      BY <1>1, <2>3, BoundAssumption DEF RemovedWhileOffered, Global
    <3> QED
      BY <3>1, <3>2
  <2>6. ASSUME NEW g \in Global, HasOffers(offers', g)
        PROVE  g \in globals' \cup removed'
    BY <1>1, <2>1, <2>6 DEF RemovedWhileOffered
  <2> QED
    BY <2>5, <2>6 DEF RemovedWhileOffered
<1> QED
  BY <1>6, <1>7, <1>8, <1>9, <1>10

\* A full table spends a name that was in no table.
LEMMA AddGlobalFailsInv ==
  ASSUME Inv, AddGlobalFails
  PROVE  Inv'
<1> USE DEF Inv
<1>1. /\ nextName \in Global /\ nextName' = nextName + 1
      /\ UNCHANGED <<owner, object, offers, globals, removed, epoch>>
  BY DEF AddGlobalFails
<1>2. TableTypes' /\ OwnersHold' /\ OffersAreCurrent'
  BY <1>1, BoundAssumption DEF TableTypes, OwnersHold, OffersAreCurrent, Global
<1>3. NamesAreFresh'
  BY <1>1, BoundAssumption DEF NamesAreFresh, TableTypes, Global
<1>4. RemovedWhileOffered'
  <2>1. ~HasOffers(offers, nextName)
    BY <1>1, BoundAssumption DEF NamesAreFresh, HasOffers, TableTypes, Global
  <2>2. HasOffers(offers', nextName) <=> HasOffers(offers, nextName)
    BY <1>1
  <2>3. \A g \in 1..(nextName' - 1) : g = nextName \/ g \in 1..(nextName - 1)
    BY <1>1, BoundAssumption DEF Global
  <2>4. 1..(nextName - 1) \subseteq 1..(nextName' - 1)
    BY <1>1, BoundAssumption DEF Global
  <2> QED
    BY <1>1, <2>1, <2>3, <2>4 DEF RemovedWhileOffered
<1> QED
  BY <1>2, <1>3, <1>4

\* Sending settles an offer without ending it.
LEMMA SendOfferInv ==
  ASSUME Inv, NEW p \in Peer, NEW r \in Registry, NEW g \in Global,
         SendOffer(p, r, g)
  PROVE  Inv'
<1> USE DEF Inv
<1>1. /\ offers' = [offers EXCEPT ![r][g] = Sent(@)]
      /\ <<r, g>> \in Pending(p)
      /\ UNCHANGED <<owner, object, globals, removed, nextName, epoch>>
  BY DEF SendOffer, NextPending
<1>2. /\ offers[r][g].state \in {"add_pending", "remove_pending"}
      /\ owner[r] = p
  BY <1>1 DEF Pending, IsPending
<1>3. /\ offers'[r][g] = Sent(offers[r][g])
      /\ \A q \in Registry, h \in Global :
           <<q, h>> # <<r, g>> => offers'[q][h] = offers[q][h]
  BY <1>1 DEF TableTypes
<1>4. \/ /\ offers[r][g].state = "add_pending"
         /\ offers'[r][g] = [state |-> "offered", epoch |-> 0]
      \/ /\ offers[r][g].state = "remove_pending"
         /\ offers'[r][g] = [state |-> "removal_sent", epoch |-> 0]
  BY <1>2, <1>3 DEF Sent, Settled
<1>5. TableTypes'
  <2>1. Sent(offers[r][g]) \in [state: OfferState, epoch: 0..MaxEpoch]
    BY <1>3, <1>4, BoundAssumption DEF OfferState
  <2> QED
    BY <1>1, <2>1 DEF TableTypes
<1>6. \A q \in Registry, h \in Global :
        offers'[q][h].state = "none" <=> offers[q][h].state = "none"
  BY <1>3, <1>4
<1>7. OwnersHold' /\ NamesAreFresh'
  BY <1>1, <1>6 DEF OwnersHold, NamesAreFresh
<1>8. OffersAreCurrent'
  BY <1>1, <1>3, <1>4 DEF OffersAreCurrent
<1>9. RemovedWhileOffered'
  <2>1. \A h \in Global : HasOffers(offers', h) <=> HasOffers(offers, h)
    BY <1>6 DEF HasOffers
  <2> QED
    BY <1>1, <2>1, SameOffered
<1> QED
  BY <1>5, <1>7, <1>8, <1>9

\* The loss of a registry object leaves its offers for the pass to drop.
LEMMA LoseRegistryInv ==
  ASSUME Inv, NEW r \in Registry, LoseRegistry(r)
  PROVE  Inv'
BY DEF LoseRegistry, Inv, TableTypes, OwnersHold, NamesAreFresh,
       OffersAreCurrent, RemovedWhileOffered, HasOffers

\* Everything else leaves the tables alone.
LEMMA UnchangedInv ==
  ASSUME Inv, UNCHANGED tableVars
  PROVE  Inv'
BY DEF tableVars, Inv, TableTypes, OwnersHold, NamesAreFresh,
       OffersAreCurrent, RemovedWhileOffered, HasOffers

\* One step preserves the invariant: the pass changes the tables by sending
\* and by dropping lost registries only.
LEMMA PublishInv ==
  ASSUME Inv, Publish
  PROVE  Inv'
<1>1. CASE BeginPass \/ EndPass
  BY <1>1, UnchangedInv DEF BeginPass, EndPass
<1>2. ASSUME NEW p \in Peer, DropSync(p) \/ SendDone(p) \/ Block(p) \/ Skip(p)
      PROVE  Inv'
  BY <1>2, UnchangedInv DEF DropSync, SendDone, Block, Skip
<1>3. ASSUME NEW p \in Peer, NEW r \in Registry, DropRegistry(p, r)
      PROVE  Inv'
  BY <1>3, UnlinkInv DEF DropRegistry
<1>4. ASSUME NEW p \in Peer, NEW r \in Registry, NEW g \in Global,
             SendOffer(p, r, g)
      PROVE  Inv'
  BY <1>4, SendOfferInv
<1> QED
  BY <1>1, <1>2, <1>3, <1>4 DEF Publish

\* Every call of the runtime and every step of a pass preserves the invariant.
LEMMA NextInv ==
  ASSUME Inv, [Next]_vars
  PROVE  Inv'
<1>1. CASE UNCHANGED vars
  BY <1>1, UnchangedInv DEF vars
<1>2. ASSUME NEW p \in Peer,
             \/ Connect(p) \/ Close(p) \/ Drain(p)
             \/ CompleteSync(p) \/ LoseCallback(p)
      PROVE  Inv'
  BY <1>2, UnchangedInv DEF Connect, Close, Drain, CompleteSync, LoseCallback
<1>3. ASSUME NEW p \in Peer, DestroyClient(p) PROVE Inv'
  BY <1>3, UnlinkInv DEF DestroyClient
<1>4. ASSUME NEW p \in Peer, NEW r \in Registry, RemoveRegistry(p, r)
      PROVE  Inv'
  BY <1>4, UnlinkInv DEF RemoveRegistry
<1>5. ASSUME NEW p \in Peer, NEW r \in Registry,
             \/ Subscribe(p, r)
             \/ \E g \in Global : AckGlobalRemove(p, r, g)
      PROVE  Inv'
  BY <1>5, SubscribeInv, AckInv
<1>6. CASE AddGlobal \/ AddGlobalFails
  BY <1>6, AddGlobalInv, AddGlobalFailsInv
<1>7. CASE Publish
  BY <1>7, PublishInv
<1> QED
  BY <1>1, <1>2, <1>3, <1>4, <1>5, <1>6, <1>7, LoseRegistryInv,
     RemoveGlobalInv DEF Next

\* Inv holds in every reachable state: the tables start empty and every call
\* and every step of a pass preserves it.
THEOREM RegistryInvariance == Spec => []Inv
BY InitInv, NextInv, PTL DEF Spec

\* A removed global is kept exactly as long as a registry holds an offer of
\* it, and offers name only globals that are live or kept.
THEOREM GlobalsOutliveOffers == Spec => []RemovedWhileOffered
BY RegistryInvariance, PTL DEF Inv

\* A peer may bind whatever it was told of and has not acknowledged the
\* removal of.
THEOREM BindNeverRaces == Spec => []ToldIsBindable
<1>1. Inv => ToldIsBindable
  <2> SUFFICES ASSUME Inv, NEW r \in Registry, NEW g \in Global,
                      offers[r][g].state \in
                        {"offered", "remove_pending", "removal_sent"}
               PROVE  Bindable(owner[r], g)
    BY DEF ToldIsBindable
  <2> USE DEF Inv
  <2>1. CASE g \in globals
    BY <2>1 DEF Bindable, OffersAreCurrent
  <2>2. CASE g \notin globals
    <3>1. HasOffers(offers, g)
      BY DEF HasOffers
    <3>2. g \in removed
      BY <2>2, <3>1 DEF RemovedWhileOffered
    <3> QED
      BY <2>2, <3>2 DEF Bindable
  <2> QED
    BY <2>1, <2>2
<1> QED
  BY <1>1, RegistryInvariance, PTL

-----------------------------------------------------------------------------
\* The pass.

Barrier == [limit: 0..MaxEpoch, alive: BOOLEAN]

PeerTypes == /\ phase \in [Peer -> {"absent", "open", "closing"}]
             /\ room \in [Peer -> 0..Room]

SyncTypes == syncs \in [Peer -> Seq(Barrier)]

CursorTypes == cursor \in 0..SlotCount /\ left \in 0..SlotCount

MarkTypes == blocked \subseteq Peer /\ publishing \in BOOLEAN

PassTypes == PeerTypes /\ SyncTypes /\ CursorTypes /\ MarkTypes

\* How many visits ago slot q was visited, from 1 for the slot visited last to
\* SlotCount for the one visited next.
Age(q) == IF q < cursor THEN cursor - q ELSE cursor + SlotCount - q

\* A pass has nothing to do for q.
Settles(q) ==
  phase[q] = "open" => room[q] = 0 \/ (syncs[q] = <<>> /\ Pending(q) = {})

\* Only a pass marks peers, and only those whose transmit queue is full; and
\* whatever slot a call has visited in vain still has nothing to do.
VisitsCount ==
  /\ ~publishing => blocked = {}
  /\ \A q \in blocked : room[q] = 0
  /\ publishing => \A q \in Peer : Age(q) <= SlotCount - left => Settles(q)

PassInv == Inv /\ PassTypes /\ VisitsCount

\* An age is a number of visits from 1 to SlotCount,
LEMMA AgeRange ==
  ASSUME CursorTypes, NEW q \in Peer
  PROVE  Age(q) \in 1..SlotCount
BY SlotAssumption DEF CursorTypes, Age, Peer

\* also after a step.
LEMMA NextAgeRange ==
  ASSUME CursorTypes', NEW q \in Peer
  PROVE  Age(q)' \in 1..SlotCount
<1>1. PICK c \in 0..SlotCount : c = cursor'
  BY DEF CursorTypes
<1>2. Age(q)' = IF q < c THEN c - q ELSE c + SlotCount - q
  BY <1>1 DEF Age
<1>3. (IF q < c THEN c - q ELSE c + SlotCount - q) \in 1..SlotCount
  BY SlotAssumption DEF Peer
<1> QED
  BY <1>2, <1>3

\* A visit makes its slot the latest and all others one visit older.
LEMMA VisitAges ==
  ASSUME CursorTypes, NEW p \in Peer, Visits(p), cursor' = p + 1,
         NEW q \in Peer, q # p
  PROVE  Age(q)' = Age(q) + 1
BY SlotAssumption DEF CursorTypes, Age, Peer, Visits

\* What a peer is owed through registries that stay as they are, or lose their
\* offers, does not grow.
LEMMA UnlinkOwesNoMore ==
  ASSUME TableTypes, NEW R \in SUBSET Registry, Unlink(R), NEW q \in Peer
  PROVE  Pending(q)' \subseteq Pending(q)
<1> SUFFICES ASSUME NEW r \in Registry, NEW g \in Global,
                    owner'[r] = q, IsPending(offers'[r][g])
             PROVE  owner[r] = q /\ IsPending(offers[r][g])
  BY DEF Pending
<1>1. r \notin R
  BY SlotAssumption DEF Unlink, Peer, NoPeer
<1> QED
  BY <1>1 DEF Unlink

\* A step of a pass that serves p and leaves the cursor where it is keeps the
\* count, provided it owes nobody more.
LEMMA ServeKeepsCount ==
  ASSUME VisitsCount, UNCHANGED <<phase, room, passVars>>,
         \A q \in Peer : syncs[q] = <<>> => syncs'[q] = <<>>,
         \A q \in Peer : Pending(q)' \subseteq Pending(q)
  PROVE  VisitsCount'
<1>1. \A q \in Peer : Settles(q) => Settles(q)'
  BY DEF Settles
<1>2. \A q \in Peer : Age(q)' = Age(q)
  BY DEF Age, passVars
<1> QED
  BY <1>1, <1>2 DEF VisitsCount, passVars

\* A call that served a peer starts its count anew.
LEMMA ReturnStartsOver ==
  ASSUME CursorTypes', NEW p \in Peer, Visits(p), Returns(p),
         \A q \in blocked' : room'[q] = 0
  PROVE  VisitsCount'
<1>1. publishing' /\ left' = SlotCount
  BY DEF Returns, Visits
<1>2. \A q \in Peer : Age(q)' \in 1..SlotCount
  BY NextAgeRange
<1>3. \A q \in Peer : ~(Age(q)' <= SlotCount - left')
  BY <1>1, <1>2, SlotAssumption
<1> QED
  BY <1>1, <1>3 DEF VisitsCount

\* A peer's phase and room change one peer at a time, and room is asked for
\* before it is taken.
LEMMA PeerTypesNext ==
  ASSUME PeerTypes, [Next]_vars
  PROVE  PeerTypes'
<1>1. \/ phase' = phase
      \/ \E p \in Peer, f \in {"absent", "open", "closing"} :
           phase' = [phase EXCEPT ![p] = f]
  BY DEF Next, Publish, vars, passVars, Calls, Requests, Connect, Close, Drain,
     DestroyClient, CompleteSync, LoseCallback, Subscribe, RemoveRegistry,
     AckGlobalRemove, LoseRegistry, AddGlobal, AddGlobalFails, RemoveGlobal,
     BeginPass, EndPass, DropSync, SendDone, Block, Skip, Returns, Takes,
     DropRegistry, SendOffer, Serves, Visits
<1>2. \/ room' = room
      \/ \E p \in Peer :
           \/ room' = [room EXCEPT ![p] = Room]
           \/ room[p] < Room /\ room' = [room EXCEPT ![p] = @ + 1]
           \/ room[p] > 0 /\ room' = [room EXCEPT ![p] = @ - 1]
  BY DEF Next, Publish, vars, passVars, Calls, Requests, Connect, Close, Drain,
     DestroyClient, CompleteSync, LoseCallback, Subscribe, RemoveRegistry,
     AckGlobalRemove, LoseRegistry, AddGlobal, AddGlobalFails, RemoveGlobal,
     BeginPass, EndPass, DropSync, SendDone, Block, Skip, Returns, Takes,
     DropRegistry, SendOffer, Serves, Visits
<1>3. phase' \in [Peer -> {"absent", "open", "closing"}]
  BY <1>1 DEF PeerTypes
<1>4. room' \in [Peer -> 0..Room]
  BY <1>2, RoomAssumption DEF PeerTypes
<1> QED
  BY <1>3, <1>4 DEF PeerTypes

\* What a step does to the barriers.
LEMMA SyncsNext ==
  ASSUME [Next]_vars
  PROVE  \/ syncs' = syncs
         \/ \E p \in Peer :
              \/ syncs' = [syncs EXCEPT ![p] = <<>>]
              \/ syncs' = [syncs EXCEPT ![p] =
                             Append(@, [limit |-> epoch, alive |-> TRUE])]
              \/ LoseCallback(p)
              \/ syncs[p] # <<>> /\ syncs' = [syncs EXCEPT ![p] = Tail(@)]
BY DEF Next, Publish, vars, passVars, Calls, Requests, Connect, Close, Drain,
   DestroyClient, CompleteSync, Subscribe, RemoveRegistry,
   AckGlobalRemove, LoseRegistry, AddGlobal, AddGlobalFails, RemoveGlobal,
   BeginPass, EndPass, DropSync, SendDone, Block, Skip, Returns, Takes,
   DropRegistry, SendOffer, Serves, Visits, SyncIsNext

\* A barrier keeps an epoch there has been.
LEMMA SyncTypesNext ==
  ASSUME TableTypes, SyncTypes, [Next]_vars
  PROVE  SyncTypes'
<1>1. \/ syncs' = syncs
      \/ \E p \in Peer :
           \/ syncs' = [syncs EXCEPT ![p] = <<>>]
           \/ syncs' = [syncs EXCEPT ![p] =
                          Append(@, [limit |-> epoch, alive |-> TRUE])]
           \/ LoseCallback(p)
           \/ syncs[p] # <<>> /\ syncs' = [syncs EXCEPT ![p] = Tail(@)]
  BY SyncsNext
<1>2. [limit |-> epoch, alive |-> TRUE] \in Barrier
  BY DEF TableTypes, Barrier
<1>3. ASSUME NEW p \in Peer, LoseCallback(p)
      PROVE  SyncTypes'
  <2>1. PICK i \in DOMAIN syncs[p] :
          syncs' = [syncs EXCEPT ![p][i].alive = FALSE]
    BY <1>3 DEF LoseCallback
  <2>2. syncs[p] \in Seq(Barrier) /\ syncs[p][i] \in Barrier
    BY DEF SyncTypes
  <2>3. [syncs[p][i] EXCEPT !.alive = FALSE] \in Barrier
    BY <2>2 DEF Barrier
  <2>4. [syncs[p] EXCEPT ![i] = [syncs[p][i] EXCEPT !.alive = FALSE]]
          \in Seq(Barrier)
    BY <2>2, <2>3
  <2>5. syncs' = [syncs EXCEPT ![p] =
          [syncs[p] EXCEPT ![i] = [syncs[p][i] EXCEPT !.alive = FALSE]]]
    BY <2>1
  <2> QED
    BY <2>4, <2>5 DEF SyncTypes
<1>4. ASSUME NEW p \in Peer, NEW q \in Seq(Barrier),
             syncs' = [syncs EXCEPT ![p] = q]
      PROVE  SyncTypes'
  BY <1>4 DEF SyncTypes
<1>5. \A p \in Peer : syncs[p] \in Seq(Barrier)
  BY DEF SyncTypes
<1>6. <<>> \in Seq(Barrier)
  OBVIOUS
<1>7. CASE syncs' = syncs
  BY <1>7 DEF SyncTypes
<1>8. ASSUME NEW p \in Peer,
             \/ syncs' = [syncs EXCEPT ![p] = <<>>]
             \/ syncs' = [syncs EXCEPT ![p] =
                            Append(@, [limit |-> epoch, alive |-> TRUE])]
             \/ syncs[p] # <<>> /\ syncs' = [syncs EXCEPT ![p] = Tail(@)]
      PROVE  SyncTypes'
  <2>1. CASE syncs' = [syncs EXCEPT ![p] = <<>>]
    BY <1>4, <1>6, <2>1
  <2>2. CASE syncs' = [syncs EXCEPT ![p] =
                        Append(@, [limit |-> epoch, alive |-> TRUE])]
    <3>1. PICK q \in Seq(Barrier) :
            q = Append(syncs[p], [limit |-> epoch, alive |-> TRUE])
      <4>1. syncs[p] \in Seq(Barrier)
        BY <1>5
      <4> QED
        BY <1>2, <4>1, AppendProperties, Zenon
    <3>2. syncs' = [syncs EXCEPT ![p] = q]
      BY <2>2, <3>1
    <3> QED
      BY <1>4, <3>2
  <2>3. CASE syncs[p] # <<>> /\ syncs' = [syncs EXCEPT ![p] = Tail(@)]
    <3>1. PICK q \in Seq(Barrier) : q = Tail(syncs[p])
      <4>1. syncs[p] \in Seq(Barrier)
        BY <1>5
      <4> QED
        BY <2>3, <4>1, HeadTailProperties, Zenon
    <3>2. syncs' = [syncs EXCEPT ![p] = q]
      BY <2>3, <3>1
    <3> QED
      BY <1>4, <3>2
  <2> QED
    BY <1>8, <2>1, <2>2, <2>3
<1> QED
  BY <1>1, <1>3, <1>7, <1>8

\* The cursor and the countdown move by visits.
LEMMA CursorTypesNext ==
  ASSUME CursorTypes, [Next]_vars
  PROVE  CursorTypes'
<1>1. \/ cursor' = cursor
      \/ \E p \in Peer : cursor' = p + 1
  BY DEF Next, Publish, vars, passVars, Calls, Requests, Connect, Close, Drain,
     DestroyClient, CompleteSync, LoseCallback, Subscribe, RemoveRegistry,
     AckGlobalRemove, LoseRegistry, AddGlobal, AddGlobalFails, RemoveGlobal,
     BeginPass, EndPass, DropSync, SendDone, Block, Skip, Returns, Takes,
     DropRegistry, SendOffer, Serves, Visits
<1>2. \/ left' = left \/ left' = SlotCount
      \/ left > 0 /\ left' = left - 1
  BY DEF Next, Publish, vars, passVars, Calls, Requests, Connect, Close, Drain,
     DestroyClient, CompleteSync, LoseCallback, Subscribe, RemoveRegistry,
     AckGlobalRemove, LoseRegistry, AddGlobal, AddGlobalFails, RemoveGlobal,
     BeginPass, EndPass, DropSync, SendDone, Block, Skip, Returns, Takes,
     DropRegistry, SendOffer, Serves, Visits
<1> QED
  BY <1>1, <1>2, SlotAssumption DEF CursorTypes, Peer

\* A pass runs or does not, and marks peers.
LEMMA MarkTypesNext ==
  ASSUME MarkTypes, [Next]_vars
  PROVE  MarkTypes'
<1>1. publishing' \in {TRUE, FALSE} \/ publishing' = publishing
  BY DEF Next, Publish, vars, passVars, Calls, Requests, Connect, Close, Drain,
     DestroyClient, CompleteSync, LoseCallback, Subscribe, RemoveRegistry,
     AckGlobalRemove, LoseRegistry, AddGlobal, AddGlobalFails, RemoveGlobal,
     BeginPass, EndPass, DropSync, SendDone, Block, Skip, Returns, Takes,
     DropRegistry, SendOffer, Serves, Visits
<1>2. \/ blocked' = blocked \/ blocked' = {}
      \/ \E p \in Peer : blocked' = blocked \cup {p}
  BY DEF Next, Publish, vars, passVars, Calls, Requests, Connect, Close, Drain,
     DestroyClient, CompleteSync, LoseCallback, Subscribe, RemoveRegistry,
     AckGlobalRemove, LoseRegistry, AddGlobal, AddGlobalFails, RemoveGlobal,
     BeginPass, EndPass, DropSync, SendDone, Block, Skip, Returns, Takes,
     DropRegistry, SendOffer, Serves, Visits
<1>3. blocked' \subseteq Peer
  BY <1>2 DEF MarkTypes
<1> QED
  BY <1>1, <1>3 DEF MarkTypes

\* A visit in vain adds its slot to those with nothing to do.
LEMMA SkipCounts ==
  ASSUME PassTypes, VisitsCount, NEW p \in Peer, Skip(p)
  PROVE  VisitsCount'
<1>1. /\ publishing /\ publishing' /\ blocked' = blocked
      /\ left > 0 /\ left' = left - 1 /\ cursor' = p + 1 /\ Visits(p)
      /\ UNCHANGED <<phase, room, syncs, owner, offers>>
  BY DEF Skip, Visits, tableVars
<1>2. Settles(p)
  BY <1>1 DEF Skip, Serves, Settles, VisitsCount
<1>3. \A q \in Peer : Settles(q)' <=> Settles(q)
  BY <1>1 DEF Settles, Pending
<1>4. ASSUME NEW q \in Peer, Age(q)' <= SlotCount - left'
      PROVE  Settles(q)
  <2>1. CASE q = p
    BY <1>2, <2>1
  <2>2. CASE q # p
    <3>1. Age(q)' = Age(q) + 1
      BY <1>1, <2>2, VisitAges DEF PassTypes
    <3>2. Age(q) <= SlotCount - left
      BY <1>1, <1>4, <3>1, AgeRange, SlotAssumption
         DEF PassTypes, CursorTypes
    <3> QED
      BY <1>1, <3>2 DEF VisitsCount
  <2> QED
    BY <2>1, <2>2
<1> QED
  BY <1>1, <1>3, <1>4 DEF VisitsCount

\* Every step of the program keeps the count.
LEMMA VisitsCountNext ==
  ASSUME TableTypes, PassTypes, PassTypes', VisitsCount, [Next]_vars
  PROVE  VisitsCount'
<1>1. CASE UNCHANGED vars
  BY <1>1 DEF vars, passVars, tableVars, VisitsCount, Age, Settles, Pending
<1>2. CASE Calls
  BY <1>2 DEF Calls, passVars, VisitsCount
<1>3. CASE BeginPass
  <2>1. \A q \in Peer : Age(q)' \in 1..SlotCount
    BY NextAgeRange DEF PassTypes
  <2> QED
    BY <1>3, <2>1, SlotAssumption DEF BeginPass, VisitsCount
<1>4. CASE EndPass
  BY <1>4 DEF EndPass, VisitsCount
<1>5. ASSUME NEW p \in Peer, DropSync(p)
      PROVE  VisitsCount'
  <2>1. \A q \in Peer : syncs[q] = <<>> => syncs'[q] = <<>>
    BY <1>5 DEF DropSync, SyncIsNext, PassTypes, SyncTypes
  <2>2. \A q \in Peer : Pending(q)' = Pending(q)
    BY <1>5 DEF DropSync, Pending, tableVars
  <2> QED
    BY <1>5, <2>1, <2>2, ServeKeepsCount DEF DropSync
<1>6. ASSUME NEW p \in Peer, NEW r \in Registry, DropRegistry(p, r)
      PROVE  VisitsCount'
  <2>1. \A q \in Peer : Pending(q)' \subseteq Pending(q)
    BY <1>6, UnlinkOwesNoMore DEF DropRegistry, UnlinkAndCollect
  <2> QED
    BY <1>6, <2>1, ServeKeepsCount DEF DropRegistry
<1>7. ASSUME NEW p \in Peer,
             \/ SendDone(p)
             \/ \E r \in Registry, g \in Global : SendOffer(p, r, g)
      PROVE  VisitsCount'
  <2>1. /\ Visits(p) /\ Returns(p) /\ p \notin blocked /\ blocked' = blocked
        /\ room' = [room EXCEPT ![p] = @ - 1]
    BY <1>7 DEF SendDone, SendOffer, Serves, Takes
  <2>2. \A q \in blocked' : room'[q] = 0
    BY <2>1 DEF VisitsCount, PassTypes, PeerTypes, MarkTypes
  <2> QED
    BY <2>1, <2>2, ReturnStartsOver DEF PassTypes
<1>8. ASSUME NEW p \in Peer, Block(p)
      PROVE  VisitsCount'
  <2>1. \A q \in blocked' : room'[q] = 0
    BY <1>8 DEF Block, VisitsCount
  <2> QED
    BY <1>8, <2>1, ReturnStartsOver DEF Block, Serves, PassTypes
<1>9. ASSUME NEW p \in Peer, Skip(p)
      PROVE  VisitsCount'
  BY <1>9, SkipCounts
<1>10. [Next]_vars => \/ UNCHANGED vars \/ Calls \/ Publish
  BY DEF Next, Connect, Close, Drain, DestroyClient, CompleteSync,
     LoseCallback, Subscribe, RemoveRegistry, AckGlobalRemove, Requests,
     LoseRegistry, AddGlobal, AddGlobalFails, RemoveGlobal
<1> QED
  BY <1>1, <1>2, <1>3, <1>4, <1>5, <1>6, <1>7, <1>8, <1>9, <1>10 DEF Publish

\* PassInv holds in every reachable state: outside a pass nothing is counted,
\* and a pass counts a slot only after it looked at it in vain.
THEOREM PassInvariance == Spec => []PassInv
<1>1. Init => PassInv
  <2> SUFFICES ASSUME Init PROVE PassInv
    OBVIOUS
  <2>1. PeerTypes
    BY RoomAssumption DEF Init, PeerTypes
  <2>2. SyncTypes
    BY DEF Init, SyncTypes
  <2>3. CursorTypes
    BY SlotAssumption DEF Init, CursorTypes
  <2>4. MarkTypes
    BY DEF Init, MarkTypes
  <2>5. VisitsCount
    BY DEF Init, VisitsCount
  <2> QED
    BY <2>1, <2>2, <2>3, <2>4, <2>5, InitInv DEF PassInv, PassTypes
<1>2. PassInv /\ [Next]_vars => PassInv'
  <2> SUFFICES ASSUME PassInv, [Next]_vars PROVE PassInv'
    OBVIOUS
  <2>1. /\ Inv /\ TableTypes /\ PassTypes /\ VisitsCount
        /\ PeerTypes /\ SyncTypes /\ CursorTypes /\ MarkTypes
    BY DEF PassInv, Inv, PassTypes
  <2>2. Inv'
    BY <2>1, NextInv
  <2>3. PassTypes'
    BY <2>1, PeerTypesNext, SyncTypesNext, CursorTypesNext, MarkTypesNext
       DEF PassTypes
  <2> QED
    BY <2>1, <2>2, <2>3, VisitsCountNext DEF PassInv
<1> QED
  BY <1>1, <1>2, PTL DEF Spec

\* The tables, the barriers and the cursor hold what their types allow: no
\* peer's room is overdrawn and no epoch is later than the latest.
THEOREM TypeCorrect == Spec => []TypeOK
<1>1. PassInv => TypeOK
  BY DEF PassInv, Inv, TableTypes, PassTypes, PeerTypes, SyncTypes,
     CursorTypes, MarkTypes, Barrier, TypeOK
<1> QED
  BY <1>1, PassInvariance, PTL

\* A pass ends with every open peer told all it is owed or out of room,
\* wherever the previous pass left the cursor and whoever else was served.
THEOREM PassesAreComplete == Spec => PassServesAll
<1>1. PassInv /\ [Next]_vars =>
        [publishing /\ ~publishing' =>
           \A p \in Peer : phase[p] = "open" =>
             room[p] = 0 \/ (syncs[p] = <<>> /\ Pending(p) = {})]_vars
  <2> SUFFICES ASSUME PassInv, [Next]_vars, publishing, ~publishing',
                      NEW p \in Peer
               PROVE  Settles(p)
    BY DEF Settles
  <2>1. EndPass
    BY DEF Next, Publish, vars, passVars, Calls, Connect, Close, Drain,
       DestroyClient, CompleteSync, LoseCallback, Subscribe, RemoveRegistry,
       AckGlobalRemove, Requests, LoseRegistry, AddGlobal, AddGlobalFails,
       RemoveGlobal, BeginPass, DropSync, SendDone, Block, Skip, Returns,
       DropRegistry, SendOffer
  <2>2. left = 0
    BY <2>1 DEF EndPass
  <2>3. Age(p) <= SlotCount - left
    BY <2>2, AgeRange, SlotAssumption DEF PassInv, PassTypes
  <2> QED
    BY <2>3 DEF PassInv, VisitsCount
<1> QED
  BY <1>1, PassInvariance, PTL DEF Spec, PassServesAll
=============================================================================
