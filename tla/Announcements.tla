---------------------------- MODULE Announcements ----------------------------
(***************************************************************************)
(* What the registry promises a client: it is told of the globals of the   *)
(* server, and its syncs are answered, in the order in which things        *)
(* happened.                                                               *)
(*                                                                         *)
(* Each client has a queue of batches.  Whatever happens on the server     *)
(* appends one batch: the initial listing of a new registry, the           *)
(* announcement of a global to all its registries, a removal, the answer   *)
(* to a sync.  The client is told the events of the first batch, in any    *)
(* order, before those of the next.  A removal withdraws announcements     *)
(* that were not sent yet instead of following them.                       *)
(***************************************************************************)
EXTENDS Naturals, Sequences, FiniteSets

CONSTANTS Client, Registry, Global,
          Visible,     \* the pairs <<client, global>> the filter lets pass
          Nobody       \* the owner of a registry that does not exist

VARIABLES globals,   \* the live globals
          used,      \* every name given out so far
          owner,     \* owner[r]: the client of registry r, or Nobody
          told,      \* the pairs <<r, g>> announced and not yet taken back
          owed       \* owed[c]: the batches client c has still to be told

vars == <<globals, used, owner, told, owed>>

Add(r, g) == [kind |-> "global", registry |-> r, global |-> g]
Remove(r, g) == [kind |-> "global_remove", registry |-> r, global |-> g]
Done == [kind |-> "done"]

Adds(R, G) == {Add(r, g) : r \in R, g \in G}

\* Empty batches are not kept.
Put(queue, batch) == IF batch = {} THEN queue ELSE Append(queue, batch)

\* What is left of a queue without some events.
Without(queue, events) ==
  LET rest == [i \in DOMAIN queue |-> queue[i] \ events]
      kept == {i \in DOMAIN queue : rest[i] # {}}
  IN  [j \in 1..Cardinality(kept) |->
         rest[CHOOSE i \in kept : Cardinality({k \in kept : k < i}) = j - 1]]

\* What is left of a queue when one event of its first batch was told.
Rest(queue, event) ==
  IF Head(queue) = {event} THEN Tail(queue)
                           ELSE [queue EXCEPT ![1] = @ \ {event}]

RegistriesOf(c) == {r \in Registry : owner[r] = c}

Init == /\ globals = {}
        /\ used = {}
        /\ owner = [r \in Registry |-> Nobody]
        /\ told = {}
        /\ owed = [c \in Client |-> <<>>]

Subscribe(c, r) ==
  /\ owner[r] = Nobody
  /\ owner' = [owner EXCEPT ![r] = c]
  /\ LET visible == {g \in globals : <<c, g>> \in Visible}
     IN owed' = [owed EXCEPT ![c] = Put(@, Adds({r}, visible))]
  /\ UNCHANGED <<globals, used, told>>

AddGlobal(g) ==
  /\ g \notin used
  /\ used' = used \cup {g}
  /\ globals' = globals \cup {g}
  /\ owed' = [c \in Client |->
       IF <<c, g>> \in Visible THEN Put(owed[c], Adds(RegistriesOf(c), {g}))
                               ELSE owed[c]]
  /\ UNCHANGED <<owner, told>>

\* A name may be spent without a global.
SpendName(g) ==
  /\ g \notin used
  /\ used' = used \cup {g}
  /\ UNCHANGED <<globals, owner, told, owed>>

RemoveGlobal(g) ==
  /\ g \in globals
  /\ globals' = globals \ {g}
  /\ owed' = [c \in Client |->
       Put(Without(owed[c], Adds(Registry, {g})),
           {Remove(r, g) : r \in {q \in RegistriesOf(c) : <<q, g>> \in told}})]
  /\ UNCHANGED <<used, owner, told>>

Sync(c) ==
  /\ owed' = [owed EXCEPT ![c] = Append(@, {Done})]
  /\ UNCHANGED <<globals, used, owner, told>>

\* The callback of a sync disappears before it was answered.
CancelSync(c) ==
  /\ \E i \in DOMAIN owed[c] :
       /\ owed[c][i] = {Done}
       /\ owed' = [owed EXCEPT ![c] =
            SubSeq(@, 1, i - 1) \o SubSeq(@, i + 1, Len(@))]
  /\ UNCHANGED <<globals, used, owner, told>>

\* Registries R disappear with all that was owed to them.
Forget(R) ==
  /\ owner' = [r \in Registry |-> IF r \in R THEN Nobody ELSE owner[r]]
  /\ told' = {pair \in told : pair[1] \notin R}

Unsubscribe(r) ==
  /\ owner[r] # Nobody
  /\ Forget({r})
  /\ owed' = [owed EXCEPT ![owner[r]] =
       Without(@, Adds({r}, Global) \cup {Remove(r, g) : g \in Global})]
  /\ UNCHANGED <<globals, used>>

Disconnect(c) ==
  /\ Forget(RegistriesOf(c))
  /\ owed' = [owed EXCEPT ![c] = <<>>]
  /\ UNCHANGED <<globals, used>>

\* The client is told one event of its first batch.  Nothing is announced
\* twice, and nothing is taken back that was not announced.
Tell(c) ==
  /\ owed[c] # <<>>
  /\ \E event \in Head(owed[c]) :
       /\ owed' = [owed EXCEPT ![c] = Rest(@, event)]
       /\ CASE event.kind = "global" ->
                 /\ <<event.registry, event.global>> \notin told
                 /\ event.global \in globals
                 /\ told' = told \cup {<<event.registry, event.global>>}
            [] event.kind = "global_remove" ->
                 /\ <<event.registry, event.global>> \in told
                 /\ told' = told \ {<<event.registry, event.global>>}
            [] OTHER -> UNCHANGED told
  /\ UNCHANGED <<globals, used, owner>>

Next == \/ \E c \in Client : \/ Sync(c) \/ CancelSync(c) \/ Disconnect(c)
                             \/ Tell(c)
                             \/ \E r \in Registry : Subscribe(c, r)
        \/ \E r \in Registry : Unsubscribe(r)
        \/ \E g \in Global : AddGlobal(g) \/ SpendName(g) \/ RemoveGlobal(g)

Spec == Init /\ [][Next]_vars

=============================================================================
