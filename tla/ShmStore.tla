------------------------------- MODULE ShmStore -------------------------------
(***************************************************************************)
(* The shared-memory store (`shm.Store`) and its SIGBUS guard.             *)
(*                                                                         *)
(* A pool maps a file of the client.  Its protocol resource, its buffers   *)
(* and the pins of importers each keep the mapping; growth is put off      *)
(* while a pin needs the mapping to stay where it is.  The client goes on  *)
(* owning the file: it truncates and seals it at any time, and an access   *)
(* past its end raises SIGBUS, which the handler survives only for the     *)
(* pool of a guarded scope of this thread.                                 *)
(*                                                                         *)
(* Sizes are counted in pages, a buffer is known by the page where it      *)
(* ends, and a token is the slot it names: the generation checks refuse a  *)
(* call, so a stale token changes nothing.                                 *)
(***************************************************************************)
EXTENDS Naturals, FiniteSets

CONSTANTS Pool, Buffer, Pin,  \* the slots of the store
          Scope,              \* bound: accesses open at one time
          MaxSize,            \* max_pool_bytes
          NoPool, NoPin       \* none of them

Size == 1..MaxSize

ASSUME SizeAssumption == MaxSize \in Nat
ASSUME FiniteAssumption == IsFiniteSet(Buffer) /\ IsFiniteSet(Pin) /\ IsFiniteSet(Scope)
ASSUME NoneAssumption == NoPool \notin Pool /\ NoPin \notin Pin

VARIABLES
  pools,       \* the nodes of the pools
  files,       \* the client's file behind each pool
  buffers,     \* buffers[b]: its pool and its end
  pins,        \* pins[x]: its pool and the end of its range
  scopes,      \* scopes[s]: its pin, and whether it is guarded
  activePool,  \* active_pool_address
  depth,       \* access_depth
  faulted,     \* backing_faulted
  crashed      \* a SIGBUS went to the action that was there before

guardVars == <<activePool, depth, faulted>>
vars == <<pools, files, buffers, pins, scopes, guardVars, crashed>>

FreePool == [active |-> FALSE, resource |-> FALSE, mapped |-> 0, declared |-> 0,
             pending |-> 0, bufferCount |-> 0, pinCount |-> 0,
             sealed |-> FALSE, invalid |-> FALSE, replaced |-> FALSE]
NoFile == [size |-> 0, sealed |-> FALSE]
NoBuffer == [pool |-> NoPool, end |-> 0]
Unpinned == NoBuffer
NoScope == [pin |-> NoPin, guarded |-> FALSE]

Init == /\ pools = [p \in Pool |-> FreePool]
        /\ files = [p \in Pool |-> NoFile]
        /\ buffers = [b \in Buffer |-> NoBuffer]
        /\ pins = [x \in Pin |-> Unpinned]
        /\ scopes = [s \in Scope |-> NoScope]
        /\ activePool = NoPool
        /\ depth = 0
        /\ faulted = FALSE
        /\ crashed = FALSE

-----------------------------------------------------------------------------
(* Pools. *)

\* Variant: seals are read, the size of the file is not.
CannotShrink(file, size) == file.sealed

\* fileCannotShrinkBelow.
CannotShrinkBelow(file, size) == file.sealed /\ file.size >= size

\* resize and applyPendingResize once mremap succeeded.
Remapped(p, size) ==
  [pools[p] EXCEPT !.mapped = size, !.declared = size, !.pending = 0,
                   !.sealed = CannotShrinkBelow(files[p], size)]

\* Variant: pins do not keep a pool.
UnusedByProtocol(node) == ~node.resource /\ node.bufferCount = 0

\* releasePoolIfUnused: the node as it is left.
Unused(node) == ~node.resource /\ node.bufferCount = 0 /\ node.pinCount = 0
Kept(node) == IF Unused(node) THEN FreePool ELSE node

\* A pool becomes node, or is unmapped and closed with its last reference.
Update(p, node) ==
  /\ pools' = [pools EXCEPT ![p] = Kept(node)]
  /\ files' = IF Unused(node) THEN [files EXCEPT ![p] = NoFile] ELSE files

AddPool(p, size, file) ==
  /\ ~pools[p].active
  /\ pools' = [pools EXCEPT ![p] =
       [FreePool EXCEPT !.active = TRUE, !.resource = TRUE,
                        !.mapped = size, !.declared = size,
                        !.sealed = CannotShrinkBelow(file, size)]]
  /\ files' = [files EXCEPT ![p] = file]
  /\ UNCHANGED <<buffers, pins, scopes, guardVars, crashed>>

DestroyPoolResource(p) ==
  /\ pools[p].resource
  /\ Update(p, [pools[p] EXCEPT !.resource = FALSE])
  /\ UNCHANGED <<buffers, pins, scopes, guardVars, crashed>>

Deferred(p, size) == [pools[p] EXCEPT !.declared = size, !.pending = size]

\* resize to a larger size, put off while pinned.
Grow(p, size) ==
  /\ pools[p].resource
  /\ size > pools[p].declared
  /\ pools' = [pools EXCEPT ![p] =
       IF @.pinCount # 0 THEN Deferred(p, size) ELSE Remapped(p, size)]
  /\ UNCHANGED <<files, buffers, pins, scopes, guardVars, crashed>>

\* resize to the declared size, which makes up for growth that failed.
Retry(p) ==
  /\ pools[p].resource
  /\ pools[p].pending # 0 /\ pools[p].pinCount = 0
  /\ pools' = [pools EXCEPT ![p] = Remapped(p, @.pending)]
  /\ UNCHANGED <<files, buffers, pins, scopes, guardVars, crashed>>

-----------------------------------------------------------------------------
(* Buffers and pins. *)

\* Checked against the declared size, mapped or not.
AddBuffer(b, p, end) ==
  /\ buffers[b].pool = NoPool
  /\ pools[p].resource
  /\ end <= pools[p].declared
  /\ buffers' = [buffers EXCEPT ![b] = [pool |-> p, end |-> end]]
  /\ pools' = [pools EXCEPT ![p].bufferCount = @ + 1]
  /\ UNCHANGED <<files, pins, scopes, guardVars, crashed>>

DestroyBuffer(b) ==
  LET p == buffers[b].pool IN
  /\ p # NoPool
  /\ buffers' = [buffers EXCEPT ![b] = NoBuffer]
  /\ Update(p, [pools[p] EXCEPT !.bufferCount = @ - 1])
  /\ UNCHANGED <<pins, scopes, guardVars, crashed>>

\* Growth that is due, applied before the pool is pinned again.
Settled(p) == IF pools[p].pending = 0 THEN pools[p] ELSE Remapped(p, pools[p].pending)

\* Variant: growth is applied under the pins that there are.
PinnableAnyway(p) == TRUE

Pinnable(p) == pools[p].pending = 0 \/ pools[p].pinCount = 0

\* pin, and prepareCopy.
PinBuffer(x, b) ==
  LET p == buffers[b].pool IN
  /\ p # NoPool
  /\ pins[x].pool = NoPool
  /\ Pinnable(p)
  /\ pins' = [pins EXCEPT ![x] = buffers[b]]
  /\ pools' = [pools EXCEPT ![p] = [Settled(p) EXCEPT !.pinCount = @ + 1]]
  /\ UNCHANGED <<files, buffers, scopes, guardVars, crashed>>

\* prepareCopy without an SQE, or into too short a destination.
CopyFails(b) ==
  LET p == buffers[b].pool IN
  /\ p # NoPool
  /\ Pinnable(p)
  /\ pools' = [pools EXCEPT ![p] = Settled(p)]
  /\ UNCHANGED <<files, buffers, pins, scopes, guardVars, crashed>>

\* unpin, and completeCopy whatever was read.  The pin is consumed before the
\* growth it held up is applied, which may fail.
Unpin(x) ==
  LET p == pins[x].pool
      node == [pools[p] EXCEPT !.pinCount = @ - 1]
      grown == [Remapped(p, pools[p].pending) EXCEPT !.pinCount = 0] IN
  /\ p # NoPool
  /\ \A s \in Scope : scopes[s].pin # x
  /\ pins' = [pins EXCEPT ![x] = Unpinned]
  /\ \/ Update(p, node)
     \/ /\ node.pinCount = 0 /\ node.pending # 0
        /\ Update(p, grown)
  /\ UNCHANGED <<buffers, scopes, guardVars, crashed>>

-----------------------------------------------------------------------------
(* Accesses. *)

\* Variant: any pool may be guarded, whichever is.
MayGuardAnother(p) == TRUE

\* One thread guards one pool at a time.
MayGuard(p) == activePool \in {NoPool, p}

\* beginAccess.
BeginAccess(s, x) ==
  LET p == pins[x].pool
      guarded == ~pools[p].sealed IN
  /\ p # NoPool
  /\ scopes[s].pin = NoPin
  /\ ~pools[p].invalid
  /\ guarded => MayGuard(p)
  /\ scopes' = [scopes EXCEPT ![s] = [pin |-> x, guarded |-> guarded]]
  /\ IF guarded
     THEN /\ activePool' = p
          /\ depth' = depth + 1
          /\ faulted' = (activePool # NoPool /\ faulted)
     ELSE UNCHANGED guardVars
  /\ UNCHANGED <<pools, files, buffers, pins, crashed>>

DepthWithout(s) == IF scopes[s].guarded THEN depth - 1 ELSE depth

\* Access.end: the outermost guarded one reports the fault, if there was one.
EndAccess(s) ==
  LET p == pins[scopes[s].pin].pool
      outermost == scopes[s].guarded /\ depth = 1 IN
  /\ scopes[s].pin # NoPin
  /\ scopes' = [scopes EXCEPT ![s] = NoScope]
  /\ depth' = DepthWithout(s)
  /\ activePool' = IF outermost THEN NoPool ELSE activePool
  /\ faulted' = (faulted /\ ~outermost)
  /\ pools' = IF outermost /\ faulted
              THEN [pools EXCEPT ![p].invalid = TRUE] ELSE pools
  /\ UNCHANGED <<files, buffers, pins, crashed>>

\* An access up to end raises SIGBUS.
Faults(p, end) == ~pools[p].replaced /\ files[p].size < end

\* handleSigbus, for a fault in pool p.
HandleSigbus(p) ==
  IF activePool = p
  THEN /\ faulted' = TRUE
       /\ pools' = [pools EXCEPT ![p].replaced = TRUE]
       /\ UNCHANGED <<activePool, depth, crashed>>
  ELSE crashed' = TRUE /\ UNCHANGED <<pools, guardVars>>

\* Pixels are read or written, by a scope or by the slice of a sealed pool.
\* An address past the mapping is not the handler's.
Touch(x) ==
  LET p == pins[x].pool IN
  /\ p # NoPool
  /\ \/ \E s \in Scope : scopes[s].pin = x
     \/ pools[p].sealed /\ ~pools[p].invalid
  /\ IF pins[x].end > pools[p].mapped
     THEN crashed' = TRUE /\ UNCHANGED <<pools, guardVars>>
     ELSE Faults(p, pins[x].end) /\ HandleSigbus(p)
  /\ UNCHANGED <<files, buffers, pins, scopes>>

-----------------------------------------------------------------------------
(* The client's file. *)

Truncate(p, size) ==
  /\ pools[p].active
  /\ size # files[p].size
  /\ files[p].sealed => size > files[p].size
  /\ files' = [files EXCEPT ![p].size = size]
  /\ UNCHANGED <<pools, buffers, pins, scopes, guardVars, crashed>>

Seal(p) ==
  /\ pools[p].active
  /\ ~files[p].sealed
  /\ files' = [files EXCEPT ![p].sealed = TRUE]
  /\ UNCHANGED <<pools, buffers, pins, scopes, guardVars, crashed>>

File == [size : 0..MaxSize, sealed : BOOLEAN]

Next ==
  \/ \E p \in Pool :
       \/ \E size \in Size, file \in File : AddPool(p, size, file)
       \/ DestroyPoolResource(p)
       \/ \E size \in Size : Grow(p, size)
       \/ Retry(p)
       \/ \E size \in 0..MaxSize : Truncate(p, size)
       \/ Seal(p)
  \/ \E b \in Buffer :
       \/ \E p \in Pool, end \in Size : AddBuffer(b, p, end)
       \/ DestroyBuffer(b)
       \/ CopyFails(b)
  \/ \E x \in Pin :
       \/ \E b \in Buffer : PinBuffer(x, b)
       \/ Unpin(x)
       \/ Touch(x)
  \/ \E s \in Scope :
       \/ \E x \in Pin : BeginAccess(s, x)
       \/ EndAccess(s)

Spec == Init /\ [][Next]_vars

-----------------------------------------------------------------------------
Node == [active : BOOLEAN, resource : BOOLEAN, mapped : 0..MaxSize,
         declared : 0..MaxSize, pending : 0..MaxSize,
         bufferCount : Nat, pinCount : Nat,
         sealed : BOOLEAN, invalid : BOOLEAN, replaced : BOOLEAN]
Ranges == [pool : Pool, end : Size] \union {NoBuffer}
Access == [pin : Pin, guarded : BOOLEAN] \union {NoScope}

BuffersOf(p) == {b \in Buffer : buffers[b].pool = p}
PinsOf(p) == {x \in Pin : pins[x].pool = p}
Open(s) == scopes[s].pin # NoPin
Guarded == {s \in Scope : scopes[s].guarded}

(* Types; and a closed scope is not a guarded one.                         *)
TypeOK == /\ pools \in [Pool -> Node]
          /\ files \in [Pool -> File]
          /\ buffers \in [Buffer -> Ranges]
          /\ pins \in [Pin -> Ranges]
          /\ scopes \in [Scope -> Access]
          /\ activePool \in Pool \union {NoPool}
          /\ depth \in Nat
          /\ faulted \in BOOLEAN
          /\ crashed \in BOOLEAN

(* A pool is mapped exactly as long as its resource, a buffer or a pin     *)
(* needs it, whichever of them goes last, and its counts are those of the  *)
(* buffers and the pins that there are.                                    *)
HeldWhileNeeded ==
  \A p \in Pool :
    /\ pools[p].bufferCount = Cardinality(BuffersOf(p))
    /\ pools[p].pinCount = Cardinality(PinsOf(p))
    /\ pools[p].active <=> \/ pools[p].resource
                           \/ BuffersOf(p) # {}
                           \/ PinsOf(p) # {}

(* While a pool is pinned nothing moves or unmaps it, and what is pinned   *)
(* lies inside the mapping.                                                *)
MappingIsStill ==
  [][\A x \in Pin :
       pins[x].pool # NoPool /\ pins'[x] = pins[x] =>
         LET p == pins[x].pool IN
         /\ pools'[p].active
         /\ pools'[p].mapped = pools[p].mapped
         /\ pins[x].end <= pools[p].mapped]_vars

(* No access to a file that its client truncates at any time brings the    *)
(* process down: what is read without a guard cannot fault, and what       *)
(* faults under a guard is the guarded pool's.                             *)
AccessIsSafe == ~crashed

(* A fault is reported against the pool whose file was truncated and no    *)
(* other: the guard is that of the open guarded scopes, and a mapping was  *)
(* replaced exactly if its pool is invalid or will be at the end of them.  *)
FaultIsItsPools ==
  /\ depth = Cardinality(Guarded)
  /\ activePool = NoPool <=> Guarded = {}
  /\ \A s \in Guarded : pins[scopes[s].pin].pool = activePool
  /\ faulted => activePool # NoPool
  /\ \A p \in Pool : pools[p].replaced <=>
       pools[p].invalid \/ (faulted /\ activePool = p)

(* Growth that was declared and put off is neither forgotten nor applied   *)
(* twice, however often the mapping could not be enlarged.                 *)
GrowthIsRemembered ==
  \A p \in Pool :
    /\ pools[p].declared >= pools[p].mapped
    /\ pools[p].pending = IF pools[p].declared = pools[p].mapped
                          THEN 0 ELSE pools[p].declared

=============================================================================
