--------------------------- MODULE ShmStoreProofs ----------------------------
(***************************************************************************)
(* Proofs about ShmStore, for any number of pools, buffers, pins and       *)
(* scopes, all but the pools finite, and for any size: counts and          *)
(* mappings, deferred growth, the safety of accesses and the attribution   *)
(* of faults.                                                              *)
(***************************************************************************)
EXTENDS ShmStore, FiniteSetTheorems, TLAPS

\* What is in use lies in what was declared, what is pinned in what is mapped.
BuffersFit ==
  \A b \in Buffer : buffers[b].pool # NoPool =>
    buffers[b].end <= pools[buffers[b].pool].declared
PinsFit ==
  \A x \in Pin : pins[x].pool # NoPool => pins[x].end <= pools[pins[x].pool].mapped

\* A pool taken for sealed is backed as far as it is mapped, for ever.
SealedHolds ==
  \A p \in Pool : pools[p].sealed => files[p].sealed /\ files[p].size >= pools[p].mapped

\* An open scope has a pin, and needs no guard only over a sealed pool.
ScopesStand ==
  \A s \in Scope : Open(s) =>
    /\ pins[scopes[s].pin].pool # NoPool
    /\ scopes[s].guarded \/ pools[pins[scopes[s].pin].pool].sealed

Inv == /\ TypeOK /\ HeldWhileNeeded /\ GrowthIsRemembered
       /\ BuffersFit /\ PinsFit /\ SealedHolds
       /\ ScopesStand /\ FaultIsItsPools /\ AccessIsSafe

-----------------------------------------------------------------------------
(***************************************************************************)
(* Counting.                                                               *)
(***************************************************************************)
\* A subset of a finite set is finite, and its count is that of its members.
LEMMA CountOf ==
  ASSUME NEW S, IsFiniteSet(S), NEW T \in SUBSET S
  PROVE  /\ IsFiniteSet(T)
         /\ Cardinality(T) \in Nat
         /\ Cardinality(T) = 0 <=> T = {}
BY FS_Subset, FS_CardinalityType, FS_EmptySet

\* One more, and one less.
LEMMA CountAdd ==
  ASSUME NEW S, IsFiniteSet(S), NEW T \in SUBSET S, NEW e \in S
  PROVE  /\ e \notin T => Cardinality(T \union {e}) = Cardinality(T) + 1
         /\ e \in T => Cardinality(T \ {e}) = Cardinality(T) - 1
<1>1. IsFiniteSet(T)
  BY FS_Subset
<1> QED
  BY <1>1, FS_AddElement, FS_RemoveElement

\* The buffers or the pins of a pool.
Of(S, f, p) == {c \in S : f[c].pool = p}

\* The buffers or pins of a pool when one of them changes its range.
LEMMA CountChanges ==
  ASSUME NEW S, IsFiniteSet(S), NEW e \in S, NEW f, NEW g, NEW r, NEW p,
         g[e] = r, \A c \in S \ {e} : g[c] = f[c]
  PROVE  LET old == Of(S, f, p)
             new == Of(S, g, p)
         IN /\ f[e].pool # p /\ r.pool = p => Cardinality(new) = Cardinality(old) + 1
            /\ f[e].pool = p /\ r.pool # p => Cardinality(new) = Cardinality(old) - 1
            /\ f[e].pool # p /\ r.pool # p => new = old
<1> DEFINE old == Of(S, f, p)
           new == Of(S, g, p)
<1>1. old \in SUBSET S
  BY DEF Of
<1>2. f[e].pool # p /\ r.pool = p => new = old \union {e} /\ e \notin old
  BY DEF Of
<1>3. f[e].pool = p /\ r.pool # p => new = old \ {e} /\ e \in old
  BY DEF Of
<1>4. f[e].pool # p /\ r.pool # p => new = old
  BY DEF Of
<1> HIDE DEF old, new
<1>5. /\ e \notin old => Cardinality(old \union {e}) = Cardinality(old) + 1
      /\ e \in old => Cardinality(old \ {e}) = Cardinality(old) - 1
  BY <1>1, CountAdd
<1>6. /\ f[e].pool # p /\ r.pool = p => Cardinality(new) = Cardinality(old) + 1
      /\ f[e].pool = p /\ r.pool # p => Cardinality(new) = Cardinality(old) - 1
      /\ f[e].pool # p /\ r.pool # p => new = old
  BY <1>2, <1>3, <1>4, <1>5
<1> QED
  BY <1>6 DEF old, new

\* The same for buffers.
LEMMA BufferCounts ==
  ASSUME TypeOK, NEW b \in Buffer, NEW r, buffers' = [buffers EXCEPT ![b] = r], NEW q \in Pool
  PROVE  /\ buffers[b].pool # q /\ r.pool = q =>
              Cardinality(BuffersOf(q)') = Cardinality(BuffersOf(q)) + 1
         /\ buffers[b].pool = q /\ r.pool # q =>
              Cardinality(BuffersOf(q)') = Cardinality(BuffersOf(q)) - 1
         /\ buffers[b].pool # q /\ r.pool # q => BuffersOf(q)' = BuffersOf(q)
<1>1. buffers'[b] = r /\ \A c \in Buffer \ {b} : buffers'[c] = buffers[c]
  BY DEF TypeOK
<1> DEFINE new == buffers'
           old == buffers
<1>2. new[b] = r /\ \A c \in Buffer \ {b} : new[c] = old[c]
  BY <1>1
<1> HIDE DEF new, old
<1>3. IsFiniteSet(Buffer)
  BY FiniteAssumption
<1>4. /\ old[b].pool # q /\ r.pool = q =>
           Cardinality(Of(Buffer, new, q)) = Cardinality(Of(Buffer, old, q)) + 1
      /\ old[b].pool = q /\ r.pool # q =>
           Cardinality(Of(Buffer, new, q)) = Cardinality(Of(Buffer, old, q)) - 1
      /\ old[b].pool # q /\ r.pool # q => Of(Buffer, new, q) = Of(Buffer, old, q)
  BY <1>2, <1>3, CountChanges
<1>5. BuffersOf(q) = Of(Buffer, old, q) /\ BuffersOf(q)' = Of(Buffer, new, q)
  BY DEF BuffersOf, Of, old, new
<1> QED
  BY <1>4, <1>5 DEF old

\* The same for pins.
LEMMA PinCounts ==
  ASSUME TypeOK, NEW x \in Pin, NEW r, pins' = [pins EXCEPT ![x] = r], NEW q \in Pool
  PROVE  /\ pins[x].pool # q /\ r.pool = q =>
              Cardinality(PinsOf(q)') = Cardinality(PinsOf(q)) + 1
         /\ pins[x].pool = q /\ r.pool # q =>
              Cardinality(PinsOf(q)') = Cardinality(PinsOf(q)) - 1
         /\ pins[x].pool # q /\ r.pool # q => PinsOf(q)' = PinsOf(q)
<1>1. pins'[x] = r /\ \A c \in Pin \ {x} : pins'[c] = pins[c]
  BY DEF TypeOK
<1> DEFINE new == pins'
           old == pins
<1>2. new[x] = r /\ \A c \in Pin \ {x} : new[c] = old[c]
  BY <1>1
<1> HIDE DEF new, old
<1>3. IsFiniteSet(Pin)
  BY FiniteAssumption
<1>4. /\ old[x].pool # q /\ r.pool = q =>
           Cardinality(Of(Pin, new, q)) = Cardinality(Of(Pin, old, q)) + 1
      /\ old[x].pool = q /\ r.pool # q =>
           Cardinality(Of(Pin, new, q)) = Cardinality(Of(Pin, old, q)) - 1
      /\ old[x].pool # q /\ r.pool # q => Of(Pin, new, q) = Of(Pin, old, q)
  BY <1>2, <1>3, CountChanges
<1>5. PinsOf(q) = Of(Pin, old, q) /\ PinsOf(q)' = Of(Pin, new, q)
  BY DEF PinsOf, Of, old, new
<1> QED
  BY <1>4, <1>5 DEF old

\* A pool has a count of zero exactly if it has none.
LEMMA CountsAreReal ==
  ASSUME TypeOK, HeldWhileNeeded, NEW p \in Pool
  PROVE  /\ pools[p].bufferCount \in Nat /\ pools[p].pinCount \in Nat
         /\ pools[p].bufferCount = 0 <=> BuffersOf(p) = {}
         /\ pools[p].pinCount = 0 <=> PinsOf(p) = {}
<1>1. BuffersOf(p) \in SUBSET Buffer /\ PinsOf(p) \in SUBSET Pin
  BY DEF BuffersOf, PinsOf
<1>2. /\ Cardinality(BuffersOf(p)) \in Nat
      /\ Cardinality(BuffersOf(p)) = 0 <=> BuffersOf(p) = {}
  BY <1>1, FiniteAssumption, CountOf
<1>3. /\ Cardinality(PinsOf(p)) \in Nat
      /\ Cardinality(PinsOf(p)) = 0 <=> PinsOf(p) = {}
  BY <1>1, FiniteAssumption, CountOf
<1> QED
  BY <1>2, <1>3 DEF HeldWhileNeeded

-----------------------------------------------------------------------------
(***************************************************************************)
(* Steps of one pool.                                                      *)
(***************************************************************************)
\* Who has a range of a pool keeps it.
LEMMA RangesHold ==
  ASSUME Inv
  PROVE  /\ \A b \in Buffer : buffers[b].pool # NoPool =>
              /\ buffers[b].pool \in Pool
              /\ pools[buffers[b].pool].active
              /\ pools[buffers[b].pool].bufferCount # 0
         /\ \A x \in Pin : pins[x].pool # NoPool =>
              /\ pins[x].pool \in Pool
              /\ pools[pins[x].pool].active
              /\ pools[pins[x].pool].pinCount # 0
<1>1. TypeOK /\ HeldWhileNeeded
  BY DEF Inv
<1>2. ASSUME NEW b \in Buffer, buffers[b].pool # NoPool
      PROVE  /\ buffers[b].pool \in Pool
             /\ pools[buffers[b].pool].active
             /\ pools[buffers[b].pool].bufferCount # 0
  <2>1. buffers[b].pool \in Pool
    BY <1>1, <1>2 DEF TypeOK, Ranges, NoBuffer
  <2>2. b \in BuffersOf(buffers[b].pool)
    BY DEF BuffersOf
  <2> QED
    BY <1>1, <2>1, <2>2, CountsAreReal DEF HeldWhileNeeded
<1>3. ASSUME NEW x \in Pin, pins[x].pool # NoPool
      PROVE  /\ pins[x].pool \in Pool
             /\ pools[pins[x].pool].active
             /\ pools[pins[x].pool].pinCount # 0
  <2>1. pins[x].pool \in Pool
    BY <1>1, <1>3 DEF TypeOK, Ranges, NoBuffer
  <2>2. x \in PinsOf(pins[x].pool)
    BY DEF PinsOf
  <2> QED
    BY <1>1, <2>1, <2>2, CountsAreReal DEF HeldWhileNeeded
<1> QED
  BY <1>2, <1>3

\* A guard is over a pool that is pinned.
LEMMA GuardIsPinned ==
  ASSUME Inv, activePool # NoPool
  PROVE  \E s \in Scope : /\ Open(s) /\ scopes[s].guarded
                          /\ scopes[s].pin \in Pin
                          /\ pins[scopes[s].pin].pool = activePool
<1>1. PICK s \in Scope : scopes[s].guarded
  BY DEF Inv, FaultIsItsPools, Guarded
<1>2. Open(s) /\ scopes[s].pin \in Pin
  BY <1>1, NoneAssumption DEF Inv, TypeOK, Access, NoScope, Open
<1>3. pins[scopes[s].pin].pool = activePool
  BY <1>1 DEF Inv, FaultIsItsPools, Guarded
<1> QED
  BY <1>1, <1>2, <1>3

\* What a pool and its file may be.
Stands(p, node, file) ==
  /\ node \in Node /\ file \in File
  /\ node.active
  /\ node.declared >= node.mapped
  /\ node.pending = IF node.declared = node.mapped THEN 0 ELSE node.declared
  /\ node.sealed /\ ~Unused(node) => file.sealed /\ file.size >= node.mapped
  /\ node.replaced <=> node.invalid \/ (faulted /\ activePool = p)

\* A pool becomes node and its file becomes file, and perhaps a buffer or a pin
\* of it comes or goes.
Becomes(p, node, file) ==
  /\ pools' = [pools EXCEPT ![p] = Kept(node)]
  /\ files' = [files EXCEPT ![p] = file]
  /\ buffers' \in [Buffer -> Ranges] /\ pins' \in [Pin -> Ranges]
  /\ UNCHANGED <<scopes, guardVars, crashed>>
  /\ node.bufferCount = Cardinality(BuffersOf(p)')
  /\ node.pinCount = Cardinality(PinsOf(p)')
  /\ \A q \in Pool \ {p} : BuffersOf(q)' = BuffersOf(q) /\ PinsOf(q)' = PinsOf(q)
  /\ \A b \in Buffer : \/ buffers'[b].pool = NoPool
                       \/ buffers'[b].pool = p /\ buffers'[b].end <= node.declared
                       \/ buffers'[b].pool # p /\ buffers'[b] = buffers[b]
  /\ \A x \in Pin : \/ pins'[x].pool = NoPool
                    \/ pins'[x].pool = p /\ pins'[x].end <= node.mapped
                    \/ pins'[x].pool # p /\ pins'[x] = pins[x]
  /\ \A s \in Scope : Open(s) =>
       /\ pins'[scopes[s].pin] = pins[scopes[s].pin]
       /\ pins[scopes[s].pin].pool = p /\ pools[p].sealed => node.sealed

\* Such a step keeps the invariant.
LEMMA PoolStep ==
  ASSUME Inv, NEW p \in Pool, NEW node, NEW file,
         Stands(p, node, file), Becomes(p, node, file)
  PROVE  Inv'
<1> USE DEF Stands, Becomes
<1> DEFINE B == BuffersOf(p)'
           P == PinsOf(p)'
<1>1. B = {b \in Buffer : buffers'[b].pool = p} /\ P = {x \in Pin : pins'[x].pool = p}
  BY DEF BuffersOf, PinsOf
<1>2. /\ node.bufferCount \in Nat /\ node.pinCount \in Nat
      /\ node.bufferCount = 0 <=> B = {}
      /\ node.pinCount = 0 <=> P = {}
  <2>1. B \in SUBSET Buffer /\ P \in SUBSET Pin
    BY <1>1
  <2>2. Cardinality(B) \in Nat /\ (Cardinality(B) = 0 <=> B = {})
    BY <2>1, FiniteAssumption, CountOf
  <2>3. Cardinality(P) \in Nat /\ (Cardinality(P) = 0 <=> P = {})
    BY <2>1, FiniteAssumption, CountOf
  <2> QED
    BY <2>2, <2>3
<1>3. FreePool \in Node /\ Kept(node) \in Node
  BY SizeAssumption DEF FreePool, Node, Kept
<1>4. pools'[p] = Kept(node) /\ files'[p] = file
  BY DEF Inv, TypeOK
<1>5. \A q \in Pool \ {p} : pools'[q] = pools[q] /\ files'[q] = files[q]
  BY DEF Inv, TypeOK
<1>6. Unused(node) => B = {} /\ P = {} /\ Kept(node) = FreePool /\ ~node.resource
  BY <1>2 DEF Unused, Kept
<1>7. ~Unused(node) => (node.resource \/ B # {} \/ P # {}) /\ Kept(node) = node
  BY <1>2 DEF Unused, Kept
<1>8. UNCHANGED <<scopes, activePool, depth, faulted, crashed>>
  BY DEF guardVars
<1>9. TypeOK'
  BY <1>3, <1>8 DEF Inv, TypeOK
<1>10. HeldWhileNeeded'
  <2>1. ASSUME NEW q \in Pool
        PROVE  /\ pools'[q].bufferCount = Cardinality(BuffersOf(q)')
               /\ pools'[q].pinCount = Cardinality(PinsOf(q)')
               /\ pools'[q].active <=> \/ pools'[q].resource
                                       \/ BuffersOf(q)' # {}
                                       \/ PinsOf(q)' # {}
    <3>1. CASE q # p
      BY <3>1, <1>5 DEF Inv, HeldWhileNeeded
    <3>2. CASE q = p /\ Unused(node)
      BY <3>2, <1>2, <1>4, <1>6 DEF FreePool
    <3>3. CASE q = p /\ ~Unused(node)
      BY <3>3, <1>4, <1>7
    <3> QED
      BY <3>1, <3>2, <3>3
  <2> QED
    BY <2>1 DEF HeldWhileNeeded
<1>11. GrowthIsRemembered'
  <2>1. FreePool.declared >= FreePool.mapped /\ FreePool.pending = 0
        /\ FreePool.declared = FreePool.mapped
    BY DEF FreePool
  <2> QED
    BY <2>1, <1>4, <1>5, <1>6, <1>7 DEF Inv, GrowthIsRemembered
<1>12. BuffersFit'
  <2>1. ASSUME NEW b \in Buffer, buffers'[b].pool # NoPool
        PROVE  buffers'[b].end <= pools'[buffers'[b].pool].declared
    <3>1. CASE buffers'[b].pool = p
      BY <3>1, <1>1, <1>4, <1>6, <1>7, NoneAssumption
    <3>2. CASE buffers'[b].pool # p
      BY <2>1, <3>2, <1>5, RangesHold DEF Inv, BuffersFit
    <3> QED
      BY <3>1, <3>2
  <2> QED
    BY <2>1 DEF BuffersFit
<1>13. PinsFit'
  <2>1. ASSUME NEW x \in Pin, pins'[x].pool # NoPool
        PROVE  pins'[x].end <= pools'[pins'[x].pool].mapped
    <3>1. CASE pins'[x].pool = p
      BY <3>1, <1>1, <1>4, <1>6, <1>7, NoneAssumption
    <3>2. CASE pins'[x].pool # p
      BY <2>1, <3>2, <1>5, RangesHold DEF Inv, PinsFit
    <3> QED
      BY <3>1, <3>2
  <2> QED
    BY <2>1 DEF PinsFit
<1>14. SealedHolds'
  <2>1. ~FreePool.sealed
    BY DEF FreePool
  <2> QED
    BY <2>1, <1>4, <1>5, <1>6, <1>7 DEF Inv, SealedHolds
<1>15. ScopesStand'
  <2>1. ASSUME NEW s \in Scope, Open(s)
        PROVE  /\ pins'[scopes[s].pin].pool # NoPool
               /\ \/ scopes[s].guarded
                  \/ pools'[pins'[scopes[s].pin].pool].sealed
    <3>1. scopes[s].pin \in Pin
      BY <2>1 DEF Inv, TypeOK, Access, NoScope, Open
    <3>2. pins'[scopes[s].pin] = pins[scopes[s].pin] /\ pins[scopes[s].pin].pool # NoPool
      BY <2>1 DEF Inv, ScopesStand
    <3>3. pins[scopes[s].pin].pool \in Pool
      BY <3>1, <3>2, RangesHold
    <3>4. CASE pins[scopes[s].pin].pool # p
      BY <2>1, <3>2, <3>3, <3>4, <1>5 DEF Inv, ScopesStand
    <3>5. CASE pins[scopes[s].pin].pool = p
      <4>1. ~Unused(node)
        BY <3>1, <3>2, <3>5, <1>1, <1>6
      <4> QED
        BY <2>1, <3>2, <3>5, <4>1, <1>4, <1>7 DEF Inv, ScopesStand
    <3> QED
      BY <3>4, <3>5
  <2> QED
    BY <2>1, <1>8 DEF ScopesStand, Open
<1>16. FaultIsItsPools'
  <2>1. Guarded' = Guarded
    BY <1>8 DEF Guarded
  <2>2. \A s \in Guarded : pins'[scopes[s].pin].pool = activePool
    <3>1. ASSUME NEW s \in Guarded
          PROVE  Open(s)
      BY NoneAssumption DEF Inv, TypeOK, Access, NoScope, Open, Guarded
    <3> QED
      BY <3>1 DEF Inv, FaultIsItsPools, Guarded
  <2>3. ASSUME NEW q \in Pool
        PROVE  pools'[q].replaced <=> pools'[q].invalid \/ (faulted /\ activePool = q)
    <3>1. CASE q # p
      BY <3>1, <1>5 DEF Inv, FaultIsItsPools
    <3>2. CASE q = p /\ Unused(node)
      <4>1. activePool # p
        <5> SUFFICES ASSUME activePool = p
                     PROVE  P # {}
          BY <3>2, <1>6
        <5>1. activePool # NoPool
          BY NoneAssumption
        <5>2. PICK s \in Scope : /\ Open(s) /\ scopes[s].pin \in Pin
                                 /\ pins[scopes[s].pin].pool = p
          BY <5>1, GuardIsPinned
        <5> QED
          BY <5>2, <1>1
      <4> QED
        BY <4>1, <3>2, <1>4, <1>6 DEF FreePool
    <3>3. CASE q = p /\ ~Unused(node)
      BY <3>3, <1>4, <1>7
    <3> QED
      BY <3>1, <3>2, <3>3
  <2> QED
    BY <2>1, <2>2, <2>3, <1>8 DEF Inv, FaultIsItsPools
<1>17. AccessIsSafe'
  BY <1>8 DEF Inv, AccessIsSafe
<1> QED
  BY <1>9, <1>10, <1>11, <1>12, <1>13, <1>14, <1>15, <1>16, <1>17 DEF Inv

\* The same when no buffer and no pin comes or goes.
LEMMA NodeStep ==
  ASSUME Inv, NEW p \in Pool, NEW node, NEW file,
         Stands(p, node, file),
         pools' = [pools EXCEPT ![p] = Kept(node)],
         files' = [files EXCEPT ![p] = file],
         UNCHANGED <<buffers, pins, scopes, guardVars, crashed>>,
         node.bufferCount = pools[p].bufferCount,
         node.pinCount = pools[p].pinCount,
         node.declared >= pools[p].declared,
         node.mapped >= pools[p].mapped,
         pools[p].pinCount = 0 \/ (pools[p].sealed => node.sealed)
  PROVE  Inv'
<1>0. node \in Node
  BY DEF Stands
<1>1. buffers' = buffers /\ pins' = pins /\ scopes' = scopes
  OBVIOUS
<1>2. /\ buffers' \in [Buffer -> Ranges] /\ pins' \in [Pin -> Ranges]
      /\ pools \in [Pool -> Node]
  BY <1>1 DEF Inv, TypeOK
<1>3. \A q \in Pool : BuffersOf(q)' = BuffersOf(q) /\ PinsOf(q)' = PinsOf(q)
  BY <1>1 DEF BuffersOf, PinsOf
<1>4. /\ node.bufferCount = Cardinality(BuffersOf(p)')
      /\ node.pinCount = Cardinality(PinsOf(p)')
  BY <1>3 DEF Inv, HeldWhileNeeded
<1>5. ASSUME NEW b \in Buffer, buffers[b].pool = p
      PROVE  buffers[b].end <= node.declared
  <2>1. buffers[b].end <= pools[p].declared
    BY <1>5, NoneAssumption DEF Inv, BuffersFit
  <2>2. /\ buffers[b].end \in Nat /\ pools[p].declared \in Nat /\ node.declared \in Nat
    BY <1>0, <1>2, <1>5, SizeAssumption DEF Inv, TypeOK, Ranges, NoBuffer, Size, Node
  <2> QED
    BY <2>1, <2>2
<1>6. ASSUME NEW x \in Pin, pins[x].pool = p
      PROVE  pins[x].end <= node.mapped
  <2>1. pins[x].end <= pools[p].mapped
    BY <1>6, NoneAssumption DEF Inv, PinsFit
  <2>2. /\ pins[x].end \in Nat /\ pools[p].mapped \in Nat /\ node.mapped \in Nat
    BY <1>0, <1>2, <1>6, SizeAssumption DEF Inv, TypeOK, Ranges, NoBuffer, Size, Node
  <2> QED
    BY <2>1, <2>2
<1>7. ASSUME NEW s \in Scope, Open(s), pins[scopes[s].pin].pool = p, pools[p].sealed
      PROVE  node.sealed
  <2>1. scopes[s].pin \in Pin
    BY <1>7 DEF Inv, TypeOK, Access, NoScope, Open
  <2> QED
    BY <1>7, <2>1, RangesHold, NoneAssumption
<1>8. \A b \in Buffer : \/ buffers'[b].pool = NoPool
                        \/ buffers'[b].pool = p /\ buffers'[b].end <= node.declared
                        \/ buffers'[b].pool # p /\ buffers'[b] = buffers[b]
  BY <1>1, <1>5
<1>9. \A x \in Pin : \/ pins'[x].pool = NoPool
                     \/ pins'[x].pool = p /\ pins'[x].end <= node.mapped
                     \/ pins'[x].pool # p /\ pins'[x] = pins[x]
  BY <1>1, <1>6
<1>10. \A s \in Scope : Open(s) =>
         /\ pins'[scopes[s].pin] = pins[scopes[s].pin]
         /\ pins[scopes[s].pin].pool = p /\ pools[p].sealed => node.sealed
  BY <1>1, <1>7
<1>11. UNCHANGED <<scopes, guardVars, crashed>>
  OBVIOUS
<1>12. Becomes(p, node, file)
  BY <1>2, <1>3, <1>4, <1>8, <1>9, <1>10, <1>11 DEF Becomes
<1> QED
  BY <1>12, PoolStep

\* A mapping of the larger size; only a pool without pins gets one.
LEMMA RemappedNode ==
  ASSUME Inv, NEW p \in Pool, NEW size \in Size
  PROVE  LET node == Remapped(p, size) IN
         /\ node \in Node
         /\ node.active = pools[p].active /\ node.resource = pools[p].resource
         /\ node.bufferCount = pools[p].bufferCount /\ node.pinCount = pools[p].pinCount
         /\ node.mapped = size /\ node.declared = size /\ node.pending = 0
         /\ node.sealed => files[p].sealed /\ files[p].size >= size
         /\ node.invalid = pools[p].invalid /\ node.replaced = pools[p].replaced
<1>1. /\ pools[p] \in Node /\ files[p] \in File
      /\ size \in 0..MaxSize /\ 0 \in 0..MaxSize
  BY SizeAssumption DEF Inv, TypeOK, Size
<1>2. CannotShrinkBelow(files[p], size) \in BOOLEAN
  BY <1>1 DEF CannotShrinkBelow, File
<1> QED
  BY <1>1, <1>2 DEF Remapped, Node, CannotShrinkBelow

\* What growth a pool has to come is larger than what it maps.
LEMMA PendingGrows ==
  ASSUME Inv, NEW p \in Pool, pools[p].pending # 0
  PROVE  /\ pools[p].pending \in Size /\ pools[p].pending = pools[p].declared
         /\ pools[p].pending >= pools[p].mapped
BY SizeAssumption DEF Inv, GrowthIsRemembered, TypeOK, Node, Size

\* A pool before it is pinned.
LEMMA SettledNode ==
  ASSUME Inv, NEW p \in Pool, Pinnable(p)
  PROVE  LET node == Settled(p) IN
         /\ node \in Node
         /\ node.active = pools[p].active /\ node.resource = pools[p].resource
         /\ node.bufferCount = pools[p].bufferCount /\ node.pinCount = pools[p].pinCount
         /\ node.mapped = node.declared /\ node.declared = pools[p].declared
         /\ node.pending = 0
         /\ node.mapped >= pools[p].mapped
         /\ node.sealed => files[p].sealed /\ files[p].size >= node.mapped
         /\ node.invalid = pools[p].invalid /\ node.replaced = pools[p].replaced
         /\ pools[p].pinCount = 0 \/ node.sealed = pools[p].sealed
<1>1. CASE pools[p].pending = 0
  <2>1. /\ pools[p] \in Node /\ pools[p].mapped \in Nat /\ pools[p].declared \in Nat
    BY SizeAssumption DEF Inv, TypeOK, Node
  <2>2. pools[p].mapped = pools[p].declared
    BY <1>1, <2>1 DEF Inv, GrowthIsRemembered
  <2> QED
    BY <1>1, <2>1, <2>2 DEF Settled, Inv, SealedHolds
<1>2. CASE pools[p].pending # 0
  BY <1>2, PendingGrows, RemappedNode DEF Settled, Pinnable
<1> QED
  BY <1>1, <1>2

\* What a pool is in every state.
LEMMA PoolFacts ==
  ASSUME Inv, NEW p \in Pool
  PROVE  LET node == pools[p] IN
         /\ node \in Node /\ files[p] \in File
         /\ pools = [pools EXCEPT ![p] = pools[p]] /\ files = [files EXCEPT ![p] = files[p]]
         /\ node.declared >= node.mapped
         /\ node.pending = IF node.declared = node.mapped THEN 0 ELSE node.declared
         /\ node.sealed => files[p].sealed /\ files[p].size >= node.mapped
         /\ node.replaced <=> node.invalid \/ (faulted /\ activePool = p)
         /\ node.resource => node.active
         /\ node.active => ~Unused(node) /\ Kept(node) = node /\ Stands(p, node, files[p])
         /\ node.mapped \in 0..MaxSize /\ node.declared \in 0..MaxSize
         /\ node.bufferCount \in Nat /\ node.pinCount \in Nat
<1>1. /\ pools[p] \in Node /\ files[p] \in File
      /\ pools = [pools EXCEPT ![p] = pools[p]] /\ files = [files EXCEPT ![p] = files[p]]
  BY DEF Inv, TypeOK
<1>2. pools[p].resource => pools[p].active
  BY DEF Inv, HeldWhileNeeded
<1>3. pools[p].active => ~Unused(pools[p]) /\ Kept(pools[p]) = pools[p]
  BY CountsAreReal DEF Inv, HeldWhileNeeded, Unused, Kept
<1>4. /\ pools[p].mapped \in 0..MaxSize /\ pools[p].declared \in 0..MaxSize
      /\ pools[p].bufferCount \in Nat /\ pools[p].pinCount \in Nat
  BY <1>1 DEF Node
<1> QED
  BY <1>1, <1>2, <1>3, <1>4
     DEF Inv, GrowthIsRemembered, SealedHolds, FaultIsItsPools, Stands

\* A buffer of the pool comes or goes.
LEMMA BufferStep ==
  ASSUME Inv, NEW p \in Pool, NEW node, NEW file, NEW b \in Buffer, NEW r \in Ranges,
         Stands(p, node, file),
         pools' = [pools EXCEPT ![p] = Kept(node)],
         files' = [files EXCEPT ![p] = file],
         buffers' = [buffers EXCEPT ![b] = r],
         UNCHANGED <<pins, scopes, guardVars, crashed>>,
         \/ /\ buffers[b].pool = NoPool /\ r.pool = p /\ r.end <= node.declared
            /\ node.bufferCount = pools[p].bufferCount + 1
         \/ /\ buffers[b].pool = p /\ r.pool = NoPool
            /\ node.bufferCount = pools[p].bufferCount - 1,
         node.pinCount = pools[p].pinCount,
         node.declared = pools[p].declared,
         node.mapped = pools[p].mapped,
         node.sealed = pools[p].sealed
  PROVE  Inv'
<1>1. pins' = pins /\ scopes' = scopes /\ UNCHANGED <<scopes, guardVars, crashed>>
  OBVIOUS
<1>2. /\ buffers' \in [Buffer -> Ranges] /\ pins' \in [Pin -> Ranges]
      /\ buffers \in [Buffer -> Ranges]
  BY <1>1 DEF Inv, TypeOK
<1>3. \A q \in Pool : PinsOf(q)' = PinsOf(q)
  BY <1>1 DEF PinsOf
<1>5. ASSUME NEW q \in Pool
      PROVE  /\ buffers[b].pool # q /\ r.pool = q =>
                  Cardinality(BuffersOf(q)') = Cardinality(BuffersOf(q)) + 1
             /\ buffers[b].pool = q /\ r.pool # q =>
                  Cardinality(BuffersOf(q)') = Cardinality(BuffersOf(q)) - 1
             /\ buffers[b].pool # q /\ r.pool # q => BuffersOf(q)' = BuffersOf(q)
  BY BufferCounts DEF Inv
<1>6. \A q \in Pool \ {p} : BuffersOf(q)' = BuffersOf(q) /\ PinsOf(q)' = PinsOf(q)
  BY <1>3, <1>5, NoneAssumption
<1>7. /\ node.bufferCount = Cardinality(BuffersOf(p)')
      /\ node.pinCount = Cardinality(PinsOf(p)')
  BY <1>3, <1>5, NoneAssumption DEF Inv, HeldWhileNeeded
<1>8. \A c \in Buffer : \/ buffers'[c].pool = NoPool
                        \/ buffers'[c].pool = p /\ buffers'[c].end <= node.declared
                        \/ buffers'[c].pool # p /\ buffers'[c] = buffers[c]
  <2>1. ASSUME NEW c \in Buffer, c # b
        PROVE  /\ buffers'[c] = buffers[c]
               /\ buffers[c].pool = p => buffers[c].end <= node.declared
    BY <2>1, <1>2, NoneAssumption DEF Inv, BuffersFit
  <2>2. buffers'[b] = r
    BY <1>2
  <2> QED
    BY <2>1, <2>2
<1>9. \A x \in Pin : \/ pins'[x].pool = NoPool
                     \/ pins'[x].pool = p /\ pins'[x].end <= node.mapped
                     \/ pins'[x].pool # p /\ pins'[x] = pins[x]
  BY <1>1, NoneAssumption DEF Inv, PinsFit
<1>10. \A s \in Scope : Open(s) =>
         /\ pins'[scopes[s].pin] = pins[scopes[s].pin]
         /\ pins[scopes[s].pin].pool = p /\ pools[p].sealed => node.sealed
  BY <1>1
<1>11. Becomes(p, node, file)
  BY <1>1, <1>2, <1>6, <1>7, <1>8, <1>9, <1>10 DEF Becomes
<1> QED
  BY <1>11, PoolStep

\* A pin of the pool comes or goes.
LEMMA PinStep ==
  ASSUME Inv, NEW p \in Pool, NEW node, NEW file, NEW x \in Pin, NEW r \in Ranges,
         Stands(p, node, file),
         pools' = [pools EXCEPT ![p] = Kept(node)],
         files' = [files EXCEPT ![p] = file],
         pins' = [pins EXCEPT ![x] = r],
         UNCHANGED <<buffers, scopes, guardVars, crashed>>,
         \A s \in Scope : scopes[s].pin # x,
         \/ /\ pins[x].pool = NoPool /\ r.pool = p /\ r.end <= node.mapped
            /\ node.pinCount = pools[p].pinCount + 1
         \/ /\ pins[x].pool = p /\ r.pool = NoPool
            /\ node.pinCount = pools[p].pinCount - 1,
         node.bufferCount = pools[p].bufferCount,
         node.declared = pools[p].declared,
         node.mapped >= pools[p].mapped,
         \/ node.pinCount = 0 \/ pools[p].pinCount = 0
         \/ node.sealed = pools[p].sealed
  PROVE  Inv'
<1>1. /\ buffers' = buffers /\ scopes' = scopes
      /\ UNCHANGED <<scopes, guardVars, crashed>>
  OBVIOUS
<1>2. /\ buffers' \in [Buffer -> Ranges] /\ pins' \in [Pin -> Ranges]
      /\ pins \in [Pin -> Ranges] /\ node \in Node /\ pools[p] \in Node
  BY <1>1, PoolFacts DEF Inv, TypeOK, Stands
<1>3. \A q \in Pool : BuffersOf(q)' = BuffersOf(q)
  BY <1>1 DEF BuffersOf
<1>5. ASSUME NEW q \in Pool
      PROVE  /\ pins[x].pool # q /\ r.pool = q =>
                  Cardinality(PinsOf(q)') = Cardinality(PinsOf(q)) + 1
             /\ pins[x].pool = q /\ r.pool # q =>
                  Cardinality(PinsOf(q)') = Cardinality(PinsOf(q)) - 1
             /\ pins[x].pool # q /\ r.pool # q => PinsOf(q)' = PinsOf(q)
  BY PinCounts DEF Inv
<1>6. \A q \in Pool \ {p} : BuffersOf(q)' = BuffersOf(q) /\ PinsOf(q)' = PinsOf(q)
  BY <1>3, <1>5, NoneAssumption
<1>7. /\ node.bufferCount = Cardinality(BuffersOf(p)')
      /\ node.pinCount = Cardinality(PinsOf(p)')
  BY <1>3, <1>5, NoneAssumption DEF Inv, HeldWhileNeeded
<1>8. \A c \in Pin : \/ pins'[c].pool = NoPool
                     \/ pins'[c].pool = p /\ pins'[c].end <= node.mapped
                     \/ pins'[c].pool # p /\ pins'[c] = pins[c]
  <2>1. ASSUME NEW c \in Pin, c # x
        PROVE  /\ pins'[c] = pins[c]
               /\ pins[c].pool = p => pins[c].end <= node.mapped
    <3>1. pins'[c] = pins[c]
      BY <2>1, <1>2
    <3>2. pins[c].pool = p => pins[c].end <= pools[p].mapped
      BY NoneAssumption DEF Inv, PinsFit
    <3>3. pins[c].pool = p => pins[c].end \in Nat
      BY <1>2, NoneAssumption DEF Ranges, NoBuffer, Size
    <3>4. node.mapped \in Nat /\ pools[p].mapped \in Nat
      BY <1>2, SizeAssumption DEF Node
    <3> QED
      BY <3>1, <3>2, <3>3, <3>4
  <2>2. pins'[x] = r
    BY <1>2
  <2> QED
    BY <2>1, <2>2
<1>9. \A b \in Buffer : \/ buffers'[b].pool = NoPool
                        \/ buffers'[b].pool = p /\ buffers'[b].end <= node.declared
                        \/ buffers'[b].pool # p /\ buffers'[b] = buffers[b]
  BY <1>1, NoneAssumption DEF Inv, BuffersFit
<1>10. ASSUME NEW s \in Scope, Open(s)
       PROVE  /\ pins'[scopes[s].pin] = pins[scopes[s].pin]
              /\ pins[scopes[s].pin].pool = p /\ pools[p].sealed => node.sealed
  <2>1. scopes[s].pin \in Pin /\ scopes[s].pin # x
    BY <1>10 DEF Inv, TypeOK, Access, NoScope, Open
  <2>2. pins'[scopes[s].pin] = pins[scopes[s].pin]
    BY <2>1, <1>2
  <2>3. ASSUME pins[scopes[s].pin].pool = p
        PROVE  node.pinCount # 0 /\ pools[p].pinCount # 0
    <3>1. pools[p].pinCount # 0
      BY <2>1, <2>3, RangesHold, NoneAssumption
    <3>2. scopes[s].pin \in PinsOf(p)' /\ PinsOf(p)' \in SUBSET Pin
      BY <2>1, <2>2, <2>3 DEF PinsOf
    <3>3. Cardinality(PinsOf(p)') # 0
      BY <3>2, CountOf, FiniteAssumption
    <3> QED
      BY <3>1, <3>3, <1>7
  <2> QED
    BY <2>2, <2>3
<1>11. Becomes(p, node, file)
  BY <1>1, <1>2, <1>6, <1>7, <1>8, <1>9, <1>10 DEF Becomes
<1> QED
  BY <1>11, PoolStep

-----------------------------------------------------------------------------
(***************************************************************************)
(* Every action keeps the invariant.                                       *)
(***************************************************************************)
\* A new mapping, of a slot that nothing refers to.
LEMMA AddPoolInv ==
  ASSUME Inv, NEW p \in Pool, NEW size \in Size, NEW file \in File, AddPool(p, size, file)
  PROVE  Inv'
<1> DEFINE node == [FreePool EXCEPT !.active = TRUE, !.resource = TRUE,
                                    !.mapped = size, !.declared = size,
                                    !.sealed = CannotShrinkBelow(file, size)]
<1>1. ~pools[p].active /\ pools[p] \in Node
  BY PoolFacts DEF AddPool
<1>2. BuffersOf(p) = {} /\ PinsOf(p) = {}
  BY <1>1 DEF Inv, HeldWhileNeeded
<1>3. CannotShrinkBelow(file, size) \in BOOLEAN
  BY DEF CannotShrinkBelow, File
<1>4. /\ node \in Node /\ node.active /\ node.resource
      /\ node.mapped = size /\ node.declared = size /\ node.pending = 0
      /\ node.bufferCount = 0 /\ node.pinCount = 0
      /\ node.sealed => file.sealed /\ file.size >= size
      /\ ~node.invalid /\ ~node.replaced
  <2>1. size \in 0..MaxSize /\ 0 \in 0..MaxSize /\ 0 \in Nat
    BY SizeAssumption DEF Size
  <2>2. ASSUME NEW seal \in BOOLEAN
        PROVE  LET new == [FreePool EXCEPT !.active = TRUE, !.resource = TRUE,
                                           !.mapped = size, !.declared = size,
                                           !.sealed = seal]
               IN /\ new \in Node /\ new.active /\ new.resource
                  /\ new.mapped = size /\ new.declared = size /\ new.pending = 0
                  /\ new.bufferCount = 0 /\ new.pinCount = 0 /\ new.sealed = seal
                  /\ ~new.invalid /\ ~new.replaced
    BY <2>1 DEF FreePool, Node
  <2>3. CannotShrinkBelow(file, size) => file.sealed /\ file.size >= size
    BY DEF CannotShrinkBelow
  <2> QED
    BY <1>3, <2>2, <2>3
<1>5. pools' = [pools EXCEPT ![p] = node] /\ files' = [files EXCEPT ![p] = file]
  BY DEF AddPool
<1>6. UNCHANGED <<buffers, pins, scopes, guardVars, crashed>>
  BY DEF AddPool
<1> HIDE DEF node
<1>7. Kept(node) = node
  BY <1>4 DEF Kept, Unused
<1>8. activePool # p
  <2>1. activePool = p => PinsOf(p) # {}
    BY GuardIsPinned, NoneAssumption DEF PinsOf
  <2> QED
    BY <1>2, <2>1
<1>9. Stands(p, node, file)
  BY <1>4, <1>8, SizeAssumption DEF Stands, Size
<1>10. pools[p].bufferCount = 0 /\ pools[p].pinCount = 0
  BY <1>2, CountsAreReal DEF Inv
<1>11. \A q \in Pool : BuffersOf(q)' = BuffersOf(q) /\ PinsOf(q)' = PinsOf(q)
  BY <1>6 DEF BuffersOf, PinsOf
<1>12. (\A b \in Buffer : buffers[b].pool # p) /\ (\A x \in Pin : pins[x].pool # p)
  BY <1>2 DEF BuffersOf, PinsOf
<1>13. /\ node.bufferCount = Cardinality(BuffersOf(p)')
       /\ node.pinCount = Cardinality(PinsOf(p)')
  BY <1>4, <1>10, <1>11 DEF Inv, HeldWhileNeeded
<1>14. buffers' \in [Buffer -> Ranges] /\ pins' \in [Pin -> Ranges]
  BY <1>6 DEF Inv, TypeOK
<1>15. \A s \in Scope : Open(s) => /\ pins'[scopes[s].pin] = pins[scopes[s].pin]
                                   /\ pins[scopes[s].pin].pool # p
  BY <1>6, <1>12 DEF Inv, TypeOK, Access, NoScope, Open
<1>16. Becomes(p, node, file)
  BY <1>5, <1>6, <1>7, <1>11, <1>12, <1>13, <1>14, <1>15 DEF Becomes
<1> QED
  BY <1>9, <1>16, PoolStep

\* A pool that may lose its last reference.
LEMMA UpdateStands ==
  ASSUME Inv, NEW p \in Pool, NEW node \in Node, Update(p, node),
         Stands(p, node, files[p])
  PROVE  \E file : /\ pools' = [pools EXCEPT ![p] = Kept(node)]
                   /\ files' = [files EXCEPT ![p] = file]
                   /\ Stands(p, node, file)
<1>1. NoFile \in File
  BY SizeAssumption DEF NoFile, File
<1>2. files = [files EXCEPT ![p] = files[p]]
  BY PoolFacts
<1>3. CASE Unused(node)
  BY <1>1, <1>3 DEF Update, Stands
<1>4. CASE ~Unused(node)
  BY <1>2, <1>4 DEF Update
<1> QED
  BY <1>3, <1>4

\* The resource goes, and perhaps the pool with it.
LEMMA DestroyPoolResourceInv ==
  ASSUME Inv, NEW p \in Pool, DestroyPoolResource(p)
  PROVE  Inv'
<1> DEFINE node == [pools[p] EXCEPT !.resource = FALSE]
<1>1. pools[p].active /\ pools[p] \in Node /\ Stands(p, pools[p], files[p])
  BY PoolFacts DEF DestroyPoolResource
<1>2. Update(p, node) /\ UNCHANGED <<buffers, pins, scopes, guardVars, crashed>>
  BY DEF DestroyPoolResource
<1>3. /\ node \in Node /\ node.active
      /\ node.mapped = pools[p].mapped /\ node.declared = pools[p].declared
      /\ node.pending = pools[p].pending /\ node.sealed = pools[p].sealed
      /\ node.bufferCount = pools[p].bufferCount /\ node.pinCount = pools[p].pinCount
      /\ node.invalid = pools[p].invalid /\ node.replaced = pools[p].replaced
  BY <1>1 DEF Node
<1> HIDE DEF node
<1>4. Stands(p, node, files[p])
  BY <1>1, <1>3, PoolFacts DEF Stands
<1>5. PICK file : /\ pools' = [pools EXCEPT ![p] = Kept(node)]
                  /\ files' = [files EXCEPT ![p] = file]
                  /\ Stands(p, node, file)
  BY <1>2, <1>3, <1>4, UpdateStands
<1>6. node.declared >= pools[p].declared /\ node.mapped >= pools[p].mapped
  BY <1>1, <1>3, SizeAssumption DEF Node
<1> QED
  BY <1>2, <1>3, <1>5, <1>6, NodeStep

\* A pool with a new mapping, none of its ranges in use by a pin.
LEMMA RemapInv ==
  ASSUME Inv, NEW p \in Pool, NEW size \in Size,
         pools[p].active, pools[p].pinCount = 0, size >= pools[p].declared,
         pools' = [pools EXCEPT ![p] = Remapped(p, size)],
         UNCHANGED <<files, buffers, pins, scopes, guardVars, crashed>>
  PROVE  Inv'
<1> DEFINE node == Remapped(p, size)
<1>1. /\ node \in Node
      /\ node.active = pools[p].active /\ node.resource = pools[p].resource
      /\ node.bufferCount = pools[p].bufferCount /\ node.pinCount = pools[p].pinCount
      /\ node.mapped = size /\ node.declared = size /\ node.pending = 0
      /\ node.sealed => files[p].sealed /\ files[p].size >= size
      /\ node.invalid = pools[p].invalid /\ node.replaced = pools[p].replaced
  BY RemappedNode
<1>2. pools' = [pools EXCEPT ![p] = node]
  OBVIOUS
<1> HIDE DEF node
<1>3. Kept(node) = node
  BY <1>1, PoolFacts DEF Kept, Unused
<1>4. Stands(p, node, files[p])
  BY <1>1, PoolFacts, SizeAssumption DEF Stands, Size
<1>5. node.declared >= pools[p].declared /\ node.mapped >= pools[p].mapped
  BY <1>1, PoolFacts, SizeAssumption DEF Size
<1>6. files' = [files EXCEPT ![p] = files[p]]
  BY PoolFacts
<1>7. UNCHANGED <<buffers, pins, scopes, guardVars, crashed>>
  OBVIOUS
<1> QED
  BY <1>1, <1>2, <1>3, <1>4, <1>5, <1>6, <1>7, NodeStep

\* Growth, at once or put off.
LEMMA GrowInv ==
  ASSUME Inv, NEW p \in Pool, NEW size \in Size, Grow(p, size)
  PROVE  Inv'
<1>1. /\ pools[p].active /\ Kept(pools[p]) = pools[p] /\ Stands(p, pools[p], files[p])
      /\ pools[p] \in Node /\ ~Unused(pools[p])
  BY PoolFacts DEF Grow
<1>2. /\ size > pools[p].declared
      /\ UNCHANGED <<files, buffers, pins, scopes, guardVars, crashed>>
  BY DEF Grow
<1>3. CASE pools[p].pinCount = 0
  <2>1. pools' = [pools EXCEPT ![p] = Remapped(p, size)]
    BY <1>1, <1>3 DEF Grow, Inv, TypeOK
  <2>2. size >= pools[p].declared
    BY <1>1, <1>2, SizeAssumption DEF Size, Node
  <2> QED
    BY <1>1, <1>2, <1>3, <2>1, <2>2, RemapInv
<1>4. CASE pools[p].pinCount # 0
  <2> DEFINE node == Deferred(p, size)
  <2>1. pools' = [pools EXCEPT ![p] = node]
    BY <1>4 DEF Grow, Inv, TypeOK
  <2>0. size \in 0..MaxSize
    BY SizeAssumption DEF Size
  <2>2. /\ node \in Node /\ node.active
        /\ node.mapped = pools[p].mapped /\ node.declared = size /\ node.pending = size
        /\ node.bufferCount = pools[p].bufferCount /\ node.pinCount = pools[p].pinCount
        /\ node.sealed = pools[p].sealed
        /\ node.invalid = pools[p].invalid /\ node.replaced = pools[p].replaced
    BY <1>1, <2>0 DEF Deferred, Node
  <2> HIDE DEF node
  <2>3. Kept(node) = node
    BY <1>4, <2>2 DEF Kept, Unused
  <2>4. Stands(p, node, files[p])
    BY <1>1, <1>2, <2>2, PoolFacts, SizeAssumption DEF Stands, Size
  <2>5. node.declared >= pools[p].declared /\ node.mapped >= pools[p].mapped
    BY <1>2, <2>2, PoolFacts, SizeAssumption DEF Size
  <2>6. files' = [files EXCEPT ![p] = files[p]]
    BY <1>2, PoolFacts
  <2> QED
    BY <1>2, <2>1, <2>2, <2>3, <2>4, <2>5, <2>6, NodeStep
<1> QED
  BY <1>3, <1>4

\* Growth that was put off.
LEMMA RetryInv ==
  ASSUME Inv, NEW p \in Pool, Retry(p)
  PROVE  Inv'
<1>1. pools[p].active /\ pools[p].pinCount = 0
  BY PoolFacts DEF Retry
<1>2. /\ pools[p].pending \in Size /\ pools[p].pending = pools[p].declared
  BY PendingGrows DEF Retry
<1>3. pools' = [pools EXCEPT ![p] = Remapped(p, pools[p].pending)]
  BY DEF Retry, Inv, TypeOK
<1>4. pools[p].pending >= pools[p].declared
  BY <1>2, SizeAssumption DEF Size
<1>5. UNCHANGED <<files, buffers, pins, scopes, guardVars, crashed>>
  BY DEF Retry
<1> QED
  BY <1>1, <1>2, <1>3, <1>4, <1>5, RemapInv

\* A new buffer.
LEMMA AddBufferInv ==
  ASSUME Inv, NEW b \in Buffer, NEW p \in Pool, NEW end \in Size, AddBuffer(b, p, end)
  PROVE  Inv'
<1> DEFINE node == [pools[p] EXCEPT !.bufferCount = @ + 1]
           r == [pool |-> p, end |-> end]
<1>1. /\ pools[p].active /\ pools[p] \in Node /\ Stands(p, pools[p], files[p])
      /\ pools[p].resource
  BY PoolFacts DEF AddBuffer
<1>2. /\ buffers[b].pool = NoPool /\ end <= pools[p].declared
      /\ buffers' = [buffers EXCEPT ![b] = r]
      /\ UNCHANGED <<pins, scopes, guardVars, crashed>> /\ files' = files
  BY DEF AddBuffer
<1>3. pools' = [pools EXCEPT ![p] = node]
  BY DEF AddBuffer, Inv, TypeOK
<1>4. /\ node \in Node /\ node.active /\ node.resource
      /\ node.mapped = pools[p].mapped /\ node.declared = pools[p].declared
      /\ node.pending = pools[p].pending /\ node.sealed = pools[p].sealed
      /\ node.bufferCount = pools[p].bufferCount + 1 /\ node.pinCount = pools[p].pinCount
      /\ node.invalid = pools[p].invalid /\ node.replaced = pools[p].replaced
  BY <1>1 DEF Node
<1>5. r \in Ranges /\ r.pool = p /\ r.end = end
  BY DEF Ranges
<1> HIDE DEF node, r
<1>6. Kept(node) = node
  BY <1>4 DEF Kept, Unused
<1>7. Stands(p, node, files[p])
  BY <1>1, <1>4, PoolFacts DEF Stands
<1>8. files' = [files EXCEPT ![p] = files[p]]
  BY <1>2, PoolFacts
<1> QED
  BY <1>2, <1>3, <1>4, <1>5, <1>6, <1>7, <1>8, BufferStep

\* A buffer goes, and perhaps the pool with it.
LEMMA DestroyBufferInv ==
  ASSUME Inv, NEW b \in Buffer, DestroyBuffer(b)
  PROVE  Inv'
<1> DEFINE p == buffers[b].pool
           node == [pools[p] EXCEPT !.bufferCount = @ - 1]
<1>1. p \in Pool /\ pools[p].active /\ pools[p].bufferCount # 0
  BY RangesHold DEF DestroyBuffer
<1>2. /\ buffers' = [buffers EXCEPT ![b] = NoBuffer]
      /\ UNCHANGED <<pins, scopes, guardVars, crashed>>
      /\ Update(p, node)
  BY DEF DestroyBuffer
<1> HIDE DEF p
<1>3. pools[p] \in Node /\ Stands(p, pools[p], files[p]) /\ pools[p].bufferCount - 1 \in Nat
  BY <1>1, PoolFacts
<1>4. /\ node \in Node /\ node.active
      /\ node.mapped = pools[p].mapped /\ node.declared = pools[p].declared
      /\ node.pending = pools[p].pending /\ node.sealed = pools[p].sealed
      /\ node.bufferCount = pools[p].bufferCount - 1 /\ node.pinCount = pools[p].pinCount
      /\ node.invalid = pools[p].invalid /\ node.replaced = pools[p].replaced
  BY <1>1, <1>3 DEF Node
<1> HIDE DEF node
<1>5. Stands(p, node, files[p])
  BY <1>1, <1>3, <1>4, PoolFacts DEF Stands
<1>6. PICK file : /\ pools' = [pools EXCEPT ![p] = Kept(node)]
                  /\ files' = [files EXCEPT ![p] = file]
                  /\ Stands(p, node, file)
  BY <1>1, <1>2, <1>4, <1>5, UpdateStands
<1>7. NoBuffer \in Ranges /\ NoBuffer.pool = NoPool
  BY DEF Ranges, NoBuffer
<1>8. buffers[b].pool = p
  BY DEF p
<1> QED
  BY <1>1, <1>2, <1>4, <1>6, <1>7, <1>8, BufferStep

\* The step that settles a pool without pinning it.
LEMMA CopyFailsInv ==
  ASSUME Inv, NEW b \in Buffer, CopyFails(b)
  PROVE  Inv'
<1> DEFINE p == buffers[b].pool
           node == Settled(p)
<1>1. p \in Pool /\ pools[p].active /\ Pinnable(p)
  BY RangesHold DEF CopyFails
<1>2. /\ pools' = [pools EXCEPT ![p] = node] /\ files' = files
      /\ UNCHANGED <<buffers, pins, scopes, guardVars, crashed>>
  BY DEF CopyFails
<1> HIDE DEF p
<1>3. /\ node \in Node
      /\ node.active = pools[p].active /\ node.resource = pools[p].resource
      /\ node.bufferCount = pools[p].bufferCount /\ node.pinCount = pools[p].pinCount
      /\ node.mapped = node.declared /\ node.declared = pools[p].declared
      /\ node.pending = 0 /\ node.mapped >= pools[p].mapped
      /\ node.sealed => files[p].sealed /\ files[p].size >= node.mapped
      /\ node.invalid = pools[p].invalid /\ node.replaced = pools[p].replaced
      /\ pools[p].pinCount = 0 \/ node.sealed = pools[p].sealed
  BY <1>1, SettledNode
<1> HIDE DEF node
<1>4. Kept(node) = node
  BY <1>1, <1>3, PoolFacts DEF Kept, Unused
<1>5. node.declared \in Nat
  BY <1>3, SizeAssumption DEF Node
<1>6. Stands(p, node, files[p])
  BY <1>1, <1>3, <1>5, PoolFacts DEF Stands
<1>7. files' = [files EXCEPT ![p] = files[p]]
  BY <1>1, <1>2, PoolFacts
<1>8. node.declared >= pools[p].declared
  BY <1>3, <1>5
<1> QED
  BY <1>1, <1>2, <1>3, <1>4, <1>6, <1>7, <1>8, NodeStep

\* A pin, of a range that the settled pool maps.
LEMMA PinBufferInv ==
  ASSUME Inv, NEW x \in Pin, NEW b \in Buffer, PinBuffer(x, b)
  PROVE  Inv'
<1> DEFINE p == buffers[b].pool
           settled == Settled(p)
           node == [settled EXCEPT !.pinCount = @ + 1]
<1>1. p \in Pool /\ pools[p].active /\ Pinnable(p) /\ p # NoPool
  BY RangesHold DEF PinBuffer
<1>2. /\ pools' = [pools EXCEPT ![p] = node] /\ files' = files
      /\ pins' = [pins EXCEPT ![x] = buffers[b]] /\ pins[x].pool = NoPool
      /\ UNCHANGED <<buffers, scopes, guardVars, crashed>>
  BY DEF PinBuffer
<1>3. /\ buffers[b] \in Ranges /\ buffers[b].pool = p
      /\ buffers[b].end <= pools[p].declared
  BY <1>1 DEF Inv, TypeOK, BuffersFit
<1> HIDE DEF p
<1>4. /\ settled \in Node
      /\ settled.active = pools[p].active /\ settled.resource = pools[p].resource
      /\ settled.bufferCount = pools[p].bufferCount /\ settled.pinCount = pools[p].pinCount
      /\ settled.mapped = settled.declared /\ settled.declared = pools[p].declared
      /\ settled.pending = 0 /\ settled.mapped >= pools[p].mapped
      /\ settled.sealed => files[p].sealed /\ files[p].size >= settled.mapped
      /\ settled.invalid = pools[p].invalid /\ settled.replaced = pools[p].replaced
      /\ pools[p].pinCount = 0 \/ settled.sealed = pools[p].sealed
  BY <1>1, SettledNode
<1> HIDE DEF settled
<1>5. /\ node \in Node
      /\ node.active = settled.active /\ node.resource = settled.resource
      /\ node.mapped = settled.mapped /\ node.declared = settled.declared
      /\ node.pending = settled.pending /\ node.sealed = settled.sealed
      /\ node.bufferCount = settled.bufferCount /\ node.pinCount = settled.pinCount + 1
      /\ node.invalid = settled.invalid /\ node.replaced = settled.replaced
  BY <1>4 DEF Node
<1> HIDE DEF node
<1>6. pools[p].pinCount \in Nat /\ node.declared \in Nat
  BY <1>1, <1>5, PoolFacts, SizeAssumption DEF Node
<1>7. Kept(node) = node
  BY <1>4, <1>5, <1>6 DEF Kept, Unused
<1>8. Stands(p, node, files[p])
  BY <1>1, <1>4, <1>5, <1>6, PoolFacts DEF Stands
<1>9. files' = [files EXCEPT ![p] = files[p]]
  BY <1>1, <1>2, PoolFacts
<1>10. \A s \in Scope : scopes[s].pin # x
  BY <1>2, NoneAssumption DEF Inv, ScopesStand, Open
<1>11. /\ buffers[b].end <= node.mapped /\ node.pinCount = pools[p].pinCount + 1
       /\ node.bufferCount = pools[p].bufferCount /\ node.declared = pools[p].declared
       /\ node.mapped >= pools[p].mapped
       /\ pools[p].pinCount = 0 \/ node.sealed = pools[p].sealed
  BY <1>3, <1>4, <1>5
<1> QED
  BY <1>1, <1>2, <1>3, <1>7, <1>8, <1>9, <1>10, <1>11, PinStep

\* A pin goes; with the last one growth is made up for, or the pool goes.
LEMMA UnpinInv ==
  ASSUME Inv, NEW x \in Pin, Unpin(x)
  PROVE  Inv'
<1> DEFINE p == pins[x].pool
           node == [pools[p] EXCEPT !.pinCount = @ - 1]
           remapped == Remapped(p, pools[p].pending)
           grown == [remapped EXCEPT !.pinCount = 0]
<1>1. p \in Pool /\ pools[p].active /\ pools[p].pinCount # 0
  BY RangesHold DEF Unpin
<1>2. /\ pins' = [pins EXCEPT ![x] = Unpinned]
      /\ UNCHANGED <<buffers, scopes, guardVars, crashed>>
      /\ \A s \in Scope : scopes[s].pin # x
      /\ \/ Update(p, node)
         \/ node.pinCount = 0 /\ node.pending # 0 /\ Update(p, grown)
  BY DEF Unpin
<1>3. Unpinned \in Ranges /\ Unpinned.pool = NoPool /\ pins[x].pool = p
  BY DEF Unpinned, Ranges, NoBuffer
<1> HIDE DEF p
<1>4. pools[p] \in Node /\ Stands(p, pools[p], files[p]) /\ pools[p].pinCount - 1 \in Nat
  BY <1>1, PoolFacts
<1>5. /\ node \in Node /\ node.active
      /\ node.mapped = pools[p].mapped /\ node.declared = pools[p].declared
      /\ node.pending = pools[p].pending /\ node.sealed = pools[p].sealed
      /\ node.bufferCount = pools[p].bufferCount /\ node.pinCount = pools[p].pinCount - 1
      /\ node.invalid = pools[p].invalid /\ node.replaced = pools[p].replaced
      /\ node.resource = pools[p].resource
  BY <1>1, <1>4 DEF Node
<1> HIDE DEF node
<1>6. CASE Update(p, node)
  <2>1. Stands(p, node, files[p])
    <3>1. ~Unused(pools[p])
      BY <1>1, PoolFacts
    <3> QED
      BY <1>1, <1>4, <1>5, <3>1, PoolFacts DEF Stands
  <2>2. PICK file : /\ pools' = [pools EXCEPT ![p] = Kept(node)]
                    /\ files' = [files EXCEPT ![p] = file]
                    /\ Stands(p, node, file)
    BY <1>1, <1>5, <1>6, <2>1, UpdateStands
  <2>3. node.mapped >= pools[p].mapped
    BY <1>4, <1>5, SizeAssumption DEF Node
  <2> QED
    BY <1>1, <1>2, <1>3, <1>5, <2>2, <2>3, PinStep
<1>7. CASE node.pinCount = 0 /\ node.pending # 0 /\ Update(p, grown)
  <2>1. /\ pools[p].pending \in Size /\ pools[p].pending = pools[p].declared
        /\ pools[p].pending >= pools[p].mapped
    BY <1>1, <1>5, <1>7, PendingGrows
  <2>2. /\ remapped \in Node
        /\ remapped.active = pools[p].active
        /\ remapped.bufferCount = pools[p].bufferCount
        /\ remapped.mapped = pools[p].pending /\ remapped.declared = pools[p].pending
        /\ remapped.pending = 0
        /\ remapped.sealed => files[p].sealed /\ files[p].size >= pools[p].pending
        /\ remapped.invalid = pools[p].invalid /\ remapped.replaced = pools[p].replaced
    BY <1>1, <2>1, RemappedNode
  <2> HIDE DEF remapped
  <2>3. /\ grown \in Node /\ grown.active = remapped.active
        /\ grown.mapped = remapped.mapped /\ grown.declared = remapped.declared
        /\ grown.pending = remapped.pending /\ grown.sealed = remapped.sealed
        /\ grown.bufferCount = remapped.bufferCount /\ grown.pinCount = 0
        /\ grown.invalid = remapped.invalid /\ grown.replaced = remapped.replaced
    BY <2>2 DEF Node
  <2> HIDE DEF grown
  <2>4. Stands(p, grown, files[p])
    BY <1>1, <2>1, <2>2, <2>3, PoolFacts, SizeAssumption DEF Stands, Size
  <2>5. PICK file : /\ pools' = [pools EXCEPT ![p] = Kept(grown)]
                    /\ files' = [files EXCEPT ![p] = file]
                    /\ Stands(p, grown, file)
    BY <1>1, <1>7, <2>3, <2>4, UpdateStands
  <2>6. /\ grown.declared = pools[p].declared /\ grown.mapped >= pools[p].mapped
        /\ grown.pinCount = pools[p].pinCount - 1
        /\ grown.bufferCount = pools[p].bufferCount
    BY <1>5, <1>7, <2>1, <2>2, <2>3
  <2> QED
    BY <1>1, <1>2, <1>3, <2>3, <2>5, <2>6, PinStep
<1> QED
  BY <1>2, <1>6, <1>7

\* The client changes its file, never a sealed one below its size.
LEMMA FileInv ==
  ASSUME Inv, NEW p \in Pool, NEW file \in File, pools[p].active,
         files[p].sealed => file.sealed /\ file.size >= files[p].size,
         files' = [files EXCEPT ![p] = file],
         UNCHANGED <<pools, buffers, pins, scopes, guardVars, crashed>>
  PROVE  Inv'
<1> DEFINE node == pools[p]
<1>1. /\ node \in Node /\ files[p] \in File /\ Kept(node) = node
      /\ Stands(p, node, files[p]) /\ ~Unused(node)
      /\ node.mapped \in Nat /\ node.declared \in Nat
  BY PoolFacts, SizeAssumption
<1>2. pools' = [pools EXCEPT ![p] = Kept(node)]
  BY <1>1, PoolFacts
<1>3. UNCHANGED <<buffers, pins, scopes, guardVars, crashed>>
  OBVIOUS
<1> HIDE DEF node
<1>4. file.size \in Nat /\ files[p].size \in Nat
  BY <1>1, SizeAssumption DEF File
<1>5. Stands(p, node, file)
  BY <1>1, <1>4 DEF Stands
<1>6. /\ node.bufferCount = pools[p].bufferCount /\ node.pinCount = pools[p].pinCount
      /\ node.declared >= pools[p].declared /\ node.mapped >= pools[p].mapped
      /\ node.sealed = pools[p].sealed
  BY <1>1 DEF node
<1> QED
  BY <1>2, <1>3, <1>5, <1>6, NodeStep

\* It is truncated or extended.
LEMMA TruncateInv ==
  ASSUME Inv, NEW p \in Pool, NEW size \in 0..MaxSize, Truncate(p, size)
  PROVE  Inv'
<1> DEFINE file == [files[p] EXCEPT !.size = size]
<1>1. files[p] \in File /\ pools[p].active
  BY PoolFacts DEF Truncate
<1>2. file \in File /\ file.size = size /\ file.sealed = files[p].sealed
  BY <1>1 DEF File
<1>3. /\ files[p].sealed => size > files[p].size
      /\ UNCHANGED <<pools, buffers, pins, scopes, guardVars, crashed>>
  BY DEF Truncate
<1>4. files' = [files EXCEPT ![p] = file]
  BY DEF Truncate, Inv, TypeOK
<1> HIDE DEF file
<1>5. files[p].sealed => file.sealed /\ file.size >= files[p].size
  BY <1>1, <1>2, <1>3, SizeAssumption DEF File
<1> QED
  BY <1>1, <1>2, <1>3, <1>4, <1>5, FileInv

\* It is sealed.
LEMMA SealInv ==
  ASSUME Inv, NEW p \in Pool, Seal(p)
  PROVE  Inv'
<1> DEFINE file == [files[p] EXCEPT !.sealed = TRUE]
<1>1. files[p] \in File /\ pools[p].active
  BY PoolFacts DEF Seal
<1>2. file \in File
  BY <1>1 DEF File
<1>3. /\ ~files[p].sealed
      /\ UNCHANGED <<pools, buffers, pins, scopes, guardVars, crashed>>
  BY DEF Seal
<1>4. files' = [files EXCEPT ![p] = file]
  BY DEF Seal, Inv, TypeOK
<1> HIDE DEF file
<1> QED
  BY <1>1, <1>2, <1>3, <1>4, FileInv

\* Accesses leave alone of a pool all but its flags.
SameButFlags(old, new) ==
  /\ new.active = old.active /\ new.resource = old.resource
  /\ new.mapped = old.mapped /\ new.declared = old.declared /\ new.pending = old.pending
  /\ new.bufferCount = old.bufferCount /\ new.pinCount = old.pinCount
  /\ new.sealed = old.sealed

\* So they disturb only what is said of scopes and faults.
LEMMA AccessStep ==
  ASSUME Inv, UNCHANGED <<files, buffers, pins>>,
         \A q \in Pool : SameButFlags(pools[q], pools'[q])
  PROVE  /\ HeldWhileNeeded' /\ GrowthIsRemembered'
         /\ BuffersFit' /\ PinsFit' /\ SealedHolds'
<1>1. \A q \in Pool : BuffersOf(q)' = BuffersOf(q) /\ PinsOf(q)' = PinsOf(q)
  BY DEF BuffersOf, PinsOf
<1>2. HeldWhileNeeded'
  BY <1>1 DEF Inv, HeldWhileNeeded, SameButFlags
<1>3. GrowthIsRemembered'
  BY DEF Inv, GrowthIsRemembered, SameButFlags
<1>4. BuffersFit'
  BY RangesHold DEF Inv, BuffersFit, SameButFlags
<1>5. PinsFit'
  BY RangesHold DEF Inv, PinsFit, SameButFlags
<1>6. SealedHolds'
  BY DEF Inv, SealedHolds, SameButFlags
<1> QED
  BY <1>2, <1>3, <1>4, <1>5, <1>6

\* What is known of the scopes.
LEMMA ScopeFacts ==
  ASSUME Inv
  PROVE  /\ Guarded \in SUBSET Scope /\ Cardinality(Guarded) = depth /\ depth \in Nat
         /\ depth = 0 <=> Guarded = {}
         /\ \A s \in Scope : /\ scopes[s].guarded \in BOOLEAN
                             /\ scopes[s].guarded => Open(s)
                             /\ Open(s) => scopes[s].pin \in Pin
<1>1. Guarded \in SUBSET Scope /\ Cardinality(Guarded) = depth
  BY DEF Guarded, Inv, FaultIsItsPools
<1>2. /\ Cardinality(Guarded) \in Nat
      /\ Cardinality(Guarded) = 0 <=> Guarded = {}
  BY <1>1, FiniteAssumption, CountOf
<1>3. \A s \in Scope : scopes[s] \in Access
  BY DEF Inv, TypeOK
<1>4. ASSUME NEW s \in Scope
      PROVE  /\ scopes[s].guarded \in BOOLEAN
             /\ scopes[s].guarded => Open(s)
             /\ Open(s) => scopes[s].pin \in Pin
  <2>1. CASE scopes[s] = NoScope
    BY <2>1 DEF NoScope, Open
  <2>2. CASE scopes[s] \in [pin : Pin, guarded : BOOLEAN]
    BY <2>2, NoneAssumption DEF Open
  <2> QED
    BY <1>3, <2>1, <2>2 DEF Access
<1> QED
  BY <1>1, <1>2, <1>4

\* A scope opens.
LEMMA BeginAccessInv ==
  ASSUME Inv, NEW s \in Scope, NEW x \in Pin, BeginAccess(s, x)
  PROVE  Inv'
<1> DEFINE p == pins[x].pool
           guarded == ~pools[p].sealed
<1>1. p \in Pool /\ p # NoPool /\ guarded \in BOOLEAN
  BY RangesHold DEF BeginAccess
<1>2. /\ scopes[s].pin = NoPin
      /\ scopes' = [scopes EXCEPT ![s] = [pin |-> x, guarded |-> guarded]]
      /\ UNCHANGED <<pools, files, buffers, pins, crashed>>
  BY DEF BeginAccess
<1>3. guarded => /\ activePool \in {NoPool, p} /\ activePool' = p
                 /\ depth' = depth + 1
                 /\ faulted' = (activePool # NoPool /\ faulted)
  BY DEF BeginAccess, MayGuard
<1>4. ~guarded => activePool' = activePool /\ depth' = depth /\ faulted' = faulted
  BY DEF BeginAccess, guardVars
<1>5. [pin |-> x, guarded |-> guarded] \in Access
  BY <1>1 DEF Access
<1>6. scopes \in [Scope -> Access]
  BY DEF Inv, TypeOK
<1>7. /\ scopes'[s].pin = x /\ scopes'[s].guarded = guarded
      /\ \A t \in Scope \ {s} : scopes'[t] = scopes[t]
  BY <1>2, <1>6
<1>8. /\ HeldWhileNeeded' /\ GrowthIsRemembered'
      /\ BuffersFit' /\ PinsFit' /\ SealedHolds'
  <2>1. \A q \in Pool : SameButFlags(pools[q], pools'[q])
    BY <1>2 DEF SameButFlags
  <2> QED
    BY <1>2, <2>1, AccessStep
<1>9. ScopesStand'
  <2>1. ASSUME NEW t \in Scope, scopes'[t].pin # NoPin
        PROVE  /\ pins[scopes'[t].pin].pool # NoPool
               /\ scopes'[t].guarded \/ pools[pins[scopes'[t].pin].pool].sealed
    BY <1>1, <1>7, <2>1 DEF Inv, ScopesStand, Open
  <2> QED
    BY <1>2, <2>1 DEF ScopesStand, Open
<1> HIDE DEF p, guarded
<1>10. TypeOK'
  <2>1. scopes' \in [Scope -> Access]
    BY <1>2, <1>5, <1>6
  <2>2. activePool' \in Pool \union {NoPool} /\ depth' \in Nat
    BY <1>1, <1>3, <1>4 DEF Inv, TypeOK
  <2>3. faulted \in BOOLEAN
    BY DEF Inv, TypeOK
  <2>4. faulted' \in BOOLEAN
    <3>1. CASE guarded
      BY <1>3, <3>1
    <3>2. CASE ~guarded
      BY <1>4, <2>3, <3>2
    <3> QED
      BY <3>1, <3>2
  <2> QED
    BY <1>2, <2>1, <2>2, <2>4 DEF Inv, TypeOK
<1>11. FaultIsItsPools'
  <2>1. s \notin Guarded
    BY <1>2, ScopeFacts DEF Guarded, Open
  <2>2. pins[scopes'[s].pin].pool = p
    BY <1>7 DEF p
  <2>3. \A t \in Guarded : pins[scopes[t].pin].pool = activePool /\ scopes'[t] = scopes[t]
    BY <1>7, <2>1, ScopeFacts DEF Inv, FaultIsItsPools
  <2>4. /\ faulted => activePool # NoPool
        /\ activePool = NoPool <=> Guarded = {}
        /\ \A q \in Pool : pools'[q].replaced <=>
             pools'[q].invalid \/ (faulted /\ activePool = q)
    BY <1>2 DEF Inv, FaultIsItsPools
  <2>5. CASE guarded
    <3>1. Guarded' = Guarded \union {s}
      BY <1>7, <2>5 DEF Guarded
    <3>2. Cardinality(Guarded') = depth'
      BY <1>3, <2>1, <2>5, <3>1, ScopeFacts, CountAdd, FiniteAssumption
    <3>3. \A t \in Guarded' : pins'[scopes'[t].pin].pool = activePool'
      BY <1>2, <1>3, <2>2, <2>3, <2>4, <2>5, <3>1
    <3>4. faulted' <=> faulted
      BY <1>3, <2>4, <2>5 DEF Inv, TypeOK
    <3>5. \A q \in Pool : pools'[q].replaced <=>
            pools'[q].invalid \/ (faulted' /\ activePool' = q)
      BY <1>3, <2>4, <2>5, <3>4
    <3>6. activePool' # NoPool /\ Guarded' # {}
      BY <1>1, <1>3, <2>5, <3>1
    <3> QED
      BY <3>2, <3>3, <3>5, <3>6 DEF FaultIsItsPools
  <2>6. CASE ~guarded
    <3>1. Guarded' = Guarded
      BY <1>7, <2>1, <2>6 DEF Guarded
    <3>2. \A t \in Guarded' : pins'[scopes'[t].pin].pool = activePool'
      BY <1>2, <1>4, <2>3, <2>6, <3>1
    <3> QED
      BY <1>4, <2>4, <2>6, <3>1, <3>2, ScopeFacts DEF FaultIsItsPools
  <2> QED
    BY <2>5, <2>6
<1>12. AccessIsSafe'
  BY <1>2 DEF Inv, AccessIsSafe
<1> QED
  BY <1>8, <1>9, <1>10, <1>11, <1>12 DEF Inv

\* A scope closes, the outermost guarded one with the guard.
LEMMA EndAccessInv ==
  ASSUME Inv, NEW s \in Scope, EndAccess(s)
  PROVE  Inv'
<1> DEFINE p == pins[scopes[s].pin].pool
           outermost == scopes[s].guarded /\ depth = 1
<1>1. /\ Open(s)
      /\ scopes' = [scopes EXCEPT ![s] = NoScope]
      /\ depth' = DepthWithout(s)
      /\ outermost => activePool' = NoPool
      /\ ~outermost => activePool' = activePool
      /\ faulted' = (faulted /\ ~outermost)
      /\ outermost /\ faulted => pools' = [pools EXCEPT ![p].invalid = TRUE]
      /\ ~(outermost /\ faulted) => pools' = pools
      /\ UNCHANGED <<files, buffers, pins, crashed>>
  BY DEF EndAccess, Open
<1>2. p \in Pool /\ (scopes[s].guarded => p = activePool)
  <2>1. scopes[s].pin \in Pin /\ p # NoPool
    BY <1>1, ScopeFacts DEF Inv, ScopesStand
  <2> QED
    BY <2>1, RangesHold DEF Inv, FaultIsItsPools, Guarded
<1>3. scopes \in [Scope -> Access] /\ pools \in [Pool -> Node] /\ NoScope \in Access
  BY DEF Inv, TypeOK, Access
<1>4. /\ scopes'[s] = NoScope
      /\ \A t \in Scope \ {s} : scopes'[t] = scopes[t]
  BY <1>1, <1>3
<1> HIDE DEF p
<1>5. \A q \in Pool : SameButFlags(pools[q], pools'[q]) /\ pools'[q] \in Node
  <2>1. \A q \in Pool : pools[q] \in Node
    BY <1>3
  <2>2. CASE pools' = pools
    BY <2>1, <2>2 DEF SameButFlags
  <2>3. CASE pools' = [pools EXCEPT ![p].invalid = TRUE]
    <3>1. \A q \in Pool \ {p} : pools'[q] = pools[q]
      BY <1>3, <2>3
    <3>2. pools'[p] = [pools[p] EXCEPT !.invalid = TRUE]
      BY <1>2, <1>3, <2>3
    <3>3. SameButFlags(pools[p], pools'[p]) /\ pools'[p] \in Node
      BY <1>2, <2>1, <3>2 DEF SameButFlags, Node
    <3> QED
      BY <2>1, <3>1, <3>3 DEF SameButFlags
  <2> QED
    BY <1>1, <2>2, <2>3
<1>6. /\ HeldWhileNeeded' /\ GrowthIsRemembered'
      /\ BuffersFit' /\ PinsFit' /\ SealedHolds'
  BY <1>1, <1>5, AccessStep
<1>7. ScopesStand'
  <2>1. ASSUME NEW t \in Scope, scopes'[t].pin # NoPin
        PROVE  /\ pins[scopes'[t].pin].pool # NoPool
               /\ scopes'[t].guarded \/ pools'[pins[scopes'[t].pin].pool].sealed
    <3>1. t # s
      BY <1>4, <2>1 DEF NoScope
    <3>2. scopes'[t] = scopes[t] /\ Open(t)
      BY <1>4, <2>1, <3>1 DEF Open
    <3>3. scopes[t].pin \in Pin /\ pins[scopes[t].pin].pool # NoPool
      BY <3>2, ScopeFacts DEF Inv, ScopesStand
    <3>4. pins[scopes[t].pin].pool \in Pool
      BY <3>3, RangesHold
    <3> QED
      BY <1>5, <3>2, <3>3, <3>4 DEF Inv, ScopesStand, SameButFlags
  <2> QED
    BY <1>1, <2>1 DEF ScopesStand, Open
<1>8. depth' \in Nat /\ Cardinality(Guarded') = depth'
  <2>1. CASE scopes[s].guarded
    <3>1. Guarded' = Guarded \ {s} /\ s \in Guarded
      BY <1>4, <2>1 DEF Guarded, NoScope
    <3>2. Cardinality(Guarded') = depth - 1
      BY <3>1, ScopeFacts, CountAdd, FiniteAssumption
    <3>3. depth # 0
      BY <3>1, ScopeFacts
    <3> QED
      BY <1>1, <2>1, <3>2, <3>3, ScopeFacts DEF DepthWithout
  <2>2. CASE ~scopes[s].guarded
    <3>1. Guarded' = Guarded
      BY <1>4, <2>2 DEF Guarded, NoScope
    <3> QED
      BY <1>1, <2>2, <3>1, ScopeFacts DEF DepthWithout
  <2> QED
    BY <2>1, <2>2
<1>9. depth' = 0 <=> Guarded' = {}
  <2>1. Guarded' \in SUBSET Scope
    BY DEF Guarded
  <2> QED
    BY <1>8, <2>1, CountOf, FiniteAssumption
<1>10. faulted \in BOOLEAN /\ faulted' \in BOOLEAN
  BY <1>1 DEF Inv, TypeOK
<1>11. activePool' \in Pool \union {NoPool}
  BY <1>1 DEF Inv, TypeOK
<1>12. TypeOK'
  <2>1. scopes' \in [Scope -> Access]
    BY <1>1, <1>3
  <2>2. pools' \in [Pool -> Node]
    BY <1>1, <1>3, <1>5
  <2> QED
    BY <1>1, <1>8, <1>10, <1>11, <2>1, <2>2 DEF Inv, TypeOK
<1>13. FaultIsItsPools'
  <2>1. /\ faulted => activePool # NoPool
        /\ activePool = NoPool <=> Guarded = {}
        /\ \A q \in Pool : pools[q].replaced <=>
             pools[q].invalid \/ (faulted /\ activePool = q)
    BY DEF Inv, FaultIsItsPools
  <2>2. CASE outermost
    <3>1. Guarded' = {}
      BY <1>1, <1>9, <2>2 DEF DepthWithout
    <3>2. activePool' = NoPool /\ ~faulted'
      BY <1>1, <2>2
    <3>3. \A q \in Pool : pools'[q].replaced <=> pools'[q].invalid
      <4>1. CASE faulted
        <5>1. pools' = [pools EXCEPT ![p].invalid = TRUE] /\ p = activePool
          BY <1>1, <1>2, <2>2, <4>1
        <5>2. \A q \in Pool \ {p} : pools'[q] = pools[q]
          BY <1>3, <5>1
        <5>3. pools'[p] = [pools[p] EXCEPT !.invalid = TRUE] /\ pools[p] \in Node
          BY <1>2, <1>3, <5>1
        <5>4. pools'[p].invalid /\ pools'[p].replaced = pools[p].replaced
          BY <5>3 DEF Node
        <5>5. pools[p].replaced
          BY <1>2, <2>1, <4>1, <5>1
        <5> QED
          BY <2>1, <5>1, <5>2, <5>4, <5>5
      <4>2. CASE ~faulted
        BY <1>1, <2>1, <4>2
      <4> QED
        BY <4>1, <4>2
    <3> QED
      BY <1>8, <3>1, <3>2, <3>3 DEF FaultIsItsPools
  <2>3. CASE ~outermost
    <3>1. activePool' = activePool /\ faulted' = faulted /\ pools' = pools
      BY <1>1, <1>10, <2>3
    <3>2. Guarded' = {} <=> Guarded = {}
      <4>1. depth \in Nat /\ (depth = 0 <=> Guarded = {})
        BY ScopeFacts
      <4>2. scopes[s].guarded => depth # 0
        BY <4>1 DEF Guarded
      <4>3. depth' = 0 <=> depth = 0
        BY <1>1, <2>3, <4>1, <4>2 DEF DepthWithout
      <4> QED
        BY <1>9, <4>1, <4>3
    <3>3. Guarded' \subseteq Guarded \ {s} /\ \A t \in Guarded' : scopes'[t] = scopes[t]
      BY <1>4 DEF Guarded, NoScope
    <3>4. \A t \in Guarded' : pins'[scopes'[t].pin].pool = activePool'
      BY <1>1, <3>1, <3>3 DEF Inv, FaultIsItsPools
    <3> QED
      BY <1>8, <2>1, <3>1, <3>2, <3>4 DEF FaultIsItsPools
  <2> QED
    BY <2>2, <2>3
<1>14. AccessIsSafe'
  BY <1>1 DEF Inv, AccessIsSafe
<1> QED
  BY <1>6, <1>7, <1>12, <1>13, <1>14 DEF Inv

\* Pixels are touched: what faults is the pool of the guard.
LEMMA TouchInv ==
  ASSUME Inv, NEW x \in Pin, Touch(x)
  PROVE  Inv'
<1> DEFINE p == pins[x].pool
<1>1. p \in Pool /\ p # NoPool /\ pins[x].end <= pools[p].mapped
  BY RangesHold DEF Touch, Inv, PinsFit
<1>2. pools[p] \in Node /\ files[p] \in File /\ pins[x].end \in Nat
  BY <1>1, PoolFacts DEF Inv, TypeOK, Ranges, NoBuffer, Size
<1>3. pools[p].mapped \in Nat /\ files[p].size \in Nat
  BY <1>2, SizeAssumption DEF Node, File
<1>4. /\ files[p].size < pins[x].end /\ ~pools[p].replaced /\ HandleSigbus(p)
      /\ UNCHANGED <<files, buffers, pins, scopes>>
  BY <1>1, <1>2, <1>3 DEF Touch, Faults
<1>5. ~pools[p].sealed
  BY <1>1, <1>2, <1>3, <1>4 DEF Inv, SealedHolds
<1>6. activePool = p
  <2>1. PICK s \in Scope : scopes[s].pin = x
    BY <1>5 DEF Touch
  <2>2. Open(s)
    BY <2>1, NoneAssumption DEF Open
  <2>3. scopes[s].guarded
    BY <1>5, <2>1, <2>2 DEF Inv, ScopesStand
  <2> QED
    BY <2>1, <2>3 DEF Inv, FaultIsItsPools, Guarded
<1>7. /\ faulted' = TRUE /\ pools' = [pools EXCEPT ![p].replaced = TRUE]
      /\ UNCHANGED <<activePool, depth, crashed>>
  BY <1>4, <1>6 DEF HandleSigbus
<1> HIDE DEF p
<1>8. pools \in [Pool -> Node]
  BY DEF Inv, TypeOK
<1>9. /\ \A q \in Pool \ {p} : pools'[q] = pools[q]
      /\ pools'[p] = [pools[p] EXCEPT !.replaced = TRUE]
  BY <1>1, <1>7, <1>8
<1>10. /\ SameButFlags(pools[p], pools'[p]) /\ pools'[p] \in Node
       /\ pools'[p].replaced
  BY <1>2, <1>9 DEF SameButFlags, Node
<1>11. \A q \in Pool : SameButFlags(pools[q], pools'[q]) /\ pools'[q] \in Node
  BY <1>8, <1>9, <1>10 DEF SameButFlags
<1>12. /\ HeldWhileNeeded' /\ GrowthIsRemembered'
       /\ BuffersFit' /\ PinsFit' /\ SealedHolds'
  BY <1>4, <1>11, AccessStep
<1>13. TypeOK'
  <2>1. pools' \in [Pool -> Node]
    BY <1>7, <1>8, <1>11
  <2> QED
    BY <1>4, <1>7, <2>1 DEF Inv, TypeOK
<1>14. ScopesStand'
  <2>1. ASSUME NEW s \in Scope, Open(s)
        PROVE  /\ pins[scopes[s].pin].pool # NoPool
               /\ scopes[s].guarded \/ pools'[pins[scopes[s].pin].pool].sealed
    <3>1. scopes[s].pin \in Pin /\ pins[scopes[s].pin].pool # NoPool
      BY <2>1, ScopeFacts DEF Inv, ScopesStand
    <3>2. pins[scopes[s].pin].pool \in Pool
      BY <3>1, RangesHold
    <3> QED
      BY <1>11, <2>1, <3>1, <3>2 DEF Inv, ScopesStand, SameButFlags
  <2> QED
    BY <1>4, <2>1 DEF ScopesStand, Open
<1>15. FaultIsItsPools'
  <2>1. Guarded' = Guarded
    BY <1>4 DEF Guarded
  <2>2. \A q \in Pool : pools'[q].replaced <=>
          pools'[q].invalid \/ (faulted' /\ activePool' = q)
    BY <1>6, <1>7, <1>9, <1>10 DEF Inv, FaultIsItsPools
  <2>3. activePool' # NoPool
    BY <1>1, <1>6, <1>7, NoneAssumption
  <2> QED
    BY <1>4, <1>7, <2>1, <2>2, <2>3 DEF Inv, FaultIsItsPools
<1>16. AccessIsSafe'
  BY <1>7 DEF Inv, AccessIsSafe
<1> QED
  BY <1>12, <1>13, <1>14, <1>15, <1>16 DEF Inv

-----------------------------------------------------------------------------
(***************************************************************************)
(* Mappings do not move.                                                   *)
(***************************************************************************)
\* A pool that its pins keep is updated as it is told.
LEMMA PinnedUpdate ==
  ASSUME Inv, NEW p \in Pool, NEW node, Update(p, node), node.pinCount # 0
  PROVE  pools'[p] = node
BY DEF Update, Kept, Unused, Inv, TypeOK

\* A pool is updated alone.
LEMMA UpdateElsewhere ==
  ASSUME Inv, NEW p \in Pool, NEW q \in Pool, q # p, NEW node, Update(p, node)
  PROVE  pools'[q] = pools[q]
BY DEF Update, Inv, TypeOK

\* A pin that stays keeps the size of its mapping.
LEMMA PinnedStays ==
  ASSUME Inv, Next, NEW x \in Pin, pins[x].pool # NoPool, pins'[x] = pins[x]
  PROVE  pools'[pins[x].pool].mapped = pools[pins[x].pool].mapped
<1>0. PICK p \in Pool : p = pins[x].pool
  BY RangesHold
<1>1. p \in Pool /\ pools[p].active /\ pools[p].pinCount # 0
  BY <1>0, RangesHold
<1>2. pools \in [Pool -> Node] /\ pools[p] \in Node
  BY <1>1 DEF Inv, TypeOK
<1>3. x \in PinsOf(p)
  BY <1>0 DEF PinsOf
<1>4. p # NoPool /\ pins'[x].pool = p /\ pins[x].pool = p
  BY <1>0
<1>5. SUFFICES pools'[p].mapped = pools[p].mapped
  BY <1>0
<1>6. ASSUME NEW q \in Pool, NEW size \in Size, NEW file \in File, AddPool(q, size, file)
      PROVE  pools'[p].mapped = pools[p].mapped
  BY <1>1, <1>2, <1>6 DEF AddPool
<1>7. ASSUME NEW q \in Pool, DestroyPoolResource(q)
      PROVE  pools'[p].mapped = pools[p].mapped
  <2> DEFINE node == [pools[q] EXCEPT !.resource = FALSE]
  <2>1. Update(q, node)
    BY <1>7 DEF DestroyPoolResource
  <2>2. CASE q = p
    <3>1. node.pinCount = pools[p].pinCount /\ node.mapped = pools[p].mapped
      BY <1>2, <2>2 DEF Node
    <3> HIDE DEF node
    <3> QED
      BY <1>1, <2>1, <2>2, <3>1, PinnedUpdate
  <2> HIDE DEF node
  <2> QED
    BY <1>1, <2>1, <2>2, UpdateElsewhere
<1>8. ASSUME NEW q \in Pool, NEW size \in Size, Grow(q, size)
      PROVE  pools'[p].mapped = pools[p].mapped
  <2>1. CASE q = p
    <3>1. pools'[p] = Deferred(p, size)
      BY <1>1, <1>2, <1>8, <2>1 DEF Grow
    <3> QED
      BY <1>2, <3>1 DEF Deferred, Node
  <2>2. CASE q # p
    BY <1>1, <1>2, <1>8, <2>2 DEF Grow
  <2> QED
    BY <2>1, <2>2
<1>9. ASSUME NEW q \in Pool, Retry(q)
      PROVE  pools'[p].mapped = pools[p].mapped
  BY <1>1, <1>2, <1>9 DEF Retry
<1>10. ASSUME NEW b \in Buffer, NEW q \in Pool, NEW end \in Size, AddBuffer(b, q, end)
       PROVE  pools'[p].mapped = pools[p].mapped
  <2>1. CASE q = p
    <3>1. pools'[p] = [pools[p] EXCEPT !.bufferCount = @ + 1]
      BY <1>1, <1>2, <1>10, <2>1 DEF AddBuffer
    <3> QED
      BY <1>2, <3>1 DEF Node
  <2>2. CASE q # p
    BY <1>1, <1>2, <1>10, <2>2 DEF AddBuffer
  <2> QED
    BY <2>1, <2>2
<1>11. ASSUME NEW b \in Buffer, DestroyBuffer(b)
       PROVE  pools'[p].mapped = pools[p].mapped
  <2> DEFINE q == buffers[b].pool
             node == [pools[q] EXCEPT !.bufferCount = @ - 1]
  <2>1. q \in Pool /\ Update(q, node)
    BY <1>11, RangesHold DEF DestroyBuffer
  <2> HIDE DEF q
  <2>2. CASE q = p
    <3>1. node.pinCount = pools[p].pinCount /\ node.mapped = pools[p].mapped
      BY <1>2, <2>2 DEF Node
    <3> HIDE DEF node
    <3> QED
      BY <1>1, <2>1, <2>2, <3>1, PinnedUpdate
  <2> HIDE DEF node
  <2> QED
    BY <1>1, <2>1, <2>2, UpdateElsewhere
<1>12. ASSUME NEW b \in Buffer, CopyFails(b)
       PROVE  pools'[p].mapped = pools[p].mapped
  <2>1. CASE buffers[b].pool = p
    <3>1. Settled(p) = pools[p]
      BY <1>1, <1>12, <2>1 DEF CopyFails, Pinnable, Settled
    <3> QED
      BY <1>1, <1>2, <1>12, <2>1, <3>1 DEF CopyFails
  <2>2. CASE buffers[b].pool # p
    BY <1>1, <1>2, <1>12, <2>2 DEF CopyFails
  <2> QED
    BY <2>1, <2>2
<1>13. ASSUME NEW y \in Pin, NEW b \in Buffer, PinBuffer(y, b)
       PROVE  pools'[p].mapped = pools[p].mapped
  <2>1. CASE buffers[b].pool = p
    <3>1. Settled(p) = pools[p]
      BY <1>1, <1>13, <2>1 DEF PinBuffer, Pinnable, Settled
    <3>2. pools'[p] = [pools[p] EXCEPT !.pinCount = @ + 1]
      BY <1>1, <1>2, <1>13, <2>1, <3>1 DEF PinBuffer
    <3> QED
      BY <1>2, <3>2 DEF Node
  <2>2. CASE buffers[b].pool # p
    BY <1>1, <1>2, <1>13, <2>2 DEF PinBuffer
  <2> QED
    BY <2>1, <2>2
<1>14. ASSUME NEW y \in Pin, Unpin(y)
       PROVE  pools'[p].mapped = pools[p].mapped
  <2> DEFINE q == pins[y].pool
             node == [pools[q] EXCEPT !.pinCount = @ - 1]
             grown == [Remapped(q, pools[q].pending) EXCEPT !.pinCount = 0]
  <2>1. /\ q \in Pool /\ pools[q] \in Node
        /\ pins' = [pins EXCEPT ![y] = Unpinned]
        /\ \/ Update(q, node)
           \/ node.pinCount = 0 /\ Update(q, grown)
    BY <1>2, <1>14, RangesHold DEF Unpin
  <2>2. node.pinCount = pools[q].pinCount - 1 /\ node.mapped = pools[q].mapped
    BY <2>1 DEF Node
  <2>3. q = pins[y].pool
    OBVIOUS
  <2> HIDE DEF q, node, grown
  <2>4. CASE q # p
    BY <1>1, <2>1, <2>4, UpdateElsewhere
  <2>5. CASE q = p
    <3>1. Unpinned.pool = NoPool
      BY DEF Unpinned, NoBuffer
    <3>2. Cardinality(PinsOf(p)') = Cardinality(PinsOf(p)) - 1
      BY <1>1, <1>4, <2>1, <2>3, <2>5, <3>1, PinCounts DEF Inv
    <3>3. x \in PinsOf(p)' /\ PinsOf(p)' \in SUBSET Pin
      BY <1>4 DEF PinsOf
    <3>4. Cardinality(PinsOf(p)') # 0
      BY <3>3, CountOf, FiniteAssumption
    <3>5. node.pinCount # 0
      BY <1>1, <2>2, <2>5, <3>2, <3>4 DEF Inv, HeldWhileNeeded
    <3> QED
      BY <1>1, <2>1, <2>2, <2>5, <3>5, PinnedUpdate
  <2> QED
    BY <2>4, <2>5
<1>15. ASSUME NEW y \in Pin, Touch(y)
       PROVE  pools'[p].mapped = pools[p].mapped
  <2>1. \/ pools' = pools
        \/ pools' = [pools EXCEPT ![pins[y].pool].replaced = TRUE]
    BY <1>15 DEF Touch, HandleSigbus
  <2> QED
    BY <1>1, <1>2, <2>1 DEF Node
<1>16. ASSUME NEW s \in Scope, EndAccess(s)
       PROVE  pools'[p].mapped = pools[p].mapped
  <2>1. \/ pools' = pools
        \/ pools' = [pools EXCEPT ![pins[scopes[s].pin].pool].invalid = TRUE]
    BY <1>16 DEF EndAccess
  <2> QED
    BY <1>1, <1>2, <2>1 DEF Node
<1>17. ASSUME \/ \E q \in Pool, size \in 0..MaxSize : Truncate(q, size)
              \/ \E q \in Pool : Seal(q)
              \/ \E s \in Scope, y \in Pin : BeginAccess(s, y)
       PROVE  pools'[p].mapped = pools[p].mapped
  BY <1>17 DEF Truncate, Seal, BeginAccess
<1> QED
  BY <1>6, <1>7, <1>8, <1>9, <1>10, <1>11, <1>12, <1>13, <1>14, <1>15, <1>16, <1>17
     DEF Next

-----------------------------------------------------------------------------
(***************************************************************************)
(* The theorems.                                                           *)
(***************************************************************************)
\* It holds of the empty store.
LEMMA InitInv == Init => Inv
<1> SUFFICES ASSUME Init
             PROVE  Inv
  OBVIOUS
<1> USE DEF Init
<1>1. Guarded = {} /\ \A p \in Pool : BuffersOf(p) = {} /\ PinsOf(p) = {}
  BY NoneAssumption DEF Guarded, BuffersOf, PinsOf, NoScope, NoBuffer, Unpinned
<1>2. Cardinality({}) = 0
  BY FS_EmptySet
<1>3. TypeOK
  <2>1. FreePool \in Node
    BY SizeAssumption DEF FreePool, Node
  <2>2. NoFile \in File /\ NoBuffer \in Ranges /\ NoScope \in Access /\ Unpinned \in Ranges
    BY SizeAssumption DEF NoFile, File, NoBuffer, Unpinned, Ranges, Access
  <2> QED
    BY <2>1, <2>2 DEF TypeOK
<1>4. HeldWhileNeeded
  BY <1>1, <1>2 DEF HeldWhileNeeded, FreePool
<1>5. GrowthIsRemembered
  BY DEF GrowthIsRemembered, FreePool
<1>6. BuffersFit /\ PinsFit /\ SealedHolds
  BY DEF BuffersFit, PinsFit, SealedHolds, FreePool, NoBuffer, Unpinned
<1>7. ScopesStand
  BY DEF ScopesStand, Open, NoScope
<1>8. FaultIsItsPools
  BY <1>1, <1>2 DEF FaultIsItsPools, FreePool
<1> QED
  BY <1>3, <1>4, <1>5, <1>6, <1>7, <1>8 DEF Inv, AccessIsSafe

\* Every step keeps it.
LEMMA NextInv == Inv /\ [Next]_vars => Inv'
<1> SUFFICES ASSUME Inv, [Next]_vars
             PROVE  Inv'
  OBVIOUS
<1>1. ASSUME NEW p \in Pool, NEW size \in Size, NEW file \in File, AddPool(p, size, file)
      PROVE  Inv'
  BY <1>1, AddPoolInv
<1>2. ASSUME NEW p \in Pool, DestroyPoolResource(p)
      PROVE  Inv'
  BY <1>2, DestroyPoolResourceInv
<1>3. ASSUME NEW p \in Pool, NEW size \in Size, Grow(p, size)
      PROVE  Inv'
  BY <1>3, GrowInv
<1>4. ASSUME NEW p \in Pool, Retry(p)
      PROVE  Inv'
  BY <1>4, RetryInv
<1>5. ASSUME NEW p \in Pool, NEW size \in 0..MaxSize, Truncate(p, size)
      PROVE  Inv'
  BY <1>5, TruncateInv
<1>6. ASSUME NEW p \in Pool, Seal(p)
      PROVE  Inv'
  BY <1>6, SealInv
<1>7. ASSUME NEW b \in Buffer, NEW p \in Pool, NEW end \in Size, AddBuffer(b, p, end)
      PROVE  Inv'
  BY <1>7, AddBufferInv
<1>8. ASSUME NEW b \in Buffer, DestroyBuffer(b)
      PROVE  Inv'
  BY <1>8, DestroyBufferInv
<1>9. ASSUME NEW b \in Buffer, CopyFails(b)
      PROVE  Inv'
  BY <1>9, CopyFailsInv
<1>10. ASSUME NEW x \in Pin, NEW b \in Buffer, PinBuffer(x, b)
       PROVE  Inv'
  BY <1>10, PinBufferInv
<1>11. ASSUME NEW x \in Pin, Unpin(x)
       PROVE  Inv'
  BY <1>11, UnpinInv
<1>12. ASSUME NEW x \in Pin, Touch(x)
       PROVE  Inv'
  BY <1>12, TouchInv
<1>13. ASSUME NEW s \in Scope, NEW x \in Pin, BeginAccess(s, x)
       PROVE  Inv'
  BY <1>13, BeginAccessInv
<1>14. ASSUME NEW s \in Scope, EndAccess(s)
       PROVE  Inv'
  BY <1>14, EndAccessInv
<1>15. CASE UNCHANGED vars
  <2>1. /\ UNCHANGED <<pools, files, buffers, pins, scopes>>
        /\ UNCHANGED <<activePool, depth, faulted, crashed>>
    BY <1>15 DEF vars, guardVars
  <2>2. /\ \A p \in Pool : BuffersOf(p)' = BuffersOf(p) /\ PinsOf(p)' = PinsOf(p)
        /\ Guarded' = Guarded
    BY <2>1 DEF BuffersOf, PinsOf, Guarded
  <2>3. TypeOK' /\ GrowthIsRemembered' /\ BuffersFit' /\ PinsFit' /\ SealedHolds'
    BY <2>1 DEF Inv, TypeOK, GrowthIsRemembered, BuffersFit, PinsFit, SealedHolds
  <2>4. HeldWhileNeeded'
    BY <2>1, <2>2 DEF Inv, HeldWhileNeeded
  <2>5. ScopesStand' /\ AccessIsSafe'
    BY <2>1 DEF Inv, ScopesStand, Open, AccessIsSafe
  <2>6. FaultIsItsPools'
    BY <2>1, <2>2 DEF Inv, FaultIsItsPools
  <2> QED
    BY <2>3, <2>4, <2>5, <2>6 DEF Inv
<1> QED
  BY <1>1, <1>2, <1>3, <1>4, <1>5, <1>6, <1>7, <1>8, <1>9, <1>10, <1>11, <1>12,
     <1>13, <1>14, <1>15 DEF Next

\* The inductive invariant holds in every state of the store.
THEOREM ShmInvariance == Spec => []Inv
BY InitInv, NextInv, PTL DEF Spec

\* Whichever of resource, buffers and pins goes last, the pool goes with it and
\* not before: shm.zig counts them apart and releases in three places.
THEOREM PoolsLiveWhileNeeded == Spec => []HeldWhileNeeded
<1>1. Inv => HeldWhileNeeded
  BY DEF Inv
<1> QED
  BY <1>1, ShmInvariance, PTL

\* What was declared and not yet mapped is what is pending.
THEOREM GrowthSurvives == Spec => []GrowthIsRemembered
<1>1. Inv => GrowthIsRemembered
  BY DEF Inv
<1> QED
  BY <1>1, ShmInvariance, PTL

\* However the client truncates its file, no access brings the process down.
THEOREM NoAccessCrashes == Spec => []AccessIsSafe
<1>1. Inv => AccessIsSafe
  BY DEF Inv
<1> QED
  BY <1>1, ShmInvariance, PTL

\* The SIGBUS handler blames the pool of the open guarded scopes and no other.
THEOREM FaultsAreAttributed == Spec => []FaultIsItsPools
<1>1. Inv => FaultIsItsPools
  BY DEF Inv
<1> QED
  BY <1>1, ShmInvariance, PTL

\* While an importer holds a pin nothing unmaps or moves what it points into:
\* resize puts growth off and the releases count pins.
THEOREM PinsHoldMappings == Spec => MappingIsStill
<1> DEFINE Still == \A x \in Pin :
             pins[x].pool # NoPool /\ pins'[x] = pins[x] =>
               LET p == pins[x].pool IN
               /\ pools'[p].active
               /\ pools'[p].mapped = pools[p].mapped
               /\ pins[x].end <= pools[p].mapped
<1>1. Inv /\ Inv' /\ [Next]_vars => [Still]_vars
  <2> SUFFICES ASSUME Inv, Inv', Next, NEW x \in Pin,
                      pins[x].pool # NoPool, pins'[x] = pins[x]
               PROVE  LET p == pins[x].pool IN
                      /\ pools'[p].active
                      /\ pools'[p].mapped = pools[p].mapped
                      /\ pins[x].end <= pools[p].mapped
    OBVIOUS
  <2>1. pools'[pins[x].pool].mapped = pools[pins[x].pool].mapped
    BY PinnedStays
  <2>2. pins[x].end <= pools[pins[x].pool].mapped
    BY DEF Inv, PinsFit
  <2>3. pins[x].pool \in Pool /\ x \in PinsOf(pins[x].pool)'
    BY RangesHold DEF PinsOf
  <2>4. pools'[pins[x].pool].active
    BY <2>3 DEF Inv, HeldWhileNeeded
  <2> QED
    BY <2>1, <2>2, <2>4
<1> QED
  BY <1>1, ShmInvariance, PTL DEF Spec, MappingIsStill
=============================================================================
