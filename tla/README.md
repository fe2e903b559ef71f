# A verification development for wayring

wayring is a Wayland client and server library written in Zig on top of
`io_uring`; `bench/` holds the C programs, written against libwayland, that it
is tested and measured with, and their counterparts on wayring.  This directory
holds TLA+ models of its core and of those interoperability programs, the TLC
configurations that check them on small instances, and machine-checked proofs of
the results that matter most.  Paths below are relative to the repository root
(`src/io_uring.zig` is the file the library calls `io_uring.zig`).

## 1. The system

### 1.1 Components

| Component | Source | State it keeps | Operations |
|---|---|---|---|
| Connection actor | `connection.zig`, `completion.zig` | the statechart (phase × receive region), the transmit queue, received descriptors, its identity | `enqueue`, `beginProtocolError`/`commitProtocolError`, `beginClose`, `requestCancel`, `completeReceive`/`Send`/`Cancel`, `canDeinit` |
| Slot directory | `reactor.zig` | generation and free list of every slot | `acquire`, `deactivate`, `token`, `route` |
| Reactor | `io_uring.zig` | records of the peers, the deferred-receive FIFO and its rearm permit, the provided buffers | `attach`/`admit`, `prepareReceive`, `prepareSend`, `prepareClose`, `deferReceive`, `noteReceiveBufferReturned`, `prepareDeferredReceives`, `destroyPeer` |
| Listener | `io_uring.zig` | its own statechart (open, closing, canceling, canceled; accepting) | `prepareAccept`, `prepareClose`, `completeAccept`, `completeCancel` |
| Server driver | `server.zig` | the pending FIFO, `shutdown_requested` | `schedule`, `requestShutdown`, `dispatch`, `prepare` |
| Server core | `server.zig` | – | request dispatch, `postError`, `terminalRequest` |
| Registry runtime | `server.zig` | globals, registry subscriptions with their offers, sync barriers, removed globals, the publication cursor | `subscribe`, `addGlobal`, `removeGlobal`, `bindGlobal`, `completeSync`, `ackGlobalRemove`, `removeRegistry`, `publishNext` |
| Transmit queue | `tx.zig`, `pool.zig` | a chain of leased blocks, a descriptor chain, the active send, reservations | `enqueue`, `reserve`/`commit`/`abort`, `prepareSend`, `complete`, `cancel` |
| Receive side | `stream.zig`, `ancillary.zig` | a partial message in an inline scratch or a leased block, a queue of descriptors | `decodeCompletion`, `ingestControl`, `Framer.next`, `FdQueue.pop`, `discard`, `closeRights`, `releaseReceived` |
| Object namespaces | `objects.zig` | client and server id allocators, object tables, the shared namespace | allocate, retire, `delete_id`, resolve, dispatch lookup |
| Shared memory | `shm.zig` | pools, buffers, pins, the guard variables of a thread | `addPool`, `resize`, `addBuffer`, `pin`/`unpin`, `prepareCopy`/`completeCopy`, `destroy*`, `beginAccess`/`end`, the SIGBUS handler |
| Client core and driver | `client.zig` | round trips, the terminal close path | `sync`, dispatch, `prepareClose` |
| Codec and tables | `wire.zig`, `dispatch.zig` | none | encode, decode, table lookup |
| Interoperability programs | `bench/*-interop-client.c`, `bench/*-interop-server.c`, `bench/interop.zig` | what a client holds and has heard, what a server holds and has noted | a program per protocol and side: requests, listeners, cleanup, exit status |
| Benchmarks | `bench/libwayland-*.c`, `bench/viewport-benchmark.c`, `bench/raw.c`, ... | counters | loops that are timed |
| Build-time tools | `protocol.zig`, `codegen.zig`, `metadata.zig` | none at run time | scan, generate |

### 1.2 How they interact

Everything runs on one thread.  Concurrency is between that thread and the
kernel, which owns the operations submitted to the ring:

* the library prepares SQEs and the caller submits them; the SQ is bounded and
  a full SQ is an ordinary outcome, after which work stays in a FIFO;
* the kernel completes operations in any order, and a multishot receive or
  accept completes many times; the caller passes a batch of CQEs to
  `Driver.dispatch`;
* a CQE carries only a token (slot, generation, operation), which
  `Slots.routeToken` maps to a live record or to nothing;
* request handlers run inside `dispatch`.  They enqueue output, add globals,
  and may post errors;
* a client and a server share nothing but a socket, whose two directions are
  each in order and not ordered with each other: ids are freed, reused and
  forgotten by messages that cross;
* a client goes on owning the file behind a pool it shared, and may truncate it
  while the server reads.

### 1.3 What is hard

* A record may not be freed while the kernel has an operation that points into
  it; closing takes a cancel SQE whose CQE races with those it cancels.
* The statechart, the transmit queue and the kernel's operations are three
  separate records of the same facts.
* Work is remembered only by a place in a FIFO.  A place that is lost, or kept
  for the wrong generation, is a hang or a wrong peer.
* The SQ, the provided buffers and the transmit budgets are all bounded, and
  each bound is met in the middle of some loop.
* A terminal protocol error is queued behind earlier output, and closing is
  reached only by the completion of its last byte.
* Shutdown races with accepts that are already complete.
* An object id is a number that both sides reuse, and a message names its object
  by that number long after the sender looked it up.
* A mapping is kept by three kinds of reference that go in any order, growth
  waits for the last pin, and a bus error must be blamed on the right pool.
* A message is lent from a buffer that the kernel fills again as soon as it is
  returned; one that is cut in two is kept in memory that all connections share;
  its descriptors arrive with some bytes of it and are matched by counting.
* Two programs that each wait for the other's message hang; one that leaves
  without waiting loses what it sent last.

### 1.4 What makes each component correct

* Connection and reactor: the outstanding operations are exactly those the
  actors account for, no record is freed before them, an open peer always has
  its receive armed or parked, a draining one reaches closing, nothing follows
  a terminal error.
* Driver and listener: no peer's work is forgotten, no entry is stale, closing
  peers are destroyed, queued output is sent, shutdown completes and leaves the
  ring empty.
* Registry: each client sees announcements, removals and sync replies in the
  order of their epochs; a removed global stays bindable exactly while an offer
  of it is outstanding; a blocked client delays nobody.
* Transmit queue: bytes leave once and in order, a descriptor leaves no later
  than its bytes and is closed exactly once, an aborted reservation leaves no
  trace.
* Receive side: the handler gets the messages that the peer posted, each whole
  and with its own descriptors; every provided buffer is returned once, every
  block given back once, every received descriptor handed over or closed once.
* Namespaces: an id is never given out twice, nor reused before `delete_id`;
  a handle of an earlier object does not resolve.
* Shared memory: a mapping lives exactly as long as a pool, a buffer or a pin
  needs it, and is not moved under a pin; growth that waits is not forgotten; no
  access to a truncated file ends the process, and the fault is reported
  against its pool only.
* Interoperability: each pair of programs comes to an end; neither fails but for
  want of memory (and one race, see `NobodyFails` in 3.2); and what the client
  created is released in the documented order.

The hazards behind these statements are listed, each with the line where it
bites and the properties that cover it, in `PROJECT.json`.

## 2. The modules

| Module | Models |
|---|---|
| `ActorState` | the statechart of a connection as a pure transition table: `Accepts` (the guards of `State.step`) and `Step` |
| `Connection` | all connections of a reactor and the kernel's operations on them, without any schedule |
| `ConnectionProofs` | the theorems about `Connection` |
| `MCConnection` | its instance for TLC |
| `Driver` | the event loop: dispatch, the two FIFOs, the SQ and CQ, the provided buffers, the listener, shutdown; implements `Connection` |
| `DriverProofs` | the theorems about `Driver`, the refinement among them |
| `MCDriver` | its instances for TLC |
| `Announcements` | abstract: one queue of batches per client |
| `Registry` | globals, registries, sync barriers and the publication pass; implements `Announcements` |
| `RegistryProofs` | the theorems about the state of `Registry` and its pass |
| `RegistryOrderProofs` | that `Registry` implements `Announcements` |
| `MCRegistry` | its instances for TLC |
| `TxQueue` | the transmit queues: chains of shared blocks, reservations, sends, descriptors |
| `TxQueueProofs` | the theorems about the descriptors of `TxQueue`, its blocks and its bytes |
| `MCTxQueue` | its instance for TLC |
| `Delivery` | abstract: each message that was posted is handed over once, in order |
| `Receive` | the receive side: provided buffers, the descriptor queue, the framer, dispatch of a payload; implements `Delivery` |
| `ReceiveProofs` | the theorems about `Receive`, the refinement among them |
| `MCReceive` | its instances for TLC |
| `Objects` | the object ids of one connection, on both sides, and the messages between them |
| `ObjectsProofs` | the theorems about `Objects` |
| `MCObjects` | its instances for TLC |
| `ShmStore` | shared-memory pools, buffers, pins, access scopes and the SIGBUS handler |
| `ShmStoreProofs` | the theorems about `ShmStore` |
| `MCShmStore` | its instance for TLC |
| `InteropMessages` | what the interoperability programs say to each other |
| `InteropSeat`, `InteropXdg`, `InteropDataDevice`, `InteropShm`, `InteropDmabuf`, `InteropOutput`, `InteropSubsurface`, `InteropShell` | the programs of one or a few protocols |
| `Interop` | two processes that run a pair of them, with their socket and pipes |
| `MCInterop` | its instance for TLC |

### 2.1 `Connection`

`live`, `generation` are the slot directory; `state` the actor's statechart;
`queued` and `flight` the bytes of its transmit queue and of the active send;
`parked` membership in the deferred-receive FIFO; `ops` the operations from the
preparation of their SQE to their terminating CQE.  Each action is one call of
the library: `Attach` (with the receive it prepares, and already closing when
the accept raced with a shutdown), `AttachFails` (the slot's generation is spent,
everything else is undone), `Enqueue`, `PrepareSend`, `BeginClose`,
`PrepareClose`, `DestroyPeer`, `SweepDeferred`, and `Complete`, which routes a
CQE by its token and applies it together with everything `completeRouted` does
for it: the dispatch of the batch, the terminal error, parking.

Abstracted: a message is its number of bytes; descriptors and the contents of
the transmit queue belong to the transmit-queue model.  A call that fails
because the SQ is full leaves everything as it was and is a stuttering step.

### 2.2 `Driver`

The loop goes through `wait`, `dispatch`, `prepare`, `sweep` and `submit`.  One
iteration of each loop of the code is one step, so the SQ can fill between any
two of them.  `pending` and `deferred` are the intrusive FIFOs as sequences,
`permit` is `receive_rearm_pending`, `sq`, `inflight` and `cq` are the ring.
`due` records that `Progress.pending` was set: the caller prepares again before
it takes another batch, which is what the comment at `src/server.zig:2403` asks
of it.  (That order matters: were a caller to dispatch first, replies to a
stream of requests could take the only SQE in every turn and starve the sweep.)

*Reductions.*  The kernel posts CQEs only in `wait`.  A batch is the slice the
caller passed in, so a CQE posted later is not seen before the next turn, and
none of the other steps reads anything the kernel writes.  An operation whose
cancel has been submitted delivers no more data, but its last CQE may come
before or after the cancel's.  The publication pass and the handlers produce
output in the same action, `Produce`; a blocked publication schedules its peer.

*Events.*  `Events` selects which of the optional behaviours a run explores
(end of stream, receive, send or accept failures, a multishot that the kernel
ends, failed admission, protocol errors, output, shutdown), so that each run can
afford those its question needs.  Everything else is always possible.

*External.*  The kernel and the ring's queues (`HasSqe`, `Submit`, the `Post*`
actions) are modelled from how the library uses them.

`Connections == Peers!Spec` states that the loop implements `Connection`, where
`parked` is membership in `deferred` and `ops` are the SQEs, the operations in
flight and the unhandled CQEs without MORE.

### 2.3 `Registry` and `Announcements`

The code keeps no queue of what a client is owed.  Each registry holds one offer
per global, whose state says what is owed (`add_pending`, `remove_pending`) and
whose epoch says since when; a sync barrier holds the epoch of its arrival.  The
pass sends the earliest pending offer, or the oldest barrier once nothing older
is pending.  `Announcements` says what this is for: every event on the server
appends a batch to the queue of each client it concerns, and the client is told
the batches in that order.  `InOrder == Clients!Spec` is the refinement.  Its
mapping `Queued` gives every owed event a place: `<<e, 0>>` to an offer pending
since epoch `e`, `<<e, i>>` to the `i`-th barrier of the peer if it arrived in `e`
and its callback is alive.  The events at one place are a batch, and the batches
are listed in the order of their places (`Entries`, `Batches`, `InSequence`).

`owner`, `object`, `offers` are `RegistrySubscriptions` and the registry
objects, `syncs` is `SyncBarriers`, `removed` is `removed_globals`; `cursor`,
`left` and `blocked` are `publish_cursor`, the iterations `publishNext` has left,
and `publish_blocked`.  Each visit of a slot is one step of the pass, and each
public operation of the runtime one action.  While a pass runs nothing else
does, because `Driver.prepare` calls `publishNext` until it reports complete, on
the only thread (this is also why `Driver` may take the whole pass as one step).

Abstracted: an event takes one unit of transmit room (`room`), which a send
gives back; offers of equal epoch may leave in any order, where the code keeps
the order of the table; an epoch that is no longer read is set to 0, and so are
the offers of a registry that does not exist.  A registry handle is used again
after it was unlinked.  A registry or callback object that disappears without
the runtime's knowledge (`LoseRegistry`, `LoseCallback`) is modelled because
`publishPeer` handles it.  The filter is the relation `Visible`: it is assumed
to give the same answer for the same client and global each time it is asked.
Calls made from inside `withdrawn` callbacks and removal hooks are calls of
their own.

### 2.4 `TxQueue`

Where `Connection` has `queued`, a number of bytes, `TxQueue` has the memory:
`chain` is the list of leased blocks from `head` to `tail`, `nodes` and `free`
are `SharedBlocks`, `mem` the cells of all blocks, `fds` the `FdQueue`, and
`reservation` the open `Reservation`, whose `blocks` are private until `commit`.
`active` is what the kernel got from `snapshot`: the cells of its two iovecs and
the descriptor numbers of its control message.  Each action is one call.

A byte in memory is its connection and its position in that connection's
stream, so `BytesInOrder` and `FlightIsStable` can say which bytes the kernel
reads; `accepted` and `delivered` count them.  A block that is given back holds
`Unknown` in every cell, as the next owner may write anything there.  A
descriptor is its number, which is used again after `close`; it is queued with
the position of the message it belongs to.

Abstracted: the chain is a sequence rather than `chain_next` links, and a lease
is its block, without the generation, since the code stops (`unreachable`) or
fails with `StaleLease` where a lease is stale and in the model none ever is
(`BlocksOwnedOnce`).  `acquire` takes any free block, where the code takes the
one freed last.  The pool grows only when nothing is free; `Block` is what the
allocator can provide, so a failure to grow is a call that is not enabled, or,
if it fails after some growth, an `EnsureCapacity`.  The descriptor pool and the
scratch arrays are taken to be large enough; a call that fails changes nothing
else.  `MaxBytes` bounds what a connection accepts in its life; after `Deinit`
another connection takes its place.

The operations of one queue never interleave with each other inside a call, but
nothing orders calls of different queues, or calls between a snapshot and its
completion.

### 2.5 `Receive` and `Delivery`

`messages`, `sent`, `attached` and `hung` are the peer; `armed`, `completions`,
`ring`, `read` and `passed` the kernel: which receives are armed, the CQEs that
are not handled yet, the provided buffers on offer, and how much left the
socket.  `memory` holds the cells of every buffer, block and inline scratch; a
byte is its connection and its position in that connection's stream, so that
`Delivery` can say which bytes a handler was given.  `scratch`, `lease`,
`buffered` and `releaseNext` are the `Framer` (`releaseNext` is
`release_before_next`), `fds` the `FdQueue`, `input` the payload that is being
dispatched and `message` the slice that was yielded.  `log` records what became
of each message, `released` counts how often a descriptor was closed or handed
over, `failures` the causes of terminal results.

`step` is where the one thread is: `next`, `header` and `body` are the three
parts of `Framer.next`, `handle` the handler, `release` the return of the
buffer.  The kernel and the peers act between any two of them, since a message
is lent and a buffer returned too early would be overwritten there.
`Completes` is what happens first to a receive CQE:

| Action | Code |
|---|---|
| `Disconnected` | `completeReceive` with `res == 0`, or `decodeCompletion` with an empty payload, whose buffer is put back |
| `Refused` | `decodeCompletion` with `MSG_CTRUNC`, or `enqueueRights` over budget: descriptors closed, buffer returned, terminal |
| `Ingest` | `enqueueRights`, then the loop of `dispatchRequests` or `dispatchEvents` |
| `Discard` | what `Receiver.stop` does instead |
| `Frames`, `Dispatches` | one turn of that loop: the framer yields, waits for more, or fails; the target takes the message, is a tombstone (`discarded`), or fails |
| `Release` | `releaseReceived` |
| `Destroy` | `Actor.deinit` in `destroyPeer` |

The client's and the server's loops differ in what a failure does to the
connection and in tombstones, which only the client has; both are in the model,
which is more than either does.  A handler may close its connection and
continue: `canDispatch` is read only when the dispatch of a payload begins, so
the rest of the payload is still handed over (`BeginClose` at `handle`).  A
handler that posts an error and returns `.stop` takes the same step as one that
fails.  `closing` stands for every phase past open that is not gone.

Abstracted: what a header says is the message whose first bytes it is; a size
below that of a header, or a header where none is, is `InvalidSize`, which stands
for the other errors of `Header.decode`.  `UnknownObject` stands for every
failure before a descriptor is taken: the decoder pops descriptors after it has
decoded everything else (`codegen.zig:1422-1463`).  A block that cannot be
acquired is reported as `MessageTooLarge`, since both end the connection;
`Block` is what the allocator can provide.  ENOBUFS, the end of a multishot
before the end of the stream, and arming again are in `Driver`.  Buffers are not
consumed incrementally (`io_uring.zig:63-73`), so a completion has a whole one.

A peer cuts and sizes its messages as it likes, and attaches descriptors where it
likes.  `KeepsToProtocol` says of one that so far it wrote whole headers and sent
the descriptors of a message no later than its first byte, which is what
`TxQueue` proves of wayring's own queue (`DescriptorsLeadBytes`).

### 2.6 `Objects`

`entries`, `freeIds` and `nextIndex` are `ClientIds`; `local` is the client's
namespace with its tombstones (`destroyed`), `roundtrip` the round trip of the
core and `closed` its terminal state; `remote` is the part of the server's
shared namespace that belongs to the connection, `cursor` is `next_server_id`
and `cached` the one-entry lookup cache, which every lookup reads and every
removal must clear.  `requests` and `events` are the two directions of the
socket.  A receive is one message together with all the handler does for it:
`ServerReceives` dispatches a request, creates or removes its object, and
queues `delete_id` or the terminal error; `ClientReceives` dispatches an event
or discards it, registers a server id, retires an id on `delete_id`, and settles
the round trip.

Every object has a serial besides its id.  No action decides anything by it: it
says which object the sender of a message meant, so that the properties can ask
whether the receiver found that one.  The generation of a handle is left
out: a call with a handle of an earlier object is refused and changes nothing, so
a request is made of a live object (`Live`).  A creation that is rolled
back because the request or event could not be queued is an action of its own
(`CreateCancelled`, `OfferCancelled`).

Abstracted: three kinds of object stand for all interfaces; arguments, versions
and opcodes beyond these are left out; the hash chains, the growth of the tables
and the pool that several namespaces share are not in the model, a quota is.
`LateEvents` says whether the server sends events to the objects it created
itself: with it the run `late_events` shows finding 3, without it everything
else is checked.

### 2.7 `ShmStore`

`pools`, `buffers` and `pins` are the nodes of the store's three tables, `files`
the client's file behind each pool, `scopes` the `Access` values that are open,
and `activePool`, `depth`, `faulted` the three guard variables of the thread.
Each public call is one action, with the release or the deferred growth that it
ends in; `prepareCopy` and `completeCopy` are a pin and an unpin whatever the
copy did.  `Touch` is one read or write of pixels through a pin: it faults if
the file no longer reaches there, and `HandleSigbus` then does what the signal
handler does.  `Truncate` and `Seal` are the client's, at any moment, within what
the kernel allows on a sealed file.

Sizes are in pages, a buffer is known by the page where it ends, and a
token is the slot it names: the generation checks make a stale token a refused
call.  `mremap` may fail, in which case the growth stays pending.  One thread is
modelled, since the guard is thread-local.  A crash is a state, `crashed`.

### 2.8 `Interop`

Each of the ten protocols is spoken by a libwayland client with a wayring server
and by a wayring client with a libwayland server: twenty pairs, one per
initial state (`pair`).  A client's program is a sequence of phases (what it
writes, the flags it waits for, the pipe it reads, what it then expects), a
listener or handler is an operator from a message and the flags so far to a
`Reply` (flags, messages, destroyed objects, pipes written, or a refusal).
`Interop` runs them: two processes, the buffers of both libraries
(`unsent`, `replies`), the two directions of the socket and the batch each
side has read (`inbox`, `turn`), the pipes of the data-device programs, and
each side's exit status.

libwayland is external and modelled from how the programs use it: requests are
written out when the client is about to wait, a read returns all that is in the
socket, a client whose socket was hung up is destroyed without reading the
rest, events are written out at the end of a turn, and an object may not be
created for want of memory (`ServerRunsOut`).

Abstracted: the values of arguments are kept where a program compares them
(coordinates, serials, sizes, strings as names); pixels, mappings and
descriptors other than pipes are not (`ShmStore`, `TxQueue`).  A listener that
finds an unexpected argument ignores it in a libwayland client, which fails
later, and is an error elsewhere; both are written `When`.

## 3. The runs

| Run | Instance | What it shows |
|---|---|---|
| `connection` | 2 slots, 2 generations, 2 bytes; slots symmetric | every order of calls and completions keeps statecharts, kernel and budget consistent |
| `driver` | 2 slots, 1 SQE, 1 buffer, 1 byte; end of stream, receive failure, output; fair | safety and liveness of two peers that compete for the only SQE and the only buffer |
| `driver_faults` | 1 slot, 2 generations, 2 bytes, every event; fair | all failures the kernel, admission and dispatch can report, with reuse of the slot: the refinement, and that shutdown closes everybody, completes, and leaves the ring empty; what a partial write leaves is written too |
| `registry` | 2 clients, 1 registry, 2 names, a table of 1, room for 1 event, 1 sync, 3 epochs; one client reads; fair | the refinement of one queue per client; removed globals are kept, and bindable, exactly while offered; a pass serves everyone who has room; a client that reads is told and answered |
| `transmit` | 2 connections, 4 blocks of 2 bytes, a budget of 5 bytes, 2 descriptors; blocks and descriptors symmetric | bytes leave in order and descriptors with them, whatever is queued, reserved, aborted or lost meanwhile; blocks and descriptors have one owner |
| `objects` | 2 client ids, 2 server ids, a quota of 4, 6 objects, 2 messages on their way; fair | every message finds the object it was meant for, ids are reused only when forgotten, round trips settle |
| `shm` | 2 pools, buffers, pins and scopes, 2 pages; slots symmetric | mappings live as long as needed and do not move, accesses are safe and faults attributed |
| `receive` | 1 connection, 4 bytes and 2 descriptors in messages of 1 to 4 bytes; 1 buffer and 1 block of 3 bytes, headers and an inline scratch of 2, 1 descriptor to be queued and 1 to be received at a time; fair | the refinement: messages are handed over as they were posted, however they are cut; buffers, blocks and descriptors have one owner through every refusal and failure; a peer that keeps to the protocol is understood and its messages arrive |
| `interop` | 10 protocols, both libraries on either side; fair | every pair finishes; nobody fails, unless libwayland runs out of memory or its server drops the last requests of wayring's xdg-shell client; a server that succeeds released everything in order |
| `late_events` | as `objects`, with events to server-created objects | *violated*: see finding 3 |
| `driver_parked` | 2 slots, 1 buffer | *violated*: see finding 1 |
| `driver_listener` | 1 slot, the multishot accept may end | *violated*: see finding 2 |

### 3.1 The bounds

* Two slots are the least with which peers compete; the FIFOs then have a head
  and a rest, and a sweep or a pending pass can stop between them.
* Two generations are the least with which a slot is recycled; generations wrap
  from the last to 1, so a third use repeats the first identity.
* One SQE per turn makes every loop stop at the full SQ; one buffer makes the
  second receiver meet ENOBUFS.
* A budget of two bytes has a partial write and a full queue.  `connection` and
  `driver_faults` have it; `driver` has one byte, since with two its 750,000
  states are too many for its three liveness properties.  What becomes of the
  rest of a partial write is therefore checked by `OutputIsSent` in
  `driver_faults`, and proved for every budget and any number of slots by
  `NoWorkIsForgotten`.  With the one slot of `driver_faults` a FIFO has no
  middle; that nothing is left there is `FifosAreFresh`, a theorem.
  `MaxGeneration`, `ByteBudget`, `SqCapacity` and
  `BufferCount` are constants of the code's configuration, not guards added to
  the model, except that `RoomForPeer` keeps the number of clients to the number
  of slots.
* In `Registry`, `NameCount`, `MaxSyncs` and `MaxEpoch` are guards added to the
  model.  The filter hides the first global from the first client, so that the
  two are owed different things.  Three epochs are a subscription,
  an announcement and its removal in every order, with a sync before, between or
  after them.  Room for one event makes every second event meet backpressure, and
  a table of one global is full at the second.  The registry may be subscribed
  for either client, and again after it was removed; that several registries of
  one client do not disturb each other is left to the proofs, which hold for any
  number of registries, names, syncs and epochs.  A slot that nobody uses is
  visited and skipped as in the code.
* In `Objects` two client ids are the least with which the free list has an
  order and an id is reused while another is awaiting its `delete_id`; two
  server ids the least with which the cursor skips one; a quota of four (with the
  display) makes creation fail.  `MaxServerIds`, `MaxObjects` and `MaxQueued` are
  added to the model: six objects reuse each id, and two messages on their way
  before another is begun let every pair of kinds cross.
* In `ShmStore` two of each are the least with which references of a pool go in
  different orders, a pin can be the last or not, a slot is reused beside
  another, and scopes nest on one pool or meet on two.  `Scope` is a bound of the
  model; two pages are the least that can grow, and be truncated in between.
* `Interop` has no bound: the programs are finite.
* In `Receive`, `MaxBytes` and `MaxFds` bound what a peer sends.  With headers
  and an inline scratch of two bytes a receive ends before, inside and after a
  header; a message of one byte is none, so what follows is garbled; one of two
  stays in the scratch; one of three outgrows it, into a block or within a
  buffer, which it fills; one of four fits no block (`MessageTooLarge`).  Two
  messages share a payload or a cut.  With one descriptor of budget and of control
  capacity the second one exceeds either.  With one buffer the kernel fills it
  again as soon as it was put back, so that what is lent from it too long is
  overwritten; that more buffers, and several connections that compete for buffers
  and blocks, make no difference to safety is left to the proofs.
* Deadlock is not checked in `receive`: when the connection is gone nothing
  remains to be done.  `MessagesArrive` says that it does not stop earlier.
* In `TxQueue` a budget of five bytes makes chains of three blocks, of which a
  send covers two; blocks of two bytes are the least that can be partly used,
  partly sent and exactly full.  The pool begins with one block and ends with
  four, so that it grows, and so that a block freed by one connection is written
  by the other.  The busy connection accepts six bytes, one more than its budget,
  so that it queues behind bytes that were sent; the quiet one accepts a single
  byte, enough to hold a block and descriptors between the operations of the
  other.  With two descriptors a number is closed by a send and opened again
  while another is queued.

### 3.2 The properties

The type invariants are proved for every module (section 4) and not run.  In
`Connection`

* `OperationsMirrored`: `ops` is exactly the set of operations of active regions
  of live connections under the current generation.  It says at once that no
  region has two operations, that no record is freed under one, and that a
  recycled slot inherits none;
* `OpenIsHeard`, `DrainingHasOutput`: nobody is left deaf or draining for ever;
* `TeardownOnly`: past open, only teardown;

and in `Driver`

* `PendingCoversWork`, `QueuesAreFresh`: the FIFO neither forgets nor misnames;
* `OneOperationPerToken`: a user_data stands for one operation, across the SQ,
  the kernel and the CQ;
* `ShutdownIsQuiet`: after the request no peer is open, and a reported
  completion means an empty ring;
* `Connections`: the refinement;
* `ClosingEnds`, `OutputIsSent`, `PermitRearms`, `ShutdownEnds`: liveness.

In `Registry`

* `InOrder`: each client hears announcements, removals and answers to its syncs
  in the order of events, nothing twice, no removal of what was not announced,
  and no announcement of what is already gone;
* `RemovedWhileOffered`: no binder is withdrawn while a client may use it, and
  none is kept when nobody may;
* `ToldIsBindable`: a bind never fails because it crossed a removal;
* `PassServesAll`: a client without room takes nothing from the others;
* `ReadersAreServed`: a client that reads is told what it is owed and answered.

In `TxQueue`

* `BytesInOrder`: the chain holds exactly the bytes that were published and not
  yet taken, in order;
* `FlightIsStable`: what the kernel points into does not change under it;
* `DescriptorsLeadBytes`: no message arrives before its descriptors;
* `BlocksOwnedOnce`, `DescriptorsOwnedOnce`: nothing leaks, nothing is freed or
  closed twice, including on abort, failure and teardown.

In `Receive`

* `Delivered`: the refinement of `Delivery`: nothing is lost, repeated, reordered
  or mixed with another message or another connection, neither bytes nor
  descriptors;
* `PeerIsUnderstood`: a peer that has kept to the protocol was never refused for
  its framing or for missing descriptors;
* `BuffersReturnedOnce`: a buffer is on offer once, or held by one completion or
  by the payload that is dispatched;
* `BlocksOwnedOnce`: a block is free or leased once, not by a connection that is
  gone;
* `DescriptorsOwnedOnce`: a descriptor that left the socket is pending, queued, or
  was closed or handed over once;
* `MessagesArrive`: liveness; a message of a peer that keeps to the protocol is
  taken, or its connection closes.

In `Objects`

* `RequestsMeetTheirObject`, `EventsMeetTheirObject`: a message is dispatched to
  the object its sender meant, or discarded by the tombstone of that object; what
  it creates takes an id that is not in use;
* `FreeIdsAreForgotten`: an id the client may use again is unknown to the server
  and to every message on its way;
* `RoundtripSettles`: `done`, then `delete_id`, unless the connection ends.

In `ShmStore`

* `HeldWhileNeeded`: a pool is mapped exactly while its resource, a buffer or a
  pin needs it, whichever goes last;
* `MappingIsStill`: nothing moves or unmaps what is pinned, and it lies inside
  the mapping;
* `AccessIsSafe`: what is read without a guard cannot fault, what faults under a
  guard is the guarded pool's;
* `FaultIsItsPools`: the guard is that of the open scopes, nested or not, and a
  fault marks its pool and no other.

In `Interop`

* `NobodyFails`: a program reports failure only if the libwayland server ran out
  of memory or the last requests were dropped (`FarewellDropped`, below); a client
  that reports success was served everything; and a server that reports success
  has nothing left of what the client created but what has no destructor or is
  left for it to release (`Outlive`);
* `Finishes`: nobody waits for a message that is not sent or not written out, or
  for a pipe nobody fills.

`NobodyFails` makes one exception, and it is a disagreement with the
documentation.  Wayring's xdg-shell client (`bench/interop.zig:2461-2502`) sends
its five destructors and waits only for its transmit queue to be empty, without
a last synchronization.  If it exits before libwayland reads them they are
dropped, and `bench/xdg-interop-server.c:314-317` then reports failure, although
`bench/README.md:224-229` promises synchronization and ordered destruction.  The
programs pass when the server is scheduled in time.  `FarewellDropped` admits
this outcome and no other: the client succeeded and left, exactly the five
destructors are unread, and the server misses nothing but them.

### 3.3 Fairness

`FairSpec` assumes of the caller only that it keeps turning its loop: it handles
the CQEs it finds, a batch ends (it is a finite slice), it prepares, submits,
and prepares again while `Progress.pending` is set.  These are weak.  Of the
kernel it assumes that it settles what it was asked to cancel, for each
connection and for the listener.  That is strong fairness, because in this model
the kernel acts only in `wait`, so it is not continuously enabled; on the real
ring it is.  Nothing is assumed of clients: they need not send, read or leave.
Hence no property says that a peer which never reads gets its output, only that
the output is handed to the kernel.

In `Registry` the pass is weakly fair, since the driver publishes in every turn
of its loop.  `ReadersAreServed` holds for the clients in `Reader` only, whose
sends complete again and again (strong fairness of `Drain`: it is not enabled
during a pass).  The others may stop reading for ever.

In `Objects` what was sent is received, and the server answers its syncs: weak
fairness of `ClientReceives`, `ServerReceives` and `CompleteSync`.  In `Interop`
each process runs when it can (weak fairness of `Client` and of `Server`).

In `Receive` the peer sends what it wrote, the kernel receives while a buffer is
on offer and a receive is armed, reports the end and settles a cancel, and the
loop handles each completion to its end: all weak.  Nothing obliges a peer to
write or to hang up, nor a connection to close.

### 3.4 Findings

1. `ParkedStreamsResume` fails.  `prepareDeferredReceives` clears the rearm
   permit when it sweeps.  An ENOBUFS that is handled in a later batch than the
   sweep parks its peer with no permit although every buffer is back with the
   kernel, and the peer stays deaf until somebody else's traffic returns a
   buffer.  With one buffer and two peers it takes two batches.
   `docs/architecture.md:234-236` and `src/io_uring.zig:390-391` say that
   streams resume after the buffers are returned.
2. `ListenerKeepsAccepting` fails.  An accept CQE without MORE ends the
   multishot; the driver drops `Accepted.more` and nothing arms the accept
   again, while `docs/architecture.md:591` says the listener keeps one active.
3. `NobodyIsBlamed` fails.  The client closes the connection when an event names
   an object it does not know, and two orders lead there although both sides keep
   to the protocol.  (a) A client that destroys an object the server created
   forgets it at once, so an event that was already on its way is
   `UnknownObject`.  (b) An event that creates an object, sent to an object the
   client has meanwhile destroyed, is discarded without registering the new id,
   so the next event to that id is `UnknownObject`.  `test/client-core.zig:451`
   says that late events to destroyed targets are discarded;
   `docs/architecture.md:325-326` justifies (a) by the reuse of ids, which says
   nothing of what is still on its way.

## 4. The proofs

`ConnectionProofs` proves, for every set of slots, every generation range and
every budget (both positive, the only assumptions):

* `Invariance`: `Spec => []Inv`;
* `TypeCorrect`, `NothingOutlivesItsRecord`, `NoOpenPeerIsDeaf`,
  `DrainingEnds`: the four invariants of the run `connection`;
* `OnlyTeardownFollows`: its action property.

`OperationsMirrored` is not inductive by itself.  `Inv` adds `Bookkeeping`: a
freed slot is back in its initial state, so that `Attach` starts with one active
region and not with those of the previous connection; a live one has a nonzero
generation, so that its tokens are tokens; and a send covers no more bytes than
are queued, so that its completion cannot take the queue below zero.
`OperationsMirrored` is shown one token at a time (`MirrorPointwise`,
`MirrorLocal`): an action touches the region and the tokens of one slot, and
starting (`MirrorStart`) or ending (`MirrorStop`) an operation is proved once
for all three kinds.  A completion is always routed (`CompletionIsExpected`), so
the branch of `Complete` that consumes a stale CQE is there for safety only.

`RegistryProofs` proves, for every number of slots, registries and names, every
table capacity and every filter:

* `RegistryInvariance`: `Spec => []Inv`;
* `GlobalsOutliveOffers` and `BindNeverRaces`: `RemovedWhileOffered` and
  `ToldIsBindable`;
* `PassInvariance`: `Spec => []PassInv`, `Inv` and what holds of the pass;
* `TypeCorrect`: `TypeOK`;
* `PassesAreComplete`: the action property `PassServesAll`.

`RemovedWhileOffered` is not inductive: that a removed global never returns to
the table rests on names being fresh (`NamesAreFresh`), and that its offers are
not added to on offers being of live, visible globals until they are retracted
(`OffersAreCurrent`); an unlinked registry has none (`OwnersHold`).  The five
callers of `collectRemovedGlobals` are covered by one lemma,
`CollectedExactly`: if offers only ended, collecting leaves exactly the removed
globals that are still offered.

`PassServesAll` is about the step that ends a pass, and that step looks at
nothing: it relies on `SlotCount` visits before it, of slots from wherever the
cursor stood.  `VisitsCount` makes this inductive.  The `Age` of a slot is how
many visits ago it was visited; a slot whose age is at most the number of visits
that the running call made in vain has nothing to do (`Settles`): its peer is not
open, or out of room, or owed nothing.  A visit makes every other slot one older
(`VisitAges`); a step of the pass owes nobody more (`UnlinkOwesNoMore`), so what
was settled stays so; a call that served a peer starts over.  That a skipped peer
without room is settled needs that marks are set on full queues only and that a
marked peer is not served.

`RegistryOrderProofs` proves, for the same constants:

* `OrderInvariance`: `Spec => []OrderInv`;
* `OrderRefined`: `Spec => InOrder`, the refinement of `Announcements`.

`OrderInv` adds two things to `Inv`.  `Dated`: no offer is owed since later than
now, and the barriers of a peer wait for epochs that do not decrease.  This is
why a new epoch comes behind everything that is owed, and why the oldest
barrier, once `SyncIsNext` holds, comes before everything else, or the earliest
offer does when it does not.  `Listed`: what a peer is owed occupies finitely many
places, so that it is a queue at all.  The queue is a listing by rank
(`SequenceIs`: whatever lists the places in order is the queue), and five lemmas
say what becomes of it: `PutQueued` (a batch behind all others), `RestQueued`
(events withdrawn, with the batches this leaves empty), `CutQueued` (a batch of one
event), `ToldQueued` (an event of the first batch) and `ShiftQueued` (barriers
counted anew when the first has gone).  Then there is one lemma for each action,
`SubscribeRefines` to `SendOfferRefines`, that names the action of
`Announcements` it is.  A step that tells an event also owes the guards of
`Tell`: an announcement is of a live global that was not announced
(`OffersAreCurrent`), a removal is of one that was.  Dropping a lost registry or a
lost sync in the pass, an acknowledgment and everything about room and cursor
are stutters.

`TxQueueProofs` proves `DescriptorsHaveOneOwner` (`DescriptorsOwnedOnce`), for
every number of connections, blocks and descriptors and every size.  The
inductive invariant `FdInv` adds `ControlFits`: a send carries at most as many
descriptors as its queue still holds, so that `CloseOldest` closes none that
came later or went elsewhere.  Descriptors change hands in three ways, each a
lemma: the caller gives some to a queue (`TakeDescriptorsInv`), a queue closes
its oldest (`CloseOldestInv`), the caller opens and closes its own
(`CallerInv`).

It goes on to prove the rest of what the run `transmit` checks, for the same
constants:

* `BytesInvariance`: `Spec => [](FdInv /\ BytesInv)`;
* `TypesHold`, `BlocksHaveOneOwner`: `TypeOK` and `BlocksOwnedOnce`;
* `BytesStayInOrder`, `FlightStays`, `DescriptorsComeFirst`: `BytesInOrder`,
  `FlightIsStable` and `DescriptorsLeadBytes`.

What a chain holds is a statement about its arithmetic, and that of a block
written by one queue and read by another is a statement about both, so none of
these is inductive alone.  `BytesInv` consists of `TypeOK`, `BlocksOwnedOnce` and,
for each queue, `Framed` (which offsets of which blocks are in use: the head
offset, the used part of the tail, and `byteCount` agree, and a reservation fits
behind them), `Filled` (the cell at each of these offsets is the byte of the stream
that belongs there) and `Carried` (what the kernel was given are these cells, at
most as many as are queued, and the descriptors that belong to them).  It is proved together
with `FdInv`, since a send carries bytes and descriptors.  An operation changes
one queue: `OneQueueSteps` reduces the others to the fact that their blocks are
not written, which is where `BlocksOwnedOnce` is needed.

`ObjectsProofs` proves, for any numbers of client and server ids, any quota and
queues of any length:

* `ObjectsInvariant`: `Spec => []Inv`;
* `ObjectsTypes`: the types;
* `RequestsAreMet`, `FreeIdsForgotten`: `RequestsMeetTheirObject` and
  `FreeIdsAreForgotten`;
* `LowestIds`: `LowestServerId`, below the cursor no server id is free, through
  every order of insertion, removal and rollback;
* `EventsAreMet`: `EventsMeetTheirObject`, and `NobodyBlamed`: neither side ends
  the connection over what the other may do.  Both are for `~LateEvents`; with
  late events they are false, which is finding 3.

A message and the object it is for are related only by what was sent before and
after it.  `Inv` says of every message on its way to the server (`Upward`) and to
the client (`Downward`) what both tables hold for its ids, and which messages may
not be before or behind it: a creation is the first mention of its object
(`CreationsAreNew`, `OffersAreNew`), a use has its object in the server's table or
its creation before it (`UsesAreKnown`, `EventsAreKnown`), nothing follows a
destructor (`DestructorsAreLast`) or a `delete_id` (`DeletesAreLast`).  `Tables`
relates the two tables to the cache and the allocator.  Four lemmas about queues do the
rest: a message appended to either, or taken from it, and the tables changed at
one id.  That the lowest free server id exists is well-founded induction, cited
from the library.

`DriverProofs` proves everything the runs of `Driver` check of safety, for every
finite set of slots, every positive generation range, byte budget, SQ capacity
and number of receive buffers, and whatever events are explored:

* `Invariance`: `Spec => []Inv`;
* `TypeCorrect`, `FifosAreFresh`, `NoWorkIsForgotten`, `TokensAreUnique`,
  `QuietAfterShutdown`: its types and its four invariants;
* `Implements`: `Spec => Connections`, the refinement of `Connection`;
* `PeersKeepTheirPromises`: hence the invariants of `Connection` hold of the
  peers of the loop.

`Inv` has two parts.  The first is `P!Inv`, the invariant of `Connection` seen
through the refinement mapping: it is not proved again, because every step of the
loop is a step of `Connection` or a stutter (`PeersStep`), and those preserve it
by `ConnectionProofs`.  The second, `LoopInv`, is about what the mapping hides.
`RingOK`: no user_data is in two places between the SQ and the CQ, and the CQE
that ends an operation is its last; without this order a CQE could come after the
one that freed its peer.  `SendsFit`: a send reports no more than is in flight.
`ListenerMirrored`: the listener knows its operations, so that its cancel is new to
the ring.  `Fifos`: entries name live peers, each once, under their current
generation.  `PendingCoversWork`, `ShutdownCloses`, `NoHalfError` and
`SweepHasWork`: what the prepare phase relies on when it finds nothing to do.
The two parts need each other: `LoopInv` makes a handled CQE the completion of an
operation the peer still has, and `P!Inv` makes what the peer does with it legal.
Each action has a lemma that concludes both, `LoopInv'` and `PeersStep`.

`ShmStoreProofs` proves, for any pools, any finite numbers of buffers, pins and
scopes and any size, everything the run `shm` checks:

* `ShmInvariance`: `Spec => []Inv`;
* `PoolsLiveWhileNeeded`, `NoAccessCrashes`, `FaultsAreAttributed`: its three
  invariants;
* `GrowthSurvives`: `GrowthIsRemembered`, growth that was put off is applied once,
  however often `mremap` failed;
* `PinsHoldMappings`: its action property `MappingIsStill`.

None of these is inductive by itself.  `Inv` is their conjunction with the types and
four more.  `BuffersFit` and `PinsFit`: a buffer lies in
what was declared and a pin in what is mapped, which differ exactly while
growth waits.  `SealedHolds`: a pool taken for sealed is backed as far as it is
mapped and stays so, which is why an access without a guard cannot fault.
`ScopesStand`: an open scope holds a pin, and goes unguarded only over a sealed
pool.  Eleven of the fourteen actions change one pool and perhaps one buffer or
pin of it: `PoolStep` says what has to be shown of the pool they leave (`Stands`,
`Becomes`), and `NodeStep`, `BufferStep` and `PinStep` reduce it to counts.  The
counts are cardinalities (`CountChanges`), hence the assumption of finiteness.
The other three open, close and use a scope and touch only flags of a pool
(`AccessStep`).

`ReceiveProofs` proves everything the run `receive` checks of safety, for any set
of connections with any peers, any buffers, blocks, sizes and budgets; the
assumptions are that sizes are positive and that a header fits the inline
scratch (in the code 8 of 64 bytes):

* `IInvHolds`: `Spec => []IInv`;
* `Types`: `TypeOK`;
* `FaithfulPeers`, `BlocksOwned`, `BuffersReturned`, `DescriptorsOwned`: its
  invariants `PeerIsUnderstood`, `BlocksOwnedOnce`, `BuffersReturnedOnce` and
  `DescriptorsOwnedOnce`;
* `BlocksForFragments`: `BlocksHoldFragments`, between completions an open
  connection holds a block only for the fragment of a message that needs it;
* `Refinement`: `Spec => Delivered`.

None but the types could be shown alone.  The framer sees only bytes, so
whether it yields the right message depends on which bytes of the stream are
where, and `StreamInv` says so: behind the messages that were framed comes the
fragment, then the rest of the payload, then the completions, then the socket,
without a gap.  That what lies in a buffer is still what the kernel wrote there
is `BufferInv`: a buffer has one holder, and only one on offer is written.
`LeaseInv` says the same of blocks, where the fragments of others lie.
`MessageInv` is about the slice that is lent: it is the next message, and lies in
the held buffer before what is left of the payload, or in the scratch, which the
framer does not touch before it is called again.  Descriptors have the same
two halves: `QueueInv` says that the queue begins with those of the next message
and is continued by the completions, `OwnerInv` that each has one place.
A peer that keeps to the protocol now did so at every earlier moment
(`KeptBefore`), so what is to be shown is that it is not refused now.  Its
descriptors left the socket with the first byte of their message or before,
because `KernelInv` keeps bytes and descriptors of the completions matched, so
the decoder does not find the queue empty (`NeverEmpty`).  That a fragment
lies in its scratch and is no longer than its message (`FragmentFits`, `FitsInv`)
follows.

`StreamInv` and `QueueInv` are claimed of a connection that is open or being
dispatched only: one that failed keeps a fragment and descriptors that belong to
nothing, and is never framed again.  Each part of `IInv` is preserved under the
others, one lemma for each action that disturbs it; the quiet ones share a lemma
(`BufferQuiet`, `ThreadQuiet`, `OwnerQuiet`, `StreamQuiet`).  The refinement then
needs little: `Write` is `Post`, `Takes` is `Hand`, whose message has the right
bytes by `MessageInv` and descriptors by `QueueInv`, and all else stutters.

Model-checked only: `Interop`, a closed instance of finite programs that TLC
explores entirely; and liveness (`ClosingEnds`, `OutputIsSent`, `PermitRearms`,
`ShutdownEnds`, `ReadersAreServed`, `RoundtripSettles`, `MessagesArrive`,
`Finishes`), which is out of the prover's reach throughout.

## 5. What is not modelled

* Of the receive side: the layout of control records, malformed ones included
  (`enqueueRights` then closes the valid prefix), an I/O error in place of a
  receive, and a handler that returns `.stop` without closing its connection, which
  its documentation excludes (`server.zig:813-814`).
* The `wl_shm` service in `server.zig`, which turns requests into calls of the
  store; the growth of the object tables; the loop of the client's driver over
  its ring, which is the server driver's with one peer.
* `wire.zig`, `dispatch.zig`: pure codecs and table lookups, covered by the
  repository's corpus and fuzz tests.
* `protocol.zig`, `codegen.zig`, `metadata.zig`: build-time, no run-time state.
* `unix_socket.zig`: system calls before the ring is involved.
* `debug.zig`, `root.zig`, `statechart.zig`: formatting, re-exports, a test
  helper.
* The benchmarks in `bench/` (`libwayland-client.c`, `libwayland-server.c`,
  `viewport-benchmark.c`, `raw.c`, `resource.c`, `wayring.zig`, `shm.zig` and
  their headers): they time one request or event in a loop and keep no protocol
  state; what they compute is a rate.
* Allocation failure outside admission, and borrowed rings with foreign CQEs.

## 6. Plan

Done: `Connection`, `Driver`, `Registry`, `TxQueue`, `Receive`, `Objects`,
`ShmStore`, `Interop` and the proofs above.  Left, in this order:

1. The `wl_shm` service as a composition of `Objects` and `ShmStore`, and proofs
   about it.
2. `TxQueue` of one side and `Receive` of the other as one channel, so that
   `KeepsToProtocol` is a theorem about wayring's own peers.
