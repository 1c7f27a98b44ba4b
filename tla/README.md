# A TLA+ model of zmemif

zmemif is a Go implementation of memif: two processes exchange packets through
rings in shared memory, after a handshake over a UNIX domain socket has handed
over the memory. This directory holds a TLA+ model of that library, the TLC
configurations that check it, and TLAPS proofs about its data path, its memory
layout, its handshake and its life cycle. It also covers the DPDK forwarder that
the repository ships as the library's peer.

To repeat the checks: `tlc -config RingS2M.cfg MCMemifRing` (and likewise for
each line of the run table), and `tlapm` on each of the modules `*Proofs.tla`.

## 1. The system

| Component | State | Operations | Talks to |
|---|---|---|---|
| Packet rings (`packet_processing.go`, `queue.go`, `ring.go`, `descriptor.go`) | head, tail, descriptors, packet buffers in shared memory; `lastHead`/`lastTail` of the reader; an eventfd per queue | `WritePacket`, `ReadPacket`, `interrupt` | the peer process, through memory and eventfd only |
| Region layout (`mem_region.go`, `newRing`) | size, `packetBufferOffset`, ring offsets | `addRegion`, `initializeQueues` | rings (offsets), control channel (fd) |
| Control channel (`control_msg.go`) | `msgQueue`, `port`, `isConnected`, received regions and rings | listener, `handleEvent`, `parse*`, `msgEnq*`, `close` | peer's control channel; port |
| Port (`port.go`, `main.go`) | `cc`, queues, regions, `QuitChan`, `ErrChan`, `Wg` | `RequestConnection`, `connect`, `disconnect`, `Disconnect`, `Delete` | application callbacks |
| Socket and polling (`socket.go`) | epoll set, `ccList`, `portList`, wake eventfd, `ErrChan` | `StartPolling`, `StopPolling`, `handleEvent`, `Delete`, `NewPort` | control channels, listener, application |
| DPDK forwarder (`dpdk/`) | mbuf pool, control ring, tx buffers of each core | rx loop, tx loop (the punt loop is never launched) | NIC, memif PMD, virtio-user |
| Examples (`example/`) | – | worker goroutines over `ReadPacket`/`WritePacket`; a main goroutine that reads `ErrChan` | the library |

What is hard to get right, and hard to test:

* The two ends of a ring are different processes without a lock. Each computes
  its share of the ring from a snapshot of the peer's index, in 16-bit
  arithmetic that wraps, and uses it while the peer moves on.
* A packet may need a chain of buffers; the writer can run out of slots in the
  middle of it, after it has changed descriptors.
* The receiver may sleep on an eventfd: the order index, then eventfd, decides
  whether a packet is stuck.
* The client queues the whole handshake at once. Several clients can race for a
  server port, callbacks can fail, and either process may die at any point.
* Inside a process nothing is locked: the polling goroutine runs handlers, the
  main goroutine may call `Disconnect`, `StopPolling` or `Delete`, and workers
  use the queues that `disconnect` takes away. Three waits depend on each other:
  `StopPolling` on the polling goroutine, `disconnect` on the workers, the
  polling goroutine on a reader of `ErrChan`.
* In the forwarder every mbuf must have one owner on every path, including full
  rings and bursts that are accepted in part.
* Sizes and offsets are computed in mixed integer widths.

`PROJECT.json` lists these as hazards, each with its line and the properties
that cover it.

## 2. Modules

| Module | Models | Used by |
|---|---|---|
| `PacketChannel` | abstract: a FIFO that is served while not empty and returns packets of one buffer unchanged | refined by `MemifRing` |
| `MemifRing` | one ring with `WritePacket` and `ReadPacket` | `MCMemifRing`, `MemifRingProofs`, `DuplexPort` |
| `MemifRingProofs` | theorems about `MemifRing`: indices and slots | `MemifDataProofs` |
| `MemifDataProofs` | theorems about `MemifRing`: descriptors | `PacketChannelProofs` |
| `PacketChannelProofs` | `MemifRing` implements `PacketChannel` | – |
| `DuplexPort` | both directions of a queue pair over shared buffers | `MCDuplexPort` |
| `RegionLayout` | the client's memory region | `MCRegionLayout`, `RegionLayoutProofs` |
| `RegionLayoutProofs` | theorems about `RegionLayout` | – |
| `ControlChannel` | handshake, disconnection, hang-up | `MCControlChannel`, `ControlChannelProofs` |
| `ControlChannelProofs` | theorems about `ControlChannel` | – |
| `PortLifecycle` | a client port's connection under the goroutines of its process | `SocketPolling` |
| `SocketPolling` | polling loop, epoll, `ErrChan`, the main goroutine, the peer; extends `PortLifecycle` | `MCSocketPolling`, `SocketPollingProofs` |
| `SocketPollingProofs` | theorems about `SocketPolling` | – |
| `Forwarder` | the DPDK rx and tx loops | `MCForwarder`, `ForwarderProofs` |
| `ForwarderProofs` | theorems about `Forwarder` | – |

### MemifRing

One ring of either type; `WriterIsServer` selects the branches on
`cfg.IsServer`. Every access to shared memory is a step: reading the peer's
index (`WriteBegin`, `ReadBegin`), `getDescBuf` (`WriteFetch`, `ReadFetch`),
`copy` (`WriteFill`, `ReadCopy`), `putDescBuf` (`WriteChain`, `WritePut`),
`writeHead`/`writeTail` (`WritePublish`, `ReadRelease`, `ReadOffer`),
`setDescLength` (`ReadReset`) and the eventfd (`WriteSignal`, `Wake`). `Free`,
`Used` and `ToRefill` keep the code's `uint16` arithmetic modulo `IndexMod`.
`WriteFill` copies the packet from its start into every buffer of a chain, as
the code does. `fifo` and `delivered` are history: no action reads them in a
guard.

Abstractions and the reason for each:

* Slot *i*'s descriptor points at buffer *i*; region and offset never change
  after initialisation (`RegionLayout` checks that initialisation).
* Stores take effect in program order. `memfdCreate` uses system call number
  319, which is `memfd_create` on amd64 only, and amd64 keeps the order of
  stores and of loads. The one reordering it allows, a load overtaking an
  earlier store, makes a side see an older index of its peer; older indices are
  among the interleavings already. Each index has one writer.
* `isInterrupt` is always true, because `ringFlagInterrupt` is 0, so
  `interrupt` always writes the eventfd.
* The receiver is the application. With `EventDriven` it calls `ReadPacket`
  until that returns 0, then waits on `GetEventFd` and clears it. It drains the
  ring before it first waits.
* One goroutine reads a ring and one writes it, which is what unlocked indices
  presume. The receiver of `example/bw_test` does not keep to it: it starts all its
  goroutines on queue 0 (`reciever/foo.go:42`). Nothing here holds for that use.
* `ReadPacket` with an incomplete chain returns an error and with a slice that
  is too short panics; the receiver of the model stops there.

### DuplexPort

`MemifRing` as the client's rx ring, plus `Transmit`, the client's `WritePacket`
on the tx ring, reduced to the buffer it overwrites: `initializeQueues` gives
slot *j* of both rings the same buffer.

### RegionLayout

`addRegion` and `initializeQueues` as a list of the areas they write, with real
byte offsets. `PacketBufferOffset` is computed in 16 bits: in Go the constant 1 of
`1<<p.run.Log2RingSize` takes the type of the expression around the shift,
which is that of `NumQueuePairs`, `uint16`. TLC's integers have 32 bits, so the
configurations keep sums below 2^31. The size of the region, for which `addRegion`
adds in `uint32`, enters no offset and is not part of the model. memfd, seal,
ftruncate and mmap succeed.

### ControlChannel

Clients, each with one port, and one server process with one server port. One
step is one run of a handler, or one call of `RequestConnection` or
`Disconnect`. `HandleHello` … `HandleConnected` are the branches of `parseMsg`
including their last part, the send of the next queued message; `Fail` is its
error exit (`close(true)`); `Shut` is the rest of `close` with
`port.disconnect`. How the application's callbacks and the server's mmap end is a
choice over `Results`. `Disconnected` keeps the early returns of `disconnect`: on a failing
callback nothing is cleared, and on a region that was received but not mapped
`Munmap(nil)` gives EINVAL and `cc` stays. `CloseFrees` says that these are the
only two ways in which a closed channel keeps its port. The field `failed` is
history: it remembers a failed callback and no action reads it.

* A SOCK_SEQPACKET socket keeps messages and their order. `close` does not
  close the descriptor, so messages to a closed channel stay unread: they are
  dropped in the model.
* A `Disconnect` call on a channel that is closed already sends one more message
  before `delEvent` fails. The peer has closed, or closes at the first one, so the
  message is left out.
* A handler is atomic. Within one process handlers do run one at a time, on the
  polling goroutine; how `Disconnect` from another goroutine races them is
  `SocketPolling`'s subject.
* The application reads `ErrChan`, so the polling goroutine does not block, and
  its goroutines leave when `QuitChan` is closed, so `Wg.Wait` returns.
* Version mismatch and truncated messages do not arise between two peers that
  both run this library.

### PortLifecycle and SocketPolling

One process with one socket and one client port, at the grain of single accesses
to the port. `at` says where each of the two goroutines that run library code is
(`"poll"`: the polling goroutine, `"app"`: the main goroutine): the Hello handler
is `InitializeRegions`, `InitializeQueues`, `EnqueueHandshake`; the Connected
handler `ConnectPort`, `MarkConnected`; `controlChannel.close` with
`port.disconnect` is `DelEvent`, `Callback`, `Wait`, `ClearQueues`, `Unmap`,
`Forget`. A handler that finds its data gone ends the process (`crash`); in
`ConnectPort` that is a choice once the region is gone, because `updateRing` may
have begun before or after the queues were cleared. Its error exits, a wrong cookie
or a failing `ConnectedFunc`, are `ControlChannel`'s subject. Workers
are those of the examples: `Senders` look at `QuitChan` before each packet,
`Receivers` never do; both call `Wg.Add` themselves, after `ConnectedFunc` has
started them.

`SocketPolling` adds the loop of `StartPolling` (`PollSelect` … `PollReport`), the
three steps of `StopPolling`, `Disconnect`, `Delete`, and the peer. epoll is
external: a list of ready descriptors, reported one at a time
(`maxEpollEvents` is 1) and moved to the end while level-triggered ready. The
wake eventfd is written and never read, so after one `StopPolling` it is ready
for ever. `EpollWait` may fail at any time (`PollFails`).

* `DisconnectedFunc` is the default one. The application does what the package
  comment asks: the port is created before `StartPolling`, and there is one
  polling goroutine at a time. `StopPolling` may be called twice: closing the
  channel again ends the process.
* One connection: reconnecting is `ControlChannel`'s subject.
* A worker may be anywhere when its queue or region goes; what `WritePacket`
  does inside is `MemifRing`'s subject.
* `sync.WaitGroup` panics when it is raised again before a released `Wait` has
  returned (`WaitReturns`, `WorkerStarts`).

### Forwarder

Packets in the receive direction carry their mbuf, flow and arrival number, the
mbufs of the other direction only themselves. `RxBurst` and `Classify` are the rx
loop: UDP goes to the tx buffer of the memif port chosen by the hash of the source
address, everything else to the control ring, whose result is ignored
(`EnqueueCtrl`: a full ring loses the mbuf). `RxDrain` and `TxDrain` are the drain
timer. A tx core polls its memif ports in turn (`TxMemif`, `TxBufferEth`), and core
0 then serves the control port (`CtrlOut`, `CtrlIn`). The loops never end: nothing
installs the signal handler that would set `force_quit`. DPDK is external: a
device accepts a prefix of a burst, the default callback of a tx buffer frees the
rest; a memif port in server role copies and frees at once, NIC and virtio-user
later (`Sent`). The port numbers of `main.c` only name devices and are left out;
each device queue has one core by `RxCores`, `TxCores`, `PerRx` and `PerTx`. C's `&`
is the constant operator `BitAnd`, of which only the range of the hash masked by the
ports of a core is assumed; `MCForwarder` gives it its meaning.

## 3. Runs

Each run takes at most two minutes. "violation" runs state what a comment
of the repository says and show the code doing otherwise; each has a finding in
`PROJECT.json`.

| Run | Checks | Result |
|---|---|---|
| `ring_s2m`, `ring_m2s` | `IndexInv`, `Exclusive`, `NoIncompleteChain`, `ChannelSpec`, `NoWedge`; `TypeOK` (S2M), `OfferedSlotsFull` (M2S) | pass: no slot is worked on by both sides; no packet given up half-way leaves a dangling chain; packets come out once, in order and eventually, and unchanged if they fit into one buffer; a full ring is emptied; every slot offered to the server is a whole buffer |
| `chained_packet` | `Intact` | violated: each buffer of a chain holds the packet's start |
| `shared_buffers` | `Intact` | violated: tx and rx slots share buffers |
| `layout` | `FirstPairInPlace`, `HeadersIntact`, `BuffersBehindRings` | pass: the first queue pair is complete, cookies survive the misplaced descriptors of later queues, buffers lie behind the rings exactly when the rings need less than 2^16 bytes |
| `layout_second_queue` | `DescriptorsInPlace` | violated: queue 1's descriptors lie one ring too far |
| `control` | `TypeOK`, `PortExclusive`, `LockStep`, `QueuesMatch`, `ConnectedUsable`, `ServerFirst`, `CloseFrees`, `Settles` | pass, with failing callbacks and mmap, disconnects, deaths of any process, a client with fewer queues than the server and one that is refused: one channel per port, lock-step, matching queues, no ring beyond the configured pairs, closed channels free their port, every attempt ends connected or ready to retry |
| `lifecycle` | `TypeOK`, `NoUseAfterUnmap`, `TornDownOnce`, `StopQuiet`, `CloseEnds`, `StopEnds`, `EventServed` | pass: senders never touch unmapped memory, although a late one is not waited for; `QuitChan` is closed once when both goroutines close the channel; after `StopPolling` no handler runs; `close` and `StopPolling` return; events are served also after a restart |
| `forwarder` | `TypeOK`, `Accounted`, `FlowOrder`, `Returns` | pass: one holder per mbuf and no leak but at the full control ring; flows stay in order; every mbuf returns to the pool |
| `hup_before_init` | `SurvivesHup` | violated: hang-up before Init dereferences a nil port |
| `second_disconnect` | `CallbackRepeats` | violated: `QuitChan` is closed twice |
| `late_worker` | `WaitsForWorkers` | violated: a worker that has not yet called `Wg.Add` is not waited for |

Further disagreements that the models show and no run is spent on: with one queue
pair and 2048 slots (11 is a ring size Hello announces as supported) the product
in `addRegion` overflows and buffers overlay rings (`BuffersBehindRings` gives the
exact limit); a packet buffer of 65536 bytes is offered again with length 0, since
`setDescLength` stores 16 bits (`LenMod = BufSize` refutes `OfferedSlotsFull`);
`ReadPacket` returns the packet's length, not the bytes stored, when the slice is
too short; `DisconnectedFunc` is called also for a handshake that is broken off.
A client that asks for more queue pairs than the server has is refused between
AddRegion and Connect, and the server's port stays assigned to the closed channel
(the second exception of `CloseFrees`), contrary to "if the control channel is
assigned an interface, the interface is disconnected" (`control_msg.go:267`).
A server whose client has fewer queue pairs connects with the client's; its run stays
its own configuration (`control_msg.go:486`), so `GetMemoryConfig`, which "returns
interfaces active memory config" (`port.go:63`), names queues that `GetRxQueue` and
`GetTxQueue` refuse. `ConnectedUsable` says what each end really has: the queues of
the client's run, never more than the end is configured for.
`msgEnqInit` never sends the secret, so a client with a secret connects to a
server without one, contrary to `main.go:68` (`InitMsg` sends `NoSecret`). With a
worker that never looks at `QuitChan` (`Receivers`, as `recvpkt` of the echo
client) `CloseEnds` fails, since `disconnect` waits for ever, and
`NoUseAfterUnmap` fails for one that starts late. When the main goroutine reads
`ErrChan` only between its calls (`SeparateReader = FALSE`) `StopEnds` fails:
`StopPolling` waits for a goroutine that waits for room in `ErrChan`.
`Socket.Delete` walks lists from which `close` and `Port.Delete` remove the current
element; Go's `list.Remove` clears that element's successor, so of several
channels or ports only the first is closed. A second `StopPolling` without a
`StartPolling` in between panics. `Disconnect` during the Hello handler leaves
queues or a region in a port that has no channel any more.

Bounds. Rings of four slots with indices modulo 8: the indices wrap after two
turns, the ring gets full and empty, and a chain of three buffers may or may not
fit. Payloads use bytes 0 to 2 and buffers of two bytes: a packet can be shorter
than, equal to, and longer than a buffer. In the violation runs two slots are
enough. The caller's slice (`ReadCap`) holds the longest packet as the code
assembles it. Layout runs use the real sizes. Control runs have two clients and two
connections (`MaxConns`): two clients racing for the port, or one client that
reconnects; with `MixedPairs` the server has three queue pairs, c1 two, so that order
and index count and the server gets fewer queues than it is configured for, and c2
asks for four and is refused half-way. Clients are not
declared symmetric: liveness is checked, and they differ. `lifecycle` has two
senders, so that one can be late and one counted, and two calls of `StartPolling`
(`MaxStarts`), so that polling is restarted with the wake eventfd ready. `forwarder`
has three mbufs, tx buffers of two packets, a control ring with room for one and
three arriving packets (`MaxPackets`): buffers and ring get full, packets of two
flows share a core, and the pool runs empty. Packets towards the NIC are not
bounded. A burst is one packet, so the control burst is never split in the run (the
proofs allow any size).

How far some properties reach: `FlowOrder` compares flushes; what one flush gives a
device is a set, so the order inside it is not visible. `Accounted` and `Returns`
count an mbuf that a full control ring has swallowed as lost: they say that mbufs
leak there and nowhere else, not that none leaks. `Returns` further assumes that a
device frees what it has transmitted without being polled again. `StopEnds` and
`CloseEnds` are checked for an application with a reader of `ErrChan` and workers
that look at `QuitChan`; above is said what happens without.

Deadlock is checked for the rings, where the receiver always has a step, except
that an event-driven one may sleep while the sender can always begin or signal.
It is also checked for the forwarder. It is off for the region (initialisation
ends), the control channel (all connections may be used up or all processes dead)
and the life cycle (the process may have ended or the socket be deleted).

Fairness. `MemifRing`: a `WritePacket` that has begun runs to its end (it has no
blocking call: the eventfd write would block only at 2^64 - 1), and the receiver
keeps polling, as the loops of the examples do. Nobody is obliged to write.
`ControlChannel`: `epoll_wait` returns ready descriptors in turn, so each
connection's handler and the listener are weakly fair. Nobody is obliged to
connect, disconnect or die. `SocketPolling`: the Go scheduler runs every goroutine
that can run, and a goroutine reads `ErrChan` as all examples do; nobody is obliged
to start, stop, disconnect, delete or die. `Forwarder`: cores are dedicated threads
in endless loops and devices transmit; the drain timer is strongly fair, because
time passes and every core comes back to the top of its loop.

## 4. Proofs

Each theorem holds for every value of the constants that satisfies the
assumptions of its module, and has the form `Spec => []P` for a property `P` that
a run checks on a small instance, except that `ImplementsChannel` is a refinement.
That theorem and `OffersWholeBuffers` have hypotheses on the sizes, named below.

| Module | Theorem | States |
|---|---|---|
| `MemifRingProofs` | `TypeCorrect`, `IndexInvariant`, `RaceFree` | `TypeOK`, `IndexInv`, `Exclusive` |
| `MemifDataProofs` | `ChainsComplete`, `OffersWholeBuffers` | `NoIncompleteChain`, `OfferedSlotsFull` |
| `PacketChannelProofs` | `ImplementsChannel` | every behaviour of the ring is one of `PacketChannel`, fairness aside |
| `RegionLayoutProofs` | `HeadersSurvive`, `FirstPairUsable`, `BuffersPlaced` | `HeadersIntact`, `FirstPairInPlace`, `BuffersBehindRings` |
| `ControlChannelProofs` | `TypeCorrect`, `OneChannelPerPort`, `OneMessageUnderWay`, `RingsAgree`, `UsableWhenConnected`, `ServerConnectsFirst`, `PortFreed` | `TypeOK`, `PortExclusive`, `LockStep`, `QueuesMatch`, `ConnectedUsable`, `ServerFirst`, `CloseFrees` |
| `SocketPollingProofs` | `TypeCorrect`, `StopIsQuiet`, `ClosedOnce`, `NoAccessAfterUnmap` | `TypeOK`, `StopQuiet`, `TornDownOnce`, `NoUseAfterUnmap` |
| `ForwarderProofs` | `TypeCorrect`, `MbufsAccounted`, `FlowsInOrder` | `TypeOK`, `Accounted`, `FlowOrder` |

TLC checked each inductive invariant on the bounds of the runs before it was
proved.

### Ring indices

Assumptions (`RingAssumption`, `DataAssumption`): the ring size is a positive
divisor of the index range and smaller than it (a power of two up to 2^14
against 2^16 in the code), the buffer size is positive, packets are sequences of
bytes.

`TypeOK` is not inductive: `fifo \in Seq(Packets)` needs a running
`WritePacket` to hold a member of `Packets`, and `rn - 1 \in Nat` needs `rn`
positive while slots are read; `TypeInv` adds both. `Exclusive` compares slots,
which says nothing of how the positions move, so it follows from `IndexInv`,
which is inductive with `TypeInv`: published-but-unread (`Used`) and free slots
(`Free`) never sum to more than the ring; a running writer has gone `wslot -
Published` slots forward and may go `wfree` further, together at most `Free`; a
reader likewise within `Used`; a refill covers exactly the rest. Because
snapshots are stale, these are inequalities: the peer can only enlarge what a
side may use. A step that publishes an index moves slots from one share to
another (lemmas `PublishMoves`, `ReleaseMoves`, `RefillMoves`, `OfferMoves`),
computed with a few lemmas on distances modulo `IndexMod` (`Advance`, `Retreat`,
`Adjoin`, `Complement`). Last, two positions less than a ring apart are
different slots (`DistinctSlots`), also across the wrap (`MaskWrap`), which is
where the divisibility is needed.

### Ring contents

`At(k)` is the slot `k` places after the reader's position: the first `Used` of
them are published, the next `Free` are the writer's, and the rest wait for the
refill. In these coordinates the wrap is gone, and a step of one side touches
only its own interval.

* `ChainsComplete`. `NoIncompleteChain` says that a `ReadPacket` does not run out
  of slots inside a chain; that is decided by the flag in the last published
  slot, which the writer set several steps before. `Complete` says where that
  flag is at each point: the published slots, and the stale snapshot of a running
  reader, both end in a slot without the flag. No hypothesis is needed.
* `OffersWholeBuffers` has the hypothesis `SizeFits`: on an M2S ring the buffer
  size is below 2^16 (`LenMod`), because `setDescLength` stores 16 bits; section 3
  says what happens at 65536. `Whole` adds to the property the slots that a
  running `WritePacket` or refill is in the middle of.
* `ImplementsChannel` needs `SizeFits`, and `SliceFits`: a packet of one buffer
  fits into the caller's slice. `Laid` divides the published slots among the
  packets of `fifo`, in order, each in a chain of its own; a packet of one buffer
  has one slot, with its length and its bytes. `Writing` and `Reading` say how far
  the two running calls are. `WritePublish` and the step in which `ReadPacket`
  returns a packet are then the two steps of the abstract FIFO, and every other step
  changes nothing of it. Of packets of several buffers the
  theorem says only that each comes once and in order: their contents are wrong
  (run `chained_packet`).

### Region layout

`initializeQueues` writes descriptor blocks of later queues beyond their rings,
over rings that follow. `LayoutInv` says why headers survive: the loops visit
the rings in the order of their offsets, so entries 2m+1 and 2m+2 of `writes` are
the two areas of the m-th ring, and whatever is written later starts behind that
ring's header, or behind the whole ring (`LaterStartsBehind`). For index 0 the
descriptor block lies exactly in its ring. `BuffersPlaced` reduces to the last
ring, which ends at `2 * pairs * RingBytes`, against a value modulo 2^16. The
assumption is that of the code: at least one queue pair, a ring of 2^1 to 2^14
slots. The numbers are not bounded otherwise; in particular the 32-bit limit of
TLC's integers is gone.

### Control channel

Assumed of the constants: at least one queue pair per process and `MaxRing` at
least 1, besides finite bounds. None of the properties is inductive: what a port
holds depends on which messages its peer has already sent. `IInv` has eight
parts. `Opened`: the life of a connection from backlog to closed; `Wire`: at most
one message that is not Disconnect is under way, and an end that has closed has
nothing to read; `Linked`: port and channel point at each other while the channel
is polled, and the server's half is bound and connected before the client hears
of it; `Queued`: the client's queue is a tail of the handshake that continues the
message or Ack under way; `ServerRings` and `ClientRings`: each port has exactly
the rings of the messages handled so far; `Freed`: the exceptions of a close.
`LockStep` is a consequence of `Wire`, `QueuesMatch` of the ring parts,
`PortExclusive` of `Linked`. `Bounded`, inductive on top of `IInv`, says that no port
holds a ring whose index reaches its own number of queue pairs; with the ring parts it
gives `ConnectedUsable`, where the server's queues are the client's and must fit the
server's configuration, and it is the part of `TypeOK` that is more than a type.

### Life cycle

For any finite sets of senders and receivers. `Single` says that the unlocked
test in `delEvent` lets one goroutine through, so that `QuitChan` is closed by
that one only; `StartedOnce` that Connected comes once, so that a worker is
started once; `WgCounts` that the counter of `Wg` is the number of workers between
`Add` and `Done`; `Guarded` that behind `Wg.Wait` no sender is in `WritePacket`.
A sender that calls `Wg.Add` after the wait has returned finds `QuitChan` closed
before it touches memory; a receiver never looks, so `NoUseAfterUnmap` is about
`Senders` and fails for `Receivers` (section 3).

### Forwarder

For any number of mbufs, cores, ports, flows and packets. Assumed
(`ForwarderAssumption`): the pool is finite, the counts and sizes are positive, the
memif ports divide evenly among the cores, RSS gives every flow one queue, and the
masked hash is a port of the core. `Types` and `Limits` together are inductive and
give `TypeOK`.

* `MbufsAccounted`. `Accounted` is inductive with `Types`. Every step is a handover
  (`Moved`): mbufs leave some holders and go to one or two others, and everybody else
  keeps what he has. `Handover` shows once that this preserves single ownership; what is
  left for each action is that the mbufs come from where they are said to come from
  and that no queue gets one twice, which needs that a burst and the rest of a queue
  without duplicates share nothing (`InjectiveSplit`).
* `FlowsInOrder`. `FlowOrder` is not inductive: that a flush does not overtake depends
  on where the other packets of the flow are. `Sorted` says that a core has only
  the flows RSS gives it, and a buffer only those of its port; `Staged` that what is in
  the buffers arrived before what is in the burst, and that before what is in the NIC
  queue; `Past` that no stamp lies ahead of the last arrival. A flush then leaves
  only later packets of the flows it gave away (`OrderedFlush`).

### Only model-checked

* Liveness, which the prover does not support: `NoWedge`, `Settles`, `CloseEnds`,
  `StopEnds`, `EventServed`, `Returns`, and the fairness part of `ChannelSpec`.
* The properties of the violation runs, which do not hold.

## 5. Not modelled, and plan

1. Several ports on one socket: `Socket.Delete` over lists that shrink under it,
   `RequestConnection` while polling is already running.
2. `NumQueuePairs` in `parseHello` with differing M2S and S2M limits: the second
   `min16` overwrites the first. Equal limits, all that this library sends, hide
   it.

Left out for good: the punt path (`lcore_punt_inject` is never launched, nothing
enters `punt_ring` or `ctrl_ring_tx`), device configuration in `dpdk/portinit.c`
(a sequence of calls into DPDK), the behaviour of the kernel beyond sockets,
eventfds and hang-ups, and logging.
