----------------------------- MODULE MemifRing -----------------------------
(***************************************************************************)
(* One memif ring in shared memory, with the WritePacket of the peer that  *)
(* transmits on it and the ReadPacket of the peer that receives from it.   *)
(*                                                                         *)
(* The same two functions serve both ring types; the branches on           *)
(* cfg.IsServer decide which of the two indices each side advances:        *)
(*   S2M (client writes, server reads): the client publishes filled slots  *)
(*       by moving head, the server returns them by moving tail;           *)
(*   M2S (server writes, client reads): the client offers empty slots by   *)
(*       moving head, the server publishes filled ones by moving tail.     *)
(*                                                                         *)
(* Every access to shared memory (an index, a descriptor, a packet buffer) *)
(* is a step of its own, so the two sides interleave as two processes on   *)
(* two cores do.  An operation's local variables are kept at a fixed value *)
(* while it is not running.                                                *)
(*                                                                         *)
(* The applications are environment: the sender calls WritePacket when it  *)
(* likes; the receiver calls ReadPacket in a loop and, if EventDriven,     *)
(* waits on GetEventFd whenever ReadPacket returns 0.                      *)
(***************************************************************************)
EXTENDS Integers, Sequences

CONSTANTS
  WriterIsServer,  \* TRUE for an M2S ring, FALSE for an S2M ring
  RingSize,        \* q.ring.size
  IndexMod,        \* values of a uint16 index (65536 in the code)
  LenMod,          \* values of the uint16 that setDescLength stores (65536)
  BufSize,         \* run.PacketBufferSize
  ReadCap,         \* len(pkt) of the slice passed to ReadPacket
  EventDriven,     \* the receiver waits on the eventfd instead of polling
  Byte,            \* payload bytes; a fresh region is filled with 0
  Packets          \* payloads passed to WritePacket

ASSUME RingAssumption ==
  /\ WriterIsServer \in BOOLEAN
  /\ RingSize \in Nat \ {0}
  /\ IndexMod \in Nat
  /\ RingSize < IndexMod
  /\ \E c \in 1..IndexMod : IndexMod = c * RingSize

ASSUME DataAssumption ==
  /\ LenMod \in Nat \ {0}
  /\ BufSize \in Nat \ {0}
  /\ ReadCap \in Nat
  /\ EventDriven \in BOOLEAN
  /\ 0 \in Byte
  /\ Packets \subseteq Seq(Byte)

VARIABLES
  \* shared memory
  head, tail,      \* ring indices
  desc,            \* descriptor table
  buf,             \* packet buffers: slot i's descriptor points at buffer i
  evt,             \* interruptFd has been written
  \* WritePacket
  wpc, wslot, wfree, wpkt, wn, wdesc,
  \* ReadPacket (last is lastHead of the server, lastTail of the client)
  rpc, last, rslot, rn, rdesc, rbuf, rlen, rhead,
  asleep,          \* the receiver waits on the eventfd
  \* history: packets published and not yet returned, last packet returned
  fifo, delivered

shared == <<head, tail, desc, buf>>
wvars  == <<wpc, wslot, wfree, wpkt, wn, wdesc>>
rvars  == <<rpc, last, rslot, rn, rdesc, rbuf, rlen, rhead, asleep>>
hvars  == <<fifo, delivered>>
vars   == <<shared, evt, wvars, rvars, hvars>>

Slots    == 0 .. RingSize - 1
Mask(s)  == s % RingSize               \* slot & mask, RingSize a power of two

\* Mutant: the index is kept wider than 16 bits.
TruncWide(i) == i

Trunc(i) == i % IndexMod               \* conversion to uint16
Least(a, b) == IF a < b THEN a ELSE b

Desc     == [next : BOOLEAN, len : Nat]
NoDesc   == [next |-> FALSE, len |-> 0]

Init ==
  /\ head = 0 /\ tail = 0
  /\ desc = [s \in Slots |-> [next |-> FALSE, len |-> BufSize]]
  /\ buf  = [s \in Slots |-> [i \in 1..BufSize |-> 0]]
  /\ evt  = FALSE
  /\ wpc = "idle" /\ wslot = 0 /\ wfree = 0 /\ wpkt = <<>> /\ wn = 0
  /\ wdesc = NoDesc
  /\ rpc = "idle" /\ last = 0 /\ rslot = 0 /\ rn = 0 /\ rdesc = NoDesc
  /\ rbuf = <<>> /\ rlen = 0 /\ rhead = 0 /\ asleep = FALSE
  /\ fifo = <<>> /\ delivered = <<>>

-----------------------------------------------------------------------------
(* WritePacket                                                             *)

\* The index WritePacket moves: tail for the server, head for the client.
Published == IF WriterIsServer THEN tail ELSE head
\* Mutant: one slot too many.
FreeOffByOne == IF WriterIsServer THEN Trunc(head - tail)
                                  ELSE Trunc(RingSize - head + tail + 1)

\* The uint16 count of slots WritePacket may fill.
Free == IF WriterIsServer THEN Trunc(head - tail)
                          ELSE Trunc(RingSize - head + tail)

\* copy(data[offset:offset+size], pkt): the tail of the buffer is kept.
CopyTo(b, p, n) == [i \in DOMAIN b |-> IF i <= n THEN p[i] ELSE b[i]]

WriteIdle ==
  /\ wpc' = "idle" /\ wslot' = 0 /\ wfree' = 0 /\ wpkt' = <<>> /\ wn' = 0
  /\ wdesc' = NoDesc

\* No free slot: interrupt the peer and return 0.
WriteNoSpace ==
  /\ wpc = "idle" /\ Free = 0
  /\ evt' = TRUE
  /\ UNCHANGED <<shared, wvars, rvars, hvars>>

WriteBegin(p) ==
  /\ wpc = "idle" /\ Free # 0
  /\ wpc' = "fetch"
  /\ wslot' = Published /\ wfree' = Free /\ wpkt' = p
  /\ UNCHANGED <<shared, evt, wn, wdesc, rvars, hvars>>

\* getDescBuf
WriteFetch ==
  /\ wpc = "fetch"
  /\ wdesc' = desc[Mask(wslot)]
  /\ wpc' = "fill"
  /\ UNCHANGED <<shared, evt, wslot, wfree, wpkt, wn, rvars, hvars>>
\* Mutant: the flags fetched with the descriptor stay.
FilledDescKeepsFlags(d, n) == [d EXCEPT !.len = n]

\* setFlags(0) and setLength(n) on the fetched descriptor d; its region and
\* offset, which are not modelled, stay.
FilledDesc(d, n) == [next |-> FALSE, len |-> n]

\* The server takes the buffer's size from the descriptor, the client from its
\* configuration.  Each buffer of a chain receives a prefix of the whole packet.
WriteFill ==
  /\ wpc = "fill"
  /\ LET size == IF WriterIsServer THEN wdesc.len ELSE BufSize
         n    == Least(size, Len(wpkt))
     IN  /\ buf' = [buf EXCEPT ![Mask(wslot)] = CopyTo(@, wpkt, n)]
         /\ wdesc' = FilledDesc(wdesc, n)
         /\ wn' = wn + n
         /\ wpc' = IF wn + n < Len(wpkt) THEN "chain" ELSE "put"
  /\ UNCHANGED <<head, tail, desc, evt, wslot, wfree, wpkt, rvars, hvars>>
\* The packet needs one more buffer and there is one.
WriteChain ==
  /\ wpc = "chain" /\ wfree > 1
  /\ desc' = [desc EXCEPT ![Mask(wslot)] = [wdesc EXCEPT !.next = TRUE]]
  /\ wslot' = wslot + 1 /\ wfree' = wfree - 1
  /\ wpc' = "fetch"
  /\ UNCHANGED <<head, tail, buf, evt, wpkt, wn, wdesc, rvars, hvars>>

\* The packet needs one more buffer and there is none: nothing is published.
WriteGiveUp ==
  /\ wpc = "chain" /\ wfree = 1
  /\ evt' = TRUE
  /\ WriteIdle
  /\ UNCHANGED <<shared, rvars, hvars>>

\* putDescBuf of the last buffer
WritePut ==
  /\ wpc = "put"
  /\ desc' = [desc EXCEPT ![Mask(wslot)] = wdesc]
  /\ wslot' = wslot + 1
  /\ wpc' = "publish"
  /\ UNCHANGED <<head, tail, buf, evt, wfree, wpkt, wn, wdesc, rvars, hvars>>

\* writeTail (server) or writeHead (client)
WritePublish ==
  /\ wpc = "publish"
  /\ IF WriterIsServer THEN tail' = Trunc(wslot) /\ UNCHANGED head
                       ELSE head' = Trunc(wslot) /\ UNCHANGED tail
  /\ fifo' = Append(fifo, wpkt)
  /\ wpc' = "signal"
  /\ UNCHANGED <<desc, buf, evt, wslot, wfree, wpkt, wn, wdesc, rvars,
                 delivered>>
\* Mutant: no interrupt after publishing.
WriteSignalSilent ==
  /\ wpc = "signal"
  /\ WriteIdle
  /\ UNCHANGED <<shared, evt, rvars, hvars>>

\* interrupt; isInterrupt holds for every value of the ring's flags, because
\* ringFlagInterrupt is 0.
WriteSignal ==
  /\ wpc = "signal"
  /\ evt' = TRUE
  /\ WriteIdle
  /\ UNCHANGED <<shared, rvars, hvars>>

WriteStep == WriteFetch \/ WriteFill \/ WriteChain \/ WriteGiveUp
             \/ WritePut \/ WritePublish \/ WriteSignal

-----------------------------------------------------------------------------
(* ReadPacket                                                              *)

\* ReadPacket returns rlen; on 0 an event-driven receiver goes to wait.
ReadIdle ==
  /\ asleep' = (EventDriven /\ rlen = 0)
  /\ rpc' = "idle" /\ rslot' = 0 /\ rn' = 0 /\ rdesc' = NoDesc
  /\ rbuf' = <<>> /\ rlen' = 0 /\ rhead' = 0

ReadBegin ==
  /\ rpc = "idle" /\ ~asleep
  /\ rslot' = last
  /\ rn' = Trunc(Published - last)
  /\ rpc' = IF Published = last THEN "refill" ELSE "fetch"
  /\ UNCHANGED <<shared, evt, wvars, last, rdesc, rbuf, rlen, rhead, asleep,
                 hvars>>

\* getDescBuf
ReadFetch ==
  /\ rpc = "fetch"
  /\ rdesc' = desc[Mask(rslot)]
  /\ rpc' = "copy"
  /\ UNCHANGED <<shared, evt, wvars, last, rslot, rn, rbuf, rlen, rhead, asleep,
                 hvars>>

\* The first n elements of s.
Take(s, n) == SubSeq(s, 1, Least(n, Len(s)))

\* copy(pkt[pktOffset:], data[offset:offset+length]).  A chained copy whose
\* pktOffset lies beyond the caller's slice panics; a chain that runs past the
\* published slots is returned as an error (the model's receiver stops there).
ReadCopy ==
  /\ rpc = "copy"
  /\ rbuf' = Take(rbuf \o Take(buf[Mask(rslot)], rdesc.len), ReadCap)
  /\ rlen' = rlen + rdesc.len
  /\ rslot' = rslot + 1
  /\ rn' = rn - 1
  /\ rpc' = CASE rlen > ReadCap                            -> "panic"
              [] rlen <= ReadCap /\ ~rdesc.next           -> "refill"
              [] rlen <= ReadCap /\ rdesc.next /\ rn = 1  -> "error"
              [] rlen <= ReadCap /\ rdesc.next /\ rn # 1  -> "fetch"
  /\ UNCHANGED <<shared, evt, wvars, last, rdesc, rhead, asleep, hvars>>

\* The packet is in the caller's slice: take it off the channel's history.
Deliver ==
  IF rslot # last
  THEN delivered' = rbuf /\ fifo' = SubSeq(fifo, 2, Len(fifo))
  ELSE UNCHANGED hvars
\* Mutant: the tail is not written back.
ReadReleaseKeepsTail ==
  /\ rpc = "refill" /\ ~WriterIsServer
  /\ last' = Trunc(rslot)
  /\ Deliver
  /\ ReadIdle
  /\ UNCHANGED <<shared, evt, wvars>>

\* refill, server: give the slots back.
ReadRelease ==
  /\ rpc = "refill" /\ ~WriterIsServer
  /\ last' = Trunc(rslot)
  /\ tail' = Trunc(rslot)
  /\ Deliver
  /\ ReadIdle
  /\ UNCHANGED <<head, desc, buf, evt, wvars>>
\* Mutant: the slots are counted up to the peer's index, read or not.
ToRefillPublished(l) == Trunc(RingSize - head + Published)

\* Mutant: no slot is ever refilled.
ToRefillNone(l) == 0

\* uint16 count of the slots between the client's tail l and a whole ring.
ToRefill(l) == Trunc(RingSize - head + l)

\* refill, client: count the slots to offer again ...
ReadRefill ==
  /\ rpc = "refill" /\ WriterIsServer
  /\ last' = Trunc(rslot)
  /\ rhead' = head
  /\ rn' = ToRefill(Trunc(rslot))
  /\ rpc' = "reset"
  /\ Deliver
  /\ UNCHANGED <<shared, evt, wvars, rslot, rdesc, rbuf, rlen, asleep>>
\* Mutant: the length of the consumed packet stays.
SetDescLengthNot(n) == n

\* setDescLength: the low 16 bits of the 32-bit length n are overwritten.
SetDescLength(n) == n - (n % LenMod) + (BufSize % LenMod)

\* ... restore the length of each ...
ReadReset ==
  /\ rpc = "reset" /\ rn > 0
  /\ desc' = [desc EXCEPT ![Mask(rhead)].len = SetDescLength(@)]
  /\ rhead' = rhead + 1
  /\ rn' = rn - 1
  /\ UNCHANGED <<head, tail, buf, evt, wvars, rpc, last, rslot, rdesc, rbuf,
                 rlen, asleep, hvars>>
\* ... and publish them with writeHead.
ReadOffer ==
  /\ rpc = "reset" /\ rn = 0
  /\ head' = Trunc(rhead)
  /\ ReadIdle
  /\ UNCHANGED <<tail, desc, buf, evt, wvars, last, hvars>>

\* The receiver's poll on the eventfd returns; it clears the eventfd and calls
\* ReadPacket again.
Wake ==
  /\ asleep /\ evt
  /\ evt' = FALSE /\ asleep' = FALSE
  /\ UNCHANGED <<shared, wvars, rpc, last, rslot, rn, rdesc, rbuf, rlen, rhead,
                 hvars>>

ReadStep == ReadFetch \/ ReadCopy \/ ReadRelease \/ ReadRefill
            \/ ReadReset \/ ReadOffer

-----------------------------------------------------------------------------
Next ==
  \/ WriteNoSpace
  \/ \E p \in Packets : WriteBegin(p)
  \/ WriteStep
  \/ ReadBegin
  \/ ReadStep
  \/ Wake

\* A WritePacket that has begun runs to its end, and the receiver's loop keeps
\* calling ReadPacket (or polling the eventfd); nothing obliges the sender to
\* call WritePacket.
Spec ==
  /\ Init /\ [][Next]_vars
  /\ WF_vars(WriteStep)
  /\ WF_vars(ReadBegin \/ ReadStep \/ Wake)

-----------------------------------------------------------------------------
(* Properties                                                              *)

TypeOK ==
  /\ head \in 0 .. IndexMod - 1 /\ tail \in 0 .. IndexMod - 1
  /\ desc \in [Slots -> Desc]
  /\ buf \in [Slots -> [1 .. BufSize -> Byte]]
  /\ evt \in BOOLEAN /\ asleep \in BOOLEAN
  /\ wpc \in {"idle", "fetch", "fill", "chain", "put", "publish", "signal"}
  /\ wslot \in Nat /\ wfree \in Nat /\ wn \in Nat
  /\ wpkt \in Packets \cup {<<>>} /\ wdesc \in Desc
  /\ rpc \in {"idle", "fetch", "copy", "refill", "reset", "error", "panic"}
  /\ last \in 0 .. IndexMod - 1
  /\ rslot \in Nat /\ rn \in Nat /\ rhead \in Nat /\ rlen \in Nat
  /\ rdesc \in Desc /\ rbuf \in Seq(Byte)
  /\ fifo \in Seq(Packets) /\ delivered \in Seq(Byte)

\* The slot each side is working on, as a set: WritePacket between getDescBuf
\* and putDescBuf, ReadPacket while it copies a slot out, and the client's
\* refill loop.
WriterHolds == IF wpc \in {"fetch", "fill", "chain", "put"}
               THEN {Mask(wslot)} ELSE {}
ReaderHolds ==
  IF rpc \in {"fetch", "copy"} THEN {Mask(rslot)}
  ELSE IF rpc = "reset" /\ rn > 0 THEN {Mask(rhead)} ELSE {}

\* Published slots that ReadPacket has not consumed.
Used == Trunc(Published - last)

\* How the two indices and the local positions of a running WritePacket and
\* ReadPacket fit together although all counting is modulo 2^16: what the
\* reader has still to consume and what the writer may still fill share the ring
\* without overlapping; a stale nFree or nSlots only ever underestimates what its
\* holder may use; the client's refill covers exactly the slots of neither.
IndexInv ==
  /\ ~WriterIsServer => tail = last
  /\ Used + Free <= RingSize
  /\ wpc \in {"fetch", "fill", "chain", "put"} =>
       wslot >= Published /\ wfree >= 1 /\ (wslot - Published) + wfree <= Free
  /\ wpc = "publish" => wslot >= Published /\ wslot - Published <= Free
  /\ rpc \in {"fetch", "copy"} =>
       rslot >= last /\ rn >= 1 /\ (rslot - last) + rn <= Used
  /\ rpc = "refill" => rslot >= last /\ rslot - last <= Used
  /\ rpc = "reset" =>
       /\ WriterIsServer /\ rhead >= head
       /\ (rhead - head) + rn = RingSize - (Used + Free)

\* No data race on a descriptor or a packet buffer: the indices are the only
\* synchronisation between the two processes, and WritePacket never touches the
\* slot that ReadPacket is copying from or resetting (packet_processing.go
\* works on slot&mask without any lock).
Exclusive == WriterHolds \cap ReaderHolds = {}

\* ReadPacket never reports "incomplete chained buffer": whatever the writer
\* leaves in the descriptors when it gives up in the middle of a packet, the
\* published slots end with a descriptor without descFlagNext.
NoIncompleteChain == rpc # "error"

\* On an M2S ring every slot offered to the server has the length of a whole
\* packet buffer, although each packet stored in it overwrote the length and
\* each packet given up half-way left descriptors behind.
OfferedSlotsFull ==
  (WriterIsServer /\ wpc = "idle") =>
    \A k \in 0 .. Free - 1 : desc[Mask(Published + k)].len = BufSize

\* A full ring does not stay full: the receiver's loop makes room again, also
\* when it waits on the eventfd between two packets.
NoWedge == (Free = 0) ~> (Free # 0)

\* Packets that fit into one buffer, and all a slice of ReadCap bytes can hold.
OneBufferPackets == {p \in Packets : Len(p) <= BufSize}
SliceContents    == UNION {[1 .. n -> Byte] : n \in 0 .. ReadCap}

\* What the ring implements: packets are returned by ReadPacket each exactly
\* once, in the order WritePacket published them, those of one buffer unchanged,
\* and every published packet is eventually returned (no lost wake-up), also
\* when WritePacket gives up in the middle of others.
Channel == INSTANCE PacketChannel WITH
  Exact <- OneBufferPackets, Contents <- SliceContents,
  q <- fifo, out <- delivered
ChannelSpec == Channel!Spec

\* "ReadPacket reads one packet": what it copied into the caller's slice is the
\* oldest published packet.
Intact == (rpc = "refill" /\ rslot # last) => rbuf = Head(fifo)
=============================================================================
