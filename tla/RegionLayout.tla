---------------------------- MODULE RegionLayout ----------------------------
(***************************************************************************)
(* The layout of the shared memory region that a client builds on Hello:   *)
(* addRegion computes where the packet buffers start, and initializeQueues *)
(* writes a header and a block of descriptors per ring.                    *)
(*                                                                         *)
(* Offsets are the code's bytes, and the uint16 arithmetic of addRegion is *)
(* kept.  Memory is the list of the areas written so far; a later area     *)
(* hides an earlier one, and unwritten memory is zero.  The configurations *)
(* checked keep all sums below 2^31.  The size of the region, a uint32     *)
(* sum in addRegion, enters no offset and is left out.                     *)
(***************************************************************************)
EXTENDS Integers, Sequences

CONSTANT Configs    \* MemoryConfig values: records pairs, log2

ASSUME ConfigAssumption ==
  Configs \subseteq [pairs : Nat \ {0}, log2 : 1 .. 14]

VARIABLES
  cfg,      \* p.run
  pbo,      \* regions[0].packetBufferOffset
  step,     \* what initialises next: "region", "S2M", "M2S" or "done"
  qid,      \* the loop variable of initializeQueues
  writes    \* areas written, in order

vars == <<cfg, pbo, step, qid, writes>>

Uint16(n)  == n % 65536
RingHdr    == 128    \* ringSize
DescSize   == 16
Slots      == 2 ^ cfg.log2

\* Mutant: the ring's header is not counted.
RingBytesNoHeader == DescSize * Slots

RingBytes  == RingHdr + DescSize * Slots
\* Mutant: the index of the ring is forgotten.
RingOffsetNoIndex(type, i) ==
  IF type = "S2M" THEN 0 ELSE cfg.pairs * RingBytes

\* Port.newRing: S2M rings first, then M2S rings.
RingOffset(type, i) ==
  (IF type = "S2M" THEN 0 ELSE cfg.pairs * RingBytes) + i * RingBytes

\* Address of a descriptor, as getDescBuf and putDescBuf compute it.
DescAddr(type, i, slot) == RingOffset(type, i) + RingHdr + slot * DescSize
\* Mutant: rings of one direction only.
PacketBufferOffsetHalf == Uint16(cfg.pairs * RingBytes)

\* addRegion's offset: a product of uint16 operands.
PacketBufferOffset ==
  Uint16((cfg.pairs + cfg.pairs) * Uint16(RingHdr + DescSize * Uint16(Slots)))

Init ==
  /\ cfg \in Configs
  /\ pbo = 0
  /\ step = "region" /\ qid = 0 /\ writes = <<>>

AddRegion ==
  /\ step = "region"
  /\ pbo' = PacketBufferOffset
  /\ step' = "S2M"
  /\ UNCHANGED <<cfg, qid, writes>>

\* One round of a loop of initializeQueues: putRing, then putDescBuf of Slots
\* descriptors.  The slot number that is passed to putDescBuf counts the slots
\* of all queues, as the buffer number does.
InitQueue(type, next) ==
  /\ step = type
  /\ LET first == qid * Slots IN
     writes' = writes \o
       << [kind |-> "header", ring |-> <<type, qid>>,
           lo |-> RingOffset(type, qid), hi |-> RingOffset(type, qid) + RingHdr],
          [kind |-> "desc", ring |-> <<type, qid>>,
           lo |-> DescAddr(type, qid, first),
           hi |-> DescAddr(type, qid, first + Slots)] >>
  /\ IF qid + 1 < cfg.pairs THEN qid' = qid + 1 /\ UNCHANGED step
                            ELSE qid' = 0 /\ step' = next
  /\ UNCHANGED <<cfg, pbo>>

Next == AddRegion \/ InitQueue("S2M", "M2S") \/ InitQueue("M2S", "done")

Spec == Init /\ [][Next]_vars

-----------------------------------------------------------------------------
(* Properties of the finished region                                       *)

Queues == {"S2M", "M2S"} \X (0 .. cfg.pairs - 1)

\* The area that byte a was last written by, if any.
WrittenBy(a) == {i \in DOMAIN writes : writes[i].lo <= a /\ a < writes[i].hi}
Holds(a, kind, ring) ==
  \E i \in WrittenBy(a) :
    /\ \A j \in WrittenBy(a) : j <= i
    /\ writes[i].kind = kind /\ writes[i].ring = ring

InPlace(q) ==
  \A s \in 0 .. Slots - 1 : Holds(DescAddr(q[1], q[2], s), "desc", q)

\* The first queue pair is complete, however many there are: the descriptor
\* that WritePacket and ReadPacket fetch for any of its slots is one that
\* initializeQueues wrote for it, and no later queue's header or descriptors
\* have hit it.
FirstPairInPlace ==
  step = "done" => InPlace(<<"S2M", 0>>) /\ InPlace(<<"M2S", 0>>)

\* Every ring still has its whole header, the cookie that port.connect verifies and
\* the indices, although descriptor blocks were written past the ends of the rings
\* before it.
HeadersIntact ==
  step = "done" =>
    \A q \in Queues, b \in 0 .. RingHdr - 1 :
      Holds(RingOffset(q[1], q[2]) + b, "header", q)

\* Packet buffers start behind the last ring, so that filling a buffer never
\* overwrites an index or a descriptor, exactly when the rings need less than
\* 2^16 bytes: addRegion computes the start in uint16.
BuffersBehindRings ==
  step = "done" =>
    ( (\A q \in Queues : RingOffset(q[1], q[2]) + RingBytes <= pbo)
      <=> 2 * cfg.pairs * RingBytes < 65536 )

\* "initializeQueues initializes port queues": the descriptors of every queue
\* are in place.
DescriptorsInPlace == step = "done" => \A q \in Queues : InPlace(q)
=============================================================================
