------------------------ MODULE PacketChannelProofs ------------------------
(***************************************************************************)
(* Every step of MemifRing is a step of PacketChannel or changes nothing   *)
(* of it: packets are handed over once and in order, those of one buffer   *)
(* unchanged.                                                              *)
(***************************************************************************)
EXTENDS MemifDataProofs

\* The caller's slice holds what ReadPacket is to return unchanged.
SliceFits == \A p \in OneBufferPackets : Len(p) <= ReadCap

-----------------------------------------------------------------------------
(* Where the published packets are                                         *)

\* The buffers from a up to b, counted from the reader, are one packet's.
Chain(a, b) ==
  /\ \A k \in a .. b - 2 : desc[At(k)].next
  /\ ~desc[At(b - 1)].next

\* They hold packet p.  Of a packet of several buffers nothing is claimed.
Occupies(p, a, b) ==
  /\ a < b
  /\ Chain(a, b)
  /\ Len(p) <= BufSize =>
       /\ b = a + 1
       /\ desc[At(a)].len = Len(p)
       /\ \A i \in 1 .. Len(p) : buf[At(a)][i] = p[i]

\* The published slots are divided among the packets of the history, in order.
Laid ==
  \E pos \in [0 .. Len(fifo) -> 0 .. Used] :
    /\ pos[0] = 0 /\ pos[Len(fifo)] = Used
    /\ \A i, j \in 0 .. Len(fifo) : i < j => pos[i] < pos[j]
    /\ \A i \in 1 .. Len(fifo) : Occupies(fifo[i], pos[i - 1], pos[i])

\* How far WritePacket has got with its packet.
Writing ==
  /\ wpc = "idle" => wn = 0
  /\ wpc \in {"fetch", "fill", "chain", "put"} =>
       \A k \in Used .. Used + (wslot - Published) - 1 : desc[At(k)].next
  /\ (wpc \in {"fetch", "fill"} /\ Len(wpkt) <= BufSize) =>
       wslot = Published /\ wn = 0
  /\ wpc = "chain" => Len(wpkt) > BufSize
  /\ (wpc = "put" /\ Len(wpkt) <= BufSize) =>
       /\ wslot = Published /\ wdesc.len = Len(wpkt)
       /\ \A i \in 1 .. Len(wpkt) : buf[Mask(wslot)][i] = wpkt[i]
  /\ wpc = "publish" => Occupies(wpkt, Used, Used + (wslot - Published))

\* How far ReadPacket has got with the oldest packet.
Reading ==
  /\ Len(rbuf) <= ReadCap
  /\ rpc = "idle" => rbuf = <<>>
  /\ rpc \in {"fetch", "copy"} =>
       /\ \A k \in 0 .. (rslot - last) - 1 : desc[At(k)].next
       /\ rslot = last => rbuf = <<>>
  /\ (rpc = "refill" /\ rslot # last) =>
       /\ Chain(0, rslot - last)
       /\ rslot = last + 1 =>
            rbuf = Take(Take(buf[At(0)], desc[At(0)].len), ReadCap)

-----------------------------------------------------------------------------
(* Slots that a step does not touch keep what they hold                    *)

\* The slot k places after the reader now is the one that was j places further,
\* with the same contents.
Carried(k, j) ==
  /\ Mask(last' + k) = At(j + k)
  /\ desc'[Mask(last' + k)] = desc[At(j + k)]
  /\ buf'[Mask(last' + k)] = buf[At(j + k)]

\* A packet stays where it is.
LEMMA OccupiesCarried ==
  ASSUME NEW p, NEW a \in Nat, NEW b \in Nat, NEW j \in Nat,
         Occupies(p, j + a, j + b), \A k \in a .. b - 1 : Carried(k, j)
  PROVE  Occupies(p, a, b)'
<1>1. j + a < j + b /\ Chain(j + a, j + b)
  BY DEF Occupies
<1>2. a < b /\ a \in a .. b - 1 /\ b - 1 \in a .. b - 1
  BY <1>1
<1>3. ASSUME NEW k \in a .. b - 2
      PROVE  desc'[Mask(last' + k)].next
  <2>1. k \in a .. b - 1 /\ j + k \in (j + a) .. (j + b) - 2
    OBVIOUS
  <2>2. desc[At(j + k)].next
    BY <1>1, <2>1 DEF Chain
  <2>3. QED
    BY <2>1, <2>2 DEF Carried
<1>4. ~desc'[Mask(last' + (b - 1))].next
  <2>1. (j + b) - 1 = j + (b - 1)
    OBVIOUS
  <2>2. ~desc[At(j + (b - 1))].next
    BY <1>1, <2>1 DEF Chain
  <2>3. QED
    BY <1>2, <2>2 DEF Carried
<1>5. Chain(a, b)'
  BY <1>3, <1>4 DEF Chain, At, Mask
<1>6. ASSUME Len(p) <= BufSize
      PROVE  /\ b = a + 1
             /\ desc'[Mask(last' + a)].len = Len(p)
             /\ \A i \in 1 .. Len(p) : buf'[Mask(last' + a)][i] = p[i]
  <2>1. /\ j + b = j + a + 1
        /\ desc[At(j + a)].len = Len(p)
        /\ \A i \in 1 .. Len(p) : buf[At(j + a)][i] = p[i]
    BY <1>6 DEF Occupies
  <2>2. QED
    BY <1>2, <2>1 DEF Carried
<1>7. QED
  BY <1>2, <1>5, <1>6 DEF Occupies, At, Mask

\* The published packets stay where they are.
LEMMA LaidKept ==
  ASSUME TypeOK, Laid, UNCHANGED fifo, Used' = Used,
         \A k \in 0 .. Used - 1 : Carried(k, 0)
  PROVE  Laid'
<1>0. Used \in Nat /\ fifo \in Seq(Packets) /\ Len(fifo) \in Nat
  BY IndexType, RingAssumption DEF TypeOK, Index
<1>1. PICK pos \in [0 .. Len(fifo) -> 0 .. Used] :
        /\ pos[0] = 0 /\ pos[Len(fifo)] = Used
        /\ \A i, j \in 0 .. Len(fifo) : i < j => pos[i] < pos[j]
        /\ \A i \in 1 .. Len(fifo) : Occupies(fifo[i], pos[i - 1], pos[i])
  BY DEF Laid
<1>2. ASSUME NEW i \in 1 .. Len(fifo)
      PROVE  Occupies(fifo[i], pos[i - 1], pos[i])'
  <2>1. PICK a \in Nat, b \in Nat, p \in {fifo[i]} :
          a = pos[i - 1] /\ b = pos[i] /\ b <= Used
    BY <1>0, <1>1
  <2>2. Occupies(p, 0 + a, 0 + b) /\ \A k \in a .. b - 1 : Carried(k, 0)
    BY <1>0, <1>1, <2>1
  <2>3. Occupies(p, a, b)'
    BY <2>2, OccupiesCarried
  <2>4. pos[i - 1]' = a /\ pos[i]' = b /\ fifo[i]' = p
    BY <2>1
  <2>5. QED
    BY <2>3, <2>4
<1>3. QED
  BY <1>1, <1>2 DEF Laid

\* What ReadPacket has seen stays as it was.
LEMMA ReadingKept ==
  ASSUME TypeOK, IndexInv, Reading, UNCHANGED <<last, rpc, rslot, rbuf>>,
         \A k \in 0 .. Used - 1 : Carried(k, 0)
  PROVE  Reading'
<1>0. Used \in Nat /\ last \in Nat /\ rslot \in Nat
  BY IndexType, RingAssumption DEF Index
<1>c. \A k \in 0 .. Used - 1 : /\ desc'[Mask(last' + k)] = desc[At(k)]
                               /\ buf'[Mask(last' + k)] = buf[At(k)]
  <2> SUFFICES ASSUME NEW k \in 0 .. Used - 1
               PROVE  /\ desc'[Mask(last' + k)] = desc[At(k)]
                      /\ buf'[Mask(last' + k)] = buf[At(k)]
    OBVIOUS
  <2>1. 0 + k = k
    BY <1>0
  <2>2. QED
    BY <2>1 DEF Carried
<1>1. CASE rpc \in {"fetch", "copy"}
  <2>1. rslot - last \in 0 .. Used - 1
    BY <1>1, ReaderAt
  <2>2. \A k \in 0 .. (rslot - last) - 1 : desc'[Mask(last' + k)].next
    <3> SUFFICES ASSUME NEW k \in 0 .. (rslot - last) - 1
                 PROVE  desc'[Mask(last' + k)].next
      OBVIOUS
    <3>1. k \in 0 .. Used - 1
      BY <1>0, <2>1
    <3>2. desc[At(k)].next
      BY <1>1 DEF Reading
    <3>3. QED
      BY <1>c, <3>1, <3>2
  <2>3. QED
    BY <1>1, <2>2 DEF Reading, At, Mask
<1>2. CASE rpc = "refill" /\ rslot # last
  <2>1. rslot - last \in 1 .. Used
    BY <1>0, <1>2 DEF IndexInv
  <2>2. Chain(0, rslot - last)'
    <3>1. ASSUME NEW k \in 0 .. (rslot - last) - 2
          PROVE  desc'[Mask(last' + k)].next
      <4>1. k \in 0 .. Used - 1
        BY <1>0, <2>1
      <4>2. desc[At(k)].next
        BY <1>2 DEF Reading, Chain
      <4>3. QED
        BY <1>c, <4>1, <4>2
    <3>2. ~desc'[Mask(last' + ((rslot - last) - 1))].next
      <4>1. (rslot - last) - 1 \in 0 .. Used - 1
        BY <1>0, <2>1
      <4>2. ~desc[At((rslot - last) - 1)].next
        BY <1>2 DEF Reading, Chain
      <4>3. QED
        BY <1>c, <4>1, <4>2
    <3>3. QED
      BY <3>1, <3>2 DEF Chain, At, Mask
  <2>3. desc'[Mask(last' + 0)] = desc[At(0)] /\ buf'[Mask(last' + 0)] = buf[At(0)]
    BY <1>0, <1>c, <2>1
  <2>4. QED
    BY <1>2, <2>2, <2>3 DEF Reading, At, Mask
<1>3. CASE rpc \notin {"fetch", "copy"} /\ ~(rpc = "refill" /\ rslot # last)
  BY <1>3 DEF Reading
<1>4. QED
  BY <1>1, <1>2, <1>3

\* What WritePacket has written stays as it was, also when the reader consumes j
\* slots meanwhile.
LEMMA WritingCarried ==
  ASSUME TypeOK, IndexInv, Writing, UNCHANGED wvars, Published' = Published,
         NEW j \in 0 .. Used, Used' = Used - j,
         \A k \in 0 .. (Used - j) + Free - 1 : Carried(k, j)
  PROVE  Writing'
<1>0. /\ Used \in Nat /\ Free \in Nat /\ wslot \in Nat /\ Published \in Nat
      /\ j \in Nat
  BY IndexType, RingAssumption DEF Index
<1>w. UNCHANGED <<wpc, wslot, wpkt, wn, wdesc>>
  BY DEF wvars
<1>v. PICK v \in Int : v = wslot - Published
  BY <1>0
<1>1. CASE wpc \in {"fetch", "fill", "chain", "put"}
  <2>1. v \in 0 .. Free - 1
    BY <1>0, <1>1, <1>v, IndexType DEF IndexInv
  <2>2. ASSUME NEW k \in Used' .. Used' + (wslot' - Published') - 1
        PROVE  desc'[Mask(last' + k)].next
    <3>1. k \in Int /\ k >= Used - j /\ k <= Used - j + v - 1
      BY <1>0, <1>v, <1>w
    <3>2. j + k \in Used .. Used + v - 1 /\ k \in 0 .. (Used - j) + Free - 1
      BY <1>0, <2>1, <3>1
    <3>3. desc[At(j + k)].next
      BY <1>1, <1>v, <3>2 DEF Writing
    <3>4. QED
      BY <3>2, <3>3 DEF Carried
  <2>3. buf'[Mask(wslot)] = buf[Mask(wslot)]
    <3>1. PICK k \in Nat : k = Used - j + v
      BY <1>0, <2>1
    <3>2. k \in 0 .. (Used - j) + Free - 1 /\ j + k = Used + v
      BY <1>0, <2>1, <3>1
    <3>3. Mask(wslot) = At(j + k)
      BY <1>1, <1>v, <3>2, WriterAt
    <3>4. QED
      BY <3>2, <3>3 DEF Carried
  <2>4. QED
    BY <1>1, <1>w, <2>2, <2>3 DEF Writing, At, Mask
<1>2. CASE wpc = "publish"
  <2>1. v \in 0 .. Free
    BY <1>0, <1>2, <1>v DEF IndexInv
  <2>2. PICK a \in Nat, b \in Nat : a = Used - j /\ b = Used - j + v
    BY <1>0, <2>1
  <2>3. j + a = Used /\ j + b = Used + v
    BY <1>0, <2>2
  <2>4. PICK p : p = wpkt
    OBVIOUS
  <2>5. \A k \in a .. b - 1 : Carried(k, j)
    BY <1>0, <2>1, <2>2
  <2>6. Occupies(p, j + a, j + b)
    BY <1>2, <1>v, <2>3, <2>4 DEF Writing
  <2>7. Occupies(p, a, b)'
    BY <1>0, <2>5, <2>6, OccupiesCarried
  <2>8. wpkt' = p /\ Used' = a /\ Used' + (wslot' - Published') = b
    BY <1>0, <1>v, <1>w, <2>2, <2>4
  <2>9. Occupies(wpkt, Used, Used + (wslot - Published))'
    BY <2>7, <2>8
  <2>10. QED
    BY <1>2, <1>w, <2>9 DEF Writing
<1>3. CASE wpc \notin {"fetch", "fill", "chain", "put", "publish"}
  BY <1>3, <1>w DEF Writing
<1>4. QED
  BY <1>1, <1>2, <1>3

-----------------------------------------------------------------------------
(* The ring at first                                                       *)

\* No packet, and neither side has begun.
LEMMA LaidInit == Init => Laid /\ Writing /\ Reading
<1> SUFFICES ASSUME Init PROVE Laid /\ Writing /\ Reading
  OBVIOUS
<1>1. Used = 0
  BY NothingUsed
<1>2. fifo = <<>> /\ Len(fifo) = 0
  BY DEF Init
<1>3. Laid
  <2> DEFINE pos == [i \in 0 .. 0 |-> 0]
  <2>1. pos \in [0 .. Len(fifo) -> 0 .. Used] /\ pos[0] = 0
    BY <1>1, <1>2
  <2>2. \A i, j \in 0 .. Len(fifo) : ~(i < j)
    BY <1>2
  <2>3. 1 .. Len(fifo) = {}
    BY <1>2
  <2> HIDE DEF pos
  <2>4. QED
    BY <1>1, <1>2, <2>1, <2>2, <2>3 DEF Laid
<1>4. Writing
  BY DEF Init, Writing
<1>5. Reading
  <2>1. Len(rbuf) = 0
    BY DEF Init
  <2>2. QED
    BY <2>1, DataAssumption DEF Init, Reading
<1>6. QED
  BY <1>3, <1>4, <1>5

-----------------------------------------------------------------------------
(* WritePacket                                                             *)

\* WritePacket leaves the published slots alone.
LEMMA WriteKeepsPublished ==
  ASSUME TypeOK, IndexInv,
         WriteNoSpace \/ (\E p \in Packets : WriteBegin(p)) \/ WriteStep,
         NEW k \in 0 .. Used - 1
  PROVE  Carried(k, 0)
<1>0. last' = last
  BY DEF WriteNoSpace, WriteBegin, WriteStep, WriteFetch, WriteFill, WriteChain,
         WriteGiveUp, WritePut, WritePublish, WriteSignal, rvars
<1>1. k \in Nat /\ 0 + k = k
  BY IndexType, RingAssumption DEF Index
<1>2. At(k) \in Slots /\ Mask(wslot) \in Slots
  BY <1>1, AtType, MaskType, IndexType
<1>3. desc \in [Slots -> Desc] /\ buf \in [Slots -> [1 .. BufSize -> Byte]]
  BY DEF TypeOK
<1>4. CASE WriteFill \/ WriteChain \/ WritePut
  <2>1. At(k) # Mask(wslot)
    BY <1>4, PublishedApart DEF WriteFill, WriteChain, WritePut
  <2>2. desc'[At(k)] = desc[At(k)]
    BY <1>2, <1>3, <1>4, <2>1 DEF WriteFill, WriteChain, WritePut
  <2>3. buf'[At(k)] = buf[At(k)]
    BY <1>2, <1>3, <1>4, <2>1 DEF WriteFill, WriteChain, WritePut
  <2>4. QED
    BY <1>0, <1>1, <2>2, <2>3 DEF Carried, At
<1>5. CASE ~(WriteFill \/ WriteChain \/ WritePut)
  <2>1. UNCHANGED <<desc, buf>>
    BY <1>5 DEF WriteNoSpace, WriteBegin, WriteStep, WriteFetch, WriteGiveUp,
                WritePublish, WriteSignal, shared
  <2>2. QED
    BY <1>0, <1>1, <2>1 DEF Carried, At
<1>6. QED
  BY <1>4, <1>5

\* Publishing appends the packet to the published ones.
LEMMA LaidPublish ==
  ASSUME TypeInv, IndexInv, Complete, Laid, Writing, WritePublish
  PROVE  Laid'
<1>0. /\ TypeOK /\ Used \in Nat /\ fifo \in Seq(Packets) /\ Len(fifo) \in Nat
      /\ wpkt \in Packets
  BY IndexType, RingAssumption DEF TypeInv, TypeOK, Index, WritePublish
<1>1. PICK v \in Nat : v = wslot - Published /\ v >= 1
  BY <1>0, IndexType DEF Complete, WritePublish, Index
<1>2. Used' = Used + v /\ wpc = "publish" /\ fifo' = Append(fifo, wpkt)
  BY <1>0, <1>1, PublishMoves DEF WritePublish
<1>3. UNCHANGED <<last, desc, buf>>
  BY DEF WritePublish, rvars
<1>4. Occupies(wpkt, Used, Used + v)
  BY <1>1, <1>2 DEF Writing
<1>5. PICK pos \in [0 .. Len(fifo) -> 0 .. Used] :
        /\ pos[0] = 0 /\ pos[Len(fifo)] = Used
        /\ \A i, j \in 0 .. Len(fifo) : i < j => pos[i] < pos[j]
        /\ \A i \in 1 .. Len(fifo) : Occupies(fifo[i], pos[i - 1], pos[i])
  BY DEF Laid
<1>n. PICK N \in Nat : N = Len(fifo)
  BY <1>0
<1>p. PICK new : new = [i \in 0 .. N + 1 |-> IF i = N + 1 THEN Used + v
                                                          ELSE pos[i]]
  OBVIOUS
<1>6. /\ Len(fifo') = N + 1
      /\ \A i \in 1 .. N : fifo'[i] = fifo[i]
      /\ fifo'[N + 1] = wpkt
  BY <1>0, <1>2, <1>n
<1>7. \A i \in 0 .. N : new[i] = pos[i] /\ pos[i] \in 0 .. Used
  <2> SUFFICES ASSUME NEW i \in 0 .. N
               PROVE  new[i] = pos[i] /\ pos[i] \in 0 .. Used
    OBVIOUS
  <2>1. i \in 0 .. N + 1 /\ i # N + 1
    OBVIOUS
  <2>2. new[i] = pos[i]
    BY <1>p, <2>1
  <2>3. pos[i] \in 0 .. Used
    BY <1>5, <1>n
  <2>4. QED
    BY <2>2, <2>3
<1>8. new[N + 1] = Used + v /\ new[0] = 0 /\ N \in Nat
  BY <1>0, <1>5, <1>n, <1>p
<1>9. new \in [0 .. N + 1 -> 0 .. Used + v]
  BY <1>0, <1>1, <1>5, <1>n, <1>p
<1>10. \A i, j \in 0 .. N + 1 : i < j => new[i] < new[j]
  <2> SUFFICES ASSUME NEW i \in 0 .. N + 1, NEW j \in 0 .. N + 1, i < j
               PROVE  new[i] < new[j]
    OBVIOUS
  <2>1. i \in 0 .. N
    BY <1>8
  <2>2. CASE j = N + 1
    BY <1>0, <1>1, <1>7, <1>8, <2>1, <2>2
  <2>3. CASE j # N + 1
    <3>1. j \in 0 .. N
      BY <1>8, <2>3
    <3>2. QED
      BY <1>5, <1>7, <1>n, <2>1, <3>1
  <2>4. QED
    BY <2>2, <2>3
<1>11. \A k \in Nat : Carried(k, 0)
  <2> SUFFICES ASSUME NEW k \in Nat PROVE Carried(k, 0)
    OBVIOUS
  <2>1. 0 + k = k
    OBVIOUS
  <2>2. QED
    BY <1>3, <2>1 DEF Carried, At
<1>12. ASSUME NEW i \in 1 .. N + 1
       PROVE  Occupies(fifo[i], new[i - 1], new[i])'
  <2>1. PICK a \in Nat, b \in Nat, p \in {fifo'[i]} :
          a = new[i - 1] /\ b = new[i]
    <3>1. i - 1 \in 0 .. N + 1 /\ i \in 0 .. N + 1
      BY <1>8
    <3>2. new[i - 1] \in Nat /\ new[i] \in Nat
      BY <1>0, <1>1, <1>9, <3>1
    <3>3. QED
      BY <3>2
  <2>2. Occupies(p, a, b)
    <3>1. CASE i = N + 1
      <4>1. i - 1 = N /\ N \in 0 .. N
        BY <1>8, <3>1
      <4>2. a = Used /\ b = Used + v /\ p = wpkt
        BY <1>5, <1>6, <1>7, <1>8, <1>n, <2>1, <3>1, <4>1
      <4>3. QED
        BY <1>4, <4>2
    <3>2. CASE i # N + 1
      <4>1. i \in 1 .. N /\ i \in 0 .. N /\ i - 1 \in 0 .. N
        BY <1>8, <3>2
      <4>2. a = pos[i - 1] /\ b = pos[i] /\ p = fifo[i]
        BY <1>6, <1>7, <2>1, <4>1
      <4>3. QED
        BY <1>5, <1>n, <4>1, <4>2
    <3>3. QED
      BY <3>1, <3>2
  <2>3. 0 + a = a /\ 0 + b = b
    OBVIOUS
  <2>4. Occupies(p, a, b)'
    <3>1. Occupies(p, 0 + a, 0 + b)
      BY <2>2, <2>3
    <3>2. \A k \in a .. b - 1 : Carried(k, 0)
      BY <1>11
    <3>3. QED
      BY <3>1, <3>2, OccupiesCarried
  <2>5. new[i - 1]' = a /\ new[i]' = b /\ fifo[i]' = p
    BY <2>1
  <2>6. QED
    BY <2>4, <2>5
<1>13. QED
  BY <1>2, <1>6, <1>8, <1>9, <1>10, <1>12 DEF Laid

\* WritePacket builds its packet in order, and one of one buffer whole.
LEMMA WritingWrite ==
  ASSUME TypeInv, IndexInv, Complete, Whole, Writing,
         WriteNoSpace \/ (\E p \in Packets : WriteBegin(p)) \/ WriteStep
  PROVE  Writing'
<1>0. TypeOK /\ last' = last
  BY DEF TypeInv, WriteNoSpace, WriteBegin, WriteStep, WriteFetch, WriteFill,
         WriteChain, WriteGiveUp, WritePut, WritePublish, WriteSignal, rvars
<1>t. /\ Used \in Nat /\ Free \in Nat /\ wslot \in Nat /\ Published \in Nat
      /\ wn \in Nat /\ BufSize \in Nat
      /\ desc \in [Slots -> Desc] /\ buf \in [Slots -> [1 .. BufSize -> Byte]]
      /\ Mask(wslot) \in Slots /\ wdesc \in Desc
  BY <1>0, IndexType, MaskType, RingAssumption, DataAssumption DEF Index, TypeOK
<1>v. PICK v \in Int : v = wslot - Published
  BY <1>t
<1>1. CASE WriteNoSpace
  <2>1. UNCHANGED <<head, tail, desc, buf, wvars>>
    BY <1>1 DEF WriteNoSpace, shared
  <2>2. Used' = Used /\ Published' = Published
    BY <1>0, <2>1, SameIndices
  <2>3. wpc' = "idle" /\ wn' = wn /\ wpc = "idle"
    BY <1>1 DEF WriteNoSpace, wvars
  <2>4. QED
    BY <2>3 DEF Writing
<1>2. ASSUME NEW p \in Packets, WriteBegin(p)
      PROVE  Writing'
  <2>1. /\ UNCHANGED <<head, tail>> /\ wpc = "idle" /\ wpc' = "fetch"
        /\ wslot' = Published /\ wn' = wn
    BY <1>2 DEF WriteBegin, shared
  <2>2. Used' = Used /\ Published' = Published
    BY <1>0, <2>1, SameIndices
  <2>3. wn = 0
    BY <2>1 DEF Writing
  <2>4. Used' .. Used' + (wslot' - Published') - 1 = {}
    BY <1>t, <2>1, <2>2
  <2>5. QED
    BY <2>1, <2>2, <2>3, <2>4 DEF Writing
<1>3. CASE WriteFetch
  <2>1. /\ UNCHANGED <<head, tail, desc, wslot, wpkt, wn>>
        /\ wpc = "fetch" /\ wpc' = "fill"
    BY <1>3 DEF WriteFetch, shared
  <2>2. Used' = Used /\ Published' = Published
    BY <1>0, <2>1, SameIndices
  <2>3. QED
    BY <1>0, <2>1, <2>2 DEF Writing, At, Mask
<1>4. CASE WriteFill
  <2> DEFINE size == IF WriterIsServer THEN wdesc.len ELSE BufSize
             n    == Least(size, Len(wpkt))
             b    == buf[Mask(wslot)]
  <2>1. /\ UNCHANGED <<head, tail, desc, wslot, wpkt>> /\ wpc = "fill"
        /\ wdesc' = FilledDesc(wdesc, n)
        /\ buf' = [buf EXCEPT ![Mask(wslot)] = CopyTo(b, wpkt, n)]
        /\ wpc' = IF wn + n < Len(wpkt) THEN "chain" ELSE "put"
    BY <1>4 DEF WriteFill
  <2>2. size = BufSize
    BY <2>1 DEF Whole
  <2>3. Len(wpkt) \in Nat
    BY <2>1, DataAssumption DEF TypeInv
  <2>4. n \in Nat /\ n <= Len(wpkt) /\ (Len(wpkt) <= BufSize => n = Len(wpkt))
    BY <1>t, <2>2, <2>3 DEF Least
  <2>5. b \in [1 .. BufSize -> Byte]
    BY <1>t
  <2> HIDE DEF size, n, b
  <2>6. Used' = Used /\ Published' = Published
    BY <1>0, <2>1, SameIndices
  <2>7. Len(wpkt) <= BufSize =>
          /\ wslot = Published /\ wpc' = "put" /\ wdesc'.len = Len(wpkt)
          /\ \A i \in 1 .. Len(wpkt) : buf'[Mask(wslot)][i] = wpkt[i]
    <3> SUFFICES ASSUME Len(wpkt) <= BufSize
                 PROVE  /\ wslot = Published /\ wpc' = "put"
                        /\ wdesc'.len = Len(wpkt)
                        /\ \A i \in 1 .. Len(wpkt) :
                             buf'[Mask(wslot)][i] = wpkt[i]
      OBVIOUS
    <3>1. wslot = Published /\ wn = 0
      BY <2>1 DEF Writing
    <3>2. n = Len(wpkt)
      BY <2>4
    <3>3. ~(wn + n < Len(wpkt))
      BY <2>3, <3>1, <3>2
    <3>4. wdesc'.len = Len(wpkt)
      BY <2>1, <3>2 DEF FilledDesc
    <3>5. ASSUME NEW i \in 1 .. Len(wpkt)
          PROVE  buf'[Mask(wslot)][i] = wpkt[i]
      <4>1. i \in 1 .. BufSize /\ i <= n
        BY <1>t, <2>3, <3>2
      <4>2. DOMAIN b = 1 .. BufSize
        BY <2>5
      <4>3. CopyTo(b, wpkt, n)[i] = wpkt[i]
        BY <4>1, <4>2 DEF CopyTo
      <4>4. buf'[Mask(wslot)] = CopyTo(b, wpkt, n)
        BY <1>t, <2>1
      <4>5. QED
        BY <4>3, <4>4
    <3>6. QED
      BY <2>1, <3>1, <3>3, <3>4, <3>5
  <2>8. wpc' = "chain" => Len(wpkt) > BufSize
    BY <1>t, <2>3, <2>7
  <2>9. wpc' \in {"chain", "put"}
    BY <2>1
  <2>10. QED
    BY <1>0, <2>1, <2>6, <2>7, <2>8, <2>9 DEF Writing, At, Mask
<1>5. CASE WriteChain
  <2> DEFINE d == [wdesc EXCEPT !.next = TRUE]
  <2>1. /\ UNCHANGED <<head, tail, wpkt>> /\ wpc = "chain" /\ wpc' = "fetch"
        /\ desc' = [desc EXCEPT ![Mask(wslot)] = d] /\ wslot' = wslot + 1
    BY <1>5 DEF WriteChain
  <2>2. d.next = TRUE
    BY <1>t DEF Desc
  <2> HIDE DEF d
  <2>3. Used' = Used /\ Published' = Published
    BY <1>0, <2>1, SameIndices
  <2>4. /\ v \in 0 .. Free - 1 /\ Used + Free <= RingSize
        /\ Mask(wslot) = At(Used + v)
    BY <1>0, <1>t, <1>v, <2>1, WriterAt, RingAssumption DEF IndexInv
  <2>5. Len(wpkt) > BufSize /\ Len(wpkt) \in Nat
    BY <2>1, DataAssumption DEF Writing, TypeInv
  <2>6. ASSUME NEW k \in Used .. Used + (wslot' - Published) - 1
        PROVE  desc'[At(k)].next
    <3>1. k \in Used .. Used + v
      BY <1>t, <1>v, <2>1
    <3>2. CASE k = Used + v
      BY <1>t, <2>1, <2>2, <2>4, <3>2
    <3>3. CASE k # Used + v
      <4>1. k \in Used .. Used + v - 1 /\ k \in 0 .. RingSize - 1 /\ k \in Nat
        BY <1>t, <2>4, <3>1, <3>3, RingAssumption
      <4>2. At(k) # Mask(wslot) /\ At(k) \in Slots
        BY <1>0, <1>v, <2>1, <3>3, <4>1, WriterApart, AtType
      <4>3. desc[At(k)].next
        BY <1>v, <2>1, <4>1 DEF Writing
      <4>4. QED
        BY <1>t, <2>1, <4>2, <4>3
    <3>4. QED
      BY <3>2, <3>3
  <2>7. ~(Len(wpkt') <= BufSize)
    BY <1>t, <2>1, <2>5
  <2>8. QED
    BY <1>0, <2>1, <2>3, <2>6, <2>7 DEF Writing, At, Mask
<1>6. CASE WriteGiveUp \/ WriteSignal
  <2>1. wpc' = "idle" /\ wn' = 0
    BY <1>6 DEF WriteGiveUp, WriteSignal, WriteIdle
  <2>2. QED
    BY <2>1 DEF Writing
<1>7. CASE WritePut
  <2>1. /\ UNCHANGED <<head, tail, wpkt, buf>> /\ wpc = "put"
        /\ wpc' = "publish" /\ wslot' = wslot + 1
        /\ desc' = [desc EXCEPT ![Mask(wslot)] = wdesc]
    BY <1>7 DEF WritePut
  <2>2. Used' = Used /\ Published' = Published /\ ~wdesc.next
    BY <1>0, <2>1, SameIndices DEF Complete
  <2>3. /\ v \in 0 .. Free - 1 /\ Used + Free <= RingSize
        /\ Mask(wslot) = At(Used + v)
    BY <1>0, <1>t, <1>v, <2>1, WriterAt, RingAssumption DEF IndexInv
  <2>4. PICK a \in Nat, e \in Nat, p \in {wpkt} : a = Used /\ e = Used + v + 1
    BY <1>t, <2>3
  <2>5. \A k \in a .. e - 2 : desc'[At(k)].next
    <3> SUFFICES ASSUME NEW k \in a .. e - 2 PROVE desc'[At(k)].next
      OBVIOUS
    <3>1. /\ k \in Used .. Used + v - 1 /\ k \in 0 .. RingSize - 1 /\ k \in Nat
          /\ k # Used + v
      BY <1>t, <2>3, <2>4, RingAssumption
    <3>2. At(k) # Mask(wslot) /\ At(k) \in Slots
      BY <1>0, <1>v, <2>1, <3>1, WriterApart, AtType
    <3>3. desc[At(k)].next
      BY <1>v, <2>1, <3>1 DEF Writing
    <3>4. QED
      BY <1>t, <2>1, <3>2, <3>3
  <2>6. e - 1 = Used + v /\ a < e
    BY <1>t, <2>3, <2>4
  <2>7. desc'[Mask(wslot)] = wdesc
    BY <1>t, <2>1
  <2>8. ~desc'[At(e - 1)].next
    BY <2>2, <2>3, <2>6, <2>7
  <2>9. Chain(a, e)'
    BY <1>0, <2>5, <2>8 DEF Chain, At, Mask
  <2>10. Len(p) <= BufSize =>
           /\ e = a + 1
           /\ desc'[At(a)].len = Len(p)
           /\ \A i \in 1 .. Len(p) : buf'[At(a)][i] = p[i]
    <3> SUFFICES ASSUME Len(p) <= BufSize
                 PROVE  /\ e = a + 1
                        /\ desc'[At(a)].len = Len(p)
                        /\ \A i \in 1 .. Len(p) : buf'[At(a)][i] = p[i]
      OBVIOUS
    <3>1. /\ wslot = Published /\ wdesc.len = Len(wpkt)
          /\ \A i \in 1 .. Len(wpkt) : buf[Mask(wslot)][i] = wpkt[i]
      BY <2>1, <2>4 DEF Writing
    <3>2. v = 0 /\ e = a + 1 /\ Mask(wslot) = At(a)
      BY <1>t, <1>v, <2>3, <2>4, <3>1
    <3>3. QED
      BY <2>1, <2>4, <2>7, <3>1, <3>2
  <2>11. Occupies(p, a, e)'
    BY <1>0, <2>6, <2>9, <2>10 DEF Occupies, At, Mask
  <2>12. wpkt' = p /\ Used' = a /\ Used' + (wslot' - Published') = e
    BY <1>t, <1>v, <2>1, <2>2, <2>4
  <2>13. Occupies(wpkt, Used, Used + (wslot - Published))'
    BY <2>11, <2>12
  <2>14. QED
    BY <2>1, <2>13 DEF Writing
<1>8. CASE WritePublish
  <2>1. wpc' = "signal"
    BY <1>8 DEF WritePublish
  <2>2. QED
    BY <2>1 DEF Writing
<1>9. QED
  BY <1>1, <1>2, <1>3, <1>4, <1>5, <1>6, <1>7, <1>8 DEF WriteStep

-----------------------------------------------------------------------------
(* ReadPacket                                                              *)

\* Steps other than the one that consumes a packet leave the published and the
\* free slots alone: the refill resets slots of neither kind.
LEMMA ReadKeeps ==
  ASSUME TypeOK, IndexInv,
         ReadBegin \/ ReadFetch \/ ReadCopy \/ ReadReset \/ ReadOffer \/ Wake,
         NEW k \in 0 .. Used + Free - 1
  PROVE  Carried(k, 0)
<1> USE IndexType, RingAssumption DEF Index
<1>0. last' = last /\ buf' = buf
  BY DEF ReadBegin, ReadFetch, ReadCopy, ReadReset, ReadOffer, Wake, shared
<1>t. /\ Used \in Nat /\ Free \in Nat /\ RingSize \in Nat
      /\ head \in Nat /\ rhead \in Nat /\ rn \in Nat
  OBVIOUS
<1>1. k \in Nat /\ 0 + k = k
  BY <1>t
<1>2. CASE ReadReset
  <2>1. /\ rpc = "reset" /\ rn > 0 /\ WriterIsServer
        /\ rhead >= head /\ (rhead - head) + rn = RingSize - (Used + Free)
    BY <1>2 DEF ReadReset, IndexInv
  <2>2. PICK i \in Nat : i = rhead - head
    BY <1>t, <2>1
  <2>3. PICK c \in 0 .. RingSize - 1 : c = Used + Free + i
    BY <1>t, <2>1, <2>2
  <2>4. Mask(rhead) = At(c)
    <3>1. rhead = head + i
      BY <1>t, <2>2
    <3>2. QED
      BY <2>1, <2>3, <3>1, AtHead
  <2>5. k \in 0 .. RingSize - 1 /\ k # c
    BY <1>t, <2>1, <2>2, <2>3
  <2>6. At(k) # Mask(rhead) /\ At(k) \in Slots
    BY <1>1, <2>4, <2>5, AtApart, AtType
  <2>7. desc'[At(k)] = desc[At(k)]
    BY <1>2, <2>6, ResetSlot
  <2>8. QED
    BY <1>0, <1>1, <2>7 DEF Carried, At
<1>3. CASE ~ReadReset
  <2>1. desc' = desc
    BY <1>3 DEF ReadBegin, ReadFetch, ReadCopy, ReadOffer, Wake, shared
  <2>2. QED
    BY <1>0, <1>1, <2>1 DEF Carried, At
<1>4. QED
  BY <1>2, <1>3

\* Consuming renumbers the slots and changes none.
LEMMA ConsumeCarries ==
  ASSUME TypeOK, IndexInv, ReadRelease \/ ReadRefill, NEW k \in Nat
  PROVE  Carried(k, rslot - last)
<1>1. PICK j \in 0 .. Used : j = rslot - last
  BY ConsumeMoves
<1>2. last' = Trunc(last + j) /\ UNCHANGED <<desc, buf>>
  BY <1>1, ConsumeMoves
<1>3. At(k)' = At(j + k)
  BY <1>2, AtMoves
<1>4. Mask(last' + k) = At(j + k)
  BY <1>3 DEF At, Mask
<1>5. QED
  BY <1>1, <1>2, <1>4 DEF Carried

\* The slots ReadPacket has collected are those of the oldest packet.
LEMMA OldestPacket ==
  ASSUME TypeOK, IndexInv, Reading, rpc = "refill", rslot # last,
         NEW pos \in [0 .. Len(fifo) -> 0 .. Used],
         pos[0] = 0, pos[Len(fifo)] = Used,
         \A i \in 1 .. Len(fifo) : Occupies(fifo[i], pos[i - 1], pos[i])
  PROVE  /\ Len(fifo) >= 1
         /\ pos[1] = rslot - last
         /\ Occupies(fifo[1], 0, rslot - last)
<1>0. /\ Used \in Nat /\ last \in Nat /\ rslot \in Nat
      /\ Len(fifo) \in Nat
  BY IndexType, RingAssumption DEF Index, TypeOK
<1>1. PICK j \in 1 .. Used : j = rslot - last
  BY <1>0 DEF IndexInv
<1>2. Len(fifo) >= 1
  BY <1>0, <1>1
<1>3. PICK b \in 0 .. Used : b = pos[1]
  BY <1>0, <1>2
<1>4. Occupies(fifo[1], 0, b)
  <2>1. Occupies(fifo[1], pos[1 - 1], pos[1])
    BY <1>0, <1>2
  <2>2. QED
    BY <1>3, <2>1
<1>5. Chain(0, b) /\ 0 < b /\ Chain(0, j)
  BY <1>1, <1>4 DEF Occupies, Reading
<1>6. ~(j < b)
  <2> SUFFICES ASSUME j < b PROVE FALSE
    OBVIOUS
  <2>1. j - 1 \in 0 .. b - 2
    BY <1>0
  <2>2. desc[At(j - 1)].next /\ ~desc[At(j - 1)].next
    BY <1>5, <2>1 DEF Chain
  <2>3. QED
    BY <2>2
<1>7. ~(b < j)
  <2> SUFFICES ASSUME b < j PROVE FALSE
    OBVIOUS
  <2>1. b - 1 \in 0 .. j - 2
    BY <1>0, <1>5
  <2>2. desc[At(b - 1)].next /\ ~desc[At(b - 1)].next
    BY <1>5, <2>1 DEF Chain
  <2>3. QED
    BY <2>2
<1>8. j = b
  BY <1>0, <1>6, <1>7
<1>9. QED
  BY <1>1, <1>2, <1>3, <1>4, <1>8

\* What Deliver leaves of the history.
LEMMA DeliverTail ==
  ASSUME TypeOK, Deliver, rslot # last, Len(fifo) >= 1
  PROVE  /\ fifo' = Tail(fifo) /\ delivered' = rbuf /\ fifo # <<>>
         /\ Head(fifo) = fifo[1]
         /\ Len(fifo') = Len(fifo) - 1
         /\ \A i \in 1 .. Len(fifo) - 1 : fifo'[i] = fifo[i + 1]
<1>1. fifo \in Seq(Packets) /\ fifo # <<>>
  BY DEF TypeOK
<1>2. Tail(fifo) = SubSeq(fifo, 2, Len(fifo))
  BY <1>1, TailIsSubSeq
<1>3. fifo' = Tail(fifo) /\ delivered' = rbuf
  BY <1>2 DEF Deliver
<1>4. /\ Len(Tail(fifo)) = Len(fifo) - 1
      /\ \A i \in 1 .. Len(Tail(fifo)) : Tail(fifo)[i] = fifo[i + 1]
  BY <1>1, HeadTailProperties
<1>5. QED
  BY <1>1, <1>3, <1>4

\* Consuming removes the oldest packet and no other.
LEMMA LaidConsume ==
  ASSUME TypeOK, IndexInv, Laid, Reading, ReadRelease \/ ReadRefill
  PROVE  Laid'
<1>0. Used \in Nat /\ Len(fifo) \in Nat /\ last \in Nat /\ rslot \in Nat
  BY IndexType, RingAssumption DEF Index, TypeOK
<1>1. PICK j \in Nat : j = rslot - last /\ j <= Used
  BY <1>0, ConsumeMoves
<1>2. Used' = Used - j /\ rpc = "refill" /\ Deliver
  BY <1>1, ConsumeMoves DEF ReadRelease, ReadRefill
<1>3. \A k \in Nat : Carried(k, j)
  BY <1>1, ConsumeCarries
<1>4. CASE rslot = last
  <2>1. j = 0 /\ fifo' = fifo /\ Used' = Used
    BY <1>0, <1>1, <1>2, <1>4 DEF Deliver, hvars
  <2>2. \A k \in 0 .. Used - 1 : Carried(k, 0)
    BY <1>0, <1>3, <2>1
  <2>3. QED
    BY <2>1, <2>2, LaidKept
<1>5. CASE rslot # last
  <2>1. PICK pos \in [0 .. Len(fifo) -> 0 .. Used] :
          /\ pos[0] = 0 /\ pos[Len(fifo)] = Used
          /\ \A i, h \in 0 .. Len(fifo) : i < h => pos[i] < pos[h]
          /\ \A i \in 1 .. Len(fifo) : Occupies(fifo[i], pos[i - 1], pos[i])
    BY DEF Laid
  <2>2. Len(fifo) >= 1 /\ pos[1] = j
    BY <1>1, <1>2, <1>5, <2>1, OldestPacket
  <2>3. PICK N \in Nat : N = Len(fifo) /\ N >= 1
    BY <1>0, <2>2
  <2>4. /\ Len(fifo') = N - 1
        /\ \A i \in 1 .. N - 1 : fifo'[i] = fifo[i + 1]
    BY <1>2, <1>5, <2>2, <2>3, DeliverTail
  <2>5. PICK new : new = [i \in 0 .. N - 1 |-> pos[i + 1] - j]
    OBVIOUS
  <2>6. \A i \in 0 .. N - 1 :
          /\ new[i] = pos[i + 1] - j /\ pos[i + 1] \in 0 .. Used
          /\ pos[i + 1] >= j
    <3> SUFFICES ASSUME NEW i \in 0 .. N - 1
                 PROVE  /\ new[i] = pos[i + 1] - j /\ pos[i + 1] \in 0 .. Used
                        /\ pos[i + 1] >= j
      OBVIOUS
    <3>1. i + 1 \in 0 .. N /\ 1 \in 0 .. N
      BY <2>3
    <3>2. new[i] = pos[i + 1] - j /\ pos[i + 1] \in 0 .. Used
      BY <2>1, <2>3, <2>5, <3>1
    <3>3. CASE i = 0
      BY <1>0, <1>1, <2>2, <3>2, <3>3
    <3>4. CASE i # 0
      <4>1. 1 < i + 1
        BY <2>3, <3>4
      <4>2. pos[1] < pos[i + 1]
        BY <2>1, <2>3, <3>1, <4>1
      <4>3. QED
        BY <1>0, <2>2, <3>2, <4>2
    <3>5. QED
      BY <3>2, <3>3, <3>4
  <2>7. new \in [0 .. N - 1 -> 0 .. Used']
    <3>1. \A i \in 0 .. N - 1 : pos[i + 1] - j \in 0 .. Used - j
      <4> SUFFICES ASSUME NEW i \in 0 .. N - 1
                   PROVE  pos[i + 1] - j \in 0 .. Used - j
        OBVIOUS
      <4>1. PICK x \in 0 .. Used : x = pos[i + 1] /\ x >= j
        BY <2>6
      <4>2. QED
        BY <1>0, <1>1, <4>1
    <3>2. QED
      BY <1>2, <2>5, <3>1
  <2>8. new[0] = 0 /\ new[N - 1] = Used'
    <3>1. 0 \in 0 .. N - 1 /\ N - 1 \in 0 .. N - 1 /\ 0 + 1 = 1
          /\ (N - 1) + 1 = N
      BY <2>3
    <3>2. new[0] = pos[1] - j /\ new[N - 1] = pos[N] - j
      BY <2>6, <3>1
    <3>3. QED
      BY <1>1, <1>2, <2>1, <2>2, <2>3, <3>2
  <2>9. \A i, h \in 0 .. N - 1 : i < h => new[i] < new[h]
    <3> SUFFICES ASSUME NEW i \in 0 .. N - 1, NEW h \in 0 .. N - 1, i < h
                 PROVE  new[i] < new[h]
      OBVIOUS
    <3>1. i + 1 \in 0 .. N /\ h + 1 \in 0 .. N /\ i + 1 < h + 1
      BY <2>3
    <3>2. pos[i + 1] < pos[h + 1]
      BY <2>1, <2>3, <3>1
    <3>3. QED
      BY <1>0, <1>1, <2>6, <3>2
  <2>10. ASSUME NEW i \in 1 .. N - 1
         PROVE  Occupies(fifo[i], new[i - 1], new[i])'
    <3>1. /\ i \in 0 .. N - 1 /\ i - 1 \in 0 .. N - 1 /\ i + 1 \in 1 .. N
          /\ (i - 1) + 1 = i /\ (i + 1) - 1 = i
      BY <2>3
    <3>2. /\ new[i - 1] = pos[i] - j /\ pos[i] \in 0 .. Used /\ pos[i] >= j
          /\ new[i] = pos[i + 1] - j /\ pos[i + 1] \in 0 .. Used
          /\ pos[i + 1] >= j
      BY <2>6, <3>1
    <3>a. new[i - 1] \in Nat /\ j + new[i - 1] = pos[i]
      <4>1. PICK x \in 0 .. Used : x = pos[i] /\ x >= j /\ new[i - 1] = x - j
        BY <3>2
      <4>2. QED
        BY <1>0, <4>1
    <3>b. new[i] \in Nat /\ j + new[i] = pos[i + 1]
      <4>1. PICK x \in 0 .. Used : x = pos[i + 1] /\ x >= j /\ new[i] = x - j
        BY <3>2
      <4>2. QED
        BY <1>0, <4>1
    <3>3. PICK a \in Nat, b \in Nat, p \in {fifo'[i]} :
            /\ a = new[i - 1] /\ b = new[i]
            /\ j + a = pos[i] /\ j + b = pos[i + 1]
      BY <3>a, <3>b
    <3>4. Occupies(fifo[i + 1], pos[i], pos[i + 1])
      BY <2>1, <2>3, <3>1
    <3>5. Occupies(p, j + a, j + b)
      BY <2>4, <3>3, <3>4
    <3>6. \A k \in a .. b - 1 : Carried(k, j)
      BY <1>3
    <3>7. Occupies(p, a, b)'
      BY <3>5, <3>6, OccupiesCarried
    <3>8. new[i - 1]' = a /\ new[i]' = b /\ fifo[i]' = p
      BY <3>3
    <3>9. QED
      BY <3>7, <3>8
  <2>11. QED
    BY <2>4, <2>7, <2>8, <2>9, <2>10 DEF Laid
<1>6. QED
  BY <1>4, <1>5

\* The prefix that Take returns.
LEMMA TakePrefix ==
  ASSUME NEW s \in Seq(Byte), NEW n \in Nat
  PROVE  /\ Take(s, n) \in Seq(Byte)
         /\ Len(Take(s, n)) = Least(n, Len(s))
         /\ Len(Take(s, n)) <= n
         /\ \A i \in 1 .. Least(n, Len(s)) : Take(s, n)[i] = s[i]
<1>1. PICK m \in 0 .. Len(s) : m = Least(n, Len(s)) /\ m <= n
  BY DEF Least
<1>2. \A i \in 1 .. m : s[i] \in Byte
  BY <1>1
<1>3. /\ Len(SubSeq(s, 1, m)) = IF 1 <= m THEN m - 1 + 1 ELSE 0
      /\ \A i \in 1 .. m - 1 + 1 : SubSeq(s, 1, m)[i] = s[1 + i - 1]
  BY <1>1, <1>2, SubSeqProperties
<1>4. Len(SubSeq(s, 1, m)) = m
  BY <1>1, <1>3
<1>5. \A i \in 1 .. m : SubSeq(s, 1, m)[i] = s[i]
  <2> SUFFICES ASSUME NEW i \in 1 .. m PROVE SubSeq(s, 1, m)[i] = s[i]
    OBVIOUS
  <2>1. i \in 1 .. m - 1 + 1 /\ 1 + i - 1 = i
    BY <1>1
  <2>2. QED
    BY <1>3, <2>1
<1>6. QED
  BY <1>1, <1>4, <1>5, TakeType DEF Take

\* Where ReadPacket goes after a buffer depends on the buffer's flag.
LEMMA ReadCopyFlag ==
  ASSUME TypeOK, ReadCopy
  PROVE  /\ rpc' = "fetch" => rdesc.next
         /\ rpc' = "refill" => ~rdesc.next
<1>1. rlen \in Nat /\ ReadCap \in Nat /\ rdesc.next \in BOOLEAN
  BY DataAssumption DEF TypeOK, Desc
<1>2. CASE rlen > ReadCap
  BY <1>1, <1>2 DEF ReadCopy
<1>3. CASE rlen <= ReadCap /\ ~rdesc.next
  BY <1>1, <1>3 DEF ReadCopy
<1>4. CASE rlen <= ReadCap /\ rdesc.next /\ rn = 1
  BY <1>1, <1>4 DEF ReadCopy
<1>5. CASE rlen <= ReadCap /\ rdesc.next /\ rn # 1
  BY <1>1, <1>5 DEF ReadCopy
<1>6. QED
  BY <1>1, <1>2, <1>3, <1>4, <1>5

\* ReadPacket follows the chain of the oldest packet from its first buffer.
LEMMA ReadingRead ==
  ASSUME TypeOK, IndexInv, Complete, Reading, ReadBegin \/ ReadStep \/ Wake
  PROVE  Reading'
<1>0. /\ Used \in Nat /\ last \in Nat /\ rslot \in Nat /\ ReadCap \in Nat
      /\ rbuf \in Seq(Byte) /\ buf \in [Slots -> [1 .. BufSize -> Byte]]
      /\ BufSize \in Nat /\ rdesc \in Desc
  BY IndexType, RingAssumption, DataAssumption DEF Index, TypeOK
<1>1. CASE ReadBegin
  <2>1. /\ rpc = "idle" /\ rpc' \in {"fetch", "refill"}
        /\ UNCHANGED <<last, rbuf>> /\ rslot' = last
    BY <1>1 DEF ReadBegin
  <2>2. rbuf = <<>> /\ Len(rbuf) <= ReadCap
    BY <2>1 DEF Reading
  <2>3. 0 .. (rslot' - last') - 1 = {}
    BY <1>0, <2>1
  <2>4. QED
    BY <2>1, <2>2, <2>3 DEF Reading
<1>2. CASE ReadFetch
  <2>1. /\ rpc = "fetch" /\ rpc' = "copy"
        /\ UNCHANGED <<last, rbuf, rslot, desc>>
    BY <1>2 DEF ReadFetch, shared
  <2>2. QED
    BY <2>1 DEF Reading, At, Mask
<1>3. CASE ReadCopy
  <2>1. /\ rpc = "copy" /\ rslot' = rslot + 1 /\ UNCHANGED <<last, desc, buf>>
        /\ rbuf' = Take(rbuf \o Take(buf[Mask(rslot)], rdesc.len), ReadCap)
    BY <1>3 DEF ReadCopy, shared
  <2>2. rpc' \in {"panic", "refill", "error", "fetch"}
    BY <1>3, ReadCopyNext
  <2>3. PICK j \in Nat : j = rslot - last /\ j < Used
    BY <1>0, <2>1, ReaderAt
  <2>4. Mask(rslot) = At(j) /\ At(j) \in Slots /\ rdesc = desc[At(j)]
    <3>1. rslot = last + j
      BY <1>0, <2>3
    <3>2. QED
      BY <2>1, <3>1, AtType DEF At, Complete
  <2>5. buf[At(j)] \in Seq(Byte) /\ rdesc.len \in Nat
    BY <1>0, <2>4 DEF Desc
  <2>6. PICK t \in Seq(Byte) : t = Take(buf[At(j)], rdesc.len)
    BY <2>5, TakePrefix
  <2>7. rbuf \o t \in Seq(Byte) /\ rbuf' = Take(rbuf \o t, ReadCap)
    BY <1>0, <2>1, <2>4, <2>6, ConcatProperties
  <2>8. Len(rbuf') <= ReadCap
    BY <1>0, <2>7, TakePrefix
  <2>9. \A k \in 0 .. j - 1 : desc[At(k)].next
    BY <2>1, <2>3 DEF Reading
  <2>10. rslot' # last' /\ rslot' - last' = j + 1
    BY <1>0, <2>1, <2>3
  <2>11. ASSUME rpc' = "fetch"
         PROVE  \A k \in 0 .. (rslot' - last') - 1 : desc[At(k)].next
    <3> SUFFICES ASSUME NEW k \in 0 .. (rslot' - last') - 1
                 PROVE  desc[At(k)].next
      OBVIOUS
    <3>1. k \in 0 .. j - 1 \/ k = j
      BY <2>3, <2>10
    <3>2. desc[At(j)].next
      BY <1>3, <2>4, <2>11, ReadCopyFlag
    <3>3. QED
      BY <2>9, <3>1, <3>2
  <2>12. ASSUME rpc' = "refill"
         PROVE  /\ \A k \in 0 .. (rslot' - last') - 2 : desc[At(k)].next
                /\ ~desc[At((rslot' - last') - 1)].next
    <3>1. (rslot' - last') - 2 = j - 1 /\ (rslot' - last') - 1 = j
      BY <2>3, <2>10
    <3>2. ~desc[At(j)].next
      BY <1>3, <2>4, <2>12, ReadCopyFlag
    <3>3. QED
      BY <2>9, <3>1, <3>2
  <2>13. rslot' = last' + 1 =>
           rbuf' = Take(Take(buf[At(0)], desc[At(0)].len), ReadCap)
    <3> SUFFICES ASSUME rslot' = last' + 1
                 PROVE  rbuf' = Take(Take(buf[At(0)], desc[At(0)].len), ReadCap)
      OBVIOUS
    <3>1. j = 0 /\ rslot = last
      BY <1>0, <2>1, <2>3
    <3>2. rbuf = <<>>
      BY <2>1, <3>1 DEF Reading
    <3>3. rbuf \o t = t
      BY <3>2, ConcatEmptySeq
    <3>4. QED
      BY <2>4, <2>6, <2>7, <3>1, <3>3
  <2>14. QED
    BY <2>1, <2>2, <2>8, <2>10, <2>11, <2>12, <2>13
    DEF Reading, Chain, At, Mask
<1>4. CASE ReadRelease
  <2>1. rpc' = "idle" /\ rbuf' = <<>>
    BY <1>4 DEF ReadRelease, ReadIdle
  <2>2. Len(rbuf') = 0
    BY <2>1
  <2>3. QED
    BY <1>0, <2>1, <2>2 DEF Reading
<1>5. CASE ReadRefill
  <2>1. rpc' = "reset" /\ rbuf' = rbuf
    BY <1>5 DEF ReadRefill
  <2>2. QED
    BY <2>1 DEF Reading
<1>6. CASE ReadReset
  <2>1. rpc' = "reset" /\ rbuf' = rbuf
    BY <1>6 DEF ReadReset
  <2>2. QED
    BY <2>1 DEF Reading
<1>7. CASE ReadOffer
  <2>1. rpc' = "idle" /\ rbuf' = <<>>
    BY <1>7 DEF ReadOffer, ReadIdle
  <2>2. Len(rbuf') = 0
    BY <2>1
  <2>3. QED
    BY <1>0, <2>1, <2>2 DEF Reading
<1>8. CASE Wake
  <2>1. UNCHANGED <<last, rpc, rslot, rbuf, desc, buf>>
    BY <1>8 DEF Wake, shared
  <2>2. QED
    BY <2>1 DEF Reading, Chain, At, Mask
<1>9. QED
  BY <1>1, <1>2, <1>3, <1>4, <1>5, <1>6, <1>7, <1>8 DEF ReadStep

-----------------------------------------------------------------------------
(* The refinement                                                          *)

\* The inductive invariant of the refinement.
ChannelInv == DataInv /\ Laid /\ Writing /\ Reading

\* Every step keeps it.
LEMMA ChannelNext ==
  ASSUME SizeFits, ChannelInv, [Next]_vars
  PROVE  ChannelInv'
<1>0. /\ DataInv /\ TypeInv /\ TypeOK /\ IndexInv /\ Complete /\ Whole
      /\ Laid /\ Writing /\ Reading
  BY DEF ChannelInv, DataInv, TypeInv
<1>1. DataInv'
  BY <1>0, DataNext
<1>t. Used \in Nat /\ Free \in Nat
  BY <1>0, IndexType, RingAssumption DEF Index
<1>2. CASE UNCHANGED vars
  <2>1. UNCHANGED <<head, tail, last, desc, buf, wvars, rpc, rslot, rbuf, fifo>>
    BY <1>2 DEF vars, shared, rvars, hvars
  <2>2. Used' = Used /\ Published' = Published
    BY <2>1, SameIndices
  <2>3. \A k \in 0 .. Used + Free - 1 : Carried(k, 0)
    <3> SUFFICES ASSUME NEW k \in 0 .. Used + Free - 1 PROVE Carried(k, 0)
      OBVIOUS
    <3>1. 0 + k = k
      BY <1>t
    <3>2. QED
      BY <2>1, <3>1 DEF Carried, At
  <2>4. /\ \A k \in 0 .. Used - 1 : Carried(k, 0)
        /\ 0 \in 0 .. Used /\ Used - 0 = Used
    BY <1>t, <2>3
  <2>5. Writing'
    BY <1>0, <2>1, <2>2, <2>3, <2>4, WritingCarried
  <2>6. QED
    BY <1>0, <1>1, <2>1, <2>2, <2>4, <2>5, LaidKept, ReadingKept DEF ChannelInv
<1>3. CASE WriteNoSpace \/ (\E p \in Packets : WriteBegin(p)) \/ WriteStep
  <2>1. \A k \in 0 .. Used - 1 : Carried(k, 0)
    BY <1>0, <1>3, WriteKeepsPublished
  <2>2. UNCHANGED <<last, rpc, rslot, rbuf>>
    BY <1>3
    DEF WriteNoSpace, WriteBegin, WriteStep, WriteFetch, WriteFill, WriteChain,
        WriteGiveUp, WritePut, WritePublish, WriteSignal, rvars
  <2>3. Reading'
    BY <1>0, <2>1, <2>2, ReadingKept
  <2>4. Writing'
    BY <1>0, <1>3, WritingWrite
  <2>5. Laid'
    <3>1. CASE WritePublish
      BY <1>0, <3>1, LaidPublish
    <3>2. CASE ~WritePublish
      <4>1. UNCHANGED <<head, tail, fifo>>
        BY <1>3, <3>2
        DEF WriteNoSpace, WriteBegin, WriteStep, WriteFetch, WriteFill,
            WriteChain, WriteGiveUp, WritePut, WriteSignal, shared, hvars
      <4>2. Used' = Used
        BY <2>2, <4>1, SameIndices
      <4>3. QED
        BY <1>0, <2>1, <4>1, <4>2, LaidKept
    <3>3. QED
      BY <3>1, <3>2
  <2>6. QED
    BY <1>1, <2>3, <2>4, <2>5 DEF ChannelInv
<1>4. CASE ReadBegin \/ ReadStep \/ Wake
  <2>1. Reading'
    BY <1>0, <1>4, ReadingRead
  <2>2. UNCHANGED wvars
    BY <1>4 DEF ReadBegin, ReadStep, ReadFetch, ReadCopy, ReadRelease,
                ReadRefill, ReadReset, ReadOffer, Wake
  <2>3. CASE ReadRelease \/ ReadRefill
    <3>1. PICK j \in 0 .. Used : j = rslot - last
      BY <1>0, <2>3, ConsumeMoves
    <3>2. Used' = Used - j /\ Published' = Published
      BY <1>0, <2>3, <3>1, ConsumeMoves
    <3>3. \A k \in 0 .. (Used - j) + Free - 1 : Carried(k, j)
      <4> SUFFICES ASSUME NEW k \in 0 .. (Used - j) + Free - 1
                   PROVE  Carried(k, j)
        OBVIOUS
      <4>1. k \in Nat
        BY <1>t
      <4>2. QED
        BY <1>0, <2>3, <3>1, <4>1, ConsumeCarries
    <3>4. Writing'
      BY <1>0, <2>2, <3>2, <3>3, WritingCarried
    <3>5. Laid'
      BY <1>0, <2>3, LaidConsume
    <3>6. QED
      BY <1>1, <2>1, <3>4, <3>5 DEF ChannelInv
  <2>4. CASE ~(ReadRelease \/ ReadRefill)
    <3>1. ReadBegin \/ ReadFetch \/ ReadCopy \/ ReadReset \/ ReadOffer \/ Wake
      BY <1>4, <2>4 DEF ReadStep
    <3>2. \A k \in 0 .. Used + Free - 1 : Carried(k, 0)
      BY <1>0, <3>1, ReadKeeps
    <3>3. last' = last /\ tail' = tail /\ fifo' = fifo
      BY <3>1 DEF ReadBegin, ReadFetch, ReadCopy, ReadReset, ReadOffer, Wake,
                  shared, hvars
    <3>4. head' = head \/ WriterIsServer
      BY <1>0, <3>1 DEF ReadBegin, ReadFetch, ReadCopy, ReadReset, ReadOffer,
                        Wake, shared, IndexInv
    <3>5. Used' = Used /\ Published' = Published
      BY <3>3, <3>4 DEF Used, Published
    <3>6. 0 \in 0 .. Used /\ Used - 0 = Used
      BY <1>t
    <3>7. Writing'
      BY <1>0, <2>2, <3>2, <3>5, <3>6, WritingCarried
    <3>8. \A k \in 0 .. Used - 1 : Carried(k, 0)
      BY <1>t, <3>2
    <3>9. Laid'
      BY <1>0, <3>3, <3>5, <3>8, LaidKept
    <3>10. QED
      BY <1>1, <2>1, <3>7, <3>9 DEF ChannelInv
  <2>5. QED
    BY <2>3, <2>4
<1>5. QED
  BY <1>2, <1>3, <1>4 DEF Next

\* A packet of one buffer is handed over as it was written.
LEMMA ReturnsPacket ==
  ASSUME TypeOK, NEW p \in Packets, Len(p) <= BufSize, Len(p) <= ReadCap,
         Occupies(p, 0, 1)
  PROVE  Take(Take(buf[At(0)], desc[At(0)].len), ReadCap) = p
<1>1. /\ desc[At(0)].len = Len(p)
      /\ \A i \in 1 .. Len(p) : buf[At(0)][i] = p[i]
  BY DEF Occupies
<1>2. /\ p \in Seq(Byte) /\ Len(p) \in Nat /\ BufSize \in Nat
      /\ ReadCap \in Nat /\ At(0) \in Slots
  BY DataAssumption, AtType
<1>3. PICK b \in [1 .. BufSize -> Byte] : b = buf[At(0)]
  BY <1>2 DEF TypeOK
<1>4. b \in Seq(Byte) /\ Len(b) = BufSize
  BY <1>2, <1>3
<1>5. Least(Len(p), Len(b)) = Len(p)
  BY <1>2, <1>4 DEF Least
<1>6. PICK t \in Seq(Byte) : /\ t = Take(b, Len(p))
                             /\ Len(t) = Len(p)
                             /\ \A i \in 1 .. Len(p) : t[i] = b[i]
  BY <1>2, <1>4, <1>5, TakePrefix
<1>7. t = p
  <2>1. \A i \in 1 .. Len(t) : t[i] = p[i]
    BY <1>1, <1>3, <1>6
  <2>2. QED
    BY <1>2, <1>6, <2>1, SeqEqual
<1>8. Least(ReadCap, Len(p)) = Len(p)
  BY <1>2 DEF Least
<1>9. Take(p, ReadCap) = p
  <2>1. Take(p, ReadCap) = SubSeq(p, 1, Len(p))
    BY <1>8 DEF Take
  <2>2. QED
    BY <1>2, <2>1, SubSeqFull
<1>10. QED
  BY <1>1, <1>3, <1>6, <1>7, <1>9

\* Each step is a step of the channel or leaves it unchanged.
LEMMA ChannelStep ==
  ASSUME SliceFits, ChannelInv, [Next]_vars
  PROVE  [Channel!Next]_<<fifo, delivered>>
<1>0. /\ TypeInv /\ TypeOK /\ IndexInv /\ Complete /\ Laid /\ Reading
      /\ Used \in Nat /\ last \in Nat /\ rslot \in Nat
  BY IndexType, RingAssumption DEF ChannelInv, DataInv, TypeInv, Index
<1>1. CASE WritePublish
  <2>1. /\ fifo' = Append(fifo, wpkt) /\ delivered' = delivered
        /\ wpkt \in Packets
    BY <1>0, <1>1 DEF WritePublish, TypeInv
  <2>2. QED
    BY <2>1 DEF Channel!Next, Channel!Send
<1>2. CASE (ReadRelease \/ ReadRefill) /\ rslot # last
  <2>1. Deliver /\ rpc = "refill"
    BY <1>2 DEF ReadRelease, ReadRefill
  <2>2. PICK pos \in [0 .. Len(fifo) -> 0 .. Used] :
          /\ pos[0] = 0 /\ pos[Len(fifo)] = Used
          /\ \A i, j \in 0 .. Len(fifo) : i < j => pos[i] < pos[j]
          /\ \A i \in 1 .. Len(fifo) : Occupies(fifo[i], pos[i - 1], pos[i])
    BY <1>0 DEF Laid
  <2>3. Len(fifo) >= 1 /\ Occupies(fifo[1], 0, rslot - last)
    BY <1>0, <1>2, <2>1, <2>2, OldestPacket
  <2>4. /\ fifo' = Tail(fifo) /\ delivered' = rbuf /\ fifo # <<>>
        /\ Head(fifo) = fifo[1]
    BY <1>0, <1>2, <2>1, <2>3, DeliverTail
  <2>5. rbuf \in SliceContents
    <3>1. rbuf \in Seq(Byte) /\ Len(rbuf) <= ReadCap /\ ReadCap \in Nat
      BY <1>0, DataAssumption DEF TypeOK, Reading
    <3>2. rbuf \in [1 .. Len(rbuf) -> Byte] /\ Len(rbuf) \in 0 .. ReadCap
      BY <3>1, LenProperties
    <3>3. QED
      BY <3>2 DEF SliceContents
  <2>6. Head(fifo) \in OneBufferPackets => rbuf = Head(fifo)
    <3> SUFFICES ASSUME Head(fifo) \in OneBufferPackets
                 PROVE  rbuf = Head(fifo)
      OBVIOUS
    <3>1. PICK p \in Packets : /\ p = fifo[1] /\ p = Head(fifo)
                               /\ Len(p) <= BufSize /\ Len(p) <= ReadCap
      BY <2>4 DEF OneBufferPackets, SliceFits
    <3>2. rslot - last = 1
      <4>1. rslot - last = 0 + 1
        BY <2>3, <3>1 DEF Occupies
      <4>2. QED
        BY <4>1
    <3>3. Occupies(p, 0, 1)
      BY <2>3, <3>1, <3>2
    <3>4. rslot = last + 1
      BY <1>0, <3>2
    <3>5. rbuf = Take(Take(buf[At(0)], desc[At(0)].len), ReadCap)
      BY <1>0, <1>2, <2>1, <3>4 DEF Reading
    <3>6. QED
      BY <1>0, <3>1, <3>3, <3>5, ReturnsPacket
  <2>7. Channel!Receive
    BY <2>4, <2>5, <2>6 DEF Channel!Receive
  <2>8. QED
    BY <2>7 DEF Channel!Next
<1>3. CASE (ReadRelease \/ ReadRefill) /\ rslot = last
  BY <1>3 DEF ReadRelease, ReadRefill, Deliver, hvars
<1>4. CASE ~(WritePublish \/ ReadRelease \/ ReadRefill)
  BY <1>4 DEF vars, Next, WriteNoSpace, WriteBegin, WriteStep, WriteFetch,
              WriteFill, WriteChain, WriteGiveUp, WritePut, WriteSignal,
              ReadBegin, ReadStep, ReadFetch, ReadCopy, ReadReset, ReadOffer,
              Wake, hvars
<1>5. QED
  BY <1>1, <1>2, <1>3, <1>4

\* The ring implements the packet channel, liveness aside: for every ring size
\* and every payload, packets come out of ReadPacket each once and in the order
\* in which WritePacket published them, and those of one buffer unchanged, if a
\* buffer's size fits into setDescLength's 16 bits and the packet into the
\* caller's slice.
THEOREM ImplementsChannel ==
  SizeFits /\ SliceFits =>
    (Spec => Channel!Init /\ [][Channel!Next]_<<fifo, delivered>>)
<1> SUFFICES ASSUME SizeFits, SliceFits
             PROVE  Spec => Channel!Init /\ [][Channel!Next]_<<fifo, delivered>>
  OBVIOUS
<1>1. Init => ChannelInv /\ Channel!Init
  BY DataInit, LaidInit DEF ChannelInv, Channel!Init, Init
<1>2. ChannelInv /\ [Next]_vars => ChannelInv'
  BY ChannelNext
<1>3. ChannelInv /\ [Next]_vars => [Channel!Next]_<<fifo, delivered>>
  BY ChannelStep
<1>4. QED
  BY <1>1, <1>2, <1>3, PTL DEF Spec
=============================================================================
