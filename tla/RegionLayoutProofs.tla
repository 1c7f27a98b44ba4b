------------------------- MODULE RegionLayoutProofs -------------------------
(***************************************************************************)
(* Proofs about RegionLayout for every number of queue pairs and every     *)
(* ring size that Hello admits, although descriptor blocks of later queues *)
(* are written past the ends of their rings.                               *)
(***************************************************************************)
EXTENDS RegionLayout, SequenceTheorems, TLAPS

\* Multiplication by a ring's size keeps the order of rings.
LEMMA Scale ==
  ASSUME NEW m \in Nat, NEW n \in Nat, NEW r \in Nat, m < n
  PROVE  m * r + r <= n * r
<1>1. PICK d \in Nat : n = m + 1 + d
  <2>1. n - m - 1 \in Nat /\ n = m + 1 + (n - m - 1)
    OBVIOUS
  <2>2. QED
    BY <2>1
<1>2. n * r = m * r + r + d * r
  BY <1>1
<1>3. d * r \in Nat /\ m * r \in Nat
  OBVIOUS
<1>4. QED
  BY <1>2, <1>3

-----------------------------------------------------------------------------
(* What has been written                                                   *)

\* The m-th ring of the region.
Ring(m) == IF m < cfg.pairs THEN <<"S2M", m>> ELSE <<"M2S", m - cfg.pairs>>

\* The areas that initializeQueues writes for it, where they really are.
HeaderArea(m) ==
  [kind |-> "header", ring |-> Ring(m),
   lo |-> m * RingBytes, hi |-> m * RingBytes + RingHdr]
DescArea(m) ==
  [kind |-> "desc", ring |-> Ring(m),
   lo |-> m * RingBytes + RingHdr + (Ring(m)[2] * Slots) * DescSize,
   hi |-> m * RingBytes + RingHdr + (Ring(m)[2] * Slots + Slots) * DescSize]

Area == [kind : {"header", "desc"}, ring : {"S2M", "M2S"} \X Nat,
         lo : Nat, hi : Nat]

\* How many rings have been initialised.
Done == CASE step = "region" -> 0
          [] step = "S2M"    -> qid
          [] step = "M2S"    -> cfg.pairs + qid
          [] step = "done"   -> 2 * cfg.pairs

\* The loops visit the rings in the order of their offsets.
LayoutInv ==
  /\ cfg \in Configs
  /\ step \in {"region", "S2M", "M2S", "done"}
  /\ qid \in 0 .. cfg.pairs - 1
  /\ step = "region" => qid = 0
  /\ step # "region" => pbo = PacketBufferOffset
  /\ writes \in Seq(Area)
  /\ Len(writes) = 2 * Done
  /\ \A m \in 0 .. Done - 1 : /\ writes[2 * m + 1] = HeaderArea(m)
                              /\ writes[2 * m + 2] = DescArea(m)

\* The sizes that the configuration determines.
LEMMA Sizes ==
  ASSUME cfg \in Configs
  PROVE  /\ cfg.pairs \in Nat \ {0} /\ Slots \in Nat \ {0}
         /\ RingBytes \in Nat /\ RingBytes = 128 + 16 * Slots
         /\ RingHdr = 128 /\ DescSize = 16
<1>1. cfg.pairs \in Nat \ {0} /\ cfg.log2 \in 1 .. 14
  BY ConfigAssumption
<1> DEFINE Admitted == Slots \in Nat \ {0}
<1>2. Admitted
  <2>1. \/ cfg.log2 = 1 \/ cfg.log2 = 2 \/ cfg.log2 = 3 \/ cfg.log2 = 4
        \/ cfg.log2 = 5 \/ cfg.log2 = 6 \/ cfg.log2 = 7 \/ cfg.log2 = 8
        \/ cfg.log2 = 9 \/ cfg.log2 = 10 \/ cfg.log2 = 11 \/ cfg.log2 = 12
        \/ cfg.log2 = 13 \/ cfg.log2 = 14
    BY <1>1
  <2>2. CASE cfg.log2 = 1
    BY <2>2 DEF Slots
  <2>3. CASE cfg.log2 = 2
    BY <2>3 DEF Slots
  <2>4. CASE cfg.log2 = 3
    BY <2>4 DEF Slots
  <2>5. CASE cfg.log2 = 4
    BY <2>5 DEF Slots
  <2>6. CASE cfg.log2 = 5
    BY <2>6 DEF Slots
  <2>7. CASE cfg.log2 = 6
    BY <2>7 DEF Slots
  <2>8. CASE cfg.log2 = 7
    BY <2>8 DEF Slots
  <2>9. CASE cfg.log2 = 8
    BY <2>9 DEF Slots
  <2>10. CASE cfg.log2 = 9
    BY <2>10 DEF Slots
  <2>11. CASE cfg.log2 = 10
    BY <2>11 DEF Slots
  <2>12. CASE cfg.log2 = 11
    BY <2>12 DEF Slots
  <2>13. CASE cfg.log2 = 12
    BY <2>13 DEF Slots
  <2>14. CASE cfg.log2 = 13
    BY <2>14 DEF Slots
  <2>15. CASE cfg.log2 = 14
    BY <2>15 DEF Slots
  <2> HIDE DEF Admitted
  <2>16. QED
    BY <2>1, <2>2, <2>3, <2>4, <2>5, <2>6, <2>7, <2>8, <2>9, <2>10, <2>11,
       <2>12, <2>13, <2>14, <2>15
<1>3. QED
  BY <1>1, <1>2 DEF RingBytes, RingHdr, DescSize

\* The areas of the rings are areas.
LEMMA AreaType ==
  ASSUME cfg \in Configs, NEW m \in Nat
  PROVE  HeaderArea(m) \in Area /\ DescArea(m) \in Area
<1>1. /\ cfg.pairs \in Nat /\ Slots \in Nat /\ RingBytes \in Nat
      /\ RingHdr \in Nat /\ DescSize \in Nat
  BY Sizes
<1>2. Ring(m) \in {"S2M", "M2S"} \X Nat /\ Ring(m)[2] \in Nat
  BY <1>1 DEF Ring
<1>3. PICK i \in Nat : i = Ring(m)[2]
  BY <1>2
<1>4. PICK a \in Nat : a = m * RingBytes
  BY <1>1
<1>5. PICK b \in Nat : b = (i * Slots) * DescSize
  <2>1. i * Slots \in Nat
    BY <1>1
  <2>2. QED
    BY <1>1, <2>1
<1>6. PICK c \in Nat : c = (i * Slots + Slots) * DescSize
  <2>1. i * Slots \in Nat
    BY <1>1
  <2>2. i * Slots + Slots \in Nat
    BY <1>1, <2>1
  <2>3. QED
    BY <1>1, <2>2
<1>7. /\ HeaderArea(m).lo \in Nat
      /\ a + RingHdr \in Nat /\ a + RingHdr + b \in Nat
      /\ a + RingHdr + c \in Nat
  BY <1>1, <1>4, <1>5, <1>6 DEF HeaderArea
<1>8. HeaderArea(m) = [kind |-> "header", ring |-> Ring(m), lo |-> a,
                       hi |-> a + RingHdr]
  BY <1>4 DEF HeaderArea
<1>9. DescArea(m) = [kind |-> "desc", ring |-> Ring(m), lo |-> a + RingHdr + b,
                     hi |-> a + RingHdr + c]
  BY <1>3, <1>4, <1>5, <1>6 DEF DescArea
<1>10. QED
  BY <1>2, <1>7, <1>8, <1>9 DEF Area

\* Nothing is written at first.
LEMMA LayoutInit == Init => LayoutInv
<1> SUFFICES ASSUME Init PROVE LayoutInv
  OBVIOUS
<1>1. cfg \in Configs /\ step = "region" /\ qid = 0 /\ writes = <<>>
  BY DEF Init
<1>2. Done = 0
  BY <1>1 DEF Done
<1>3. qid \in 0 .. cfg.pairs - 1
  BY <1>1, Sizes
<1>4. writes \in Seq(Area) /\ Len(writes) = 0
  BY <1>1
<1>5. Len(writes) = 2 * Done /\ 0 .. Done - 1 = {}
  BY <1>2, <1>4
<1>6. QED
  BY <1>1, <1>3, <1>4, <1>5 DEF LayoutInv

\* How many rings are initialised is a number.
LEMMA DoneType ==
  ASSUME LayoutInv
  PROVE  Done \in Nat
<1>1. qid \in Nat /\ cfg.pairs \in Nat
  BY Sizes DEF LayoutInv
<1>2. QED
  BY <1>1 DEF LayoutInv, Done

\* A round of initializeQueues writes the areas of the next ring, although it
\* counts queues and not rings.
LEMMA NextRing ==
  ASSUME LayoutInv, NEW type, NEW next, InitQueue(type, next),
         \/ type = "S2M" /\ next = "M2S"
         \/ type = "M2S" /\ next = "done"
  PROVE  /\ writes' = writes \o <<HeaderArea(Done), DescArea(Done)>>
         /\ Done' = Done + 1
<1>1. /\ qid \in Nat /\ cfg.pairs \in Nat /\ qid < cfg.pairs
      /\ RingBytes \in Nat /\ Slots \in Nat /\ RingHdr \in Nat
      /\ DescSize \in Nat
  BY Sizes DEF LayoutInv
<1>2. /\ step = type /\ cfg' = cfg
      /\ IF qid + 1 < cfg.pairs THEN qid' = qid + 1 /\ step' = step
                                ELSE qid' = 0 /\ step' = next
  BY DEF InitQueue
<1>3. PICK M \in Nat : M = Done
  BY DoneType
<1>4. M = (IF type = "S2M" THEN 0 ELSE cfg.pairs) + qid
  BY <1>1, <1>2, <1>3 DEF Done
<1>5. Done' = M + 1
  <2>1. CASE qid + 1 < cfg.pairs
    BY <1>1, <1>2, <1>4, <2>1 DEF Done
  <2>2. CASE ~(qid + 1 < cfg.pairs)
    <3>1. qid + 1 = cfg.pairs /\ qid' = 0 /\ step' = next
      BY <1>1, <1>2, <2>2
    <3>2. QED
      BY <1>1, <1>2, <1>4, <3>1 DEF Done
  <2>3. QED
    BY <2>1, <2>2
<1>6. Ring(M) = <<type, qid>> /\ Ring(M)[2] = qid
  BY <1>1, <1>4 DEF Ring
<1>7. RingOffset(type, qid) = M * RingBytes
  <2>1. CASE type = "S2M"
    BY <1>1, <1>4, <2>1 DEF RingOffset
  <2>2. CASE type # "S2M"
    <3>1. M = cfg.pairs + qid
      BY <1>4, <2>2
    <3>2. (cfg.pairs + qid) * RingBytes = cfg.pairs * RingBytes + qid * RingBytes
      BY <1>1
    <3>3. QED
      BY <2>2, <3>1, <3>2 DEF RingOffset
  <2>3. QED
    BY <2>1, <2>2
<1>8. writes' = writes \o
        << [kind |-> "header", ring |-> <<type, qid>>,
            lo |-> RingOffset(type, qid),
            hi |-> RingOffset(type, qid) + RingHdr],
           [kind |-> "desc", ring |-> <<type, qid>>,
            lo |-> RingOffset(type, qid) + RingHdr + (qid * Slots) * DescSize,
            hi |-> RingOffset(type, qid) + RingHdr
                     + (qid * Slots + Slots) * DescSize] >>
  BY DEF InitQueue, DescAddr
<1>9. writes' = writes \o <<HeaderArea(M), DescArea(M)>>
  BY <1>6, <1>7, <1>8 DEF HeaderArea, DescArea
<1>10. QED
  BY <1>3, <1>5, <1>9

\* The areas of the rings depend on the configuration only.
LEMMA SameAreas ==
  ASSUME cfg' = cfg, NEW m
  PROVE  /\ HeaderArea(m)' = HeaderArea(m) /\ DescArea(m)' = DescArea(m)
         /\ PacketBufferOffset' = PacketBufferOffset
<1>1. Slots' = Slots
  BY DEF Slots
<1>2. RingBytes' = RingBytes /\ RingHdr' = RingHdr /\ DescSize' = DescSize
  BY <1>1 DEF RingBytes, RingHdr, DescSize
<1>3. Ring(m)' = Ring(m)
  BY DEF Ring
<1>4. PacketBufferOffset' = PacketBufferOffset
  BY <1>1, <1>2 DEF PacketBufferOffset
<1>5. QED
  BY <1>1, <1>2, <1>3, <1>4 DEF HeaderArea, DescArea

\* Two areas more, behind the ones that were there.
LEMMA Appended ==
  ASSUME NEW s \in Seq(Area), NEW h \in Area, NEW d \in Area, NEW n \in Nat,
         Len(s) = 2 * n
  PROVE  /\ s \o <<h, d>> \in Seq(Area)
         /\ Len(s \o <<h, d>>) = 2 * (n + 1)
         /\ \A i \in 1 .. Len(s) : (s \o <<h, d>>)[i] = s[i]
         /\ (s \o <<h, d>>)[2 * n + 1] = h
         /\ (s \o <<h, d>>)[2 * n + 2] = d
<1>1. /\ <<h, d>> \in Seq(Area) /\ Len(<<h, d>>) = 2
      /\ <<h, d>>[1] = h /\ <<h, d>>[2] = d
  OBVIOUS
<1>2. PICK t \in Seq(Area) : t = <<h, d>>
  BY <1>1
<1>3. PICK u : u = s \o t
  OBVIOUS
<1>4. /\ u \in Seq(Area) /\ Len(u) = Len(s) + Len(t)
      /\ \A i \in 1 .. Len(s) + Len(t) :
           u[i] = IF i <= Len(s) THEN s[i] ELSE t[i - Len(s)]
  BY <1>3, ConcatProperties
<1>5. Len(t) = 2 /\ t[1] = h /\ t[2] = d
  BY <1>1, <1>2
<1>6. Len(u) = 2 * (n + 1) /\ \A i \in 1 .. Len(s) : u[i] = s[i]
  BY <1>4, <1>5
<1>7. u[2 * n + 1] = t[1] /\ u[2 * n + 2] = t[2]
  BY <1>4, <1>5
<1>8. QED
  BY <1>2, <1>3, <1>4, <1>5, <1>6, <1>7

\* Every step keeps the order: each round adds the areas of one ring.
LEMMA LayoutNext == LayoutInv /\ [Next]_vars => LayoutInv'
<1> SUFFICES ASSUME LayoutInv, [Next]_vars PROVE LayoutInv'
  OBVIOUS
<1>1. /\ cfg \in Configs /\ writes \in Seq(Area) /\ Len(writes) = 2 * Done
      /\ step # "region" => pbo = PacketBufferOffset
      /\ \A m \in 0 .. Done - 1 : /\ writes[2 * m + 1] = HeaderArea(m)
                                  /\ writes[2 * m + 2] = DescArea(m)
  BY DEF LayoutInv
<1>2. cfg' = cfg
  BY DEF Next, AddRegion, InitQueue, vars
<1>3. PICK P \in Nat : P = cfg.pairs /\ P > 0
  BY <1>1, Sizes
<1>4. cfg' \in Configs /\ cfg'.pairs = P
  BY <1>1, <1>2, <1>3
<1>5. CASE AddRegion
  <2>1. /\ step = "region" /\ step' = "S2M" /\ qid' = qid
        /\ writes' = writes /\ pbo' = PacketBufferOffset
    BY <1>5 DEF AddRegion
  <2>2. qid = 0
    BY <2>1 DEF LayoutInv
  <2>3. Done = 0 /\ Done' = 0
    BY <2>1, <2>2 DEF Done
  <2>4. Len(writes') = 2 * Done' /\ 0 .. Done' - 1 = {}
    BY <1>1, <2>1, <2>3
  <2>5. qid' \in 0 .. cfg'.pairs - 1
    BY <1>3, <1>4, <2>1, <2>2
  <2>6. pbo' = PacketBufferOffset'
    BY <1>2, <2>1, SameAreas
  <2>7. QED
    BY <1>1, <1>4, <2>1, <2>4, <2>5, <2>6 DEF LayoutInv
<1>6. ASSUME NEW type, NEW next, InitQueue(type, next),
             \/ type = "S2M" /\ next = "M2S"
             \/ type = "M2S" /\ next = "done"
      PROVE  LayoutInv'
  <2>1. PICK M \in Nat : M = Done
    BY DoneType
  <2>2. /\ writes' = writes \o <<HeaderArea(M), DescArea(M)>>
        /\ Done' = M + 1
    BY <1>6, <2>1, NextRing
  <2>3. HeaderArea(M) \in Area /\ DescArea(M) \in Area
    BY <1>1, AreaType
  <2>4. Len(writes) = 2 * M
    BY <1>1, <2>1
  <2>5. /\ writes' \in Seq(Area) /\ Len(writes') = 2 * (M + 1)
        /\ \A i \in 1 .. Len(writes) : writes'[i] = writes[i]
        /\ writes'[2 * M + 1] = HeaderArea(M)
        /\ writes'[2 * M + 2] = DescArea(M)
    <3>1. PICK h \in Area, d \in Area : h = HeaderArea(M) /\ d = DescArea(M)
      BY <2>3
    <3>2. PICK s \in Seq(Area) : s = writes
      BY <1>1
    <3>3. /\ s \o <<h, d>> \in Seq(Area)
          /\ Len(s \o <<h, d>>) = 2 * (M + 1)
          /\ \A i \in 1 .. Len(s) : (s \o <<h, d>>)[i] = s[i]
          /\ (s \o <<h, d>>)[2 * M + 1] = h
          /\ (s \o <<h, d>>)[2 * M + 2] = d
      BY <2>4, <3>2, Appended
    <3>4. writes' = s \o <<h, d>>
      BY <2>2, <3>1, <3>2
    <3>5. QED
      BY <3>1, <3>2, <3>3, <3>4
  <2>6. ASSUME NEW m \in 0 .. M
        PROVE  /\ writes'[2 * m + 1] = HeaderArea(m)'
               /\ writes'[2 * m + 2] = DescArea(m)'
    <3>1. HeaderArea(m)' = HeaderArea(m) /\ DescArea(m)' = DescArea(m)
      BY <1>2, SameAreas
    <3>2. CASE m = M
      BY <2>5, <3>1, <3>2
    <3>3. CASE m < M
      <4>1. /\ m \in 0 .. Done - 1
            /\ 2 * m + 1 \in 1 .. Len(writes) /\ 2 * m + 2 \in 1 .. Len(writes)
        BY <2>1, <2>4, <3>3
      <4>2. writes[2 * m + 1] = HeaderArea(m) /\ writes[2 * m + 2] = DescArea(m)
        BY <1>1, <4>1
      <4>3. writes'[2 * m + 1] = writes[2 * m + 1]
            /\ writes'[2 * m + 2] = writes[2 * m + 2]
        BY <2>5, <4>1
      <4>4. QED
        BY <3>1, <4>2, <4>3
    <3>4. QED
      BY <3>2, <3>3
  <2>7. 0 .. Done' - 1 = 0 .. M /\ Len(writes') = 2 * Done'
    BY <2>2, <2>5
  <2>8. \A m \in 0 .. Done' - 1 : /\ writes'[2 * m + 1] = HeaderArea(m)'
                                  /\ writes'[2 * m + 2] = DescArea(m)'
    BY <2>6, <2>7
  <2>9. step = type /\ qid \in Nat /\ qid < P
    BY <1>3, <1>6 DEF LayoutInv, InitQueue
  <2>10. IF qid + 1 < P THEN qid' = qid + 1 /\ step' = step
                        ELSE qid' = 0 /\ step' = next
    BY <1>3, <1>6 DEF InitQueue
  <2>11. /\ qid' \in 0 .. cfg'.pairs - 1
         /\ step' \in {"region", "S2M", "M2S", "done"} /\ step' # "region"
    BY <1>3, <1>4, <1>6, <2>9, <2>10
  <2>12. pbo' = PacketBufferOffset'
    <3>1. pbo' = pbo /\ step # "region"
      BY <1>6, <2>9 DEF InitQueue
    <3>2. QED
      BY <1>1, <1>2, <3>1, SameAreas
  <2>13. QED
    BY <1>4, <2>5, <2>7, <2>8, <2>11, <2>12 DEF LayoutInv
<1>7. CASE UNCHANGED vars
  <2>1. /\ cfg' = cfg /\ pbo' = pbo /\ step' = step /\ qid' = qid
        /\ writes' = writes
    BY <1>7 DEF vars
  <2>2. Done' = Done
    BY <2>1 DEF Done
  <2>3. PacketBufferOffset' = PacketBufferOffset
    BY <2>1, SameAreas
  <2>4. \A m \in 0 .. Done - 1 :
          HeaderArea(m)' = HeaderArea(m) /\ DescArea(m)' = DescArea(m)
    BY <2>1, SameAreas
  <2>5. QED
    BY <2>1, <2>2, <2>3, <2>4 DEF LayoutInv
<1>8. QED
  BY <1>5, <1>6, <1>7 DEF Next

\* The rings are written in the order of their offsets, in every state.
LEMMA LayoutCorrect == Spec => []LayoutInv
<1>1. QED
  BY LayoutInit, LayoutNext, PTL DEF Spec

-----------------------------------------------------------------------------
(* The finished region                                                     *)

\* What a finished region consists of: two areas for each ring.
LEMMA Finished ==
  ASSUME LayoutInv, step = "done"
  PROVE  /\ cfg \in Configs /\ cfg.pairs \in Nat \ {0}
         /\ DOMAIN writes = 1 .. 2 * (2 * cfg.pairs)
         /\ \A m \in 0 .. 2 * cfg.pairs - 1 :
              writes[2 * m + 1] = HeaderArea(m) /\ writes[2 * m + 2] = DescArea(m)
<1>1. cfg \in Configs /\ cfg.pairs \in Nat \ {0}
  BY Sizes DEF LayoutInv
<1>2. PICK D \in Nat : D = Done /\ D = 2 * cfg.pairs
  BY <1>1 DEF Done
<1>3. /\ writes \in Seq(Area) /\ Len(writes) = 2 * D
      /\ \A m \in 0 .. D - 1 :
           writes[2 * m + 1] = HeaderArea(m) /\ writes[2 * m + 2] = DescArea(m)
  BY <1>2 DEF LayoutInv
<1>4. DOMAIN writes = 1 .. 2 * D
  BY <1>3
<1>5. QED
  BY <1>1, <1>2, <1>3, <1>4

\* Where the two areas of a ring start and which ring they are of.
LEMMA AreaStart ==
  ASSUME cfg \in Configs, NEW k \in Nat
  PROVE  /\ k * RingBytes \in Nat
         /\ HeaderArea(k).lo = k * RingBytes
         /\ HeaderArea(k).hi = k * RingBytes + 128
         /\ HeaderArea(k).kind = "header" /\ HeaderArea(k).ring = Ring(k)
         /\ DescArea(k).lo \in Nat /\ DescArea(k).lo >= k * RingBytes + 128
         /\ DescArea(k).kind = "desc" /\ DescArea(k).ring = Ring(k)
<1>1. /\ cfg.pairs \in Nat /\ Slots \in Nat /\ RingBytes \in Nat
      /\ RingHdr = 128 /\ DescSize = 16
  BY Sizes
<1>2. PICK a \in Nat : a = k * RingBytes
  BY <1>1
<1>3. PICK i \in Nat : i = Ring(k)[2]
  BY <1>1 DEF Ring
<1>4. PICK b \in Nat : b = (i * Slots) * DescSize
  <2>1. i * Slots \in Nat
    BY <1>1
  <2>2. QED
    BY <1>1, <2>1
<1>5. DescArea(k).lo = a + RingHdr + b
  BY <1>2, <1>3, <1>4 DEF DescArea
<1>6. a + RingHdr + b \in Nat /\ a + RingHdr + b >= a + 128
  BY <1>1
<1>7. /\ HeaderArea(k).lo = k * RingBytes /\ HeaderArea(k).kind = "header"
      /\ HeaderArea(k).ring = Ring(k)
      /\ DescArea(k).kind = "desc" /\ DescArea(k).ring = Ring(k)
  BY DEF HeaderArea, DescArea
<1>8. HeaderArea(k).hi = k * RingBytes + 128
  BY <1>1 DEF HeaderArea
<1>9. QED
  BY <1>2, <1>5, <1>6, <1>7, <1>8

\* An area written later than a ring's header starts behind that header; one
\* written later than its descriptors starts behind the ring.
LEMMA LaterStartsBehind ==
  ASSUME LayoutInv, step = "done", NEW m \in Nat, NEW j \in DOMAIN writes,
         j > 2 * m + 1
  PROVE  /\ writes[j].lo \in Nat /\ writes[j].lo >= m * RingBytes + 128
         /\ j > 2 * m + 2 => writes[j].lo >= m * RingBytes + RingBytes
<1>1. PICK P \in Nat : P = cfg.pairs
  BY Finished
<1>2. /\ cfg \in Configs /\ j \in 1 .. 2 * (2 * P)
      /\ \A k \in 0 .. 2 * P - 1 :
           writes[2 * k + 1] = HeaderArea(k) /\ writes[2 * k + 2] = DescArea(k)
  BY <1>1, Finished
<1>3. PICK k \in 0 .. 2 * P - 1 : j = 2 * k + 1 \/ j = 2 * k + 2
  <2>1. CASE j % 2 = 1
    <3>1. (j - 1) \div 2 \in 0 .. 2 * P - 1 /\ j = 2 * ((j - 1) \div 2) + 1
      BY <1>2, <2>1
    <3>2. QED
      BY <3>1
  <2>2. CASE j % 2 = 0
    <3>1. PICK h \in 1 .. 2 * P : j = 2 * h
      <4>1. j \div 2 \in 1 .. 2 * P /\ j = 2 * (j \div 2)
        BY <1>2, <2>2
      <4>2. QED
        BY <4>1
    <3>2. h - 1 \in 0 .. 2 * P - 1 /\ j = 2 * (h - 1) + 2
      BY <3>1
    <3>3. QED
      BY <3>2
  <2>3. QED
    BY <1>2, <2>1, <2>2
<1>4. PICK R \in Nat : R = RingBytes /\ R > 128
  BY <1>2, Sizes
<1>5. PICK a \in Nat : a = m * R
  BY <1>4
<1>6. PICK b \in Nat : b = k * R
  BY <1>4
<1>7. /\ HeaderArea(k).lo = b /\ DescArea(k).lo \in Nat
      /\ DescArea(k).lo >= b + 128
  BY <1>2, <1>4, <1>6, AreaStart
<1>8. writes[2 * k + 1].lo = b /\ writes[2 * k + 2].lo \in Nat
      /\ writes[2 * k + 2].lo >= b + 128
  BY <1>2, <1>7
<1>9. CASE m < k
  <2>1. a + R <= b
    BY <1>4, <1>5, <1>6, <1>9, Scale
  <2>2. writes[j].lo \in Nat /\ writes[j].lo >= b
    BY <1>3, <1>8
  <2>3. QED
    BY <1>4, <1>5, <2>1, <2>2
<1>10. CASE ~(m < k)
  <2>1. m = k /\ j = 2 * k + 2
    BY <1>3, <1>10
  <2>2. a = b
    BY <1>5, <1>6, <2>1
  <2>3. writes[j].lo \in Nat /\ writes[j].lo >= a + 128 /\ ~(j > 2 * m + 2)
    BY <1>8, <2>1, <2>2
  <2>4. QED
    BY <1>4, <1>5, <2>3
<1>11. QED
  BY <1>9, <1>10

\* Every queue has a ring, and newRing's offset is that ring's.
LEMMA RingOf ==
  ASSUME cfg \in Configs, NEW q \in Queues
  PROVE  \E m \in 0 .. 2 * cfg.pairs - 1 :
            /\ Ring(m) = q /\ RingOffset(q[1], q[2]) = m * RingBytes
            /\ q[2] = Ring(m)[2]
<1>1. PICK P \in Nat : P = cfg.pairs
  BY Sizes
<1>2. PICK type \in {"S2M", "M2S"}, i \in 0 .. P - 1 : q = <<type, i>>
  BY <1>1 DEF Queues
<1>3. PICK m \in 0 .. 2 * P - 1 : m = (IF type = "S2M" THEN 0 ELSE P) + i
  BY <1>2
<1>4. Ring(m) = q /\ q[1] = type /\ q[2] = i
  BY <1>1, <1>2, <1>3 DEF Ring
<1>5. RingBytes \in Nat
  BY Sizes
<1>6. RingOffset(type, i) = m * RingBytes
  <2>1. CASE type = "S2M"
    BY <1>3, <1>5, <2>1 DEF RingOffset
  <2>2. CASE type # "S2M"
    <3>1. (P + i) * RingBytes = P * RingBytes + i * RingBytes /\ m = P + i
      BY <1>3, <1>5, <2>2
    <3>2. QED
      BY <1>1, <2>2, <3>1 DEF RingOffset
  <2>3. QED
    BY <2>1, <2>2
<1>7. QED
  BY <1>1, <1>3, <1>4, <1>6

\* A byte holds what its area holds if nothing written later covers it.
LEMMA LastWriter ==
  ASSUME NEW a \in Nat, NEW i \in DOMAIN writes, writes \in Seq(Area),
         writes[i].lo <= a, a < writes[i].hi,
         \A j \in DOMAIN writes : j > i => writes[j].lo > a,
         NEW kind, NEW ring, writes[i].kind = kind, writes[i].ring = ring
  PROVE  Holds(a, kind, ring)
<1>1. DOMAIN writes \subseteq Nat
  OBVIOUS
<1>2. i \in WrittenBy(a)
  BY DEF WrittenBy
<1>3. ASSUME NEW j \in WrittenBy(a) PROVE j <= i
  <2>1. j \in DOMAIN writes /\ writes[j].lo <= a
    BY DEF WrittenBy
  <2>2. writes[j].lo \in Nat
    <3>1. writes[j] \in Area
      BY <2>1
    <3>2. QED
      BY <3>1 DEF Area
  <2>3. ~(j > i)
    BY <2>1, <2>2
  <2>4. QED
    BY <1>1, <2>1, <2>3
<1>4. QED
  BY <1>2, <1>3 DEF Holds

\* Every ring of the finished region still has all of the header putRing wrote,
\* for every number of queues: later blocks start behind it.
LEMMA HeaderStays ==
  ASSUME LayoutInv, step = "done", NEW q \in Queues, NEW b \in 0 .. 127
  PROVE  Holds(RingOffset(q[1], q[2]) + b, "header", q)
<1>1. PICK P \in Nat : P = cfg.pairs
  BY Finished
<1>2. /\ cfg \in Configs /\ DOMAIN writes = 1 .. 2 * (2 * P)
      /\ \A k \in 0 .. 2 * P - 1 : writes[2 * k + 1] = HeaderArea(k)
  BY <1>1, Finished
<1>3. PICK m \in 0 .. 2 * P - 1 :
        Ring(m) = q /\ RingOffset(q[1], q[2]) = m * RingBytes
  BY <1>1, <1>2, RingOf
<1>4. PICK a \in Nat : a = m * RingBytes
  BY <1>2, AreaStart
<1>5. PICK i \in DOMAIN writes : i = 2 * m + 1
  BY <1>2
<1>6. writes[i] = HeaderArea(m)
  BY <1>2, <1>5
<1>7. /\ writes[i].lo = a /\ writes[i].hi = a + 128
      /\ writes[i].kind = "header" /\ writes[i].ring = q
  <2>1. m \in Nat
    OBVIOUS
  <2>2. /\ HeaderArea(m).lo = m * RingBytes
        /\ HeaderArea(m).hi = m * RingBytes + 128
        /\ HeaderArea(m).kind = "header" /\ HeaderArea(m).ring = Ring(m)
    BY <1>2, <2>1, AreaStart
  <2>3. QED
    BY <1>3, <1>4, <1>6, <2>2
<1>8. \A j \in DOMAIN writes : j > i => writes[j].lo > a + b
  <2>1. \A j \in DOMAIN writes : j > i => writes[j].lo \in Nat /\ writes[j].lo >= a + 128
    BY <1>4, <1>5, LaterStartsBehind
  <2>2. QED
    BY <2>1
<1>9. a + b \in Nat /\ writes[i].lo <= a + b /\ a + b < writes[i].hi
  BY <1>7
<1>10. writes \in Seq(Area)
  BY DEF LayoutInv
<1>11. Holds(a + b, "header", q)
  BY <1>7, <1>8, <1>9, <1>10, LastWriter
<1>12. QED
  BY <1>3, <1>4, <1>11

\* The descriptors of a queue with index 0 are where getDescBuf looks for them.
LEMMA DescriptorsStay ==
  ASSUME LayoutInv, step = "done", NEW q \in Queues, q[2] = 0
  PROVE  InPlace(q)
<1>1. PICK P \in Nat : P = cfg.pairs
  BY Finished
<1>2. /\ cfg \in Configs /\ DOMAIN writes = 1 .. 2 * (2 * P)
      /\ \A k \in 0 .. 2 * P - 1 : writes[2 * k + 2] = DescArea(k)
  BY <1>1, Finished
<1>3. PICK m \in 0 .. 2 * P - 1 :
        /\ Ring(m) = q /\ RingOffset(q[1], q[2]) = m * RingBytes
        /\ Ring(m)[2] = 0
  BY <1>1, <1>2, RingOf
<1>4. PICK b \in Nat : b = m * RingBytes
  BY <1>2, AreaStart
<1>5. PICK S \in Nat : S = Slots /\ RingBytes = 128 + 16 * S
  BY <1>2, Sizes
<1>6. RingHdr = 128 /\ DescSize = 16
  BY DEF RingHdr, DescSize
<1>7. PICK i \in DOMAIN writes : i = 2 * m + 2
  BY <1>2
<1>8. writes[i] = DescArea(m)
  BY <1>2, <1>7
<1>9. writes[i].kind = "desc" /\ writes[i].ring = q
  <2>1. m \in Nat
    OBVIOUS
  <2>2. DescArea(m).kind = "desc" /\ DescArea(m).ring = Ring(m)
    BY <1>2, <2>1, AreaStart
  <2>3. QED
    BY <1>3, <1>8, <2>2
<1>10. writes[i].lo = b + 128 /\ writes[i].hi = b + 128 + S * 16
  <2>1. /\ writes[i].lo = b + 128 + (0 * S) * 16
        /\ writes[i].hi = b + 128 + (0 * S + S) * 16
    BY <1>3, <1>4, <1>5, <1>6, <1>8 DEF DescArea
  <2>2. QED
    BY <2>1
<1>11. ASSUME NEW s \in 0 .. Slots - 1
       PROVE  Holds(DescAddr(q[1], q[2], s), "desc", q)
  <2>1. s \in Nat /\ s < S
    BY <1>5
  <2>2. PICK a \in Nat : a = b + 128 + s * 16
    BY <2>1
  <2>3. DescAddr(q[1], q[2], s) = a
    BY <1>3, <1>4, <1>6, <2>2 DEF DescAddr
  <2>4. writes[i].lo <= a /\ a < writes[i].hi
    BY <1>10, <2>1, <2>2
  <2>5. ASSUME NEW j \in DOMAIN writes, j > i
        PROVE  writes[j].lo > a
    <3>1. j > 2 * m + 1 /\ j > 2 * m + 2
      BY <1>2, <1>7, <2>5
    <3>2. writes[j].lo \in Nat /\ writes[j].lo >= m * RingBytes + RingBytes
      BY <3>1, LaterStartsBehind
    <3>3. writes[j].lo >= b + (128 + 16 * S)
      BY <1>4, <1>5, <3>2
    <3>4. QED
      BY <2>1, <2>2, <3>2, <3>3
  <2>6. writes \in Seq(Area)
    BY DEF LayoutInv
  <2>7. Holds(a, "desc", q)
    BY <1>9, <2>4, <2>5, <2>6, LastWriter
  <2>8. QED
    BY <2>3, <2>7
<1>12. QED
  BY <1>11 DEF InPlace

\* addRegion's offset is the end of the last ring when that fits 16 bits, and
\* less than 2^16 in any case.
LEMMA Offset ==
  ASSUME cfg \in Configs
  PROVE  /\ PacketBufferOffset \in Nat /\ PacketBufferOffset < 65536
         /\ 2 * cfg.pairs * RingBytes < 65536
              => PacketBufferOffset = 2 * cfg.pairs * RingBytes
<1>1. PICK P \in Nat : P = cfg.pairs /\ P > 0
  BY Sizes
<1>2. PICK S \in Nat : S = Slots
  BY Sizes
<1>3. PICK R \in Nat : R = RingBytes /\ R = 128 + 16 * S
  BY <1>2, Sizes
<1>4. PICK r \in Nat : r = (128 + 16 * (S % 65536)) % 65536
  <2>1. S % 65536 \in Nat
    OBVIOUS
  <2>2. (128 + 16 * (S % 65536)) % 65536 \in Nat
    BY <2>1
  <2>3. QED
    BY <2>2
<1>5. PICK t \in Nat : t = (P + P) * r
  BY <1>4
<1>6. PacketBufferOffset = t % 65536
  BY <1>1, <1>2, <1>4, <1>5 DEF PacketBufferOffset, Uint16, RingHdr, DescSize
<1>7. t % 65536 \in Nat /\ t % 65536 < 65536
  BY <1>5
<1>8. ASSUME 2 * P * R < 65536 PROVE PacketBufferOffset = 2 * P * R
  <2>1. R + R <= 2 * P * R
    <3>1. PICK d \in Nat : P = d + 1
      <4>1. P - 1 \in Nat /\ P = (P - 1) + 1
        BY <1>1
      <4>2. QED
        BY <4>1
    <3>2. 2 * P * R = 2 * (d * R) + 2 * R /\ d * R \in Nat
      BY <1>3, <3>1
    <3>3. QED
      BY <1>3, <3>2
  <2>2. 2 * P * R \in Nat
    BY <1>3
  <2>3. R < 65536 /\ S < 65536
    BY <1>3, <1>8, <2>1, <2>2
  <2>4. r = R
    <3>1. S % 65536 = S
      BY <2>3
    <3>2. R % 65536 = R
      BY <1>3, <2>3
    <3>3. QED
      BY <1>3, <1>4, <3>1, <3>2
  <2>5. t = 2 * P * R
    BY <1>3, <1>5, <2>4
  <2>6. QED
    BY <1>6, <1>8, <2>2, <2>5
<1>9. QED
  BY <1>1, <1>3, <1>6, <1>7, <1>8

\* The rings of the finished region end at or before the offset exactly when
\* all of them need less than 2^16 bytes.
LEMMA EndOfRings ==
  ASSUME LayoutInv, step = "done"
  PROVE  (\A q \in Queues : RingOffset(q[1], q[2]) + RingBytes <= pbo)
           <=> 2 * cfg.pairs * RingBytes < 65536
<1>1. cfg \in Configs /\ pbo = PacketBufferOffset
  BY DEF LayoutInv
<1>2. PICK P \in Nat : P = cfg.pairs /\ P > 0
  BY <1>1, Sizes
<1>3. PICK R \in Nat : R = RingBytes
  BY <1>1, Sizes
<1>4. /\ pbo \in Nat /\ pbo < 65536
      /\ 2 * P * R < 65536 => pbo = 2 * P * R
  BY <1>1, <1>2, <1>3, Offset
<1>5. ASSUME \A q \in Queues : RingOffset(q[1], q[2]) + RingBytes <= pbo
      PROVE  2 * P * R < 65536
  <2>1. PICK i \in 0 .. P - 1 : i = P - 1
    BY <1>2
  <2>2. <<"M2S", i>> \in Queues
    BY <1>2 DEF Queues
  <2>3. RingOffset("M2S", i) + R <= pbo
    BY <1>3, <1>5, <2>2
  <2>4. RingOffset("M2S", i) = P * R + i * R
    BY <1>2, <1>3 DEF RingOffset
  <2>5. P * R + i * R + R = 2 * P * R
    <3>1. P = i + 1
      BY <1>2, <2>1
    <3>2. P * R = i * R + R
      BY <1>3, <3>1
    <3>3. 2 * P * R = P * R + P * R
      BY <1>3
    <3>4. P * R \in Nat /\ i * R \in Nat
      BY <1>3
    <3>5. QED
      BY <1>3, <3>2, <3>3, <3>4
  <2>6. QED
    BY <1>4, <2>3, <2>4, <2>5
<1>6. ASSUME 2 * P * R < 65536, NEW q \in Queues
      PROVE  RingOffset(q[1], q[2]) + RingBytes <= pbo
  <2>1. PICK m \in 0 .. 2 * P - 1 : RingOffset(q[1], q[2]) = m * R
    BY <1>1, <1>2, <1>3, RingOf
  <2>2. PICK n \in Nat : n = 2 * P
    OBVIOUS
  <2>3. m * R + R <= n * R
    BY <1>3, <2>2, Scale
  <2>4. pbo = n * R
    BY <1>4, <1>6, <2>2
  <2>5. QED
    BY <1>3, <2>1, <2>3, <2>4
<1>7. QED
  BY <1>2, <1>3, <1>5, <1>6

-----------------------------------------------------------------------------
(* Theorems                                                                *)

\* Every ring still has its whole header once initializeQueues has finished, for any
\* number of queue pairs: the rings are visited in the order of their offsets,
\* so the blocks written past a ring's end are written before the headers that
\* they hit.
THEOREM HeadersSurvive == Spec => []HeadersIntact
<1>1. LayoutInv => HeadersIntact
  BY HeaderStays DEF HeadersIntact, RingHdr
<1>2. QED
  BY <1>1, LayoutCorrect, PTL

\* The descriptors of the first queue pair are where the data path fetches them
\* once initializeQueues has finished, for any number of queue pairs.
THEOREM FirstPairUsable == Spec => []FirstPairInPlace
<1>1. ASSUME LayoutInv PROVE FirstPairInPlace
  <2>1. SUFFICES ASSUME step = "done"
                 PROVE  InPlace(<<"S2M", 0>>) /\ InPlace(<<"M2S", 0>>)
    BY DEF FirstPairInPlace
  <2>2. cfg.pairs \in Nat \ {0}
    BY <1>1, <2>1, Finished
  <2>3. <<"S2M", 0>> \in Queues /\ <<"M2S", 0>> \in Queues
    BY <2>2 DEF Queues
  <2>4. QED
    BY <1>1, <2>1, <2>3, DescriptorsStay
<1>2. QED
  BY <1>1, LayoutCorrect, PTL

\* The packet buffers that addRegion places start behind the last ring exactly
\* when all rings together need less than 2^16 bytes, for any configuration.
THEOREM BuffersPlaced == Spec => []BuffersBehindRings
<1>1. LayoutInv => BuffersBehindRings
  BY EndOfRings DEF BuffersBehindRings
<1>2. QED
  BY <1>1, LayoutCorrect, PTL
=============================================================================
