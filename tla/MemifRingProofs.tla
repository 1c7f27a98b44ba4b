-------------------------- MODULE MemifRingProofs --------------------------
(***************************************************************************)
(* Proofs about MemifRing for every ring size, index width, buffer size    *)
(* and payload set: type correctness, and absence of data races on the     *)
(* descriptors and packet buffers.                                         *)
(***************************************************************************)
EXTENDS MemifRing, SequenceTheorems, TLAPS

-----------------------------------------------------------------------------
(* Arithmetic modulo a power of two                                        *)

\* Quotient and remainder.
LEMMA DivMod ==
  ASSUME NEW S \in Nat \ {0}, NEW x \in Int
  PROVE  /\ x % S \in 0 .. S - 1
         /\ x \div S \in Int
         /\ x = S * (x \div S) + (x % S)
OBVIOUS

\* A remainder is determined by the number.
LEMMA RemainderOf ==
  ASSUME NEW S \in Nat \ {0}, NEW q \in Int, NEW r \in 0 .. S - 1
  PROVE  (S * q + r) % S = r
OBVIOUS

\* Two positions less than a ring apart fall into different slots.
LEMMA DistinctSlots ==
  ASSUME NEW S \in Nat \ {0}, NEW x \in Int, NEW y \in Int,
         x - y > 0, x - y < S
  PROVE  x % S # y % S
<1>1. SUFFICES ASSUME x % S = y % S PROVE FALSE
  OBVIOUS
<1> DEFINE qx == x \div S
           qy == y \div S
           r  == x % S
<1>2. qx \in Int /\ qy \in Int /\ r \in Int /\ x = S * qx + r /\ y = S * qy + r
  BY <1>1, DivMod
<1> HIDE DEF qx, qy, r
<1>3. x - y = S * qx - S * qy
  BY <1>2
<1>4. S * qx - S * qy = S * (qx - qy)
  BY <1>2
<1>5. CASE qx - qy <= 0
  <2>1. S * (qx - qy) <= 0
    BY <1>2, <1>5
  <2>2. QED
    BY <2>1, <1>3, <1>4
<1>6. CASE qx - qy >= 1
  <2>1. S * (qx - qy) >= S
    BY <1>2, <1>6
  <2>2. QED
    BY <2>1, <1>3, <1>4
<1>7. QED
  BY <1>2, <1>5, <1>6

\* The wrap of an index does not change the slot it denotes, because the ring
\* size divides 2^16.
LEMMA MaskWrap ==
  ASSUME NEW x \in Int
  PROVE  Mask(x - IndexMod) = Mask(x)
<1>1. PICK c \in 1 .. IndexMod : IndexMod = c * RingSize
  BY RingAssumption
<1>2. RingSize \in Nat \ {0} /\ c \in Int
  BY <1>1, RingAssumption
<1> DEFINE q == x \div RingSize
           r == x % RingSize
<1>3. q \in Int /\ r \in 0 .. RingSize - 1 /\ x = RingSize * q + r
  BY <1>2, DivMod
<1> HIDE DEF q
<1>4. x - IndexMod = RingSize * (q - c) + r
  <2>1. RingSize * (q - c) = RingSize * q - RingSize * c
    BY <1>2, <1>3
  <2>2. QED
    BY <1>1, <1>2, <1>3, <2>1
<1>5. q - c \in Int
  BY <1>2, <1>3
<1> HIDE DEF r
<1>6. (RingSize * (q - c) + r) % RingSize = r
  BY <1>2, <1>3, <1>5, RemainderOf
<1>7. QED
  BY <1>4, <1>6 DEF Mask, r

Index == 0 .. IndexMod - 1

\* The slots from one index to another, as the code's uint16 subtraction counts.
LEMMA Distance ==
  ASSUME NEW a \in Index, NEW b \in Index
  PROVE  /\ Trunc(a - b) \in Index
         /\ Trunc(a - b) = IF a >= b THEN a - b ELSE a - b + IndexMod
BY RingAssumption DEF Trunc, Index

\* Truncation after moving an index forward by less than 2^16.
LEMMA Forward ==
  ASSUME NEW a \in Index, NEW k \in 0 .. IndexMod - 1
  PROVE  /\ Trunc(a + k) \in Index
         /\ Trunc(a + k) = IF a + k < IndexMod THEN a + k ELSE a + k - IndexMod
BY RingAssumption DEF Trunc, Index

\* Moving the upper index forward lengthens the distance.
LEMMA Advance ==
  ASSUME NEW a \in Index, NEW b \in Index, NEW k \in Nat,
         Trunc(a - b) + k <= RingSize
  PROVE  /\ Trunc(a + k) \in Index
         /\ Trunc(Trunc(a + k) - b) = Trunc(a - b) + k
<1> DEFINE d == Trunc(a - b)
           c == Trunc(a + k)
<1>1. d \in Index /\ d = IF a >= b THEN a - b ELSE a - b + IndexMod
  BY Distance
<1>2. k \in 0 .. IndexMod - 1
  BY <1>1, RingAssumption DEF Index
<1>3. c \in Index /\ c = IF a + k < IndexMod THEN a + k ELSE a + k - IndexMod
  BY <1>2, Forward
<1>4. Trunc(c - b) = IF c >= b THEN c - b ELSE c - b + IndexMod
  BY <1>3, Distance
<1>5. d + k <= RingSize
  OBVIOUS
<1> HIDE DEF d, c
<1>6. Trunc(c - b) = d + k
  BY <1>1, <1>3, <1>4, <1>5, RingAssumption DEF Index
<1>7. QED
  BY <1>3, <1>6 DEF d, c

\* Moving the lower index forward shortens it.
LEMMA Retreat ==
  ASSUME NEW a \in Index, NEW b \in Index, NEW k \in Nat,
         k <= Trunc(a - b)
  PROVE  /\ Trunc(b + k) \in Index
         /\ Trunc(a - Trunc(b + k)) = Trunc(a - b) - k
<1> DEFINE d == Trunc(a - b)
           c == Trunc(b + k)
<1>1. d \in Index /\ d = IF a >= b THEN a - b ELSE a - b + IndexMod
  BY Distance
<1>2. k \in 0 .. IndexMod - 1
  BY <1>1, RingAssumption DEF Index
<1>3. c \in Index /\ c = IF b + k < IndexMod THEN b + k ELSE b + k - IndexMod
  BY <1>2, Forward
<1>4. Trunc(a - c) = IF a >= c THEN a - c ELSE a - c + IndexMod
  BY <1>3, Distance
<1>5. k <= d
  OBVIOUS
<1> HIDE DEF d, c
<1>6. Trunc(a - c) = d - k
  BY <1>1, <1>3, <1>4, <1>5, RingAssumption DEF Index
<1>7. QED
  BY <1>3, <1>6 DEF d, c

\* Consecutive distances add up as long as they stay within a ring.
LEMMA Adjoin ==
  ASSUME NEW a \in Index, NEW b \in Index, NEW c \in Index,
         Trunc(a - b) + Trunc(b - c) <= RingSize
  PROVE  Trunc(a - c) = Trunc(a - b) + Trunc(b - c)
<1>1. Trunc(a - b) = IF a >= b THEN a - b ELSE a - b + IndexMod
  BY Distance
<1>2. Trunc(b - c) = IF b >= c THEN b - c ELSE b - c + IndexMod
  BY Distance
<1>3. Trunc(a - c) = IF a >= c THEN a - c ELSE a - c + IndexMod
  BY Distance
<1>4. QED
  BY <1>1, <1>2, <1>3, RingAssumption DEF Index

\* uint16(size - a + b), the count of slots not between b and a.
LEMMA Complement ==
  ASSUME NEW a \in Index, NEW b \in Index, Trunc(a - b) <= RingSize
  PROVE  Trunc(RingSize - a + b) = RingSize - Trunc(a - b)
<1>1. CASE a >= b
  <2>1. Trunc(a - b) = a - b
    BY <1>1, Distance
  <2>2. RingSize - a + b \in Index
    BY <1>1, <2>1, RingAssumption DEF Index
  <2>3. QED
    BY <2>1, <2>2, RingAssumption DEF Trunc, Index
<1>2. CASE a < b
  <2>1. Trunc(a - b) = a - b + IndexMod
    BY <1>2, Distance DEF Index
  <2>2. RingSize - a + b - IndexMod \in Index
    BY <1>2, <2>1, RingAssumption DEF Index
  <2>3. QED
    BY <2>1, <2>2, RingAssumption DEF Trunc, Index
<1>3. QED
  BY <1>1, <1>2 DEF Index

-----------------------------------------------------------------------------
(* Type correctness                                                        *)

\* setDescLength's result is a length.
LEMMA ResetLen ==
  ASSUME NEW n \in Nat
  PROVE  SetDescLength(n) \in Nat
<1>1. n % LenMod \in Nat /\ n % LenMod <= n
  BY DataAssumption
<1>2. BufSize % LenMod \in Nat
  BY DataAssumption
<1>3. QED
  BY <1>1, <1>2 DEF SetDescLength

\* Slot numbers stay inside the descriptor table.
LEMMA MaskType ==
  ASSUME NEW x \in Int
  PROVE  Mask(x) \in Slots
BY RingAssumption DEF Mask, Slots

\* What ReadPacket stores in the caller's slice is a byte string.
LEMMA TakeType ==
  ASSUME NEW s \in Seq(Byte), NEW n \in Nat
  PROVE  Take(s, n) \in Seq(Byte)
<1>1. Least(n, Len(s)) \in 0 .. Len(s)
  BY DEF Least
<1>2. QED
  BY <1>1, SubSeqProperties DEF Take

\* A running WritePacket has a packet, and ReadPacket only touches a slot when it
\* has one left.
TypeInv ==
  /\ TypeOK
  /\ wpc # "idle" => wpkt \in Packets
  /\ rpc \in {"fetch", "copy"} => rn >= 1

\* The truncations yield indices and counts.
LEMMA CountType ==
  ASSUME TypeOK
  PROVE  Free \in Nat /\ Published \in Index /\ Trunc(Published - last) \in Nat
<1>1. \A x \in Int : Trunc(x) \in Index
  BY RingAssumption DEF Trunc, Index
<1>2. Published \in Index
  BY DEF TypeOK, Published, Index
<1>3. head - tail \in Int /\ RingSize - head + tail \in Int
      /\ Published - last \in Int
  BY <1>2, RingAssumption DEF TypeOK, Index
<1>4. Free \in Index /\ Trunc(Published - last) \in Index
  BY <1>1, <1>3 DEF Free
<1>5. QED
  BY <1>2, <1>4, RingAssumption DEF Index

\* The state after the handshake is well typed.
LEMMA TypeInit == Init => TypeInv
<1> SUFFICES ASSUME Init PROVE TypeInv
  OBVIOUS
<1>1. desc \in [Slots -> Desc] /\ buf \in [Slots -> [1 .. BufSize -> Byte]]
  BY DataAssumption DEF Init, Desc
<1>2. <<>> \in Seq(Byte) /\ <<>> \in Seq(Packets)
  BY EmptySeq
<1>3. NoDesc \in Desc
  BY DEF NoDesc, Desc
<1>4. 0 \in 0 .. IndexMod - 1
  BY RingAssumption
<1>5. QED
  BY <1>1, <1>2, <1>3, <1>4 DEF Init, TypeInv, TypeOK

\* WritePacket keeps the types.
LEMMA TypeWrite ==
  ASSUME TypeInv,
         WriteNoSpace \/ (\E p \in Packets : WriteBegin(p)) \/ WriteStep
  PROVE  TypeInv'
<1> USE RingAssumption, DataAssumption DEF TypeInv
<1>0. TypeOK /\ Mask(wslot) \in Slots
  BY MaskType DEF TypeOK
<1>1. CASE WriteNoSpace
  BY <1>0, <1>1
  DEF WriteNoSpace, shared, wvars, rvars, hvars, TypeOK
<1>2. ASSUME NEW p \in Packets, WriteBegin(p) PROVE TypeInv'
  BY <1>0, <1>2, CountType
  DEF WriteBegin, shared, rvars, hvars, TypeOK, Index
<1>3. CASE WriteFetch
  BY <1>0, <1>3 DEF WriteFetch, shared, rvars, hvars, TypeOK
<1>4. CASE WriteFill
  <2> DEFINE size == IF WriterIsServer THEN wdesc.len ELSE BufSize
             n    == Least(size, Len(wpkt))
             b    == buf[Mask(wslot)]
  <2>1. wpkt \in Seq(Byte)
    BY <1>4 DEF WriteFill
  <2>2. n \in Nat /\ n <= Len(wpkt)
    BY <1>0, <2>1 DEF TypeOK, Desc, Least
  <2>3. b \in [1 .. BufSize -> Byte]
    BY <1>0 DEF TypeOK
  <2>4. CopyTo(b, wpkt, n) \in [1 .. BufSize -> Byte]
    BY <2>1, <2>2, <2>3 DEF CopyTo
  <2>5. /\ buf' = [buf EXCEPT ![Mask(wslot)] = CopyTo(b, wpkt, n)]
        /\ wdesc' = FilledDesc(wdesc, n)
        /\ wn' = wn + n
        /\ wpc = "fill" /\ wpc' \in {"chain", "put"}
        /\ UNCHANGED <<head, tail, desc, evt, wslot, wfree, wpkt, rvars, hvars>>
    BY <1>4 DEF WriteFill
  <2> HIDE DEF n, b
  <2>6. buf' \in [Slots -> [1 .. BufSize -> Byte]]
    BY <1>0, <2>4, <2>5 DEF TypeOK
  <2>7. wdesc' \in Desc /\ wn' \in Nat
    BY <1>0, <2>2, <2>5 DEF TypeOK, Desc, FilledDesc
  <2>8. QED
    BY <1>0, <2>5, <2>6, <2>7 DEF rvars, hvars, TypeOK
<1>5. CASE WriteChain
  <2>1. [wdesc EXCEPT !.next = TRUE] \in Desc
    BY <1>0 DEF TypeOK, Desc
  <2>2. desc' \in [Slots -> Desc]
    BY <1>0, <1>5, <2>1 DEF WriteChain, TypeOK
  <2>3. /\ wfree > 1 /\ wslot' = wslot + 1 /\ wfree' = wfree - 1
        /\ wpc = "chain" /\ wpc' = "fetch"
        /\ UNCHANGED <<head, tail, buf, evt, wpkt, wn, wdesc, rvars, hvars>>
    BY <1>5 DEF WriteChain
  <2>4. wslot' \in Nat /\ wfree' \in Nat
    BY <1>0, <2>3 DEF TypeOK
  <2>5. QED
    BY <1>0, <2>2, <2>3, <2>4 DEF rvars, hvars, TypeOK
<1>6. CASE WriteGiveUp
  BY <1>0, <1>6
  DEF WriteGiveUp, WriteIdle, shared, rvars, hvars, TypeOK, Desc, NoDesc
<1>7. CASE WritePut
  <2>1. desc' \in [Slots -> Desc]
    BY <1>0, <1>7 DEF WritePut, TypeOK
  <2>2. QED
    BY <1>0, <1>7, <2>1 DEF WritePut, rvars, hvars, TypeOK
<1>8. CASE WritePublish
  <2>1. wpkt \in Packets /\ fifo \in Seq(Packets)
    BY <1>0, <1>8 DEF WritePublish, TypeOK
  <2>2. fifo' \in Seq(Packets)
    BY <1>8, <2>1 DEF WritePublish
  <2>3. Trunc(wslot) \in 0 .. IndexMod - 1
    BY <1>0 DEF TypeOK, Trunc
  <2>4. head' \in 0 .. IndexMod - 1 /\ tail' \in 0 .. IndexMod - 1
    BY <1>0, <1>8, <2>3 DEF WritePublish, TypeOK
  <2>5. /\ wpc' = "signal"
        /\ UNCHANGED <<desc, buf, evt, wslot, wfree, wpkt, wn, wdesc, rvars,
                       delivered>>
    BY <1>8 DEF WritePublish
  <2>6. QED
    BY <1>0, <2>1, <2>2, <2>4, <2>5 DEF rvars, TypeOK
<1>9. CASE WriteSignal
  BY <1>0, <1>9
  DEF WriteSignal, WriteIdle, shared, rvars, hvars, TypeOK, Desc, NoDesc
<1>10. QED
  BY <1>1, <1>2, <1>3, <1>4, <1>5, <1>6, <1>7, <1>8, <1>9 DEF WriteStep

\* Handing a packet over leaves a shorter history of packets.
LEMMA DeliverType ==
  ASSUME TypeOK, Deliver
  PROVE  fifo' \in Seq(Packets) /\ delivered' \in Seq(Byte)
<1>1. SubSeq(fifo, 2, Len(fifo)) \in Seq(Packets)
  BY SubSeqProperties DEF TypeOK
<1>2. QED
  BY <1>1 DEF Deliver, hvars, TypeOK

\* Where ReadPacket goes after it copied a slot.
LEMMA ReadCopyNext ==
  ASSUME TypeOK, ReadCopy
  PROVE  /\ rpc' \in {"panic", "refill", "error", "fetch"}
         /\ rpc' = "fetch" => rn # 1
<1>1. /\ rlen \in Nat /\ ReadCap \in Nat
      /\ rdesc.len \in Nat /\ rdesc.next \in BOOLEAN
  BY DataAssumption DEF TypeOK, Desc
<1>2. CASE rlen > ReadCap
  BY <1>1, <1>2 DEF ReadCopy
<1>3. CASE rlen <= ReadCap /\ ~rdesc.next
  BY <1>1, <1>3 DEF ReadCopy
<1>4. CASE rlen <= ReadCap /\ rdesc.next /\ rn = 1
  BY <1>1, <1>4 DEF ReadCopy
<1>5. CASE rlen <= ReadCap /\ rdesc.next /\ rn # 1
  BY <1>1, <1>5 DEF ReadCopy
<1>6. QED
  BY <1>1, <1>2, <1>3, <1>4, <1>5

\* ReadPacket and the receiver keep the types.
LEMMA TypeRead ==
  ASSUME TypeInv, ReadBegin \/ ReadStep \/ Wake
  PROVE  TypeInv'
<1> USE RingAssumption, DataAssumption DEF TypeInv
<1>0. TypeOK /\ Mask(rslot) \in Slots /\ Mask(rhead) \in Slots
  BY MaskType DEF TypeOK
<1>1. CASE ReadBegin
  <2>1. rn' \in Nat /\ rslot' \in Nat
    BY <1>0, <1>1, CountType DEF ReadBegin, TypeOK
  <2>2. rpc' = "fetch" => rn' >= 1
    <3>1. CASE Published = last
      BY <3>1, <1>1 DEF ReadBegin
    <3>2. CASE Published # last
      <4>1. Published \in Index /\ last \in Index
        BY <1>0, CountType DEF TypeOK, Index
      <4>2. Trunc(Published - last) = IF Published >= last THEN Published - last
                                      ELSE Published - last + IndexMod
        BY <4>1, Distance
      <4>3. Trunc(Published - last) # 0
        BY <3>2, <4>1, <4>2 DEF Index
      <4>4. QED
        BY <1>1, <2>1, <4>3 DEF ReadBegin
    <3>3. QED
      BY <3>1, <3>2
  <2>3. /\ rpc' \in {"refill", "fetch"}
        /\ UNCHANGED <<shared, evt, wvars, last, rdesc, rbuf, rlen, rhead,
                       asleep, hvars>>
    BY <1>1 DEF ReadBegin
  <2>4. QED
    BY <1>0, <2>1, <2>2, <2>3 DEF shared, wvars, hvars, TypeOK
<1>2. CASE ReadFetch
  BY <1>0, <1>2 DEF ReadFetch, shared, wvars, hvars, TypeOK
<1>3. CASE ReadCopy
  <2>1. /\ rpc = "copy" /\ rlen' = rlen + rdesc.len
        /\ rslot' = rslot + 1 /\ rn' = rn - 1
        /\ rbuf' = Take(rbuf \o Take(buf[Mask(rslot)], rdesc.len), ReadCap)
        /\ UNCHANGED <<shared, evt, wvars, last, rdesc, rhead, asleep, hvars>>
    BY <1>3 DEF ReadCopy
  <2>2. rdesc.len \in Nat /\ rdesc.next \in BOOLEAN
    BY <1>0 DEF TypeOK, Desc
  <2>3. rlen' \in Nat /\ rslot' \in Nat /\ rn' \in Nat
    BY <1>0, <2>1, <2>2 DEF TypeOK
  <2>4. buf[Mask(rslot)] \in Seq(Byte)
    BY <1>0 DEF TypeOK
  <2>5. rbuf \o Take(buf[Mask(rslot)], rdesc.len) \in Seq(Byte)
    <3>1. Take(buf[Mask(rslot)], rdesc.len) \in Seq(Byte)
      BY <2>2, <2>4, TakeType
    <3>2. rbuf \in Seq(Byte)
      BY <1>0 DEF TypeOK
    <3>3. QED
      BY <3>1, <3>2, ConcatProperties
  <2>6. rbuf' \in Seq(Byte)
    BY <2>1, <2>5, TakeType
  <2>7. /\ rpc' \in {"panic", "refill", "error", "fetch"}
        /\ rpc' = "fetch" => rn # 1
    BY <1>0, <1>3, ReadCopyNext
  <2>8. rpc' = "fetch" => rn' >= 1
    BY <1>0, <2>1, <2>7 DEF TypeOK
  <2>9. QED
    BY <1>0, <2>1, <2>3, <2>6, <2>7, <2>8 DEF shared, wvars, hvars, TypeOK
<1>4. CASE ReadRelease
  <2>1. Trunc(rslot) \in 0 .. IndexMod - 1
    BY <1>0 DEF TypeOK, Trunc
  <2>2. QED
    BY <1>0, <1>4, <2>1, DeliverType
    DEF ReadRelease, ReadIdle, wvars, TypeOK, Desc, NoDesc
<1>5. CASE ReadRefill
  <2>1. Trunc(rslot) \in 0 .. IndexMod - 1
    BY <1>0 DEF TypeOK, Trunc
  <2>2. ToRefill(Trunc(rslot)) \in Nat
    BY <1>0, <2>1 DEF TypeOK, ToRefill, Trunc
  <2>3. QED
    BY <1>0, <1>5, <2>1, <2>2, DeliverType
    DEF ReadRefill, shared, wvars, TypeOK
<1>6. CASE ReadReset
  <2> DEFINE d == desc[Mask(rhead)]
             n == SetDescLength(d.len)
  <2>1. d \in Desc
    BY <1>0 DEF TypeOK
  <2>2. n \in Nat
    BY <2>1, ResetLen DEF Desc
  <2>3. desc' = [desc EXCEPT ![Mask(rhead)].len = n]
    BY <1>6 DEF ReadReset
  <2> HIDE DEF n
  <2>4. desc' = [desc EXCEPT ![Mask(rhead)] = [d EXCEPT !.len = n]]
    BY <2>3
  <2>5. [d EXCEPT !.len = n] \in Desc
    BY <2>1, <2>2 DEF Desc
  <2> HIDE DEF d
  <2>6. desc' \in [Slots -> Desc]
    BY <1>0, <2>4, <2>5 DEF TypeOK
  <2>7. /\ rpc = "reset" /\ rn > 0 /\ rhead' = rhead + 1 /\ rn' = rn - 1
        /\ UNCHANGED <<head, tail, buf, evt, wvars, rpc, last, rslot, rdesc,
                       rbuf, rlen, asleep, hvars>>
    BY <1>6 DEF ReadReset
  <2>8. QED
    BY <1>0, <2>6, <2>7 DEF wvars, hvars, TypeOK
<1>7. CASE ReadOffer
  <2>1. Trunc(rhead) \in 0 .. IndexMod - 1
    BY <1>0 DEF TypeOK, Trunc
  <2>2. <<>> \in Seq(Byte) /\ NoDesc \in Desc
    BY EmptySeq DEF NoDesc, Desc
  <2>3. QED
    BY <1>0, <1>7, <2>1, <2>2 DEF ReadOffer, ReadIdle, wvars, hvars, TypeOK
<1>8. CASE Wake
  BY <1>0, <1>8 DEF Wake, shared, wvars, hvars, TypeOK
<1>9. QED
  BY <1>1, <1>2, <1>3, <1>4, <1>5, <1>6, <1>7, <1>8 DEF ReadStep

\* Type correctness of the ring and of both operations on it.
THEOREM TypeCorrect == Spec => []TypeOK
<1>1. TypeInv /\ [Next]_vars => TypeInv'
  <2> SUFFICES ASSUME TypeInv, [Next]_vars PROVE TypeInv'
    OBVIOUS
  <2>1. CASE UNCHANGED vars
    BY <2>1 DEF vars, shared, wvars, rvars, hvars, TypeInv, TypeOK
  <2>2. CASE Next
    BY <2>2, TypeWrite, TypeRead DEF Next
  <2>3. QED
    BY <2>1, <2>2
<1>2. TypeInv => TypeOK
  BY DEF TypeInv
<1>3. QED
  BY TypeInit, <1>1, <1>2, PTL DEF Spec

-----------------------------------------------------------------------------
(* The index invariant                                                     *)

\* Typed shorthands for the positions IndexInv is about.
LEMMA IndexType ==
  ASSUME TypeOK
  PROVE  /\ head \in Index /\ tail \in Index /\ last \in Index
         /\ Published \in Index /\ Used \in Index /\ Free \in Index
         /\ wslot \in Nat /\ wfree \in Nat /\ rslot \in Nat /\ rn \in Nat
         /\ rhead \in Nat
<1>1. head \in Index /\ tail \in Index /\ last \in Index /\ Published \in Index
  BY DEF TypeOK, Index, Published
<1>2. \A x \in Int : Trunc(x) \in Index
  BY RingAssumption DEF Trunc, Index
<1>3. head - tail \in Int /\ RingSize - head + tail \in Int
      /\ Published - last \in Int
  BY <1>1, RingAssumption DEF Index
<1>4. Used \in Index /\ Free \in Index
  BY <1>2, <1>3 DEF Used, Free
<1>5. QED
  BY <1>1, <1>4 DEF TypeOK

\* Nothing is published at first.
LEMMA NothingUsed == Init => Used = 0
<1> SUFFICES ASSUME Init PROVE Used = 0
  OBVIOUS
<1>1. Published = 0 /\ last = 0 /\ 0 - 0 = 0
  BY DEF Init, Published
<1>2. 0 % IndexMod = 0
  BY RingAssumption
<1>3. QED
  BY <1>1, <1>2 DEF Used, Trunc

\* Both sides start with an empty ring and nothing offered.
LEMMA IndexInit == Init => IndexInv
<1> SUFFICES ASSUME Init PROVE IndexInv
  OBVIOUS
<1>1. Used = 0
  BY NothingUsed
<1>2. Free \in {0, RingSize}
  <2>1. 0 % IndexMod = 0 /\ RingSize % IndexMod = RingSize
    <3>1. PICK n \in Nat, r \in Nat : n = IndexMod /\ r = RingSize /\ r < n
      BY RingAssumption
    <3>2. 0 % n = 0 /\ r % n = r
      BY <3>1
    <3>3. QED
      BY <3>1, <3>2
  <2>2. head - tail = 0 /\ RingSize - head + tail = RingSize
    BY RingAssumption DEF Init
  <2>3. QED
    BY <2>1, <2>2 DEF Free, Trunc
<1>3. QED
  BY <1>1, <1>2, RingAssumption DEF Init, IndexInv

\* Steps that move no index change neither what is published nor what is free.
LEMMA SameIndices ==
  ASSUME UNCHANGED <<head, tail, last>>
  PROVE  Published' = Published /\ Used' = Used /\ Free' = Free
BY DEF Published, Used, Free

\* WritePublish turns free slots into published ones.
LEMMA PublishMoves ==
  ASSUME TypeOK, IndexInv, WritePublish
  PROVE  /\ Used' = Used + (wslot - Published)
         /\ Free' = Free - (wslot - Published)
<1> DEFINE k == wslot - Published
<1>0. wpc = "publish"
  BY DEF WritePublish
<1>1. k \in Nat /\ k <= Free /\ Used + k <= RingSize /\ wslot = Published + k
  BY <1>0, IndexType, RingAssumption DEF IndexInv, Index
<1>2. last' = last
  BY DEF WritePublish, rvars
<1>3. Published' = Trunc(Published + k)
  BY <1>1 DEF WritePublish, Published
<1> HIDE DEF k
<1>4. Used' = Used + k
  BY <1>1, <1>2, <1>3, IndexType, Advance DEF Used
<1>5. Free' = Free - k
  <2>1. CASE WriterIsServer
    BY <1>1, <1>3, <2>1, IndexType, Retreat
    DEF Free, Published, WritePublish
  <2>2. CASE ~WriterIsServer
    <3>1. tail' = last /\ head' = Published' /\ tail = last
      BY <2>2 DEF WritePublish, Published, IndexInv
    <3>2. head' \in Index /\ Trunc(head' - tail') = Used + k
      BY <1>1, <1>2, <1>3, <1>4, <3>1, IndexType, Advance DEF Used
    <3>3. Free' = RingSize - (Used + k)
      BY <1>1, <2>2, <3>1, <3>2, IndexType, Complement DEF Free
    <3>4. Free = RingSize - Used
      <4>1. Used = Trunc(head - tail) /\ Used <= RingSize
        BY <1>1, <2>2, <3>1, IndexType, RingAssumption
        DEF Used, Published, Index
      <4>2. QED
        BY <2>2, <4>1, IndexType, Complement DEF Free
    <3>5. QED
      BY <1>1, <3>3, <3>4, IndexType, RingAssumption DEF Index
  <2>3. QED
    BY <2>1, <2>2
<1>6. QED
  BY <1>4, <1>5 DEF k

\* ReadRelease turns consumed slots into free ones.
LEMMA ReleaseMoves ==
  ASSUME TypeOK, IndexInv, ReadRelease
  PROVE  /\ Used' = Used - (rslot - last)
         /\ Free' = Free + (rslot - last)
<1> DEFINE j == rslot - last
<1>1. j \in Nat /\ j <= Used /\ rslot = last + j
  BY IndexType DEF IndexInv, ReadRelease, Index
<1>2. ~WriterIsServer /\ head' = head /\ last' = Trunc(last + j) /\ tail' = last'
      /\ tail = last
  BY <1>1 DEF ReadRelease, IndexInv
<1> HIDE DEF j
<1>3. last' \in Index /\ Used' = Used - j
  BY <1>1, <1>2, IndexType, Retreat DEF Used, Published
<1>4. Used <= RingSize
  BY IndexType, RingAssumption DEF IndexInv, Index
<1>5. Free = RingSize - Used
  BY <1>2, <1>4, IndexType, Complement DEF Free, Used, Published
<1>6. Trunc(head' - tail') = Used - j
  BY <1>2, <1>3 DEF Used, Published
<1>7. Used - j <= RingSize
  BY <1>1, <1>4, IndexType, RingAssumption DEF Index
<1>8. Free' = RingSize - (Used - j)
  BY <1>2, <1>3, <1>6, <1>7, IndexType, Complement DEF Free
<1>9. QED
  BY <1>1, <1>3, <1>5, <1>8, IndexType, RingAssumption DEF Index, j

\* ReadRefill consumes published slots, and counts the slots of neither side.
LEMMA RefillMoves ==
  ASSUME TypeOK, IndexInv, ReadRefill
  PROVE  /\ Used' = Used - (rslot - last)
         /\ Free' = Free
         /\ rn' = RingSize - (Used' + Free')
<1> DEFINE j == rslot - last
<1>1. j \in Nat /\ j <= Used /\ rslot = last + j
  BY IndexType DEF IndexInv, ReadRefill, Index
<1>2. /\ WriterIsServer /\ head' = head /\ tail' = tail
      /\ last' = Trunc(last + j)
      /\ rn' = Trunc(RingSize - head + last')
  BY <1>1 DEF ReadRefill, ToRefill, shared
<1> HIDE DEF j
<1>3. last' \in Index /\ Used' = Used - j
  BY <1>1, <1>2, IndexType, Retreat DEF Used, Published
<1>4. Free' = Free /\ Free = Trunc(head - tail)
  BY <1>2 DEF Free
<1>5. Free + Used' <= RingSize
  BY <1>1, <1>3, IndexType, RingAssumption DEF IndexInv, Index
<1>6. Used' = Trunc(tail - last')
  BY <1>2 DEF Used, Published
<1>7. Trunc(head - last') = Free + Used'
  BY <1>3, <1>4, <1>5, <1>6, IndexType, Adjoin
<1>8. rn' = RingSize - (Free + Used')
  BY <1>2, <1>3, <1>5, <1>7, IndexType, Complement
<1>9. Free + Used' = Used' + Free'
  BY <1>1, <1>3, <1>4, IndexType DEF Index
<1>10. QED
  BY <1>3, <1>4, <1>8, <1>9 DEF j

\* ReadOffer turns the reset slots into free ones.
LEMMA OfferMoves ==
  ASSUME TypeOK, IndexInv, ReadOffer
  PROVE  Used' = Used /\ Free' = RingSize - Used
<1> DEFINE i == rhead - head
<1>1. /\ i \in Nat /\ rhead = head + i /\ WriterIsServer
      /\ i = RingSize - (Used + Free)
  BY IndexType, RingAssumption DEF IndexInv, ReadOffer, Index
<1>2. head' = Trunc(head + i) /\ tail' = tail /\ last' = last
  BY <1>1 DEF ReadOffer
<1> HIDE DEF i
<1>3. Used' = Used
  BY <1>1, <1>2 DEF Used, Published
<1>4. Trunc(head - tail) = Free
  BY <1>1 DEF Free
<1>5. Free + i <= RingSize
  BY <1>1, IndexType, RingAssumption DEF Index
<1>6. Free' = Free + i
  BY <1>1, <1>2, <1>4, <1>5, IndexType, Advance DEF Free
<1>7. QED
  BY <1>1, <1>3, <1>6, IndexType, RingAssumption DEF Index

\* WritePacket preserves the index invariant.
LEMMA IndexWrite ==
  ASSUME TypeOK, IndexInv,
         WriteNoSpace \/ (\E p \in Packets : WriteBegin(p)) \/ WriteStep
  PROVE  IndexInv'
<1>0. last' = last /\ rpc' = rpc /\ rslot' = rslot /\ rn' = rn /\ rhead' = rhead
  BY DEF WriteNoSpace, WriteBegin, WriteStep, WriteFetch, WriteFill, WriteChain,
         WriteGiveUp, WritePut, WritePublish, WriteSignal, rvars
<1> USE IndexType, RingAssumption DEF Index
<1>1. CASE WriteNoSpace
  BY <1>0, <1>1, SameIndices DEF WriteNoSpace, shared, wvars, IndexInv
<1>2. ASSUME NEW p \in Packets, WriteBegin(p) PROVE IndexInv'
  <2>1. UNCHANGED <<head, tail, last>>
    BY <1>0, <1>2 DEF WriteBegin, shared
  <2>2. wslot' = Published /\ wfree' = Free /\ wpc' = "fetch" /\ Free # 0
    BY <1>2 DEF WriteBegin
  <2>3. QED
    BY <1>0, <2>1, <2>2, SameIndices DEF IndexInv
<1>3. CASE WriteFetch
  BY <1>0, <1>3, SameIndices DEF WriteFetch, shared, IndexInv
<1>4. CASE WriteFill
  <2>1. /\ wpc = "fill" /\ wpc' \in {"chain", "put"}
        /\ UNCHANGED <<head, tail, wslot, wfree>>
    BY <1>4 DEF WriteFill
  <2>2. QED
    BY <1>0, <2>1, SameIndices DEF IndexInv
<1>5. CASE WriteChain
  <2>1. /\ wpc = "chain" /\ wpc' = "fetch" /\ wfree > 1
        /\ wslot' = wslot + 1 /\ wfree' = wfree - 1
        /\ UNCHANGED <<head, tail>>
    BY <1>5 DEF WriteChain
  <2>2. QED
    BY <1>0, <2>1, SameIndices DEF IndexInv
<1>6. CASE WriteGiveUp
  BY <1>0, <1>6, SameIndices DEF WriteGiveUp, WriteIdle, shared, IndexInv
<1>7. CASE WritePut
  <2>1. /\ wpc = "put" /\ wpc' = "publish" /\ wslot' = wslot + 1
        /\ UNCHANGED <<head, tail>>
    BY <1>7 DEF WritePut
  <2>2. QED
    BY <1>0, <2>1, SameIndices DEF IndexInv
<1>8. CASE WritePublish
  <2>1. wpc = "publish" /\ wpc' = "signal" /\ wslot - Published \in Nat
    BY <1>8 DEF WritePublish, IndexInv
  <2>2. Used' + Free' = Used + Free
    BY <1>8, <2>1, PublishMoves
  <2>3. Used' >= Used
    BY <1>8, <2>1, PublishMoves
  <2>4. WriterIsServer => head' = head
    BY <1>8 DEF WritePublish
  <2>5. ~WriterIsServer => tail' = tail
    BY <1>8 DEF WritePublish
  <2>6. QED
    BY <1>0, <2>1, <2>2, <2>3, <2>4, <2>5, <1>8, PublishMoves DEF IndexInv
<1>9. CASE WriteSignal
  BY <1>0, <1>9, SameIndices DEF WriteSignal, WriteIdle, shared, IndexInv
<1>10. QED
  BY <1>1, <1>2, <1>3, <1>4, <1>5, <1>6, <1>7, <1>8, <1>9 DEF WriteStep

\* ReadPacket preserves the index invariant.
LEMMA IndexRead ==
  ASSUME TypeInv, IndexInv, ReadBegin \/ ReadStep \/ Wake
  PROVE  IndexInv'
<1>0. TypeOK /\ wpc' = wpc /\ wslot' = wslot /\ wfree' = wfree
  BY DEF TypeInv, ReadBegin, ReadStep, ReadFetch, ReadCopy, ReadRelease,
         ReadRefill, ReadReset, ReadOffer, Wake, wvars
<1> USE <1>0, IndexType, RingAssumption DEF Index
<1>1. CASE ReadBegin
  <2>1. /\ rslot' = last /\ rn' = Used /\ UNCHANGED <<head, tail, last>>
        /\ rpc' = IF Published = last THEN "refill" ELSE "fetch"
    BY <1>1 DEF ReadBegin, Used, shared
  <2>2. rpc' = "fetch" => rn' >= 1
    BY <1>1, TypeRead DEF TypeInv
  <2>3. QED
    BY <2>1, <2>2, SameIndices DEF IndexInv
<1>2. CASE ReadFetch
  BY <1>2, SameIndices DEF ReadFetch, shared, IndexInv
<1>3. CASE ReadCopy
  <2>1. /\ rpc = "copy" /\ rslot' = rslot + 1 /\ rn' = rn - 1
        /\ UNCHANGED <<head, tail, last>>
    BY <1>3 DEF ReadCopy, shared
  <2>2. rpc' \in {"panic", "refill", "error", "fetch"}
    BY <1>3, ReadCopyNext
  <2>3. rpc' = "fetch" => rn' >= 1
    BY <1>3, TypeRead DEF TypeInv, ReadStep
  <2>4. QED
    BY <2>1, <2>2, <2>3, SameIndices DEF IndexInv
<1>4. CASE ReadRelease
  <2>1. /\ rpc' = "idle" /\ ~WriterIsServer /\ tail' = last' /\ head' = head
        /\ rslot - last \in Nat /\ rslot - last <= Used
    BY <1>4 DEF ReadRelease, ReadIdle, IndexInv
  <2>2. Published' = Published /\ Free' >= Free /\ Used' + Free' = Used + Free
    BY <1>4, <2>1, ReleaseMoves DEF Published
  <2>3. QED
    BY <2>1, <2>2, <1>4, ReleaseMoves DEF IndexInv
<1>5. CASE ReadRefill
  <2>1. /\ rpc' = "reset" /\ WriterIsServer /\ head' = head /\ rhead' = head
        /\ tail' = tail /\ rslot - last \in Nat /\ rslot - last <= Used
    BY <1>5 DEF ReadRefill, shared, IndexInv
  <2>2. Published' = Published /\ Used' \in Nat /\ Used' <= Used
    BY <1>5, <2>1, RefillMoves DEF Published
  <2>3. QED
    BY <2>1, <2>2, <1>5, RefillMoves DEF IndexInv
<1>6. CASE ReadReset
  <2>1. /\ rpc = "reset" /\ rpc' = rpc /\ rn > 0 /\ rhead' = rhead + 1
        /\ rn' = rn - 1 /\ UNCHANGED <<head, tail, last>>
    BY <1>6 DEF ReadReset
  <2>2. QED
    BY <2>1, SameIndices DEF IndexInv
<1>7. CASE ReadOffer
  <2>1. /\ rpc' = "idle" /\ WriterIsServer /\ tail' = tail
    BY <1>7 DEF ReadOffer, ReadIdle, IndexInv
  <2>2. Published' = Published /\ Used' = Used /\ Free' = RingSize - Used
    BY <1>7, <2>1, OfferMoves DEF Published
  <2>3. QED
    BY <2>1, <2>2 DEF IndexInv
<1>8. CASE Wake
  BY <1>8, SameIndices DEF Wake, shared, IndexInv
<1>9. QED
  BY <1>1, <1>2, <1>3, <1>4, <1>5, <1>6, <1>7, <1>8 DEF ReadStep

\* The counting of WritePacket and ReadPacket, modulo 2^16 and over stale
\* snapshots of the peer's index, never lets the two sides' slots overlap.
THEOREM IndexInvariant == Spec => []IndexInv
<1>1. TypeInv /\ IndexInv /\ [Next]_vars => TypeInv' /\ IndexInv'
  <2> SUFFICES ASSUME TypeInv, IndexInv, [Next]_vars
               PROVE  TypeInv' /\ IndexInv'
    OBVIOUS
  <2>1. CASE UNCHANGED vars
    BY <2>1 DEF vars, shared, wvars, rvars, hvars, TypeInv, TypeOK, IndexInv,
                Used, Free, Published
  <2>2. CASE Next
    BY <2>2, TypeWrite, TypeRead, IndexWrite, IndexRead DEF Next, TypeInv
  <2>3. QED
    BY <2>1, <2>2
<1>2. QED
  BY TypeInit, IndexInit, <1>1, PTL DEF Spec

\* The invariant keeps the two sides on different slots.
LEMMA IndexExclusive ==
  ASSUME TypeOK, IndexInv
  PROVE  Exclusive
<1> USE IndexType, RingAssumption DEF Index
<1>1. SUFFICES ASSUME wpc \in {"fetch", "fill", "chain", "put"},
                      rpc \in {"fetch", "copy"} \/ (rpc = "reset" /\ rn > 0),
                      Mask(wslot) = IF rpc = "reset" THEN Mask(rhead)
                                                     ELSE Mask(rslot)
               PROVE  FALSE
  BY DEF Exclusive, WriterHolds, ReaderHolds
<1>2. /\ wslot >= Published /\ wslot - Published < Free
      /\ Used + Free <= RingSize
  BY <1>1 DEF IndexInv
<1> DEFINE w == last + Used + (wslot - Published)
<1>3. w \in Int /\ Mask(wslot) = Mask(w)
  <2>1. Published = last + Used \/ Published = last + Used - IndexMod
    BY Distance DEF Used
  <2>2. wslot = w \/ wslot = w - IndexMod
    BY <2>1
  <2>3. QED
    BY <2>2, MaskWrap
<1>4. CASE rpc \in {"fetch", "copy"}
  <2>1. w - rslot > 0 /\ w - rslot < RingSize
    BY <1>2, <1>4 DEF IndexInv
  <2>2. Mask(w) # Mask(rslot)
    BY <1>3, <2>1, DistinctSlots DEF Mask
  <2>3. QED
    BY <1>1, <1>3, <1>4, <2>2
<1>5. CASE rpc = "reset" /\ rn > 0
  <2> DEFINE c == last + Used + Free + (rhead - head)
  <2>1. WriterIsServer /\ rhead >= head
        /\ (rhead - head) + rn = RingSize - (Used + Free)
    BY <1>5 DEF IndexInv
  <2>2. c - w > 0 /\ c - w < RingSize /\ c \in Int
    BY <1>2, <1>5, <2>1
  <2>3. Mask(rhead) = Mask(c)
    <3>0. Free = Trunc(head - tail) /\ Used = Trunc(tail - last)
      BY <2>1 DEF Free, Used, Published
    <3>1. Trunc(head - last) = Free + Used
      <4>1. Trunc(head - tail) + Trunc(tail - last) <= RingSize
        BY <1>2, <3>0
      <4>2. Trunc(head - last) = Trunc(head - tail) + Trunc(tail - last)
        <5>1. head \in Index /\ tail \in Index /\ last \in Index
          BY IndexType
        <5> HIDE IndexType, RingAssumption DEF Index
        <5>2. QED
          BY <4>1, <5>1, Adjoin
      <4>3. QED
        BY <3>0, <4>2
    <3>2. head = last + Used + Free \/ head = last + Used + Free - IndexMod
      <4>1. Trunc(head - last) = IF head >= last THEN head - last
                                 ELSE head - last + IndexMod
        BY Distance
      <4>2. QED
        BY <3>1, <4>1
    <3>3. rhead = c \/ rhead = c - IndexMod
      BY <3>2
    <3>4. QED
      BY <2>2, <3>3, MaskWrap
  <2>4. Mask(c) # Mask(w)
    BY <1>3, <2>2, DistinctSlots DEF Mask
  <2>5. QED
    BY <1>1, <1>3, <1>5, <2>3, <2>4
<1>6. QED
  BY <1>1, <1>4, <1>5

\* No data race between WritePacket and ReadPacket on any slot of any ring.
THEOREM RaceFree == Spec => []Exclusive
<1>1. TypeOK /\ IndexInv => Exclusive
  BY IndexExclusive
<1>2. QED
  BY TypeCorrect, IndexInvariant, <1>1, PTL
=============================================================================
