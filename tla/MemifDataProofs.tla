-------------------------- MODULE MemifDataProofs --------------------------
(***************************************************************************)
(* Proofs about what MemifRing keeps in its descriptors and buffers, on    *)
(* top of the index invariant of MemifRingProofs: chains are complete, and *)
(* every slot offered to the server is a whole buffer.                     *)
(***************************************************************************)
EXTENDS MemifRingProofs

-----------------------------------------------------------------------------
(* Slots counted from the reader's position                                *)

\* The slot k places after the last one the reader has consumed: the first Used
\* of them are published, the next Free are the writer's.
At(k) == Mask(last + k)

\* Such a slot exists.
LEMMA AtType ==
  ASSUME TypeOK, NEW k \in Nat
  PROVE  At(k) \in Slots
BY IndexType, MaskType DEF At, Index

\* Within one ring they are all different.
LEMMA AtApart ==
  ASSUME TypeOK, NEW k \in 0 .. RingSize - 1, NEW m \in 0 .. RingSize - 1,
         k # m
  PROVE  At(k) # At(m)
<1>0. /\ RingSize \in Nat \ {0} /\ last \in Int
      /\ last + k \in Int /\ last + m \in Int
  BY IndexType, RingAssumption DEF Index
<1>1. CASE k > m
  <2>1. (last + k) - (last + m) > 0 /\ (last + k) - (last + m) < RingSize
    BY <1>0, <1>1
  <2>2. (last + k) % RingSize # (last + m) % RingSize
    BY <1>0, <2>1, DistinctSlots
  <2>3. QED
    BY <2>2 DEF At, Mask
<1>2. CASE k < m
  <2>1. (last + m) - (last + k) > 0 /\ (last + m) - (last + k) < RingSize
    BY <1>0, <1>2
  <2>2. (last + m) % RingSize # (last + k) % RingSize
    BY <1>0, <2>1, DistinctSlots
  <2>3. QED
    BY <2>2 DEF At, Mask
<1>3. QED
  BY <1>0, <1>1, <1>2

\* Where the writer's index points.
LEMMA AtPublished ==
  ASSUME TypeOK, NEW n \in Nat
  PROVE  Mask(Published + n) = At(Used + n)
<1> USE IndexType, RingAssumption DEF Index
<1>1. Published = last + Used \/ Published = last + Used - IndexMod
  BY Distance DEF Used
<1>2. \/ Published + n = last + (Used + n)
      \/ Published + n = (last + (Used + n)) - IndexMod
  BY <1>1
<1>3. last + (Used + n) \in Int
  OBVIOUS
<1>4. QED
  BY <1>2, <1>3, MaskWrap DEF At

\* Where the client's head points on an M2S ring: behind the free slots.
LEMMA AtHead ==
  ASSUME TypeOK, IndexInv, WriterIsServer, NEW n \in Nat
  PROVE  Mask(head + n) = At(Used + Free + n)
<1> USE IndexType, RingAssumption DEF Index
<1>1. Free = Trunc(head - tail) /\ Used = Trunc(tail - last)
  BY DEF Free, Used, Published
<1>2. Trunc(head - tail) + Trunc(tail - last) <= RingSize
  BY <1>1 DEF IndexInv
<1>3. Trunc(head - last) = Used + Free
  <2>1. Trunc(head - last) = Trunc(head - tail) + Trunc(tail - last)
    <3>1. head \in Index /\ tail \in Index /\ last \in Index
      BY IndexType
    <3> HIDE IndexType, RingAssumption DEF Index
    <3>2. QED
      BY <1>2, <3>1, Adjoin
  <2>2. QED
    BY <1>1, <2>1
<1>4. head = last + (Used + Free) \/ head = last + (Used + Free) - IndexMod
  <2>1. Trunc(head - last) = IF head >= last THEN head - last
                             ELSE head - last + IndexMod
    BY Distance
  <2>2. QED
    BY <1>3, <2>1
<1>5. \/ head + n = last + (Used + Free + n)
      \/ head + n = (last + (Used + Free + n)) - IndexMod
  BY <1>4
<1>6. last + (Used + Free + n) \in Int
  OBVIOUS
<1>7. QED
  BY <1>5, <1>6, MaskWrap DEF At

\* Consuming j slots renumbers the others.
LEMMA AtMoves ==
  ASSUME TypeOK, NEW j \in 0 .. Used, last' = Trunc(last + j), NEW k \in Nat
  PROVE  At(k)' = At(j + k)
<1> USE IndexType, RingAssumption DEF Index
<1>1. j \in 0 .. IndexMod - 1
  OBVIOUS
<1>2. last' = last + j \/ last' = last + j - IndexMod
  BY <1>1, Forward
<1>3. last' + k = last + (j + k) \/ last' + k = (last + (j + k)) - IndexMod
  BY <1>2
<1>4. last + (j + k) \in Int
  OBVIOUS
<1>5. Mask(last' + k) = Mask(last + (j + k))
  BY <1>3, <1>4, MaskWrap
<1>6. QED
  BY <1>5 DEF At, Mask

\* A WritePacket that holds a slot holds one of the free ones.
LEMMA WriterAt ==
  ASSUME TypeOK, IndexInv, wpc \in {"fetch", "fill", "chain", "put"}
  PROVE  /\ Used + (wslot - Published) \in Used .. Used + Free - 1
         /\ Used + (wslot - Published) \in 0 .. RingSize - 1
         /\ Mask(wslot) = At(Used + (wslot - Published))
<1> USE IndexType, RingAssumption DEF Index
<1>1. wslot - Published \in Nat /\ wslot - Published < Free
      /\ Used + Free <= RingSize
  BY DEF IndexInv
<1>2. wslot = Published + (wslot - Published)
  OBVIOUS
<1>3. Mask(wslot) = At(Used + (wslot - Published))
  BY <1>1, <1>2, AtPublished
<1>4. QED
  BY <1>1, <1>3

\* Hence it does not write to any other slot of the ring.
LEMMA WriterApart ==
  ASSUME TypeOK, IndexInv, wpc \in {"fetch", "fill", "chain", "put"},
         NEW k \in 0 .. RingSize - 1, k # Used + (wslot - Published)
  PROVE  At(k) # Mask(wslot)
BY WriterAt, AtApart

\* Published slots are apart from it.
LEMMA PublishedApart ==
  ASSUME TypeOK, IndexInv, wpc \in {"fetch", "fill", "chain", "put"},
         NEW k \in 0 .. Used - 1
  PROVE  At(k) # Mask(wslot)
<1> USE IndexType, RingAssumption DEF Index
<1>1. k \in 0 .. RingSize - 1 /\ k # Used + (wslot - Published)
  BY DEF IndexInv
<1>2. QED
  BY <1>1, WriterApart

\* A ReadPacket that reads a slot reads a published one, and so is the last one
\* of its snapshot.
LEMMA ReaderAt ==
  ASSUME TypeOK, IndexInv, rpc \in {"fetch", "copy"}
  PROVE  /\ rslot - last \in 0 .. Used - 1
         /\ (rslot - last) + rn - 1 \in 0 .. Used - 1
         /\ Mask(rslot) = At(rslot - last)
         /\ Mask(rslot + rn - 1) = At((rslot - last) + rn - 1)
<1> USE IndexType, RingAssumption DEF Index
<1>1. /\ rslot - last \in 0 .. Used - 1
      /\ (rslot - last) + rn - 1 \in 0 .. Used - 1
  BY DEF IndexInv
<1>2. rslot = last + (rslot - last)
      /\ rslot + rn - 1 = last + ((rslot - last) + rn - 1)
  OBVIOUS
<1>3. QED
  BY <1>1, <1>2 DEF At

-----------------------------------------------------------------------------
(* Chains are complete                                                     *)

\* What is published, and what a running ReadPacket believes to be published,
\* ends with the last buffer of a packet.
Complete ==
  /\ wpc \in {"chain", "put"} => ~wdesc.next
  /\ wpc = "publish" => wslot > Published /\ ~desc[Mask(wslot - 1)].next
  /\ Used > 0 => ~desc[At(Used - 1)].next
  /\ rpc \in {"fetch", "copy"} => ~desc[Mask(rslot + rn - 1)].next
  /\ rpc = "copy" => rdesc = desc[Mask(rslot)]
  /\ rpc # "error"

\* Nothing is published at first.
LEMMA CompleteInit == Init => Complete
<1> SUFFICES ASSUME Init PROVE Complete
  OBVIOUS
<1>1. Used = 0
  BY NothingUsed
<1>2. QED
  BY <1>1 DEF Init, Complete

\* WritePacket writes to free slots only and publishes up to a last buffer.
LEMMA CompleteWrite ==
  ASSUME TypeOK, IndexInv, Complete,
         WriteNoSpace \/ (\E p \in Packets : WriteBegin(p)) \/ WriteStep
  PROVE  Complete'
<1>0. UNCHANGED <<last, rpc, rslot, rn, rdesc>>
  BY DEF WriteNoSpace, WriteBegin, WriteStep, WriteFetch, WriteFill, WriteChain,
         WriteGiveUp, WritePut, WritePublish, WriteSignal, rvars
<1> USE IndexType, RingAssumption DEF Index
\* Steps that leave the descriptors and indices alone.
<1>1. ASSUME UNCHANGED <<head, tail, desc>>, wpc' # "publish",
             wpc' \in {"chain", "put"} => ~wdesc'.next
      PROVE  Complete'
  <2>1. Used' = Used
    BY <1>0, <1>1, SameIndices
  <2>2. QED
    BY <1>0, <1>1, <2>1 DEF Complete, At, Mask
<1>2. CASE WriteNoSpace
  <2>1. wpc = "idle" /\ UNCHANGED <<head, tail, desc, wpc>>
    BY <1>2 DEF WriteNoSpace, shared, wvars
  <2>2. QED
    BY <1>1, <2>1
<1>3. CASE \E p \in Packets : WriteBegin(p)
  <2>1. wpc' = "fetch" /\ UNCHANGED <<head, tail, desc>>
    BY <1>3 DEF WriteBegin, shared
  <2>2. QED
    BY <1>1, <2>1
<1>4. CASE WriteFetch
  <2>1. wpc' = "fill" /\ UNCHANGED <<head, tail, desc>>
    BY <1>4 DEF WriteFetch, shared
  <2>2. QED
    BY <1>1, <2>1
<1>5. CASE WriteFill
  <2>1. wpc' \in {"chain", "put"} /\ UNCHANGED <<head, tail, desc>>
    BY <1>5 DEF WriteFill
  <2>2. ~wdesc'.next
    BY <1>5 DEF WriteFill, FilledDesc
  <2>3. QED
    BY <1>1, <2>1, <2>2
<1>6. CASE WriteGiveUp \/ WriteSignal
  <2>1. wpc' = "idle" /\ UNCHANGED <<head, tail, desc>>
    BY <1>6 DEF WriteGiveUp, WriteSignal, WriteIdle, shared
  <2>2. QED
    BY <1>1, <2>1
\* Steps that write the descriptor of the writer's slot.
<1>7. ASSUME NEW d \in Desc, desc' = [desc EXCEPT ![Mask(wslot)] = d],
             UNCHANGED <<head, tail>>, wpc \in {"chain", "put"},
             wpc' = "fetch" \/ (wpc' = "publish" /\ wslot' = wslot + 1 /\ ~d.next)
      PROVE  Complete'
  <2>1. Used' = Used /\ Published' = Published
    BY <1>0, <1>7, SameIndices
  <2>2. desc \in [Slots -> Desc] /\ Mask(wslot) \in Slots
    BY MaskType DEF TypeOK
  <2>3. \A k \in 0 .. Used - 1 : desc'[At(k)] = desc[At(k)]
    BY <1>7, <2>2, PublishedApart, AtType
  <2>4. Used > 0 => ~desc'[At(Used - 1)].next
    <3>1. Used > 0 => Used - 1 \in 0 .. Used - 1
      OBVIOUS
    <3>2. QED
      BY <2>3, <3>1 DEF Complete
  <2>5. rpc \in {"fetch", "copy"} =>
          /\ desc'[Mask(rslot + rn - 1)] = desc[Mask(rslot + rn - 1)]
          /\ desc'[Mask(rslot)] = desc[Mask(rslot)]
    BY <2>3, ReaderAt
  <2>6. wpc' = "publish" => wslot' > Published' /\ ~desc'[Mask(wslot' - 1)].next
    <3>1. wslot >= Published
      BY <1>7 DEF IndexInv
    <3>2. CASE wpc' = "publish"
      <4>1. wslot' > Published' /\ wslot' - 1 = wslot /\ ~d.next
        BY <1>7, <2>1, <3>1, <3>2
      <4>2. desc'[Mask(wslot)] = d
        BY <1>7, <2>2
      <4>3. QED
        BY <4>1, <4>2
    <3>3. QED
      BY <3>2
  <2>7. QED
    BY <1>0, <1>7, <2>1, <2>4, <2>5, <2>6 DEF Complete, At, Mask
<1>8. CASE WriteChain
  <2>1. [wdesc EXCEPT !.next = TRUE] \in Desc
    BY DEF TypeOK, Desc
  <2>2. /\ desc' = [desc EXCEPT ![Mask(wslot)] = [wdesc EXCEPT !.next = TRUE]]
        /\ UNCHANGED <<head, tail>> /\ wpc = "chain" /\ wpc' = "fetch"
    BY <1>8 DEF WriteChain
  <2>3. QED
    BY <1>7, <2>1, <2>2
<1>9. CASE WritePut
  <2>1. wdesc \in Desc
    BY DEF TypeOK
  <2>2. /\ desc' = [desc EXCEPT ![Mask(wslot)] = wdesc]
        /\ UNCHANGED <<head, tail>> /\ wpc = "put" /\ wpc' = "publish"
        /\ wslot' = wslot + 1
    BY <1>9 DEF WritePut
  <2>3. ~wdesc.next
    BY <2>2 DEF Complete
  <2>4. QED
    BY <1>7, <2>1, <2>2, <2>3
<1>10. CASE WritePublish
  <2>1. wpc = "publish" /\ wpc' = "signal" /\ desc' = desc
    BY <1>10 DEF WritePublish
  <2>2. wslot - Published \in Nat /\ wslot - Published >= 1
        /\ ~desc[Mask(wslot - 1)].next
    BY <2>1 DEF Complete
  <2>3. Used' = Used + (wslot - Published)
    BY <1>10, PublishMoves
  <2>4. Mask(wslot - 1) = At(Used' - 1)
    <3>1. wslot - 1 = Published + (wslot - Published - 1)
          /\ Used' - 1 = Used + (wslot - Published - 1)
          /\ wslot - Published - 1 \in Nat
      BY <2>2, <2>3
    <3>2. QED
      BY <3>1, AtPublished
  <2>5. QED
    BY <1>0, <2>1, <2>2, <2>4 DEF Complete, At, Mask
<1>11. QED
  BY <1>2, <1>3, <1>4, <1>5, <1>6, <1>8, <1>9, <1>10 DEF WriteStep

\* Resetting a slot changes its length only.
LEMMA ResetSlot ==
  ASSUME TypeOK, ReadReset
  PROVE  /\ Mask(rhead) \in Slots
         /\ \A s \in Slots :
              /\ desc'[s].next = desc[s].next
              /\ s # Mask(rhead) => desc'[s] = desc[s]
         /\ desc'[Mask(rhead)].len = SetDescLength(desc[Mask(rhead)].len)
<1> DEFINE r == Mask(rhead)
           n == SetDescLength(desc[r].len)
<1>1. r \in Slots /\ desc \in [Slots -> Desc]
  BY IndexType, MaskType DEF TypeOK
<1>2. desc' = [desc EXCEPT ![r].len = n]
  BY DEF ReadReset
<1> HIDE DEF r, n
<1>3. desc' = [desc EXCEPT ![r] = [desc[r] EXCEPT !.len = n]]
  BY <1>2
<1>4. \A s \in Slots : s # r => desc'[s] = desc[s]
  BY <1>1, <1>3
<1>5. desc'[r] = [desc[r] EXCEPT !.len = n] /\ desc[r] \in Desc
  BY <1>1, <1>3
<1>6. desc'[r].next = desc[r].next /\ desc'[r].len = n
  BY <1>5 DEF Desc
<1>7. QED
  BY <1>1, <1>4, <1>6 DEF r, n

\* What consuming a packet does to the indices, on a ring of either type.
LEMMA ConsumeMoves ==
  ASSUME TypeOK, IndexInv, ReadRelease \/ ReadRefill
  PROVE  /\ rslot - last \in 0 .. Used
         /\ last' = Trunc(last + (rslot - last))
         /\ Used' = Used - (rslot - last)
         /\ Published' = Published
         /\ rpc = "refill" /\ rpc' \in {"idle", "reset"}
         /\ UNCHANGED <<desc, buf, wvars>>
<1> USE IndexType, RingAssumption DEF Index
<1>1. /\ rpc = "refill" /\ rpc' \in {"idle", "reset"} /\ last' = Trunc(rslot)
      /\ UNCHANGED <<desc, buf, wvars>>
  BY DEF ReadRelease, ReadRefill, ReadIdle, shared
<1>2. Published' = Published
  BY DEF ReadRelease, ReadRefill, Published, shared
<1>3. rslot - last \in 0 .. Used /\ rslot = last + (rslot - last)
  BY <1>1 DEF IndexInv
<1>4. Used' = Used - (rslot - last)
  BY ReleaseMoves, RefillMoves
<1>5. QED
  BY <1>1, <1>2, <1>3, <1>4

\* ReadPacket consumes from the front and leaves the last buffer in place.
LEMMA CompleteRead ==
  ASSUME TypeInv, IndexInv, Complete, ReadBegin \/ ReadStep \/ Wake
  PROVE  Complete'
<1>0. TypeOK /\ UNCHANGED wvars
  BY DEF TypeInv, ReadBegin, ReadStep, ReadFetch, ReadCopy, ReadRelease,
         ReadRefill, ReadReset, ReadOffer, Wake
<1>w. UNCHANGED <<wpc, wslot, wdesc>>
  BY <1>0 DEF wvars
<1> USE <1>0, IndexType, RingAssumption DEF Index
\* Steps that move no index and write no descriptor.
<1>1. ASSUME UNCHANGED <<head, tail, last, desc>>, rpc' # "error",
             rpc' \in {"fetch", "copy"} => ~desc[Mask(rslot' + rn' - 1)].next,
             rpc' = "copy" => rdesc' = desc[Mask(rslot')]
      PROVE  Complete'
  <2>1. Used' = Used /\ Published' = Published
    BY <1>1, SameIndices
  <2>2. QED
    BY <1>w, <1>1, <2>1 DEF Complete, At, Mask
<1>2. CASE ReadBegin
  <2>1. /\ rslot' = last /\ rn' = Used /\ UNCHANGED <<head, tail, last, desc>>
        /\ rpc' \in {"refill", "fetch"}
    BY <1>2 DEF ReadBegin, Used, shared
  <2>2. rpc' = "fetch" => Used >= 1
    BY <1>2, <2>1, TypeRead DEF TypeInv
  <2>3. Used >= 1 => Mask(rslot' + rn' - 1) = At(Used - 1)
    <3>1. Used >= 1 => rslot' + rn' - 1 = last + (Used - 1)
      BY <2>1
    <3>2. QED
      BY <3>1 DEF At
  <2>4. QED
    BY <1>1, <2>1, <2>2, <2>3 DEF Complete
<1>3. CASE ReadFetch
  <2>1. /\ rpc = "fetch" /\ rpc' = "copy" /\ rdesc' = desc[Mask(rslot)]
        /\ UNCHANGED <<head, tail, last, desc, rslot, rn>>
    BY <1>3 DEF ReadFetch, shared
  <2>2. QED
    BY <1>1, <2>1 DEF Complete
<1>4. CASE ReadCopy
  <2>1. /\ rpc = "copy" /\ rslot' = rslot + 1 /\ rn' = rn - 1
        /\ UNCHANGED <<head, tail, last, desc>>
    BY <1>4 DEF ReadCopy, shared
  <2>2. rpc' \in {"panic", "refill", "error", "fetch"}
    BY <1>4, ReadCopyNext
  <2>3. rslot' + rn' - 1 = rslot + rn - 1
    BY <2>1
  <2>4. rpc' # "error"
    <3>1. CASE rn = 1
      <4>1. rslot + rn - 1 = rslot
        BY <3>1
      <4>2. ~rdesc.next
        BY <2>1, <4>1 DEF Complete
      <4>3. rlen \in Nat /\ ReadCap \in Nat
        BY DataAssumption DEF TypeOK
      <4>4. rpc' \in {"panic", "refill"}
        BY <1>4, <4>2, <4>3 DEF ReadCopy
      <4>5. QED
        BY <4>4
    <3>2. CASE rn # 1
      <4>1. rlen \in Nat /\ ReadCap \in Nat /\ rdesc.next \in BOOLEAN
        BY DataAssumption DEF TypeOK, Desc
      <4>2. QED
        BY <1>4, <3>2, <4>1 DEF ReadCopy
    <3>3. QED
      BY <3>1, <3>2
  <2>5. ~desc[Mask(rslot' + rn' - 1)].next
    BY <2>1, <2>3 DEF Complete
  <2>6. QED
    BY <1>1, <2>1, <2>2, <2>4, <2>5
<1>5. CASE ReadRelease \/ ReadRefill
  <2> DEFINE j == rslot - last
  <2>1. /\ j \in 0 .. Used /\ last' = Trunc(last + j) /\ Used' = Used - j
        /\ Published' = Published /\ rpc' \in {"idle", "reset"} /\ desc' = desc
    BY <1>5, ConsumeMoves
  <2> HIDE DEF j
  <2>2. Used' > 0 => ~desc'[At(Used - 1)].next
    BY <2>1 DEF Complete
  <2>3. Used' > 0 => Mask(last' + (Used' - 1)) = At(Used - 1)
    <3>1. CASE Used' > 0
      <4>1. PICK m \in Nat : m = Used - j - 1
        BY <2>1, <3>1
      <4>2. At(m)' = At(j + m) /\ j + m = Used - 1 /\ m = Used' - 1
        BY <2>1, <4>1, AtMoves
      <4>3. Mask(last' + m) = At(Used - 1)
        BY <4>2 DEF At, Mask
      <4>4. QED
        BY <4>2, <4>3
    <3>2. QED
      BY <3>1
  <2>4. QED
    BY <1>w, <2>1, <2>2, <2>3 DEF Complete, At, Mask
<1>6. CASE ReadReset
  <2>1. rpc' = "reset" /\ UNCHANGED <<head, tail, last>>
    BY <1>6 DEF ReadReset
  <2>2. Used' = Used /\ Published' = Published
    BY <2>1, SameIndices
  <2>3. \A s \in Slots : desc'[s].next = desc[s].next
    BY <1>6, ResetSlot
  <2>4. Used > 0 => At(Used - 1) \in Slots
    BY AtType
  <2>5. Mask(wslot - 1) \in Slots
    BY MaskType
  <2>6. QED
    BY <1>w, <2>1, <2>2, <2>3, <2>4, <2>5 DEF Complete, At, Mask
<1>7. CASE ReadOffer
  <2>1. rpc' = "idle" /\ UNCHANGED <<tail, last, desc>> /\ WriterIsServer
    BY <1>7 DEF ReadOffer, ReadIdle, IndexInv
  <2>2. Used' = Used /\ Published' = Published
    BY <2>1 DEF Used, Published
  <2>3. QED
    BY <1>w, <2>1, <2>2 DEF Complete, At, Mask
<1>8. CASE Wake
  <2>1. UNCHANGED <<head, tail, last, desc, rpc, rslot, rn, rdesc>>
    BY <1>8 DEF Wake, shared
  <2>2. QED
    BY <1>1, <2>1 DEF Complete
<1>9. QED
  BY <1>2, <1>3, <1>4, <1>5, <1>6, <1>7, <1>8 DEF ReadStep

\* ReadPacket never meets a chain that runs past the published slots.
THEOREM ChainsComplete == Spec => []NoIncompleteChain
<1> DEFINE Inv == TypeInv /\ IndexInv /\ Complete
<1>1. Init => Inv
  BY TypeInit, IndexInit, CompleteInit
<1>2. Inv /\ [Next]_vars => Inv'
  <2> SUFFICES ASSUME TypeInv, IndexInv, Complete, [Next]_vars
               PROVE  TypeInv' /\ IndexInv' /\ Complete'
    OBVIOUS
  <2>1. CASE UNCHANGED vars
    BY <2>1 DEF vars, shared, wvars, rvars, hvars, TypeInv, TypeOK, IndexInv,
                Used, Free, Published, Complete, At, Mask
  <2>2. CASE Next
    BY <2>2, TypeWrite, TypeRead, IndexWrite, IndexRead, CompleteWrite,
       CompleteRead DEF Next, TypeInv
  <2>3. QED
    BY <2>1, <2>2
<1>3. Inv => NoIncompleteChain
  BY DEF Complete, NoIncompleteChain
<1>4. QED
  BY <1>1, <1>2, <1>3, PTL DEF Spec

-----------------------------------------------------------------------------
(* Offered slots are whole buffers                                         *)

\* setDescLength stores 16 bits: the server of an M2S ring finds a buffer's size
\* in a descriptor only if it fits into them.
SizeFits == WriterIsServer => BufSize < LenMod

\* On an M2S ring no descriptor claims more than a buffer, and the free ones,
\* except the one a WritePacket is about to publish, and the ones the refill has
\* already reset claim exactly one.
Whole ==
  WriterIsServer =>
    /\ \A s \in Slots : desc[s].len <= BufSize
    /\ \A k \in Used .. Used + Free - 1 :
         (wpc = "publish" => k # Used + (wslot - Published) - 1) =>
           desc[At(k)].len = BufSize
    /\ wpc \in {"fill", "chain"} => wdesc.len = BufSize
    /\ wpc = "put" => wdesc.len <= BufSize
    /\ rpc = "reset" =>
         \A k \in Used + Free .. Used + Free + (rhead - head) - 1 :
           desc[At(k)].len = BufSize

\* initializeQueues gives every descriptor the length of a buffer.
LEMMA WholeInit == Init => Whole
<1> SUFFICES ASSUME Init PROVE Whole
  OBVIOUS
<1>1. TypeOK
  BY TypeInit DEF TypeInv
<1>2. \A s \in Slots : desc[s].len = BufSize
  BY DEF Init
<1>3. \A k \in Used .. Used + Free - 1 : At(k) \in Slots
  BY <1>1, AtType, IndexType DEF Index
<1>4. \A s \in Slots : desc[s].len <= BufSize
  BY <1>2, DataAssumption
<1>5. QED
  BY <1>2, <1>3, <1>4 DEF Init, Whole

\* Setting the length of a slot that held at most a buffer makes it a buffer.
LEMMA ResetWhole ==
  ASSUME SizeFits, WriterIsServer, NEW n \in Nat, n <= BufSize
  PROVE  SetDescLength(n) = BufSize
<1>1. BufSize < LenMod /\ BufSize \in Nat /\ LenMod \in Nat
  BY DataAssumption DEF SizeFits
<1>2. n % LenMod = n /\ BufSize % LenMod = BufSize
  BY <1>1
<1>3. QED
  BY <1>1, <1>2 DEF SetDescLength

\* WritePacket shortens no slot but the one it publishes.
LEMMA WholeWrite ==
  ASSUME TypeInv, IndexInv, Complete, Whole,
         WriteNoSpace \/ (\E p \in Packets : WriteBegin(p)) \/ WriteStep
  PROVE  Whole'
<1>0. TypeOK /\ UNCHANGED <<last, rpc, rhead>>
  BY DEF TypeInv, WriteNoSpace, WriteBegin, WriteStep, WriteFetch, WriteFill,
         WriteChain, WriteGiveUp, WritePut, WritePublish, WriteSignal, rvars
<1> USE <1>0, IndexType, RingAssumption, DataAssumption DEF Index
<1>a. SUFFICES ASSUME WriterIsServer PROVE Whole'
  BY DEF Whole
<1> USE <1>a
\* Steps that leave the descriptors and indices alone.
<1>1. ASSUME UNCHANGED <<head, tail, desc>>, wpc # "publish", wpc' # "publish",
             wpc' \in {"fill", "chain"} => wdesc'.len = BufSize,
             wpc' = "put" => wdesc'.len <= BufSize
      PROVE  Whole'
  <2>1. Used' = Used /\ Free' = Free
    BY <1>1, SameIndices
  <2>2. QED
    BY <1>1, <2>1 DEF Whole, At, Mask
<1>2. CASE WriteNoSpace
  <2>1. wpc = "idle" /\ UNCHANGED <<head, tail, desc, wpc>>
    BY <1>2 DEF WriteNoSpace, shared, wvars
  <2>2. QED
    BY <1>1, <2>1
<1>3. CASE \E p \in Packets : WriteBegin(p)
  <2>1. wpc = "idle" /\ wpc' = "fetch" /\ UNCHANGED <<head, tail, desc>>
    BY <1>3 DEF WriteBegin, shared
  <2>2. QED
    BY <1>1, <2>1
<1>4. CASE WriteFetch
  <2>1. /\ wpc = "fetch" /\ wpc' = "fill" /\ UNCHANGED <<head, tail, desc>>
        /\ wdesc' = desc[Mask(wslot)]
    BY <1>4 DEF WriteFetch, shared
  <2>2. desc[Mask(wslot)].len = BufSize
    BY <2>1, WriterAt DEF Whole
  <2>3. QED
    BY <1>1, <2>1, <2>2
<1>5. CASE WriteFill
  <2> DEFINE n == Least(wdesc.len, Len(wpkt))
  <2>1. /\ wpc = "fill" /\ UNCHANGED <<head, tail, desc>>
        /\ wdesc' = FilledDesc(wdesc, n)
        /\ wpc' = IF wn + n < Len(wpkt) THEN "chain" ELSE "put"
    BY <1>5 DEF WriteFill
  <2>2. wdesc.len = BufSize /\ Len(wpkt) \in Nat /\ wn \in Nat
    BY <2>1 DEF Whole, TypeInv, TypeOK
  <2>3. n \in Nat /\ n <= BufSize /\ (wn + n < Len(wpkt) => n = BufSize)
    BY <2>2 DEF Least
  <2> HIDE DEF n
  <2>4. wdesc'.len = n
    BY <2>1 DEF FilledDesc
  <2>5. QED
    BY <1>1, <2>1, <2>3, <2>4
<1>6. CASE WriteGiveUp
  <2>1. wpc = "chain" /\ wpc' = "idle" /\ UNCHANGED <<head, tail, desc>>
    BY <1>6 DEF WriteGiveUp, WriteIdle, shared
  <2>2. QED
    BY <1>1, <2>1
<1>7. CASE WriteSignal
  <2>1. wpc = "signal" /\ wpc' = "idle" /\ UNCHANGED <<head, tail, desc>>
    BY <1>7 DEF WriteSignal, WriteIdle, shared
  <2>2. QED
    BY <1>1, <2>1
\* Steps that write the descriptor of the writer's slot.
<1>8. ASSUME NEW d \in Desc, desc' = [desc EXCEPT ![Mask(wslot)] = d],
             UNCHANGED <<head, tail>>, wpc \in {"chain", "put"},
             d.len <= BufSize,
             \/ wpc' = "fetch" /\ d.len = BufSize
             \/ wpc' = "publish" /\ wslot' = wslot + 1
      PROVE  Whole'
  <2>1. Used' = Used /\ Free' = Free /\ Published' = Published
    BY <1>8, SameIndices
  <2>2. desc \in [Slots -> Desc] /\ Mask(wslot) \in Slots
    BY MaskType DEF TypeOK
  <2>3. \A s \in Slots : desc'[s].len <= BufSize
    BY <1>8, <2>2 DEF Whole
  <2> DEFINE w == Used + (wslot - Published)
  <2>4. w \in Used .. Used + Free - 1 /\ w \in 0 .. RingSize - 1
        /\ Mask(wslot) = At(w) /\ Used + Free <= RingSize
    BY <1>8, WriterAt DEF IndexInv
  <2>5. \A k \in 0 .. RingSize - 1 : k # w => desc'[At(k)] = desc[At(k)]
    BY <1>8, <2>2, WriterApart, AtType
  <2>6. desc'[At(w)] = d
    BY <1>8, <2>2, <2>4
  <2>w. w \in Int /\ (wpc' = "publish" => w = Used + (wslot' - Published) - 1)
    <3>1. Used \in Int /\ wslot \in Int /\ Published \in Int
      OBVIOUS
    <3>2. wpc' = "publish" => wslot' = wslot + 1
      BY <1>8
    <3> HIDE IndexType, RingAssumption DEF Index
    <3>3. QED
      BY <3>1, <3>2
  <2> HIDE DEF w
  <2>7. ASSUME NEW k \in Used .. Used + Free - 1,
               wpc' = "publish" => k # Used + (wslot' - Published) - 1
        PROVE  desc'[At(k)].len = BufSize
    <3>1. k \in 0 .. RingSize - 1
      <4>1. Used \in Nat /\ Free \in Nat /\ RingSize \in Nat
        OBVIOUS
      <4> HIDE IndexType, RingAssumption DEF Index
      <4>2. QED
        BY <2>4, <4>1
    <3>2. CASE k = w
      BY <1>8, <2>6, <2>7, <2>w, <3>2
    <3>3. CASE k # w
      BY <1>8, <2>5, <3>1, <3>3 DEF Whole
    <3>4. QED
      BY <3>2, <3>3
  <2>8. ASSUME rpc = "reset",
               NEW k \in Used + Free .. Used + Free + (rhead - head) - 1
        PROVE  desc'[At(k)].len = BufSize
    <3>a. rn \in Nat /\ rhead \in Int /\ head \in Int
      OBVIOUS
    <3>1. /\ Used \in Nat /\ Free \in Nat /\ rhead - head \in Int
          /\ RingSize \in Nat
      OBVIOUS
    <3>b. (rhead - head) + rn = RingSize - (Used + Free)
      BY <2>8 DEF IndexInv
    <3>0. rhead - head <= RingSize - (Used + Free)
      <4> HIDE IndexType, RingAssumption DEF Index
      <4>1. QED
        BY <3>a, <3>1, <3>b
    <3>2. k >= Used + Free /\ k <= Used + Free + (rhead - head) - 1 /\ k \in Int
      BY <3>1
    <3>3. k \in 0 .. RingSize - 1 /\ k # w
      <4> HIDE IndexType, RingAssumption DEF Index
      <4>1. QED
        BY <2>4, <2>w, <3>0, <3>1, <3>2
    <3>4. QED
      BY <2>5, <2>8, <3>3 DEF Whole
  <2>9. QED
    BY <1>8, <2>1, <2>3, <2>7, <2>8 DEF Whole, At, Mask
<1>9. CASE WriteChain
  <2>1. wdesc \in Desc /\ wpc = "chain"
    BY <1>9 DEF TypeOK, WriteChain
  <2>2. wdesc.len = BufSize
    BY <2>1 DEF Whole
  <2> DEFINE d == [wdesc EXCEPT !.next = TRUE]
  <2>3. d \in Desc /\ d.len = wdesc.len
    BY <2>1 DEF Desc
  <2>4. /\ desc' = [desc EXCEPT ![Mask(wslot)] = d]
        /\ UNCHANGED <<head, tail>> /\ wpc' = "fetch"
    BY <1>9 DEF WriteChain
  <2> HIDE DEF d
  <2>a. d.len <= BufSize
    BY <2>2, <2>3
  <2>5. QED
    BY <1>8, <2>a, <2>1, <2>2, <2>3, <2>4
<1>10. CASE WritePut
  <2>1. /\ desc' = [desc EXCEPT ![Mask(wslot)] = wdesc]
        /\ UNCHANGED <<head, tail>> /\ wpc = "put" /\ wpc' = "publish"
        /\ wslot' = wslot + 1
    BY <1>10 DEF WritePut
  <2>2. wdesc \in Desc /\ wdesc.len <= BufSize
    BY <2>1 DEF TypeOK, Whole
  <2>3. QED
    BY <1>8, <2>1, <2>2
<1>11. CASE WritePublish
  <2>1. wpc = "publish" /\ wpc' = "signal" /\ UNCHANGED <<desc, head>>
    BY <1>11 DEF WritePublish
  <2>2. PICK j \in Nat : j = wslot - Published /\ j >= 1 /\ j <= Free
    BY <2>1 DEF Complete, IndexInv
  <2>3. Used' = Used + j /\ Free' = Free - j
    BY <1>11, <2>2, PublishMoves
  <2>4. ASSUME NEW k \in Used' .. Used' + Free' - 1
        PROVE  /\ k \in Used .. Used + Free - 1
               /\ k # Used + (wslot - Published) - 1
    <3>1. Used \in Nat /\ Free \in Nat
      OBVIOUS
    <3>2. k \in Used + j .. Used + j + (Free - j) - 1
      BY <2>3
    <3>3. k \in Int /\ k >= Used + j /\ k <= Used + Free - 1
      BY <3>1, <3>2
    <3> HIDE IndexType, RingAssumption DEF Index
    <3>4. k < Used + Free /\ k # Used + j - 1
      BY <2>2, <3>1, <3>3
    <3>5. QED
      BY <2>2, <3>1, <3>3, <3>4
  <2>5. Used' + Free' = Used + Free
    <3>1. Used \in Nat /\ Free \in Nat
      OBVIOUS
    <3> HIDE IndexType, RingAssumption DEF Index
    <3>2. QED
      BY <2>2, <2>3, <3>1
  <2>6. QED
    BY <2>1, <2>4, <2>5 DEF Whole, At, Mask
<1>12. QED
  BY <1>2, <1>3, <1>4, <1>5, <1>6, <1>7, <1>9, <1>10, <1>11 DEF WriteStep

\* The refill makes whole buffers of the slots it hands back.
LEMMA WholeRead ==
  ASSUME SizeFits, TypeInv, IndexInv, Whole, ReadBegin \/ ReadStep \/ Wake
  PROVE  Whole'
<1>0. TypeOK /\ UNCHANGED wvars
  BY DEF TypeInv, ReadBegin, ReadStep, ReadFetch, ReadCopy, ReadRelease,
         ReadRefill, ReadReset, ReadOffer, Wake
<1>w. UNCHANGED <<wpc, wslot, wdesc>>
  BY <1>0 DEF wvars
<1>a. SUFFICES ASSUME WriterIsServer PROVE Whole'
  BY DEF Whole
<1> USE <1>0, <1>a, IndexType, RingAssumption DEF Index
<1>t. /\ Used \in Nat /\ Free \in Nat /\ RingSize \in Nat
      /\ head \in Nat /\ rhead \in Nat
  OBVIOUS
\* Steps that move no index and write no descriptor.
<1>1. ASSUME UNCHANGED <<head, tail, last, desc>>,
             rpc' # "reset" \/ UNCHANGED <<rpc, rhead>>
      PROVE  Whole'
  <2>1. Used' = Used /\ Free' = Free /\ Published' = Published
    BY <1>1, SameIndices
  <2>2. QED
    BY <1>w, <1>1, <2>1 DEF Whole, At, Mask
<1>2. CASE ReadBegin
  <2>1. UNCHANGED <<head, tail, last, desc>> /\ rpc' \in {"refill", "fetch"}
    BY <1>2 DEF ReadBegin, shared
  <2>2. QED
    BY <1>1, <2>1
<1>3. CASE ReadFetch
  <2>1. UNCHANGED <<head, tail, last, desc>> /\ rpc' = "copy"
    BY <1>3 DEF ReadFetch, shared
  <2>2. QED
    BY <1>1, <2>1
<1>4. CASE ReadCopy
  <2>1. UNCHANGED <<head, tail, last, desc>>
    BY <1>4 DEF ReadCopy, shared
  <2>2. rpc' \in {"panic", "refill", "error", "fetch"}
    BY <1>4, ReadCopyNext
  <2>3. QED
    BY <1>1, <2>1, <2>2
<1>5. CASE Wake
  <2>1. UNCHANGED <<head, tail, last, desc, rpc, rhead>>
    BY <1>5 DEF Wake, shared
  <2>2. QED
    BY <1>1, <2>1
<1>6. CASE ReadRelease
  BY <1>6 DEF ReadRelease
<1>7. CASE ReadRefill
  <2>1. PICK j \in Nat : j = rslot - last /\ j <= Used
    BY <1>7, ConsumeMoves
  <2>2. /\ last' = Trunc(last + j) /\ Used' = Used - j /\ Free' = Free
        /\ Published' = Published /\ desc' = desc
    BY <1>7, <2>1, ConsumeMoves, RefillMoves
  <2>3. rhead' = head' /\ head' \in Nat
    BY <1>7 DEF ReadRefill, shared
  <2>4. \A k \in Nat : Mask(last' + k) = At(j + k)
    <3> SUFFICES ASSUME NEW k \in Nat PROVE Mask(last' + k) = At(j + k)
      OBVIOUS
    <3>1. At(k)' = At(j + k)
      BY <2>1, <2>2, AtMoves
    <3>2. QED
      BY <3>1 DEF At, Mask
  <2>5. ASSUME NEW k \in Used' .. Used' + Free' - 1,
               wpc = "publish" => k # Used' + (wslot - Published) - 1
        PROVE  desc[Mask(last' + k)].len = BufSize
    <3>1. k \in Int /\ k >= Used - j /\ k <= Used - j + Free - 1
      BY <1>t, <2>1, <2>2
    <3>2. k \in Nat /\ j + k \in Used .. Used + Free - 1
      BY <1>t, <2>1, <3>1
    <3>3. PICK v \in Int : v = wslot - Published
      OBVIOUS
    <3>4. wpc = "publish" => k # Used - j + v - 1
      BY <2>2, <2>5, <3>3
    <3>5. wpc = "publish" => j + k # Used + v - 1
      BY <1>t, <3>1, <3>4
    <3>6. QED
      BY <2>4, <3>2, <3>3, <3>5 DEF Whole
  <2>6. ASSUME NEW k \in Used' + Free' .. Used' + Free' + (rhead' - head') - 1
        PROVE  FALSE
    <3>1. k \in Int /\ k >= Used - j + Free /\ k <= Used - j + Free + 0 - 1
      BY <1>t, <2>1, <2>2, <2>3
    <3>2. QED
      BY <1>t, <2>1, <3>1
  <2>7. QED
    BY <1>w, <2>2, <2>5, <2>6 DEF Whole, At, Mask
<1>8. CASE ReadReset
  <2>1. /\ rpc = "reset" /\ rpc' = "reset" /\ rn > 0 /\ rhead' = rhead + 1
        /\ UNCHANGED <<head, tail, last>>
    BY <1>8 DEF ReadReset
  <2>2. Used' = Used /\ Free' = Free /\ Published' = Published
    BY <2>1, SameIndices
  <2>3. PICK i \in Nat : /\ i = rhead - head
                         /\ Used + Free + i < RingSize
    BY <2>1 DEF IndexInv
  <2>4. PICK c \in 0 .. RingSize - 1 : c = Used + Free + i
    BY <1>t, <2>3
  <2>5. Mask(rhead) = At(c)
    <3>1. rhead = head + i
      BY <1>t, <2>3
    <3>2. QED
      BY <2>4, <3>1, AtHead
  <2>6. /\ Mask(rhead) \in Slots
        /\ \A s \in Slots : s # Mask(rhead) => desc'[s].len = desc[s].len
        /\ desc'[Mask(rhead)].len = SetDescLength(desc[Mask(rhead)].len)
    BY <1>8, ResetSlot
  <2>7. desc'[At(c)].len = BufSize
    <3>1. desc[Mask(rhead)].len \in Nat /\ desc[Mask(rhead)].len <= BufSize
      BY <2>6 DEF Whole, TypeOK, Desc
    <3>2. QED
      BY <2>5, <2>6, <3>1, ResetWhole
  <2>8. \A s \in Slots : desc'[s].len <= BufSize
    <3> SUFFICES ASSUME NEW s \in Slots PROVE desc'[s].len <= BufSize
      OBVIOUS
    <3>1. CASE s = Mask(rhead)
      BY <2>5, <2>7, <3>1, DataAssumption
    <3>2. CASE s # Mask(rhead)
      BY <2>6, <3>2 DEF Whole
    <3>3. QED
      BY <3>1, <3>2
  <2>9. \A k \in 0 .. RingSize - 1 : k # c => desc'[At(k)].len = desc[At(k)].len
    <3> SUFFICES ASSUME NEW k \in 0 .. RingSize - 1, k # c
                 PROVE  desc'[At(k)].len = desc[At(k)].len
      OBVIOUS
    <3>1. At(k) # Mask(rhead) /\ At(k) \in Slots
      BY <2>5, AtApart, AtType
    <3>2. QED
      BY <2>6, <3>1
  <2>10. ASSUME NEW k \in Used .. Used + Free - 1,
                wpc = "publish" => k # Used + (wslot - Published) - 1
         PROVE  desc'[At(k)].len = BufSize
    <3>1. k \in 0 .. RingSize - 1 /\ k # c
      BY <1>t, <2>3, <2>4
    <3>2. QED
      BY <2>9, <2>10, <3>1 DEF Whole
  <2>11. ASSUME NEW k \in Used + Free .. Used + Free + (rhead' - head) - 1
         PROVE  desc'[At(k)].len = BufSize
    <3>1. k \in Int /\ k >= Used + Free /\ k <= c
      BY <1>t, <2>1, <2>3, <2>4
    <3>2. CASE k = c
      BY <2>7, <3>2
    <3>3. CASE k # c
      <4>1. k \in 0 .. RingSize - 1
            /\ k \in Used + Free .. Used + Free + (rhead - head) - 1
        BY <1>t, <2>3, <2>4, <3>1, <3>3
      <4>2. QED
        BY <2>1, <2>9, <3>3, <4>1 DEF Whole
    <3>4. QED
      BY <3>2, <3>3
  <2>12. QED
    BY <1>w, <2>1, <2>2, <2>8, <2>10, <2>11 DEF Whole, At, Mask
<1>9. CASE ReadOffer
  <2>1. /\ rpc = "reset" /\ rn = 0 /\ rpc' = "idle"
        /\ UNCHANGED <<tail, last, desc>>
    BY <1>9 DEF ReadOffer, ReadIdle
  <2>2. Used' = Used /\ Free' = RingSize - Used /\ Published' = Published
    BY <1>9, <2>1, OfferMoves DEF Published
  <2>3. rhead - head = RingSize - (Used + Free)
    BY <2>1 DEF IndexInv
  <2>4. ASSUME NEW k \in Used .. Used + (RingSize - Used) - 1,
               wpc = "publish" => k # Used + (wslot - Published) - 1
        PROVE  desc[At(k)].len = BufSize
    <3>1. \/ k \in Used .. Used + Free - 1
          \/ k \in Used + Free .. Used + Free + (rhead - head) - 1
      BY <1>t, <2>3
    <3>2. QED
      BY <2>1, <2>4, <3>1 DEF Whole
  <2>5. QED
    BY <1>w, <2>1, <2>2, <2>4 DEF Whole, At, Mask
<1>10. QED
  BY <1>2, <1>3, <1>4, <1>5, <1>6, <1>7, <1>8, <1>9 DEF ReadStep

\* What the provers need of the ring from here on.
DataInv == TypeInv /\ IndexInv /\ Complete /\ Whole

\* All of it is inductive together.
LEMMA DataNext ==
  ASSUME SizeFits, DataInv, [Next]_vars
  PROVE  DataInv'
<1>0. TypeInv /\ TypeOK /\ IndexInv /\ Complete /\ Whole
  BY DEF DataInv, TypeInv
<1>1. CASE UNCHANGED vars
  BY <1>0, <1>1 DEF vars, shared, wvars, rvars, hvars, TypeInv, TypeOK, IndexInv,
                    Used, Free, Published, Complete, Whole, At, Mask, DataInv
<1>2. CASE Next
  <2>1. CASE WriteNoSpace \/ (\E p \in Packets : WriteBegin(p)) \/ WriteStep
    BY <1>0, <2>1, TypeWrite, IndexWrite, CompleteWrite, WholeWrite DEF DataInv
  <2>2. CASE ReadBegin \/ ReadStep \/ Wake
    BY <1>0, <2>2, TypeRead, IndexRead, CompleteRead, WholeRead DEF DataInv
  <2>3. QED
    BY <1>2, <2>1, <2>2 DEF Next
<1>3. QED
  BY <1>1, <1>2

\* It holds at first.
LEMMA DataInit == Init => DataInv
BY TypeInit, IndexInit, CompleteInit, WholeInit DEF DataInv

\* Every slot that is free while no WritePacket runs has the length of a whole
\* packet buffer, whatever packets went through it or were given up in it, as
\* long as that length fits into the 16 bits that setDescLength stores.
THEOREM OffersWholeBuffers == SizeFits => (Spec => []OfferedSlotsFull)
<1>1. DataInv => OfferedSlotsFull
  <2> SUFFICES ASSUME DataInv, WriterIsServer, wpc = "idle",
                      NEW k \in 0 .. Free - 1
               PROVE  desc[Mask(Published + k)].len = BufSize
    BY DEF OfferedSlotsFull
  <2>1. TypeOK /\ Whole
    BY DEF DataInv, TypeInv
  <2>2. Used \in Nat /\ Free \in Nat
    BY <2>1, IndexType, RingAssumption DEF Index
  <2>3. k \in Nat /\ Used + k \in Used .. Used + Free - 1
    BY <2>2
  <2>4. Mask(Published + k) = At(Used + k)
    BY <2>1, <2>3, AtPublished
  <2>5. QED
    BY <2>1, <2>3, <2>4 DEF Whole
<1>2. SizeFits => (DataInv /\ [Next]_vars => DataInv')
  BY DataNext
<1> SUFFICES ASSUME SizeFits PROVE Spec => []OfferedSlotsFull
  OBVIOUS
<1>3. DataInv /\ [Next]_vars => DataInv'
  BY <1>2
<1>4. QED
  BY <1>1, <1>3, DataInit, PTL DEF Spec
=============================================================================
