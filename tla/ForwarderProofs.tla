-------------------------- MODULE ForwarderProofs --------------------------
(***************************************************************************)
(* Proofs about the forwarder: its types and limits, that every mbuf has   *)
(* one holder, and that the packets of a flow stay in order, for any       *)
(* number of mbufs, ports, cores, flows and packets.                       *)
(***************************************************************************)
EXTENDS Forwarder, FiniteSetTheorems, SequenceTheorems, WellFoundedInduction, TLAPS

-----------------------------------------------------------------------------
(* The constants                                                           *)

\* A core that has memif ports has at least one.
LEMMA Share ==
  ASSUME NEW a \in Nat \ {0}, NEW b \in Nat \ {0}, a % b = 0
  PROVE  a \div b \in Nat \ {0}
<1>1. a \div b \in Int /\ a = b * (a \div b) + (a % b)
  OBVIOUS
<1>2. ASSUME a \div b <= 0 PROVE FALSE
  <2> DEFINE q == a \div b
  <2>1. q \in Int /\ q <= 0 /\ a = b * q
    BY <1>1, <1>2
  <2> HIDE DEF q
  <2>2. b * q <= 0
    BY <2>1
  <2> QED BY <2>1, <2>2
<1> QED BY <1>1, <1>2

\* The product of two positive numbers is positive.
LEMMA Product ==
  ASSUME NEW a \in Nat \ {0}, NEW b \in Nat \ {0}
  PROVE  a * b \in Nat \ {0}
OBVIOUS

\* The counts and sizes computed from the constants are positive, and the port
\* of a packet is one of its core's.
LEMMA Constants ==
  /\ PerRx \in Nat \ {0} /\ PerTx \in Nat \ {0}
  /\ BurstSize \in Nat \ {0} /\ MemifBufSize \in Nat \ {0} /\ EthBufSize \in Nat \ {0}
  /\ CtrlRingCap \in Nat /\ MaxPackets \in Nat
  /\ 0 \in TxCores /\ 0 \in RxCores /\ IsFiniteSet(Mbufs)
  /\ \A f \in Flows : Rss[f] \in RxCores
  /\ \A p \in Packets : p.flow \in UdpFlows => MemifOf(p) \in Ports
<1>1. PerRx \in Nat \ {0}
  BY ForwarderAssumption, Share DEF ForwarderAssumption, PerRx
<1>2. PerTx \in Nat \ {0}
  BY ForwarderAssumption, Share DEF ForwarderAssumption, PerTx
<1>3. BurstSize \in Nat \ {0} /\ MemifBufSize \in Nat \ {0}
  BY ForwarderAssumption DEF ForwarderAssumption, MemifBufSize
<1>4. EthBufSize \in Nat \ {0}
  BY <1>2, <1>3, Product DEF EthBufSize, MemifBufSize
<1>5. CtrlRingCap \in Nat /\ MaxPackets \in Nat /\ IsFiniteSet(Mbufs)
  BY ForwarderAssumption DEF ForwarderAssumption, CtrlRingCap
<1>6. 0 \in TxCores /\ 0 \in RxCores
  BY ForwarderAssumption DEF ForwarderAssumption, TxCores, RxCores
<1>7. \A f \in Flows : Rss[f] \in RxCores
  BY ForwarderAssumption DEF ForwarderAssumption, Flows, RxCores
<1>8. \A p \in Packets : p.flow \in UdpFlows => MemifOf(p) \in Ports
  <2>1. \A f \in UdpFlows : BitAnd(SrcHash[f], PerRx - 1) \in 0 .. PerRx - 1
    BY ForwarderAssumption DEF ForwarderAssumption, PerRx
  <2> QED BY <2>1 DEF MemifOf, Ports
<1> QED BY <1>1, <1>2, <1>3, <1>4, <1>5, <1>6, <1>7, <1>8

-----------------------------------------------------------------------------
(* Sequences, sets of numbers, and the pool                                *)

\* What a burst takes and what it leaves.
LEMMA FirstRest ==
  ASSUME NEW S, NEW s \in Seq(S), NEW n \in 0 .. Len(s)
  PROVE  /\ First(s, n) \in Seq(S) /\ Len(First(s, n)) = n
         /\ \A i \in 1 .. n : First(s, n)[i] = s[i]
         /\ Rest(s, n) \in Seq(S) /\ Len(Rest(s, n)) = Len(s) - n
         /\ \A i \in 1 .. Len(s) - n : Rest(s, n)[i] = s[n + i]
<1>1. Len(s) \in Nat /\ (\A i \in 1 .. Len(s) : s[i] \in S) /\ n \in Nat
  BY LenProperties, ElementOfSeq
<1>2. \A i \in 1 .. n : s[i] \in S
  BY <1>1
<1>3. \A i \in n + 1 .. Len(s) : s[i] \in S
  BY <1>1
<1>4. /\ SubSeq(s, 1, n) \in Seq(S)
      /\ Len(SubSeq(s, 1, n)) = IF 1 <= n THEN n - 1 + 1 ELSE 0
      /\ \A i \in 1 .. n - 1 + 1 : SubSeq(s, 1, n)[i] = s[1 + i - 1]
  BY <1>1, <1>2, SubSeqProperties
<1>5. /\ SubSeq(s, n + 1, Len(s)) \in Seq(S)
      /\ Len(SubSeq(s, n + 1, Len(s))) =
           IF n + 1 <= Len(s) THEN Len(s) - (n + 1) + 1 ELSE 0
      /\ \A i \in 1 .. Len(s) - (n + 1) + 1 :
           SubSeq(s, n + 1, Len(s))[i] = s[n + 1 + i - 1]
  <2>1. n + 1 \in Int /\ Len(s) \in Int
    BY <1>1
  <2> QED BY <2>1, <1>3, SubSeqProperties
<1>6. /\ First(s, n) \in Seq(S) /\ Len(First(s, n)) = n
      /\ \A i \in 1 .. n : First(s, n)[i] = s[i]
  BY <1>1, <1>4 DEF First
<1>7. /\ Rest(s, n) \in Seq(S) /\ Len(Rest(s, n)) = Len(s) - n
      /\ \A i \in 1 .. Len(s) - n : Rest(s, n)[i] = s[n + i]
  BY <1>1, <1>5 DEF Rest
<1> QED BY <1>6, <1>7

\* The elements of a sequence.
LEMMA RangeIs ==
  ASSUME NEW S, NEW s \in Seq(S)
  PROVE  /\ Range(s) = {s[i] : i \in 1 .. Len(s)} /\ Range(s) \subseteq S
         /\ Len(s) \in Nat /\ DOMAIN s = 1 .. Len(s)
BY LenProperties DEF Range

\* A burst and the rest have all the elements of a sequence.
LEMMA RangeSplit ==
  ASSUME NEW S, NEW s \in Seq(S), NEW n \in 0 .. Len(s)
  PROVE  Range(s) = Range(First(s, n)) \cup Range(Rest(s, n))
<1> DEFINE a == First(s, n)
           b == Rest(s, n)
<1>1. /\ a \in Seq(S) /\ Len(a) = n /\ \A i \in 1 .. n : a[i] = s[i]
      /\ b \in Seq(S) /\ Len(b) = Len(s) - n /\ \A i \in 1 .. Len(s) - n : b[i] = s[n + i]
  BY FirstRest
<1> HIDE DEF a, b
<1>2. /\ Range(s) = {s[i] : i \in 1 .. Len(s)} /\ Range(a) = {a[i] : i \in 1 .. Len(a)}
      /\ Range(b) = {b[i] : i \in 1 .. Len(b)} /\ Len(s) \in Nat
  BY <1>1, RangeIs
<1>3. ASSUME NEW i \in 1 .. Len(s) PROVE s[i] \in Range(a) \cup Range(b)
  <2>1. CASE i <= n
    BY <2>1, <1>1, <1>2
  <2>2. CASE i > n
    <3>1. i - n \in 1 .. Len(s) - n /\ n + (i - n) = i
      BY <2>2, <1>2
    <3> QED BY <3>1, <1>1, <1>2
  <2> QED BY <2>1, <2>2, <1>2
<1>4. ASSUME NEW i \in 1 .. n PROVE a[i] \in Range(s)
  BY <1>1, <1>2
<1>5. ASSUME NEW i \in 1 .. Len(s) - n PROVE b[i] \in Range(s)
  BY <1>1, <1>2
<1>6. Range(s) \subseteq Range(a) \cup Range(b)
  BY <1>2, <1>3
<1>7. Range(a) \subseteq Range(s)
  BY <1>1, <1>2, <1>4
<1>8. Range(b) \subseteq Range(s)
  BY <1>1, <1>2, <1>5
<1> QED BY <1>6, <1>7, <1>8 DEF a, b

\* The elements after an element was appended.
LEMMA RangeAppend ==
  ASSUME NEW S, NEW s \in Seq(S), NEW e \in S
  PROVE  Range(Append(s, e)) = Range(s) \cup {e}
<1> DEFINE t == Append(s, e)
<1>1. /\ t \in Seq(S) /\ Len(t) = Len(s) + 1 /\ t[Len(s) + 1] = e
      /\ \A i \in 1 .. Len(s) : t[i] = s[i]
  BY AppendProperties
<1> HIDE DEF t
<1>2. /\ Range(s) = {s[i] : i \in 1 .. Len(s)} /\ Range(t) = {t[i] : i \in 1 .. Len(t)}
      /\ Len(s) \in Nat
  BY <1>1, RangeIs
<1> QED BY <1>1, <1>2 DEF t

\* The elements after the first one was removed.
LEMMA RangeTail ==
  ASSUME NEW S, NEW s \in Seq(S), s # <<>>
  PROVE  /\ Range(s) = Range(Tail(s)) \cup {Head(s)} /\ Head(s) = s[1]
         /\ Head(s) \in S /\ Tail(s) \in Seq(S) /\ Len(Tail(s)) = Len(s) - 1
         /\ \A i \in 1 .. Len(Tail(s)) : Tail(s)[i] = s[i + 1]
         /\ Len(s) \in Nat \ {0}
<1> DEFINE t == Tail(s)
<1>1. /\ Head(s) \in S /\ Head(s) = s[1] /\ t \in Seq(S) /\ Len(t) = Len(s) - 1
      /\ \A i \in 1 .. Len(t) : t[i] = s[i + 1]
  BY HeadTailProperties
<1> HIDE DEF t
<1>2. /\ Range(s) = {s[i] : i \in 1 .. Len(s)} /\ Range(t) = {t[i] : i \in 1 .. Len(t)}
      /\ Len(s) \in Nat \ {0}
  BY <1>1, RangeIs, EmptySeq
<1>3. ASSUME NEW i \in 1 .. Len(s) PROVE s[i] \in Range(t) \cup {Head(s)}
  <2>1. CASE i = 1
    BY <2>1, <1>1
  <2>2. CASE i # 1
    <3>1. i - 1 \in 1 .. Len(t) /\ (i - 1) + 1 = i
      BY <2>2, <1>1, <1>2
    <3> QED BY <3>1, <1>1, <1>2
  <2> QED BY <2>1, <2>2
<1>4. Range(s) = Range(t) \cup {Head(s)}
  BY <1>1, <1>2, <1>3
<1> QED BY <1>1, <1>2, <1>4 DEF t

\* Max is an element of a non-empty bounded set of numbers, and the largest.
LEMMA MaxIs ==
  ASSUME NEW N \in Nat, NEW S, S \subseteq 0 .. N, S # {}
  PROVE  Max(S) \in S /\ \A x \in S : x <= Max(S)
<1> DEFINE T == {y \in 0 .. N : N - y \in S}
           R == OpToRel(<, Nat)
<1>1. T \subseteq Nat
  OBVIOUS
<1>2. T # {}
  <2>1. PICK x \in S : TRUE
    OBVIOUS
  <2>2. N - x \in T
    BY <2>1
  <2> QED BY <2>2
<1>3. \A x, y \in Nat : <<x, y>> \in R <=> x < y
  BY Zenon DEF OpToRel
<1> HIDE DEF R
<1>4. PICK t \in T : \A y \in T : ~ (<<y, t>> \in R)
  BY <1>1, <1>2, WFMin, NatLessThanWellFounded DEF R
<1>5. ASSUME NEW y \in T PROVE t <= y
  <2>1. y \in Nat /\ t \in Nat
    BY <1>1
  <2>2. ~ (y < t)
    BY <2>1, <1>3, <1>4, Zenon
  <2> QED BY <2>1, <2>2
<1>6. ASSUME NEW x \in S PROVE N - t >= x
  <2>1. N - x \in T
    OBVIOUS
  <2> QED BY <2>1, <1>5
<1>7. \E x \in S : \A y \in S : x >= y
  BY <1>6
<1>8. Max(S) \in S /\ \A y \in S : Max(S) >= y
  BY <1>7 DEF Max
<1> QED BY <1>8

\* A finite set as a sequence has every element once.
LEMMA SeqOfSet ==
  ASSUME NEW S, IsFiniteSet(S)
  PROVE  /\ SetToSeq(S) \in Seq(S) /\ IsInjective(SetToSeq(S))
         /\ Len(SetToSeq(S)) = Cardinality(S) /\ Cardinality(S) \in Nat
         /\ S # {} => Cardinality(S) # 0
<1>1. Cardinality(S) \in Nat /\ ExistsBijection(1 .. Cardinality(S), S)
  BY FS_CardinalityType
<1>2. \E g \in [1 .. Cardinality(S) -> S] : IsInjective(g)
  BY <1>1 DEF ExistsBijection, Bijection, Injection, IsInjective
<1>3. SetToSeq(S) \in [1 .. Cardinality(S) -> S] /\ IsInjective(SetToSeq(S))
  BY <1>2 DEF SetToSeq
<1>4. SetToSeq(S) \in Seq(S) /\ Len(SetToSeq(S)) = Cardinality(S)
  BY <1>1, <1>3
<1>5. S # {} => Cardinality(S) # 0
  BY FS_EmptySet
<1> QED BY <1>1, <1>3, <1>4, <1>5

\* A burst is a part of its queue, of bounded size.
LEMMA BurstIs ==
  ASSUME NEW S, NEW s \in Seq(S)
  PROVE  Burst(s) \in 0 .. Len(s) /\ Burst(s) <= BurstSize
BY Constants, LenProperties DEF Burst

\* What the pool hands out: different free mbufs, as many as asked for.
LEMMA AllocIs ==
  ASSUME pool \subseteq Mbufs, NEW n \in 0 .. Len(SetToSeq(pool))
  PROVE  /\ Alloc(n) \in Seq(pool) /\ Alloc(n) \in Seq(Mbufs) /\ Len(Alloc(n)) = n
         /\ IsInjective(Alloc(n)) /\ Range(Alloc(n)) \subseteq pool
<1> DEFINE s == SetToSeq(pool)
           t == Alloc(n)
<1>1. IsFiniteSet(pool)
  BY Constants, FS_Subset
<1>2. s \in Seq(pool) /\ IsInjective(s)
  BY <1>1, SeqOfSet
<1>3. t \in Seq(pool) /\ Len(t) = n /\ \A i \in 1 .. n : t[i] = s[i]
  BY <1>2, FirstRest DEF Alloc
<1> HIDE DEF s, t
<1>4. DOMAIN s = 1 .. Len(s) /\ DOMAIN t = 1 .. n /\ Len(s) \in Nat /\ n \in 0 .. Len(s)
  BY <1>2, <1>3, LenProperties DEF s
<1>5. IsInjective(t)
  BY <1>2, <1>3, <1>4 DEF IsInjective
<1>6. Range(t) \subseteq pool
  BY <1>3, RangeIs
<1>7. t \in Seq(Mbufs)
  BY <1>3, SeqMonotonic
<1> QED BY <1>3, <1>5, <1>6, <1>7 DEF t

\* The mbuf of an arriving packet is a free one.
LEMMA AllocOne ==
  ASSUME pool \subseteq Mbufs, pool # {}
  PROVE  Head(Alloc(1)) \in pool
<1> DEFINE t == Alloc(1)
<1>1. IsFiniteSet(pool)
  BY Constants, FS_Subset
<1>2. Len(SetToSeq(pool)) \in Nat \ {0}
  BY <1>1, SeqOfSet
<1>3. 1 \in 0 .. Len(SetToSeq(pool))
  BY <1>2
<1>4. t \in Seq(pool) /\ Len(t) = 1
  BY <1>3, AllocIs
<1> HIDE DEF t
<1>5. t # <<>>
  BY <1>4, EmptySeq
<1>6. Head(t) \in pool
  BY <1>4, <1>5, HeadTailProperties
<1> QED BY <1>6 DEF t

-----------------------------------------------------------------------------
(* Types and limits                                                        *)

Types ==
  /\ pool \subseteq Mbufs /\ device \subseteq Mbufs /\ lost \subseteq Mbufs
  /\ nicRx \in [RxCores -> Seq(Packets)] /\ rxPkts \in [RxCores -> Seq(Packets)]
  /\ memifBuf \in [RxCores -> [Ports -> Seq(Packets)]]
  /\ ctrlRing \in Seq(Mbufs) /\ txIdx \in [TxCores -> Nat]
  /\ txPkts \in [TxCores -> Seq(Mbufs)] /\ ethBuf \in [TxCores -> Seq(Mbufs)]
  /\ arrived \in 0 .. MaxPackets /\ newest \in [Flows -> 0 .. MaxPackets]

Limits ==
  /\ \A c \in RxCores : Len(rxPkts[c]) <= BurstSize
  /\ \A c \in RxCores : \A i \in Ports : Len(memifBuf[c][i]) < MemifBufSize
  /\ Len(ctrlRing) <= CtrlRingCap
  /\ \A c \in TxCores : txIdx[c] \in 0 .. (IF c = 0 THEN PerTx + 1 ELSE PerTx - 1)
  /\ \A c \in TxCores : Len(txPkts[c]) <= BurstSize
  /\ \A c \in TxCores : Len(ethBuf[c]) < EthBufSize

\* The newest packet of a flow is the one before the flush, or one of the
\* accepted packets of that flow.
LEMMA FlushedIs ==
  ASSUME Types, NEW accepted, accepted \subseteq Packets, NEW all, all \subseteq Packets,
         Flushed(accepted, all)
  PROVE  /\ pool' = pool \cup {p.mbuf : p \in all} /\ pool' \subseteq Mbufs
         /\ newest' \in [Flows -> 0 .. MaxPackets]
         /\ \A f \in Flows :
              \/ newest'[f] = newest[f]
              \/ \E p \in accepted : p.flow = f /\ newest'[f] = p.stamp
<1> DEFINE stamps(f) == {p.stamp : p \in {q \in accepted : q.flow = f}}
           top(f) == IF stamps(f) = {} THEN newest[f] ELSE Max(stamps(f))
<1>1. newest' = [f \in Flows |-> top(f)] /\ pool' = pool \cup {p.mbuf : p \in all}
  BY DEF Flushed
<1>2. pool' \subseteq Mbufs
  BY <1>1 DEF Types, Packets
<1>3. ASSUME NEW f \in Flows
      PROVE  /\ top(f) \in 0 .. MaxPackets
             /\ \/ top(f) = newest[f]
                \/ \E p \in accepted : p.flow = f /\ top(f) = p.stamp
  <2>1. CASE stamps(f) = {}
    BY <2>1 DEF Types
  <2>2. CASE stamps(f) # {}
    <3> DEFINE S == stamps(f)
    <3>1. \A p \in accepted : p.stamp \in 0 .. MaxPackets
      BY Constants DEF Packets
    <3>2. S \subseteq 0 .. MaxPackets
      BY <3>1
    <3>3. \A x \in S : \E p \in accepted : p.flow = f /\ x = p.stamp
      OBVIOUS
    <3>4. S # {} /\ top(f) = Max(S)
      BY <2>2
    <3> HIDE DEF S, top
    <3>5. Max(S) \in S
      BY <3>2, <3>4, Constants, MaxIs
    <3> QED BY <3>2, <3>3, <3>4, <3>5
  <2> QED BY <2>1, <2>2
<1> HIDE DEF top
<1>4. newest' \in [Flows -> 0 .. MaxPackets]
  BY <1>1, <1>3
<1> QED BY <1>1, <1>2, <1>3, <1>4

\* Initially all queues are empty and all sizes positive.
LEMMA TypesInit == Init => Types /\ Limits
<1> SUFFICES ASSUME Init PROVE Types /\ Limits
  OBVIOUS
<1>1. \A S : <<>> \in Seq(S)
  BY EmptySeq
<1>2. Types
  BY <1>1, Constants DEF Init, Types
<1>3. \A c \in RxCores : Len(rxPkts[c]) = 0 /\ \A i \in Ports : Len(memifBuf[c][i]) = 0
  BY DEF Init
<1>4. \A c \in TxCores : Len(txPkts[c]) = 0 /\ Len(ethBuf[c]) = 0 /\ txIdx[c] = 0
  BY DEF Init
<1>5. Len(ctrlRing) = 0
  BY DEF Init
<1> HIDE DEF Init
<1> QED BY <1>2, <1>3, <1>4, <1>5, Constants DEF Limits

\* Arrive puts a packet into a free mbuf and at the end of the queue of its flow.
LEMMA ArriveIs ==
  ASSUME Types, NEW f \in Flows, Arrive(f)
  PROVE  \E p \in Packets :
           /\ p.mbuf \in pool /\ p.flow = f /\ p.stamp = arrived + 1
           /\ pool' = pool \ {p.mbuf} /\ arrived' = arrived + 1 /\ arrived' \in 0 .. MaxPackets
           /\ nicRx' = [nicRx EXCEPT ![Rss[f]] = Append(@, p)]
<1> DEFINE m == Head(Alloc(1))
           p == [mbuf |-> m, flow |-> f, stamp |-> arrived + 1]
<1>1. m \in pool /\ m \in Mbufs
  BY AllocOne DEF Types, Arrive
<1>2. arrived + 1 \in 1 .. MaxPackets /\ arrived' = arrived + 1 /\ arrived' \in 0 .. MaxPackets
  BY Constants DEF Types, Arrive
<1>3. pool' = pool \ {m} /\ nicRx' = [nicRx EXCEPT ![Rss[f]] = Append(@, p)]
  BY DEF Arrive
<1> HIDE DEF m
<1>4. p \in Packets /\ p.mbuf = m /\ p.flow = f /\ p.stamp = arrived + 1
  BY <1>1, <1>2 DEF Packets
<1> HIDE DEF p
<1> QED BY <1>1, <1>2, <1>3, <1>4

\* The types and limits after a packet arrived.
LEMMA TypesArrive ==
  ASSUME Types, Limits, NEW f \in Flows, Arrive(f)
  PROVE  Types' /\ Limits'
<1>1. PICK p \in Packets :
           /\ p.mbuf \in pool /\ p.flow = f /\ p.stamp = arrived + 1
           /\ pool' = pool \ {p.mbuf} /\ arrived' = arrived + 1 /\ arrived' \in 0 .. MaxPackets
           /\ nicRx' = [nicRx EXCEPT ![Rss[f]] = Append(@, p)]
  BY ArriveIs
<1>2. Append(nicRx[Rss[f]], p) \in Seq(Packets) /\ Rss[f] \in RxCores
  BY Constants, AppendProperties DEF Types
<1>3. nicRx' \in [RxCores -> Seq(Packets)]
  BY <1>1, <1>2 DEF Types
<1>4. UNCHANGED <<rxPkts, memifBuf, ctrlRing, txIdx, txPkts, ethBuf, device, lost, newest>>
  BY DEF Arrive
<1>5. Types'
  BY <1>1, <1>3, <1>4 DEF Types
<1> QED BY <1>4, <1>5 DEF Limits

\* The buffers of core c after a drain, and what was accepted.
LEMMA RxDrainIs ==
  ASSUME Types, NEW c \in RxCores, RxDrain(c)
  PROVE  \E n \in [Ports -> Nat] :
           /\ \A i \in Ports : n[i] \in 0 .. Len(memifBuf[c][i])
           /\ Flushed(UNION {Range(First(memifBuf[c][i], n[i])) : i \in Ports},
                      UNION {Range(memifBuf[c][i]) : i \in Ports})
           /\ \A i \in Ports : Range(First(memifBuf[c][i], n[i])) \subseteq Range(memifBuf[c][i])
           /\ \A i \in Ports : Range(memifBuf[c][i]) \subseteq Packets
           /\ memifBuf' = [memifBuf EXCEPT ![c] = [i \in Ports |-> <<>>]]
<1>1. PICK n \in [Ports -> 0 .. MemifBufSize - 1] :
        /\ \A i \in Ports : n[i] <= Len(memifBuf[c][i])
        /\ Flushed(UNION {Range(First(memifBuf[c][i], n[i])) : i \in Ports},
                   UNION {Range(memifBuf[c][i]) : i \in Ports})
  BY DEF RxDrain, FlushMemif
<1>2. memifBuf' = [memifBuf EXCEPT ![c] = [i \in Ports |-> <<>>]]
  BY DEF RxDrain, FlushMemif
<1>3. n \in [Ports -> Nat]
  BY <1>1, Constants
<1>4. ASSUME NEW i \in Ports
      PROVE  /\ n[i] \in 0 .. Len(memifBuf[c][i]) /\ Range(memifBuf[c][i]) \subseteq Packets
             /\ Range(First(memifBuf[c][i], n[i])) \subseteq Range(memifBuf[c][i])
  <2>1. memifBuf[c][i] \in Seq(Packets)
    BY DEF Types
  <2>2. Len(memifBuf[c][i]) \in Nat /\ Range(memifBuf[c][i]) \subseteq Packets
    BY <2>1, RangeIs
  <2>3. n[i] \in 0 .. Len(memifBuf[c][i])
    BY <1>1, <1>3, <2>2
  <2> QED BY <2>1, <2>2, <2>3, RangeSplit
<1> QED BY <1>1, <1>2, <1>3, <1>4

\* The types and limits after a drain of an rx core.
LEMMA TypesRxDrain ==
  ASSUME Types, Limits, NEW c \in RxCores, RxDrain(c)
  PROVE  Types' /\ Limits'
<1>1. PICK n \in [Ports -> Nat] :
        /\ \A i \in Ports : n[i] \in 0 .. Len(memifBuf[c][i])
        /\ Flushed(UNION {Range(First(memifBuf[c][i], n[i])) : i \in Ports},
                   UNION {Range(memifBuf[c][i]) : i \in Ports})
        /\ \A i \in Ports : Range(First(memifBuf[c][i], n[i])) \subseteq Range(memifBuf[c][i])
        /\ \A i \in Ports : Range(memifBuf[c][i]) \subseteq Packets
        /\ memifBuf' = [memifBuf EXCEPT ![c] = [i \in Ports |-> <<>>]]
  BY RxDrainIs
<1> DEFINE accepted == UNION {Range(First(memifBuf[c][i], n[i])) : i \in Ports}
           all == UNION {Range(memifBuf[c][i]) : i \in Ports}
<1>2. all \subseteq Packets /\ accepted \subseteq Packets /\ Flushed(accepted, all)
  BY <1>1
<1> HIDE DEF all, accepted
<1>3. pool' \subseteq Mbufs /\ newest' \in [Flows -> 0 .. MaxPackets]
  BY <1>2, FlushedIs
<1>4. memifBuf' \in [RxCores -> [Ports -> Seq(Packets)]]
  BY <1>1, EmptySeq DEF Types
<1>5. UNCHANGED <<nicRx, rxPkts, ctrlRing, txIdx, txPkts, ethBuf, device, lost, arrived>>
  BY DEF RxDrain
<1>6. Types'
  BY <1>3, <1>4, <1>5 DEF Types
<1>7. ASSUME NEW d \in RxCores, NEW i \in Ports PROVE Len(memifBuf'[d][i]) < MemifBufSize
  <2>1. Len(<<>>) = 0
    OBVIOUS
  <2>2. CASE d = c
    BY <2>1, <2>2, <1>1, Constants DEF Types
  <2>3. CASE d # c
    <3>1. memifBuf'[d] = memifBuf[d]
      BY <2>3, <1>1 DEF Types
    <3> QED BY <3>1 DEF Limits
  <2> QED BY <2>2, <2>3
<1> QED BY <1>5, <1>6, <1>7 DEF Limits

\* A burst of an rx core takes the first packets of its NIC queue.
LEMMA RxBurstIs ==
  ASSUME Types, NEW c \in RxCores, RxBurst(c)
  PROVE  \E n \in 0 .. Len(nicRx[c]) :
           /\ n <= BurstSize /\ rxPkts[c] = <<>>
           /\ rxPkts' = [rxPkts EXCEPT ![c] = First(nicRx[c], n)]
           /\ nicRx' = [nicRx EXCEPT ![c] = Rest(nicRx[c], n)]
<1>1. nicRx[c] \in Seq(Packets)
  BY DEF Types
<1>2. Burst(nicRx[c]) \in 0 .. Len(nicRx[c]) /\ Burst(nicRx[c]) <= BurstSize
  BY <1>1, BurstIs
<1> QED BY <1>2 DEF RxBurst

\* The types and limits after a burst of an rx core.
LEMMA TypesRxBurst ==
  ASSUME Types, Limits, NEW c \in RxCores, RxBurst(c)
  PROVE  Types' /\ Limits'
<1>1. PICK n \in 0 .. Len(nicRx[c]) :
        /\ n <= BurstSize /\ rxPkts[c] = <<>>
        /\ rxPkts' = [rxPkts EXCEPT ![c] = First(nicRx[c], n)]
        /\ nicRx' = [nicRx EXCEPT ![c] = Rest(nicRx[c], n)]
  BY RxBurstIs
<1>2. nicRx[c] \in Seq(Packets)
  BY DEF Types
<1>3. /\ First(nicRx[c], n) \in Seq(Packets) /\ Len(First(nicRx[c], n)) = n
      /\ Rest(nicRx[c], n) \in Seq(Packets)
  BY <1>2, FirstRest
<1>4. nicRx' \in [RxCores -> Seq(Packets)] /\ rxPkts' \in [RxCores -> Seq(Packets)]
  BY <1>1, <1>3 DEF Types
<1>5. UNCHANGED <<pool, memifBuf, ctrlRing, txIdx, txPkts, ethBuf, device, lost, arrived, newest>>
  BY DEF RxBurst
<1>6. Types'
  BY <1>4, <1>5 DEF Types
<1>7. \A d \in RxCores : Len(rxPkts'[d]) <= BurstSize
  BY <1>1, <1>3 DEF Types, Limits
<1> QED BY <1>5, <1>6, <1>7 DEF Limits

\* rte_eth_tx_buffer keeps the packet, or flushes the buffer with it.
LEMMA TxBufferMemifIs ==
  ASSUME Types, NEW c \in RxCores, NEW i \in Ports, NEW p \in Packets,
         TxBufferMemif(c, i, p)
  PROVE  \/ /\ Append(memifBuf[c][i], p) \in Seq(Packets)
            /\ Len(Append(memifBuf[c][i], p)) < MemifBufSize
            /\ memifBuf' = [memifBuf EXCEPT ![c][i] = Append(memifBuf[c][i], p)]
            /\ UNCHANGED <<pool, newest>>
         \/ \E accepted \in SUBSET (Range(memifBuf[c][i]) \cup {p}) :
              /\ Flushed(accepted, Range(memifBuf[c][i]) \cup {p})
              /\ memifBuf' = [memifBuf EXCEPT ![c][i] = <<>>]
<1> DEFINE s == memifBuf[c][i]
           buf == Append(s, p)
<1>1. s \in Seq(Packets)
  BY DEF Types
<1>2. buf \in Seq(Packets) /\ Range(buf) = Range(s) \cup {p}
  BY <1>1, AppendProperties, RangeAppend
<1>3. \/ /\ Len(buf) < MemifBufSize /\ UNCHANGED <<pool, newest>>
         /\ memifBuf' = [memifBuf EXCEPT ![c][i] = buf]
      \/ /\ \E n \in 0 .. Len(buf) : Flushed(Range(First(buf, n)), Range(buf))
         /\ memifBuf' = [memifBuf EXCEPT ![c][i] = <<>>]
  BY DEF TxBufferMemif
<1> HIDE DEF buf
<1>4. \A n \in 0 .. Len(buf) : Range(First(buf, n)) \subseteq Range(buf)
  BY <1>2, RangeSplit
<1> QED BY <1>2, <1>3, <1>4 DEF buf

\* The types and limits of what rte_eth_tx_buffer changes.
LEMMA TypesTxBufferMemif ==
  ASSUME Types, Limits, NEW c \in RxCores, NEW i \in Ports, NEW p \in Packets,
         TxBufferMemif(c, i, p)
  PROVE  /\ pool' \subseteq Mbufs /\ newest' \in [Flows -> 0 .. MaxPackets]
         /\ memifBuf' \in [RxCores -> [Ports -> Seq(Packets)]]
         /\ \A d \in RxCores : \A j \in Ports : Len(memifBuf'[d][j]) < MemifBufSize
<1>0. memifBuf \in [RxCores -> [Ports -> Seq(Packets)]]
  BY DEF Types
<1>1. ASSUME NEW s \in Seq(Packets), Len(s) < MemifBufSize,
             memifBuf' = [memifBuf EXCEPT ![c][i] = s]
      PROVE  /\ memifBuf' \in [RxCores -> [Ports -> Seq(Packets)]]
             /\ \A d \in RxCores : \A j \in Ports : Len(memifBuf'[d][j]) < MemifBufSize
  <2>1. memifBuf' \in [RxCores -> [Ports -> Seq(Packets)]]
    BY <1>0, <1>1
  <2>2. \A d \in RxCores : \A j \in Ports :
          memifBuf'[d][j] = IF d = c /\ j = i THEN s ELSE memifBuf[d][j]
    BY <1>0, <1>1
  <2> QED BY <1>1, <2>1, <2>2 DEF Limits
<1>2. CASE /\ Append(memifBuf[c][i], p) \in Seq(Packets)
           /\ Len(Append(memifBuf[c][i], p)) < MemifBufSize
           /\ memifBuf' = [memifBuf EXCEPT ![c][i] = Append(memifBuf[c][i], p)]
           /\ UNCHANGED <<pool, newest>>
  <2>1. pool' \subseteq Mbufs /\ newest' \in [Flows -> 0 .. MaxPackets]
    BY <1>2 DEF Types
  <2> QED BY <1>1, <1>2, <2>1
<1>3. CASE \E accepted \in SUBSET (Range(memifBuf[c][i]) \cup {p}) :
             /\ Flushed(accepted, Range(memifBuf[c][i]) \cup {p})
             /\ memifBuf' = [memifBuf EXCEPT ![c][i] = <<>>]
  <2>1. Range(memifBuf[c][i]) \cup {p} \subseteq Packets
    BY <1>0, RangeIs
  <2>2. pool' \subseteq Mbufs /\ newest' \in [Flows -> 0 .. MaxPackets]
    <3>1. PICK accepted \in SUBSET (Range(memifBuf[c][i]) \cup {p}) :
            Flushed(accepted, Range(memifBuf[c][i]) \cup {p})
      BY <1>3
    <3>2. accepted \subseteq Packets
      BY <2>1
    <3> QED BY <3>1, <3>2, <2>1, FlushedIs
  <2>3. <<>> \in Seq(Packets) /\ Len(<<>>) < MemifBufSize
    BY EmptySeq, Constants
  <2> QED BY <1>1, <1>3, <2>2, <2>3
<1> QED BY <1>2, <1>3, TxBufferMemifIs

\* A core classifies the first packet of its burst: a UDP packet goes to the
\* buffer of its port, any other to the control ring.
LEMMA ClassifyIs ==
  ASSUME Types, NEW c \in RxCores, Classify(c)
  PROVE  \E p \in Packets :
           /\ rxPkts[c] # <<>> /\ p = Head(rxPkts[c]) /\ Tail(rxPkts[c]) \in Seq(Packets)
           /\ Len(Tail(rxPkts[c])) = Len(rxPkts[c]) - 1
           /\ rxPkts' = [rxPkts EXCEPT ![c] = Tail(rxPkts[c])]
           /\ \/ /\ p.flow \in UdpFlows /\ MemifOf(p) \in Ports
                 /\ TxBufferMemif(c, MemifOf(p), p) /\ UNCHANGED <<ctrlRing, lost>>
              \/ /\ p.mbuf \in Mbufs
                 /\ EnqueueCtrl(p.mbuf) /\ UNCHANGED <<pool, newest, memifBuf>>
<1> DEFINE p == Head(rxPkts[c])
<1>1. rxPkts[c] # <<>> /\ rxPkts[c] \in Seq(Packets)
  BY DEF Types, Classify
<1>2. /\ p \in Packets /\ Tail(rxPkts[c]) \in Seq(Packets)
      /\ Len(Tail(rxPkts[c])) = Len(rxPkts[c]) - 1
  BY <1>1, HeadTailProperties
<1>3. p.mbuf \in Mbufs
  BY <1>2 DEF Packets
<1>4. rxPkts' = [rxPkts EXCEPT ![c] = Tail(rxPkts[c])]
  BY DEF Classify
<1>5. \/ p.flow \in UdpFlows /\ TxBufferMemif(c, MemifOf(p), p) /\ UNCHANGED <<ctrlRing, lost>>
      \/ EnqueueCtrl(p.mbuf) /\ UNCHANGED <<pool, newest, memifBuf>>
  BY DEF Classify
<1> HIDE DEF p
<1>6. p.flow \in UdpFlows => MemifOf(p) \in Ports
  BY <1>2, Constants
<1> WITNESS p \in Packets
<1> QED BY <1>1, <1>2, <1>3, <1>4, <1>5, <1>6 DEF p

\* The types and limits after a packet was classified.
LEMMA TypesClassify ==
  ASSUME Types, Limits, NEW c \in RxCores, Classify(c)
  PROVE  Types' /\ Limits'
<1>1. PICK p \in Packets :
           /\ rxPkts[c] # <<>> /\ p = Head(rxPkts[c]) /\ Tail(rxPkts[c]) \in Seq(Packets)
           /\ Len(Tail(rxPkts[c])) = Len(rxPkts[c]) - 1
           /\ rxPkts' = [rxPkts EXCEPT ![c] = Tail(rxPkts[c])]
           /\ \/ /\ p.flow \in UdpFlows /\ MemifOf(p) \in Ports
                 /\ TxBufferMemif(c, MemifOf(p), p) /\ UNCHANGED <<ctrlRing, lost>>
              \/ /\ p.mbuf \in Mbufs
                 /\ EnqueueCtrl(p.mbuf) /\ UNCHANGED <<pool, newest, memifBuf>>
  BY ClassifyIs
<1>2. UNCHANGED <<nicRx, txIdx, txPkts, ethBuf, device, arrived>>
  BY DEF Classify
<1>3. rxPkts' \in [RxCores -> Seq(Packets)]
  BY <1>1 DEF Types
<1>4. \A d \in RxCores : Len(rxPkts'[d]) <= BurstSize
  <2>1. Len(rxPkts[c]) \in Nat /\ Len(rxPkts[c]) <= BurstSize
    BY LenProperties DEF Types, Limits
  <2>2. Len(Tail(rxPkts[c])) <= BurstSize
    BY <1>1, <2>1, Constants
  <2> QED BY <1>1, <2>2 DEF Types, Limits
<1>5. CASE /\ p.flow \in UdpFlows /\ MemifOf(p) \in Ports
           /\ TxBufferMemif(c, MemifOf(p), p) /\ UNCHANGED <<ctrlRing, lost>>
  <2>1. /\ pool' \subseteq Mbufs /\ newest' \in [Flows -> 0 .. MaxPackets]
        /\ memifBuf' \in [RxCores -> [Ports -> Seq(Packets)]]
        /\ \A d \in RxCores : \A j \in Ports : Len(memifBuf'[d][j]) < MemifBufSize
    BY <1>5, TypesTxBufferMemif
  <2>2. Types'
    BY <1>2, <1>3, <1>5, <2>1 DEF Types
  <2> QED BY <1>2, <1>4, <1>5, <2>1, <2>2 DEF Limits
<1>6. CASE /\ p.mbuf \in Mbufs
           /\ EnqueueCtrl(p.mbuf) /\ UNCHANGED <<pool, newest, memifBuf>>
  <2>1. ctrlRing' \in Seq(Mbufs) /\ Len(ctrlRing') <= CtrlRingCap /\ lost' \subseteq Mbufs
    <3> DEFINE m == p.mbuf
    <3>1. ctrlRing \in Seq(Mbufs) /\ Len(ctrlRing) \in Nat /\ lost \subseteq Mbufs
      BY LenProperties DEF Types
    <3>2. m \in Mbufs /\ EnqueueCtrl(m)
      BY <1>6
    <3> HIDE DEF m
    <3>3. Append(ctrlRing, m) \in Seq(Mbufs) /\ Len(Append(ctrlRing, m)) = Len(ctrlRing) + 1
      BY <3>1, <3>2, AppendProperties
    <3>4. CASE Len(ctrlRing) < CtrlRingCap
      BY <3>1, <3>2, <3>3, <3>4, Constants DEF EnqueueCtrl
    <3>5. CASE ~ (Len(ctrlRing) < CtrlRingCap)
      BY <3>1, <3>2, <3>5 DEF EnqueueCtrl, Limits
    <3> QED BY <3>4, <3>5
  <2>2. Types'
    BY <1>2, <1>3, <1>6, <2>1 DEF Types
  <2> QED BY <1>2, <1>4, <1>6, <2>1, <2>2 DEF Limits
<1> QED BY <1>1, <1>5, <1>6

\* A flush of a NIC buffer splits it between the NIC and the pool.
LEMMA TypesFlushEth ==
  ASSUME Types, Limits, NEW c \in TxCores, NEW buf \in Seq(Mbufs), NEW n \in 0 .. Len(buf),
         FlushEth(c, buf, n)
  PROVE  /\ device' \subseteq Mbufs /\ pool' \subseteq Mbufs
         /\ ethBuf' \in [TxCores -> Seq(Mbufs)]
         /\ \A d \in TxCores : Len(ethBuf'[d]) < EthBufSize
<1>1. Range(First(buf, n)) \subseteq Mbufs /\ Range(Rest(buf, n)) \subseteq Mbufs
  BY FirstRest, RangeIs
<1>2. device' \subseteq Mbufs /\ pool' \subseteq Mbufs
  BY <1>1 DEF Types, FlushEth
<1>3. ethBuf' = [ethBuf EXCEPT ![c] = <<>>]
  BY DEF FlushEth
<1>4. <<>> \in Seq(Mbufs) /\ Len(<<>>) < EthBufSize
  BY EmptySeq, Constants
<1>5. ethBuf' \in [TxCores -> Seq(Mbufs)]
  BY <1>3, <1>4 DEF Types
<1>6. \A d \in TxCores : ethBuf'[d] = IF d = c THEN <<>> ELSE ethBuf[d]
  BY <1>3 DEF Types
<1> QED BY <1>2, <1>4, <1>5, <1>6 DEF Limits

\* The types and limits after a drain of a tx core.
LEMMA TypesTxDrain ==
  ASSUME Types, Limits, NEW c \in TxCores, TxDrain(c)
  PROVE  Types' /\ Limits'
<1>1. ethBuf[c] \in Seq(Mbufs)
  BY DEF Types
<1>2. PICK n \in 0 .. Len(ethBuf[c]) : FlushEth(c, ethBuf[c], n)
  BY DEF TxDrain
<1>3. /\ device' \subseteq Mbufs /\ pool' \subseteq Mbufs
      /\ ethBuf' \in [TxCores -> Seq(Mbufs)]
      /\ \A d \in TxCores : Len(ethBuf'[d]) < EthBufSize
  BY <1>1, <1>2, TypesFlushEth
<1>4. UNCHANGED <<nicRx, rxPkts, memifBuf, ctrlRing, txIdx, txPkts, lost, arrived, newest>>
  BY DEF TxDrain
<1>5. Types'
  BY <1>3, <1>4 DEF Types
<1> QED BY <1>3, <1>4, <1>5 DEF Limits

\* A burst from a memif or the control port fills mbufs of the pool.
LEMMA TxReceiveIs ==
  ASSUME Types, NEW c \in TxCores, NEW idx, TxReceive(c, idx)
  PROVE  \E s \in Seq(Mbufs) :
           /\ IsInjective(s) /\ Range(s) \subseteq pool /\ Len(s) <= BurstSize
           /\ txPkts' = [txPkts EXCEPT ![c] = s] /\ pool' = pool \ Range(s)
<1>1. pool \subseteq Mbufs
  BY DEF Types
<1>2. SetToSeq(pool) \in Seq(pool) /\ Len(SetToSeq(pool)) \in Nat
  BY <1>1, Constants, FS_Subset, SeqOfSet
<1>3. PICK n \in 0 .. Burst(SetToSeq(pool)) :
        txPkts' = [txPkts EXCEPT ![c] = Alloc(n)] /\ pool' = pool \ Range(Alloc(n))
  BY DEF TxReceive
<1>4. /\ Burst(SetToSeq(pool)) \in 0 .. Len(SetToSeq(pool))
      /\ Burst(SetToSeq(pool)) <= BurstSize
  BY <1>2, BurstIs
<1>5. n \in 0 .. Len(SetToSeq(pool)) /\ n <= BurstSize
  BY <1>2, <1>3, <1>4, Constants
<1>6. /\ Alloc(n) \in Seq(Mbufs) /\ Len(Alloc(n)) = n
      /\ IsInjective(Alloc(n)) /\ Range(Alloc(n)) \subseteq pool
  BY <1>1, <1>5, AllocIs
<1> QED BY <1>3, <1>5, <1>6

\* The types and limits after a tx core received a burst.
LEMMA TypesTxReceive ==
  ASSUME Types, Limits, NEW c \in TxCores, NEW idx, TxReceive(c, idx),
         idx \in 0 .. (IF c = 0 THEN PerTx + 1 ELSE PerTx - 1)
  PROVE  Types' /\ Limits'
<1>1. PICK s \in Seq(Mbufs) :
        /\ IsInjective(s) /\ Range(s) \subseteq pool /\ Len(s) <= BurstSize
        /\ txPkts' = [txPkts EXCEPT ![c] = s] /\ pool' = pool \ Range(s)
  BY TxReceiveIs
<1>2. /\ txIdx' = [txIdx EXCEPT ![c] = idx]
      /\ UNCHANGED <<nicRx, rxPkts, memifBuf, ctrlRing, ethBuf, device, lost, arrived, newest>>
  BY DEF TxReceive
<1>3. idx \in Nat
  BY Constants
<1>4. txPkts' \in [TxCores -> Seq(Mbufs)] /\ txIdx' \in [TxCores -> Nat] /\ pool' \subseteq Mbufs
  BY <1>1, <1>2, <1>3 DEF Types
<1>5. Types'
  BY <1>2, <1>4 DEF Types
<1>6. \A d \in TxCores : txPkts'[d] = IF d = c THEN s ELSE txPkts[d]
  BY <1>1 DEF Types
<1>7. \A d \in TxCores : txIdx'[d] = IF d = c THEN idx ELSE txIdx[d]
  BY <1>2 DEF Types
<1>8. \A d \in TxCores : Len(txPkts'[d]) <= BurstSize
  BY <1>1, <1>6 DEF Limits
<1>9. \A d \in TxCores : txIdx'[d] \in 0 .. (IF d = 0 THEN PerTx + 1 ELSE PerTx - 1)
  BY <1>7 DEF Limits
<1> QED BY <1>2, <1>5, <1>8, <1>9 DEF Limits

\* The types and limits after a tx core polled a memif port.
LEMMA TypesTxMemif ==
  ASSUME Types, Limits, NEW c \in TxCores, TxMemif(c)
  PROVE  Types' /\ Limits'
<1> DEFINE idx == IF txIdx[c] = PerTx - 1 /\ c # 0 THEN 0 ELSE txIdx[c] + 1
<1>1. txIdx[c] \in Nat /\ txIdx[c] < PerTx
  BY DEF Types, TxMemif
<1>2. idx \in 0 .. (IF c = 0 THEN PerTx + 1 ELSE PerTx - 1)
  BY <1>1, Constants
<1>3. TxReceive(c, idx)
  BY DEF TxMemif
<1> HIDE DEF idx
<1> QED BY <1>2, <1>3, TypesTxReceive

\* The types and limits after tx core 0 polled the control port.
LEMMA TypesCtrlIn ==
  ASSUME Types, Limits, CtrlIn
  PROVE  Types' /\ Limits'
<1>1. 0 \in TxCores /\ 0 \in 0 .. (IF 0 = 0 THEN PerTx + 1 ELSE PerTx - 1)
  BY Constants
<1>2. TxReceive(0, 0)
  BY DEF CtrlIn
<1> QED BY <1>1, <1>2, TypesTxReceive

\* The types and limits after a packet was buffered for the NIC.
LEMMA TypesTxBufferEth ==
  ASSUME Types, Limits, NEW c \in TxCores, TxBufferEth(c)
  PROVE  Types' /\ Limits'
<1> DEFINE buf == Append(ethBuf[c], Head(txPkts[c]))
<1>1. txPkts[c] \in Seq(Mbufs) /\ txPkts[c] # <<>> /\ ethBuf[c] \in Seq(Mbufs)
  BY DEF Types, TxBufferEth
<1>2. /\ Head(txPkts[c]) \in Mbufs /\ Tail(txPkts[c]) \in Seq(Mbufs)
      /\ Len(Tail(txPkts[c])) = Len(txPkts[c]) - 1 /\ Len(txPkts[c]) \in Nat
  BY <1>1, HeadTailProperties, LenProperties
<1>3. buf \in Seq(Mbufs)
  BY <1>1, <1>2, AppendProperties
<1>4. txPkts' = [txPkts EXCEPT ![c] = Tail(txPkts[c])]
  BY DEF TxBufferEth
<1>5. \/ /\ Len(buf) < EthBufSize /\ UNCHANGED <<pool, device>>
         /\ ethBuf' = [ethBuf EXCEPT ![c] = buf]
      \/ \E n \in 0 .. Len(buf) : FlushEth(c, buf, n)
  BY DEF TxBufferEth
<1> HIDE DEF buf
<1>6. /\ device' \subseteq Mbufs /\ pool' \subseteq Mbufs
      /\ ethBuf' \in [TxCores -> Seq(Mbufs)]
      /\ \A d \in TxCores : Len(ethBuf'[d]) < EthBufSize
  <2>1. CASE /\ Len(buf) < EthBufSize /\ UNCHANGED <<pool, device>>
             /\ ethBuf' = [ethBuf EXCEPT ![c] = buf]
    <3>1. \A d \in TxCores : ethBuf'[d] = IF d = c THEN buf ELSE ethBuf[d]
      BY <2>1 DEF Types
    <3>2. ethBuf' \in [TxCores -> Seq(Mbufs)]
      BY <1>3, <2>1 DEF Types
    <3> QED BY <2>1, <3>1, <3>2 DEF Types, Limits
  <2>2. CASE \E n \in 0 .. Len(buf) : FlushEth(c, buf, n)
    BY <1>3, <2>2, TypesFlushEth
  <2> QED BY <1>5, <2>1, <2>2
<1>7. UNCHANGED <<nicRx, rxPkts, memifBuf, ctrlRing, txIdx, lost, arrived, newest>>
  BY DEF TxBufferEth
<1>8. txPkts' \in [TxCores -> Seq(Mbufs)]
  BY <1>2, <1>4 DEF Types
<1>9. Types'
  BY <1>6, <1>7, <1>8 DEF Types
<1>10. \A d \in TxCores : Len(txPkts'[d]) <= BurstSize
  <2>1. Len(Tail(txPkts[c])) <= BurstSize
    BY <1>2, Constants DEF Limits
  <2>2. \A d \in TxCores : txPkts'[d] = IF d = c THEN Tail(txPkts[c]) ELSE txPkts[d]
    BY <1>4 DEF Types
  <2> QED BY <2>1, <2>2 DEF Limits
<1> QED BY <1>6, <1>7, <1>9, <1>10 DEF Limits

\* A burst of the control ring is split between the control port and the pool.
LEMMA CtrlOutIs ==
  ASSUME Types, CtrlOut
  PROVE  \E k \in 0 .. Len(ctrlRing) : \E n \in 0 .. k :
           /\ First(ctrlRing, k) \in Seq(Mbufs) /\ Len(First(ctrlRing, k)) = k
           /\ device' = device \cup Range(First(ctrlRing, n))
           /\ pool' = pool \cup Range(Rest(First(ctrlRing, k), n))
           /\ ctrlRing' = Rest(ctrlRing, k)
<1>1. ctrlRing \in Seq(Mbufs)
  BY DEF Types
<1>2. Burst(ctrlRing) \in 0 .. Len(ctrlRing)
  BY <1>1, BurstIs
<1>3. /\ First(ctrlRing, Burst(ctrlRing)) \in Seq(Mbufs)
      /\ Len(First(ctrlRing, Burst(ctrlRing))) = Burst(ctrlRing)
  BY <1>1, <1>2, FirstRest
<1>4. /\ \E n \in 0 .. Burst(ctrlRing) :
           /\ device' = device \cup Range(First(ctrlRing, n))
           /\ pool' = pool \cup Range(Rest(First(ctrlRing, Burst(ctrlRing)), n))
      /\ ctrlRing' = Rest(ctrlRing, Burst(ctrlRing))
  BY DEF CtrlOut
<1> QED BY <1>2, <1>3, <1>4

\* The types and limits after a burst of the control ring.
LEMMA TypesCtrlOut ==
  ASSUME Types, Limits, CtrlOut
  PROVE  Types' /\ Limits'
<1>0. ctrlRing \in Seq(Mbufs) /\ Len(ctrlRing) \in Nat
  BY LenProperties DEF Types
<1>1. PICK k \in 0 .. Len(ctrlRing) : \E n \in 0 .. k :
        /\ First(ctrlRing, k) \in Seq(Mbufs) /\ Len(First(ctrlRing, k)) = k
        /\ device' = device \cup Range(First(ctrlRing, n))
        /\ pool' = pool \cup Range(Rest(First(ctrlRing, k), n))
        /\ ctrlRing' = Rest(ctrlRing, k)
  BY CtrlOutIs
<1>2. PICK n \in 0 .. k :
        /\ First(ctrlRing, k) \in Seq(Mbufs) /\ Len(First(ctrlRing, k)) = k
        /\ device' = device \cup Range(First(ctrlRing, n))
        /\ pool' = pool \cup Range(Rest(First(ctrlRing, k), n))
        /\ ctrlRing' = Rest(ctrlRing, k)
  BY <1>1
<1>3. n \in 0 .. Len(ctrlRing)
  BY <1>0
<1>4. Range(First(ctrlRing, n)) \subseteq Mbufs
  BY <1>0, <1>3, FirstRest, RangeIs
<1>5. Range(Rest(First(ctrlRing, k), n)) \subseteq Mbufs
  BY <1>2, FirstRest, RangeIs
<1>6. ctrlRing' \in Seq(Mbufs) /\ Len(ctrlRing') = Len(ctrlRing) - k
  BY <1>0, <1>2, FirstRest
<1>7. Len(ctrlRing') <= CtrlRingCap
  BY <1>0, <1>6, Constants DEF Limits
<1>8. /\ txIdx' = [txIdx EXCEPT ![0] = PerTx + 1]
      /\ UNCHANGED <<nicRx, rxPkts, memifBuf, txPkts, ethBuf, lost, arrived, newest>>
  BY DEF CtrlOut
<1>9. PerTx + 1 \in Nat /\ PerTx + 1 \in 0 .. PerTx + 1
  BY Constants
<1>10. txIdx' \in [TxCores -> Nat] /\ device' \subseteq Mbufs /\ pool' \subseteq Mbufs
  BY <1>2, <1>4, <1>5, <1>8, <1>9 DEF Types
<1>11. Types'
  BY <1>6, <1>8, <1>10 DEF Types
<1>12. \A d \in TxCores : txIdx'[d] = IF d = 0 THEN PerTx + 1 ELSE txIdx[d]
  BY <1>8 DEF Types
<1>13. \A d \in TxCores : txIdx'[d] \in 0 .. (IF d = 0 THEN PerTx + 1 ELSE PerTx - 1)
  BY <1>9, <1>12 DEF Limits
<1> QED BY <1>7, <1>8, <1>11, <1>13 DEF Limits

\* The types and limits after a device sent a packet.
LEMMA TypesSent ==
  ASSUME Types, Limits, NEW m \in Mbufs, Sent(m)
  PROVE  Types' /\ Limits'
<1>1. Types'
  BY DEF Types, Sent
<1> QED BY <1>1 DEF Limits, Sent

\* Every step keeps the types and limits.
LEMMA TypesNext ==
  ASSUME Types, Limits, [Next]_vars
  PROVE  Types' /\ Limits'
<1>1. CASE Next
  BY <1>1, TypesArrive, TypesRxBurst, TypesClassify, TypesRxDrain, TypesTxMemif,
     TypesTxBufferEth, TypesCtrlOut, TypesCtrlIn, TypesTxDrain, TypesSent
     DEF Next, Rx, Tx
<1>2. CASE UNCHANGED vars
  BY <1>2 DEF vars, Types, Limits
<1> QED BY <1>1, <1>2

\* What a core has are packets.
LEMMA HeldPackets ==
  ASSUME Types, NEW c \in RxCores
  PROVE  RxHeld(c) \subseteq Packets
<1>1. /\ Range(nicRx[c]) \subseteq Packets /\ Range(rxPkts[c]) \subseteq Packets
      /\ \A i \in Ports : Range(memifBuf[c][i]) \subseteq Packets
  BY RangeIs DEF Types
<1> QED BY <1>1 DEF RxHeld

\* The queues of the forwarder hold packets and mbufs, within the sizes of the
\* burst arrays, tx buffers and the control ring.
THEOREM TypeCorrect == Spec => []TypeOK
<1>1. Types /\ Limits => TypeOK
  <2> SUFFICES ASSUME Types, Limits PROVE TypeOK
    OBVIOUS
  <2>1. \A c \in RxCores : RxHeld(c) \subseteq Packets
    BY HeldPackets
  <2>2. \A c \in TxCores : Range(txPkts[c]) \subseteq Mbufs /\ Range(ethBuf[c]) \subseteq Mbufs
    BY RangeIs DEF Types
  <2>3. Range(ctrlRing) \subseteq Mbufs
    BY RangeIs DEF Types
  <2>4. pool \subseteq Mbufs /\ device \subseteq Mbufs /\ lost \subseteq Mbufs
    BY DEF Types
  <2> QED BY <2>1, <2>2, <2>3, <2>4 DEF Limits, TypeOK
<1> QED BY <1>1, TypesInit, TypesNext, PTL DEF Spec

-----------------------------------------------------------------------------
(* The order of the packets of a flow                                      *)

\* The packets of a queue arrived in this order.
Rising(s) == \A a, b \in 1 .. Len(s) : a < b => s[a].stamp < s[b].stamp

\* A core has the packets of its own flows, and a buffer those of its port.
Sorted ==
  /\ \A c \in RxCores : \A p \in RxHeld(c) : Rss[p.flow] = c
  /\ \A c \in RxCores : \A i \in Ports : \A p \in Range(memifBuf[c][i]) : MemifOf(p) = i

\* The further a packet of a core has come, the earlier it arrived.
Staged ==
  /\ \A c \in RxCores : Rising(nicRx[c]) /\ Rising(rxPkts[c])
  /\ \A c \in RxCores : \A p \in Range(rxPkts[c]) : \A q \in Range(nicRx[c]) : p.stamp < q.stamp
  /\ \A c \in RxCores : \A i \in Ports : \A p \in Range(memifBuf[c][i]) :
       \A q \in Range(rxPkts[c]) \cup Range(nicRx[c]) : p.stamp < q.stamp

\* Nothing has a stamp that was not given yet.
Past ==
  /\ \A c \in RxCores : \A p \in RxHeld(c) : p.stamp <= arrived
  /\ \A f \in Flows : newest[f] <= arrived

Ordered == Sorted /\ Staged /\ Past /\ FlowOrder

\* A rising queue cut into a burst and the rest.
LEMMA RisingSplit ==
  ASSUME NEW s \in Seq(Packets), Rising(s), NEW n \in 0 .. Len(s)
  PROVE  /\ Rising(First(s, n)) /\ Rising(Rest(s, n))
         /\ \A p \in Range(First(s, n)) : \A q \in Range(Rest(s, n)) : p.stamp < q.stamp
<1> DEFINE a == First(s, n)
           b == Rest(s, n)
<1>1. /\ a \in Seq(Packets) /\ Len(a) = n /\ \A i \in 1 .. n : a[i] = s[i]
      /\ b \in Seq(Packets) /\ Len(b) = Len(s) - n /\ \A i \in 1 .. Len(s) - n : b[i] = s[n + i]
  BY FirstRest
<1> HIDE DEF a, b
<1>2. /\ Range(a) = {a[i] : i \in 1 .. n} /\ Range(b) = {b[i] : i \in 1 .. Len(s) - n}
      /\ Len(s) \in Nat /\ n \in Nat /\ n <= Len(s)
  <2>1. Range(a) = {a[i] : i \in 1 .. Len(a)} /\ Range(b) = {b[i] : i \in 1 .. Len(b)}
    BY <1>1, RangeIs
  <2>2. Len(s) \in Nat
    BY RangeIs
  <2> QED BY <1>1, <2>1, <2>2
<1>3. Rising(a)
  <2> SUFFICES ASSUME NEW i \in 1 .. n, NEW j \in 1 .. n, i < j
               PROVE  a[i].stamp < a[j].stamp
    BY <1>1 DEF Rising
  <2>1. i \in 1 .. Len(s) /\ j \in 1 .. Len(s)
    BY <1>2
  <2> QED BY <2>1, <1>1 DEF Rising
<1>4. Rising(b)
  <2> SUFFICES ASSUME NEW i \in 1 .. Len(s) - n, NEW j \in 1 .. Len(s) - n, i < j
               PROVE  b[i].stamp < b[j].stamp
    BY <1>1 DEF Rising
  <2>1. n + i \in 1 .. Len(s) /\ n + j \in 1 .. Len(s) /\ n + i < n + j
    BY <1>2
  <2> QED BY <2>1, <1>1 DEF Rising
<1>5. ASSUME NEW p \in Range(a), NEW q \in Range(b) PROVE p.stamp < q.stamp
  <2>1. PICK i \in 1 .. n : p = a[i]
    BY <1>2
  <2>2. PICK j \in 1 .. Len(s) - n : q = b[j]
    BY <1>2
  <2>3. i \in 1 .. Len(s) /\ n + j \in 1 .. Len(s) /\ i < n + j
    BY <1>2
  <2>4. p = s[i] /\ q = s[n + j]
    BY <1>1, <2>1, <2>2
  <2> QED BY <2>3, <2>4 DEF Rising
<1> QED BY <1>3, <1>4, <1>5 DEF a, b

\* A rising queue without its first packet.
LEMMA RisingTail ==
  ASSUME NEW s \in Seq(Packets), Rising(s), s # <<>>
  PROVE  Rising(Tail(s)) /\ \A q \in Range(Tail(s)) : Head(s).stamp < q.stamp
<1> DEFINE t == Tail(s)
<1>1. /\ Head(s) = s[1] /\ t \in Seq(Packets) /\ Len(t) = Len(s) - 1 /\ Len(s) \in Nat \ {0}
      /\ \A i \in 1 .. Len(t) : t[i] = s[i + 1]
  BY RangeTail
<1> HIDE DEF t
<1>2. Range(t) = {t[i] : i \in 1 .. Len(t)}
  BY <1>1, RangeIs
<1>3. Rising(t)
  <2> SUFFICES ASSUME NEW i \in 1 .. Len(t), NEW j \in 1 .. Len(t), i < j
               PROVE  t[i].stamp < t[j].stamp
    BY DEF Rising
  <2>1. i + 1 \in 1 .. Len(s) /\ j + 1 \in 1 .. Len(s) /\ i + 1 < j + 1
    BY <1>1
  <2> QED BY <2>1, <1>1 DEF Rising
<1>4. ASSUME NEW q \in Range(t) PROVE Head(s).stamp < q.stamp
  <2>1. PICK i \in 1 .. Len(t) : q = t[i]
    BY <1>2
  <2>2. 1 \in 1 .. Len(s) /\ i + 1 \in 1 .. Len(s) /\ 1 < i + 1
    BY <1>1
  <2>3. q = s[i + 1]
    BY <1>1, <2>1
  <2> QED BY <1>1, <2>2, <2>3 DEF Rising
<1> QED BY <1>3, <1>4 DEF t

\* A rising queue with a later packet at its end.
LEMMA RisingAppend ==
  ASSUME NEW s \in Seq(Packets), Rising(s), NEW p \in Packets,
         \A q \in Range(s) : q.stamp < p.stamp
  PROVE  Rising(Append(s, p))
<1> DEFINE t == Append(s, p)
<1>1. /\ t \in Seq(Packets) /\ Len(t) = Len(s) + 1 /\ t[Len(s) + 1] = p
      /\ \A i \in 1 .. Len(s) : t[i] = s[i]
  BY AppendProperties
<1> HIDE DEF t
<1>2. Range(s) = {s[i] : i \in 1 .. Len(s)} /\ Len(s) \in Nat
  BY RangeIs
<1> SUFFICES ASSUME NEW i \in 1 .. Len(t), NEW j \in 1 .. Len(t), i < j
             PROVE  t[i].stamp < t[j].stamp
  BY DEF Rising, t
<1>3. i \in 1 .. Len(s)
  BY <1>1, <1>2
<1>4. CASE j = Len(s) + 1
  BY <1>1, <1>2, <1>3, <1>4
<1>5. CASE j # Len(s) + 1
  <2>1. j \in 1 .. Len(s)
    BY <1>1, <1>2, <1>5
  <2> QED BY <1>1, <1>3, <2>1 DEF Rising
<1> QED BY <1>4, <1>5

\* Initially no packet is anywhere.
LEMMA OrderedInit == Init => Ordered
<1> SUFFICES ASSUME Init PROVE Ordered
  OBVIOUS
<1>1. \A c \in RxCores : nicRx[c] = <<>> /\ rxPkts[c] = <<>> /\ \A i \in Ports : memifBuf[c][i] = <<>>
  BY DEF Init
<1>2. Range(<<>>) = {} /\ Rising(<<>>)
  BY DEF Range, Rising
<1>3. \A c \in RxCores : RxHeld(c) = {}
  BY <1>1, <1>2 DEF RxHeld
<1>4. \A f \in Flows : newest[f] <= arrived
  BY DEF Init
<1> QED BY <1>1, <1>2, <1>3, <1>4 DEF Ordered, Sorted, Staged, Past, FlowOrder

\* An arriving packet is the latest of all.
LEMMA OrderedArrive ==
  ASSUME Types, Ordered, NEW f \in Flows, Arrive(f)
  PROVE  Ordered'
<1>1. PICK p \in Packets :
           /\ p.mbuf \in pool /\ p.flow = f /\ p.stamp = arrived + 1
           /\ pool' = pool \ {p.mbuf} /\ arrived' = arrived + 1 /\ arrived' \in 0 .. MaxPackets
           /\ nicRx' = [nicRx EXCEPT ![Rss[f]] = Append(@, p)]
  BY ArriveIs
<1>2. PICK c \in RxCores : c = Rss[f]
  BY Constants
<1>3. UNCHANGED <<rxPkts, memifBuf, newest>>
  BY DEF Arrive
<1>4. nicRx[c] \in Seq(Packets)
  BY DEF Types
<1>5. nicRx'[c] = Append(nicRx[c], p) /\ \A d \in RxCores : d # c => nicRx'[d] = nicRx[d]
  BY <1>1, <1>2 DEF Types
<1>6. Range(nicRx'[c]) = Range(nicRx[c]) \cup {p}
  BY <1>4, <1>5, RangeAppend
<1>7. RxHeld(c)' = RxHeld(c) \cup {p} /\ \A d \in RxCores : d # c => RxHeld(d)' = RxHeld(d)
  BY <1>3, <1>5, <1>6 DEF RxHeld
<1>8. arrived \in Nat /\ \A d \in RxCores : \A q \in RxHeld(d) : q.stamp < p.stamp
  <2>1. \A d \in RxCores : \A q \in RxHeld(d) : q \in Packets
    BY HeldPackets
  <2>2. \A q \in Packets : q.stamp \in Nat
    BY Constants DEF Packets
  <2>3. arrived \in Nat
    BY Constants DEF Types
  <2> QED BY <1>1, <2>1, <2>2, <2>3 DEF Ordered, Past
<1>9. \A d \in RxCores : /\ Range(nicRx[d]) \subseteq RxHeld(d) /\ Range(rxPkts[d]) \subseteq RxHeld(d)
                         /\ \A i \in Ports : Range(memifBuf[d][i]) \subseteq RxHeld(d)
  BY DEF RxHeld
<1>10. Sorted'
  <2>1. \A d \in RxCores : \A q \in RxHeld(d)' : Rss[q.flow] = d
    BY <1>1, <1>2, <1>7 DEF Ordered, Sorted
  <2> QED BY <2>1, <1>3 DEF Ordered, Sorted, MemifOf
<1>11. Staged'
  <2>1. Rising(nicRx'[c])
    BY <1>4, <1>5, <1>8, <1>9, RisingAppend DEF Ordered, Staged
  <2>2. \A d \in RxCores : Rising(nicRx'[d]) /\ Rising(rxPkts'[d])
    BY <2>1, <1>3, <1>5 DEF Ordered, Staged
  <2>3. ASSUME NEW d \in RxCores, NEW q \in Range(rxPkts'[d]), NEW r \in Range(nicRx'[d])
        PROVE  q.stamp < r.stamp
    <3>1. q \in Range(rxPkts[d]) /\ q \in RxHeld(d)
      BY <1>3, <1>9
    <3>2. CASE r \in Range(nicRx[d])
      BY <3>1, <3>2 DEF Ordered, Staged
    <3>3. CASE r \notin Range(nicRx[d])
      <4>1. r = p
        BY <3>3, <1>5, <1>6
      <4> QED BY <4>1, <3>1, <1>8
    <3> QED BY <3>2, <3>3
  <2>4. ASSUME NEW d \in RxCores, NEW i \in Ports, NEW q \in Range(memifBuf'[d][i]),
               NEW r \in Range(rxPkts'[d]) \cup Range(nicRx'[d])
        PROVE  q.stamp < r.stamp
    <3>1. q \in Range(memifBuf[d][i]) /\ q \in RxHeld(d)
      BY <1>3, <1>9
    <3>2. CASE r \in Range(rxPkts[d]) \cup Range(nicRx[d])
      BY <3>1, <3>2 DEF Ordered, Staged
    <3>3. CASE r \notin Range(rxPkts[d]) \cup Range(nicRx[d])
      <4>1. r = p
        BY <3>3, <1>3, <1>5, <1>6
      <4> QED BY <4>1, <3>1, <1>8
    <3> QED BY <3>2, <3>3
  <2> QED BY <2>2, <2>3, <2>4 DEF Staged
<1>12. Past'
  <2>1. \A g \in Flows : newest'[g] <= arrived'
    BY <1>1, <1>3, <1>8 DEF Ordered, Past, Types
  <2>2. ASSUME NEW d \in RxCores, NEW q \in RxHeld(d)' PROVE q.stamp <= arrived'
    <3>1. CASE q = p
      BY <3>1, <1>1, <1>8
    <3>2. CASE q # p
      <4>1. q \in RxHeld(d) /\ q.stamp < p.stamp
        BY <3>2, <1>7, <1>8
      <4>2. q.stamp \in Nat
        <5>1. q \in Packets
          BY <4>1, HeldPackets
        <5> QED BY <5>1, Constants DEF Packets
      <4> QED BY <4>1, <4>2, <1>1, <1>8
    <3> QED BY <3>1, <3>2
  <2> QED BY <2>1, <2>2 DEF Past
<1>13. FlowOrder'
  <2> SUFFICES ASSUME NEW d \in RxCores, NEW q \in RxHeld(d)' PROVE q.stamp > newest'[q.flow]
    BY DEF FlowOrder
  <2>1. CASE q = p
    <3>1. newest[f] \in 0 .. MaxPackets /\ newest[f] <= arrived
      BY DEF Types, Ordered, Past
    <3> QED BY <2>1, <3>1, <1>1, <1>3, <1>8
  <2>2. CASE q # p
    BY <2>2, <1>3, <1>7 DEF Ordered, FlowOrder
  <2> QED BY <2>1, <2>2
<1> QED BY <1>10, <1>11, <1>12, <1>13 DEF Ordered

\* A burst leaves the later packets in the NIC queue.
LEMMA OrderedRxBurst ==
  ASSUME Types, Ordered, NEW c \in RxCores, RxBurst(c)
  PROVE  Ordered'
<1>1. PICK n \in 0 .. Len(nicRx[c]) :
        /\ n <= BurstSize /\ rxPkts[c] = <<>>
        /\ rxPkts' = [rxPkts EXCEPT ![c] = First(nicRx[c], n)]
        /\ nicRx' = [nicRx EXCEPT ![c] = Rest(nicRx[c], n)]
  BY RxBurstIs
<1>2. UNCHANGED <<memifBuf, arrived, newest>>
  BY DEF RxBurst
<1>3. nicRx[c] \in Seq(Packets) /\ Rising(nicRx[c])
  BY DEF Types, Ordered, Staged
<1>4. /\ nicRx'[c] = Rest(nicRx[c], n) /\ rxPkts'[c] = First(nicRx[c], n)
      /\ \A d \in RxCores : d # c => nicRx'[d] = nicRx[d] /\ rxPkts'[d] = rxPkts[d]
  BY <1>1 DEF Types
<1>5. Range(nicRx[c]) = Range(rxPkts'[c]) \cup Range(nicRx'[c])
  BY <1>3, <1>4, RangeSplit
<1>6. /\ Rising(rxPkts'[c]) /\ Rising(nicRx'[c])
      /\ \A p \in Range(rxPkts'[c]) : \A q \in Range(nicRx'[c]) : p.stamp < q.stamp
  BY <1>3, <1>4, RisingSplit
<1>7. Range(rxPkts[c]) = {}
  BY <1>1 DEF Range
<1>8. \A d \in RxCores :
        /\ Range(rxPkts'[d]) \cup Range(nicRx'[d]) = Range(rxPkts[d]) \cup Range(nicRx[d])
        /\ RxHeld(d)' = RxHeld(d)
  BY <1>2, <1>4, <1>5, <1>7 DEF RxHeld
<1>9. Sorted' /\ Past' /\ FlowOrder'
  BY <1>2, <1>8 DEF Ordered, Sorted, Past, FlowOrder, MemifOf
<1>10. Staged'
  <2>1. \A d \in RxCores : Rising(nicRx'[d]) /\ Rising(rxPkts'[d])
    BY <1>4, <1>6 DEF Ordered, Staged
  <2>2. \A d \in RxCores : \A p \in Range(rxPkts'[d]) : \A q \in Range(nicRx'[d]) : p.stamp < q.stamp
    BY <1>4, <1>6 DEF Ordered, Staged
  <2>3. \A d \in RxCores : \A i \in Ports : \A p \in Range(memifBuf'[d][i]) :
          \A q \in Range(rxPkts'[d]) \cup Range(nicRx'[d]) : p.stamp < q.stamp
    BY <1>2, <1>8 DEF Ordered, Staged
  <2> QED BY <2>1, <2>2, <2>3 DEF Staged
<1> QED BY <1>9, <1>10 DEF Ordered

\* A flush keeps the flow order when every packet left behind is later than the
\* accepted ones of its flow.
LEMMA OrderedFlush ==
  ASSUME Types, Ordered, NEW accepted, accepted \subseteq Packets,
         NEW all, all \subseteq Packets, Flushed(accepted, all), UNCHANGED arrived,
         \A d \in RxCores : RxHeld(d)' \subseteq RxHeld(d),
         \A p \in accepted : p.stamp <= arrived,
         \A d \in RxCores : \A q \in RxHeld(d)' : \A p \in accepted :
           p.flow = q.flow => p.stamp < q.stamp
  PROVE  Past' /\ FlowOrder'
<1>1. \A f \in Flows : \/ newest'[f] = newest[f]
                       \/ \E p \in accepted : p.flow = f /\ newest'[f] = p.stamp
  BY FlushedIs
<1>2. \A f \in Flows : newest'[f] <= arrived'
  BY <1>1 DEF Ordered, Past
<1>3. Past'
  BY <1>2 DEF Ordered, Past
<1>4. ASSUME NEW d \in RxCores, NEW q \in RxHeld(d)' PROVE q.stamp > newest'[q.flow]
  <2>1. q \in RxHeld(d) /\ q \in Packets
    BY HeldPackets
  <2>2. q.flow \in Flows /\ q.stamp \in Nat
    BY <2>1, Constants DEF Packets
  <2>3. CASE newest'[q.flow] = newest[q.flow]
    BY <2>1, <2>3 DEF Ordered, FlowOrder
  <2>4. CASE \E p \in accepted : p.flow = q.flow /\ newest'[q.flow] = p.stamp
    <3>1. PICK p \in accepted : p.flow = q.flow /\ newest'[q.flow] = p.stamp
      BY <2>4
    <3>2. p.stamp < q.stamp /\ p.stamp \in Nat
      BY <3>1, Constants DEF Packets
    <3> QED BY <2>2, <3>1, <3>2
  <2> QED BY <1>1, <2>2, <2>3, <2>4
<1> QED BY <1>3, <1>4 DEF FlowOrder

\* A drain flushes packets that are earlier than all others of the core.
LEMMA OrderedRxDrain ==
  ASSUME Types, Ordered, NEW c \in RxCores, RxDrain(c)
  PROVE  Ordered'
<1>1. PICK n \in [Ports -> Nat] :
        /\ \A i \in Ports : n[i] \in 0 .. Len(memifBuf[c][i])
        /\ Flushed(UNION {Range(First(memifBuf[c][i], n[i])) : i \in Ports},
                   UNION {Range(memifBuf[c][i]) : i \in Ports})
        /\ \A i \in Ports : Range(First(memifBuf[c][i], n[i])) \subseteq Range(memifBuf[c][i])
        /\ \A i \in Ports : Range(memifBuf[c][i]) \subseteq Packets
        /\ memifBuf' = [memifBuf EXCEPT ![c] = [i \in Ports |-> <<>>]]
  BY RxDrainIs
<1> DEFINE accepted == UNION {Range(First(memifBuf[c][i], n[i])) : i \in Ports}
           all == UNION {Range(memifBuf[c][i]) : i \in Ports}
<1>2. /\ all \subseteq Packets /\ accepted \subseteq all /\ Flushed(accepted, all)
      /\ \A p \in all : \E i \in Ports : p \in Range(memifBuf[c][i])
      /\ all \subseteq RxHeld(c)
  BY <1>1 DEF RxHeld
<1> HIDE DEF all, accepted
<1>3. UNCHANGED <<nicRx, rxPkts, arrived>>
  BY DEF RxDrain
<1>4. \A i \in Ports : Range(memifBuf'[c][i]) = {}
  <2>1. Range(<<>>) = {}
    BY DEF Range
  <2> QED BY <2>1, <1>1 DEF Types
<1>5. \A d \in RxCores : d # c => memifBuf'[d] = memifBuf[d]
  BY <1>1 DEF Types
<1>6. RxHeld(c)' = Range(rxPkts[c]) \cup Range(nicRx[c])
  BY <1>3, <1>4 DEF RxHeld
<1>7. \A d \in RxCores : d # c => RxHeld(d)' = RxHeld(d)
  BY <1>3, <1>5 DEF RxHeld
<1>8. \A d \in RxCores : RxHeld(d)' \subseteq RxHeld(d)
  BY <1>6, <1>7 DEF RxHeld
<1>9. ASSUME NEW d \in RxCores, NEW q \in RxHeld(d)', NEW p \in accepted, p.flow = q.flow
      PROVE  p.stamp < q.stamp
  <2>1. PICK i \in Ports : p \in Range(memifBuf[c][i])
    BY <1>2
  <2>2. Rss[p.flow] = c /\ Rss[q.flow] = d
    BY <1>2, <1>8 DEF Ordered, Sorted
  <2>3. q \in Range(rxPkts[c]) \cup Range(nicRx[c])
    BY <1>6, <1>9, <2>2
  <2> QED BY <2>1, <2>3 DEF Ordered, Staged
<1>10. \A p \in accepted : p.stamp <= arrived
  BY <1>2 DEF Ordered, Past
<1>11. Past' /\ FlowOrder'
  BY <1>2, <1>3, <1>8, <1>9, <1>10, OrderedFlush
<1>12. \A d \in RxCores : \A i \in Ports : Range(memifBuf'[d][i]) \subseteq Range(memifBuf[d][i])
  BY <1>4, <1>5
<1>13. Sorted'
  BY <1>8, <1>12 DEF Ordered, Sorted, MemifOf
<1>14. Staged'
  BY <1>3, <1>12 DEF Ordered, Staged
<1> QED BY <1>11, <1>13, <1>14 DEF Ordered

\* A classified packet is earlier than those its core classifies later.
LEMMA OrderedClassify ==
  ASSUME Types, Ordered, NEW c \in RxCores, Classify(c)
  PROVE  Ordered'
<1>1. PICK p \in Packets :
           /\ rxPkts[c] # <<>> /\ p = Head(rxPkts[c]) /\ Tail(rxPkts[c]) \in Seq(Packets)
           /\ Len(Tail(rxPkts[c])) = Len(rxPkts[c]) - 1
           /\ rxPkts' = [rxPkts EXCEPT ![c] = Tail(rxPkts[c])]
           /\ \/ /\ p.flow \in UdpFlows /\ MemifOf(p) \in Ports
                 /\ TxBufferMemif(c, MemifOf(p), p) /\ UNCHANGED <<ctrlRing, lost>>
              \/ /\ p.mbuf \in Mbufs
                 /\ EnqueueCtrl(p.mbuf) /\ UNCHANGED <<pool, newest, memifBuf>>
  BY ClassifyIs
<1>2. UNCHANGED <<nicRx, arrived>>
  BY DEF Classify
<1>3. rxPkts[c] \in Seq(Packets) /\ Rising(rxPkts[c])
  BY DEF Types, Ordered, Staged
<1>4. rxPkts'[c] = Tail(rxPkts[c]) /\ \A d \in RxCores : d # c => rxPkts'[d] = rxPkts[d]
  BY <1>1 DEF Types
<1>5. /\ Rising(rxPkts'[c]) /\ \A q \in Range(rxPkts'[c]) : p.stamp < q.stamp
      /\ Range(rxPkts[c]) = Range(rxPkts'[c]) \cup {p}
  BY <1>1, <1>3, <1>4, RisingTail, RangeTail
<1>6. /\ \A d \in RxCores : Rising(nicRx'[d]) /\ Rising(rxPkts'[d])
      /\ \A d \in RxCores : Range(rxPkts'[d]) \subseteq Range(rxPkts[d])
      /\ \A d \in RxCores : \A r \in Range(rxPkts'[d]) : \A q \in Range(nicRx'[d]) : r.stamp < q.stamp
  BY <1>2, <1>4, <1>5 DEF Ordered, Staged
<1>7. /\ Rss[p.flow] = c /\ p.stamp <= arrived /\ p \in RxHeld(c)
      /\ \A q \in Range(rxPkts'[c]) \cup Range(nicRx'[c]) : p.stamp < q.stamp
  BY <1>2, <1>5 DEF Ordered, Sorted, Staged, Past, RxHeld
<1>8. CASE /\ p.mbuf \in Mbufs
           /\ EnqueueCtrl(p.mbuf) /\ UNCHANGED <<pool, newest, memifBuf>>
  <2>1. \A d \in RxCores : RxHeld(d)' \subseteq RxHeld(d)
    BY <1>2, <1>6, <1>8 DEF RxHeld
  <2>2. Sorted' /\ Past' /\ FlowOrder'
    BY <2>1, <1>2, <1>8 DEF Ordered, Sorted, Past, FlowOrder, MemifOf
  <2>3. \A d \in RxCores : \A i \in Ports : \A r \in Range(memifBuf'[d][i]) :
          \A q \in Range(rxPkts'[d]) \cup Range(nicRx'[d]) : r.stamp < q.stamp
    BY <1>2, <1>6, <1>8 DEF Ordered, Staged
  <2> QED BY <2>2, <2>3, <1>6 DEF Ordered, Staged
<1>9. CASE /\ p.flow \in UdpFlows /\ MemifOf(p) \in Ports
           /\ TxBufferMemif(c, MemifOf(p), p) /\ UNCHANGED <<ctrlRing, lost>>
  <2>1. PICK i \in Ports : i = MemifOf(p)
    BY <1>9
  <2>2. memifBuf \in [RxCores -> [Ports -> Seq(Packets)]] /\ TxBufferMemif(c, i, p)
    BY <1>9, <2>1 DEF Types
  <2>3. CASE /\ Append(memifBuf[c][i], p) \in Seq(Packets)
             /\ Len(Append(memifBuf[c][i], p)) < MemifBufSize
             /\ memifBuf' = [memifBuf EXCEPT ![c][i] = Append(memifBuf[c][i], p)]
             /\ UNCHANGED <<pool, newest>>
    <3>1. Range(memifBuf'[c][i]) = Range(memifBuf[c][i]) \cup {p}
      BY <2>2, <2>3, RangeAppend
    <3>2. \A d \in RxCores : \A j \in Ports :
            d # c \/ j # i => memifBuf'[d][j] = memifBuf[d][j]
      BY <2>2, <2>3
    <3>3. \A d \in RxCores : RxHeld(d)' \subseteq RxHeld(d)
      <4> SUFFICES ASSUME NEW d \in RxCores, NEW q \in RxHeld(d)' PROVE q \in RxHeld(d)
        OBVIOUS
      <4>1. CASE \E j \in Ports : q \in Range(memifBuf'[d][j])
        BY <4>1, <1>7, <3>1, <3>2 DEF RxHeld
      <4>2. CASE q \in Range(nicRx'[d]) \cup Range(rxPkts'[d])
        BY <4>2, <1>2, <1>6 DEF RxHeld
      <4> QED BY <4>1, <4>2 DEF RxHeld
    <3>4. Past' /\ FlowOrder'
      BY <1>2, <2>3, <3>3 DEF Ordered, Past, FlowOrder
    <3>5. Sorted'
      <4>1. \A d \in RxCores : \A q \in RxHeld(d)' : Rss[q.flow] = d
        BY <3>3 DEF Ordered, Sorted
      <4>2. \A d \in RxCores : \A j \in Ports : \A q \in Range(memifBuf'[d][j]) : MemifOf(q) = j
        BY <2>1, <3>1, <3>2 DEF Ordered, Sorted
      <4> QED BY <4>1, <4>2 DEF Sorted, MemifOf
    <3>6. ASSUME NEW d \in RxCores, NEW j \in Ports, NEW r \in Range(memifBuf'[d][j]),
                 NEW q \in Range(rxPkts'[d]) \cup Range(nicRx'[d])
          PROVE  r.stamp < q.stamp
      <4>1. q \in Range(rxPkts[d]) \cup Range(nicRx[d])
        BY <1>2, <1>6
      <4>2. CASE r \in Range(memifBuf[d][j])
        BY <4>1, <4>2 DEF Ordered, Staged
      <4>3. CASE r \notin Range(memifBuf[d][j])
        <5>1. d = c /\ r = p
          BY <4>3, <3>1, <3>2
        <5> QED BY <5>1, <1>7
      <4> QED BY <4>2, <4>3
    <3> QED BY <3>4, <3>5, <3>6, <1>6 DEF Ordered, Staged
  <2>4. CASE \E accepted \in SUBSET (Range(memifBuf[c][i]) \cup {p}) :
               /\ Flushed(accepted, Range(memifBuf[c][i]) \cup {p})
               /\ memifBuf' = [memifBuf EXCEPT ![c][i] = <<>>]
    <3> DEFINE all == Range(memifBuf[c][i]) \cup {p}
    <3>1. PICK accepted \in SUBSET all :
            Flushed(accepted, all) /\ memifBuf' = [memifBuf EXCEPT ![c][i] = <<>>]
      BY <2>4
    <3>2. all \subseteq Packets
      BY <2>2, RangeIs
    <3>3. all \subseteq RxHeld(c)
      BY <1>7 DEF RxHeld
    <3>4. \A q \in all : MemifOf(q) = i
      BY <2>1 DEF Ordered, Sorted
    <3>5. \A r \in all : \A q \in Range(rxPkts'[c]) \cup Range(nicRx'[c]) : r.stamp < q.stamp
      BY <1>2, <1>6, <1>7 DEF Ordered, Staged
    <3> HIDE DEF all
    <3>6. Range(memifBuf'[c][i]) = {}
      BY <2>2, <3>1 DEF Range
    <3>7. \A d \in RxCores : \A j \in Ports :
            d # c \/ j # i => memifBuf'[d][j] = memifBuf[d][j]
      BY <2>2, <3>1
    <3>8. \A d \in RxCores : \A j \in Ports : Range(memifBuf'[d][j]) \subseteq Range(memifBuf[d][j])
      BY <3>6, <3>7
    <3>9. \A d \in RxCores : RxHeld(d)' \subseteq RxHeld(d)
      BY <1>2, <1>6, <3>8 DEF RxHeld
    <3>10. ASSUME NEW d \in RxCores, NEW q \in RxHeld(d)', NEW r \in accepted, r.flow = q.flow
           PROVE  r.stamp < q.stamp
      <4>1. r \in all /\ Rss[r.flow] = c /\ Rss[q.flow] = d
        BY <3>3, <3>9 DEF Ordered, Sorted
      <4>2. d = c /\ MemifOf(q) = i
        BY <3>4, <3>10, <4>1 DEF MemifOf
      <4>3. \A j \in Ports : q \notin Range(memifBuf'[c][j])
        BY <4>2, <3>6, <3>7 DEF Ordered, Sorted
      <4>4. q \in Range(rxPkts'[c]) \cup Range(nicRx'[c])
        BY <4>2, <4>3 DEF RxHeld
      <4> QED BY <3>5, <4>1, <4>4
    <3>11. \A r \in accepted : r.stamp <= arrived
      BY <3>3 DEF Ordered, Past
    <3>12. accepted \subseteq Packets
      BY <3>2
    <3>13. Past' /\ FlowOrder'
      BY <1>2, <3>1, <3>2, <3>9, <3>10, <3>11, <3>12, OrderedFlush
    <3>14. Sorted'
      BY <3>8, <3>9 DEF Ordered, Sorted, MemifOf
    <3>15. Staged'
      BY <1>2, <1>6, <3>8 DEF Ordered, Staged
    <3> QED BY <3>13, <3>14, <3>15 DEF Ordered
  <2> QED BY <2>2, <2>3, <2>4, TxBufferMemifIs
<1> QED BY <1>1, <1>8, <1>9

\* The tx cores and devices do not touch the packets of the rx cores.
LEMMA OrderedNext ==
  ASSUME Types, Ordered, [Next]_vars
  PROVE  Ordered'
<1>1. ASSUME UNCHANGED <<nicRx, rxPkts, memifBuf, arrived, newest>>
      PROVE  Ordered'
  BY <1>1 DEF Ordered, Sorted, Staged, Past, FlowOrder, RxHeld, MemifOf
<1>2. ASSUME NEW c \in TxCores, Tx(c) \/ TxDrain(c)
      PROVE  UNCHANGED <<nicRx, rxPkts, memifBuf, arrived, newest>>
  BY <1>2 DEF Tx, TxDrain, TxMemif, TxBufferEth, CtrlOut, CtrlIn, TxReceive
<1>3. ASSUME NEW m \in Mbufs, Sent(m)
      PROVE  UNCHANGED <<nicRx, rxPkts, memifBuf, arrived, newest>>
  BY <1>3 DEF Sent
<1>4. CASE Next
  BY <1>1, <1>2, <1>3, <1>4, OrderedArrive, OrderedRxBurst, OrderedClassify, OrderedRxDrain
     DEF Next, Rx
<1>5. CASE UNCHANGED vars
  BY <1>1, <1>5 DEF vars
<1> QED BY <1>4, <1>5

\* The packets of a flow are given to its application in the order in which
\* they arrived: every packet still with an rx core is later than the last one
\* of its flow that a memif port accepted.
THEOREM FlowsInOrder == Spec => []FlowOrder
<1>1. Init => Types /\ Limits /\ Ordered
  BY TypesInit, OrderedInit
<1>2. Types /\ Limits /\ Ordered /\ [Next]_vars => (Types /\ Limits /\ Ordered)'
  BY TypesNext, OrderedNext
<1>3. Ordered => FlowOrder
  BY DEF Ordered
<1> QED BY <1>1, <1>2, <1>3, PTL DEF Spec

-----------------------------------------------------------------------------
(* The holders of the mbufs                                                *)

\* The mbufs of a queue of packets.
LEMMA MbufSeqIs ==
  ASSUME NEW s \in Seq(Packets)
  PROVE  /\ MbufSeq(s) \in Seq(Mbufs) /\ Len(MbufSeq(s)) = Len(s)
         /\ \A i \in 1 .. Len(s) : MbufSeq(s)[i] = s[i].mbuf
<1>1. Len(s) \in Nat /\ DOMAIN s = 1 .. Len(s) /\ \A i \in 1 .. Len(s) : s[i] \in Packets
  BY LenProperties, ElementOfSeq
<1>2. MbufSeq(s) = [i \in 1 .. Len(s) |-> s[i].mbuf]
  BY <1>1 DEF MbufSeq
<1>3. MbufSeq(s) \in [1 .. Len(s) -> Mbufs]
  BY <1>1, <1>2 DEF Packets
<1>4. MbufSeq(s) \in Seq(Mbufs) /\ Len(MbufSeq(s)) = Len(s)
  BY <1>1, <1>3
<1> QED BY <1>2, <1>4

\* They are the mbufs of its packets.
LEMMA MbufSeqRange ==
  ASSUME NEW s \in Seq(Packets)
  PROVE  Range(MbufSeq(s)) = {p.mbuf : p \in Range(s)}
<1>1. /\ MbufSeq(s) \in Seq(Mbufs) /\ Len(MbufSeq(s)) = Len(s)
      /\ \A i \in 1 .. Len(s) : MbufSeq(s)[i] = s[i].mbuf
  BY MbufSeqIs
<1> DEFINE t == MbufSeq(s)
<1> HIDE DEF t
<1>2. Range(s) = {s[i] : i \in 1 .. Len(s)}
  BY RangeIs
<1>3. Range(t) = {t[i] : i \in 1 .. Len(s)} /\ \A i \in 1 .. Len(s) : t[i] = s[i].mbuf
  BY <1>1, RangeIs DEF t
<1> QED BY <1>2, <1>3 DEF t

\* The mbufs of a queue and of the packet after it.
LEMMA MbufSeqAppend ==
  ASSUME NEW s \in Seq(Packets), NEW p \in Packets
  PROVE  MbufSeq(Append(s, p)) = Append(MbufSeq(s), p.mbuf)
<1> DEFINE a == Append(s, p)
           t == MbufSeq(s)
           u == MbufSeq(a)
           v == Append(t, p.mbuf)
<1>1. /\ a \in Seq(Packets) /\ Len(a) = Len(s) + 1 /\ a[Len(s) + 1] = p
      /\ \A i \in 1 .. Len(s) : a[i] = s[i]
  BY AppendProperties
<1>2. /\ t \in Seq(Mbufs) /\ Len(t) = Len(s) /\ \A i \in 1 .. Len(s) : t[i] = s[i].mbuf
  BY MbufSeqIs
<1>3. /\ u \in Seq(Mbufs) /\ Len(u) = Len(a) /\ \A i \in 1 .. Len(a) : u[i] = a[i].mbuf
  BY <1>1, MbufSeqIs
<1>4. p.mbuf \in Mbufs
  BY DEF Packets
<1>5. /\ v \in Seq(Mbufs) /\ Len(v) = Len(t) + 1 /\ v[Len(t) + 1] = p.mbuf
      /\ \A i \in 1 .. Len(t) : v[i] = t[i]
  BY <1>2, <1>4, AppendProperties
<1>6. Len(s) \in Nat
  BY LenProperties
<1> HIDE DEF a, t, u, v
<1>7. Len(u) = Len(v) /\ Len(u) = Len(s) + 1
  BY <1>1, <1>2, <1>3, <1>5
<1>8. ASSUME NEW i \in 1 .. Len(u) PROVE u[i] = v[i]
  <2>1. CASE i = Len(s) + 1
    BY <2>1, <1>1, <1>2, <1>3, <1>5, <1>6
  <2>2. CASE i # Len(s) + 1
    <3>1. i \in 1 .. Len(s) /\ i \in 1 .. Len(a)
      BY <2>2, <1>1, <1>6, <1>7
    <3> QED BY <3>1, <1>1, <1>2, <1>3, <1>5
  <2> QED BY <2>1, <2>2
<1>9. u = v
  BY <1>3, <1>5, <1>7, <1>8, SeqEqual
<1> QED BY <1>9 DEF a, t, u, v

\* The mbufs of a queue without its first packet.
LEMMA MbufSeqTail ==
  ASSUME NEW s \in Seq(Packets), s # <<>>
  PROVE  /\ MbufSeq(s) # <<>> /\ Head(MbufSeq(s)) = Head(s).mbuf
         /\ MbufSeq(Tail(s)) = Tail(MbufSeq(s))
<1> DEFINE a == Tail(s)
           t == MbufSeq(s)
           u == MbufSeq(a)
           v == Tail(t)
<1>1. /\ Head(s) = s[1] /\ a \in Seq(Packets) /\ Len(a) = Len(s) - 1
      /\ Len(s) \in Nat \ {0} /\ \A i \in 1 .. Len(a) : a[i] = s[i + 1]
  BY RangeTail
<1>2. /\ t \in Seq(Mbufs) /\ Len(t) = Len(s) /\ \A i \in 1 .. Len(s) : t[i] = s[i].mbuf
  BY MbufSeqIs
<1>3. /\ u \in Seq(Mbufs) /\ Len(u) = Len(a) /\ \A i \in 1 .. Len(a) : u[i] = a[i].mbuf
  BY <1>1, MbufSeqIs
<1> HIDE DEF a, t, u
<1>4. t # <<>>
  BY <1>1, <1>2, EmptySeq
<1>5. /\ Head(t) = t[1] /\ v \in Seq(Mbufs) /\ Len(v) = Len(t) - 1
      /\ \A i \in 1 .. Len(v) : v[i] = t[i + 1]
  BY <1>2, <1>4, RangeTail
<1> HIDE DEF v
<1>6. Len(u) = Len(v)
  BY <1>1, <1>2, <1>3, <1>5
<1>7. ASSUME NEW i \in 1 .. Len(u) PROVE u[i] = v[i]
  <2>1. i \in 1 .. Len(a) /\ i + 1 \in 1 .. Len(s) /\ i \in 1 .. Len(v)
    BY <1>1, <1>3, <1>6
  <2> QED BY <2>1, <1>1, <1>2, <1>3, <1>5
<1>8. u = v
  BY <1>3, <1>5, <1>6, <1>7, SeqEqual
<1>9. Head(t) = Head(s).mbuf
  BY <1>1, <1>2, <1>5
<1> QED BY <1>4, <1>8, <1>9 DEF a, t, u, v

\* The mbufs of a burst and of the rest.
LEMMA MbufSeqSplit ==
  ASSUME NEW s \in Seq(Packets), NEW n \in 0 .. Len(s)
  PROVE  /\ MbufSeq(First(s, n)) = First(MbufSeq(s), n)
         /\ MbufSeq(Rest(s, n)) = Rest(MbufSeq(s), n)
<1> DEFINE a == First(s, n)
           b == Rest(s, n)
           t == MbufSeq(s)
           u == MbufSeq(a)
           v == MbufSeq(b)
           x == First(t, n)
           y == Rest(t, n)
<1>1. /\ a \in Seq(Packets) /\ Len(a) = n /\ \A i \in 1 .. n : a[i] = s[i]
      /\ b \in Seq(Packets) /\ Len(b) = Len(s) - n /\ \A i \in 1 .. Len(s) - n : b[i] = s[n + i]
  BY FirstRest
<1>2. t \in Seq(Mbufs) /\ Len(t) = Len(s) /\ \A i \in 1 .. Len(s) : t[i] = s[i].mbuf
  BY MbufSeqIs
<1>3. u \in Seq(Mbufs) /\ Len(u) = Len(a) /\ \A i \in 1 .. Len(a) : u[i] = a[i].mbuf
  BY <1>1, MbufSeqIs
<1>4. v \in Seq(Mbufs) /\ Len(v) = Len(b) /\ \A i \in 1 .. Len(b) : v[i] = b[i].mbuf
  BY <1>1, MbufSeqIs
<1> HIDE DEF a, b, t, u, v
<1>5. /\ x \in Seq(Mbufs) /\ Len(x) = n /\ \A i \in 1 .. n : x[i] = t[i]
      /\ y \in Seq(Mbufs) /\ Len(y) = Len(t) - n /\ \A i \in 1 .. Len(t) - n : y[i] = t[n + i]
  BY <1>2, FirstRest
<1> HIDE DEF x, y
<1>6. Len(s) \in Nat /\ n \in Nat /\ n <= Len(s)
  BY LenProperties
<1>7. u = x
  <2>1. \A i \in 1 .. n : i \in 1 .. Len(s)
    BY <1>6
  <2>2. Len(u) = n /\ Len(x) = n
    BY <1>1, <1>3, <1>5
  <2>3. ASSUME NEW i \in 1 .. n PROVE u[i] = x[i]
    <3>1. u[i] = s[i].mbuf
      BY <1>1, <1>3
    <3>2. x[i] = t[i] /\ t[i] = s[i].mbuf
      BY <1>2, <1>5, <2>1
    <3> QED BY <3>1, <3>2
  <2> QED BY <1>3, <1>5, <2>2, <2>3, SeqEqual
<1>8. v = y
  <2>1. \A i \in 1 .. Len(s) - n : n + i \in 1 .. Len(s)
    BY <1>6
  <2>2. Len(v) = Len(s) - n /\ Len(y) = Len(s) - n
    BY <1>1, <1>2, <1>4, <1>5
  <2>3. ASSUME NEW i \in 1 .. Len(s) - n PROVE v[i] = y[i]
    <3>1. v[i] = s[n + i].mbuf
      BY <1>1, <1>4
    <3>2. y[i] = t[n + i] /\ t[n + i] = s[n + i].mbuf
      BY <1>2, <1>5, <2>1
    <3> QED BY <3>1, <3>2
  <2> QED BY <1>4, <1>5, <2>2, <2>3, SeqEqual
<1> QED BY <1>7, <1>8 DEF a, b, t, u, v, x, y

\* A queue without duplicates takes an mbuf it does not have.
LEMMA InjectiveAppend ==
  ASSUME NEW S, NEW s \in Seq(S), IsInjective(s), NEW e \in S, e \notin Range(s)
  PROVE  IsInjective(Append(s, e))
<1> DEFINE t == Append(s, e)
<1>1. /\ t \in Seq(S) /\ Len(t) = Len(s) + 1 /\ t[Len(s) + 1] = e
      /\ \A i \in 1 .. Len(s) : t[i] = s[i]
  BY AppendProperties
<1> HIDE DEF t
<1>2. /\ Range(s) = {s[i] : i \in 1 .. Len(s)} /\ Len(s) \in Nat
      /\ DOMAIN s = 1 .. Len(s) /\ DOMAIN t = 1 .. Len(t)
  BY <1>1, RangeIs
<1> SUFFICES ASSUME NEW i \in 1 .. Len(t), NEW j \in 1 .. Len(t), t[i] = t[j]
             PROVE  i = j
  BY <1>2 DEF IsInjective, t
<1>3. \A k \in 1 .. Len(s) : t[k] # e
  BY <1>1, <1>2
<1>4. i \in 1 .. Len(s) \/ i = Len(s) + 1
  BY <1>1, <1>2
<1>5. j \in 1 .. Len(s) \/ j = Len(s) + 1
  BY <1>1, <1>2
<1>6. CASE i \in 1 .. Len(s) /\ j \in 1 .. Len(s)
  BY <1>1, <1>2, <1>6 DEF IsInjective
<1> QED BY <1>1, <1>3, <1>4, <1>5, <1>6

\* A queue without duplicates loses its first mbuf for good.
LEMMA InjectiveTail ==
  ASSUME NEW S, NEW s \in Seq(S), IsInjective(s), s # <<>>
  PROVE  /\ IsInjective(Tail(s)) /\ Range(Tail(s)) = Range(s) \ {Head(s)}
         /\ Head(s) \in Range(s)
<1> DEFINE t == Tail(s)
<1>1. /\ Range(s) = Range(t) \cup {Head(s)} /\ Head(s) = s[1]
      /\ t \in Seq(S) /\ Len(t) = Len(s) - 1 /\ \A i \in 1 .. Len(t) : t[i] = s[i + 1]
      /\ Len(s) \in Nat \ {0}
  BY RangeTail
<1> HIDE DEF t
<1>2. /\ Range(t) = {t[i] : i \in 1 .. Len(t)} /\ DOMAIN s = 1 .. Len(s)
      /\ DOMAIN t = 1 .. Len(t)
  BY <1>1, RangeIs
<1>3. ASSUME NEW i \in 1 .. Len(t), NEW j \in 1 .. Len(t), t[i] = t[j] PROVE i = j
  <2>1. i + 1 \in 1 .. Len(s) /\ j + 1 \in 1 .. Len(s)
    BY <1>1
  <2>2. s[i + 1] = s[j + 1]
    BY <1>1, <1>3
  <2>3. i + 1 = j + 1
    BY <1>2, <2>1, <2>2 DEF IsInjective
  <2> QED BY <2>3
<1>4. ASSUME NEW i \in 1 .. Len(t) PROVE t[i] # Head(s)
  <2>1. 1 \in 1 .. Len(s) /\ i + 1 \in 1 .. Len(s) /\ i + 1 # 1
    BY <1>1
  <2>2. s[i + 1] # s[1]
    BY <1>2, <2>1 DEF IsInjective
  <2> QED BY <1>1, <2>2
<1>5. IsInjective(t)
  BY <1>2, <1>3 DEF IsInjective
<1>6. Range(t) = Range(s) \ {Head(s)}
  BY <1>1, <1>2, <1>4
<1> QED BY <1>1, <1>5, <1>6 DEF t

\* A burst of a queue without duplicates and the rest share nothing.
LEMMA InjectiveSplit ==
  ASSUME NEW S, NEW s \in Seq(S), IsInjective(s), NEW n \in 0 .. Len(s)
  PROVE  /\ IsInjective(First(s, n)) /\ IsInjective(Rest(s, n))
         /\ Range(First(s, n)) \subseteq Range(s)
         /\ Range(Rest(s, n)) = Range(s) \ Range(First(s, n))
<1> DEFINE a == First(s, n)
           b == Rest(s, n)
<1>1. /\ a \in Seq(S) /\ Len(a) = n /\ \A i \in 1 .. n : a[i] = s[i]
      /\ b \in Seq(S) /\ Len(b) = Len(s) - n /\ \A i \in 1 .. Len(s) - n : b[i] = s[n + i]
  BY FirstRest
<1>2. Range(s) = Range(a) \cup Range(b)
  BY RangeSplit
<1> HIDE DEF a, b
<1>3. DOMAIN s = 1 .. Len(s) /\ Len(s) \in Nat /\ n \in Nat /\ n <= Len(s)
  BY RangeIs
<1>4. Range(a) = {a[i] : i \in 1 .. n} /\ DOMAIN a = 1 .. n
  <2>1. Range(a) = {a[i] : i \in 1 .. Len(a)} /\ DOMAIN a = 1 .. Len(a)
    BY <1>1, RangeIs
  <2> QED BY <1>1, <2>1
<1>5. Range(b) = {b[i] : i \in 1 .. Len(s) - n} /\ DOMAIN b = 1 .. Len(s) - n
  <2>1. Range(b) = {b[i] : i \in 1 .. Len(b)} /\ DOMAIN b = 1 .. Len(b)
    BY <1>1, RangeIs
  <2> QED BY <1>1, <2>1
<1>6. \A i \in 1 .. n : i \in 1 .. Len(s)
  BY <1>3
<1>7. \A i \in 1 .. Len(s) - n : n + i \in 1 .. Len(s)
  BY <1>3
<1>8. IsInjective(a)
  BY <1>1, <1>3, <1>4, <1>6 DEF IsInjective
<1>9. ASSUME NEW i \in 1 .. Len(s) - n, NEW j \in 1 .. Len(s) - n, b[i] = b[j] PROVE i = j
  <2>1. s[n + i] = s[n + j]
    BY <1>1, <1>9
  <2>2. n + i = n + j
    BY <1>3, <1>7, <2>1 DEF IsInjective
  <2> QED BY <1>3, <2>2
<1>10. IsInjective(b)
  BY <1>5, <1>9 DEF IsInjective
<1>11. ASSUME NEW i \in 1 .. n, NEW j \in 1 .. Len(s) - n PROVE a[i] # b[j]
  <2>1. i # n + j
    BY <1>3
  <2>2. s[i] # s[n + j]
    BY <1>3, <1>6, <1>7, <2>1 DEF IsInjective
  <2> QED BY <1>1, <2>2
<1>12. Range(a) \subseteq Range(s) /\ Range(b) = Range(s) \ Range(a)
  BY <1>2, <1>4, <1>5, <1>11
<1> QED BY <1>8, <1>10, <1>12 DEF a, b

\* The names of the holders.
NicH(c)    == <<"nicRx", c, 0>>
RxH(c)     == <<"rxPkts", c, 0>>
BufH(c, i) == <<"memifBuf", c, i>>
TxH(c)     == <<"txPkts", c, 0>>
EthH(c)    == <<"ethBuf", c, 0>>
CtrlH      == <<"ctrlRing", 0, 0>>
PoolH      == <<"pool", 0, 0>>
DevH       == <<"device", 0, 0>>
LostH      == <<"lost", 0, 0>>

\* What each of them holds.
HolderFacts ==
  /\ \A c \in RxCores : /\ Queue(NicH(c)) = MbufSeq(nicRx[c])
                        /\ Contents(NicH(c)) = Range(MbufSeq(nicRx[c]))
  /\ \A c \in RxCores : /\ Queue(RxH(c)) = MbufSeq(rxPkts[c])
                        /\ Contents(RxH(c)) = Range(MbufSeq(rxPkts[c]))
  /\ \A c \in RxCores : \A i \in Ports :
                        /\ Queue(BufH(c, i)) = MbufSeq(memifBuf[c][i])
                        /\ Contents(BufH(c, i)) = Range(MbufSeq(memifBuf[c][i]))
  /\ \A c \in TxCores : Queue(TxH(c)) = txPkts[c] /\ Contents(TxH(c)) = Range(txPkts[c])
  /\ \A c \in TxCores : Queue(EthH(c)) = ethBuf[c] /\ Contents(EthH(c)) = Range(ethBuf[c])
  /\ Queue(CtrlH) = ctrlRing /\ Contents(CtrlH) = Range(ctrlRing)
  /\ Contents(PoolH) = pool /\ Contents(DevH) = device /\ Contents(LostH) = lost

\* The holders hold their variables, before and after a step.
LEMMA HoldersHold == HolderFacts /\ HolderFacts'
<1>1. HolderFacts
  BY DEF HolderFacts, Queue, Contents, NicH, RxH, BufH, TxH, EthH, CtrlH, PoolH, DevH, LostH
<1>2. HolderFacts'
  BY DEF HolderFacts, Queue, Contents, NicH, RxH, BufH, TxH, EthH, CtrlH, PoolH, DevH, LostH
<1> QED BY <1>1, <1>2

\* There are no other holders.
LEMMA HoldersAre ==
  /\ \A c \in RxCores : NicH(c) \in Queues /\ RxH(c) \in Queues
  /\ \A c \in RxCores : \A i \in Ports : BufH(c, i) \in Queues
  /\ \A c \in TxCores : TxH(c) \in Queues /\ EthH(c) \in Queues
  /\ CtrlH \in Queues /\ Queues \subseteq Holders
  /\ {PoolH, DevH, LostH} \subseteq Holders \ Queues
  /\ \A h \in Queues :
       \/ \E c \in RxCores : h = NicH(c) \/ h = RxH(c) \/ \E i \in Ports : h = BufH(c, i)
       \/ (\E c \in TxCores : h = TxH(c) \/ h = EthH(c)) \/ h = CtrlH
  /\ \A h \in Holders : h \in Queues \/ h = PoolH \/ h = DevH \/ h = LostH
<1> USE DEF Queues, Holders, NicH, RxH, BufH, TxH, EthH, CtrlH, PoolH, DevH, LostH
<1>1. \A c \in RxCores : NicH(c) \in Queues /\ RxH(c) \in Queues
  OBVIOUS
<1>2. \A c \in RxCores : \A i \in Ports : BufH(c, i) \in Queues
  OBVIOUS
<1>3. \A c \in TxCores : TxH(c) \in Queues /\ EthH(c) \in Queues
  OBVIOUS
<1>4. CtrlH \in Queues /\ Queues \subseteq Holders
  OBVIOUS
<1>5. {PoolH, DevH, LostH} \subseteq Holders \ Queues
  OBVIOUS
<1>6. ASSUME NEW h \in Queues
      PROVE  \/ \E c \in RxCores : h = NicH(c) \/ h = RxH(c) \/ \E i \in Ports : h = BufH(c, i)
             \/ (\E c \in TxCores : h = TxH(c) \/ h = EthH(c)) \/ h = CtrlH
  OBVIOUS
<1>7. \A h \in Holders : h \in Queues \/ h = PoolH \/ h = DevH \/ h = LostH
  OBVIOUS
<1> QED BY <1>1, <1>2, <1>3, <1>4, <1>5, <1>6, <1>7

\* A holder whose variable did not change holds what it held.
LEMMA Frame ==
  ASSUME NEW h \in Holders,
         \A c \in RxCores : h = NicH(c) => nicRx'[c] = nicRx[c],
         \A c \in RxCores : h = RxH(c) => rxPkts'[c] = rxPkts[c],
         \A c \in RxCores : \A i \in Ports : h = BufH(c, i) => memifBuf'[c][i] = memifBuf[c][i],
         \A c \in TxCores : h = TxH(c) => txPkts'[c] = txPkts[c],
         \A c \in TxCores : h = EthH(c) => ethBuf'[c] = ethBuf[c],
         h = CtrlH => ctrlRing' = ctrlRing,
         h = PoolH => pool' = pool,
         h = DevH => device' = device,
         h = LostH => lost' = lost
  PROVE  Contents(h)' = Contents(h) /\ (h \in Queues => Queue(h)' = Queue(h))
<1>1. CASE h \in Queues
  <2>1. ASSUME NEW c \in RxCores, h = NicH(c) \/ h = RxH(c)
        PROVE  Contents(h)' = Contents(h) /\ Queue(h)' = Queue(h)
    BY <2>1, HoldersHold DEF HolderFacts
  <2>2. ASSUME NEW c \in RxCores, NEW i \in Ports, h = BufH(c, i)
        PROVE  Contents(h)' = Contents(h) /\ Queue(h)' = Queue(h)
    BY <2>2, HoldersHold DEF HolderFacts
  <2>3. ASSUME NEW c \in TxCores, h = TxH(c) \/ h = EthH(c)
        PROVE  Contents(h)' = Contents(h) /\ Queue(h)' = Queue(h)
    BY <2>3, HoldersHold DEF HolderFacts
  <2>4. ASSUME h = CtrlH
        PROVE  Contents(h)' = Contents(h) /\ Queue(h)' = Queue(h)
    BY <2>4, HoldersHold DEF HolderFacts
  <2> QED BY <1>1, <2>1, <2>2, <2>3, <2>4, HoldersAre
<1>2. CASE h = PoolH \/ h = DevH \/ h = LostH
  BY <1>2, HoldersHold, HoldersAre DEF HolderFacts
<1> QED BY <1>1, <1>2, HoldersAre

OneHolder ==
  \A m \in Mbufs : \E h \in Holders : \A k \in Holders : m \in Contents(k) <=> k = h

\* Two ways to say that every mbuf has one holder.
LEMMA AccountedIs ==
  /\ Accounted <=> (\A h \in Queues : IsInjective(Queue(h))) /\ OneHolder
  /\ Accounted' <=> (\A h \in Queues : IsInjective(Queue(h)')) /\ OneHolder'
<1>1. OneHolder <=> \A m \in Mbufs : \E h \in Holders : {k \in Holders : m \in Contents(k)} = {h}
  <2>1. \A m : \A h \in Holders :
          ({k \in Holders : m \in Contents(k)} = {h})
             <=> \A k \in Holders : m \in Contents(k) <=> k = h
    OBVIOUS
  <2> QED BY <2>1 DEF OneHolder
<1>2. OneHolder' <=> \A m \in Mbufs : \E h \in Holders : {k \in Holders : m \in Contents(k)'} = {h}
  <2>1. \A m : \A h \in Holders :
          ({k \in Holders : m \in Contents(k)'} = {h})
             <=> \A k \in Holders : m \in Contents(k)' <=> k = h
    OBVIOUS
  <2> QED BY <2>1 DEF OneHolder
<1> QED BY <1>1, <1>2 DEF Accounted

\* An mbuf is with one holder at most.
LEMMA OnlyOne ==
  ASSUME OneHolder, NEW h \in Holders, NEW k \in Holders, NEW m \in Mbufs,
         m \in Contents(h), m \in Contents(k)
  PROVE  h = k
BY DEF OneHolder

\* Mbufs X and Y go from the holders S to the holders g and k; the queues that
\* change have no duplicates afterwards.
Moved(S, g, k, X, Y) ==
  /\ S \subseteq Holders /\ g \in Holders \ S /\ k \in Holders \ S /\ g # k
  /\ X \subseteq Mbufs /\ Y \subseteq Mbufs /\ X \cap Y = {}
  /\ \A x \in X \cup Y : \E s \in S : x \in Contents(s)
  /\ \A s \in S : Contents(s)' = Contents(s) \ (X \cup Y)
  /\ Contents(g)' = Contents(g) \cup X /\ Contents(k)' = Contents(k) \cup Y
  /\ \A h \in Queues : h \in S \cup {g, k} => IsInjective(Queue(h)')
  /\ \A h \in Holders : h \notin S \cup {g, k} =>
       Contents(h)' = Contents(h) /\ (h \in Queues => Queue(h)' = Queue(h))

\* Mbufs that go from their holders to one or two others still have one holder.
LEMMA Handover ==
  ASSUME Accounted, NEW S, NEW g, NEW k, NEW X, NEW Y, Moved(S, g, k, X, Y)
  PROVE  Accounted'
<1>1. OneHolder /\ \A h \in Queues : IsInjective(Queue(h))
  BY AccountedIs
<1>2. ASSUME NEW m \in Mbufs
      PROVE  \E h \in Holders : \A j \in Holders : m \in Contents(j)' <=> j = h
  <2>1. PICK h \in Holders : \A j \in Holders : m \in Contents(j) <=> j = h
    BY <1>1 DEF OneHolder
  <2>2. CASE m \in X
    <3>1. h \in S /\ m \notin Y
      BY <2>1, <2>2 DEF Moved
    <3>2. \A j \in Holders : m \in Contents(j)' <=> j = g
      BY <2>1, <2>2, <3>1 DEF Moved
    <3> QED BY <3>2 DEF Moved
  <2>3. CASE m \in Y
    <3>1. h \in S /\ m \notin X
      BY <2>1, <2>3 DEF Moved
    <3>2. \A j \in Holders : m \in Contents(j)' <=> j = k
      BY <2>1, <2>3, <3>1 DEF Moved
    <3> QED BY <3>2 DEF Moved
  <2>4. CASE m \notin X \cup Y
    <3>1. \A j \in Holders : m \in Contents(j)' <=> m \in Contents(j)
      BY <2>4 DEF Moved
    <3> QED BY <2>1, <3>1
  <2> QED BY <2>2, <2>3, <2>4
<1>3. OneHolder'
  BY <1>2 DEF OneHolder
<1>4. \A h \in Queues : IsInjective(Queue(h)')
  BY <1>1, HoldersAre DEF Moved
<1> QED BY <1>3, <1>4, AccountedIs

\* Initially the pool has all mbufs.
LEMMA AccountedInit == Init => Accounted
<1> SUFFICES ASSUME Init PROVE Accounted
  OBVIOUS
<1>1. MbufSeq(<<>>) = <<>> /\ Range(<<>>) = {} /\ IsInjective(<<>>)
  BY DEF MbufSeq, Range, IsInjective
<1>2. ASSUME NEW h \in Queues PROVE Queue(h) = <<>> /\ Contents(h) = {}
  <2>1. ASSUME NEW c \in RxCores, h = NicH(c) \/ h = RxH(c) PROVE Queue(h) = <<>> /\ Contents(h) = {}
    BY <2>1, <1>1, HoldersHold DEF HolderFacts, Init
  <2>2. ASSUME NEW c \in RxCores, NEW i \in Ports, h = BufH(c, i)
        PROVE  Queue(h) = <<>> /\ Contents(h) = {}
    BY <2>2, <1>1, HoldersHold DEF HolderFacts, Init
  <2>3. ASSUME NEW c \in TxCores, h = TxH(c) \/ h = EthH(c)
        PROVE  Queue(h) = <<>> /\ Contents(h) = {}
    BY <2>3, <1>1, HoldersHold DEF HolderFacts, Init
  <2>4. ASSUME h = CtrlH PROVE Queue(h) = <<>> /\ Contents(h) = {}
    BY <2>4, <1>1, HoldersHold DEF HolderFacts, Init
  <2> QED BY <2>1, <2>2, <2>3, <2>4, HoldersAre
<1>3. Contents(PoolH) = Mbufs /\ Contents(DevH) = {} /\ Contents(LostH) = {}
  BY HoldersHold DEF HolderFacts, Init
<1>4. ASSUME NEW m \in Mbufs
      PROVE  \A k \in Holders : m \in Contents(k) <=> k = PoolH
  BY <1>2, <1>3, HoldersAre
<1>5. OneHolder
  BY <1>4, HoldersAre DEF OneHolder
<1> QED BY <1>1, <1>2, <1>5, AccountedIs

\* The mbuf of an arriving packet goes from the pool to a NIC queue.
LEMMA AccountedArrive ==
  ASSUME Types, Accounted, NEW f \in Flows, Arrive(f)
  PROVE  Accounted'
<1>1. PICK p \in Packets :
           /\ p.mbuf \in pool /\ p.flow = f /\ p.stamp = arrived + 1
           /\ pool' = pool \ {p.mbuf} /\ arrived' = arrived + 1 /\ arrived' \in 0 .. MaxPackets
           /\ nicRx' = [nicRx EXCEPT ![Rss[f]] = Append(@, p)]
  BY ArriveIs
<1>2. PICK c \in RxCores : c = Rss[f]
  BY Constants
<1>3. PICK m \in Mbufs : m = p.mbuf
  BY <1>1 DEF Types
<1>4. UNCHANGED <<rxPkts, memifBuf, ctrlRing, txPkts, ethBuf, device, lost>>
  BY DEF Arrive
<1>5. nicRx'[c] = Append(nicRx[c], p) /\ \A d \in RxCores : d # c => nicRx'[d] = nicRx[d]
  BY <1>1, <1>2 DEF Types
<1> DEFINE s == MbufSeq(nicRx[c])
           g == NicH(c)
<1>6. MbufSeq(nicRx'[c]) = Append(s, m) /\ s \in Seq(Mbufs)
  BY <1>3, <1>5, MbufSeqAppend, MbufSeqIs DEF Types
<1>7. /\ Queue(g) = s /\ Contents(g) = Range(s) /\ Queue(g)' = Append(s, m)
      /\ Contents(g)' = Range(Append(s, m)) /\ Contents(PoolH) = pool
      /\ Contents(PoolH)' = pool \ {m} /\ Contents(DevH)' = Contents(DevH)
  BY <1>1, <1>3, <1>4, <1>6, HoldersHold DEF HolderFacts
<1> HIDE DEF s
<1>8. Contents(g)' = Contents(g) \cup {m}
  BY <1>6, <1>7, RangeAppend
<1>9. g \in Queues /\ g \in Holders /\ PoolH \in Holders /\ DevH \in Holders
  BY HoldersAre
<1>10. g # PoolH /\ g # DevH /\ PoolH # DevH /\ PoolH \notin Queues /\ DevH \notin Queues
  BY <1>9, HoldersAre DEF PoolH, DevH
<1>11. m \notin Contents(g) /\ IsInjective(s)
  BY <1>1, <1>3, <1>7, <1>9, <1>10, AccountedIs, OnlyOne
<1>12. IsInjective(Queue(g)')
  BY <1>6, <1>7, <1>11, InjectiveAppend
<1>13. ASSUME NEW h \in Holders, h # g, h # PoolH
       PROVE  Contents(h)' = Contents(h) /\ (h \in Queues => Queue(h)' = Queue(h))
  BY <1>4, <1>5, <1>13, Frame
<1> HIDE DEF g
<1>14. Moved({PoolH}, g, DevH, {m}, {})
  BY <1>1, <1>3, <1>7, <1>8, <1>9, <1>10, <1>12, <1>13 DEF Moved
<1> QED BY <1>14, Handover

\* A burst goes from the NIC queue to the core.
LEMMA AccountedRxBurst ==
  ASSUME Types, Accounted, NEW c \in RxCores, RxBurst(c)
  PROVE  Accounted'
<1>1. PICK n \in 0 .. Len(nicRx[c]) :
        /\ n <= BurstSize /\ rxPkts[c] = <<>>
        /\ rxPkts' = [rxPkts EXCEPT ![c] = First(nicRx[c], n)]
        /\ nicRx' = [nicRx EXCEPT ![c] = Rest(nicRx[c], n)]
  BY RxBurstIs
<1>2. UNCHANGED <<pool, memifBuf, ctrlRing, txPkts, ethBuf, device, lost>>
  BY DEF RxBurst
<1>3. /\ nicRx'[c] = Rest(nicRx[c], n) /\ rxPkts'[c] = First(nicRx[c], n)
      /\ \A d \in RxCores : d # c => nicRx'[d] = nicRx[d] /\ rxPkts'[d] = rxPkts[d]
  BY <1>1 DEF Types
<1> DEFINE s == MbufSeq(nicRx[c])
<1>4. nicRx[c] \in Seq(Packets)
  BY DEF Types
<1>5. /\ MbufSeq(nicRx'[c]) = Rest(s, n) /\ MbufSeq(rxPkts'[c]) = First(s, n)
      /\ s \in Seq(Mbufs) /\ Len(s) = Len(nicRx[c])
  BY <1>3, <1>4, MbufSeqSplit, MbufSeqIs
<1>6. MbufSeq(rxPkts[c]) = <<>> /\ Range(<<>>) = {}
  BY <1>1 DEF MbufSeq, Range
<1>7. /\ Queue(NicH(c)) = s /\ Contents(NicH(c)) = Range(s)
      /\ Queue(NicH(c))' = Rest(s, n) /\ Contents(NicH(c))' = Range(Rest(s, n))
      /\ Contents(RxH(c)) = {} /\ Queue(RxH(c))' = First(s, n)
      /\ Contents(RxH(c))' = Range(First(s, n)) /\ Contents(DevH)' = Contents(DevH)
  BY <1>2, <1>5, <1>6, HoldersHold DEF HolderFacts
<1> HIDE DEF s
<1>8. {NicH(c), RxH(c)} \subseteq Queues /\ {NicH(c), RxH(c), DevH} \subseteq Holders /\ DevH \notin Queues
  BY HoldersAre
<1>9. NicH(c) # DevH /\ RxH(c) # DevH /\ NicH(c) # RxH(c)
  BY DEF NicH, RxH, DevH
<1>10. IsInjective(s)
  BY <1>7, <1>8, AccountedIs
<1>11. PICK X : X = Range(First(s, n))
  OBVIOUS
<1>12. n \in 0 .. Len(s)
  BY <1>5
<1>13. /\ IsInjective(First(s, n)) /\ IsInjective(Rest(s, n)) /\ X \subseteq Range(s)
       /\ Range(Rest(s, n)) = Range(s) \ X
  BY <1>5, <1>10, <1>11, <1>12, InjectiveSplit
<1>14. Range(s) \subseteq Mbufs
  BY <1>5, RangeIs
<1>15. ASSUME NEW h \in Holders, h # NicH(c), h # RxH(c)
       PROVE  Contents(h)' = Contents(h) /\ (h \in Queues => Queue(h)' = Queue(h))
  BY <1>2, <1>3, <1>15, Frame
<1>16. Moved({NicH(c)}, RxH(c), DevH, X, {})
  BY <1>7, <1>8, <1>9, <1>11, <1>13, <1>14, <1>15 DEF Moved
<1> QED BY <1>16, Handover

\* A drain returns the mbufs of all buffers of the core to the pool.
LEMMA AccountedRxDrain ==
  ASSUME Types, Accounted, NEW c \in RxCores, RxDrain(c)
  PROVE  Accounted'
<1>1. PICK n \in [Ports -> Nat] :
        /\ \A i \in Ports : n[i] \in 0 .. Len(memifBuf[c][i])
        /\ Flushed(UNION {Range(First(memifBuf[c][i], n[i])) : i \in Ports},
                   UNION {Range(memifBuf[c][i]) : i \in Ports})
        /\ \A i \in Ports : Range(First(memifBuf[c][i], n[i])) \subseteq Range(memifBuf[c][i])
        /\ \A i \in Ports : Range(memifBuf[c][i]) \subseteq Packets
        /\ memifBuf' = [memifBuf EXCEPT ![c] = [i \in Ports |-> <<>>]]
  BY RxDrainIs
<1>2. UNCHANGED <<nicRx, rxPkts, ctrlRing, txPkts, ethBuf, device, lost>>
  BY DEF RxDrain
<1>3. PICK X : X = {p.mbuf : p \in UNION {Range(memifBuf[c][i]) : i \in Ports}}
  OBVIOUS
<1>4. pool' = pool \cup X
  BY <1>1, <1>3 DEF Flushed
<1>5. /\ \A i \in Ports : memifBuf'[c][i] = <<>>
      /\ \A d \in RxCores : d # c => memifBuf'[d] = memifBuf[d]
  BY <1>1 DEF Types
<1>6. MbufSeq(<<>>) = <<>> /\ Range(<<>>) = {} /\ IsInjective(<<>>)
  BY DEF MbufSeq, Range, IsInjective
<1>7. ASSUME NEW i \in Ports
      PROVE  /\ Contents(BufH(c, i)) = {p.mbuf : p \in Range(memifBuf[c][i])}
             /\ Contents(BufH(c, i))' = {} /\ IsInjective(Queue(BufH(c, i))')
  <2>1. memifBuf[c][i] \in Seq(Packets)
    BY DEF Types
  <2>2. Range(MbufSeq(memifBuf[c][i])) = {p.mbuf : p \in Range(memifBuf[c][i])}
    BY <2>1, MbufSeqRange
  <2> QED BY <2>2, <1>5, <1>6, HoldersHold DEF HolderFacts
<1>8. PICK S : S = {BufH(c, i) : i \in Ports}
  OBVIOUS
<1>9. \A x \in X : \E h \in S : x \in Contents(h)
  BY <1>3, <1>7, <1>8
<1>10. \A h \in S : Contents(h) \subseteq X /\ Contents(h)' = {} /\ IsInjective(Queue(h)')
  BY <1>3, <1>7, <1>8
<1>11. X \subseteq Mbufs
  BY <1>1, <1>3 DEF Packets
<1>12. S \subseteq Queues /\ S \subseteq Holders /\ {PoolH, DevH} \subseteq Holders \ Queues
  BY <1>8, HoldersAre
<1>13. PoolH # DevH
  BY DEF PoolH, DevH
<1>14. ASSUME NEW h \in Holders, h \notin S, h # PoolH
       PROVE  Contents(h)' = Contents(h) /\ (h \in Queues => Queue(h)' = Queue(h))
  <2>1. \A d \in RxCores : \A i \in Ports : h = BufH(d, i) => memifBuf'[d][i] = memifBuf[d][i]
    BY <1>5, <1>8, <1>14
  <2> QED BY <1>2, <1>14, <2>1, Frame
<1>15. /\ Contents(PoolH)' = Contents(PoolH) \cup X
       /\ Contents(DevH)' = Contents(DevH) \cup {}
  BY <1>2, <1>4, HoldersHold DEF HolderFacts
<1>16. Moved(S, PoolH, DevH, X, {})
  BY <1>9, <1>10, <1>11, <1>12, <1>13, <1>14, <1>15 DEF Moved
<1> QED BY <1>16, Handover

\* A packet for the control ring goes there, or is lost when the ring is full.
LEMMA AccountedCtrl ==
  ASSUME Types, Accounted, NEW c \in RxCores, NEW p \in Packets,
         rxPkts[c] # <<>>, p = Head(rxPkts[c]),
         rxPkts' = [rxPkts EXCEPT ![c] = Tail(rxPkts[c])],
         EnqueueCtrl(p.mbuf),
         UNCHANGED <<pool, memifBuf, nicRx, txPkts, ethBuf, device>>
  PROVE  Accounted'
<1> DEFINE s == MbufSeq(rxPkts[c])
<1>1. PICK m \in Mbufs : m = p.mbuf
  BY DEF Packets
<1>2. rxPkts'[c] = Tail(rxPkts[c]) /\ \A d \in RxCores : d # c => rxPkts'[d] = rxPkts[d]
  BY DEF Types
<1>3. rxPkts[c] \in Seq(Packets) /\ ctrlRing \in Seq(Mbufs)
  BY DEF Types
<1>4. s \in Seq(Mbufs) /\ s # <<>> /\ Head(s) = m /\ MbufSeq(rxPkts'[c]) = Tail(s)
  BY <1>1, <1>2, <1>3, MbufSeqIs, MbufSeqTail
<1>5. /\ Queue(RxH(c)) = s /\ Contents(RxH(c)) = Range(s)
      /\ Queue(RxH(c))' = Tail(s) /\ Contents(RxH(c))' = Range(Tail(s))
  BY <1>4, HoldersHold DEF HolderFacts
<1> HIDE DEF s
<1>6. /\ {RxH(c), CtrlH} \subseteq Queues /\ {RxH(c), CtrlH} \subseteq Holders
      /\ {LostH, DevH} \subseteq Holders \ Queues
  BY HoldersAre
<1>7. RxH(c) # CtrlH /\ RxH(c) # LostH /\ RxH(c) # DevH /\ LostH # DevH /\ CtrlH # DevH
  BY DEF RxH, CtrlH, LostH, DevH
<1>8. IsInjective(s)
  BY <1>5, <1>6, AccountedIs
<1>9. IsInjective(Tail(s)) /\ Range(Tail(s)) = Range(s) \ {m} /\ m \in Range(s)
  BY <1>4, <1>8, InjectiveTail
<1>10. CASE ctrlRing' = Append(ctrlRing, m) /\ UNCHANGED lost
  <2>1. /\ Contents(CtrlH) = Range(ctrlRing) /\ Queue(CtrlH) = ctrlRing
        /\ Contents(CtrlH)' = Range(Append(ctrlRing, m)) /\ Queue(CtrlH)' = Append(ctrlRing, m)
        /\ Contents(DevH)' = Contents(DevH)
    BY <1>10, HoldersHold DEF HolderFacts
  <2>2. Contents(CtrlH)' = Contents(CtrlH) \cup {m}
    BY <1>3, <2>1, RangeAppend
  <2>3. m \notin Range(ctrlRing) /\ IsInjective(ctrlRing)
    BY <1>5, <1>6, <1>7, <1>9, <2>1, AccountedIs, OnlyOne
  <2>4. IsInjective(Queue(CtrlH)')
    BY <1>3, <2>1, <2>3, InjectiveAppend
  <2>5. ASSUME NEW h \in Holders, h # RxH(c), h # CtrlH
        PROVE  Contents(h)' = Contents(h) /\ (h \in Queues => Queue(h)' = Queue(h))
    BY <1>2, <1>10, <2>5, Frame
  <2>6. Moved({RxH(c)}, CtrlH, DevH, {m}, {})
    BY <1>5, <1>6, <1>7, <1>9, <2>1, <2>2, <2>4, <2>5 DEF Moved
  <2> QED BY <2>6, Handover
<1>11. CASE lost' = lost \cup {m} /\ UNCHANGED ctrlRing
  <2>1. Contents(LostH)' = Contents(LostH) \cup {m} /\ Contents(DevH)' = Contents(DevH)
    BY <1>11, HoldersHold DEF HolderFacts
  <2>2. ASSUME NEW h \in Holders, h # RxH(c), h # LostH
        PROVE  Contents(h)' = Contents(h) /\ (h \in Queues => Queue(h)' = Queue(h))
    BY <1>2, <1>11, <2>2, Frame
  <2>3. Moved({RxH(c)}, LostH, DevH, {m}, {})
    BY <1>5, <1>6, <1>7, <1>9, <2>1, <2>2 DEF Moved
  <2> QED BY <2>3, Handover
<1> QED BY <1>1, <1>10, <1>11 DEF EnqueueCtrl

\* A UDP packet goes to the buffer of its port, which may send all it has to the
\* pool.
LEMMA AccountedUdp ==
  ASSUME Types, Accounted, NEW c \in RxCores, NEW i \in Ports, NEW p \in Packets,
         rxPkts[c] # <<>>, p = Head(rxPkts[c]),
         rxPkts' = [rxPkts EXCEPT ![c] = Tail(rxPkts[c])],
         TxBufferMemif(c, i, p),
         UNCHANGED <<ctrlRing, lost, nicRx, txPkts, ethBuf, device>>
  PROVE  Accounted'
<1> DEFINE s == MbufSeq(rxPkts[c])
           t == MbufSeq(memifBuf[c][i])
<1>1. PICK m \in Mbufs : m = p.mbuf
  BY DEF Packets
<1>2. rxPkts'[c] = Tail(rxPkts[c]) /\ \A d \in RxCores : d # c => rxPkts'[d] = rxPkts[d]
  BY DEF Types
<1>3. rxPkts[c] \in Seq(Packets) /\ memifBuf[c][i] \in Seq(Packets)
  BY DEF Types
<1>4. s \in Seq(Mbufs) /\ s # <<>> /\ Head(s) = m /\ MbufSeq(rxPkts'[c]) = Tail(s)
  BY <1>1, <1>2, <1>3, MbufSeqIs, MbufSeqTail
<1>5. /\ t \in Seq(Mbufs) /\ MbufSeq(Append(memifBuf[c][i], p)) = Append(t, m)
      /\ Range(t) = {q.mbuf : q \in Range(memifBuf[c][i])}
  BY <1>1, <1>3, MbufSeqIs, MbufSeqAppend, MbufSeqRange
<1>6. /\ Queue(RxH(c)) = s /\ Contents(RxH(c)) = Range(s)
      /\ Queue(RxH(c))' = Tail(s) /\ Contents(RxH(c))' = Range(Tail(s))
      /\ Queue(BufH(c, i)) = t /\ Contents(BufH(c, i)) = Range(t)
      /\ Queue(BufH(c, i))' = MbufSeq(memifBuf'[c][i])
      /\ Contents(BufH(c, i))' = Range(MbufSeq(memifBuf'[c][i]))
      /\ Contents(DevH)' = Contents(DevH)
  <2>1. /\ Queue(RxH(c)) = s /\ Contents(RxH(c)) = Range(s)
        /\ Queue(RxH(c))' = Tail(s) /\ Contents(RxH(c))' = Range(Tail(s))
    BY <1>4, HoldersHold DEF HolderFacts
  <2>2. Queue(BufH(c, i)) = t /\ Contents(BufH(c, i)) = Range(t)
    BY HoldersHold DEF HolderFacts
  <2>3. /\ Queue(BufH(c, i))' = MbufSeq(memifBuf'[c][i])
        /\ Contents(BufH(c, i))' = Range(MbufSeq(memifBuf'[c][i]))
    BY HoldersHold DEF HolderFacts
  <2>4. Contents(DevH)' = Contents(DevH)
    BY HoldersHold DEF HolderFacts
  <2> QED BY <2>1, <2>2, <2>3, <2>4
<1> HIDE DEF s, t
<1>7. /\ {RxH(c), BufH(c, i)} \subseteq Queues /\ {RxH(c), BufH(c, i)} \subseteq Holders
      /\ {PoolH, DevH} \subseteq Holders \ Queues
  BY HoldersAre
<1>8. /\ RxH(c) # BufH(c, i) /\ RxH(c) # DevH /\ RxH(c) # PoolH /\ PoolH # DevH
      /\ BufH(c, i) # DevH /\ BufH(c, i) # PoolH
  BY DEF RxH, BufH, PoolH, DevH
<1>9. \A d \in RxCores : \A j \in Ports : d # c \/ j # i => memifBuf'[d][j] = memifBuf[d][j]
  <2>1. \/ memifBuf' = [memifBuf EXCEPT ![c][i] = Append(memifBuf[c][i], p)]
        \/ memifBuf' = [memifBuf EXCEPT ![c][i] = <<>>]
    BY TxBufferMemifIs
  <2>2. CASE memifBuf' = [memifBuf EXCEPT ![c][i] = Append(memifBuf[c][i], p)]
    BY <2>2 DEF Types
  <2>3. CASE memifBuf' = [memifBuf EXCEPT ![c][i] = <<>>]
    BY <2>3 DEF Types
  <2> QED BY <2>1, <2>2, <2>3
<1>10. \A d \in RxCores : \A j \in Ports : BufH(d, j) # BufH(c, i) => d # c \/ j # i
  OBVIOUS
<1>11. IsInjective(s) /\ IsInjective(t)
  BY <1>6, <1>7, AccountedIs
<1>12. IsInjective(Tail(s)) /\ Range(Tail(s)) = Range(s) \ {m} /\ m \in Range(s)
  BY <1>4, <1>11, InjectiveTail
<1>13. m \notin Range(t)
  BY <1>6, <1>7, <1>8, <1>12, AccountedIs, OnlyOne
<1>14. CASE memifBuf' = [memifBuf EXCEPT ![c][i] = Append(memifBuf[c][i], p)] /\ pool' = pool
  <2>1. memifBuf'[c][i] = Append(memifBuf[c][i], p)
    BY <1>14 DEF Types
  <2>2. MbufSeq(memifBuf'[c][i]) = Append(t, m)
    BY <1>5, <2>1
  <2>3. Contents(BufH(c, i))' = Contents(BufH(c, i)) \cup {m} /\ IsInjective(Queue(BufH(c, i))')
    <3>1. Range(Append(t, m)) = Range(t) \cup {m}
      BY <1>5, RangeAppend
    <3>2. IsInjective(Append(t, m))
      BY <1>5, <1>11, <1>13, InjectiveAppend
    <3> QED BY <1>6, <2>2, <3>1, <3>2
  <2>4. ASSUME NEW h \in Holders, h # RxH(c), h # BufH(c, i)
        PROVE  Contents(h)' = Contents(h) /\ (h \in Queues => Queue(h)' = Queue(h))
    BY <1>2, <1>9, <1>10, <1>14, <2>4, Frame
  <2>5. Moved({RxH(c)}, BufH(c, i), DevH, {m}, {})
    BY <1>6, <1>7, <1>8, <1>12, <2>3, <2>4 DEF Moved
  <2> QED BY <2>5, Handover
<1>15. CASE /\ \E accepted : Flushed(accepted, Range(memifBuf[c][i]) \cup {p})
            /\ memifBuf' = [memifBuf EXCEPT ![c][i] = <<>>]
  <2>1. memifBuf'[c][i] = <<>>
    BY <1>15 DEF Types
  <2>2. MbufSeq(<<>>) = <<>> /\ Range(<<>>) = {} /\ IsInjective(<<>>)
    BY DEF MbufSeq, Range, IsInjective
  <2>3. PICK X : X = Range(t) \cup {m}
    OBVIOUS
  <2>4. pool' = pool \cup X
    BY <1>1, <1>5, <1>15, <2>3 DEF Flushed
  <2>5. /\ Contents(BufH(c, i))' = {} /\ IsInjective(Queue(BufH(c, i))')
        /\ Contents(PoolH)' = Contents(PoolH) \cup X
    BY <1>6, <2>1, <2>2, <2>4, HoldersHold DEF HolderFacts
  <2>6. Range(s) \cap Range(t) = {}
    <3>1. Range(s) \subseteq Mbufs
      BY <1>4, RangeIs
    <3> QED BY <3>1, <1>6, <1>7, <1>8, AccountedIs, OnlyOne
  <2>7. ASSUME NEW h \in Holders, h # RxH(c), h # BufH(c, i), h # PoolH
        PROVE  Contents(h)' = Contents(h) /\ (h \in Queues => Queue(h)' = Queue(h))
    BY <1>2, <1>9, <1>10, <2>7, Frame
  <2>8. X \subseteq Mbufs
    BY <1>5, <2>3, RangeIs
  <2>9. Contents(RxH(c))' = Contents(RxH(c)) \ X /\ Contents(BufH(c, i))' = Contents(BufH(c, i)) \ X
    BY <1>6, <1>12, <2>3, <2>5, <2>6
  <2>10. \A x \in X : x \in Contents(RxH(c)) \/ x \in Contents(BufH(c, i))
    BY <1>6, <1>12, <2>3
  <2>11. IsInjective(Queue(RxH(c))')
    BY <1>6, <1>12
  <2>12. Moved({RxH(c), BufH(c, i)}, PoolH, DevH, X, {})
    BY <1>6, <1>7, <1>8, <2>5, <2>7, <2>8, <2>9, <2>10, <2>11 DEF Moved
  <2> QED BY <2>12, Handover
<1> QED BY <1>14, <1>15, TxBufferMemifIs

\* A classified packet has one holder.
LEMMA AccountedClassify ==
  ASSUME Types, Accounted, NEW c \in RxCores, Classify(c)
  PROVE  Accounted'
<1>1. PICK p \in Packets :
           /\ rxPkts[c] # <<>> /\ p = Head(rxPkts[c]) /\ Tail(rxPkts[c]) \in Seq(Packets)
           /\ Len(Tail(rxPkts[c])) = Len(rxPkts[c]) - 1
           /\ rxPkts' = [rxPkts EXCEPT ![c] = Tail(rxPkts[c])]
           /\ \/ /\ p.flow \in UdpFlows /\ MemifOf(p) \in Ports
                 /\ TxBufferMemif(c, MemifOf(p), p) /\ UNCHANGED <<ctrlRing, lost>>
              \/ /\ p.mbuf \in Mbufs
                 /\ EnqueueCtrl(p.mbuf) /\ UNCHANGED <<pool, newest, memifBuf>>
  BY ClassifyIs
<1>2. UNCHANGED <<nicRx, txPkts, ethBuf, device>>
  BY DEF Classify
<1>3. CASE MemifOf(p) \in Ports /\ TxBufferMemif(c, MemifOf(p), p) /\ UNCHANGED <<ctrlRing, lost>>
  <2>1. PICK i \in Ports : i = MemifOf(p)
    BY <1>3
  <2>2. TxBufferMemif(c, i, p)
    BY <1>3, <2>1
  <2> QED BY <1>1, <1>2, <1>3, <2>2, AccountedUdp
<1>4. CASE EnqueueCtrl(p.mbuf) /\ UNCHANGED <<pool, newest, memifBuf>>
  BY <1>1, <1>2, <1>4, AccountedCtrl
<1> QED BY <1>1, <1>3, <1>4

\* A drain of a tx core splits its buffer between the NIC and the pool.
LEMMA AccountedTxDrain ==
  ASSUME Types, Accounted, NEW c \in TxCores, TxDrain(c)
  PROVE  Accounted'
<1> DEFINE s == ethBuf[c]
<1>1. s \in Seq(Mbufs)
  BY DEF Types
<1>2. PICK n \in 0 .. Len(s) : FlushEth(c, s, n)
  BY DEF TxDrain
<1>3. UNCHANGED <<nicRx, rxPkts, memifBuf, ctrlRing, txPkts, lost>>
  BY DEF TxDrain
<1>4. PICK X, Y : X = Range(First(s, n)) /\ Y = Range(Rest(s, n))
  OBVIOUS
<1>5. /\ device' = device \cup X /\ pool' = pool \cup Y
      /\ ethBuf'[c] = <<>> /\ \A d \in TxCores : d # c => ethBuf'[d] = ethBuf[d]
  BY <1>2, <1>4 DEF FlushEth, Types
<1>6. Range(<<>>) = {} /\ IsInjective(<<>>)
  BY DEF Range, IsInjective
<1>7. /\ Queue(EthH(c)) = s /\ Contents(EthH(c)) = Range(s)
      /\ IsInjective(Queue(EthH(c))') /\ Contents(EthH(c))' = {}
      /\ Contents(DevH)' = Contents(DevH) \cup X /\ Contents(PoolH)' = Contents(PoolH) \cup Y
  BY <1>5, <1>6, HoldersHold DEF HolderFacts
<1> HIDE DEF s
<1>8. EthH(c) \in Queues /\ EthH(c) \in Holders /\ {PoolH, DevH} \subseteq Holders \ Queues
  BY HoldersAre
<1>9. PoolH # DevH
  BY DEF PoolH, DevH
<1>10. IsInjective(s)
  BY <1>7, <1>8, AccountedIs
<1>11. X \subseteq Range(s) /\ Y = Range(s) \ X /\ Range(s) \subseteq Mbufs
  BY <1>1, <1>4, <1>10, InjectiveSplit, RangeIs
<1>12. ASSUME NEW h \in Holders, h # EthH(c), h # PoolH, h # DevH
       PROVE  Contents(h)' = Contents(h) /\ (h \in Queues => Queue(h)' = Queue(h))
  BY <1>3, <1>5, <1>12, Frame
<1>13. Moved({EthH(c)}, DevH, PoolH, X, Y)
  BY <1>7, <1>8, <1>9, <1>11, <1>12 DEF Moved
<1> QED BY <1>13, Handover

\* A burst of a tx core is filled from the pool.
LEMMA AccountedTxReceive ==
  ASSUME Types, Accounted, NEW c \in TxCores, NEW idx, TxReceive(c, idx), txPkts[c] = <<>>
  PROVE  Accounted'
<1>1. PICK s \in Seq(Mbufs) :
        /\ IsInjective(s) /\ Range(s) \subseteq pool /\ Len(s) <= BurstSize
        /\ txPkts' = [txPkts EXCEPT ![c] = s] /\ pool' = pool \ Range(s)
  BY TxReceiveIs
<1>2. UNCHANGED <<nicRx, rxPkts, memifBuf, ctrlRing, ethBuf, device, lost>>
  BY DEF TxReceive
<1>3. txPkts'[c] = s /\ \A d \in TxCores : d # c => txPkts'[d] = txPkts[d]
  BY <1>1 DEF Types
<1>4. Range(<<>>) = {}
  BY DEF Range
<1>5. /\ Contents(TxH(c)) = {} /\ Contents(TxH(c))' = Range(s) /\ Queue(TxH(c))' = s
      /\ Contents(PoolH) = pool /\ Contents(PoolH)' = pool \ Range(s)
      /\ Contents(DevH)' = Contents(DevH)
  BY <1>1, <1>2, <1>3, <1>4, HoldersHold DEF HolderFacts
<1>6. TxH(c) \in Queues /\ TxH(c) \in Holders /\ {PoolH, DevH} \subseteq Holders \ Queues
  BY HoldersAre
<1>7. PoolH # DevH
  BY DEF PoolH, DevH
<1>8. ASSUME NEW h \in Holders, h # TxH(c), h # PoolH
      PROVE  Contents(h)' = Contents(h) /\ (h \in Queues => Queue(h)' = Queue(h))
  BY <1>2, <1>3, <1>8, Frame
<1>9. Range(s) \subseteq Mbufs
  BY RangeIs
<1>10. Moved({PoolH}, TxH(c), DevH, Range(s), {})
  BY <1>1, <1>5, <1>6, <1>7, <1>8, <1>9 DEF Moved
<1> QED BY <1>10, Handover

\* A packet of a tx core goes to its buffer, or the buffer with it to the NIC and
\* the pool.
LEMMA AccountedTxBufferEth ==
  ASSUME Types, Accounted, NEW c \in TxCores, TxBufferEth(c)
  PROVE  Accounted'
<1> DEFINE s == txPkts[c]
           t == ethBuf[c]
<1>1. s \in Seq(Mbufs) /\ s # <<>> /\ t \in Seq(Mbufs)
  BY DEF Types, TxBufferEth
<1>2. PICK m \in Mbufs : m = Head(s)
  BY <1>1, HeadTailProperties
<1>3. UNCHANGED <<nicRx, rxPkts, memifBuf, ctrlRing, lost>>
  BY DEF TxBufferEth
<1>4. txPkts'[c] = Tail(s) /\ \A d \in TxCores : d # c => txPkts'[d] = txPkts[d]
  BY DEF Types, TxBufferEth
<1>5. \/ ethBuf' = [ethBuf EXCEPT ![c] = Append(t, m)] /\ UNCHANGED <<pool, device>>
      \/ \E n \in 0 .. Len(Append(t, m)) : FlushEth(c, Append(t, m), n)
  BY <1>2 DEF TxBufferEth
<1>6. /\ Queue(TxH(c)) = s /\ Contents(TxH(c)) = Range(s)
      /\ Queue(TxH(c))' = Tail(s) /\ Contents(TxH(c))' = Range(Tail(s))
      /\ Queue(EthH(c)) = t /\ Contents(EthH(c)) = Range(t)
      /\ Queue(EthH(c))' = ethBuf'[c] /\ Contents(EthH(c))' = Range(ethBuf'[c])
  BY <1>4, HoldersHold DEF HolderFacts
<1> HIDE DEF s, t
<1>7. /\ {TxH(c), EthH(c)} \subseteq Queues /\ {TxH(c), EthH(c)} \subseteq Holders
      /\ {PoolH, DevH} \subseteq Holders \ Queues
  BY HoldersAre
<1>8. TxH(c) # EthH(c) /\ PoolH # DevH
  BY DEF TxH, EthH, PoolH, DevH
<1>9. IsInjective(s) /\ IsInjective(t)
  BY <1>6, <1>7, AccountedIs
<1>10. IsInjective(Tail(s)) /\ Range(Tail(s)) = Range(s) \ {m} /\ m \in Range(s)
  BY <1>1, <1>2, <1>9, InjectiveTail
<1>11. Range(s) \cap Range(t) = {} /\ Range(s) \subseteq Mbufs /\ Range(t) \subseteq Mbufs
  <2>1. Range(s) \subseteq Mbufs /\ Range(t) \subseteq Mbufs
    BY <1>1, RangeIs
  <2> QED BY <2>1, <1>6, <1>7, <1>8, AccountedIs, OnlyOne
<1>12. /\ Append(t, m) \in Seq(Mbufs) /\ Range(Append(t, m)) = Range(t) \cup {m}
       /\ IsInjective(Append(t, m))
  BY <1>1, <1>9, <1>10, <1>11, AppendProperties, RangeAppend, InjectiveAppend
<1>13. CASE ethBuf' = [ethBuf EXCEPT ![c] = Append(t, m)] /\ UNCHANGED <<pool, device>>
  <2>1. ethBuf'[c] = Append(t, m) /\ \A d \in TxCores : d # c => ethBuf'[d] = ethBuf[d]
    BY <1>13 DEF Types
  <2>2. ASSUME NEW h \in Holders, h # TxH(c), h # EthH(c)
        PROVE  Contents(h)' = Contents(h) /\ (h \in Queues => Queue(h)' = Queue(h))
    BY <1>3, <1>4, <1>13, <2>1, <2>2, Frame
  <2>3. Contents(DevH)' = Contents(DevH)
    BY <1>13, HoldersHold DEF HolderFacts
  <2>4. Moved({TxH(c)}, EthH(c), DevH, {m}, {})
    BY <1>6, <1>7, <1>8, <1>10, <1>12, <2>1, <2>2, <2>3 DEF Moved
  <2> QED BY <2>4, Handover
<1>14. CASE \E n \in 0 .. Len(Append(t, m)) : FlushEth(c, Append(t, m), n)
  <2>1. PICK n \in 0 .. Len(Append(t, m)) : FlushEth(c, Append(t, m), n)
    BY <1>14
  <2>2. PICK X, Y : X = Range(First(Append(t, m), n)) /\ Y = Range(Rest(Append(t, m), n))
    OBVIOUS
  <2>3. /\ device' = device \cup X /\ pool' = pool \cup Y
        /\ ethBuf'[c] = <<>> /\ \A d \in TxCores : d # c => ethBuf'[d] = ethBuf[d]
    BY <2>1, <2>2 DEF FlushEth, Types
  <2>4. X \subseteq Range(t) \cup {m} /\ Y = (Range(t) \cup {m}) \ X
    BY <1>12, <2>2, InjectiveSplit
  <2>5. Range(<<>>) = {} /\ IsInjective(<<>>)
    BY DEF Range, IsInjective
  <2>6. /\ Contents(EthH(c))' = {} /\ IsInjective(Queue(EthH(c))')
        /\ Contents(DevH)' = Contents(DevH) \cup X /\ Contents(PoolH)' = Contents(PoolH) \cup Y
    BY <1>6, <2>3, <2>5, HoldersHold DEF HolderFacts
  <2>7. ASSUME NEW h \in Holders, h # TxH(c), h # EthH(c), h # DevH, h # PoolH
        PROVE  Contents(h)' = Contents(h) /\ (h \in Queues => Queue(h)' = Queue(h))
    BY <1>3, <1>4, <2>3, <2>7, Frame
  <2>8. X \cup Y = Range(t) \cup {m} /\ X \cap Y = {} /\ X \subseteq Mbufs /\ Y \subseteq Mbufs
    BY <1>11, <2>4
  <2>9. /\ Contents(TxH(c))' = Contents(TxH(c)) \ (X \cup Y)
        /\ Contents(EthH(c))' = Contents(EthH(c)) \ (X \cup Y)
        /\ \A x \in X \cup Y : x \in Contents(TxH(c)) \/ x \in Contents(EthH(c))
        /\ IsInjective(Queue(TxH(c))')
    BY <1>6, <1>10, <1>11, <2>6, <2>8
  <2>10. Moved({TxH(c), EthH(c)}, DevH, PoolH, X, Y)
    BY <1>7, <1>8, <2>6, <2>7, <2>8, <2>9 DEF Moved
  <2> QED BY <2>10, Handover
<1> QED BY <1>5, <1>13, <1>14

\* A burst of the control ring goes to the control port and the pool.
LEMMA AccountedCtrlOut ==
  ASSUME Types, Accounted, CtrlOut
  PROVE  Accounted'
<1> DEFINE s == ctrlRing
<1>1. s \in Seq(Mbufs)
  BY DEF Types
<1>2. PICK j \in 0 .. Len(s) : \E n \in 0 .. j :
        /\ First(s, j) \in Seq(Mbufs) /\ Len(First(s, j)) = j
        /\ device' = device \cup Range(First(s, n))
        /\ pool' = pool \cup Range(Rest(First(s, j), n))
        /\ s' = Rest(s, j)
  BY CtrlOutIs
<1>3. PICK n \in 0 .. j :
        /\ First(s, j) \in Seq(Mbufs) /\ Len(First(s, j)) = j
        /\ device' = device \cup Range(First(s, n))
        /\ pool' = pool \cup Range(Rest(First(s, j), n))
        /\ s' = Rest(s, j)
  BY <1>2
<1>4. UNCHANGED <<nicRx, rxPkts, memifBuf, txPkts, ethBuf, lost>>
  BY DEF CtrlOut
<1>5. CtrlH \in Queues /\ CtrlH \in Holders /\ {PoolH, DevH} \subseteq Holders \ Queues
  BY HoldersAre
<1>6. PoolH # DevH
  BY DEF PoolH, DevH
<1>7. Queue(CtrlH) = s /\ Contents(CtrlH) = Range(s)
  BY HoldersHold DEF HolderFacts
<1>8. IsInjective(s)
  BY <1>5, <1>7, AccountedIs
<1>9. PICK X, Y : X = Range(First(s, n)) /\ Y = Range(Rest(First(s, j), n))
  OBVIOUS
<1>10. First(First(s, j), n) = First(s, n)
  <2> DEFINE a == First(s, j)
             b == First(a, n)
             d == First(s, n)
  <2>1. Len(s) \in Nat /\ j \in Nat /\ n \in Nat /\ n <= j /\ j <= Len(s) /\ n \in 0 .. Len(s)
    BY <1>1, LenProperties
  <2>2. a \in Seq(Mbufs) /\ Len(a) = j /\ \A i \in 1 .. j : a[i] = s[i]
    BY <1>1, FirstRest
  <2>3. d \in Seq(Mbufs) /\ Len(d) = n /\ \A i \in 1 .. n : d[i] = s[i]
    BY <1>1, <2>1, FirstRest
  <2> HIDE DEF a, d
  <2>4. b \in Seq(Mbufs) /\ Len(b) = n /\ \A i \in 1 .. n : b[i] = a[i]
    BY <2>2, FirstRest
  <2> HIDE DEF b
  <2>5. \A i \in 1 .. n : i \in 1 .. j
    BY <2>1
  <2>6. \A i \in 1 .. n : b[i] = d[i]
    BY <2>2, <2>3, <2>4, <2>5
  <2>7. b = d
    BY <2>3, <2>4, <2>6, SeqEqual
  <2> QED BY <2>7 DEF a, b, d
<1>11. /\ IsInjective(First(s, j)) /\ IsInjective(Rest(s, j))
       /\ Range(First(s, j)) \subseteq Range(s)
       /\ Range(Rest(s, j)) = Range(s) \ Range(First(s, j)) /\ Range(s) \subseteq Mbufs
  BY <1>1, <1>8, InjectiveSplit, RangeIs
<1>12. X \subseteq Range(First(s, j)) /\ Y = Range(First(s, j)) \ X
  <2>1. First(s, j) \in Seq(Mbufs) /\ n \in 0 .. Len(First(s, j))
    BY <1>3
  <2>2. /\ Range(First(First(s, j), n)) \subseteq Range(First(s, j))
        /\ Range(Rest(First(s, j), n)) = Range(First(s, j)) \ Range(First(First(s, j), n))
    BY <1>11, <2>1, InjectiveSplit
  <2> QED BY <1>9, <1>10, <2>2
<1>13. /\ Queue(CtrlH)' = Rest(s, j) /\ Contents(CtrlH)' = Range(Rest(s, j))
       /\ Contents(DevH)' = Contents(DevH) \cup X /\ Contents(PoolH)' = Contents(PoolH) \cup Y
  BY <1>3, <1>9, HoldersHold DEF HolderFacts
<1>14. ASSUME NEW h \in Holders, h # CtrlH, h # PoolH, h # DevH
       PROVE  Contents(h)' = Contents(h) /\ (h \in Queues => Queue(h)' = Queue(h))
  BY <1>4, <1>14, Frame
<1>15. X \cup Y = Range(First(s, j)) /\ X \cap Y = {} /\ X \subseteq Mbufs /\ Y \subseteq Mbufs
  BY <1>11, <1>12
<1>16. /\ Contents(CtrlH)' = Contents(CtrlH) \ (X \cup Y) /\ IsInjective(Queue(CtrlH)')
       /\ \A x \in X \cup Y : x \in Contents(CtrlH)
  BY <1>7, <1>11, <1>13, <1>15
<1>17. Moved({CtrlH}, DevH, PoolH, X, Y)
  BY <1>5, <1>6, <1>13, <1>14, <1>15, <1>16 DEF Moved
<1> QED BY <1>17, Handover

\* An mbuf whose packet was sent goes from the device to the pool.
LEMMA AccountedSent ==
  ASSUME Types, Accounted, NEW m \in Mbufs, Sent(m)
  PROVE  Accounted'
<1>1. /\ m \in device /\ device' = device \ {m} /\ pool' = pool \cup {m}
      /\ UNCHANGED <<nicRx, rxPkts, memifBuf, ctrlRing, txPkts, ethBuf, lost>>
  BY DEF Sent
<1>2. {PoolH, DevH, LostH} \subseteq Holders \ Queues
  BY HoldersAre
<1>3. PoolH # DevH /\ PoolH # LostH /\ DevH # LostH
  BY DEF PoolH, DevH, LostH
<1>4. /\ Contents(DevH) = device /\ Contents(DevH)' = Contents(DevH) \ {m}
      /\ Contents(PoolH)' = Contents(PoolH) \cup {m} /\ Contents(LostH)' = Contents(LostH)
  BY <1>1, HoldersHold DEF HolderFacts
<1>5. ASSUME NEW h \in Holders, h # PoolH, h # DevH
      PROVE  Contents(h)' = Contents(h) /\ (h \in Queues => Queue(h)' = Queue(h))
  BY <1>1, <1>5, Frame
<1>6. Moved({DevH}, PoolH, LostH, {m}, {})
  BY <1>1, <1>2, <1>3, <1>4, <1>5 DEF Moved
<1> QED BY <1>6, Handover

\* Every step hands mbufs over without a copy or a loss.
LEMMA AccountedNext ==
  ASSUME Types, Accounted, [Next]_vars
  PROVE  Accounted'
<1>1. ASSUME NEW c \in TxCores, TxMemif(c) PROVE Accounted'
  <2>1. txPkts[c] = <<>> /\ \E idx : TxReceive(c, idx)
    BY <1>1 DEF TxMemif
  <2> QED BY <2>1, AccountedTxReceive
<1>2. ASSUME CtrlIn PROVE Accounted'
  <2>1. txPkts[0] = <<>> /\ TxReceive(0, 0)
    BY <1>2 DEF CtrlIn
  <2> QED BY <2>1, Constants, AccountedTxReceive
<1>3. CASE Next
  BY <1>1, <1>2, <1>3, AccountedArrive, AccountedRxBurst, AccountedClassify, AccountedRxDrain,
     AccountedTxBufferEth, AccountedCtrlOut, AccountedTxDrain, AccountedSent
     DEF Next, Rx, Tx
<1>4. CASE UNCHANGED vars
  <2>1. ASSUME NEW h \in Holders
        PROVE  Contents(h)' = Contents(h) /\ (h \in Queues => Queue(h)' = Queue(h))
    BY <1>4, Frame DEF vars
  <2>2. OneHolder /\ \A h \in Queues : IsInjective(Queue(h))
    BY AccountedIs
  <2>3. OneHolder'
    BY <2>1, <2>2 DEF OneHolder
  <2>4. \A h \in Queues : IsInjective(Queue(h)')
    BY <2>1, <2>2, HoldersAre
  <2> QED BY <2>3, <2>4, AccountedIs
<1> QED BY <1>3, <1>4

\* Every mbuf has exactly one holder at any time, the pool, the devices, one
\* place of one queue, or, when a full control ring refused it, nobody any more.
THEOREM MbufsAccounted == Spec => []Accounted
<1>1. Init => Types /\ Limits /\ Accounted
  BY TypesInit, AccountedInit
<1>2. Types /\ Limits /\ Accounted /\ [Next]_vars => (Types /\ Limits /\ Accounted)'
  BY TypesNext, AccountedNext
<1> QED BY <1>1, <1>2, PTL DEF Spec
=============================================================================
