---------------------------- MODULE GmacFifoProofs ----------------------------
(***************************************************************************)
(* Both rings of module Gmac implement FrameFifo, whatever their size.      *)
(***************************************************************************)
EXTENDS GmacProofs

\* The DMA finds the frames of its descriptors in the order of their numbers.
TxOrdered ==
  \A j, k \in TxOwned : Between(txcur, k, j) => txd[j].data < txd[k].data

\* Buffers are distinct: the DMA writes to none that rt_eth_rx reads.
RxDistinct ==
  /\ \A j, k \in RxInUse : rxd[j].data = rxd[k].data => j = k
  /\ rxpc \in {"copy", "set", "crashed"} =>
       data1 # 0 /\ \A k \in RxInUse : rxd[k].data # data1

\* The frame in descriptor k.
Got(k) == mem[rxd[k].data]

\* rt_eth_rx finds the frames received in the order of their arrival, after
\* the one it has in hand.
RxOrdered ==
  /\ \A j, k \in RxDone : Between(RxBusyDesc, k, j) => Got(j) < Got(k)
  /\ \A k \in RxDone : Got(k) \in 1 .. arrived /\ pbuf < Got(k)
  /\ rxpc \in {"copy", "crashed"} =>
       mem[data1] \in 1 .. arrived /\ \A k \in RxDone : mem[data1] < Got(k)
  /\ rxpc \in {"wait", "lock", "get", "copy", "crashed"} => pbuf = 0
  /\ pbuf \in 0 .. arrived /\ (pbuf # 0 => pbuf \notin Damaged)
  /\ \A j \in DOMAIN delivered : delivered[j] \in 0 .. arrived
-----------------------------------------------------------------------------
\* The ring has N places
LEMMA SlotCardinality == IsFiniteSet(Slot) /\ Cardinality(Slot) = N
<1>1. Cardinality(Slot) = N
  BY FS_Interval, RingAssumption DEF Slot
<1>2. IsFiniteSet(Slot)
  BY FS_Interval, RingAssumption DEF Slot
<1>3. QED
  BY <1>1, <1>2

\* Fewer than N descriptors hold fewer than N frames.
LEMMA FewFrames ==
  ASSUME NEW S \in SUBSET Slot, NEW k \in Slot, k \notin S, NEW f, f = [j \in S |-> f[j]],
         NEW Q \in SUBSET {f[j] : j \in S}
  PROVE  IsFiniteSet(Q) /\ Cardinality(Q) < N
<1>1. IsFiniteSet(Slot) /\ Cardinality(Slot) = N
  BY SlotCardinality
<1>2. IsFiniteSet(Slot \ {k}) /\ Cardinality(Slot \ {k}) = N - 1
  BY <1>1, FS_RemoveElement
<1>3. IsFiniteSet(S) /\ Cardinality(S) <= N - 1 /\ Cardinality(S) \in Nat
  BY <1>2, FS_Subset, FS_CardinalityType
<1>4. f \in Surjection(S, {f[j] : j \in S})
  BY DEF Surjection
<1>5. /\ IsFiniteSet({f[j] : j \in S}) /\ Cardinality({f[j] : j \in S}) <= Cardinality(S)
      /\ Cardinality({f[j] : j \in S}) \in Nat
  BY <1>3, <1>4, FS_Surjection, FS_CardinalityType
<1>6. IsFiniteSet(Q) /\ Cardinality(Q) <= Cardinality({f[j] : j \in S}) /\ Cardinality(Q) \in Nat
  BY <1>5, FS_Subset, FS_CardinalityType
<1>7. QED
  BY <1>3, <1>5, <1>6, RingAssumption
-----------------------------------------------------------------------------
TxFifoInv == TxInv /\ FaultInv /\ TxOrdered

\* Sending starts with the empty queue
LEMMA TxQueueInit == Init => TxOrdered /\ TxFifo!Init
<1>1. Init => TxOwned = {} /\ wire = << >>
  BY DEF Init, TxInit, TxOwned, OwnedByDma, InitRing
<1>2. QED
  BY <1>1 DEF TxOrdered, TxFifo!Init, TxQueue

\* What changes no descriptor of the DMA and not its place.
LEMMA TxQueueKept ==
  ASSUME TxOrdered, TxOwned' = TxOwned, \A k \in TxOwned : txd'[k] = txd[k],
         UNCHANGED <<txcur, wire>>
  PROVE  TxOrdered' /\ UNCHANGED <<TxQueue, wire>>
<1>1. TxOrdered'
  BY DEF TxOrdered, Between
<1>2. TxQueue' = TxQueue
  BY DEF TxQueue
<1>3. QED
  BY <1>1, <1>2

\* Giving a descriptor to the DMA puts its frame at the end of the queue.
LEMMA TxGivePuts ==
  ASSUME TxFifoInv, TxGive PROVE TxOrdered' /\ TxFifo!Put
<1> USE DEF TxFifoInv
<1>1. /\ txpc = "give" /\ wire' = wire /\ txcur' = txcur
      /\ TxNextDesc \in Slot /\ txcur \in Slot
      /\ txd' = [txd EXCEPT ![TxNextDesc].own = TRUE]
  BY DEF TxGive, TxInv, TxTypeOK, txDma
<1>2. /\ \A k \in Slot : txd'[k].data = txd[k].data
      /\ TxOwned' = TxOwned \cup {TxNextDesc} /\ TxOwned \subseteq Slot
  BY <1>1 DEF TxInv, TxTypeOK, TxOwned, OwnedByDma
<1>3. /\ TxNextDesc \notin TxOwned /\ TxNextDesc \in TxInUse /\ TxOwned \subseteq TxInUse
      /\ Stretch(TxOwned, txcur, TxNextDesc)
  BY <1>1 DEF TxInv, TxGiving, TxRing
<1>4. /\ txd[TxNextDesc].data = frame /\ frame \in 1 .. Frames
      /\ \A k \in TxOwned : txd[k].data < frame
  <2>1. txd[TxNextDesc].data = frame
    BY <1>1, <1>3 DEF FaultInv, InHand, TxInUse, Empty
  <2>2. frame \in 1 .. Frames
    BY <1>1, TxAssumption DEF FaultInv, TxTypeOK, InHand
  <2>3. QED
    BY <1>1, <1>3, <2>1, <2>2 DEF FaultInv, RingFrames
<1>5. \A k \in TxOwned : ~Between(txcur, k, TxNextDesc)
  BY <1>1, <1>2, <1>3, BetweenLast
<1>6. TxOrdered'
  <2>1. SUFFICES ASSUME NEW j \in TxOwned', NEW k \in TxOwned', Between(txcur, k, j)
                 PROVE  txd[j].data < txd[k].data
    BY <1>1, <1>2 DEF TxOrdered, Between
  <2>2. CASE j \in TxOwned /\ k \in TxOwned
    BY <2>1, <2>2 DEF TxOrdered
  <2>3. CASE j \in TxOwned /\ k = TxNextDesc
    BY <1>4, <2>3
  <2>4. CASE j = TxNextDesc
    <3>1. k = TxNextDesc
      BY <1>2, <1>5, <2>1, <2>4
    <3>2. ~Between(txcur, k, k)
      <4>1. txcur # TxNextDesc \/ TxOwned = {}
        BY <1>3, <1>2 DEF Stretch
      <4>2. TxNextDesc \in Slot /\ txcur \in Slot
        BY <1>1
      <4>3. QED
        BY <3>1, <4>2, RingAssumption, <1>3, <2>1, <2>4 DEF Between, Slot
    <3>3. QED
      BY <2>1, <2>4, <3>1, <3>2
  <2>5. QED
    BY <1>2, <2>2, <2>3, <2>4
<1>7. TxQueue' = TxQueue \cup {frame}
  BY <1>1, <1>2, <1>4 DEF TxQueue
<1>8. \A g \in TxQueue : g < frame
  BY <1>4 DEF TxQueue
<1>9. \A j \in DOMAIN wire : wire[j] < frame
  BY <1>1 DEF FaultInv, Sent
<1>10. Cardinality(TxQueue) < N
  <2> DEFINE f == [k \in TxOwned |-> txd[k].data]
  <2>1. TxQueue \in SUBSET {f[k] : k \in TxOwned} /\ f = [k \in TxOwned |-> f[k]]
    BY DEF TxQueue
  <2>2. TxOwned \in SUBSET Slot /\ TxNextDesc \in Slot /\ TxNextDesc \notin TxOwned
    BY <1>1, <1>2, <1>3
  <2> HIDE DEF f
  <2>3. ASSUME NEW S, S = TxOwned, NEW Q \in SUBSET {f[k] : k \in S}
        PROVE  Cardinality(Q) < N
    <3>1. S \in SUBSET Slot /\ TxNextDesc \notin S /\ f = [k \in S |-> f[k]]
      BY <2>1, <2>2, <2>3
    <3>2. QED
      BY <2>2, <2>3, <3>1, FewFrames
  <2>4. QED
    BY <2>1, <2>3
<1>11. TxFifo!Put
  <2>1. frame \in 1 .. Frames /\ UNCHANGED wire
    BY <1>1, <1>4
  <2>2. QED
    BY <2>1, <1>7, <1>8, <1>9, <1>10, Zenon DEF TxFifo!Put, TxFifo!Cardinality, Cardinality
<1>12. QED
  BY <1>6, <1>11

\* What the DMA sends is the oldest frame of the queue.
LEMMA TxSendGets ==
  ASSUME TxFifoInv, TxSend PROVE TxOrdered' /\ TxFifo!Get
<1> USE DEF TxFifoInv
<1> DEFINE f == txd[txcur].data
<1>1. /\ wire' = Append(wire, f) /\ txcur' = Succ(txcur) /\ txcur \in TxOwned
      /\ txcur \in Slot /\ txcur' \in Slot
      /\ txd' = [txd EXCEPT ![txcur].own = FALSE]
  BY SuccType DEF TxSend, TxInv, TxTypeOK, TxOwned
<1>2. /\ \A k \in Slot : txd'[k].data = txd[k].data /\ txd[k].data \in Nat
      /\ TxOwned' = TxOwned \ {txcur} /\ TxOwned \subseteq Slot
  BY <1>1 DEF TxInv, TxTypeOK, TxOwned, OwnedByDma
<1>3. \A k \in TxOwned \ {txcur} : f < txd[k].data
  BY <1>1, <1>2, BetweenFirst DEF TxOrdered
<1>4. TxOrdered'
  <2>1. SUFFICES ASSUME NEW j \in TxOwned \ {txcur}, NEW k \in TxOwned \ {txcur},
                        Between(Succ(txcur), k, j)
                 PROVE  txd[j].data < txd[k].data
    BY <1>1, <1>2 DEF TxOrdered, Between
  <2>2. Between(txcur, k, j)
    BY <1>1, <1>2, <2>1, BetweenRest
  <2>3. QED
    BY <2>1, <2>2 DEF TxOrdered
<1>5. f \in TxQueue /\ \A g \in TxQueue : f <= g
  BY <1>1, <1>2, <1>3 DEF TxQueue
<1>6. TxQueue' = TxQueue \ {f}
  BY <1>1, <1>2, <1>3 DEF TxQueue
<1>7. QED
  BY <1>1, <1>4, <1>5, <1>6 DEF TxFifo!Get

\* Every step of sending is one of the queue or leaves it alone
LEMMA TxFifoStep ==
  ASSUME Errors = 0, Stops = 0, NoFaults, TxFifoInv, [Next]_vars
  PROVE  TxOrdered' /\ [TxFifo!Put \/ TxFifo!Get]_<<TxQueue, wire>>
<1> USE DEF TxFifoInv
<1>1. CASE UNCHANGED <<txRing, txcur, wire>>
  <2>1. TxOwned' = TxOwned /\ \A k \in TxOwned : txd'[k] = txd[k]
    BY <1>1 DEF txRing, TxOwned
  <2>2. QED
    BY <1>1, <2>1, TxQueueKept
<1>2. CASE TxFill
  <2>1. /\ TxNextDesc \notin TxOwned /\ TxNextDesc \in Slot
        /\ txd' = [txd EXCEPT ![TxNextDesc].data = frame]
    BY <1>2 DEF TxFill, FaultInv, InHand, TxTypeOK
  <2>2. TxOwned' = TxOwned /\ \A k \in TxOwned : txd'[k] = txd[k]
    BY <2>1 DEF TxInv, TxTypeOK, TxOwned, OwnedByDma
  <2>3. QED
    BY <1>2, <2>2, TxQueueKept DEF TxFill, txDma
<1>3. CASE TxReclaim
  <2>1. /\ TxBusyDesc \notin TxOwned /\ TxBusyDesc \in Slot
        /\ txd' = [txd EXCEPT ![TxBusyDesc] = InitRing]
    BY <1>3 DEF TxReclaim, TxOwned, TxInv, TxTypeOK
  <2>2. TxOwned' = TxOwned /\ \A k \in TxOwned : txd'[k] = txd[k]
    BY <2>1 DEF TxInv, TxTypeOK, TxOwned, OwnedByDma, InitRing
  <2>3. QED
    BY <1>3, <2>2, TxQueueKept DEF TxReclaim, txDma
<1>4. CASE TxGive \/ TxSend
  BY <1>4, TxGivePuts, TxSendGets
<1>5. CASE Submit \/ rt_eth_tx \/ TxDma
  BY <1>1, <1>2, <1>3, <1>4, <1>5 DEF rt_eth_tx, TxDma, Submit, TxLock, TxCheck, TxAlloc,
     TxAllocFails, TxFull, TxResume, TxUnlock, TxSuspend, txDma
<1>6. CASE eth_rx_irq
  BY <1>1, <1>6 DEF eth_rx_irq, NoFaults
<1>7. CASE BusError \/ TxStop
  BY <1>7 DEF BusError, TxStop, NoFaults
<1>8. QED
  BY <1>1, <1>5, <1>6, <1>7 DEF Next, vars, txVars, txDma

\* The transmit ring is a queue of N frames: what rt_eth_tx gives to the DMA is
\* sent in the order of the calls, each frame once, on a ring of any size and
\* however often it wraps around.
THEOREM TxImplementsFifo ==
  ASSUME Errors = 0, Stops = 0 PROVE Spec => TxIsFifo
<1>1. Init => TxFifoInv /\ TxFifo!Init
  BY TxInitInv, FaultInitInv, TxQueueInit DEF TxFifoInv
<1>2. (TxInv /\ NoFaults) /\ TxFifoInv /\ [Next]_vars
        => TxFifoInv' /\ [TxFifo!Put \/ TxFifo!Get]_<<TxQueue, wire>>
  BY TxStepInv, FaultStepInv, TxFifoStep DEF TxFifoInv
<1>3. QED
  BY <1>1, <1>2, TxInvariant, PTL DEF Spec, TxIsFifo, TxFifo!Spec
-----------------------------------------------------------------------------
RxFifoInv ==
  /\ RxTypeOK /\ RxBuffer /\ RxInv
  /\ RxDistinct /\ RxOrdered

\* Receiving starts with the empty queue
LEMMA RxQueueInit == Init => RxDistinct /\ RxOrdered /\ RxFifo!Init
<1> SUFFICES ASSUME Init PROVE RxDistinct /\ RxOrdered /\ RxFifo!Init
  OBVIOUS
<1>1. PICK n \in Filled :
        rxd = [k \in Slot |-> IF k < n THEN [own |-> TRUE, data |-> k + 1] ELSE InitRing]
  BY DEF Init, RxInit
<1>2. n \in Int
  BY RxAssumption
<1>3. \A k \in Slot : /\ k \in RxInUse <=> k < n
                      /\ k \in RxOwned <=> k < n
                      /\ k \in RxInUse => rxd[k].data = k + 1
  BY <1>1, <1>2 DEF RxInUse, RxOwned, Empty, OwnedByDma, InitRing, Slot
<1>4. RxDone = {} /\ RxInUse \subseteq Slot
  BY <1>3 DEF RxDone, RxInUse
<1>5. RxDistinct
  BY <1>3, <1>4 DEF Init, RxInit, RxDistinct, Slot
<1>6. RxOrdered
  BY <1>4, RxAssumption DEF Init, RxInit, RxOrdered
<1>7. RxFrame = {}
  BY DEF Init, RxInit, RxFrame
<1>8. RxFifo!Init
  BY <1>4, <1>7 DEF Init, RxInit, RxFifo!Init, RxQueue
<1>9. QED
  BY <1>5, <1>6, <1>8

\* What leaves the receive ring and the hand of rt_eth_rx alone.
LEMMA RxQueueKept ==
  ASSUME RxDistinct, RxOrdered, UNCHANGED <<rxRing, rxThread, mem>>, arrived \in Nat,
         arrived' \in {arrived, arrived + 1}
  PROVE  RxDistinct' /\ RxOrdered' /\ UNCHANGED <<RxQueue, delivered>>
<1>1. /\ UNCHANGED <<rxd, RxNextDesc, RxBusyDesc, rxpc, data1, pbuf, mem, delivered>>
      /\ RxInUse' = RxInUse /\ RxOwned' = RxOwned
  BY DEF rxRing, rxThread, RxInUse, RxOwned
<1>2. RxDone' = RxDone /\ RxFrame' = RxFrame /\ \A k \in RxDone : Got(k)' = Got(k)
  BY <1>1 DEF RxDone, RxFrame, Got
<1>3. RxDistinct' /\ RxQueue' = RxQueue
  BY <1>1, <1>2 DEF RxDistinct, RxQueue
<1>4. 1 .. arrived \subseteq 1 .. arrived' /\ 0 .. arrived \subseteq 0 .. arrived'
  OBVIOUS
<1>5. RxOrdered'
  BY <1>1, <1>2, <1>4 DEF RxOrdered, Between
<1>6. QED
  BY <1>1, <1>3, <1>5

\* The steps of rt_eth_rx that leave the ring alone and hand over nothing.
LEMMA RxQuietQueue ==
  ASSUME RxFifoInv, RxWake \/ RxLock \/ RxNone \/ RxCopy \/ RxCopyFails
  PROVE  RxDistinct' /\ RxOrdered' /\ UNCHANGED <<RxQueue, delivered>>
<1> USE DEF RxFifoInv
<1>1. /\ UNCHANGED <<rxRing, data1, delivered, mem, arrived>>
      /\ rxpc # "give" /\ rxpc' # "give"
  BY DEF RxWake, RxLock, RxNone, RxCopy, RxCopyFails, rxDma
<1>2. /\ UNCHANGED <<rxd, RxNextDesc, RxBusyDesc>> /\ RxInUse' = RxInUse
      /\ RxDone' = RxDone /\ \A k \in RxDone : Got(k)' = Got(k)
  BY <1>1 DEF rxRing, RxInUse, RxOwned, RxDone, Got
<1>3. CASE RxWake \/ RxLock \/ RxNone
  <2>1. pbuf = 0 /\ pbuf' = 0 /\ rxpc' \in {"lock", "get", "unlock"} /\ rxpc \notin {"copy", "crashed"}
    BY <1>3 DEF RxWake, RxLock, RxNone, RxOrdered
  <2>2. RxFrame' = RxFrame
    BY <2>1 DEF RxFrame
  <2>3. RxDistinct' /\ RxOrdered' /\ RxQueue' = RxQueue
    BY <1>1, <1>2, <2>1, <2>2 DEF RxDistinct, RxOrdered, RxQueue, Between
  <2>4. QED
    BY <1>1, <2>3
<1>4. CASE RxCopy
  <2>1. /\ rxpc = "copy" /\ rxpc' = "set" /\ pbuf = 0 /\ mem[data1] # 0
        /\ mem[data1] \in 1 .. arrived
        /\ pbuf' = (IF mem[data1] \in Damaged THEN 0 ELSE mem[data1])
    BY <1>4 DEF RxCopy, RxOrdered
  <2>2. RxFrame = {mem[data1]} /\ RxFrame' \ Damaged = RxFrame \ Damaged
    BY <2>1 DEF RxFrame
  <2>3. RxQueue' = RxQueue
    <3>1. {mem'[rxd'[k].data] : k \in RxDone'} = {mem[rxd[k].data] : k \in RxDone}
      BY <1>1, <1>2
    <3>2. QED
      BY <2>2, <3>1 DEF RxQueue
  <2>4. RxDistinct'
    BY <1>1, <1>2, <2>1 DEF RxDistinct
  <2>5. RxOrdered'
    <3>1. \A k \in RxDone : pbuf' < Got(k)
      BY <2>1 DEF RxOrdered
    <3>2. pbuf' \in 0 .. arrived' /\ (pbuf' # 0 => pbuf' \notin Damaged)
      BY <1>1, <2>1, RxAssumption DEF RxTypeOK
    <3>3. QED
      BY <1>1, <1>2, <2>1, <3>1, <3>2 DEF RxOrdered, Between
  <2>6. QED
    BY <1>1, <2>3, <2>4, <2>5
<1>5. CASE RxCopyFails
  <2>1. rxpc = "copy" /\ rxpc' = "crashed" /\ pbuf' = pbuf
    BY <1>5 DEF RxCopyFails
  <2>2. RxFrame' = RxFrame
    BY <1>1, <2>1 DEF RxFrame
  <2>3. RxDistinct' /\ RxOrdered' /\ RxQueue' = RxQueue
    BY <1>1, <1>2, <2>1, <2>2 DEF RxDistinct, RxOrdered, RxQueue, Between
  <2>4. QED
    BY <1>1, <2>3
<1>6. QED
  BY <1>3, <1>4, <1>5

\* The oldest frame received goes from the ring into the hand.
LEMMA RxGetQueue ==
  ASSUME RxFifoInv, RxGet
  PROVE  RxDistinct' /\ RxOrdered' /\ UNCHANGED <<RxQueue, delivered>>
<1> USE DEF RxFifoInv
<1>1. /\ rxpc = "get" /\ rxpc' = "copy" /\ data1' = rxd[RxBusyDesc].data /\ data1' # 0
      /\ RxBusyDesc' = Succ(RxBusyDesc) /\ RxNextDesc' = RxNextDesc
      /\ UNCHANGED <<pbuf, delivered, mem, arrived>> /\ pbuf = 0
      /\ RxBusyDesc \in Slot
      /\ rxd' = [rxd EXCEPT ![RxBusyDesc] = InitRing]
  BY DEF RxGet, RxTypeOK, rxDma, RxOrdered, Empty
<1>2. /\ \A k \in Slot : k # RxBusyDesc => rxd'[k] = rxd[k]
      /\ rxd'[RxBusyDesc] = InitRing
  BY <1>1 DEF RxTypeOK
<1>3. /\ RxBusyDesc \in RxInUse /\ RxBusyDesc \notin RxOwned
      /\ RxInUse' = RxInUse \ {RxBusyDesc} /\ RxOwned' = RxOwned
      /\ RxInUse \subseteq Slot
  BY <1>1, <1>2 DEF RxGet, RxInUse, RxOwned, Empty, OwnedByDma, InitRing
<1>4. /\ RxBusyDesc \in RxDone /\ RxDone' = RxDone \ {RxBusyDesc} /\ RxDone \subseteq Slot
      /\ \A k \in RxDone' : Got(k)' = Got(k)
      /\ mem'[data1'] = Got(RxBusyDesc)
  BY <1>1, <1>2, <1>3 DEF RxDone, Got
<1>5. RxQueue' = RxQueue
  <2>1. RxFrame = {} /\ RxFrame' = {Got(RxBusyDesc)}
    BY <1>1, <1>4 DEF RxFrame
  <2>2. {Got(k)' : k \in RxDone'} \cup RxFrame' = {Got(k) : k \in RxDone} \cup RxFrame
    BY <1>4, <2>1
  <2>3. QED
    BY <2>2 DEF RxQueue, Got
<1>6. RxDistinct'
  BY <1>1, <1>2, <1>3 DEF RxDistinct
<1>7. RxOrdered'
  <2>1. \A j, k \in RxDone' : Between(RxBusyDesc', k, j) => Got(j)' < Got(k)'
    <3>1. SUFFICES ASSUME NEW j \in RxDone', NEW k \in RxDone', Between(Succ(RxBusyDesc), k, j)
                   PROVE  Got(j) < Got(k)
      BY <1>1, <1>4 DEF Between
    <3>2. Between(RxBusyDesc, k, j)
      BY <1>1, <1>4, <3>1, BetweenRest
    <3>3. QED
      BY <1>4, <3>1, <3>2 DEF RxOrdered
  <2>2. \A k \in RxDone' : mem'[data1'] < Got(k)'
    <3>1. \A k \in RxDone' : Between(RxBusyDesc, k, RxBusyDesc)
      BY <1>1, <1>4, BetweenFirst
    <3>2. QED
      BY <1>4, <3>1 DEF RxOrdered
  <2>3. /\ \A k \in RxDone' : Got(k)' \in 1 .. arrived' /\ pbuf' < Got(k)'
        /\ mem'[data1'] \in 1 .. arrived'
    BY <1>1, <1>4 DEF RxOrdered
  <2>4. /\ pbuf' = 0 /\ pbuf' \in 0 .. arrived'
        /\ \A j \in DOMAIN delivered' : delivered'[j] \in 0 .. arrived'
    BY <1>1 DEF RxOrdered
  <2>5. QED
    BY <2>1, <2>2, <2>3, <2>4 DEF RxOrdered
<1>8. QED
  BY <1>1, <1>5, <1>6, <1>7

\* Both halves of synopGMAC_set_rx_qptr: the buffer in hand is in the ring, but
\* its frame is not received again.
LEMMA RxSetQueue ==
  ASSUME RxFifoInv, RxSet
  PROVE  RxDistinct' /\ RxOrdered' /\ UNCHANGED <<RxQueue, delivered>>
<1> USE DEF RxFifoInv
<1>1. rxpc = "set" /\ Empty(rxd[RxNextDesc]) /\ RxNextDesc \in Slot
  BY DEF RxSet, RxInv, RxRing, RxTypeOK
<1>2. /\ rxpc' = "give" /\ UNCHANGED <<RxNextDesc, RxBusyDesc, data1, pbuf, delivered, mem, arrived>>
      /\ rxd' = [rxd EXCEPT ![RxNextDesc].data = data1]
  BY <1>1 DEF RxSet, rxDma
<1>3. /\ \A k \in Slot : k # RxNextDesc => rxd'[k] = rxd[k]
      /\ rxd'[RxNextDesc].data = data1 /\ rxd'[RxNextDesc].own = rxd[RxNextDesc].own
  BY <1>1, <1>2 DEF RxTypeOK
<1>4. /\ RxNextDesc \notin RxInUse /\ data1 # 0 /\ RxInUse \subseteq Slot
      /\ RxInUse' = RxInUse \cup {RxNextDesc} /\ RxOwned' = RxOwned
  BY <1>1, <1>2, <1>3 DEF RxInv, RxHand, RxInUse, RxOwned, Empty, OwnedByDma
<1>5. RxDone' = RxDone /\ RxDone \subseteq Slot \ {RxNextDesc}
  BY <1>1, <1>2, <1>4 DEF RxDone
<1>6. \A k \in RxDone : Got(k)' = Got(k)
  BY <1>2, <1>3, <1>5 DEF Got
<1>7. RxQueue' = RxQueue
  <2>1. {mem'[rxd'[k].data] : k \in RxDone'} = {mem[rxd[k].data] : k \in RxDone}
    BY <1>5, <1>6 DEF Got
  <2>2. RxFrame' = RxFrame
    BY <1>1, <1>2 DEF RxFrame
  <2>3. QED
    BY <2>1, <2>2 DEF RxQueue
<1>8. RxDistinct'
  BY <1>1, <1>2, <1>3, <1>4 DEF RxDistinct
<1>9. RxOrdered'
  BY <1>1, <1>2, <1>5, <1>6 DEF RxOrdered, Between
<1>10. QED
  BY <1>2, <1>7, <1>8, <1>9

\* A descriptor that is given back to the DMA leaves the queue alone
LEMMA RxGiveQueue ==
  ASSUME RxFifoInv, RxGive
  PROVE  RxDistinct' /\ RxOrdered' /\ UNCHANGED <<RxQueue, delivered>>
<1> USE DEF RxFifoInv
<1>1. /\ rxpc = "give" /\ rxpc' = "unlock" /\ RxNextDesc \in Slot
      /\ UNCHANGED <<RxBusyDesc, pbuf, delivered, mem, arrived>>
      /\ rxd' = [rxd EXCEPT ![RxNextDesc].own = TRUE]
  BY DEF RxGive, RxTypeOK, rxDma
<1>2. /\ \A k \in Slot : k # RxNextDesc => rxd'[k] = rxd[k]
      /\ \A k \in Slot : rxd'[k].data = rxd[k].data
      /\ rxd'[RxNextDesc].own
  BY <1>1 DEF RxTypeOK
<1>3. /\ RxInUse' = RxInUse /\ RxOwned' = RxOwned \cup {RxNextDesc} /\ RxInUse \subseteq Slot
  BY <1>1, <1>2 DEF RxInUse, RxOwned, Empty, OwnedByDma
<1>4. RxDone' = RxDone /\ RxDone \subseteq Slot
  BY <1>1, <1>3 DEF RxDone
<1>5. \A k \in RxDone : Got(k)' = Got(k)
  BY <1>1, <1>2, <1>4 DEF Got
<1>6. RxQueue' = RxQueue
  <2>1. {mem'[rxd'[k].data] : k \in RxDone'} = {mem[rxd[k].data] : k \in RxDone}
    BY <1>4, <1>5 DEF Got
  <2>2. RxFrame' = RxFrame
    BY <1>1 DEF RxFrame
  <2>3. QED
    BY <2>1, <2>2 DEF RxQueue
<1>7. RxDistinct'
  BY <1>1, <1>2, <1>3 DEF RxDistinct
<1>8. RxOrdered'
  BY <1>1, <1>4, <1>5 DEF RxOrdered, Between
<1>9. QED
  BY <1>1, <1>6, <1>7, <1>8

\* The stack gets the oldest of the good frames, or nothing.
LEMMA RxUnlockQueue ==
  ASSUME RxFifoInv, RxUnlock
  PROVE  RxDistinct' /\ RxOrdered' /\ (RxFifo!Get \/ UNCHANGED <<RxQueue, delivered>>)
<1> USE DEF RxFifoInv
<1>1. /\ rxpc = "unlock" /\ rxpc' \in {"wait", "lock"} /\ pbuf' = 0
      /\ UNCHANGED <<rxd, RxNextDesc, RxBusyDesc, data1, mem, arrived>>
      /\ delivered' = (IF pbuf = 0 THEN delivered ELSE Append(delivered, pbuf))
  BY DEF RxUnlock, rxRing, rxDma
<1>2. RxInUse' = RxInUse /\ RxOwned' = RxOwned /\ RxDone' = RxDone
  BY <1>1 DEF RxInUse, RxOwned, RxDone
<1>3. \A k \in RxDone : Got(k)' = Got(k)
  BY <1>1 DEF Got
<1>4. {mem'[rxd'[k].data] : k \in RxDone'} = {mem[rxd[k].data] : k \in RxDone}
  BY <1>1, <1>2
<1>5. RxFrame = {pbuf} \ {0} /\ RxFrame' = {}
  BY <1>1 DEF RxFrame
<1>6. /\ arrived \in Nat /\ pbuf \in 0 .. arrived /\ (pbuf # 0 => pbuf \notin Damaged)
      /\ \A k \in RxDone : Got(k) \in 1 .. arrived /\ pbuf < Got(k)
      /\ delivered \in Seq(1 .. Arrivals) /\ pbuf \in 0 .. Arrivals
  BY RxAssumption DEF RxOrdered, RxTypeOK
<1>7. RxDistinct'
  BY <1>1, <1>2 DEF RxDistinct
<1>8. RxOrdered'
  <2>1. \A j \in DOMAIN delivered' : delivered'[j] \in 0 .. arrived'
    <3>1. CASE pbuf = 0
      BY <1>1, <3>1 DEF RxOrdered
    <3>2. CASE pbuf # 0
      <4>1. /\ DOMAIN delivered' = DOMAIN delivered \cup {Len(delivered) + 1}
            /\ delivered'[Len(delivered) + 1] = pbuf
            /\ \A j \in DOMAIN delivered : delivered'[j] = delivered[j]
        BY <1>1, <1>6, <3>2
      <4>2. QED
        BY <1>1, <1>6, <4>1 DEF RxOrdered
    <3>3. QED
      BY <3>1, <3>2
  <2>2. \A k \in RxDone : 0 < Got(k)
    BY <1>6
  <2>3. pbuf' \in 0 .. arrived'
    BY <1>1, <1>6
  <2>4. QED
    BY <1>1, <1>2, <1>3, <2>1, <2>2, <2>3 DEF RxOrdered, Between
<1>9. CASE pbuf = 0
  <2>1. RxQueue' = RxQueue
    BY <1>4, <1>5, <1>9 DEF RxQueue
  <2>2. QED
    BY <1>1, <1>7, <1>8, <1>9, <2>1
<1>10. CASE pbuf # 0
  <2>1. pbuf \in RxQueue
    BY <1>5, <1>6, <1>10 DEF RxQueue
  <2>2. \A g \in RxQueue : pbuf <= g
    <3>1. SUFFICES ASSUME NEW g \in RxQueue PROVE pbuf <= g
      OBVIOUS
    <3>2. g = pbuf \/ \E k \in RxDone : g = Got(k)
      BY <1>5 DEF RxQueue, Got
    <3>3. QED
      BY <1>6, <3>2
  <2>3. RxQueue' = RxQueue \ {pbuf}
    <3>1. pbuf \notin {mem[rxd[k].data] : k \in RxDone}
      BY <1>6 DEF Got
    <3>2. QED
      BY <1>4, <1>5, <1>6, <3>1 DEF RxQueue
  <2>4. RxFifo!Get
    BY <1>1, <1>10, <2>1, <2>2, <2>3 DEF RxFifo!Get
  <2>5. QED
    BY <1>7, <1>8, <2>4
<1>11. QED
  BY <1>9, <1>10

\* What has been received and not read lies before the DMA's descriptor.
LEMMA RxDoneBefore ==
  ASSUME RxTypeOK, RxInv, rxcur \in RxOwned, NEW k \in RxDone
  PROVE  ~Between(RxBusyDesc, k, rxcur)
<1> DEFINE S == IF rxpc = "give" THEN RxInUse \ {RxNextDesc} ELSE RxInUse
<1>1. RxNextDesc \in Slot /\ RxBusyDesc \in Slot /\ rxcur \in Slot /\ RxInUse \in SUBSET Slot
  BY DEF RxTypeOK, RxInUse
<1>2. /\ RxOwned \subseteq RxInUse /\ Stretch(RxOwned, rxcur, RxNextDesc)
      /\ Stretch(RxInUse, RxBusyDesc, IF rxpc = "give" THEN Succ(RxNextDesc) ELSE RxNextDesc)
  BY DEF RxInv, RxRing
<1>3. rxpc = "give" => RxNextDesc \notin RxOwned
  BY DEF RxInv, RxHand
<1>4. S \in SUBSET Slot /\ RxOwned \in SUBSET S /\ k \in S \ RxOwned
  BY <1>1, <1>2, <1>3 DEF RxDone
<1>5. Stretch(S, RxBusyDesc, RxNextDesc)
  <2>1. CASE rxpc # "give"
    BY <1>2, <2>1
  <2>2. CASE rxpc = "give" /\ RxNextDesc \in RxInUse
    <3>1. Stretch(RxInUse, RxBusyDesc, Succ(RxNextDesc))
      BY <1>2, <2>2
    <3>2. Stretch(RxInUse \ {RxNextDesc}, RxBusyDesc, RxNextDesc)
      BY <1>1, <2>2, <3>1, StretchDrop
    <3>3. QED
      BY <2>2, <3>2
  <2>3. CASE rxpc = "give" /\ RxNextDesc \notin RxInUse
    BY <1>1, <2>3 DEF RxInv, RxHand, RxInUse, Empty
  <2>4. QED
    BY <2>1, <2>2, <2>3
<1> HIDE DEF S
<1>6. QED
  BY <1>1, <1>2, <1>4, <1>5, BetweenLeft

\* The good frames in the ring and in hand leave room for another one.
LEMMA RxQueueRoom ==
  ASSUME RxFifoInv, rxcur \in RxOwned
  PROVE  Cardinality(RxQueue) < N + 1
<1> DEFINE f == [k \in RxDone |-> mem[rxd[k].data]]
           A == {f[k] : k \in RxDone}
           x == IF rxpc \in {"copy", "crashed"} THEN mem[data1] ELSE pbuf
<1>1. RxDone \in SUBSET Slot /\ rxcur \in Slot /\ rxcur \notin RxDone
  BY DEF RxDone, RxInUse, RxOwned
<1>2. f = [k \in RxDone |-> f[k]] /\ RxQueue \subseteq A \cup {x}
  BY DEF RxQueue, RxFrame
<1> HIDE DEF f, x
<1>3. IsFiniteSet(A) /\ Cardinality(A) < N
  BY <1>1, <1>2, FewFrames
<1> HIDE DEF A
<1>4. IsFiniteSet(A \cup {x}) /\ Cardinality(A \cup {x}) <= Cardinality(A) + 1 /\ Cardinality(A) \in Nat
  <2>1. Cardinality(A) \in Nat
    BY <1>3, FS_CardinalityType
  <2>2. /\ IsFiniteSet(A \cup {x})
        /\ Cardinality(A \cup {x}) = IF x \in A THEN Cardinality(A) ELSE Cardinality(A) + 1
    BY <1>3, FS_AddElement
  <2>3. QED
    BY <2>1, <2>2
<1>5. Cardinality(RxQueue) <= Cardinality(A \cup {x})
  BY <1>2, <1>4, FS_Subset
<1>6. Cardinality(RxQueue) \in Nat /\ Cardinality(A \cup {x}) \in Nat
  BY <1>2, <1>4, FS_Subset, FS_CardinalityType
<1>7. QED
  BY <1>3, <1>4, <1>5, <1>6, RingAssumption

\* A good frame that arrives is put at the end of the queue.
LEMMA RxReceivePuts ==
  ASSUME RxFifoInv, RxReceive
  PROVE  RxDistinct' /\ RxOrdered' /\ (RxFifo!Put \/ UNCHANGED <<RxQueue, delivered>>)
<1> USE DEF RxFifoInv
<1> DEFINE new == arrived + 1
           b == rxd[rxcur].data
<1>1. /\ UNCHANGED <<RxNextDesc, RxBusyDesc, rxpc, data1, pbuf, delivered>>
      /\ arrived' = new /\ arrived \in Nat /\ new \in 1 .. Arrivals
      /\ mem' = [mem EXCEPT ![b] = new]
      /\ rxd' = [rxd EXCEPT ![rxcur].own = FALSE]
      /\ rxcur \in RxOwned /\ rxcur \in Slot
  BY RxAssumption DEF RxReceive, RxTypeOK, rxThread, RxOwned
<1>2. /\ \A k \in Slot : rxd'[k].data = rxd[k].data
      /\ RxInUse' = RxInUse /\ RxOwned' = RxOwned \ {rxcur}
      /\ RxInUse \subseteq Slot /\ rxcur \in RxInUse
  BY <1>1 DEF RxTypeOK, RxInUse, RxOwned, Empty, OwnedByDma, RxInv, RxRing
<1> PICK c \in Slot : c = rxcur
  BY <1>1
<1>3. /\ RxDone' = RxDone \cup {c} /\ c \notin RxDone /\ RxDone \subseteq RxInUse
  BY <1>1, <1>2 DEF RxDone, RxInv, RxHand
<1>4. b \in 1 .. N /\ mem'[b] = new
  BY <1>1, <1>2, RingAssumption DEF RxTypeOK, RxInUse, Empty
<1>5. /\ \A k \in RxDone : rxd[k].data # b
      /\ rxpc \in {"copy", "crashed"} => data1 # b
  BY <1>2, <1>3 DEF RxDistinct
<1>6. Got(c)' = new /\ \A k \in RxDone : Got(k)' = Got(k)
  <2>1. \A k \in RxDone : mem'[rxd[k].data] = mem[rxd[k].data]
    BY <1>1, <1>2, <1>3, <1>5 DEF RxTypeOK
  <2>2. QED
    BY <1>1, <1>2, <1>3, <1>4, <2>1 DEF Got
<1>7. rxpc \in {"copy", "crashed"} => mem'[data1] = mem[data1]
  BY <1>1, <1>5 DEF RxTypeOK
<1>8. \A k \in RxDone : Got(k) \in 1 .. arrived /\ pbuf < Got(k) /\ pbuf \in 0 .. arrived
  BY DEF RxOrdered
<1>9. RxDistinct'
  BY <1>1, <1>2 DEF RxDistinct
<1>10. RxOrdered'
  <2>1. \A j, k \in RxDone' : Between(RxBusyDesc', k, j) => Got(j)' < Got(k)'
    <3>1. SUFFICES ASSUME NEW j \in RxDone', NEW k \in RxDone', Between(RxBusyDesc, k, j)
                   PROVE  Got(j)' < Got(k)'
      BY <1>1 DEF Between
    <3>2. CASE j \in RxDone /\ k \in RxDone
      BY <1>6, <3>1, <3>2 DEF RxOrdered
    <3>3. CASE j \in RxDone /\ k = c
      BY <1>1, <1>6, <1>8, <3>3
    <3>4. CASE j = c /\ k \in RxDone
      BY <1>1, <3>1, <3>4, RxDoneBefore
    <3>5. CASE j = c /\ k = c
      BY <1>1, <3>1, <3>5 DEF Between, Slot, RxTypeOK
    <3>6. QED
      BY <1>3, <3>2, <3>3, <3>4, <3>5
  <2>2. \A k \in RxDone' : Got(k)' \in 1 .. arrived' /\ pbuf' < Got(k)'
    <3>1. pbuf \in 0 .. arrived
      BY DEF RxOrdered
    <3>2. QED
      BY <1>1, <1>3, <1>6, <1>8, <3>1
  <2>3. rxpc' \in {"copy", "crashed"} =>
          mem'[data1'] \in 1 .. arrived' /\ \A k \in RxDone' : mem'[data1'] < Got(k)'
    BY <1>1, <1>3, <1>6, <1>7 DEF RxOrdered
  <2>4. /\ rxpc' \in {"wait", "lock", "get", "copy", "crashed"} => pbuf' = 0
        /\ pbuf' \in 0 .. arrived' /\ (pbuf' # 0 => pbuf' \notin Damaged)
        /\ \A j \in DOMAIN delivered' : delivered'[j] \in 0 .. arrived'
    BY <1>1 DEF RxOrdered
  <2>5. QED
    BY <2>1, <2>2, <2>3, <2>4 DEF RxOrdered
<1>11. RxQueue' = RxQueue \cup ({new} \ Damaged)
  <2>1. {mem'[rxd'[k].data] : k \in RxDone'} = {mem[rxd[k].data] : k \in RxDone} \cup {new}
    BY <1>3, <1>6 DEF Got
  <2>2. RxFrame' = RxFrame
    BY <1>1, <1>7 DEF RxFrame
  <2>3. QED
    BY <2>1, <2>2 DEF RxQueue
<1>12. \A g \in RxQueue : g < new
  <2>1. \A g \in RxFrame : g < new
    BY <1>1 DEF RxFrame, RxOrdered
  <2>2. \A k \in RxDone : mem[rxd[k].data] < new
    BY <1>1, <1>8 DEF Got
  <2>3. QED
    BY <2>1, <2>2 DEF RxQueue
<1>13. \A j \in DOMAIN delivered : delivered[j] < new
  BY <1>1 DEF RxOrdered
<1>14. Cardinality(RxQueue) < N + 1
  BY <1>1, RxQueueRoom
<1>15. CASE new \in Damaged
  BY <1>1, <1>9, <1>10, <1>11, <1>15
<1>16. CASE new \notin Damaged
  <2>1. RxQueue' = RxQueue \cup {new} /\ UNCHANGED delivered /\ new \in 1 .. Arrivals
    BY <1>1, <1>11, <1>16
  <2> HIDE DEF new
  <2>2. RxFifo!Put
    BY <1>12, <1>13, <1>14, <2>1, Zenon DEF RxFifo!Put, RxFifo!Cardinality, Cardinality
  <2>3. QED
    BY <1>9, <1>10, <2>2
<1>17. QED
  BY <1>15, <1>16

\* Every step of receiving is one of the queue or leaves it alone
LEMMA RxFifoStep ==
  ASSUME Errors = 0, NoErrors, RxFifoInv, [Next]_vars
  PROVE  RxDistinct' /\ RxOrdered' /\ [RxFifo!Put \/ RxFifo!Get]_<<RxQueue, delivered>>
<1>1. CASE UNCHANGED <<rxRing, rxThread, mem>> /\ arrived' \in {arrived, arrived + 1}
  BY <1>1, RxQueueKept DEF RxFifoInv, RxTypeOK
<1>2. CASE rt_eth_rx
  BY <1>2, RxQuietQueue, RxGetQueue, RxSetQueue, RxGiveQueue, RxUnlockQueue DEF rt_eth_rx
<1>3. CASE RxDma
  BY <1>1, <1>3, RxReceivePuts DEF RxDma, RxLose
<1>4. CASE eth_rx_irq
  BY <1>1, <1>4 DEF eth_rx_irq, TakeTxRing, NoErrors
<1>5. CASE BusError \/ TxStop
  BY <1>1, <1>5 DEF BusError, TxStop, rxDma
<1>6. QED
  BY <1>1, <1>2, <1>3, <1>4, <1>5 DEF Next, vars, rxVars, rxDma

\* The receive ring is a queue as well: the stack gets the good frames that the
\* DMA has received in the order of their arrival, each once, and none that was
\* damaged, on a ring of any size, however few buffers it has and whatever stops
\* the transmitter meets.
THEOREM RxImplementsFifo ==
  ASSUME Errors = 0 PROVE Spec => RxIsFifo
<1>1. Init => RxDistinct /\ RxOrdered /\ RxFifo!Init
  BY RxQueueInit
<1>2. (RxTypeOK /\ RxBuffer /\ RxInv /\ NoErrors) /\ RxDistinct /\ RxOrdered /\ [Next]_vars
        => RxDistinct' /\ RxOrdered' /\ [RxFifo!Put \/ RxFifo!Get]_<<RxQueue, delivered>>
  BY RxFifoStep DEF RxFifoInv
<1>3. QED
  BY <1>1, <1>2, RxInvariant, PTL DEF Spec, RxIsFifo, RxFifo!Spec
==============================================================================
