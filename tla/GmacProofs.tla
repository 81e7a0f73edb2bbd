------------------------------ MODULE GmacProofs ------------------------------
(***************************************************************************)
(* The rings of module Gmac for every size, every number of frames and     *)
(* every interleaving of sender, receiver, DMA and timer.                  *)
(*                                                                         *)
(* Sending, as long as the DMA reports no bus error and no stop: the       *)
(* descriptors in use and those of the DMA stay where the driver's         *)
(* pointers say, and the copies allocated are exactly those of the frames  *)
(* in the ring.  Receiving: types hold under all faults; the ring and its  *)
(* buffers as long as no bus error resets it (a transmit stop leaves the   *)
(* receive ring alone).                                                    *)
(*                                                                         *)
(* Under any number of bus errors and transmit stops eth_rx_irq empties    *)
(* the send ring or takes it from the DMA in the middle of rt_eth_tx, so   *)
(* that TxRing and TxCopies fail; that no freed copy is read and that no   *)
(* frame is sent twice does not depend on them, and is proved first.       *)
(***************************************************************************)
EXTENDS Gmac, TLAPS, SequenceTheorems, FiniteSetTheorems

(***************************************************************************)
(* Stretches of a descriptor ring of any size, and the transmitter under   *)
(* faults.                                                                 *)
(***************************************************************************)

\* The next descriptor is one of the ring.
LEMMA SuccType ==
  ASSUME NEW a \in Slot PROVE Succ(a) \in Slot
BY RingAssumption DEF Succ, Slot

\* Filling the descriptor at the end of a stretch.
LEMMA StretchAdd ==
  ASSUME NEW a \in Slot, NEW b \in Slot, NEW S \in SUBSET Slot,
         Stretch(S, a, b), b \notin S
  PROVE  Stretch(S \cup {b}, a, Succ(b))
<1> SUFFICES ASSUME NEW k \in Slot
             PROVE  k \in S \cup {b} <=> IF a = Succ(b) THEN a \in S \cup {b}
                                                       ELSE Between(a, Succ(b), k)
  BY DEF Stretch
<1>1. k \in S <=> IF a = b THEN a \in S ELSE Between(a, b, k)
  BY DEF Stretch
<1>2. a \in S <=> IF a = b THEN a \in S ELSE Between(a, b, a)
  BY DEF Stretch
<1>3. QED
  BY <1>1, <1>2, RingAssumption DEF Between, Succ, Slot

\* Taking the descriptor at the beginning of a stretch.
LEMMA StretchRemove ==
  ASSUME NEW a \in Slot, NEW b \in Slot, NEW S \in SUBSET Slot,
         Stretch(S, a, b), a \in S
  PROVE  Stretch(S \ {a}, Succ(a), b)
<1> SUFFICES ASSUME NEW k \in Slot
             PROVE  k \in S \ {a} <=> IF Succ(a) = b THEN Succ(a) \in S \ {a}
                                                    ELSE Between(Succ(a), b, k)
  BY DEF Stretch
<1>1. k \in S <=> IF a = b THEN a \in S ELSE Between(a, b, k)
  BY DEF Stretch
<1>2. Succ(a) \in Slot /\ (Succ(a) \in S <=> IF a = b THEN a \in S ELSE Between(a, b, Succ(a)))
  BY SuccType DEF Stretch
<1>3. QED
  BY <1>1, <1>2, RingAssumption DEF Between, Succ, Slot

\* Leaving out the last descriptor of a stretch.
LEMMA StretchDrop ==
  ASSUME NEW a \in Slot, NEW b \in Slot, NEW S \in SUBSET Slot,
         Stretch(S, a, Succ(b)), b \in S
  PROVE  Stretch(S \ {b}, a, b)
<1> SUFFICES ASSUME NEW k \in Slot
             PROVE  k \in S \ {b} <=> IF a = b THEN a \in S \ {b} ELSE Between(a, b, k)
  BY DEF Stretch
<1>1. /\ k \in S <=> (IF a = Succ(b) THEN a \in S ELSE Between(a, Succ(b), k))
      /\ b \in S <=> (IF a = Succ(b) THEN a \in S ELSE Between(a, Succ(b), b))
  BY DEF Stretch
<1>2. QED
  BY <1>1, RingAssumption DEF Between, Succ, Slot

\* The order in which a stretch that begins at a is walked: a comes first,
LEMMA BetweenFirst ==
  ASSUME NEW a \in Slot, NEW k \in Slot, k # a PROVE Between(a, k, a)
BY RingAssumption DEF Between, Slot

\* stays the same for the others when a is taken,
LEMMA BetweenRest ==
  ASSUME NEW a \in Slot, NEW j \in Slot, NEW k \in Slot, j # a, k # a,
         Between(Succ(a), k, j)
  PROVE  Between(a, k, j)
BY RingAssumption DEF Between, Succ, Slot

\* and what is added at the end comes after all the others.
LEMMA BetweenLast ==
  ASSUME NEW a \in Slot, NEW b \in Slot, NEW S \in SUBSET Slot,
         Stretch(S, a, b), b \notin S, NEW k \in S
  PROVE  ~Between(a, k, b)
<1>1. /\ k \in S <=> (IF a = b THEN a \in S ELSE Between(a, b, k))
      /\ b \in S <=> (IF a = b THEN a \in S ELSE Between(a, b, b))
  BY DEF Stretch
<1>2. QED
  BY <1>1, RingAssumption DEF Between, Slot

\* What the second of two parties has left behind lies before it.
LEMMA BetweenLeft ==
  ASSUME NEW a \in Slot, NEW b \in Slot, NEW c \in Slot,
         NEW S \in SUBSET Slot, NEW T \in SUBSET S,
         Stretch(S, a, b), Stretch(T, c, b), c \in T, NEW k \in S \ T
  PROVE  ~Between(a, k, c)
<1>1. /\ k \in S <=> (IF a = b THEN a \in S ELSE Between(a, b, k))
      /\ c \in S <=> (IF a = b THEN a \in S ELSE Between(a, b, c))
      /\ k \in T <=> (IF c = b THEN c \in T ELSE Between(c, b, k))
  BY DEF Stretch
<1>2. QED
  BY <1>1, RingAssumption DEF Between, Slot
-----------------------------------------------------------------------------

\* The frames in the ring are different, their copies allocated, and none is
\* the frame in hand before that one is filled in.
RingFrames ==
  /\ \A j, k \in TxInUse : txd[j].data = txd[k].data => j = k
  /\ \A k \in TxInUse : txd[k].data \in heap /\ txd[k].data <= frame
  /\ txpc \in {"lock", "check", "alloc", "set"} => \A k \in TxInUse : txd[k].data < frame
  /\ txpc = "give" => \A k \in TxInUse \ {TxNextDesc} : txd[k].data < frame

\* What rt_eth_tx has in hand: its descriptor is not the DMA's and holds its
\* frame, or nothing when eth_rx_irq came in between.
InHand ==
  /\ txpc # "idle" => frame > 0
  /\ txpc = "set" => frame \in heap
  /\ txpc \in {"alloc", "set", "give"} => TxNextDesc \notin TxOwned
  /\ txpc = "give" => txd[TxNextDesc].data \in {0, frame}

\* What was sent: no frame that the DMA has, and none that it has still to get.
Sent ==
  /\ \A j \in DOMAIN wire : wire[j] <= frame
  /\ txpc \in {"lock", "check", "alloc", "set", "give"} =>
       \A j \in DOMAIN wire : wire[j] < frame
  /\ \A k \in TxOwned : txd[k].data # 0 => \A j \in DOMAIN wire : wire[j] # txd[k].data

FaultInv == TxTypeOK /\ RingFrames /\ InHand /\ Sent /\ WireOnce
-----------------------------------------------------------------------------
\* What is on the wire are frames
LEMMA WireType ==
  ASSUME TxTypeOK PROVE \A j \in DOMAIN wire : wire[j] \in 0 .. Frames
<1>1. wire \in Seq(0 .. Frames)
  BY DEF TxTypeOK
<1>2. DOMAIN wire = 1 .. Len(wire)
  BY <1>1
<1>3. QED
  BY <1>1, <1>2, ElementOfSeq

\* At the start the ring is empty and nothing has been sent
LEMMA FaultInitInv == Init => FaultInv
<1> SUFFICES ASSUME Init PROVE FaultInv
  OBVIOUS
<1> USE DEF Init, TxInit
<1>1. 0 \in Slot
  BY RingAssumption DEF Slot
<1>2. TxInUse = {} /\ TxOwned = {}
  BY DEF TxInUse, TxOwned, Empty, OwnedByDma, InitRing
<1>3. TxTypeOK
  <2>1. txd \in [Slot -> [own : BOOLEAN, data : 0 .. Frames]]
    BY TxAssumption DEF InitRing
  <2>2. QED
    BY <1>1, <2>1, TxAssumption DEF TxTypeOK
<1>4. RingFrames /\ InHand /\ Sent /\ WireOnce
  BY <1>2 DEF RingFrames, InHand, Sent, WireOnce
<1>5. QED
  BY <1>3, <1>4 DEF FaultInv

\* What only the receiver, the semaphore or the state of the DMA changes.
LEMMA FaultUntouchedInv ==
  ASSUME FaultInv, UNCHANGED <<txRing, txThread, txcur, wire>>, sem_lock' \in {0, 1},
         txdma' \in {"run", "suspended", "stopped"}
  PROVE  FaultInv'
<1>1. TxTypeOK'
  BY DEF FaultInv, TxTypeOK, txRing, txThread
<1>2. (RingFrames /\ InHand /\ Sent /\ WireOnce)'
  BY DEF FaultInv, RingFrames, InHand, Sent, WireOnce, TxInUse, TxOwned, txRing, txThread
<1>3. QED
  BY <1>1, <1>2 DEF FaultInv

\* The steps of rt_eth_tx that leave the ring alone.
LEMMA FaultQuietInv ==
  ASSUME FaultInv,
         \/ Submit \/ TxLock \/ TxCheck \/ TxAlloc \/ TxAllocFails \/ TxFull
         \/ TxResume \/ TxUnlock
  PROVE  FaultInv'
<1> USE DEF FaultInv
<1>1. UNCHANGED <<txRing, txcur, wire>> /\ TxInUse' = TxInUse /\ TxOwned' = TxOwned
  BY DEF Submit, TxLock, TxCheck, TxAlloc, TxAllocFails, TxFull, TxResume, TxUnlock,
     txDma, txRing, TxInUse, TxOwned
<1>2. txd' = txd /\ TxNextDesc' = TxNextDesc /\ wire' = wire
  BY <1>1 DEF txRing
<1>3. /\ frame \in Int /\ TxNextDesc \in Slot
      /\ \A k \in TxInUse : txd[k].data \in Int
      /\ \A j \in DOMAIN wire : wire[j] \in Int
  BY WireType DEF TxTypeOK, TxInUse
<1>4. CASE Submit
  <2>1. TxTypeOK'
    BY <1>1, <1>4, TxAssumption DEF Submit, TxTypeOK, txRing, txDma
  <2>2. frame' = frame + 1 /\ heap' = heap /\ txpc' = "lock" /\ frame >= 0
    BY <1>4, TxAssumption DEF Submit, TxTypeOK
  <2>3. RingFrames'
    BY <1>1, <1>2, <1>3, <2>2 DEF RingFrames
  <2>4. (InHand /\ Sent /\ WireOnce)'
    BY <1>1, <1>2, <1>3, <2>2 DEF InHand, Sent, WireOnce
  <2>5. QED
    BY <2>1, <2>3, <2>4
<1>5. CASE TxLock \/ TxCheck \/ TxAllocFails \/ TxResume \/ TxUnlock
  <2>1. TxTypeOK'
    BY <1>1, <1>5 DEF TxLock, TxCheck, TxAllocFails, TxResume, TxUnlock, TxTypeOK, txRing, txDma
  <2>2. frame' = frame /\ heap' = heap
    BY <1>5 DEF TxLock, TxCheck, TxAllocFails, TxResume, TxUnlock
  <2>3. \/ txpc' \in {"idle", "reclaim"}
        \/ txpc \in {"lock", "check"} /\ txpc' \in {"check", "resume"}
        \/ txpc = "check" /\ txpc' = "alloc" /\ TxNextDesc \notin TxOwned
    BY <1>5 DEF TxLock, TxCheck, TxAllocFails, TxResume, TxUnlock, TxOwned
  <2>4. txpc # "idle" \/ txpc' = "idle"
    BY <1>5 DEF TxLock, TxCheck, TxAllocFails, TxResume, TxUnlock
  <2>5. (RingFrames /\ InHand /\ Sent /\ WireOnce)'
    BY <1>1, <1>2, <2>2, <2>3, <2>4 DEF RingFrames, InHand, Sent, WireOnce
  <2>6. QED
    BY <2>1, <2>5
<1>6. CASE TxAlloc
  <2>1. /\ frame' = frame /\ heap' = heap \cup {frame} /\ txpc = "alloc" /\ txpc' = "set"
    BY <1>6 DEF TxAlloc
  <2>2. TxTypeOK'
    BY <1>1, <1>6, <2>1, TxAssumption DEF TxAlloc, TxTypeOK, txRing, txDma, InHand
  <2>3. (RingFrames /\ InHand /\ Sent /\ WireOnce)'
    BY <1>1, <1>2, <2>1 DEF RingFrames, InHand, Sent, WireOnce
  <2>4. QED
    BY <2>2, <2>3
<1>7. CASE TxFull
  <2>1. frame' = frame /\ heap' = heap \ {frame} /\ txpc = "set" /\ txpc' = "idle"
    BY <1>7 DEF TxFull
  <2>2. TxTypeOK'
    BY <1>1, <1>7 DEF TxFull, TxTypeOK, txRing, txDma
  <2>3. \A k \in TxInUse : txd[k].data # frame
    BY <1>3, <2>1 DEF RingFrames
  <2>4. RingFrames'
    BY <1>1, <1>2, <2>1, <2>3 DEF RingFrames
  <2>5. (InHand /\ Sent /\ WireOnce)'
    BY <1>1, <1>2, <2>1 DEF InHand, Sent, WireOnce
  <2>6. QED
    BY <2>2, <2>4, <2>5
<1>8. QED
  BY <1>4, <1>5, <1>6, <1>7

\* A descriptor gets the copy of the frame, before its OWN bit is set
LEMMA FaultFillInv ==
  ASSUME FaultInv, TxFill PROVE FaultInv'
<1> USE DEF FaultInv
<1>1. /\ txpc = "set" /\ txpc' = "give" /\ frame' = frame /\ heap' = heap
      /\ TxNextDesc' = TxNextDesc /\ wire' = wire /\ TxNextDesc \in Slot
  BY DEF TxFill, TxTypeOK, txDma
<1>2. /\ frame \in 1 .. Frames
      /\ txd' = [txd EXCEPT ![TxNextDesc].data = frame]
      /\ txd' \in [Slot -> [own : BOOLEAN, data : 0 .. Frames]]
  <2>1. frame \in 1 .. Frames
    BY <1>1, TxAssumption DEF TxTypeOK, InHand
  <2>2. QED
    BY <2>1, <1>1 DEF TxFill, TxTypeOK
<1>3. /\ \A k \in Slot : k # TxNextDesc => txd'[k] = txd[k]
      /\ txd'[TxNextDesc].data = frame /\ txd'[TxNextDesc].own = txd[TxNextDesc].own
  BY <1>1, <1>2 DEF TxTypeOK
<1>4. /\ TxNextDesc \notin TxInUse /\ TxNextDesc \notin TxOwned
      /\ TxInUse' = TxInUse \cup {TxNextDesc} /\ TxOwned' = TxOwned
      /\ TxInUse \subseteq Slot
  BY <1>1, <1>2, <1>3 DEF TxFill, InHand, TxInUse, TxOwned, Empty, OwnedByDma
<1>5. TxTypeOK'
  BY <1>1, <1>2 DEF TxFill, TxTypeOK, txDma
<1>6. RingFrames'
  <2>1. \A k \in TxInUse : /\ txd'[k].data = txd[k].data /\ txd[k].data \in Int
                           /\ txd'[k].data < frame /\ txd'[k].data \in heap
    BY <1>1, <1>3, <1>4 DEF RingFrames, TxTypeOK
  <2>2. frame \in heap
    BY <1>1 DEF InHand
  <2>3. QED
    BY <1>1, <1>2, <1>3, <1>4, <2>1, <2>2 DEF RingFrames
<1>7. InHand'
  BY <1>1, <1>2, <1>3, <1>4 DEF InHand
<1>8. Sent' /\ WireOnce'
  <2>1. \A k \in TxOwned : txd'[k] = txd[k]
    BY <1>3, <1>4 DEF TxOwned
  <2>2. QED
    BY <1>1, <1>4, <2>1 DEF Sent, WireOnce
<1>9. QED
  BY <1>5, <1>6, <1>7, <1>8

\* The OWN bit is set and the ring moves on
LEMMA FaultGiveInv ==
  ASSUME FaultInv, TxGive PROVE FaultInv'
<1> USE DEF FaultInv
<1>1. /\ txpc = "give" /\ txpc' = "resume" /\ frame' = frame /\ heap' = heap
      /\ wire' = wire /\ TxNextDesc \in Slot
      /\ txd' = [txd EXCEPT ![TxNextDesc].own = TRUE]
  BY DEF TxGive, TxTypeOK, txDma
<1>2. txd' \in [Slot -> [own : BOOLEAN, data : 0 .. Frames]]
  BY <1>1 DEF TxTypeOK
<1>3. /\ \A k \in Slot : txd'[k].data = txd[k].data
      /\ TxInUse' = TxInUse /\ TxOwned' = TxOwned \cup {TxNextDesc}
      /\ TxOwned \subseteq Slot /\ TxInUse \subseteq Slot
  BY <1>1, <1>2 DEF TxTypeOK, TxInUse, TxOwned, Empty, OwnedByDma
<1>4. TxTypeOK'
  BY <1>1, <1>2, SuccType DEF TxGive, TxTypeOK, txDma
<1>5. RingFrames' /\ InHand' /\ WireOnce'
  BY <1>1, <1>3 DEF RingFrames, InHand, WireOnce
<1>6. Sent'
  <2>1. frame \in Int /\ \A j \in DOMAIN wire : wire[j] \in Int /\ wire[j] < frame
    BY <1>1, WireType DEF Sent, TxTypeOK
  <2>2. txd[TxNextDesc].data \in {0, frame}
    BY <1>1 DEF InHand
  <2>3. QED
    BY <1>1, <1>3, <2>1, <2>2 DEF Sent
<1>7. QED
  BY <1>4, <1>5, <1>6

\* The loop at the end of rt_eth_tx takes a descriptor back
LEMMA FaultReclaimInv ==
  ASSUME FaultInv, TxReclaim PROVE FaultInv'
<1> USE DEF FaultInv
<1>1. /\ txpc = "reclaim" /\ txpc' = "reclaim" /\ frame' = frame /\ wire' = wire
      /\ TxBusyDesc \in Slot /\ heap' = heap \ {txd[TxBusyDesc].data}
      /\ txd' = [txd EXCEPT ![TxBusyDesc] = InitRing]
  BY DEF TxReclaim, TxTypeOK, txDma
<1>2. txd' \in [Slot -> [own : BOOLEAN, data : 0 .. Frames]]
  BY <1>1, TxAssumption DEF TxTypeOK, InitRing
<1>3. /\ \A k \in Slot : k # TxBusyDesc => txd'[k] = txd[k]
      /\ TxBusyDesc \in TxInUse /\ TxBusyDesc \notin TxOwned
      /\ TxInUse' = TxInUse \ {TxBusyDesc} /\ TxOwned' = TxOwned
      /\ TxInUse \subseteq Slot /\ TxOwned \subseteq Slot
  BY <1>1, <1>2 DEF TxReclaim, TxTypeOK, TxInUse, TxOwned, Empty, OwnedByDma, InitRing
<1>4. TxTypeOK'
  <2>1. heap' \subseteq 1 .. Frames /\ TxBusyDesc' \in Slot
    BY <1>1, SuccType DEF TxTypeOK, TxReclaim
  <2>2. BusyTxDesc' \in Int /\ TxBusy' \in Nat /\ TxNext' \in Nat /\ TxNextDesc' \in Slot
    BY DEF TxReclaim, TxTypeOK
  <2>3. txdma' = txdma /\ txcur' = txcur /\ sem_lock' = sem_lock
    BY DEF TxReclaim, txDma
  <2>4. QED
    BY <1>1, <1>2, <2>1, <2>2, <2>3 DEF TxTypeOK
<1>5. RingFrames' /\ InHand'
  BY <1>1, <1>3 DEF RingFrames, InHand
<1>6. Sent' /\ WireOnce'
  BY <1>1, <1>3 DEF Sent, WireOnce
<1>7. QED
  BY <1>4, <1>5, <1>6

\* The DMA sends the frame of the next descriptor it owns
LEMMA FaultSendInv ==
  ASSUME FaultInv, TxSend PROVE FaultInv'
<1> USE DEF FaultInv
<1> DEFINE d == txd[txcur].data
<1>1. /\ txpc' = txpc /\ frame' = frame /\ heap' = heap /\ TxNextDesc' = TxNextDesc
      /\ txcur \in TxOwned /\ txcur \in Slot /\ wire' = Append(wire, d) /\ d \in 0 .. Frames
      /\ txd' = [txd EXCEPT ![txcur].own = FALSE]
  BY DEF TxSend, TxTypeOK, txThread, TxOwned
<1>2. txd' \in [Slot -> [own : BOOLEAN, data : 0 .. Frames]]
  BY <1>1 DEF TxTypeOK
<1>3. /\ \A k \in Slot : txd'[k].data = txd[k].data
      /\ TxInUse' = TxInUse /\ TxOwned' = TxOwned \ {txcur}
      /\ TxOwned \subseteq Slot /\ TxInUse \subseteq Slot /\ TxNextDesc \in Slot
  BY <1>1, <1>2 DEF TxTypeOK, TxInUse, TxOwned, Empty, OwnedByDma
<1>4. /\ wire' \in Seq(0 .. Frames)
      /\ DOMAIN wire' = DOMAIN wire \cup {Len(wire) + 1} /\ Len(wire) + 1 \notin DOMAIN wire
      /\ wire'[Len(wire) + 1] = d /\ \A j \in DOMAIN wire : wire'[j] = wire[j]
  BY <1>1 DEF TxTypeOK
<1>5. TxTypeOK'
  <2>1. txcur' \in Slot
    BY SuccType DEF TxSend, TxTypeOK
  <2>2. /\ TxNext' = TxNext /\ TxBusy' = TxBusy /\ TxBusyDesc' = TxBusyDesc
        /\ BusyTxDesc' = BusyTxDesc /\ txdma' = txdma /\ sem_lock' = sem_lock
    BY DEF TxSend
  <2>3. QED
    BY <1>1, <1>2, <1>4, <2>1, <2>2 DEF TxTypeOK
<1>6. RingFrames' /\ InHand'
  BY <1>1, <1>3 DEF RingFrames, InHand
<1>7. Sent'
  <2>1. d = 0 \/ txcur \in TxInUse
    BY <1>1 DEF TxInUse, Empty
  <2>2. frame \in Nat /\ (txpc # "idle" => frame > 0)
    BY DEF TxTypeOK, InHand
  <2>3. /\ d <= frame
        /\ txpc \in {"lock", "check", "alloc", "set"} => d < frame
    BY <1>1, <2>1, <2>2 DEF RingFrames
  <2>4. txpc = "give" => d < frame
    BY <1>1, <2>1, <2>2 DEF RingFrames, InHand
  <2>5. \A k \in TxOwned' : txd[k].data # 0 => d # txd[k].data
    BY <1>1, <1>3 DEF RingFrames, TxInUse, Empty
  <2>6. QED
    BY <1>1, <1>3, <1>4, <2>3, <2>4, <2>5 DEF Sent
<1>8. WireOnce'
  <2>1. d # 0 => \A j \in DOMAIN wire : wire[j] # d
    BY <1>1 DEF Sent
  <2>2. QED
    BY <1>4, <2>1 DEF WireOnce
<1>9. QED
  BY <1>5, <1>6, <1>7, <1>8

\* eth_rx_irq, wherever rt_eth_tx is: the ring is emptied, or keeps its frames
\* and loses its owner.
LEMMA FaultIrqInv ==
  ASSUME FaultInv, ResetRings \/ TakeTxRing, UNCHANGED <<txThread, wire, sem_lock>>
  PROVE  FaultInv'
<1> USE DEF FaultInv
<1>1. UNCHANGED <<txpc, frame, heap, wire, TxNextDesc, sem_lock>> /\ TxNextDesc \in Slot
  BY DEF ResetRings, TakeTxRing, txThread, TxTypeOK
<1>2. /\ txd' \in [Slot -> [own : BOOLEAN, data : 0 .. Frames]]
      /\ \A k \in Slot : ~txd'[k].own /\ txd'[k].data \in {0, txd[k].data}
  <2>1. CASE ResetRings
    BY <2>1, TxAssumption DEF ResetRings, InitRing
  <2>2. CASE TakeTxRing
    BY <2>2 DEF TakeTxRing, TxTypeOK
  <2>3. QED
    BY <2>1, <2>2
<1>3. TxOwned' = {} /\ TxInUse' \subseteq TxInUse /\ \A k \in TxInUse' : txd'[k].data = txd[k].data
  BY <1>2 DEF TxInUse, TxOwned, Empty, OwnedByDma
<1>4. TxTypeOK'
  <2>1. /\ TxNext \in Nat /\ TxBusy \in Nat /\ txcur \in Slot /\ 0 \in Slot
        /\ TxBusyDesc \in Slot /\ BusyTxDesc \in Int
    BY RingAssumption DEF TxTypeOK, Slot
  <2>2. /\ TxNext' \in {TxNext, 0} /\ TxBusy' \in {TxBusy, 0} /\ txcur' \in {txcur, 0}
        /\ UNCHANGED <<TxBusyDesc, BusyTxDesc>> /\ txdma' = "run"
    <3>1. CASE ResetRings
      BY <3>1 DEF ResetRings
    <3>2. CASE TakeTxRing
      BY <3>2 DEF TakeTxRing
    <3>3. QED
      BY <3>1, <3>2
  <2>3. /\ TxNext' \in Nat /\ TxBusy' \in Nat /\ txcur' \in Slot
        /\ TxBusyDesc' \in Slot /\ BusyTxDesc' \in Int
    BY <2>1, <2>2
  <2>4. /\ txpc \in {"idle", "lock", "check", "alloc", "set", "give", "resume", "reclaim"}
        /\ frame \in 0 .. Frames /\ heap \subseteq 1 .. Frames
        /\ wire \in Seq(0 .. Frames) /\ sem_lock \in {0, 1}
    BY DEF TxTypeOK
  <2>5. QED
    BY <1>1, <1>2, <2>2, <2>3, <2>4 DEF TxTypeOK
<1>5. RingFrames'
  BY <1>1, <1>3 DEF RingFrames
<1>6. (InHand /\ Sent /\ WireOnce)'
  BY <1>1, <1>2, <1>3 DEF InHand, Sent, WireOnce
<1>7. QED
  BY <1>4, <1>5, <1>6

\* Every step, the errors and the stops included, keeps the invariant
LEMMA FaultStepInv ==
  ASSUME FaultInv, [Next]_vars PROVE FaultInv'
<1>1. sem_lock \in {0, 1} /\ txdma \in {"run", "suspended", "stopped"}
  BY DEF FaultInv, TxTypeOK
<1>2. CASE UNCHANGED vars
  BY <1>1, <1>2, FaultUntouchedInv DEF vars, txVars, txDma
<1>3. CASE Submit \/ rt_eth_tx
  BY <1>3, FaultQuietInv, FaultFillInv, FaultGiveInv, FaultReclaimInv DEF rt_eth_tx
<1>4. CASE TxDma
  BY <1>1, <1>4, FaultSendInv, FaultUntouchedInv DEF TxDma, TxSuspend
<1>5. CASE (rt_eth_rx \/ RxDma) /\ UNCHANGED <<txVars, faults>>
  <2>1. sem_lock' \in {0, 1}
    BY <1>1, <1>5 DEF rt_eth_rx, RxDma, RxWake, RxLock, RxNone, RxGet, RxCopy, RxCopyFails,
       RxSet, RxGive, RxUnlock, RxReceive, RxLose
  <2>2. QED
    BY <1>1, <1>5, <2>1, FaultUntouchedInv DEF txVars, txDma
<1>6. CASE BusError \/ TxStop
  BY <1>1, <1>6, FaultUntouchedInv DEF BusError, TxStop
<1>7. CASE eth_rx_irq
  BY <1>1, <1>7, FaultIrqInv, FaultUntouchedInv DEF eth_rx_irq
<1>8. QED
  BY <1>2, <1>3, <1>4, <1>5, <1>6, <1>7 DEF Next

\* The invariant holds of every run with errors and stops
LEMMA FaultInvariant == Spec => []FaultInv
<1>1. FaultInv /\ [Next]_vars => FaultInv'
  BY FaultStepInv
<1>2. QED
  BY <1>1, FaultInitInv, PTL DEF Spec
-----------------------------------------------------------------------------
\* The DMA never reads a copy that rt_eth_tx has freed, whatever bus errors and
\* stops eth_rx_irq finds, and at whatever point of rt_eth_tx it finds them.
THEOREM NoStaleUnderFaults == Spec => []TxNoStale
<1>1. FaultInv => TxNoStale
  BY DEF FaultInv, RingFrames, TxNoStale, TxOwned, TxInUse, Empty
<1>2. QED
  BY <1>1, FaultInvariant, PTL

\* No frame is sent twice: TakeTxRing takes the frames of a stopped ring from
\* the DMA, and rt_eth_tx gives back only what it has filled in since.
THEOREM WireOnceUnderFaults == Spec => []WireOnce
<1>1. FaultInv => WireOnce
  BY DEF FaultInv
<1>2. QED
  BY <1>1, FaultInvariant, PTL

(***************************************************************************)
(* Sending.                                                                *)
(***************************************************************************)

\* TxRing is inductive only with what is known of the descriptor between the
\* two halves of synopGMAC_set_tx_qptr.
TxGiving == txpc = "give" => TxNextDesc \in TxInUse /\ TxNextDesc \notin TxOwned

\* TxCopies needs the frames in the ring to be different from each other and
\* from the frame in hand.
TxDistinct ==
  /\ \A j, k \in TxInUse : txd[j].data = txd[k].data => j = k
  /\ \A k \in TxInUse : txd[k].data <= frame
  /\ txpc \in {"lock", "check", "alloc", "set"} => \A k \in TxInUse : txd[k].data < frame
  /\ txpc # "idle" => frame > 0

TxInv == TxTypeOK /\ TxRing /\ TxGiving /\ TxCopies /\ TxDistinct

\* Without faults the timer finds neither error nor stop.
NoFaults ==
  /\ errors = 0 /\ stops = 0
  /\ status \in [rx : BOOLEAN, error : {FALSE}, stopped : {FALSE}]
-----------------------------------------------------------------------------
\* At the start the send ring is empty
LEMMA TxInitInv == Init => TxInv
<1> SUFFICES ASSUME Init PROVE TxInv
  OBVIOUS
<1> USE DEF Init, TxInit
<1>1. 0 \in Slot
  BY RingAssumption DEF Slot
<1>2. TxInUse = {} /\ TxOwned = {}
  BY DEF TxInUse, TxOwned, Empty, OwnedByDma, InitRing
<1>3. TxTypeOK
  <2>1. txd \in [Slot -> [own : BOOLEAN, data : 0 .. Frames]]
    BY TxAssumption DEF InitRing
  <2>2. QED
    BY <1>1, <2>1, TxAssumption DEF TxTypeOK
<1>4. TxRing
  BY <1>1, <1>2, RingAssumption DEF TxRing, Stretch, Between
<1>5. TxGiving /\ TxCopies /\ TxDistinct
  BY <1>2 DEF TxGiving, TxCopies, TxDistinct
<1>6. QED
  BY <1>3, <1>4, <1>5 DEF TxInv

\* What changes neither the ring nor the DMA's place in it keeps the ring.
LEMMA TxRingKept ==
  ASSUME TxRing, UNCHANGED <<txRing, txcur>>, txpc # "give", txpc' # "give"
  PROVE  TxRing' /\ TxInUse' = TxInUse /\ TxOwned' = TxOwned
BY DEF TxRing, txRing, TxInUse, TxOwned, Empty, OwnedByDma, Stretch

\* The steps of rt_eth_tx and of the DMA that leave the ring alone.
LEMMA TxQuietInv ==
  ASSUME TxInv,
         \/ Submit \/ TxLock \/ TxCheck \/ TxAlloc \/ TxAllocFails \/ TxFull
         \/ TxResume \/ TxUnlock
  PROVE  TxInv'
<1> USE DEF TxInv
<1>1. /\ UNCHANGED <<txRing, txcur>> /\ txpc # "give" /\ txpc' # "give"
  BY DEF Submit, TxLock, TxCheck, TxAlloc, TxAllocFails, TxFull, TxResume, TxUnlock, txDma
<1>2. TxRing' /\ TxInUse' = TxInUse /\ TxOwned' = TxOwned
  BY <1>1, TxRingKept
<1>3. txd' = txd /\ TxNextDesc' = TxNextDesc
  BY <1>1 DEF txRing
<1>4. TxTypeOK'
  <2>1. CASE Submit
    BY <2>1, <1>1, TxAssumption DEF Submit, TxTypeOK, TxDistinct, txRing, txDma
  <2>2. CASE TxLock
    BY <2>2, <1>1, TxAssumption DEF TxLock, TxTypeOK, TxDistinct, txRing, txDma
  <2>3. CASE TxCheck
    BY <2>3, <1>1, TxAssumption DEF TxCheck, TxTypeOK, TxDistinct, txRing, txDma
  <2>4. CASE TxAlloc
    BY <2>4, <1>1, TxAssumption DEF TxAlloc, TxTypeOK, TxDistinct, txRing, txDma
  <2>5. CASE TxAllocFails
    BY <2>5, <1>1, TxAssumption DEF TxAllocFails, TxTypeOK, TxDistinct, txRing, txDma
  <2>6. CASE TxFull
    BY <2>6, <1>1, TxAssumption DEF TxFull, TxTypeOK, TxDistinct, txRing, txDma
  <2>7. CASE TxResume
    BY <2>7, <1>1, TxAssumption DEF TxResume, TxTypeOK, TxDistinct, txRing, txDma
  <2>8. CASE TxUnlock
    BY <2>8, <1>1, TxAssumption DEF TxUnlock, TxTypeOK, TxDistinct, txRing, txDma
  <2>9. QED
    BY <2>1, <2>2, <2>3, <2>4, <2>5, <2>6, <2>7, <2>8
<1>5. TxGiving'
  BY <1>1 DEF TxGiving
<1>6. TxCopies'
  <2>1. TxCopies' <=> heap' = {txd[k].data : k \in TxInUse} \cup (IF txpc' = "set" THEN {frame'} ELSE {})
    BY <1>2, <1>3 DEF TxCopies
  <2>2. CASE heap' = heap /\ txpc # "set" /\ txpc' # "set"
    BY <2>1, <2>2 DEF TxCopies
  <2>3. CASE TxAlloc
    BY <2>1, <2>3 DEF TxCopies, TxAlloc
  <2>4. CASE TxFull
    <3>1. frame \notin {txd[k].data : k \in TxInUse}
      <4>1. frame \in Int /\ \A k \in TxInUse : txd[k].data < frame /\ txd[k].data \in Int
        BY <2>4 DEF TxFull, TxTypeOK, TxDistinct, TxInUse
      <4>2. QED
        BY <4>1
    <3>2. QED
      BY <2>1, <2>4, <3>1 DEF TxCopies, TxFull
  <2>5. QED
    BY <2>2, <2>3, <2>4 DEF Submit, TxLock, TxCheck, TxAllocFails, TxResume, TxUnlock
<1>7. TxDistinct'
  BY <1>2, <1>3, TxAssumption DEF TxTypeOK, TxDistinct, TxInUse, Submit, TxLock, TxCheck,
     TxAlloc, TxAllocFails, TxFull, TxResume, TxUnlock
<1>8. QED
  BY <1>2, <1>4, <1>5, <1>6, <1>7

\* A descriptor gets the copy of the frame, before its OWN bit is set
LEMMA TxFillInv ==
  ASSUME TxInv, TxFill PROVE TxInv'
<1> USE DEF TxInv
<1>1. /\ txpc = "set" /\ txpc' = "give" /\ frame' = frame /\ heap' = heap
      /\ TxNextDesc' = TxNextDesc /\ TxBusyDesc' = TxBusyDesc /\ txcur' = txcur
      /\ TxNext' = TxNext /\ TxBusy' = TxBusy
      /\ TxNextDesc \in Slot /\ TxBusyDesc \in Slot /\ txcur \in Slot
  BY DEF TxFill, TxTypeOK, txDma
<1>2. /\ frame \in 1 .. Frames
      /\ txd' = [txd EXCEPT ![TxNextDesc].data = frame]
      /\ txd' \in [Slot -> [own : BOOLEAN, data : 0 .. Frames]]
  <2>1. frame \in 1 .. Frames
    BY <1>1, TxAssumption DEF TxTypeOK, TxDistinct
  <2>2. QED
    BY <2>1, <1>1 DEF TxFill, TxTypeOK
<1>3. /\ \A k \in Slot : k # TxNextDesc => txd'[k] = txd[k]
      /\ txd'[TxNextDesc].data = frame /\ txd'[TxNextDesc].own = txd[TxNextDesc].own
  BY <1>1, <1>2 DEF TxTypeOK
<1>4. /\ TxNextDesc \notin TxInUse /\ TxNextDesc \notin TxOwned
      /\ TxInUse' = TxInUse \cup {TxNextDesc} /\ TxOwned' = TxOwned
      /\ TxInUse \subseteq Slot
  BY <1>1, <1>2, <1>3 DEF TxFill, TxRing, TxInUse, TxOwned, Empty, OwnedByDma
<1>5. TxTypeOK'
  BY <1>1, <1>2 DEF TxFill, TxTypeOK, txDma
<1>6. TxRing'
  BY <1>1, <1>4, StretchAdd DEF TxRing, Stretch
<1>7. TxGiving'
  BY <1>1, <1>4 DEF TxGiving
<1>8. TxCopies'
  BY <1>1, <1>3, <1>4 DEF TxCopies
<1>9. TxDistinct'
  BY <1>1, <1>2, <1>3, <1>4 DEF TxDistinct
<1>10. QED
  BY <1>5, <1>6, <1>7, <1>8, <1>9

\* The OWN bit is set and the ring moves on
LEMMA TxGiveInv ==
  ASSUME TxInv, TxGive PROVE TxInv'
<1> USE DEF TxInv
<1>1. /\ txpc = "give" /\ txpc' = "resume" /\ frame' = frame /\ heap' = heap
      /\ TxNextDesc' = Succ(TxNextDesc) /\ TxBusyDesc' = TxBusyDesc /\ txcur' = txcur
      /\ TxNext' = TxNextDesc' /\ TxBusy' = TxBusy
      /\ TxNextDesc \in Slot /\ TxBusyDesc \in Slot /\ txcur \in Slot
      /\ TxNextDesc' \in Slot
  BY SuccType DEF TxGive, TxTypeOK, TxRing, txDma, Succ
<1>2. /\ txd' = [txd EXCEPT ![TxNextDesc].own = TRUE]
      /\ txd' \in [Slot -> [own : BOOLEAN, data : 0 .. Frames]]
  BY DEF TxGive, TxTypeOK
<1>3. /\ \A k \in Slot : k # TxNextDesc => txd'[k] = txd[k]
      /\ \A k \in Slot : txd'[k].data = txd[k].data
      /\ txd'[TxNextDesc].own
  BY <1>1, <1>2 DEF TxTypeOK
<1>4. /\ TxNextDesc \in TxInUse /\ TxNextDesc \notin TxOwned
      /\ TxInUse' = TxInUse /\ TxOwned' = TxOwned \cup {TxNextDesc}
      /\ TxOwned \subseteq Slot /\ TxInUse \subseteq Slot
  BY <1>1, <1>2, <1>3 DEF TxGiving, TxInUse, TxOwned, Empty, OwnedByDma
<1>5. TxTypeOK'
  BY <1>1, <1>2 DEF TxGive, TxTypeOK, TxRing, txDma, Slot
<1>6. TxRing'
  BY <1>1, <1>4, StretchAdd DEF TxRing, Stretch
<1>7. TxGiving'
  BY <1>1 DEF TxGiving
<1>8. TxCopies'
  BY <1>1, <1>3, <1>4 DEF TxCopies
<1>9. TxDistinct'
  BY <1>1, <1>3, <1>4 DEF TxDistinct
<1>10. QED
  BY <1>5, <1>6, <1>7, <1>8, <1>9

\* The loop at the end of rt_eth_tx takes a descriptor back
LEMMA TxReclaimInv ==
  ASSUME TxInv, TxReclaim PROVE TxInv'
<1> USE DEF TxInv
<1>1. /\ txpc = "reclaim" /\ txpc' = "reclaim" /\ frame' = frame
      /\ TxNextDesc' = TxNextDesc /\ TxBusyDesc' = Succ(TxBusyDesc) /\ txcur' = txcur
      /\ TxNext' = TxNext /\ TxBusy' = TxBusyDesc'
      /\ TxNextDesc \in Slot /\ TxBusyDesc \in Slot /\ txcur \in Slot
      /\ TxBusyDesc' \in Slot
      /\ heap' = heap \ {txd[TxBusyDesc].data}
  BY SuccType DEF TxReclaim, TxTypeOK, TxRing, txDma, Succ
<1>2. /\ txd' = [txd EXCEPT ![TxBusyDesc] = InitRing]
      /\ txd' \in [Slot -> [own : BOOLEAN, data : 0 .. Frames]]
  BY TxAssumption DEF TxReclaim, TxTypeOK, InitRing
<1>3. /\ \A k \in Slot : k # TxBusyDesc => txd'[k] = txd[k]
      /\ txd'[TxBusyDesc] = InitRing
  BY <1>1, <1>2 DEF TxTypeOK
<1>4. /\ TxBusyDesc \in TxInUse /\ TxBusyDesc \notin TxOwned
      /\ TxInUse' = TxInUse \ {TxBusyDesc} /\ TxOwned' = TxOwned
      /\ TxInUse \subseteq Slot
  BY <1>1, <1>2, <1>3 DEF TxReclaim, TxInUse, TxOwned, Empty, OwnedByDma, InitRing
<1>5. TxTypeOK'
  <2>1. heap' \subseteq 1 .. Frames
    BY <1>1 DEF TxTypeOK
  <2>2. BusyTxDesc' \in Int /\ TxBusy' \in Nat /\ TxNext' \in Nat
    BY <1>1, RingAssumption DEF TxReclaim, TxTypeOK, Slot
  <2>3. txdma' = txdma /\ wire' = wire /\ sem_lock' = sem_lock
    BY DEF TxReclaim, txDma
  <2>4. QED
    BY <1>1, <1>2, <2>1, <2>2, <2>3 DEF TxTypeOK
<1>6. TxRing'
  BY <1>1, <1>4, StretchRemove DEF TxRing, Stretch
<1>7. TxGiving'
  BY <1>1 DEF TxGiving
<1>8. TxCopies'
  BY <1>1, <1>3, <1>4 DEF TxCopies, TxDistinct
<1>9. TxDistinct'
  BY <1>1, <1>3, <1>4 DEF TxDistinct
<1>10. QED
  BY <1>5, <1>6, <1>7, <1>8, <1>9

\* The DMA sends the frame of the next descriptor it owns
LEMMA TxSendInv ==
  ASSUME TxInv, TxSend PROVE TxInv'
<1> USE DEF TxInv
<1>1. /\ txpc' = txpc /\ frame' = frame /\ heap' = heap
      /\ TxNextDesc' = TxNextDesc /\ TxBusyDesc' = TxBusyDesc /\ txcur' = Succ(txcur)
      /\ TxNext' = TxNext /\ TxBusy' = TxBusy
      /\ TxNextDesc \in Slot /\ TxBusyDesc \in Slot /\ txcur \in Slot
      /\ txcur' \in Slot
  BY SuccType DEF TxSend, TxTypeOK, txThread
<1>2. /\ txd' = [txd EXCEPT ![txcur].own = FALSE]
      /\ txd' \in [Slot -> [own : BOOLEAN, data : 0 .. Frames]]
  BY DEF TxSend, TxTypeOK
<1>3. /\ \A k \in Slot : k # txcur => txd'[k] = txd[k]
      /\ \A k \in Slot : txd'[k].data = txd[k].data
      /\ ~txd'[txcur].own
  BY <1>1, <1>2 DEF TxTypeOK
<1>4. /\ txcur \in TxOwned
      /\ TxInUse' = TxInUse /\ TxOwned' = TxOwned \ {txcur}
      /\ TxOwned \subseteq Slot /\ TxInUse \subseteq Slot
  BY <1>1, <1>2, <1>3 DEF TxSend, TxInUse, TxOwned, Empty, OwnedByDma
<1>5. TxTypeOK'
  <2>1. txd[txcur].data \in 0 .. Frames
    BY <1>1 DEF TxTypeOK
  <2>2. wire' \in Seq(0 .. Frames)
    BY <2>1 DEF TxSend, TxTypeOK
  <2>3. QED
    BY <1>1, <1>2, <2>2 DEF TxSend, TxTypeOK
<1>6. TxRing'
  BY <1>1, <1>4, StretchRemove DEF TxRing, Stretch
<1>7. TxGiving'
  BY <1>1, <1>4 DEF TxGiving
<1>8. TxCopies'
  BY <1>1, <1>3, <1>4 DEF TxCopies
<1>9. TxDistinct'
  BY <1>1, <1>3, <1>4 DEF TxDistinct
<1>10. QED
  BY <1>5, <1>6, <1>7, <1>8, <1>9

\* The DMA finds nothing to send and suspends itself
LEMMA TxSuspendInv ==
  ASSUME TxInv, TxSuspend PROVE TxInv'
<1>1. UNCHANGED <<txRing, txThread, txcur, wire, sem_lock>> /\ txdma' = "suspended"
  BY DEF TxSuspend
<1>2. TxTypeOK'
  BY <1>1 DEF TxInv, TxTypeOK, txRing, txThread
<1>3. TxRing' /\ TxGiving' /\ TxCopies' /\ TxDistinct'
  BY <1>1 DEF TxInv, TxRing, TxGiving, TxCopies, TxDistinct, TxInUse, TxOwned, Stretch,
     txRing, txThread
<1>4. QED
  BY <1>2, <1>3 DEF TxInv

\* The receiver shares only the semaphore with the transmitter.
LEMMA TxUntouchedInv ==
  ASSUME TxInv, UNCHANGED txVars, sem_lock' \in {0, 1} PROVE TxInv'
<1>1. UNCHANGED <<txRing, txThread, txDma>>
  BY DEF txVars
<1>2. TxTypeOK'
  BY <1>1 DEF TxInv, TxTypeOK, txRing, txThread, txDma
<1>3. TxRing' /\ TxGiving' /\ TxCopies' /\ TxDistinct'
  BY <1>1 DEF TxInv, TxRing, TxGiving, TxCopies, TxDistinct, TxInUse, TxOwned, Stretch,
     txRing, txThread, txDma
<1>4. QED
  BY <1>2, <1>3 DEF TxInv

\* Without faults to come there are none.
LEMMA NoFaultsStep ==
  ASSUME Errors = 0, Stops = 0, NoFaults, [Next]_vars PROVE NoFaults'
<1>1. CASE UNCHANGED vars
  BY <1>1 DEF vars, faults, rxVars, NoFaults
<1>2. CASE (Submit \/ rt_eth_tx \/ TxDma) /\ UNCHANGED <<rxVars, faults>>
  BY <1>2 DEF rxVars, faults, NoFaults
<1>3. CASE (rt_eth_rx \/ RxDma) /\ UNCHANGED <<txVars, faults>>
  <2>1. errors' = errors /\ stops' = stops
    BY <1>3 DEF faults
  <2>2. status' = status \/ status' = [status EXCEPT !.rx = TRUE]
    BY <1>3 DEF rt_eth_rx, RxDma, RxWake, RxLock, RxNone, RxGet, RxCopy, RxCopyFails, RxSet,
       RxGive, RxUnlock, RxReceive, RxLose
  <2>3. QED
    BY <2>1, <2>2 DEF NoFaults
<1>4. CASE BusError \/ TxStop
  BY <1>4 DEF NoFaults, BusError, TxStop
<1>5. CASE eth_rx_irq
  BY <1>5 DEF NoFaults, eth_rx_irq, NoStatus, faults
<1>6. QED
  BY <1>1, <1>2, <1>3, <1>4, <1>5 DEF Next

\* Every step keeps the invariant of the send ring
LEMMA TxStepInv ==
  ASSUME Errors = 0, Stops = 0, NoFaults, TxInv, [Next]_vars PROVE TxInv'
<1> USE DEF NoFaults
<1>1. sem_lock \in {0, 1}
  BY DEF TxInv, TxTypeOK
<1>2. CASE UNCHANGED vars
  BY <1>1, <1>2, TxUntouchedInv DEF vars
<1>3. CASE Submit \/ rt_eth_tx \/ TxDma
  BY <1>3, TxQuietInv, TxFillInv, TxGiveInv, TxReclaimInv, TxSendInv, TxSuspendInv
     DEF rt_eth_tx, TxDma
<1>4. CASE (rt_eth_rx \/ RxDma) /\ UNCHANGED <<txVars, faults>>
  <2>1. sem_lock' \in {0, 1}
    BY <1>1, <1>4 DEF rt_eth_rx, RxDma, RxWake, RxLock, RxNone, RxGet, RxCopy, RxCopyFails,
       RxSet, RxGive, RxUnlock, RxReceive, RxLose
  <2>2. QED
    BY <1>4, <2>1, TxUntouchedInv
<1>5. CASE BusError \/ TxStop
  BY <1>5 DEF BusError, TxStop
<1>6. CASE eth_rx_irq
  <2>1. ~status.error /\ ~status.stopped
    OBVIOUS
  <2>2. UNCHANGED txVars /\ sem_lock' = sem_lock
    BY <1>6, <2>1 DEF eth_rx_irq, txVars, txDma
  <2>3. QED
    BY <1>1, <2>2, TxUntouchedInv
<1>7. QED
  BY <1>2, <1>3, <1>4, <1>5, <1>6 DEF Next

\* The invariant of the send ring holds of every run without errors
LEMMA TxInvariant ==
  ASSUME Errors = 0, Stops = 0 PROVE Spec => [](TxInv /\ NoFaults)
<1>1. Init => TxInv /\ NoFaults
  BY TxInitInv DEF Init, RxInit, NoStatus, NoFaults
<1>2. TxInv /\ NoFaults /\ [Next]_vars => (TxInv /\ NoFaults)'
  BY NoFaultsStep, TxStepInv
<1>3. QED
  BY <1>1, <1>2, PTL DEF Spec
-----------------------------------------------------------------------------
\* synopGMAC_set_tx_qptr, synopGMAC_get_tx_qptr and the DMA never overtake
\* each other on a ring of any size.
THEOREM TxRingCorrect ==
  ASSUME Errors = 0, Stops = 0 PROVE Spec => []TxRing
<1>1. TxInv => TxRing
  BY DEF TxInv
<1>2. QED
  BY <1>1, TxInvariant, PTL

\* rt_eth_tx leaks no copy of a frame and frees none that is in the ring: on
\* every path, those that return early included.
THEOREM TxCopiesCorrect ==
  ASSUME Errors = 0, Stops = 0 PROVE Spec => []TxCopies
<1>1. TxInv => TxCopies
  BY DEF TxInv
<1>2. QED
  BY <1>1, TxInvariant, PTL
-----------------------------------------------------------------------------
\* While a call has not filled its descriptor, the descriptor is empty.
Room == txpc \in {"lock", "check", "alloc", "set"} => TxNextDesc \notin TxInUse

LockInv == LockHeld /\ Room

\* A ring with a descriptor to spare has TxNextDesc to spare.
LEMMA RoomAtSubmit ==
  ASSUME TxInv, Window <= N, Submit PROVE TxNextDesc \notin TxInUse
<1> SUFFICES ASSUME TxNextDesc \in TxInUse PROVE FALSE
  OBVIOUS
<1>1. /\ TxNextDesc \in Slot /\ TxBusyDesc \in Slot
      /\ Stretch(TxInUse, TxBusyDesc, TxNextDesc)
  BY DEF Submit, TxInv, TxTypeOK, TxRing
<1>2. TxBusyDesc = TxNextDesc
  BY <1>1, RingAssumption DEF Stretch, Between, Slot
<1>3. TxInUse = Slot
  BY <1>1, <1>2 DEF Stretch, TxInUse
<1>4. Cardinality(Slot) = N
  BY FS_Interval, RingAssumption DEF Slot
<1>5. QED
  BY <1>3, <1>4, RingAssumption, TxAssumption DEF Submit

\* What a step that fills no descriptor does to those in use.
LEMMA RoomKept ==
  ASSUME TxInv, Room,
         \/ TxLock \/ TxCheck \/ TxAlloc \/ TxFill \/ TxGive \/ TxResume
         \/ TxReclaim \/ TxUnlock \/ TxSend \/ TxSuspend
  PROVE  Room'
<1>1. CASE TxLock \/ TxCheck \/ TxAlloc
  <2>1. txd' = txd /\ TxNextDesc' = TxNextDesc /\ txpc \in {"lock", "check", "alloc"}
    BY <1>1 DEF TxLock, TxCheck, TxAlloc, txRing
  <2>2. QED
    BY <2>1 DEF Room, TxInUse
<1>2. CASE TxFill \/ TxGive \/ TxResume \/ TxReclaim \/ TxUnlock
  BY <1>2 DEF TxFill, TxGive, TxResume, TxReclaim, TxUnlock, Room
<1>3. CASE TxSend
  <2>1. \A k \in Slot : txd'[k].data = txd[k].data
    BY <1>3 DEF TxSend, TxInv, TxTypeOK
  <2>2. TxInUse' = TxInUse
    BY <2>1 DEF TxInUse, Empty
  <2>3. QED
    BY <1>3, <2>2 DEF TxSend, txThread, Room
<1>4. CASE TxSuspend
  BY <1>4 DEF TxSuspend, txRing, txThread, Room, TxInUse
<1>5. QED
  BY <1>1, <1>2, <1>3, <1>4

\* Every step keeps the lock with the thread that took it, or free
LEMMA LockStep ==
  ASSUME Errors = 0, Stops = 0, Window <= N, TxFails = {},
         NoFaults, TxInv, LockInv, [Next]_vars
  PROVE  LockInv'
<1> USE DEF LockInv
<1>1. sem_lock \in {0, 1} /\ TxNextDesc \in Slot
  BY DEF TxInv, TxTypeOK
<1>2. CASE UNCHANGED <<txVars, rxpc, sem_lock>>
  BY <1>2 DEF LockHeld, TxHolds, RxHolds, Room, TxInUse, txVars, txRing, txThread
<1>3. CASE UNCHANGED vars
  BY <1>2, <1>3 DEF vars, rxVars, rxThread
<1>4. CASE (Submit \/ rt_eth_tx \/ TxDma) /\ UNCHANGED <<rxVars, faults>>
  <2>1. rxpc' = rxpc
    BY <1>4 DEF rxVars, rxThread
  <2>2. CASE Submit
    <3>1. TxNextDesc' \notin TxInUse'
      BY <2>2, RoomAtSubmit DEF Submit, txRing, TxInUse
    <3>2. QED
      BY <2>1, <2>2, <3>1 DEF Submit, LockHeld, TxHolds, RxHolds, Room
  <2>3. CASE TxAllocFails
    BY <2>3 DEF TxAllocFails
  <2>4. CASE TxFull
    <3>1. TxNextDesc \in TxInUse /\ txpc = "set"
      BY <1>1, <2>4 DEF TxFull, TxInUse
    <3>2. QED
      BY <3>1 DEF Room
  <2>5. CASE TxLock \/ TxCheck \/ TxAlloc \/ TxFill \/ TxGive \/ TxResume
             \/ TxReclaim \/ TxUnlock
    BY <1>1, <2>1, <2>5, RoomKept DEF LockHeld, TxHolds, RxHolds, TxLock, TxCheck, TxAlloc,
       TxFill, TxGive, TxResume, TxReclaim, TxUnlock
  <2>6. CASE TxSend \/ TxSuspend
    BY <2>1, <2>6, RoomKept DEF LockHeld, TxHolds, RxHolds, TxSend, TxSuspend, txThread
  <2>7. QED
    BY <1>4, <2>2, <2>3, <2>4, <2>5, <2>6 DEF rt_eth_tx, TxDma
<1>5. CASE (rt_eth_rx \/ RxDma) /\ UNCHANGED <<txVars, faults>>
  <2>1. Room' /\ txpc' = txpc
    BY <1>5 DEF Room, TxInUse, txVars, txRing, txThread
  <2>2. LockHeld'
    BY <1>1, <1>5, <2>1 DEF LockHeld, TxHolds, RxHolds, rt_eth_rx, RxDma, RxWake, RxLock,
       RxNone, RxGet, RxCopy, RxCopyFails, RxSet, RxGive, RxUnlock, RxReceive, RxLose, rxThread
  <2>3. QED
    BY <2>1, <2>2
<1>6. CASE BusError \/ TxStop
  BY <1>6 DEF BusError, TxStop, NoFaults
<1>7. CASE eth_rx_irq
  <2>1. ~status.error /\ ~status.stopped
    BY DEF NoFaults
  <2>2. UNCHANGED <<txVars, rxpc, sem_lock>>
    BY <1>7, <2>1 DEF eth_rx_irq, txVars, txDma, rxThread
  <2>3. QED
    BY <1>2, <2>2
<1>8. QED
  BY <1>3, <1>4, <1>5, <1>6, <1>7 DEF Next

\* When the stack never offers a frame to a full ring and memory never runs
\* out, sem_lock is taken exactly while rt_eth_tx or rt_eth_rx is under way:
\* the two returns that leave it taken are not reached.
THEOREM LockNeverLeaks ==
  ASSUME Errors = 0, Stops = 0, Window <= N, TxFails = {}
  PROVE  Spec => []LockHeld
<1>1. Init => LockInv
  BY DEF Init, TxInit, RxInit, LockInv, LockHeld, TxHolds, RxHolds, Room
<1>2. (TxInv /\ NoFaults) /\ LockInv /\ [Next]_vars => LockInv'
  BY LockStep
<1>3. LockInv => LockHeld
  BY DEF LockInv
<1>4. QED
  BY <1>1, <1>2, <1>3, TxInvariant, PTL DEF Spec

(***************************************************************************)
(* Receiving.                                                              *)
(***************************************************************************)

\* A buffer that rt_eth_rx reads is one of the ring's.
RxBuffer == rxpc = "copy" => data1 # 0

\* The buffer in hand has its place: the descriptor to refill is empty until
\* synopGMAC_set_rx_qptr writes the buffer there, and not the DMA's before
\* rt_eth_rx is done with it.
RxHand ==
  /\ rxpc \in {"copy", "set"} => RxNextDesc \notin RxInUse
  /\ rxpc = "give" => RxNextDesc \notin RxOwned /\ rxd[RxNextDesc].data = data1
  /\ rxpc \in {"set", "give"} => data1 # 0
  /\ rxpc \in {"wait", "lock", "get", "unlock"} => data1 = 0

NoErrors == errors = 0 /\ ~status.error

RxInv == RxRing /\ RxHand
-----------------------------------------------------------------------------
\* eth_init gives away the first n descriptors; the next one is n, or the
\* first when the ring is full.
LEMMA InitIndex ==
  ASSUME NEW n \in 0 .. N PROVE n % N = IF n = N THEN 0 ELSE n
BY RingAssumption

\* At the start every filled descriptor of the receive ring has its own buffer
LEMMA RxTypeInit == Init => RxTypeOK /\ RxBuffer
<1> SUFFICES ASSUME RxInit PROVE RxTypeOK /\ RxBuffer
  BY DEF Init
<1>1. PICK n \in Filled :
        /\ rxd = [k \in Slot |-> IF k < n THEN [own |-> TRUE, data |-> k + 1] ELSE InitRing]
        /\ RxNext = n % N /\ RxNextDesc = n % N /\ BusyRxDesc = n
  BY DEF RxInit
<1>2. n \in 0 .. N /\ n % N \in Slot /\ 0 \in Slot
  BY RxAssumption, RingAssumption, InitIndex DEF Slot
<1>3. rxd \in [Slot -> [own : BOOLEAN, data : 0 .. N]]
  BY <1>1, <1>2, RingAssumption DEF InitRing, Slot
<1>4. RxNext \in Nat /\ RxNextDesc \in Slot /\ BusyRxDesc \in Int
  BY <1>1, <1>2, RingAssumption DEF Slot
<1>5. mem \in [1 .. N -> 0 .. Arrivals] /\ arrived \in 0 .. Arrivals /\ pbuf \in 0 .. Arrivals
  BY RxAssumption DEF RxInit
<1>6. data1 \in 0 .. N /\ delivered \in Seq(1 .. Arrivals) /\ mail \in 0 .. Mail
  BY RxAssumption, RingAssumption DEF RxInit
<1>7. QED
  BY <1>2, <1>3, <1>4, <1>5, <1>6 DEF RxInit, RxTypeOK, RxBuffer, NoStatus

\* A step that leaves the receive ring, its thread and its DMA alone
LEMMA RxTypeUntouched ==
  ASSUME RxTypeOK, RxBuffer, UNCHANGED <<rxRing, rxThread, rxDma>>, mail' \in 0 .. Mail,
         status' \in [rx : BOOLEAN, error : BOOLEAN, stopped : BOOLEAN]
  PROVE  (RxTypeOK /\ RxBuffer)'
BY DEF RxTypeOK, RxBuffer, rxRing, rxThread, rxDma

\* The receiving thread keeps the types and the buffers apart
LEMMA RxTypeThread ==
  ASSUME RxTypeOK, RxBuffer, rt_eth_rx PROVE (RxTypeOK /\ RxBuffer)'
<1> USE DEF RxBuffer
<1>1. CASE RxWake \/ RxLock \/ RxNone
  <2>1. UNCHANGED <<rxRing, rxDma, data1, delivered, status>>
    BY <1>1 DEF RxWake, RxLock, RxNone
  <2>2. rxpc' \in {"lock", "get", "unlock"} /\ pbuf' \in 0 .. Arrivals /\ mail' \in 0 .. Mail
    BY <1>1, RxAssumption DEF RxWake, RxLock, RxNone, RxTypeOK
  <2>3. QED
    BY <2>1, <2>2 DEF RxTypeOK, rxRing, rxDma
<1>2. CASE RxGet
  <2>1. rxd[RxBusyDesc].data \in 1 .. N
    BY <1>2, RingAssumption DEF RxGet, RxTypeOK, Empty
  <2>2. /\ rxd' \in [Slot -> [own : BOOLEAN, data : 0 .. N]] /\ RxBusyDesc' \in Slot
        /\ RxBusy' \in Nat /\ BusyRxDesc' \in Int
    BY <1>2, SuccType, RingAssumption DEF RxGet, RxTypeOK, InitRing
  <2>3. QED
    BY <1>2, <2>1, <2>2 DEF RxGet, RxTypeOK, rxDma
<1>3. CASE RxCopy \/ RxCopyFails
  <2>1. mem[data1] \in 0 .. Arrivals
    BY <1>3 DEF RxCopy, RxCopyFails, RxTypeOK
  <2>2. UNCHANGED <<rxRing, rxDma, data1, delivered, mail, status>>
    BY <1>3 DEF RxCopy, RxCopyFails
  <2>3. rxpc' \in {"set", "crashed"} /\ pbuf' \in {pbuf, 0, mem[data1]}
    BY <1>3 DEF RxCopy, RxCopyFails
  <2>4. pbuf' \in 0 .. Arrivals
    BY <2>1, <2>3, RxAssumption DEF RxTypeOK
  <2>5. QED
    BY <2>2, <2>3, <2>4 DEF RxTypeOK, rxRing, rxDma
<1>4. CASE RxSet
  <2>1. /\ rxd' = rxd \/ rxd' = [rxd EXCEPT ![RxNextDesc].data = data1]
        /\ data1' \in {data1, 0} /\ rxpc' \in {"give", "unlock"}
    BY <1>4 DEF RxSet
  <2>2. rxd' \in [Slot -> [own : BOOLEAN, data : 0 .. N]] /\ data1' \in 0 .. N
    <3>1. data1 \in 0 .. N /\ 0 \in 0 .. N
      BY RingAssumption DEF RxTypeOK
    <3>2. rxd' \in [Slot -> [own : BOOLEAN, data : 0 .. N]]
      BY <2>1, <3>1 DEF RxTypeOK
    <3>3. QED
      BY <2>1, <3>1, <3>2
  <2>3. QED
    BY <1>4, <2>1, <2>2 DEF RxSet, RxTypeOK, rxDma
<1>5. CASE RxGive
  <2>1. rxd' \in [Slot -> [own : BOOLEAN, data : 0 .. N]]
    BY <1>5 DEF RxGive, RxTypeOK
  <2>2. /\ RxNextDesc' \in Slot /\ RxNext' \in Nat /\ BusyRxDesc' \in Int
        /\ data1' \in 0 .. N
    <3>1. RxNextDesc \in Slot
      BY DEF RxTypeOK
    <3>2. Succ(RxNextDesc) \in Slot
      BY <3>1, SuccType
    <3>3. RxNextDesc' \in Slot
      BY <1>5, <3>1, <3>2 DEF RxGive
    <3>4. RxNext' \in Nat
      <4>1. RxNext \in Nat
        BY DEF RxTypeOK
      <4>2. RxNext' = 0 \/ RxNext' = RxNext + 1
        BY <1>5 DEF RxGive
      <4>3. QED
        BY <4>1, <4>2
    <3>5. BusyRxDesc' \in Int /\ data1' \in 0 .. N
      BY <1>5, RingAssumption DEF RxGive, RxTypeOK
    <3>6. QED
      BY <3>3, <3>4, <3>5
  <2>3. QED
    BY <1>5, <2>1, <2>2 DEF RxGive, RxTypeOK, rxDma
<1>6. CASE RxUnlock
  <2>1. delivered' \in Seq(1 .. Arrivals)
    <3>1. pbuf = 0 \/ pbuf \in 1 .. Arrivals
      BY DEF RxTypeOK
    <3>2. delivered \in Seq(1 .. Arrivals)
      BY DEF RxTypeOK
    <3>3. CASE pbuf = 0
      BY <1>6, <3>2, <3>3 DEF RxUnlock
    <3>4. CASE pbuf # 0
      BY <1>6, <3>1, <3>2, <3>4, AppendProperties DEF RxUnlock
    <3>5. QED
      BY <3>3, <3>4
  <2>2. pbuf' \in 0 .. Arrivals /\ rxpc' \in {"wait", "lock"}
    BY <1>6, RxAssumption DEF RxUnlock
  <2>3. QED
    BY <1>6, <2>1, <2>2 DEF RxUnlock, RxTypeOK, rxRing, rxDma
<1>7. QED
  BY <1>1, <1>2, <1>3, <1>4, <1>5, <1>6 DEF rt_eth_rx

\* The DMA keeps the types and the buffers apart
LEMMA RxTypeDma ==
  ASSUME RxTypeOK, RxBuffer, RxDma PROVE (RxTypeOK /\ RxBuffer)'
<1>1. UNCHANGED rxThread /\ arrived' \in 0 .. Arrivals
  BY RxAssumption DEF RxDma, RxReceive, RxLose, RxTypeOK
<1>2. CASE RxReceive
  <2>1. arrived + 1 \in 0 .. Arrivals
    BY <1>1, <1>2 DEF RxReceive
  <2>2. mem' \in [1 .. N -> 0 .. Arrivals]
    BY <1>2, <2>1 DEF RxReceive, RxTypeOK
  <2>3. /\ rxd' \in [Slot -> [own : BOOLEAN, data : 0 .. N]] /\ rxcur' \in Slot
        /\ status' \in [rx : BOOLEAN, error : BOOLEAN, stopped : BOOLEAN]
    BY <1>2, SuccType DEF RxReceive, RxTypeOK
  <2>4. QED
    BY <1>1, <1>2, <2>2, <2>3 DEF RxReceive, RxTypeOK, RxBuffer, rxThread
<1>3. CASE RxLose
  BY <1>1, <1>3 DEF RxLose, RxTypeOK, RxBuffer, rxRing, rxThread
<1>4. QED
  BY <1>2, <1>3 DEF RxDma

\* Every step keeps the types and the buffers apart
LEMMA RxTypeStep ==
  ASSUME RxTypeOK, RxBuffer, [Next]_vars PROVE (RxTypeOK /\ RxBuffer)'
<1>1. /\ mail \in 0 .. Mail
      /\ status \in [rx : BOOLEAN, error : BOOLEAN, stopped : BOOLEAN]
  BY DEF RxTypeOK
<1>2. CASE UNCHANGED rxVars
  BY <1>1, <1>2, RxTypeUntouched DEF rxVars
<1>3. CASE rt_eth_rx \/ RxDma
  BY <1>3, RxTypeThread, RxTypeDma
<1>4. CASE BusError \/ TxStop
  <2>1. status' \in [rx : BOOLEAN, error : BOOLEAN, stopped : BOOLEAN] /\ mail' = mail
    BY <1>1, <1>4 DEF BusError, TxStop
  <2>2. QED
    BY <1>1, <1>4, <2>1, RxTypeUntouched DEF BusError, TxStop
<1>5. CASE eth_rx_irq
  <2>1. /\ mail' \in 0 .. Mail /\ UNCHANGED <<rxThread, mem, arrived>>
        /\ status' \in [rx : BOOLEAN, error : BOOLEAN, stopped : BOOLEAN]
    BY <1>1, <1>5, RxAssumption DEF eth_rx_irq, NoStatus
  <2>2. CASE ResetRings
    <3>1. rxd' \in [Slot -> [own : BOOLEAN, data : 0 .. N]] /\ rxcur' \in Slot
      BY <2>2, RingAssumption DEF ResetRings, InitRing, Slot
    <3>2. QED
      BY <2>1, <2>2, <3>1 DEF ResetRings, RxTypeOK, RxBuffer, rxThread
  <2>3. CASE UNCHANGED <<rxRing, rxcur>>
    BY <2>1, <2>3, RxTypeUntouched DEF rxDma
  <2>4. QED
    BY <1>5, <2>2, <2>3 DEF eth_rx_irq, TakeTxRing
<1>6. QED
  BY <1>2, <1>3, <1>4, <1>5 DEF Next, vars

\* The bounds on the faults are kept.
LEMMA FaultCount ==
  ASSUME errors \in 0 .. Errors, stops \in 0 .. Stops, [Next]_vars
  PROVE  errors' \in 0 .. Errors /\ stops' \in 0 .. Stops
<1>1. CASE UNCHANGED faults
  BY <1>1 DEF faults
<1>2. CASE BusError \/ TxStop
  BY <1>2, GmacAssumption DEF BusError, TxStop
<1>3. QED
  BY <1>1, <1>2 DEF Next, vars, eth_rx_irq

\* Every variable of the driver keeps its type, under any number of bus errors
\* and transmit stops: no index leaves its ring, no buffer number its range.
THEOREM GmacTypeCorrect == Spec => []TypeOK
<1> DEFINE T == FaultInv /\ RxTypeOK /\ RxBuffer /\ errors \in 0 .. Errors /\ stops \in 0 .. Stops
<1>1. Init => T
  BY FaultInitInv, RxTypeInit, GmacAssumption DEF Init
<1>2. T /\ [Next]_vars => T'
  BY FaultStepInv, RxTypeStep, FaultCount
<1>3. T => TypeOK
  BY DEF TypeOK, FaultInv
<1>4. QED
  BY <1>1, <1>2, <1>3, PTL DEF Spec
-----------------------------------------------------------------------------
\* At the start the first descriptors are at the DMA and nothing has failed
LEMMA RxRingInit == Init => RxInv /\ NoErrors
<1> SUFFICES ASSUME Init PROVE RxInv /\ NoErrors
  OBVIOUS
<1>1. PICK n \in Filled :
        /\ rxd = [k \in Slot |-> IF k < n THEN [own |-> TRUE, data |-> k + 1] ELSE InitRing]
        /\ RxNext = n % N /\ RxNextDesc = n % N /\ BusyRxDesc = n
  BY DEF Init, RxInit
<1>2. n \in 0 .. N /\ n % N = (IF n = N THEN 0 ELSE n)
  BY RxAssumption, InitIndex
<1>3. \A k \in Slot : (k \in RxInUse <=> k < n) /\ (k \in RxOwned <=> k < n)
  BY <1>1 DEF RxInUse, RxOwned, Empty, OwnedByDma, InitRing, Slot
<1>4. RxInUse \subseteq Slot /\ RxOwned \subseteq Slot /\ 0 \in Slot
  BY RingAssumption DEF RxInUse, RxOwned, Slot
<1>5. Stretch(RxInUse, 0, RxNextDesc) /\ Stretch(RxOwned, 0, RxNextDesc)
  BY <1>1, <1>2, <1>3, <1>4, RingAssumption DEF Stretch, Between, Slot
<1>6. RxRing
  BY <1>1, <1>3, <1>4, <1>5 DEF Init, RxInit, RxRing
<1>7. RxHand /\ NoErrors
  BY DEF Init, RxInit, RxHand, NoErrors, NoStatus
<1>8. QED
  BY <1>6, <1>7 DEF RxInv

\* What leaves the receive ring and rt_eth_rx alone.
LEMMA RxUntouched ==
  ASSUME RxInv, UNCHANGED <<rxRing, rxcur, rxpc, data1>> PROVE RxInv' /\ RxHas' = RxHas
BY DEF RxInv, RxRing, RxHand, RxHas, RxInUse, RxOwned, Stretch, rxRing

\* The steps of rt_eth_rx that leave the ring alone.
LEMMA RxQuiet ==
  ASSUME RxTypeOK, RxBuffer, RxInv,
         RxWake \/ RxLock \/ RxNone \/ RxCopy \/ RxCopyFails \/ RxUnlock
  PROVE  RxInv' /\ RxHas' = RxHas
<1>1. /\ UNCHANGED <<rxRing, rxcur, data1>> /\ rxpc # "give" /\ rxpc' # "give"
      /\ rxpc' \in {"lock", "get", "unlock", "wait"} => rxpc \in {"wait", "lock", "get", "unlock"}
      /\ rxpc' \in {"copy", "set"} => rxpc = "copy"
  BY DEF RxWake, RxLock, RxNone, RxCopy, RxCopyFails, RxUnlock, rxDma
<1>2. rxd' = rxd /\ RxNextDesc' = RxNextDesc /\ RxInUse' = RxInUse /\ RxOwned' = RxOwned
  BY <1>1 DEF rxRing, RxInUse, RxOwned
<1>3. RxHand'
  BY <1>1, <1>2 DEF RxInv, RxHand, RxBuffer
<1>4. RxRing'
  <2>1. rxpc' = "set" => Empty(rxd[RxNextDesc])
    BY <1>1 DEF RxTypeOK, RxInv, RxHand, RxInUse, RxRing
  <2>2. QED
    BY <1>1, <1>2, <2>1 DEF RxInv, RxRing, rxRing, Stretch
<1>5. QED
  BY <1>1, <1>2, <1>3, <1>4 DEF RxInv, RxHas

\* synopGMAC_get_rx_qptr empties the oldest descriptor, whether the ring was
\* full or not: there is room for the buffer in hand.
LEMMA RxGetInv ==
  ASSUME RxTypeOK, RxInv, RxGet PROVE RxInv' /\ RxHas' = RxHas
<1> USE DEF RxInv
<1>1. /\ rxpc = "get" /\ rxpc' = "copy" /\ data1 = 0 /\ data1' = rxd[RxBusyDesc].data
      /\ RxNextDesc' = RxNextDesc /\ RxBusyDesc' = Succ(RxBusyDesc) /\ rxcur' = rxcur
      /\ RxNext' = RxNext /\ RxBusy' = RxBusyDesc'
      /\ RxNextDesc \in Slot /\ RxBusyDesc \in Slot /\ rxcur \in Slot
      /\ rxd' = [rxd EXCEPT ![RxBusyDesc] = InitRing]
  BY DEF RxGet, RxTypeOK, RxRing, RxHand, rxDma, Succ
<1>2. /\ \A k \in Slot : k # RxBusyDesc => rxd'[k] = rxd[k]
      /\ rxd'[RxBusyDesc] = InitRing
  BY <1>1 DEF RxTypeOK
<1>3. /\ RxBusyDesc \in RxInUse /\ RxBusyDesc \notin RxOwned
      /\ RxInUse' = RxInUse \ {RxBusyDesc} /\ RxOwned' = RxOwned
      /\ RxInUse \subseteq Slot /\ RxOwned \subseteq Slot
  BY <1>1, <1>2 DEF RxGet, RxInUse, RxOwned, Empty, OwnedByDma, InitRing
<1>4. RxRing'
  BY <1>1, <1>3, StretchRemove DEF RxRing, Stretch
<1>5. RxNextDesc \notin RxInUse'
  <2>1. Stretch(RxInUse, RxBusyDesc, RxNextDesc)
    BY <1>1 DEF RxRing
  <2>2. QED
    BY <1>1, <1>3, <2>1, RingAssumption DEF Stretch, Between, Slot
<1>6. RxHand'
  BY <1>1, <1>5 DEF RxHand
<1>7. RxHas' = RxHas
  BY <1>1, <1>2 DEF RxHas, InitRing
<1>8. QED
  BY <1>4, <1>6, <1>7

\* The first half of synopGMAC_set_rx_qptr never has to free the buffer.
LEMMA RxSetInv ==
  ASSUME RxTypeOK, RxInv, RxSet PROVE RxInv' /\ RxHas' = RxHas
<1> USE DEF RxInv
<1>1. /\ rxpc = "set" /\ Empty(rxd[RxNextDesc]) /\ data1 # 0 /\ data1 \in 0 .. N
  BY DEF RxSet, RxRing, RxHand, RxTypeOK
<1>2. /\ rxpc' = "give" /\ data1' = data1
      /\ RxNextDesc' = RxNextDesc /\ RxBusyDesc' = RxBusyDesc /\ rxcur' = rxcur
      /\ RxNext' = RxNext /\ RxBusy' = RxBusy
      /\ RxNextDesc \in Slot /\ RxBusyDesc \in Slot /\ rxcur \in Slot
      /\ rxd' = [rxd EXCEPT ![RxNextDesc].data = data1]
  BY <1>1 DEF RxSet, RxTypeOK, rxDma
<1>3. /\ \A k \in Slot : k # RxNextDesc => rxd'[k] = rxd[k]
      /\ rxd'[RxNextDesc].data = data1 /\ rxd'[RxNextDesc].own = rxd[RxNextDesc].own
  BY <1>2 DEF RxTypeOK
<1>4. /\ RxNextDesc \notin RxInUse /\ RxNextDesc \notin RxOwned
      /\ RxInUse' = RxInUse \cup {RxNextDesc} /\ RxOwned' = RxOwned
      /\ RxInUse \subseteq Slot /\ RxOwned \subseteq Slot
  BY <1>1, <1>2, <1>3 DEF RxRing, RxInUse, RxOwned, Empty, OwnedByDma
<1>5. RxRing'
  BY <1>1, <1>2, <1>4, StretchAdd DEF RxRing, Stretch
<1>6. RxHand'
  BY <1>1, <1>2, <1>3, <1>4 DEF RxHand
<1>7. RxHas' = RxHas
  BY <1>1, <1>2, <1>3 DEF RxHas, Empty
<1>8. QED
  BY <1>5, <1>6, <1>7

\* The receiving thread gives a descriptor back to the DMA
LEMMA RxGiveInv ==
  ASSUME RxTypeOK, RxInv, RxGive PROVE RxInv' /\ RxHas' = RxHas
<1> USE DEF RxInv
<1>1. /\ rxpc = "give" /\ rxpc' = "unlock" /\ data1' = 0 /\ rxcur' = rxcur
      /\ RxNextDesc' = Succ(RxNextDesc) /\ RxBusyDesc' = RxBusyDesc
      /\ RxNext' = RxNextDesc' /\ RxBusy' = RxBusy
      /\ RxNextDesc \in Slot /\ RxBusyDesc \in Slot /\ rxcur \in Slot
      /\ rxd' = [rxd EXCEPT ![RxNextDesc].own = TRUE]
  BY DEF RxGive, RxTypeOK, RxRing, rxDma, Succ
<1>2. /\ \A k \in Slot : k # RxNextDesc => rxd'[k] = rxd[k]
      /\ \A k \in Slot : rxd'[k].data = rxd[k].data
      /\ rxd'[RxNextDesc].own
  BY <1>1 DEF RxTypeOK
<1>3. /\ RxNextDesc \in RxInUse /\ RxNextDesc \notin RxOwned
      /\ RxInUse' = RxInUse /\ RxOwned' = RxOwned \cup {RxNextDesc}
      /\ RxOwned \subseteq Slot /\ RxInUse \subseteq Slot
  BY <1>1, <1>2 DEF RxHand, RxInUse, RxOwned, Empty, OwnedByDma
<1>4. RxRing'
  BY <1>1, <1>3, StretchAdd DEF RxRing, Stretch
<1>5. RxHand'
  BY <1>1 DEF RxHand
<1>6. RxHas' = RxHas
  BY <1>1, <1>2 DEF RxHas, RxHand
<1>7. QED
  BY <1>4, <1>5, <1>6

\* The DMA receives a frame
LEMMA RxReceiveInv ==
  ASSUME RxTypeOK, RxInv, RxReceive PROVE RxInv' /\ RxHas' = RxHas
<1> USE DEF RxInv
<1>1. /\ rxpc' = rxpc /\ data1' = data1 /\ rxcur' = Succ(rxcur)
      /\ RxNextDesc' = RxNextDesc /\ RxBusyDesc' = RxBusyDesc
      /\ RxNext' = RxNext /\ RxBusy' = RxBusy
      /\ RxNextDesc \in Slot /\ RxBusyDesc \in Slot /\ rxcur \in Slot
      /\ rxd' = [rxd EXCEPT ![rxcur].own = FALSE]
  BY DEF RxReceive, RxTypeOK, rxThread
<1>2. /\ \A k \in Slot : k # rxcur => rxd'[k] = rxd[k]
      /\ \A k \in Slot : rxd'[k].data = rxd[k].data
      /\ ~rxd'[rxcur].own
  BY <1>1 DEF RxTypeOK
<1>3. /\ rxcur \in RxOwned
      /\ RxInUse' = RxInUse /\ RxOwned' = RxOwned \ {rxcur}
      /\ RxOwned \subseteq Slot /\ RxInUse \subseteq Slot
  BY <1>1, <1>2 DEF RxReceive, RxInUse, RxOwned, Empty, OwnedByDma
<1>4. RxRing'
  <2>1. Empty(rxd'[RxNextDesc']) <=> Empty(rxd[RxNextDesc])
    BY <1>1, <1>2 DEF Empty
  <2>2. QED
    BY <1>1, <1>3, <2>1, StretchRemove DEF RxRing, Stretch
<1>5. RxHand'
  BY <1>1, <1>2, <1>3 DEF RxHand
<1>6. RxHas' = RxHas
  BY <1>1, <1>2 DEF RxHas
<1>7. QED
  BY <1>4, <1>5, <1>6

\* No error happens where none may
LEMMA NoErrorsStep ==
  ASSUME Errors = 0, RxTypeOK, NoErrors, [Next]_vars PROVE NoErrors'
<1>1. CASE UNCHANGED <<errors, status>>
  BY <1>1 DEF NoErrors
<1>2. CASE (rt_eth_rx \/ RxDma) /\ UNCHANGED <<txVars, faults>>
  <2>1. status' = status \/ status' = [status EXCEPT !.rx = TRUE]
    BY <1>2 DEF rt_eth_rx, RxDma, RxWake, RxLock, RxNone, RxGet, RxCopy, RxCopyFails, RxSet,
       RxGive, RxUnlock, RxReceive, RxLose
  <2>2. QED
    BY <1>2, <2>1 DEF RxTypeOK, NoErrors, faults
<1>3. CASE BusError \/ TxStop
  BY <1>3 DEF RxTypeOK, NoErrors, BusError, TxStop
<1>4. CASE eth_rx_irq
  BY <1>4 DEF NoErrors, eth_rx_irq, NoStatus, faults
<1>5. QED
  BY <1>1, <1>2, <1>3, <1>4 DEF Next, vars, faults, rxVars

\* Every step keeps the invariant of the receive ring
LEMMA RxStepInv ==
  ASSUME RxTypeOK, RxBuffer, RxInv, NoErrors, Errors = 0, [Next]_vars
  PROVE  RxInv' /\ RxHas' = RxHas
<1>1. CASE UNCHANGED <<rxRing, rxcur, rxpc, data1>>
  BY <1>1, RxUntouched
<1>2. CASE rt_eth_rx
  BY <1>2, RxQuiet, RxGetInv, RxSetInv, RxGiveInv DEF rt_eth_rx
<1>3. CASE RxDma
  BY <1>1, <1>3, RxReceiveInv DEF RxDma, RxLose, rxThread
<1>4. CASE eth_rx_irq
  BY <1>1, <1>4 DEF eth_rx_irq, TakeTxRing, NoErrors, rxThread
<1>5. CASE BusError \/ TxStop
  BY <1>1, <1>5 DEF BusError, TxStop, rxThread, rxDma
<1>6. QED
  BY <1>1, <1>2, <1>3, <1>4, <1>5 DEF Next, vars, rxVars, rxThread, rxDma

\* The invariant of the receive ring holds of every run without errors
LEMMA RxInvariant ==
  ASSUME Errors = 0 PROVE Spec => [](RxTypeOK /\ RxBuffer /\ RxInv /\ NoErrors)
<1>1. Init => RxTypeOK /\ RxBuffer /\ RxInv /\ NoErrors
  BY RxTypeInit, RxRingInit
<1>2. RxTypeOK /\ RxBuffer /\ RxInv /\ NoErrors /\ [Next]_vars
        => (RxTypeOK /\ RxBuffer /\ RxInv /\ NoErrors)'
  BY RxTypeStep, RxStepInv, NoErrorsStep
<1>3. QED
  BY <1>1, <1>2, PTL DEF Spec
-----------------------------------------------------------------------------
\* rt_eth_rx, the place to refill and the DMA follow each other around a
\* receive ring of any size, however many buffers eth_init found memory for;
\* the branch of rt_eth_rx that frees its buffer for want of a descriptor is
\* never taken.
THEOREM RxRingCorrect ==
  ASSUME Errors = 0 PROVE Spec => []RxRing
<1>1. RxInv => RxRing
  BY DEF RxInv
<1>2. QED
  BY <1>1, RxInvariant, PTL

\* No step of the driver loses a receive buffer, nor makes one up.
THEOREM RxBuffersKept ==
  ASSUME Errors = 0 PROVE Spec => RxKeepsBuffers
<1>1. RxTypeOK /\ RxBuffer /\ RxInv /\ NoErrors /\ [Next]_vars => [RxHas' = RxHas]_vars
  BY RxStepInv
<1>2. QED
  BY <1>1, RxInvariant, PTL DEF Spec, RxKeepsBuffers
===============================================================================
