------------------------------- MODULE GmacTx -------------------------------
(***************************************************************************)
(* Transmission: rt_eth_tx, which one thread of the network stack calls     *)
(* with a frame at a time, and the transmit DMA.  Frames are numbered in    *)
(* the order in which the stack hands them over; a frame's number also      *)
(* names the copy of it that plat_alloc_memory makes room for.              *)
(***************************************************************************)
EXTENDS GmacRing

CONSTANTS Frames,     \* bound: the frames the stack sends
          Window,     \* bound: the stack sends no frame while Window are in the ring
          TxFails     \* the frames plat_alloc_memory finds no memory for

ASSUME TxAssumption == Frames \in Nat /\ Window \in Nat /\ TxFails \subseteq Nat

VARIABLES
  txd,                     \* TxDesc[]
  TxNext, TxNextDesc,      \* the descriptor to fill next, as index and as pointer
  TxBusy, TxBusyDesc,      \* the descriptor to reclaim next, as index and as pointer
  BusyTxDesc,              \* the descriptors in use
  txpc, frame,             \* where rt_eth_tx is, and the frame of the current call
  heap,                    \* the frame copies allocated and not freed
  txcur, txdma,            \* the descriptor the DMA reads next; its state
  wire                     \* the frames sent

txRing   == <<txd, TxNext, TxNextDesc, TxBusy, TxBusyDesc, BusyTxDesc>>
txThread == <<txpc, frame, heap>>
txDma    == <<txcur, txdma, wire>>
txVars   == <<txRing, txThread, txDma>>

\* synopGMAC_setup_tx_desc_queue, synopGMAC_init_tx_desc_base and
\* synopGMAC_enable_dma_tx, in eth_init.
TxInit ==
  /\ txd = [k \in Slot |-> InitRing]
  /\ TxNext = 0 /\ TxNextDesc = 0 /\ TxBusy = 0 /\ TxBusyDesc = 0
  /\ BusyTxDesc = 0
  /\ txpc = "idle" /\ frame = 0 /\ heap = {}
  /\ txcur = 0 /\ txdma = "run" /\ wire = << >>

TxInUse == {k \in Slot : ~Empty(txd[k])}
TxOwned == {k \in Slot : OwnedByDma(txd[k])}

\* The stack calls rt_eth_tx.
Submit ==
  /\ txpc = "idle" /\ frame < Frames /\ Cardinality(TxInUse) < Window
  /\ txpc' = "lock" /\ frame' = frame + 1
  /\ UNCHANGED <<txRing, heap, txDma, sem_lock>>

TxLock ==
  /\ txpc = "lock" /\ sem_lock = 1
  /\ sem_lock' = 0 /\ txpc' = "check"
  /\ UNCHANGED <<txRing, frame, heap, txDma>>

\* A frame that finds its descriptor with the DMA is left out; the call goes
\* on all the same.
TxCheck ==
  /\ txpc = "check"
  /\ txpc' = IF OwnedByDma(txd[TxNextDesc]) THEN "resume" ELSE "alloc"
  /\ UNCHANGED <<txRing, frame, heap, txDma, sem_lock>>

TxAlloc ==
  /\ txpc = "alloc" /\ frame \notin TxFails
  /\ heap' = heap \cup {frame} /\ txpc' = "set"
  /\ UNCHANGED <<txRing, frame, txDma, sem_lock>>

\* "===error in alloc bf1": return -1, without releasing sem_lock.
TxAllocFails ==
  /\ txpc = "alloc" /\ frame \in TxFails
  /\ txpc' = "idle"
  /\ UNCHANGED <<txRing, frame, heap, txDma, sem_lock>>

\* Mutant: the copy is freed as soon as it is in the ring.
TxFillFrees ==
  /\ txpc = "set" /\ Empty(txd[TxNextDesc])
  /\ txd' = [txd EXCEPT ![TxNextDesc].data = frame]
  /\ BusyTxDesc' = BusyTxDesc + 1
  /\ heap' = heap \ {frame} /\ txpc' = "give"
  /\ UNCHANGED <<TxNext, TxNextDesc, TxBusy, TxBusyDesc, frame, txDma, sem_lock>>

\* synopGMAC_set_tx_qptr up to the OWN bit: the descriptor is filled.
TxFill ==
  /\ txpc = "set" /\ Empty(txd[TxNextDesc])
  /\ txd' = [txd EXCEPT ![TxNextDesc].data = frame]
  /\ BusyTxDesc' = BusyTxDesc + 1
  /\ txpc' = "give"
  /\ UNCHANGED <<TxNext, TxNextDesc, TxBusy, TxBusyDesc, frame, heap, txDma, sem_lock>>

\* Mutant: the copy of a frame that finds no descriptor is not freed.
TxFullLeaks ==
  /\ txpc = "set" /\ ~Empty(txd[TxNextDesc])
  /\ txpc' = "idle"
  /\ UNCHANGED <<txRing, frame, heap, txDma, sem_lock>>

\* "No More Free Tx Descriptors": return -16, without releasing sem_lock.
TxFull ==
  /\ txpc = "set" /\ ~Empty(txd[TxNextDesc])
  /\ heap' = heap \ {frame} /\ txpc' = "idle"
  /\ UNCHANGED <<txRing, frame, txDma, sem_lock>>

\* Mutant: the ring is taken to end one descriptor early.
TxGiveWrapsEarly ==
  /\ txpc = "give"
  /\ txd' = [txd EXCEPT ![TxNextDesc].own = TRUE]
  /\ TxNext' = (IF TxNextDesc >= N - 2 THEN 0 ELSE TxNext + 1)
  /\ TxNextDesc' = (IF TxNextDesc >= N - 2 THEN 0 ELSE TxNextDesc + 1)
  /\ txpc' = "resume"
  /\ UNCHANGED <<TxBusy, TxBusyDesc, BusyTxDesc, frame, heap, txDma, sem_lock>>

\* synopGMAC_set_tx_qptr from the OWN bit on: the DMA gets the descriptor.
TxGive ==
  /\ txpc = "give"
  /\ txd' = [txd EXCEPT ![TxNextDesc].own = TRUE]
  /\ TxNext' = (IF TxNextDesc = N - 1 THEN 0 ELSE TxNext + 1)
  /\ TxNextDesc' = Succ(TxNextDesc)
  /\ txpc' = "resume"
  /\ UNCHANGED <<TxBusy, TxBusyDesc, BusyTxDesc, frame, heap, txDma, sem_lock>>

\* Mutant: the DMA is not woken.
TxResumeNot ==
  /\ txpc = "resume" /\ txpc' = "reclaim"
  /\ UNCHANGED <<txRing, frame, heap, txDma, sem_lock>>

\* synopGMAC_resume_dma_tx: a suspended DMA looks at its descriptor again.
TxResume ==
  /\ txpc = "resume"
  /\ txdma' = (IF txdma = "suspended" THEN "run" ELSE txdma)
  /\ txpc' = "reclaim"
  /\ UNCHANGED <<txRing, frame, heap, txcur, wire, sem_lock>>

\* Mutant: the OWN bit is not looked at.
TxReclaimOwned ==
  /\ txpc = "reclaim" /\ ~Empty(txd[TxBusyDesc])
  /\ heap' = heap \ {txd[TxBusyDesc].data}
  /\ BusyTxDesc' = BusyTxDesc - 1
  /\ TxBusy' = (IF TxBusyDesc = N - 1 THEN 0 ELSE TxBusy + 1)
  /\ TxBusyDesc' = Succ(TxBusyDesc)
  /\ txd' = [txd EXCEPT ![TxBusyDesc] = InitRing]
  /\ UNCHANGED <<TxNext, TxNextDesc, txpc, frame, txDma, sem_lock>>

\* One round of the loop at the end of rt_eth_tx: synopGMAC_get_tx_qptr hands
\* back the oldest descriptor that the DMA has done with, its copy is freed.
TxReclaim ==
  /\ txpc = "reclaim"
  /\ ~OwnedByDma(txd[TxBusyDesc]) /\ ~Empty(txd[TxBusyDesc])
  /\ heap' = heap \ {txd[TxBusyDesc].data}
  /\ BusyTxDesc' = BusyTxDesc - 1
  /\ TxBusy' = (IF TxBusyDesc = N - 1 THEN 0 ELSE TxBusy + 1)
  /\ TxBusyDesc' = Succ(TxBusyDesc)
  /\ txd' = [txd EXCEPT ![TxBusyDesc] = InitRing]
  /\ UNCHANGED <<TxNext, TxNextDesc, txpc, frame, txDma, sem_lock>>

\* Mutant: the lock is not released.
TxUnlockNot ==
  /\ txpc = "reclaim"
  /\ OwnedByDma(txd[TxBusyDesc]) \/ Empty(txd[TxBusyDesc])
  /\ txpc' = "idle"
  /\ UNCHANGED <<txRing, frame, heap, txDma, sem_lock>>

\* No descriptor to reclaim: the lock is released and the call returns.
TxUnlock ==
  /\ txpc = "reclaim"
  /\ OwnedByDma(txd[TxBusyDesc]) \/ Empty(txd[TxBusyDesc])
  /\ sem_lock' = 1 /\ txpc' = "idle"
  /\ UNCHANGED <<txRing, frame, heap, txDma>>

rt_eth_tx ==
  \/ TxLock \/ TxCheck \/ TxAlloc \/ TxAllocFails \/ TxFill \/ TxFull
  \/ TxGive \/ TxResume \/ TxReclaim \/ TxUnlock
-----------------------------------------------------------------------------
\* The transmit DMA: it sends the frame of its descriptor if it owns it, and
\* waits for a poll demand otherwise.
TxSend ==
  /\ txdma = "run" /\ OwnedByDma(txd[txcur])
  /\ wire' = Append(wire, txd[txcur].data)
  /\ txd' = [txd EXCEPT ![txcur].own = FALSE]
  /\ txcur' = Succ(txcur)
  /\ UNCHANGED <<TxNext, TxNextDesc, TxBusy, TxBusyDesc, BusyTxDesc, txThread, txdma, sem_lock>>

TxSuspend ==
  /\ txdma = "run" /\ ~OwnedByDma(txd[txcur])
  /\ txdma' = "suspended"
  /\ UNCHANGED <<txRing, txThread, txcur, wire, sem_lock>>

TxDma == TxSend \/ TxSuspend
-----------------------------------------------------------------------------
\* Where rt_eth_tx holds the semaphore.
TxHolds == txpc \in {"check", "alloc", "set", "give", "resume", "reclaim"}

TxTypeOK ==
  /\ txd \in [Slot -> [own : BOOLEAN, data : 0 .. Frames]]
  /\ TxNext \in Nat /\ TxBusy \in Nat
  /\ TxNextDesc \in Slot /\ TxBusyDesc \in Slot /\ txcur \in Slot
  /\ BusyTxDesc \in Int
  /\ txpc \in {"idle", "lock", "check", "alloc", "set", "give", "resume", "reclaim"}
  /\ frame \in 0 .. Frames
  /\ heap \subseteq 1 .. Frames
  /\ txdma \in {"run", "suspended", "stopped"}
  /\ wire \in Seq(0 .. Frames)
  /\ sem_lock \in {0, 1}

\* The descriptors in use are those from TxBusyDesc to TxNextDesc (and the
\* one being filled), and those the DMA owns are the ones from its own place
\* to TxNextDesc: three parties walk the ring and none overtakes another,
\* however often it wraps.  The indices agree with the pointers.
TxRing ==
  /\ TxNext = TxNextDesc /\ TxBusy = TxBusyDesc
  /\ TxOwned \subseteq TxInUse
  /\ Stretch(TxInUse, TxBusyDesc, IF txpc = "give" THEN Succ(TxNextDesc) ELSE TxNextDesc)
  /\ Stretch(TxOwned, txcur, TxNextDesc)

\* The copies allocated are those of the frames in the ring and of the frame
\* in hand: none is leaked, freed twice or sent after it was freed.
TxCopies ==
  heap = {txd[k].data : k \in TxInUse} \cup (IF txpc = "set" THEN {frame} ELSE {})

\* The DMA never reads a copy that has been freed.
TxNoStale == \A k \in TxOwned : txd[k].data \in heap \cup {0}

\* The frames the DMA has still to send.
TxQueue == {txd[k].data : k \in TxOwned}
==============================================================================
