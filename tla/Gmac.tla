-------------------------------- MODULE Gmac --------------------------------
(***************************************************************************)
(* The Ethernet driver of ls2kdev_record: the transmitting and the receiving*)
(* thread, which share sem_lock, the two DMA engines, and eth_rx_irq, which *)
(* the driver runs from a one-tick hard timer: it preempts the threads      *)
(* anywhere and takes no lock.                                              *)
(***************************************************************************)
EXTENDS GmacTx, GmacRx

CONSTANTS Errors, Stops     \* bounds: the bus errors, the transmit stops

ASSUME GmacAssumption == Errors \in Nat /\ Stops \in Nat

VARIABLES errors, stops     \* the bus errors and the transmit stops so far

faults == <<errors, stops>>
vars == <<txVars, rxVars, sem_lock, faults>>

\* rt_hw_eth_init and eth_init.
Init == TxInit /\ RxInit /\ sem_lock = 1 /\ errors = 0 /\ stops = 0

\* A fatal bus error stops both DMA engines (external).
BusError ==
  /\ errors < Errors /\ ~status.error
  /\ errors' = errors + 1
  /\ status' = [status EXCEPT !.error = TRUE] /\ txdma' = "stopped"
  /\ UNCHANGED <<txRing, txThread, txcur, wire, rxRing, rxThread, rxDma, mail, sem_lock, stops>>

\* The transmit DMA stops, and says so (external).
TxStop ==
  /\ stops < Stops /\ txdma # "stopped"
  /\ stops' = stops + 1
  /\ status' = [status EXCEPT !.stopped = TRUE] /\ txdma' = "stopped"
  /\ UNCHANGED <<txRing, txThread, txcur, wire, rxRing, rxThread, rxDma, mail, sem_lock, errors>>

\* synopGMAC_init_tx_rx_desc_queue: the descriptors and the indices are
\* reset, TxNextDesc, TxBusyDesc, RxNextDesc and RxBusyDesc are not.
ResetRings ==
  /\ txd' = [k \in Slot |-> InitRing] /\ rxd' = [k \in Slot |-> InitRing]
  /\ TxNext' = 0 /\ TxBusy' = 0 /\ RxNext' = 0 /\ RxBusy' = 0
  /\ txcur' = 0 /\ rxcur' = 0 /\ txdma' = "run"
  /\ UNCHANGED <<TxNextDesc, TxBusyDesc, BusyTxDesc, RxNextDesc, RxBusyDesc, BusyRxDesc>>

\* Mutant: all frames in the ring are given to the DMA again.
TakeTxRingBack ==
  /\ txd' = [k \in Slot |-> [txd[k] EXCEPT !.own = ~Empty(txd[k])]]
  /\ txdma' = "run"
  /\ UNCHANGED <<TxNext, TxNextDesc, TxBusy, TxBusyDesc, BusyTxDesc, txcur, rxRing, rxcur>>

\* The rest of the handler when the transmitter has stopped: the frames in
\* the ring are taken from the DMA, which starts again where it was.
TakeTxRing ==
  /\ txd' = [k \in Slot |-> [txd[k] EXCEPT !.own = FALSE]]
  /\ txdma' = "run"
  /\ UNCHANGED <<TxNext, TxNextDesc, TxBusy, TxBusyDesc, BusyTxDesc, txcur, rxRing, rxcur>>

\* Mutant: the receiving thread is not told.
eth_rx_irq_mute ==
  /\ status # NoStatus
  /\ status' = NoStatus
  /\ \/ status.error /\ ResetRings
     \/ ~status.error /\ status.stopped /\ TakeTxRing
     \/ ~status.error /\ ~status.stopped
        /\ UNCHANGED <<txRing, txcur, txdma, rxRing, rxcur>>
  /\ UNCHANGED <<mail, txThread, wire, rxThread, mem, arrived, sem_lock, faults>>

eth_rx_irq ==
  /\ status # NoStatus
  /\ status' = NoStatus
  /\ \/ status.error /\ ResetRings
     \/ ~status.error /\ status.stopped /\ TakeTxRing
     \/ ~status.error /\ ~status.stopped
        /\ UNCHANGED <<txRing, txcur, txdma, rxRing, rxcur>>
  /\ mail' = (IF status.rx /\ mail < Mail THEN mail + 1 ELSE mail)
  /\ UNCHANGED <<txThread, wire, rxThread, mem, arrived, sem_lock, faults>>

Next ==
  \/ (Submit \/ rt_eth_tx \/ TxDma) /\ UNCHANGED <<rxVars, faults>>
  \/ (rt_eth_rx \/ RxDma) /\ UNCHANGED <<txVars, faults>>
  \/ BusError \/ TxStop \/ eth_rx_irq

Spec == Init /\ [][Next]_vars

\* Each thread runs on while it can, the DMA works while it runs, and the
\* timer fires every tick.  Nothing obliges the stack to send or the network
\* to deliver.
Fairness ==
  /\ WF_vars(rt_eth_tx /\ UNCHANGED <<rxVars, faults>>)
  /\ WF_vars(TxDma /\ UNCHANGED <<rxVars, faults>>)
  /\ WF_vars(rt_eth_rx /\ UNCHANGED <<txVars, faults>>)
  /\ WF_vars(eth_rx_irq)

FairSpec == Spec /\ Fairness
-----------------------------------------------------------------------------
TypeOK ==
  /\ TxTypeOK /\ RxTypeOK
  /\ errors \in 0 .. Errors /\ stops \in 0 .. Stops

\* The lock is taken exactly while one of the two entry points is under way:
\* no return path leaves it taken, and never are both inside.
LockHeld ==
  /\ ~(TxHolds /\ RxHolds)
  /\ sem_lock = 0 <=> TxHolds \/ RxHolds

\* Each ring is a queue of frames: what the DMA is given it sends in order,
\* what it has received the stack gets in order, nothing twice, nothing lost.
TxFifo == INSTANCE FrameFifo
  WITH Frame <- 1 .. Frames, Capacity <- N, queue <- TxQueue, out <- wire
RxFifo == INSTANCE FrameFifo
  WITH Frame <- 1 .. Arrivals, Capacity <- N + 1, queue <- RxQueue, out <- delivered

TxIsFifo == TxFifo!Spec
RxIsFifo == RxFifo!Spec

\* The receiver never loses a buffer.
RxKeepsBuffers == [][RxHas' = RxHas]_vars

\* Every call of rt_eth_tx returns, and every frame given to the DMA is sent.
TxReturns == (txpc # "idle") ~> (txpc = "idle")
TxDrains == TxFifo!Drains

\* The stack reads until rt_eth_rx has no frame for it, which is also what a
\* damaged frame looks like: each notice gets past one of them.  The notices
\* that are due, the one being followed included.
NoticesDue ==
  mail + (IF status.rx /\ mail < Mail THEN 1 ELSE 0)
       + (IF \/ rxpc \in {"lock", "get"}
             \/ rxpc = "copy" /\ mem[data1] \notin Damaged
             \/ rxpc \in {"set", "give", "unlock"} /\ pbuf # 0
            THEN 1 ELSE 0)

\* The damaged frames that are received and will be read before frame k.
InFront(k) == {d \in {mem[rxd[j].data] : j \in RxDone} \cap Damaged : d < k}

\* Every good frame the DMA has received reaches the stack, if no damaged one
\* has come before it or there are more notices due than damaged frames in
\* front of it.  (Otherwise it waits for the notice of a later frame.)
RxDrains ==
  \A k \in (1 .. Arrivals) \ Damaged :
    (/\ k \in RxQueue
     /\ (\A d \in Damaged : k < d) \/ Cardinality(InFront(k)) < NoticesDue)
      ~> (k \in {delivered[j] : j \in DOMAIN delivered})

\* No frame is sent twice.
WireOnce == \A j, k \in DOMAIN wire : j # k /\ wire[j] # 0 => wire[j] # wire[k]
==============================================================================
