------------------------------- MODULE GmacRx -------------------------------
(***************************************************************************)
(* Reception: rt_eth_rx, which the receiving thread of the network stack    *)
(* calls until it returns no frame, and the receive DMA.  Buffers are       *)
(* numbered 1 .. N; mem is what they hold.  Frames are numbered in the      *)
(* order in which they arrive.                                              *)
(***************************************************************************)
EXTENDS GmacRing

CONSTANTS Arrivals,   \* bound: the frames that arrive
          Damaged,    \* the frames that arrive with an error in their status
          RxFails,    \* the frames pbuf_alloc finds no memory for
          Filled,     \* how many buffers eth_init may find memory for
          Mail        \* the capacity of the receiving thread's mailbox

ASSUME RxAssumption ==
  /\ Arrivals \in Nat /\ Damaged \subseteq Nat /\ RxFails \subseteq Nat
  /\ Filled \subseteq 0 .. N /\ Mail \in Nat \ {0}

VARIABLES
  rxd,                     \* RxDesc[]
  RxNext, RxNextDesc,      \* the descriptor to refill next, as index and as pointer
  RxBusy, RxBusyDesc,      \* the descriptor to read next, as index and as pointer
  BusyRxDesc,              \* the descriptors in use
  rxpc, data1, pbuf,       \* where rt_eth_rx is, its buffer and its frame
  rxcur, mem,              \* the descriptor the DMA fills next; the buffers
  arrived,                 \* the frames that arrived so far
  delivered,               \* the frames the stack got
  mail,                    \* notices waiting in the receiving thread's mailbox
  status                   \* the DmaStatus bits eth_rx_irq looks at

rxRing   == <<rxd, RxNext, RxNextDesc, RxBusy, RxBusyDesc, BusyRxDesc>>
rxThread == <<rxpc, data1, pbuf, delivered>>
rxDma    == <<rxcur, mem, arrived>>
rxVars   == <<rxRing, rxThread, rxDma, mail, status>>

NoStatus == [rx |-> FALSE, error |-> FALSE, stopped |-> FALSE]

\* eth_init: synopGMAC_setup_rx_desc_queue, and one buffer after the other
\* given to the DMA until the ring is full or no memory is found.
RxInit ==
  /\ \E n \in Filled :
       /\ rxd = [k \in Slot |-> IF k < n THEN [own |-> TRUE, data |-> k + 1] ELSE InitRing]
       /\ RxNext = n % N /\ RxNextDesc = n % N /\ BusyRxDesc = n
  /\ RxBusy = 0 /\ RxBusyDesc = 0
  /\ rxpc = "wait" /\ data1 = 0 /\ pbuf = 0 /\ delivered = << >>
  /\ rxcur = 0 /\ mem = [b \in 1 .. N |-> 0] /\ arrived = 0
  /\ mail = 0 /\ status = NoStatus

\* The receiving thread waits for a notice (external).
RxWake ==
  /\ rxpc = "wait" /\ mail > 0
  /\ mail' = mail - 1 /\ rxpc' = "lock"
  /\ UNCHANGED <<rxRing, data1, pbuf, delivered, rxDma, status, sem_lock>>

RxLock ==
  /\ rxpc = "lock" /\ sem_lock = 1
  /\ sem_lock' = 0 /\ rxpc' = "get"
  /\ UNCHANGED <<rxRing, data1, pbuf, delivered, rxDma, mail, status>>

\* synopGMAC_get_rx_qptr: nothing received, or the oldest descriptor the DMA
\* is done with, which is cleared.
RxNone ==
  /\ rxpc = "get"
  /\ OwnedByDma(rxd[RxBusyDesc]) \/ Empty(rxd[RxBusyDesc])
  /\ pbuf' = 0 /\ rxpc' = "unlock"
  /\ UNCHANGED <<rxRing, data1, delivered, rxDma, mail, status, sem_lock>>

\* Mutant: the descriptor is not cleared.
RxGetKeeps ==
  /\ rxpc = "get"
  /\ ~OwnedByDma(rxd[RxBusyDesc]) /\ ~Empty(rxd[RxBusyDesc])
  /\ data1' = rxd[RxBusyDesc].data
  /\ RxBusy' = (IF RxBusyDesc = N - 1 THEN 0 ELSE RxBusy + 1)
  /\ RxBusyDesc' = Succ(RxBusyDesc)
  /\ BusyRxDesc' = BusyRxDesc - 1
  /\ rxpc' = "copy"
  /\ UNCHANGED <<rxd, RxNext, RxNextDesc, pbuf, delivered, rxDma, mail, status, sem_lock>>

RxGet ==
  /\ rxpc = "get"
  /\ ~OwnedByDma(rxd[RxBusyDesc]) /\ ~Empty(rxd[RxBusyDesc])
  /\ data1' = rxd[RxBusyDesc].data
  /\ rxd' = [rxd EXCEPT ![RxBusyDesc] = InitRing]
  /\ RxBusy' = (IF RxBusyDesc = N - 1 THEN 0 ELSE RxBusy + 1)
  /\ RxBusyDesc' = Succ(RxBusyDesc)
  /\ BusyRxDesc' = BusyRxDesc - 1
  /\ rxpc' = "copy"
  /\ UNCHANGED <<RxNext, RxNextDesc, pbuf, delivered, rxDma, mail, status, sem_lock>>

\* Mutant: the buffer of a damaged frame is forgotten.
RxCopyDrops ==
  /\ rxpc = "copy" /\ mem[data1] \notin RxFails \ Damaged
  /\ pbuf' = (IF mem[data1] \in Damaged THEN 0 ELSE mem[data1])
  /\ data1' = (IF mem[data1] \in Damaged THEN 0 ELSE data1)
  /\ rxpc' = (IF mem[data1] \in Damaged THEN "unlock" ELSE "set")
  /\ UNCHANGED <<rxRing, delivered, rxDma, mail, status, sem_lock>>

\* Mutant: the status of the frame is not looked at.
RxCopyAny ==
  /\ rxpc = "copy" /\ mem[data1] \notin RxFails \ Damaged
  /\ pbuf' = mem[data1] /\ rxpc' = "set"
  /\ UNCHANGED <<rxRing, data1, delivered, rxDma, mail, status, sem_lock>>

\* A good frame is copied to a pbuf, a damaged one is only counted.
RxCopy ==
  /\ rxpc = "copy" /\ mem[data1] \notin RxFails \ Damaged
  /\ pbuf' = (IF mem[data1] \in Damaged THEN 0 ELSE mem[data1])
  /\ rxpc' = "set"
  /\ UNCHANGED <<rxRing, data1, delivered, rxDma, mail, status, sem_lock>>

\* "===error in pbuf_alloc", and then the copy through the null pointer.
RxCopyFails ==
  /\ rxpc = "copy" /\ mem[data1] \in RxFails \ Damaged
  /\ rxpc' = "crashed"
  /\ UNCHANGED <<rxRing, data1, pbuf, delivered, rxDma, mail, status, sem_lock>>

\* synopGMAC_set_rx_qptr: the buffer goes back into the ring, or is freed
\* when the next descriptor is in use (which RxRing says it never is).
RxSet ==
  /\ rxpc = "set"
  /\ IF Empty(rxd[RxNextDesc])
     THEN /\ rxd' = [rxd EXCEPT ![RxNextDesc].data = data1]
          /\ rxpc' = "give" /\ UNCHANGED data1
     ELSE data1' = 0 /\ rxpc' = "unlock" /\ UNCHANGED rxd
  /\ UNCHANGED <<RxNext, RxNextDesc, RxBusy, RxBusyDesc, BusyRxDesc, pbuf,
                 delivered, rxDma, mail, status, sem_lock>>

RxGive ==
  /\ rxpc = "give"
  /\ rxd' = [rxd EXCEPT ![RxNextDesc].own = TRUE]
  /\ RxNext' = (IF RxNextDesc = N - 1 THEN 0 ELSE RxNext + 1)
  /\ RxNextDesc' = Succ(RxNextDesc)
  /\ BusyRxDesc' = BusyRxDesc + 1
  /\ data1' = 0 /\ rxpc' = "unlock"
  /\ UNCHANGED <<RxBusy, RxBusyDesc, pbuf, delivered, rxDma, mail, status, sem_lock>>

\* Mutant: a call without a frame leaves the lock taken.
RxUnlockSome ==
  /\ rxpc = "unlock"
  /\ sem_lock' = (IF pbuf = 0 THEN 0 ELSE 1) /\ pbuf' = 0
  /\ delivered' = (IF pbuf = 0 THEN delivered ELSE Append(delivered, pbuf))
  /\ rxpc' = (IF pbuf = 0 THEN "wait" ELSE "lock")
  /\ UNCHANGED <<rxRing, data1, rxDma, mail, status>>

\* rt_eth_rx returns; the thread hands the frame to the stack and calls
\* again, or waits for the next notice when there is none (external).
RxUnlock ==
  /\ rxpc = "unlock"
  /\ sem_lock' = 1 /\ pbuf' = 0
  /\ delivered' = (IF pbuf = 0 THEN delivered ELSE Append(delivered, pbuf))
  /\ rxpc' = (IF pbuf = 0 THEN "wait" ELSE "lock")
  /\ UNCHANGED <<rxRing, data1, rxDma, mail, status>>

rt_eth_rx ==
  \/ RxWake \/ RxLock \/ RxNone \/ RxGet \/ RxCopy \/ RxCopyFails
  \/ RxSet \/ RxGive \/ RxUnlock
-----------------------------------------------------------------------------
\* The receive DMA: a frame goes to the buffer of its descriptor if the DMA
\* owns it, and is lost otherwise.  (DmaIntRxNoBuffer is then raised; the
\* poll demand with which eth_rx_irq answers changes nothing the model
\* keeps, because the DMA reads its descriptor again at the next frame.)
RxReceive ==
  /\ ~status.error /\ arrived < Arrivals /\ OwnedByDma(rxd[rxcur])
  /\ arrived' = arrived + 1
  /\ mem' = [mem EXCEPT ![rxd[rxcur].data] = arrived + 1]
  /\ rxd' = [rxd EXCEPT ![rxcur].own = FALSE]
  /\ rxcur' = Succ(rxcur)
  /\ status' = [status EXCEPT !.rx = TRUE]
  /\ UNCHANGED <<RxNext, RxNextDesc, RxBusy, RxBusyDesc, BusyRxDesc, rxThread, mail, sem_lock>>

RxLose ==
  /\ ~status.error /\ arrived < Arrivals /\ ~OwnedByDma(rxd[rxcur])
  /\ arrived' = arrived + 1
  /\ UNCHANGED <<rxRing, rxThread, rxcur, mem, mail, status, sem_lock>>

RxDma == RxReceive \/ RxLose
-----------------------------------------------------------------------------
RxHolds == rxpc \in {"get", "copy", "set", "give", "unlock", "crashed"}

RxTypeOK ==
  /\ rxd \in [Slot -> [own : BOOLEAN, data : 0 .. N]]
  /\ RxNext \in Nat /\ RxBusy \in Nat
  /\ RxNextDesc \in Slot /\ RxBusyDesc \in Slot /\ rxcur \in Slot
  /\ BusyRxDesc \in Int
  /\ rxpc \in {"wait", "lock", "get", "copy", "set", "give", "unlock", "crashed"}
  /\ data1 \in 0 .. N /\ pbuf \in 0 .. Arrivals
  /\ mem \in [1 .. N -> 0 .. Arrivals]
  /\ arrived \in 0 .. Arrivals
  /\ delivered \in Seq(1 .. Arrivals)
  /\ mail \in 0 .. Mail
  /\ status \in [rx : BOOLEAN, error : BOOLEAN, stopped : BOOLEAN]

RxInUse == {k \in Slot : ~Empty(rxd[k])}
RxOwned == {k \in Slot : OwnedByDma(rxd[k])}

\* As TxRing: the receiver, the DMA and the place to refill follow each other
\* around the ring; the descriptor to refill is always empty when a buffer
\* is in hand.
RxRing ==
  /\ RxNext = RxNextDesc /\ RxBusy = RxBusyDesc
  /\ RxOwned \subseteq RxInUse
  /\ Stretch(RxInUse, RxBusyDesc, IF rxpc = "give" THEN Succ(RxNextDesc) ELSE RxNextDesc)
  /\ Stretch(RxOwned, rxcur, RxNextDesc)
  /\ rxpc = "set" => Empty(rxd[RxNextDesc])

\* The buffers the receiver has: those in the ring and the one in hand.
RxHas == ({rxd[k].data : k \in Slot} \cup {data1}) \ {0}

\* The descriptors received and not read yet; the one that rt_eth_rx is
\* refilling is not among them.
RxDone == (RxInUse \ RxOwned) \ (IF rxpc = "give" THEN {RxNextDesc} ELSE {})

\* The frame in the hands of rt_eth_rx, if any.
RxFrame ==
  IF rxpc \in {"copy", "crashed"} THEN {mem[data1]} ELSE {pbuf} \ {0}

\* The good frames that the DMA has received and the stack has not been given.
RxQueue == ({mem[rxd[k].data] : k \in RxDone} \cup RxFrame) \ Damaged
==============================================================================
