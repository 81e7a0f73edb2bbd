------------------------------ MODULE GmacRing ------------------------------
(***************************************************************************)
(* What the two descriptor rings of the Ethernet driver have in common      *)
(* (ls2kdev_record/drivers/net/synopGMAC.c and synopGMAC_Dev.c, ring mode,  *)
(* ENH_DESC without ENH_DESC_8W): the DmaDesc, the helpers on it, and the   *)
(* semaphore both entry points of the driver take.                          *)
(*                                                                          *)
(* A descriptor is the OWN bit of its status and its buffer.  The length,   *)
(* buffer1 and data1 of a descriptor are written and cleared together, so   *)
(* that data = 0 stands for the zero length synopGMAC_is_desc_empty tests;  *)
(* the end-of-ring bit is set on the last descriptor by every initialiser   *)
(* and kept by every other write, so Succ tests the index.                  *)
(***************************************************************************)
EXTENDS Integers, Sequences, FiniteSets

CONSTANT N      \* TRANSMIT_DESC_SIZE and RECEIVE_DESC_SIZE, 36 in the code

ASSUME RingAssumption == N \in Nat \ {0}

VARIABLE sem_lock   \* the value of the semaphore "eth_lock"

Slot == 0 .. N - 1

\* synopGMAC_tx_desc_init_ring and synopGMAC_rx_desc_init_ring.
InitRing == [own |-> FALSE, data |-> 0]

\* synopGMAC_is_desc_empty, synopGMAC_is_desc_owned_by_dma.
Empty(desc) == desc.data = 0
OwnedByDma(desc) == desc.own

\* Mutant: the ring has no end.
SuccOn(k) == k + 1

\* The next descriptor: the first one after the last, which is what
\* synopGMAC_is_last_tx_desc and synopGMAC_is_last_rx_desc decide.
Succ(k) == IF k = N - 1 THEN 0 ELSE k + 1

\* k lies on the way from a (included) to b (excluded) around the ring;
\* nothing lies between a and itself.
Between(a, b, k) == IF a <= b THEN a <= k /\ k < b ELSE a <= k \/ k < b

\* The set S of descriptors is the stretch of the ring from a to b; when a is
\* b it is all of the ring or nothing.
Stretch(S, a, b) ==
  \A k \in Slot : k \in S <=> IF a = b THEN a \in S ELSE Between(a, b, k)
==============================================================================
