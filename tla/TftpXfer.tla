------------------------------ MODULE TftpXfer ------------------------------
(***************************************************************************)
(* What the two ends of a TFTP transfer share: the datagrams, the checks   *)
(* on them (tftp_xfer.c), the files as tftp_port.c gives access to them,   *)
(* and the network between the ends, which may lose, double, delay and     *)
(* reorder datagrams (external).                                           *)
(***************************************************************************)
EXTENDS Integers, Sequences, FiniteSets, Bags

CONSTANTS
  BlockMod,   \* the block counter is a uint16_t
  BlkSize,    \* units in a full block (xfer->blksize)
  MaxRetry,   \* TFTP_MAX_RETRY
  Late,       \* may a timeout come while datagrams are still under way?
  Faults      \* datagrams the network loses or doubles at most

ASSUME XferAssumption ==
  /\ BlockMod \in Nat \ {0, 1} /\ BlkSize \in Nat \ {0}
  /\ MaxRetry \in Nat \ {0} /\ Faults \in Nat
  /\ Late \in BOOLEAN

VARIABLES
  net,        \* the bag of datagrams under way
  faults      \* how many were lost or doubled so far

netvars == <<net, faults>>

\* A socket is its port: clients below 69, transfers above
Server == 69

Datagram(from, to, op, block, data) ==
  [from |-> from, to |-> to, op |-> op, block |-> block, data |-> data]

\* tftp_send_request always goes to port 69, the rest to the last sender
RequestPacket(me, op) == Datagram(me, Server, op, 0, <<>>)
DataPacket(me, sender, block, data) == Datagram(me, sender, "DATA", block, data)
AckPacket(me, sender, block) == Datagram(me, sender, "ACK", block, <<>>)
ErrorPacket(me, sender) == Datagram(me, sender, "ERROR", 0, <<>>)

Under == BagToSet(net)
Arrived(me) == {d \in Under : d.to = me}

\* One datagram is read (none if read is {}), some are sent; what is
\* addressed to a socket that is not open is dropped
Carry(read, sent, open) ==
  LET rest == net (-) SetToBag(read)
      all  == rest (+) SetToBag(sent)
  IN  net' = [d \in {e \in DOMAIN all : e.to \in open} |-> all[d]]

(* tftp_wait_ack, tftp_read_data: what counts as the expected datagram *)
AnyAck(d, block) == d.op = "ACK"
IsAck(d, block) == d.op = "ACK" /\ d.block = block
AnyData(d, block) == d.op = "DATA"
IsData(d, block) == d.op = "DATA" /\ d.block = (block + 1) % BlockMod
NextBlock(block) == (block + 1) % BlockMod

\* max_retry--, retry--
SameTries(n) == n
FewerTries(n) == n - 1

(* Files: a sequence of units, or none. A handle is a name and the offset  *)
(* of the file system, or Bad: open fails with -1, which is not NULL.      *)
NoFile == <<-1>>
Bad == [name |-> 0, off |-> 0]

OpenRead(name, file) == IF file = NoFile THEN Bad ELSE [name |-> name, off |-> 0]
OpenWrite(name) == [name |-> name, off |-> 0]

\* O_CREAT without O_TRUNC: an old content stays
Created(file) == IF file = NoFile THEN <<>> ELSE file

Block(file, off) ==
  [i \in 1..(IF off + BlkSize <= Len(file) THEN BlkSize
             ELSE IF off < Len(file) THEN Len(file) - off ELSE 0)
     |-> file[off + i]]

\* tftp_file_read and tftp_file_write are given a position and do not use
\* it: they go on where the handle stands
FileRead(fd, pos, file) == IF fd = Bad THEN <<>> ELSE Block(file, fd.off)

Overlay(file, off, data) ==
  [i \in 1..(IF off + Len(data) > Len(file) THEN off + Len(data) ELSE Len(file))
     |-> IF i > off /\ i <= off + Len(data) THEN data[i - off] ELSE file[i]]
FileWrite(fd, pos, file, data) == Overlay(file, fd.off, data)

Advance(fd, data) == IF fd = Bad THEN Bad ELSE [fd EXCEPT !.off = @ + Len(data)]

-----------------------------------------------------------------------------
(* The network *)
NetInit == net = EmptyBag /\ faults = 0

Fault(after) == faults < Faults /\ faults' = faults + 1 /\ net' = after

Lose == \E d \in Under : Fault(net (-) SetToBag({d}))
Double == \E d \in Under : Fault(net (+) SetToBag({d}))

\* select returns 0 after five seconds in which nothing came
Silent == Late \/ net = EmptyBag
=============================================================================
