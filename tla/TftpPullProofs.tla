---------------------------- MODULE TftpPullProofs ----------------------------
(***************************************************************************)
(* What a pull writes, for every number of clients, transfers, retries and *)
(* faults.  A server that gets no answer reads on and sends the next piece *)
(* of the file under the old number, and a client that asked twice is      *)
(* served twice.  That the pieces a client takes are in order all the same *)
(* depends on two things: an acknowledgement goes to the transfer whose    *)
(* block was taken, so that every other transfer stays at its first block  *)
(* for good; and a transfer only ever goes on in the file.                 *)
(***************************************************************************)
EXTENDS TftpProofs

(***************************************************************************)
(* The inductive invariant.                                                *)
(***************************************************************************)

\* The last unit a client has written
Seen(c) == IF client[c].size = 0 THEN 0 ELSE local[c][client[c].size]

Active(c) == client[c].pc # "done"

\* A block the client may take next comes behind what it has, and from the
\* transfer it took the last one from
Follows(c, p, b, off) ==
  Active(c) =>
    /\ b <= client[c].block + 1
    /\ b = client[c].block + 1 =>
         Seen(c) <= off /\ (client[c].pc = "acked" => p = client[c].sender)

\* A block under way is what the file has behind some offset, and its transfer
\* goes on behind it
Piece(d, off) ==
  /\ d.block >= 1 /\ (d.block - 1) * BlkSize <= off /\ off <= length[d.to]
  /\ d.data = Block(Source(d.to), off)
  /\ d.to \notin resent => off = (d.block - 1) * BlkSize
  /\ Follows(d.to, d.from, d.block, off)
  /\ \A i \in Busy : table[i].xfer = d.from => off + Len(d.data) <= table[i].fd.off

PullDatagram(d) ==
  /\ d.to \in Pullers /\ d.op = "DATA" => \E off \in 0 .. length[d.to] : Piece(d, off)
  /\ d.from \in Pullers /\ d.op = "ACK" /\ Active(d.from) =>
       LET me == client[d.from]
       IN  me.pc = "acked" /\ d.to = me.sender /\ d.block <= me.block

\* A client that pulls
PullClient(c) ==
  /\ local[c] \in Seq(Nat) /\ client[c].size <= Len(local[c])
  /\ \A i, j \in 1 .. client[c].size : i < j => local[c][i] < local[c][j]
  /\ c \notin resent => \A i \in 1 .. client[c].size : local[c][i] = i
  /\ client[c].pc = "acked" =>
       client[c].block >= 1 /\ (c \notin resent => client[c].size = client[c].block * BlkSize)
  /\ client[c].complete /\ c \notin resent => client[c].size = length[c]

\* A transfer that reads
Serves(t) ==
  Active(t.sender) =>
    LET me == client[t.sender]
    IN  /\ t.block <= me.block + 1
        /\ me.pc = "acked" => IF t.xfer = me.sender THEN Seen(t.sender) <= t.fd.off ELSE t.block = 1

PullEntry(t) ==
  t.w_r = "read" =>
    /\ t.sender \in Pullers /\ t.block >= 1
    /\ (t.block - 1) * BlkSize + t.last_read <= t.fd.off /\ t.fd.off <= length[t.sender]
    /\ t.sender \notin resent => t.fd.off = (t.block - 1) * BlkSize + t.last_read
    /\ Serves(t)

PullInv ==
  /\ DOMAIN local = Clients
  /\ \A c \in Pullers : disk[c] = Source(c) /\ PullClient(c)
  /\ \A d \in Under : PullDatagram(d)
  /\ \A i \in Busy : PullEntry(table[i])

(***************************************************************************)
(* Numbers and pieces.                                                     *)
(***************************************************************************)

\* Pullers are clients, with a file of some length, and no pushers
LEMMA PullerIs ==
  ASSUME TftpInv, NEW c \in Pullers
  PROVE  /\ c \in Clients /\ c \notin Pushers /\ length[c] \in Nat
         /\ length[c] \in Lengths
BY ClientAssumption DEF Pullers, Pushers, TftpInv, Kept

\* Where blocks begin
LEMMA BlockBegins ==
  /\ BlkSize \in Nat /\ BlkSize > 0
  /\ \A b \in Nat : b * BlkSize \in Nat
  /\ \A b \in Nat : b >= 1 => b - 1 \in Nat /\ b * BlkSize = (b - 1) * BlkSize + BlkSize
<1>1. BlkSize \in Nat /\ BlkSize > 0
  BY XferAssumption
<1>2. ASSUME NEW b \in Nat PROVE b * BlkSize \in Nat
  BY <1>1
<1>3. ASSUME NEW b \in Nat, b >= 1
      PROVE  b - 1 \in Nat /\ b * BlkSize = (b - 1) * BlkSize + BlkSize
  <2>1. PICK a \in Nat : b = a + 1
    <3>1. b - 1 \in Nat /\ b = (b - 1) + 1
      BY <1>3
    <3>2. QED
      BY <3>1
  <2>2. (a + 1) * BlkSize = a * BlkSize + BlkSize
    BY <1>1
  <2>3. QED
    BY <2>1, <2>2
<1>4. QED
  BY <1>1, <1>2, <1>3

\* What a piece of the file holds
LEMMA PieceHolds ==
  ASSUME TftpInv, NEW c \in Pullers, NEW off \in Nat, off <= length[c],
         NEW data, data = Block(Source(c), off), NEW n, n = Len(data)
  PROVE  /\ n \in 0 .. BlkSize /\ off + n <= length[c] /\ data \in Seq(Nat)
         /\ n < BlkSize => off + n = length[c]
         /\ \A i \in 1 .. n : data[i] = off + i
<1>1. Source(c) \in Seq(Nat) /\ Len(Source(c)) = length[c] /\ length[c] \in Nat
  BY PullerIs, SourceFile
<1>2. /\ data \in Seq(Nat) /\ n \in 0 .. BlkSize
      /\ n = IF off + BlkSize <= length[c] THEN BlkSize
             ELSE IF off < length[c] THEN length[c] - off ELSE 0
      /\ \A i \in 1 .. n : data[i] = Source(c)[off + i]
  BY <1>1, BlockFile
<1>3. BlkSize \in Nat /\ BlkSize > 0
  BY XferAssumption
<1>4. PICK l \in Nat : l = length[c]
  BY <1>1
<1>5. n = IF off + BlkSize <= l THEN BlkSize ELSE IF off < l THEN l - off ELSE 0
  BY <1>2, <1>4
<1>6. off + n <= l /\ (n < BlkSize => off + n = l) /\ n \in Nat
  BY <1>3, <1>4, <1>5
<1>7. ASSUME NEW i \in 1 .. n PROVE data[i] = off + i
  <2>1. off + i \in 1 .. l
    BY <1>6
  <2>2. Source(c)[off + i] = off + i
    BY <1>4, <2>1 DEF Source
  <2>3. QED
    BY <1>2, <2>2
<1>8. QED
  BY <1>2, <1>4, <1>6, <1>7

\* What a client that pulls is like before it has taken a block, and after
LEMMA PullerState ==
  ASSUME TftpInv, Short, PullInv, NEW c \in Pullers
  PROVE  /\ client[c].size \in Nat /\ client[c].block \in 0 .. BlockMod - 1
         /\ client[c].block \in Nat /\ client[c].sender \in Ports
         /\ client[c].pc \in {"request", "answer", "acked", "done"}
         /\ client[c].pc \in {"request", "answer"} => client[c].block = 0 /\ client[c].size = 0
         /\ client[c].pc = "acked" => client[c].block >= 1
         /\ client[c].pc # "done" => client[c].complete = FALSE
         /\ PullClient(c) /\ disk[c] = Source(c)
<1>1. c \in Clients /\ c \notin Pushers
  BY PullerIs
<1>2. GoodClient(c, client[c]) /\ PushClient(c, client[c])
  BY <1>1, ClientAsIs
<1>3. PullClient(c) /\ disk[c] = Source(c)
  BY DEF PullInv
<1>4. BlockMod \in Nat
  BY XferAssumption
<1>5. QED
  BY <1>1, <1>2, <1>3, <1>4 DEF GoodClient, PushClient, PullClient

(***************************************************************************)
(* A step of a client.                                                     *)
(***************************************************************************)

\* What a puller has taken, and where it waits, stays; it may ask again, or end
Same(c) ==
  /\ local'[c] = local[c] /\ client'[c].size = client[c].size
  /\ client'[c].complete = client[c].complete
  /\ \/ client'[c].pc = "done"
     \/ /\ client'[c].pc # "done" /\ client[c].pc # "done"
        /\ client'[c].block = client[c].block /\ client'[c].sender = client[c].sender
        /\ client'[c].pc = "acked" <=> client[c].pc = "acked"

\* A step in which no puller takes a block and no entry moves
LEMMA SamePulls ==
  ASSUME TftpInv, PullInv, UNCHANGED <<op, length, table, disk, resent>>,
         DOMAIN local' = DOMAIN local,
         \A c \in Pullers : Same(c), \A d \in Under' : PullDatagram(d)
  PROVE  PullInv'
<1>1. /\ Pullers' = Pullers /\ Busy' = Busy /\ resent' = resent /\ table' = table
      /\ length' = length /\ disk' = disk /\ \A c : Source(c)' = Source(c)
  BY DEF Pullers, Busy, Source
<1>2. ASSUME NEW c \in Pullers, Active(c)'
      PROVE  /\ Active(c) /\ Seen(c)' = Seen(c)
             /\ client'[c].block = client[c].block /\ client'[c].sender = client[c].sender
             /\ client'[c].pc = "acked" <=> client[c].pc = "acked"
  BY <1>2 DEF Same, Active, Seen
<1>3. ASSUME NEW c \in Pullers PROVE (disk[c] = Source(c) /\ PullClient(c))'
  <2>1. PullClient(c) /\ disk[c] = Source(c) /\ Same(c)
    BY DEF PullInv
  <2>2. client'[c].pc = "acked" =>
          client[c].pc = "acked" /\ client'[c].block = client[c].block
    BY <2>1 DEF Same
  <2>3. QED
    BY <1>1, <2>1, <2>2 DEF PullClient, Same
<1>4. ASSUME NEW d \in Under' PROVE PullDatagram(d)'
  <2>1. PullDatagram(d)
    OBVIOUS
  <2>2. ASSUME d.to \in Pullers, d.op = "DATA" PROVE \E off \in 0 .. length'[d.to] : Piece(d, off)'
    <3>1. PICK off \in 0 .. length[d.to] : Piece(d, off)
      BY <2>1, <2>2 DEF PullDatagram
    <3>2. Follows(d.to, d.from, d.block, off)'
      BY <1>2, <2>2, <3>1 DEF Piece, Follows
    <3>3. Piece(d, off)'
      BY <1>1, <3>1, <3>2 DEF Piece
    <3>4. QED
      BY <1>1, <3>3
  <2>3. ASSUME d.from \in Pullers, d.op = "ACK", Active(d.from)'
        PROVE  /\ client'[d.from].pc = "acked" /\ d.to = client'[d.from].sender
               /\ d.block <= client'[d.from].block
    BY <1>2, <2>1, <2>3 DEF PullDatagram
  <2>4. QED
    BY <1>1, <2>2, <2>3 DEF PullDatagram
<1>5. ASSUME NEW i \in Busy' PROVE PullEntry(table[i])'
  <2>1. PICK t : t = table[i]
    OBVIOUS
  <2>2. PullEntry(t) /\ t = table'[i]
    BY <1>1, <2>1 DEF PullInv
  <2>3. t.sender \in Pullers /\ Serves(t) => Serves(t)'
    BY <1>2 DEF Serves
  <2>4. PullEntry(t)'
    BY <1>1, <2>2, <2>3 DEF PullEntry
  <2>5. QED
    BY <2>2, <2>4 DEF PullEntry, Serves
<1>6. QED
  BY <1>1, <1>3, <1>4, <1>5 DEF PullInv

\* A datagram that is no block for a puller and no acknowledgement of one
Plain(d) == ~(d.to \in Pullers /\ d.op = "DATA") /\ ~(d.from \in Pullers /\ d.op = "ACK")

\* Such a datagram says nothing that could be wrong about a pull
LEMMA PlainPulls == \A d : Plain(d) => PullDatagram(d)
BY DEF Plain, PullDatagram

\* A puller takes a block: what it has goes on in order, and from now on only
\* the transfer of this block may send the next one
LEMMA TakesBlock ==
  ASSUME TftpInv, Short, PullInv, NEW c \in Pullers, client[c].pc \in {"answer", "acked"},
         NEW d \in Arrived(c), IsData(d, client[c].block),
         local' = [local EXCEPT ![c] = Overlay(@, client[c].size, d.data)],
         NEW you, client' = [client EXCEPT ![c] = you],
         you.size = client[c].size + Len(d.data), you.block = d.block, you.sender = d.from,
         IF Len(d.data) < BlkSize THEN you.pc = "done" ELSE you.pc = "acked" /\ ~you.complete,
         UNCHANGED <<op, length, table, disk, resent>>,
         \A x \in Under' : x \in Under \/ x = AckPacket(c, d.from, d.block)
  PROVE  PullInv'
<1> DEFINE z == client[c].size
           b == client[c].block
           n == Len(d.data)
           old == local[c]
           new == Overlay(old, z, d.data)
<1>1. /\ z \in Nat /\ b \in 0 .. BlockMod - 1 /\ b \in Nat /\ client[c].complete = FALSE
      /\ client[c].pc = "answer" => b = 0 /\ z = 0
      /\ client[c].pc = "acked" => b >= 1
      /\ old \in Seq(Nat) /\ z <= Len(old)
      /\ \A i, j \in 1 .. z : i < j => old[i] < old[j]
      /\ c \notin resent => \A i \in 1 .. z : old[i] = i
      /\ client[c].pc = "acked" /\ c \notin resent => z = b * BlkSize
      /\ Active(c) /\ c \in Clients /\ DOMAIN client = Clients /\ DOMAIN local = Clients
  BY PullerState, PullerIs DEF PullClient, Active, TftpInv, Kept, PullInv
<1>2. /\ d \in Under /\ d.to = c /\ d.op = "DATA" /\ d.block = (b + 1) % BlockMod
      /\ d.block \in 0 .. BlockMod - 1 /\ d.from \in Ports
  BY FromServer, <1>1 DEF IsData
<1>3. PICK off \in 0 .. length[c] : Piece(d, off)
  BY <1>2 DEF PullInv, PullDatagram
<1>4. /\ d.block >= 1 /\ (d.block - 1) * BlkSize <= off /\ off <= length[c]
      /\ d.data = Block(Source(c), off) /\ Follows(c, d.from, d.block, off)
      /\ c \notin resent => off = (d.block - 1) * BlkSize
      /\ \A i \in Busy : table[i].xfer = d.from => off + n <= table[i].fd.off
      /\ off \in Nat
  BY <1>2, <1>3, PullerIs DEF Piece
<1>5. d.block = b + 1 /\ d.block - 1 = b
  <2>1. BlockMod \in Nat /\ BlockMod > 1
    BY XferAssumption
  <2>2. b + 1 < BlockMod => d.block = b + 1
    BY <1>1, <1>2, Numbers
  <2>3. b + 1 = BlockMod => d.block = 0
    BY <1>1, <1>2, <2>1
  <2>4. d.block >= 1 /\ b \in Nat /\ b \in 0 .. BlockMod - 1
    BY <1>1, <1>4
  <2> HIDE DEF b
  <2>5. b + 1 < BlockMod \/ b + 1 = BlockMod
    BY <2>1, <2>4
  <2>6. d.block = b + 1
    BY <2>2, <2>3, <2>4, <2>5
  <2>7. QED
    BY <2>4, <2>6
<1>6. Seen(c) <= off /\ (client[c].pc = "acked" => d.from = client[c].sender)
  BY <1>1, <1>4, <1>5 DEF Follows
<1>7. /\ n \in 0 .. BlkSize /\ n \in Nat /\ off + n <= length[c] /\ d.data \in Seq(Nat)
      /\ n < BlkSize => off + n = length[c]
      /\ \A i \in 1 .. n : d.data[i] = off + i
  BY <1>4, PieceHolds, XferAssumption
<1>8. c \notin resent => off = z
  <2>1. 0 * BlkSize = 0
    BY XferAssumption
  <2>2. QED
    BY <1>1, <1>4, <1>5, <2>1
<1>9. /\ new \in Seq(Nat) /\ Len(new) \in Nat /\ z + n <= Len(new)
      /\ \A i \in 1 .. z : new[i] = old[i]
      /\ \A i \in 1 .. n : new[z + i] = off + i
  <2>1. z \in 0 .. Len(old) /\ Len(old) \in Nat
    BY <1>1, LenProperties
  <2>2. /\ new \in Seq(Nat)
        /\ Len(new) = IF z + n > Len(old) THEN z + n ELSE Len(old)
        /\ \A i \in 1 .. Len(new) :
             new[i] = IF i > z /\ i <= z + n THEN d.data[i - z] ELSE old[i]
    BY <1>1, <1>7, <2>1, OverlayFile
  <2> HIDE DEF new, z, n, old
  <2>3. Len(new) \in Nat /\ z + n <= Len(new) /\ z <= Len(new)
    BY <1>1, <1>7, <2>1, <2>2
  <2>4. ASSUME NEW i \in 1 .. z PROVE new[i] = old[i]
    <3>1. i \in 1 .. Len(new) /\ ~(i > z)
      BY <1>1, <2>3
    <3>2. QED
      BY <2>2, <3>1
  <2>5. ASSUME NEW i \in 1 .. n PROVE new[z + i] = off + i
    <3>1. z + i \in 1 .. Len(new) /\ z + i > z /\ z + i <= z + n /\ (z + i) - z = i
      BY <1>1, <1>7, <2>3
    <3>2. new[z + i] = d.data[i]
      BY <2>2, <3>1
    <3>3. QED
      BY <1>7, <3>2
  <2>6. QED
    BY <2>2, <2>3, <2>4, <2>5
<1>10. /\ client'[c] = you /\ \A x \in Clients \ {c} : client'[x] = client[x]
       /\ local'[c] = new /\ \A x \in Clients \ {c} : local'[x] = local[x]
       /\ DOMAIN local' = Clients
  BY <1>1
<1> HIDE DEF new, old, z, n, b
<1>11. /\ Pullers' = Pullers /\ Busy' = Busy /\ resent' = resent /\ table' = table
       /\ length' = length /\ disk' = disk /\ \A x : Source(x)' = Source(x)
       /\ Pullers \subseteq Clients
  BY DEF Pullers, Busy, Source
<1>12. /\ you.size = z + n /\ you.block = b + 1 /\ you.sender = d.from
       /\ z + n \in Nat /\ z + n <= Len(new)
       /\ n < BlkSize => you.pc = "done"
       /\ you.pc # "done" => n = BlkSize /\ n >= 1 /\ you.pc = "acked"
  <2>1. you.size = z + n /\ you.block = b + 1 /\ you.sender = d.from
    BY <1>5 DEF z, n, b
  <2>2. z + n \in Nat /\ z + n <= Len(new)
    BY <1>1, <1>7, <1>9
  <2>3. IF n < BlkSize THEN you.pc = "done" ELSE you.pc = "acked"
    BY DEF n
  <2>4. ~(n < BlkSize) => n = BlkSize /\ n >= 1
    BY <1>7, XferAssumption
  <2>5. QED
    BY <2>1, <2>2, <2>3, <2>4
<1>13. \A i \in 1 .. z : old[i] <= off /\ old[i] \in Nat
  <2> SUFFICES ASSUME NEW i \in 1 .. z PROVE old[i] <= off /\ old[i] \in Nat
    OBVIOUS
  <2>1. z \in 1 .. Len(old) /\ i \in 1 .. Len(old) /\ z \in 1 .. z
    BY <1>1, LenProperties
  <2>2. old[i] \in Nat /\ old[z] \in Nat
    BY <1>1, <2>1, ElementOfSeq
  <2>3. old[z] <= off
    BY <1>1, <1>6, <2>1 DEF Seen, old, z
  <2>4. i = z \/ old[i] < old[z]
    BY <1>1, <2>1
  <2>5. QED
    BY <1>4, <2>2, <2>3, <2>4
<1>14. \A k \in 1 .. z + n : k \in 1 .. z \/ (k - z \in 1 .. n /\ k = z + (k - z))
  BY <1>1, <1>7
<1>15. ASSUME NEW i \in 1 .. z + n, NEW j \in 1 .. z + n, i < j PROVE new[i] < new[j]
  <2>1. CASE j \in 1 .. z
    <3>1. i \in 1 .. z
      BY <1>1, <1>15, <2>1
    <3>2. QED
      BY <1>1, <1>9, <1>15, <2>1, <3>1
  <2>2. CASE j \notin 1 .. z
    <3>1. j - z \in 1 .. n /\ new[j] = off + (j - z)
      BY <1>9, <1>14, <2>2
    <3>2. CASE i \in 1 .. z
      <4>1. new[i] = old[i] /\ old[i] <= off /\ old[i] \in Nat
        BY <1>9, <1>13, <3>2
      <4>2. j - z >= 1 /\ j - z \in Nat
        BY <1>7, <3>1
      <4>3. off \in Nat
        BY <1>4
      <4>4. old[i] < off + (j - z)
        BY <4>1, <4>2, <4>3
      <4>5. QED
        BY <3>1, <4>1, <4>4
    <3>3. CASE i \notin 1 .. z
      <4>1. i - z \in 1 .. n /\ new[i] = off + (i - z)
        BY <1>9, <1>14, <3>3
      <4>2. i - z < j - z
        BY <1>1, <1>15
      <4>3. QED
        BY <1>4, <3>1, <4>1, <4>2
    <3>4. QED
      BY <3>2, <3>3
  <2>3. QED
    BY <2>1, <2>2
<1>16. ASSUME c \notin resent, NEW i \in 1 .. z + n PROVE new[i] = i
  <2>1. CASE i \in 1 .. z
    BY <1>1, <1>9, <1>16, <2>1
  <2>2. CASE i \notin 1 .. z
    <3>1. i - z \in 1 .. n /\ new[z + (i - z)] = off + (i - z) /\ i = z + (i - z)
      BY <1>9, <1>14, <2>2
    <3>2. QED
      BY <1>8, <1>16, <3>1
  <2>3. QED
    BY <2>1, <2>2
<1>17. c \notin resent => /\ you.pc = "acked" => z + n = (b + 1) * BlkSize
                          /\ you.pc = "done" => z + n = length[c]
  <2> SUFFICES ASSUME c \notin resent PROVE /\ you.pc = "acked" => z + n = (b + 1) * BlkSize
                                            /\ you.pc = "done" => z + n = length[c]
    OBVIOUS
  <2>1. b * BlkSize = z
    BY <1>4, <1>5, <1>8
  <2>2. (b + 1) * BlkSize = b * BlkSize + BlkSize
    BY <1>1, XferAssumption
  <2>3. you.pc = "done" => n < BlkSize
    BY DEF n
  <2>4. you.pc = "acked" => n = BlkSize
    BY <1>12
  <2>5. QED
    BY <1>7, <1>8, <2>1, <2>2, <2>3, <2>4
<1>18. ASSUME NEW x \in Pullers PROVE (disk[x] = Source(x) /\ PullClient(x))'
  <2>1. (disk[x] = Source(x))' /\ PullClient(x)
    BY <1>11 DEF PullInv
  <2>2. CASE x # c
    <3>1. client'[x] = client[x] /\ local'[x] = local[x]
      BY <1>10, <1>11, <2>2
    <3>2. QED
      BY <1>11, <2>1, <3>1 DEF PullClient
  <2>3. CASE x = c
    <3>1. /\ local'[c] \in Seq(Nat) /\ client'[c].size <= Len(local'[c])
          /\ client'[c].size = z + n /\ client'[c].block = b + 1
      BY <1>9, <1>10, <1>12
    <3>2. /\ \A i, j \in 1 .. z + n : i < j => local'[c][i] < local'[c][j]
          /\ c \notin resent => \A i \in 1 .. z + n : local'[c][i] = i
      BY <1>10, <1>15, <1>16
    <3>3. b + 1 >= 1 /\ (client'[c].complete => you.pc = "done")
      BY <1>1, <1>10
    <3>4. QED
      BY <1>10, <1>11, <1>17, <2>1, <2>3, <3>1, <3>2, <3>3 DEF PullClient
  <2>4. QED
    BY <2>2, <2>3
<1>19. Active(c)' => Seen(c)' = off + n /\ you.pc = "acked"
  <2> SUFFICES ASSUME Active(c)' PROVE Seen(c)' = off + n /\ you.pc = "acked"
    OBVIOUS
  <2>1. you.pc = "acked" /\ n >= 1
    BY <1>10, <1>12 DEF Active
  <2>2. z + n # 0 /\ n \in 1 .. n
    BY <1>1, <1>7, <2>1
  <2>3. new[z + n] = off + n
    BY <1>9, <2>2
  <2>4. QED
    BY <1>10, <1>12, <2>1, <2>2, <2>3 DEF Seen
<1>20. \A x \in Pullers \ {c} : /\ Active(x)' = Active(x) /\ Seen(x)' = Seen(x)
                                /\ client'[x] = client[x]
  BY <1>10, <1>11 DEF Active, Seen
<1>21. ASSUME NEW x \in Under', x.to \in Pullers, x.op = "DATA"
       PROVE  \E o \in 0 .. length[x.to] : Piece(x, o)'
  <2>1. x \in Under
    BY <1>21 DEF AckPacket, Datagram
  <2>2. PICK o \in 0 .. length[x.to] : Piece(x, o)
    BY <1>21, <2>1 DEF PullInv, PullDatagram
  <2>3. Follows(x.to, x.from, x.block, o)'
    <3>1. CASE x.to # c
      BY <1>20, <1>21, <2>2, <3>1 DEF Piece, Follows
    <3>2. CASE x.to = c
      <4>1. x.block <= b + 1 /\ x.block \in 0 .. BlockMod - 1
        BY <1>1, <2>1, <2>2, <3>2 DEF Piece, Follows, b, TftpInv, Goods, GoodDatagram
      <4>2. x.block \in Nat
        BY <4>1, XferAssumption
      <4>3. x.block <= (b + 1) + 1 /\ x.block # (b + 1) + 1
        BY <1>1, <4>1, <4>2
      <4>4. client'[x.to].block = b + 1
        BY <1>10, <1>12, <3>2
      <4>5. QED
        BY <4>3, <4>4 DEF Follows
    <3>3. QED
      BY <3>1, <3>2
  <2>4. QED
    BY <1>11, <2>2, <2>3 DEF Piece
<1>22. ASSUME NEW x \in Under', x.from \in Pullers, x.op = "ACK", Active(x.from)'
       PROVE  /\ client'[x.from].pc = "acked" /\ x.to = client'[x.from].sender
              /\ x.block <= client'[x.from].block
  <2>1. CASE x = AckPacket(c, d.from, d.block)
    <3>1. x.from = c /\ x.to = d.from /\ x.block = b + 1
      BY <1>5, <2>1 DEF AckPacket, Datagram, b
    <3>2. QED
      BY <1>1, <1>10, <1>12, <1>19, <1>22, <3>1
  <2>2. CASE x \in Under /\ x.from # c
    BY <1>20, <1>22, <2>2 DEF PullInv, PullDatagram
  <2>3. CASE x \in Under /\ x.from = c
    <3>1. /\ client[c].pc = "acked" /\ x.to = client[c].sender /\ x.block <= b
          /\ x.block \in 0 .. BlockMod - 1
      BY <1>1, <1>22, <2>3 DEF PullInv, PullDatagram, b, TftpInv, Goods, GoodDatagram
    <3>2. x.block <= b + 1
      BY <1>1, <3>1, XferAssumption
    <3>3. QED
      BY <1>6, <1>10, <1>12, <1>19, <1>22, <2>3, <3>1, <3>2
  <2>4. QED
    BY <2>1, <2>2, <2>3
<1>23. ASSUME NEW i \in Busy PROVE PullEntry(table[i])'
  <2>1. PICK t : t = table[i]
    OBVIOUS
  <2>2. PullEntry(t) /\ t = table'[i] /\ Shape(t)
    BY <1>11, <2>1, EntryOwns DEF PullInv
  <2>3. ASSUME t.w_r = "read" PROVE Serves(t)'
    <3>1. t.sender \in Pullers /\ t.block >= 1 /\ Serves(t) /\ t.block \in Nat
      BY <2>2, <2>3, XferAssumption DEF PullEntry, Shape
    <3>2. CASE t.sender # c
      BY <1>20, <3>1, <3>2 DEF Serves
    <3>3. CASE t.sender = c /\ Active(c)'
      <4>1. /\ t.block <= b + 1
            /\ client[c].pc = "acked" =>
                 IF t.xfer = client[c].sender THEN Seen(c) <= t.fd.off ELSE t.block = 1
        BY <1>1, <3>1, <3>3 DEF Serves, b
      <4>2. t.block <= (b + 1) + 1
        BY <1>1, <3>1, <4>1
      <4>3. t.xfer = d.from => off + n <= t.fd.off
        BY <1>4, <2>1 DEF n
      <4>4. t.xfer # d.from => t.block = 1
        <5>1. client[c].pc = "answer" => t.block = 1
          BY <1>1, <3>1, <4>1
        <5>2. QED
          BY <1>6, <4>1, <5>1
      <4>5. client'[c].block = b + 1 /\ client'[c].sender = d.from
        BY <1>10, <1>12
      <4>6. QED
        BY <1>19, <3>3, <4>2, <4>3, <4>4, <4>5 DEF Serves
    <3>4. CASE t.sender = c /\ ~Active(c)'
      BY <3>4 DEF Serves
    <3>5. QED
      BY <3>2, <3>3, <3>4
  <2>4. PullEntry(t)'
    BY <1>11, <2>2, <2>3 DEF PullEntry
  <2>5. QED
    BY <2>2, <2>4 DEF PullEntry, Serves
<1>24. \A x \in Under' : PullDatagram(x)'
  BY <1>11, <1>21, <1>22 DEF PullDatagram
<1>25. QED
  BY <1>10, <1>11, <1>18, <1>23, <1>24 DEF PullInv

\* What a step of a client sends to the server, and to whom it is addressed
LEMMA ClientCarries ==
  ASSUME TftpInv, NEW read, NEW sent, NEW open, Carry(read, sent, open)
  PROVE  \A x \in Under' : x \in Under \/ x \in sent
BY CarryUnder DEF TftpInv, Kept

\* A step of a client that takes no block
LEMMA NothingTaken ==
  ASSUME TftpInv, PullInv, NEW c \in Clients, NEW me,
         client' = [client EXCEPT ![c] = me], UNCHANGED <<op, length, local, servervars>>,
         c \in Pullers => Same(c), NEW sent, \A d \in sent : PullDatagram(d),
         \A x \in Under' : x \in Under \/ x \in sent
  PROVE  PullInv'
<1>1. UNCHANGED <<op, length, table, disk, resent>> /\ local' = local
  BY DEF servervars
<1>2. ASSUME NEW x \in Pullers PROVE Same(x)
  <2>1. CASE x = c
    BY <2>1
  <2>2. CASE x # c
    BY <1>1, <2>2 DEF Same
  <2>3. QED
    BY <2>1, <2>2
<1>3. \A d \in Under' : PullDatagram(d)
  BY DEF PullInv
<1>4. QED
  BY <1>1, <1>2, <1>3, SamePulls

\* A client that does not pull moves, and sends no acknowledgement of a puller
\* and no block for one
LEMMA OtherMoves ==
  ASSUME TftpInv, PullInv, NEW c \in Clients, c \notin Pullers, NEW me,
         client' = [client EXCEPT ![c] = me], UNCHANGED <<op, length, local, servervars>>,
         NEW read, NEW sent, NEW open, Carry(read, sent, open), \A d \in sent : Plain(d)
  PROVE  PullInv'
<1>1. \A x \in Under' : x \in Under \/ x \in sent
  BY ClientCarries
<1>2. \A d \in sent : PullDatagram(d)
  BY PlainPulls
<1>3. QED
  BY <1>1, <1>2, NothingTaken

\* What a client says when it gives up, and what a pusher sends, does not
\* concern a puller
LEMMA PlainSent ==
  ASSUME TftpInv, NEW c \in Clients
  PROVE  /\ \A me : \A told : \A d \in Tell(told, c, me) : Plain(d)
         /\ \A p, b, data : c \in Pushers /\ p \in Ports => Plain(DataPacket(c, p, b, data))
         /\ \A k : k \in {"RRQ", "WRQ"} => Plain(RequestPacket(c, k))
<1>1. \A me : \A told : \A d \in Tell(told, c, me) : Plain(d)
  BY DEF Tell, ErrorPacket, Datagram, Plain
<1>2. ASSUME NEW p, NEW b, NEW data, c \in Pushers, p \in Ports
      PROVE  Plain(DataPacket(c, p, b, data))
  <2>1. p \notin Pullers
    BY <1>2, Apart DEF TftpInv, Pullers
  <2>2. QED
    BY <1>2, <2>1 DEF Plain, DataPacket, Datagram, Pushers
<1>3. \A k : k \in {"RRQ", "WRQ"} => Plain(RequestPacket(c, k))
  BY DEF RequestPacket, Datagram, Plain
<1>4. QED
  BY <1>1, <1>2, <1>3

\* A pusher sends a block or gives up
LEMMA SendBlockPulls ==
  ASSUME TftpInv, PullInv, NEW c \in Pushers, NEW me, me.sender \in Ports, NEW read,
         SendBlock(c, read, me, OpenSockets), UNCHANGED <<op, length, local, servervars>>
  PROVE  PullInv'
<1> DEFINE p == DataPacket(c, me.sender, me.block, Block(Source(c), me.size))
           you == [me EXCEPT !.pc = "sent", !.retry = MaxRetry]
           end == Finished(me, "DATA", FALSE)
<1>1. c \in Clients /\ c \notin Pullers
  BY DEF Pushers, Pullers
<1>2. PICK ok \in SendOk :
        IF ok
        THEN client' = [client EXCEPT ![c] = you] /\ Carry(read, {p}, OpenSockets)
        ELSE /\ client' = [client EXCEPT ![c] = end]
             /\ \E told \in SendOk : Carry(read, Tell(told, c, me), OpenSockets \ {c})
  BY DEF SendBlock
<1>3. Plain(p)
  BY <1>1, PlainSent
<1> HIDE DEF p, you, end
<1>4. CASE ok
  <2> DEFINE sent == {p}
  <2>1. client' = [client EXCEPT ![c] = you] /\ Carry(read, sent, OpenSockets)
    BY <1>2, <1>4
  <2>2. \A d \in sent : Plain(d)
    BY <1>3
  <2> HIDE DEF sent
  <2>3. QED
    BY <1>1, <2>1, <2>2, OtherMoves
<1>5. CASE ~ok
  <2>1. PICK told \in SendOk : Carry(read, Tell(told, c, me), OpenSockets \ {c})
    BY <1>2, <1>5
  <2>2. \A d \in Tell(told, c, me) : Plain(d)
    BY <1>1, PlainSent
  <2>3. client' = [client EXCEPT ![c] = end]
    BY <1>2, <1>5
  <2>4. QED
    BY <1>1, <2>1, <2>2, <2>3, OtherMoves
<1>6. QED
  BY <1>4, <1>5

\* A pusher that returns
LEMMA PushQuits ==
  ASSUME TftpInv, PullInv, NEW c \in Pushers, NEW me, NEW read, NEW e, NEW b,
         client' = [client EXCEPT ![c] = Finished(me, e, b)],
         Carry(read, {}, OpenSockets \ {c}), UNCHANGED <<op, length, local, servervars>>
  PROVE  PullInv'
<1>1. c \in Clients /\ c \notin Pullers
  BY DEF Pushers, Pullers
<1> DEFINE sent == {}
           end == Finished(me, e, b)
<1>2. /\ Carry(read, sent, OpenSockets \ {c}) /\ \A d \in sent : Plain(d)
      /\ client' = [client EXCEPT ![c] = end]
  OBVIOUS
<1> HIDE DEF sent, end
<1>3. QED
  BY <1>1, <1>2, OtherMoves

\* What a pusher does concerns no puller
LEMMA PushPulls ==
  ASSUME TftpInv, PullInv, NEW c \in Clients, UNCHANGED servervars,
         PushAccepted(c, OpenSockets) \/ PushAcked(c, OpenSockets) \/ PushTimeout(c, OpenSockets)
  PROVE  PullInv'
<1>1. c \in Pushers
  BY ClientAsIs DEF PushAccepted, PushAcked, PushTimeout, GoodClient
<1>2. UNCHANGED <<op, length, local, servervars>>
  BY DEF PushAccepted, PushAcked, PushTimeout
<1>3. c \notin Pullers
  BY <1>1 DEF Pushers, Pullers
<1>4. CASE PushAccepted(c, OpenSockets)
  <2>1. PICK d \in Arrived(c) :
        LET me == [client[c] EXCEPT !.sender = d.from]
        IN  IF IsAck(d, me.block)
            THEN \E ok \in LocalOk :
                   IF ok
                   THEN SendBlock(c, {d}, [me EXCEPT !.block = NextBlock(@)], OpenSockets)
                   ELSE /\ client' = [client EXCEPT ![c] = Finished(me, "FILE", FALSE)]
                        /\ Carry({d}, {}, OpenSockets \ {c})
            ELSE /\ client' = [client EXCEPT ![c] = Finished(me, "ACK", FALSE)]
                 /\ Carry({d}, {}, OpenSockets \ {c})
    BY <1>4 DEF PushAccepted
  <2> DEFINE me == [client[c] EXCEPT !.sender = d.from]
             you == [me EXCEPT !.block = NextBlock(@)]
  <2>2. GoodClient(c, me)
    BY ClientAnswered
  <2>3. me.sender \in Ports
    BY <2>2 DEF GoodClient
  <2>4. you.sender \in Ports
    BY <2>3
  <2>5. \/ SendBlock(c, {d}, you, OpenSockets)
        \/ /\ client' = [client EXCEPT ![c] = Finished(me, "FILE", FALSE)]
           /\ Carry({d}, {}, OpenSockets \ {c})
        \/ /\ client' = [client EXCEPT ![c] = Finished(me, "ACK", FALSE)]
           /\ Carry({d}, {}, OpenSockets \ {c})
    BY <2>1
  <2> HIDE DEF me, you
  <2>6. QED
    BY <1>1, <1>2, <2>4, <2>5, SendBlockPulls, PushQuits
<1>5. CASE PushAcked(c, OpenSockets)
  <2>1. PICK d \in Arrived(c) :
       LET me  == [client[c] EXCEPT !.sender = d.from]
           all == [me EXCEPT !.block = NextBlock(@), !.size = @ + Len(Pack(c))]
       IN  IF ~IsAck(d, me.block)
           THEN /\ client' = [client EXCEPT ![c] = Finished(me, "ACK", FALSE)]
                /\ Carry({d}, {}, OpenSockets \ {c})
           ELSE IF Len(Pack(c)) < BlkSize
           THEN /\ client' = [client EXCEPT ![c] = Finished(all, "OK", TRUE)]
                /\ Carry({d}, {}, OpenSockets \ {c})
           ELSE SendBlock(c, {d}, all, OpenSockets)
    BY <1>5 DEF PushAcked
  <2> DEFINE me == [client[c] EXCEPT !.sender = d.from]
             all == [me EXCEPT !.block = NextBlock(@), !.size = @ + Len(Pack(c))]
  <2>2. GoodClient(c, me)
    BY ClientAnswered
  <2>3. me.sender \in Ports
    BY <2>2 DEF GoodClient
  <2>4. all.sender \in Ports
    BY <2>3
  <2>5. \/ SendBlock(c, {d}, all, OpenSockets)
        \/ /\ client' = [client EXCEPT ![c] = Finished(me, "ACK", FALSE)]
           /\ Carry({d}, {}, OpenSockets \ {c})
        \/ /\ client' = [client EXCEPT ![c] = Finished(all, "OK", TRUE)]
           /\ Carry({d}, {}, OpenSockets \ {c})
    BY <2>1
  <2> HIDE DEF me, all
  <2>6. QED
    BY <1>1, <1>2, <2>4, <2>5, SendBlockPulls, PushQuits
<1>6. CASE PushTimeout(c, OpenSockets)
  <2>1. CASE LastTry(c)
    <3>1. /\ client' = [client EXCEPT ![c] = Finished(client[c], "OK", FALSE)]
          /\ Carry({}, {}, OpenSockets \ {c})
      BY <1>6, <2>1 DEF PushTimeout
    <3>2. QED
      BY <1>1, <1>2, <3>1, PushQuits
  <2>2. CASE ~LastTry(c)
    <3>1. PICK ok, told \in SendOk :
            /\ client' = [client EXCEPT ![c] =
                 IF ok THEN [client[c] EXCEPT !.retry = FewerTries(@)]
                 ELSE Finished(client[c], "DATA", FALSE)]
            /\ Carry({}, IF ok THEN {DataPacket(c, client[c].sender, client[c].block, Pack(c))}
                         ELSE Tell(told, c, client[c]),
                     IF ok THEN OpenSockets ELSE OpenSockets \ {c})
      BY <1>6, <2>2 DEF PushTimeout
    <3> DEFINE you == IF ok THEN [client[c] EXCEPT !.retry = FewerTries(@)]
                      ELSE Finished(client[c], "DATA", FALSE)
               p == DataPacket(c, client[c].sender, client[c].block, Pack(c))
               sent == IF ok THEN {p} ELSE Tell(told, c, client[c])
               open == IF ok THEN OpenSockets ELSE OpenSockets \ {c}
    <3>2. client' = [client EXCEPT ![c] = you] /\ Carry({}, sent, open)
      BY <3>1
    <3>3. Plain(p)
      <4>1. client[c].sender \in Ports
        BY ClientAsIs DEF GoodClient
      <4>2. QED
        BY <1>1, <4>1, PlainSent
    <3>4. \A d \in Tell(told, c, client[c]) : Plain(d)
      BY PlainSent
    <3> HIDE DEF p
    <3>5. \A d \in sent : Plain(d)
      BY <3>3, <3>4
    <3> HIDE DEF sent, you, open
    <3>6. QED
      BY <1>2, <1>3, <3>2, <3>5, OtherMoves
  <2>3. QED
    BY <2>1, <2>2
<1>7. QED
  BY <1>4, <1>5, <1>6

\* A client gives up, with what it has
LEMMA GivesUp ==
  ASSUME TftpInv, Short, PullInv, NEW c \in Clients, client[c].pc # "done",
         NEW me, me.pc = "done", ~me.complete, me.complete \in BOOLEAN,
         me.size = client[c].size, client' = [client EXCEPT ![c] = me],
         UNCHANGED <<op, length, local, servervars>>,
         NEW read, NEW sent, NEW open, Carry(read, sent, open), \A d \in sent : Plain(d)
  PROVE  PullInv'
<1>1. \A x \in Under' : x \in Under \/ x \in sent
  BY ClientCarries
<1>2. \A d \in sent : PullDatagram(d)
  BY PlainPulls
<1>3. client'[c] = me /\ local' = local
  BY DEF TftpInv, Kept
<1>4. c \in Pullers => Same(c)
  <2>1. c \in Pullers => client[c].complete = FALSE
    BY PullerState
  <2>2. me.complete = FALSE
    OBVIOUS
  <2>3. QED
    BY <1>3, <2>1, <2>2 DEF Same
<1>5. QED
  BY <1>1, <1>2, <1>4, NothingTaken

\* A client returns without a word
LEMMA Returns ==
  ASSUME TftpInv, Short, PullInv, NEW c \in Clients, client[c].pc # "done",
         NEW me, GoodClient(c, me), me.size = client[c].size, NEW e, NEW read,
         client' = [client EXCEPT ![c] = Finished(me, e, FALSE)],
         UNCHANGED <<op, length, local, servervars>>, Carry(read, {}, OpenSockets \ {c})
  PROVE  PullInv'
<1> DEFINE end == Finished(me, e, FALSE)
           sent == {}
<1>1. /\ end.pc = "done" /\ ~end.complete /\ end.complete \in BOOLEAN
      /\ end.size = client[c].size
  BY DEF Finished, GoodClient
<1>2. /\ client' = [client EXCEPT ![c] = end] /\ Carry(read, sent, OpenSockets \ {c})
      /\ \A d \in sent : Plain(d)
  OBVIOUS
<1> HIDE DEF end, sent
<1>3. QED
  BY <1>1, <1>2, GivesUp

\* The request, and its timeout
LEMMA RequestPulls ==
  ASSUME TftpInv, Short, PullInv, NEW c \in Clients, UNCHANGED servervars,
         SendRequest(c, OpenSockets) \/ RequestTimeout(c, OpenSockets)
  PROVE  PullInv'
<1>1. /\ UNCHANGED <<op, length, local, servervars>> /\ local' = local
      /\ client[c].pc \in {"request", "answer"} /\ client[c].pc # "done"
      /\ DOMAIN client = Clients
  BY DEF SendRequest, RequestTimeout, TftpInv, Kept
<1>2. GoodClient(c, client[c])
  BY ClientAsIs
<1>3. ASSUME NEW me, client' = [client EXCEPT ![c] = me], me.pc \in {"request", "answer"},
             me.size = client[c].size, me.complete = client[c].complete,
             me.block = client[c].block, me.sender = client[c].sender
      PROVE  c \in Pullers => Same(c)
  <2>1. client'[c] = me
    BY <1>1, <1>3
  <2>2. QED
    BY <1>1, <1>3, <2>1 DEF Same
<1>4. CASE SendRequest(c, OpenSockets)
  <2>1. PICK ok \in SendOk :
        IF ok
        THEN /\ client' = [client EXCEPT ![c].pc = "answer"]
             /\ Carry({}, {RequestPacket(c, IF c \in Pushers THEN "WRQ" ELSE "RRQ")}, OpenSockets)
        ELSE /\ client' = [client EXCEPT ![c] = Finished(client[c], "XFER", FALSE)]
             /\ Carry({}, {}, OpenSockets \ {c})
    BY <1>4 DEF SendRequest
  <2>2. CASE ok
    <3> DEFINE r == RequestPacket(c, IF c \in Pushers THEN "WRQ" ELSE "RRQ")
               sent == {r}
               me == [client[c] EXCEPT !.pc = "answer"]
    <3>1. client' = [client EXCEPT ![c] = me] /\ Carry({}, sent, OpenSockets)
      BY <2>1, <2>2
    <3>2. Plain(r)
      BY PlainSent
    <3>3. /\ me.pc \in {"request", "answer"} /\ me.size = client[c].size
          /\ me.complete = client[c].complete
          /\ me.block = client[c].block /\ me.sender = client[c].sender
      BY <1>2 DEF GoodClient
    <3> HIDE DEF r
    <3>4. \A d \in sent : PullDatagram(d)
      BY <3>2, PlainPulls
    <3> HIDE DEF sent, me
    <3>5. \A x \in Under' : x \in Under \/ x \in sent
      BY <3>1, ClientCarries
    <3>6. c \in Pullers => Same(c)
      BY <1>3, <3>1, <3>3
    <3>7. QED
      BY <1>1, <3>1, <3>4, <3>5, <3>6, NothingTaken
  <2>3. CASE ~ok
    <3>1. /\ client' = [client EXCEPT ![c] = Finished(client[c], "XFER", FALSE)]
          /\ Carry({}, {}, OpenSockets \ {c})
      BY <2>1, <2>3
    <3>2. QED
      BY <1>1, <1>2, <3>1, Returns
  <2>4. QED
    BY <2>2, <2>3
<1>5. CASE RequestTimeout(c, OpenSockets)
  <2>1. CASE LastTry(c)
    <3>1. /\ client' = [client EXCEPT ![c] = Finished(client[c], "OK", FALSE)]
          /\ Carry({}, {}, OpenSockets \ {c})
      BY <1>5, <2>1 DEF RequestTimeout
    <3>2. QED
      BY <1>1, <1>2, <3>1, Returns
  <2>2. CASE ~LastTry(c)
    <3> DEFINE me == [client[c] EXCEPT !.retry = FewerTries(@), !.pc = "request"]
               sent == {}
    <3>1. client' = [client EXCEPT ![c] = me] /\ net' = net
      BY <1>5, <2>2 DEF RequestTimeout
    <3>2. /\ me.pc \in {"request", "answer"} /\ me.size = client[c].size
          /\ me.complete = client[c].complete
          /\ me.block = client[c].block /\ me.sender = client[c].sender
      BY <1>2 DEF GoodClient
    <3>3. \A d \in sent : PullDatagram(d)
      OBVIOUS
    <3>4. \A x \in Under' : x \in Under \/ x \in sent
      BY <3>1 DEF Under
    <3> HIDE DEF me, sent
    <3>5. c \in Pullers => Same(c)
      BY <1>3, <3>1, <3>2
    <3>6. QED
      BY <1>1, <3>1, <3>3, <3>4, <3>5, NothingTaken
  <2>3. QED
    BY <2>1, <2>2
<1>6. QED
  BY <1>4, <1>5

\* A puller reads what has come
LEMMA DataPulls ==
  ASSUME TftpInv, Short, PullInv, NEW c \in Clients, PullData(c, OpenSockets),
         UNCHANGED servervars
  PROVE  PullInv'
<1>1. /\ c \in Pullers /\ client[c].pc \in {"answer", "acked"} /\ client[c].pc # "done"
      /\ UNCHANGED <<op, length, servervars>>
      /\ UNCHANGED <<op, length, table, disk, resent>>
  BY DEF PullData, servervars
<1>2. PICK d \in Arrived(c), ok \in LocalOk :
       LET me  == [client[c] EXCEPT !.sender = d.from]
           all == [me EXCEPT !.block = d.block, !.size = @ + Len(d.data)]
           ack == AckPacket(c, d.from, d.block)
       IN     IF ~IsData(d, me.block)
              THEN /\ client' = [client EXCEPT ![c] = Finished(me, "DATA", FALSE)]
                   /\ Carry({d}, {}, OpenSockets \ {c})
                   /\ UNCHANGED local
              ELSE IF ~ok
              THEN /\ client' = [client EXCEPT ![c] = Finished(me, "FILE", FALSE)]
                   /\ \E told \in SendOk : Carry({d}, Tell(told, c, me), OpenSockets \ {c})
                   /\ UNCHANGED local
              ELSE \E sent \in SendOk :
                   /\ local' = [local EXCEPT ![c] = Overlay(@, me.size, d.data)]
                   /\ client' = [client EXCEPT ![c] =
                        IF Len(d.data) < BlkSize THEN Finished(all, "OK", TRUE)
                        ELSE [all EXCEPT !.pc = "acked", !.retry = MaxRetry]]
                   /\ Carry({d}, IF sent THEN {ack} ELSE {},
                            IF Len(d.data) < BlkSize THEN OpenSockets \ {c} ELSE OpenSockets)
  BY DEF PullData
<1> DEFINE me  == [client[c] EXCEPT !.sender = d.from]
           all == [me EXCEPT !.block = d.block, !.size = @ + Len(d.data)]
           ack == AckPacket(c, d.from, d.block)
<1>3. /\ GoodClient(c, me) /\ me.size = client[c].size /\ me.block = client[c].block
      /\ me.complete = client[c].complete /\ me.sender = d.from
  BY ClientAnswered, ClientAsIs DEF GoodClient
<1>4. CASE ~IsData(d, me.block)
  <2>1. /\ client' = [client EXCEPT ![c] = Finished(me, "DATA", FALSE)]
        /\ Carry({d}, {}, OpenSockets \ {c})
        /\ UNCHANGED <<op, length, local, servervars>>
    BY <1>1, <1>2, <1>4
  <2> HIDE DEF me, all, ack
  <2>2. QED
    BY <1>1, <1>3, <2>1, Returns
<1>5. CASE IsData(d, me.block) /\ ~ok
  <2>1. PICK told \in SendOk :
          /\ client' = [client EXCEPT ![c] = Finished(me, "FILE", FALSE)]
          /\ Carry({d}, Tell(told, c, me), OpenSockets \ {c})
          /\ UNCHANGED <<op, length, local, servervars>>
    BY <1>1, <1>2, <1>5
  <2> DEFINE end == Finished(me, "FILE", FALSE)
             sent == Tell(told, c, me)
  <2>2. \A x \in sent : Plain(x)
    BY PlainSent
  <2> HIDE DEF me, all, ack
  <2>3. /\ end.pc = "done" /\ ~end.complete /\ end.complete \in BOOLEAN
        /\ end.size = client[c].size
    BY <1>3 DEF Finished, GoodClient
  <2> HIDE DEF end, sent
  <2>4. client' = [client EXCEPT ![c] = end] /\ Carry({d}, sent, OpenSockets \ {c})
    BY <2>1 DEF end, sent
  <2>5. QED
    BY <1>1, <2>1, <2>2, <2>3, <2>4, GivesUp
<1>6. CASE IsData(d, me.block) /\ ok
  <2> DEFINE you == IF Len(d.data) < BlkSize THEN Finished(all, "OK", TRUE)
                    ELSE [all EXCEPT !.pc = "acked", !.retry = MaxRetry]
  <2>1. PICK told \in SendOk :
          /\ local' = [local EXCEPT ![c] = Overlay(@, me.size, d.data)]
          /\ client' = [client EXCEPT ![c] = you]
          /\ Carry({d}, IF told THEN {ack} ELSE {},
                   IF Len(d.data) < BlkSize THEN OpenSockets \ {c} ELSE OpenSockets)
    BY <1>2, <1>6
  <2> DEFINE sent == IF told THEN {ack} ELSE {}
             open == IF Len(d.data) < BlkSize THEN OpenSockets \ {c} ELSE OpenSockets
  <2>2. local' = [local EXCEPT ![c] = Overlay(@, client[c].size, d.data)] /\ Carry({d}, sent, open)
    BY <1>3, <2>1
  <2>3. \A x \in sent : x = ack
    OBVIOUS
  <2>4. all.size = client[c].size + Len(d.data) /\ all.block = d.block /\ all.sender = d.from
        /\ all.complete = client[c].complete
    <3> HIDE DEF me
    <3>1. QED
      BY <1>3 DEF GoodClient
  <2>5. client[c].complete = FALSE
    BY <1>1, PullerState
  <2>6. all \in [pc : {"request", "answer", "sent", "acked", "done"}, retry : 1 .. MaxRetry,
                 block : {d.block}, sender : {d.from}, size : {client[c].size + Len(d.data)},
                 err : {"OK", "XFER", "ACK", "DATA", "FILE"}, complete : {FALSE}]
    <3> HIDE DEF me
    <3>1. QED
      BY <1>3, <2>5 DEF GoodClient
  <2> HIDE DEF all
  <2>7. /\ you.size = client[c].size + Len(d.data) /\ you.block = d.block /\ you.sender = d.from
        /\ IF Len(d.data) < BlkSize THEN you.pc = "done" ELSE you.pc = "acked" /\ ~you.complete
    BY <2>6 DEF Finished
  <2> HIDE DEF sent, open, you
  <2>8. \A x \in Under' : x \in Under \/ x \in sent
    BY <2>2, ClientCarries
  <2>9. \A x \in Under' : x \in Under \/ x = AckPacket(c, d.from, d.block)
    BY <2>3, <2>8
  <2>10. IsData(d, client[c].block) /\ client' = [client EXCEPT ![c] = you]
    BY <1>3, <1>6, <2>1
  <2> HIDE DEF me, ack
  <2>11. QED
    BY <1>1, <2>2, <2>7, <2>9, <2>10, TakesBlock
<1>7. QED
  BY <1>4, <1>5, <1>6

\* A puller hears nothing: it acknowledges again, or gives up
LEMMA PullTimeoutPulls ==
  ASSUME TftpInv, Short, PullInv, NEW c \in Clients, PullTimeout(c, OpenSockets),
         UNCHANGED servervars
  PROVE  PullInv'
<1>1. /\ client[c].pc = "acked" /\ client[c].pc # "done" /\ DOMAIN client = Clients
      /\ UNCHANGED <<op, length, local, servervars>> /\ local' = local
  BY DEF PullTimeout, TftpInv, Kept
<1>2. GoodClient(c, client[c])
  BY ClientAsIs
<1>3. CASE LastTry(c)
  <2>1. /\ client' = [client EXCEPT ![c] = Finished(client[c], "OK", FALSE)]
        /\ Carry({}, {}, OpenSockets \ {c})
    BY <1>3 DEF PullTimeout
  <2>2. QED
    BY <1>1, <1>2, <2>1, Returns
<1>4. CASE ~LastTry(c)
  <2> DEFINE me == [client[c] EXCEPT !.retry = FewerTries(@)]
             ack == AckPacket(c, client[c].sender, client[c].block)
  <2>1. PICK told \in SendOk : /\ client' = [client EXCEPT ![c] = me]
                               /\ Carry({}, IF told THEN {ack} ELSE {}, OpenSockets)
    BY <1>4 DEF PullTimeout
  <2> DEFINE sent == IF told THEN {ack} ELSE {}
  <2>2. PullDatagram(ack)
    <3>1. ack.from = c /\ ack.to = client[c].sender /\ ack.block = client[c].block /\ ack.op = "ACK"
      BY DEF AckPacket, Datagram
    <3>2. client[c].block <= client[c].block
      <4>1. client[c].block \in Nat
        BY <1>2, XferAssumption DEF GoodClient
      <4>2. QED
        BY <4>1
    <3> HIDE DEF ack
    <3>3. QED
      BY <1>1, <3>1, <3>2 DEF PullDatagram
  <2>3. \A d \in sent : PullDatagram(d)
    BY <2>2
  <2>4. /\ me.pc = "acked" /\ me.size = client[c].size /\ me.complete = client[c].complete
        /\ me.block = client[c].block /\ me.sender = client[c].sender
    BY <1>1, <1>2 DEF GoodClient
  <2>5. client' = [client EXCEPT ![c] = me] /\ Carry({}, sent, OpenSockets)
    BY <2>1
  <2> HIDE DEF sent, me, ack
  <2>6. client'[c] = me
    BY <1>1, <2>5
  <2>7. c \in Pullers => Same(c)
    BY <1>1, <2>4, <2>6 DEF Same
  <2>8. \A x \in Under' : x \in Under \/ x \in sent
    BY <2>5, ClientCarries
  <2>9. QED
    BY <1>1, <2>3, <2>5, <2>7, <2>8, NothingTaken
<1>5. QED
  BY <1>3, <1>4

\* Every step of a client keeps the invariant
LEMMA ClientPulls ==
  ASSUME TftpInv, Short, PullInv, NEW c \in Clients, Client(c)
  PROVE  PullInv'
BY PushPulls, RequestPulls, DataPulls, PullTimeoutPulls DEF Client, ClientStep

(***************************************************************************)
(* A step of the server.                                                   *)
(***************************************************************************)

\* A step of the server leaves the clients and their files alone, and an entry
\* of the table is an old one that went on in its file, or has a new socket
GoesOn ==
  /\ UNCHANGED clientvars /\ resent \subseteq resent'
  /\ \A c \in Pullers : disk'[c] = disk[c]
  /\ \A i \in Busy' :
       \/ /\ i \in Busy /\ table'[i].xfer = table[i].xfer
          /\ table[i].fd.off <= table'[i].fd.off
       \/ table'[i].xfer = port

\* What stays the same of what PullInv speaks about
LEMMA PullsSame ==
  ASSUME UNCHANGED clientvars
  PROVE  /\ Pullers' = Pullers /\ client' = client /\ local' = local /\ length' = length
         /\ \A c : Source(c)' = Source(c) /\ Active(c)' = Active(c) /\ Seen(c)' = Seen(c)
         /\ \A t : Serves(t)' = Serves(t)
         /\ \A c, p, b, off : Follows(c, p, b, off)' = Follows(c, p, b, off)
BY DEF clientvars, Pullers, Source, Active, Seen, Serves, Follows

\* An entry that is as it was
LEMMA EntryPulls ==
  ASSUME PullInv, UNCHANGED clientvars, resent \subseteq resent', NEW t, PullEntry(t)
  PROVE  PullEntry(t)'
<1>1. /\ Pullers' = Pullers /\ length' = length
      /\ Serves(t)' = Serves(t)
  BY PullsSame
<1>2. QED
  BY <1>1 DEF PullEntry

\* A step of the server keeps the invariant if its entries and datagrams do
LEMMA ServerPulls ==
  ASSUME TftpInv, TftpInv', PullInv, GoesOn, \A i \in Busy' : PullEntry(table[i])',
         NEW read, NEW sent, NEW open, Carry(read, sent, open),
         \A d \in sent : PullDatagram(d)'
  PROVE  PullInv'
<1>1. \A x \in Under' : x \in Under \/ x \in sent
  BY ClientCarries
<1>2. /\ Pullers' = Pullers /\ client' = client /\ local' = local /\ length' = length
      /\ \A c : Source(c)' = Source(c) /\ Active(c)' = Active(c)
      /\ \A c, p, b, off : Follows(c, p, b, off)' = Follows(c, p, b, off)
      /\ resent \subseteq resent'
  BY PullsSame DEF GoesOn
<1>3. ASSUME NEW c \in Pullers PROVE (disk[c] = Source(c) /\ PullClient(c))'
  <2>1. disk[c] = Source(c) /\ PullClient(c) /\ disk'[c] = disk[c]
    BY DEF PullInv, GoesOn
  <2>2. QED
    BY <1>2, <2>1 DEF PullClient
<1>4. ASSUME NEW d \in Under, d.to \in Pullers, NEW off \in 0 .. length[d.to], Piece(d, off)
      PROVE  Piece(d, off)'
  <2>1. d.from \in Ports /\ d.data \in Seq(Nat) /\ length[d.to] \in Nat /\ off \in Nat
    <3>1. d.to \in Clients /\ length[d.to] \in Nat
      BY <1>4, PullerIs
    <3>2. GoodDatagram(d) /\ d.to \notin Ports
      BY <3>1, Apart DEF TftpInv, Goods
    <3>3. QED
      BY <3>1, <3>2 DEF GoodDatagram
  <2>2. Len(d.data) \in Nat
    BY <2>1, LenProperties
  <2>3. ASSUME NEW i \in Busy', table'[i].xfer = d.from
        PROVE  off + Len(d.data) <= table'[i].fd.off
    <3>1. port \notin Ports
      BY ServerPort DEF TftpInv
    <3>2. i \in Busy /\ table[i].xfer = d.from /\ table[i].fd.off <= table'[i].fd.off
      BY <2>1, <2>3, <3>1 DEF GoesOn
    <3>3. off + Len(d.data) <= table[i].fd.off
      BY <1>4, <3>2 DEF Piece
    <3>4. table[i].fd.off \in Nat
      BY <3>2, EntryOwns DEF Shape
    <3>5. table'[i].fd.off \in Nat
      BY DEF TftpInv, Goods, GoodEntry, Shape
    <3>6. QED
      BY <2>1, <2>2, <3>2, <3>3, <3>4, <3>5
  <2>4. Follows(d.to, d.from, d.block, off)'
    BY <1>2, <1>4 DEF Piece
  <2>5. QED
    BY <1>2, <1>4, <2>3, <2>4 DEF Piece
<1>5. ASSUME NEW d \in Under PROVE PullDatagram(d)'
  <2>1. PullDatagram(d)
    BY DEF PullInv
  <2>2. ASSUME d.to \in Pullers, d.op = "DATA" PROVE \E off \in 0 .. length[d.to] : Piece(d, off)'
    <3>1. PICK off \in 0 .. length[d.to] : Piece(d, off)
      BY <2>1, <2>2 DEF PullDatagram
    <3>2. QED
      BY <1>4, <2>2, <3>1
  <2>3. QED
    BY <1>2, <2>1, <2>2 DEF PullDatagram
<1>6. \A d \in Under' : PullDatagram(d)'
  BY <1>1, <1>5
<1>7. DOMAIN local' = Clients
  BY <1>2 DEF PullInv
<1>8. QED
  BY <1>2, <1>3, <1>6, <1>7 DEF PullInv

\* A transfer that is about to read a block
Ready(t) ==
  /\ t.w_r = "read" /\ t.sender \in Pullers /\ t.block >= 1
  /\ (t.block - 1) * BlkSize <= t.fd.off /\ t.fd.off <= length[t.sender]
  /\ Serves(t)

\* The entry after it and what it sends, if the table goes on with that entry
NextOf(t, out) ==
  /\ PullEntry(out.entry)' /\ \A r : PullEntry([out.entry EXCEPT !.retry = r])'
  /\ t.fd.off <= out.entry.fd.off
  /\ (\A i \in Busy' : table'[i].xfer = t.xfer => table'[i].fd = out.entry.fd) =>
       PullDatagram(out.packet)'
  /\ out.packet.op = "DATA"

\* What it reads follows what the client has, so that the client may take it
LEMMA ReadyFollows ==
  ASSUME TftpInv, Short, PullInv, NEW t, Shape(t), Ready(t)
  PROVE  Follows(t.sender, t.xfer, t.block, t.fd.off)
<1>1. PICK c : c = t.sender
  OBVIOUS
<1>2. c \in Pullers /\ t.block \in Nat /\ t.fd.off \in Nat
  BY <1>1, XferAssumption DEF Ready, Shape
<1> SUFFICES ASSUME Active(c)
             PROVE  /\ t.block <= client[c].block + 1
                    /\ t.block = client[c].block + 1 =>
                         /\ Seen(c) <= t.fd.off
                         /\ client[c].pc = "acked" => t.xfer = client[c].sender
  BY <1>1 DEF Follows
<1>3. /\ t.block <= client[c].block + 1
      /\ client[c].pc = "acked" =>
           IF t.xfer = client[c].sender THEN Seen(c) <= t.fd.off ELSE t.block = 1
  BY <1>1 DEF Ready, Serves
<1>4. /\ client[c].block \in Nat /\ client[c].pc \in {"request", "answer", "acked", "done"}
      /\ client[c].pc \in {"request", "answer"} => client[c].size = 0
      /\ client[c].pc = "acked" => client[c].block >= 1
  BY <1>2, PullerState
<1>5. CASE client[c].pc = "acked"
  BY <1>2, <1>3, <1>4, <1>5
<1>6. CASE client[c].pc # "acked"
  <2>1. Seen(c) = 0
    BY <1>4, <1>6 DEF Seen, Active
  <2>2. QED
    BY <1>2, <1>3, <1>6, <2>1
<1>7. QED
  BY <1>5, <1>6

\* The next block is a piece of the file, and the entry stands behind it
LEMMA NextPulls ==
  ASSUME TftpInv, Short, PullInv, UNCHANGED clientvars, resent \subseteq resent',
         NEW t, Shape(t), Ready(t), NEW resend,
         t.sender \notin resent' => t.fd.off = (t.block - 1) * BlkSize
  PROVE  NextOf(t, Output(t, resend))
<1>1. PICK c, off : c = t.sender /\ off = t.fd.off
  OBVIOUS
<1>2. /\ c \in Pullers /\ c \in Clients /\ off \in Nat /\ off <= length[c] /\ length[c] \in Nat
      /\ disk[c] = Source(c) /\ t.fd.name = c /\ t.fd \in [name : Clients, off : Nat]
  BY <1>1, PullerIs DEF Ready, Shape, PullInv
<1>3. t.fd # Bad
  BY <1>2, ClientAssumption DEF Bad
<1> DEFINE pos == IF resend THEN t.pos ELSE t.pos + t.last_read
<1>4. PICK data : data = Block(Source(c), off)
  OBVIOUS
<1>5. FileRead(t.fd, pos, disk[t.sender]) = data
  BY <1>1, <1>2, <1>3, <1>4 DEF FileRead
<1>6. PICK n : n = Len(data)
  OBVIOUS
<1>7. n \in 0 .. BlkSize /\ off + n <= length[c] /\ n \in Nat
  BY <1>2, <1>4, <1>6, PieceHolds, XferAssumption
<1> DEFINE entry == [t EXCEPT !.pos = pos, !.last_read = n, !.fd = Advance(@, data)]
           packet == DataPacket(t.xfer, t.sender, t.block, data)
<1>8. Output(t, resend) = [entry |-> entry, packet |-> packet]
  BY <1>5, <1>6 DEF Output, NextPiece, Ready
<1>9. /\ entry.fd.off = off + n /\ entry.block = t.block /\ entry.last_read = n
      /\ entry.sender = c /\ entry.xfer = t.xfer /\ entry.w_r = "read"
  <2>1. Advance(t.fd, data).off = off + n
    BY <1>1, <1>2, <1>3, <1>6 DEF Advance
  <2> HIDE DEF pos
  <2>2. QED
    BY <1>1, <2>1 DEF Shape, Ready
<1>10. /\ Pullers' = Pullers /\ length' = length
       /\ \A x : Source(x)' = Source(x) /\ Active(x)' = Active(x) /\ Seen(x)' = Seen(x)
       /\ client' = client
       /\ \A x, p, b, o : Follows(x, p, b, o)' = Follows(x, p, b, o)
  BY PullsSame
<1>11. /\ t.block >= 1 /\ t.block \in Nat /\ (t.block - 1) * BlkSize \in Nat
       /\ (t.block - 1) * BlkSize <= off
       /\ c \notin resent' => off = (t.block - 1) * BlkSize
  <2>1. t.block \in Nat /\ t.block >= 1
    BY XferAssumption DEF Shape, Ready
  <2>2. t.block - 1 \in Nat
    BY <2>1
  <2>3. QED
    BY <1>1, <2>1, <2>2, BlockBegins DEF Ready
<1> HIDE DEF pos, entry
<1>12. ASSUME NEW y, y.fd.off = off + n, y.block = t.block, y.last_read = n, y.sender = c,
              y.xfer = t.xfer, y.w_r = "read"
       PROVE  PullEntry(y)'
  <2>1. Serves(y)'
    <3> SUFFICES ASSUME Active(c)
                 PROVE  /\ t.block <= client[c].block + 1
                        /\ client[c].pc = "acked" =>
                             IF t.xfer = client[c].sender THEN Seen(c) <= off + n ELSE t.block = 1
      BY <1>10, <1>12 DEF Serves
    <3>1. /\ t.block <= client[c].block + 1
          /\ client[c].pc = "acked" =>
               IF t.xfer = client[c].sender THEN Seen(c) <= off ELSE t.block = 1
      BY <1>1 DEF Ready, Serves
    <3>2. Seen(c) \in Nat
      <4>1. PullClient(c) /\ client[c].size \in Nat
        BY <1>2, PullerState
      <4>2. client[c].size # 0 => client[c].size \in 1 .. Len(local[c]) /\ local[c] \in Seq(Nat)
        BY <4>1, LenProperties DEF PullClient
      <4>3. client[c].size # 0 => local[c][client[c].size] \in Nat
        BY <4>2, ElementOfSeq
      <4>4. QED
        BY <4>3 DEF Seen
    <3>3. Seen(c) <= off => Seen(c) <= off + n
      BY <1>2, <1>7, <3>2
    <3>4. QED
      BY <3>1, <3>3
  <2>2. /\ (t.block - 1) * BlkSize + n <= off + n
        /\ c \notin resent' => off + n = (t.block - 1) * BlkSize + n
    BY <1>2, <1>7, <1>11
  <2>3. QED
    BY <1>2, <1>7, <1>10, <1>11, <1>12, <2>1, <2>2 DEF PullEntry
<1>13. PullEntry(entry)'
  BY <1>9, <1>12
<1>14. ASSUME NEW r PROVE PullEntry([entry EXCEPT !.retry = r])'
  <2> DEFINE y == [entry EXCEPT !.retry = r]
  <2>1. /\ y.fd.off = off + n /\ y.block = t.block /\ y.last_read = n /\ y.sender = c
        /\ y.xfer = t.xfer /\ y.w_r = "read"
    BY <1>9
  <2> HIDE DEF y
  <2>2. PullEntry(y)'
    BY <1>12, <2>1
  <2>3. QED
    BY <2>2 DEF y
<1>15. packet.op = "DATA" /\ packet.to = c /\ packet.from = t.xfer /\ packet.block = t.block
       /\ packet.data = data
  BY <1>1 DEF DataPacket, Datagram
<1> HIDE DEF packet
<1>16. ASSUME \A i \in Busy' : table'[i].xfer = t.xfer => table'[i].fd = entry.fd
       PROVE  PullDatagram(packet)'
  <2>1. Follows(c, t.xfer, t.block, off)'
    BY <1>1, <1>10, ReadyFollows
  <2>2. \A i \in Busy' : table'[i].xfer = t.xfer => off + n <= table'[i].fd.off
    <3>1. off + n <= off + n
      BY <1>2, <1>7
    <3>2. QED
      BY <1>9, <1>16, <3>1
  <2>3. Piece(packet, off)'
    BY <1>2, <1>4, <1>6, <1>10, <1>11, <1>15, <2>1, <2>2 DEF Piece
  <2>4. off \in 0 .. length'[c]
    BY <1>2, <1>10
  <2>5. QED
    BY <1>10, <1>15, <2>3, <2>4 DEF PullDatagram
<1>17. t.fd.off <= entry.fd.off
  BY <1>1, <1>2, <1>7, <1>9
<1> DEFINE out == [entry |-> entry, packet |-> packet]
<1>18. out.entry = entry /\ out.packet = packet
  OBVIOUS
<1>19. NextOf(t, out)
  <2> HIDE DEF out
  <2>1. PullEntry(out.entry)' /\ \A r : PullEntry([out.entry EXCEPT !.retry = r])'
    <3>1. PullEntry(entry)' /\ \A r : PullEntry([entry EXCEPT !.retry = r])'
      BY <1>13, <1>14
    <3>2. QED
      BY <3>1 DEF out
  <2>2. (\A i \in Busy' : table'[i].xfer = t.xfer => table'[i].fd = out.entry.fd) =>
          PullDatagram(out.packet)'
    <3>1. (\A i \in Busy' : table'[i].xfer = t.xfer => table'[i].fd = entry.fd) =>
            PullDatagram(packet)'
      BY <1>16
    <3>2. QED
      BY <3>1 DEF out
  <2>3. QED
    BY <1>15, <1>17, <1>18, <2>1, <2>2 DEF NextOf
<1>20. QED
  BY <1>8, <1>19

\* What concerns no puller
LEMMA PlainStays ==
  ASSUME UNCHANGED clientvars, NEW d, Plain(d)
  PROVE  PullDatagram(d)'
BY PullsSame DEF Plain, PullDatagram

\* The server's sockets are no clients
LEMMA ServerSends ==
  ASSUME TftpInv, NEW p \in Nat, p >= Server, NEW c
  PROVE  /\ Plain(ErrorPacket(p, c))
         /\ \A b : Plain(AckPacket(p, c, b))
<1>1. p \notin Pullers
  BY ClientAssumption DEF Pullers, Server
<1>2. QED
  BY <1>1 DEF Plain, ErrorPacket, AckPacket, Datagram

\* A step of the server that only gives up entries
LEMMA ServerDrops ==
  ASSUME TftpInv, TftpInv', PullInv, UNCHANGED <<clientvars, disk, resent>>,
         \A i \in Busy' : i \in Busy /\ table'[i] = table[i],
         NEW read, NEW sent, NEW open, Carry(read, sent, open), \A d \in sent : Plain(d)
  PROVE  PullInv'
<1>1. UNCHANGED clientvars /\ resent \subseteq resent' /\ disk' = disk
  OBVIOUS
<1>2. GoesOn
  <2>1. ASSUME NEW i \in Busy' PROVE table[i].fd.off <= table'[i].fd.off
    <3>1. table[i].fd.off \in Nat
      BY EntryOwns DEF Shape
    <3>2. QED
      BY <3>1
  <2>2. QED
    BY <1>1, <2>1 DEF GoesOn
<1>3. ASSUME NEW i \in Busy' PROVE PullEntry(table[i])'
  <2>1. PICK t : t = table[i]
    OBVIOUS
  <2>2. PullEntry(t) /\ t = table'[i]
    BY <2>1 DEF PullInv
  <2>3. PullEntry(t)'
    BY <1>1, <2>2, EntryPulls
  <2>4. QED
    BY <2>2, <2>3 DEF PullEntry, Serves
<1>4. \A d \in sent : PullDatagram(d)'
  BY <1>1, PlainStays
<1>5. QED
  BY <1>2, <1>3, <1>4, ServerPulls

\* No socket for a transfer, and the end of the server
LEMMA NoSocketPulls ==
  ASSUME TftpInv, TftpInv', PullInv, NoSocket(OpenClients) \/ Exit(OpenClients),
         UNCHANGED clientvars
  PROVE  PullInv'
<1> DEFINE sent == {}
<1>1. UNCHANGED <<clientvars, disk, resent>> /\ \A d \in sent : Plain(d)
  BY DEF NoSocket, Exit
<1>2. table' = Empty \/ table' = table
  BY DEF NoSocket, Exit, Crash
<1>3. \A i \in Busy' : i \in Busy /\ table'[i] = table[i]
  BY <1>2 DEF Busy, Empty
<1>4. \E read : Carry(read, sent, OpenClients \cup socks')
  BY DEF NoSocket, Exit
<1> HIDE DEF sent
<1>5. QED
  BY <1>1, <1>3, <1>4, ServerDrops

\* A request is refused
LEMMA RefusePulls ==
  ASSUME TftpInv, TftpInv', PullInv, Refuse(OpenClients), UNCHANGED clientvars
  PROVE  PullInv'
<1>1. PICK d \in Arrived(Server) :
       /\ Carry({d}, {ErrorPacket(port, d.from)}, OpenClients \cup socks)
       /\ disk' = IF d.op = "WRQ" /\ Writable
                  THEN [disk EXCEPT ![d.from] = Created(@)] ELSE disk
  BY DEF Refuse
<1>2. d.from \in Clients
  BY ServerPort, FromClient DEF TftpInv
<1>3. disk' = disk /\ table' = table /\ resent' = resent
  BY <1>1, <1>2, CreatedFile DEF Refuse, TftpInv, Kept
<1>4. \A i \in Busy' : i \in Busy /\ table'[i] = table[i]
  BY <1>3 DEF Busy
<1> DEFINE e == ErrorPacket(port, d.from)
           sent == {e}
<1>5. Carry({d}, sent, OpenClients \cup socks)
  BY <1>1
<1>6. Plain(e)
  <2>1. port \in Nat /\ port >= Server
    BY DEF TftpInv, Kept, Server
  <2>2. QED
    BY <2>1, ServerSends
<1> HIDE DEF e
<1>7. \A x \in sent : Plain(x)
  BY <1>6
<1> HIDE DEF sent
<1>8. UNCHANGED <<clientvars, disk, resent>>
  BY <1>3
<1>9. QED
  BY <1>4, <1>5, <1>7, <1>8, ServerDrops

\* The entry of a transfer that reads stands at the beginning of the file, and
\* its first block is only of use to a client that has taken none
LEMMA FirstReady ==
  ASSUME TftpInv, Short, NEW d \in Arrived(Server),
         NEW t, t = Entry(d, IF d.op = "RRQ" THEN OpenRead(d.from, disk[d.from])
                             ELSE OpenWrite(d.from)), t.w_r = "read"
  PROVE  Ready(t) /\ t.fd.off = (t.block - 1) * BlkSize
<1>1. d.from \in Clients /\ d.to = Server /\ PushDatagram(d)
  BY ServerPort, FromClient DEF TftpInv
<1>2. /\ d.op = "RRQ" /\ t.xfer = port /\ t.sender = d.from /\ t.block = 1
      /\ t.fd = OpenRead(d.from, disk[d.from])
  BY DEF Entry
<1>3. t.fd.off = 0 /\ 1 - 1 = 0 /\ 0 * BlkSize = 0
  BY <1>1, <1>2, CreatedFile, XferAssumption DEF OpenRead
<1>4. d.from \in Pullers
  <2>1. d.from \notin Pushers
    BY <1>1, <1>2 DEF PushDatagram
  <2>2. op[d.from] \in {"push", "pull"}
    BY <1>1, ClientAssumption DEF TftpInv, Kept
  <2>3. QED
    BY <1>1, <2>1, <2>2 DEF Pushers, Pullers
<1>5. length[d.from] \in Nat
  BY <1>4, PullerIs
<1>6. client[d.from].sender # port /\ client[d.from].block \in Nat
  <2>1. GoodClient(d.from, client[d.from]) /\ port \notin Ports
    BY <1>1, ClientAsIs, ServerPort DEF TftpInv
  <2>2. QED
    BY <2>1, XferAssumption DEF GoodClient
<1>7. Serves(t)
  BY <1>2, <1>6 DEF Serves
<1>8. QED
  BY <1>2, <1>3, <1>4, <1>5, <1>7 DEF Ready

\* A transfer that writes answers with an acknowledgement
LEMMA WriterAnswers ==
  ASSUME TftpInv, NEW t, Shape(t), t.xfer >= Server, t.w_r = "write", NEW resend
  PROVE  Plain(Output(t, resend).packet)
<1>1. Output(t, resend) = Answer(t)
  BY DEF Output
<1>2. t.xfer \in Nat
  BY DEF Shape
<1>3. Plain(AckPacket(t.xfer, t.sender, t.block))
  BY <1>2, ServerSends
<1>4. Answer(t).packet = AckPacket(t.xfer, t.sender, t.block)
  BY DEF Answer
<1>5. QED
  BY <1>1, <1>3, <1>4

\* A request gets an entry and its first answer
LEMMA RequestPullsOn ==
  ASSUME TftpInv, TftpInv', Short, PullInv, Request(OpenClients), UNCHANGED clientvars
  PROVE  PullInv'
<1>1. PICK d \in Arrived(Server), fails \in SendFails :
       LET fd == IF d.op = "RRQ" THEN OpenRead(d.from, disk[d.from]) ELSE OpenWrite(d.from)
           out == Output(Entry(d, fd), FALSE)
       IN  /\ d.op = "RRQ" \/ Writable
           /\ table' = [table EXCEPT ![Place] = IF Gone(fails) THEN Free ELSE out.entry]
           /\ socks' = IF Gone(fails) THEN socks ELSE socks \cup {port}
           /\ disk' = IF d.op = "WRQ" THEN [disk EXCEPT ![d.from] = Created(@)] ELSE disk
           /\ Carry({d}, Out(fails, out.packet), OpenClients \cup socks')
  BY DEF Request
<1>2. PICK t : t = Entry(d, IF d.op = "RRQ" THEN OpenRead(d.from, disk[d.from])
                            ELSE OpenWrite(d.from))
  OBVIOUS
<1>3. Shape(t) /\ t.xfer = port /\ t.sender = d.from
  BY <1>2, EntryShape
<1>4. PICK out : out = Output(t, FALSE)
  OBVIOUS
<1>5. /\ table' = [table EXCEPT ![Place] = IF Gone(fails) THEN Free ELSE out.entry]
      /\ Carry({d}, Out(fails, out.packet), OpenClients \cup socks')
  BY <1>1, <1>2, <1>4
<1>6. out.entry.xfer = port /\ out.entry.w_r = t.w_r
  <2>1. OutputOf(t, Output(t, FALSE))
    BY <1>3, OutputShape, Zenon
  <2>2. QED
    BY <1>3, <1>4, <2>1 DEF OutputOf
<1>7. d.from \in Clients
  BY ServerPort, FromClient DEF TftpInv
<1>8. disk' = disk /\ UNCHANGED clientvars /\ resent \subseteq resent' /\ resent' = resent
  BY <1>1, <1>7, CreatedFile DEF Request, TftpInv, Kept
<1>9. Place \in 1 .. Slots /\ Place \notin Busy /\ DOMAIN table = 1 .. Slots
  BY PlaceFree DEF Request, TftpInv, Kept
<1>10. \A j \in Busy : table[j].xfer # port /\ table[j].fd.off \in Nat
  BY EntryOwns, ServerPort DEF TftpInv, Shape
<1>11. PICK n : n = Place
  OBVIOUS
<1>12. ASSUME NEW j \in Busy'
       PROVE  IF j = n THEN table'[j] = out.entry ELSE j \in Busy /\ table'[j] = table[j]
  <2>1. j \in 1 .. Slots /\ table'[j] # Free
    BY DEF Busy
  <2>2. CASE j = n
    BY <1>5, <1>9, <1>11, <2>1, <2>2
  <2>3. CASE j # n
    BY <1>5, <1>9, <1>11, <2>1, <2>3 DEF Busy
  <2>4. QED
    BY <2>2, <2>3
<1>13. GoesOn
  <2>1. ASSUME NEW j \in Busy'
        PROVE  \/ /\ j \in Busy /\ table'[j].xfer = table[j].xfer
                  /\ table[j].fd.off <= table'[j].fd.off
               \/ table'[j].xfer = port
    BY <1>6, <1>10, <1>12
  <2>2. QED
    BY <1>8, <2>1 DEF GoesOn
<1>14. CASE t.w_r = "read"
  <2>1. Ready(t) /\ t.fd.off = (t.block - 1) * BlkSize
    BY <1>2, <1>14, FirstReady
  <2>2. NextOf(t, Output(t, FALSE))
    BY <1>3, <1>8, <2>1, NextPulls, Zenon
  <2>3. NextOf(t, out)
    BY <1>4, <2>2
  <2>4. \A j \in Busy' : table'[j].xfer = t.xfer => table'[j].fd = out.entry.fd
    BY <1>3, <1>10, <1>12
  <2>5. PullEntry(out.entry)' /\ PullDatagram(out.packet)'
    BY <2>3, <2>4 DEF NextOf
  <2>6. ASSUME NEW j \in Busy' PROVE PullEntry(table[j])'
    <3>1. CASE j = n
      <4>1. PICK y : y = out.entry
        OBVIOUS
      <4>2. table'[j] = y
        BY <1>12, <3>1, <4>1
      <4>3. PullEntry(y)'
        BY <2>5, <4>1 DEF PullEntry, Serves
      <4>4. QED
        BY <4>2, <4>3 DEF PullEntry, Serves
    <3>2. CASE j # n
      <4>1. PICK y : y = table[j]
        OBVIOUS
      <4>2. PullEntry(y) /\ table'[j] = y
        BY <1>12, <3>2, <4>1 DEF PullInv
      <4>3. PullEntry(y)'
        BY <1>8, <4>2, EntryPulls
      <4>4. QED
        BY <4>2, <4>3 DEF PullEntry, Serves
    <3>3. QED
      BY <3>1, <3>2
  <2> DEFINE sent == Out(fails, out.packet)
  <2>7. \A x \in sent : x = out.packet
    BY DEF Out
  <2>8. \A x \in sent : PullDatagram(x)'
    BY <2>5, <2>7 DEF PullDatagram, Piece, Follows
  <2> HIDE DEF sent
  <2>9. Carry({d}, sent, OpenClients \cup socks')
    BY <1>5 DEF sent
  <2>10. QED
    BY <1>13, <2>6, <2>8, <2>9, ServerPulls
<1>15. CASE t.w_r = "write"
  <2>1. Plain(Output(t, FALSE).packet)
    <3>1. t.xfer >= Server
      BY <1>3 DEF TftpInv, Kept, Server
    <3>2. QED
      BY <1>3, <1>15, <3>1, WriterAnswers, Zenon
  <2>2. PullDatagram(out.packet)'
    <3>1. PICK m : m = out.packet
      OBVIOUS
    <3>2. Plain(m)
      BY <1>4, <2>1, <3>1
    <3>3. PullDatagram(m)'
      BY <1>8, <3>2, PlainStays
    <3>4. QED
      BY <3>1, <3>3
  <2>3. ASSUME NEW j \in Busy' PROVE PullEntry(table[j])'
    <3>1. CASE j = n
      <4>1. table'[j].w_r # "read"
        BY <1>6, <1>12, <1>15, <3>1
      <4>2. QED
        BY <4>1 DEF PullEntry
    <3>2. CASE j # n
      <4>1. PICK y : y = table[j]
        OBVIOUS
      <4>2. PullEntry(y) /\ table'[j] = y
        BY <1>12, <3>2, <4>1 DEF PullInv
      <4>3. PullEntry(y)'
        BY <1>8, <4>2, EntryPulls
      <4>4. QED
        BY <4>2, <4>3 DEF PullEntry, Serves
    <3>3. QED
      BY <3>1, <3>2
  <2> DEFINE sent == Out(fails, out.packet)
  <2>4. \A x \in sent : x = out.packet
    BY DEF Out
  <2>5. \A x \in sent : PullDatagram(x)'
    BY <2>2, <2>4
  <2> HIDE DEF sent
  <2>6. Carry({d}, sent, OpenClients \cup socks')
    BY <1>5 DEF sent
  <2>7. QED
    BY <1>13, <2>3, <2>5, <2>6, ServerPulls
<1>16. QED
  BY <1>3, <1>14, <1>15 DEF Shape

\* An entry whose full block was acknowledged is ready for the next one: the
\* acknowledgement says that the client stays with this transfer
LEMMA AckedReady ==
  ASSUME TftpInv, Short, PullInv, NEW i \in Busy, NEW s, s = table[i], s.w_r = "read",
         NEW d \in Arrived(s.xfer), IsAck(d, s.block), s.last_read >= BlkSize,
         NEW u, u = [s EXCEPT !.block = NextBlock(@)]
  PROVE  /\ Shape(u) /\ Ready(u) /\ u.fd = s.fd /\ u.xfer = s.xfer
         /\ s.sender \notin resent => u.fd.off = (u.block - 1) * BlkSize
<1>1. PICK c, off, b : c = s.sender /\ off = s.fd.off /\ b = s.block
  OBVIOUS
<1>2. Shape(s) /\ d.from = c /\ d \in Under /\ d.to = s.xfer
  BY <1>1, EntryOwns DEF Arrived
<1>3. /\ c \in Pullers /\ b >= 1 /\ (b - 1) * BlkSize + s.last_read <= off /\ off <= length[c]
      /\ c \notin resent => off = (b - 1) * BlkSize + s.last_read
      /\ Serves(s)
  BY <1>1 DEF PullInv, PullEntry
<1>4. /\ b \in 0 .. BlockMod - 1 /\ b \in Nat /\ s.last_read = BlkSize /\ off \in Nat
      /\ length[c] \in Nat /\ length[c] < (BlockMod - 1) * BlkSize
  <2>1. /\ b \in 0 .. BlockMod - 1 /\ off \in Nat /\ s.last_read \in 0 .. BlkSize
    BY <1>1, <1>2 DEF Shape
  <2>2. b \in Nat /\ s.last_read = BlkSize
    BY <2>1, XferAssumption
  <2>3. length[c] \in Nat /\ length[c] < (BlockMod - 1) * BlkSize
    BY <1>3, PullerIs DEF Short
  <2>4. QED
    BY <2>1, <2>2, <2>3
<1>5. b - 1 \in Nat /\ b * BlkSize = (b - 1) * BlkSize + BlkSize /\ b * BlkSize \in Nat
  BY <1>3, <1>4, BlockBegins
<1>6. b * BlkSize <= off /\ (c \notin resent => off = b * BlkSize)
  BY <1>3, <1>4, <1>5
<1>7. b + 1 < BlockMod
  <2>1. b * BlkSize <= length[c]
    BY <1>3, <1>4, <1>5, <1>6
  <2>2. QED
    BY <1>4, <2>1, BlockNumber
<1>8. NextBlock(b) = b + 1 /\ b + 1 \in 0 .. BlockMod - 1
  <2>1. NextBlock(b) = b + 1
    BY <1>4, <1>7, Numbers DEF NextBlock
  <2>2. BlockMod \in Nat
    BY XferAssumption
  <2>3. QED
    BY <1>4, <1>7, <2>1, <2>2
<1>9. /\ u.block = b + 1 /\ u.fd = s.fd /\ u.xfer = s.xfer /\ u.sender = c /\ u.w_r = "read"
      /\ Shape(u)
  BY <1>1, <1>2, <1>8 DEF Shape
<1>10. u.block - 1 = b /\ u.block >= 1
  BY <1>4, <1>9
<1>11. Serves(u)
  <2> SUFFICES ASSUME Active(c)
               PROVE  /\ b + 1 <= client[c].block + 1
                      /\ client[c].pc = "acked" =>
                           IF s.xfer = client[c].sender THEN Seen(c) <= off ELSE b + 1 = 1
    BY <1>1, <1>9 DEF Serves
  <2>1. /\ client[c].pc = "acked" /\ s.xfer = client[c].sender /\ b <= client[c].block
    BY <1>1, <1>2, <1>3 DEF PullInv, PullDatagram, IsAck
  <2>2. Seen(c) <= off
    BY <1>1, <1>3, <2>1 DEF Serves
  <2>3. client[c].block \in Nat
    BY <1>3, PullerState
  <2>4. b + 1 <= client[c].block + 1
    BY <1>4, <2>1, <2>3
  <2>5. QED
    BY <2>1, <2>2, <2>4
<1>12. Ready(u)
  BY <1>1, <1>3, <1>6, <1>9, <1>10, <1>11 DEF Ready
<1>13. c \notin resent => u.fd.off = (u.block - 1) * BlkSize
  BY <1>1, <1>6, <1>9, <1>10
<1>14. QED
  BY <1>1, <1>9, <1>12, <1>13

\* A reader acknowledges a block and gets the next
LEMMA AckedPulls ==
  ASSUME TftpInv, TftpInv', Short, PullInv, NEW i \in 1 .. Slots, Acked(i, OpenClients),
         UNCHANGED clientvars
  PROVE  PullInv'
<1>1. /\ i \in Busy /\ table[i].w_r = "read" /\ UNCHANGED <<clientvars, disk, resent>>
      /\ UNCHANGED clientvars /\ disk' = disk /\ resent' = resent /\ resent \subseteq resent'
      /\ DOMAIN table = 1 .. Slots
  BY DEF Acked, TftpInv, Kept
<1>2. PICK d \in Arrived(table[i].xfer), fails \in SendFails :
       LET t == [table[i] EXCEPT !.sender = d.from]
           out == Output([t EXCEPT !.block = NextBlock(@)], FALSE)
           more == IsAck(d, t.block) /\ t.last_read >= BlkSize
       IN  /\ IF more /\ ~Gone(fails)
              THEN Keep(i, [out.entry EXCEPT !.retry = MaxRetry])
              ELSE Destroy(i)
           /\ Carry({d}, IF more THEN Out(fails, out.packet)
                         ELSE IF IsAck(d, t.block) THEN {} ELSE {ErrorPacket(t.xfer, d.from)},
                    OpenClients \cup socks')
  BY DEF Acked
<1>3. PICK s, x : s = table[i] /\ x = table[i].xfer
  OBVIOUS
<1>4. Shape(s) /\ s.xfer = x /\ x \in Ports \ {Server} /\ d.from = s.sender
  BY <1>1, <1>3, EntryOwns
<1>5. [s EXCEPT !.sender = d.from] = s
  BY <1>4 DEF Shape
<1>6. PICK u, out : u = [s EXCEPT !.block = NextBlock(@)] /\ out = Output(u, FALSE)
  OBVIOUS
<1> DEFINE more == IsAck(d, s.block) /\ s.last_read >= BlkSize
           you == [out.entry EXCEPT !.retry = MaxRetry]
           sent == IF more THEN Out(fails, out.packet)
                   ELSE IF IsAck(d, s.block) THEN {} ELSE {ErrorPacket(x, d.from)}
<1>7. /\ IF more /\ ~Gone(fails) THEN Keep(i, you) ELSE Destroy(i)
      /\ Carry({d}, sent, OpenClients \cup socks')
  BY <1>2, <1>3, <1>5, <1>6
<1>8. \A j \in Busy : j # i => table[j].xfer # x
  BY <1>1, <1>3 DEF TftpInv, Sockets
<1>9. CASE ~more
  <2>1. \A y \in sent : Plain(y)
    <3>1. x \in Nat /\ x >= Server
      BY <1>4 DEF Ports, Server, TftpInv, Kept
    <3>2. Plain(ErrorPacket(x, d.from))
      BY <3>1, ServerSends
    <3>3. QED
      BY <1>9, <3>2
  <2>2. \A j \in Busy' : j \in Busy /\ table'[j] = table[j]
    BY <1>1, <1>7, <1>9 DEF Destroy, Busy
  <2>3. Carry({d}, sent, OpenClients \cup socks')
    BY <1>7
  <2> HIDE DEF sent, more
  <2>4. QED
    BY <1>1, <2>1, <2>2, <2>3, ServerDrops
<1>10. CASE more
  <2>1. /\ Shape(u) /\ Ready(u) /\ u.fd = s.fd /\ u.xfer = x
        /\ s.sender \notin resent => u.fd.off = (u.block - 1) * BlkSize
        /\ u.sender = s.sender
    <3>1. /\ i \in Busy /\ s = table[i] /\ s.w_r = "read" /\ d \in Arrived(s.xfer)
          /\ IsAck(d, s.block) /\ s.last_read >= BlkSize /\ u = [s EXCEPT !.block = NextBlock(@)]
      BY <1>1, <1>3, <1>6, <1>10
    <3>2. u.sender = s.sender
      BY <1>4, <3>1 DEF Shape
    <3> HIDE DEF more, you, sent
    <3>3. /\ Shape(u) /\ Ready(u) /\ u.fd = s.fd /\ u.xfer = s.xfer
          /\ s.sender \notin resent => u.fd.off = (u.block - 1) * BlkSize
      BY <3>1, AckedReady
    <3>4. QED
      BY <1>4, <3>2, <3>3
  <2>2. NextOf(u, Output(u, FALSE))
    BY <1>1, <2>1, NextPulls, Zenon
  <2>3. NextOf(u, out)
    BY <1>6, <2>2
  <2>4. /\ out.entry.xfer = x /\ Shape(out.entry)
    <3>1. OutputOf(u, Output(u, FALSE))
      BY <2>1, OutputShape, Zenon
    <3>2. QED
      BY <1>6, <2>1, <3>1 DEF OutputOf
  <2>5. you.xfer = x /\ you.fd = out.entry.fd /\ PullEntry(you)'
    <3>1. you.xfer = x /\ you.fd = out.entry.fd
      BY <2>4 DEF Shape
    <3>2. PullEntry(you)'
      BY <2>3 DEF NextOf
    <3>3. QED
      BY <3>1, <3>2
  <2> HIDE DEF you
  <2>6. \A j \in Busy' : j \in Busy /\ (table'[j] = table[j] \/ (j = i /\ table'[j] = you))
    BY <1>1, <1>7 DEF Keep, Destroy, Busy
  <2>7. \A j \in Busy' : j = i => table'[j] = you
    BY <1>1, <1>7 DEF Keep, Destroy, Busy
  <2>8. \A j \in Busy' : table'[j].xfer = u.xfer => table'[j].fd = out.entry.fd
    BY <1>8, <2>1, <2>5, <2>6, <2>7
  <2>9. PullDatagram(out.packet)' /\ s.fd.off <= you.fd.off
    BY <2>1, <2>3, <2>5, <2>8 DEF NextOf
  <2>10. GoesOn
    <3>1. ASSUME NEW j \in Busy'
          PROVE  /\ j \in Busy /\ table'[j].xfer = table[j].xfer
                 /\ table[j].fd.off <= table'[j].fd.off
      <4>1. j \in Busy /\ table[j].fd.off \in Nat
        BY <2>6, EntryOwns DEF Shape
      <4>2. CASE j = i
        BY <1>3, <2>5, <2>7, <2>9, <4>1, <4>2
      <4>3. CASE j # i
        BY <2>6, <4>1, <4>3
      <4>4. QED
        BY <4>2, <4>3
    <3>2. QED
      BY <1>1, <3>1 DEF GoesOn
  <2>11. ASSUME NEW j \in Busy' PROVE PullEntry(table[j])'
    <3>1. CASE j = i
      <4>1. PICK y : y = you
        OBVIOUS
      <4>2. PullEntry(y)' /\ table'[j] = y
        BY <2>5, <2>7, <3>1, <4>1 DEF PullEntry, Serves
      <4>3. QED
        BY <4>2 DEF PullEntry, Serves
    <3>2. CASE j # i
      <4>1. PICK y : y = table[j]
        OBVIOUS
      <4>2. PullEntry(y) /\ table'[j] = y
        BY <2>6, <3>2, <4>1 DEF PullInv
      <4>3. PullEntry(y)'
        BY <1>1, <4>2, EntryPulls
      <4>4. QED
        BY <4>2, <4>3 DEF PullEntry, Serves
    <3>3. QED
      BY <3>1, <3>2
  <2>12. \A y \in sent : y = out.packet
    BY <1>10 DEF Out
  <2>13. \A y \in sent : PullDatagram(y)'
    BY <2>9, <2>12
  <2>14. Carry({d}, sent, OpenClients \cup socks')
    BY <1>7
  <2> HIDE DEF sent, more
  <2>15. QED
    BY <2>10, <2>11, <2>13, <2>14, ServerPulls
<1>11. QED
  BY <1>9, <1>10

\* A writer's block concerns no puller: only the file of a pusher is written
LEMMA WritePulls ==
  ASSUME TftpInv, TftpInv', Short, PullInv, NEW i \in 1 .. Slots, Data(i, OpenClients),
         UNCHANGED clientvars
  PROVE  PullInv'
<1>1. /\ i \in Busy /\ table[i].w_r = "write" /\ resent' = resent /\ resent \subseteq resent'
      /\ UNCHANGED clientvars /\ DOMAIN table = 1 .. Slots
  BY DEF Data, TftpInv, Kept
<1>2. PICK d \in Arrived(table[i].xfer), fails \in SendFails, written \in DiskOk :
       LET t == [table[i] EXCEPT !.sender = d.from]
           new == [t EXCEPT !.block = d.block, !.pos = @ + Len(d.data), !.fd = Advance(@, d.data)]
           good == IsData(d, t.block)
           last == Len(d.data) < BlkSize
       IN  /\ disk' = IF good /\ written
                      THEN [disk EXCEPT ![t.fd.name] = FileWrite(t.fd, t.pos, @, d.data)] ELSE disk
           /\ IF good /\ written /\ last /\ Gone(fails) THEN Crash("dead")
              ELSE /\ UNCHANGED run
                   /\ IF good /\ written /\ ~last /\ ~Gone(fails) THEN Keep(i, new) ELSE Destroy(i)
           /\ Carry({d}, IF ~good THEN {}
                         ELSE IF written THEN Out(fails, AckPacket(t.xfer, t.sender, d.block))
                         ELSE {ErrorPacket(t.xfer, d.from)},
                    OpenClients \cup socks')
  BY DEF Data
<1>3. PICK s, t, x, c, new :
        /\ s = table[i] /\ x = table[i].xfer /\ c = table[i].sender
        /\ t = [s EXCEPT !.sender = d.from]
        /\ new = [t EXCEPT !.block = d.block, !.pos = @ + Len(d.data), !.fd = Advance(@, d.data)]
  OBVIOUS
<1>4. /\ Shape(s) /\ s.xfer = x /\ s.sender = c /\ x \in Ports \ {Server} /\ d.from = c
      /\ c \in Pushers /\ s.w_r = "write"
  BY <1>1, <1>3, EntryOwns DEF PushEntry
<1>5. t = s /\ s.fd.name = c
  BY <1>3, <1>4 DEF Shape
<1> DEFINE good == IsData(d, s.block)
           last == Len(d.data) < BlkSize
           file == FileWrite(s.fd, s.pos, disk[c], d.data)
           sent == IF ~good THEN {}
                   ELSE IF written THEN Out(fails, AckPacket(x, c, d.block))
                   ELSE {ErrorPacket(x, c)}
<1>6. /\ disk' = [disk EXCEPT ![c] = file] \/ disk' = disk
      /\ Crash("dead") \/ Keep(i, new) \/ Destroy(i)
      /\ Carry({d}, sent, OpenClients \cup socks')
  <2>1. disk' = IF IsData(d, t.block) /\ written
                THEN [disk EXCEPT ![t.fd.name] = FileWrite(t.fd, t.pos, @, d.data)] ELSE disk
    BY <1>2, <1>3
  <2>2. Crash("dead") \/ Keep(i, new) \/ Destroy(i)
    BY <1>2, <1>3
  <2>3. Carry({d}, IF ~IsData(d, t.block) THEN {}
                   ELSE IF written THEN Out(fails, AckPacket(t.xfer, t.sender, d.block))
                   ELSE {ErrorPacket(t.xfer, d.from)},
              OpenClients \cup socks')
    BY <1>2, <1>3
  <2>4. disk' = [disk EXCEPT ![c] = file] \/ disk' = disk
    BY <1>5, <2>1
  <2>5. Carry({d}, sent, OpenClients \cup socks')
    BY <1>4, <1>5, <2>3
  <2> HIDE DEF sent, file
  <2>6. QED
    BY <2>2, <2>4, <2>5
<1>7. \A y \in Pullers : disk'[y] = disk[y]
  <2>1. c \notin Pullers /\ Pullers \subseteq Clients
    BY <1>4 DEF Pushers, Pullers
  <2>2. DOMAIN disk = Clients
    BY DEF TftpInv, Kept
  <2> HIDE DEF file
  <2>3. QED
    BY <1>6, <2>1, <2>2
<1>8. \A y \in sent : PullDatagram(y)'
  <2>1. x \in Nat /\ x >= Server
    BY <1>4 DEF Ports, Server, TftpInv, Kept
  <2>2. Plain(ErrorPacket(x, c)) /\ Plain(AckPacket(x, c, d.block))
    BY <2>1, ServerSends
  <2>3. \A y \in sent : Plain(y)
    BY <2>2 DEF Out
  <2> HIDE DEF sent
  <2>4. QED
    BY <1>1, <2>3, PlainStays
<1>9. /\ new.w_r = "write" /\ new.xfer = x
      /\ s.fd.off \in Nat /\ new.fd.off \in Nat /\ s.fd.off <= new.fd.off
  <2>1. d.data \in Seq(Nat)
    BY <1>3, <1>4, FromClient
  <2>2. Len(d.data) \in Nat
    BY <2>1, LenProperties
  <2>3. s.fd \in [name : Clients, off : Nat] /\ s.fd # Bad
    BY <1>4, ClientAssumption DEF Shape, Bad
  <2>4. Advance(s.fd, d.data).off = s.fd.off + Len(d.data)
    BY <2>3 DEF Advance
  <2>5. new.fd = Advance(s.fd, d.data) /\ new.w_r = "write" /\ new.xfer = x
    BY <1>3, <1>4, <1>5 DEF Shape
  <2>6. QED
    BY <2>2, <2>3, <2>4, <2>5
<1> HIDE DEF sent
<1>10. \A j \in Busy' : j \in Busy /\ (table'[j] = table[j] \/ (j = i /\ table'[j] = new))
  BY <1>1, <1>6 DEF Crash, Empty, Keep, Destroy, Busy
<1>11. GoesOn
  <2>1. ASSUME NEW j \in Busy'
        PROVE  /\ j \in Busy /\ table'[j].xfer = table[j].xfer
               /\ table[j].fd.off <= table'[j].fd.off
    <3>1. j \in Busy /\ table[j].fd.off \in Nat
      BY <1>10, EntryOwns DEF Shape
    <3>2. CASE table'[j] = table[j]
      BY <3>1, <3>2
    <3>3. CASE j = i /\ table'[j] = new
      <4>1. table[j] = s /\ table[j].xfer = x
        BY <1>3, <3>3
      <4>2. QED
        BY <1>9, <3>1, <3>3, <4>1
    <3>4. QED
      BY <1>10, <3>2, <3>3
  <2>2. QED
    BY <1>1, <1>7, <2>1 DEF GoesOn
<1>12. ASSUME NEW j \in Busy' PROVE PullEntry(table[j])'
  <2>1. CASE table'[j] = new
    BY <1>9, <2>1 DEF PullEntry
  <2>2. CASE table'[j] = table[j]
    <3>1. PICK y : y = table[j]
      OBVIOUS
    <3>2. PullEntry(y) /\ table'[j] = y
      BY <1>10, <2>2, <3>1 DEF PullInv
    <3>3. PullEntry(y)'
      BY <1>1, <3>2, EntryPulls
    <3>4. QED
      BY <3>2, <3>3 DEF PullEntry, Serves
  <2>3. QED
    BY <1>10, <2>1, <2>2
<1>13. QED
  BY <1>6, <1>8, <1>11, <1>12, ServerPulls

\* Nobody answers: the transfers that read send the next piece of the file under
\* the number of the last one
LEMMA TimeoutPulls ==
  ASSUME TftpInv, TftpInv', Short, PullInv, Timeout(OpenClients), UNCHANGED clientvars
  PROVE  PullInv'
<1>1. /\ disk' = disk /\ resent \subseteq resent' /\ UNCHANGED clientvars
      /\ \A i \in Busy : table[i].retry > 0 /\ table[i].w_r = "read" => table[i].sender \in resent'
  BY DEF Timeout
<1>2. PICK fails \in [Busy -> SendFails] :
       LET patient == {i \in Busy : table[i].retry > 0}
           kept == {i \in patient : ~Gone(fails[i])}
           out == [i \in patient |-> Output(table[i], TRUE)]
       IN  /\ table' = [i \in 1..Slots |->
                IF i \in kept THEN [out[i].entry EXCEPT !.retry = FewerTries(@)] ELSE Free]
           /\ Carry({}, UNION {Out(fails[i], out[i].packet) : i \in patient},
                    OpenClients \cup socks')
  BY DEF Timeout
<1> DEFINE patient == {i \in Busy : table[i].retry > 0}
           kept == {i \in patient : ~Gone(fails[i])}
           out == [i \in patient |-> Output(table[i], TRUE)]
           sent == UNION {Out(fails[i], out[i].packet) : i \in patient}
           read == {}
<1>3. Carry(read, sent, OpenClients \cup socks')
  BY <1>2
<1>4. \A i \in Busy' : i \in kept /\ table'[i] = [out[i].entry EXCEPT !.retry = FewerTries(@)]
  BY <1>2 DEF Busy
<1>5. kept \subseteq patient /\ patient \subseteq Busy
  OBVIOUS
<1>6. ASSUME NEW i \in patient
      PROVE  /\ Shape(table[i]) /\ OutputOf(table[i], out[i])
             /\ table[i].w_r = "read" => NextOf(table[i], out[i])
             /\ table[i].w_r = "write" => Plain(out[i].packet)
  <2>1. PICK t, o : t = table[i] /\ o = Output(t, TRUE)
    OBVIOUS
  <2>2. /\ i \in Busy /\ t.retry > 0 /\ o = out[i] /\ Shape(t)
        /\ t.xfer >= Server
    <3>1. i \in Busy /\ t.retry > 0 /\ o = out[i]
      BY <2>1
    <3>2. Shape(t) /\ t.xfer \in Ports
      BY <2>1, <3>1, EntryOwns
    <3>3. t.xfer >= Server
      BY <3>2 DEF Ports, Server, TftpInv, Kept
    <3>4. QED
      BY <3>1, <3>2, <3>3
  <2>3. OutputOf(t, o)
    <3>1. OutputOf(t, Output(t, TRUE))
      BY <2>2, OutputShape, Zenon
    <3>2. QED
      BY <2>1, <3>1
  <2>4. ASSUME t.w_r = "read" PROVE NextOf(t, o)
    <3>1. /\ t.sender \in Pullers /\ t.block >= 1 /\ (t.block - 1) * BlkSize + t.last_read <= t.fd.off
          /\ t.fd.off <= length[t.sender] /\ Serves(t)
      BY <2>1, <2>2, <2>4 DEF PullInv, PullEntry
    <3>2. (t.block - 1) * BlkSize <= t.fd.off
      <4>1. t.block \in Nat /\ t.fd.off \in Nat /\ t.last_read \in Nat
        BY <2>2, XferAssumption DEF Shape
      <4>2. t.block - 1 \in Nat
        BY <3>1, <4>1
      <4>3. (t.block - 1) * BlkSize \in Nat
        BY <4>2, BlockBegins
      <4>4. QED
        BY <3>1, <4>1, <4>3
    <3>3. Ready(t) /\ t.sender \in resent'
      BY <1>1, <2>1, <2>2, <2>4, <3>1, <3>2 DEF Ready
    <3>4. t.sender \notin resent' => t.fd.off = (t.block - 1) * BlkSize
      BY <3>3
    <3>5. NextOf(t, Output(t, TRUE))
      BY <1>1, <2>2, <3>3, <3>4, NextPulls, Zenon
    <3>6. QED
      BY <2>1, <3>5
  <2>5. ASSUME t.w_r = "write" PROVE Plain(o.packet)
    <3>1. Plain(Output(t, TRUE).packet)
      BY <2>2, <2>5, WriterAnswers, Zenon
    <3>2. QED
      BY <2>1, <3>1
  <2> HIDE DEF out
  <2>6. QED
    BY <2>1, <2>2, <2>3, <2>4, <2>5
<1>7. \A i \in patient : table[i].w_r \in {"read", "write"}
  BY <1>6 DEF Shape
<1>8. \A y \in sent : \E i \in patient : y = out[i].packet
  BY DEF Out
<1> HIDE DEF patient, kept, out, sent, read
<1>9. ASSUME NEW i \in Busy'
      PROVE  /\ i \in patient /\ i \in Busy /\ table'[i].xfer = table[i].xfer
             /\ table'[i].fd = out[i].entry.fd /\ table'[i].w_r = table[i].w_r
  <2>1. PICK e : e = out[i].entry
    OBVIOUS
  <2>2. table'[i] = [e EXCEPT !.retry = FewerTries(e.retry)] /\ i \in patient /\ i \in Busy
    BY <1>4, <1>5, <2>1
  <2>3. Shape(e) /\ e.xfer = table[i].xfer /\ e.w_r = table[i].w_r
    BY <1>6, <2>1, <2>2 DEF OutputOf
  <2>4. QED
    BY <2>1, <2>2, <2>3 DEF Shape
<1>10. ASSUME NEW i \in patient, NEW j \in Busy', table'[j].xfer = table[i].xfer
       PROVE  i = j /\ table'[j].fd = out[i].entry.fd
  <2>1. i \in Busy /\ j \in Busy /\ table[j].xfer = table[i].xfer
    BY <1>5, <1>9, <1>10
  <2>2. i = j
    BY <2>1 DEF TftpInv, Sockets
  <2>3. QED
    BY <1>9, <2>2
<1>11. \A y \in sent : PullDatagram(y)'
  <2> SUFFICES ASSUME NEW y \in sent PROVE PullDatagram(y)'
    OBVIOUS
  <2>1. PICK i \in patient : y = out[i].packet
    BY <1>8
  <2>2. PICK t, o : t = table[i] /\ o = out[i]
    OBVIOUS
  <2>3. CASE t.w_r = "read"
    <3>1. NextOf(t, o)
      BY <1>6, <2>2, <2>3
    <3>2. \A j \in Busy' : table'[j].xfer = t.xfer => table'[j].fd = o.entry.fd
      BY <1>10, <2>2
    <3>3. PullDatagram(o.packet)'
      BY <3>1, <3>2 DEF NextOf
    <3>4. y = o.packet
      BY <2>1, <2>2
    <3>5. QED
      BY <3>3, <3>4
  <2>4. CASE t.w_r = "write"
    <3>1. Plain(y)
      BY <1>6, <2>1, <2>2, <2>4
    <3>2. QED
      BY <1>1, <3>1, PlainStays
  <2>5. QED
    BY <1>7, <2>2, <2>3, <2>4
<1>12. GoesOn
  <2>1. ASSUME NEW i \in Busy' PROVE table[i].fd.off <= table'[i].fd.off
    <3>1. CASE table[i].w_r = "read"
      <4>1. NextOf(table[i], out[i])
        BY <1>6, <1>9, <3>1
      <4>2. table[i].fd.off <= out[i].entry.fd.off
        BY <4>1 DEF NextOf
      <4>3. QED
        BY <1>9, <4>2
    <3>2. CASE table[i].w_r = "write"
      <4>1. out[i].entry = table[i] /\ table[i].fd.off \in Nat
        BY <1>6, <1>9, <3>2 DEF OutputOf, Shape
      <4>2. table'[i].fd = table[i].fd
        BY <1>9, <4>1
      <4>3. QED
        BY <4>1, <4>2
    <3>3. QED
      BY <1>7, <1>9, <3>1, <3>2
  <2>2. QED
    BY <1>1, <1>9, <2>1 DEF GoesOn
<1>13. ASSUME NEW i \in Busy' PROVE PullEntry(table[i])'
  <2>1. CASE table[i].w_r = "read"
    <3>1. PICK o, r : o = out[i] /\ r = FewerTries(out[i].entry.retry)
      OBVIOUS
    <3>2. NextOf(table[i], o)
      BY <1>6, <1>9, <2>1, <3>1
    <3>3. PICK y : y = [o.entry EXCEPT !.retry = r]
      OBVIOUS
    <3>4. PullEntry([o.entry EXCEPT !.retry = r])'
      BY <3>2 DEF NextOf
    <3>5. PullEntry(y)'
      BY <3>3, <3>4 DEF PullEntry, Serves
    <3>6. table'[i] = y
      BY <1>4, <3>1, <3>3
    <3>7. QED
      BY <3>5, <3>6 DEF PullEntry, Serves
  <2>2. CASE table[i].w_r = "write"
    <3>1. table'[i].w_r = "write"
      BY <1>9, <2>2
    <3>2. QED
      BY <3>1 DEF PullEntry
  <2>3. QED
    BY <1>7, <1>9, <2>1, <2>2
<1>14. QED
  BY <1>3, <1>11, <1>12, <1>13, ServerPulls

\* Every step of the server keeps the invariant
LEMMA ServePulls ==
  ASSUME TftpInv, Short, PullInv, Serve PROVE PullInv'
<1>1. TftpInv' /\ UNCHANGED clientvars
  BY ServerKeeps DEF Serve
<1>2. QED
  BY <1>1, NoSocketPulls, RefusePulls, RequestPullsOn, AckedPulls, WritePulls, TimeoutPulls
     DEF Serve, ServerStep

(***************************************************************************)
(* The network, the shell, and the invariant of the whole.                 *)
(***************************************************************************)

\* Nothing that pulls speaks about changes, but datagrams may be gone
LEMMA NothingMoves ==
  ASSUME TftpInv, PullInv, UNCHANGED <<clientvars, table, disk, resent>>, Under' \subseteq Under
  PROVE  PullInv'
<1>1. UNCHANGED <<op, length, table, disk, resent>> /\ client' = client /\ local' = local
  BY DEF clientvars
<1>2. \A c \in Pullers : Same(c)
  BY <1>1 DEF Same
<1>3. \A d \in Under' : PullDatagram(d)
  BY DEF PullInv
<1>4. QED
  BY <1>1, <1>2, <1>3, SamePulls

\* The network loses datagrams and doubles them, it does not make any up
LEMMA NetworkPulls ==
  ASSUME TftpInv, PullInv, Network PROVE PullInv'
<1>1. UNCHANGED <<clientvars, table, disk, resent>>
  BY DEF Network, servervars
<1>2. PICK d \in Under : net' = net (-) SetToBag({d}) \/ net' = net (+) SetToBag({d})
  BY DEF Network, Lose, Double, Fault
<1>3. IsABag(net)
  BY DEF TftpInv, Kept
<1>4. Under' \subseteq Under
  <2>1. CASE net' = net (-) SetToBag({d})
    BY <1>3, <2>1 DEF IsABag, Under, BagToSet, SetToBag, (-)
  <2>2. CASE net' = net (+) SetToBag({d})
    <3>1. d \in DOMAIN net
      BY DEF Under, BagToSet
    <3>2. QED
      BY <1>3, <2>2, <3>1 DEF IsABag, Under, BagToSet, SetToBag, (+)
  <2>3. QED
    BY <1>2, <2>1, <2>2
<1>5. QED
  BY <1>1, <1>4, NothingMoves

\* The shell only asks the server to stop
LEMMA ShellPulls ==
  ASSUME TftpInv, PullInv, Shell \/ UNCHANGED vars PROVE PullInv'
<1>1. UNCHANGED <<clientvars, table, disk, resent>> /\ net' = net
  BY DEF Shell, Stop, vars, servervars, netvars
<1>2. Under' \subseteq Under
  BY <1>1 DEF Under
<1>3. QED
  BY <1>1, <1>2, NothingMoves

\* At the start no puller has anything
LEMMA InitPulls ==
  ASSUME Init PROVE PullInv
<1>1. /\ net = EmptyBag /\ table = [i \in 1 .. Slots |-> Free]
      /\ client = [c \in Clients |->
           [pc |-> "request", retry |-> MaxRetry, block |-> 0, sender |-> Server,
            size |-> 0, err |-> "OK", complete |-> FALSE]]
  BY DEF Init, NetInit, ClientInit, ServerInit, Empty
<1>2. PICK old \in [Clients -> Olds] : local = [c \in Clients |-> OldContent(old[c])]
  BY DEF Init, ClientInit
<1>3. \A c \in Pullers : c \in Clients /\ disk[c] = Source(c)
  BY DEF Init, Pullers
<1>4. Busy = {}
  BY <1>1 DEF Busy
<1>5. Under = {}
  BY <1>1 DEF EmptyBag, SetToBag, Under, BagToSet
<1>6. ASSUME NEW c \in Pullers PROVE PullClient(c)
  <2>1. c \in Clients /\ old[c] \in Nat
    BY <1>3, ClientAssumption
  <2>2. local[c] \in Seq(Nat)
    BY <1>2, <2>1, OldFile
  <2>3. Len(local[c]) \in Nat
    BY <2>2, LenProperties
  <2>4. client[c].size = 0 /\ client[c].pc = "request" /\ client[c].complete = FALSE
    BY <1>1, <2>1
  <2>5. QED
    BY <2>2, <2>3, <2>4 DEF PullClient
<1>7. QED
  BY <1>2, <1>3, <1>4, <1>5, <1>6 DEF PullInv

\* The invariant holds of every run, if no number of a block comes twice
LEMMA PullInvariant ==
  ASSUME Short PROVE Spec => []PullInv
<1>1. Init => PullInv
  BY InitPulls
<1>2. TftpInv /\ PullInv /\ [Next]_vars => PullInv'
  <2> SUFFICES ASSUME TftpInv, PullInv, [Next]_vars PROVE PullInv'
    OBVIOUS
  <2>1. ASSUME NEW c \in Clients, Client(c) PROVE PullInv'
    BY <2>1, ClientPulls
  <2>2. CASE Serve
    BY <2>2, ServePulls
  <2>3. CASE Network
    BY <2>3, NetworkPulls
  <2>4. CASE Shell \/ UNCHANGED vars
    BY <2>4, ShellPulls
  <2>5. QED
    BY <2>1, <2>2, <2>3, <2>4 DEF Next
<1>3. QED
  BY <1>1, <1>2, TftpInvariant, PTL DEF Spec

\* What a pull has written are units of the server's file in their order, all of
\* them from the first unless the server sent a block again after a timeout, and
\* then the whole file when the pull ends after a short block: the datagrams may
\* be lost, doubled, late and out of order, the server may be asked twice, and
\* its sendto and the client's may fail (tftp_client.c, tftp_server.c). Only
\* Short is assumed: no file is so long that its blocks are numbered twice.
THEOREM PullsCopyInOrder ==
  ASSUME Short PROVE Spec => []PullsInOrder
<1>1. TftpInv /\ PullInv => PullsInOrder
  <2> SUFFICES ASSUME TftpInv, PullInv, NEW c \in Pullers
               PROVE  LET got == SubSeq(local[c], 1, client[c].size)
                      IN  /\ \A i, j \in 1 .. Len(got) : i < j => got[i] < got[j]
                          /\ c \notin resent => \A i \in 1 .. Len(got) : got[i] = i
                          /\ client[c].complete /\ c \notin resent => Len(got) = length[c]
    BY DEF PullsInOrder
  <2>1. PICK n, file, got : /\ n = client[c].size /\ file = local[c]
                            /\ got = SubSeq(local[c], 1, client[c].size)
    OBVIOUS
  <2>2. n \in Nat /\ file \in Seq(Nat) /\ n <= Len(file)
    <3>1. PullClient(c) /\ c \in Clients
      BY PullerIs DEF PullInv
    <3>2. GoodClient(c, client[c])
      BY <3>1, ClientAsIs
    <3>3. QED
      BY <2>1, <3>1, <3>2 DEF PullClient, GoodClient
  <2>3. Len(got) = n /\ \A i \in 1 .. n : got[i] = file[i]
    <3>1. Len(file) \in Nat
      BY <2>2, LenProperties
    <3>2. got = SubSeq(file, 1, n)
      BY <2>1
    <3>3. Len(got) = n
      BY <2>2, <3>1, <3>2
    <3>4. \A i \in 1 .. n : got[i] = file[i]
      BY <2>2, <3>1, <3>2
    <3>5. QED
      BY <3>3, <3>4
  <2>4. /\ \A i, j \in 1 .. n : i < j => file[i] < file[j]
        /\ c \notin resent => \A i \in 1 .. n : file[i] = i
        /\ client[c].complete /\ c \notin resent => n = length[c]
    BY <2>1 DEF PullInv, PullClient
  <2>5. QED
    BY <2>1, <2>3, <2>4
<1>2. QED
  BY <1>1, TftpInvariant, PullInvariant, PTL
=============================================================================
