------------------------------ MODULE TftpProofs ------------------------------
(***************************************************************************)
(* What holds of TFTP clients, server and network for every number of      *)
(* clients, places in the table, sockets, retries, lengths of files and    *)
(* faults. The key is who a socket of the server belongs to: its number    *)
(* comes once, so that a datagram that is late, lost or doubled, or comes  *)
(* after its transfer was destroyed, still only ever concerns one client;  *)
(* and that a block has one number as long as the files are short.         *)
(***************************************************************************)
EXTENDS Tftp, TLAPS, FiniteSetTheorems, SequenceTheorems, WellFoundedInduction

(***************************************************************************)
(* The inductive invariant.                                                *)
(***************************************************************************)

\* No file is so long that the number of a block comes twice
Short == \A n \in Lengths : n < (BlockMod - 1) * BlkSize

\* The sockets the server has opened so far
Ports == Server .. port - 1

\* If port p still belongs to a transfer, it is one with client c
Owns(p, c) == \A i \in Busy : table[i].xfer = p => table[i].sender = c

\* The first n units of the client's file are on the server
There(c, n) ==
  /\ n <= Len(disk[c]) /\ n <= length[c]
  /\ \A i \in 1 .. n : disk[c][i] = i

\* What the blocks before this one hold of the client's file
Upto(c, block) == IF block * BlkSize <= length[c] THEN block * BlkSize ELSE length[c]

(* A datagram, a client and an entry of the table: what holds of every     *)
(* one, and what holds of a push if the files are short.                   *)
GoodDatagram(d) ==
  /\ d.op \in {"RRQ", "WRQ", "DATA", "ACK", "ERROR"}
  /\ d.block \in 0 .. BlockMod - 1 /\ d.data \in Seq(Nat)
  /\ \/ d.from \in Clients /\ d.to \in Ports /\ Owns(d.to, d.from)
     \/ d.to \in Clients /\ d.from \in Ports \ {Server} /\ Owns(d.from, d.to)

PushDatagram(d) ==
  /\ d.to = Server => d.op = IF d.from \in Pushers THEN "WRQ" ELSE "RRQ"
  /\ d.from \in Pushers /\ d.op = "DATA" =>
       /\ d.block >= 1 /\ (d.block - 1) * BlkSize <= length[d.from]
       /\ d.data = Block(Source(d.from), (d.block - 1) * BlkSize)
  /\ d.to \in Pushers /\ d.op = "ACK" => There(d.to, Upto(d.to, d.block))

GoodClient(c, me) ==
  /\ me \in [pc : {"request", "answer", "sent", "acked", "done"}, retry : 1 .. MaxRetry,
             block : 0 .. BlockMod - 1, sender : Ports, size : Nat,
             err : {"OK", "XFER", "ACK", "DATA", "FILE"}, complete : BOOLEAN]
  /\ Owns(me.sender, c)
  /\ me.pc = "sent" => c \in Pushers /\ me.sender # Server
  /\ me.pc = "acked" => c \in Pullers /\ me.sender # Server

PushClient(c, me) ==
  /\ me.pc \in {"request", "answer"} => me.block = 0 /\ me.size = 0
  /\ me.pc = "sent" =>
       me.block >= 1 /\ me.size = (me.block - 1) * BlkSize /\ me.size <= length[c]
  /\ me.pc # "done" => ~me.complete

Shape(t) ==
  /\ t \in [xfer : Nat, sender : Clients, block : 0 .. BlockMod - 1,
            w_r : {"read", "write"}, retry : 0 .. MaxRetry,
            fd : [name : Clients, off : Nat], pos : Nat, last_read : 0 .. BlkSize]
  /\ t.fd.name = t.sender
  /\ t.w_r = "write" => t.fd.off <= Len(disk[t.sender])

GoodEntry(t) == Shape(t) /\ t.xfer \in Ports \ {Server}

PushEntry(t) ==
  t.w_r = "write" =>
    t.sender \in Pushers /\ t.fd.off = t.block * BlkSize /\ There(t.sender, t.fd.off)

Kept ==
  /\ op \in [Clients -> Ops] /\ length \in [Clients -> Lengths]
  /\ port \in Nat /\ port > Server /\ pool \in Nat
  /\ is_stop \in BOOLEAN
  /\ DOMAIN client = Clients
  /\ disk \in [Clients -> Seq(Nat)]
  /\ DOMAIN table = 1 .. Slots
  /\ IsABag(net)

Goods ==
  /\ \A d \in Under : GoodDatagram(d) /\ d.to \in OpenSockets
  /\ \A c \in Clients : GoodClient(c, client[c])
  /\ \A i \in Busy : GoodEntry(table[i])

Pushes ==
  /\ \A d \in Under : PushDatagram(d)
  /\ \A c \in Clients : PushClient(c, client[c])
  /\ \A i \in Busy : PushEntry(table[i])

Sockets ==
  /\ run \in {"run", "off", "unborn", "dead"}
  /\ run = "run" => socks = {Server} \cup {table[i].xfer : i \in Busy}
  /\ run # "run" => socks = {} /\ Busy = {}
  /\ \A i, j \in Busy : table[i].xfer = table[j].xfer => i = j
  /\ run = "unborn" => pool < Slots + 2
  /\ MaxRetry \notin SendFails => run # "dead"

TftpInv == Kept /\ Goods /\ Sockets /\ (Short => Pushes)

(***************************************************************************)
(* Lemmas about files and blocks.                                          *)
(***************************************************************************)

\* A sequence written as a function
LEMMA SeqOf ==
  ASSUME NEW n \in Nat, NEW s, DOMAIN s = 1 .. n, s = [i \in 1 .. n |-> s[i]],
         \A i \in 1 .. n : s[i] \in Nat
  PROVE  s \in Seq(Nat) /\ Len(s) = n
<1>1. s \in [1 .. n -> Nat]
  OBVIOUS
<1>2. s \in Seq(Nat)
  BY <1>1, SeqDef
<1>3. QED
  BY <1>2, LenProperties

\* The file of a client
LEMMA SourceFile ==
  ASSUME NEW c \in Clients, length[c] \in Nat
  PROVE  Source(c) \in Seq(Nat) /\ Len(Source(c)) = length[c]
<1> DEFINE s == [i \in 1 .. length[c] |-> i]
<1>1. DOMAIN s = 1 .. length[c] /\ s = [i \in 1 .. length[c] |-> s[i]]
  OBVIOUS
<1>2. \A i \in 1 .. length[c] : s[i] \in Nat
  OBVIOUS
<1> HIDE DEF s
<1>3. s \in Seq(Nat) /\ Len(s) = length[c]
  BY <1>1, <1>2, SeqOf
<1>4. QED
  BY <1>3 DEF s, Source

\* What a file that had a length before looks like
LEMMA OldFile ==
  ASSUME NEW n \in Nat
  PROVE  OldContent(n) \in Seq(Nat)
<1> DEFINE s == [i \in 1 .. n |-> 0]
<1>1. DOMAIN s = 1 .. n /\ s = [i \in 1 .. n |-> s[i]] /\ \A i \in 1 .. n : s[i] \in Nat
  OBVIOUS
<1> HIDE DEF s
<1>2. s \in Seq(Nat)
  BY <1>1, SeqOf
<1>3. QED
  BY <1>2 DEF s, OldContent

\* A block is the units of the file behind the offset, at most BlkSize
LEMMA BlockFile ==
  ASSUME NEW file \in Seq(Nat), NEW off \in Nat
  PROVE  /\ Block(file, off) \in Seq(Nat)
         /\ Len(Block(file, off)) \in 0 .. BlkSize
         /\ Len(Block(file, off)) = IF off + BlkSize <= Len(file) THEN BlkSize
                                    ELSE IF off < Len(file) THEN Len(file) - off ELSE 0
         /\ \A i \in 1 .. Len(Block(file, off)) : Block(file, off)[i] = file[off + i]
<1> DEFINE n == IF off + BlkSize <= Len(file) THEN BlkSize
                ELSE IF off < Len(file) THEN Len(file) - off ELSE 0
           s == [i \in 1 .. n |-> file[off + i]]
<1>1. Len(file) \in Nat /\ BlkSize \in Nat
  BY LenProperties, XferAssumption
<1>2. n \in 0 .. BlkSize /\ \A i \in 1 .. n : off + i \in 1 .. Len(file)
  BY <1>1
<1>3. \A i \in 1 .. n : s[i] = file[off + i] /\ file[off + i] \in Nat
  BY <1>2, ElementOfSeq
<1>4. DOMAIN s = 1 .. n /\ s = [i \in 1 .. n |-> s[i]]
  OBVIOUS
<1>5. Block(file, off) = s
  BY DEF Block
<1> HIDE DEF s
<1>6. n \in Nat
  BY <1>2
<1>7. s \in Seq(Nat) /\ Len(s) = n
  <2> HIDE DEF n
  <2>1. QED
    BY <1>3, <1>4, <1>6, SeqOf
<1>8. QED
  BY <1>2, <1>3, <1>5, <1>7

\* Writing at an offset within the file replaces what was there and may
\* lengthen it
LEMMA OverlayFile ==
  ASSUME NEW file \in Seq(Nat), NEW off \in 0 .. Len(file), NEW data \in Seq(Nat)
  PROVE  /\ Overlay(file, off, data) \in Seq(Nat)
         /\ Len(Overlay(file, off, data)) =
              IF off + Len(data) > Len(file) THEN off + Len(data) ELSE Len(file)
         /\ \A i \in 1 .. Len(Overlay(file, off, data)) :
              Overlay(file, off, data)[i] =
                IF i > off /\ i <= off + Len(data) THEN data[i - off] ELSE file[i]
<1> DEFINE n == IF off + Len(data) > Len(file) THEN off + Len(data) ELSE Len(file)
           e(i) == IF i > off /\ i <= off + Len(data) THEN data[i - off] ELSE file[i]
           s == [i \in 1 .. n |-> e(i)]
<1>1. Len(file) \in Nat /\ Len(data) \in Nat /\ off \in Nat
  BY LenProperties
<1>2. n \in Nat
  BY <1>1
<1>3. \A i \in 1 .. n : e(i) \in Nat
  <2> SUFFICES ASSUME NEW i \in 1 .. n PROVE e(i) \in Nat
    OBVIOUS
  <2>1. CASE i > off /\ i <= off + Len(data)
    <3>1. i - off \in 1 .. Len(data)
      BY <1>1, <2>1
    <3>2. data[i - off] \in Nat
      BY <3>1, ElementOfSeq
    <3>3. QED
      BY <2>1, <3>2
  <2>2. CASE ~(i > off /\ i <= off + Len(data))
    <3>1. i \in 1 .. Len(file)
      BY <1>1, <2>2
    <3>2. file[i] \in Nat
      BY <3>1, ElementOfSeq
    <3>3. QED
      BY <2>2, <3>2
  <2>3. QED
    BY <2>1, <2>2
<1>4. DOMAIN s = 1 .. n /\ \A i \in 1 .. n : s[i] = e(i)
  OBVIOUS
<1>5. s = [i \in 1 .. n |-> s[i]]
  OBVIOUS
<1>6. Overlay(file, off, data) = s
  BY DEF Overlay
<1> HIDE DEF s, n, e
<1>7. s \in Seq(Nat) /\ Len(s) = n
  BY <1>2, <1>3, <1>4, <1>5, SeqOf
<1>8. QED
  BY <1>4, <1>6, <1>7 DEF n, e

\* Blocks of a file that is not too long are numbered without wrapping round
LEMMA BlockNumber ==
  ASSUME NEW n \in Nat, n < (BlockMod - 1) * BlkSize, NEW b \in Nat, b * BlkSize <= n
  PROVE  b + 1 < BlockMod /\ (b + 1) * BlkSize = b * BlkSize + BlkSize
<1>1. BlockMod \in Nat /\ BlkSize \in Nat /\ BlkSize > 0 /\ BlockMod > 1
  BY XferAssumption
<1>2. (b + 1) * BlkSize = b * BlkSize + BlkSize
  BY <1>1
<1>3. ASSUME b >= BlockMod - 1 PROVE FALSE
  <2>1. PICK k \in Nat : b = BlockMod - 1 + k
    <3>1. b - (BlockMod - 1) \in Nat
      BY <1>1, <1>3
    <3>2. QED
      BY <3>1, <1>1
  <2>2. b * BlkSize = (BlockMod - 1) * BlkSize + k * BlkSize
    BY <2>1, <1>1
  <2>3. k * BlkSize \in Nat
    BY <1>1
  <2>4. (BlockMod - 1) * BlkSize \in Nat
    BY <1>1
  <2>5. QED
    BY <2>2, <2>3, <2>4
<1>4. QED
  BY <1>1, <1>2, <1>3

\* Numbers below the modulus
LEMMA Numbers ==
  /\ \A b \in 0 .. BlockMod - 1 : NextBlock(b) \in 0 .. BlockMod - 1
  /\ \A b \in Nat : b + 1 < BlockMod => (b + 1) % BlockMod = b + 1
<1>1. BlockMod \in Nat /\ BlockMod > 1
  BY XferAssumption
<1>2. QED
  BY <1>1 DEF NextBlock

(***************************************************************************)
(* Lemmas about the network and the table.                                 *)
(***************************************************************************)

\* What is under way after a step was under way before it or is sent by it, and
\* goes to an open socket.
LEMMA CarryUnder ==
  ASSUME IsABag(net), NEW read, NEW sent, NEW open, Carry(read, sent, open)
  PROVE  IsABag(net') /\ \A d \in Under' : d.to \in open /\ (d \in Under \/ d \in sent)
<1> DEFINE rest == net (-) SetToBag(read)
           all  == rest (+) SetToBag(sent)
<1>1. IsABag(rest) /\ DOMAIN rest \subseteq DOMAIN net
  BY DEF IsABag, SetToBag, (-)
<1>2. IsABag(all) /\ DOMAIN all \subseteq DOMAIN rest \cup sent
  BY <1>1 DEF IsABag, SetToBag, (+)
<1>3. net' = [d \in {e \in DOMAIN all : e.to \in open} |-> all[d]]
  BY DEF Carry
<1>4. QED
  BY <1>1, <1>2, <1>3 DEF IsABag, Under, BagToSet

\* The first free place of the table is one.
LEMMA PlaceFree ==
  ASSUME Busy # 1 .. Slots PROVE Place \in (1 .. Slots) \ Busy
<1> DEFINE F == (1 .. Slots) \ Busy
           T == {1 .. i : i \in F}
<1>1. F # {} /\ F \subseteq Nat
  BY DEF Busy
<1>2. T # {} /\ T \subseteq FiniteSubsetsOf(Nat)
  <2>1. \A i \in F : IsFiniteSet(1 .. i) /\ 1 .. i \subseteq Nat
    BY <1>1, FS_Interval
  <2>2. QED
    BY <1>1, <2>1 DEF FiniteSubsetsOf
<1>3. PICK t \in T : \A s \in T : ~(<<s, t>> \in StrictSubsetOrdering(Nat))
  BY <1>2, FS_StrictSubsetOrderingWellFounded, WFMin
<1>4. PICK i \in F : t = 1 .. i
  BY <1>3
<1>5. \A j \in F : i <= j
  <2> SUFFICES ASSUME NEW j \in F, j < i PROVE FALSE
    BY <1>1
  <2>1. 1 .. j \subseteq 1 .. i /\ i \in 1 .. i /\ i \notin 1 .. j
    BY <1>1
  <2>2. 1 .. j \in T /\ 1 .. j \in SUBSET Nat /\ 1 .. i \in SUBSET Nat /\ 1 .. j # 1 .. i
    BY <1>1, <2>1
  <2> HIDE DEF T, F
  <2>3. <<1 .. j, 1 .. i>> \in StrictSubsetOrdering(Nat)
    BY <2>1, <2>2 DEF StrictSubsetOrdering
  <2>4. QED
    BY <1>3, <1>4, <2>2, <2>3
<1>6. QED
  BY <1>5 DEF Place
(***************************************************************************)
(* A step of a client.                                                     *)
(***************************************************************************)

\* A client and the sockets of the server have different numbers
LEMMA Apart ==
  ASSUME Kept PROVE \A c \in Clients : c \notin Ports
BY ClientAssumption DEF Kept, Ports, Server

\* What a client reads was sent by a socket that serves it
LEMMA FromServer ==
  ASSUME TftpInv, NEW c \in Clients, NEW d \in Arrived(c)
  PROVE  /\ d \in Under /\ d.to = c /\ d.from \in Ports \ {Server} /\ Owns(d.from, c)
         /\ d.block \in 0 .. BlockMod - 1 /\ d.data \in Seq(Nat)
         /\ Short => PushDatagram(d)
<1>1. d \in Under /\ d.to = c
  BY DEF Arrived
<1>2. GoodDatagram(d) /\ (Short => PushDatagram(d))
  BY <1>1 DEF TftpInv, Goods, Pushes
<1>3. c \notin Ports
  BY Apart DEF TftpInv
<1>4. QED
  BY <1>1, <1>2, <1>3 DEF GoodDatagram

\* What a client sends to a socket that serves it
LEMMA ToServer ==
  ASSUME TftpInv, NEW c \in Clients, NEW p \in Ports, Owns(p, c),
         NEW k \in {"RRQ", "WRQ", "DATA", "ACK", "ERROR"},
         NEW b \in 0 .. BlockMod - 1, NEW data \in Seq(Nat)
  PROVE  GoodDatagram(Datagram(c, p, k, b, data))
BY DEF GoodDatagram, Datagram

\* A client moves on and sends something
LEMMA ClientMoves ==
  ASSUME TftpInv, NEW c \in Clients, NEW me, NEW read, NEW sent,
         client[c].pc # "done",
         client' = [client EXCEPT ![c] = me], UNCHANGED <<op, length, servervars>>,
         GoodClient(c, me), Short => PushClient(c, me),
         \A d \in sent : GoodDatagram(d) /\ (Short => PushDatagram(d)),
         NEW open, open = IF me.pc = "done" THEN OpenSockets \ {c} ELSE OpenSockets,
         Carry(read, sent, open) \/ (UNCHANGED net /\ me.pc # "done")
  PROVE  TftpInv'
<1>1. client'[c] = me /\ DOMAIN client' = Clients /\ \A x \in Clients \ {c} : client'[x] = client[x]
  BY DEF TftpInv, Kept
<1>2. /\ Ports' = Ports /\ Busy' = Busy /\ Pushers' = Pushers /\ Pullers' = Pullers
      /\ table' = table /\ disk' = disk /\ length' = length /\ op' = op
      /\ run' = run /\ socks' = socks /\ pool' = pool /\ port' = port /\ is_stop' = is_stop
  BY DEF servervars, Ports, Busy, Pushers, Pullers
<1>3. \A d : GoodDatagram(d)' = GoodDatagram(d) /\ PushDatagram(d)' = PushDatagram(d)
  BY <1>2 DEF GoodDatagram, PushDatagram, Owns, There, Upto, Source
<1>5. IsABag(net') /\ \A d \in Under' : (d \in Under \/ d \in sent) /\ d.to \in OpenSockets'
  <2>1. OpenSockets \ {c} \subseteq OpenSockets' /\ (me.pc # "done" => OpenSockets \subseteq OpenSockets')
    BY <1>1, <1>2 DEF OpenSockets, OpenClients
  <2>2. CASE Carry(read, sent, open)
    BY <2>1, <2>2, CarryUnder DEF TftpInv, Kept
  <2>3. CASE UNCHANGED net /\ me.pc # "done"
    BY <2>1, <2>3 DEF TftpInv, Kept, Goods, Under
  <2>4. QED
    BY <2>2, <2>3
<1>6. Kept'
  BY <1>1, <1>2, <1>5 DEF TftpInv, Kept
<1>7. Goods'
  <2>1. \A d \in Under' : GoodDatagram(d)' /\ d.to \in OpenSockets'
    BY <1>3, <1>5 DEF TftpInv, Goods
  <2>2. ASSUME NEW x \in Clients PROVE GoodClient(x, client[x])'
    <3>1. PICK y : y = client'[x]
      OBVIOUS
    <3>2. GoodClient(x, y)
      BY <1>1, <3>1 DEF TftpInv, Goods
    <3>3. QED
      BY <1>2, <3>1, <3>2 DEF GoodClient, Owns
  <2>3. ASSUME NEW i \in Busy' PROVE GoodEntry(table[i])'
    <3>1. PICK y : y = table'[i]
      OBVIOUS
    <3>2. GoodEntry(y)
      BY <1>2, <3>1 DEF TftpInv, Goods
    <3>3. QED
      BY <1>2, <3>1, <3>2 DEF GoodEntry, Shape
  <2>4. QED
    BY <2>1, <2>2, <2>3 DEF Goods
<1>8. ASSUME Short PROVE Pushes'
  <2>1. \A d \in Under' : PushDatagram(d)'
    BY <1>3, <1>5, <1>8 DEF TftpInv, Pushes
  <2>2. ASSUME NEW x \in Clients PROVE PushClient(x, client[x])'
    <3>1. PICK y : y = client'[x]
      OBVIOUS
    <3>2. PushClient(x, y)
      BY <1>1, <1>8, <3>1 DEF TftpInv, Pushes
    <3>3. QED
      BY <1>2, <3>1, <3>2 DEF PushClient
  <2>3. ASSUME NEW i \in Busy' PROVE PushEntry(table[i])'
    <3>1. PICK y : y = table'[i]
      OBVIOUS
    <3>2. PushEntry(y)
      BY <1>2, <1>8, <3>1 DEF TftpInv, Pushes
    <3>3. QED
      BY <1>2, <3>1, <3>2 DEF PushEntry, There
  <2>4. QED
    BY <2>1, <2>2, <2>3 DEF Pushes
<1>9. Sockets'
  BY <1>2 DEF TftpInv, Sockets
<1>10. QED
  BY <1>6, <1>7, <1>8, <1>9 DEF TftpInv

\* The client as it is, as it is after an answer, and as it ends
LEMMA ClientAsIs ==
  ASSUME TftpInv, NEW c \in Clients
  PROVE  /\ GoodClient(c, client[c]) /\ (Short => PushClient(c, client[c]))
         /\ Owns(Server, c) /\ Server \in Ports /\ Server \notin Clients
<1>1. GoodClient(c, client[c]) /\ (Short => PushClient(c, client[c]))
  BY DEF TftpInv, Goods, Pushes
<1>2. Owns(Server, c)
  BY DEF TftpInv, Goods, GoodEntry, Owns
<1>3. Server \in Ports /\ Server \notin Clients
  BY ClientAssumption DEF TftpInv, Kept, Ports, Server
<1>4. QED
  BY <1>1, <1>2, <1>3

\* A client remembers who answered: the socket belongs to it
LEMMA ClientAnswered ==
  ASSUME TftpInv, NEW c \in Clients, NEW d \in Arrived(c)
  PROVE  GoodClient(c, [client[c] EXCEPT !.sender = d.from])
<1>1. GoodClient(c, client[c]) /\ d.from \in Ports \ {Server} /\ Owns(d.from, c)
  BY ClientAsIs, FromServer
<1>2. QED
  BY <1>1 DEF GoodClient

\* A client that is done promises nothing any more
LEMMA ClientEnds ==
  ASSUME NEW c, NEW me, GoodClient(c, me),
         NEW e \in {"OK", "XFER", "ACK", "DATA", "FILE"}, NEW b \in BOOLEAN
  PROVE  /\ GoodClient(c, Finished(me, e, b)) /\ PushClient(c, Finished(me, e, b))
         /\ Finished(me, e, b).pc = "done"
BY DEF GoodClient, PushClient, Finished

\* What the client tells the server when it gives up
LEMMA Told ==
  ASSUME TftpInv, NEW c \in Clients, NEW me, GoodClient(c, me), me.sender # Server,
         NEW told
  PROVE  \A d \in Tell(told, c, me) : GoodDatagram(d) /\ PushDatagram(d)
<1>1. me.sender \in Ports /\ Owns(me.sender, c) /\ me.sender \notin Clients
  BY Apart DEF GoodClient, TftpInv
<1>2. 0 \in 0 .. BlockMod - 1 /\ <<>> \in Seq(Nat)
  BY XferAssumption
<1>3. GoodDatagram(ErrorPacket(c, me.sender))
  BY <1>1, <1>2, ToServer DEF ErrorPacket
<1>4. PushDatagram(ErrorPacket(c, me.sender))
  BY <1>1 DEF PushDatagram, ErrorPacket, Datagram, Pushers
<1>5. QED
  BY <1>3, <1>4 DEF Tell

\* The same for a client that ends, and for one that sends nothing
LEMMA ClientStops ==
  ASSUME TftpInv, NEW c \in Clients, NEW me, NEW read, NEW sent,
         NEW e \in {"OK", "XFER", "ACK", "DATA", "FILE"}, NEW b \in BOOLEAN,
         client[c].pc # "done", GoodClient(c, me),
         client' = [client EXCEPT ![c] = Finished(me, e, b)],
         UNCHANGED <<op, length, servervars>>,
         \A d \in sent : GoodDatagram(d) /\ PushDatagram(d),
         Carry(read, sent, OpenSockets \ {c})
  PROVE  TftpInv'
<1> DEFINE you == Finished(me, e, b)
           open == OpenSockets \ {c}
<1>1. GoodClient(c, you) /\ PushClient(c, you) /\ you.pc = "done"
  BY ClientEnds
<1>2. client' = [client EXCEPT ![c] = you] /\ Carry(read, sent, open)
  OBVIOUS
<1>3. open = IF you.pc = "done" THEN OpenSockets \ {c} ELSE OpenSockets
  BY <1>1
<1>4. \A d \in sent : GoodDatagram(d) /\ (Short => PushDatagram(d))
  OBVIOUS
<1> HIDE DEF you, open
<1>5. QED
  BY <1>1, <1>2, <1>3, <1>4, ClientMoves

\* A client that returns without a word
LEMMA ClientQuits ==
  ASSUME TftpInv, NEW c \in Clients, NEW me, NEW read,
         NEW e \in {"OK", "XFER", "ACK", "DATA", "FILE"}, NEW b \in BOOLEAN,
         client[c].pc # "done", GoodClient(c, me),
         client' = [client EXCEPT ![c] = Finished(me, e, b)],
         UNCHANGED <<op, length, servervars>>, Carry(read, {}, OpenSockets \ {c})
  PROVE  TftpInv'
<1> DEFINE sent == {}
<1>1. Carry(read, sent, OpenSockets \ {c}) /\ \A d \in sent : GoodDatagram(d) /\ PushDatagram(d)
  OBVIOUS
<1> HIDE DEF sent
<1>2. QED
  BY <1>1, ClientStops

\* A client that waits on and sends nothing
LEMMA ClientWaits ==
  ASSUME TftpInv, NEW c \in Clients, NEW me,
         client[c].pc # "done", me.pc # "done",
         client' = [client EXCEPT ![c] = me], UNCHANGED <<net, op, length, servervars>>,
         GoodClient(c, me), Short => PushClient(c, me)
  PROVE  TftpInv'
<1> DEFINE sent == {}
           open == IF me.pc = "done" THEN OpenSockets \ {c} ELSE OpenSockets
<1>1. \A d \in sent : GoodDatagram(d) /\ (Short => PushDatagram(d))
  OBVIOUS
<1>2. UNCHANGED net /\ UNCHANGED <<op, length, servervars>>
  OBVIOUS
<1>3. Carry({}, sent, open) \/ (UNCHANGED net /\ me.pc # "done")
  BY <1>2
<1>4. open = IF me.pc = "done" THEN OpenSockets \ {c} ELSE OpenSockets
  OBVIOUS
<1> HIDE DEF sent, open
<1>5. QED
  BY <1>1, <1>2, <1>3, <1>4, ClientMoves

\* The actions of a client, one after the other: the request
LEMMA SendRequestKeeps ==
  ASSUME TftpInv, NEW c \in Clients, SendRequest(c, OpenSockets), UNCHANGED servervars
  PROVE  TftpInv'
<1>1. PICK ok \in SendOk :
        IF ok
        THEN /\ client' = [client EXCEPT ![c].pc = "answer"]
             /\ Carry({}, {RequestPacket(c, IF c \in Pushers THEN "WRQ" ELSE "RRQ")}, OpenSockets)
        ELSE /\ client' = [client EXCEPT ![c] = Finished(@, "XFER", FALSE)]
             /\ Carry({}, {}, OpenSockets \ {c})
  BY DEF SendRequest
<1>2. GoodClient(c, client[c]) /\ (Short => PushClient(c, client[c])) /\ client[c].pc = "request"
  BY ClientAsIs DEF SendRequest
<1>3. CASE ok
  <2> DEFINE me == [client[c] EXCEPT !.pc = "answer"]
             r == RequestPacket(c, IF c \in Pushers THEN "WRQ" ELSE "RRQ")
  <2>1. GoodClient(c, me) /\ (Short => PushClient(c, me)) /\ me.pc = "answer"
    BY <1>2 DEF GoodClient, PushClient
  <2>2. GoodDatagram(r)
    <3>1. 0 \in 0 .. BlockMod - 1 /\ <<>> \in Seq(Nat)
      BY XferAssumption
    <3>2. QED
      BY <3>1, ClientAsIs, ToServer DEF RequestPacket
  <2>3. PushDatagram(r)
    BY ClientAsIs DEF PushDatagram, RequestPacket, Datagram, Pushers
  <2>4. client' = [client EXCEPT ![c] = me] /\ Carry({}, {r}, OpenSockets)
    BY <1>1, <1>3
  <2> HIDE DEF me, r
  <2>5. QED
    BY <1>2, <2>1, <2>2, <2>3, <2>4, ClientMoves DEF SendRequest
<1>4. CASE ~ok
  BY <1>1, <1>2, <1>4, ClientQuits DEF SendRequest
<1>5. QED
  BY <1>3, <1>4

\* The request is given up or sent again
LEMMA RequestTimeoutKeeps ==
  ASSUME TftpInv, NEW c \in Clients, RequestTimeout(c, OpenSockets), UNCHANGED servervars
  PROVE  TftpInv'
<1>1. GoodClient(c, client[c]) /\ (Short => PushClient(c, client[c])) /\ client[c].pc = "answer"
  BY ClientAsIs DEF RequestTimeout
<1>2. CASE LastTry(c)
  BY <1>1, <1>2, ClientQuits DEF RequestTimeout
<1>3. CASE ~LastTry(c)
  <2> DEFINE me == [client[c] EXCEPT !.retry = FewerTries(@), !.pc = "request"]
  <2>1. FewerTries(client[c].retry) \in 1 .. MaxRetry
    BY <1>1, <1>3, XferAssumption DEF GoodClient, LastTry, FewerTries
  <2>2. GoodClient(c, me) /\ (Short => PushClient(c, me)) /\ me.pc = "request"
    BY <1>1, <2>1 DEF GoodClient, PushClient
  <2>3. client' = [client EXCEPT ![c] = me] /\ UNCHANGED net
    BY <1>3 DEF RequestTimeout
  <2> HIDE DEF me
  <2>4. QED
    BY <1>1, <2>2, <2>3, ClientWaits DEF RequestTimeout
<1>4. QED
  BY <1>2, <1>3

\* The block a pusher sends
LEMMA BlockSent ==
  ASSUME TftpInv, NEW c \in Pushers, NEW me, GoodClient(c, me), me.sender # Server,
         NEW size, size = me.size,
         Short => /\ me.block >= 1 /\ me.size = (me.block - 1) * BlkSize
                  /\ me.size <= length[c]
  PROVE  LET d == DataPacket(c, me.sender, me.block, Block(Source(c), size))
         IN  GoodDatagram(d) /\ (Short => PushDatagram(d))
<1> DEFINE data == Block(Source(c), size)
           d == DataPacket(c, me.sender, me.block, data)
<1>1. c \in Clients /\ length[c] \in Nat
  BY ClientAssumption DEF Pushers, TftpInv, Kept
<1>2. /\ me.sender \in Ports /\ Owns(me.sender, c) /\ me.size \in Nat
      /\ me.block \in 0 .. BlockMod - 1 /\ me.sender \notin Clients
  BY Apart DEF GoodClient, TftpInv
<1>3. data \in Seq(Nat)
  BY <1>1, <1>2, SourceFile, BlockFile
<1>4. Short => data = Block(Source(c), (me.block - 1) * BlkSize)
  OBVIOUS
<1> HIDE DEF data
<1>5. GoodDatagram(d)
  BY <1>1, <1>2, <1>3, ToServer DEF DataPacket
<1>6. Short => PushDatagram(d)
  BY <1>1, <1>2, <1>4 DEF PushDatagram, DataPacket, Datagram, Pushers
<1>7. QED
  BY <1>5, <1>6 DEF data

\* A pusher sends the next block
LEMMA SendBlockKeeps ==
  ASSUME TftpInv, NEW c \in Pushers, NEW me, GoodClient(c, me), me.sender # Server,
         Short => /\ me.block >= 1 /\ me.size = (me.block - 1) * BlkSize
                  /\ me.size <= length[c] /\ ~me.complete,
         client[c].pc # "done", UNCHANGED <<op, length, servervars>>,
         NEW read, SendBlock(c, read, me, OpenSockets)
  PROVE  TftpInv'
<1> DEFINE p == DataPacket(c, me.sender, me.block, Block(Source(c), me.size))
           you == [me EXCEPT !.pc = "sent", !.retry = MaxRetry]
<1>1. c \in Clients
  BY DEF Pushers
<1>2. PICK ok \in SendOk :
        IF ok
        THEN client' = [client EXCEPT ![c] = you] /\ Carry(read, {p}, OpenSockets)
        ELSE /\ client' = [client EXCEPT ![c] = Finished(me, "DATA", FALSE)]
             /\ \E told \in SendOk : Carry(read, Tell(told, c, me), OpenSockets \ {c})
  BY DEF SendBlock
<1>3. CASE ok
  <2>1. client' = [client EXCEPT ![c] = you] /\ Carry(read, {p}, OpenSockets)
    BY <1>2, <1>3
  <2>2. GoodDatagram(p) /\ (Short => PushDatagram(p))
    BY BlockSent
  <2>3. MaxRetry \in 1 .. MaxRetry
    BY XferAssumption
  <2>4. GoodClient(c, you)
    BY <2>3 DEF GoodClient
  <2>5. me = [me EXCEPT !.pc = me.pc] /\ you.pc = "sent"
    BY DEF GoodClient
  <2>6. (Short => PushClient(c, you)) /\ you.pc # "done"
    BY DEF PushClient, GoodClient
  <2> HIDE DEF p, you
  <2>7. QED
    BY <1>1, <2>1, <2>2, <2>4, <2>6, ClientMoves
<1>4. CASE ~ok
  <2>1. PICK told \in SendOk : Carry(read, Tell(told, c, me), OpenSockets \ {c})
    BY <1>2, <1>4
  <2>2. \A d \in Tell(told, c, me) : GoodDatagram(d) /\ PushDatagram(d)
    BY <1>1, Told
  <2>3. QED
    BY <1>1, <1>2, <1>4, <2>1, <2>2, ClientStops
<1>5. QED
  BY <1>3, <1>4

\* The request to write is acknowledged
LEMMA PushAcceptedKeeps ==
  ASSUME TftpInv, NEW c \in Clients, PushAccepted(c, OpenSockets), UNCHANGED servervars
  PROVE  TftpInv'
<1>1. c \in Pushers /\ client[c].pc = "answer" /\ UNCHANGED <<op, length, servervars>>
  BY DEF PushAccepted
<1>2. PICK d \in Arrived(c) :
        LET me == [client[c] EXCEPT !.sender = d.from]
        IN  IF IsAck(d, me.block)
            THEN \E ok \in LocalOk :
                   IF ok
                   THEN SendBlock(c, {d}, [me EXCEPT !.block = NextBlock(@)], OpenSockets)
                   ELSE /\ client' = [client EXCEPT ![c] = Finished(me, "FILE", FALSE)]
                        /\ Carry({d}, {}, OpenSockets \ {c})
            ELSE /\ client' = [client EXCEPT ![c] = Finished(me, "ACK", FALSE)]
                 /\ Carry({d}, {}, OpenSockets \ {c})
  BY DEF PushAccepted
<1> DEFINE me == [client[c] EXCEPT !.sender = d.from]
           you == [me EXCEPT !.block = NextBlock(@)]
<1>3. GoodClient(c, me)
  BY ClientAnswered
<1>4. CASE SendBlock(c, {d}, you, OpenSockets)
  <2>1. d.from # Server
    BY FromServer
  <2>2. client[c].block \in 0 .. BlockMod - 1 /\ GoodClient(c, client[c])
    BY ClientAsIs DEF GoodClient
  <2>3. NextBlock(client[c].block) \in 0 .. BlockMod - 1
    BY <2>2, Numbers
  <2>4. GoodClient(c, you) /\ you.sender # Server
    BY <1>3, <2>1, <2>2, <2>3 DEF GoodClient
  <2>5. ASSUME Short
        PROVE /\ you.block >= 1 /\ you.size = (you.block - 1) * BlkSize
              /\ you.size <= length[c] /\ ~you.complete
    <3>1. client[c].block = 0 /\ client[c].size = 0 /\ ~client[c].complete
      BY <1>1, <2>5, ClientAsIs DEF PushClient
    <3>2. 0 + 1 < BlockMod /\ 0 * BlkSize = 0 /\ (1 - 1) * BlkSize = 0
      BY XferAssumption
    <3>3. NextBlock(0) = 1 /\ length[c] \in Nat
      <4>1. (0 + 1) % BlockMod = 0 + 1
        BY <3>2, Numbers
      <4>2. length[c] \in Nat
        BY ClientAssumption DEF TftpInv, Kept
      <4>3. QED
        BY <4>1, <4>2 DEF NextBlock
    <3>4. you.block = 1 /\ you.size = 0 /\ ~you.complete
      BY <2>2, <3>1, <3>3 DEF GoodClient
    <3>5. QED
      BY <3>2, <3>3, <3>4
  <2> HIDE DEF you
  <2>6. QED
    BY <1>1, <1>4, <2>4, <2>5, SendBlockKeeps
<1>5. CASE ~SendBlock(c, {d}, you, OpenSockets)
  <2>1. PICK e \in {"OK", "XFER", "ACK", "DATA", "FILE"} :
          /\ client' = [client EXCEPT ![c] = Finished(me, e, FALSE)]
          /\ Carry({d}, {}, OpenSockets \ {c})
    BY <1>2, <1>5
  <2> HIDE DEF me, you
  <2>2. QED
    BY <1>1, <1>3, <2>1, ClientQuits
<1>6. QED
  BY <1>4, <1>5

\* A pusher that has an acknowledgement counts the block it sent; if that was
\* a full one, the next has the next number
LEMMA NextToPush ==
  ASSUME TftpInv, NEW c \in Clients, client[c].pc = "sent"
  PROVE  LET n == Len(Pack(c)) IN
         /\ n \in Nat
         /\ Short /\ n >= BlkSize =>
              /\ NextBlock(client[c].block) >= 1
              /\ client[c].size + n = (NextBlock(client[c].block) - 1) * BlkSize
              /\ client[c].size + n <= length[c]
<1> DEFINE b == client[c].block
           size == client[c].size
           n == Len(Pack(c))
<1>1. c \in Pushers /\ size \in Nat /\ b \in 0 .. BlockMod - 1
  BY ClientAsIs DEF GoodClient
<1>2. length[c] \in Nat /\ length[c] \in Lengths
  BY ClientAssumption DEF TftpInv, Kept
<1>3. Source(c) \in Seq(Nat) /\ Len(Source(c)) = length[c]
  BY <1>2, SourceFile
<1>4. /\ n \in 0 .. BlkSize
      /\ n = IF size + BlkSize <= length[c] THEN BlkSize
             ELSE IF size < length[c] THEN length[c] - size ELSE 0
  BY <1>1, <1>3, BlockFile DEF Pack
<1>5. n \in Nat
  BY <1>4
<1>6. ASSUME Short, n >= BlkSize
      PROVE  /\ NextBlock(b) >= 1 /\ size + n = (NextBlock(b) - 1) * BlkSize
             /\ size + n <= length[c]
  <2>1. b >= 1 /\ size = (b - 1) * BlkSize
    BY <1>6, ClientAsIs DEF PushClient
  <2>2. BlkSize \in Nat /\ BlkSize > 0 /\ BlockMod \in Nat
    BY XferAssumption
  <2>3. size + BlkSize <= length[c] /\ n = BlkSize
    BY <1>1, <1>2, <1>4, <1>6, <2>2
  <2>4. b \in Nat /\ b - 1 \in Nat
    BY <1>1, <2>1, <2>2
  <2>5. b * BlkSize = (b - 1) * BlkSize + BlkSize
    BY <2>2, <2>4
  <2>6. b * BlkSize <= length[c]
    BY <2>1, <2>3, <2>5
  <2>7. length[c] < (BlockMod - 1) * BlkSize
    BY <1>2, <1>6 DEF Short
  <2>8. b + 1 < BlockMod
    BY <1>2, <2>4, <2>6, <2>7, BlockNumber
  <2>9. NextBlock(b) = b + 1
    BY <2>4, <2>8, Numbers DEF NextBlock
  <2>10. (b + 1) - 1 = b
    BY <2>4
  <2> HIDE DEF b, n, size
  <2>11. QED
    BY <2>1, <2>3, <2>4, <2>5, <2>6, <2>9, <2>10
<1>7. QED
  BY <1>5, <1>6

\* A block is acknowledged
LEMMA PushAckedKeeps ==
  ASSUME TftpInv, NEW c \in Clients, PushAcked(c, OpenSockets), UNCHANGED servervars
  PROVE  TftpInv'
<1>1. client[c].pc = "sent" /\ UNCHANGED <<op, length, servervars>>
  BY DEF PushAcked
<1>2. PICK d \in Arrived(c) :
        LET me  == [client[c] EXCEPT !.sender = d.from]
            all == [me EXCEPT !.block = NextBlock(@), !.size = @ + Len(Pack(c))]
        IN  IF ~IsAck(d, me.block)
            THEN /\ client' = [client EXCEPT ![c] = Finished(me, "ACK", FALSE)]
                 /\ Carry({d}, {}, OpenSockets \ {c})
            ELSE IF Len(Pack(c)) < BlkSize
            THEN /\ client' = [client EXCEPT ![c] = Finished(all, "OK", TRUE)]
                 /\ Carry({d}, {}, OpenSockets \ {c})
            ELSE SendBlock(c, {d}, all, OpenSockets)
  BY DEF PushAcked
<1> DEFINE me == [client[c] EXCEPT !.sender = d.from]
           all == [me EXCEPT !.block = NextBlock(@), !.size = @ + Len(Pack(c))]
<1>3. GoodClient(c, me) /\ me.sender # Server /\ c \in Pushers
  BY <1>1, ClientAnswered, ClientAsIs, FromServer DEF GoodClient
<1>4. Len(Pack(c)) \in Nat
  BY <1>1, NextToPush
<1>5. GoodClient(c, all) /\ all.sender # Server
  <2>1. me.block \in 0 .. BlockMod - 1 /\ me.size \in Nat
    BY <1>3 DEF GoodClient
  <2>2. NextBlock(me.block) \in 0 .. BlockMod - 1 /\ me.size + Len(Pack(c)) \in Nat
    BY <1>4, <2>1, Numbers
  <2> HIDE DEF me
  <2>3. QED
    BY <1>3, <2>2 DEF GoodClient
<1>6. CASE ~IsAck(d, me.block)
  <2>1. client' = [client EXCEPT ![c] = Finished(me, "ACK", FALSE)] /\ Carry({d}, {}, OpenSockets \ {c})
    BY <1>2, <1>6
  <2> HIDE DEF me, all
  <2>2. QED
    BY <1>1, <1>3, <2>1, ClientQuits
<1>7. CASE IsAck(d, me.block) /\ Len(Pack(c)) < BlkSize
  <2>1. client' = [client EXCEPT ![c] = Finished(all, "OK", TRUE)] /\ Carry({d}, {}, OpenSockets \ {c})
    BY <1>2, <1>7
  <2> HIDE DEF me, all
  <2>2. QED
    BY <1>1, <1>5, <2>1, ClientQuits
<1>8. CASE IsAck(d, me.block) /\ ~(Len(Pack(c)) < BlkSize)
  <2>1. SendBlock(c, {d}, all, OpenSockets)
    BY <1>2, <1>8
  <2>2. Len(Pack(c)) >= BlkSize
    BY <1>4, <1>8, XferAssumption
  <2>3. GoodClient(c, client[c])
    BY ClientAsIs
  <2>4. /\ all.block = NextBlock(client[c].block) /\ all.size = client[c].size + Len(Pack(c))
        /\ all.complete = client[c].complete
    BY <2>3 DEF GoodClient
  <2>5. Short => /\ all.block >= 1 /\ all.size = (all.block - 1) * BlkSize
                 /\ all.size <= length[c] /\ ~all.complete
    BY <1>1, <2>2, <2>4, NextToPush, ClientAsIs DEF PushClient
  <2> HIDE DEF me, all
  <2>6. QED
    BY <1>1, <1>3, <1>5, <2>1, <2>5, SendBlockKeeps
<1>9. QED
  BY <1>6, <1>7, <1>8

\* The block is given up or sent again
LEMMA PushTimeoutKeeps ==
  ASSUME TftpInv, NEW c \in Clients, PushTimeout(c, OpenSockets), UNCHANGED servervars
  PROVE  TftpInv'
<1>1. client[c].pc = "sent" /\ UNCHANGED <<op, length, servervars>>
  BY DEF PushTimeout
<1>2. GoodClient(c, client[c]) /\ (Short => PushClient(c, client[c]))
  BY ClientAsIs
<1>3. c \in Pushers /\ client[c].sender # Server
  BY <1>1, <1>2 DEF GoodClient
<1>4. CASE LastTry(c)
  BY <1>1, <1>2, <1>4, ClientQuits DEF PushTimeout
<1>5. CASE ~LastTry(c)
  <2>1. PICK ok \in SendOk, told \in SendOk :
          /\ client' = [client EXCEPT ![c] =
               IF ok THEN [client[c] EXCEPT !.retry = FewerTries(client[c].retry)]
               ELSE Finished(client[c], "DATA", FALSE)]
          /\ Carry({}, IF ok THEN {DataPacket(c, client[c].sender, client[c].block, Pack(c))}
                       ELSE Tell(told, c, client[c]),
                   IF ok THEN OpenSockets ELSE OpenSockets \ {c})
    BY <1>5 DEF PushTimeout
  <2>2. CASE ok
    <3> DEFINE me == [client[c] EXCEPT !.retry = FewerTries(@)]
               p == DataPacket(c, client[c].sender, client[c].block, Pack(c))
    <3>1. FewerTries(client[c].retry) \in 1 .. MaxRetry
      BY <1>2, <1>5, XferAssumption DEF GoodClient, LastTry, FewerTries
    <3>2. GoodClient(c, me) /\ (Short => PushClient(c, me)) /\ me.pc = "sent"
      BY <1>1, <1>2, <3>1 DEF GoodClient, PushClient
    <3>3. GoodDatagram(p) /\ (Short => PushDatagram(p))
      BY <1>1, <1>2, <1>3, BlockSent DEF PushClient, Pack
    <3>4. client' = [client EXCEPT ![c] = me] /\ Carry({}, {p}, OpenSockets)
      <4>1. Carry({}, {p}, OpenSockets)
        BY <2>1, <2>2
      <4>2. client' = [client EXCEPT ![c] = IF ok THEN me ELSE Finished(client[c], "DATA", FALSE)]
        BY <2>1
      <4>3. (IF ok THEN me ELSE Finished(client[c], "DATA", FALSE)) = me
        BY <2>2
      <4> HIDE DEF me
      <4>4. client' = [client EXCEPT ![c] = me]
        BY <4>2, <4>3
      <4>5. QED
        BY <4>1, <4>4
    <3> HIDE DEF me, p
    <3>5. QED
      BY <1>1, <3>2, <3>3, <3>4, ClientMoves
  <2>3. CASE ~ok
    <3>1. /\ client' = [client EXCEPT ![c] = Finished(client[c], "DATA", FALSE)]
          /\ Carry({}, Tell(told, c, client[c]), OpenSockets \ {c})
      BY <2>1, <2>3
    <3>2. \A d \in Tell(told, c, client[c]) : GoodDatagram(d) /\ PushDatagram(d)
      BY <1>2, <1>3, Told
    <3>3. QED
      BY <1>1, <1>2, <3>1, <3>2, ClientStops
  <2>4. QED
    BY <2>2, <2>3
<1>6. QED
  BY <1>4, <1>5

\* What a puller acknowledges
LEMMA AckSent ==
  ASSUME TftpInv, NEW c \in Clients, NEW p \in Ports \ {Server}, Owns(p, c),
         NEW b \in 0 .. BlockMod - 1
  PROVE  GoodDatagram(AckPacket(c, p, b)) /\ PushDatagram(AckPacket(c, p, b))
<1>1. <<>> \in Seq(Nat) /\ p \in Ports /\ p # Server /\ p \notin Clients
  BY Apart DEF TftpInv
<1>2. GoodDatagram(AckPacket(c, p, b))
  BY <1>1, ToServer DEF AckPacket
<1>3. PushDatagram(AckPacket(c, p, b))
  BY <1>1 DEF PushDatagram, AckPacket, Datagram, Pushers
<1>4. QED
  BY <1>2, <1>3

\* A puller gets a block and acknowledges it
LEMMA PullDataKeeps ==
  ASSUME TftpInv, NEW c \in Clients, PullData(c, OpenSockets), UNCHANGED servervars
  PROVE  TftpInv'
<1>1. c \in Pullers /\ client[c].pc \in {"answer", "acked"} /\ UNCHANGED <<op, length, servervars>>
  BY DEF PullData
<1>2. PICK d \in Arrived(c), ok \in LocalOk :
       LET me  == [client[c] EXCEPT !.sender = d.from]
           all == [me EXCEPT !.block = d.block, !.size = @ + Len(d.data)]
           ack == AckPacket(c, d.from, d.block)
       IN     IF ~IsData(d, me.block)
              THEN /\ client' = [client EXCEPT ![c] = Finished(me, "DATA", FALSE)]
                   /\ Carry({d}, {}, OpenSockets \ {c})
                   /\ UNCHANGED local
              ELSE IF ~ok
              THEN /\ client' = [client EXCEPT ![c] = Finished(me, "FILE", FALSE)]
                   /\ \E told \in SendOk : Carry({d}, Tell(told, c, me), OpenSockets \ {c})
                   /\ UNCHANGED local
              ELSE \E sent \in SendOk :
                   /\ local' = [local EXCEPT ![c] = Overlay(@, me.size, d.data)]
                   /\ client' = [client EXCEPT ![c] =
                        IF Len(d.data) < BlkSize THEN Finished(all, "OK", TRUE)
                        ELSE [all EXCEPT !.pc = "acked", !.retry = MaxRetry]]
                   /\ Carry({d}, IF sent THEN {ack} ELSE {},
                            IF Len(d.data) < BlkSize THEN OpenSockets \ {c} ELSE OpenSockets)
  BY DEF PullData
<1> DEFINE me  == [client[c] EXCEPT !.sender = d.from]
           all == [me EXCEPT !.block = d.block, !.size = @ + Len(d.data)]
           you == [all EXCEPT !.pc = "acked", !.retry = MaxRetry]
           ack == AckPacket(c, d.from, d.block)
<1>3. /\ d.from \in Ports \ {Server} /\ Owns(d.from, c)
      /\ d.block \in 0 .. BlockMod - 1 /\ Len(d.data) \in Nat
  BY FromServer, LenProperties
<1>4. GoodClient(c, me) /\ me.sender # Server /\ me.size \in Nat
  BY <1>3, ClientAnswered, ClientAsIs DEF GoodClient
<1>5. GoodClient(c, all)
  <2>1. me.size + Len(d.data) \in Nat
    BY <1>3, <1>4
  <2> HIDE DEF me
  <2>2. QED
    BY <1>3, <1>4, <2>1 DEF GoodClient
<1>6. GoodDatagram(ack) /\ PushDatagram(ack)
  BY <1>3, AckSent
<1>7. CASE ~IsData(d, me.block)
  <2>1. client' = [client EXCEPT ![c] = Finished(me, "DATA", FALSE)] /\ Carry({d}, {}, OpenSockets \ {c})
    BY <1>2, <1>7
  <2> HIDE DEF me, all, you, ack
  <2>2. QED
    BY <1>1, <1>4, <2>1, ClientQuits
<1>8. CASE IsData(d, me.block) /\ ~ok
  <2>1. PICK told \in SendOk :
          /\ client' = [client EXCEPT ![c] = Finished(me, "FILE", FALSE)]
          /\ Carry({d}, Tell(told, c, me), OpenSockets \ {c})
    BY <1>2, <1>8
  <2>2. \A x \in Tell(told, c, me) : GoodDatagram(x) /\ PushDatagram(x)
    BY <1>4, Told
  <2> HIDE DEF me, all, you, ack
  <2>3. QED
    BY <1>1, <1>4, <2>1, <2>2, ClientStops
<1>9. CASE IsData(d, me.block) /\ ok
  <2>1. PICK sent \in SendOk :
          /\ client' = [client EXCEPT ![c] =
               IF Len(d.data) < BlkSize THEN Finished(all, "OK", TRUE) ELSE you]
          /\ Carry({d}, IF sent THEN {ack} ELSE {},
                   IF Len(d.data) < BlkSize THEN OpenSockets \ {c} ELSE OpenSockets)
    BY <1>2, <1>9
  <2> DEFINE out == IF sent THEN {ack} ELSE {}
  <2>2. \A x \in out : GoodDatagram(x) /\ PushDatagram(x)
    BY <1>6
  <2>3. CASE Len(d.data) < BlkSize
    <3>1. /\ client' = [client EXCEPT ![c] = Finished(all, "OK", TRUE)]
          /\ Carry({d}, out, OpenSockets \ {c})
      BY <2>1, <2>3
    <3> HIDE DEF me, all, you, ack, out
    <3>2. QED
      BY <1>1, <1>5, <2>2, <3>1, ClientStops
  <2>4. CASE ~(Len(d.data) < BlkSize)
    <3>1. client' = [client EXCEPT ![c] = you] /\ Carry({d}, out, OpenSockets)
      BY <2>1, <2>4
    <3>2. MaxRetry \in 1 .. MaxRetry
      BY XferAssumption
    <3>3. all.sender # Server /\ all.complete = client[c].complete
      BY <1>3, ClientAsIs DEF GoodClient
    <3>4. GoodClient(c, you) /\ you.pc = "acked" /\ (~all.complete => ~you.complete)
      <4> HIDE DEF all
      <4>1. QED
        BY <1>1, <1>5, <3>2, <3>3 DEF GoodClient
    <3>5. Short => PushClient(c, you)
      <4>1. Short => ~client[c].complete
        BY <1>1, ClientAsIs DEF PushClient
      <4> HIDE DEF you, all
      <4>2. QED
        BY <3>3, <3>4, <4>1 DEF PushClient
    <3>6. \A x \in out : GoodDatagram(x) /\ (Short => PushDatagram(x))
      BY <2>2
    <3> HIDE DEF me, all, you, ack, out
    <3>7. QED
      BY <1>1, <3>1, <3>4, <3>5, <3>6, ClientMoves
  <2>5. QED
    BY <2>3, <2>4
<1>10. QED
  BY <1>7, <1>8, <1>9

\* The acknowledgement is given up or sent again
LEMMA PullTimeoutKeeps ==
  ASSUME TftpInv, NEW c \in Clients, PullTimeout(c, OpenSockets), UNCHANGED servervars
  PROVE  TftpInv'
<1>1. client[c].pc = "acked" /\ UNCHANGED <<op, length, servervars>>
  BY DEF PullTimeout
<1>2. GoodClient(c, client[c]) /\ (Short => PushClient(c, client[c]))
  BY ClientAsIs
<1>3. CASE LastTry(c)
  BY <1>1, <1>2, <1>3, ClientQuits DEF PullTimeout
<1>4. CASE ~LastTry(c)
  <2>1. PICK sent \in SendOk :
          /\ client' = [client EXCEPT ![c].retry = FewerTries(@)]
          /\ Carry({}, IF sent THEN {AckPacket(c, client[c].sender, client[c].block)} ELSE {}, OpenSockets)
    BY <1>4 DEF PullTimeout
  <2> DEFINE me == [client[c] EXCEPT !.retry = FewerTries(@)]
             out == IF sent THEN {AckPacket(c, client[c].sender, client[c].block)} ELSE {}
  <2>2. FewerTries(client[c].retry) \in 1 .. MaxRetry
    BY <1>2, <1>4, XferAssumption DEF GoodClient, LastTry, FewerTries
  <2>3. GoodClient(c, me) /\ (Short => PushClient(c, me)) /\ me.pc = "acked"
    BY <1>1, <1>2, <2>2 DEF GoodClient, PushClient
  <2>4. /\ client[c].sender \in Ports \ {Server} /\ Owns(client[c].sender, c)
        /\ client[c].block \in 0 .. BlockMod - 1
    BY <1>1, <1>2 DEF GoodClient
  <2>5. \A d \in out : GoodDatagram(d) /\ (Short => PushDatagram(d))
    BY <2>4, AckSent
  <2>6. client' = [client EXCEPT ![c] = me] /\ Carry({}, out, OpenSockets)
    BY <2>1
  <2> HIDE DEF me, out
  <2>7. QED
    BY <1>1, <2>3, <2>5, <2>6, ClientMoves
<1>5. QED
  BY <1>3, <1>4

\* Every step of a client keeps the invariant.
LEMMA ClientKeeps ==
  ASSUME TftpInv, NEW c \in Clients, Client(c)
  PROVE  TftpInv'
BY SendRequestKeeps, RequestTimeoutKeeps, PushAcceptedKeeps, PushAckedKeeps, PushTimeoutKeeps,
   PullDataKeeps, PullTimeoutKeeps DEF Client, ClientStep

(***************************************************************************)
(* A step of the server.                                                   *)
(***************************************************************************)

\* What a step of the server never takes back: files only get longer, what a
\* push has written stays, and an entry of the table is an old one of the
\* same transfer or has a new socket
Grows ==
  /\ UNCHANGED clientvars /\ port' \in {port, port + 1}
  /\ disk' \in [Clients -> Seq(Nat)]
  /\ \A c \in Clients : Len(disk[c]) <= Len(disk'[c])
  /\ Short => \A c \in Clients : \A n \in Nat : There(c, n) => There(c, n)'
  /\ DOMAIN table' = 1 .. Slots
  /\ \A i \in Busy' :
       \/ /\ i \in Busy /\ table'[i].xfer = table[i].xfer /\ table'[i].sender = table[i].sender
       \/ table'[i].xfer = port /\ port' = port + 1

\* Each port has one owner and keeps it
LEMMA OwnerStays ==
  ASSUME TftpInv, Grows
  PROVE  /\ Ports \subseteq Ports' /\ Ports' \subseteq Nat /\ Server \in Ports
         /\ \A c, p : p \in Ports /\ Owns(p, c) => Owns(p, c)'
<1>1. port \in Nat /\ port > Server /\ port' >= port /\ port' \in Nat
  BY DEF TftpInv, Kept, Grows
<1>2. Ports \subseteq Ports' /\ Ports' \subseteq Nat /\ Server \in Ports /\ port \notin Ports
  <2>1. Server = 69
    BY DEF Server
  <2>2. Ports = 69 .. port - 1 /\ Ports' = 69 .. port' - 1
    BY DEF Ports, Server
  <2>3. 69 .. port - 1 \subseteq 69 .. port' - 1 /\ 69 .. port' - 1 \subseteq Nat
    <3>1. PICK m \in Nat, n \in Nat : m = port /\ n = port' /\ m <= n
      BY <1>1
    <3>2. m <= n
      BY <3>1
    <3>3. 69 .. m - 1 \subseteq 69 .. n - 1 /\ 69 .. n - 1 \subseteq Nat
      BY <3>2
    <3>4. QED
      BY <3>1, <3>3
  <2>4. 69 \in 69 .. port - 1 /\ port \notin 69 .. port - 1
    BY <1>1, <2>1
  <2>5. QED
    BY <2>1, <2>2, <2>3, <2>4
<1>3. ASSUME NEW c, NEW p \in Ports, Owns(p, c) PROVE Owns(p, c)'
  BY <1>2, <1>3 DEF Owns, Grows
<1>4. QED
  BY <1>2, <1>3

\* What was good stays good
LEMMA GoodStays ==
  ASSUME TftpInv, Grows
  PROVE  /\ \A d : GoodDatagram(d) => GoodDatagram(d)'
         /\ \A t : Shape(t) => Shape(t)'
         /\ \A t : GoodEntry(t) => GoodEntry(t)'
         /\ \A c, me : GoodClient(c, me) => GoodClient(c, me)'
<1>1. /\ \A c \in Clients : Len(disk[c]) <= Len(disk'[c])
      /\ disk \in [Clients -> Seq(Nat)] /\ disk' \in [Clients -> Seq(Nat)]
      /\ Pushers' = Pushers /\ Pullers' = Pullers
  BY DEF Grows, clientvars, Pushers, Pullers, TftpInv, Kept
<1>2. ASSUME NEW t, Shape(t) PROVE Shape(t)'
  <2>1. t.sender \in Clients /\ t.fd.off \in Nat
    BY <1>2 DEF Shape
  <2>2. Len(disk[t.sender]) \in Nat /\ Len(disk'[t.sender]) \in Nat
    BY <1>1, <2>1, LenProperties
  <2>3. QED
    BY <1>1, <1>2, <2>1, <2>2 DEF Shape
<1>3. \A d : GoodDatagram(d) => GoodDatagram(d)'
  BY OwnerStays DEF GoodDatagram
<1>4. \A t : GoodEntry(t) => GoodEntry(t)'
  BY <1>2, OwnerStays DEF GoodEntry
<1>5. \A c, me : GoodClient(c, me) => GoodClient(c, me)'
  BY <1>1, OwnerStays DEF GoodClient
<1>6. QED
  BY <1>2, <1>3, <1>4, <1>5

\* ... and what was true of a push stays true
LEMMA PushStays ==
  ASSUME TftpInv, Grows, Short
  PROVE  /\ \A d : GoodDatagram(d) /\ PushDatagram(d) => PushDatagram(d)'
         /\ \A t : Shape(t) /\ PushEntry(t) => PushEntry(t)'
         /\ \A c, me : PushClient(c, me) => PushClient(c, me)'
<1>1. /\ \A c \in Clients : \A n \in Nat : There(c, n) => There(c, n)'
      /\ Pushers' = Pushers /\ Pullers' = Pullers /\ length' = length
      /\ Pushers \subseteq Clients
  BY DEF Grows, clientvars, Pushers, Pullers
<1>2. \A c \in Clients : \A b \in Nat : Upto(c, b) \in Nat /\ Upto(c, b)' = Upto(c, b)
  <2> SUFFICES ASSUME NEW c \in Clients, NEW b \in Nat
               PROVE  Upto(c, b) \in Nat /\ Upto(c, b)' = Upto(c, b)
    OBVIOUS
  <2>1. length[c] \in Nat
    BY ClientAssumption DEF TftpInv, Kept
  <2>2. b * BlkSize \in Nat
    BY XferAssumption
  <2>3. QED
    BY <1>1, <2>1, <2>2 DEF Upto
<1>3. ASSUME NEW d, GoodDatagram(d), PushDatagram(d) PROVE PushDatagram(d)'
  <2>1. d.block \in Nat
    BY <1>3 DEF GoodDatagram
  <2>2. QED
    BY <1>1, <1>2, <1>3, <2>1 DEF PushDatagram, Source
<1>4. ASSUME NEW t, Shape(t), PushEntry(t) PROVE PushEntry(t)'
  BY <1>1, <1>4 DEF PushEntry, Shape
<1>5. \A c, me : PushClient(c, me) => PushClient(c, me)'
  BY <1>1 DEF PushClient
<1>6. QED
  BY <1>3, <1>4, <1>5

\* A step of the server that sends good datagrams and leaves good entries
LEMMA ServerMoves ==
  ASSUME TftpInv, Grows, Sockets', pool' = pool, is_stop' \in BOOLEAN,
         \A i \in Busy' : GoodEntry(table[i])' /\ (Short => PushEntry(table[i])'),
         NEW read, NEW sent, Carry(read, sent, OpenClients \cup socks'),
         \A d \in sent : GoodDatagram(d)' /\ (Short => PushDatagram(d)')
  PROVE  TftpInv'
<1>1. IsABag(net') /\ \A d \in Under' : d.to \in OpenSockets' /\ (d \in Under \/ d \in sent)
  BY CarryUnder DEF TftpInv, Kept, OpenSockets, OpenClients, Grows, clientvars
<1>2. client' = client /\ op' = op /\ length' = length
  BY DEF Grows, clientvars
<1>3. Kept'
  <2>1. port' \in Nat /\ port' > Server
    BY DEF TftpInv, Kept, Grows, Server
  <2>2. QED
    BY <1>1, <1>2, <2>1 DEF TftpInv, Kept, Grows
<1>4. Goods'
  <2>1. \A d \in Under' : GoodDatagram(d)' /\ d.to \in OpenSockets'
    BY <1>1, GoodStays DEF TftpInv, Goods
  <2>2. ASSUME NEW c \in Clients PROVE GoodClient(c, client[c])'
    <3>1. PICK me : me = client[c]
      OBVIOUS
    <3>2. GoodClient(c, me)
      BY <3>1 DEF TftpInv, Goods
    <3>3. GoodClient(c, me)' /\ me = client'[c]
      BY <1>2, <3>1, <3>2, GoodStays
    <3>4. QED
      BY <3>3 DEF GoodClient
  <2>3. QED
    BY <2>1, <2>2 DEF Goods
<1>5. ASSUME Short PROVE Pushes'
  <2>1. \A d \in Under' : PushDatagram(d)'
    BY <1>1, <1>5, PushStays DEF TftpInv, Goods, Pushes
  <2>2. ASSUME NEW c \in Clients PROVE PushClient(c, client[c])'
    <3>1. PICK me : me = client[c]
      OBVIOUS
    <3>2. PushClient(c, me)
      BY <1>5, <3>1 DEF TftpInv, Pushes
    <3>3. PushClient(c, me)' /\ me = client'[c]
      BY <1>2, <1>5, <3>1, <3>2, PushStays
    <3>4. QED
      BY <3>3 DEF PushClient
  <2>3. QED
    BY <1>5, <2>1, <2>2 DEF Pushes
<1>6. QED
  BY <1>3, <1>4, <1>5 DEF TftpInv

\* What the server reads from a socket was sent by the client that owns it
LEMMA FromClient ==
  ASSUME TftpInv, NEW p \in Ports, NEW d \in Arrived(p)
  PROVE  /\ d \in Under /\ d.to = p /\ d.from \in Clients /\ Owns(p, d.from)
         /\ d.op \in {"RRQ", "WRQ", "DATA", "ACK", "ERROR"}
         /\ d.block \in 0 .. BlockMod - 1 /\ d.data \in Seq(Nat)
         /\ Short => PushDatagram(d)
<1>1. d \in Under /\ d.to = p
  BY DEF Arrived
<1>2. GoodDatagram(d) /\ (Short => PushDatagram(d))
  BY <1>1 DEF TftpInv, Goods, Pushes
<1>3. p \notin Clients
  BY Apart DEF TftpInv
<1>4. QED
  BY <1>1, <1>2, <1>3 DEF GoodDatagram

\* An entry of the table owns its socket alone
LEMMA EntryOwns ==
  ASSUME TftpInv, NEW i \in Busy
  PROVE  /\ GoodEntry(table[i]) /\ Shape(table[i]) /\ (Short => PushEntry(table[i]))
         /\ table[i].xfer \in Ports \ {Server} /\ table[i].sender \in Clients
         /\ Owns(table[i].xfer, table[i].sender)
         /\ run = "run"
         /\ \A d \in Arrived(table[i].xfer) : d.from = table[i].sender
<1>1. GoodEntry(table[i]) /\ Shape(table[i]) /\ (Short => PushEntry(table[i]))
  BY DEF TftpInv, Goods, Pushes, GoodEntry
<1>2. table[i].xfer \in Ports \ {Server} /\ table[i].sender \in Clients
  BY <1>1 DEF GoodEntry, Shape
<1>3. Owns(table[i].xfer, table[i].sender) /\ run = "run"
  BY DEF TftpInv, Sockets, Owns
<1>4. \A d \in Arrived(table[i].xfer) : d.from = table[i].sender
  BY <1>2, FromClient DEF Owns
<1>5. QED
  BY <1>1, <1>2, <1>3, <1>4

\* What the server sends from a socket to the client that owns it is a good
\* datagram, and says nothing wrong about a push unless it acknowledges too much
LEMMA AnswerGood ==
  ASSUME TftpInv, Grows, NEW c \in Clients, NEW p \in Ports', p # Server, Owns(p, c)',
         NEW k \in {"RRQ", "WRQ", "DATA", "ACK", "ERROR"},
         NEW b \in 0 .. BlockMod - 1, NEW data \in Seq(Nat),
         Short /\ k = "ACK" /\ c \in Pushers => There(c, Upto(c, b))'
  PROVE  LET d == Datagram(p, c, k, b, data)
         IN  GoodDatagram(d)' /\ (Short => PushDatagram(d)')
<1>1. GoodDatagram(Datagram(p, c, k, b, data))'
  BY DEF GoodDatagram, Datagram
<1>2. p \notin Clients /\ c # Server
  BY ClientAssumption DEF Ports, Server
<1>3. Pushers' = Pushers /\ Pushers \subseteq Clients
  BY DEF Grows, clientvars, Pushers
<1>4. Short => PushDatagram(Datagram(p, c, k, b, data))'
  BY <1>2, <1>3 DEF PushDatagram, Datagram
<1>5. QED
  BY <1>1, <1>4

\* The server's own socket is none of a transfer
LEMMA ServerPort ==
  ASSUME Kept PROVE Server \in Ports /\ port \notin Ports /\ port # Server
BY DEF Kept, Ports, Server

\* There are sockets for the server and for the entries of the table only
LEMMA SocketsFew ==
  ASSUME TftpInv, run = "run"
  PROVE  IsFiniteSet(socks) /\ Cardinality(socks) \in Nat /\ Cardinality(socks) < Slots + 2
<1> DEFINE X == {table[i].xfer : i \in Busy}
           f == [i \in Busy |-> table[i].xfer]
<1>1. Slots \in Nat
  BY ServerAssumption
<1>2. IsFiniteSet(1 .. Slots) /\ Cardinality(1 .. Slots) = Slots
  BY <1>1, FS_Interval
<1>3. Busy \in SUBSET (1 .. Slots)
  BY DEF Busy
<1>4. IsFiniteSet(Busy) /\ Cardinality(Busy) <= Slots
  BY <1>2, <1>3, FS_Subset
<1>5. f \in Surjection(Busy, X)
  BY DEF Surjection
<1> HIDE DEF X, f
<1>6. IsFiniteSet(X) /\ Cardinality(X) <= Cardinality(Busy)
  BY <1>4, <1>5, FS_Surjection
<1>7. IsFiniteSet({Server}) /\ Cardinality({Server}) = 1
  BY FS_Singleton
<1>8. /\ IsFiniteSet(X \cup {Server})
      /\ Cardinality(X \cup {Server}) = IF Server \in X THEN Cardinality(X) ELSE Cardinality(X) + 1
  BY <1>6, FS_AddElement
<1>9. socks = X \cup {Server}
  BY DEF TftpInv, Sockets, X
<1>10. Cardinality(X) \in Nat /\ Cardinality(Busy) \in Nat /\ Cardinality(socks) \in Nat
  BY <1>4, <1>6, <1>8, <1>9, FS_CardinalityType
<1>11. QED
  BY <1>1, <1>4, <1>6, <1>8, <1>9, <1>10

\* A step that leaves the files and the entries alone
LEMMA SameEntries ==
  ASSUME TftpInv, UNCHANGED <<clientvars, disk>>, port' \in {port, port + 1},
         DOMAIN table' = 1 .. Slots, Busy' = Busy, \A i \in Busy : table'[i] = table[i]
  PROVE  /\ Grows
         /\ \A i \in Busy' : GoodEntry(table[i])' /\ (Short => PushEntry(table[i])')
         /\ UNCHANGED <<run, socks, pool>> => Sockets'
<1>1. disk' = disk /\ length' = length
  BY DEF clientvars
<1>2. Grows
  <2>1. \A c, n : There(c, n)' = There(c, n)
    BY <1>1 DEF There
  <2>2. \A c \in Clients : Len(disk[c]) <= Len(disk'[c])
    BY <1>1, LenProperties DEF TftpInv, Kept
  <2>3. QED
    BY <1>1, <2>1, <2>2 DEF Grows, TftpInv, Kept
<1>3. ASSUME NEW i \in Busy' PROVE GoodEntry(table[i])' /\ (Short => PushEntry(table[i])')
  <2>1. PICK t : t = table[i]
    OBVIOUS
  <2>2. GoodEntry(t) /\ (Short => PushEntry(t)) /\ Shape(t)
    BY <2>1, EntryOwns
  <2>3. GoodEntry(t)' /\ (Short => PushEntry(t)') /\ t = table'[i]
    BY <1>2, <2>1, <2>2, GoodStays, PushStays
  <2>4. QED
    BY <2>3 DEF GoodEntry, Shape, PushEntry, There
<1>4. UNCHANGED <<run, socks, pool>> => Sockets'
  BY DEF TftpInv, Sockets
<1>5. QED
  BY <1>2, <1>3, <1>4

\* ... as when the table is not touched at all
LEMMA SameTable ==
  ASSUME TftpInv, UNCHANGED <<clientvars, disk, table>>, port' \in {port, port + 1}
  PROVE  /\ Grows
         /\ \A i \in Busy' : GoodEntry(table[i])' /\ (Short => PushEntry(table[i])')
         /\ UNCHANGED <<run, socks, pool>> => Sockets'
<1>1. DOMAIN table' = 1 .. Slots /\ Busy' = Busy /\ \A i \in Busy : table'[i] = table[i]
  BY DEF Busy, TftpInv, Kept
<1>2. QED
  BY <1>1, SameEntries

\* After a null pointer the board stops: no table, no sockets
LEMMA Crashes ==
  ASSUME TftpInv, NEW pointer \in {"unborn", "dead"}, Crash(pointer), UNCHANGED pool,
         pointer = "unborn" => pool < Slots + 2,
         pointer = "dead" => MaxRetry \in SendFails
  PROVE  Busy' = {} /\ DOMAIN table' = 1 .. Slots /\ socks' = {} /\ Sockets'
<1>1. table' = [i \in 1 .. Slots |-> Free] /\ run' = pointer /\ socks' = {}
  BY DEF Crash, Empty
<1>2. Busy' = {}
  BY <1>1 DEF Busy
<1>3. Sockets'
  BY <1>1, <1>2 DEF Sockets
<1>4. QED
  BY <1>1, <1>2, <1>3

\* The actions of the server, one after the other: no socket is left
LEMMA NoSocketKeeps ==
  ASSUME TftpInv, NoSocket(OpenClients), UNCHANGED clientvars
  PROVE  TftpInv'
<1> DEFINE sent == {}
<1>1. PICK d \in Arrived(Server) :
       /\ IF d.op = "RRQ" THEN Crash("unborn") ELSE UNCHANGED <<run, table, socks>>
       /\ Carry({d}, sent, OpenClients \cup socks')
  BY DEF NoSocket
<1>2. /\ UNCHANGED <<clientvars, disk>> /\ port' = port /\ pool' = pool /\ is_stop' = is_stop
      /\ is_stop' \in BOOLEAN
  BY DEF NoSocket, TftpInv, Kept
<1>3. \A x \in sent : GoodDatagram(x)' /\ (Short => PushDatagram(x)')
  OBVIOUS
<1> HIDE DEF sent
<1>4. CASE d.op = "RRQ"
  <2>1. pool < Slots + 2
    <3>1. run = "run" /\ Cardinality(socks) >= pool /\ pool \in Nat
      BY DEF NoSocket, TftpInv, Kept
    <3>2. QED
      BY <3>1, SocketsFew, ServerAssumption
  <2>2. Busy' = {} /\ DOMAIN table' = 1 .. Slots /\ Sockets'
    BY <1>1, <1>2, <1>4, <2>1, Crashes
  <2>3. Grows
    <3>1. \A c, n : There(c, n)' = There(c, n)
      BY <1>2 DEF There, clientvars
    <3>2. \A c \in Clients : Len(disk[c]) <= Len(disk'[c])
      BY <1>2, LenProperties DEF TftpInv, Kept
    <3>3. QED
      BY <1>2, <2>2, <3>1, <3>2 DEF Grows, TftpInv, Kept
  <2>4. \A i \in Busy' : GoodEntry(table[i])' /\ (Short => PushEntry(table[i])')
    BY <2>2
  <2>5. QED
    BY <1>1, <1>2, <1>3, <2>2, <2>3, <2>4, ServerMoves
<1>5. CASE d.op # "RRQ"
  <2>1. UNCHANGED <<clientvars, disk, table>> /\ UNCHANGED <<run, socks, pool>>
    BY <1>1, <1>2, <1>5
  <2>2. /\ Grows /\ Sockets'
        /\ \A i \in Busy' : GoodEntry(table[i])' /\ (Short => PushEntry(table[i])')
    BY <1>2, <2>1, SameTable
  <2>3. QED
    BY <1>1, <1>2, <1>3, <2>2, ServerMoves
<1>6. QED
  BY <1>4, <1>5

\* Opening a file to write it leaves a file that is there as it is
LEMMA CreatedFile ==
  ASSUME TftpInv, NEW c \in Clients
  PROVE  Created(disk[c]) = disk[c] /\ disk[c] # NoFile
<1>1. disk[c] \in Seq(Nat)
  BY DEF TftpInv, Kept
<1>2. ASSUME disk[c] = NoFile PROVE FALSE
  <2>1. disk[c] = <<-1>>
    BY <1>2 DEF NoFile
  <2>2. Len(disk[c]) = 1 /\ disk[c][1] = -1
    BY <2>1
  <2>3. disk[c][1] \in Nat
    BY <1>1, <2>2, ElementOfSeq
  <2>4. QED
    BY <2>2, <2>3
<1>3. QED
  BY <1>2 DEF Created

\* A request is refused
LEMMA RefuseKeeps ==
  ASSUME TftpInv, Refuse(OpenClients), UNCHANGED clientvars
  PROVE  TftpInv'
<1>1. PICK d \in Arrived(Server) :
       /\ Carry({d}, {ErrorPacket(port, d.from)}, OpenClients \cup socks)
       /\ disk' = IF d.op = "WRQ" /\ Writable
                  THEN [disk EXCEPT ![d.from] = Created(@)] ELSE disk
  BY DEF Refuse
<1>2. /\ port' = port + 1 /\ UNCHANGED <<run, is_stop, table, socks, pool>>
      /\ is_stop' \in BOOLEAN
  BY DEF Refuse, TftpInv, Kept
<1>3. d.from \in Clients
  BY ServerPort, FromClient DEF TftpInv
<1>4. disk' = disk
  BY <1>1, <1>3, CreatedFile DEF TftpInv, Kept
<1>5. /\ Grows /\ Sockets'
      /\ \A i \in Busy' : GoodEntry(table[i])' /\ (Short => PushEntry(table[i])')
  BY <1>2, <1>4, SameTable
<1>6. PICK p : p = port
  OBVIOUS
<1> DEFINE e == ErrorPacket(p, d.from)
<1>7. p \in Ports' /\ p # Server /\ p \in Nat /\ port' = p + 1
  BY <1>2, <1>6 DEF TftpInv, Kept, Ports, Server
<1>8. Owns(p, d.from)'
  BY <1>2, <1>6, EntryOwns, ServerPort DEF TftpInv, Owns, Busy
<1>9. GoodDatagram(e)' /\ (Short => PushDatagram(e)')
  <2>1. 0 \in 0 .. BlockMod - 1 /\ <<>> \in Seq(Nat)
    BY XferAssumption
  <2>2. QED
    BY <1>3, <1>5, <1>7, <1>8, <2>1, AnswerGood DEF ErrorPacket
<1> DEFINE sent == {e}
<1>10. Carry({d}, sent, OpenClients \cup socks')
  BY <1>1, <1>2, <1>6
<1>11. \A x \in sent : GoodDatagram(x)' /\ (Short => PushDatagram(x)')
  BY <1>9
<1>12. pool' = pool
  BY <1>2
<1> HIDE DEF e, sent
<1>13. QED
  BY <1>2, <1>5, <1>10, <1>11, <1>12, ServerMoves

\* What a transfer may send, and the entry after it
OutputOf(t, out) ==
  /\ Shape(out.entry) /\ out.entry.xfer = t.xfer /\ out.entry.sender = t.sender
  /\ out.entry.w_r = t.w_r /\ out.entry.retry = t.retry
  /\ t.w_r = "write" => out.entry = t
  /\ \E k \in {"DATA", "ACK"}, data \in Seq(Nat) :
       /\ out.packet = Datagram(t.xfer, t.sender, k, t.block, data)
       /\ k = "ACK" => t.w_r = "write"

\* What a transfer sends and the entry after it have the right shape
LEMMA OutputShape ==
  ASSUME TftpInv, NEW t, Shape(t), NEW resend
  PROVE  OutputOf(t, Output(t, resend))
<1> USE DEF OutputOf
<1>1. CASE t.w_r = "read"
  <2> DEFINE pos == IF resend THEN t.pos ELSE t.pos + t.last_read
             data == FileRead(t.fd, pos, disk[t.sender])
             entry == [t EXCEPT !.pos = pos, !.last_read = Len(data), !.fd = Advance(@, data)]
  <2>1. /\ t.sender \in Clients /\ t.fd.name \in Clients /\ t.fd.off \in Nat
        /\ t.pos \in Nat /\ t.last_read \in Nat
        /\ t.fd \in [name : Clients, off : Nat]
    BY <1>1, XferAssumption DEF Shape
  <2>2. t.fd # Bad
    <3>1. t.fd.name # 0
      BY <2>1, ClientAssumption
    <3>2. QED
      BY <3>1 DEF Bad
  <2>3. disk[t.sender] \in Seq(Nat)
    BY <2>1 DEF TftpInv, Kept
  <2>4. data = Block(disk[t.sender], t.fd.off)
    BY <2>2 DEF FileRead
  <2>5. data \in Seq(Nat) /\ Len(data) \in 0 .. BlkSize /\ Len(data) \in Nat
    <3>1. PICK blk : blk = Block(disk[t.sender], t.fd.off)
      OBVIOUS
    <3>2. blk \in Seq(Nat) /\ Len(blk) \in 0 .. BlkSize
      BY <2>1, <2>3, <3>1, BlockFile
    <3>3. data = blk
      BY <2>4, <3>1
    <3> HIDE DEF data
    <3>4. QED
      BY <3>2, <3>3, LenProperties
  <2>6. pos \in Nat
    BY <2>1
  <2>7. Output(t, resend) = [entry |-> entry, packet |-> DataPacket(t.xfer, t.sender, t.block, data)]
    BY <1>1 DEF Output, NextPiece
  <2> HIDE DEF pos, data
  <2>8. Advance(t.fd, data) \in [name : Clients, off : Nat] /\ Advance(t.fd, data).name = t.fd.name
    BY <2>1, <2>2, <2>5 DEF Advance
  <2>9. /\ Shape(entry) /\ entry.xfer = t.xfer /\ entry.sender = t.sender /\ entry.w_r = t.w_r
        /\ entry.retry = t.retry
    BY <1>1, <2>5, <2>6, <2>8 DEF Shape
  <2> HIDE DEF entry
  <2>10. QED
    BY <1>1, <2>5, <2>7, <2>9 DEF DataPacket
<1>2. CASE t.w_r = "write"
  <2>1. Output(t, resend) = [entry |-> t, packet |-> AckPacket(t.xfer, t.sender, t.block)]
    BY <1>2 DEF Output, Answer
  <2>2. \E k \in {"DATA", "ACK"}, data \in Seq(Nat) :
          /\ AckPacket(t.xfer, t.sender, t.block) = Datagram(t.xfer, t.sender, k, t.block, data)
          /\ k = "ACK" => t.w_r = "write"
    <3>1. <<>> \in Seq(Nat) /\ "ACK" \in {"DATA", "ACK"}
      OBVIOUS
    <3>2. QED
      BY <1>2, <3>1, Zenon DEF AckPacket
  <2>3. QED
    BY <1>2, <2>1, <2>2
<1>3. QED
  BY <1>1, <1>2 DEF Shape

\* An entry that acknowledges says what is on the server
LEMMA ReachedUpto ==
  ASSUME TftpInv, Grows, Short, NEW t, Shape(t), PushEntry(t), t.w_r = "write"
  PROVE  There(t.sender, Upto(t.sender, t.block))'
<1>1. /\ There(t.sender, t.fd.off) /\ t.fd.off = t.block * BlkSize
      /\ t.sender \in Clients /\ t.fd.off \in Nat
  BY DEF PushEntry, Shape
<1>2. There(t.sender, t.fd.off)' /\ t.fd.off <= length[t.sender] /\ length' = length
  BY <1>1 DEF Grows, There, clientvars
<1>3. Upto(t.sender, t.block)' = t.fd.off
  BY <1>1, <1>2 DEF Upto
<1>4. QED
  BY <1>2, <1>3 DEF There

\* What a transfer sends, first or again, is good
LEMMA OutputGood ==
  ASSUME TftpInv, Grows, NEW t, Shape(t), Short => PushEntry(t),
         t.xfer \in Ports', t.xfer # Server, Owns(t.xfer, t.sender)', NEW resend,
         NEW d, d = Output(t, resend).packet
  PROVE  GoodDatagram(d)' /\ (Short => PushDatagram(d)')
<1>1. PICK k \in {"DATA", "ACK"}, data \in Seq(Nat) :
        d = Datagram(t.xfer, t.sender, k, t.block, data) /\ (k = "ACK" => t.w_r = "write")
  BY OutputShape DEF OutputOf
<1>2. t.sender \in Clients /\ t.block \in 0 .. BlockMod - 1
  BY DEF Shape
<1>3. Short /\ k = "ACK" => There(t.sender, Upto(t.sender, t.block))'
  BY <1>1, ReachedUpto
<1>4. QED
  BY <1>1, <1>2, <1>3, AnswerGood

\* The entry of a new transfer
LEMMA EntryShape ==
  ASSUME TftpInv, NEW d \in Arrived(Server),
         NEW t, t = Entry(d, IF d.op = "RRQ" THEN OpenRead(d.from, disk[d.from])
                             ELSE OpenWrite(d.from))
  PROVE  Shape(t) /\ (Short => PushEntry(t)) /\ t.xfer = port /\ t.sender = d.from
<1>1. /\ d.from \in Clients /\ d.to = Server /\ d.op \in {"RRQ", "WRQ", "DATA", "ACK", "ERROR"}
      /\ Short => PushDatagram(d)
  BY ServerPort, FromClient DEF TftpInv
<1>2. disk[d.from] \in Seq(Nat) /\ Len(disk[d.from]) \in Nat /\ length[d.from] \in Nat
  BY <1>1, LenProperties, ClientAssumption DEF TftpInv, Kept
<1>3. port \in Nat /\ 0 \in 0 .. BlockMod - 1 /\ 1 \in 0 .. BlockMod - 1 /\ 0 * BlkSize = 0
      /\ MaxRetry \in 0 .. MaxRetry /\ 0 \in 0 .. BlkSize
  BY XferAssumption DEF TftpInv, Kept
<1>4. t = [xfer |-> port, sender |-> d.from, block |-> IF d.op = "RRQ" THEN 1 ELSE 0,
           w_r |-> IF d.op = "RRQ" THEN "read" ELSE "write", retry |-> MaxRetry,
           fd |-> [name |-> d.from, off |-> 0], pos |-> 0, last_read |-> 0]
  BY <1>1, CreatedFile DEF Entry, OpenRead, OpenWrite
<1>5. Shape(t)
  BY <1>1, <1>2, <1>3, <1>4 DEF Shape
<1>6. ASSUME Short PROVE PushEntry(t)
  <2>1. SUFFICES ASSUME t.w_r = "write" PROVE PushEntry(t)
    BY DEF PushEntry
  <2>2. d.op # "RRQ" /\ t.block = 0 /\ t.fd.off = 0 /\ t.sender = d.from
    BY <1>4, <2>1
  <2>3. d.from \in Pushers
    BY <1>1, <1>6, <2>2 DEF PushDatagram
  <2>4. There(d.from, 0)
    BY <1>2 DEF There
  <2>5. QED
    BY <1>3, <2>2, <2>3, <2>4 DEF PushEntry
<1>7. QED
  BY <1>4, <1>5, <1>6

\* A request gets an entry and its first answer
LEMMA RequestKeeps ==
  ASSUME TftpInv, Request(OpenClients), UNCHANGED clientvars
  PROVE  TftpInv'
<1>1. /\ run = "run" /\ Busy # 1 .. Slots /\ port' = port + 1
      /\ UNCHANGED <<run, is_stop, pool>> /\ UNCHANGED clientvars /\ is_stop' \in BOOLEAN
  BY DEF Request, TftpInv, Kept
<1>2. PICK d \in Arrived(Server), fails \in SendFails :
       LET fd == IF d.op = "RRQ" THEN OpenRead(d.from, disk[d.from]) ELSE OpenWrite(d.from)
           out == Output(Entry(d, fd), FALSE)
       IN  /\ d.op = "RRQ" \/ Writable
           /\ table' = [table EXCEPT ![Place] = IF Gone(fails) THEN Free ELSE out.entry]
           /\ socks' = IF Gone(fails) THEN socks ELSE socks \cup {port}
           /\ disk' = IF d.op = "WRQ" THEN [disk EXCEPT ![d.from] = Created(@)] ELSE disk
           /\ Carry({d}, Out(fails, out.packet), OpenClients \cup socks')
  BY DEF Request
<1>3. PICK p, t : p = port /\ t = Entry(d, IF d.op = "RRQ" THEN OpenRead(d.from, disk[d.from])
                                           ELSE OpenWrite(d.from))
  OBVIOUS
<1>4. Shape(t) /\ (Short => PushEntry(t)) /\ t.xfer = p /\ t.sender = d.from
  BY <1>3, EntryShape
<1>5. PICK e, m : e = Output(t, FALSE).entry /\ m = Output(t, FALSE).packet
  OBVIOUS
<1>6. /\ table' = [table EXCEPT ![Place] = IF Gone(fails) THEN Free ELSE e]
      /\ socks' = IF Gone(fails) THEN socks ELSE socks \cup {p}
      /\ Carry({d}, Out(fails, m), OpenClients \cup socks')
  BY <1>2, <1>3, <1>5
<1>7. /\ Shape(e) /\ e.xfer = p /\ e.sender = t.sender /\ e.w_r = t.w_r
      /\ t.w_r = "write" => e = t
  <2>1. OutputOf(t, Output(t, FALSE))
    BY <1>4, OutputShape, Zenon
  <2>2. QED
    BY <1>4, <1>5, <2>1 DEF OutputOf
<1>8. Place \in 1 .. Slots /\ Place \notin Busy
  BY <1>1, PlaceFree
<1>9. d.from \in Clients
  BY ServerPort, FromClient DEF TftpInv
<1>10. disk' = disk
  BY <1>2, <1>9, CreatedFile DEF TftpInv, Kept
<1>11. p \in Ports' /\ p # Server /\ p \notin Ports /\ port' = p + 1 /\ p \in Nat
  BY <1>1, <1>3 DEF TftpInv, Kept, Ports, Server
<1>12. DOMAIN table = 1 .. Slots
  BY DEF TftpInv, Kept
<1>13. \A i \in Busy : table[i].xfer \in Ports
  BY EntryOwns
<1> DEFINE sent == Out(fails, m)
<1>14. CASE Gone(fails)
  <2>1. /\ DOMAIN table' = 1 .. Slots /\ Busy' = Busy /\ \A i \in Busy : table'[i] = table[i]
        /\ socks' = socks
    BY <1>6, <1>8, <1>12, <1>14 DEF Busy
  <2>2. /\ Grows /\ Sockets'
        /\ \A i \in Busy' : GoodEntry(table[i])' /\ (Short => PushEntry(table[i])')
    BY <1>1, <1>10, <2>1, SameEntries
  <2>3. Owns(p, d.from)'
    BY <1>11, <1>13, <2>1 DEF Owns, Busy
  <2>4. \A x \in sent : GoodDatagram(x)' /\ (Short => PushDatagram(x)')
    BY <1>4, <1>5, <1>11, <2>2, <2>3, OutputGood DEF Out
  <2>5. Carry({d}, sent, OpenClients \cup socks') /\ pool' = pool
    BY <1>1, <1>6
  <2> HIDE DEF sent
  <2>6. QED
    BY <1>1, <2>2, <2>4, <2>5, ServerMoves
<1>15. CASE ~Gone(fails)
  <2>1. e # Free
    BY <1>7, <1>11 DEF Free, Shape, Server
  <2>2. PICK n \in 1 .. Slots : n = Place
    BY <1>8
  <2>3. /\ table' = [table EXCEPT ![n] = e] /\ socks' = socks \cup {p}
        /\ DOMAIN table' = 1 .. Slots /\ n \notin Busy
    BY <1>6, <1>8, <1>12, <1>15, <2>2
  <2>4. Busy' = Busy \cup {n} /\ table'[n] = e /\ \A i \in Busy : table'[i] = table[i]
    BY <1>12, <2>1, <2>3 DEF Busy
  <2>5. Grows
    <3>1. \A c, k : There(c, k)' = There(c, k)
      BY <1>1, <1>10 DEF There, clientvars
    <3>2. \A c \in Clients : Len(disk[c]) <= Len(disk'[c])
      BY <1>10, LenProperties DEF TftpInv, Kept
    <3>3. QED
      BY <1>1, <1>3, <1>7, <1>10, <2>3, <2>4, <3>1, <3>2 DEF Grows, TftpInv, Kept
  <2>6. Sockets'
    <3>1. socks = {Server} \cup {table[i].xfer : i \in Busy}
      BY <1>1 DEF TftpInv, Sockets
    <3>2. socks' = {Server} \cup {table'[i].xfer : i \in Busy'}
      BY <1>7, <2>3, <2>4, <3>1
    <3>3. \A i, j \in Busy' : table'[i].xfer = table'[j].xfer => i = j
      BY <1>7, <1>11, <1>13, <2>4 DEF TftpInv, Sockets
    <3>4. QED
      BY <1>1, <3>2, <3>3 DEF Sockets
  <2>7. ASSUME NEW i \in Busy' PROVE GoodEntry(table[i])' /\ (Short => PushEntry(table[i])')
    <3>1. PICK y : y = table'[i]
      OBVIOUS
    <3>2. Shape(y) /\ y.xfer \in Ports' \ {Server} /\ (Short => PushEntry(y))
      BY <1>4, <1>7, <1>11, <2>4, <2>5, <3>1, EntryOwns, OwnerStays DEF PushEntry
    <3>3. Shape(y)' /\ (Short => PushEntry(y)')
      BY <2>5, <3>2, GoodStays, PushStays
    <3>4. QED
      BY <3>1, <3>2, <3>3 DEF GoodEntry, Shape, PushEntry, There
  <2>8. Owns(p, d.from)'
    BY <1>4, <1>7, <1>11, <1>13, <2>4 DEF Owns
  <2>9. \A x \in sent : GoodDatagram(x)' /\ (Short => PushDatagram(x)')
    BY <1>4, <1>5, <1>11, <2>5, <2>8, OutputGood DEF Out
  <2>10. Carry({d}, sent, OpenClients \cup socks') /\ pool' = pool
    BY <1>1, <1>6
  <2> HIDE DEF sent
  <2>11. QED
    BY <1>1, <2>5, <2>6, <2>7, <2>9, <2>10, ServerMoves
<1>16. QED
  BY <1>14, <1>15

\* An entry is replaced by one of the same transfer, or it is given up
LEMMA KeepSound ==
  ASSUME TftpInv, NEW i \in Busy, NEW t, Keep(i, t),
         t.xfer = table[i].xfer, t.sender = table[i].sender, UNCHANGED <<run, pool>>
  PROVE  /\ DOMAIN table' = 1 .. Slots /\ Busy' = Busy /\ Sockets'
         /\ table'[i] = t /\ \A j \in Busy \ {i} : table'[j] = table[j]
<1>1. table' = [table EXCEPT ![i] = t] /\ DOMAIN table = 1 .. Slots /\ socks' = socks
  BY DEF Keep, TftpInv, Kept
<1>2. t # Free
  <2>1. t.xfer \in Ports
    BY EntryOwns
  <2>2. t.xfer # 0
    BY <2>1 DEF Ports, Server
  <2>3. QED
    BY <2>2 DEF Free
<1>3. Busy' = Busy /\ table'[i] = t /\ \A j \in Busy \ {i} : table'[j] = table[j]
  BY <1>1, <1>2 DEF Busy
<1>4. \A j \in Busy : table'[j].xfer = table[j].xfer
  BY <1>3
<1>5. Sockets'
  BY <1>1, <1>3, <1>4, EntryOwns DEF TftpInv, Sockets
<1>6. QED
  BY <1>1, <1>3, <1>5

\* ... and with it its socket
LEMMA DestroySound ==
  ASSUME TftpInv, NEW i \in Busy, Destroy(i), UNCHANGED <<run, pool>>
  PROVE  /\ DOMAIN table' = 1 .. Slots /\ Busy' = Busy \ {i} /\ Sockets'
         /\ \A j \in Busy' : table'[j] = table[j]
<1>1. /\ table' = [table EXCEPT ![i] = Free] /\ DOMAIN table = 1 .. Slots
      /\ socks' = socks \ {table[i].xfer}
  BY DEF Destroy, TftpInv, Kept
<1>2. Busy' = Busy \ {i} /\ \A j \in Busy' : table'[j] = table[j]
  BY <1>1 DEF Busy
<1>3. Sockets'
  <2>1. run = "run" /\ table[i].xfer # Server
    BY EntryOwns
  <2>2. socks = {Server} \cup {table[j].xfer : j \in Busy}
    BY <2>1 DEF TftpInv, Sockets
  <2>3. \A j, k \in Busy : table[j].xfer = table[k].xfer => j = k
    BY DEF TftpInv, Sockets
  <2>4. socks' = {Server} \cup {table'[j].xfer : j \in Busy'}
    BY <1>1, <1>2, <2>1, <2>2, <2>3
  <2>5. QED
    BY <1>2, <2>1, <2>3, <2>4 DEF Sockets
<1>4. QED
  BY <1>1, <1>2, <1>3

\* Neither opens a socket; the files are as they were
LEMMA NoNewSocket ==
  ASSUME TftpInv, UNCHANGED <<clientvars, disk, port>>, DOMAIN table' = 1 .. Slots,
         \A j \in Busy' : /\ j \in Busy /\ table'[j].xfer = table[j].xfer
                          /\ table'[j].sender = table[j].sender
  PROVE  Grows
<1>1. \A c, k : There(c, k)' = There(c, k)
  BY DEF There, clientvars
<1>2. \A c \in Clients : Len(disk[c]) <= Len(disk'[c])
  BY LenProperties DEF TftpInv, Kept
<1>3. QED
  BY <1>1, <1>2 DEF Grows, TftpInv, Kept

\* An entry that is good and stays, or that replaces one
LEMMA EntryGood ==
  ASSUME TftpInv, Grows, NEW i \in Busy', NEW t, t = table'[i], Shape(t),
         t.xfer \in Ports \ {Server}, Short => PushEntry(t)
  PROVE  GoodEntry(table[i])' /\ (Short => PushEntry(table[i])')
<1>1. Shape(t)' /\ (Short => PushEntry(t)') /\ t.xfer \in Ports' \ {Server}
  BY GoodStays, PushStays, OwnerStays
<1>2. QED
  BY <1>1 DEF GoodEntry, Shape, PushEntry, There

\* A reader acknowledges a block and gets the next
LEMMA AckedKeeps ==
  ASSUME TftpInv, NEW i \in 1 .. Slots, Acked(i, OpenClients), UNCHANGED clientvars
  PROVE  TftpInv'
<1>1. /\ i \in Busy /\ table[i].w_r = "read" /\ UNCHANGED <<run, pool>>
      /\ UNCHANGED <<clientvars, disk, port>> /\ is_stop' \in BOOLEAN
  BY DEF Acked, TftpInv, Kept
<1>2. PICK d \in Arrived(table[i].xfer), fails \in SendFails :
       LET t == [table[i] EXCEPT !.sender = d.from]
           out == Output([t EXCEPT !.block = NextBlock(@)], FALSE)
           more == IsAck(d, t.block) /\ t.last_read >= BlkSize
       IN  /\ IF more /\ ~Gone(fails)
              THEN Keep(i, [out.entry EXCEPT !.retry = MaxRetry])
              ELSE Destroy(i)
           /\ Carry({d}, IF more THEN Out(fails, out.packet)
                         ELSE IF IsAck(d, t.block) THEN {} ELSE {ErrorPacket(t.xfer, d.from)},
                    OpenClients \cup socks')
  BY DEF Acked
<1>3. PICK s, t, u, x, c :
        /\ s = table[i] /\ x = table[i].xfer /\ c = table[i].sender
        /\ t = [s EXCEPT !.sender = d.from]
        /\ u = [t EXCEPT !.block = NextBlock(@)]
  OBVIOUS
<1>4. PICK e, m : e = Output(u, FALSE).entry /\ m = Output(u, FALSE).packet
  OBVIOUS
<1> DEFINE more == IsAck(d, t.block) /\ t.last_read >= BlkSize
           you == [e EXCEPT !.retry = MaxRetry]
           sent == IF more THEN Out(fails, m)
                   ELSE IF IsAck(d, t.block) THEN {} ELSE {ErrorPacket(t.xfer, d.from)}
<1>5. /\ IF more /\ ~Gone(fails) THEN Keep(i, you) ELSE Destroy(i)
      /\ Carry({d}, sent, OpenClients \cup socks')
  BY <1>2, <1>3, <1>4
<1>6. /\ Shape(s) /\ s.xfer = x /\ s.sender = c /\ s.w_r = "read" /\ d.from = c
      /\ x \in Ports \ {Server} /\ c \in Clients /\ Owns(x, c)
  BY <1>1, <1>3, EntryOwns
<1>7. Shape(t) /\ t.xfer = x /\ t.sender = c /\ t.w_r = "read"
  BY <1>3, <1>6 DEF Shape
<1>8. Shape(u) /\ u.xfer = x /\ u.sender = c /\ u.w_r = "read"
  <2>1. t.block \in 0 .. BlockMod - 1
    BY <1>7 DEF Shape
  <2>2. NextBlock(t.block) \in 0 .. BlockMod - 1
    BY <2>1, Numbers
  <2>3. QED
    BY <1>3, <1>7, <2>2 DEF Shape
<1>9. Shape(you) /\ you.xfer = x /\ you.sender = c /\ you.w_r = "read"
  <2>1. Shape(e) /\ e.xfer = x /\ e.sender = c /\ e.w_r = "read"
    BY <1>4, <1>8, OutputShape DEF OutputOf
  <2>2. MaxRetry \in 0 .. MaxRetry
    BY XferAssumption
  <2>3. QED
    BY <2>1, <2>2 DEF Shape
<1> HIDE DEF you
<1>10. /\ DOMAIN table' = 1 .. Slots /\ Sockets' /\ Grows
       /\ \A j \in Busy' : GoodEntry(table[j])' /\ (Short => PushEntry(table[j])')
  <2>1. CASE more /\ ~Gone(fails)
    <3>1. Keep(i, you)
      BY <1>5, <2>1
    <3>2. /\ DOMAIN table' = 1 .. Slots /\ Busy' = Busy /\ Sockets'
          /\ table'[i] = you /\ \A j \in Busy \ {i} : table'[j] = table[j]
      BY <1>1, <1>3, <1>9, <3>1, KeepSound
    <3>3. Grows
      BY <1>1, <1>3, <1>9, <3>2, NoNewSocket
    <3>4. ASSUME NEW j \in Busy' PROVE GoodEntry(table[j])' /\ (Short => PushEntry(table[j])')
      <4>1. PICK y : y = table'[j]
        OBVIOUS
      <4>2. Shape(y) /\ y.xfer \in Ports \ {Server} /\ (Short => PushEntry(y))
        BY <1>6, <1>9, <3>2, <4>1, EntryOwns DEF PushEntry
      <4>3. QED
        BY <3>3, <4>1, <4>2, EntryGood
    <3>5. QED
      BY <3>2, <3>3, <3>4
  <2>2. CASE ~(more /\ ~Gone(fails))
    <3>1. Destroy(i)
      BY <1>5, <2>2
    <3>2. /\ DOMAIN table' = 1 .. Slots /\ Busy' = Busy \ {i} /\ Sockets'
          /\ \A j \in Busy' : table'[j] = table[j]
      BY <1>1, <3>1, DestroySound
    <3>3. Grows
      BY <1>1, <3>2, NoNewSocket
    <3>4. ASSUME NEW j \in Busy' PROVE GoodEntry(table[j])' /\ (Short => PushEntry(table[j])')
      <4>1. PICK y : y = table'[j]
        OBVIOUS
      <4>2. Shape(y) /\ y.xfer \in Ports \ {Server} /\ (Short => PushEntry(y))
        BY <3>2, <4>1, EntryOwns
      <4>3. QED
        BY <3>3, <4>1, <4>2, EntryGood
    <3>5. QED
      BY <3>2, <3>3, <3>4
  <2>3. QED
    BY <2>1, <2>2
<1>11. x \in Ports' /\ Owns(x, c)'
  BY <1>6, <1>10, OwnerStays
<1>12. \A y \in sent : GoodDatagram(y)' /\ (Short => PushDatagram(y)')
  <2>1. GoodDatagram(m)' /\ (Short => PushDatagram(m)')
    <3>1. Short => PushEntry(u)
      BY <1>8 DEF PushEntry
    <3>2. QED
      BY <1>4, <1>6, <1>8, <1>10, <1>11, <3>1, OutputGood
  <2>2. GoodDatagram(ErrorPacket(x, c))' /\ (Short => PushDatagram(ErrorPacket(x, c))')
    <3>1. 0 \in 0 .. BlockMod - 1 /\ <<>> \in Seq(Nat)
      BY XferAssumption
    <3>2. QED
      BY <1>6, <1>10, <1>11, <3>1, AnswerGood DEF ErrorPacket
  <2>3. \A y \in sent : y = m \/ y = ErrorPacket(x, c)
    BY <1>6, <1>7 DEF Out
  <2>4. QED
    BY <2>1, <2>2, <2>3
<1>13. Carry({d}, sent, OpenClients \cup socks') /\ pool' = pool
  BY <1>1, <1>5
<1> HIDE DEF sent, more
<1>14. QED
  BY <1>1, <1>10, <1>12, <1>13, ServerMoves

\* The block a writer is waiting for is the next piece of the client's file
LEMMA BlockArrives ==
  ASSUME TftpInv, Short, NEW i \in Busy, NEW s, s = table[i], s.w_r = "write",
         NEW d \in Arrived(s.xfer), IsData(d, s.block)
  PROVE  LET c == s.sender  off == s.fd.off  n == Len(d.data) IN
         /\ c \in Pushers /\ There(c, off) /\ off + n <= length[c]
         /\ \A k \in 1 .. n : d.data[k] = off + k
         /\ Upto(c, d.block) = off + n
         /\ n >= BlkSize => off + n = d.block * BlkSize
         /\ n <= BlkSize
<1> DEFINE c == s.sender
           off == s.fd.off
           n == Len(d.data)
<1>1. /\ Shape(s) /\ PushEntry(s) /\ s.xfer \in Ports \ {Server} /\ d.from = c
  BY EntryOwns
<1>2. /\ c \in Pushers /\ off = s.block * BlkSize /\ There(c, off)
      /\ c \in Clients /\ off \in Nat /\ s.block \in 0 .. BlockMod - 1
  BY <1>1 DEF PushEntry, Shape
<1>3. /\ d.op = "DATA" /\ d.block = (s.block + 1) % BlockMod
      /\ d.block \in 0 .. BlockMod - 1 /\ PushDatagram(d)
  BY <1>1, FromClient DEF IsData
<1>4. /\ d.block >= 1 /\ (d.block - 1) * BlkSize <= length[c]
      /\ d.data = Block(Source(c), (d.block - 1) * BlkSize)
  BY <1>1, <1>2, <1>3 DEF PushDatagram
<1>5. BlockMod \in Nat /\ BlkSize \in Nat /\ BlockMod > 1 /\ BlkSize > 0
  BY XferAssumption
<1>6. s.block \in Nat /\ s.block + 1 <= BlockMod
  BY <1>2, <1>5
<1>7. d.block = s.block + 1
  <2>1. s.block + 1 < BlockMod => d.block = s.block + 1
    BY <1>3, <1>6, Numbers
  <2>2. s.block + 1 = BlockMod => d.block = 0
    BY <1>3, <1>5, <1>6
  <2>3. QED
    BY <1>4, <1>5, <1>6, <2>1, <2>2
<1>8. d.block - 1 = s.block /\ d.block \in Nat /\ d.block * BlkSize = off + BlkSize
  <2>1. (s.block + 1) * BlkSize = s.block * BlkSize + BlkSize
    BY <1>5, <1>6
  <2>2. QED
    BY <1>2, <1>6, <1>7, <2>1
<1>9. d.data = Block(Source(c), off) /\ off <= length[c]
  BY <1>2, <1>4, <1>8
<1>10. length[c] \in Nat
  BY <1>2, ClientAssumption DEF TftpInv, Kept
<1>11. Source(c) \in Seq(Nat) /\ Len(Source(c)) = length[c]
  BY <1>2, <1>10, SourceFile
<1>12. /\ n \in 0 .. BlkSize
       /\ n = IF off + BlkSize <= length[c] THEN BlkSize
              ELSE IF off < length[c] THEN length[c] - off ELSE 0
       /\ \A k \in 1 .. n : d.data[k] = Source(c)[off + k]
  <2> DEFINE blk == Block(Source(c), off)
  <2>1. /\ Len(blk) \in 0 .. BlkSize
        /\ Len(blk) = IF off + BlkSize <= Len(Source(c)) THEN BlkSize
                      ELSE IF off < Len(Source(c)) THEN Len(Source(c)) - off ELSE 0
        /\ \A k \in 1 .. Len(blk) : blk[k] = Source(c)[off + k]
    BY <1>2, <1>11, BlockFile
  <2>2. d.data = blk /\ n = Len(blk)
    BY <1>9
  <2> HIDE DEF blk, off, c, n
  <2>3. QED
    BY <1>11, <2>1, <2>2
<1>13. off + n <= length[c]
  <2>1. /\ off \in Nat /\ length[c] \in Nat /\ BlkSize \in Nat /\ off <= length[c]
        /\ n = IF off + BlkSize <= length[c] THEN BlkSize
               ELSE IF off < length[c] THEN length[c] - off ELSE 0
    BY <1>2, <1>5, <1>9, <1>10, <1>12
  <2> HIDE DEF off, n, c
  <2>2. QED
    BY <2>1
<1>14. \A k \in 1 .. n : d.data[k] = off + k
  <2>1. \A k \in 1 .. n : off + k \in 1 .. length[c]
    BY <1>2, <1>10, <1>12, <1>13
  <2>2. \A k \in 1 .. length[c] : Source(c)[k] = k
    BY DEF Source
  <2>3. QED
    BY <1>12, <2>1, <2>2
<1>15. Upto(c, d.block) = off + n
  <2>1. Upto(c, d.block) = IF d.block * BlkSize <= length[c] THEN d.block * BlkSize ELSE length[c]
    BY DEF Upto
  <2>2. d.block * BlkSize = off + BlkSize
    BY <1>8
  <2> HIDE DEF off, c, n
  <2>3. Upto(c, d.block) = IF off + BlkSize <= length[c] THEN off + BlkSize ELSE length[c]
    BY <2>1, <2>2
  <2>4. CASE off + BlkSize <= length[c]
    BY <1>2, <1>5, <1>10, <1>12, <2>3, <2>4
  <2>5. CASE ~(off + BlkSize <= length[c])
    BY <1>2, <1>5, <1>9, <1>10, <1>12, <2>3, <2>5
  <2>6. QED
    BY <2>4, <2>5
<1>16. n >= BlkSize => off + n = d.block * BlkSize
  BY <1>2, <1>5, <1>8, <1>12
<1>17. n <= BlkSize
  BY <1>5, <1>12
<1>18. QED
  BY <1>2, <1>13, <1>14, <1>15, <1>16, <1>17

\* A file after n units were written behind the first off, where they belong
Continued(file, off, n, new) ==
  /\ Len(new) = IF off + n > Len(file) THEN off + n ELSE Len(file)
  /\ \A k \in 1 .. Len(new) : new[k] = IF k > off /\ k <= off + n THEN k ELSE file[k]

\* Writing it lengthens the copy and spoils nothing
LEMMA BlockWritten ==
  ASSUME TftpInv, UNCHANGED clientvars, NEW i \in Busy, NEW s, s = table[i], s.w_r = "write",
         NEW d \in Arrived(s.xfer), IsData(d, s.block),
         disk' = [disk EXCEPT ![s.sender] = Overlay(@, s.fd.off, d.data)]
  PROVE  LET c == s.sender  off == s.fd.off  n == Len(d.data) IN
         /\ disk' \in [Clients -> Seq(Nat)]
         /\ \A x \in Clients : Len(disk[x]) <= Len(disk'[x])
         /\ \A x \in Clients \ {c} : disk'[x] = disk[x]
         /\ off + n <= Len(disk'[c])
         /\ Short =>
              /\ Continued(disk[c], off, n, disk'[c])
              /\ \A x \in Clients : \A m \in Nat : There(x, m) => There(x, m)'
              /\ There(c, off + n)'
<1> DEFINE c == s.sender
           off == s.fd.off
           n == Len(d.data)
<1>1. /\ Shape(s) /\ s.xfer \in Ports \ {Server}
  BY EntryOwns
<1>2. /\ c \in Clients /\ off \in Nat /\ off <= Len(disk[c])
      /\ disk \in [Clients -> Seq(Nat)] /\ disk[c] \in Seq(Nat)
  BY <1>1 DEF Shape, TftpInv, Kept
<1>3. d.data \in Seq(Nat) /\ n \in Nat /\ Len(disk[c]) \in Nat
  BY <1>1, <1>2, FromClient, LenProperties
<1>4. off \in 0 .. Len(disk[c])
  BY <1>2, <1>3
<1> DEFINE new == Overlay(disk[c], off, d.data)
<1>5. /\ new \in Seq(Nat)
      /\ Len(new) = IF off + n > Len(disk[c]) THEN off + n ELSE Len(disk[c])
      /\ \A k \in 1 .. Len(new) :
           new[k] = IF k > off /\ k <= off + n THEN d.data[k - off] ELSE disk[c][k]
  <2>1. disk[c] \in Seq(Nat) /\ off \in 0 .. Len(disk[c]) /\ d.data \in Seq(Nat)
    BY <1>2, <1>3, <1>4
  <2> HIDE DEF off
  <2>2. QED
    BY <2>1, OverlayFile
<1>6. disk' = [disk EXCEPT ![c] = new]
  OBVIOUS
<1> HIDE DEF new
<1>7. disk'[c] = new /\ \A x \in Clients \ {c} : disk'[x] = disk[x]
  BY <1>2, <1>6
<1>8. disk' \in [Clients -> Seq(Nat)]
  BY <1>2, <1>5, <1>6
<1>9. off + n <= Len(new) /\ Len(disk[c]) <= Len(new) /\ Len(new) \in Nat
  BY <1>2, <1>3, <1>5
<1>10. \A x \in Clients : Len(disk[x]) <= Len(disk'[x])
  <2>1. ASSUME NEW x \in Clients PROVE Len(disk[x]) <= Len(disk'[x])
    <3>1. Len(disk[x]) \in Nat
      BY <1>2, LenProperties
    <3>2. CASE x = c
      BY <1>7, <1>9, <3>2
    <3>3. CASE x # c
      <4>1. disk'[x] = disk[x]
        BY <1>7, <3>3
      <4>2. QED
        BY <3>1, <4>1
    <3>4. QED
      BY <3>2, <3>3
  <2>2. QED
    BY <2>1
<1>11. ASSUME Short
       PROVE  /\ Continued(disk[c], off, n, new)
              /\ \A x \in Clients : \A m \in Nat : There(x, m) => There(x, m)'
              /\ There(c, off + n)'
  <2>1. /\ There(c, off) /\ off + n <= length[c]
        /\ \A k \in 1 .. n : d.data[k] = off + k
    BY <1>11, BlockArrives
  <2>2. ASSUME NEW k \in 1 .. Len(new)
        PROVE new[k] = IF k > off /\ k <= off + n THEN k ELSE disk[c][k]
    <3>1. CASE k > off /\ k <= off + n
      <4>1. k - off \in 1 .. n /\ off + (k - off) = k
        <5>1. k \in Nat /\ off \in Nat /\ n \in Nat
          BY <1>2, <1>3, <1>9
        <5> HIDE DEF off, n
        <5>2. QED
          BY <3>1, <5>1
      <4>2. d.data[k - off] = k
        BY <2>1, <4>1
      <4>3. QED
        BY <1>5, <3>1, <4>2
    <3>2. CASE ~(k > off /\ k <= off + n)
      BY <1>5, <3>2
    <3>3. QED
      BY <3>1, <3>2
  <2>3. length' = length
    BY DEF clientvars
  <2>4. ASSUME NEW x \in Clients, NEW m \in Nat, There(x, m) PROVE There(x, m)'
    <3>1. CASE x = c
      <4>1. m <= Len(disk[c]) /\ m <= length[c] /\ \A k \in 1 .. m : disk[c][k] = k
        BY <2>4, <3>1 DEF There
      <4>2. m <= Len(new)
        BY <1>3, <1>9, <4>1
      <4>3. \A k \in 1 .. m : new[k] = k
        BY <1>9, <2>2, <4>1, <4>2
      <4>4. QED
        BY <1>7, <2>3, <3>1, <4>1, <4>2, <4>3 DEF There
    <3>2. CASE x # c
      BY <1>7, <2>3, <2>4, <3>2 DEF There
    <3>3. QED
      BY <3>1, <3>2
  <2>5. There(c, off + n)'
    <3>1. \A k \in 1 .. off : disk[c][k] = k
      BY <2>1 DEF There
    <3>2. ASSUME NEW k \in 1 .. off + n PROVE new[k] = k
      <4>1. k \in 1 .. Len(new) /\ k \in Nat
        BY <1>2, <1>3, <1>9
      <4>2. CASE k > off /\ k <= off + n
        BY <2>2, <4>1, <4>2
      <4>3. CASE ~(k > off /\ k <= off + n)
        <5>1. k \in 1 .. off
          BY <1>2, <1>3, <4>1, <4>3
        <5>2. QED
          BY <2>2, <3>1, <4>1, <4>3, <5>1
      <4>4. QED
        BY <4>2, <4>3
    <3>3. QED
      BY <1>7, <1>9, <2>1, <2>3, <3>2 DEF There
  <2>6. Continued(disk[c], off, n, new)
    BY <1>5, <2>2 DEF Continued
  <2>7. QED
    BY <2>4, <2>5, <2>6
<1>12. QED
  BY <1>5, <1>7, <1>8, <1>9, <1>10, <1>11

\* A writer sends a block, which is written and acknowledged
LEMMA DataKeeps ==
  ASSUME TftpInv, NEW i \in 1 .. Slots, Data(i, OpenClients), UNCHANGED clientvars
  PROVE  TftpInv'
<1>1. /\ i \in Busy /\ table[i].w_r = "write" /\ UNCHANGED pool
      /\ UNCHANGED clientvars /\ UNCHANGED port /\ is_stop' \in BOOLEAN
  BY DEF Data, TftpInv, Kept
<1>2. PICK d \in Arrived(table[i].xfer), fails \in SendFails, written \in DiskOk :
       LET t == [table[i] EXCEPT !.sender = d.from]
           new == [t EXCEPT !.block = d.block, !.pos = @ + Len(d.data), !.fd = Advance(@, d.data)]
           good == IsData(d, t.block)
           last == Len(d.data) < BlkSize
       IN  /\ disk' = IF good /\ written
                      THEN [disk EXCEPT ![t.fd.name] = FileWrite(t.fd, t.pos, @, d.data)] ELSE disk
           /\ IF good /\ written /\ last /\ Gone(fails) THEN Crash("dead")
              ELSE /\ UNCHANGED run
                   /\ IF good /\ written /\ ~last /\ ~Gone(fails) THEN Keep(i, new) ELSE Destroy(i)
           /\ Carry({d}, IF ~good THEN {}
                         ELSE IF written THEN Out(fails, AckPacket(t.xfer, t.sender, d.block))
                         ELSE {ErrorPacket(t.xfer, d.from)},
                    OpenClients \cup socks')
  BY DEF Data
<1>3. PICK s, t, x, c, new :
        /\ s = table[i] /\ x = table[i].xfer /\ c = table[i].sender
        /\ t = [s EXCEPT !.sender = d.from]
        /\ new = [t EXCEPT !.block = d.block, !.pos = @ + Len(d.data), !.fd = Advance(@, d.data)]
  OBVIOUS
<1>4. /\ Shape(s) /\ s.xfer = x /\ s.sender = c /\ s.w_r = "write" /\ d.from = c
      /\ x \in Ports \ {Server} /\ c \in Clients /\ Owns(x, c)
      /\ Short => PushEntry(s)
  BY <1>1, <1>3, EntryOwns
<1>5. t = s
  BY <1>3, <1>4 DEF Shape
<1>6. /\ d \in Arrived(s.xfer) /\ d.data \in Seq(Nat) /\ d.block \in 0 .. BlockMod - 1
      /\ Len(d.data) \in Nat
  BY <1>3, <1>4, FromClient, LenProperties
<1>7. s.fd.name = c /\ s.fd.off \in Nat /\ s.fd \in [name : Clients, off : Nat] /\ s.pos \in Nat
  BY <1>4 DEF Shape
<1> DEFINE good == IsData(d, s.block)
           last == Len(d.data) < BlkSize
           sent == IF ~good THEN {}
                   ELSE IF written THEN Out(fails, AckPacket(x, c, d.block))
                   ELSE {ErrorPacket(x, c)}
<1>8. /\ disk' = IF good /\ written
                 THEN [disk EXCEPT ![c] = Overlay(@, s.fd.off, d.data)] ELSE disk
      /\ IF good /\ written /\ last /\ Gone(fails) THEN Crash("dead")
         ELSE /\ UNCHANGED run
              /\ IF good /\ written /\ ~last /\ ~Gone(fails) THEN Keep(i, new) ELSE Destroy(i)
      /\ Carry({d}, sent, OpenClients \cup socks')
  <2>1. disk' = IF IsData(d, t.block) /\ written
                THEN [disk EXCEPT ![t.fd.name] = FileWrite(t.fd, t.pos, @, d.data)] ELSE disk
    BY <1>2, <1>3
  <2>2. IF IsData(d, t.block) /\ written /\ last /\ Gone(fails) THEN Crash("dead")
        ELSE /\ UNCHANGED run
             /\ IF IsData(d, t.block) /\ written /\ ~last /\ ~Gone(fails)
                THEN Keep(i, new) ELSE Destroy(i)
    BY <1>2, <1>3
  <2>3. Carry({d}, IF ~IsData(d, t.block) THEN {}
                   ELSE IF written THEN Out(fails, AckPacket(t.xfer, t.sender, d.block))
                   ELSE {ErrorPacket(t.xfer, d.from)},
              OpenClients \cup socks')
    BY <1>2, <1>3
  <2>4. disk' = IF good /\ written
                THEN [disk EXCEPT ![c] = Overlay(@, s.fd.off, d.data)] ELSE disk
    BY <1>5, <1>7, <2>1 DEF FileWrite
  <2>5. Carry({d}, sent, OpenClients \cup socks')
    BY <1>4, <1>5, <2>3
  <2> HIDE DEF sent
  <2>6. QED
    BY <1>5, <2>2, <2>4, <2>5
<1> HIDE DEF sent
\* the files
<1>9. /\ disk' \in [Clients -> Seq(Nat)]
      /\ \A y \in Clients : Len(disk[y]) <= Len(disk'[y])
      /\ Short => \A y \in Clients : \A m \in Nat : There(y, m) => There(y, m)'
  <2>1. CASE good /\ written
    BY <1>1, <1>3, <1>4, <1>6, <1>8, <2>1, BlockWritten
  <2>2. CASE ~(good /\ written)
    <3>1. disk' = disk /\ length' = length
      BY <1>1, <1>8, <2>2 DEF clientvars
    <3>2. \A y, m : There(y, m)' = There(y, m)
      BY <3>1 DEF There
    <3>3. QED
      BY <3>1, <3>2, LenProperties DEF TftpInv, Kept
  <2>3. QED
    BY <2>1, <2>2
<1>10. ASSUME good, written
       PROVE  /\ s.fd.off + Len(d.data) <= Len(disk'[c])
              /\ Short => /\ There(c, Upto(c, d.block))' /\ c \in Pushers
                          /\ There(c, s.fd.off + Len(d.data))'
                          /\ ~last => s.fd.off + Len(d.data) = d.block * BlkSize
  <2>1. /\ s.fd.off + Len(d.data) <= Len(disk'[c])
        /\ Short => There(c, s.fd.off + Len(d.data))'
    <3>1. disk' = [disk EXCEPT ![s.sender] = Overlay(@, s.fd.off, d.data)]
      BY <1>4, <1>8, <1>10
    <3>2. /\ s.fd.off + Len(d.data) <= Len(disk'[s.sender])
          /\ Short => There(s.sender, s.fd.off + Len(d.data))'
      BY <1>1, <1>3, <1>4, <1>6, <1>10, <3>1, BlockWritten
    <3>3. QED
      BY <1>4, <3>2
  <2>2. ASSUME Short
        PROVE  /\ c \in Pushers /\ Upto(c, d.block) = s.fd.off + Len(d.data)
               /\ ~last => s.fd.off + Len(d.data) = d.block * BlkSize
    <3>1. ~last => Len(d.data) >= BlkSize
      BY <1>6, XferAssumption
    <3>2. QED
      BY <1>1, <1>3, <1>4, <1>6, <1>10, <2>2, <3>1, BlockArrives
  <2>3. Upto(c, d.block)' = Upto(c, d.block)
    BY <1>1 DEF Upto, clientvars
  <2>4. ASSUME Short PROVE There(c, Upto(c, d.block))'
    BY <2>1, <2>2, <2>3, <2>4 DEF There
  <2>5. QED
    BY <2>1, <2>2, <2>4
<1> HIDE DEF good, last
\* the table
<1>11. \/ Crash("dead") /\ Gone(fails)
       \/ Keep(i, new) /\ good /\ written /\ ~last /\ UNCHANGED run
       \/ Destroy(i) /\ UNCHANGED run
  BY <1>8
<1>12. /\ new.xfer = x /\ new.sender = c /\ new.w_r = "write" /\ new.block = d.block
       /\ new.fd.off = s.fd.off + Len(d.data) /\ new.fd.name = c
       /\ new \in [xfer : Nat, sender : Clients, block : 0 .. BlockMod - 1,
                   w_r : {"read", "write"}, retry : 0 .. MaxRetry,
                   fd : [name : Clients, off : Nat], pos : Nat, last_read : 0 .. BlkSize]
  <2>1. s.fd.off + Len(d.data) \in Nat /\ s.pos + Len(d.data) \in Nat
    BY <1>6, <1>7
  <2>2. s.fd # Bad
    <3>1. s.fd.name # 0
      BY <1>4, <1>7, ClientAssumption
    <3>2. QED
      BY <3>1 DEF Bad
  <2>3. new = [s EXCEPT !.block = d.block, !.pos = @ + Len(d.data),
                        !.fd = [s.fd EXCEPT !.off = @ + Len(d.data)]]
    BY <1>3, <1>5, <2>2 DEF Advance
  <2>4. [s.fd EXCEPT !.off = @ + Len(d.data)] \in [name : Clients, off : Nat]
    BY <1>7, <2>1
  <2>5. QED
    BY <1>4, <1>6, <1>7, <2>1, <2>3, <2>4 DEF Shape
<1>13. /\ DOMAIN table' = 1 .. Slots /\ Sockets' /\ Busy' \subseteq Busy
       /\ \A j \in Busy' : \/ table'[j] = table[j]
                           \/ j = i /\ table'[j] = new /\ good /\ written /\ ~last
  <2>1. CASE Crash("dead") /\ Gone(fails)
    <3>1. MaxRetry \in SendFails
      BY <2>1 DEF Gone
    <3>2. Busy' = {} /\ DOMAIN table' = 1 .. Slots /\ Sockets'
      BY <1>1, <2>1, <3>1, Crashes
    <3>3. QED
      BY <3>2
  <2>2. CASE Keep(i, new) /\ good /\ written /\ ~last /\ UNCHANGED run
    <3> /\ Keep(i, new) /\ UNCHANGED <<run, pool>> /\ i \in Busy
        /\ new.xfer = table[i].xfer /\ new.sender = table[i].sender
      BY <1>1, <1>3, <1>12, <2>2
    <3>1. /\ DOMAIN table' = 1 .. Slots /\ Busy' = Busy /\ Sockets'
          /\ table'[i] = new /\ \A j \in Busy \ {i} : table'[j] = table[j]
      BY KeepSound
    <3>2. QED
      BY <2>2, <3>1
  <2>3. CASE Destroy(i) /\ UNCHANGED run
    <3>1. /\ DOMAIN table' = 1 .. Slots /\ Busy' = Busy \ {i} /\ Sockets'
          /\ \A j \in Busy' : table'[j] = table[j]
      BY <1>1, <2>3, DestroySound
    <3>2. QED
      BY <3>1
  <2>4. QED
    BY <1>11, <2>1, <2>2, <2>3
<1>14. Grows
  <2>1. \A j \in Busy' : /\ j \in Busy /\ table'[j].xfer = table[j].xfer
                         /\ table'[j].sender = table[j].sender
    <3>1. \A j \in Busy' : table'[j] = table[j] \/ (j = i /\ table'[j] = new)
      BY <1>13
    <3>2. Busy' \subseteq Busy
      BY <1>13
    <3>3. new.xfer = table[i].xfer /\ new.sender = table[i].sender
      BY <1>3, <1>12
    <3>4. QED
      BY <3>1, <3>2, <3>3
  <2>2. QED
    BY <1>1, <1>9, <1>13, <2>1 DEF Grows
<1>15. ASSUME NEW j \in Busy' PROVE GoodEntry(table[j])' /\ (Short => PushEntry(table[j])')
  <2>1. PICK y : y = table'[j]
    OBVIOUS
  <2>2. CASE y = table[j]
    <3>1. Shape(y) /\ y.xfer \in Ports \ {Server} /\ (Short => PushEntry(y))
      BY <1>13, <2>2, EntryOwns
    <3>2. QED
      BY <1>14, <2>1, <3>1, EntryGood
  <2>3. CASE y = new /\ good /\ written /\ ~last
    <3>1. Shape(new)'
      BY <1>10, <1>12, <2>3 DEF Shape
    <3>2. new.xfer \in Ports' \ {Server}
      BY <1>4, <1>12, <1>14, OwnerStays
    <3>3. ASSUME Short PROVE PushEntry(new)'
      <4>1. c \in Pushers' /\ There(c, new.fd.off)' /\ new.fd.off = new.block * BlkSize
        BY <1>1, <1>10, <1>12, <2>3, <3>3 DEF Pushers, clientvars
      <4>2. QED
        BY <1>12, <4>1 DEF PushEntry
    <3>4. QED
      BY <2>1, <2>3, <3>1, <3>2, <3>3 DEF GoodEntry, Shape, PushEntry, There
  <2>4. QED
    BY <1>13, <2>1, <2>2, <2>3
<1>16. x \in Ports' /\ Owns(x, c)'
  BY <1>4, <1>14, OwnerStays
<1>17. \A y \in sent : GoodDatagram(y)' /\ (Short => PushDatagram(y)')
  <2>1. 0 \in 0 .. BlockMod - 1 /\ <<>> \in Seq(Nat)
    BY XferAssumption
  <2>2. GoodDatagram(ErrorPacket(x, c))' /\ (Short => PushDatagram(ErrorPacket(x, c))')
    BY <1>4, <1>14, <1>16, <2>1, AnswerGood DEF ErrorPacket
  <2>3. ASSUME good, written
        PROVE  /\ GoodDatagram(AckPacket(x, c, d.block))'
               /\ Short => PushDatagram(AckPacket(x, c, d.block))'
    <3>1. Short => There(c, Upto(c, d.block))'
      BY <1>10, <2>3
    <3>2. QED
      BY <1>4, <1>6, <1>14, <1>16, <2>1, <3>1, AnswerGood DEF AckPacket
  <2>4. \A y \in sent : \/ y = AckPacket(x, c, d.block) /\ good /\ written
                        \/ y = ErrorPacket(x, c)
    BY DEF sent, Out
  <2>5. QED
    BY <2>2, <2>3, <2>4
<1>18. Carry({d}, sent, OpenClients \cup socks') /\ pool' = pool
  BY <1>1, <1>8
<1>19. QED
  BY <1>1, <1>13, <1>14, <1>15, <1>17, <1>18, ServerMoves

\* After five seconds of silence every entry is given up or sends again
LEMMA TimeoutKeeps ==
  ASSUME TftpInv, Timeout(OpenClients), UNCHANGED clientvars
  PROVE  TftpInv'
<1>1. /\ run = "run" /\ UNCHANGED <<run, pool>> /\ UNCHANGED <<clientvars, disk, port>>
      /\ UNCHANGED clientvars /\ is_stop' \in BOOLEAN
  BY DEF Timeout, TftpInv, Kept
<1>2. PICK fails \in [Busy -> SendFails] :
       LET patient == {i \in Busy : table[i].retry > 0}
           kept == {i \in patient : ~Gone(fails[i])}
           out == [i \in patient |-> Output(table[i], TRUE)]
       IN  /\ table' = [i \in 1..Slots |->
                IF i \in kept THEN [out[i].entry EXCEPT !.retry = FewerTries(@)] ELSE Free]
           /\ socks' = socks \ {table[i].xfer : i \in Busy \ kept}
           /\ Carry({}, UNION {Out(fails[i], out[i].packet) : i \in patient},
                    OpenClients \cup socks')
  BY DEF Timeout
<1> DEFINE patient == {i \in Busy : table[i].retry > 0}
           kept == {i \in patient : ~Gone(fails[i])}
           out == [i \in patient |-> Output(table[i], TRUE)]
           you == [i \in 1 .. Slots |->
                    IF i \in kept THEN [out[i].entry EXCEPT !.retry = FewerTries(@)] ELSE Free]
           sent == UNION {Out(fails[i], out[i].packet) : i \in patient}
           read == {}
<1>3. /\ table' = you /\ socks' = socks \ {table[i].xfer : i \in Busy \ kept}
      /\ Carry(read, sent, OpenClients \cup socks')
  BY <1>2
<1>4. kept \subseteq patient /\ patient \subseteq Busy /\ Busy \subseteq 1 .. Slots
  BY DEF Busy
<1>5. ASSUME NEW i \in kept
      PROVE  /\ Shape(you[i]) /\ you[i] # Free /\ (Short => PushEntry(you[i]))
             /\ you[i].xfer = table[i].xfer /\ you[i].sender = table[i].sender
  <2>1. PICK t, e : t = table[i] /\ e = Output(t, TRUE).entry
    OBVIOUS
  <2>2. /\ Shape(t) /\ (Short => PushEntry(t)) /\ t.xfer \in Ports \ {Server} /\ t.retry > 0
        /\ t = table[i]
    BY <1>4, <2>1, EntryOwns
  <2>3. /\ Shape(e) /\ e.xfer = t.xfer /\ e.sender = t.sender /\ e.w_r = t.w_r
        /\ e.retry = t.retry /\ (t.w_r = "write" => e = t)
    <3>1. OutputOf(t, Output(t, TRUE))
      BY <2>2, OutputShape, Zenon
    <3>2. QED
      BY <2>1, <3>1 DEF OutputOf
  <2>4. you[i] = [e EXCEPT !.retry = e.retry - 1]
    BY <1>4, <2>1 DEF FewerTries
  <2>5. e.retry - 1 \in 0 .. MaxRetry
    <3>1. e.retry \in 0 .. MaxRetry /\ e.retry > 0 /\ MaxRetry \in Nat
      BY <2>2, <2>3, XferAssumption DEF Shape
    <3>2. QED
      BY <3>1
  <2>6. PICK y : y = you[i]
    OBVIOUS
  <2>7. y = [e EXCEPT !.retry = e.retry - 1]
    BY <2>4, <2>6
  <2>8. Shape(y) /\ y.xfer = e.xfer /\ y.sender = e.sender
    BY <2>3, <2>5, <2>7 DEF Shape
  <2>9. Short => PushEntry(y)
    BY <2>2, <2>3, <2>7 DEF PushEntry, Shape
  <2>10. y # Free
    BY <2>2, <2>3, <2>8 DEF Free, Ports, Server
  <2>11. QED
    BY <2>1, <2>3, <2>6, <2>8, <2>9, <2>10
<1>6. /\ DOMAIN table' = 1 .. Slots /\ Busy' = kept
      /\ \A i \in kept : /\ table'[i] = you[i] /\ table'[i].xfer = table[i].xfer
                         /\ table'[i].sender = table[i].sender
  <2>1. DOMAIN table' = 1 .. Slots
    BY <1>3
  <2>2. \A i \in (1 .. Slots) \ kept : table'[i] = Free
    BY <1>3
  <2>3. \A i \in kept : /\ table'[i] = you[i] /\ table'[i] # Free
                        /\ table'[i].xfer = table[i].xfer /\ table'[i].sender = table[i].sender
    BY <1>3, <1>5
  <2> HIDE DEF you, kept
  <2>4. Busy' = kept
    BY <1>4, <2>2, <2>3 DEF Busy
  <2>5. QED
    BY <2>1, <2>3, <2>4
<1> HIDE DEF you
<1>7. Sockets'
  <2> HIDE DEF kept, patient
  <2>1. socks = {Server} \cup {table[i].xfer : i \in Busy}
    BY <1>1 DEF TftpInv, Sockets
  <2>2. /\ \A i, j \in Busy : table[i].xfer = table[j].xfer => i = j
        /\ \A i \in Busy : table[i].xfer # Server
    BY EntryOwns DEF TftpInv, Sockets
  <2>3. socks' = {Server} \cup {table[i].xfer : i \in kept}
    BY <1>3, <1>4, <2>1, <2>2
  <2>4. {table[i].xfer : i \in kept} = {table'[i].xfer : i \in Busy'}
    BY <1>6
  <2>5. ASSUME NEW i \in Busy', NEW j \in Busy', table'[i].xfer = table'[j].xfer PROVE i = j
    <3>1. i \in kept /\ j \in kept /\ i \in Busy /\ j \in Busy
      BY <1>4, <1>6
    <3>2. table'[i].xfer = table[i].xfer /\ table'[j].xfer = table[j].xfer
      BY <1>6, <3>1
    <3>3. table[i].xfer = table[j].xfer
      BY <2>5, <3>2
    <3>4. QED
      BY <2>2, <3>1, <3>3
  <2>6. QED
    BY <1>1, <2>3, <2>4, <2>5 DEF Sockets
<1>8. Grows
  <2>1. \A j \in Busy' : /\ j \in Busy /\ table'[j].xfer = table[j].xfer
                         /\ table'[j].sender = table[j].sender
    BY <1>4, <1>6
  <2> HIDE DEF kept, patient
  <2>2. QED
    BY <1>1, <1>6, <2>1, NoNewSocket
<1>9. ASSUME NEW j \in Busy' PROVE GoodEntry(table[j])' /\ (Short => PushEntry(table[j])')
  <2>1. PICK y : y = table'[j]
    OBVIOUS
  <2>2. j \in kept /\ j \in Busy /\ y = you[j] /\ y.xfer = table[j].xfer
    BY <1>4, <1>6, <2>1
  <2>3. Shape(y) /\ (Short => PushEntry(y)) /\ y.xfer \in Ports \ {Server}
    BY <1>5, <2>2, EntryOwns
  <2>4. QED
    BY <1>8, <2>1, <2>3, EntryGood
<1>10. ASSUME NEW d \in sent PROVE GoodDatagram(d)' /\ (Short => PushDatagram(d)')
  <2>1. PICK i \in patient : d \in Out(fails[i], out[i].packet)
    OBVIOUS
  <2>2. PICK t : t = table[i]
    OBVIOUS
  <2>3. i \in Busy /\ d = Output(t, TRUE).packet
    BY <1>4, <2>1, <2>2 DEF Out
  <2>4. /\ Shape(t) /\ (Short => PushEntry(t)) /\ t.xfer \in Ports \ {Server}
        /\ Owns(t.xfer, t.sender)
    BY <2>2, <2>3, EntryOwns
  <2>5. t.xfer \in Ports' /\ t.xfer # Server /\ Owns(t.xfer, t.sender)'
    BY <1>8, <2>4, OwnerStays
  <2>6. QED
    BY <1>8, <2>3, <2>4, <2>5, OutputGood
<1>11. Carry(read, sent, OpenClients \cup socks') /\ pool' = pool
  BY <1>1, <1>3
<1> HIDE DEF sent, read, patient, kept, out
<1>12. QED
  BY <1>1, <1>7, <1>8, <1>9, <1>10, <1>11, ServerMoves

\* The server ends: its table and its sockets are gone
LEMMA ExitKeeps ==
  ASSUME TftpInv, Exit(OpenClients), UNCHANGED clientvars
  PROVE  TftpInv'
<1> DEFINE none == {}
<1>1. /\ run = "run" /\ run' = "off" /\ table' = [i \in 1 .. Slots |-> Free]
      /\ socks' = socks \ ({Server} \cup {table[i].xfer : i \in Busy})
      /\ Carry(none, none, OpenClients \cup socks')
      /\ UNCHANGED pool /\ UNCHANGED <<clientvars, disk, port>> /\ is_stop' \in BOOLEAN
  BY DEF Exit, Empty, TftpInv, Kept
<1>2. Busy' = {} /\ DOMAIN table' = 1 .. Slots
  BY <1>1 DEF Busy
<1>3. socks' = {}
  BY <1>1 DEF TftpInv, Sockets
<1>4. Sockets'
  BY <1>1, <1>2, <1>3 DEF Sockets
<1>5. Grows
  BY <1>1, <1>2, NoNewSocket
<1>6. /\ \A j \in Busy' : GoodEntry(table[j])' /\ (Short => PushEntry(table[j])')
      /\ \A d \in none : GoodDatagram(d)' /\ (Short => PushDatagram(d)')
  BY <1>2
<1> HIDE DEF none
<1>7. QED
  BY <1>1, <1>4, <1>5, <1>6, ServerMoves

\* A step of the server
LEMMA ServerKeeps ==
  ASSUME TftpInv, Serve PROVE TftpInv'
BY NoSocketKeeps, RefuseKeeps, RequestKeeps, AckedKeeps, DataKeeps, TimeoutKeeps, ExitKeeps
   DEF Serve, ServerStep

(***************************************************************************)
(* The network, the shell, and the invariant of the whole.                 *)
(***************************************************************************)

\* The network loses datagrams and doubles them, it does not make any up
LEMMA NetworkKeeps ==
  ASSUME TftpInv, Network PROVE TftpInv'
<1>1. UNCHANGED <<clientvars, servervars>> /\ UNCHANGED clientvars
  BY DEF Network
<1>2. PICK d \in Under : net' = net (-) SetToBag({d}) \/ net' = net (+) SetToBag({d})
  BY DEF Network, Lose, Double, Fault
<1>3. IsABag(net)
  BY DEF TftpInv, Kept
<1>4. IsABag(net') /\ Under' \subseteq Under
  <2>1. CASE net' = net (-) SetToBag({d})
    BY <1>3, <2>1 DEF IsABag, Under, BagToSet, SetToBag, (-)
  <2>2. CASE net' = net (+) SetToBag({d})
    <3>1. d \in DOMAIN net
      BY DEF Under, BagToSet
    <3>2. QED
      BY <1>3, <2>2, <3>1 DEF IsABag, Under, BagToSet, SetToBag, (+)
  <2>3. QED
    BY <1>2, <2>1, <2>2
<1>5. Kept' /\ Sockets'
  BY <1>1, <1>4 DEF TftpInv, Kept, Sockets, Busy, clientvars, servervars
<1>6. OpenSockets' = OpenSockets
  BY <1>1 DEF OpenSockets, OpenClients, clientvars, servervars
<1>7. Goods'
  BY <1>1, <1>4, <1>6 DEF TftpInv, Goods, GoodDatagram, GoodClient, GoodEntry, Shape, Owns, Ports,
                          Busy, Pushers, Pullers, clientvars, servervars
<1>8. Short => Pushes'
  BY <1>1, <1>4 DEF TftpInv, Pushes, PushDatagram, PushClient, PushEntry, There, Upto, Source,
                    Busy, Pushers, clientvars, servervars
<1>9. QED
  BY <1>5, <1>7, <1>8 DEF TftpInv

\* The shell only asks the server to stop, and a step may change nothing at all
LEMMA ShellKeeps ==
  ASSUME TftpInv, Shell \/ UNCHANGED vars PROVE TftpInv'
<1>1. /\ UNCHANGED <<run, table, socks, pool, port, disk, resent, netvars>>
      /\ UNCHANGED clientvars /\ is_stop' \in BOOLEAN
  BY DEF Shell, Stop, vars, servervars, TftpInv, Kept
<1>2. Kept' /\ Sockets'
  BY <1>1 DEF TftpInv, Kept, Sockets, Busy, clientvars, netvars
<1>3. OpenSockets' = OpenSockets
  BY <1>1 DEF OpenSockets, OpenClients, clientvars
<1>4. Goods'
  BY <1>1, <1>3 DEF TftpInv, Goods, GoodDatagram, GoodClient, GoodEntry, Shape, Owns, Ports, Under,
                    Busy, Pushers, Pullers, clientvars, netvars
<1>5. Short => Pushes'
  BY <1>1 DEF TftpInv, Pushes, PushDatagram, PushClient, PushEntry, There, Upto, Source, Under,
              Busy, Pushers, clientvars, netvars
<1>6. QED
  BY <1>2, <1>4, <1>5 DEF TftpInv

\* At the start nothing is under way and the table is empty
LEMMA InitKeeps ==
  ASSUME Init PROVE TftpInv
<1>1. /\ net = EmptyBag /\ run = "run" /\ is_stop = FALSE /\ table = [i \in 1 .. Slots |-> Free]
      /\ socks = {Server} /\ pool \in Pools /\ port = Server + 1
      /\ length \in [Clients -> Lengths] /\ op \in [Clients -> Ops]
      /\ client = [c \in Clients |->
           [pc |-> "request", retry |-> MaxRetry, block |-> 0, sender |-> Server,
            size |-> 0, err |-> "OK", complete |-> FALSE]]
  BY DEF Init, NetInit, ClientInit, ServerInit, Empty
<1>2. PICK old \in [Clients -> Olds] :
        disk = [c \in Clients |-> IF c \in Pullers THEN Source(c) ELSE OldContent(old[c])]
  BY DEF Init
<1>3. disk \in [Clients -> Seq(Nat)]
  <2>1. \A c \in Clients : length[c] \in Nat /\ old[c] \in Nat
    BY <1>1, ClientAssumption
  <2>2. \A c \in Clients : Source(c) \in Seq(Nat) /\ OldContent(old[c]) \in Seq(Nat)
    BY <2>1, SourceFile, OldFile
  <2>3. QED
    BY <1>2, <2>2
<1>4. Busy = {}
  BY <1>1 DEF Busy
<1>5. IsABag(net) /\ Under = {}
  BY <1>1 DEF EmptyBag, SetToBag, IsABag, Under, BagToSet
<1>6. port \in Nat /\ port > Server /\ pool \in Nat
  BY <1>1, ServerAssumption DEF Server
<1>7. Kept /\ Sockets
  BY <1>1, <1>3, <1>4, <1>5, <1>6 DEF Kept, Sockets
<1>8. \A c \in Clients : GoodClient(c, client[c]) /\ PushClient(c, client[c])
  <2>1. Server \in Ports
    BY <1>1 DEF Ports, Server
  <2>2. MaxRetry \in 1 .. MaxRetry /\ 0 \in 0 .. BlockMod - 1
    BY XferAssumption
  <2>3. QED
    BY <1>1, <1>4, <2>1, <2>2 DEF GoodClient, PushClient, Owns
<1>9. QED
  BY <1>4, <1>5, <1>7, <1>8 DEF TftpInv, Goods, Pushes

\* Every step keeps the invariant
LEMMA StepKeeps ==
  ASSUME TftpInv, [Next]_vars PROVE TftpInv'
<1>1. ASSUME NEW c \in Clients, Client(c) PROVE TftpInv'
  BY <1>1, ClientKeeps
<1>2. CASE Serve
  BY <1>2, ServerKeeps
<1>3. CASE Network
  BY <1>3, NetworkKeeps
<1>4. CASE Shell \/ UNCHANGED vars
  BY <1>4, ShellKeeps
<1>5. QED
  BY <1>1, <1>2, <1>3, <1>4 DEF Next

\* The invariant holds of every run, whatever the network, the clients' sockets
\* and the disk do
LEMMA TftpInvariant == Spec => []TftpInv
<1>1. Init => TftpInv
  BY InitKeeps
<1>2. TftpInv /\ [Next]_vars => TftpInv'
  BY StepKeeps
<1>3. QED
  BY <1>1, <1>2, PTL DEF Spec

(***************************************************************************)
(* The theorems.                                                           *)
(***************************************************************************)

\* The counters of clients and server stay in the ranges of their C types and
\* retry limits, and no datagram is kept for a socket nobody has open.
THEOREM TftpTypeCorrect == Spec => []TypeOK
<1>1. TftpInv => TypeOK
  <2> SUFFICES ASSUME TftpInv PROVE TypeOK
    OBVIOUS
  <2>1. IsABag(net) /\ is_stop \in BOOLEAN /\ run \in {"run", "off", "unborn", "dead"}
    BY DEF TftpInv, Kept, Sockets
  <2>2. \A d \in Under : /\ d.op \in {"RRQ", "WRQ", "DATA", "ACK", "ERROR"}
                         /\ d.block \in 0 .. BlockMod - 1 /\ d.to \in OpenSockets
    BY DEF TftpInv, Goods, GoodDatagram
  <2>3. \A c \in Clients :
          /\ client[c].pc \in {"request", "answer", "sent", "acked", "done"}
          /\ client[c].retry \in 1 .. MaxRetry /\ client[c].block \in 0 .. BlockMod - 1
          /\ client[c].err \in {"OK", "XFER", "ACK", "DATA", "FILE"}
    BY DEF TftpInv, Goods, GoodClient
  <2>4. \A i \in Busy : table[i].retry \in 0 .. MaxRetry /\ table[i].last_read \in 0 .. BlkSize
    BY DEF TftpInv, Goods, GoodEntry, Shape
  <2>5. QED
    BY <2>1, <2>2, <2>3, <2>4 DEF TypeOK
<1>2. QED
  BY <1>1, TftpInvariant, PTL

\* The server's sockets are its own and one for each entry of the table, whatever
\* fails, and no entry is used after it was destroyed, unless a sendto that is
\* tried again may work with its very last try (tftp_server.c:182, :290).
THEOREM SocketsCorrect == Spec => []SocketsSound
<1>1. TftpInv => SocketsSound
  BY DEF TftpInv, Sockets, SocketsSound
<1>2. QED
  BY <1>1, TftpInvariant, PTL

(***************************************************************************)
(* A push copies: every step is one of FileCopy or leaves its variables.   *)
(***************************************************************************)

\* What FileCopy says is reached is on the server
LEMMA CopyReached ==
  ASSUME Kept, NEW c \in Clients, c \in Pushers, NEW n \in Nat, There(c, n)
  PROVE  Copy!Reached(c, n)
<1>1. length[c] \in Nat /\ Len(disk[c]) \in Nat
  BY ClientAssumption, LenProperties DEF Kept
<1>2. Len(Source(c)) = length[c]
  BY <1>1, SourceFile
<1>3. \A i \in 1 .. n : Source(c)[i] = i
  BY <1>1 DEF Source, There
<1>4. QED
  BY <1>1, <1>2, <1>3 DEF Copy!Reached, Pushed, There

\* A step that changes no file and no counter of a pusher
LEMMA CopyStutters ==
  ASSUME UNCHANGED <<op, length, disk>>,
         \A c \in Clients : c \in Pushers =>
           client'[c].size = client[c].size /\ client'[c].complete = client[c].complete
  PROVE  UNCHANGED Copy!copyvars
<1>1. Pushers' = Pushers
  BY DEF Pushers
<1>2. \A c \in Clients : Source(c)' = Source(c)
  BY DEF Source
<1>3. QED
  BY <1>1, <1>2 DEF Copy!copyvars, Pushed

\* The step of a client leaves the others and the files of the server alone
LEMMA ClientAlone ==
  ASSUME TftpInv, NEW c \in Clients, Client(c)
  PROVE  /\ UNCHANGED <<op, length, disk>>
         /\ \A x \in Clients \ {c} : client'[x] = client[x]
<1>1. disk' = disk /\ ClientStep(c, OpenSockets) /\ DOMAIN client = Clients
  BY DEF Client, servervars, TftpInv, Kept
<1>2. op' = op /\ length' = length
  BY <1>1 DEF ClientStep, SendRequest, RequestTimeout, PushAccepted, PushAcked, PushTimeout,
              PullData, PullTimeout
<1>3. ASSUME NEW x \in Clients \ {c} PROVE client'[x] = client[x]
  BY <1>1 DEF ClientStep, SendRequest, RequestTimeout, PushAccepted, PushAcked, PushTimeout,
              PullData, PullTimeout, SendBlock
<1>4. QED
  BY <1>1, <1>2, <1>3

\* Sending a block changes neither counter: it was done with the acknowledgement
LEMMA BlockCounts ==
  ASSUME NEW c \in Clients, DOMAIN client = Clients, NEW d, NEW me, NEW open,
         {"pc", "retry", "err", "complete", "size"} \subseteq DOMAIN me,
         me.complete = FALSE, SendBlock(c, d, me, open)
  PROVE  client'[c].size = me.size /\ client'[c].complete = FALSE
<1>1. PICK you : /\ client' = [client EXCEPT ![c] = you]
                 /\ \/ you = [me EXCEPT !.pc = "sent", !.retry = MaxRetry]
                    \/ you = Finished(me, "DATA", FALSE)
  BY DEF SendBlock
<1>2. you.size = me.size /\ you.complete = FALSE
  BY <1>1 DEF Finished
<1>3. QED
  BY <1>1, <1>2

\* A pusher counts only when it gets an acknowledgement
LEMMA CounterStays ==
  ASSUME TftpInv, Short, NEW c \in Clients, c \in Pushers, Client(c), ~PushAcked(c, OpenSockets)
  PROVE  client'[c].size = client[c].size /\ client'[c].complete = client[c].complete
<1>1. /\ client[c] \in [pc : {"request", "answer", "sent", "acked", "done"}, retry : 1 .. MaxRetry,
                        block : 0 .. BlockMod - 1, sender : Ports, size : Nat,
                        err : {"OK", "XFER", "ACK", "DATA", "FILE"}, complete : BOOLEAN]
      /\ client[c].pc # "done" => client[c].complete = FALSE
      /\ client[c].pc # "acked" /\ c \notin Pullers /\ DOMAIN client = Clients
  <2>1. GoodClient(c, client[c]) /\ PushClient(c, client[c])
    BY ClientAsIs
  <2>2. c \notin Pullers
    BY DEF Pushers, Pullers
  <2>3. QED
    BY <2>1, <2>2 DEF GoodClient, PushClient, TftpInv, Kept
<1>2. CASE SendRequest(c, OpenSockets)
  <2>1. /\ client[c].pc = "request"
        /\ \/ client' = [client EXCEPT ![c].pc = "answer"]
           \/ client' = [client EXCEPT ![c] = Finished(@, "XFER", FALSE)]
    BY <1>2 DEF SendRequest
  <2>2. QED
    BY <1>1, <2>1 DEF Finished
<1>3. CASE RequestTimeout(c, OpenSockets)
  <2>1. CASE LastTry(c)
    <3>1. client[c].pc = "answer" /\ client' = [client EXCEPT ![c] = Finished(@, "OK", FALSE)]
      BY <1>3, <2>1 DEF RequestTimeout
    <3>2. QED
      BY <1>1, <3>1 DEF Finished
  <2>2. CASE ~LastTry(c)
    <3>1. client[c].pc = "answer"
      BY <1>3 DEF RequestTimeout
    <3>2. client' = [client EXCEPT ![c].retry = FewerTries(@), ![c].pc = "request"]
      BY <1>3, <2>2 DEF RequestTimeout
    <3>3. QED
      BY <1>1, <3>1, <3>2
  <2>3. QED
    BY <2>1, <2>2
<1>4. CASE PushAccepted(c, OpenSockets)
  <2>1. PICK d \in Arrived(c) :
          LET me == [client[c] EXCEPT !.sender = d.from]
          IN  \/ SendBlock(c, {d}, [me EXCEPT !.block = NextBlock(@)], OpenSockets)
              \/ \E err \in {"FILE", "ACK"} : client' = [client EXCEPT ![c] = Finished(me, err, FALSE)]
    BY <1>4 DEF PushAccepted
  <2>2. PICK me, all : /\ me = [client[c] EXCEPT !.sender = d.from]
                       /\ all = [me EXCEPT !.block = NextBlock(@)]
    OBVIOUS
  <2>3. client[c].pc = "answer" /\ client[c].complete = FALSE
    BY <1>1, <1>4 DEF PushAccepted
  <2>4. /\ all.size = client[c].size /\ all.complete = FALSE
        /\ me.size = client[c].size /\ me.complete = FALSE
        /\ DOMAIN me = DOMAIN client[c] /\ DOMAIN all = DOMAIN client[c]
    BY <1>1, <2>2, <2>3
  <2>5. CASE SendBlock(c, {d}, all, OpenSockets)
    <3>1. {"pc", "retry", "err", "complete", "size"} \subseteq DOMAIN all
      BY <1>1, <2>4
    <3>2. client'[c].size = all.size /\ client'[c].complete = FALSE
      BY <1>1, <2>4, <2>5, <3>1, BlockCounts
    <3>3. QED
      BY <2>3, <2>4, <3>2
  <2>6. ASSUME NEW err \in {"FILE", "ACK"}, client' = [client EXCEPT ![c] = Finished(me, err, FALSE)]
        PROVE  client'[c].size = client[c].size /\ client'[c].complete = client[c].complete
    BY <1>1, <2>3, <2>4, <2>6 DEF Finished
  <2>7. QED
    BY <2>1, <2>2, <2>3, <2>4, <2>5, <2>6
<1>5. CASE PushTimeout(c, OpenSockets)
  <2>1. client[c].pc = "sent" /\ client[c].complete = FALSE
    BY <1>1, <1>5 DEF PushTimeout
  <2>2. PICK me : /\ client' = [client EXCEPT ![c] = me]
                  /\ \/ me = [client[c] EXCEPT !.retry = FewerTries(@)]
                     \/ \E err \in {"OK", "DATA"} : me = Finished(client[c], err, FALSE)
    <3>1. CASE LastTry(c)
      BY <1>5, <3>1 DEF PushTimeout
    <3>2. CASE ~LastTry(c)
      <4>1. PICK ok \in SendOk : client' = [client EXCEPT ![c] =
                 IF ok THEN [client[c] EXCEPT !.retry = FewerTries(@)]
                 ELSE Finished(client[c], "DATA", FALSE)]
        BY <1>5, <3>2 DEF PushTimeout
      <4> DEFINE x == [client[c] EXCEPT !.retry = FewerTries(@)]
                 y == Finished(client[c], "DATA", FALSE)
                 z == IF ok THEN x ELSE y
      <4>2. client' = [client EXCEPT ![c] = z] /\ (z = x \/ z = y)
        BY <4>1
      <4> HIDE DEF z
      <4>3. QED
        BY <4>2
    <3>3. QED
      BY <3>1, <3>2
  <2>3. me.size = client[c].size /\ me.complete = FALSE
    BY <1>1, <2>1, <2>2 DEF Finished
  <2>4. QED
    BY <1>1, <2>1, <2>2, <2>3
<1>6. QED
  BY <1>1, <1>2, <1>3, <1>4, <1>5 DEF Client, ClientStep, PullData, PullTimeout

\* What is acknowledged is on the server; the copy is complete when that is all
LEMMA AckedCounts ==
  ASSUME TftpInv, Short, NEW c \in Clients, Client(c), PushAcked(c, OpenSockets)
  PROVE  Copy!Count(c) \/ UNCHANGED Copy!copyvars
<1>1. client[c].pc = "sent" /\ DOMAIN client = Clients
  BY DEF PushAcked, TftpInv, Kept
<1>2. PICK d \in Arrived(c) :
        LET me  == [client[c] EXCEPT !.sender = d.from]
            all == [me EXCEPT !.block = NextBlock(@), !.size = @ + Len(Pack(c))]
        IN  IF ~IsAck(d, me.block)
            THEN client' = [client EXCEPT ![c] = Finished(me, "ACK", FALSE)]
            ELSE IF Len(Pack(c)) < BlkSize
            THEN client' = [client EXCEPT ![c] = Finished(all, "OK", TRUE)]
            ELSE SendBlock(c, {d}, all, OpenSockets)
  BY DEF PushAcked
<1>3. /\ c \in Pushers /\ client[c].block \in 0 .. BlockMod - 1 /\ client[c].size \in Nat
      /\ client[c].complete = FALSE /\ client[c].block >= 1
      /\ client[c].size = (client[c].block - 1) * BlkSize /\ client[c].size <= length[c]
      /\ client[c] \in [pc : {"request", "answer", "sent", "acked", "done"}, retry : 1 .. MaxRetry,
                        block : 0 .. BlockMod - 1, sender : Ports, size : Nat,
                        err : {"OK", "XFER", "ACK", "DATA", "FILE"}, complete : BOOLEAN]
  BY <1>1, ClientAsIs DEF GoodClient, PushClient
<1>4. /\ UNCHANGED <<op, length, disk>> /\ Pushers' = Pushers
      /\ \A x \in Clients \ {c} : client'[x] = client[x]
  BY ClientAlone DEF Pushers
<1> DEFINE n == Len(Pack(c))
           b == client[c].block
<1>5. CASE ~IsAck(d, b)
  <2>1. client'[c].size = client[c].size /\ client'[c].complete = client[c].complete
    <3>1. PICK me : me = [client[c] EXCEPT !.sender = d.from]
      OBVIOUS
    <3>2. me.size = client[c].size /\ me.block = b /\ DOMAIN me = DOMAIN client[c]
      BY <1>3, <3>1
    <3>3. client' = [client EXCEPT ![c] = Finished(me, "ACK", FALSE)]
      BY <1>2, <1>5, <3>1, <3>2
    <3>4. QED
      BY <1>1, <1>3, <3>2, <3>3 DEF Finished
  <2>2. UNCHANGED Copy!copyvars
    BY <1>4, <2>1, CopyStutters
  <2>3. QED
    BY <2>2
<1>6. CASE IsAck(d, b)
  <2>1. length[c] \in Nat /\ Source(c) \in Seq(Nat) /\ Len(Source(c)) = length[c]
    BY SourceFile, ClientAssumption DEF TftpInv, Kept
  <2>2. /\ n \in 0 .. BlkSize
        /\ n = IF client[c].size + BlkSize <= length[c] THEN BlkSize
               ELSE IF client[c].size < length[c] THEN length[c] - client[c].size ELSE 0
    <3>1. PICK file, off : file = Source(c) /\ off = client[c].size
      OBVIOUS
    <3>2. /\ Len(Block(file, off)) \in 0 .. BlkSize
          /\ Len(Block(file, off)) = IF off + BlkSize <= Len(file) THEN BlkSize
                                     ELSE IF off < Len(file) THEN Len(file) - off ELSE 0
      <4>1. file \in Seq(Nat) /\ off \in Nat
        BY <1>3, <2>1, <3>1
      <4>2. QED
        BY <4>1, BlockFile
    <3>3. n = Len(Block(file, off)) /\ Len(file) = length[c]
      BY <2>1, <3>1 DEF Pack
    <3> HIDE DEF n
    <3>4. QED
      BY <3>1, <3>2, <3>3
  <2>3. There(c, Upto(c, b))
    <3>1. d.op = "ACK" /\ d.block = b /\ d.to = c
      BY <1>6 DEF IsAck, Arrived
    <3>2. PushDatagram(d)
      BY FromServer
    <3>3. QED
      BY <1>3, <3>1, <3>2 DEF PushDatagram
  <2>4. client[c].size + n = Upto(c, b) /\ (n < BlkSize => client[c].size + n = length[c])
    <3>1. BlkSize \in Nat /\ b \in Nat /\ b - 1 \in Nat
      BY <1>3, XferAssumption
    <3>2. b * BlkSize = (b - 1) * BlkSize + BlkSize
      BY <3>1
    <3>3. b * BlkSize = client[c].size + BlkSize
      BY <1>3, <3>2
    <3> HIDE DEF b, n
    <3>4. PICK z, l \in Nat : z = client[c].size /\ l = length[c]
      BY <1>3, <2>1
    <3>5. /\ n = IF z + BlkSize <= l THEN BlkSize ELSE IF z < l THEN l - z ELSE 0
          /\ b * BlkSize = z + BlkSize /\ z <= l
          /\ Upto(c, b) = IF z + BlkSize <= l THEN z + BlkSize ELSE l
      <4>1. Upto(c, b) = IF b * BlkSize <= l THEN b * BlkSize ELSE l
        BY <3>4 DEF Upto
      <4>2. QED
        BY <1>3, <2>2, <3>3, <3>4, <4>1
    <3>6. z + n = Upto(c, b) /\ (n < BlkSize => z + n = l)
      BY <3>1, <3>4, <3>5, XferAssumption
    <3>7. QED
      BY <3>4, <3>6
  <2>5. client'[c].size = client[c].size + n /\ (client'[c].complete => n < BlkSize)
    <3>1. PICK me, all : /\ me = [client[c] EXCEPT !.sender = d.from]
                         /\ all = [me EXCEPT !.block = NextBlock(@), !.size = @ + Len(Pack(c))]
      OBVIOUS
    <3>2. /\ me.block = b /\ all.size = client[c].size + n /\ all.complete = FALSE
          /\ DOMAIN all = DOMAIN client[c]
      BY <1>3, <3>1
    <3>3. CASE n < BlkSize
      <4>1. client' = [client EXCEPT ![c] = Finished(all, "OK", TRUE)]
        BY <1>2, <1>6, <3>1, <3>2, <3>3
      <4>2. client'[c].size = all.size
        BY <1>1, <1>3, <3>2, <4>1 DEF Finished
      <4>3. QED
        BY <3>2, <3>3, <4>2
    <3>4. CASE ~(n < BlkSize)
      <4>1. SendBlock(c, {d}, all, OpenSockets)
        BY <1>2, <1>6, <3>1, <3>2, <3>4
      <4>2. {"pc", "retry", "err", "complete", "size"} \subseteq DOMAIN all
        BY <1>3, <3>2
      <4>3. client'[c].size = all.size /\ client'[c].complete = FALSE
        BY <1>1, <3>2, <4>1, <4>2, BlockCounts
      <4>4. QED
        BY <3>2, <4>3
    <3>5. QED
      BY <3>3, <3>4
  <2> HIDE DEF n, b
  <2>7. There(c, client'[c].size) /\ client'[c].size \in Nat
    <3>1. client[c].size + n \in Nat /\ client'[c].size = Upto(c, b)
      BY <1>3, <2>2, <2>4, <2>5, XferAssumption
    <3>2. QED
      BY <2>3, <2>5, <3>1
  <2>8. Copy!Reached(c, client'[c].size)
    BY <1>3, <2>7, CopyReached DEF TftpInv
  <2>9. client'[c].size \in client[c].size .. client[c].size + BlkSize
    BY <1>3, <2>2, <2>5, XferAssumption
  <2>10. client'[c].complete => client'[c].size = length[c]
    BY <2>4, <2>5
  <2>11. \A x \in Clients : Source(x)' = Source(x)
    BY <1>4 DEF Source
  <2>12. Copy!Count(c)
    BY <1>3, <1>4, <2>1, <2>8, <2>9, <2>10, <2>11 DEF Copy!Count, Copy!Others, Pushed
  <2>13. QED
    BY <2>12
<1>7. QED
  BY <1>5, <1>6

\* A step of a client counts a block, or nothing
LEMMA ClientCopies ==
  ASSUME TftpInv, Short, NEW c \in Clients, Client(c)
  PROVE  Copy!Count(c) \/ UNCHANGED Copy!copyvars
<1>1. CASE PushAcked(c, OpenSockets)
  BY <1>1, AckedCounts
<1>2. CASE ~PushAcked(c, OpenSockets)
  <2>1. ASSUME NEW x \in Clients, x \in Pushers
        PROVE  client'[x].size = client[x].size /\ client'[x].complete = client[x].complete
    BY <1>2, <2>1, ClientAlone, CounterStays
  <2>2. UNCHANGED Copy!copyvars
    BY <2>1, ClientAlone, CopyStutters
  <2>3. QED
    BY <2>2
<1>3. QED
  BY <1>1, <1>2

\* A block that is written is the next piece of the copy
LEMMA DataCopies ==
  ASSUME TftpInv, Short, NEW i \in 1 .. Slots, Data(i, OpenClients), UNCHANGED clientvars
  PROVE  UNCHANGED disk \/ \E c \in Clients : Copy!Write(c)
<1>1. i \in Busy /\ table[i].w_r = "write"
  BY DEF Data
<1>2. PICK d \in Arrived(table[i].xfer), written \in DiskOk :
       LET t == [table[i] EXCEPT !.sender = d.from]
       IN  disk' = IF IsData(d, t.block) /\ written
                   THEN [disk EXCEPT ![t.fd.name] = FileWrite(t.fd, t.pos, @, d.data)] ELSE disk
  BY DEF Data
<1>3. PICK s : s = table[i]
  OBVIOUS
<1>4. Shape(s) /\ d.from = s.sender /\ s.xfer \in Ports \ {Server}
  BY <1>1, <1>3, EntryOwns
<1>5. [s EXCEPT !.sender = d.from] = s
  BY <1>4 DEF Shape
<1>6. CASE ~(IsData(d, s.block) /\ written)
  BY <1>2, <1>3, <1>5, <1>6
<1>7. CASE IsData(d, s.block) /\ written
  <2>1. disk' = [disk EXCEPT ![s.sender] = Overlay(@, s.fd.off, d.data)]
    <3>1. disk' = [disk EXCEPT ![s.fd.name] = FileWrite(s.fd, s.pos, @, d.data)]
      BY <1>2, <1>3, <1>5, <1>7
    <3>2. QED
      BY <1>4, <3>1 DEF FileWrite, Shape
  <2>2. d \in Arrived(s.xfer) /\ s = table[i]
    BY <1>3
  <2>3. /\ \A x \in Clients \ {s.sender} : disk'[x] = disk[x]
        /\ Continued(disk[s.sender], s.fd.off, Len(d.data), disk'[s.sender])
    <3> i \in Busy /\ s = table[i] /\ s.w_r = "write" /\ d \in Arrived(s.xfer)
        /\ IsData(d, s.block)
      BY <1>1, <1>3, <1>7, <2>2
    <3>1. QED
      BY <2>1, BlockWritten
  <2>4. /\ s.sender \in Pushers /\ There(s.sender, s.fd.off)
        /\ s.fd.off + Len(d.data) <= length[s.sender] /\ Len(d.data) <= BlkSize
    BY <1>1, <1>3, <1>7, <2>2, BlockArrives
  <2>5. Len(d.data) \in Nat /\ s.sender \in Clients /\ s.fd.off \in Nat
    BY <1>4, <2>2, FromClient, LenProperties DEF Shape
  <2>6. PICK c, off, n : c = s.sender /\ off = s.fd.off /\ n = Len(d.data)
    OBVIOUS
  <2>7. /\ c \in Clients /\ off \in Nat /\ n \in Nat
        /\ c \in Pushers /\ There(c, off) /\ off + n <= length[c] /\ n <= BlkSize
        /\ \A x \in Clients \ {c} : disk'[x] = disk[x]
        /\ Continued(disk[c], off, n, disk'[c])
    BY <2>3, <2>4, <2>5, <2>6
  <2>8. Pushers' = Pushers /\ (\A x \in Clients : Source(x)' = Source(x)) /\ client' = client
    BY DEF Pushers, Source, clientvars
  <2>9. length[c] \in Nat /\ Source(c) \in Seq(Nat) /\ Len(Source(c)) = length[c]
    BY <2>7, SourceFile, ClientAssumption DEF TftpInv, Kept
  <2>10. off \in 0 .. Len(Source(c)) /\ n \in 0 .. BlkSize
    BY <2>7, <2>9, XferAssumption
  <2>11. Copy!Reached(c, off)
    BY <2>7, CopyReached DEF TftpInv
  <2>12. \A k \in Nat : k > off /\ k <= off + n => Source(c)[k] = k
    BY <2>7, <2>9 DEF Source
  <2> DEFINE src == [x \in Clients |-> Source(x)]
             tgt == Pushed(disk, <<>>)
  <2>13. /\ src[c] = Source(c) /\ tgt[c] = disk[c] /\ tgt'[c] = disk'[c]
         /\ \A x \in Clients \ {c} : tgt'[x] = tgt[x]
    BY <2>7, <2>8 DEF Pushed
  <2>14. \A k \in 1 .. Len(tgt'[c]) :
           tgt'[c][k] = IF k > off /\ k <= off + n THEN src[c][k] ELSE tgt[c][k]
    <3>1. Len(disk[c]) \in Nat
      BY <2>7, LenProperties DEF TftpInv, Kept
    <3>2. Len(disk'[c]) \in Nat
      BY <2>7, <3>1 DEF Continued
    <3>3. ASSUME NEW k \in 1 .. Len(disk'[c])
          PROVE  disk'[c][k] = IF k > off /\ k <= off + n THEN Source(c)[k] ELSE disk[c][k]
      <4>1. disk'[c][k] = IF k > off /\ k <= off + n THEN k ELSE disk[c][k]
        BY <2>7 DEF Continued
      <4>2. k \in Nat
        BY <3>2
      <4>3. QED
        BY <2>12, <4>1, <4>2
    <3> HIDE DEF src, tgt
    <3>4. QED
      BY <2>13, <3>3
  <2>15. /\ off \in 0 .. Len(src[c]) /\ off + n <= Len(src[c])
         /\ Len(tgt'[c]) = IF off + n > Len(tgt[c]) THEN off + n ELSE Len(tgt[c])
    BY <2>7, <2>9, <2>10, <2>13 DEF Continued
  <2>16. UNCHANGED <<src, Pushed([x \in Clients |-> client[x].size], 0),
                     Pushed([x \in Clients |-> client[x].complete], FALSE)>>
    BY <2>8 DEF Pushed
  <2> HIDE DEF src, tgt
  <2>17. Copy!Write(c)
    BY <2>10, <2>11, <2>13, <2>14, <2>15, <2>16 DEF Copy!Write, Copy!Others, src, tgt
  <2>18. QED
    BY <2>7, <2>17
<1>8. QED
  BY <1>6, <1>7

\* A step of the server writes a block, or nothing
LEMMA ServerCopies ==
  ASSUME TftpInv, Short, Serve
  PROVE  (\E c \in Clients : Copy!Write(c)) \/ UNCHANGED Copy!copyvars
<1>1. UNCHANGED clientvars /\ ServerStep(OpenClients)
  BY DEF Serve
<1>2. CASE UNCHANGED disk
  <2>1. UNCHANGED Copy!copyvars
    BY <1>1, <1>2, CopyStutters DEF clientvars
  <2>2. QED
    BY <2>1
<1>3. CASE Refuse(OpenClients) \/ Request(OpenClients)
  <2>1. PICK d \in Arrived(Server) :
          disk' \in {disk, [disk EXCEPT ![d.from] = Created(@)]}
    BY <1>3 DEF Refuse, Request
  <2>2. d.from \in Clients
    BY ServerPort, FromClient DEF TftpInv
  <2>3. disk' = disk
    BY <2>1, <2>2, CreatedFile DEF TftpInv, Kept
  <2>4. QED
    BY <1>2, <2>3
<1>4. CASE NoSocket(OpenClients) \/ Timeout(OpenClients) \/ Exit(OpenClients)
  BY <1>2, <1>4 DEF NoSocket, Timeout, Exit
<1>5. ASSUME NEW i \in 1 .. Slots, Acked(i, OpenClients) PROVE UNCHANGED disk
  BY <1>5 DEF Acked
<1>6. ASSUME NEW i \in 1 .. Slots, Data(i, OpenClients)
      PROVE  UNCHANGED disk \/ \E c \in Clients : Copy!Write(c)
  BY <1>1, <1>6, DataCopies
<1>7. QED
  BY <1>1, <1>2, <1>3, <1>4, <1>5, <1>6 DEF ServerStep

\* A push copies, for any loss, doubling and delay of datagrams: what is on the
\* server is a beginning of the client's file with its old content behind, what
\* the client counts is there, and it returns without an error after a short
\* block only when all is there (tftp_client.c:225). The files are short enough
\* that the 16-bit number of a block comes once.
THEOREM PushesCopy ==
  ASSUME Short PROVE Spec => PushCopies
<1>1. Init => Copy!Init
  <2> SUFFICES ASSUME Init PROVE Copy!Init
    OBVIOUS
  <2>1. disk \in [Clients -> Seq(Nat)]
    BY InitKeeps DEF TftpInv, Kept
  <2>2. \A c \in Clients : client[c].size = 0 /\ client[c].complete = FALSE
    BY DEF Init, ClientInit
  <2>3. \A c \in Clients : Pushed(disk, <<>>)[c] \in Seq(Nat)
    BY <2>1 DEF Pushed
  <2>4. /\ Pushed([c \in Clients |-> client[c].size], 0) = [c \in Clients |-> 0]
        /\ Pushed([c \in Clients |-> client[c].complete], FALSE) = [c \in Clients |-> FALSE]
    BY <2>2 DEF Pushed
  <2>5. QED
    BY <2>3, <2>4 DEF Copy!Init
<1>2. TftpInv /\ [Next]_vars => [Copy!Next]_(Copy!copyvars)
  <2> SUFFICES ASSUME TftpInv, [Next]_vars
               PROVE  Copy!Next \/ UNCHANGED Copy!copyvars
    OBVIOUS
  <2>1. ASSUME NEW c \in Clients, Client(c) PROVE Copy!Count(c) \/ UNCHANGED Copy!copyvars
    BY <2>1, ClientCopies
  <2>2. CASE Serve
    BY <2>2, ServerCopies DEF Copy!Next
  <2>3. CASE Network \/ Shell \/ UNCHANGED vars
    <3>1. UNCHANGED <<op, length, disk, client>>
      BY <2>3 DEF Network, Shell, Stop, vars, clientvars, servervars
    <3>2. UNCHANGED Copy!copyvars
      BY <3>1, CopyStutters
    <3>3. QED
      BY <3>2
  <2>4. QED
    BY <2>1, <2>2, <2>3 DEF Next, Copy!Next
<1>3. QED
  BY <1>1, <1>2, TftpInvariant, PTL DEF Spec, PushCopies, Copy!Spec
==============================================================================
