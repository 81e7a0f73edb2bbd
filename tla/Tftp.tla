-------------------------------- MODULE Tftp --------------------------------
(***************************************************************************)
(* Clients, the server and the network together. Each client copies a file *)
(* of its own, to the server or from it.                                   *)
(***************************************************************************)
EXTENDS TftpClient, TftpServer

vars == <<netvars, clientvars, servervars>>

OpenClients == {c \in Clients : client[c].pc # "done"}
OpenSockets == OpenClients \cup socks

Init ==
  /\ NetInit /\ ClientInit /\ ServerInit
  /\ \E old \in [Clients -> Olds] :
       disk = [c \in Clients |-> IF c \in Pullers THEN Source(c) ELSE OldContent(old[c])]

Client(c) == ClientStep(c, OpenSockets) /\ UNCHANGED servervars
Serve == ServerStep(OpenClients) /\ UNCHANGED clientvars
Network == (Lose \/ Double) /\ UNCHANGED <<clientvars, servervars>>
Shell == Stop /\ UNCHANGED clientvars

Next == (\E c \in Clients : Client(c)) \/ Serve \/ Network \/ Shell

Spec == Init /\ [][Next]_vars

\* Every thread goes on, and a select ends after five seconds at the latest
FairSpec == Spec /\ WF_vars(Serve) /\ \A c \in Clients : WF_vars(Client(c))

-----------------------------------------------------------------------------
(* The types of what the three parts keep *)
TypeOK ==
  /\ IsABag(net)
  /\ \A d \in Under : /\ d.op \in {"RRQ", "WRQ", "DATA", "ACK", "ERROR"}
                      /\ d.block \in 0..BlockMod - 1
                      /\ d.to \in OpenSockets
  /\ \A c \in Clients :
       /\ client[c].pc \in {"request", "answer", "sent", "acked", "done"}
       /\ client[c].retry \in 1..MaxRetry
       /\ client[c].block \in 0..BlockMod - 1
       /\ client[c].err \in {"OK", "XFER", "ACK", "DATA", "FILE"}
  /\ run \in {"run", "off", "unborn", "dead"} /\ is_stop \in BOOLEAN
  /\ \A i \in Busy : table[i].retry \in 0..MaxRetry /\ table[i].last_read \in 0..BlkSize

\* A push copies: whatever is lost, doubled or late, the file on the server
\* is a beginning of the client's file with what it held before behind it,
\* what the client counts is on the server, and the client only ends without
\* an error after a short block when all is there (tftp_client.c:225).
Pushed(f, none) == [c \in Clients |-> IF c \in Pushers THEN f[c] ELSE none]
Copy == INSTANCE FileCopy WITH
  Copiers <- Clients, Most <- BlkSize,
  source <- [c \in Clients |-> Source(c)],
  target <- Pushed(disk, <<>>),
  counted <- Pushed([c \in Clients |-> client[c].size], 0),
  complete <- Pushed([c \in Clients |-> client[c].complete], FALSE)
PushCopies == Copy!Spec

\* What a pull has written are units of the source in their order, and it
\* has skipped some only if the server sent a block again after a timeout:
\* tftp_file_read ignores the position (tftp_port.c:52), so that the "same"
\* block is the next piece of the file under the old number.
PullsInOrder ==
  \A c \in Pullers :
    LET got == SubSeq(local[c], 1, client[c].size)
    IN  /\ \A i, j \in 1..Len(got) : i < j => got[i] < got[j]
        /\ c \notin resent => \A i \in 1..Len(got) : got[i] = i
        /\ client[c].complete /\ c \notin resent => Len(got) = length[c]

\* A pull that ends without an error after a short block has the file
PulledIsSource ==
  \A c \in Pullers :
    client[c].complete => SubSeq(local[c], 1, client[c].size) = Source(c)

\* The open sockets of the server are its own and one for each entry of the
\* table, so that none is lost and none is closed twice, whichever tries of
\* sendto fail; with two sockets more than places in the table a read request
\* finds one (tftp_xfer.c:255); and no entry is used after it was destroyed
\* (tftp_server.c:290), unless a sendto may work with its very last try only:
\* that success is taken for a failure (tftp_server.c:182), the entry is
\* destroyed twice and the board stops.  Nothing is promised for that case.
SocketsSound ==
  /\ run = "run" => socks = {Server} \cup {table[i].xfer : i \in Busy}
  /\ run = "off" => socks = {}
  /\ \A i, j \in Busy : table[i].xfer = table[j].xfer => i = j
  /\ run = "dead" => MaxRetry \in SendFails
  /\ run = "unborn" => pool < Slots + 2

\* Every push and pull returns, and what the clients leave behind does not
\* stay: the table becomes empty for good, although an entry is only given
\* up after five seconds in which nobody sends anything to the server.
TransfersEnd == <>[](OpenClients = {} /\ Busy = {})
=============================================================================
