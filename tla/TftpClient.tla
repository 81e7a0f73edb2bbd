----------------------------- MODULE TftpClient -----------------------------
(***************************************************************************)
(* tftp_client.c: each client does one tftp_client_push or                 *)
(* tftp_client_pull. A step reads the datagram the select was waiting for, *)
(* does what follows and sends, up to the next select.                     *)
(***************************************************************************)
EXTENDS TftpXfer

CONSTANTS
  Clients,            \* each has its own file
  Ops,                \* what they may do: "push", "pull"
  Lengths,            \* lengths of the files that are copied
  Olds,               \* lengths of what the target held before
  SendOk,             \* outcomes of sendto at the client
  LocalOk             \* outcomes of opening and writing the local file

ASSUME ClientAssumption ==
  /\ Clients \subseteq 1..Server - 1 /\ Ops \subseteq {"push", "pull"}
  /\ Lengths \subseteq Nat /\ Olds \subseteq Nat
  /\ SendOk \subseteq BOOLEAN /\ LocalOk \subseteq BOOLEAN

VARIABLES
  client,   \* each client: where it waits, its counters, its result
  op,       \* what each client was called for
  length,   \* the length of the file it copies
  local     \* the file it writes when it pulls

clientvars == <<client, op, length, local>>

Pushers == {c \in Clients : op[c] = "push"}
Pullers == {c \in Clients : op[c] = "pull"}

Source(c) == [i \in 1..length[c] |-> i]      \* units are told apart
OldContent(n) == [i \in 1..n |-> 0]

ClientInit ==
  /\ client = [c \in Clients |->
       [pc |-> "request", retry |-> MaxRetry, block |-> 0, sender |-> Server,
        size |-> 0, err |-> "OK", complete |-> FALSE]]
  /\ length \in [Clients -> Lengths]
  /\ op \in [Clients -> Ops]
  /\ \E old \in [Clients -> Olds] : local = [c \in Clients |-> OldContent(old[c])]

Finished(me, err, complete) ==
  [me EXCEPT !.pc = "done", !.err = err, !.complete = complete]

OneMore(c) == client[c].retry = 0
LastTry(c) == client[c].retry = 1

\* The packet a pusher is sending: the next block after what was counted
Pack(c) == Block(Source(c), client[c].size)

-----------------------------------------------------------------------------
(* tftp_send_request, first or again, and the wait for the answer *)
SendRequest(c, open) ==
  /\ client[c].pc = "request"
  /\ \E ok \in SendOk :
       IF ok
       THEN /\ client' = [client EXCEPT ![c].pc = "answer"]
            /\ Carry({}, {RequestPacket(c, IF c \in Pushers THEN "WRQ" ELSE "RRQ")}, open)
       ELSE /\ client' = [client EXCEPT ![c] = Finished(@, "XFER", FALSE)]
            /\ Carry({}, {}, open \ {c})
  /\ UNCHANGED <<op, length, local, faults>>

\* No answer: the retries end with err still OK
RequestTimeout(c, open) ==
  /\ client[c].pc = "answer" /\ Silent
  /\ IF LastTry(c)
     THEN /\ client' = [client EXCEPT ![c] = Finished(@, "OK", FALSE)]
          /\ Carry({}, {}, open \ {c})
     ELSE /\ client' = [client EXCEPT ![c].retry = FewerTries(@), ![c].pc = "request"]
          /\ UNCHANGED net
  /\ UNCHANGED <<op, length, local, faults>>

-----------------------------------------------------------------------------
(* tftp_client_push after the request *)

\* tftp_transfer_err, whose sendto may fail as well
Tell(told, c, me) == IF told THEN {ErrorPacket(c, me.sender)} ELSE {}

\* Write one block and select: me is the client as the acknowledgement left it
SendBlock(c, d, me, open) ==
  LET data == Block(Source(c), me.size)
  IN \E ok \in SendOk :
       IF ok
       THEN /\ client' = [client EXCEPT ![c] = [me EXCEPT !.pc = "sent", !.retry = MaxRetry]]
            /\ Carry(d, {DataPacket(c, me.sender, me.block, data)}, open)
       ELSE /\ client' = [client EXCEPT ![c] = Finished(me, "DATA", FALSE)]
            /\ \E told \in SendOk : Carry(d, Tell(told, c, me), open \ {c})

PushAccepted(c, open) ==
  /\ client[c].pc = "answer" /\ c \in Pushers
  /\ \E d \in Arrived(c) :
       LET me == [client[c] EXCEPT !.sender = d.from]
       IN  IF IsAck(d, me.block)
           THEN \E ok \in LocalOk :
                  IF ok
                  THEN SendBlock(c, {d}, [me EXCEPT !.block = NextBlock(@)], open)
                  ELSE /\ client' = [client EXCEPT ![c] = Finished(me, "FILE", FALSE)]
                       /\ Carry({d}, {}, open \ {c})
           ELSE /\ client' = [client EXCEPT ![c] = Finished(me, "ACK", FALSE)]
                /\ Carry({d}, {}, open \ {c})
  /\ UNCHANGED <<op, length, local, faults>>

PushAcked(c, open) ==
  /\ client[c].pc = "sent"
  /\ \E d \in Arrived(c) :
       LET me  == [client[c] EXCEPT !.sender = d.from]
           all == [me EXCEPT !.block = NextBlock(@), !.size = @ + Len(Pack(c))]
       IN  IF ~IsAck(d, me.block)
           THEN /\ client' = [client EXCEPT ![c] = Finished(me, "ACK", FALSE)]
                /\ Carry({d}, {}, open \ {c})
           ELSE IF Len(Pack(c)) < BlkSize
           THEN /\ client' = [client EXCEPT ![c] = Finished(all, "OK", TRUE)]
                /\ Carry({d}, {}, open \ {c})
           ELSE SendBlock(c, {d}, all, open)
  /\ UNCHANGED <<op, length, local, faults>>

\* The same packet is sent again; after the last retry err is still OK
PushTimeout(c, open) ==
  /\ client[c].pc = "sent" /\ Silent
  /\ IF LastTry(c)
     THEN /\ client' = [client EXCEPT ![c] = Finished(@, "OK", FALSE)]
          /\ Carry({}, {}, open \ {c})
     ELSE \E ok, told \in SendOk :
            /\ client' = [client EXCEPT ![c] =
                 IF ok THEN [client[c] EXCEPT !.retry = FewerTries(@)]
                 ELSE Finished(client[c], "DATA", FALSE)]
            /\ Carry({}, IF ok THEN {DataPacket(c, client[c].sender, client[c].block, Pack(c))}
                         ELSE Tell(told, c, client[c]),
                     IF ok THEN open ELSE open \ {c})
  /\ UNCHANGED <<op, length, local, faults>>

-----------------------------------------------------------------------------
(* tftp_client_pull after the request *)
\* The local file is opened when the first answer is there; that it could not
\* be shows at the first write, as a full disk does at a later one
PullData(c, open) ==
  /\ c \in Pullers /\ client[c].pc \in {"answer", "acked"}
  /\ \E d \in Arrived(c), ok \in LocalOk :
       LET me  == [client[c] EXCEPT !.sender = d.from]
           all == [me EXCEPT !.block = d.block, !.size = @ + Len(d.data)]
           ack == AckPacket(c, d.from, d.block)
       IN     IF ~IsData(d, me.block)
              THEN /\ client' = [client EXCEPT ![c] = Finished(me, "DATA", FALSE)]
                   /\ Carry({d}, {}, open \ {c})
                   /\ UNCHANGED local
              ELSE IF ~ok
              THEN /\ client' = [client EXCEPT ![c] = Finished(me, "FILE", FALSE)]
                   /\ \E told \in SendOk : Carry({d}, Tell(told, c, me), open \ {c})
                   /\ UNCHANGED local
              ELSE \E sent \in SendOk :
                   /\ local' = [local EXCEPT ![c] = Overlay(@, me.size, d.data)]
                   /\ client' = [client EXCEPT ![c] =
                        IF Len(d.data) < BlkSize THEN Finished(all, "OK", TRUE)
                        ELSE [all EXCEPT !.pc = "acked", !.retry = MaxRetry]]
                   /\ Carry({d}, IF sent THEN {ack} ELSE {},
                            IF Len(d.data) < BlkSize THEN open \ {c} ELSE open)
  /\ UNCHANGED <<op, length, faults>>

PullTimeout(c, open) ==
  /\ client[c].pc = "acked" /\ Silent
  /\ IF LastTry(c)
     THEN /\ client' = [client EXCEPT ![c] = Finished(@, "OK", FALSE)]
          /\ Carry({}, {}, open \ {c})
     ELSE \E sent \in SendOk :
            /\ client' = [client EXCEPT ![c].retry = FewerTries(@)]
            /\ Carry({}, IF sent THEN {AckPacket(c, client[c].sender, client[c].block)} ELSE {}, open)
  /\ UNCHANGED <<op, length, local, faults>>

ClientStep(c, open) ==
  \/ SendRequest(c, open) \/ RequestTimeout(c, open)
  \/ PushAccepted(c, open) \/ PushAcked(c, open) \/ PushTimeout(c, open)
  \/ PullData(c, open) \/ PullTimeout(c, open)
=============================================================================
