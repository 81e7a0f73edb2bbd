----------------------------- MODULE TftpServer -----------------------------
(***************************************************************************)
(* tftp_server.c. The server is one thread: a select over its socket and   *)
(* those of the transfers in its table, and a handler for each of them     *)
(* that is ready. One action is one call of a handler.                     *)
(***************************************************************************)
EXTENDS TftpXfer

CONSTANTS
  Slots,       \* client_table (TFTP_SERVER_CONNECT_MAX entries)
  Pools,       \* how many sockets the network stack may have for the server
  SendFails,   \* how often in a row sendto may fail at the server
  Writable,    \* is_write
  DiskOk,      \* outcomes of writing a block
  Stops        \* may the server be stopped (tftp --stop)?

ASSUME ServerAssumption ==
  /\ Slots \in Nat /\ Pools \subseteq Nat /\ SendFails \subseteq 0..MaxRetry + 1
  /\ Writable \in BOOLEAN /\ DiskOk \subseteq BOOLEAN /\ Stops \in BOOLEAN

VARIABLES
  run,        \* "run", "off", or the null pointer that was used: "unborn", "dead"
  is_stop,
  table,      \* the transfers, Free where xfer is NULL
  socks,      \* the open sockets of the server
  pool,       \* how many there can be
  port,       \* the number of the next one
  disk,       \* the files
  resent      \* history: the clients to which a block was sent again

servervars == <<run, is_stop, table, socks, pool, port, disk, resent>>

Free == [xfer |-> 0]
Busy == {i \in 1..Slots : table[i] # Free}
Empty == [i \in 1..Slots |-> Free]

ServerInit ==
  /\ run = "run" /\ is_stop = FALSE /\ table = Empty
  /\ socks = {Server} /\ pool \in Pools /\ port = Server + 1
  /\ resent = {}

-----------------------------------------------------------------------------
(* tftp_server_send_file, tftp_server_send_ack: sendto is tried until it   *)
(* works, and the outcome is read off a counter that is 0 when the last    *)
(* try worked and -1 when it did not.                                      *)
Gone(fails) == fails = MaxRetry     \* the transfer is destroyed
Out(fails, d) == IF fails <= MaxRetry THEN {d} ELSE {}

\* What a transfer has to send, and the entry after it. The file goes on
\* where the handle stands, resend or not.
NextPiece(t, resend) ==
  LET pos  == IF resend THEN t.pos ELSE t.pos + t.last_read
      data == FileRead(t.fd, pos, disk[t.sender])
  IN  [entry |-> [t EXCEPT !.pos = pos, !.last_read = Len(data), !.fd = Advance(@, data)],
       packet |-> DataPacket(t.xfer, t.sender, t.block, data)]
Answer(t) == [entry |-> t, packet |-> AckPacket(t.xfer, t.sender, t.block)]
Output(t, resend) == IF t.w_r = "read" THEN NextPiece(t, resend) ELSE Answer(t)

\* Entry i becomes t, or is destroyed with its socket
Keep(i, t) == table' = [table EXCEPT ![i] = t] /\ UNCHANGED socks
DestroyLeaking(i) == table' = [table EXCEPT ![i] = Free] /\ UNCHANGED socks
Destroy(i) == table' = [table EXCEPT ![i] = Free] /\ socks' = socks \ {table[i].xfer}

\* A null pointer: the board stops
Crash(pointer) == run' = pointer /\ table' = Empty /\ socks' = {}

-----------------------------------------------------------------------------
(* TFTP_SERVER_EVENT_CONNECT with tftp_server_request_handle before it.    *)
(* clients are the open sockets at the other end.                          *)

\* tftp_recv_request: no socket for the transfer; a read request goes on
\* through the null pointer
NoSocket(clients) ==
  /\ run = "run" /\ Cardinality(socks) >= pool
  /\ \E d \in Arrived(Server) :
       /\ IF d.op = "RRQ" THEN Crash("unborn") ELSE UNCHANGED <<run, table, socks>>
       /\ Carry({d}, {}, clients \cup socks')
  /\ UNCHANGED <<is_stop, pool, port, disk, resent, faults>>

\* Not writable, or no place in the table; the file is opened before the latter
Refuse(clients) ==
  /\ run = "run" /\ Cardinality(socks) < pool
  /\ \E d \in Arrived(Server) :
       /\ (d.op = "WRQ" /\ ~Writable) \/ Busy = 1..Slots
       /\ Carry({d}, {ErrorPacket(port, d.from)}, clients \cup socks)
       /\ disk' = IF d.op = "WRQ" /\ Writable
                  THEN [disk EXCEPT ![d.from] = Created(@)] ELSE disk
  /\ port' = port + 1
  /\ UNCHANGED <<run, is_stop, table, socks, pool, resent, faults>>

Entry(d, fd) ==
  [xfer |-> port, sender |-> d.from,
   block |-> IF d.op = "RRQ" THEN 1 ELSE 0,
   w_r |-> IF d.op = "RRQ" THEN "read" ELSE "write",
   retry |-> MaxRetry, fd |-> fd, pos |-> 0, last_read |-> 0]

\* tftp_client_xfer_add takes the first free place
Place == CHOOSE i \in (1..Slots) \ Busy : \A j \in (1..Slots) \ Busy : i <= j

Request(clients) ==
  /\ run = "run" /\ Cardinality(socks) < pool /\ Busy # 1..Slots
  /\ \E d \in Arrived(Server), fails \in SendFails :
       LET fd == IF d.op = "RRQ" THEN OpenRead(d.from, disk[d.from]) ELSE OpenWrite(d.from)
           out == Output(Entry(d, fd), FALSE)
       IN  /\ d.op = "RRQ" \/ Writable
           /\ table' = [table EXCEPT ![Place] = IF Gone(fails) THEN Free ELSE out.entry]
           /\ socks' = IF Gone(fails) THEN socks ELSE socks \cup {port}
           /\ disk' = IF d.op = "WRQ" THEN [disk EXCEPT ![d.from] = Created(@)] ELSE disk
           /\ Carry({d}, Out(fails, out.packet), clients \cup socks')
  /\ port' = port + 1
  /\ UNCHANGED <<run, is_stop, pool, resent, faults>>

-----------------------------------------------------------------------------
(* TFTP_SERVER_EVENT_DATA *)

\* A reader's acknowledgement: the next block, or the end
Acked(i, clients) ==
  /\ i \in Busy /\ table[i].w_r = "read"
  /\ \E d \in Arrived(table[i].xfer), fails \in SendFails :
       LET t == [table[i] EXCEPT !.sender = d.from]
           out == Output([t EXCEPT !.block = NextBlock(@)], FALSE)
           more == IsAck(d, t.block) /\ t.last_read >= BlkSize
       IN  /\ IF more /\ ~Gone(fails)
              THEN Keep(i, [out.entry EXCEPT !.retry = MaxRetry])
              ELSE Destroy(i)
           /\ Carry({d}, IF more THEN Out(fails, out.packet)
                         ELSE IF IsAck(d, t.block) THEN {} ELSE {ErrorPacket(t.xfer, d.from)},
                    clients \cup socks')
  /\ UNCHANGED <<run, is_stop, pool, port, disk, resent, faults>>

\* A writer's block: write it, acknowledge it, end after a short one. If the
\* acknowledgement went out with the last try, the entry is destroyed and,
\* after a short block, destroyed again through the pointer that is NULL now.
Data(i, clients) ==
  /\ i \in Busy /\ table[i].w_r = "write"
  /\ \E d \in Arrived(table[i].xfer), fails \in SendFails, written \in DiskOk :
       LET t == [table[i] EXCEPT !.sender = d.from]
           new == [t EXCEPT !.block = d.block, !.pos = @ + Len(d.data), !.fd = Advance(@, d.data)]
           good == IsData(d, t.block)
           last == Len(d.data) < BlkSize
       IN  /\ disk' = IF good /\ written
                      THEN [disk EXCEPT ![t.fd.name] = FileWrite(t.fd, t.pos, @, d.data)] ELSE disk
           /\ IF good /\ written /\ last /\ Gone(fails) THEN Crash("dead")
              ELSE /\ UNCHANGED run
                   /\ IF good /\ written /\ ~last /\ ~Gone(fails) THEN Keep(i, new) ELSE Destroy(i)
           /\ Carry({d}, IF ~good THEN {}
                         ELSE IF written THEN Out(fails, AckPacket(t.xfer, t.sender, d.block))
                         ELSE {ErrorPacket(t.xfer, d.from)},
                    clients \cup socks')
  /\ UNCHANGED <<is_stop, pool, port, resent, faults>>

-----------------------------------------------------------------------------
(* TFTP_SERVER_EVENT_TIMEOUT, for every entry of the table *)
Timeout(clients) ==
  /\ run = "run" /\ Busy # {} /\ Silent
  /\ \E fails \in [Busy -> SendFails] :
       LET patient == {i \in Busy : table[i].retry > 0}
           kept == {i \in patient : ~Gone(fails[i])}
           out == [i \in patient |-> Output(table[i], TRUE)]
       IN  /\ table' = [i \in 1..Slots |->
                IF i \in kept THEN [out[i].entry EXCEPT !.retry = FewerTries(@)] ELSE Free]
           /\ socks' = socks \ {table[i].xfer : i \in Busy \ kept}
           /\ Carry({}, UNION {Out(fails[i], out[i].packet) : i \in patient}, clients \cup socks')
           /\ resent' = resent \cup {table[i].sender : i \in {j \in patient : table[j].w_r = "read"}}
  /\ UNCHANGED <<run, is_stop, pool, port, disk, faults>>

-----------------------------------------------------------------------------
(* tftp_server_destroy from the shell; the thread sees it in its loop and  *)
(* destroys the entries, the server and itself.                            *)
Stop ==
  /\ Stops /\ run = "run" /\ ~is_stop
  /\ is_stop' = TRUE
  /\ UNCHANGED <<run, table, socks, pool, port, disk, resent, netvars>>

Exit(clients) ==
  /\ run = "run" /\ is_stop
  /\ run' = "off" /\ table' = Empty
  /\ socks' = socks \ ({Server} \cup {table[i].xfer : i \in Busy})
  /\ Carry({}, {}, clients \cup socks')
  /\ UNCHANGED <<is_stop, pool, port, disk, resent, faults>>

ServerStep(clients) ==
  \/ NoSocket(clients) \/ Refuse(clients) \/ Request(clients)
  \/ \E i \in 1..Slots : Acked(i, clients) \/ Data(i, clients)
  \/ Timeout(clients) \/ Exit(clients)
=============================================================================
