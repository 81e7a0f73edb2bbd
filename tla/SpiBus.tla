-------------------------------- MODULE SpiBus --------------------------------
(***************************************************************************)
(* The SPI controller (drv_spi.c) and the two applications that use it:    *)
(* the VS1003 codec (vs1003.c) and the ADS1118 converter (ads1118.c).      *)
(*                                                                         *)
(* Nothing locks the controller.  A thread uses it by a row of register    *)
(* accesses, and between any two of them another thread may run or the     *)
(* thread may be deleted.  What a driver function does on the bus is       *)
(* therefore a program, a sequence of accesses, and one step of this       *)
(* module is one access by one thread.  The chip selects are all kept in   *)
(* one register, which spi_set_cs reads, changes and writes back; each     *)
(* byte sent leaves a byte in the receive FIFO, which must be read.        *)
(*                                                                         *)
(* A shell command occupies its thread until it returns.  The command      *)
(* that plays for a given time hands the work to a thread of its own,      *)
(* sleeps, and deletes that thread wherever it then is.                    *)
(***************************************************************************)
EXTENDS Integers, Sequences, SequencesExt

CONSTANTS Users,     \* the threads that call the drivers
          Devices,   \* the chips that may be attached
          Chunks,    \* lengths of the data given to the codec
          Span,      \* numbers kept for the bytes of a chunk
          Inputs,    \* inputs of the converter
          Calls      \* bound: commands issued in a behaviour

ASSUME SpiAssumption ==
    /\ Devices \subseteq {"codec", "converter"} /\ Calls \in Nat
    /\ Span \in Nat \ {0} /\ Chunks \subseteq 0 .. Span - 1 /\ Inputs \subseteq 0 .. 7

VARIABLES device,   \* the attached chip
          softcs,   \* SOFTCS: the chip selects that are low
          rxfifo,   \* the receive FIFO of the controller
          calls,    \* how many commands were issued
          call,     \* per user: the command under way
          player,   \* per user: whether "sync_chunk" exists, and works for it
          prog,     \* per user: the accesses it, or its player, has still to do
          val,      \* per user: val of spi_set_cs
          got,      \* per user: the bytes received in this command
          shifted,  \* the chip: bytes since its select went low
          regs,     \* codec: its control registers
          heard,    \* codec: the bytes its data interface was given
          sample    \* converter: the input its result belongs to

busVars  == <<softcs, rxfifo>>
userVars == <<calls, call, player, prog, val, got>>
chipVars == <<shifted, regs, heard, sample>>
spiVars  == <<device, busVars, userVars, chipVars>>

xDcs == 1
xCs  == 2

VS_WRITE_COMMAND == 2
VS_READ_COMMAND  == 3
Filler == 255

\* The registers the program writes, and some of the values it gives them.
SCI_MODE    == 0
SCI_BASS    == 2
SCI_CLOCKF  == 3
SCI_AUDATA  == 5
SCI_VOL     == 11
SCI_AICTRL0 == 12
SCI_AICTRL1 == 13
Registers == {SCI_MODE, SCI_BASS, SCI_CLOCKF, SCI_AUDATA, SCI_VOL,
              SCI_AICTRL0, SCI_AICTRL1}

-----------------------------------------------------------------------------
\* Programs.

Access(op, arg) == [op |-> op, arg |-> arg]

\* spi_set_csn: all selects at once.  0xff deselects; 0xbf takes the select
\* number 2 low, which is also the xCs of the codec.
spi_set_csn(low) == <<Access("csn", low)>>

\* spi_set_cs: read, change one, write back.
spi_set_cs(cs, new_status) ==
    <<Access("get", 0), Access(IF new_status = 0 THEN "low" ELSE "high", cs)>>

\* spi_write_for_response: one byte out, and the byte that came in for it.
spi_write_for_response(data) == <<Access("send", data), Access("receive", 0)>>

\* A loop: its rounds one behind the other, each n accesses long.
Rounds(n, round) ==
    [i \in 1 .. n * Len(round) |-> round[((i - 1) \div n) + 1][((i - 1) % n) + 1]]

Transfer(bytes) == Rounds(2, [k \in 1 .. Len(bytes) |-> spi_write_for_response(bytes[k])])

\* Mutant: the data select is left as it is.
control_mode_on_half == spi_set_cs(xCs, 0)
control_mode_on == spi_set_cs(xCs, 0) \o spi_set_cs(xDcs, 1)
data_mode_on    == spi_set_cs(xCs, 1) \o spi_set_cs(xDcs, 0)
mode_off        == spi_set_csn({})

read_register(reg) ==
    control_mode_on \o Transfer(<<VS_READ_COMMAND, reg, Filler, Filler>>) \o mode_off

write_register(reg, value) ==
    control_mode_on \o Transfer(<<VS_WRITE_COMMAND, reg>> \o value) \o mode_off

sdi_send_buffer(data) == data_mode_on \o Transfer(data) \o mode_off

Setup(written) ==
    Rounds(Len(write_register(0, <<0, 0>>)),
           [k \in DOMAIN written |-> write_register(written[k][1], written[k][2])])

\* The selects high, the controller set up, then the registers.
play_mode_init(written) ==
    spi_set_cs(xCs, 1) \o spi_set_cs(xDcs, 1) \o spi_set_csn({}) \o Setup(written)

record_mode_init(written) == spi_set_csn({}) \o spi_set_csn({}) \o Setup(written)

\* One reading: the configuration goes out twice while the last result and
\* the old configuration come in; then the conversion is waited for.
Config(mux) == 128 + mux
Reading(mux) ==
    spi_set_csn({2}) \o Transfer(<<Config(mux), 1, Config(mux), 1>>)
        \o spi_set_csn({}) \o <<Access("convert", 0)>>

\* Mutant: lastSensorMode is kept, and one reading thought enough.
getADCValueOnce(mux) == Reading(mux)

\* ads1118_getADCValue.  lastSensorMode is never set, so that every value is
\* read twice; the first reading only starts the conversion.
getADCValue(mux) == Reading(mux) \o Reading(mux)

-----------------------------------------------------------------------------
\* Commands.

\* What vs1003_play_mode_init writes, in its order: silence, a slow rate,
\* the analog parts, 44.1 kHz, the volume, a soft reset, the clock.
Boot == << <<SCI_VOL, <<255, 255>>>>, <<SCI_AUDATA, <<0, 10>>>>,
           <<SCI_VOL, <<254, 254>>>>, <<SCI_AUDATA, <<172, 69>>>>,
           <<SCI_VOL, <<32, 32>>>>, <<SCI_MODE, <<8, 4>>>>,
           <<SCI_CLOCKF, <<184, 0>>>> >>

\* And vs1003_record_mode_init: the clock, 8 kHz, the gain, ADPCM, silence.
Record == << <<SCI_BASS, <<0, 0>>>>, <<SCI_CLOCKF, <<68, 48>>>>,
             <<SCI_AICTRL0, <<0, 12>>>>, <<SCI_AICTRL1, <<4, 0>>>>,
             <<SCI_MODE, <<56, 4>>>>, <<SCI_VOL, <<254, 254>>>> >>

Idle == [op |-> "idle"]

\* The bytes of the chunks are numbered, so that each can be told from all
\* others, by the chunk and the place in it.
Byte(k, j) == (10 + k) * Span + j
Chunk(k, n) == [j \in 1 .. n |-> Byte(k, j)]

\* vs1003_set_volume writes the volume to both channels.
CodecCommands ==
    {[op |-> "boot", writes |-> Boot], [op |-> "record", writes |-> Record]}
        \cup {[op |-> "write", writes |-> << <<SCI_VOL, <<vol, vol>>>> >>] : vol \in {7}}
        \cup {[op |-> "read", reg |-> r] : r \in {SCI_VOL}}
        \cup {[op |-> "play", data |-> Chunk(calls, n)] : n \in Chunks}
        \cup {[op |-> "play_sync", data |-> Chunk(calls, n)] : n \in Chunks}

ConverterCommands == {[op |-> "value", mux |-> m] : m \in Inputs}

Commands == IF device = "codec" THEN CodecCommands ELSE ConverterCommands

Program(c) ==
    CASE c.op = "boot"  -> play_mode_init(c.writes)
      [] c.op = "record" -> record_mode_init(c.writes)
      [] c.op = "write" -> write_register(c.writes[1][1], c.writes[1][2])
      [] c.op = "read"  -> read_register(c.reg)
      [] c.op \in {"play", "play_sync"} -> sdi_send_buffer(c.data)
      [] c.op = "value" -> getADCValue(c.mux)

\* play_sync starts the thread that plays, and sleeps.
Issue(u) ==
    /\ call[u] = Idle /\ calls < Calls
    /\ \E c \in Commands :
          /\ call' = [call EXCEPT ![u] = c]
          /\ prog' = [prog EXCEPT ![u] = Program(c)]
          /\ player' = [player EXCEPT ![u] = c.op = "play_sync"]
    /\ calls' = calls + 1
    /\ got' = [got EXCEPT ![u] = <<>>]
    /\ UNCHANGED <<device, busVars, val, chipVars>>

Return(u) ==
    /\ call[u] # Idle /\ prog[u] = <<>> /\ ~player[u]
    /\ call' = [call EXCEPT ![u] = Idle]
    /\ UNCHANGED <<device, busVars, calls, player, prog, val, got, chipVars>>

\* The delay is over: the thread is deleted, whether it has come to its
\* endless loop or not.
Delete(u) ==
    /\ player[u]
    /\ player' = [player EXCEPT ![u] = FALSE]
    /\ prog' = [prog EXCEPT ![u] = <<>>]
    /\ call' = [call EXCEPT ![u] = Idle]
    /\ UNCHANGED <<device, busVars, calls, val, got, chipVars>>

-----------------------------------------------------------------------------
\* The chips.

\* The byte a chip answers with while it is given one.
Answer ==
    IF device = "converter"
      THEN CASE xCs \notin softcs \/ Len(shifted) >= 4 -> Filler
             [] Len(shifted) = 0 -> 64 + sample
             [] Len(shifted) = 1 -> 96 + sample
             [] OTHER -> shifted[Len(shifted) - 1]
      ELSE IF xCs \in softcs /\ Len(shifted) \in {2, 3} /\ shifted[1] = VS_READ_COMMAND
             THEN regs[shifted[2]][Len(shifted) - 1]
             ELSE 0

\* A byte on the bus reaches every chip interface that is selected.
Shift(data) ==
    /\ shifted' = IF xCs \in softcs THEN Append(shifted, data) ELSE shifted
    /\ regs' = IF /\ device = "codec" /\ xCs \in softcs
                  /\ Len(shifted) = 3 /\ shifted[1] = VS_WRITE_COMMAND
                 THEN [regs EXCEPT ![shifted[2]] = <<shifted[3], data>>]
                 ELSE regs
    /\ heard' = IF device = "codec" /\ xDcs \in softcs THEN Append(heard, data) ELSE heard
    /\ UNCHANGED sample

\* The select of the command interface going high ends a command.
Select(low) ==
    /\ softcs' = low
    /\ shifted' = IF xCs \in low \/ device = "converter" THEN shifted ELSE <<>>
    /\ UNCHANGED <<rxfifo, regs, heard, sample>>

\* A conversion takes the input of the last complete configuration.
Convert ==
    /\ sample' = IF Len(shifted) >= 4 THEN shifted[1] - 128 ELSE sample
    /\ shifted' = <<>>
    /\ UNCHANGED <<busVars, regs, heard>>

-----------------------------------------------------------------------------
\* One register access of one thread.

Advance(u, op) ==
    /\ prog[u] # <<>> /\ Head(prog[u]).op = op
    /\ prog' = [prog EXCEPT ![u] = Tail(@)]
    /\ UNCHANGED <<device, calls, call, player>>

Arg(u) == Head(prog[u]).arg

GetCs(u) ==
    /\ Advance(u, "get")
    /\ val' = [val EXCEPT ![u] = softcs]
    /\ UNCHANGED <<got, busVars, chipVars>>

SetCs(u) ==
    /\ \/ Advance(u, "low")  /\ Select(val[u] \cup {Arg(u)})
       \/ Advance(u, "high") /\ Select(val[u] \ {Arg(u)})
       \/ Advance(u, "csn")  /\ Select(Arg(u))
    /\ UNCHANGED <<val, got>>

Send(u) ==
    /\ Advance(u, "send")
    /\ rxfifo' = Append(rxfifo, Answer)
    /\ Shift(Arg(u))
    /\ UNCHANGED <<softcs, val, got>>

Receive(u) ==
    /\ Advance(u, "receive") /\ rxfifo # <<>>
    /\ got' = [got EXCEPT ![u] = Append(@, Head(rxfifo))]
    /\ rxfifo' = Tail(rxfifo)
    /\ UNCHANGED <<softcs, val, chipVars>>

Await(u) == Advance(u, "convert") /\ Convert /\ UNCHANGED <<val, got>>

-----------------------------------------------------------------------------
SpiInit ==
    /\ device \in Devices /\ softcs = {} /\ rxfifo = <<>>
    /\ calls = 0 /\ call = [u \in Users |-> Idle]
    /\ player = [u \in Users |-> FALSE]
    /\ prog = [u \in Users |-> <<>>] /\ val = [u \in Users |-> {}]
    /\ got = [u \in Users |-> <<>>]
    /\ shifted = <<>> /\ regs = [r \in Registers |-> <<0, 0>>] /\ heard = <<>>
    /\ sample = 0

SpiIssue == \E u \in Users : Issue(u)

SpiRun ==
    \E u \in Users : \/ Return(u) \/ Delete(u)
                     \/ GetCs(u) \/ SetCs(u) \/ Send(u) \/ Receive(u) \/ Await(u)

SpiNext == SpiIssue \/ SpiRun

-----------------------------------------------------------------------------
\* Properties.

SpiTypeOK ==
    /\ device \in Devices /\ softcs \subseteq {xDcs, xCs}
    /\ rxfifo \in Seq(0 .. 255) /\ calls \in 0 .. Calls
    /\ player \in [Users -> BOOLEAN] /\ val \in [Users -> SUBSET {xDcs, xCs}]
    /\ got \in [Users -> Seq(0 .. 255)]
    /\ Len(shifted) <= 4
    /\ regs \in [Registers -> Seq(0 .. 255)] /\ heard \in Seq(0 .. 255)
    /\ sample \in Inputs \cup {0}

\* Whatever the codec's data interface was given is sound: each byte is the
\* first of a chunk or follows the byte before it in the same chunk, and
\* chunks come in the order in which they were issued.  A player deleted in
\* the middle of its transfer leaves the data select low and perhaps a byte
\* in the FIFO; the commands and chunks that follow must not leak into the
\* stream all the same.
Hears ==
    \A i \in DOMAIN heard :
        \/ heard[i] % Span = 1 /\ (i = 1 \/ heard[i - 1] \div Span < heard[i] \div Span)
        \/ i > 1 /\ heard[i] = heard[i - 1] + 1

\* What a command has done when it returns: the registers written hold the
\* values written last, a chunk went out to its last byte, also by a player
\* that had come to its loop when it was deleted, the converter's value
\* belongs to the input asked for, and a register read is the register.  The
\* last one holds while the FIFO is in step: one byte left behind by a
\* deleted player shifts all later answers by one.
Does(u) ==
    LET c == call[u] IN
    CASE c.op \in {"boot", "record", "write"} ->
             \A k \in DOMAIN c.writes :
                 (\A l \in k + 1 .. Len(c.writes) : c.writes[l][1] # c.writes[k][1])
                     => regs[c.writes[k][1]] = c.writes[k][2]
      [] c.op \in {"play", "play_sync"} -> IsSuffix(c.data, heard)
      [] c.op = "read" ->
             rxfifo = <<>> => <<got[u][3], got[u][4]>> = regs[c.reg]
      [] c.op = "value" ->
             SubSeq(got[u], Len(got[u]) - 3, Len(got[u]) - 2) = <<64 + c.mux, 96 + c.mux>>

Done == [][\A u \in Users : call[u] # Idle /\ call'[u] = Idle /\ prog[u] = <<>>
                                => Does(u)]_spiVars
===============================================================================
