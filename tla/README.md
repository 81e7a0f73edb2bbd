# A verification of the Loongson Morse station

The repository holds two RT-Thread 4.0.3 projects for a Loongson 2K1000 board.
`ls2kdev_play` keys a typed line as Morse code on a buzzer; `ls2kdev_record`
records sound through a VS1003 codec and prints the Morse code it hears, and
has the drivers of the board (Ethernet, SPI, I2C, GPIO, clock). The RT-Thread
kernel and the network stack are not in the repository: what is used of them
is modelled from how this code uses it, and marked *external* in `PROJECT.json`.
This directory holds TLA+ modules that are translated from that source, the TLC
configurations that check them, and proofs that TLAPS checks.

## 1. Inventory

The kernel is preemptive, with priorities and round robin inside one, on one
core. Code runs in the shell thread, in threads that a shell command starts, in
the two threads of the network stack, in the threads of the TFTP and the web
server, in timer handlers and in interrupts.

| component | source | state | operations | hard behaviour |
|---|---|---|---|---|
| player | `play/applications/morse_encode.c`, `sound.c` | `morse_code[200]`, the tone | read a line, translate, play | arrays that have no end mark, a fixed buffer, integer time |
| alphabet | `morse_code.h` of both projects | none | - | the layout of the arrays in memory |
| decoder | `record/applications/morse/morse_decode.c` | frame energies, `jud[200]`, `sta`, `st`, `m`, `n`, `code[31]` | frame a file, judge, print | limits on run lengths, an edge detector of three ifs, unchecked indices |
| Ethernet | `record/drivers/net/synopGMAC.c`, `synopGMAC_Dev.c` | two descriptor rings with four pointers and four indices, `sem_lock`, frame copies, receive buffers | `rt_eth_tx`, `rt_eth_rx`, `eth_rx_irq`, `eth_init` | two threads, two DMA engines and a timer on shared memory; early returns with the lock taken; a reset in the middle of everything |
| recorder | `record/applications/vs1003` | the FIFO of the codec, batches, the file | record, play, filter | overflow, a countdown that can pass zero |
| SPI bus, codec, converter | `record/drivers/drv_spi.c`, `applications/vs1003/vs1003.c`, `applications/ads1118` | chip selects in one register, one byte FIFO, the registers of the chips | select, transfer a byte; set up, write, read, play; measure | several users, no lock; a thread deleted in a transfer; a result that belongs to the question before |
| I2C, EEPROM | `record/drivers/drv_i2c.c`, `eeprom.c` | the bus, the chip's address counter and write cycle | write and read in two ways | refused bytes, retries, page rollover, a write that was not stopped |
| TFTP | `record/packages/netutils-v1.2.0/tftp` | at each end block, retries, position; the server's table and sockets | push, pull, serve, stop | datagrams lost, doubled, late; retries at both ends |
| web server | `record/packages/webnet-v2.0.2` | a list of sessions, each with a buffer, a phase and a module | accept, parse, answer, send a file, take an upload | requests cut anywhere; one thread for all; clients that close |
| interrupts, GPIO | `record/drivers/interrupt.c`, `drv_gpio.c` | handler tables, masks | install, dispatch, attach | several pending at once |
| clock | `record/drivers/drv_rtc.c` | two registers | get, set | torn reads and writes |
| UART, PWM, PHY, board, other packages | the rest | - | - | registers, third-party code |

How they interact: the shell starts the player and the decoder; the player
writes `morse_code` and drives the PWM; the decoder reads a file the recorder
wrote (or a recording compiled in). The recorder, the converter and the flash
share the SPI bus. The network stack calls `rt_eth_tx` from its transmitting
thread and `rt_eth_rx` from its receiving thread; `eth_rx_irq` runs every tick
from a hard timer, reads the status of the DMA and posts a notice into the
mailbox of the receiving thread; the DMA engines work on the rings all the time.
TFTP and the web server are threads of their own above the sockets of the stack;
they share the file system and nothing else.

What makes each of them correct:

- player: what is heard is what was typed, at every speed at which the lengths
  can still be told apart; the buffer suffices.
- decoder: every mark and gap of the recording is judged once, by its length;
  what is printed is what was keyed; the judgement fits its array.
- Ethernet: each ring is a queue (nothing lost, doubled or reordered), memory
  is freed once and not while the DMA reads it, buffers do not get lost, the
  lock is always given back, and everything accepted comes out in the end.
- recorder: no sound is lost while the loop is held up for a short time only,
  none is doubled or reordered ever; a recording ends.
- SPI: a transfer is not disturbed by what an earlier one left behind; no
  command byte is heard as sound; a value belongs to the input asked for.
- EEPROM: what the chip holds and what was done about it belong together.
- TFTP: what a transfer reports as complete is a copy; sockets and table
  entries are given back once; every transfer ends.
- web server: the right answer, whole, after the whole question, however it is
  cut; an upload without its boundaries; every connection closed in the end.

`PROJECT.json` lists the hazards one by one, each at its line and with the
properties that would show it.

## 2. Plan

1. (done) player, decoder, the two together as a link; the recording loop and
   its codec; the rings of the Ethernet driver with an abstract queue they
   implement. Proofs: the judgement loop, the transmit ring, the lock.
2. (done) TFTP with an abstract copy; the web server with an abstract exchange;
   the SPI bus under codec and converter, the I2C bus under the EEPROM, and one
   shell above both.
3. (done) Proofs: the types of the driver under all faults, the receive ring,
   both refinements of `FrameFifo`, what holds of the transmitter under faults;
   the sockets of the TFTP server, the refinement `PushCopies` and
   `PullsInOrder` for any number of repeated requests; what the EEPROM reports;
   what the codec hears; the recorder; the start word.
4. (done) Proofs: `Done` for any number of commands.
5. `MorseFraming` (rows and samples of a file, the last row) and the worker
   threads with their static arguments, if a property is found that holds.

## 3. The modules

**`MorseCode`** is `morse_code.h`. A character is a one-character string, a mark
one of the four words.

**`MorsePlayer`** is `morse_play_once`: `Command` (the arguments), `TranslateChar`
(one turn of the loop of `translate`), `PlayGap`, `PlayMark`, `EndMark` and
`PlayEnd` (the loop over `morse_code`). `code` is the part of `morse_code` that
was written, `line` is the sound: a sequence of tone or silence with its
length. `translate` copies an array until a zero word. No array has one, so
the copy ends at the padding the linker leaves: `RunEnd` computes where, from
`Align`. The committed object file `ls2kdev_play/build/applications/morse_encode.o`
has the arrays in the order of the header, aligned to 8 bytes. A delay is
rounded up to whole ticks, as `rt_thread_mdelay` does, and a tick is 10 ms
(ls2kdev_play/rtconfig.h:13). The listener of `PlaysTheText` is written from the
rules of Morse code and not from the program. He can follow at the speeds of
`KeptApart`: at 15 to 18 and from 37 on rounding makes a silence between words
shorter than seven dots, and from 60 on a dash lasts as long as a dot. `Agreed`
leaves out the ampersand, of which the program has two opinions.

**`MorseJudge`** is the judgement loop, which the two decoder threads have in
common; the thresholds are constants. The energy of a frame is abstracted to
its comparison with the threshold. **`MorseDecoder`** adds `inverse_translate`,
**`MorseLink`** what there is to record: an operator who keys a text,
imprecisely, or noise. Uninitialised `m` and
`n` are -1, and `EdgesOrdered` says they are not read in that state.

**`Recorder`** is `vs1003_record`, its actions the lines of the two loops, with
the buffer of the codec (external). Sound is a row of numbered units, so that
what is lost, doubled or out of order in `file` shows. The speeds of the two
are part of the model: a unit that comes earlier than `Pace` steps of the loop
after the last one stands for a loop that was held up, and `late` remembers how
long at most; the properties say what holds for how much lateness. `NothingLost`
holds up to two units (128 ms) for a loop as slow as the one in the run, which
does three steps while the codec hears a unit; it fails at three units there,
and at four for a loop of nine steps or more.

**`GmacRing`**, **`GmacTx`**, **`GmacRx`** and **`Gmac`** are the driver.
A descriptor is its OWN bit and its buffer. `rt_eth_tx` is cut into the steps
between which another party can come in: the lock, the OWN test, the
allocation, the filling of the descriptor and its OWN bit (two steps of
`synopGMAC_set_tx_qptr`), the poll demand, each round of the reclaim loop, the
unlock. `rt_eth_rx` likewise. `eth_rx_irq` is one step: it preempts threads and
is not preempted by them; the DMA does not run while it resets the rings. The
DMA engines, the callers in the stack and faults are external. Frames are
numbered in the order in which they are offered. `pbuf_alloc` failing ends the
receiving thread: the next line writes through the null pointer, which has no
page on this processor. **`FrameFifo`** is the abstract queue: a set of numbered
frames of which the one with the least number leaves, which is what a queue is
when frames are numbered in the order in which they come. `TxIsFifo` and
`RxIsFifo` say that the rings implement it.

**`TftpXfer`**, **`TftpClient`**, **`TftpServer`** and **`Tftp`** are
`tftp_xfer.c` with `tftp_port.c`, `tftp_client.c`, `tftp_server.c`, and all of
it over a network (external), a bag of datagrams of which `Faults` may be lost
or doubled and which may be read in any order. A step is what a thread does
between two calls of `select`. A file is a sequence of numbered units, and a
handle keeps the offset of the file system, because `tftp_file_read` and
`tftp_file_write` do not use the position they are given. `tftp_file_open` gives
back -1 and not a null pointer when it fails, so that the test of its result
never fires: a missing file is served as an empty one, and one that cannot be
created shows at the first write. The counter of the retries of `sendto` is
modelled with the value it ends with (`Gone`), which confuses a success of the
last try with a failure. A null pointer that is used stops the board (`run` is
"unborn" or "dead"). **`FileCopy`** is the abstract copy that a push implements
(`PushCopies`).

**`WebSession`** is one session of the web server: its buffer, a row of cells
that are the pieces of a request that matter, and the functions of `wn_request.c`
and `wn_module_upload.c` on it. The buffer is searched as a C string, to the
first NUL, and what is moved out of it leaves its old cells behind the data;
both are in the model, because `web_cut` is about them. **`WebNet`** is the
thread of `webnet.c`: `Round` is a `select` and a new connection, `Turn` one
session of the round, with all that `webnet_session_handle_read` or the write
event do. The thread blocks inside the receive call of an upload (`waiting`).
The clients are external; a piece of a request may end anywhere, and `cuts`
remembers two kinds of places that one ended at, for what is said of the others.
**`HttpExchange`** is what each client is promised, which the server implements
(`Exchanges`); a client that is `excused` is promised nothing, which leaves the
promise to the others as it is, and `lacks` is how much may be missing at the
end of an answer. **`MCWeb`** has the requests.

**`SpiBus`** is the SPI controller with its two chips. What a driver function
does is a row of register accesses (`prog`), and one step is one access of one
thread, so that another thread, or the deletion of this one by
`vs1003_play_chunk_sync`, can come in at each of them. **`Eeprom`** is the I2C
bus with a 24C16 (external) under both drivers; one step is one bus event, with
what the chip makes of it. **`Drivers`** puts one shell above the two.

## 4. The runs

| run | checks | bounds and why they are enough |
|---|---|---|
| `player` | `PlaysTheText`, `Returns`, types | lines of up to three characters over a space, short and long codes and an unknown character, each padded character between two others; every speed from 1 to 40, that is all of `KeptApart` and those next to it, and 60, 67 and 200. `KeptApart` is exact: with 15, 18 or 37 in it the property fails |
| `link` | the judgement loop (five invariants), `Understood`, types | texts: all characters of one to four marks, three of five, texts with character and word gaps; every run takes the shortest and the longest length of its class. Noise: two marks around a gap at and next to every threshold, with frames exactly at the energy threshold; fast keying and glitches up to seven marks; every recording of up to seven frames. `jud` is scaled down to eleven words so that `JudFits` has recordings on both sides |
| `recorder` | `NothingLost`, `InOrder`, `Ends`, types | units of 128 words, which divide all sizes in the code (256, 896, 1024); recordings of none to four batches, so that the loop of three batches for one poll occurs; a loop late by up to nine units between two polls, more than the buffer holds, so that the codec overflows seen and unseen; sixteen units of sound; two batches counted below zero |
| `gmac_safe` | `TxRing`, `TxCopies`, `RxRing`, `RxKeepsBuffers`, both refinements, types | rings of three descriptors, five frames sent and four received, so that both wrap; a full ring, no memory for a copy, a damaged frame, no pbuf; a ring filled not at all, in part and completely at the start |
| `gmac_live` | `LockHeld` and three liveness properties | rings of two, three frames sent and four received, one of them damaged, so that the rings wrap, the mailbox fills up and a good frame comes before and behind the damaged one. `RxDrains` counts notices, because each gets the stack past one damaged frame; with one notice less than it asks for it fails |
| `gmac_faults` | `TxNoStale`, `WireOnce` | rings of two, three frames each way, a bus error and a transmit stop at any moment |
| `gmac_full` | `LockHeld` is violated | the smallest instance that shows it |
| `tftp` | `PushCopies`, `PullsInOrder`, `SocketsSound`, `TransfersEnd`, types | a file of one full block, or one and a half, onto a longer old file; one datagram lost or doubled; timeouts while answers are under way; `sendto` failing on every try of a row, at any step (failing on some but the last ones is the same as not failing), the local file and the disk of the server failing at any step; a table with one place and one or two sockets for it, so that a repeated request finds no place, and no socket; the server stopped at any moment. Two tries for each block: one retry meets the late answer it is a retry of |
| `tftp_resend` | `PulledIsSource` is violated | one file, one lost datagram |
| `web` | `Exchanges`, `UploadsWhole`, `Closes`, types | one client with each of twelve requests (a file, ranges in and out of it, a missing, an empty and a protected page, a form, an unknown method, uploads with and without content, one who goes on sending), cut anywhere, and one who asks for a file at the same time; both close at any moment or stay; no memory for a session. Twelve cells in a buffer: the longest head fits and the upload does not, so that it is taken in several pieces |
| `web_cut` | `AskedFirst` is violated | one client, one head cut in two |
| `drivers` | `Hears`, `Done`, `Reported`, types | three commands in all, at most two of them on the I2C bus: one leaves something behind, one meets it, one sees the result. Chunks of one and three bytes, a player deleted at each access; an EEPROM of six bytes in pages of two, four of them addressed, so that pages roll over and the addresses go beyond what a write reaches; none to three bytes; protected or not; busy or not. The converter reads two inputs |

`TypeOK` of `web` also says that the list holds the open sessions, each once.
The table of `tftp` has one place: it is searched from its beginning, and more
places add nothing but more of the same. One client at a time
is enough because each has its own sockets and file; two only share the table,
where a second, repeated request of the same client stands for the other. (Two
clients, two places, timeouts only when nothing is under way, were checked once:
738,208 states, all the safety properties hold; with late answers as well the
instance is too large to keep as a run. With a `sendto` that may also work with
the last try only, `SendFails = {0, 2, 3}`, it was checked once as well: 443,729
states, and all the properties hold, `SocketsSound` because it promises nothing
for the entry that is then destroyed twice.)

### Where the code disagrees with itself

The three violations are disagreements between the code and its own comments;
they are quoted under "findings" in `PROJECT.json`. In short: the lock is not
released when the ring is full; the block that is "resent" is the next piece of
the file; and the head of a request is taken to be complete because old bytes
behind the data end it.

These were met without a run of their own:

- Player. A code array that fills its alignment runs on into the next one: in
  the layout of the committed build `W` is heard as `W` and `X`, and so on for
  the other characters with four words or eight. Thirty full stops, which the
  prompt allows, are 210 words for `morse_code[200]`. The speed is not limited,
  but with ticks of 10 ms what is played at 15 to 18 and from 37 on is not Morse
  code any more. The array of the ampersand is that of `H`, "....", while its
  comment (morse_code.h:81) and the line printed for it (morse_encode.c:809)
  have "...-"; `PlaysTheText` leaves it out.
- Decoder. The ampersand (morse_decode.c:722) lies behind `H`, which has the
  same marks, so that `H` is printed for it, and a full stop is printed as `.~`
  (:919). `Known` leaves both out. A file that cannot be opened is reported and
  then used (:31); the last row of a framed file gets a sample too many (:78); a
  group of more than seven words overruns `c[7]` (:489), more than 31 characters
  `code[31]` (:502).
- Ethernet. A damaged frame makes `rt_eth_rx` return nothing, upon which the
  stack stops reading, so that a good frame behind it waits for the next notice;
  if none comes it stays in the ring. `RxDrains` says how many notices it takes.
  A bus error between the filling of a descriptor and its OWN bit leaves the DMA
  a descriptor without a buffer. After a bus error reception is over: the reset
  clears the receive descriptors and nothing fills them again.
- Recorder. A recording that is late at its end does not end: `Ends` only holds
  with `late = 0`, because the inner loop counts `len` past zero
  (vs1003_example.c:237) while the outer one waits for exactly zero.
- TFTP. `PullsInOrder` says what is left for a pull: nothing is wrong unless the
  server sent a block again. The new content of a shorter file is followed by
  the rest of the old one, since the file is opened without truncation
  (tftp_port.c:26). After the last retry `err` is still OK: a caller cannot tell
  a transfer that timed out. When `sendto` works with the last try only, the
  success is taken for a failure (tftp_server.c:182), the entry of a file that
  has just ended is destroyed twice (:290) and the board stops on a null pointer;
  `SocketsSound` names the case and promises nothing for it. With a socket too few
  the read request goes on through a null pointer (tftp_xfer.c:255). A
  request that is repeated because its answer is late opens a second transfer.
- Web server. Three things are left out of what `Exchanges` promises, since the
  code does otherwise: a client whose head is cut behind its request line may be
  answered before its request is there, and wrongly (`web_cut`); a range is
  answered one byte short (wn_module.c:106) of what its own head announces
  (:320, :355); and what is received while a file is sent ends the transfer
  (:129), so that a client that goes on sending may get a part. "216" lets an
  error page follow if it breaks off. An upload that is cut between a line end
  and the `--boundary` behind it has this line end stored as data and its end
  missed (wn_module_upload.c:357); `UploadsWhole` leaves out this cut, and those
  of the head. An upload whose client sends
  nothing holds up every other client, as there is no timeout
  (wn_module_upload.c:431). An unknown method is not answered before the client
  closes.
- SPI. With two users (`Users` of two, on `SpiBus` alone) `Hears` fails: the
  command of one is heard as sound by the other, since nothing locks the bus.
  A byte that a deleted player leaves in the FIFO shifts all later answers by
  one; `Done` claims a register read only for an empty FIFO. `spi_set_csn(0xbf)`
  in ads1118.c selects what is also the command select of the codec, so that the
  two chips cannot both be attached; `device` is one or the other.
- EEPROM. `ls2k_eeprom_read_rand` returns 0 always (a semicolon behind its
  test), and so do both functions of drv_i2c.c, whatever the chip did: to the
  caller of `i2c_write` a refused write is a success (drv_i2c.c:226).
  `ls2k_eeprom_write_page` counts bytes that a later one of the same call has
  gone over (eeprom.c:143). `Reported` judges what commands do and not these
  three returns. With the direction bit commented out (drv_i2c.c:92) `i2c_read`
  reads nothing; two or more bytes of it are taken by the chip for a write to
  the address 0xff, and `Reported` says that nothing outside the page of that
  address is touched.
- Interrupts and clock. `liointc_isr` takes the lowest bit of `isr` and clears
  that of `tmp` (interrupt.c:135): with two pending interrupts of one bank it
  does not return. `drv_gpio.c` uses a variable it never sets (:201). The date
  and the year are read in two accesses (drv_rtc.c:131).

Deadlock is not checked where the system really stops: the player and the
decoder end, the stack may have nothing to send and the network nothing to
deliver, transfers and connections end and the bounded number of commands is
used up.

### Fairness

`MorsePlayer`: the shell thread runs on (it is the only thread that plays).
`Recorder`: the loop waits for nothing, and the codec goes on listening.
`Gmac`: weak fairness for each thread of the stack while it can take a step,
for each DMA engine while it has work, and for the handler, which a periodic
timer of one tick calls. The stack need not send and the network need not
deliver. A thread that waits for the semaphore needs no strong fairness here:
whoever holds it returns to waiting for work that is bounded.
`Tftp`: weak fairness for the server and each client. Each is a thread that
waits in a `select` with a timeout of five seconds, so that it goes on with or
without a datagram. The network owes nothing: it need not deliver.
`WebNet`: weak fairness for a round of the thread and for the end of a turn that
is not held up by a receive call; and for the clients that each sends what it
announced, or closes. A client that stays away for ever would hold up the thread
in an upload, and a session without a complete request is never closed: `Closes`
is not true of the code without this assumption, which is one about clients. A
client with an unknown method closes, as the server waits for that, and so does
one that is left without an answer because its request was cut at one of `cuts`.

## 5. The proofs

Every theorem is about a specification that a run checks, or about the loop
inside it, and for all values of its constants; the hypotheses are named here.

| module | theorem | hypotheses |
|---|---|---|
| `MorseJudgeProofs` | `TypeCorrect`, `EdgesAlwaysOrdered`, `WordsCostFrames`, `JudgementFits`, `StartOnce` | none |
| `GmacProofs` | `GmacTypeCorrect`, `NoStaleUnderFaults`, `WireOnceUnderFaults` | none |
| | `RxRingCorrect`, `RxBuffersKept` | no bus error |
| | `TxRingCorrect`, `TxCopiesCorrect` | no bus error, no transmit stop |
| | `LockNeverLeaks` | the same; memory for every copy; at most `N` frames in the ring |
| `GmacFifoProofs` | `TxImplementsFifo` | no bus error, no transmit stop |
| | `RxImplementsFifo` | no bus error |
| `TftpProofs` | `TftpTypeCorrect` | none |
| | `SocketsCorrect` | none |
| | `PushesCopy` | files of fewer than 65,535 blocks |
| `TftpPullProofs` | `PullsCopyInOrder` | files of fewer than 65,535 blocks |
| `RecorderProofs` | `RecorderTypeCorrect`, `OrderIsKept` | none |
| | `NothingIsLost` | the sizes of the code, three steps of the loop for a unit |
| `DriversProofs` | `WhatIsReportedIsSo`, `HearsInOrder` | none |
| `SpiBusProofs` | `DoesWhatItSays` | none |

**The judgement loop**, for all recordings and all thresholds that satisfy
`JudgeAssumption`. The inductive invariant `IInv` is the type invariant with
`EdgesOrdered` and `JudgeRate`; the rate is preserved because a judged mark has
at least `DotMin >= Q` frames and a judged gap more than `CharGap` or `WordGap`.
`JudFits` follows: a word costs at least Q frames, so `Q * (JudSize - 1)` frames
never write past the array. For the thresholds in the code that is a recording
of 597 (`test`) or 995 (`once`) frames. `StartOnce` is about the whole link: its
invariant `StartInv` adds that there is a mark in `jud` if `st` is set, and
nothing but gaps if it is not. It needs nothing of the recording, so that it
also holds of texts, which `Keyed` makes up by a fold.

**The Ethernet driver**, for rings of any size, any number of frames and every
interleaving of two threads, two DMA engines and the timer. `GmacProofs`
begins with the lemmas about stretches of a ring: adding at the end, removing at
the beginning.

- Under faults: `eth_rx_irq` empties the ring in the middle of `rt_eth_tx`, so
  that `TxRing` and `TxCopies` are not true. `FaultInv` does without them: the
  frames in the ring are different, allocated and no newer than the one in hand
  (`RingFrames`), the descriptor in hand is not the DMA's (`InHand`), and what
  was sent is no frame that the DMA still has (`Sent`). `GmacTypeCorrect`
  rests on this invariant.
- Without: `TxInv` strengthens `TxRing` and `TxCopies` by what holds between the
  two halves of `synopGMAC_set_tx_qptr` (`TxGiving`) and by the frames in the
  ring being different (`TxDistinct`). `RxInv` strengthens `RxRing` by the place
  of the buffer in hand (`RxHand`): the descriptor to refill is empty until the
  buffer is there and not the DMA's before `rt_eth_rx` is done with it.
- The refinements: `TxOrdered` says that the DMA finds the frames in the order
  of their numbers; on the receiving side `RxDistinct` keeps the DMA off the
  buffer that is being read, and `RxOrdered` orders what was received behind
  what is in hand and before what was delivered. Each step of the driver is then
  a step of the queue or a stutter; that a queue of fewer than `N` descriptors
  takes one more frame is a fact about cardinalities (`FewFrames`).
- The faults are left out of the others because the code does not survive them:
  what a bus error does to the rings is described in section 4. A transmit stop
  leaves the receive ring alone, so that the receiver's theorems allow it.
- `LockNeverLeaks`: the assumptions are needed; `gmac_full` violates the
  property without the last, and the early return of `rt_eth_tx` for a frame
  that has no copy does so without the one before.

**TFTP**, for any number of clients, places, sockets, retries and lengths, and
any number of datagrams lost, doubled and late. `TftpInv` has four parts.
`Kept` is the types of what is not a record; `Goods` the shape of every
datagram, client and entry; `Sockets` that the sockets are the listening one and
one for each entry. What makes it inductive is `Owns`: a port number comes once,
so that a datagram that is late, or comes after its transfer was destroyed,
concerns one client only. `Pushes`, for short files, says what a datagram or a
counter of a push stands for: a block number is its place in the file, and an
acknowledgement of it means that all up to there is on the server (`There`,
`Upto`). From it follows, step by step, that a push implements `FileCopy`.
For a pull `PullInv` comes on top. A pull can have several transfers, as a
request that is repeated or doubled opens another one, and a server that sends a
block again reads on and sends the next piece under the old number. So a block
number does not say where in the file a block comes from. `Piece` says it: each
block under way is what the file has from some place on, and the handle of its
transfer is behind that. `Follows`: a block that the client may take next comes
from behind all it has. `Serves`: the acknowledgement goes to the transfer whose
block was taken, so that every other transfer stays at its first block for good;
and while nothing was sent again, a number is a place after all.

- `SocketsSound` promises that no entry is used after it was destroyed unless
  `sendto` may work with its last try only: the code takes this success for a
  failure, destroys the entry twice and uses a null pointer (tftp_server.c:182,
  :290). The rest of it is proved for that case too.
- `PushesCopy` and `PullsCopyInOrder` leave out files of 65,535 blocks (32 MB at
  512 bytes) and more, in which a 16-bit number comes twice and a late
  acknowledgement can be taken for a new one.

**The recorder**, for recordings and delays of any length. `RecInv` is the types
and that a batch is begun only when all of it was there. For `OrderIsKept`,
which holds however late the loop is, `Ascending` relates the buffer to what was
taken: all of it is newer, also after the codec has cleared it or the loop has
read it empty. For `NothingIsLost`, `Flow` predicts how full the buffer will be
when the loop asks next, from the batches and steps it has still to do: less
than the limit of the overflow; `Content` says that the buffer goes on where the
loop is. The bound is tight: the prediction meets the limit at two units of
lateness and a loop of three steps for a unit, and the run fails at three.

**The EEPROM**, for chips and pages of every size that divide evenly, data of
every length and any number of commands of both drivers. `RomInv` says for each
command how far its row of events has come and what is then in the chip. For a
write these are the bytes it was given, at the places `Place` counts, which stay
in the page of the first one; when the chip stores them the last byte for each
place counts, and less than a page apart no two have the same (`PlaceApart`), so
that the last bytes of a write that rolls over are all there. For a read it is
the address counter and the bytes taken so far. That a refused command leaves
the contents alone rests on the protected chip having collected nothing, and on
a start condition being the first event of a write. For `i2c_read`, which
writes, it is that all it gives the chip goes to one page (`Spilled`). What the
functions return is not part of this: section 4 has the three returns that say
something else.

**The codec**, for chunks of any lengths below `Span`, which may be any number
(it numbers the bytes, so that each of them can be told from all others), any
number of commands, and a player deleted at any access. A player that is deleted
leaves the data select as it is, so that nothing can be said of the selects
when the next command begins. `HearInv` says instead what is left of each
program. One that does not play never takes the data select low, and takes it
high before it sends (`MuteLeft`: or it is high already); one that plays is at a
place in its row of accesses (`Playing`), and what was heard last are the bytes
up to there. Both need that nobody comes between the reading of the select
register and the writing of it (`PairedLeft`), which is so because the shell
runs one command at a time (`OneCommand`); with two at a time `Hears` fails
(section 4). That every program is of this kind follows from how it is put
together: `FinePlus`, `RaisedPlus` and, for the loops, `FineRounds`.

**What a command on the SPI bus has done** (`Done`), for any number of commands
and wherever players were deleted before. `DoneInv` rests on `HearInv`. It says
what is true while nobody uses the bus (`AtRest`: the codec is not selected for
a command, and none has begun; the converter has an empty FIFO) and, for each
command, what every place in its program means. The programs of the codec's
registers are a few accesses that select nothing, then frames of thirteen
accesses (`Framed`); `Stage` says how many bytes of frame `q` are out after `r`
accesses, that the registers of the frames before hold their values
(`Latest`), and what a read has got (`Reads`): a byte left in the FIFO shifts
the answers, and what is claimed is that a FIFO in step has answered with the
register. A reading of the converter is two rounds of eleven accesses
(`Round`); the first one leaves the converter with the input asked for, and the
first two bytes of the second are what is reported. One round alone would
report the input of the question before, which is the mutant of the run. A chunk is
played to its end because `Playing` counts the bytes that were heard.

What stays with TLC. Liveness (`Returns`, `Ends`, `TxReturns`, `TxDrains`,
`RxDrains`, `TransfersEnd`, `Closes`) rests on fairness. `PlaysTheText`,
`JudgesTheRuns`, `Understood` and the types of the player and of what the decoder
shows are about folds and flattened sequences; what these compute for every
input would take induction over data. `WebSession` has a recursive operator (the
loop of the upload reader), so that nothing is proved about it or about `WebNet`.
The types of the buses hold of the instance only: `SpiTypeOK` has all bytes
below 256, and the chunks of the model are numbered so that `Hears` can tell
them apart, which takes them beyond that from the sixteenth command on.

## 6. Not modelled

- Signal processing (ADPCM, FFT, Goertzel): floating point.
- The interrupt controller and the GPIO interrupts: what could be said of them
  does not hold (above), and there is nothing in the code that guards it. The
  same goes for the torn reads of the clock and for the static arguments of the
  decoder's worker thread.
- UART, PWM, PHY, MAC configuration, board start-up: register programming
  without a state of its own, or run once before the scheduler starts.
- `webclient` and the rest of netutils, which no code of the project calls.
- In the modelled parts: `sound_set` is arithmetic on the PWM registers; the
  words that an overflow of `morse_code`, `jud`, `c[7]` or `code[31]` would
  overwrite are not part of the models, which stop counting at the end of the
  array; the block counter of TFTP does not wrap in files as short as those of
  the run; cookies, passwords, name fields and further parts of an upload,
  WebDAV, scripts and the default files of the web server; the device interface
  of the SPI bus and the shell commands that poke at its registers. Of the web
  server also: a POST with a length and no content type, for which
  `str_begin_with` gets a null pointer (wn_request.c:316); no memory for the
  query (:325) or for the request of a session (wn_session.c:548), both of which
  are used unchecked; the zero written behind a body that fills the buffer
  (wn_request.c:511); `If-Modified-Since` and 304; the status line of a 416 that
  goes out ahead of its error page (wn_module.c:308); and data in front of the
  first part of an upload. A client of TFTP that cannot read its file on, or
  whose `select` fails (tftp_client.c:173, :205), ends like one whose send
  fails, but for the error code.

The map covers a small part of the lines. Of the repository's C code more than
two fifths are recordings as arrays (`morse_wav_*.h`, `morse1_mp3.h`) and sample
tables, and much of the rest are register headers, access functions of the MAC
that no code calls, and third-party packages that are not started; there is no
behaviour in them that the models leave out.
