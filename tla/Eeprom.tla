-------------------------------- MODULE Eeprom --------------------------------
(***************************************************************************)
(* The I2C controller with a 24C16 EEPROM behind it, under the two drivers *)
(* the program has for it: eeprom.c, which gives up at the first byte that *)
(* is refused, and drv_i2c.c, which repeats a refused address five times   *)
(* and returns 0, success, in any case.                                    *)
(*                                                                         *)
(* A command is a row of bus events, `todo'; one step is one event, with   *)
(* what the chip makes of it.  The chip collects the bytes of a write      *)
(* until the stop condition, stores them in a cycle of its own, and        *)
(* refuses its address until that is over.                                 *)
(***************************************************************************)
EXTENDS Integers, Sequences, SequencesExt

CONSTANTS Size,    \* bytes of the chip
          Reach,   \* addresses below this fit the one address byte
          Page,    \* bytes of a page: a write wraps inside it
          Bytes,   \* values that are written
          Counts,  \* numbers of bytes written or read
          Jobs     \* bound: commands issued in a behaviour

ASSUME EepromAssumption ==
    /\ Size \in Nat /\ Page \in Nat \ {0} /\ Size % Page = 0 /\ Reach \in 1 .. Size
    /\ Counts \subseteq Nat /\ Jobs \in Nat

VARIABLES mem,        \* chip: its contents
          at,         \* chip: the address counter
          mode,       \* chip: what it expects next
          page,       \* chip: the bytes of the write under way
          busy,       \* chip: storing, and deaf
          protected,  \* chip: the write protect pin
          jobs,       \* how many commands were issued
          job,        \* the command under way
          todo,       \* the events it has still to cause
          failed,     \* whether the driver has given it up
          retry,      \* retry of ls2k_i2c_start
          buf         \* the bytes read

romVars == <<mem, at, mode, page, busy, protected>>
jobVars == <<jobs, job, todo, failed, retry, buf>>
eeVars  == <<romVars, jobVars>>

Addrs == 0 .. Size - 1
Released == 255   \* what a byte is that nobody drives

-----------------------------------------------------------------------------
\* Commands, and the events they cause.

Event(op, arg) == [op |-> op, arg |-> arg]

send_addr(a) == <<Event("start", "write"), Event("put", a)>>

Puts(data)  == [j \in DOMAIN data |-> Event("put", data[j])]
Takes(n)    == [j \in 1 .. n |-> Event("take", 0)]
Stop        == <<Event("stop", 0)>>

\* Mutant: no stop condition.
WritePageOpen(a, data) == send_addr(a) \o Puts(data)

\* ls2k_eeprom_write_page, and write_byte with one byte; i2c_write is the same.
WritePage(a, data) == send_addr(a) \o Puts(data) \o Stop

\* ls2k_eeprom_read_seq; ls2k_eeprom_read_rand reads one byte the same way.
ReadSeq(a, n) == send_addr(a) \o <<Event("start", "read")>> \o Takes(n) \o Stop

\* ls2k_eeprom_read_cur.
ReadCur == <<Event("start", "read")>> \o Takes(1) \o Stop

\* i2c_read: ls2k_i2c_start no longer looks at the flags, so that the second
\* start carries the same address byte as the first and asks for a write.
I2cRead(a, n) == send_addr(a) \o <<Event("start", "write")>> \o Takes(n) \o Stop

Idle0 == [op |-> "none"]
Datas == UNION {[1 .. n -> Bytes] : n \in Counts}

EeCommands ==
    [op : {"write_page", "i2c_write"}, addr : 0 .. Reach - 1, data : Datas]
        \cup [op : {"read_seq", "i2c_read"}, addr : 0 .. Reach - 1, count : Counts]
        \cup [op : {"read_rand"}, addr : 0 .. Reach - 1, count : {1}]
        \cup {[op |-> "read_cur", count |-> 1]}

Events(c) ==
    CASE c.op \in {"write_page", "i2c_write"} -> WritePage(c.addr, c.data)
      [] c.op \in {"read_seq", "read_rand"}   -> ReadSeq(c.addr, c.count)
      [] c.op = "read_cur" -> ReadCur
      [] c.op = "i2c_read" -> I2cRead(c.addr, c.count)

OfI2c(c) == c.op \in {"i2c_write", "i2c_read"}

EeIssue ==
    /\ job = Idle0 /\ jobs < Jobs
    /\ \E c \in EeCommands : job' = c /\ todo' = Events(c)
    /\ jobs' = jobs + 1 /\ failed' = FALSE /\ retry' = 5 /\ buf' = <<>>
    /\ UNCHANGED romVars

\* What the command returns: ls2k_eeprom_read_rand has a semicolon behind its
\* second test and never returns 1, i2c_read and i2c_write return 0 always.
Ret == IF failed \/ OfI2c(job) \/ job.op = "read_rand" THEN 0
       ELSE IF job.op = "write_page" THEN Len(job.data) ELSE job.count

EeReturn ==
    /\ job # Idle0 /\ todo = <<>>
    /\ job' = Idle0
    /\ UNCHANGED <<romVars, jobs, todo, failed, retry, buf>>

-----------------------------------------------------------------------------
\* The chip.

\* The address of the next byte of a write: it wraps inside the page.
NextInPage(a) == ((a \div Page) * Page) + ((a + 1) % Page)

\* A byte for the chip: the address first, then data.  Protected, it refuses
\* the data.
Accepts(b) ==
    \/ /\ mode = "address"
       /\ at' = b % Reach /\ mode' = "data" /\ UNCHANGED page
    \/ /\ mode = "data" /\ ~protected
       /\ page' = Append(page, <<at, b>>) /\ at' = NextInPage(at) /\ UNCHANGED mode

Refuses == mode = "off" \/ (mode = "data" /\ protected)

\* The stop condition starts the cycle; the last byte for an address counts.
Store ==
    [a \in Addrs |-> LET js == {j \in DOMAIN page : page[j][1] = a}
                     IN IF js = {} THEN mem[a]
                        ELSE page[CHOOSE j \in js : \A k \in js : k <= j][2]]

Halt ==
    /\ mem' = Store /\ page' = <<>> /\ mode' = "off"
    /\ busy' = (busy \/ page # <<>>)
    /\ UNCHANGED <<at, protected>>

CycleEnd == busy /\ busy' = FALSE /\ UNCHANGED <<mem, at, mode, page, protected, jobVars>>

-----------------------------------------------------------------------------
\* The bus events of a command.

Does0(op) == todo # <<>> /\ Head(todo).op = op
Arg0 == Head(todo).arg
Next0 == todo' = Tail(todo) /\ UNCHANGED <<jobs, job, failed, retry, buf>>

GiveUp == todo' = <<>> /\ failed' = TRUE /\ UNCHANGED <<jobs, job, retry, buf>>

\* A start condition takes the chip out of whatever it was doing; a write
\* that was not stopped is lost.
Start ==
    /\ Does0("start") /\ ~busy
    /\ mode' = (IF Arg0 = "write" THEN "address" ELSE "send") /\ page' = <<>>
    /\ Next0 /\ UNCHANGED <<mem, at, busy, protected>>

\* Mutant: the retries have no end.
StartRefusedAlways ==
    /\ Does0("start") /\ busy /\ retry' = retry - 1 /\ Halt
    /\ UNCHANGED <<jobs, job, todo, failed, buf>>

\* Refused: eeprom.c stops and gives up, drv_i2c.c stops and tries again.
StartRefused ==
    /\ Does0("start") /\ busy
    /\ \/ /\ OfI2c(job) /\ retry > 0
          /\ retry' = retry - 1
          /\ UNCHANGED <<jobs, job, todo, failed, buf>>
       \/ /\ ~OfI2c(job) \/ retry = 0
          /\ GiveUp
    /\ Halt

Put ==
    /\ Does0("put") /\ Accepts(Arg0)
    /\ Next0 /\ UNCHANGED <<mem, busy, protected>>

\* A refused byte: both drivers stop.  drv_i2c.c goes on with the next
\* message, which for a write there is not, and stops again.
PutRefused == Does0("put") /\ Refuses /\ Halt /\ GiveUp

\* A byte from the chip; from a chip that listens, the byte is what nobody
\* drives, and the chip takes it for one it is given.
Take ==
    /\ Does0("take")
    /\ \/ /\ mode = "send"
          /\ buf' = Append(buf, mem[at]) /\ at' = (at + 1) % Size
          /\ UNCHANGED <<mode, page>>
       \/ /\ mode # "send" /\ buf' = Append(buf, Released)
          /\ (Accepts(Released) \/ (Refuses /\ UNCHANGED <<at, mode, page>>))
    /\ todo' = Tail(todo)
    /\ UNCHANGED <<jobs, job, failed, retry, mem, busy, protected>>

StopCond == Does0("stop") /\ Halt /\ Next0

-----------------------------------------------------------------------------
EeInit ==
    /\ mem = [a \in Addrs |-> 0] /\ at = 0 /\ mode = "off" /\ page = <<>>
    /\ busy = FALSE /\ protected \in BOOLEAN
    /\ jobs = 0 /\ job = Idle0 /\ todo = <<>> /\ failed = FALSE /\ retry = 5 /\ buf = <<>>

EeRun == \/ EeReturn \/ CycleEnd
         \/ Start \/ StartRefused \/ Put \/ PutRefused \/ Take \/ StopCond

EeNext == EeIssue \/ EeRun

-----------------------------------------------------------------------------
\* Properties.

EeTypeOK ==
    /\ mem \in [Addrs -> 0 .. 255] /\ at \in Addrs
    /\ mode \in {"off", "address", "data", "send"} /\ Len(page) <= Size
    /\ busy \in BOOLEAN /\ jobs \in 0 .. Jobs /\ retry \in 0 .. 5
    /\ Len(buf) <= Size

\* Where the byte goes that comes k bytes behind the first one of a write to a.
Place(a, k) == ((a \div Page) * Page) + ((a + k) % Page)

\* The bytes of a write are in m: all of them if they are no more than a page,
\* otherwise the last ones, which have gone over the others.
Stored(m, c) ==
    \A j \in DOMAIN c.data : j > Len(c.data) - Page => m[Place(c.addr, j - 1)] = c.data[j]

\* What a write means: its bytes are stored, and what they do not reach is as
\* it was.
Written(c) ==
    /\ Stored(mem', c)
    /\ \A a \in Addrs : (\A j \in DOMAIN c.data : Place(c.addr, j - 1) # a) => mem'[a] = mem[a]

\* Where i2c_read writes: the chip takes the bytes that nobody drives for its
\* own, the first for an address and the others for data.
LostPage == {a \in Addrs : a \div Page = (Released % Reach) \div Page}

\* The contents change only by a write that was not refused, to what it means,
\* and by i2c_read (drv_i2c.c:92), in one page.
Stores ==
    mem' # mem =>
        \/ job.op \in {"write_page", "i2c_write"} /\ ~failed' /\ Written(job)
        \/ job.op = "i2c_read" /\ \A a \in Addrs : mem'[a] # mem[a] => a \in LostPage

\* A command that was not refused, and so every one that returns a count, has
\* done its work when it returns: a write has stored its bytes, a read has
\* read them where it should.  i2c_read never has, and nothing is said of it.
Reports ==
    job # Idle0 /\ job' = Idle0 /\ (Ret > 0 \/ ~failed) =>
        CASE job.op \in {"write_page", "i2c_write"} -> Stored(mem, job)
          [] job.op \in {"read_seq", "read_rand"} ->
                 buf = [j \in 1 .. job.count |-> mem[(job.addr + j - 1) % Size]]
          [] job.op = "read_cur" -> Len(buf) = 1 /\ buf[1] = mem[(at + Size - 1) % Size]
          [] job.op = "i2c_read" -> TRUE

\* What the chip holds and what was done about it belong together, also when a
\* command meets a chip that is still storing or is protected, and when a
\* write rolls over in its page.  Three returns are not judged: the count of
\* write_page, which is that of the bytes sent, those included that a later one
\* has gone over (eeprom.c:143); that of i2c_write, which is 0, success
\* (drv_i2c.c:226), also when it was refused; and that of read_rand, which is
\* 0, failure, also when it has read.
Reported == [][Stores /\ Reports]_eeVars
===============================================================================
