------------------------------ MODULE Recorder ------------------------------
(***************************************************************************)
(* vs1003_record of ls2kdev_record/applications/vs1003/vs1003_example.c:    *)
(* the codec keeps what it hears in a buffer of 1024 words, the recording   *)
(* loop reads batches of 256 words from it and appends them to a file until *)
(* as many are there as the command asked for.  Words are counted in units  *)
(* of 128; a unit is the number of its place in the sound.                  *)
(*                                                                         *)
(* Codec and loop run at their own speeds.  The codec hears a unit while    *)
(* the loop does Pace steps; a unit it hears earlier is late work: the loop *)
(* was held up (by another thread, or by the file system).                  *)
(***************************************************************************)
EXTENDS Integers, Sequences

CONSTANTS Requests,    \* the lengths asked for, in batches
          Batch,       \* VS1003_ADPCM_BATCH_SIZE, 256 words
          Limit,       \* the fill the loop takes for an overflow, 896 words
          Size,        \* the buffer of the codec, 1024 words
          Pace,        \* the steps of the loop while the codec hears a unit
          HoldUp,      \* bound: the units the loop is late between two polls
          Sound,       \* bound: the units heard in all
          Past         \* bound: the batches counted below zero

ASSUME RecorderAssumption ==
  /\ Requests \subseteq Nat /\ {Pace, HoldUp, Sound, Past} \subseteq Nat
  /\ {Batch, Limit, Size} \subseteq Nat \ {0}
  /\ Batch < Limit /\ Limit < Size

VARIABLES
  heard, fifo,       \* the units heard so far; those in the buffer of the codec
  request,           \* the length asked for, which the header of the file tells
  pc, t, len, db,    \* the loop, its count of words, of batches, its batch
  file,              \* the units in the file
  since, held, late  \* steps since the last unit; units late since the last
                     \* poll, and the most there have been between two polls

codec == <<heard, fifo>>
loop  == <<pc, t, len, db, file>>
clock == <<since, held, late>>
vars  == <<codec, request, loop, clock>>

\* vs1003_record_mode_init has started the codec, the header is written.
Init ==
  /\ heard = 0 /\ fifo = << >>
  /\ request \in Requests /\ len = request
  /\ pc = "poll" /\ t = 0 /\ db = << >> /\ file = << >>
  /\ since = 0 /\ held = 0 /\ late = 0

-----------------------------------------------------------------------------
\* The codec hears a unit; a buffer that overflows is cleared (external).
Capture ==
  /\ heard < Sound /\ pc # "done"
  /\ heard' = heard + 1
  /\ fifo' = (IF Len(fifo) = Size THEN <<heard + 1>> ELSE Append(fifo, heard + 1))
  /\ since' = 0
  /\ IF since >= Pace
     THEN UNCHANGED <<held, late>>
     ELSE /\ held < HoldUp /\ held' = held + 1
          /\ late' = (IF held + 1 > late THEN held + 1 ELSE late)
  /\ UNCHANGED <<request, loop>>

\* A step of the loop takes its share of the time.
Tick == since' = (IF since < Pace THEN since + 1 ELSE since) /\ UNCHANGED <<late, heard, request>>

\* t = read_register(SCI_HDAT1), at the head of while (len).
Poll ==
  /\ pc = "poll" /\ len # 0 /\ len > -Past
  /\ t' = Len(fifo) /\ pc' = "batch"
  /\ Tick /\ held' = 0
  /\ UNCHANGED <<fifo, len, db, file>>

\* The outer loop ends when len is zero; the file is closed.
Close ==
  /\ pc = "poll" /\ len = 0
  /\ pc' = "done"
  /\ Tick /\ UNCHANGED <<fifo, t, len, db, file, held>>

\* The inner loop ends: there is no whole batch.
NoBatch ==
  /\ pc = "batch" /\ db = << >> /\ t < Batch
  /\ pc' = "poll"
  /\ Tick /\ UNCHANGED <<fifo, t, len, db, file, held>>

\* "Buffer Overflow!": the batch is left where it is, the codec asked again.
Overflow ==
  /\ pc = "batch" /\ t >= Limit
  /\ pc' = "poll"
  /\ Tick /\ UNCHANGED <<fifo, t, len, db, file, held>>

\* Mutant: the loop over the words of a batch takes one too many.
ReadWordOn ==
  /\ pc = "batch" /\ Batch <= t /\ t < Limit /\ Len(db) <= Batch
  /\ db' = Append(db, IF fifo = << >> THEN 0 ELSE Head(fifo))
  /\ fifo' = (IF fifo = << >> THEN fifo ELSE Tail(fifo))
  /\ Tick /\ UNCHANGED <<pc, t, len, file, held>>

\* w = read_register(SCI_HDAT0); an empty buffer gives a word of no sound, 0.
ReadWord ==
  /\ pc = "batch" /\ Batch <= t /\ t < Limit /\ Len(db) < Batch
  /\ db' = Append(db, IF fifo = << >> THEN 0 ELSE Head(fifo))
  /\ fifo' = (IF fifo = << >> THEN fifo ELSE Tail(fifo))
  /\ Tick /\ UNCHANGED <<pc, t, len, file, held>>

\* Mutants: t is not counted down; the batch is written twice; len is not
\* counted down.
SaveKeepsT ==
  /\ pc = "batch" /\ Len(db) = Batch
  /\ file' = file \o db /\ db' = << >>
  /\ len' = len - 1
  /\ Tick /\ UNCHANGED <<fifo, pc, t, held>>
SaveTwice ==
  /\ pc = "batch" /\ Len(db) = Batch
  /\ file' = file \o db \o db /\ db' = << >>
  /\ len' = len - 1 /\ t' = t - Batch
  /\ Tick /\ UNCHANGED <<fifo, pc, held>>
SaveUncounted ==
  /\ pc = "batch" /\ Len(db) = Batch
  /\ file' = file \o db /\ db' = << >>
  /\ t' = t - Batch
  /\ Tick /\ UNCHANGED <<fifo, pc, len, held>>

\* fputc of the batch; both counters go down.
Save ==
  /\ pc = "batch" /\ Len(db) = Batch
  /\ file' = file \o db /\ db' = << >>
  /\ len' = len - 1 /\ t' = t - Batch
  /\ Tick /\ UNCHANGED <<fifo, pc, held>>

vs1003_record == Poll \/ Close \/ NoBatch \/ Overflow \/ ReadWord \/ Save

Next == Capture \/ vs1003_record

Spec == Init /\ [][Next]_vars

\* The loop waits for nothing, and the codec goes on listening.
FairSpec == Spec /\ WF_vars(vs1003_record) /\ WF_vars(Capture)
-----------------------------------------------------------------------------
TypeOK ==
  /\ heard \in 0 .. Sound /\ fifo \in Seq(1 .. Sound) /\ Len(fifo) <= Size
  /\ request \in Requests /\ len \in Int /\ len <= request
  /\ pc \in {"poll", "batch", "done"} /\ t \in 0 .. Size
  /\ db \in Seq(0 .. Sound) /\ Len(db) <= Batch
  /\ file \in Seq(0 .. Sound)
  /\ since \in 0 .. Pace /\ held \in 0 .. HoldUp /\ late \in held .. HoldUp

\* The sound the loop has taken from the codec.
Taken == file \o db

\* While the loop is never more than 128 ms (two units, 256 words at 8000
\* samples a second) late between two polls, its file is the sound from the
\* beginning, without a gap, although it reads several batches for one poll.
NothingLost == late <= 2 => \A k \in DOMAIN Taken : Taken[k] = k

\* However late the loop is, what it takes is in order, nothing twice; a 0 is
\* no sound.
InOrder ==
  \A j, k \in DOMAIN Taken :
    j < k /\ Taken[j] # 0 /\ Taken[k] # 0 => Taken[j] < Taken[k]

\* A recording whose loop is never late ends.
Ends == <>(late > 0 \/ pc = "done")
=============================================================================
