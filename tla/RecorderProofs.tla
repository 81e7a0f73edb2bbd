--------------------------- MODULE RecorderProofs ---------------------------
(***************************************************************************)
(* What holds of recordings of every length, however late the loop is: the *)
(* types and the order of the sound; and for the sizes of the code (256,   *)
(* 896 and 1024 words, in units of 128) that a loop which is not late      *)
(* loses nothing.                                                          *)
(***************************************************************************)
EXTENDS Recorder, TLAPS, SequenceTheorems

\* VS1003_ADPCM_BATCH_SIZE, the limit of the overflow and the buffer of the
\* codec; the loop has three steps, a batch or more, while a unit is heard
Codec == Batch = 2 /\ Limit = 7 /\ Size = 8 /\ Pace >= 3

Unit == 0 .. Sound

\* A batch is only begun if all of it was there
Order == db # << >> => pc = "batch" /\ Batch <= t /\ t < Limit

\* The units and steps that are left before the codec is asked again, and how
\* far the time until the next unit has come
ToRead == Batch * (t \div Batch) - Len(db)
Steps == 3 * (t \div Batch) - Len(db) + 1
Near == IF since < 3 THEN since ELSE 3

\* What there will be in the buffer when the codec is asked again, counting
\* three for a unit and one for a step in which a third of one is heard: less
\* than the limit. And what there is now: less than the buffer holds.
Flow ==
  /\ pc = "poll" => 3 * (Len(fifo) + 2 - held) + Near <= 19
  /\ pc = "batch" =>
       /\ 3 * (Len(fifo) - ToRead + 2 - held) + Near + Steps <= 19
       /\ 3 * (Len(fifo) - held) + Near + 2 * Len(db) <= 20
       /\ Len(fifo) >= t - Len(db) /\ t < Limit

\* The buffer goes on where the loop is
Content ==
  /\ Len(Taken) + Len(fifo) = heard
  /\ \A k \in 1 .. Len(Taken) : Taken[k] = k
  /\ \A k \in 1 .. Len(fifo) : fifo[k] = Len(Taken) + k

RecInv == TypeOK /\ Order
FlowInv == late <= 2 => Flow /\ Content

\* What is in the buffer comes after what the loop has taken, in order, and
\* nothing is newer than what the codec heard last: also when the buffer was
\* cleared, or read when it was empty.
Ascending ==
  /\ \A k \in 1 .. Len(Taken) : Taken[k] <= heard
  /\ \A j, k \in 1 .. Len(Taken) :
       j < k /\ Taken[j] # 0 /\ Taken[k] # 0 => Taken[j] < Taken[k]
  /\ \A k \in 1 .. Len(fifo) : fifo[k] <= heard
  /\ \A j, k \in 1 .. Len(fifo) : j < k => fifo[j] < fifo[k]
  /\ \A j \in 1 .. Len(Taken), k \in 1 .. Len(fifo) : Taken[j] < fifo[k]

(***************************************************************************)
(* Types.                                                                  *)
(***************************************************************************)

\* The constants
LEMMA Constants ==
  /\ Pace \in Nat /\ HoldUp \in Nat /\ Sound \in Nat /\ Past \in Nat
  /\ Batch \in Nat /\ Limit \in Nat /\ Size \in Nat
  /\ 0 < Batch /\ Batch < Limit /\ Limit < Size /\ Requests \subseteq Nat
BY RecorderAssumption

\* The lengths of the sequences are numbers
LEMMA Lengths ==
  ASSUME RecInv
  PROVE  /\ fifo \in Seq(1 .. Sound) /\ fifo \in Seq(Unit) /\ db \in Seq(Unit) /\ file \in Seq(Unit)
         /\ Len(fifo) \in 0 .. Size /\ Len(db) \in 0 .. Batch /\ Len(file) \in Nat
         /\ t \in 0 .. Size /\ held \in 0 .. HoldUp /\ late \in held .. HoldUp /\ late \in Nat
         /\ since \in 0 .. Pace /\ heard \in 0 .. Sound /\ held \in Nat
<1>1. /\ fifo \in Seq(1 .. Sound) /\ db \in Seq(Unit) /\ file \in Seq(Unit)
      /\ Len(fifo) <= Size /\ Len(db) <= Batch
      /\ t \in 0 .. Size /\ held \in 0 .. HoldUp /\ late \in held .. HoldUp
      /\ since \in 0 .. Pace /\ heard \in 0 .. Sound
  BY DEF RecInv, TypeOK, Unit
<1>2. 1 .. Sound \subseteq Unit
  BY Constants DEF Unit
<1>3. fifo \in Seq(Unit)
  BY <1>1, <1>2, SeqMonotonic
<1>4. Len(fifo) \in Nat /\ Len(db) \in Nat /\ Len(file) \in Nat
  BY <1>1, LenProperties
<1>5. Len(fifo) \in 0 .. Size /\ Len(db) \in 0 .. Batch
  BY <1>1, <1>4, Constants
<1>6. held \in Nat /\ late \in Nat
  BY <1>1, Constants
<1>7. QED
  BY <1>1, <1>3, <1>4, <1>5, <1>6

\* The time a step of the loop takes
LEMMA TickTypes ==
  ASSUME RecInv, Tick PROVE since' \in 0 .. Pace /\ late' = late /\ heard' = heard /\ request' = request
BY Lengths, Constants DEF Tick

\* At the start
LEMMA RecInit == Init => RecInv
<1> SUFFICES ASSUME Init PROVE RecInv
  OBVIOUS
<1>1. << >> \in Seq(1 .. Sound) /\ << >> \in Seq(Unit) /\ Len(<< >>) = 0
  BY EmptySeq
<1>2. request \in Nat /\ 0 \in 0 .. Sound /\ 0 \in 0 .. Size /\ 0 \in 0 .. Pace
      /\ 0 \in 0 .. HoldUp
  BY Constants DEF Init
<1>3. QED
  BY <1>1, <1>2, Constants DEF Init, RecInv, TypeOK, Order, Unit

\* The codec hears a unit
LEMMA CaptureTypes == ASSUME RecInv, Capture PROVE RecInv'
<1>1. /\ heard < Sound /\ heard' = heard + 1 /\ since' = 0 /\ request' = request
      /\ pc' = pc /\ t' = t /\ len' = len /\ db' = db /\ file' = file
      /\ fifo' = IF Len(fifo) = Size THEN <<heard + 1>> ELSE Append(fifo, heard + 1)
      /\ \/ held' = held /\ late' = late
         \/ /\ held < HoldUp /\ held' = held + 1
            /\ late' = IF held + 1 > late THEN held + 1 ELSE late
  BY DEF Capture, loop
<1>2. heard' \in 0 .. Sound /\ heard + 1 \in 1 .. Sound
  <2>1. heard \in 0 .. Sound /\ Sound \in Nat
    BY Lengths, Constants
  <2>2. QED
    BY <1>1, <2>1
<1>3. fifo' \in Seq(1 .. Sound) /\ Len(fifo') <= Size
  <2>1. CASE Len(fifo) = Size
    BY <1>1, <1>2, <2>1, Constants
  <2>2. CASE Len(fifo) # Size
    <3>1. fifo' = Append(fifo, heard + 1) /\ fifo \in Seq(1 .. Sound)
      BY <1>1, <2>2, Lengths
    <3>2. fifo' \in Seq(1 .. Sound) /\ Len(fifo') = Len(fifo) + 1
      BY <1>2, <3>1
    <3>3. QED
      BY <2>2, <3>2, Lengths, Constants
  <2>3. QED
    BY <2>1, <2>2
<1>4. held' \in 0 .. HoldUp /\ late' \in held' .. HoldUp
  <2>1. held \in Nat /\ late \in Nat /\ HoldUp \in Nat /\ held <= late /\ late <= HoldUp
    BY Lengths, Constants
  <2>2. CASE held' = held /\ late' = late
    BY <2>1, <2>2
  <2>3. CASE held < HoldUp /\ held' = held + 1 /\ late' \in {late, held + 1} /\ held + 1 <= late'
    BY <2>1, <2>3
  <2>4. held < HoldUp /\ late' = (IF held + 1 > late THEN held + 1 ELSE late)
          => late' \in {late, held + 1} /\ held + 1 <= late'
    BY <2>1
  <2>5. QED
    BY <1>1, <2>2, <2>3, <2>4
<1>5. since' \in 0 .. Pace
  BY <1>1, Constants
<1>6. QED
  BY <1>1, <1>2, <1>3, <1>4, <1>5 DEF RecInv, TypeOK, Order

\* A step of the loop
LEMMA LoopTypes == ASSUME RecInv, vs1003_record PROVE RecInv'
<1>1. Tick
  BY DEF vs1003_record, Poll, Close, NoBatch, Overflow, ReadWord, Save
<1>2. since' \in 0 .. Pace /\ late' = late /\ heard' = heard /\ request' = request
  BY <1>1, TickTypes
<1>3. 0 \in 0 .. HoldUp /\ late \in 0 .. HoldUp
  BY Lengths, Constants
<1>4. CASE Poll
  <2>1. db = << >>
    BY <1>4 DEF Poll, RecInv, Order
  <2>2. Len(fifo) \in 0 .. Size
    BY Lengths
  <2>3. QED
    BY <1>2, <1>3, <1>4, <2>1, <2>2 DEF Poll, RecInv, TypeOK, Order
<1>5. CASE Close
  BY <1>2, <1>5 DEF Close, RecInv, TypeOK, Order
<1>6. CASE NoBatch
  BY <1>2, <1>6 DEF NoBatch, RecInv, TypeOK, Order
<1>7. CASE Overflow
  <2>1. db = << >>
    BY <1>7, Lengths, Constants DEF Overflow, RecInv, Order
  <2>2. QED
    BY <1>2, <1>7, <2>1 DEF Overflow, RecInv, TypeOK, Order
<1>8. CASE ReadWord
  <2>1. PICK x : x = IF fifo = << >> THEN 0 ELSE Head(fifo)
    OBVIOUS
  <2>2. x \in Unit
    <3>1. CASE fifo = << >>
      BY <2>1, <3>1, Constants DEF Unit
    <3>2. CASE fifo # << >>
      BY <2>1, <3>2, Lengths, HeadTailProperties
    <3>3. QED
      BY <3>1, <3>2
  <2>3. db' = Append(db, x) /\ Len(db) < Batch /\ pc = "batch" /\ Batch <= t /\ t < Limit
    BY <1>8, <2>1 DEF ReadWord
  <2>4. db' \in Seq(Unit) /\ Len(db') <= Batch
    BY <2>2, <2>3, Lengths, Constants
  <2>5. fifo' \in Seq(1 .. Sound) /\ Len(fifo') <= Size
    <3>1. CASE fifo = << >>
      BY <1>8, <3>1, Lengths DEF ReadWord, RecInv, TypeOK
    <3>2. CASE fifo # << >>
      <4>1. fifo' = Tail(fifo)
        BY <1>8, <3>2 DEF ReadWord
      <4>2. Tail(fifo) \in Seq(1 .. Sound) /\ Len(Tail(fifo)) = Len(fifo) - 1
        BY <3>2, Lengths, HeadTailProperties
      <4>3. QED
        BY <4>1, <4>2, Lengths, Constants
    <3>3. QED
      BY <3>1, <3>2
  <2>6. QED
    BY <1>2, <1>8, <2>3, <2>4, <2>5 DEF ReadWord, RecInv, TypeOK, Order, Unit
<1>9. CASE Save
  <2>1. db # << >>
    BY <1>9, Constants, EmptySeq DEF Save
  <2>2. Batch <= t
    BY <2>1 DEF RecInv, Order
  <2>3. t' \in 0 .. Size
    BY <1>9, <2>2, Lengths, Constants DEF Save
  <2>4. file' \in Seq(Unit)
    BY <1>9, Lengths, ConcatProperties DEF Save
  <2>5. db' = << >> /\ << >> \in Seq(Unit) /\ Len(<< >>) = 0
    BY <1>9 DEF Save
  <2>6. len' \in Int /\ len' <= request
    BY <1>9, Constants DEF Save, RecInv, TypeOK
  <2>7. QED
    BY <1>2, <1>9, <2>3, <2>4, <2>5, <2>6, Constants DEF Save, RecInv, TypeOK, Order, Unit
<1>10. QED
  BY <1>4, <1>5, <1>6, <1>7, <1>8, <1>9 DEF vs1003_record

\* Whatever the speeds of codec and loop, the buffer never holds more than it
\* can, a batch is as long as its array, and t is not counted below zero.
THEOREM RecorderTypeCorrect == Spec => []TypeOK
<1>1. RecInv /\ UNCHANGED vars => RecInv'
  BY DEF RecInv, TypeOK, Order, vars, codec, loop, clock
<1>2. RecInv /\ [Next]_vars => RecInv'
  BY <1>1, CaptureTypes, LoopTypes DEF Next
<1>3. Spec => []RecInv
  BY <1>2, RecInit, PTL DEF Spec
<1>4. QED
  BY <1>3, PTL DEF RecInv

(***************************************************************************)
(* The sound.                                                              *)
(***************************************************************************)

\* What the loop has taken is its file and its batch
LEMMA TakenLen ==
  ASSUME RecInv
  PROVE  /\ Taken \in Seq(Unit) /\ Len(Taken) = Len(file) + Len(db) /\ Len(Taken) \in Nat
BY Lengths, ConcatProperties, LenProperties DEF Taken

\* A unit at the end of the batch is one at the end of all
LEMMA TakenAppends ==
  ASSUME NEW S, NEW f \in Seq(S), NEW g \in Seq(S), NEW u \in S
  PROVE  f \o Append(g, u) = Append(f \o g, u)
<1>1. <<u>> \in Seq(S) /\ Append(g, u) = g \o <<u>>
  OBVIOUS
<1>2. f \o g \in Seq(S) /\ Append(f \o g, u) = (f \o g) \o <<u>>
  BY ConcatProperties
<1>3. f \o (g \o <<u>>) = (f \o g) \o <<u>>
  BY <1>1, ConcatAssociative
<1>4. QED
  BY <1>1, <1>2, <1>3

\* What the codec hears is newer than all there is
LEMMA CaptureAscends ==
  ASSUME RecInv, Ascending, Capture PROVE Ascending'
<1>1. /\ heard' = heard + 1 /\ Taken' = Taken
      /\ fifo' = IF Len(fifo) = Size THEN <<heard + 1>> ELSE Append(fifo, heard + 1)
  BY DEF Capture, loop, Taken
<1>2. PICK n \in Nat, f \in Nat : n = Len(Taken) /\ f = Len(fifo)
  BY TakenLen, Lengths
<1>3. heard \in Nat /\ \A k \in 1 .. n : Taken[k] \in Nat /\ Taken[k] <= heard
  <2>1. heard \in Nat /\ \A k \in Unit : k \in Nat
    BY Lengths, Constants DEF Unit
  <2>2. \A k \in 1 .. n : Taken[k] \in Unit
    BY <1>2, TakenLen
  <2>3. QED
    BY <1>2, <2>1, <2>2 DEF Ascending
<1>4. /\ \A k \in 1 .. f : fifo[k] \in Nat /\ fifo[k] <= heard
      /\ \A j, k \in 1 .. f : j < k => fifo[j] < fifo[k]
      /\ \A j \in 1 .. n, k \in 1 .. f : Taken[j] < fifo[k]
  <2>1. \A k \in 1 .. f : fifo[k] \in Unit
    BY <1>2, Lengths
  <2>2. \A k \in Unit : k \in Nat
    BY Constants DEF Unit
  <2>3. QED
    BY <1>2, <2>1, <2>2 DEF Ascending
<1>5. /\ \A k \in 1 .. n : Taken'[k] <= heard'
      /\ \A j, k \in 1 .. n :
           j < k /\ Taken'[j] # 0 /\ Taken'[k] # 0 => Taken'[j] < Taken'[k]
  BY <1>1, <1>2, <1>3 DEF Ascending
<1>6. CASE Len(fifo) = Size
  <2>1. fifo' = <<heard + 1>> /\ Len(fifo') = 1 /\ fifo'[1] = heard + 1
    BY <1>1, <1>6
  <2>2. /\ \A k \in 1 .. Len(fifo') : fifo'[k] = heard + 1
        /\ \A j, k \in 1 .. Len(fifo') : ~(j < k)
    BY <2>1
  <2>3. \A j \in 1 .. n : Taken'[j] < heard + 1
    BY <1>1, <1>3
  <2>4. QED
    BY <1>1, <1>2, <1>3, <1>5, <2>2, <2>3 DEF Ascending
<1>7. CASE Len(fifo) # Size
  <2>1. /\ fifo' = Append(fifo, heard + 1) /\ Len(fifo') = f + 1 /\ fifo'[f + 1] = heard + 1
        /\ \A k \in 1 .. f : fifo'[k] = fifo[k]
    BY <1>1, <1>2, <1>7, Lengths
  <2>2. \A k \in 1 .. f + 1 : k \in 1 .. f \/ k = f + 1
    OBVIOUS
  <2>3. \A k \in 1 .. f + 1 : fifo'[k] <= heard'
    BY <1>1, <1>3, <1>4, <2>1, <2>2
  <2>4. \A j, k \in 1 .. f + 1 : j < k => fifo'[j] < fifo'[k]
    <3>1. ASSUME NEW j \in 1 .. f + 1, NEW k \in 1 .. f + 1, j < k PROVE fifo'[j] < fifo'[k]
      <4>1. j \in 1 .. f /\ fifo'[j] = fifo[j] /\ fifo[j] \in Nat /\ fifo[j] <= heard
        BY <1>4, <2>1, <3>1
      <4>2. CASE k \in 1 .. f
        BY <1>4, <2>1, <3>1, <4>1, <4>2
      <4>3. CASE k = f + 1
        BY <1>3, <2>1, <4>1, <4>3
      <4>4. QED
        BY <2>2, <4>2, <4>3
    <3>2. QED
      BY <3>1
  <2>5. \A j \in 1 .. n, k \in 1 .. f + 1 : Taken'[j] < fifo'[k]
    BY <1>1, <1>3, <1>4, <2>1, <2>2
  <2>6. QED
    BY <1>1, <1>2, <1>5, <2>1, <2>3, <2>4, <2>5 DEF Ascending
<1>8. QED
  BY <1>6, <1>7

\* A word is taken from the beginning of the buffer, or is no sound
LEMMA ReadAscends ==
  ASSUME RecInv, Ascending, ReadWord PROVE Ascending'
<1>1. PICK u : u = IF fifo = << >> THEN 0 ELSE Head(fifo)
  OBVIOUS
<1>2. /\ db' = Append(db, u) /\ file' = file /\ heard' = heard
      /\ fifo' = IF fifo = << >> THEN fifo ELSE Tail(fifo)
  BY <1>1 DEF ReadWord, Tick
<1>3. PICK n \in Nat, f \in Nat : n = Len(Taken) /\ f = Len(fifo)
  BY TakenLen, Lengths
<1>4. u \in Unit /\ u \in Nat
  <2>1. CASE fifo = << >>
    BY <1>1, <2>1, Constants DEF Unit
  <2>2. CASE fifo # << >>
    <3>1. u \in Unit
      BY <1>1, <2>2, Lengths, HeadTailProperties
    <3>2. QED
      BY <3>1, Constants DEF Unit
  <2>3. QED
    BY <2>1, <2>2
<1>5. Taken' = Append(Taken, u) /\ Taken \in Seq(Unit)
  <2>1. Taken' = file \o Append(db, u)
    BY <1>2 DEF Taken
  <2>2. u \in Unit /\ db \in Seq(Unit) /\ file \in Seq(Unit)
    BY <1>4, Lengths
  <2>3. file \o Append(db, u) = Append(file \o db, u)
    BY <2>2, TakenAppends
  <2>4. QED
    BY <2>1, <2>3, TakenLen DEF Taken
<1>6. Len(Taken') = n + 1 /\ Taken'[n + 1] = u /\ \A k \in 1 .. n : Taken'[k] = Taken[k]
  BY <1>3, <1>4, <1>5
<1>7. \A k \in 1 .. n + 1 : k \in 1 .. n \/ k = n + 1
  OBVIOUS
<1>8. /\ \A k \in 1 .. n : Taken[k] \in Nat /\ Taken[k] <= heard
      /\ \A j, k \in 1 .. n : j < k /\ Taken[j] # 0 /\ Taken[k] # 0 => Taken[j] < Taken[k]
  <2>1. \A k \in 1 .. n : Taken[k] \in Unit
    BY <1>3, TakenLen
  <2>2. \A k \in Unit : k \in Nat
    BY DEF Unit
  <2>3. QED
    BY <1>3, <2>1, <2>2 DEF Ascending
<1>9. /\ \A k \in 1 .. f : fifo[k] \in Nat /\ fifo[k] <= heard
      /\ \A j, k \in 1 .. f : j < k => fifo[j] < fifo[k]
      /\ \A j \in 1 .. n, k \in 1 .. f : Taken[j] < fifo[k]
  <2>1. \A k \in 1 .. f : fifo[k] \in Unit
    BY <1>3, Lengths
  <2>2. \A k \in Unit : k \in Nat
    BY DEF Unit
  <2>3. QED
    BY <1>3, <2>1, <2>2 DEF Ascending
<1>10. u <= heard /\ (u # 0 => \A j \in 1 .. n : Taken[j] < u)
  <2>1. CASE fifo = << >>
    BY <1>1, <2>1, Lengths DEF Unit
  <2>2. CASE fifo # << >>
    <3>1. u = fifo[1] /\ 1 \in 1 .. f
      BY <1>1, <1>3, <2>2, Lengths
    <3>2. QED
      BY <1>9, <3>1
  <2>3. QED
    BY <2>1, <2>2
<1>11. /\ \A k \in 1 .. n + 1 : Taken'[k] <= heard'
       /\ \A j, k \in 1 .. n + 1 :
            j < k /\ Taken'[j] # 0 /\ Taken'[k] # 0 => Taken'[j] < Taken'[k]
  <2>1. \A k \in 1 .. n + 1 : Taken'[k] <= heard'
    BY <1>2, <1>6, <1>7, <1>8, <1>10
  <2>2. ASSUME NEW j \in 1 .. n + 1, NEW k \in 1 .. n + 1, j < k, Taken'[j] # 0, Taken'[k] # 0
        PROVE  Taken'[j] < Taken'[k]
    <3>1. j \in 1 .. n /\ Taken'[j] = Taken[j]
      BY <1>6, <2>2
    <3>2. CASE k \in 1 .. n
      BY <1>6, <1>8, <2>2, <3>1, <3>2
    <3>3. CASE k = n + 1
      BY <1>6, <1>10, <2>2, <3>1, <3>3
    <3>4. QED
      BY <1>7, <3>2, <3>3
  <2>3. QED
    BY <2>1, <2>2
<1>12. CASE fifo = << >>
  <2>1. Len(fifo') = 0
    BY <1>2, <1>12
  <2>2. QED
    BY <1>6, <1>11, <2>1 DEF Ascending
<1>13. CASE fifo # << >>
  <2>1. /\ f >= 1 /\ Len(fifo') = f - 1 /\ u = fifo[1]
        /\ \A k \in 1 .. f - 1 : k + 1 \in 1 .. f /\ fifo'[k] = fifo[k + 1]
    <3>1. f >= 1
      BY <1>3, <1>13, Lengths
    <3>2. QED
      BY <1>1, <1>2, <1>3, <1>13, <3>1, Lengths, HeadTailProperties
  <2>2. \A k \in 1 .. f - 1 : fifo'[k] <= heard'
    BY <1>2, <1>9, <2>1
  <2>3. \A j, k \in 1 .. f - 1 : j < k => fifo'[j] < fifo'[k]
    BY <1>9, <2>1
  <2>4. ASSUME NEW j \in 1 .. n + 1, NEW k \in 1 .. f - 1 PROVE Taken'[j] < fifo'[k]
    <3>1. CASE j \in 1 .. n
      BY <1>6, <1>9, <2>1, <3>1
    <3>2. CASE j = n + 1
      <4>1. 1 \in 1 .. f /\ k + 1 \in 1 .. f /\ 1 < k + 1
        BY <2>1
      <4>2. fifo[1] < fifo[k + 1]
        BY <1>9, <4>1
      <4>3. QED
        BY <1>6, <2>1, <3>2, <4>2
    <3>3. QED
      BY <1>7, <3>1, <3>2
  <2>5. QED
    BY <1>6, <1>11, <2>1, <2>2, <2>3, <2>4 DEF Ascending
<1>14. QED
  BY <1>12, <1>13

\* However late the loop is, and however much the codec cleared, what was taken
\* is in order and nothing is taken twice, for recordings of any length.
THEOREM OrderIsKept == Spec => []InOrder
<1>1. Init => RecInv /\ Ascending
  <2> SUFFICES ASSUME Init PROVE RecInv /\ Ascending
    OBVIOUS
  <2>1. RecInv
    BY RecInit
  <2>2. Len(fifo) = 0 /\ Len(Taken) = 0
    BY <2>1, Lengths, TakenLen, EmptySeq DEF Init
  <2>3. QED
    BY <2>1, <2>2 DEF Ascending
<1>2. RecInv /\ Ascending /\ [Next]_vars => RecInv' /\ Ascending'
  <2> SUFFICES ASSUME RecInv, Ascending, [Next]_vars PROVE RecInv' /\ Ascending'
    OBVIOUS
  <2>1. CASE UNCHANGED vars
    BY <2>1 DEF vars, codec, loop, clock, RecInv, TypeOK, Order, Ascending, Taken
  <2>2. CASE Capture
    BY <2>2, CaptureTypes, CaptureAscends
  <2>3. CASE vs1003_record
    <3>1. RecInv'
      BY <2>3, LoopTypes
    <3>2. CASE Poll \/ Close \/ NoBatch \/ Overflow
      BY <3>1, <3>2 DEF Poll, Close, NoBatch, Overflow, Tick, Ascending, Taken
    <3>3. CASE Save
      <4>1. Taken' = Taken /\ heard' = heard /\ fifo' = fifo
        BY <3>3, Lengths, ConcatProperties, ConcatEmptySeq DEF Save, Taken, Tick
      <4>2. QED
        BY <3>1, <4>1 DEF Ascending
    <3>4. QED
      BY <2>3, <3>1, <3>2, <3>3, ReadAscends DEF vs1003_record
  <2>4. QED
    BY <2>1, <2>2, <2>3 DEF Next
<1>3. RecInv /\ Ascending => InOrder
  <2>1. RecInv => DOMAIN Taken = 1 .. Len(Taken)
    BY TakenLen, LenProperties
  <2>2. QED
    BY <2>1 DEF Ascending, InOrder
<1>4. QED
  BY <1>1, <1>2, <1>3, PTL DEF Spec

\* While the loop is not late the buffer does not overflow
LEMMA CaptureFlow ==
  ASSUME Codec, RecInv, FlowInv, Capture PROVE FlowInv'
<1> SUFFICES ASSUME late' <= 2 PROVE Flow' /\ Content'
  BY DEF FlowInv
<1>1. /\ pc' = pc /\ t' = t /\ db' = db /\ file' = file /\ pc # "done"
      /\ heard' = heard + 1 /\ since' = 0
      /\ fifo' = IF Len(fifo) = Size THEN <<heard + 1>> ELSE Append(fifo, heard + 1)
      /\ \/ since >= Pace /\ held' = held /\ late' = late
         \/ /\ held < HoldUp /\ held' = held + 1
            /\ late' = IF held + 1 > late THEN held + 1 ELSE late
  BY DEF Capture, loop
<1>2. late <= 2 /\ held' <= 2 /\ held' \in Nat /\ held \in Nat
  BY <1>1, Lengths
<1>3. Flow /\ Content
  BY <1>2 DEF FlowInv
<1>4. PICK f, h, k, b, x : f = Len(fifo) /\ h = held /\ k = held' /\ b = Len(db) /\ x = Near
  OBVIOUS
<1>5. /\ f \in Nat /\ h \in Nat /\ b \in 0 .. 2 /\ x \in 0 .. 3 /\ t \in 0 .. 8
      /\ pc \in {"poll", "batch"}
      /\ since >= Pace => x = 3
  BY <1>1, <1>4, Lengths, Constants DEF Codec, Near, RecInv, TypeOK
<1>6. Near' = 0
  BY <1>1 DEF Near
<1>7. 3 * (f - k) <= 3 * (f - h) + x - 3 /\ k \in Nat /\ k <= 2
  BY <1>1, <1>2, <1>4, <1>5
<1>8. PICK q : q = t \div 2
  OBVIOUS
<1>9. /\ pc = "poll" => 3 * (f + 2 - h) + x <= 19
      /\ pc = "batch" => /\ 3 * (f - (2 * q - b) + 2 - h) + x + (3 * q - b + 1) <= 19
                         /\ 3 * (f - h) + x + 2 * b <= 20
                         /\ f >= t - b /\ t < 7
  BY <1>3, <1>4, <1>8 DEF Flow, ToRead, Steps, Codec
<1>10. f # 8
  <2>1. CASE pc = "poll"
    BY <1>5, <1>7, <1>9, <2>1
  <2>2. CASE pc = "batch"
    BY <1>5, <1>7, <1>9, <2>2
  <2>3. QED
    BY <1>5, <2>1, <2>2
<1>11. fifo' = Append(fifo, heard + 1) /\ Len(fifo') = f + 1
  BY <1>1, <1>4, <1>10, Lengths DEF Codec
<1>12. Flow'
  <2>1. q \in Nat
    BY <1>5, <1>8
  <2>2. /\ pc = "poll" => 3 * ((f + 1) + 2 - k) <= 19
        /\ pc = "batch" => /\ 3 * ((f + 1) - (2 * q - b) + 2 - k) + (3 * q - b + 1) <= 19
                           /\ 3 * ((f + 1) - k) + 2 * b <= 20
                           /\ f + 1 >= t - b
    BY <1>5, <1>7, <1>9, <2>1
  <2>3. ToRead' = 2 * q - b /\ Steps' = 3 * q - b + 1
    BY <1>1, <1>4, <1>8 DEF ToRead, Steps, Codec
  <2>4. /\ Len(fifo') = f + 1 /\ held' = k /\ Near' = 0 /\ Len(db') = b
        /\ pc' = pc /\ t' = t
    BY <1>1, <1>4, <1>6, <1>11
  <2>5. /\ pc' = "poll" => 3 * (Len(fifo') + 2 - held') + Near' <= 19
        /\ pc' = "batch" => /\ 3 * (Len(fifo') - ToRead' + 2 - held') + Near' + Steps' <= 19
                            /\ 3 * (Len(fifo') - held') + Near' + 2 * Len(db') <= 20
                            /\ Len(fifo') >= t' - Len(db') /\ t' < 7
    <3>1. \A n \in Int : n + 0 = n
      OBVIOUS
    <3>2. 3 * ((f + 1) + 2 - k) \in Int /\ 3 * ((f + 1) - (2 * q - b) + 2 - k) \in Int
          /\ 3 * ((f + 1) - k) \in Int
      BY <1>5, <1>7, <2>1
    <3>3. QED
      BY <1>9, <2>2, <2>3, <2>4, <3>1, <3>2
  <2>6. QED
    BY <2>5 DEF Flow, Codec
<1>13. Content'
  <2>1. Taken' = Taken
    BY <1>1 DEF Taken
  <2>2. \A j \in 1 .. f + 1 : fifo'[j] = Len(Taken) + j
    <3>1. \A j \in 1 .. f : fifo'[j] = fifo[j]
      BY <1>4, <1>11, Lengths
    <3>2. fifo'[f + 1] = heard + 1
      BY <1>4, <1>11, Lengths
    <3>3. heard + 1 = Len(Taken) + (f + 1)
      BY <1>3, <1>4, <1>5, TakenLen DEF Content
    <3>4. \A j \in 1 .. f : fifo[j] = Len(Taken) + j
      BY <1>3, <1>4 DEF Content
    <3>5. ASSUME NEW j \in 1 .. f + 1 PROVE j \in 1 .. f \/ j = f + 1
      BY <1>5
    <3>6. QED
      BY <3>1, <3>2, <3>3, <3>4, <3>5
  <2>3. QED
    BY <1>1, <1>3, <1>4, <1>5, <1>11, <2>1, <2>2, TakenLen DEF Content
<1>14. QED
  BY <1>12, <1>13

\* A step of the loop that neither reads a word nor saves a batch
LEMMA SameContent ==
  ASSUME Content, UNCHANGED <<heard, fifo, file, db>> PROVE Content'
BY DEF Content, Taken

\* The loop asks the codec again while there is room
LEMMA PollFlow ==
  ASSUME Codec, RecInv, late <= 2, Flow, Content, Poll PROVE Flow' /\ Content'
<1>1. /\ pc = "poll" /\ pc' = "batch" /\ t' = Len(fifo) /\ held' = 0 /\ fifo' = fifo
      /\ db' = db /\ file' = file /\ heard' = heard
      /\ since' = IF since < Pace THEN since + 1 ELSE since
  BY DEF Poll, Tick
<1>2. db = << >> /\ Len(db) = 0
  BY <1>1 DEF RecInv, Order
<1>3. PICK f, h, x, y : f = Len(fifo) /\ h = held /\ x = Near /\ y = Near'
  OBVIOUS
<1>4. /\ f \in 0 .. 8 /\ h \in 0 .. 2 /\ x \in 0 .. 3 /\ y \in 0 .. 3 /\ y <= x + 1
      /\ 3 * (f + 2 - h) + x <= 19
  <2>1. f \in 0 .. 8 /\ h \in 0 .. 2 /\ since \in Nat /\ Pace \in Nat
    <3>1. f \in 0 .. 8
      BY <1>3, Lengths DEF Codec
    <3>2. h \in 0 .. 2
      BY <1>3, Lengths
    <3>3. since \in Nat /\ Pace \in Nat
      BY Lengths, Constants
    <3>4. QED
      BY <3>1, <3>2, <3>3
  <2>2. x \in 0 .. 3 /\ y \in 0 .. 3 /\ y <= x + 1
    BY <1>1, <1>3, <2>1 DEF Near, Codec
  <2>3. QED
    BY <1>1, <1>3, <2>1, <2>2 DEF Flow
<1>5. PICK q \in Nat : q = f \div 2
  BY <1>4
<1>6. q <= 3 /\ 2 * q <= f /\ f <= 2 * q + 1 /\ f < 7
  BY <1>4, <1>5
<1>7. 3 * (f - 2 * q + 2) + y + (3 * q + 1) <= 19 /\ 3 * f + y <= 20
  BY <1>4, <1>5, <1>6
<1>8. ToRead' = 2 * q - 0 /\ Steps' = 3 * q - 0 + 1
  BY <1>1, <1>2, <1>3, <1>5 DEF ToRead, Steps, Codec
<1>9. Flow'
  <2>1. /\ 3 * (f - (2 * q - 0) + 2 - 0) + y + (3 * q - 0 + 1) <= 19
        /\ 3 * (f - 0) + y + 2 * 0 <= 20 /\ f >= f - 0 /\ f < 7
    BY <1>4, <1>5, <1>6, <1>7
  <2>2. Len(fifo') = f /\ held' = 0 /\ Near' = y /\ Len(db') = 0 /\ t' = f /\ pc' = "batch"
    BY <1>1, <1>2, <1>3
  <2>3. QED
    BY <1>8, <2>1, <2>2 DEF Flow, Codec
<1>10. Content'
  BY <1>1, SameContent
<1>11. QED
  BY <1>9, <1>10

\* The loop goes back to ask when there is no batch left
LEMMA NoBatchFlow ==
  ASSUME Codec, RecInv, late <= 2, Flow, Content, NoBatch PROVE Flow' /\ Content'
<1>1. /\ pc = "batch" /\ pc' = "poll" /\ t' = t /\ held' = held /\ fifo' = fifo /\ t < 2
      /\ db = << >> /\ db' = db /\ file' = file /\ heard' = heard
      /\ since' = IF since < Pace THEN since + 1 ELSE since
  BY DEF NoBatch, Tick, Codec
<1>2. Len(db) = 0
  BY <1>1
<1>3. PICK f, h, x, y : f = Len(fifo) /\ h = held /\ x = Near /\ y = Near'
  OBVIOUS
<1>4. f \in Nat /\ h \in Nat /\ x \in 0 .. 3 /\ y \in 0 .. 3 /\ y <= x + 1 /\ t \in Nat
  <2>1. f \in Nat /\ h \in Nat /\ since \in Nat /\ Pace \in Nat /\ t \in Nat
    BY <1>3, Lengths, Constants
  <2>2. x \in 0 .. 3 /\ y \in 0 .. 3 /\ y <= x + 1
    BY <1>1, <1>3, <2>1 DEF Near, Codec
  <2>3. QED
    BY <2>1, <2>2
<1>5. ToRead = 0 /\ Steps = 1
  <2>1. t \div 2 = 0
    BY <1>1, <1>4
  <2>2. QED
    BY <1>2, <2>1 DEF ToRead, Steps, Codec
<1>6. 3 * (f + 2 - h) + x + 1 <= 19
  BY <1>1, <1>3, <1>4, <1>5 DEF Flow
<1>7. 3 * (f + 2 - h) + y <= 19
  BY <1>4, <1>6
<1>8. Flow'
  BY <1>1, <1>3, <1>7 DEF Flow
<1>9. Content'
  BY <1>1, SameContent
<1>10. QED
  BY <1>8, <1>9

\* A word is read: the buffer is not empty, and holds what comes next
LEMMA ReadFlow ==
  ASSUME Codec, RecInv, late <= 2, Flow, Content, ReadWord PROVE Flow' /\ Content'
<1>1. /\ pc = "batch" /\ pc' = pc /\ t' = t /\ held' = held /\ 2 <= t /\ t < 7 /\ Len(db) < 2
      /\ db' = Append(db, IF fifo = << >> THEN 0 ELSE Head(fifo))
      /\ fifo' = (IF fifo = << >> THEN fifo ELSE Tail(fifo))
      /\ file' = file /\ heard' = heard
      /\ since' = IF since < Pace THEN since + 1 ELSE since
  BY DEF ReadWord, Tick, Codec
<1>2. PICK f, h, b, x, y : /\ f = Len(fifo) /\ h = held /\ b = Len(db) /\ x = Near /\ y = Near'
  OBVIOUS
<1>3. /\ f \in Nat /\ h \in Nat /\ b \in 0 .. 1 /\ t \in 2 .. 6
      /\ x \in 0 .. 3 /\ y \in 0 .. 3 /\ y <= x + 1
  <2>1. f \in Nat /\ h \in Nat /\ since \in Nat /\ Pace \in Nat /\ t \in Nat /\ b \in Nat
    BY <1>2, Lengths, Constants
  <2>2. x \in 0 .. 3 /\ y \in 0 .. 3 /\ y <= x + 1
    BY <1>1, <1>2, <2>1 DEF Near, Codec
  <2>3. QED
    BY <1>1, <1>2, <2>1, <2>2
<1>4. PICK q \in Nat : q = t \div 2
  BY <1>3
<1>5. /\ 3 * (f - (2 * q - b) + 2 - h) + x + (3 * q - b + 1) <= 19
      /\ 3 * (f - h) + x + 2 * b <= 20 /\ f >= t - b
  BY <1>1, <1>2, <1>4 DEF Flow, ToRead, Steps, Codec
<1>6. f >= 1 /\ fifo # << >>
  BY <1>2, <1>3, <1>5, EmptySeq
<1>7. PICK u : u = Head(fifo)
  OBVIOUS
<1>8. /\ u = fifo[1] /\ u \in Unit /\ Len(Tail(fifo)) = f - 1
      /\ \A j \in 1 .. f - 1 : Tail(fifo)[j] = fifo[j + 1]
  BY <1>2, <1>6, <1>7, Lengths, HeadTailProperties
<1>9. /\ db' = Append(db, u) /\ fifo' = Tail(fifo) /\ Len(db') = b + 1 /\ Len(fifo') = f - 1
  BY <1>1, <1>2, <1>6, <1>7, <1>8, Lengths
<1>10. Flow'
  <2>1. /\ 3 * ((f - 1) - (2 * q - (b + 1)) + 2 - h) + y + (3 * q - (b + 1) + 1) <= 19
        /\ 3 * ((f - 1) - h) + y + 2 * (b + 1) <= 20
        /\ f - 1 >= t - (b + 1)
    BY <1>3, <1>4, <1>5
  <2>2. ToRead' = 2 * q - (b + 1) /\ Steps' = 3 * q - (b + 1) + 1
    BY <1>1, <1>4, <1>9 DEF ToRead, Steps, Codec
  <2>3. Len(fifo') = f - 1 /\ held' = h /\ Near' = y /\ Len(db') = b + 1 /\ t' = t /\ t < 7
        /\ pc' = "batch"
    BY <1>1, <1>2, <1>9
  <2>4. QED
    BY <2>1, <2>2, <2>3 DEF Flow, Codec
<1>11. Content'
  <2>1. PICK n \in Nat : n = Len(Taken)
    BY TakenLen
  <2>2. n + f = heard /\ (\A k \in 1 .. n : Taken[k] = k) /\ (\A k \in 1 .. f : fifo[k] = n + k)
    BY <1>2, <2>1 DEF Content
  <2>3. Taken' = Append(Taken, u) /\ Taken \in Seq(Unit)
    <3>1. Taken' = file \o Append(db, u)
      BY <1>1, <1>9 DEF Taken
    <3>2. file \o Append(db, u) = Append(file \o db, u)
      <4>1. file \in Seq(Unit) /\ db \in Seq(Unit) /\ u \in Unit
        BY <1>8, Lengths
      <4>2. QED
        BY <4>1, TakenAppends
    <3>3. QED
      BY <3>1, <3>2, TakenLen DEF Taken
  <2>4. Len(Taken') = n + 1 /\ Taken'[n + 1] = u /\ \A k \in 1 .. n : Taken'[k] = Taken[k]
    BY <1>8, <2>1, <2>3
  <2>5. u = n + 1
    BY <1>3, <1>6, <1>8, <2>2
  <2>6. \A k \in 1 .. n + 1 : Taken'[k] = k
    <3>1. ASSUME NEW k \in 1 .. n + 1 PROVE k \in 1 .. n \/ k = n + 1
      OBVIOUS
    <3>2. QED
      BY <2>2, <2>4, <2>5, <3>1
  <2>7. \A k \in 1 .. f - 1 : fifo'[k] = (n + 1) + k
    <3>1. ASSUME NEW k \in 1 .. f - 1 PROVE fifo'[k] = (n + 1) + k
      <4>1. k + 1 \in 1 .. f
        BY <1>3
      <4>2. fifo'[k] = n + (k + 1)
        BY <1>8, <1>9, <2>2, <4>1
      <4>3. QED
        BY <4>2
    <3>2. QED
      BY <3>1
  <2>8. (n + 1) + (f - 1) = heard'
    BY <1>1, <1>3, <2>2
  <2>9. QED
    BY <1>9, <2>4, <2>6, <2>7, <2>8 DEF Content
<1>12. QED
  BY <1>10, <1>11

\* A batch is saved
LEMMA SaveFlow ==
  ASSUME Codec, RecInv, late <= 2, Flow, Content, Save PROVE Flow' /\ Content'
<1>1. /\ pc = "batch" /\ pc' = pc /\ t' = t - 2 /\ held' = held /\ Len(db) = 2
      /\ db' = << >> /\ fifo' = fifo /\ file' = file \o db /\ heard' = heard
      /\ since' = IF since < Pace THEN since + 1 ELSE since
  BY DEF Save, Tick, Codec
<1>2. PICK f, h, x, y : f = Len(fifo) /\ h = held /\ x = Near /\ y = Near'
  OBVIOUS
<1>3. 2 <= t /\ t < 7
  <2>1. db # << >>
    BY <1>1
  <2>2. QED
    BY <2>1 DEF RecInv, Order, Codec
<1>4. /\ f \in Nat /\ h \in Nat /\ t \in 2 .. 6
      /\ x \in 0 .. 3 /\ y \in 0 .. 3 /\ y <= x + 1
  <2>1. f \in Nat /\ h \in Nat /\ since \in Nat /\ Pace \in Nat /\ t \in Nat
    BY <1>2, Lengths, Constants
  <2>2. x \in 0 .. 3 /\ y \in 0 .. 3 /\ y <= x + 1
    BY <1>1, <1>2, <2>1 DEF Near, Codec
  <2>3. QED
    BY <1>3, <2>1, <2>2
<1>5. PICK q, p : q = t \div 2 /\ p = (t - 2) \div 2
  OBVIOUS
<1>6. q \in Nat /\ p = q - 1
  BY <1>4, <1>5
<1>7. /\ 3 * (f - (2 * q - 2) + 2 - h) + x + (3 * q - 2 + 1) <= 19
      /\ 3 * (f - h) + x + 2 * 2 <= 20 /\ f >= t - 2
  BY <1>1, <1>2, <1>5 DEF Flow, ToRead, Steps, Codec
<1>8. Flow'
  <2>1. /\ 3 * (f - (2 * p - 0) + 2 - h) + y + (3 * p - 0 + 1) <= 19
        /\ 3 * (f - h) + y + 2 * 0 <= 20 /\ f >= (t - 2) - 0 /\ t - 2 < 7
    BY <1>4, <1>6, <1>7
  <2>2. Len(fifo') = f /\ held' = h /\ Near' = y /\ Len(db') = 0 /\ t' = t - 2 /\ pc' = "batch"
    BY <1>1, <1>2
  <2>3. ToRead' = 2 * p - 0 /\ Steps' = 3 * p - 0 + 1
    BY <1>5, <2>2 DEF ToRead, Steps, Codec
  <2>4. QED
    BY <2>1, <2>2, <2>3 DEF Flow, Codec
<1>9. Content'
  <2>1. Taken' = Taken
    BY <1>1, Lengths, ConcatProperties, ConcatEmptySeq DEF Taken
  <2>2. QED
    BY <1>1, <2>1 DEF Content
<1>10. QED
  BY <1>8, <1>9

\* A loop that is never more than two units late (128 ms of sound at 8000
\* samples a second) between two looks at the codec keeps up: the file is the
\* sound from its beginning without a gap, for recordings of any length. The
\* loop reads all the batches it has seen before it looks again, so that the
\* codec must not fill up to the limit meanwhile.
THEOREM NothingIsLost ==
  ASSUME Codec PROVE Spec => []NothingLost
<1>1. Init => RecInv /\ FlowInv
  <2> SUFFICES ASSUME Init PROVE RecInv /\ FlowInv
    OBVIOUS
  <2>1. RecInv
    BY RecInit
  <2>2. /\ Len(fifo) = 0 /\ Len(Taken) = 0 /\ heard = 0 /\ held = 0 /\ Near = 0 /\ pc = "poll"
    BY <2>1, Lengths, TakenLen, EmptySeq DEF Init, Near
  <2>3. Flow /\ Content
    BY <2>2 DEF Flow, Content
  <2>4. QED
    BY <2>1, <2>3 DEF FlowInv
<1>2. RecInv /\ FlowInv /\ [Next]_vars => RecInv' /\ FlowInv'
  <2> SUFFICES ASSUME RecInv, FlowInv, [Next]_vars PROVE RecInv' /\ FlowInv'
    OBVIOUS
  <2>1. CASE UNCHANGED vars
    BY <2>1 DEF vars, codec, loop, clock, RecInv, TypeOK, Order, FlowInv, Flow, Content, Taken,
                ToRead, Steps, Near
  <2>2. CASE Capture
    BY <2>2, CaptureTypes, CaptureFlow
  <2>3. CASE vs1003_record
    <3>1. RecInv'
      BY <2>3, LoopTypes
    <3>2. late' = late
      BY <2>3 DEF vs1003_record, Poll, Close, NoBatch, Overflow, ReadWord, Save, Tick
    <3>3. ASSUME late <= 2 PROVE Flow' /\ Content'
      <4>1. Flow /\ Content
        BY <3>3 DEF FlowInv
      <4>2. CASE Close
        <5>1. pc' = "done" /\ UNCHANGED <<heard, fifo, file, db>>
          BY <4>2 DEF Close, Tick
        <5>2. QED
          BY <4>1, <5>1, SameContent DEF Flow
      <4>3. ~Overflow
        BY <4>1, Lengths DEF Overflow, Flow, Codec
      <4>4. QED
        BY <2>3, <3>3, <4>1, <4>2, <4>3, PollFlow, NoBatchFlow, ReadFlow, SaveFlow
           DEF vs1003_record
    <3>4. QED
      BY <3>1, <3>2, <3>3 DEF FlowInv
  <2>4. QED
    BY <2>1, <2>2, <2>3 DEF Next
<1>3. RecInv /\ FlowInv => NothingLost
  <2> SUFFICES ASSUME RecInv, FlowInv, late <= 2, NEW k \in DOMAIN Taken PROVE Taken[k] = k
    BY DEF NothingLost
  <2>1. Content
    BY DEF FlowInv
  <2>2. DOMAIN Taken = 1 .. Len(Taken)
    BY TakenLen, LenProperties
  <2>3. QED
    BY <2>1, <2>2 DEF Content
<1>4. QED
  BY <1>1, <1>2, <1>3, PTL DEF Spec
==============================================================================
