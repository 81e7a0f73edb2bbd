----------------------------- MODULE SpiBusProofs ------------------------------
(***************************************************************************)
(* What a command on the SPI bus has done when it returns, for any number  *)
(* of commands and users, and wherever players were deleted before.        *)
(*                                                                         *)
(* The inductive invariant says, for every place in a program, what the    *)
(* chip has shifted in, what is in the FIFO and what the command has got   *)
(* so far.  The programs that read or write the codec's registers are      *)
(* frames of thirteen accesses, in which four bytes go out; the converter  *)
(* is read in two rounds of eleven.                                        *)
(***************************************************************************)
EXTENDS DriversProofs

Controls == {"boot", "record", "write", "read"}

\* The bytes of each frame of a command, and how many accesses come before
\* the first one
Frames(c) ==
  IF c.op = "read" THEN << <<VS_READ_COMMAND, c.reg, Filler, Filler>> >>
  ELSE [q \in 1 .. Len(c.writes) |->
          <<VS_WRITE_COMMAND, c.writes[q][1], c.writes[q][2][1], c.writes[q][2][2]>>]
Lead(c) == IF c.op = "boot" THEN 5 ELSE IF c.op = "record" THEN 2 ELSE 0

\* Of the four bytes b, those that are out after r accesses of a frame, and
\* what came in for them
Out(r) == IF r < 4 \/ r = 13 THEN 0 ELSE (r - 3) \div 2
In(r) == IF r < 6 THEN 0 ELSE (r - 4) \div 2

\* The codec is not selected for a command, and none has begun
Rest == xCs \notin softcs /\ shifted = << >>
AtRest == IF device = "codec" THEN Rest ELSE shifted = << >> /\ rxfifo = << >>

\* The codec after r accesses of a frame
InFrame(b, r) == (xCs \in softcs <=> r \in 2 .. 12) /\ shifted = SubSeq(b, 1, Out(r))

\* The first n registers are written, but for those written again
Latest(w, n) ==
  \A k \in 1 .. n : (\A l \in k + 1 .. n : w[l][1] # w[k][1]) => regs[w[k][1]] = w[k][2]

\* The bytes read so far are those of the register, unless a byte of before is
\* in the way
Right(u, n) == \A i \in 3 .. n : got[u][i] = regs[call[u].reg][i - 2]
Reads(u, r) ==
  /\ Len(got[u]) = In(r)
  /\ IF r \in {5, 7, 9, 11}
       THEN /\ rxfifo # << >>
            /\ Len(rxfifo) = 1 =>
                 /\ Right(u, In(r))
                 /\ r >= 9 => rxfifo[1] = regs[call[u].reg][Out(r) - 2]
       ELSE rxfifo = << >> => Right(u, In(r))

\* How far a command to the codec has come
Stage(u, q, r) ==
  LET c == call[u] IN
  /\ InFrame(Frames(c)[q], r)
  /\ c.op = "read" => Reads(u, r)
  /\ c.op # "read" => Latest(c.writes, IF r < 11 THEN q - 1 ELSE q)

Controlling(u) ==
  LET c == call[u] IN
  \/ \E p \in 0 .. Lead(c) - 1 : prog[u] = Left(Program(c), p) /\ Rest
  \/ \E q \in 1 .. Len(Frames(c)) : \E r \in 0 .. 12 :
        prog[u] = Left(Program(c), Lead(c) + 13 * (q - 1) + r) /\ Stage(u, q, r)
  \/ prog[u] = << >> /\ Rest /\ Does(u)

\* A reading of the converter: r accesses of round q are done
Configured(mux) == <<Config(mux), 1, Config(mux), 1>>
Gone(r) == IF r = 10 THEN 4 ELSE IF r = 11 THEN 0 ELSE r \div 2
Back(r) == IF r = 0 THEN 0 ELSE IF r >= 10 THEN 4 ELSE (r - 1) \div 2
Round(u, q, r) ==
  LET mux == call[u].mux IN
  /\ shifted = SubSeq(Configured(mux), 1, Gone(r))
  /\ r \in 1 .. 9 => xCs \in softcs
  /\ IF r \in {2, 4, 6, 8} THEN Len(rxfifo) = 1 ELSE rxfifo = << >>
  /\ Len(got[u]) = 4 * (q - 1) + Back(r)
  /\ q = 2 \/ r = 11 => sample = mux
  /\ q = 2 => /\ r = 2 => rxfifo[1] = 64 + mux
              /\ r = 4 => rxfifo[1] = 96 + mux
              /\ r >= 3 => got[u][5] = 64 + mux
              /\ r >= 5 => got[u][6] = 96 + mux

Measuring(u) ==
  \/ \E q \in 1 .. 2 : \E r \in 0 .. 10 :
        prog[u] = Left(Program(call[u]), 11 * (q - 1) + r) /\ Round(u, q, r)
  \/ prog[u] = << >> /\ shifted = << >> /\ rxfifo = << >> /\ Does(u)

Words == {v \in Seq(Nat) : Len(v) = 2}
Quads == {b \in Seq(Nat) : Len(b) = 4}

\* A command to the registers: what it reads or writes there is
Fit(c) ==
  /\ c.op \in Controls
  /\ IF c.op = "read" THEN c.reg \in Registers
     ELSE /\ c.writes \in Seq(Registers \X Words) /\ Len(c.writes) > 0
          /\ c.op = "write" => Len(c.writes) = 1

Busy(u) ==
  /\ call[u].op \in Plays => Rest /\ device = "codec"
  /\ call[u].op \in Controls => device = "codec" /\ Fit(call[u]) /\ Controlling(u)
  /\ call[u].op = "value" => device = "converter" /\ call[u].mux \in Nat /\ Measuring(u)
  /\ call[u].op \in Plays \cup Controls \cup {"value", "idle"}
  /\ call[u].op = "idle" => call[u] = Idle
  /\ player[u] => call[u].op \in Plays

Sane ==
  /\ device \in {"codec", "converter"}
  /\ regs \in [Registers -> Words] /\ rxfifo \in Seq(Nat) /\ shifted \in Seq(Nat)
  /\ sample \in Nat /\ got \in [Users -> Seq(Nat)] /\ player = [u \in Users |-> player[u]]

DoneInv == Sane /\ (ShellIdle => AtRest) /\ \A u \in Users : Busy(u)

(***************************************************************************)
(* Frames.                                                                 *)
(***************************************************************************)

\* The access r of the frame of four bytes
FrameAcc(b, r) ==
  CASE r \in {1, 3} -> Access("get", 0)
    [] r = 2 -> Access("low", xCs)
    [] r = 4 -> Access("high", xDcs)
    [] r \in {5, 7, 9, 11} -> Access("send", b[Out(r)])
    [] r \in {6, 8, 10, 12} -> Access("receive", 0)
    [] r = 13 -> Access("csn", {})

\* An access that does not select the codec for a command
Calm(a) == a.op \in {"get", "high"} \/ (a.op = "csn" /\ xCs \notin a.arg)

\* A program: a few calm accesses, then the frames F
Framed(P, e, F) ==
  /\ P \in Seq(Acc) /\ e \in Nat /\ Len(F) \in Nat /\ Len(P) = e + 13 * Len(F)
  /\ \A p \in 1 .. e : Calm(P[p])
  /\ \A q \in 1 .. Len(F) :
       F[q] \in Quads /\ \A r \in 1 .. 13 : P[e + 13 * (q - 1) + r] = FrameAcc(F[q], r)

\* A command on the bus is a frame
LEMMA FrameShape ==
  ASSUME NEW b \in Quads
  PROVE  LET s == control_mode_on \o Transfer(b) \o mode_off IN
         s \in Seq(Acc) /\ Len(s) = 13 /\ \A r \in 1 .. 13 : s[r] = FrameAcc(b, r)
<1>1. b \in Seq(Nat) /\ Len(b) = 4
  BY DEF Quads
<1>2. PICK x, y : x = spi_set_cs(xCs, 0) /\ y = spi_set_cs(xDcs, 1)
  OBVIOUS
<1>3. xCs \in Nat /\ xDcs \in Nat /\ 0 \in {0, 1} /\ 1 \in {0, 1}
  BY DEF xCs, xDcs
<1>4. x \in Seq(Acc) /\ Len(x) = 2 /\ x[1] = Access("get", 0) /\ x[2] = Access("low", xCs)
  BY <1>2, <1>3, CsShape
<1>5. y \in Seq(Acc) /\ Len(y) = 2 /\ y[1] = Access("get", 0) /\ y[2] = Access("high", xDcs)
  <2>1. PICK one \in {0, 1} : one = 1 /\ one # 0
    OBVIOUS
  <2>2. y = spi_set_cs(xDcs, one)
    BY <1>2, <2>1
  <2>3. QED
    BY <1>3, <2>1, <2>2, CsShape
<1>6. PICK a : a = x \o y
  OBVIOUS
<1>7. /\ a \in Seq(Acc) /\ Len(a) = 4
      /\ a[1] = x[1] /\ a[2] = x[2] /\ a[3] = y[1] /\ a[4] = y[2]
  <2>1. /\ a \in Seq(Acc) /\ Len(a) = Len(x) + Len(y)
        /\ \A i \in 1 .. Len(x) : a[i] = x[i]
        /\ \A i \in 1 .. Len(y) : a[Len(x) + i] = y[i]
    BY <1>4, <1>5, <1>6, Joined
  <2>2. QED
    BY <1>4, <1>5, <2>1
<1>8. PICK t : t = Transfer(b)
  OBVIOUS
<1>9. /\ t \in Seq(Acc) /\ Len(t) = 8
      /\ \A q \in 1 .. 4 : /\ t[2 * (q - 1) + 1] = Access("send", b[q])
                           /\ t[2 * (q - 1) + 2] = Access("receive", 0)
  <2>1. /\ t \in Seq(Acc) /\ Len(t) = 2 * Len(b)
        /\ \A q \in 1 .. Len(b) : /\ t[2 * (q - 1) + 1] = Access("send", b[q])
                                  /\ t[2 * (q - 1) + 2] = Access("receive", 0)
    BY <1>1, <1>8, TransferShape DEF Harmless
  <2>2. QED
    BY <1>1, <2>1
<1>10. PICK d : d = a \o t
  OBVIOUS
<1>11. /\ d \in Seq(Acc) /\ Len(d) = 12
       /\ \A i \in 1 .. 4 : d[i] = a[i]
       /\ \A i \in 1 .. 8 : d[4 + i] = t[i]
  <2>1. /\ d \in Seq(Acc) /\ Len(d) = Len(a) + Len(t)
        /\ \A i \in 1 .. Len(a) : d[i] = a[i]
        /\ \A i \in 1 .. Len(t) : d[Len(a) + i] = t[i]
    BY <1>7, <1>9, <1>10, Joined
  <2>2. QED
    BY <1>7, <1>9, <2>1
<1>12. PICK c : c = mode_off
  OBVIOUS
<1>13. c \in Seq(Acc) /\ Len(c) = 1 /\ c[1] = Access("csn", {})
  <2>1. Fine(c) /\ Len(c) = 1
    <3>1. {} \in SUBSET Nat /\ xDcs \notin {}
      OBVIOUS
    <3>2. QED
      BY <1>12, <3>1, CsnShape DEF mode_off
  <2>2. c = <<Access("csn", {})>>
    BY <1>12 DEF mode_off, spi_set_csn
  <2>3. QED
    BY <2>1, <2>2 DEF Fine
<1>14. PICK s : s = d \o c
  OBVIOUS
<1>15. /\ s \in Seq(Acc) /\ Len(s) = 13
       /\ \A i \in 1 .. 12 : s[i] = d[i]
       /\ \A i \in 1 .. 1 : s[12 + i] = c[i]
  <2>1. /\ s \in Seq(Acc) /\ Len(s) = Len(d) + Len(c)
        /\ \A i \in 1 .. Len(d) : s[i] = d[i]
        /\ \A i \in 1 .. Len(c) : s[Len(d) + i] = c[i]
    <3>1. d \in Seq(Acc) /\ c \in Seq(Acc) /\ s = d \o c
      BY <1>11, <1>13, <1>14
    <3>2. QED
      BY <3>1, Joined
  <2>2. QED
    BY <1>11, <1>13, <2>1
<1>16. /\ s[1] = Access("get", 0) /\ s[2] = Access("low", xCs)
       /\ s[3] = Access("get", 0) /\ s[4] = Access("high", xDcs)
  BY <1>4, <1>5, <1>7, <1>11, <1>15
<1>17. /\ t[1] = Access("send", b[1]) /\ t[2] = Access("receive", 0)
       /\ t[3] = Access("send", b[2]) /\ t[4] = Access("receive", 0)
       /\ t[5] = Access("send", b[3]) /\ t[6] = Access("receive", 0)
       /\ t[7] = Access("send", b[4]) /\ t[8] = Access("receive", 0)
  BY <1>9
<1>18. \A i \in 1 .. 8 : s[4 + i] = t[i]
  BY <1>11, <1>15
<1>19. /\ s[5] = t[1] /\ s[6] = t[2] /\ s[7] = t[3] /\ s[8] = t[4]
       /\ s[9] = t[5] /\ s[10] = t[6] /\ s[11] = t[7] /\ s[12] = t[8]
  BY <1>18
<1>20. s[13] = Access("csn", {})
  BY <1>13, <1>15
<1>21. Out(5) = 1 /\ Out(7) = 2 /\ Out(9) = 3 /\ Out(11) = 4
  BY DEF Out
<1>22. ASSUME NEW r \in 1 .. 13 PROVE s[r] = FrameAcc(b, r)
  <2>1. r \in 1 .. 4 => s[r] = FrameAcc(b, r)
    BY <1>16 DEF FrameAcc
  <2>2. r \in {5, 7, 9, 11} => s[r] = FrameAcc(b, r)
    BY <1>17, <1>19, <1>21 DEF FrameAcc
  <2>3. r \in {6, 8, 10, 12} => s[r] = FrameAcc(b, r)
    BY <1>17, <1>19 DEF FrameAcc
  <2>4. r = 13 => s[r] = FrameAcc(b, r)
    BY <1>20 DEF FrameAcc
  <2>5. QED
    BY <2>1, <2>2, <2>3, <2>4
<1>23. QED
  BY <1>2, <1>6, <1>8, <1>10, <1>12, <1>14, <1>15, <1>22 DEF control_mode_on

\* Frames behind calm accesses
LEMMA FramedPlus ==
  ASSUME NEW a \in Seq(Acc), NEW P, NEW F, Framed(P, 0, F),
         \A p \in 1 .. Len(a) : Calm(a[p])
  PROVE  Framed(a \o P, Len(a), F)
<1>1. PICK e \in Nat, k \in Nat : e = Len(a) /\ k = Len(F)
  BY LenProperties DEF Framed
<1>2. /\ P \in Seq(Acc) /\ Len(P) = 13 * k
      /\ \A q \in 1 .. k :
           F[q] \in Quads /\ \A r \in 1 .. 13 : P[13 * (q - 1) + r] = FrameAcc(F[q], r)
  BY <1>1 DEF Framed
<1>3. PICK s : s = a \o P
  OBVIOUS
<1>4. /\ s \in Seq(Acc) /\ Len(s) = Len(a) + Len(P)
      /\ \A i \in 1 .. Len(a) : s[i] = a[i]
      /\ \A i \in 1 .. Len(P) : s[Len(a) + i] = P[i]
  BY <1>2, <1>3, Joined
<1>5. \A p \in 1 .. e : Calm(s[p])
  BY <1>1, <1>4
<1>6. ASSUME NEW q \in 1 .. k, NEW r \in 1 .. 13
      PROVE  s[e + 13 * (q - 1) + r] = FrameAcc(F[q], r)
  <2>1. PICK i \in 1 .. Len(P) : i = 13 * (q - 1) + r
    <3>1. 13 * (q - 1) + r \in 1 .. Len(P)
      BY <1>2
    <3>2. QED
      BY <3>1
  <2>2. s[e + i] = P[i] /\ e + i = e + 13 * (q - 1) + r
    BY <1>1, <1>4, <2>1
  <2>3. P[i] = FrameAcc(F[q], r)
    BY <1>2, <2>1
  <2>4. QED
    BY <2>2, <2>3
<1>7. Len(s) = e + 13 * k
  BY <1>1, <1>2, <1>4
<1>8. QED
  BY <1>1, <1>2, <1>3, <1>4, <1>5, <1>6, <1>7 DEF Framed

\* One frame
LEMMA FramedOne ==
  ASSUME NEW b \in Quads
  PROVE  Framed(control_mode_on \o Transfer(b) \o mode_off, 0, <<b>>)
<1>1. PICK s : s = control_mode_on \o Transfer(b) \o mode_off
  OBVIOUS
<1>2. s \in Seq(Acc) /\ Len(s) = 13 /\ \A r \in 1 .. 13 : s[r] = FrameAcc(b, r)
  BY <1>1, FrameShape
<1>3. PICK F : F = <<b>>
  OBVIOUS
<1>4. Len(F) = 1 /\ F[1] = b
  BY <1>3
<1>5. PICK e \in Nat, k \in Nat : e = 0 /\ k = 1
  OBVIOUS
<1>6. ASSUME NEW q \in 1 .. k
      PROVE  F[q] \in Quads /\ \A r \in 1 .. 13 : s[e + 13 * (q - 1) + r] = FrameAcc(F[q], r)
  <2>1. q = 1
    BY <1>5
  <2>2. F[q] = b
    BY <1>4, <2>1
  <2>3. \A r \in 1 .. 13 : e + 13 * (q - 1) + r = r
    BY <1>5, <2>1
  <2>4. QED
    BY <1>2, <2>2, <2>3
<1>7. Len(s) = e + 13 * k /\ Len(F) = k /\ \A p \in 1 .. e : Calm(s[p])
  BY <1>2, <1>4, <1>5
<1>8. Framed(s, e, F)
  BY <1>2, <1>6, <1>7 DEF Framed
<1>9. QED
  BY <1>1, <1>3, <1>5, <1>8

\* The bytes of a write and of a read
LEMMA QuadShape ==
  /\ \A reg \in Registers : <<VS_READ_COMMAND, reg, Filler, Filler>> \in Quads
  /\ \A reg \in Registers : \A v \in Words :
       /\ <<VS_WRITE_COMMAND, reg, v[1], v[2]>> \in Quads
       /\ <<VS_WRITE_COMMAND, reg>> \o v = <<VS_WRITE_COMMAND, reg, v[1], v[2]>>
<1>1. \A reg \in Registers : reg \in Nat
  BY DEF Registers, SCI_MODE, SCI_BASS, SCI_CLOCKF, SCI_AUDATA, SCI_VOL, SCI_AICTRL0, SCI_AICTRL1
<1>2. VS_READ_COMMAND \in Nat /\ VS_WRITE_COMMAND \in Nat /\ Filler \in Nat
  BY DEF VS_READ_COMMAND, VS_WRITE_COMMAND, Filler
<1>3. ASSUME NEW a \in Nat, NEW b \in Nat, NEW c \in Nat, NEW d \in Nat
      PROVE  <<a, b, c, d>> \in Quads
  <2>1. <<a, b, c, d>> \in Seq(Nat) /\ Len(<<a, b, c, d>>) = 4
    OBVIOUS
  <2>2. QED
    BY <2>1 DEF Quads
<1>4. ASSUME NEW reg \in Registers PROVE <<VS_READ_COMMAND, reg, Filler, Filler>> \in Quads
  BY <1>1, <1>2, <1>3
<1>5. ASSUME NEW reg \in Registers, NEW v \in Words
      PROVE  /\ <<VS_WRITE_COMMAND, reg, v[1], v[2]>> \in Quads
             /\ <<VS_WRITE_COMMAND, reg>> \o v = <<VS_WRITE_COMMAND, reg, v[1], v[2]>>
  <2>1. v \in Seq(Nat) /\ Len(v) = 2 /\ v[1] \in Nat /\ v[2] \in Nat
    <3>1. v \in Seq(Nat) /\ Len(v) = 2
      BY DEF Words
    <3>2. 1 \in 1 .. Len(v) /\ 2 \in 1 .. Len(v)
      BY <3>1
    <3>3. QED
      BY <3>1, <3>2, ElementOfSeq
  <2>2. PICK h : h = <<VS_WRITE_COMMAND, reg>>
    OBVIOUS
  <2>3. h \in Seq(Nat) /\ Len(h) = 2 /\ h[1] = VS_WRITE_COMMAND /\ h[2] = reg
    BY <1>1, <1>2, <2>2
  <2>4. PICK s : s = h \o v
    OBVIOUS
  <2>5. s \in Seq(Nat) /\ Len(s) = 4 /\ \A i \in 1 .. 4 : s[i] = IF i <= 2 THEN h[i] ELSE v[i - 2]
    <3>1. s \in Seq(Nat) /\ Len(s) = Len(h) + Len(v)
          /\ \A i \in 1 .. Len(h) + Len(v) : s[i] = IF i <= Len(h) THEN h[i] ELSE v[i - Len(h)]
      BY <2>1, <2>3, <2>4, ConcatProperties
    <3>2. QED
      BY <2>1, <2>3, <3>1
  <2>6. PICK t : t = <<VS_WRITE_COMMAND, reg, v[1], v[2]>>
    OBVIOUS
  <2>7. t \in Quads
    BY <1>1, <1>2, <1>3, <2>1, <2>6
  <2>8. t \in Seq(Nat) /\ Len(t) = 4
    BY <2>7 DEF Quads
  <2>9. t[1] = VS_WRITE_COMMAND /\ t[2] = reg /\ t[3] = v[1] /\ t[4] = v[2]
    BY <2>6
  <2>10. s[1] = t[1] /\ s[2] = t[2] /\ s[3] = t[3] /\ s[4] = t[4]
    BY <2>3, <2>5, <2>9
  <2>11. \A i \in 1 .. Len(s) : s[i] = t[i]
    <3>1. \A i \in 1 .. 4 : i = 1 \/ i = 2 \/ i = 3 \/ i = 4
      OBVIOUS
    <3>2. QED
      BY <2>5, <2>10, <3>1
  <2>12. s = t
    BY <2>5, <2>8, <2>11, SeqEqual
  <2>13. QED
    BY <2>2, <2>4, <2>6, <2>7, <2>12
<1>6. QED
  BY <1>4, <1>5

\* A register is written in one frame, and read in one
LEMMA OneFrame ==
  /\ \A reg \in Registers :
       Framed(read_register(reg), 0, << <<VS_READ_COMMAND, reg, Filler, Filler>> >>)
  /\ \A reg \in Registers : \A v \in Words :
       Framed(write_register(reg, v), 0, << <<VS_WRITE_COMMAND, reg, v[1], v[2]>> >>)
<1>1. ASSUME NEW reg \in Registers
      PROVE  Framed(read_register(reg), 0, << <<VS_READ_COMMAND, reg, Filler, Filler>> >>)
  <2>1. PICK b \in Quads : b = <<VS_READ_COMMAND, reg, Filler, Filler>>
    BY QuadShape
  <2>2. Framed(control_mode_on \o Transfer(b) \o mode_off, 0, <<b>>)
    BY FramedOne
  <2>3. read_register(reg) = control_mode_on \o Transfer(b) \o mode_off
    BY <2>1 DEF read_register
  <2>4. QED
    BY <2>1, <2>2, <2>3
<1>2. ASSUME NEW reg \in Registers, NEW v \in Words
      PROVE  Framed(write_register(reg, v), 0, << <<VS_WRITE_COMMAND, reg, v[1], v[2]>> >>)
  <2>1. PICK b \in Quads : b = <<VS_WRITE_COMMAND, reg, v[1], v[2]>>
                           /\ <<VS_WRITE_COMMAND, reg>> \o v = b
    BY QuadShape
  <2>2. Framed(control_mode_on \o Transfer(b) \o mode_off, 0, <<b>>)
    BY FramedOne
  <2>3. write_register(reg, v) = control_mode_on \o Transfer(b) \o mode_off
    BY <2>1 DEF write_register
  <2>4. QED
    BY <2>1, <2>2, <2>3
<1>3. QED
  BY <1>1, <1>2

\* The frames of a list of registers
Writes(w) == [q \in 1 .. Len(w) |-> <<VS_WRITE_COMMAND, w[q][1], w[q][2][1], w[q][2][2]>>]

LEMMA WritesShape ==
  ASSUME NEW w \in Seq(Registers \X Words)
  PROVE  /\ Writes(w) \in Seq(Quads) /\ Len(Writes(w)) = Len(w) /\ Len(w) \in Nat
         /\ DOMAIN w = 1 .. Len(w)
         /\ \A q \in 1 .. Len(w) :
              /\ w[q][1] \in Registers /\ w[q][2] \in Words
              /\ Writes(w)[q] = <<VS_WRITE_COMMAND, w[q][1], w[q][2][1], w[q][2][2]>>
<1>1. PICK k \in Nat : k = Len(w)
  BY LenProperties
<1>2. ASSUME NEW q \in 1 .. k PROVE w[q][1] \in Registers /\ w[q][2] \in Words
  <2>1. w[q] \in Registers \X Words
    BY <1>1, ElementOfSeq
  <2>2. QED
    BY <2>1
<1>3. PICK F : F = Writes(w)
  OBVIOUS
<1>4. F = [q \in 1 .. k |-> <<VS_WRITE_COMMAND, w[q][1], w[q][2][1], w[q][2][2]>>]
  BY <1>1, <1>3 DEF Writes
<1>5. \A q \in 1 .. k : F[q] = <<VS_WRITE_COMMAND, w[q][1], w[q][2][1], w[q][2][2]>>
  BY <1>4
<1>6. \A q \in 1 .. k : F[q] \in Quads
  BY <1>2, <1>5, QuadShape
<1>7. F \in [1 .. k -> Quads]
  BY <1>4, <1>6
<1>8. F \in Seq(Quads)
  BY <1>7, SeqDef
<1>9. Len(F) = k
  BY <1>7, <1>8, LenProperties
<1>10. DOMAIN w = 1 .. k
  BY <1>1, LenProperties
<1>11. QED
  BY <1>1, <1>2, <1>3, <1>5, <1>8, <1>9, <1>10

\* Registers written one after the other
LEMMA SetupFramed ==
  ASSUME NEW w \in Seq(Registers \X Words) PROVE Framed(Setup(w), 0, Writes(w))
<1>1. PICK k \in Nat : k = Len(w)
  BY LenProperties
<1>2. PICK F : F = Writes(w)
  OBVIOUS
<1>3. /\ Len(F) = k /\ DOMAIN w = 1 .. k
      /\ \A q \in 1 .. k :
           /\ w[q][1] \in Registers /\ w[q][2] \in Words
           /\ F[q] = <<VS_WRITE_COMMAND, w[q][1], w[q][2][1], w[q][2][2]>>
  BY <1>1, <1>2, WritesShape
<1>4. PICK round : round = [q \in 1 .. k |-> write_register(w[q][1], w[q][2])]
  OBVIOUS
<1>5. ASSUME NEW q \in 1 .. k
      PROVE  /\ F[q] \in Quads /\ round[q] \in Seq(Acc) /\ Len(round[q]) = 13
             /\ \A r \in 1 .. 13 : round[q][r] = FrameAcc(F[q], r)
  <2>1. PICK b \in Quads : /\ b = <<VS_WRITE_COMMAND, w[q][1], w[q][2][1], w[q][2][2]>>
                          /\ <<VS_WRITE_COMMAND, w[q][1]>> \o w[q][2] = b
    <3>1. PICK reg \in Registers : reg = w[q][1]
      BY <1>3
    <3>2. PICK v \in Words : v = w[q][2]
      BY <1>3
    <3>3. PICK d \in Quads : /\ d = <<VS_WRITE_COMMAND, reg, v[1], v[2]>>
                            /\ <<VS_WRITE_COMMAND, reg>> \o v = d
      BY QuadShape
    <3>4. QED
      BY <3>1, <3>2, <3>3
  <2>2. PICK s : s = control_mode_on \o Transfer(b) \o mode_off
    OBVIOUS
  <2>3. s \in Seq(Acc) /\ Len(s) = 13 /\ \A r \in 1 .. 13 : s[r] = FrameAcc(b, r)
    BY <2>2, FrameShape
  <2>4. write_register(w[q][1], w[q][2]) = s
    BY <2>1, <2>2 DEF write_register
  <2>5. round[q] = s
    BY <1>4, <2>4
  <2>6. F[q] = b
    BY <1>3, <2>1
  <2>7. QED
    BY <2>3, <2>5, <2>6
<1>6. PICK n \in Nat \ {0} : n = 13
  OBVIOUS
<1>7. Len(write_register(0, <<0, 0>>)) = n
  <2>1. PICK value \in Seq(Nat), reg \in Nat : value = <<0, 0>> /\ Len(value) = 2 /\ reg = 0
    <3>1. <<0, 0>> \in Seq(Nat) /\ Len(<<0, 0>>) = 2 /\ 0 \in Nat
      OBVIOUS
    <3>2. QED
      BY <3>1
  <2>2. Len(write_register(reg, value)) = 13
    BY <2>1, RegisterShape
  <2>3. QED
    BY <1>6, <2>1, <2>2
<1>8. PICK s : s = Setup(w)
  OBVIOUS
<1>9. s = Rounds(n, round)
  BY <1>3, <1>4, <1>7, <1>8 DEF Setup
<1>10. Len(round) = k
  <2>1. round \in [1 .. k -> Seq(Acc)]
    BY <1>4, <1>5
  <2>2. round \in Seq(Seq(Acc))
    BY <2>1, SeqDef
  <2>3. QED
    BY <2>1, <2>2, LenProperties
<1>11. Laid(n, k, round, s)
  <2>1. Even(n, k, round)
    BY <1>5, <1>6, <1>10 DEF Even
  <2>2. QED
    BY <1>9, <2>1, RoundsShape
<1>12. /\ s \in Seq(Acc) /\ Len(s) = 13 * k
       /\ \A q \in 1 .. k : \A r \in 1 .. 13 : s[Nth(n, q, r)] = round[q][r]
  BY <1>6, <1>11 DEF Laid
<1>13. PICK e \in Nat : e = 0
  OBVIOUS
<1>14. ASSUME NEW q \in 1 .. k, NEW r \in 1 .. 13
       PROVE  s[e + 13 * (q - 1) + r] = FrameAcc(F[q], r)
  <2>1. Nth(n, q, r) = e + 13 * (q - 1) + r
    BY <1>6, <1>13 DEF Nth
  <2>2. s[Nth(n, q, r)] = FrameAcc(F[q], r)
    <3>1. s[Nth(n, q, r)] = round[q][r]
      BY <1>12
    <3>2. round[q][r] = FrameAcc(F[q], r)
      BY <1>5
    <3>3. QED
      BY <3>1, <3>2
  <2>3. QED
    BY <2>1, <2>2
<1>15. Len(s) = e + 13 * k /\ \A p \in 1 .. e : Calm(s[p])
  BY <1>12, <1>13
<1>16. Framed(s, e, F)
  BY <1>3, <1>5, <1>12, <1>14, <1>15 DEF Framed
<1>17. QED
  BY <1>2, <1>8, <1>13, <1>16

\* The codec is set up by calm accesses, and frames
LEMMA InitFramed ==
  ASSUME NEW w \in Seq(Registers \X Words)
  PROVE  /\ Framed(play_mode_init(w), 5, Writes(w))
         /\ Framed(record_mode_init(w), 2, Writes(w))
<1>1. PICK a, b, c, d : a = spi_set_cs(xCs, 1) /\ b = spi_set_cs(xDcs, 1)
                        /\ c = spi_set_csn({}) /\ d = Setup(w)
  OBVIOUS
<1>2. PICK one \in {0, 1} : one = 1 /\ one # 0
  OBVIOUS
<1>3. xCs \in Nat /\ xDcs \in Nat
  BY DEF xCs, xDcs
<1>4. Calm(Access("get", 0)) /\ \A cs : Calm(Access("high", cs))
  BY DEF Calm, Access
<1>5. a \in Seq(Acc) /\ Len(a) = 2 /\ Calm(a[1]) /\ Calm(a[2])
  <2>1. a = spi_set_cs(xCs, one)
    BY <1>1, <1>2
  <2>2. a \in Seq(Acc) /\ Len(a) = 2 /\ a[1] = Access("get", 0) /\ a[2] = Access("high", xCs)
    BY <1>2, <1>3, <2>1, CsShape
  <2>3. QED
    BY <1>4, <2>2
<1>6. b \in Seq(Acc) /\ Len(b) = 2 /\ Calm(b[1]) /\ Calm(b[2])
  <2>1. b = spi_set_cs(xDcs, one)
    BY <1>1, <1>2
  <2>2. b \in Seq(Acc) /\ Len(b) = 2 /\ b[1] = Access("get", 0) /\ b[2] = Access("high", xDcs)
    BY <1>2, <1>3, <2>1, CsShape
  <2>3. QED
    BY <1>4, <2>2
<1>7. c \in Seq(Acc) /\ Len(c) = 1 /\ Calm(c[1])
  <2>1. Fine(c) /\ Len(c) = 1
    <3>1. {} \in SUBSET Nat /\ xDcs \notin {}
      OBVIOUS
    <3>2. QED
      BY <1>1, <3>1, CsnShape
  <2>2. c = <<Access("csn", {})>>
    BY <1>1 DEF spi_set_csn
  <2>3. c[1] = Access("csn", {})
    BY <2>2
  <2>4. Access("csn", {}).op = "csn" /\ Access("csn", {}).arg = {}
    BY DEF Access
  <2>5. Calm(c[1])
    BY <2>3, <2>4 DEF Calm
  <2>6. QED
    BY <2>1, <2>5 DEF Fine
<1>8. PICK e, f, g : e = a \o b /\ f = e \o c /\ g = c \o c
  OBVIOUS
<1>9. e \in Seq(Acc) /\ Len(e) = 4 /\ \A p \in 1 .. 4 : Calm(e[p])
  <2>1. /\ e \in Seq(Acc) /\ Len(e) = Len(a) + Len(b)
        /\ \A i \in 1 .. Len(a) : e[i] = a[i]
        /\ \A i \in 1 .. Len(b) : e[Len(a) + i] = b[i]
    BY <1>5, <1>6, <1>8, Joined
  <2>2. e[1] = a[1] /\ e[2] = a[2] /\ e[3] = b[1] /\ e[4] = b[2]
    BY <1>5, <1>6, <2>1
  <2>3. \A p \in 1 .. 4 : p = 1 \/ p = 2 \/ p = 3 \/ p = 4
    OBVIOUS
  <2>4. Len(e) = 4
    BY <1>5, <1>6, <2>1
  <2>5. QED
    BY <1>5, <1>6, <2>1, <2>2, <2>3, <2>4
<1>10. f \in Seq(Acc) /\ Len(f) = 5 /\ \A p \in 1 .. 5 : Calm(f[p])
  <2>1. /\ f \in Seq(Acc) /\ Len(f) = Len(e) + Len(c)
        /\ \A i \in 1 .. Len(e) : f[i] = e[i]
        /\ \A i \in 1 .. Len(c) : f[Len(e) + i] = c[i]
    <3>1. e \in Seq(Acc) /\ c \in Seq(Acc) /\ f = e \o c
      BY <1>7, <1>8, <1>9
    <3>2. QED
      BY <3>1, Joined
  <2>2. f[5] = c[1] /\ \A p \in 1 .. 4 : f[p] = e[p]
    BY <1>7, <1>9, <2>1
  <2>3. \A p \in 1 .. 5 : p \in 1 .. 4 \/ p = 5
    OBVIOUS
  <2>4. Len(f) = 5
    BY <1>7, <1>9, <2>1
  <2>5. QED
    BY <1>7, <1>9, <2>1, <2>2, <2>3, <2>4
<1>11. g \in Seq(Acc) /\ Len(g) = 2 /\ \A p \in 1 .. 2 : Calm(g[p])
  <2>1. /\ g \in Seq(Acc) /\ Len(g) = Len(c) + Len(c)
        /\ \A i \in 1 .. Len(c) : g[i] = c[i]
        /\ \A i \in 1 .. Len(c) : g[Len(c) + i] = c[i]
    BY <1>7, <1>8, Joined
  <2>2. g[1] = c[1] /\ g[2] = c[1]
    BY <1>7, <2>1
  <2>3. \A p \in 1 .. 2 : p = 1 \/ p = 2
    OBVIOUS
  <2>4. Len(g) = 2
    BY <1>7, <2>1
  <2>5. QED
    BY <1>7, <2>1, <2>2, <2>3, <2>4
<1>12. PICK F : F = Writes(w)
  OBVIOUS
<1>13. Framed(d, 0, F)
  BY <1>1, <1>12, SetupFramed
<1>14. Framed(f \o d, 5, F)
  <2>1. Framed(f \o d, Len(f), F)
    BY <1>10, <1>13, FramedPlus
  <2>2. QED
    BY <1>10, <2>1
<1>15. Framed(g \o d, 2, F)
  <2>1. Framed(g \o d, Len(g), F)
    BY <1>11, <1>13, FramedPlus
  <2>2. QED
    BY <1>11, <2>1
<1>16. play_mode_init(w) = f \o d /\ record_mode_init(w) = g \o d
  BY <1>1, <1>8 DEF play_mode_init, record_mode_init
<1>17. QED
  BY <1>12, <1>14, <1>15, <1>16

\* The programs of the commands to the registers
LEMMA ProgramFramed ==
  ASSUME NEW c, Fit(c) PROVE Framed(Program(c), Lead(c), Frames(c)) /\ Len(Frames(c)) > 0
<1>1. PICK P, F : P = Program(c) /\ F = Frames(c)
  OBVIOUS
<1>2. CASE c.op = "read"
  <2>1. c.reg \in Registers
    BY <1>2 DEF Fit
  <2>2. P = read_register(c.reg) /\ Lead(c) = 0
    BY <1>1, <1>2 DEF Program, Lead
  <2>3. PICK b : b = <<VS_READ_COMMAND, c.reg, Filler, Filler>>
    OBVIOUS
  <2>4. F = <<b>>
    BY <1>1, <1>2, <2>3 DEF Frames
  <2>5. Framed(P, 0, <<b>>)
    BY <2>1, <2>2, <2>3, OneFrame
  <2>6. Len(<<b>>) = 1
    OBVIOUS
  <2>7. QED
    BY <1>1, <2>2, <2>4, <2>5, <2>6
<1>3. CASE c.op # "read"
  <2>1. PICK w : w = c.writes
    OBVIOUS
  <2>2. w \in Seq(Registers \X Words) /\ Len(w) > 0
    BY <1>3, <2>1 DEF Fit
  <2>3. F = Writes(w)
    BY <1>1, <1>3, <2>1 DEF Frames, Writes
  <2>4. Len(F) = Len(w)
    BY <2>2, <2>3, WritesShape
  <2>5. CASE c.op = "boot"
    <3>1. P = play_mode_init(w) /\ Lead(c) = 5
      BY <1>1, <2>1, <2>5 DEF Program, Lead
    <3>2. QED
      BY <1>1, <2>2, <2>3, <2>4, <3>1, InitFramed
  <2>6. CASE c.op = "record"
    <3>1. P = record_mode_init(w) /\ Lead(c) = 2
      BY <1>1, <2>1, <2>6 DEF Program, Lead
    <3>2. QED
      BY <1>1, <2>2, <2>3, <2>4, <3>1, InitFramed
  <2>7. CASE c.op = "write"
    <3>1. P = write_register(w[1][1], w[1][2]) /\ Lead(c) = 0
      BY <1>1, <2>1, <2>7 DEF Program, Lead
    <3>2. Len(w) = 1 /\ 1 \in 1 .. Len(w)
      BY <2>1, <2>7 DEF Fit
    <3>3. PICK b : b = <<VS_WRITE_COMMAND, w[1][1], w[1][2][1], w[1][2][2]>>
      OBVIOUS
    <3>4. w[1][1] \in Registers /\ w[1][2] \in Words /\ F[1] = b /\ F \in Seq(Quads)
      BY <2>2, <2>3, <3>2, <3>3, WritesShape
    <3>5. Framed(P, 0, <<b>>)
      BY <3>1, <3>3, <3>4, OneFrame
    <3>6. b \in Quads
      BY <3>3, <3>4, QuadShape
    <3>7. PICK G : G = <<b>>
      OBVIOUS
    <3>8. G \in Seq(Quads) /\ Len(G) = 1 /\ G[1] = b
      BY <3>6, <3>7
    <3>9. \A i \in 1 .. Len(G) : G[i] = F[i]
      <4>1. \A i \in 1 .. 1 : i = 1
        OBVIOUS
      <4>2. QED
        BY <3>4, <3>8, <4>1
    <3>10. G = F
      BY <2>4, <3>2, <3>4, <3>8, <3>9, SeqEqual
    <3>11. QED
      BY <1>1, <2>4, <3>1, <3>2, <3>5, <3>7, <3>10
  <2>8. c.op \in {"boot", "record", "write"}
    BY <1>3 DEF Fit, Controls
  <2>9. QED
    BY <2>5, <2>6, <2>7, <2>8
<1>4. QED
  BY <1>2, <1>3

\* A register of the codec and what to write to it
LEMMA OneWrite ==
  ASSUME NEW r \in Registers, NEW h \in Nat, NEW l \in Nat
  PROVE  <<r, <<h, l>>>> \in Registers \X Words
<1>1. PICK v : v = <<h, l>>
  OBVIOUS
<1>2. v \in Seq(Nat) /\ Len(v) = 2
  BY <1>1
<1>3. v \in Words
  BY <1>2 DEF Words
<1>4. QED
  BY <1>1, <1>3

LEMMA ListsFit == Boot \in Seq(Registers \X Words) /\ Record \in Seq(Registers \X Words)
                  /\ Len(Boot) > 0 /\ Len(Record) > 0
<1>1. /\ SCI_MODE \in Registers /\ SCI_BASS \in Registers /\ SCI_CLOCKF \in Registers
      /\ SCI_AUDATA \in Registers /\ SCI_VOL \in Registers /\ SCI_AICTRL0 \in Registers
      /\ SCI_AICTRL1 \in Registers
  BY DEF Registers
<1>2. PICK S : S = Registers \X Words
  OBVIOUS
<1>3. Boot \in Seq(S) /\ Len(Boot) > 0
  <2>1. PICK a, b, c, d, e, f, g :
          /\ a = <<SCI_VOL, <<255, 255>>>> /\ b = <<SCI_AUDATA, <<0, 10>>>>
          /\ c = <<SCI_VOL, <<254, 254>>>> /\ d = <<SCI_AUDATA, <<172, 69>>>>
          /\ e = <<SCI_VOL, <<32, 32>>>> /\ f = <<SCI_MODE, <<8, 4>>>>
          /\ g = <<SCI_CLOCKF, <<184, 0>>>>
    OBVIOUS
  <2>2. a \in S /\ b \in S /\ c \in S /\ d \in S
    BY <1>1, <1>2, <2>1, OneWrite
  <2>3. e \in S /\ f \in S /\ g \in S
    BY <1>1, <1>2, <2>1, OneWrite
  <2>4. <<a, b, c, d, e, f, g>> \in Seq(S) /\ Len(<<a, b, c, d, e, f, g>>) = 7
    BY <2>2, <2>3
  <2>5. Boot = <<a, b, c, d, e, f, g>>
    BY <2>1 DEF Boot
  <2>6. QED
    BY <2>4, <2>5
<1>4. Record \in Seq(S) /\ Len(Record) > 0
  <2>1. PICK a, b, c, d, e, f :
          /\ a = <<SCI_BASS, <<0, 0>>>> /\ b = <<SCI_CLOCKF, <<68, 48>>>>
          /\ c = <<SCI_AICTRL0, <<0, 12>>>> /\ d = <<SCI_AICTRL1, <<4, 0>>>>
          /\ e = <<SCI_MODE, <<56, 4>>>> /\ f = <<SCI_VOL, <<254, 254>>>>
    OBVIOUS
  <2>2. a \in S /\ b \in S /\ c \in S /\ d \in S
    BY <1>1, <1>2, <2>1, OneWrite
  <2>3. e \in S /\ f \in S
    BY <1>1, <1>2, <2>1, OneWrite
  <2>4. <<a, b, c, d, e, f>> \in Seq(S) /\ Len(<<a, b, c, d, e, f>>) = 6
    BY <2>2, <2>3
  <2>5. Record = <<a, b, c, d, e, f>>
    BY <2>1 DEF Record
  <2>6. QED
    BY <2>4, <2>5
<1>5. QED
  BY <1>2, <1>3, <1>4

\* The commands that are issued
LEMMA IssuedFit ==
  ASSUME NEW c \in Commands, device \in {"codec", "converter"}
  PROVE  \/ device = "codec" /\ c.op \in Plays
         \/ device = "codec" /\ c.op \in Controls /\ Fit(c)
         \/ device = "converter" /\ c.op = "value" /\ c.mux \in Nat
<1>1. CASE c \in ConverterCommands /\ device # "codec"
  <2>1. PICK m \in Inputs : c = [op |-> "value", mux |-> m]
    BY <1>1 DEF ConverterCommands
  <2>2. m \in Nat
    BY SpiAssumption
  <2>3. QED
    BY <1>1, <2>1, <2>2
<1>2. CASE device = "codec" /\ c = [op |-> "boot", writes |-> Boot]
  <2>1. c.op = "boot" /\ c.writes = Boot
    BY <1>2
  <2>2. QED
    BY <1>2, <2>1, ListsFit DEF Fit, Controls
<1>3. CASE device = "codec" /\ c = [op |-> "record", writes |-> Record]
  <2>1. c.op = "record" /\ c.writes = Record
    BY <1>3
  <2>2. QED
    BY <1>3, <2>1, ListsFit DEF Fit, Controls
<1>4. CASE device = "codec" /\ \E vol \in {7} :
             c = [op |-> "write", writes |-> << <<SCI_VOL, <<vol, vol>>>> >>]
  <2>1. PICK vol \in {7} : c = [op |-> "write", writes |-> << <<SCI_VOL, <<vol, vol>>>> >>]
    BY <1>4
  <2>2. PICK x \in Registers \X Words : x = <<SCI_VOL, <<vol, vol>>>>
    <3>1. SCI_VOL \in Registers /\ vol \in Nat
      BY DEF Registers
    <3>2. QED
      BY <3>1, OneWrite
  <2>3. PICK w : w = <<x>>
    OBVIOUS
  <2>4. w \in Seq(Registers \X Words) /\ Len(w) = 1
    BY <2>3
  <2>5. c.op = "write" /\ c.writes = w
    BY <2>1, <2>2, <2>3
  <2>6. Len(w) > 0
    BY <2>4
  <2>7. "write" \in Controls
    BY DEF Controls
  <2>8. Fit(c)
    BY <2>4, <2>5, <2>6, <2>7 DEF Fit
  <2>9. QED
    BY <1>4, <2>5, <2>7, <2>8
<1>5. CASE device = "codec" /\ \E r \in {SCI_VOL} : c = [op |-> "read", reg |-> r]
  <2>1. c.op = "read" /\ c.reg = SCI_VOL /\ SCI_VOL \in Registers
    BY <1>5 DEF Registers
  <2>2. QED
    BY <1>5, <2>1 DEF Fit, Controls
<1>6. CASE device = "codec" /\ \E n \in Chunks :
             \/ c = [op |-> "play", data |-> Chunk(calls, n)]
             \/ c = [op |-> "play_sync", data |-> Chunk(calls, n)]
  BY <1>6 DEF Plays
<1>7. QED
  BY <1>1, <1>2, <1>3, <1>4, <1>5, <1>6 DEF Commands, CodecCommands

(***************************************************************************)
(* What a command has done: the positions in its program.                  *)
(***************************************************************************)

\* The next access is one of those before the frames, or access r of frame q
InLead(u, p) ==
  LET c == call[u] IN
  /\ prog'[u] = Left(Program(c), p) /\ 1 <= p /\ p <= Lead(c) /\ Rest /\ Calm(prog[u][1])
AtFrame(u, q, r) ==
  LET c == call[u] IN
  /\ prog'[u] = Left(Program(c), Lead(c) + 13 * (q - 1) + r)
  /\ Stage(u, q, r - 1) /\ prog[u][1] = FrameAcc(Frames(c)[q], r) /\ Frames(c)[q] \in Quads

\* How a command to the registers goes on
LEMMA ControlNext ==
  ASSUME HearInv, NEW u \in Users, NEW op, Advance(u, op), Fit(call[u]), Controlling(u)
  PROVE  \/ \E p \in Nat : InLead(u, p)
         \/ \E q \in 1 .. Len(Frames(call[u])) : \E r \in 1 .. 13 : AtFrame(u, q, r)
<1>1. PICK c, P, F : c = call[u] /\ P = Program(c) /\ F = Frames(c)
  OBVIOUS
<1>2. PICK e : e = Lead(c)
  OBVIOUS
<1>3. Framed(P, e, F) /\ Len(F) > 0
  BY <1>1, <1>2, ProgramFramed
<1>4. PICK k \in Nat : k = Len(F) /\ k > 0
  BY <1>3 DEF Framed
<1>5. /\ P \in Seq(Acc) /\ e \in Nat /\ Len(P) = e + 13 * k
      /\ \A p \in 1 .. e : Calm(P[p])
      /\ \A q \in 1 .. k :
           F[q] \in Quads /\ \A r \in 1 .. 13 : P[e + 13 * (q - 1) + r] = FrameAcc(F[q], r)
  BY <1>3, <1>4 DEF Framed
<1>6. prog[u] # << >> /\ prog'[u] = Tail(prog[u]) /\ Head(prog[u]) = prog[u][1]
  BY Stepping
<1>7. ASSUME NEW p \in 0 .. Len(P) - 1, prog[u] = Left(P, p)
      PROVE  prog[u][1] = P[p + 1] /\ prog'[u] = Left(P, p + 1)
  BY <1>5, <1>6, <1>7, LeftOn
<1>8. CASE \E p \in 0 .. e - 1 : prog[u] = Left(P, p) /\ Rest
  <2>1. PICK p \in 0 .. e - 1 : prog[u] = Left(P, p) /\ Rest
    BY <1>8
  <2>2. p \in 0 .. Len(P) - 1
    BY <1>4, <1>5
  <2>3. prog[u][1] = P[p + 1] /\ prog'[u] = Left(P, p + 1)
    BY <1>7, <2>1, <2>2
  <2>4. p + 1 \in 1 .. e /\ p + 1 \in Nat /\ p + 1 <= e /\ 1 <= p + 1
    BY <1>5
  <2>5. InLead(u, p + 1)
    BY <1>1, <1>2, <1>5, <2>1, <2>3, <2>4 DEF InLead
  <2>6. QED
    BY <2>4, <2>5
<1>9. CASE \E q \in 1 .. k : \E r \in 0 .. 12 :
             prog[u] = Left(P, e + 13 * (q - 1) + r) /\ Stage(u, q, r)
  <2>1. PICK q \in 1 .. k : \E r \in 0 .. 12 :
          prog[u] = Left(P, e + 13 * (q - 1) + r) /\ Stage(u, q, r)
    BY <1>9
  <2>2. PICK r \in 0 .. 12 : prog[u] = Left(P, e + 13 * (q - 1) + r) /\ Stage(u, q, r)
    BY <2>1
  <2>3. PICK p \in 0 .. Len(P) - 1 : p = e + 13 * (q - 1) + r
    <3>1. e + 13 * (q - 1) + r \in 0 .. Len(P) - 1
      BY <1>4, <1>5
    <3>2. QED
      BY <3>1
  <2>4. PICK s \in 1 .. 13 : s = r + 1 /\ s - 1 = r
    <3>1. r + 1 \in 1 .. 13 /\ (r + 1) - 1 = r
      OBVIOUS
    <3>2. QED
      BY <3>1
  <2>5. p + 1 = e + 13 * (q - 1) + s
    BY <1>5, <2>3, <2>4
  <2>6. prog[u][1] = P[p + 1] /\ prog'[u] = Left(P, p + 1)
    BY <1>7, <2>2, <2>3
  <2>7. P[e + 13 * (q - 1) + s] = FrameAcc(F[q], s) /\ F[q] \in Quads
    BY <1>5
  <2>8. AtFrame(u, q, s)
    BY <1>1, <1>2, <2>2, <2>4, <2>5, <2>6, <2>7 DEF AtFrame
  <2>9. QED
    BY <1>1, <1>4, <2>8
<1>10. QED
  BY <1>1, <1>2, <1>4, <1>6, <1>8, <1>9 DEF Controlling

\* And where it comes to, once it is known what the access did
LEMMA LeadDone ==
  ASSUME NEW u, NEW p \in Nat, Fit(call[u]), InLead(u, p), call'[u] = call[u], Rest'
  PROVE  Controlling(u)'
<1>1. PICK c, P, F : c = call[u] /\ P = Program(c) /\ F = Frames(c)
  OBVIOUS
<1>2. PICK e : e = Lead(c)
  OBVIOUS
<1>3. Framed(P, e, F) /\ Len(F) > 0
  BY <1>1, <1>2, ProgramFramed
<1>4. PICK k \in Nat : k = Len(F) /\ k > 0 /\ e \in Nat
  BY <1>3 DEF Framed
<1>5. prog'[u] = Left(P, p) /\ p <= e /\ 1 <= p
  BY <1>1, <1>2 DEF InLead
<1>a. c.op # "read"
  BY <1>1, <1>2, <1>4, <1>5 DEF Lead
<1>6. CASE p < e
  <2>1. p \in 0 .. e - 1
    BY <1>4, <1>6
  <2>2. QED
    BY <1>1, <1>2, <1>5, <2>1 DEF Controlling
<1>7. CASE p = e
  <2>1. PICK q \in 1 .. k, r \in 0 .. 12 : q = 1 /\ r = 0
    BY <1>4
  <2>2. e + 13 * (q - 1) + r = e
    BY <1>4, <2>1
  <2>3. prog'[u] = Left(P, e + 13 * (q - 1) + r)
    BY <1>5, <1>7, <2>2
  <2>4. Latest(c.writes, q - 1)'
    <3>1. 1 .. q - 1 = {}
      BY <2>1
    <3>2. QED
      BY <3>1 DEF Latest
  <2>5. InFrame(F[q], r)'
    <3>1. SubSeq(F[q], 1, 0) = << >>
      OBVIOUS
    <3>2. Out(r) = 0
      BY <2>1 DEF Out
    <3>3. QED
      BY <2>1, <3>1, <3>2 DEF InFrame, Rest
  <2>6. Stage(u, q, r)'
    BY <1>1, <1>a, <2>1, <2>4, <2>5 DEF Stage
  <2>7. QED
    BY <1>1, <1>2, <1>4, <2>3, <2>6 DEF Controlling
<1>8. QED
  BY <1>4, <1>5, <1>6, <1>7

\* A register read byte by byte
LEMMA ReadWhole ==
  ASSUME NEW u \in Users, NEW g \in Seq(Nat), NEW v \in Words,
         g[3] = v[1], g[4] = v[2]
  PROVE  <<g[3], g[4]>> = v
<1>1. v \in Seq(Nat) /\ Len(v) = 2
  BY DEF Words
<1>2. v[1] \in Nat /\ v[2] \in Nat
  <2>1. 1 \in 1 .. Len(v) /\ 2 \in 1 .. Len(v)
    BY <1>1
  <2>2. QED
    BY <1>1, <2>1, ElementOfSeq
<1>3. PICK s : s = <<g[3], g[4]>>
  OBVIOUS
<1>4. s = <<v[1], v[2]>>
  BY <1>3
<1>5. s \in Seq(Nat) /\ Len(s) = 2 /\ s[1] = v[1] /\ s[2] = v[2]
  BY <1>2, <1>4
<1>6. \A i \in 1 .. Len(s) : s[i] = v[i]
  <2>1. \A i \in 1 .. 2 : i = 1 \/ i = 2
    OBVIOUS
  <2>2. QED
    BY <1>5, <2>1
<1>7. s = v
  BY <1>1, <1>5, <1>6, SeqEqual
<1>8. QED
  BY <1>3, <1>7

\* What the last frame has done
FrameLast ==
  \A u \in Users :
     Sane /\ Fit(call[u]) /\ Stage(u, Len(Frames(call[u])), 13) => Rest /\ Does(u)

LEMMA LastFrame == FrameLast
<1> SUFFICES ASSUME NEW u \in Users, NEW c, c = call[u], Fit(c), NEW k, k = Len(Frames(c)),
                    Stage(u, k, 13), Sane
             PROVE  Rest /\ Does(u)
  BY DEF FrameLast
<1>1. Rest
  <2>1. xCs \notin softcs /\ shifted = SubSeq(Frames(c)[k], 1, 0)
    BY DEF Stage, InFrame, Out
  <2>2. SubSeq(Frames(c)[k], 1, 0) = << >>
    OBVIOUS
  <2>3. QED
    BY <2>1, <2>2 DEF Rest
<1>2. CASE c.op = "read"
  <2>1. Reads(u, 13)
    BY <1>2 DEF Stage
  <2>2. Len(got[u]) = 4 /\ (rxfifo = << >> => Right(u, 4))
    BY <2>1 DEF Reads, In
  <2>3. PICK g \in Seq(Nat), v \in Words : g = got[u] /\ v = regs[c.reg]
    BY <1>2 DEF Sane, Fit
  <2>4. ASSUME rxfifo = << >> PROVE <<g[3], g[4]>> = v
    <3>1. \A i \in 3 .. 4 : g[i] = v[i - 2]
      BY <2>2, <2>3, <2>4 DEF Right
    <3>2. g[3] = v[1] /\ g[4] = v[2]
      BY <3>1
    <3>3. QED
      BY <3>2, ReadWhole
  <2>5. QED
    BY <1>1, <1>2, <2>3, <2>4 DEF Does
<1>3. CASE c.op # "read"
  <2>1. PICK w : w = c.writes
    OBVIOUS
  <2>2. w \in Seq(Registers \X Words) /\ c.op \in {"boot", "record", "write"}
    BY <1>3, <2>1 DEF Fit, Controls
  <2>3. Frames(c) = Writes(w)
    BY <1>3, <2>1 DEF Frames, Writes
  <2>4. Len(w) = k /\ DOMAIN w = 1 .. k
    BY <2>2, <2>3, WritesShape
  <2>5. Latest(w, k)
    BY <1>3, <2>1 DEF Stage
  <2>6. QED
    BY <1>1, <2>1, <2>2, <2>4, <2>5 DEF Does, Latest
<1>4. QED
  BY <1>2, <1>3

\* Between two frames nothing is under way
FrameNext ==
  \A u \in Users : \A q \in Nat :
     call[u].op # "read" /\ Stage(u, q, 13) => Stage(u, q + 1, 0)

LEMMA NextFrame == FrameNext
<1> SUFFICES ASSUME NEW u \in Users, NEW c, c = call[u], c.op # "read",
                    NEW q \in Nat, Stage(u, q, 13)
             PROVE  Stage(u, q + 1, 0)
  BY DEF FrameNext
<1>1. Out(0) = 0 /\ Out(13) = 0
  BY DEF Out
<1>2. SubSeq(Frames(c)[q], 1, 0) = << >> /\ SubSeq(Frames(c)[q + 1], 1, 0) = << >>
  OBVIOUS
<1>3. xCs \notin softcs /\ shifted = << >>
  BY <1>1, <1>2 DEF Stage, InFrame
<1>4. InFrame(Frames(c)[q + 1], 0)
  BY <1>1, <1>2, <1>3 DEF InFrame
<1>5. Latest(c.writes, q) /\ (q + 1) - 1 = q
  BY DEF Stage
<1>6. QED
  BY <1>4, <1>5 DEF Stage

LEMMA FrameDone ==
  ASSUME NEW u \in Users, Fit(call[u]), NEW q \in 1 .. Len(Frames(call[u])), NEW r \in 1 .. 13,
         AtFrame(u, q, r), call'[u] = call[u], Stage(u, q, r)', Sane'
  PROVE  Controlling(u)'
<1>1. PICK c, P, F : c = call[u] /\ P = Program(c) /\ F = Frames(c)
  OBVIOUS
<1>2. PICK e : e = Lead(c)
  OBVIOUS
<1>3. Framed(P, e, F) /\ Len(F) > 0
  BY <1>1, <1>2, ProgramFramed
<1>4. PICK k \in Nat : k = Len(F) /\ k > 0 /\ e \in Nat /\ P \in Seq(Acc) /\ Len(P) = e + 13 * k
  BY <1>3 DEF Framed
<1>5. prog'[u] = Left(P, e + 13 * (q - 1) + r)
  BY <1>1, <1>2 DEF AtFrame
<1>6. CASE r # 13
  <2>1. r \in 0 .. 12
    BY <1>6
  <2>2. QED
    BY <1>1, <1>2, <1>5, <2>1 DEF Controlling
<1>7. CASE r = 13 /\ q # k
  <2>1. PICK s \in 1 .. k, z \in 0 .. 12 : s = q + 1 /\ z = 0
    <3>1. q + 1 \in 1 .. k
      BY <1>1, <1>4, <1>7
    <3>2. QED
      BY <3>1
  <2>2. c.op # "read"
    <3>1. c.op = "read" => k = 1
      BY <1>1, <1>4 DEF Frames
    <3>2. k = 1 => q = k
      BY <1>1, <1>4
    <3>3. QED
      BY <1>7, <3>1, <3>2
  <2>3. Stage(u, s, z)'
    <3>1. q \in Nat
      BY <1>1, <1>4
    <3>2. Stage(u, q, 13)'
      BY <1>7
    <3>3. call'[u].op # "read"
      BY <1>1, <2>2
    <3>4. Stage(u, q + 1, 0)'
      <4>1. FrameNext'
        BY NextFrame, PTL
      <4>2. QED
        BY <3>1, <3>2, <3>3, <4>1 DEF FrameNext
    <3>5. QED
      BY <2>1, <3>4
  <2>4. e + 13 * (s - 1) + z = e + 13 * (q - 1) + r
    BY <1>1, <1>4, <1>7, <2>1
  <2>5. prog'[u] = Left(P, e + 13 * (s - 1) + z)
    BY <1>5, <2>4
  <2>6. QED
    BY <1>1, <1>2, <1>4, <2>1, <2>3, <2>5 DEF Controlling
<1>8. CASE r = 13 /\ q = k
  <2>1. PICK m \in 0 .. Len(P) : m = Len(P)
    BY <1>4
  <2>2. PICK t : t = Left(P, m)
    OBVIOUS
  <2>3. t \in Seq(Acc) /\ Len(t) = Len(P) - m
    BY <1>4, <2>2, LeftShape
  <2>4. t = << >>
    <3>1. Len(t) = 0
      BY <1>4, <2>1, <2>3
    <3>2. QED
      BY <2>3, <3>1, EmptySeq
  <2>5. e + 13 * (q - 1) + r = m
    BY <1>4, <1>8, <2>1
  <2>6. prog'[u] = << >>
    BY <1>5, <2>2, <2>4, <2>5
  <2>7. Rest' /\ Does(u)'
    <3>1. Stage(u, k, 13)'
      BY <1>8
    <3>2. Fit(call[u])' /\ k = Len(Frames(call'[u]))
      BY <1>1, <1>4 DEF Fit
    <3>3. FrameLast'
      BY LastFrame, PTL
    <3>4. QED
      BY <3>1, <3>2, <3>3 DEF FrameLast
  <2>8. QED
    BY <2>6, <2>7 DEF Controlling
<1>9. QED
  BY <1>6, <1>7, <1>8

(***************************************************************************)
(* What a command has done: the accesses of a frame.                       *)
(***************************************************************************)

LEMMA FrameCounts ==
  /\ \A r \in {5, 7, 9, 11} :
       /\ Out(r) \in 1 .. 4 /\ Out(r - 1) = Out(r) - 1 /\ In(r) = In(r - 1) /\ In(r) = Out(r) - 1
       /\ Out(r) = 4 <=> r = 11
       /\ Out(r) >= 3 <=> r >= 9
  /\ \A r \in {6, 8, 10, 12} :
       /\ Out(r) \in 1 .. 4 /\ Out(r - 1) = Out(r) /\ In(r) = In(r - 1) + 1 /\ In(r) = Out(r)
       /\ In(r - 1) \in 0 .. 3
       /\ Out(r) >= 3 <=> r >= 10
  /\ \A r \in {1, 2, 3, 4} : Out(r) = 0 /\ Out(r - 1) = 0 /\ In(r) = In(r - 1)
  /\ Out(13) = 0 /\ In(13) = In(12)
<1>1. Out(0) = 0 /\ Out(1) = 0 /\ Out(2) = 0 /\ Out(3) = 0 /\ Out(4) = 0 /\ Out(5) = 1 /\ Out(6) = 1
  BY DEF Out
<1>2. /\ Out(7) = 2 /\ Out(8) = 2 /\ Out(9) = 3 /\ Out(10) = 3 /\ Out(11) = 4 /\ Out(12) = 4
      /\ Out(13) = 0
  BY DEF Out
<1>3. In(0) = 0 /\ In(1) = 0 /\ In(2) = 0 /\ In(3) = 0 /\ In(4) = 0 /\ In(5) = 0 /\ In(6) = 1
  BY DEF In
<1>4. /\ In(7) = 1 /\ In(8) = 2 /\ In(9) = 2 /\ In(10) = 3 /\ In(11) = 3 /\ In(12) = 4
      /\ In(13) = 4
  BY DEF In
<1>5. \A r \in {5, 7, 9, 11} :
        /\ Out(r) \in 1 .. 4 /\ Out(r - 1) = Out(r) - 1 /\ In(r) = In(r - 1) /\ In(r) = Out(r) - 1
        /\ Out(r) = 4 <=> r = 11
        /\ Out(r) >= 3 <=> r >= 9
  <2> TAKE r \in {5, 7, 9, 11}
  <2>1. CASE r = 5
    <3>1. r - 1 = 4
      BY <2>1
    <3>2. QED
      BY <1>1, <1>3, <2>1, <3>1
  <2>2. CASE r = 7
    <3>1. r - 1 = 6
      BY <2>2
    <3>2. QED
      BY <1>1, <1>2, <1>3, <1>4, <2>2, <3>1
  <2>3. CASE r = 9
    <3>1. r - 1 = 8
      BY <2>3
    <3>2. QED
      BY <1>2, <1>4, <2>3, <3>1
  <2>4. CASE r = 11
    <3>1. r - 1 = 10
      BY <2>4
    <3>2. QED
      BY <1>2, <1>4, <2>4, <3>1
  <2>5. QED
    BY <2>1, <2>2, <2>3, <2>4
<1>6. \A r \in {6, 8, 10, 12} :
        /\ Out(r) \in 1 .. 4 /\ Out(r - 1) = Out(r) /\ In(r) = In(r - 1) + 1 /\ In(r) = Out(r)
        /\ In(r - 1) \in 0 .. 3
        /\ Out(r) >= 3 <=> r >= 10
  <2> TAKE r \in {6, 8, 10, 12}
  <2>1. CASE r = 6
    <3>1. r - 1 = 5
      BY <2>1
    <3>2. QED
      BY <1>1, <1>3, <2>1, <3>1
  <2>2. CASE r = 8
    <3>1. r - 1 = 7
      BY <2>2
    <3>2. QED
      BY <1>2, <1>4, <2>2, <3>1
  <2>3. CASE r = 10
    <3>1. r - 1 = 9
      BY <2>3
    <3>2. QED
      BY <1>2, <1>4, <2>3, <3>1
  <2>4. CASE r = 12
    <3>1. r - 1 = 11
      BY <2>4
    <3>2. QED
      BY <1>2, <1>4, <2>4, <3>1
  <2>5. QED
    BY <2>1, <2>2, <2>3, <2>4
<1>7. \A r \in {1, 2, 3, 4} : Out(r) = 0 /\ Out(r - 1) = 0 /\ In(r) = In(r - 1)
  <2> TAKE r \in {1, 2, 3, 4}
  <2>1. r - 1 \in {0, 1, 2, 3}
    OBVIOUS
  <2>2. QED
    BY <1>1, <1>3, <2>1
<1>8. Out(13) = 0 /\ In(13) = In(12)
  BY <1>2, <1>4
<1>9. QED
  BY <1>5, <1>6, <1>7, <1>8

\* What each access of a frame is
IsAcc(a, b, r) ==
  /\ r \in {1, 3} => a.op = "get"
  /\ r = 2 => a.op = "low" /\ a.arg = xCs
  /\ r = 4 => a.op = "high" /\ a.arg = xDcs
  /\ r \in {5, 7, 9, 11} => a.op = "send" /\ a.arg = b[Out(r)]
  /\ r \in {6, 8, 10, 12} => a.op = "receive"
  /\ r = 13 => a.op = "csn" /\ a.arg = {}

LEMMA AccIs == ASSUME NEW b, NEW r \in 1 .. 13, NEW a, a = FrameAcc(b, r) PROVE IsAcc(a, b, r)
<1>1. \A x, y : Access(x, y).op = x /\ Access(x, y).arg = y
  BY DEF Access
<1>2. r \in {1, 3} => a.op = "get"
  BY <1>1 DEF FrameAcc
<1>3. r = 2 => a.op = "low" /\ a.arg = xCs
  BY <1>1 DEF FrameAcc
<1>4. r = 4 => a.op = "high" /\ a.arg = xDcs
  BY <1>1 DEF FrameAcc
<1>5. r \in {5, 7, 9, 11} => a.op = "send" /\ a.arg = b[Out(r)]
  BY <1>1 DEF FrameAcc
<1>6. r \in {6, 8, 10, 12} => a.op = "receive"
  BY <1>1 DEF FrameAcc
<1>7. r = 13 => a.op = "csn" /\ a.arg = {}
  BY <1>1 DEF FrameAcc
<1>8. QED
  BY <1>2, <1>3, <1>4, <1>5, <1>6, <1>7 DEF IsAcc

\* What was sent, and one byte more
LEMMA OneMore ==
  ASSUME NEW b \in Seq(Nat), NEW k \in 1 .. Len(b), NEW s, s = SubSeq(b, 1, k - 1)
  PROVE  /\ s \in Seq(Nat) /\ Len(s) = k - 1 /\ \A i \in 1 .. k - 1 : s[i] = b[i]
         /\ Append(s, b[k]) = SubSeq(b, 1, k) /\ Append(s, b[k]) \in Seq(Nat)
<1>1. PICK n \in Nat : n = Len(b) /\ k \in 1 .. n
  BY LenProperties
<1>2. \A i \in 1 .. n : b[i] \in Nat
  BY <1>1, ElementOfSeq
<1>3. s \in Seq(Nat) /\ Len(s) = k - 1 /\ \A i \in 1 .. k - 1 : s[i] = b[i]
  <2>1. s = [i \in 1 .. k - 1 |-> b[i]]
    BY <1>1
  <2>2. s \in [1 .. k - 1 -> Nat] /\ k - 1 \in Nat
    <3>1. \A i \in 1 .. k - 1 : i \in 1 .. n
      BY <1>1
    <3>2. \A i \in 1 .. k - 1 : b[i] \in Nat
      BY <1>2, <3>1
    <3>3. k - 1 \in Nat
      BY <1>1
    <3>4. QED
      BY <2>1, <3>2, <3>3
  <2>3. s \in Seq(Nat)
    BY <2>2, SeqDef
  <2>4. Len(s) = k - 1
    BY <2>2, <2>3, LenProperties
  <2>5. QED
    BY <2>1, <2>3, <2>4
<1>4. PICK t : t = SubSeq(b, 1, k)
  OBVIOUS
<1>5. t \in Seq(Nat) /\ Len(t) = k /\ \A i \in 1 .. k : t[i] = b[i]
  <2>1. t = [i \in 1 .. k |-> b[i]]
    BY <1>1, <1>4
  <2>2. t \in [1 .. k -> Nat] /\ k \in Nat
    BY <1>1, <1>2, <2>1
  <2>3. t \in Seq(Nat)
    BY <2>2, SeqDef
  <2>4. Len(t) = k
    BY <2>2, <2>3, LenProperties
  <2>5. QED
    BY <2>1, <2>3, <2>4
<1>6. PICK x \in Nat : x = b[k]
  BY <1>1, <1>2
<1>7. PICK a : a = Append(s, x)
  OBVIOUS
<1>8. a \in Seq(Nat) /\ Len(a) = (k - 1) + 1 /\ a[(k - 1) + 1] = x /\ \A i \in 1 .. k - 1 : a[i] = s[i]
  BY <1>3, <1>7, AppendProperties
<1>9. Len(a) = k /\ \A i \in 1 .. k : a[i] = t[i]
  <2>1. (k - 1) + 1 = k /\ \A i \in 1 .. k : i \in 1 .. k - 1 \/ i = k
    BY <1>1
  <2>2. \A i \in 1 .. k - 1 : a[i] = b[i]
    BY <1>3, <1>8
  <2>3. a[k] = b[k] /\ Len(a) = k
    BY <1>6, <1>8, <2>1
  <2>4. QED
    BY <1>5, <2>1, <2>2, <2>3
<1>10. a = t
  BY <1>5, <1>8, <1>9, SeqEqual
<1>11. QED
  BY <1>3, <1>4, <1>6, <1>7, <1>8, <1>10

\* The bytes of a frame
BytesOf(c, q, b) ==
  /\ b \in Seq(Nat) /\ Len(b) = 4 /\ b[2] \in Registers
  /\ c.op = "read" => b[1] = VS_READ_COMMAND /\ b[2] = c.reg
  /\ c.op # "read" => /\ b[1] = VS_WRITE_COMMAND /\ q \in 1 .. Len(c.writes)
                      /\ b[2] = c.writes[q][1] /\ <<b[3], b[4]>> = c.writes[q][2]
                      /\ c.writes[q][2] \in Words

LEMMA FrameBytes ==
  ASSUME NEW c, Fit(c), NEW q \in 1 .. Len(Frames(c)), NEW b, b = Frames(c)[q]
  PROVE  BytesOf(c, q, b)
<1>1. CASE c.op = "read"
  <2>1. c.reg \in Registers
    BY <1>1 DEF Fit
  <2>2. PICK d : d = <<VS_READ_COMMAND, c.reg, Filler, Filler>>
    OBVIOUS
  <2>3. Frames(c) = <<d>>
    BY <1>1, <2>2 DEF Frames
  <2>4. Len(<<d>>) = 1 /\ <<d>>[1] = d
    OBVIOUS
  <2>5. q = 1
    BY <2>3, <2>4
  <2>6. b = d
    BY <2>3, <2>4, <2>5
  <2>7. d \in Quads /\ d[1] = VS_READ_COMMAND /\ d[2] = c.reg
    BY <2>1, <2>2, QuadShape
  <2>8. QED
    BY <1>1, <2>1, <2>6, <2>7 DEF Quads, BytesOf
<1>2. CASE c.op # "read"
  <2>1. PICK w : w = c.writes
    OBVIOUS
  <2>2. w \in Seq(Registers \X Words)
    BY <1>2, <2>1 DEF Fit
  <2>3. Frames(c) = Writes(w)
    BY <1>2, <2>1 DEF Frames, Writes
  <2>4. q \in 1 .. Len(w) /\ w[q][1] \in Registers /\ w[q][2] \in Words
        /\ b = <<VS_WRITE_COMMAND, w[q][1], w[q][2][1], w[q][2][2]>>
    BY <2>2, <2>3, WritesShape
  <2>5. PICK v \in Words, reg \in Registers : v = w[q][2] /\ reg = w[q][1]
    BY <2>4
  <2>6. b = <<VS_WRITE_COMMAND, reg, v[1], v[2]>>
    BY <2>4, <2>5
  <2>7. b \in Quads
    BY <2>6, QuadShape
  <2>8. b[1] = VS_WRITE_COMMAND /\ b[2] = reg /\ b[3] = v[1] /\ b[4] = v[2]
    BY <2>6
  <2>9. <<b[3], b[4]>> = v
    <3>1. v \in Seq(Nat) /\ Len(v) = 2 /\ b \in Seq(Nat)
      BY <2>7 DEF Words, Quads
    <3>2. PICK s : s = <<b[3], b[4]>>
      OBVIOUS
    <3>3. b[3] \in Nat /\ b[4] \in Nat
      <4>1. Len(b) = 4
        BY <2>7 DEF Quads
      <4>2. 3 \in 1 .. Len(b) /\ 4 \in 1 .. Len(b)
        BY <4>1
      <4>3. QED
        BY <3>1, <4>2, ElementOfSeq
    <3>4. s \in Seq(Nat) /\ Len(s) = 2 /\ s[1] = b[3] /\ s[2] = b[4]
      BY <3>2, <3>3
    <3>5. \A i \in 1 .. Len(s) : s[i] = v[i]
      <4>1. \A i \in 1 .. 2 : i = 1 \/ i = 2
        OBVIOUS
      <4>2. QED
        BY <2>8, <3>4, <4>1
    <3>6. s = v
      BY <3>1, <3>4, <3>5, SeqEqual
    <3>7. QED
      BY <3>2, <3>6
  <2>10. QED
    BY <1>2, <2>1, <2>4, <2>5, <2>7, <2>8, <2>9 DEF Quads, BytesOf
<1>3. QED
  BY <1>1, <1>2

\* An access that sends and receives nothing
LEMMA Unsent ==
  ASSUME NEW u \in Users, NEW q \in Nat, NEW r \in {1, 2, 3, 4, 13}, Stage(u, q, r - 1),
         call'[u] = call[u], got'[u] = got[u], rxfifo' = rxfifo, regs' = regs,
         xCs \in softcs' <=> r \in {2, 3, 4}, shifted' = << >>
  PROVE  Stage(u, q, r)'
<1>1. PICK c : c = call[u]
  OBVIOUS
<1>2. Out(r) = 0 /\ In(r) = In(r - 1)
  <2>1. r = 13 => r - 1 = 12
    OBVIOUS
  <2>2. QED
    BY <2>1, FrameCounts
<1>3. SubSeq(Frames(c)[q], 1, 0) = << >>
  OBVIOUS
<1>4. InFrame(Frames(c)[q], r)'
  BY <1>2, <1>3 DEF InFrame
<1>5. c.op = "read" => Reads(u, r)'
  <2>1. r \notin {5, 7, 9, 11} /\ r - 1 \notin {5, 7, 9, 11}
    OBVIOUS
  <2>2. ASSUME c.op = "read" PROVE Len(got[u]) = In(r - 1) /\ (rxfifo = << >> => Right(u, In(r - 1)))
    BY <1>1, <2>1, <2>2 DEF Stage, Reads
  <2>3. \A n : Right(u, n)' = Right(u, n)
    BY DEF Right
  <2>4. QED
    BY <1>2, <2>1, <2>2, <2>3 DEF Reads
<1>6. c.op # "read" => Latest(c.writes, IF r < 11 THEN q - 1 ELSE q)'
  <2>1. (r < 11) <=> (r - 1 < 11)
    OBVIOUS
  <2>2. ASSUME c.op # "read" PROVE Latest(c.writes, IF r < 11 THEN q - 1 ELSE q)
    BY <1>1, <2>1, <2>2 DEF Stage
  <2>3. \A n : Latest(c.writes, n)' = Latest(c.writes, n)
    BY DEF Latest
  <2>4. QED
    BY <2>2, <2>3
<1>7. QED
  BY <1>1, <1>4, <1>5, <1>6 DEF Stage

\* The register of the selects is read
LEMMA FrameGet ==
  ASSUME HearInv, NEW u \in Users, GetCs(u), NEW q \in Nat, NEW r \in 1 .. 13, AtFrame(u, q, r)
  PROVE  Stage(u, q, r)'
<1>1. /\ Advance(u, "get") /\ softcs' = softcs /\ rxfifo' = rxfifo /\ got' = got
      /\ regs' = regs /\ shifted' = shifted
  BY DEF GetCs, busVars, chipVars
<1>2. call'[u] = call[u] /\ prog[u][1].op = "get"
  BY <1>1, Stepping
<1>3. PICK b, a : b = Frames(call[u])[q] /\ a = FrameAcc(b, r)
  OBVIOUS
<1>4. a.op = "get" /\ Stage(u, q, r - 1)
  BY <1>2, <1>3 DEF AtFrame
<1>5. r \in {1, 3}
  <2>1. r \in {1, 3} \/ r = 2 \/ r = 4 \/ r \in {5, 7, 9, 11} \/ r \in {6, 8, 10, 12} \/ r = 13
    OBVIOUS
  <2>2. IsAcc(a, b, r)
    BY <1>3, AccIs
  <2>3. QED
    BY <1>4, <2>1, <2>2 DEF IsAcc
<1>6. /\ xCs \in softcs <=> r - 1 \in 2 .. 12
      /\ shifted = SubSeq(b, 1, 0)
  <2>1. Out(r - 1) = 0
    BY <1>5, FrameCounts
  <2>2. QED
    BY <1>3, <1>4, <2>1 DEF Stage, InFrame
<1>7. shifted = << >>
  BY <1>6
<1>8. (r - 1 \in 2 .. 12) <=> r \in {2, 3, 4}
  BY <1>5
<1>9. r \in {1, 2, 3, 4, 13}
  BY <1>5
<1>10. QED
  BY <1>1, <1>2, <1>4, <1>6, <1>7, <1>8, <1>9, Unsent

\* The selects change: what that is in every program
LEMMA SetDoes ==
  ASSUME HearInv, NEW u \in Users, SetCs(u)
  PROVE  /\ rxfifo' = rxfifo /\ got' = got /\ regs' = regs /\ sample' = sample /\ heard' = heard
         /\ shifted' = (IF xCs \in softcs' \/ device = "converter" THEN shifted ELSE << >>)
         /\ \/ Advance(u, "low") /\ softcs' = softcs \cup {prog[u][1].arg}
            \/ Advance(u, "high") /\ softcs' = softcs \ {prog[u][1].arg}
            \/ Advance(u, "csn") /\ softcs' = prog[u][1].arg
<1>1. PairedLeft(u)
  BY DEF HearInv, Follows
<1>2. got' = got
  BY DEF SetCs
<1>3. CASE Advance(u, "low") /\ Select(val[u] \cup {Arg(u)})
  <2>1. prog[u][1].op = "low" /\ 1 \in 1 .. Len(prog[u]) /\ Head(prog[u]) = prog[u][1]
    BY <1>3, Stepping
  <2>2. val[u] = softcs
    BY <1>1, <2>1 DEF PairedLeft
  <2>3. QED
    BY <1>2, <1>3, <2>1, <2>2 DEF Select, Arg
<1>4. CASE Advance(u, "high") /\ Select(val[u] \ {Arg(u)})
  <2>1. prog[u][1].op = "high" /\ 1 \in 1 .. Len(prog[u]) /\ Head(prog[u]) = prog[u][1]
    BY <1>4, Stepping
  <2>2. val[u] = softcs
    BY <1>1, <2>1 DEF PairedLeft
  <2>3. QED
    BY <1>2, <1>4, <2>1, <2>2 DEF Select, Arg
<1>5. CASE Advance(u, "csn") /\ Select(Arg(u))
  <2>1. Head(prog[u]) = prog[u][1]
    BY <1>5, Stepping
  <2>2. QED
    BY <1>2, <1>5, <2>1 DEF Select, Arg
<1>6. QED
  BY <1>3, <1>4, <1>5 DEF SetCs

LEMMA FrameSet ==
  ASSUME HearInv, device = "codec", NEW u \in Users, SetCs(u), NEW q \in Nat, NEW r \in 1 .. 13,
         AtFrame(u, q, r)
  PROVE  Stage(u, q, r)'
<1>1. /\ rxfifo' = rxfifo /\ got' = got /\ regs' = regs
      /\ shifted' = (IF xCs \in softcs' THEN shifted ELSE << >>)
      /\ \/ Advance(u, "low") /\ softcs' = softcs \cup {prog[u][1].arg}
         \/ Advance(u, "high") /\ softcs' = softcs \ {prog[u][1].arg}
         \/ Advance(u, "csn") /\ softcs' = prog[u][1].arg
  BY SetDoes
<1>2. PICK op \in {"low", "high", "csn"} : Advance(u, op)
  BY <1>1
<1>3. call'[u] = call[u] /\ prog[u][1].op = op
  BY <1>2, Stepping
<1>4. PICK b, a : b = Frames(call[u])[q] /\ a = FrameAcc(b, r)
  OBVIOUS
<1>5. a = prog[u][1] /\ Stage(u, q, r - 1)
  BY <1>4 DEF AtFrame
<1>6. r \in {2, 4, 13}
  <2>1. r \in {1, 3} \/ r \in {2, 4, 13} \/ r \in {5, 7, 9, 11} \/ r \in {6, 8, 10, 12}
    OBVIOUS
  <2>2. a.op \in {"low", "high", "csn"}
    BY <1>3, <1>5
  <2>3. IsAcc(a, b, r)
    BY <1>4, AccIs
  <2>4. QED
    BY <2>1, <2>2, <2>3 DEF IsAcc
<1>7. r \in {2, 4} => shifted = << >>
  <2>1. ASSUME r \in {2, 4} PROVE shifted = SubSeq(b, 1, 0)
    <3>1. Out(r - 1) = 0
      BY <2>1, FrameCounts
    <3>2. QED
      BY <1>4, <1>5, <3>1 DEF Stage, InFrame
  <2>2. QED
    BY <2>1
<1>8. r = 4 => xCs \in softcs
  BY <1>5 DEF Stage, InFrame
<1>9. /\ r = 2 => a.op = "low" /\ a.arg = xCs
      /\ r = 4 => a.op = "high" /\ a.arg = xDcs
      /\ r = 13 => a.op = "csn" /\ a.arg = {}
  <2>1. IsAcc(a, b, r)
    BY <1>4, AccIs
  <2>2. QED
    BY <2>1 DEF IsAcc
<1>10. CASE r = 2
  <2>1. a.op = "low" /\ a.arg = xCs
    BY <1>9, <1>10
  <2>2. softcs' = softcs \cup {xCs}
    BY <1>1, <1>3, <1>5, <2>1, Stepping
  <2>3. QED
    BY <1>1, <1>3, <1>5, <1>7, <1>10, <2>2, Unsent
<1>11. CASE r = 4
  <2>1. a.op = "high" /\ a.arg = xDcs /\ xDcs # xCs
    <3>1. xDcs # xCs
      BY DEF xCs, xDcs
    <3>2. QED
      BY <1>9, <1>11, <3>1
  <2>2. softcs' = softcs \ {xDcs}
    BY <1>1, <1>3, <1>5, <2>1, Stepping
  <2>3. QED
    BY <1>1, <1>3, <1>5, <1>7, <1>8, <1>11, <2>1, <2>2, Unsent
<1>12. CASE r = 13
  <2>1. a.op = "csn" /\ a.arg = {}
    BY <1>9, <1>12
  <2>2. softcs' = {}
    BY <1>1, <1>3, <1>5, <2>1, Stepping
  <2>3. QED
    BY <1>1, <1>3, <1>5, <1>12, <2>2, Unsent
<1>13. QED
  BY <1>6, <1>10, <1>11, <1>12

\* A byte of a frame is sent: byte k of b
SentByte(b, k) ==
  /\ shifted' = SubSeq(b, 1, k) /\ shifted' \in Seq(Nat)
  /\ regs' = (IF k = 4 /\ b[1] = VS_WRITE_COMMAND
                THEN [regs EXCEPT ![b[2]] = <<b[3], b[4]>>] ELSE regs)
  /\ \E x \in Nat : /\ rxfifo' = Append(rxfifo, x)
                    /\ k >= 3 /\ b[1] = VS_READ_COMMAND => x = regs[b[2]][k - 2]

LEMMA ByteSent ==
  ASSUME Sane, device = "codec", NEW u \in Users, Send(u), NEW b \in Seq(Nat), Len(b) = 4,
         b[2] \in Registers, NEW k \in 1 .. 4, xCs \in softcs, shifted = SubSeq(b, 1, k - 1),
         Arg(u) = b[k]
  PROVE  SentByte(b, k)
<1>1. /\ shifted \in Seq(Nat) /\ Len(shifted) = k - 1 /\ \A i \in 1 .. k - 1 : shifted[i] = b[i]
      /\ Append(shifted, b[k]) = SubSeq(b, 1, k) /\ Append(shifted, b[k]) \in Seq(Nat)
  <2>1. k \in 1 .. Len(b)
    OBVIOUS
  <2>2. PICK s : s = shifted /\ s = SubSeq(b, 1, k - 1)
    OBVIOUS
  <2>3. /\ s \in Seq(Nat) /\ Len(s) = k - 1 /\ \A i \in 1 .. k - 1 : s[i] = b[i]
        /\ Append(s, b[k]) = SubSeq(b, 1, k) /\ Append(s, b[k]) \in Seq(Nat)
    BY <2>1, <2>2, OneMore
  <2>4. QED
    BY <2>2, <2>3
<1>2. shifted' = Append(shifted, b[k]) /\ rxfifo' = Append(rxfifo, Answer)
  BY DEF Send, Shift
<1>3. regs' = (IF k = 4 /\ b[1] = VS_WRITE_COMMAND
                 THEN [regs EXCEPT ![b[2]] = <<b[3], b[4]>>] ELSE regs)
  <2>1. regs' = IF Len(shifted) = 3 /\ shifted[1] = VS_WRITE_COMMAND
                 THEN [regs EXCEPT ![shifted[2]] = <<shifted[3], b[k]>>]
                 ELSE regs
    BY DEF Send, Shift
  <2>2. Len(shifted) = 3 <=> k = 4
    BY <1>1
  <2>3. k = 4 => shifted[1] = b[1] /\ shifted[2] = b[2] /\ shifted[3] = b[3]
    BY <1>1
  <2>4. QED
    BY <2>1, <2>2, <2>3
<1>4. k >= 3 => Len(shifted) \in {2, 3} /\ shifted[1] = b[1] /\ shifted[2] = b[2]
      /\ Len(shifted) - 1 = k - 2 /\ k - 2 \in {1, 2}
  BY <1>1
<1>5. Answer = (IF k >= 3 /\ b[1] = VS_READ_COMMAND THEN regs[b[2]][k - 2] ELSE 0)
  <2>1. Answer = (IF Len(shifted) \in {2, 3} /\ shifted[1] = VS_READ_COMMAND
                    THEN regs[shifted[2]][Len(shifted) - 1] ELSE 0)
    BY DEF Answer
  <2>2. Len(shifted) \in {2, 3} <=> k >= 3
    BY <1>1
  <2>3. QED
    BY <1>4, <2>1, <2>2
<1>6. Answer \in Nat
  <2>1. CASE k >= 3 /\ b[1] = VS_READ_COMMAND
    <3>1. PICK v \in Words : v = regs[b[2]]
      BY DEF Sane
    <3>2. v \in Seq(Nat) /\ Len(v) = 2
      BY DEF Words
    <3>3. k - 2 \in 1 .. Len(v)
      BY <1>4, <2>1, <3>2
    <3>4. v[k - 2] \in Nat
      BY <3>2, <3>3, ElementOfSeq
    <3>5. QED
      BY <1>5, <2>1, <3>1, <3>4
  <2>2. CASE ~(k >= 3 /\ b[1] = VS_READ_COMMAND)
    BY <1>5, <2>2
  <2>3. QED
    BY <2>1, <2>2
<1>7. QED
  BY <1>1, <1>2, <1>3, <1>5, <1>6 DEF SentByte

\* And its place in the frame
LEMMA FrameSent ==
  ASSUME HearInv, Sane, device = "codec", NEW u \in Users, Send(u), Fit(call[u]),
         NEW q \in 1 .. Len(Frames(call[u])), NEW r \in 1 .. 13, AtFrame(u, q, r),
         NEW b, b = Frames(call[u])[q]
  PROVE  /\ r \in {5, 7, 9, 11} /\ SentByte(b, Out(r)) /\ InFrame(b, r)'
         /\ call'[u] = call[u] /\ got' = got /\ sample' = sample /\ player' = player
         /\ device' = device
<1>1. /\ Advance(u, "send") /\ softcs' = softcs /\ got' = got /\ sample' = sample
  BY DEF Send, Shift
<1>2. /\ call'[u] = call[u] /\ prog[u][1].op = "send" /\ Arg(u) = prog[u][1].arg
      /\ player' = player /\ device' = device
  BY <1>1, Stepping DEF Arg, Advance
<1>3. PICK a : a = FrameAcc(b, r)
  OBVIOUS
<1>4. a = prog[u][1] /\ Stage(u, q, r - 1)
  BY <1>3 DEF AtFrame
<1>5. IsAcc(a, b, r)
  BY <1>3, AccIs
<1>6. r \in {5, 7, 9, 11} /\ Arg(u) = b[Out(r)]
  <2>1. r \in {1, 3} \/ r = 2 \/ r = 4 \/ r \in {5, 7, 9, 11} \/ r \in {6, 8, 10, 12} \/ r = 13
    OBVIOUS
  <2>2. QED
    BY <1>2, <1>4, <1>5, <2>1 DEF IsAcc
<1>7. PICK k \in 1 .. 4 : k = Out(r) /\ Out(r - 1) = k - 1
  BY <1>6, FrameCounts
<1>8. xCs \in softcs /\ shifted = SubSeq(b, 1, k - 1)
  <2>1. InFrame(b, r - 1)
    BY <1>4 DEF Stage
  <2>2. r - 1 \in 2 .. 12
    BY <1>6
  <2>3. QED
    BY <1>7, <2>1, <2>2 DEF InFrame
<1>9. SentByte(b, k)
  <2>1. b \in Seq(Nat) /\ Len(b) = 4 /\ b[2] \in Registers
    <3>1. BytesOf(call[u], q, b)
      BY FrameBytes
    <3>2. QED
      BY <3>1 DEF BytesOf
  <2>2. Arg(u) = b[k]
    BY <1>6, <1>7
  <2>3. QED
    BY <1>8, <2>1, <2>2, ByteSent
<1>10. InFrame(b, r)'
  <2>1. shifted' = SubSeq(b, 1, Out(r)) /\ r \in 2 .. 12
    BY <1>6, <1>7, <1>9 DEF SentByte
  <2>2. QED
    BY <1>1, <1>8, <2>1 DEF InFrame
<1>11. QED
  BY <1>1, <1>2, <1>6, <1>7, <1>9, <1>10

\* What a byte does to the chip is sane
LEMMA SaneSent ==
  ASSUME Sane, NEW b \in Seq(Nat), Len(b) = 4, b[2] \in Registers, NEW k \in 1 .. 4,
         SentByte(b, k), got' = got, sample' = sample, player' = player, device' = device
  PROVE  Sane'
<1>1. PICK x \in Nat : rxfifo' = Append(rxfifo, x)
  BY DEF SentByte
<1>2. rxfifo' \in Seq(Nat)
  BY <1>1, AppendProperties DEF Sane
<1>3. regs' \in [Registers -> Words]
  <2>1. PICK v : v = <<b[3], b[4]>>
    OBVIOUS
  <2>2. b[3] \in Nat /\ b[4] \in Nat
    <3>1. 3 \in 1 .. Len(b) /\ 4 \in 1 .. Len(b)
      OBVIOUS
    <3>2. QED
      BY <3>1, ElementOfSeq
  <2>3. v \in Seq(Nat) /\ Len(v) = 2
    BY <2>1, <2>2
  <2>4. v \in Words
    BY <2>3 DEF Words
  <2>5. regs' = regs \/ regs' = [regs EXCEPT ![b[2]] = v]
    BY <2>1 DEF SentByte
  <2>6. QED
    BY <2>4, <2>5 DEF Sane
<1>4. QED
  BY <1>2, <1>3 DEF Sane, SentByte

\* While a register is read
LEMMA ReadSent ==
  ASSUME Sane, NEW u \in Users, NEW c, c = call[u], call'[u] = c, Fit(c), c.op = "read",
         got' = got, NEW b, b[1] = VS_READ_COMMAND, b[2] = c.reg, NEW r \in {5, 7, 9, 11},
         SentByte(b, Out(r)), Reads(u, r - 1)
  PROVE  Reads(u, r)'
<1>1. PICK k \in 1 .. 4 : k = Out(r) /\ In(r) = In(r - 1) /\ (k >= 3 <=> r >= 9)
  BY FrameCounts
<1>2. r - 1 \notin {5, 7, 9, 11}
  OBVIOUS
<1>3. Len(got[u]) = In(r) /\ (rxfifo = << >> => Right(u, In(r)))
  BY <1>1, <1>2 DEF Reads
<1>4. regs' = regs
  BY DEF SentByte, VS_READ_COMMAND, VS_WRITE_COMMAND
<1>5. PICK x \in Nat : rxfifo' = Append(rxfifo, x) /\ (k >= 3 => x = regs[c.reg][k - 2])
  BY <1>1 DEF SentByte
<1>6. PICK n \in Nat : n = Len(rxfifo)
  BY LenProperties DEF Sane
<1>7. PICK f : f = rxfifo'
  OBVIOUS
<1>8. f \in Seq(Nat) /\ Len(f) = n + 1 /\ f[n + 1] = x
  BY <1>5, <1>6, <1>7, AppendProperties DEF Sane
<1>9. f # << >>
  BY <1>6, <1>8, EmptySeq
<1>10. ASSUME Len(f) = 1
       PROVE  Right(u, In(r))' /\ (r >= 9 => f[1] = regs'[c.reg][Out(r) - 2])
  <2>1. n = 0
    <3>1. n + 1 = 1
      BY <1>8, <1>10
    <3>2. QED
      BY <3>1
  <2>2. rxfifo = << >>
    BY <1>6, <2>1, EmptySeq DEF Sane
  <2>3. Right(u, In(r))
    BY <1>3, <2>2
  <2>4. Right(u, In(r))'
    BY <1>4, <2>3 DEF Right
  <2>5. f[1] = x
    BY <1>8, <2>1
  <2>6. QED
    BY <1>1, <1>4, <1>5, <2>4, <2>5
<1>11. QED
  BY <1>3, <1>7, <1>9, <1>10 DEF Reads

\* While registers are written: the last byte of a frame writes one
LEMMA WriteSent ==
  ASSUME Sane, NEW w \in Seq(Registers \X Words), NEW q \in 1 .. Len(w), NEW b,
         b[1] = VS_WRITE_COMMAND, b[2] = w[q][1], <<b[3], b[4]>> = w[q][2],
         NEW r \in {5, 7, 9, 11}, SentByte(b, Out(r)), Latest(w, q - 1)
  PROVE  Latest(w, IF r < 11 THEN q - 1 ELSE q)'
<1>1. Out(r) = 4 <=> r = 11
  BY FrameCounts
<1>2. CASE r # 11
  <2>1. regs' = regs
    BY <1>1, <1>2 DEF SentByte
  <2>2. r < 11
    BY <1>2
  <2>3. QED
    BY <2>1, <2>2 DEF Latest
<1>3. CASE r = 11
  <2>1. regs' = [regs EXCEPT ![w[q][1]] = w[q][2]]
    BY <1>1, <1>3 DEF SentByte
  <2>2. regs \in [Registers -> Words]
    BY DEF Sane
  <2>3. PICK n \in Nat : n = Len(w) /\ q \in 1 .. n
    BY LenProperties
  <2>4. \A k \in 1 .. n : w[k][1] \in Registers /\ w[k][2] \in Words
    BY <2>3, WritesShape
  <2>5. ASSUME NEW k \in 1 .. q, \A l \in k + 1 .. q : w[l][1] # w[k][1]
        PROVE  regs'[w[k][1]] = w[k][2]
    <3>1. CASE k = q
      BY <2>1, <2>2, <2>3, <2>4, <3>1
    <3>2. CASE k # q
      <4>1. k \in 1 .. q - 1 /\ q \in k + 1 .. q /\ k \in 1 .. n
        BY <2>3, <3>2
      <4>2. \A l \in k + 1 .. q - 1 : l \in k + 1 .. q
        BY <2>3
      <4>3. regs[w[k][1]] = w[k][2]
        BY <2>5, <4>1, <4>2 DEF Latest
      <4>4. w[q][1] # w[k][1]
        BY <2>5, <4>1
      <4>5. w[k][1] \in Registers
        BY <2>4, <4>1
      <4>6. QED
        BY <2>1, <2>2, <4>3, <4>4, <4>5
    <3>3. QED
      BY <3>1, <3>2
  <2>6. Latest(w, q)'
    BY <2>5 DEF Latest
  <2>7. QED
    BY <1>3, <2>6
<1>4. QED
  BY <1>2, <1>3

LEMMA FrameSend ==
  ASSUME HearInv, Sane, device = "codec", NEW u \in Users, Send(u), Fit(call[u]),
         NEW q \in 1 .. Len(Frames(call[u])), NEW r \in 1 .. 13, AtFrame(u, q, r)
  PROVE  Stage(u, q, r)' /\ Sane'
<1>1. PICK c, b : c = call[u] /\ b = Frames(c)[q]
  OBVIOUS
<1>2. /\ r \in {5, 7, 9, 11} /\ SentByte(b, Out(r)) /\ InFrame(b, r)'
      /\ call'[u] = c /\ got' = got /\ sample' = sample /\ player' = player /\ device' = device
  BY <1>1, FrameSent
<1>3. /\ b \in Seq(Nat) /\ Len(b) = 4 /\ b[2] \in Registers
      /\ c.op = "read" => b[1] = VS_READ_COMMAND /\ b[2] = c.reg
      /\ c.op # "read" => /\ b[1] = VS_WRITE_COMMAND /\ q \in 1 .. Len(c.writes)
                          /\ b[2] = c.writes[q][1] /\ <<b[3], b[4]>> = c.writes[q][2]
                          /\ c.writes[q][2] \in Words
  <2>1. BytesOf(c, q, b)
    BY <1>1, FrameBytes
  <2>2. QED
    BY <2>1 DEF BytesOf
<1>4. Out(r) \in 1 .. 4
  BY <1>2, FrameCounts
<1>5. Sane'
  BY <1>2, <1>3, <1>4, SaneSent
<1>6. c.op = "read" => Reads(u, r)'
  <2>1. ASSUME c.op = "read" PROVE Reads(u, r)'
    <3>1. Reads(u, r - 1)
      BY <1>1, <2>1 DEF AtFrame, Stage
    <3>2. QED
      BY <1>1, <1>2, <1>3, <2>1, <3>1, ReadSent
  <2>2. QED
    BY <2>1
<1>7. c.op # "read" => Latest(c.writes, IF r < 11 THEN q - 1 ELSE q)'
  <2>1. ASSUME c.op # "read" PROVE Latest(c.writes, IF r < 11 THEN q - 1 ELSE q)'
    <3>1. PICK w : w = c.writes
      OBVIOUS
    <3>2. w \in Seq(Registers \X Words)
      BY <1>1, <2>1, <3>1 DEF Fit
    <3>3. Latest(w, q - 1)
      <4>1. r - 1 < 11
        BY <1>2
      <4>2. QED
        BY <1>1, <1>2, <2>1, <3>1, <4>1 DEF AtFrame, Stage
    <3>4. QED
      BY <1>2, <1>3, <2>1, <3>1, <3>2, <3>3, WriteSent
  <2>2. QED
    BY <2>1
<1>8. QED
  BY <1>1, <1>2, <1>5, <1>6, <1>7 DEF Stage

\* A byte is received
ByteGot(u, n) ==
  /\ got[u] \in Seq(Nat) /\ got'[u] \in Seq(Nat) /\ n = Len(got[u]) /\ Len(got'[u]) = n + 1
  /\ got'[u][n + 1] = rxfifo[1] /\ \A i \in 1 .. n : got'[u][i] = got[u][i]
  /\ rxfifo # << >> /\ rxfifo' \in Seq(Nat) /\ Len(rxfifo) \in Nat
  /\ Len(rxfifo') = Len(rxfifo) - 1

LEMMA GotByte ==
  ASSUME Sane, NEW u \in Users, Receive(u)
  PROVE  Sane' /\ \E n \in Nat : ByteGot(u, n)
<1>1. /\ rxfifo # << >> /\ got' = [got EXCEPT ![u] = Append(@, Head(rxfifo))]
      /\ rxfifo' = Tail(rxfifo) /\ regs' = regs /\ shifted' = shifted /\ sample' = sample
      /\ player' = player /\ device' = device
  BY DEF Receive, Advance, chipVars
<1>2. PICK f \in Seq(Nat) : f = rxfifo /\ f # << >>
  BY <1>1 DEF Sane
<1>3. PICK m \in Nat : m = Len(f) /\ m > 0
  <2>1. Len(f) \in Nat /\ Len(f) # 0
    BY <1>2, EmptySeq, LenProperties
  <2>2. QED
    BY <2>1
<1>4. PICK x \in Nat : x = Head(f) /\ x = f[1]
  <2>1. Head(f) = f[1] /\ 1 \in 1 .. Len(f)
    BY <1>2, <1>3, HeadTailProperties
  <2>2. f[1] \in Nat
    BY <2>1, ElementOfSeq
  <2>3. QED
    BY <2>1, <2>2
<1>5. PICK t : t = Tail(f)
  OBVIOUS
<1>6. t \in Seq(Nat) /\ Len(t) = m - 1
  BY <1>2, <1>3, <1>5, HeadTailProperties
<1>7. got \in [Users -> Seq(Nat)]
  BY DEF Sane
<1>8. PICK g \in Seq(Nat) : g = got[u]
  BY <1>7
<1>9. PICK n \in Nat : n = Len(g)
  BY LenProperties
<1>10. PICK h : h = Append(g, x)
  OBVIOUS
<1>11. h \in Seq(Nat) /\ Len(h) = n + 1 /\ h[n + 1] = x /\ \A i \in 1 .. n : h[i] = g[i]
  BY <1>9, <1>10, AppendProperties
<1>12. got' = [got EXCEPT ![u] = h]
  BY <1>1, <1>2, <1>4, <1>8, <1>10
<1>13. got'[u] = h /\ got' \in [Users -> Seq(Nat)]
  BY <1>7, <1>11, <1>12
<1>14. ByteGot(u, n)
  BY <1>1, <1>2, <1>3, <1>4, <1>5, <1>6, <1>8, <1>9, <1>11, <1>13 DEF ByteGot
<1>15. Sane'
  BY <1>1, <1>2, <1>5, <1>6, <1>13 DEF Sane
<1>16. QED
  BY <1>14, <1>15

LEMMA ReadGot ==
  ASSUME NEW u \in Users, NEW n \in Nat, ByteGot(u, n), NEW c, c = call[u], call'[u] = c,
         regs' = regs, NEW r \in {6, 8, 10, 12}, Reads(u, r - 1)
  PROVE  Reads(u, r)'
<1>1. /\ Out(r - 1) = Out(r) /\ In(r) = In(r - 1) + 1 /\ In(r) = Out(r) /\ Out(r) \in 1 .. 4
      /\ (Out(r) >= 3 <=> r >= 10) /\ In(r - 1) \in 0 .. 3
  BY FrameCounts
<1>2. r - 1 \in {5, 7, 9, 11} /\ r \notin {5, 7, 9, 11} /\ (r - 1 >= 9 <=> r >= 10)
  OBVIOUS
<1>3. /\ Len(got[u]) = In(r - 1)
      /\ Len(rxfifo) = 1 =>
           /\ Right(u, In(r - 1))
           /\ r - 1 >= 9 => rxfifo[1] = regs[c.reg][Out(r - 1) - 2]
  BY <1>2 DEF Reads
<1>4. n = In(r - 1) /\ Len(got'[u]) = n + 1
  BY <1>3 DEF ByteGot
<1>5. ASSUME rxfifo' = << >> PROVE Right(u, In(r))'
  <2>1. Len(rxfifo) = 1
    <3>1. Len(rxfifo') = 0
      BY <1>5, EmptySeq
    <3>2. QED
      BY <3>1 DEF ByteGot
  <2>2. Right(u, n) /\ (n + 1 >= 3 => rxfifo[1] = regs[c.reg][(n + 1) - 2])
    BY <1>1, <1>2, <1>3, <1>4, <2>1
  <2>3. ASSUME NEW i \in 3 .. n + 1 PROVE got'[u][i] = regs[c.reg][i - 2]
    <3>1. CASE i = n + 1
      <4>1. n + 1 >= 3
        BY <3>1
      <4>2. got'[u][n + 1] = rxfifo[1]
        BY DEF ByteGot
      <4>3. QED
        BY <2>2, <3>1, <4>1, <4>2
    <3>2. CASE i # n + 1
      <4>1. i \in 3 .. n /\ i \in 1 .. n
        BY <3>2
      <4>2. got[u][i] = regs[c.reg][i - 2]
        BY <2>2, <4>1 DEF Right
      <4>3. got'[u][i] = got[u][i]
        BY <4>1 DEF ByteGot
      <4>4. QED
        BY <4>2, <4>3
    <3>3. QED
      BY <3>1, <3>2
  <2>4. In(r) = n + 1
    BY <1>1, <1>4
  <2>5. QED
    BY <2>3, <2>4 DEF Right
<1>6. Len(got'[u]) = In(r)
  BY <1>1, <1>4
<1>7. QED
  BY <1>2, <1>5, <1>6 DEF Reads

LEMMA FrameReceive ==
  ASSUME HearInv, Sane, NEW u \in Users, Receive(u), NEW q \in Nat, NEW r \in 1 .. 13,
         AtFrame(u, q, r)
  PROVE  Stage(u, q, r)'
<1>1. /\ Advance(u, "receive") /\ softcs' = softcs /\ regs' = regs /\ shifted' = shifted
  BY DEF Receive, chipVars
<1>2. call'[u] = call[u] /\ prog[u][1].op = "receive"
  BY <1>1, Stepping
<1>3. PICK c, b, a : c = call[u] /\ b = Frames(c)[q] /\ a = FrameAcc(b, r)
  OBVIOUS
<1>4. a = prog[u][1] /\ Stage(u, q, r - 1)
  BY <1>3 DEF AtFrame
<1>5. IsAcc(a, b, r)
  BY <1>3, AccIs
<1>6. r \in {6, 8, 10, 12}
  <2>1. r \in {1, 3} \/ r = 2 \/ r = 4 \/ r \in {5, 7, 9, 11} \/ r \in {6, 8, 10, 12} \/ r = 13
    OBVIOUS
  <2>2. QED
    BY <1>2, <1>4, <1>5, <2>1 DEF IsAcc
<1>7. Out(r - 1) = Out(r)
  BY <1>6, FrameCounts
<1>8. InFrame(b, r)'
  <2>1. InFrame(b, r - 1)
    BY <1>3, <1>4 DEF Stage
  <2>2. r - 1 \in 2 .. 12 /\ r \in 2 .. 12
    BY <1>6
  <2>3. QED
    BY <1>1, <1>7, <2>1, <2>2 DEF InFrame
<1>9. c.op = "read" => Reads(u, r)'
  <2>1. ASSUME c.op = "read" PROVE Reads(u, r)'
    <3>1. Reads(u, r - 1)
      BY <1>3, <1>4, <2>1 DEF Stage
    <3>2. PICK n \in Nat : ByteGot(u, n)
      BY GotByte
    <3>3. QED
      BY <1>1, <1>2, <1>3, <1>6, <3>1, <3>2, ReadGot
  <2>2. QED
    BY <2>1
<1>10. c.op # "read" => Latest(c.writes, IF r < 11 THEN q - 1 ELSE q)'
  <2>1. (r < 11) <=> (r - 1 < 11)
    BY <1>6
  <2>2. ASSUME c.op # "read" PROVE Latest(c.writes, IF r < 11 THEN q - 1 ELSE q)
    BY <1>3, <1>4, <2>1, <2>2 DEF Stage
  <2>3. \A n : Latest(c.writes, n)' = Latest(c.writes, n)
    BY <1>1 DEF Latest
  <2>4. QED
    BY <2>2, <2>3
<1>11. QED
  BY <1>2, <1>3, <1>8, <1>9, <1>10 DEF Stage

(***************************************************************************)
(* What a command has done: the steps.                                     *)
(***************************************************************************)

Touch(u) == GetCs(u) \/ SetCs(u) \/ Send(u) \/ Receive(u) \/ Await(u)

\* An access is what the program says
LEMMA Touched ==
  ASSUME HearInv, NEW u \in Users, Touch(u)
  PROVE  /\ GetCs(u) => Advance(u, "get")
         /\ Send(u) => Advance(u, "send")
         /\ Receive(u) => Advance(u, "receive")
         /\ Await(u) => Advance(u, "convert")
         /\ \E op \in {"get", "low", "high", "csn", "send", "receive", "convert"} : Advance(u, op)
         /\ call' = call /\ call'[u] = call[u] /\ device' = device /\ player' = player /\ call[u] # Idle
         /\ \A v \in Users : v # u => call[v] = Idle
<1>1. /\ GetCs(u) => Advance(u, "get")
      /\ Send(u) => Advance(u, "send")
      /\ Receive(u) => Advance(u, "receive")
      /\ Await(u) => Advance(u, "convert")
  BY DEF GetCs, Send, Receive, Await
<1>2. PICK op \in {"get", "low", "high", "csn", "send", "receive", "convert"} : Advance(u, op)
  BY <1>1 DEF Touch, SetCs
<1>3. /\ call' = call /\ call'[u] = call[u] /\ device' = device /\ call[u] # Idle
      /\ \A v \in Users : v # u => call[v] = Idle
  BY <1>2, Stepping
<1>4. player' = player
  BY <1>2 DEF Advance
<1>5. QED
  BY <1>1, <1>2, <1>3, <1>4

\* An access that neither sends nor receives
LEMMA SaneQuiet ==
  ASSUME HearInv, Sane, NEW u \in Users, GetCs(u) \/ SetCs(u) PROVE Sane'
<1>1. device' = device /\ player' = player
  BY Touched DEF Touch
<1>2. rxfifo' = rxfifo /\ got' = got /\ regs' = regs /\ sample' = sample
  BY SetDoes DEF GetCs, busVars, chipVars
<1>3. shifted' \in Seq(Nat)
  <2>1. << >> \in Seq(Nat)
    BY EmptySeq
  <2>2. shifted' = shifted \/ shifted' = << >>
    BY SetDoes DEF GetCs, chipVars
  <2>3. QED
    BY <2>1, <2>2 DEF Sane
<1>4. QED
  BY <1>1, <1>2, <1>3 DEF Sane

\* The codec is left alone before the first frame
LEMMA LeadStep ==
  ASSUME HearInv, Sane, device = "codec", NEW u \in Users, Touch(u), Rest, Calm(prog[u][1])
  PROVE  Rest' /\ Sane'
<1>1. PICK a : a = prog[u][1]
  OBVIOUS
<1>2. \A op : Advance(u, op) => a.op = op
  BY <1>1, Stepping
<1>3. a.op \in {"get", "high"} \/ (a.op = "csn" /\ xCs \notin a.arg)
  BY <1>1 DEF Calm
<1>4. GetCs(u) \/ SetCs(u)
  <2>1. ~Advance(u, "send") /\ ~Advance(u, "receive") /\ ~Advance(u, "convert")
    BY <1>2, <1>3
  <2>2. QED
    BY <2>1, Touched DEF Touch
<1>5. CASE GetCs(u)
  BY <1>5, SaneQuiet DEF GetCs, busVars, chipVars, Rest
<1>6. CASE SetCs(u)
  <2>1. /\ shifted' = (IF xCs \in softcs' \/ device = "converter" THEN shifted ELSE << >>)
        /\ \/ Advance(u, "low") /\ softcs' = softcs \cup {prog[u][1].arg}
           \/ Advance(u, "high") /\ softcs' = softcs \ {prog[u][1].arg}
           \/ Advance(u, "csn") /\ softcs' = prog[u][1].arg
    BY <1>6, SetDoes
  <2>2. ~Advance(u, "low")
    BY <1>2, <1>3
  <2>3. xCs \notin softcs'
    BY <1>1, <1>2, <1>3, <2>1, <2>2 DEF Rest
  <2>4. QED
    BY <1>6, <2>1, <2>3, SaneQuiet DEF Rest
<1>7. QED
  BY <1>4, <1>5, <1>6

\* A command to the registers
LEMMA ControlStep ==
  ASSUME HearInv, Sane, device = "codec", NEW u \in Users, Touch(u), Fit(call[u]), Controlling(u)
  PROVE  Controlling(u)' /\ Sane'
<1>1. PICK op : Advance(u, op)
  BY Touched
<1>2. call'[u] = call[u]
  BY Touched
<1>3. CASE \E p \in Nat : InLead(u, p)
  <2>1. PICK p \in Nat : InLead(u, p)
    BY <1>3
  <2>2. Rest' /\ Sane'
    BY <2>1, LeadStep DEF InLead
  <2>3. QED
    BY <1>2, <2>1, <2>2, LeadDone
<1>4. CASE \E q \in 1 .. Len(Frames(call[u])) : \E r \in 1 .. 13 : AtFrame(u, q, r)
  <2>1. PICK q \in 1 .. Len(Frames(call[u])) : \E r \in 1 .. 13 : AtFrame(u, q, r)
    BY <1>4
  <2>2. PICK r \in 1 .. 13 : AtFrame(u, q, r)
    BY <2>1
  <2>3. q \in Nat
    <3>1. Len(Frames(call[u])) \in Nat
      BY ProgramFramed DEF Framed
    <3>2. QED
      BY <3>1
  <2>4. Stage(u, q, r)' /\ Sane'
    <3>1. CASE GetCs(u)
      BY <2>2, <2>3, <3>1, FrameGet, SaneQuiet
    <3>2. CASE SetCs(u)
      BY <2>2, <2>3, <3>2, FrameSet, SaneQuiet
    <3>3. CASE Send(u)
      BY <2>2, <3>3, FrameSend
    <3>4. CASE Receive(u)
      BY <2>2, <2>3, <3>4, FrameReceive, GotByte
    <3>5. CASE Await(u)
      <4>1. Advance(u, "convert")
        BY <3>5, Touched
      <4>2. PICK b, a : b = Frames(call[u])[q] /\ a = FrameAcc(b, r)
        OBVIOUS
      <4>3. a.op = "convert"
        BY <2>2, <4>1, <4>2, Stepping DEF AtFrame
      <4>4. IsAcc(a, b, r)
        BY <4>2, AccIs
      <4>5. r \in {1, 3} \/ r = 2 \/ r = 4 \/ r \in {5, 7, 9, 11} \/ r \in {6, 8, 10, 12} \/ r = 13
        OBVIOUS
      <4>6. QED
        BY <4>3, <4>4, <4>5 DEF IsAcc
    <3>6. QED
      BY <3>1, <3>2, <3>3, <3>4, <3>5 DEF Touch
  <2>5. QED
    BY <1>2, <2>2, <2>4, FrameDone
<1>5. QED
  BY <1>1, <1>3, <1>4, ControlNext

(***************************************************************************)
(* The converter: its program, and its accesses.                           *)
(***************************************************************************)

\* The access r of a reading
ValueAcc(mux, r) ==
  CASE r = 1 -> Access("csn", {2})
    [] r \in {2, 4, 6, 8} -> Access("send", Configured(mux)[Gone(r)])
    [] r \in {3, 5, 7, 9} -> Access("receive", 0)
    [] r = 10 -> Access("csn", {})
    [] r = 11 -> Access("convert", 0)

IsVal(a, mux, r) ==
  /\ r = 1 => a.op = "csn" /\ a.arg = {2}
  /\ r \in {2, 4, 6, 8} => a.op = "send" /\ a.arg = Configured(mux)[Gone(r)]
  /\ r \in {3, 5, 7, 9} => a.op = "receive"
  /\ r = 10 => a.op = "csn" /\ a.arg = {}
  /\ r = 11 => a.op = "convert"

LEMMA ValIs ==
  ASSUME NEW mux, NEW r \in 1 .. 11, NEW a, a = ValueAcc(mux, r) PROVE IsVal(a, mux, r)
<1>1. \A x, y : Access(x, y).op = x /\ Access(x, y).arg = y
  BY DEF Access
<1>2. r = 1 => a.op = "csn" /\ a.arg = {2}
  BY <1>1 DEF ValueAcc
<1>3. r \in {2, 4, 6, 8} => a.op = "send" /\ a.arg = Configured(mux)[Gone(r)]
  BY <1>1 DEF ValueAcc
<1>4. r \in {3, 5, 7, 9} => a.op = "receive"
  BY <1>1 DEF ValueAcc
<1>5. r = 10 => a.op = "csn" /\ a.arg = {}
  BY <1>1 DEF ValueAcc
<1>6. r = 11 => a.op = "convert"
  BY <1>1 DEF ValueAcc
<1>7. QED
  BY <1>2, <1>3, <1>4, <1>5, <1>6 DEF IsVal

LEMMA ConfiguredShape ==
  ASSUME NEW mux \in Nat
  PROVE  Configured(mux) \in Seq(Nat) /\ Len(Configured(mux)) = 4 /\ Configured(mux)[1] = 128 + mux
<1>1. PICK x \in Nat : x = Config(mux) /\ x = 128 + mux
  BY DEF Config
<1>2. PICK s : s = <<x, 1, x, 1>>
  OBVIOUS
<1>3. s \in Seq(Nat) /\ Len(s) = 4 /\ s[1] = x
  BY <1>2
<1>4. Configured(mux) = s
  BY <1>1, <1>2 DEF Configured
<1>5. QED
  BY <1>1, <1>3, <1>4

\* One reading
LEMMA ReadingShape ==
  ASSUME NEW mux \in Nat, NEW s, s = Reading(mux)
  PROVE  s \in Seq(Acc) /\ Len(s) = 11 /\ \A r \in 1 .. 11 : s[r] = ValueAcc(mux, r)
<1>1. PICK bytes : bytes = Configured(mux)
  OBVIOUS
<1>2. bytes \in Seq(Nat) /\ Len(bytes) = 4
  BY <1>1, ConfiguredShape
<1>3. PICK a, b, c, d : a = spi_set_csn({2}) /\ b = Transfer(bytes)
                        /\ c = spi_set_csn({}) /\ d = <<Access("convert", 0)>>
  OBVIOUS
<1>4. a \in Seq(Acc) /\ Len(a) = 1 /\ a[1] = Access("csn", {2})
  <2>1. {2} \in SUBSET Nat /\ xDcs \notin {2}
    BY DEF xDcs
  <2>2. Fine(a) /\ Len(a) = 1
    BY <1>3, <2>1, CsnShape
  <2>3. a = <<Access("csn", {2})>>
    BY <1>3 DEF spi_set_csn
  <2>4. QED
    BY <2>2, <2>3 DEF Fine
<1>5. /\ b \in Seq(Acc) /\ Len(b) = 8
      /\ \A q \in 1 .. 4 : /\ b[2 * (q - 1) + 1] = Access("send", bytes[q])
                           /\ b[2 * (q - 1) + 2] = Access("receive", 0)
  <2>1. /\ b \in Seq(Acc) /\ Len(b) = 2 * Len(bytes)
        /\ \A q \in 1 .. Len(bytes) : /\ b[2 * (q - 1) + 1] = Access("send", bytes[q])
                                      /\ b[2 * (q - 1) + 2] = Access("receive", 0)
    BY <1>2, <1>3, TransferShape DEF Harmless
  <2>2. QED
    BY <1>2, <2>1
<1>6. c \in Seq(Acc) /\ Len(c) = 1 /\ c[1] = Access("csn", {})
  <2>1. {} \in SUBSET Nat /\ xDcs \notin {}
    OBVIOUS
  <2>2. Fine(c) /\ Len(c) = 1
    BY <1>3, <2>1, CsnShape
  <2>3. c = <<Access("csn", {})>>
    BY <1>3 DEF spi_set_csn
  <2>4. QED
    BY <2>2, <2>3 DEF Fine
<1>7. d \in Seq(Acc) /\ Len(d) = 1 /\ d[1] = Access("convert", 0)
  <2>1. PICK x \in Acc : x = Access("convert", 0)
    BY AccessShape
  <2>2. <<x>> \in Seq(Acc) /\ Len(<<x>>) = 1 /\ <<x>>[1] = x
    BY OneAccess
  <2>3. QED
    BY <1>3, <2>1, <2>2
<1>8. PICK e, f, g : e = a \o b /\ f = e \o c /\ g = f \o d
  OBVIOUS
<1>9. e \in Seq(Acc) /\ Len(e) = 9 /\ e[1] = a[1] /\ \A i \in 1 .. 8 : e[1 + i] = b[i]
  <2>1. /\ e \in Seq(Acc) /\ Len(e) = Len(a) + Len(b)
        /\ \A i \in 1 .. Len(a) : e[i] = a[i]
        /\ \A i \in 1 .. Len(b) : e[Len(a) + i] = b[i]
    BY <1>4, <1>5, <1>8, Joined
  <2>2. QED
    BY <1>4, <1>5, <2>1
<1>10. f \in Seq(Acc) /\ Len(f) = 10 /\ f[10] = c[1] /\ \A i \in 1 .. 9 : f[i] = e[i]
  <2>1. /\ f \in Seq(Acc) /\ Len(f) = Len(e) + Len(c)
        /\ \A i \in 1 .. Len(e) : f[i] = e[i]
        /\ \A i \in 1 .. Len(c) : f[Len(e) + i] = c[i]
    <3>1. e \in Seq(Acc) /\ c \in Seq(Acc) /\ f = e \o c
      BY <1>6, <1>8, <1>9
    <3>2. QED
      BY <3>1, Joined
  <2>2. QED
    BY <1>6, <1>9, <2>1
<1>11. g \in Seq(Acc) /\ Len(g) = 11 /\ g[11] = d[1] /\ \A i \in 1 .. 10 : g[i] = f[i]
  <2>1. /\ g \in Seq(Acc) /\ Len(g) = Len(f) + Len(d)
        /\ \A i \in 1 .. Len(f) : g[i] = f[i]
        /\ \A i \in 1 .. Len(d) : g[Len(f) + i] = d[i]
    <3>1. f \in Seq(Acc) /\ d \in Seq(Acc) /\ g = f \o d
      BY <1>7, <1>8, <1>10
    <3>2. QED
      BY <3>1, Joined
  <2>2. QED
    BY <1>7, <1>10, <2>1
<1>12. Reading(mux) = g
  BY <1>1, <1>3, <1>8 DEF Reading, Configured
<1>13. /\ b[1] = Access("send", bytes[1]) /\ b[2] = Access("receive", 0)
       /\ b[3] = Access("send", bytes[2]) /\ b[4] = Access("receive", 0)
       /\ b[5] = Access("send", bytes[3]) /\ b[6] = Access("receive", 0)
       /\ b[7] = Access("send", bytes[4]) /\ b[8] = Access("receive", 0)
  BY <1>5
<1>14. /\ e[2] = b[1] /\ e[3] = b[2] /\ e[4] = b[3] /\ e[5] = b[4]
       /\ e[6] = b[5] /\ e[7] = b[6] /\ e[8] = b[7] /\ e[9] = b[8]
  BY <1>9
<1>15. /\ g[1] = Access("csn", {2}) /\ g[10] = Access("csn", {}) /\ g[11] = Access("convert", 0)
  BY <1>4, <1>6, <1>7, <1>9, <1>10, <1>11
<1>16. \A i \in 1 .. 9 : g[i] = e[i]
  BY <1>10, <1>11
<1>17. /\ g[2] = b[1] /\ g[3] = b[2] /\ g[4] = b[3] /\ g[5] = b[4]
       /\ g[6] = b[5] /\ g[7] = b[6] /\ g[8] = b[7] /\ g[9] = b[8]
  BY <1>14, <1>16
<1>18. Gone(2) = 1 /\ Gone(4) = 2 /\ Gone(6) = 3 /\ Gone(8) = 4
  BY DEF Gone
<1>19. ASSUME NEW r \in 1 .. 11 PROVE g[r] = ValueAcc(mux, r)
  <2>1. r = 1 => g[r] = ValueAcc(mux, r)
    BY <1>15 DEF ValueAcc
  <2>2. r \in {2, 4, 6, 8} => g[r] = ValueAcc(mux, r)
    BY <1>1, <1>13, <1>17, <1>18 DEF ValueAcc
  <2>3. r \in {3, 5, 7, 9} => g[r] = ValueAcc(mux, r)
    BY <1>13, <1>17 DEF ValueAcc
  <2>4. r \in {10, 11} => g[r] = ValueAcc(mux, r)
    BY <1>15 DEF ValueAcc
  <2>5. QED
    BY <2>1, <2>2, <2>3, <2>4
<1>20. QED
  BY <1>11, <1>12, <1>19

\* A value is read twice
LEMMA ValueFramed ==
  ASSUME NEW mux \in Nat, NEW P, P = getADCValue(mux)
  PROVE  /\ P \in Seq(Acc) /\ Len(P) = 22
         /\ \A q \in 1 .. 2 : \A r \in 1 .. 11 : P[11 * (q - 1) + r] = ValueAcc(mux, r)
<1>1. PICK s : s = Reading(mux)
  OBVIOUS
<1>2. s \in Seq(Acc) /\ Len(s) = 11 /\ \A r \in 1 .. 11 : s[r] = ValueAcc(mux, r)
  BY <1>1, ReadingShape
<1>3. P = s \o s
  BY <1>1 DEF getADCValue
<1>4. /\ P \in Seq(Acc) /\ Len(P) = Len(s) + Len(s)
      /\ \A i \in 1 .. Len(s) : P[i] = s[i]
      /\ \A i \in 1 .. Len(s) : P[Len(s) + i] = s[i]
  <2>1. s \in Seq(Acc) /\ P = s \o s
    BY <1>2, <1>3
  <2>2. QED
    BY <2>1, Joined
<1>5. ASSUME NEW q \in 1 .. 2, NEW r \in 1 .. 11 PROVE P[11 * (q - 1) + r] = s[r]
  <2>1. CASE q = 1
    <3>1. 11 * (q - 1) + r = r
      BY <2>1
    <3>2. QED
      BY <1>2, <1>4, <3>1
  <2>2. CASE q = 2
    <3>1. 11 * (q - 1) + r = 11 + r
      BY <2>2
    <3>2. QED
      BY <1>2, <1>4, <3>1
  <2>3. QED
    BY <2>1, <2>2
<1>6. QED
  BY <1>2, <1>4, <1>5

\* The next access is number r of reading q
AtRound(u, q, r) ==
  LET mux == call[u].mux IN
  /\ prog'[u] = Left(getADCValue(mux), 11 * (q - 1) + r)
  /\ Round(u, q, r - 1) /\ prog[u][1] = ValueAcc(mux, r)

LEMMA MeasureNext ==
  ASSUME HearInv, NEW u \in Users, NEW op, Advance(u, op), Measuring(u),
         call[u].op = "value", call[u].mux \in Nat
  PROVE  \E q \in 1 .. 2 : \E r \in 1 .. 11 : AtRound(u, q, r)
<1>1. PICK mux, P : mux = call[u].mux /\ P = getADCValue(mux) /\ mux \in Nat
  OBVIOUS
<1>2. /\ P \in Seq(Acc) /\ Len(P) = 22
      /\ \A q \in 1 .. 2 : \A r \in 1 .. 11 : P[11 * (q - 1) + r] = ValueAcc(mux, r)
  BY <1>1, ValueFramed
<1>3. prog[u] # << >> /\ prog'[u] = Tail(prog[u]) /\ Head(prog[u]) = prog[u][1]
  BY Stepping
<1>4. Program(call[u]) = P
  BY <1>1 DEF Program
<1>5. PICK q \in 1 .. 2 : \E r \in 0 .. 10 : prog[u] = Left(P, 11 * (q - 1) + r) /\ Round(u, q, r)
  BY <1>3, <1>4 DEF Measuring
<1>6. PICK r \in 0 .. 10 : prog[u] = Left(P, 11 * (q - 1) + r) /\ Round(u, q, r)
  BY <1>5
<1>7. PICK p \in 0 .. Len(P) - 1 : p = 11 * (q - 1) + r
  <2>1. 11 * (q - 1) + r \in 0 .. Len(P) - 1
    BY <1>2
  <2>2. QED
    BY <2>1
<1>8. PICK s \in 1 .. 11 : s = r + 1 /\ s - 1 = r
  <2>1. r + 1 \in 1 .. 11 /\ (r + 1) - 1 = r
    OBVIOUS
  <2>2. QED
    BY <2>1
<1>9. p + 1 = 11 * (q - 1) + s
  BY <1>7, <1>8
<1>10. prog[u][1] = P[p + 1] /\ prog'[u] = Left(P, p + 1)
  <2>1. prog[u] = Left(P, p)
    BY <1>6, <1>7
  <2>2. QED
    BY <1>2, <1>3, <2>1, LeftOn
<1>11. P[11 * (q - 1) + s] = ValueAcc(mux, s)
  BY <1>2
<1>12. AtRound(u, q, s)
  BY <1>1, <1>6, <1>8, <1>9, <1>10, <1>11 DEF AtRound
<1>13. QED
  BY <1>12

\* What the second reading has given
LEMMA Measured ==
  ASSUME NEW u \in Users, NEW mux \in Nat, mux = call[u].mux, call[u].op = "value",
         got[u] \in Seq(Nat), Len(got[u]) = 8, got[u][5] = 64 + mux, got[u][6] = 96 + mux
  PROVE  Does(u)
<1>1. PICK g \in Seq(Nat) : g = got[u]
  OBVIOUS
<1>2. PICK s : s = SubSeq(g, 5, 6)
  OBVIOUS
<1>3. s = <<g[5], g[6]>>
  <2>1. PICK x \in Nat, y \in Nat : x = g[5] /\ y = g[6]
    <3>1. Len(g) = 8
      BY <1>1
    <3>2. 5 \in 1 .. Len(g) /\ 6 \in 1 .. Len(g)
      BY <3>1
    <3>3. g[5] \in Nat /\ g[6] \in Nat
      BY <3>2, ElementOfSeq
    <3>4. QED
      BY <3>3
  <2>2. s = [i \in 1 .. 2 |-> g[i + 4]]
    BY <1>1, <1>2
  <2>3. \A i \in 1 .. 2 : s[i] = IF i = 1 THEN x ELSE y
    <3>1. s[1] = x /\ s[2] = y
      BY <2>1, <2>2
    <3>2. \A i \in 1 .. 2 : i = 1 \/ i = 2
      OBVIOUS
    <3>3. QED
      BY <3>1, <3>2
  <2>4. PICK n \in Nat : n = 2 /\ s \in [1 .. n -> Nat]
    BY <2>2, <2>3
  <2>5. s \in Seq(Nat)
    <3>1. s \in [1 .. n -> Nat]
      BY <2>4
    <3>2. QED
      BY <3>1, SeqDef
  <2>6. Len(s) = 2
    BY <2>4, <2>5, LenProperties
  <2>7. PICK t : t = <<x, y>>
    OBVIOUS
  <2>8. t \in Seq(Nat) /\ Len(t) = 2 /\ t[1] = x /\ t[2] = y
    BY <2>7
  <2>9. Len(s) = Len(t) /\ \A i \in 1 .. Len(s) : s[i] = t[i]
    <3>1. \A i \in 1 .. 2 : i = 1 \/ i = 2
      OBVIOUS
    <3>2. QED
      BY <2>3, <2>6, <2>8, <3>1
  <2>10. s = t
    BY <2>5, <2>8, <2>9, SeqEqual
  <2>11. QED
    BY <2>1, <2>7, <2>10
<1>4. Len(got[u]) - 3 = 5 /\ Len(got[u]) - 2 = 6
  OBVIOUS
<1>5. SubSeq(got[u], Len(got[u]) - 3, Len(got[u]) - 2) = <<64 + mux, 96 + mux>>
  BY <1>1, <1>2, <1>3, <1>4
<1>6. QED
  BY <1>5 DEF Does

RoundLast ==
  \A u \in Users :
     /\ Sane /\ call[u].op = "value" /\ call[u].mux \in Nat /\ Round(u, 2, 11)
     => shifted = << >> /\ rxfifo = << >> /\ Does(u)

LEMMA LastRound == RoundLast
<1> SUFFICES ASSUME NEW u \in Users, Sane, call[u].op = "value", call[u].mux \in Nat, Round(u, 2, 11)
             PROVE  shifted = << >> /\ rxfifo = << >> /\ Does(u)
  BY DEF RoundLast
<1>1. Gone(11) = 0 /\ Back(11) = 4
  BY DEF Gone, Back
<1>2. SubSeq(Configured(call[u].mux), 1, 0) = << >>
  OBVIOUS
<1>3. shifted = << >> /\ rxfifo = << >>
  BY <1>1, <1>2 DEF Round
<1>4. Len(got[u]) = 8 /\ got[u][5] = 64 + call[u].mux /\ got[u][6] = 96 + call[u].mux
  BY <1>1 DEF Round
<1>5. got[u] \in Seq(Nat)
  BY DEF Sane
<1>6. QED
  BY <1>3, <1>4, <1>5, Measured

RoundNext == \A u \in Users : call[u].mux \in Nat /\ Round(u, 1, 11) => Round(u, 2, 0)

LEMMA NextRound == RoundNext
<1> SUFFICES ASSUME NEW u \in Users, Round(u, 1, 11) PROVE Round(u, 2, 0)
  BY DEF RoundNext
<1>1. Gone(11) = 0 /\ Back(11) = 4 /\ Gone(0) = 0 /\ Back(0) = 0
  BY DEF Gone, Back
<1>2. Len(got[u]) = 4 /\ sample = call[u].mux /\ rxfifo = << >>
      /\ shifted = SubSeq(Configured(call[u].mux), 1, 0)
  BY <1>1 DEF Round
<1>3. QED
  BY <1>1, <1>2 DEF Round

LEMMA RoundDone ==
  ASSUME NEW u \in Users, NEW q \in 1 .. 2, NEW r \in 1 .. 11, AtRound(u, q, r),
         call[u].op = "value", call[u].mux \in Nat, call'[u] = call[u], Round(u, q, r)', Sane'
  PROVE  Measuring(u)'
<1>1. PICK mux, P : mux = call[u].mux /\ P = getADCValue(mux) /\ mux \in Nat
  OBVIOUS
<1>2. P \in Seq(Acc) /\ Len(P) = 22
  BY <1>1, ValueFramed
<1>3. prog'[u] = Left(P, 11 * (q - 1) + r)
  BY <1>1 DEF AtRound
<1>4. Program(call'[u]) = P
  BY <1>1 DEF Program
<1>5. CASE r # 11
  <2>1. r \in 0 .. 10
    BY <1>5
  <2>2. QED
    BY <1>3, <1>4, <2>1 DEF Measuring
<1>6. CASE r = 11 /\ q = 1
  <2>1. PICK s \in 1 .. 2, z \in 0 .. 10 : s = 2 /\ z = 0
    OBVIOUS
  <2>2. 11 * (s - 1) + z = 11 * (q - 1) + r
    BY <1>6, <2>1
  <2>3. Round(u, s, z)'
    <3>1. RoundNext'
      BY NextRound, PTL
    <3>2. Round(u, 1, 11)'
      BY <1>6
    <3>3. QED
      BY <2>1, <3>1, <3>2 DEF RoundNext
  <2>4. QED
    BY <1>3, <1>4, <2>2, <2>3 DEF Measuring
<1>7. CASE r = 11 /\ q = 2
  <2>1. PICK m \in 0 .. Len(P) : m = Len(P)
    BY <1>2
  <2>2. PICK t : t = Left(P, m)
    OBVIOUS
  <2>3. t \in Seq(Acc) /\ Len(t) = Len(P) - m
    BY <1>2, <2>2, LeftShape
  <2>4. t = << >>
    <3>1. Len(t) = 0
      BY <1>2, <2>1, <2>3
    <3>2. QED
      BY <2>3, <3>1, EmptySeq
  <2>5. 11 * (q - 1) + r = m
    BY <1>2, <1>7, <2>1
  <2>6. prog'[u] = << >>
    BY <1>3, <2>2, <2>4, <2>5
  <2>7. shifted' = << >> /\ rxfifo' = << >> /\ Does(u)'
    <3>1. RoundLast'
      BY LastRound, PTL
    <3>2. Round(u, 2, 11)'
      BY <1>7
    <3>3. QED
      BY <3>1, <3>2 DEF RoundLast
  <2>8. QED
    BY <2>6, <2>7 DEF Measuring
<1>8. QED
  BY <1>5, <1>6, <1>7

LEMMA RoundCounts ==
  /\ \A r \in {2, 4, 6, 8} :
       /\ Gone(r) \in 1 .. 4 /\ Gone(r - 1) = Gone(r) - 1 /\ Back(r) = Back(r - 1)
       /\ (Gone(r) = 1 <=> r = 2) /\ (Gone(r) = 2 <=> r = 4)
  /\ \A r \in {3, 5, 7, 9} :
       /\ Gone(r - 1) = Gone(r) /\ Back(r) = Back(r - 1) + 1 /\ Back(r - 1) \in 0 .. 3
       /\ (Back(r - 1) = 0 <=> r = 3) /\ (Back(r - 1) = 1 <=> r = 5)
  /\ Gone(0) = 0 /\ Gone(1) = 0 /\ Back(0) = 0 /\ Back(1) = 0
  /\ Gone(9) = 4 /\ Gone(10) = 4 /\ Back(9) = 4 /\ Back(10) = 4 /\ Gone(11) = 0 /\ Back(11) = 4
<1>1. /\ Gone(0) = 0 /\ Gone(1) = 0 /\ Gone(2) = 1 /\ Gone(3) = 1 /\ Gone(4) = 2 /\ Gone(5) = 2
      /\ Gone(6) = 3 /\ Gone(7) = 3 /\ Gone(8) = 4 /\ Gone(9) = 4 /\ Gone(10) = 4 /\ Gone(11) = 0
  BY DEF Gone
<1>2. /\ Back(0) = 0 /\ Back(1) = 0 /\ Back(2) = 0 /\ Back(3) = 1 /\ Back(4) = 1 /\ Back(5) = 2
      /\ Back(6) = 2 /\ Back(7) = 3 /\ Back(8) = 3 /\ Back(9) = 4 /\ Back(10) = 4 /\ Back(11) = 4
  BY DEF Back
<1>3. \A r \in {2, 4, 6, 8} :
        /\ Gone(r) \in 1 .. 4 /\ Gone(r - 1) = Gone(r) - 1 /\ Back(r) = Back(r - 1)
        /\ (Gone(r) = 1 <=> r = 2) /\ (Gone(r) = 2 <=> r = 4)
  <2> TAKE r \in {2, 4, 6, 8}
  <2>1. CASE r = 2
    <3>1. r - 1 = 1
      BY <2>1
    <3>2. QED
      BY <1>1, <1>2, <2>1, <3>1
  <2>2. CASE r = 4
    <3>1. r - 1 = 3
      BY <2>2
    <3>2. QED
      BY <1>1, <1>2, <2>2, <3>1
  <2>3. CASE r = 6
    <3>1. r - 1 = 5
      BY <2>3
    <3>2. QED
      BY <1>1, <1>2, <2>3, <3>1
  <2>4. CASE r = 8
    <3>1. r - 1 = 7
      BY <2>4
    <3>2. QED
      BY <1>1, <1>2, <2>4, <3>1
  <2>5. QED
    BY <2>1, <2>2, <2>3, <2>4
<1>4. \A r \in {3, 5, 7, 9} :
        /\ Gone(r - 1) = Gone(r) /\ Back(r) = Back(r - 1) + 1 /\ Back(r - 1) \in 0 .. 3
        /\ (Back(r - 1) = 0 <=> r = 3) /\ (Back(r - 1) = 1 <=> r = 5)
  <2> TAKE r \in {3, 5, 7, 9}
  <2>1. CASE r = 3
    <3>1. r - 1 = 2
      BY <2>1
    <3>2. QED
      BY <1>1, <1>2, <2>1, <3>1
  <2>2. CASE r = 5
    <3>1. r - 1 = 4
      BY <2>2
    <3>2. QED
      BY <1>1, <1>2, <2>2, <3>1
  <2>3. CASE r = 7
    <3>1. r - 1 = 6
      BY <2>3
    <3>2. QED
      BY <1>1, <1>2, <2>3, <3>1
  <2>4. CASE r = 9
    <3>1. r - 1 = 8
      BY <2>4
    <3>2. QED
      BY <1>1, <1>2, <2>4, <3>1
  <2>5. QED
    BY <2>1, <2>2, <2>3, <2>4
<1>5. QED
  BY <1>1, <1>2, <1>3, <1>4

\* The converter is selected, or let go
LEMMA RoundSet ==
  ASSUME HearInv, device = "converter", NEW u \in Users, SetCs(u), NEW q \in 1 .. 2,
         NEW r \in 1 .. 11, AtRound(u, q, r)
  PROVE  Round(u, q, r)'
<1>1. /\ rxfifo' = rxfifo /\ got' = got /\ sample' = sample /\ shifted' = shifted
      /\ \/ Advance(u, "low") /\ softcs' = softcs \cup {prog[u][1].arg}
         \/ Advance(u, "high") /\ softcs' = softcs \ {prog[u][1].arg}
         \/ Advance(u, "csn") /\ softcs' = prog[u][1].arg
  BY SetDoes
<1>2. PICK op \in {"low", "high", "csn"} : Advance(u, op)
  BY <1>1
<1>3. call'[u] = call[u] /\ prog[u][1].op = op
  BY <1>2, Stepping
<1>4. PICK mux, a : mux = call[u].mux /\ a = ValueAcc(mux, r)
  OBVIOUS
<1>5. a = prog[u][1] /\ Round(u, q, r - 1)
  BY <1>4 DEF AtRound
<1>6. IsVal(a, mux, r)
  BY <1>4, ValIs
<1>7. r \in {1, 10} /\ (r = 1 => a.op = "csn" /\ a.arg = {2})
  <2>1. r = 1 \/ r \in {2, 4, 6, 8} \/ r \in {3, 5, 7, 9} \/ r = 10 \/ r = 11
    OBVIOUS
  <2>2. a.op \in {"low", "high", "csn"}
    BY <1>3, <1>5
  <2>3. QED
    BY <1>6, <2>1, <2>2 DEF IsVal
<1>8. CASE r = 1
  <2>1. softcs' = {2}
    BY <1>1, <1>5, <1>7, <1>8, Stepping
  <2>2. xCs \in softcs'
    BY <2>1 DEF xCs
  <2>3. r - 1 = 0 /\ Gone(1) = 0 /\ Gone(0) = 0 /\ Back(1) = 0 /\ Back(0) = 0
    BY <1>8, RoundCounts
  <2>4. QED
    BY <1>1, <1>3, <1>5, <1>8, <2>2, <2>3 DEF Round
<1>9. CASE r = 10
  <2>1. r - 1 = 9 /\ Gone(10) = 4 /\ Gone(9) = 4 /\ Back(10) = 4 /\ Back(9) = 4
    BY <1>9, RoundCounts
  <2>2. QED
    BY <1>1, <1>3, <1>5, <1>9, <2>1 DEF Round
<1>10. QED
  BY <1>7, <1>8, <1>9

\* A conversion takes the input that was asked for
LEMMA RoundAwait ==
  ASSUME HearInv, device = "converter", NEW u \in Users, Await(u), NEW q \in 1 .. 2,
         NEW r \in 1 .. 11, AtRound(u, q, r), call[u].mux \in Nat
  PROVE  Round(u, q, r)' /\ sample' = call[u].mux /\ shifted' = << >>
<1>1. /\ Advance(u, "convert") /\ rxfifo' = rxfifo /\ got' = got /\ softcs' = softcs
      /\ shifted' = << >>
      /\ sample' = (IF Len(shifted) >= 4 THEN shifted[1] - 128 ELSE sample)
  BY DEF Await, Convert, busVars
<1>2. call'[u] = call[u] /\ prog[u][1].op = "convert"
  BY <1>1, Stepping
<1>3. PICK mux, a : mux = call[u].mux /\ a = ValueAcc(mux, r) /\ mux \in Nat
  OBVIOUS
<1>4. a = prog[u][1] /\ Round(u, q, r - 1)
  BY <1>3 DEF AtRound
<1>5. IsVal(a, mux, r)
  BY <1>3, ValIs
<1>6. r = 11
  <2>1. r = 1 \/ r \in {2, 4, 6, 8} \/ r \in {3, 5, 7, 9} \/ r = 10 \/ r = 11
    OBVIOUS
  <2>2. QED
    BY <1>2, <1>4, <1>5, <2>1 DEF IsVal
<1>7. Round(u, q, 10)
  <2>1. r - 1 = 10
    BY <1>6
  <2>2. QED
    BY <1>4, <2>1
<1>8. Gone(10) = 4 /\ Back(10) = 4 /\ Gone(11) = 0 /\ Back(11) = 4
  BY RoundCounts
<1>9. PICK b \in Seq(Nat) : b = Configured(mux) /\ Len(b) = 4 /\ b[1] = 128 + mux
  BY <1>3, ConfiguredShape
<1>10. shifted = SubSeq(b, 1, 4)
  BY <1>3, <1>7, <1>8, <1>9 DEF Round
<1>11. Len(shifted) = 4 /\ shifted[1] = b[1]
  BY <1>9, <1>10
<1>12. sample' = mux
  BY <1>1, <1>3, <1>9, <1>11
<1>13. SubSeq(b, 1, 0) = << >>
  OBVIOUS
<1>14. Round(u, q, 11)'
  <2>1. shifted' = SubSeq(b, 1, 0)
    BY <1>1, <1>13
  <2>2. /\ rxfifo = << >> /\ Len(got[u]) = 4 * (q - 1) + 4
        /\ q = 2 => got[u][5] = 64 + mux /\ got[u][6] = 96 + mux
    BY <1>3, <1>7, <1>8 DEF Round
  <2>3. 11 \notin {2, 4, 6, 8} /\ 11 \notin 1 .. 9 /\ 11 # 2 /\ 11 # 4
    OBVIOUS
  <2>4. /\ call'[u].mux = mux /\ rxfifo' = << >> /\ got' = got /\ sample' = mux
        /\ shifted' = SubSeq(Configured(mux), 1, Gone(11)) /\ Back(11) = 4
    BY <1>1, <1>2, <1>3, <1>8, <1>9, <1>12, <2>1, <2>2
  <2>5. QED
    BY <2>2, <2>3, <2>4 DEF Round
<1>15. QED
  BY <1>1, <1>3, <1>6, <1>12, <1>14

\* What the converter answers: the input of its result first
LEMMA Answers ==
  ASSUME Sane, device = "converter", xCs \in softcs, NEW k \in 1 .. 4, Len(shifted) = k - 1
  PROVE  /\ Answer \in Nat
         /\ k = 1 => Answer = 64 + sample
         /\ k = 2 => Answer = 96 + sample
<1>1. Answer = CASE Len(shifted) >= 4 -> Filler
                 [] Len(shifted) = 0 -> 64 + sample
                 [] Len(shifted) = 1 -> 96 + sample
                 [] OTHER -> shifted[Len(shifted) - 1]
  BY DEF Answer
<1>2. CASE k = 1
  BY <1>1, <1>2 DEF Sane
<1>3. CASE k = 2
  BY <1>1, <1>3 DEF Sane
<1>4. CASE k \in {3, 4}
  <2>1. Answer = shifted[Len(shifted) - 1]
    BY <1>1, <1>4
  <2>2. PICK s \in Seq(Nat) : s = shifted
    BY DEF Sane
  <2>3. Len(s) - 1 \in 1 .. Len(s)
    BY <1>4, <2>2
  <2>4. s[Len(s) - 1] \in Nat
    BY <2>3, ElementOfSeq
  <2>5. QED
    BY <1>4, <2>1, <2>2, <2>4
<1>5. QED
  BY <1>2, <1>3, <1>4

\* A byte goes out to the converter
LEMMA RoundSend ==
  ASSUME HearInv, Sane, device = "converter", NEW u \in Users, Send(u), NEW q \in 1 .. 2,
         NEW r \in 1 .. 11, AtRound(u, q, r), call[u].mux \in Nat
  PROVE  Round(u, q, r)' /\ Sane'
<1>1. /\ Advance(u, "send") /\ softcs' = softcs /\ got' = got /\ sample' = sample /\ regs' = regs
      /\ rxfifo' = Append(rxfifo, Answer)
      /\ shifted' = (IF xCs \in softcs THEN Append(shifted, Arg(u)) ELSE shifted)
  BY DEF Send, Shift
<1>2. /\ call'[u] = call[u] /\ prog[u][1].op = "send" /\ Arg(u) = prog[u][1].arg
      /\ player' = player /\ device' = device
  BY <1>1, Stepping DEF Arg, Advance
<1>3. PICK mux, a : mux = call[u].mux /\ a = ValueAcc(mux, r) /\ mux \in Nat
  OBVIOUS
<1>4. a = prog[u][1] /\ Round(u, q, r - 1)
  BY <1>3 DEF AtRound
<1>5. IsVal(a, mux, r)
  BY <1>3, ValIs
<1>6. r \in {2, 4, 6, 8} /\ Arg(u) = Configured(mux)[Gone(r)]
  <2>1. r = 1 \/ r \in {2, 4, 6, 8} \/ r \in {3, 5, 7, 9} \/ r = 10 \/ r = 11
    OBVIOUS
  <2>2. QED
    BY <1>2, <1>4, <1>5, <2>1 DEF IsVal
<1>7. PICK k \in 1 .. 4 : /\ k = Gone(r) /\ Gone(r - 1) = k - 1 /\ Back(r) = Back(r - 1)
                          /\ (k = 1 <=> r = 2) /\ (k = 2 <=> r = 4)
  BY <1>6, RoundCounts
<1>8. PICK b \in Seq(Nat) : b = Configured(mux) /\ Len(b) = 4
  BY <1>3, ConfiguredShape
<1>9. r - 1 \in 1 .. 9 /\ r - 1 \notin {2, 4, 6, 8} /\ r - 1 # 11
      /\ (r >= 3 => r - 1 >= 3) /\ (r >= 5 => r - 1 >= 5) /\ r \in 1 .. 9 /\ r # 11
  BY <1>6
<1>10. /\ xCs \in softcs /\ shifted = SubSeq(b, 1, k - 1) /\ rxfifo = << >>
       /\ Len(got[u]) = 4 * (q - 1) + Back(r) /\ (q = 2 => sample = mux)
  BY <1>3, <1>4, <1>7, <1>8, <1>9 DEF Round
<1>11. q = 2 => /\ r >= 3 => got[u][5] = 64 + mux
                /\ r >= 5 => got[u][6] = 96 + mux
  BY <1>3, <1>4, <1>9 DEF Round
<1>12. Len(shifted) = k - 1 /\ Append(shifted, b[k]) = SubSeq(b, 1, k)
       /\ Append(shifted, b[k]) \in Seq(Nat)
  <2>1. k \in 1 .. Len(b)
    BY <1>8
  <2>2. QED
    BY <1>10, <2>1, OneMore
<1>13. shifted' = SubSeq(b, 1, k) /\ shifted' \in Seq(Nat)
  BY <1>1, <1>6, <1>7, <1>8, <1>10, <1>12
<1>14. PICK x \in Nat : x = Answer /\ (k = 1 => x = 64 + sample) /\ (k = 2 => x = 96 + sample)
  BY <1>10, <1>12, Answers
<1>15. PICK f : f = rxfifo'
  OBVIOUS
<1>16. f \in Seq(Nat) /\ Len(f) = 1 /\ f[1] = x
  <2>1. << >> \in Seq(Nat) /\ Len(<< >>) = 0
    BY EmptySeq
  <2>2. f = Append(<< >>, x)
    BY <1>1, <1>10, <1>14, <1>15
  <2>3. f \in Seq(Nat) /\ Len(f) = 0 + 1 /\ f[0 + 1] = x
    BY <2>1, <2>2, AppendProperties
  <2>4. QED
    BY <2>3
<1>17. Sane'
  BY <1>1, <1>2, <1>13, <1>15, <1>16 DEF Sane
<1>18. Round(u, q, r)'
  <2>1. q = 2 => /\ r = 2 => f[1] = 64 + mux
                 /\ r = 4 => f[1] = 96 + mux
    BY <1>7, <1>10, <1>14, <1>16
  <2>2. q = 2 \/ r = 11 => sample' = mux
    BY <1>1, <1>9, <1>10
  <2>3. call'[u].mux = mux /\ got'[u] = got[u] /\ xCs \in softcs'
    BY <1>1, <1>2, <1>3, <1>10
  <2>4. QED
    BY <1>6, <1>7, <1>8, <1>10, <1>11, <1>13, <1>15, <1>16, <2>1, <2>2, <2>3 DEF Round
<1>19. QED
  BY <1>17, <1>18

\* And one comes back
LEMMA RoundReceive ==
  ASSUME HearInv, Sane, device = "converter", NEW u \in Users, Receive(u), NEW q \in 1 .. 2,
         NEW r \in 1 .. 11, AtRound(u, q, r)
  PROVE  Round(u, q, r)'
<1>1. /\ Advance(u, "receive") /\ softcs' = softcs /\ shifted' = shifted /\ sample' = sample
  BY DEF Receive, chipVars
<1>2. call'[u] = call[u] /\ prog[u][1].op = "receive"
  BY <1>1, Stepping
<1>3. PICK mux, a : mux = call[u].mux /\ a = ValueAcc(mux, r)
  OBVIOUS
<1>4. a = prog[u][1] /\ Round(u, q, r - 1)
  BY <1>3 DEF AtRound
<1>5. IsVal(a, mux, r)
  BY <1>3, ValIs
<1>6. r \in {3, 5, 7, 9}
  <2>1. r = 1 \/ r \in {2, 4, 6, 8} \/ r \in {3, 5, 7, 9} \/ r = 10 \/ r = 11
    OBVIOUS
  <2>2. QED
    BY <1>2, <1>4, <1>5, <2>1 DEF IsVal
<1>7. PICK k \in 0 .. 3 : /\ k = Back(r - 1) /\ Back(r) = k + 1 /\ Gone(r - 1) = Gone(r)
                          /\ (k = 0 <=> r = 3) /\ (k = 1 <=> r = 5)
  BY <1>6, RoundCounts
<1>8. r - 1 \in 1 .. 9 /\ r - 1 \in {2, 4, 6, 8} /\ r \notin {2, 4, 6, 8} /\ r # 11 /\ r \in 1 .. 9
      /\ (r = 3 => r - 1 = 2) /\ (r = 5 => r - 1 = 4) /\ (r >= 7 => r - 1 >= 5) /\ (r >= 5 => r - 1 >= 3)
  BY <1>6
<1>9. /\ xCs \in softcs /\ shifted = SubSeq(Configured(mux), 1, Gone(r)) /\ Len(rxfifo) = 1
      /\ Len(got[u]) = 4 * (q - 1) + k /\ (q = 2 => sample = mux)
  BY <1>3, <1>4, <1>7, <1>8 DEF Round
<1>10. q = 2 => /\ r = 3 => rxfifo[1] = 64 + mux
                /\ r = 5 => rxfifo[1] = 96 + mux
                /\ r >= 5 => got[u][5] = 64 + mux
                /\ r >= 7 => got[u][6] = 96 + mux
  BY <1>3, <1>4, <1>8 DEF Round
<1>11. PICK n \in Nat : ByteGot(u, n)
  BY GotByte
<1>12. /\ n = 4 * (q - 1) + k /\ Len(got'[u]) = n + 1 /\ got'[u][n + 1] = rxfifo[1]
       /\ \A i \in 1 .. n : got'[u][i] = got[u][i]
  BY <1>9, <1>11 DEF ByteGot
<1>13. rxfifo' = << >>
  <2>1. rxfifo' \in Seq(Nat) /\ Len(rxfifo') = 0
    BY <1>9, <1>11 DEF ByteGot
  <2>2. QED
    BY <2>1, EmptySeq
<1>14. Len(got'[u]) = 4 * (q - 1) + Back(r)
  BY <1>7, <1>12
<1>15. q = 2 => /\ r >= 3 => got'[u][5] = 64 + mux
                /\ r >= 5 => got'[u][6] = 96 + mux
  <2>1. ASSUME q = 2 PROVE n = 4 + k
    BY <1>12, <2>1
  <2>2. ASSUME q = 2, r >= 3 PROVE got'[u][5] = 64 + mux
    <3>1. CASE r = 3
      <4>1. n + 1 = 5
        BY <1>7, <2>1, <2>2, <3>1
      <4>2. QED
        BY <1>10, <1>12, <2>2, <3>1, <4>1
    <3>2. CASE r # 3
      <4>1. k >= 1 /\ r >= 5
        BY <1>6, <1>7, <3>2
      <4>2. 5 \in 1 .. n
        BY <2>1, <2>2, <4>1
      <4>3. QED
        BY <1>10, <1>12, <2>2, <4>1, <4>2
    <3>3. QED
      BY <3>1, <3>2
  <2>3. ASSUME q = 2, r >= 5 PROVE got'[u][6] = 96 + mux
    <3>1. CASE r = 5
      <4>1. n + 1 = 6
        BY <1>7, <2>1, <2>3, <3>1
      <4>2. QED
        BY <1>10, <1>12, <2>3, <3>1, <4>1
    <3>2. CASE r # 5
      <4>1. k >= 2 /\ r >= 7
        BY <1>6, <1>7, <2>3, <3>2
      <4>2. 6 \in 1 .. n
        BY <2>1, <2>3, <4>1
      <4>3. QED
        BY <1>10, <1>12, <2>3, <4>1, <4>2
    <3>3. QED
      BY <3>1, <3>2
  <2>4. QED
    BY <2>2, <2>3
<1>16. QED
  <2>1. call'[u].mux = mux /\ xCs \in softcs' /\ shifted' = SubSeq(Configured(mux), 1, Gone(r))
        /\ (q = 2 => sample' = mux)
    BY <1>1, <1>2, <1>3, <1>9
  <2>2. r # 2 /\ r # 4
    BY <1>6
  <2>3. QED
    BY <1>8, <1>13, <1>14, <1>15, <2>1, <2>2 DEF Round

\* A reading of the converter
LEMMA MeasureStep ==
  ASSUME HearInv, Sane, device = "converter", NEW u \in Users, Touch(u), Measuring(u),
         call[u].op = "value", call[u].mux \in Nat
  PROVE  Measuring(u)' /\ Sane'
<1>1. PICK op : Advance(u, op)
  BY Touched
<1>2. call'[u] = call[u] /\ device' = device /\ player' = player
  BY Touched
<1>3. PICK q \in 1 .. 2 : \E r \in 1 .. 11 : AtRound(u, q, r)
  BY <1>1, MeasureNext
<1>4. PICK r \in 1 .. 11 : AtRound(u, q, r)
  BY <1>3
<1>5. Round(u, q, r)' /\ Sane'
  <2>1. CASE GetCs(u)
    <3>1. PICK a : a = ValueAcc(call[u].mux, r)
      OBVIOUS
    <3>2. a.op = "get"
      <4>1. Advance(u, "get")
        BY <2>1, Touched DEF Touch
      <4>2. QED
        BY <1>4, <3>1, <4>1, Stepping DEF AtRound
    <3>3. IsVal(a, call[u].mux, r)
      BY <3>1, ValIs
    <3>4. r = 1 \/ r \in {2, 4, 6, 8} \/ r \in {3, 5, 7, 9} \/ r = 10 \/ r = 11
      OBVIOUS
    <3>5. QED
      BY <3>2, <3>3, <3>4 DEF IsVal
  <2>2. CASE SetCs(u)
    BY <1>4, <2>2, RoundSet, SaneQuiet
  <2>3. CASE Send(u)
    BY <1>4, <2>3, RoundSend
  <2>4. CASE Receive(u)
    BY <1>4, <2>4, RoundReceive, GotByte
  <2>5. CASE Await(u)
    <3>1. Round(u, q, r)' /\ sample' = call[u].mux /\ shifted' = << >>
      BY <1>4, <2>5, RoundAwait
    <3>2. rxfifo' = rxfifo /\ got' = got /\ regs' = regs
      BY <2>5 DEF Await, Convert, busVars
    <3>3. << >> \in Seq(Nat)
      BY EmptySeq
    <3>4. Sane'
      BY <1>2, <3>1, <3>2, <3>3 DEF Sane
    <3>5. QED
      BY <3>1, <3>4
  <2>6. QED
    BY <2>1, <2>2, <2>3, <2>4, <2>5 DEF Touch
<1>6. QED
  BY <1>2, <1>4, <1>5, RoundDone

(***************************************************************************)
(* What a command has done: playing, and all steps together.               *)
(***************************************************************************)

\* While a chunk is played the command interface of the codec is left alone
LEMMA PlayKeeps ==
  ASSUME HearInv, Sane, NEW u \in Users, Touch(u), call[u].op \in Plays, Rest, device = "codec"
  PROVE  Rest' /\ Sane'
<1>1. PICK op : Advance(u, op)
  BY Touched
<1>2. PICK n, P : n = Len(call[u].data) /\ P = sdi_send_buffer(call[u].data)
  OBVIOUS
<1>3. PlayOn(u, op, n, P)
  BY <1>1, <1>2, PlayStep
<1>4. /\ op \in {"get", "high", "low", "send", "receive", "csn"}
      /\ op = "low" => prog[u][1].arg = xDcs
      /\ op = "csn" => prog[u][1].arg = {}
  BY <1>3 DEF PlayOn
<1>5. \A o : Advance(u, o) => o = op
  <2>1. prog[u][1].op = op
    BY <1>1, Stepping
  <2>2. QED
    BY <2>1, Stepping
<1>6. xDcs # xCs
  BY DEF xDcs, xCs
<1>7. CASE GetCs(u)
  BY <1>7, SaneQuiet DEF GetCs, busVars, chipVars, Rest
<1>8. CASE SetCs(u)
  <2>1. /\ shifted' = (IF xCs \in softcs' \/ device = "converter" THEN shifted ELSE << >>)
        /\ \/ Advance(u, "low") /\ softcs' = softcs \cup {prog[u][1].arg}
           \/ Advance(u, "high") /\ softcs' = softcs \ {prog[u][1].arg}
           \/ Advance(u, "csn") /\ softcs' = prog[u][1].arg
    BY <1>8, SetDoes
  <2>2. xCs \notin softcs'
    BY <1>4, <1>5, <1>6, <2>1 DEF Rest
  <2>3. QED
    BY <1>8, <2>1, <2>2, SaneQuiet DEF Rest
<1>9. CASE Send(u)
  <2>1. /\ rxfifo' = Append(rxfifo, Answer) /\ shifted' = shifted /\ regs' = regs
        /\ softcs' = softcs /\ got' = got /\ sample' = sample
    BY <1>9 DEF Send, Shift, Rest
  <2>2. Answer = 0
    BY DEF Answer, Rest
  <2>3. rxfifo' \in Seq(Nat)
    BY <2>1, <2>2, AppendProperties DEF Sane
  <2>4. device' = device /\ player' = player
    BY Touched
  <2>5. QED
    BY <2>1, <2>3, <2>4 DEF Sane, Rest
<1>10. CASE Receive(u)
  BY <1>10, GotByte DEF Receive, chipVars, Rest
<1>11. CASE Await(u)
  <2>1. Advance(u, "convert")
    BY <1>11, Touched
  <2>2. QED
    BY <1>4, <1>5, <2>1
<1>12. QED
  BY <1>7, <1>8, <1>9, <1>10, <1>11 DEF Touch

\* A user without a command
LEMMA Unbusy ==
  ASSUME NEW v, call'[v] = Idle, ~player'[v] PROVE Busy(v)'
<1>1. Idle.op = "idle" /\ "idle" \notin Plays /\ "idle" \notin Controls /\ "idle" # "value"
  BY DEF Idle, Plays, Controls
<1>2. QED
  BY <1>1 DEF Busy

\* An access
LEMMA TouchStep == ASSUME HearInv, DoneInv, NEW u \in Users, Touch(u) PROVE DoneInv'
<1>1. /\ call' = call /\ call'[u] = call[u] /\ device' = device /\ player' = player
      /\ call[u] # Idle /\ \A v \in Users : v # u => call[v] = Idle
  BY Touched
<1>2. Busy(u) /\ Sane
  BY DEF DoneInv
<1>3. Busy(u)' /\ Sane'
  <2>1. CASE call[u].op \in Plays
    <3>1. Rest' /\ Sane'
      BY <1>2, <2>1, PlayKeeps DEF Busy
    <3>2. call[u].op \notin Controls /\ call[u].op # "value" /\ call[u].op # "idle"
      BY <2>1 DEF Plays, Controls
    <3>3. QED
      BY <1>1, <1>2, <2>1, <3>1, <3>2 DEF Busy
  <2>2. CASE call[u].op \in Controls
    <3>1. Controlling(u)' /\ Sane'
      BY <1>2, <2>2, ControlStep DEF Busy
    <3>2. call[u].op \notin Plays /\ call[u].op # "value" /\ call[u].op # "idle"
      BY <2>2 DEF Plays, Controls
    <3>3. QED
      BY <1>1, <1>2, <2>2, <3>1, <3>2 DEF Busy
  <2>3. CASE call[u].op = "value"
    <3>1. Measuring(u)' /\ Sane'
      BY <1>2, <2>3, MeasureStep DEF Busy
    <3>2. call[u].op \notin Plays /\ call[u].op \notin Controls
      BY <2>3 DEF Plays, Controls
    <3>3. QED
      BY <1>1, <1>2, <2>3, <3>1, <3>2 DEF Busy
  <2>4. QED
    BY <1>1, <1>2, <2>1, <2>2, <2>3 DEF Busy
<1>4. ASSUME NEW v \in Users, v # u PROVE Busy(v)'
  <2>1. call[v] = Idle /\ Idle.op \notin Plays
    BY <1>1, <1>4 DEF Idle, Plays
  <2>2. ~player[v]
    BY <2>1 DEF DoneInv, Busy
  <2>3. QED
    BY <1>1, <2>1, <2>2, Unbusy
<1>5. ~ShellIdle'
  BY <1>1 DEF ShellIdle
<1>6. \A v \in Users : Busy(v)'
  BY <1>3, <1>4
<1>7. QED
  BY <1>3, <1>5, <1>6 DEF DoneInv

\* Nothing is left of a program in which something is left
LEMMA LeftSome ==
  ASSUME NEW s \in Seq(Acc), NEW p \in Nat, p < Len(s), Left(s, p) = << >> PROVE FALSE
<1>1. p \in 0 .. Len(s)
  BY LenProperties
<1>2. PICK t : t = Left(s, p)
  OBVIOUS
<1>3. t \in Seq(Acc) /\ Len(t) = Len(s) - p
  BY <1>1, <1>2, LeftShape
<1>4. Len(t) = 0
  BY <1>2, EmptySeq
<1>5. QED
  BY <1>1, <1>3, <1>4, LenProperties

\* And a program of which nothing is done is whole
LEMMA LeftAll ==
  ASSUME NEW s \in Seq(Acc) PROVE s = Left(s, 0)
<1>1. PICK n \in Nat, p \in Nat : n = Len(s) /\ p = 0
  BY LenProperties
<1>2. p \in 0 .. Len(s)
  BY <1>1
<1>3. PICK t : t = Left(s, p)
  OBVIOUS
<1>4. t \in Seq(Acc) /\ Len(t) = Len(s) - p /\ \A i \in 1 .. Len(s) - p : t[i] = s[i + p]
  BY <1>2, <1>3, LeftShape
<1>5. Len(s) = Len(t) /\ \A i \in 1 .. Len(s) : s[i] = t[i]
  <2>1. n - p = n /\ \A i \in 1 .. n : i + p = i
    BY <1>1
  <2>2. QED
    BY <1>1, <1>4, <2>1
<1>6. s = t
  BY <1>4, <1>5, SeqEqual
<1>7. QED
  BY <1>1, <1>3, <1>6

\* A command to the registers is over
LEMMA ControlOver ==
  ASSUME NEW u \in Users, Fit(call[u]), Controlling(u), prog[u] = << >> PROVE Rest /\ Does(u)
<1>1. PICK c, P, F : c = call[u] /\ P = Program(c) /\ F = Frames(c)
  OBVIOUS
<1>2. PICK e : e = Lead(c)
  OBVIOUS
<1>3. Framed(P, e, F) /\ Len(F) > 0
  BY <1>1, <1>2, ProgramFramed
<1>4. PICK k \in Nat : k = Len(F) /\ k > 0 /\ e \in Nat
  BY <1>3 DEF Framed
<1>5. P \in Seq(Acc) /\ Len(P) = e + 13 * k
  BY <1>3, <1>4 DEF Framed
<1>6. ~\E p \in 0 .. e - 1 : prog[u] = Left(P, p)
  <2>1. ASSUME NEW p \in 0 .. e - 1, Left(P, p) = << >> PROVE FALSE
    <3>1. p \in Nat /\ p < Len(P)
      BY <1>4, <1>5
    <3>2. QED
      BY <1>5, <2>1, <3>1, LeftSome
  <2>2. QED
    BY <2>1
<1>7. ~\E q \in 1 .. k : \E r \in 0 .. 12 : prog[u] = Left(P, e + 13 * (q - 1) + r)
  <2>1. ASSUME NEW q \in 1 .. k, NEW r \in 0 .. 12, Left(P, e + 13 * (q - 1) + r) = << >>
        PROVE  FALSE
    <3>1. PICK p \in Nat : p = e + 13 * (q - 1) + r /\ p < Len(P)
      <4>1. e + 13 * (q - 1) + r \in Nat /\ e + 13 * (q - 1) + r < Len(P)
        BY <1>4, <1>5
      <4>2. QED
        BY <4>1
    <3>2. QED
      BY <1>5, <2>1, <3>1, LeftSome
  <2>2. QED
    BY <2>1
<1>8. QED
  BY <1>1, <1>2, <1>4, <1>6, <1>7 DEF Controlling

\* A reading is over
LEMMA MeasureOver ==
  ASSUME NEW u \in Users, call[u].op = "value", call[u].mux \in Nat, Measuring(u), prog[u] = << >>
  PROVE  shifted = << >> /\ rxfifo = << >> /\ Does(u)
<1>1. PICK P : P = getADCValue(call[u].mux)
  OBVIOUS
<1>2. P \in Seq(Acc) /\ Len(P) = 22 /\ Program(call[u]) = P
  BY <1>1, ValueFramed DEF Program
<1>3. ~\E q \in 1 .. 2 : \E r \in 0 .. 10 : prog[u] = Left(P, 11 * (q - 1) + r)
  <2>1. ASSUME NEW q \in 1 .. 2, NEW r \in 0 .. 10, Left(P, 11 * (q - 1) + r) = << >> PROVE FALSE
    <3>1. PICK p \in Nat : p = 11 * (q - 1) + r /\ p < Len(P)
      <4>1. 11 * (q - 1) + r \in Nat /\ 11 * (q - 1) + r < Len(P)
        BY <1>2
      <4>2. QED
        BY <4>1
    <3>2. QED
      BY <1>2, <2>1, <3>1, LeftSome
  <2>2. QED
    BY <2>1
<1>4. QED
  BY <1>2, <1>3 DEF Measuring

\* What came last
LEMMA Suffixed ==
  ASSUME NEW d \in Seq(Nat), NEW h \in Seq(Nat), NEW n \in Nat, n = Len(d), NEW m \in Nat,
         m = Len(h), n <= m, \A j \in 1 .. n : h[m - n + j] = d[j]
  PROVE  IsSuffix(d, h)
<1>1. PICK a, b : a = Reverse(d) /\ b = Reverse(h)
  OBVIOUS
<1>2. a = [i \in 1 .. n |-> d[(n - i) + 1]] /\ b = [i \in 1 .. m |-> h[(m - i) + 1]]
  BY <1>1 DEF Reverse
<1>3. a \in Seq(Nat) /\ Len(a) = n
  <2>1. \A i \in 1 .. n : (n - i) + 1 \in 1 .. Len(d)
    OBVIOUS
  <2>2. \A i \in 1 .. n : d[(n - i) + 1] \in Nat
    BY <2>1, ElementOfSeq
  <2>3. a \in [1 .. n -> Nat]
    BY <1>2, <2>2
  <2>4. a \in Seq(Nat)
    BY <2>3, SeqDef
  <2>5. QED
    BY <2>3, <2>4, LenProperties
<1>4. b \in Seq(Nat) /\ Len(b) = m
  <2>1. \A i \in 1 .. m : (m - i) + 1 \in 1 .. Len(h)
    OBVIOUS
  <2>2. \A i \in 1 .. m : h[(m - i) + 1] \in Nat
    BY <2>1, ElementOfSeq
  <2>3. b \in [1 .. m -> Nat]
    BY <1>2, <2>2
  <2>4. b \in Seq(Nat)
    BY <2>3, SeqDef
  <2>5. QED
    BY <2>3, <2>4, LenProperties
<1>5. ASSUME NEW i \in 1 .. n PROVE a[i] = b[i]
  <2>1. PICK j \in 1 .. n : j = (n - i) + 1
    <3>1. (n - i) + 1 \in 1 .. n
      OBVIOUS
    <3>2. QED
      BY <3>1
  <2>2. (m - i) + 1 = m - n + j /\ i \in 1 .. m
    BY <2>1
  <2>3. QED
    BY <1>2, <2>1, <2>2
<1>6. SubSeq(a, 1, n) = SubSeq(b, 1, n)
  <2>1. PICK x, y : x = SubSeq(a, 1, n) /\ y = SubSeq(b, 1, n)
    OBVIOUS
  <2>2. x = [i \in 1 .. n |-> a[i]] /\ y = [i \in 1 .. n |-> b[i]]
    BY <1>3, <1>4, <2>1
  <2>3. x = y
    BY <1>5, <2>2
  <2>4. QED
    BY <2>1, <2>3
<1>7. IsPrefix(a, b)
  BY <1>3, <1>4, <1>6 DEF IsPrefix
<1>8. QED
  BY <1>1, <1>7 DEF IsSuffix

\* A chunk is played to its end
LEMMA PlayOver ==
  ASSUME HearInv, NEW u \in Users, call[u].op \in Plays, prog[u] = << >> PROVE Does(u)
<1>1. PICK d, n, P : d = call[u].data /\ n = Len(d) /\ P = sdi_send_buffer(d)
  OBVIOUS
<1>2. calls - 1 \in Nat /\ n \in Chunks /\ d = Chunk(calls - 1, n) /\ Playing(u) /\ heard \in Seq(Nat)
  BY <1>1 DEF HearInv, Follows
<1>3. PICK k \in Nat : k = calls - 1
  BY <1>2
<1>4. d \in Seq(Nat) /\ n \in Nat /\ n < Span
  <2>1. PICK c : c = Chunk(k, n)
    OBVIOUS
  <2>2. Chunk(k, n) \in Seq(Nat) /\ n \in Nat /\ n < Span
    BY <1>2, ChunkShape
  <2>3. QED
    BY <1>2, <1>3, <2>2
<1>5. n \in Nat
  BY <1>4
<1>6. P \in Seq(Acc) /\ Len(P) = 5 + 2 * n
  BY <1>1, <1>4, <1>5, PlayShape
<1>7. ASSUME NEW p \in Nat, p < Len(P), prog[u] = Left(P, p) PROVE FALSE
  BY <1>6, <1>7, LeftSome
<1>8. ~\E p \in 0 .. 3 : prog[u] = Left(P, p)
  <2>1. \A p \in 0 .. 3 : p \in Nat /\ p < Len(P)
    BY <1>4, <1>6
  <2>2. QED
    BY <1>7, <2>1
<1>9. ~\E m \in 0 .. n : prog[u] = Left(P, 4 + 2 * m)
  <2>1. \A m \in 0 .. n : 4 + 2 * m \in Nat /\ 4 + 2 * m < Len(P)
    BY <1>5, <1>6
  <2>2. QED
    BY <1>7, <2>1
<1>10. ~\E m \in 1 .. n : prog[u] = Left(P, 3 + 2 * m)
  <2>1. \A m \in 1 .. n : 3 + 2 * m \in Nat /\ 3 + 2 * m < Len(P)
    BY <1>5, <1>6
  <2>2. QED
    BY <1>7, <2>1
<1>11. Heard(u, n)
  BY <1>1, <1>2, <1>8, <1>9, <1>10 DEF Playing
<1>12. PICK m \in Nat : m = Len(heard)
  BY <1>2, LenProperties
<1>13. n <= m /\ \A j \in 1 .. n : heard[m - n + j] = d[j]
  BY <1>1, <1>11, <1>12 DEF Heard
<1>14. IsSuffix(d, heard)
  BY <1>1, <1>2, <1>4, <1>5, <1>12, <1>13, Suffixed
<1>15. QED
  BY <1>1, <1>14 DEF Does, Plays

\* Whatever a command was, when nothing is left of its program it has done what
\* it should, and the chip is at rest
LEMMA Finished ==
  ASSUME HearInv, DoneInv, NEW u \in Users, call[u] # Idle, prog[u] = << >>
  PROVE  Does(u) /\ AtRest
<1>1. Busy(u)
  BY DEF DoneInv
<1>2. CASE call[u].op \in Plays
  BY <1>1, <1>2, PlayOver DEF Busy, AtRest
<1>3. CASE call[u].op \in Controls
  BY <1>1, <1>3, ControlOver DEF Busy, AtRest
<1>4. CASE call[u].op = "value"
  BY <1>1, <1>4, MeasureOver DEF Busy, AtRest
<1>5. QED
  BY <1>1, <1>2, <1>3, <1>4 DEF Busy

\* A command returns, or the player is deleted
LEMMA OverDone ==
  ASSUME HearInv, DoneInv, NEW u \in Users, Return(u) \/ Delete(u) PROVE DoneInv'
<1>1. /\ call' = [call EXCEPT ![u] = Idle] /\ device' = device /\ softcs' = softcs
      /\ rxfifo' = rxfifo /\ got' = got /\ shifted' = shifted /\ regs' = regs /\ sample' = sample
  BY DEF Return, Delete, busVars, chipVars
<1>2. Sane /\ Busy(u) /\ call = [v \in Users |-> call[v]]
  BY DEF DoneInv, HearInv
<1>3. call[u] # Idle
  <2>1. Idle.op \notin Plays
    BY DEF Idle, Plays
  <2>2. CASE Return(u)
    BY <2>2 DEF Return
  <2>3. CASE Delete(u)
    BY <1>2, <2>1, <2>3 DEF Delete, Busy
  <2>4. QED
    BY <2>2, <2>3
<1>4. \A v \in Users : v # u => call[v] = Idle
  BY <1>3 DEF HearInv, OneCommand
<1>5. \A v \in Users : call'[v] = Idle
  BY <1>1, <1>2, <1>4
<1>6. ASSUME NEW v \in Users PROVE ~player'[v]
  <2>1. CASE v = u
    <3>1. player = [w \in Users |-> player[w]]
      BY <1>2 DEF Sane
    <3>2. QED
      BY <2>1, <3>1 DEF Return, Delete
  <2>2. CASE v # u
    <3>1. call[v] = Idle /\ Idle.op \notin Plays /\ Busy(v)
      BY <1>4, <2>2 DEF Idle, Plays, DoneInv
    <3>2. ~player[v]
      BY <3>1 DEF Busy
    <3>3. player' = player \/ player' = [player EXCEPT ![u] = FALSE]
      BY DEF Return, Delete
    <3>4. player = [w \in Users |-> player[w]]
      BY <1>2 DEF Sane
    <3>5. QED
      BY <2>2, <3>2, <3>3, <3>4
  <2>3. QED
    BY <2>1, <2>2
<1>7. AtRest
  <2>1. CASE Return(u)
    BY <1>3, <2>1, Finished DEF Return
  <2>2. CASE Delete(u)
    <3>1. call[u].op \in Plays
      BY <1>2, <2>2 DEF Delete, Busy
    <3>2. QED
      BY <1>2, <3>1 DEF Busy, AtRest
  <2>3. QED
    BY <2>1, <2>2
<1>8. AtRest'
  BY <1>1, <1>7 DEF AtRest, Rest
<1>9. player' = [v \in Users |-> player'[v]]
  <2>1. player' = player \/ player' = [player EXCEPT ![u] = FALSE]
    BY DEF Return, Delete
  <2>2. QED
    BY <1>2, <2>1 DEF Sane
<1>10. Sane'
  BY <1>1, <1>2, <1>9 DEF Sane
<1>11. \A v \in Users : Busy(v)'
  BY <1>5, <1>6, Unbusy
<1>12. QED
  BY <1>8, <1>10, <1>11 DEF DoneInv

\* A command to the registers begins
LEMMA ControlBegins ==
  ASSUME NEW u \in Users, NEW c, c = call'[u], Fit(c), prog'[u] = Program(c), got'[u] = << >>, Rest'
  PROVE  Controlling(u)'
<1>1. PICK P, F : P = Program(c) /\ F = Frames(c)
  OBVIOUS
<1>2. PICK e : e = Lead(c)
  OBVIOUS
<1>3. Framed(P, e, F) /\ Len(F) > 0
  BY <1>1, <1>2, ProgramFramed
<1>4. PICK k \in Nat : k = Len(F) /\ k > 0 /\ e \in Nat
  BY <1>3 DEF Framed
<1>5. P \in Seq(Acc)
  BY <1>3 DEF Framed
<1>6. P = Left(P, 0)
  BY <1>5, LeftAll
<1>7. CASE e > 0
  <2>1. PICK p \in 0 .. e - 1 : p = 0
    BY <1>4, <1>7
  <2>2. prog'[u] = Left(P, p)
    BY <1>1, <1>6, <2>1
  <2>3. QED
    BY <1>1, <1>2, <2>2 DEF Controlling
<1>8. CASE e = 0
  <2>1. PICK q \in 1 .. k, r \in 0 .. 12 : q = 1 /\ r = 0
    BY <1>4
  <2>2. e + 13 * (q - 1) + r = 0
    BY <1>8, <2>1
  <2>3. prog'[u] = Left(P, e + 13 * (q - 1) + r)
    BY <1>1, <1>6, <2>2
  <2>4. Out(r) = 0 /\ In(r) = 0 /\ r \notin {5, 7, 9, 11} /\ r < 11 /\ r \notin 2 .. 12
    BY <2>1 DEF Out, In
  <2>5. InFrame(F[q], r)'
    <3>1. SubSeq(F[q], 1, 0) = << >>
      OBVIOUS
    <3>2. QED
      BY <2>4, <3>1 DEF InFrame, Rest
  <2>6. Reads(u, r)'
    <3>1. 3 .. 0 = {}
      OBVIOUS
    <3>2. Right(u, 0)'
      BY <3>1 DEF Right
    <3>3. Len(got'[u]) = 0
      BY EmptySeq
    <3>4. QED
      BY <2>4, <3>2, <3>3 DEF Reads
  <2>7. Latest(c.writes, q - 1)'
    <3>1. 1 .. q - 1 = {}
      BY <2>1
    <3>2. QED
      BY <3>1 DEF Latest
  <2>8. Stage(u, q, r)'
    BY <1>1, <2>4, <2>5, <2>6, <2>7 DEF Stage
  <2>9. QED
    BY <1>1, <1>2, <1>4, <2>3, <2>8 DEF Controlling
<1>9. QED
  BY <1>4, <1>7, <1>8

\* A reading of the converter begins
LEMMA MeasureBegins ==
  ASSUME NEW u \in Users, NEW c, c = call'[u], c.op = "value", c.mux \in Nat,
         prog'[u] = Program(c), got'[u] = << >>, shifted' = << >>, rxfifo' = << >>
  PROVE  Measuring(u)'
<1>1. PICK P : P = getADCValue(c.mux)
  OBVIOUS
<1>2. P \in Seq(Acc) /\ Program(c) = P
  BY <1>1, ValueFramed DEF Program
<1>3. P = Left(P, 0)
  BY <1>2, LeftAll
<1>4. PICK q \in 1 .. 2, r \in 0 .. 10 : q = 1 /\ r = 0
  OBVIOUS
<1>5. 11 * (q - 1) + r = 0
  BY <1>4
<1>6. prog'[u] = Left(Program(c), 11 * (q - 1) + r)
  BY <1>2, <1>3, <1>5
<1>7. Gone(0) = 0 /\ Back(0) = 0
  BY RoundCounts
<1>8. Len(got'[u]) = 4 * (q - 1) + Back(r)
  <2>1. Len(got'[u]) = 0
    BY EmptySeq
  <2>2. QED
    BY <1>4, <1>7, <2>1
<1>9. shifted' = SubSeq(Configured(c.mux), 1, Gone(r))
  <2>1. SubSeq(Configured(c.mux), 1, 0) = << >>
    OBVIOUS
  <2>2. QED
    BY <1>4, <1>7, <2>1
<1>10. q # 2 /\ r # 11 /\ r \notin 1 .. 9 /\ r \notin {2, 4, 6, 8}
  BY <1>4
<1>11. Round(u, q, r)'
  BY <1>8, <1>9, <1>10 DEF Round
<1>12. QED
  BY <1>6, <1>11 DEF Measuring

\* A command begins
LEMMA IssueDone ==
  ASSUME HearInv, DoneInv, ShellIdle, NEW u \in Users, Issue(u) PROVE DoneInv'
<1>1. PICK c \in Commands :
        /\ call' = [call EXCEPT ![u] = c] /\ prog' = [prog EXCEPT ![u] = Program(c)]
        /\ player' = [player EXCEPT ![u] = c.op = "play_sync"]
  BY DEF Issue
<1>2. /\ device' = device /\ softcs' = softcs /\ rxfifo' = rxfifo /\ shifted' = shifted
      /\ regs' = regs /\ sample' = sample /\ got' = [got EXCEPT ![u] = << >>]
  BY DEF Issue, busVars, chipVars
<1>3. Sane /\ AtRest /\ \A v \in Users : call[v] = Idle /\ Busy(v)
  BY DEF DoneInv, ShellIdle
<1>4. /\ call = [v \in Users |-> call[v]] /\ prog \in [Users -> Seq(Acc)]
      /\ player = [v \in Users |-> player[v]] /\ got \in [Users -> Seq(Nat)]
  BY <1>3 DEF HearInv, Sane
<1>5. /\ call'[u] = c /\ prog'[u] = Program(c) /\ got'[u] = << >>
      /\ player'[u] = (c.op = "play_sync")
      /\ player' = [v \in Users |-> player'[v]]
      /\ \A v \in Users : v # u => call'[v] = call[v] /\ player'[v] = player[v]
  BY <1>1, <1>2, <1>4
<1>6. got' \in [Users -> Seq(Nat)]
  BY <1>2, <1>4, EmptySeq
<1>7. Sane'
  BY <1>2, <1>3, <1>5, <1>6 DEF Sane
<1>8. AtRest'
  BY <1>2, <1>3 DEF AtRest, Rest
<1>9. \/ device = "codec" /\ c.op \in Plays
      \/ device = "codec" /\ c.op \in Controls /\ Fit(c)
      \/ device = "converter" /\ c.op = "value" /\ c.mux \in Nat
  BY <1>3, IssuedFit DEF Sane
<1>10. Busy(u)'
  <2>1. CASE device = "codec" /\ c.op \in Plays
    <3>1. Rest'
      BY <1>2, <1>8, <2>1 DEF AtRest
    <3>2. c.op \notin Controls /\ c.op # "value" /\ c.op # "idle"
      BY <2>1 DEF Plays, Controls
    <3>3. QED
      BY <1>2, <1>5, <2>1, <3>1, <3>2 DEF Busy
  <2>2. CASE device = "codec" /\ c.op \in Controls /\ Fit(c)
    <3>1. Rest'
      BY <1>2, <1>8, <2>2 DEF AtRest
    <3>2. Controlling(u)'
      BY <1>5, <2>2, <3>1, ControlBegins
    <3>3. c.op \notin Plays /\ c.op # "value" /\ c.op # "idle" /\ c.op # "play_sync"
      BY <2>2 DEF Plays, Controls
    <3>4. QED
      BY <1>2, <1>5, <2>2, <3>2, <3>3 DEF Busy
  <2>3. CASE device = "converter" /\ c.op = "value" /\ c.mux \in Nat
    <3>1. shifted' = << >> /\ rxfifo' = << >>
      BY <1>2, <1>8, <2>3 DEF AtRest
    <3>2. Measuring(u)'
      BY <1>5, <2>3, <3>1, MeasureBegins
    <3>3. c.op \notin Plays /\ c.op \notin Controls
      BY <2>3 DEF Plays, Controls
    <3>4. QED
      BY <1>2, <1>5, <2>3, <3>2, <3>3 DEF Busy
  <2>4. QED
    BY <1>9, <2>1, <2>2, <2>3
<1>11. ASSUME NEW v \in Users, v # u PROVE Busy(v)'
  <2>1. call'[v] = Idle /\ Idle.op \notin Plays
    BY <1>3, <1>5, <1>11 DEF Idle, Plays
  <2>2. ~player[v]
    BY <1>3, <2>1 DEF Busy
  <2>3. QED
    BY <1>5, <1>11, <2>1, <2>2, Unbusy
<1>12. QED
  BY <1>7, <1>8, <1>10, <1>11 DEF DoneInv

\* Nothing happens on the bus
LEMMA SameDone == ASSUME DoneInv, UNCHANGED spiVars PROVE DoneInv'
<1>1. /\ device' = device /\ softcs' = softcs /\ rxfifo' = rxfifo /\ call' = call
      /\ player' = player /\ prog' = prog /\ got' = got /\ shifted' = shifted /\ regs' = regs
      /\ sample' = sample
  BY DEF spiVars, busVars, userVars, chipVars
<1>2. Sane' /\ AtRest' = AtRest /\ ShellIdle' = ShellIdle /\ Rest' = Rest
  BY <1>1 DEF DoneInv, Sane, AtRest, Rest, ShellIdle
<1>3. ASSUME NEW v \in Users PROVE Busy(v)'
  <2>1. Does(v)' = Does(v)
    <3>1. heard' = heard
      BY DEF spiVars, chipVars
    <3>2. QED
      BY <1>1, <3>1 DEF Does
  <2>2. \A q, r : Stage(v, q, r)' = Stage(v, q, r)
    BY <1>1 DEF Stage, InFrame, Reads, Right, Latest
  <2>3. Controlling(v)' = Controlling(v)
    BY <1>1, <1>2, <2>1, <2>2 DEF Controlling
  <2>4. \A q, r : Round(v, q, r)' = Round(v, q, r)
    BY <1>1 DEF Round
  <2>5. Measuring(v)' = Measuring(v)
    BY <1>1, <2>1, <2>4 DEF Measuring
  <2>6. Busy(v)
    BY DEF DoneInv
  <2>7. QED
    BY <1>1, <1>2, <2>3, <2>5, <2>6 DEF Busy
<1>4. QED
  BY <1>2, <1>3 DEF DoneInv

\* Every step
LEMMA DoneStep ==
  ASSUME HearInv, DoneInv, [Next]_vars
  PROVE  DoneInv' /\ [\A u \in Users : call[u] # Idle /\ call'[u] = Idle /\ prog[u] = << >>
                                         => Does(u)]_spiVars
<1>1. DoneInv'
  <2>1. CASE Spi
    <3>1. CASE ShellIdle /\ SpiIssue
      BY <3>1, IssueDone DEF SpiIssue
    <3>2. CASE SpiRun
      BY <3>2, OverDone, TouchStep DEF SpiRun, Touch
    <3>3. QED
      BY <2>1, <3>1, <3>2 DEF Spi
  <2>2. CASE UNCHANGED spiVars
    BY <2>2, SameDone
  <2>3. QED
    BY <2>1, <2>2 DEF Next, vars
<1>2. QED
  BY <1>1, Finished

\* The beginning
LEMMA DoneInit == ASSUME Init PROVE DoneInv
<1>1. /\ device \in Devices /\ softcs = {} /\ rxfifo = << >> /\ call = [u \in Users |-> Idle]
      /\ player = [u \in Users |-> FALSE] /\ got = [u \in Users |-> << >>]
      /\ shifted = << >> /\ regs = [r \in Registers |-> <<0, 0>>] /\ sample = 0
  BY DEF Init, SpiInit
<1>2. << >> \in Seq(Nat)
  BY EmptySeq
<1>3. regs \in [Registers -> Words]
  <2>1. PICK v : v = <<0, 0>>
    OBVIOUS
  <2>2. v \in Seq(Nat) /\ Len(v) = 2
    BY <2>1
  <2>3. v \in Words
    BY <2>2 DEF Words
  <2>4. QED
    BY <1>1, <2>1, <2>3
<1>4. device \in {"codec", "converter"}
  BY <1>1, SpiAssumption
<1>5. Sane
  BY <1>1, <1>2, <1>3, <1>4 DEF Sane
<1>6. AtRest
  BY <1>1 DEF AtRest, Rest
<1>7. ASSUME NEW u \in Users PROVE Busy(u)
  <2>1. call[u] = Idle /\ ~player[u]
    BY <1>1
  <2>2. Idle.op = "idle" /\ "idle" \notin Plays /\ "idle" \notin Controls /\ "idle" # "value"
    BY DEF Idle, Plays, Controls
  <2>3. QED
    BY <2>1, <2>2 DEF Busy
<1>8. QED
  BY <1>5, <1>6, <1>7 DEF DoneInv

\* What a command of the codec or of the converter has done when it returns is
\* what it was called for: registers written hold what was written, a register
\* read is the register while the FIFO is in step, a chunk went out to its last
\* byte (also by a player that had come to its loop when it was deleted), and a
\* value belongs to the input that was asked for, after any number of commands
\* and wherever players were deleted before.
THEOREM DoesWhatItSays == Spec => Done
<1>1. Init => HearInv /\ DoneInv
  BY HearInit, DoneInit
<1>2. HearInv /\ DoneInv /\ [Next]_vars => HearInv' /\ DoneInv'
  BY HearStep, DoneStep
<1>3. HearInv /\ DoneInv /\ [Next]_vars
      => [\A u \in Users : call[u] # Idle /\ call'[u] = Idle /\ prog[u] = << >>
                             => Does(u)]_spiVars
  BY DoneStep
<1>4. QED
  BY <1>1, <1>2, <1>3, PTL DEF Spec, Done

===============================================================================
