--------------------------- MODULE MorseJudgeProofs ---------------------------
(***************************************************************************)
(* MorseJudge for every recording and all thresholds: the type invariant,   *)
(* the order of the edges, and the rate of the words, from which follows    *)
(* how long a recording may be before jud[200] overflows; and the place of  *)
(* the start word in what the decoder of MorseLink judges.                  *)
(***************************************************************************)
EXTENDS MorseLink, TLAPS

Word == {START, DIAN, HUA, ZIFU_KONG, CI_KONG}

\* The thresholds are natural numbers (JudgeAssumption, one fact for each).
LEMMA Thresholds ==
  /\ DotMin \in Nat /\ DashMin \in Nat /\ DashMax \in Nat
  /\ CharGap \in Nat /\ WordGap \in Nat /\ JudSize \in Nat /\ Q \in Nat \ {0}
  /\ Q <= DotMin /\ DotMin < DashMin /\ Q <= CharGap + 1 /\ 3 * Q <= WordGap + 1
BY JudgeAssumption

\* A mark yields at most one word, and if it yields one it has Q frames.
LEMMA MarkWordsRate ==
  ASSUME NEW H \in Nat \ {0}
  PROVE  /\ MarkWords(H) \in Seq(Word)
         /\ MarkWords(H) = << >> \/ (Len(MarkWords(H)) = 1 /\ Q <= H)
<1>1. CASE DotMin <= H /\ H < DashMin
  BY <1>1, Thresholds DEF MarkWords, Word
<1>2. CASE ~(DotMin <= H /\ H < DashMin) /\ DashMin <= H /\ H < DashMax
  <2>1. MarkWords(H) = <<HUA>>
    BY <1>2 DEF MarkWords
  <2>2. <<HUA>> \in Seq(Word) /\ Len(<<HUA>>) = 1
    BY DEF Word
  <2>3. Q <= H
    BY <1>2, Thresholds
  <2>4. QED
    BY <2>1, <2>2, <2>3
<1>3. CASE ~(DotMin <= H /\ H < DashMin) /\ ~(DashMin <= H /\ H < DashMax)
  BY <1>3 DEF MarkWords, Word
<1>4. QED
  BY <1>1, <1>2, <1>3

\* A gap yields none, one or three words, at least Q frames for each.
LEMMA GapWordsRate ==
  ASSUME NEW L \in Nat \ {0}
  PROVE  /\ GapWords(L) \in Seq(Word)
         /\ \/ GapWords(L) = << >>
            \/ Len(GapWords(L)) = 1 /\ Q <= L
            \/ Len(GapWords(L)) = 3 /\ 3 * Q <= L
<1>1. CASE CharGap < L /\ L <= WordGap
  BY <1>1, Thresholds DEF GapWords, Word
<1>2. CASE ~(CharGap < L /\ L <= WordGap) /\ WordGap < L
  <2>1. GapWords(L) = <<ZIFU_KONG, CI_KONG, ZIFU_KONG>>
    BY <1>2 DEF GapWords
  <2>2. /\ <<ZIFU_KONG, CI_KONG, ZIFU_KONG>> \in Seq(Word)
        /\ Len(<<ZIFU_KONG, CI_KONG, ZIFU_KONG>>) = 3
    BY DEF Word
  <2>3. 3 * Q <= L
    BY <1>2, Thresholds
  <2>4. QED
    BY <2>1, <2>2, <2>3
<1>3. CASE ~(CharGap < L /\ L <= WordGap) /\ ~(WordGap < L)
  BY <1>3 DEF GapWords, Word
<1>4. QED
  BY <1>1, <1>2, <1>3

\* The inductive invariant: types, order of the edges and rate together; the
\* rate is only inductive when it is measured at the last edge, and only
\* with the order of the edges are the frames of a mark disjoint from those
\* of the gaps around it.
IInv == TypeOK /\ EdgesOrdered /\ JudgeRate
-----------------------------------------------------------------------------
\* At the start there is no edge and nothing is judged
LEMMA InitIInv == Init => IInv
<1> SUFFICES ASSUME Init PROVE IInv
  OBVIOUS
<1>1. En \in Seq(Level)
  BY JudgeAssumption DEF Init
<1>2. TypeOK
  <2>1. Len(En) \in Nat
    BY <1>1
  <2>2. jud \in Seq(Word)
    BY DEF Init, Start, Word
  <2>3. i \in 0 .. Len(En) /\ m \in -1 .. Len(En) /\ n \in -1 .. Len(En)
    BY <2>1 DEF Init, Start
  <2>4. En \in Seq(Level) /\ sta \in 0 .. 2
    BY <1>1 DEF Init, Start
  <2>5. st \in BOOLEAN
    BY Zenon DEF Init, Start
  <2>6. QED
    BY <2>2, <2>3, <2>4, <2>5, Zenon DEF TypeOK, Word
<1>3. EdgesOrdered
  BY DEF Init, Start, EdgesOrdered
<1>4. JudgeRate
  BY Thresholds DEF Init, Start, JudgeRate
<1>5. QED
  BY <1>2, <1>3, <1>4 DEF IInv

\* What a step of one frame does to the recording and its position.
LEMMA FrameStep ==
  ASSUME TypeOK, NEW level, Frame(level)
  PROVE  /\ En' = En /\ Len(En) \in Nat
         /\ i \in Nat /\ i < Len(En) /\ i' = i + 1 /\ i' \in 0 .. Len(En')
<1>1. En \in Seq(Level)
  BY DEF TypeOK
<1>2. QED
  BY <1>1 DEF TypeOK, Frame

\* The first loud frame
LEMMA FirstRiseIInv == IInv /\ FirstRise => IInv'
<1> SUFFICES ASSUME IInv, FirstRise PROVE IInv'
  OBVIOUS
<1> USE DEF IInv
<1>1. /\ En' = En /\ Len(En) \in Nat
      /\ i \in Nat /\ i < Len(En) /\ i' = i + 1 /\ i' \in 0 .. Len(En')
  BY FrameStep DEF FirstRise
<1>2. TypeOK'
  BY <1>1 DEF TypeOK, FirstRise
<1>3. EdgesOrdered'
  BY <1>1 DEF TypeOK, EdgesOrdered, FirstRise
<1>4. JudgeRate'
  <2> DEFINE B == IF st THEN 1 ELSE 0
  <2>1. sta = 0 /\ sta' = 1 /\ m' = i /\ st' = st /\ jud' = << >>
    BY DEF EdgesOrdered, FirstRise
  <2>2. Q * (Len(jud') - B) <= i
    <3>1. Len(jud') = 0
      BY <2>1
    <3>2. B = 0 \/ B = 1
      BY Zenon
    <3> HIDE DEF B
    <3>3. QED
      BY <1>1, <3>1, <3>2, Thresholds
  <2>3. QED
    BY <2>1, <2>2 DEF JudgeRate
<1>5. QED
  BY <1>2, <1>3, <1>4

\* A frame that is no edge
LEMMA HoldIInv == IInv /\ Hold => IInv'
<1> SUFFICES ASSUME IInv, Hold PROVE IInv'
  OBVIOUS
<1> USE DEF IInv
<1>1. /\ En' = En /\ Len(En) \in Nat
      /\ i \in Nat /\ i < Len(En) /\ i' = i + 1 /\ i' \in 0 .. Len(En')
  BY FrameStep DEF Hold
<1>2. sta' = sta /\ st' = st /\ m' = m /\ n' = n /\ jud' = jud
  BY DEF Hold
<1>3. TypeOK'
  BY <1>1, <1>2 DEF TypeOK
<1>4. EdgesOrdered'
  BY <1>1, <1>2 DEF TypeOK, EdgesOrdered
<1>5. JudgeRate'
  BY <1>2 DEF JudgeRate
<1>6. QED
  BY <1>3, <1>4, <1>5

\* A mark of H frames ends at frame i = m + H.
LEMMA FallIInv == IInv /\ Fall => IInv'
<1> SUFFICES ASSUME IInv, Fall PROVE IInv'
  OBVIOUS
<1> USE DEF IInv
<1>1. /\ En' = En /\ Len(En) \in Nat
      /\ i \in Nat /\ i < Len(En) /\ i' = i + 1 /\ i' \in 0 .. Len(En')
  BY FrameStep DEF Fall
<1>2. sta = 1 /\ sta' = 2 /\ n' = i /\ m' = m
  BY DEF Fall
<1>3. m \in Nat /\ i - m \in Nat \ {0}
  BY <1>1, <1>2 DEF TypeOK, EdgesOrdered
<1> DEFINE words == MarkWords(i - m)
           head  == IF words # << >> /\ ~st THEN <<START>> ELSE << >>
<1>4. /\ words \in Seq(Word)
      /\ words = << >> \/ (Len(words) = 1 /\ Q <= i - m)
  BY <1>3, MarkWordsRate
<1>5. jud' = jud \o head \o words /\ st' = (st \/ words # << >>)
  BY DEF Fall
<1>6. head \in Seq(Word) /\ Len(head) \in Nat
  <2>1. << >> \in Seq(Word) /\ <<START>> \in Seq(Word)
    BY DEF Word
  <2>2. head = << >> \/ head = <<START>>
    BY Zenon
  <2>3. QED
    BY <2>1, <2>2
<1>7. jud \in Seq(Word) /\ Len(jud) \in Nat
  BY DEF TypeOK, Word
<1>8. jud' \in Seq(Word) /\ Len(jud') = Len(jud) + Len(head) + Len(words)
  <2> HIDE DEF words, head
  <2>1. jud \o head \in Seq(Word) /\ Len(jud \o head) = Len(jud) + Len(head)
    BY <1>6, <1>7
  <2>2. QED
    BY <2>1, <1>4, <1>5
<1>9. TypeOK'
  <2>1. st' \in BOOLEAN
    BY <1>5, Zenon DEF TypeOK
  <2>2. m' \in -1 .. Len(En') /\ n' \in -1 .. Len(En')
    BY <1>1, <1>2 DEF TypeOK
  <2>3. En' \in Seq(Level) /\ sta' \in 0 .. 2 /\ i' \in 0 .. Len(En')
    BY <1>1, <1>2 DEF TypeOK
  <2>4. QED
    BY <1>8, <2>1, <2>2, <2>3, Zenon DEF TypeOK, Word
<1>10. EdgesOrdered'
  BY <1>1, <1>2, <1>3 DEF EdgesOrdered
<1>11. JudgeRate'
  <2> DEFINE B  == IF st THEN 1 ELSE 0
             B2 == IF st' THEN 1 ELSE 0
  <2>0. B \in Int
    <3>1. B = 0 \/ B = 1
      BY Zenon
    <3>2. QED
      BY <3>1
  <2>1. Q * (Len(jud) - B) <= m
    BY <1>2 DEF JudgeRate
  <2>2. CASE words = << >>
    <3>1. head = << >> /\ (st' <=> st)
      BY <2>2, <1>5, Zenon
    <3>2. Len(jud') = Len(jud)
      BY <3>1, <2>2, <1>7, <1>8
    <3>3. B2 = B
      BY <3>1, Zenon
    <3>4. Q * (Len(jud') - B2) <= n'
      BY <3>2, <3>3, <2>1, <1>1, <1>2, <1>3, <1>7, Thresholds
    <3>5. QED
      BY <3>4, <1>2 DEF JudgeRate
  <2>3. CASE words # << >>
    <3>1. st'
      BY <2>3, <1>5, Zenon
    <3>2. B2 = 1
      BY <3>1, Zenon
    <3>3. ASSUME st PROVE Len(jud') - B2 = Len(jud) - B + 1
      <4>1. head = << >> /\ B = 1
        BY <3>3, Zenon
      <4>2. Len(head) = 0
        BY <4>1
      <4>3. Len(words) = 1
        BY <2>3, <1>4
      <4> HIDE DEF head, words, B, B2
      <4>4. QED
        BY <4>1, <4>2, <4>3, <3>2, <1>7, <1>8
    <3>4. ASSUME ~st PROVE Len(jud') - B2 = Len(jud) - B + 1
      <4>1. head = <<START>> /\ B = 0
        BY <3>4, <2>3, Zenon
      <4>2. Len(head) = 1
        BY <4>1
      <4>3. Len(words) = 1
        BY <2>3, <1>4
      <4> HIDE DEF head, words, B, B2
      <4>4. QED
        BY <4>1, <4>2, <4>3, <3>2, <1>7, <1>8
    <3>5. Len(jud') - B2 = Len(jud) - B + 1
      BY <3>3, <3>4
    <3>6. Q <= i - m
      BY <2>3, <1>4
    <3> HIDE DEF head, words, B, B2
    <3>7. Q * (Len(jud') - B2) <= n'
      <4> DEFINE r == Len(jud) - B
      <4>1. r \in Int
        BY <2>0, <1>7
      <4>2. Len(jud') - B2 = r + 1 /\ Q * r <= m /\ n' = i
        BY <3>5, <2>1, <1>2
      <4> HIDE DEF r
      <4>3. Q * (r + 1) = Q * r + Q /\ Q * r \in Int
        BY <4>1, Thresholds
      <4>4. QED
        BY <4>2, <4>3, <3>6, <1>1, <1>3, Thresholds
    <3>8. QED
      BY <3>7, <1>2 DEF JudgeRate, B2
  <2>4. QED
    BY <2>2, <2>3
<1>12. QED
  BY <1>9, <1>10, <1>11

\* A gap of L frames ends at frame i = n + L.
LEMMA RiseIInv == IInv /\ Rise => IInv'
<1> SUFFICES ASSUME IInv, Rise PROVE IInv'
  OBVIOUS
<1> USE DEF IInv
<1>1. /\ En' = En /\ Len(En) \in Nat
      /\ i \in Nat /\ i < Len(En) /\ i' = i + 1 /\ i' \in 0 .. Len(En')
  BY FrameStep DEF Rise
<1>2. sta = 2 /\ sta' = 1 /\ m' = i /\ n' = n /\ st' = st
  BY DEF Rise
<1>3. n \in Nat /\ i - n \in Nat \ {0}
  BY <1>1, <1>2 DEF TypeOK, EdgesOrdered
<1> DEFINE words == GapWords(i - n)
<1>4. /\ words \in Seq(Word) /\ Len(words) \in Nat
      /\ \/ words = << >>
         \/ Len(words) = 1 /\ Q <= i - n
         \/ Len(words) = 3 /\ 3 * Q <= i - n
  BY <1>3, GapWordsRate
<1>5. jud' = jud \o words
  BY DEF Rise
<1>6. jud \in Seq(Word) /\ Len(jud) \in Nat
  BY DEF TypeOK, Word
<1>7. jud' \in Seq(Word) /\ Len(jud') = Len(jud) + Len(words)
  <2> HIDE DEF words
  <2> QED
    BY <1>4, <1>5, <1>6
<1>8. TypeOK'
  <2>1. m' \in -1 .. Len(En') /\ n' \in -1 .. Len(En')
    BY <1>1, <1>2 DEF TypeOK
  <2>2. En' \in Seq(Level) /\ sta' \in 0 .. 2 /\ i' \in 0 .. Len(En')
    BY <1>1, <1>2 DEF TypeOK
  <2>3. st' \in BOOLEAN
    BY <1>2, Zenon DEF TypeOK
  <2>4. QED
    BY <1>7, <2>1, <2>2, <2>3, Zenon DEF TypeOK, Word
<1>9. EdgesOrdered'
  BY <1>1, <1>2, <1>3 DEF EdgesOrdered
<1>10. JudgeRate'
  <2> DEFINE B == IF st THEN 1 ELSE 0
  <2>1. B \in 0 .. 1
    <3>1. B = 0 \/ B = 1
      BY Zenon
    <3>2. QED
      BY <3>1
  <2> HIDE DEF words
  <2>2. JudgeRate' <=> Q * (Len(jud') - B) <= i
    BY <1>2 DEF JudgeRate
  <2>3. Q * (Len(jud) - B) <= n
    BY <1>2 DEF JudgeRate
  <2> HIDE DEF B
  <2>4. /\ Q * (Len(jud) + 1 - B) = Q * (Len(jud) - B) + Q
        /\ Q * (Len(jud) + 3 - B) = Q * (Len(jud) - B) + 3 * Q
    BY <2>1, <1>6, Thresholds
  <2>5. CASE words = << >>
    BY <2>1, <2>2, <2>3, <2>5, <1>1, <1>3, <1>6, <1>7, Thresholds
  <2>6. CASE Len(words) = 1 /\ Q <= i - n
    BY <2>1, <2>2, <2>3, <2>4, <2>6, <1>1, <1>3, <1>6, <1>7, Thresholds
  <2>7. CASE Len(words) = 3 /\ 3 * Q <= i - n
    BY <2>1, <2>2, <2>3, <2>4, <2>7, <1>1, <1>3, <1>6, <1>7, Thresholds
  <2>8. QED
    BY <1>4, <2>5, <2>6, <2>7
<1>11. QED
  BY <1>8, <1>9, <1>10

\* Every frame keeps the invariant
LEMMA StepIInv == IInv /\ [JudgeStep]_judgeVars => IInv'
<1> SUFFICES ASSUME IInv, [JudgeStep]_judgeVars PROVE IInv'
  OBVIOUS
<1>1. CASE UNCHANGED judgeVars
  BY <1>1 DEF judgeVars, IInv, TypeOK, EdgesOrdered, JudgeRate
<1>2. QED
  BY <1>1, FirstRiseIInv, FallIInv, RiseIInv, HoldIInv DEF JudgeStep
-----------------------------------------------------------------------------
\* The types of the judgement loop (morse_decode.c:106-178), for every
\* recording: in particular only the five words the display knows are judged.
THEOREM TypeCorrect == Spec => []TypeOK
<1>1. IInv => TypeOK
  BY DEF IInv
<1>2. QED
  BY <1>1, InitIInv, StepIInv, PTL DEF Spec

\* The uninitialised m and n are never read before they are set, and every
\* mark and gap that is judged has a positive length.
THEOREM EdgesAlwaysOrdered == Spec => []EdgesOrdered
<1>1. IInv => EdgesOrdered
  BY DEF IInv
<1>2. QED
  BY <1>1, InitIInv, StepIInv, PTL DEF Spec

\* Every word but the start word has cost at least Q frames of recording.
THEOREM WordsCostFrames == Spec => []JudgeRate
<1>1. IInv => JudgeRate
  BY DEF IInv
<1>2. QED
  BY <1>1, InitIInv, StepIInv, PTL DEF Spec

\* What a recording may at most be for jud[200] to hold its judgement.
THEOREM JudgementFits == Spec => []JudFits
<1>1. IInv => JudFits
  <2> SUFFICES ASSUME IInv, Len(En) <= Q * (JudSize - 1)
               PROVE  Len(jud) <= JudSize
    BY DEF JudFits
  <2> USE DEF IInv
  <2> DEFINE B == IF st THEN 1 ELSE 0
             F == CASE sta = 0 -> 0 [] sta = 1 -> m [] sta = 2 -> n
  <2>1. Len(jud) \in Nat /\ Len(En) \in Nat
    <3>1. En \in Seq(Level)
      BY DEF TypeOK
    <3>2. QED
      BY <3>1 DEF TypeOK
  <2>2. B = 0 \/ B = 1
    BY Zenon
  <2>3. Q * (Len(jud) - B) <= F
    BY DEF JudgeRate
  <2>4. F \in Int /\ F <= Len(En)
    BY <2>1 DEF TypeOK, EdgesOrdered
  <2> HIDE DEF B, F
  <2>5. SUFFICES ASSUME Len(jud) > JudSize PROVE FALSE
    BY <2>1, Thresholds
  <2>6. Len(jud) - B >= JudSize
    BY <2>1, <2>2, <2>5, Thresholds
  <2>7. Q * (Len(jud) - B) >= Q * JudSize
    BY <2>1, <2>2, <2>6, Thresholds
  <2>8. Q * (JudSize - 1) < Q * JudSize
    BY Thresholds
  <2>9. QED
    BY <2>1, <2>2, <2>3, <2>4, <2>7, <2>8, Thresholds
<1>2. QED
  BY <1>1, InitIInv, StepIInv, PTL DEF Spec
-----------------------------------------------------------------------------
(***************************************************************************)
(* The start word, for every recording, however it came about. What was    *)
(* judged is a sequence of words; before the first mark they are gaps.     *)
(***************************************************************************)

Mark == {DIAN, HUA}
Gap  == {ZIFU_KONG, CI_KONG}

StartInv ==
  /\ jud \in Seq(Word)
  /\ st => \E k \in 1 .. Len(jud) : jud[k] \in Mark
  /\ ~st => \A k \in 1 .. Len(jud) : jud[k] \in Gap
  /\ StartBeforeFirstMark

\* What is judged of a mark and of a gap, whatever its length.
LEMMA MarkIsMark ==
  ASSUME NEW H
  PROVE  MarkWords(H) = << >> \/ \E w \in Mark : MarkWords(H) = <<w>>
BY DEF MarkWords, Mark

\* What is judged of a gap are words of gaps
LEMMA GapIsGap ==
  ASSUME NEW L
  PROVE  /\ GapWords(L) \in Seq(Gap)
         /\ \A k \in 1 .. Len(GapWords(L)) : GapWords(L)[k] \in Gap
<1>1. GapWords(L) \in {<< >>, <<ZIFU_KONG>>, <<ZIFU_KONG, CI_KONG, ZIFU_KONG>>}
  BY Zenon DEF GapWords
<1>2. << >> \in Seq(Gap) /\ <<ZIFU_KONG>> \in Seq(Gap)
  BY DEF Gap
<1>3. <<ZIFU_KONG, CI_KONG, ZIFU_KONG>> \in Seq(Gap)
  BY DEF Gap
<1>4. GapWords(L) \in Seq(Gap)
  BY <1>1, <1>2, <1>3, Zenon
<1>5. QED
  BY <1>4

\* Marks, gaps and the start word are different words
LEMMA Values ==
  /\ Mark \subseteq Word /\ Gap \subseteq Word
  /\ START \in Word \ (Mark \cup Gap) /\ Mark \cap Gap = {}
BY DEF Mark, Gap, Word, START, DIAN, HUA, ZIFU_KONG, CI_KONG

\* Gaps before the first mark, or anything but a start word after it.
LEMMA More ==
  ASSUME StartInv, NEW words \in Seq(Mark \cup Gap), jud' = jud \o words, st' = st,
         ~st => words \in Seq(Gap)
  PROVE  StartInv'
<1>1. jud \in Seq(Word) /\ words \in Seq(Word)
  BY Values DEF StartInv
<1>2. /\ jud' \in Seq(Word) /\ Len(jud') = Len(jud) + Len(words)
      /\ Len(jud) \in Nat /\ Len(words) \in Nat
      /\ \A k \in 1 .. Len(jud) : jud'[k] = jud[k]
      /\ \A k \in Len(jud) + 1 .. Len(jud') :
           k - Len(jud) \in 1 .. Len(words) /\ jud'[k] = words[k - Len(jud)]
  BY <1>1
<1>3. \A k \in Len(jud) + 1 .. Len(jud') : jud'[k] \in Mark \cup Gap
  BY <1>2
<1>4. CASE st
  <2>1. PICK f \in 1 .. Len(jud) : jud[f] \in Mark
    BY <1>4 DEF StartInv
  <2>2. f \in 1 .. Len(jud') /\ jud'[f] \in Mark
    BY <1>2, <2>1
  <2>3. ASSUME NEW k \in DOMAIN jud'
        PROVE  (jud'[k] = START) <=> /\ k < Len(jud') /\ jud'[k + 1] \in Mark
                                     /\ \A p \in 1 .. k : jud'[p] \notin Mark
    <3>0. k \in 1 .. Len(jud')
      BY <1>2, <2>3
    <3>1. CASE k < Len(jud)
      <4>1. k \in DOMAIN jud /\ k + 1 \in 1 .. Len(jud) /\ \A p \in 1 .. k : p \in 1 .. Len(jud)
        BY <1>1, <1>2, <3>0, <3>1
      <4>2. (jud[k] = START) <=> /\ k < Len(jud) /\ jud[k + 1] \in Mark
                                 /\ \A p \in 1 .. k : jud[p] \notin Mark
        BY <4>1 DEF StartInv, StartBeforeFirstMark, Mark
      <4>3. k < Len(jud')
        BY <1>2, <3>0, <3>1
      <4>4. QED
        BY <1>2, <3>0, <3>1, <4>1, <4>2, <4>3
    <3>2. CASE k = Len(jud)
      <4>1. jud[k] # START
        BY <1>1, <3>0, <3>2 DEF StartInv, StartBeforeFirstMark
      <4>2. QED
        BY <1>2, <2>1, <2>2, <3>0, <3>2, <4>1
    <3>3. CASE k > Len(jud)
      <4>1. jud'[k] # START
        BY <1>2, <1>3, <3>0, <3>3, Values
      <4>2. f \in 1 .. k
        BY <1>2, <3>0, <3>3
      <4>3. QED
        BY <2>2, <4>1, <4>2
    <3>4. QED
      BY <1>2, <3>0, <3>1, <3>2, <3>3
  <2>4. QED
    BY <1>2, <1>4, <2>2, <2>3 DEF StartInv, StartBeforeFirstMark, Mark
<1>5. CASE ~st
  <2>1. \A k \in 1 .. Len(jud') : jud'[k] \in Gap
    BY <1>2, <1>5 DEF StartInv
  <2>2. ASSUME NEW k \in DOMAIN jud'
        PROVE  jud'[k] # START /\ ~(k < Len(jud') /\ jud'[k + 1] \in Mark)
    BY <1>2, <2>1, <2>2, Values
  <2>3. QED
    BY <1>2, <1>5, <2>1, <2>2 DEF StartInv, StartBeforeFirstMark, Mark
<1>6. QED
  BY <1>4, <1>5

\* The first mark, with the start word before it.
LEMMA FirstMark ==
  ASSUME StartInv, ~st, st', NEW w \in Mark, jud' = (jud \o <<START>>) \o <<w>>
  PROVE  StartInv'
<1>1. jud \in Seq(Word) /\ <<START>> \in Seq(Word) /\ <<w>> \in Seq(Word)
  BY Values DEF StartInv
<1>2. /\ jud' \in Seq(Word) /\ Len(jud) \in Nat /\ Len(jud') = Len(jud) + 2
      /\ \A k \in 1 .. Len(jud) : jud'[k] = jud[k]
      /\ jud'[Len(jud) + 1] = START /\ jud'[Len(jud) + 2] = w
  BY <1>1
<1>3. \A k \in 1 .. Len(jud) : jud'[k] \in Gap
  BY <1>2 DEF StartInv
<1>4. \A p \in 1 .. Len(jud) + 1 : jud'[p] \notin Mark
  BY <1>2, <1>3, Values
<1>5. ASSUME NEW k \in DOMAIN jud'
      PROVE  (jud'[k] = START) <=> /\ k < Len(jud') /\ jud'[k + 1] \in Mark
                                   /\ \A p \in 1 .. k : jud'[p] \notin Mark
  <2>1. k \in 1 .. Len(jud) + 2
    BY <1>2, <1>5
  <2>2. CASE k \in 1 .. Len(jud)
    <3>1. jud'[k] # START
      BY <1>3, <2>2, Values
    <3>2. k + 1 \in 1 .. Len(jud) + 1
      BY <1>2, <2>2
    <3>3. QED
      BY <1>4, <3>1, <3>2
  <2>3. CASE k = Len(jud) + 1
    BY <1>2, <1>4, <2>3
  <2>4. CASE k = Len(jud) + 2
    BY <1>2, <2>4, Values
  <2>5. k \in 1 .. Len(jud) \/ k = Len(jud) + 1 \/ k = Len(jud) + 2
    <3>1. Len(jud) \in Nat
      BY <1>2
    <3>2. QED
      BY <2>1, <3>1
  <2>6. QED
    BY <2>2, <2>3, <2>4, <2>5, Zenon
<1>6. Len(jud) + 2 \in 1 .. Len(jud') /\ jud'[Len(jud) + 2] \in Mark
  BY <1>2
<1>7. QED
  BY <1>2, <1>5, <1>6 DEF StartInv, StartBeforeFirstMark, Mark

\* Every frame keeps the start word in its place
LEMMA JudgeStarts == StartInv /\ JudgeStep => StartInv'
<1> SUFFICES ASSUME StartInv, JudgeStep PROVE StartInv'
  OBVIOUS
<1>0. << >> \in Seq(Mark \cup Gap) /\ << >> \in Seq(Gap) /\ jud \in Seq(Word) /\ jud \o << >> = jud
  BY DEF StartInv
<1>1. CASE FirstRise \/ Hold
  <2>1. jud' = jud /\ st' = st
    BY <1>1 DEF FirstRise, Hold
  <2>2. QED
    BY <1>0, <2>1, More
<1>2. CASE Rise
  <2> DEFINE words == GapWords(i - n)
  <2>1. words \in Seq(Gap) /\ jud' = jud \o words /\ st' = st
    BY <1>2, GapIsGap DEF Rise
  <2> HIDE DEF words
  <2>2. words \in Seq(Mark \cup Gap)
    BY <2>1
  <2>3. QED
    BY <2>1, <2>2, More
<1>3. CASE Fall
  <2> DEFINE words == MarkWords(i - m)
             head  == IF words # << >> /\ ~st THEN <<START>> ELSE << >>
  <2>1. jud' = (jud \o head) \o words /\ (st' <=> st \/ words # << >>)
    BY <1>3, Zenon DEF Fall
  <2>2. st' = (st \/ words # << >>)
    BY <1>3 DEF Fall
  <2>3. words = << >> \/ \E w \in Mark : words = <<w>>
    BY MarkIsMark
  <2>4. CASE words = << >>
    <3>1. head = << >> /\ (st' <=> st)
      BY <2>1, <2>4, Zenon
    <3>2. jud' = jud
      BY <1>0, <2>1, <2>4, <3>1
    <3>3. StartInv'
      BY <3>1, <3>2, Zenon DEF StartInv, StartBeforeFirstMark
    <3>4. QED
      BY <3>3
  <2>5. ASSUME NEW w \in Mark, words = <<w>> PROVE StartInv'
    <3>0. words # << >>
      BY <2>5
    <3>1. CASE st
      <4>1. head = << >> /\ (st' <=> st)
        BY <2>1, <3>0, <3>1, Zenon
      <4>2. jud' = jud \o words
        BY <1>0, <2>1, <4>1, Zenon
      <4>3. <<w>> \in Seq(Mark \cup Gap)
        OBVIOUS
      <4>4. words \in Seq(Mark \cup Gap)
        BY <2>5, <4>3
      <4> HIDE DEF words
      <4>5. QED
        BY <3>1, <4>1, <4>2, <4>4, More
    <3>2. CASE ~st
      <4>1. head = <<START>> /\ st'
        BY <2>1, <3>0, <3>2, Zenon
      <4>2. QED
        BY <2>1, <2>5, <3>2, <4>1, FirstMark
    <3>3. QED
      BY <3>1, <3>2
  <2>6. QED
    BY <2>3, <2>4, <2>5
<1>4. QED
  BY <1>1, <1>2, <1>3 DEF JudgeStep

\* The start word stands before the first mark that was judged and nowhere
\* else (morse_decode.c:159, :357), in every judgement the decoder hands to
\* inverse_translate, of keyed texts and of noise.
THEOREM StartOnce == LinkSpec => []StartBeforeFirstMark
<1>1. LinkInit => StartInv
  <2> SUFFICES ASSUME LinkInit PROVE StartInv
    OBVIOUS
  <2>1. jud = << >> /\ ~st
    BY DEF LinkInit, Start
  <2>2. jud \in Seq(Word) /\ Len(jud) = 0
    BY <2>1
  <2>3. DOMAIN jud = {}
    BY <2>1
  <2>4. QED
    BY <2>1, <2>2, <2>3 DEF StartInv, StartBeforeFirstMark
<1>2. StartInv /\ [LinkNext]_linkVars => StartInv'
  <2> SUFFICES ASSUME StartInv, [LinkNext]_linkVars PROVE StartInv'
    OBVIOUS
  <2>1. CASE JudgeStep
    BY <2>1, JudgeStarts
  <2>2. CASE UNCHANGED <<jud, st>>
    BY <2>2 DEF StartInv, StartBeforeFirstMark
  <2>3. QED
    BY <2>1, <2>2 DEF LinkNext, DecoderNext, Judge, Display, judgeVars, linkVars
<1>3. StartInv => StartBeforeFirstMark
  BY DEF StartInv
<1>4. QED
  BY <1>1, <1>2, <1>3, PTL DEF LinkSpec
==============================================================================
