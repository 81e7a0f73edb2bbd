----------------------------- MODULE MorseJudge -----------------------------
(***************************************************************************)
(* The judgement loop of ls2kdev_record/applications/morse/morse_decode.c:  *)
(* morse_process_once_thread and morse_process_test_thread turn the energy  *)
(* of each frame of a recording into the words of jud[200].  The two        *)
(* threads have the same loop and differ in the thresholds, which are       *)
(* constants here:                                                          *)
(*     once:  10 <= H < 35 dot,  35 <= H < 50 dash,  L > 6,  L > 15         *)
(*     test:   3 <= H < 10 dot,  10 <= H < 20 dash,  L > 8,  L > 60         *)
(* A frame is "hi" when En[i] > T, "lo" when En[i] < T and "eq" otherwise.  *)
(***************************************************************************)
EXTENDS MorseCode

CONSTANTS Signals,   \* the recordings: sequences of frame levels
          DotMin, DashMin, DashMax, CharGap, WordGap,  \* the thresholds
          JudSize,   \* the size of jud, 200 in the code
          Q          \* frames of recording a word of jud costs at least

Level == {"hi", "lo", "eq"}

ASSUME JudgeAssumption ==
  /\ Signals \subseteq Seq(Level)
  /\ {DotMin, DashMin, DashMax, CharGap, WordGap, JudSize} \subseteq Nat
  /\ 0 < DotMin /\ DotMin < DashMin /\ DashMin < DashMax /\ CharGap < WordGap
  /\ Q \in Nat \ {0}
  /\ Q <= DotMin /\ Q <= CharGap + 1 /\ 3 * Q <= WordGap + 1

\* The first word of every judgement (morse_code.h of ls2kdev_record).
START == 1

VARIABLES
  En,     \* the levels of the frames; En[i + 1] is the code's En[i]
  i,      \* the next frame
  sta,    \* 0 nothing heard yet, 1 in a mark, 2 in a gap
  st,     \* has a mark been judged?
  m, n,   \* the frame the last mark began at, and the one it ended at
  jud     \* the words judged so far; its length is the code's k

judgeVars == <<En, i, sta, st, m, n, jud>>

\* The loop starts with jud cleared; m and n are not initialised, which -1
\* stands for: EdgesOrdered says that they are not read before they are set.
Start ==
  /\ i = 0 /\ sta = 0 /\ st = FALSE
  /\ m = -1 /\ n = -1
  /\ jud = << >>

Init == En \in Signals /\ Start
-----------------------------------------------------------------------------
\* Mutant: a mark may be as short as it likes.
MarkWordsGlitch(H) ==
  IF H < DashMin THEN <<DIAN>>
  ELSE IF H < DashMax THEN <<HUA>>
  ELSE << >>

\* The word of a mark of H frames; a mark too short or too long has none.
MarkWords(H) ==
  IF DotMin <= H /\ H < DashMin THEN <<DIAN>>
  ELSE IF DashMin <= H /\ H < DashMax THEN <<HUA>>
  ELSE << >>

\* Mutant: the limit of a word gap is off by one.
GapWordsEarly(L) ==
  IF CharGap < L /\ L < WordGap THEN <<ZIFU_KONG>>
  ELSE IF WordGap <= L THEN <<ZIFU_KONG, CI_KONG, ZIFU_KONG>>
  ELSE << >>

\* The words of a gap of L frames.
GapWords(L) ==
  IF CharGap < L /\ L <= WordGap THEN <<ZIFU_KONG>>
  ELSE IF WordGap < L THEN <<ZIFU_KONG, CI_KONG, ZIFU_KONG>>
  ELSE << >>

\* Mutant: a frame is skipped.
FrameSkips(level) == i < Len(En) /\ En[i + 1] = level /\ i' = i + 2 /\ UNCHANGED En

Frame(level) == i < Len(En) /\ En[i + 1] = level /\ i' = i + 1 /\ UNCHANGED En

\* The first loud frame of the recording.
FirstRise ==
  /\ sta = 0 /\ Frame("hi")
  /\ m' = i /\ sta' = 1
  /\ UNCHANGED <<st, n, jud>>

\* Mutants: the end of the mark is not kept; every mark has a start word; a
\* mark that is not judged has one.
FallForgets ==
  /\ sta = 1 /\ Frame("lo")
  /\ sta' = 2
  /\ LET words == MarkWords(i - m)
     IN /\ jud' = jud \o (IF words # << >> /\ ~st THEN <<START>> ELSE << >>) \o words
        /\ st' = (st \/ words # << >>)
  /\ UNCHANGED <<m, n>>
FallRestarts ==
  /\ sta = 1 /\ Frame("lo")
  /\ n' = i /\ sta' = 2
  /\ LET words == MarkWords(i - m)
     IN /\ jud' = jud \o (IF words # << >> THEN <<START>> ELSE << >>) \o words
        /\ st' = (st \/ words # << >>)
  /\ UNCHANGED m
FallStarts ==
  /\ sta = 1 /\ Frame("lo")
  /\ n' = i /\ sta' = 2
  /\ jud' = jud \o (IF ~st THEN <<START>> ELSE << >>) \o MarkWords(i - m)
  /\ st' = TRUE
  /\ UNCHANGED m

\* A mark ends: it is judged by its length; the first mark judged is
\* preceded by the start word.
Fall ==
  /\ sta = 1 /\ Frame("lo")
  /\ n' = i /\ sta' = 2
  /\ LET words == MarkWords(i - m)
     IN /\ jud' = jud \o (IF words # << >> /\ ~st THEN <<START>> ELSE << >>) \o words
        /\ st' = (st \/ words # << >>)
  /\ UNCHANGED m

\* Mutant: the gap is measured from the beginning of the mark.
RiseFromMark ==
  /\ sta = 2 /\ Frame("hi")
  /\ m' = i /\ sta' = 1
  /\ jud' = jud \o GapWords(i - m)
  /\ UNCHANGED <<st, n>>

\* A gap ends.
Rise ==
  /\ sta = 2 /\ Frame("hi")
  /\ m' = i /\ sta' = 1
  /\ jud' = jud \o GapWords(i - n)
  /\ UNCHANGED <<st, n>>

\* No edge: silence before the first mark, or the level of the frame is the
\* one of the state, or it is exactly the threshold.
Hold ==
  /\ \/ sta \in {0, 2} /\ (Frame("lo") \/ Frame("eq"))
     \/ sta = 1 /\ (Frame("hi") \/ Frame("eq"))
  /\ UNCHANGED <<sta, st, m, n, jud>>

JudgeStep == FirstRise \/ Fall \/ Rise \/ Hold

Spec == Init /\ [][JudgeStep]_judgeVars
-----------------------------------------------------------------------------
TypeOK ==
  /\ En \in Seq(Level)
  /\ i \in 0 .. Len(En)
  /\ sta \in 0 .. 2 /\ st \in BOOLEAN
  /\ m \in -1 .. Len(En) /\ n \in -1 .. Len(En)
  /\ jud \in Seq({START, DIAN, HUA, ZIFU_KONG, CI_KONG})

\* m and n are never read before they are written, and a mark or gap always
\* has a positive length: the loop subtracts m only inside a mark and n only
\* inside a gap, and both lie behind the current frame in the right order.
EdgesOrdered ==
  /\ sta = 1 => 0 <= m /\ m < i /\ n < m
  /\ sta = 2 => 0 <= m /\ m < n /\ n < i
  /\ sta = 0 => n = -1 /\ jud = << >>

\* Each word of the judgement, the start word apart, costs at least Q frames
\* of recording (5 for the thresholds of once, 3 for those of test), whatever
\* is recorded.
JudgeRate ==
  Q * (Len(jud) - (IF st THEN 1 ELSE 0))
    <= (CASE sta = 0 -> 0 [] sta = 1 -> m [] sta = 2 -> n)

\* A recording of at most Q * (JudSize - 1) frames cannot make the loop,
\* which never checks k, write past the end of jud[200].
JudFits == Len(En) <= Q * (JudSize - 1) => Len(jud) <= JudSize
==============================================================================
