----------------------------- MODULE MorsePlayer -----------------------------
(***************************************************************************)
(* The player, ls2kdev_play/applications/morse_encode.c: the shell command  *)
(* morse_play_once reads a line, translate() copies the code array of each  *)
(* character into morse_code[200], and the play loop walks morse_code,      *)
(* switching the buzzer and sleeping.  morse_play_test is the same walk     *)
(* with the constants of speed 2.                                           *)
(*                                                                          *)
(* translate() copies an array "until NULL", but no array holds a zero: the *)
(* copy stops at the padding the linker leaves behind the array and, where  *)
(* there is none, runs on into the next one.  Align is the number of 16-bit *)
(* words the arrays are aligned to; it is 4 in                              *)
(* ls2kdev_play/build/applications/morse_encode.o, where the arrays lie in  *)
(* the order of the header.                                                 *)
(***************************************************************************)
EXTENDS MorseCode, FiniteSetsExt, SequencesExt

CONSTANTS Texts,    \* the lines the user may type (at most 30 characters)
          Freqs,    \* the tone frequencies he may ask for
          Speeds,   \* the speeds he may ask for, none of them 0
          Align,    \* alignment of the code arrays, in 16-bit words
          CodeSize  \* the size of morse_code

ASSUME PlayerAssumption ==
  /\ Texts \subseteq Seq(STRING) /\ Freqs \subseteq Int
  /\ Speeds \subseteq Nat \ {0}
  /\ Align \in Nat \ {0} /\ CodeSize \in Nat \ {0}

VARIABLES
  pc,     \* "shell", "translate", "play", "mark" (the buzzer sounds), "done"
  text,   \* the line typed
  speed,  \* argv[2]
  i,      \* characters translated
  code,   \* the words of morse_code that were written, from index 0
  pos,    \* words played
  tone,   \* is the PWM channel of the buzzer enabled?
  line    \* what has been heard: a sequence of <<tone, ticks>>

vars == <<pc, text, speed, i, code, pos, tone, line>>

-----------------------------------------------------------------------------
\* The last array the copy that starts at array n runs through.
RunEnd(n) == Min({m \in n .. Len(Table) : Len(Words(m)) % Align # 0})

\* What translate() writes for character c; nothing for a character the
\* switch does not know ('~', the newline fgets leaves).
Emitted(c) ==
  IF c \in Chars
    THEN FlattenSeq([k \in 1 .. RunEnd(Index(c)) - Index(c) + 1
                       |-> Words(Index(c) + k - 1)])
    ELSE << >>

\* The length of a tick in milliseconds, 1000 / RT_TICK_PER_SECOND.
TickMs == 10

\* rt_thread_mdelay(ms) sleeps a whole number of ticks, rounded up.
Ticks(ms) == (ms + TickMs - 1) \div TickMs

\* The line heard so far, continued by a delay of ms milliseconds: a silence
\* that follows a silence prolongs it.
Heard(t, ms) ==
  IF line # << >> /\ Last(line)[1] = t
    THEN Append(Front(line), <<t, Last(line)[2] + Ticks(ms)>>)
    ELSE Append(line, <<t, Ticks(ms)>>)

Init ==
  /\ pc = "shell" /\ text \in Texts /\ speed \in Speeds
  /\ i = 0 /\ code = << >> /\ pos = 0 /\ tone = FALSE /\ line = << >>

\* The command: a frequency of 3500 Hz or more only prints the usage.
Command(freq) ==
  /\ pc = "shell"
  /\ pc' = IF freq < 3500 THEN "translate" ELSE "done"
  /\ UNCHANGED <<text, speed, i, code, pos, tone, line>>

\* One turn of the loop of translate(): j is the length of code.
TranslateChar ==
  /\ pc = "translate" /\ i < Len(text)
  /\ code' = code \o Emitted(text[i + 1])
  /\ i' = i + 1
  /\ UNCHANGED <<pc, text, speed, pos, tone, line>>

TranslateEnd ==
  /\ pc = "translate" /\ i = Len(text)
  /\ pc' = "play"
  /\ UNCHANGED <<text, speed, i, code, pos, tone, line>>

\* Mutant: the walk skips the word after a silence.
PlayGapSkips ==
  /\ pc = "play" /\ pos < Len(code) /\ code[pos + 1] \in {ZIFU_KONG, CI_KONG}
  /\ tone' = FALSE
  /\ line' = Heard(FALSE, (IF code[pos + 1] = ZIFU_KONG THEN 600 ELSE 400) \div speed)
  /\ pos' = pos + 2
  /\ UNCHANGED <<pc, text, speed, i, code>>

\* A ZIFU_KONG is a silence of 600/speed, a CI_KONG one of 400/speed.
PlayGap ==
  /\ pc = "play" /\ pos < Len(code) /\ code[pos + 1] \in {ZIFU_KONG, CI_KONG}
  /\ tone' = FALSE
  /\ line' = Heard(FALSE, (IF code[pos + 1] = ZIFU_KONG THEN 600 ELSE 400) \div speed)
  /\ pos' = pos + 1
  /\ UNCHANGED <<pc, text, speed, i, code>>

\* A dot or a dash: the buzzer is switched on for 2/speed times its word ...
PlayMark ==
  /\ pc = "play" /\ pos < Len(code) /\ code[pos + 1] \in {DIAN, HUA}
  /\ tone' = TRUE
  /\ line' = Heard(TRUE, (code[pos + 1] * 2) \div speed)
  /\ pc' = "mark"
  /\ UNCHANGED <<text, speed, i, code, pos>>

\* Mutant: the silence after a mark is that of a character.
EndMarkLong ==
  /\ pc = "mark"
  /\ tone' = FALSE
  /\ line' = Heard(FALSE, 600 \div speed)
  /\ pos' = pos + 1
  /\ pc' = "play"
  /\ UNCHANGED <<text, speed, i, code>>

\* ... and off for 200/speed.
EndMark ==
  /\ pc = "mark"
  /\ tone' = FALSE
  /\ line' = Heard(FALSE, 200 \div speed)
  /\ pos' = pos + 1
  /\ pc' = "play"
  /\ UNCHANGED <<text, speed, i, code>>

\* Mutant: the walk only ends with the array.
PlayEndOfArray ==
  /\ pc = "play" /\ pos = Len(code) /\ pos = CodeSize
  /\ pc' = "done"
  /\ UNCHANGED <<text, speed, i, code, pos, tone, line>>

\* while(morse_code[i] != NULL) ends on the first word that was not written.
PlayEnd ==
  /\ pc = "play" /\ pos = Len(code)
  /\ pc' = "done"
  /\ UNCHANGED <<text, speed, i, code, pos, tone, line>>

Next ==
  \/ \E freq \in Freqs : Command(freq)
  \/ TranslateChar \/ TranslateEnd
  \/ PlayGap \/ PlayMark \/ EndMark \/ PlayEnd

Fairness == WF_vars(Next)

Spec == Init /\ [][Next]_vars /\ Fairness
-----------------------------------------------------------------------------
TypeOK ==
  /\ pc \in {"shell", "translate", "play", "mark", "done"}
  /\ text \in Texts /\ speed \in Speeds
  /\ i \in 0 .. Len(text)
  /\ code \in Seq({DIAN, HUA, ZIFU_KONG, CI_KONG})
  /\ pos \in 0 .. Len(code)
  /\ tone \in BOOLEAN
  /\ line \in Seq(BOOLEAN \X Nat)

(***************************************************************************)
(* A listener who knows nothing of the program: unit is the length of a     *)
(* dot; a mark of two units or more is a dash; a silence of three units or  *)
(* more ends a character and one of seven or more ends a word.              *)
(***************************************************************************)
Listen(heard, unit) ==
  LET Nothing == [out |-> << >>, group |-> << >>]
      Step(acc, run) ==
        IF run[1]
          THEN [acc EXCEPT !.group = Append(@, IF run[2] >= 2 * unit THEN HUA ELSE DIAN)]
          ELSE IF run[2] < 3 * unit THEN acc
          ELSE [out   |-> acc.out
                          \o (IF acc.group = << >> THEN << >> ELSE <<acc.group>>)
                          \o (IF run[2] >= 7 * unit /\ acc # Nothing
                                THEN << <<CI_KONG>> >> ELSE << >>),
                group |-> << >>]
  IN FoldLeft(Step, Nothing, heard).out

\* What the listener should take down: the marks of every character the
\* alphabet has, with one word space for any run of spaces between two words.
Dictated(t) ==
  LET known == SelectSeq(t, LAMBDA c : c \in Chars)
      Step(acc, c) == IF c = " " /\ (acc = << >> \/ Last(acc) = Marks(" "))
                        THEN acc ELSE Append(acc, Marks(c))
  IN FoldLeft(Step, << >>, known)

StripSpace(s) == IF s # << >> /\ Last(s) = Marks(" ") THEN Front(s) ELSE s

\* The speeds at which the two marks and the three silences still have
\* lengths that can be told apart after the integer divisions and in whole
\* ticks.  At 15 to 18 and from 37 on a word space is shorter than seven dots,
\* and from 60 on a dash is as long as a dot: one tick.
KeptApart == (1 .. 14) \cup (19 .. 36)

\* The characters of which the program has one opinion: the array of '&' says
\* "....", its comment (morse_code.h:81) and what is printed for it
\* (morse_encode.c:809) "...-".
Agreed == Chars \ {"&"}

\* The player plays what was typed: once it is done, a listener who takes the
\* length of a dot as his unit writes down exactly the characters of the line,
\* at every speed of KeptApart and for characters that are Agreed.
PlaysTheText ==
  (pc = "done" /\ i = Len(text) /\ speed \in KeptApart
     /\ \A n \in DOMAIN text : text[n] \in Chars => text[n] \in Agreed)
    => StripSpace(Listen(line, Ticks(200 \div speed))) = StripSpace(Dictated(text))

\* The command returns to the shell.
Returns == <>(pc = "done")
==============================================================================
