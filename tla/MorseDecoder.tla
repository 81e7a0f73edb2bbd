---------------------------- MODULE MorseDecoder ----------------------------
(***************************************************************************)
(* The decoder thread of morse_decode.c from end to end: the judgement loop *)
(* of MorseJudge, then inverse_translate(jud), which prints the characters. *)
(***************************************************************************)
EXTENDS MorseJudge, FiniteSetsExt, SequencesExt

VARIABLES
  pc,     \* "judge" while the loop runs, "done" after inverse_translate
  shown   \* what inverse_translate stored in code[] and printed

decoderVars == <<En, i, sta, st, m, n, jud, pc, shown>>

-----------------------------------------------------------------------------
\* The characters inverse_translate compares a group of that many marks with.
\* The arm of '&' can never be taken: its marks are those of 'H', whose arm
\* comes first.
Known(size) == {c \in Chars \ {"&"} : Len(Marks(c)) = size}

\* What a group between two gaps prints.  The arms for six marks are separate
\* "if"s: the "else" that prints '~' belongs to the last of them, '@', so that
\* every other character of six marks is followed by a '~'.
Spell(group) ==
  LET hits == {c \in Known(Len(group)) : Marks(c) = group}
  IN IF group = << >> THEN << >>
     ELSE IF hits = {} THEN <<"~">>
     ELSE LET c == CHOOSE x \in hits : TRUE
          IN IF Len(group) = 6 /\ c # "@" THEN <<c, "~">> ELSE <<c>>

\* The walk over a[]: a group opens at the start word or at a ZIFU_KONG, and
\* ends before the next ZIFU_KONG or the first zero; words before the first
\* opening are skipped.
InverseTranslate(a) ==
  LET Step(acc, w) ==
        IF w = ZIFU_KONG
          THEN [open |-> TRUE, group |-> << >>, out |-> acc.out \o Spell(acc.group)]
        ELSE IF acc.open
          THEN [acc EXCEPT !.group = Append(@, w)]
        ELSE [acc EXCEPT !.open = (w = START)]
      end == FoldLeft(Step, [open |-> FALSE, group |-> << >>, out |-> << >>], a)
  IN end.out \o Spell(end.group)

DecoderInit == Init /\ pc = "judge" /\ shown = << >>

\* One frame of the judgement loop.
Judge == pc = "judge" /\ JudgeStep /\ UNCHANGED <<pc, shown>>

\* After the last frame: inverse_translate clears code[] and fills it.
Display ==
  /\ pc = "judge" /\ i = Len(En)
  /\ shown' = InverseTranslate(jud)
  /\ pc' = "done"
  /\ UNCHANGED judgeVars

DecoderNext == Judge \/ Display

DecoderSpec == DecoderInit /\ [][DecoderNext]_decoderVars
-----------------------------------------------------------------------------
DecoderTypeOK ==
  /\ TypeOK
  /\ pc \in {"judge", "done"}
  /\ shown \in Seq(Chars \cup {"~"})

(***************************************************************************)
(* What the recording says, without a state machine: a frame is loud if the *)
(* last frame up to it that is not exactly at the threshold is above it;    *)
(* the edges are the frames where that changes; a mark or a gap is the      *)
(* distance of two neighbouring edges.                                      *)
(***************************************************************************)
Loud(k) == \E back \in 0 .. k :
             En[k - back + 1] = "hi" /\ \A q \in 0 .. back : En[k - q + 1] # "lo"

IsEdge(k) == Loud(k) # (k > 0 /\ Loud(k - 1))

WordsHeard ==
  LET edge == SelectSeq([k \in 1 .. i |-> k - 1], IsEdge)
      Between(e) == IF Loud(edge[e + 1]) THEN GapWords(edge[e + 1] - edge[e])
                                         ELSE MarkWords(edge[e + 1] - edge[e])
  IN FlattenSeq([e \in 1 .. Len(edge) - 1 |-> Between(e)])

\* The judgement is exactly the recording: jud without its start word is the
\* sequence of the words of all marks and gaps that ended in it, none lost,
\* split or doubled by the order of the loop's three ifs.
JudgesTheRuns ==
  pc = "done" => SelectSeq(jud, LAMBDA w : w # START) = WordsHeard

\* The start word stands immediately before the first mark, once.
StartBeforeFirstMark ==
  \A k \in DOMAIN jud :
    (jud[k] = START) <=> /\ k < Len(jud) /\ jud[k + 1] \in {DIAN, HUA}
                         /\ \A p \in 1 .. k : jud[p] \notin {DIAN, HUA}
==============================================================================
