------------------------------ MODULE MorseLink ------------------------------
(***************************************************************************)
(* A text on the air: an operator keys it, the board records it and the     *)
(* decoder thread prints what it recognised.  The operator is not perfect:  *)
(* every run of loud or silent frames has any of the lengths given for its  *)
(* kind.  The lengths are measured on the recordings the repository keeps   *)
(* (morse_wav_woaiqianrushi.h: dots of 3 to 9 frames, dashes of 9 to 11,    *)
(* 1 to 3 frames inside a character, 49 to 55 between characters, 159 and   *)
(* 160 between words) and widened to the limits of the thresholds.          *)
(***************************************************************************)
EXTENDS MorseDecoder

CONSTANTS Texts,      \* the texts keyed
          DotRuns, DashRuns,                 \* frames of a dot, of a dash
          IntraRuns, CharRuns, WordRuns      \* frames of the three silences

ASSUME LinkAssumption ==
  /\ Texts \subseteq Seq(Chars)
  /\ \A runs \in {DotRuns, DashRuns, IntraRuns, CharRuns, WordRuns} :
       runs \subseteq Nat \ {0}

VARIABLE sent  \* the text that was keyed, << >> when nobody keys

linkVars == <<En, i, sta, st, m, n, jud, pc, shown, sent>>

\* The runs of a text, each a level with its possible lengths.
CharPlan(c) ==
  FlattenSeq([k \in 1 .. Len(Marks(c)) |->
    (IF k > 1 THEN << <<"lo", IntraRuns>> >> ELSE << >>)
      \o << <<"hi", IF Marks(c)[k] = DIAN THEN DotRuns ELSE DashRuns>> >>])

Plan(t) ==
  FlattenSeq([k \in 1 .. Len(t) |->
    IF t[k] = " " THEN << <<"lo", WordRuns>> >>
    ELSE (IF k > 1 /\ t[k - 1] # " " THEN << <<"lo", CharRuns>> >> ELSE << >>)
           \o CharPlan(t[k])])

\* Every recording of a text, with a quiet frame before and after it.
Keyed(t) ==
  LET Extend(signals, run) ==
        {s \o [f \in 1 .. len |-> run[1]] : s \in signals, len \in run[2]}
  IN {Append(s, "lo") : s \in FoldLeft(Extend, {<<"lo">>}, Plan(t))}

\* What is recorded is a text, or anything at all.
LinkInit ==
  /\ \/ sent \in Texts /\ En \in Keyed(sent)
     \/ sent = << >> /\ En \in Signals
  /\ Start /\ pc = "judge" /\ shown = << >>

LinkNext == DecoderNext /\ UNCHANGED sent

LinkSpec == LinkInit /\ [][LinkNext]_linkVars
-----------------------------------------------------------------------------
\* The record board understands: the decoder prints exactly the text that was
\* keyed, whatever the lengths of the runs.
Understood == pc = "done" /\ sent # << >> => shown = sent
==============================================================================
