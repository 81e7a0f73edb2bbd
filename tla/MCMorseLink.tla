----------------------------- MODULE MCMorseLink -----------------------------
(***************************************************************************)
(* TLC instances of MorseLink: the texts that are keyed, and recordings of  *)
(* noise, made of runs at the thresholds of morse_process_test_thread.      *)
(***************************************************************************)
EXTENDS MorseLink

\* The characters the decoder has an arm for, by the number of their marks.
Sized(sizes) == {c \in Chars \ {"&"} : Len(Marks(c)) \in sizes}

\* Every character of one to four marks, some of five, and short texts.
MCTexts ==
  {<<c>> : c \in (Sized(1 .. 4) \ {" "}) \cup {"0", "5", "="}}
    \cup {<<"E", " ", "T">>, <<"A", "N">>, <<"I", " ", "M">>, <<"T", "E", "T">>}

Run(level, len) == [f \in 1 .. len |-> level]

\* Two marks around a gap, at and next to every threshold, with and without a
\* frame exactly at the energy threshold between the runs; then a dot.
MCEdges ==
  {Run("lo", lead) \o Run("hi", h1) \o edge \o Run("lo", l1) \o edge
     \o Run("hi", h2) \o Run("lo", 9) \o Run("hi", 3) \o <<"lo">> :
   lead \in {0, 2}, h1 \in {2, 3, 9, 10, 19, 20}, l1 \in {8, 9, 60, 61},
   h2 \in {2, 3, 20}, edge \in {<< >>, <<"eq">>}}

\* The fastest keying there is: dots of three frames and gaps of nine, or
\* glitches that split them.
MCFast ==
  {FlattenSeq([k \in 1 .. marks |-> Run("hi", h) \o Run("lo", l)]) \o <<"hi">> :
   marks \in 2 .. 7, h \in {2, 3, 10}, l \in {1, 8, 9, 61}}

MCShort == UNION {[1 .. len -> Level] : len \in 0 .. 7}

MCSignals == MCEdges \cup MCFast \cup MCShort
==============================================================================
