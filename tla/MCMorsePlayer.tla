---------------------------- MODULE MCMorsePlayer ----------------------------
\* TLC instances of MorsePlayer: the lines that are typed and
\* the speeds, all of KeptApart with those next to it and some faster ones.
EXTENDS MorsePlayer

\* Characters whose array is followed by padding in the build.
CleanChars == {c \in Chars : RunEnd(Index(c)) = Index(c)}

\* Every line of up to three characters over a small alphabet ('~' is not in
\* the switch), and every clean character between two others.
MCTexts ==
  SeqOf({" ", "E", "T", "A", "~"}, 3)
    \cup {<<"A", c, "T">> : c \in CleanChars}
    \cup {<<"N", "0", " ", " ", "@", "F">>}

MCSpeeds == (1 .. 40) \cup {60, 67, 200}
==============================================================================
