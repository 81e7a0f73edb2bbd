------------------------------ MODULE FileCopy ------------------------------
(***************************************************************************)
(* What copying files means: each target becomes its source, one block     *)
(* after the other; what the copier counts is there; and it says that the  *)
(* copy is complete only when all of it is there.                          *)
(***************************************************************************)
EXTENDS Naturals, Sequences

CONSTANTS Copiers, Most           \* Most: units in a block

VARIABLES source, target, counted, complete

copyvars == <<source, target, counted, complete>>

Reached(c, n) ==
  /\ n <= Len(target[c]) /\ n <= Len(source[c])
  /\ \A i \in 1..n : target[c][i] = source[c][i]

Init ==
  /\ \A c \in Copiers : target[c] \in Seq(Nat)
  /\ counted = [c \in Copiers |-> 0]
  /\ complete = [c \in Copiers |-> FALSE]

Others(c, f, g) == \A x \in Copiers \ {c} : f[x] = g[x]

\* One more block of the source; what the target held behind it stays
Write(c) ==
  /\ \E from \in 0..Len(source[c]), n \in 0..Most :
       /\ Reached(c, from) /\ from + n <= Len(source[c])
       /\ Len(target'[c]) = (IF from + n > Len(target[c]) THEN from + n ELSE Len(target[c]))
       /\ \A i \in 1..Len(target'[c]) :
            target'[c][i] = IF i > from /\ i <= from + n THEN source[c][i] ELSE target[c][i]
  /\ Others(c, target', target)
  /\ UNCHANGED <<source, counted, complete>>

Count(c) ==
  /\ counted'[c] \in counted[c]..(counted[c] + Most)
  /\ Reached(c, counted'[c])
  /\ complete'[c] => complete[c] \/ counted'[c] = Len(source[c])
  /\ Others(c, counted', counted) /\ Others(c, complete', complete)
  /\ UNCHANGED <<source, target>>

Next == \E c \in Copiers : Write(c) \/ Count(c)

Spec == Init /\ [][Next]_copyvars
=============================================================================
