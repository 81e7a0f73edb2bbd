----------------------------- MODULE FrameFifo -----------------------------
(***************************************************************************)
(* What a descriptor ring promises: it is a bounded queue.  Frames, which   *)
(* are numbered in the order in which they are offered, may be refused, but *)
(* those it takes come out in the order in which they went in, each once.   *)
(* Because of the numbers a queue is the set of its frames: the newest is   *)
(* greater than all others and than all that came out, the oldest is the    *)
(* smallest.                                                                *)
(***************************************************************************)
EXTENDS Naturals, Sequences, FiniteSets

CONSTANTS Frame, Capacity

VARIABLES queue, out

Init == queue = {} /\ out = << >>

Put ==
  /\ Cardinality(queue) < Capacity
  /\ \E f \in Frame :
       /\ \A g \in queue : g < f
       /\ \A j \in DOMAIN out : out[j] < f
       /\ queue' = queue \cup {f}
  /\ UNCHANGED out

Get ==
  \E f \in queue :
    /\ \A g \in queue : f <= g
    /\ out' = Append(out, f) /\ queue' = queue \ {f}

Spec == Init /\ [][Put \/ Get]_<<queue, out>>

\* Each frame the queue has taken comes out.
Drains ==
  \A f \in Frame : (f \in queue) ~> (\E j \in DOMAIN out : out[j] = f)
==============================================================================
