---------------------------- MODULE HttpExchange ----------------------------
(***************************************************************************)
(* What a client of the web server is promised: nothing is sent before its *)
(* whole request is there; then comes the answer to this request, in its   *)
(* order; and the connection is closed when all of it is sent, or when the *)
(* request never came. A client that closes its side, or goes on sending,  *)
(* may get a part of the answer and an error page behind it. One that is   *)
(* excused may get anything until its connection is closed; the others are *)
(* promised the same as ever.                                              *)
(***************************************************************************)
EXTENDS Naturals, Sequences, SequencesExt

CONSTANTS Clients, ErrorPage

VARIABLES
  code, content,     \* the answer to what each client asks for
  lacks,             \* how many pieces may be missing at its end
  asked, broke, excused, head, body, ended

exchangevars == <<code, content, lacks, asked, broke, excused, head, body, ended>>

Init ==
  /\ asked = [c \in Clients |-> FALSE] /\ broke = [c \in Clients |-> FALSE]
  /\ excused = [c \in Clients |-> FALSE]
  /\ head = [c \in Clients |-> 0] /\ body = [c \in Clients |-> <<>>]
  /\ ended = [c \in Clients |-> FALSE]

\* The client is done with its request, or does what it should not
Ask(c) == (asked[c] => asked'[c]) /\ (broke[c] => broke'[c]) /\ (excused[c] => excused'[c])

\* Some of the answer, or none; at most one error page where it breaks off
Reply(c) ==
  /\ head'[c] # head[c] => head[c] = 0 /\ (asked'[c] => head'[c] = code[c])
  /\ head'[c] # 0 => asked'[c] \/ broke'[c]
  /\ body'[c] # <<>> => head'[c] # 0
  /\ \/ IsPrefix(body[c], body'[c]) /\ IsPrefix(body'[c], content[c])
     \/ broke'[c] /\ body'[c] \in {body[c], Append(body[c], ErrorPage)}

Answered(c) ==
  /\ asked'[c] /\ head'[c] = code[c]
  /\ IsPrefix(body'[c], content[c]) /\ Len(body'[c]) + lacks[c] >= Len(content[c])
Close(c) == ended'[c] => broke'[c] \/ Answered(c) \/ (~asked'[c] /\ head'[c] = 0)

Step(c) == ~ended[c] /\ Ask(c) /\ (excused'[c] \/ (Reply(c) /\ Close(c)))
Rest(c) == UNCHANGED <<asked[c], excused[c], head[c], body[c], ended[c]>>

Next ==
  /\ \E c \in Clients : Step(c) /\ \A d \in Clients \ {c} : Rest(d)
  /\ UNCHANGED <<code, content, lacks>>

Spec == Init /\ [][Next]_exchangevars
=============================================================================
