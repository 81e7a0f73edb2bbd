------------------------------- MODULE MCWeb --------------------------------
(* Requests for the web server, and instances of it *)
EXTENDS WebNet

Line(name) == <<name, LineEnd>>
Valued(name) == <<name, "value", LineEnd>>
Request(method, lines, target) ==
  [head |-> <<method, "path", LineEnd>> \o lines \o <<LineEnd>>, body |-> <<>>, more |-> <<>>,
   target |-> target, start |-> 0, end |-> 0]
Plain == Request("GET", <<>>, "file")
Get(target) == Request("GET", Line("Host"), target)
RangeOf(s, e) == [Request("GET", Valued("Range"), "file") EXCEPT !.start = s, !.end = e]
Chatty == [RangeOf(0, 2) EXCEPT !.more = <<"GET">>]
Form ==
  [Request("POST", Valued("Content-Length") \o Valued("Content-Type"), "page")
     EXCEPT !.body = <<"q", "q">>]
UploadOf(data) ==
  [Request("POST", Valued("Content-Length") \o Line("multipart"), "upload")
     EXCEPT !.body = FIRST_BOUNDARY \o <<EndOfPart>> \o data \o LAST_BOUNDARY]
Lines == UploadOf(<<"d1", LineEnd, "d2", "d3", "d4">>)

Various ==
  {Get(t) : t \in {"file", "missing", "empty", "private"}}
    \cup {RangeOf(1, 2), RangeOf(1, 0), RangeOf(3, 0), Chatty, Form}
    \cup {Request("BREW", <<>>, "file"), UploadOf(<<>>), Lines}
MixedRequests == [c \in Conns |-> IF c = "c1" THEN Various ELSE {Plain}]
LongHead == [c \in Conns |-> {Request("GET", Line("Host") \o Line("Accept") \o Valued("Range"), "file")}]
=============================================================================
