----------------------------- MODULE WebSession -----------------------------
(***************************************************************************)
(* One session of the web server: its buffer and what is done to it when   *)
(* something is received (wn_session.c, wn_request.c), and the reader of   *)
(* an upload (wn_module_upload.c). The buffer is a C string: what is       *)
(* searched is everything up to the first NUL, wherever the data end.      *)
(*                                                                         *)
(* A cell of the buffer is a piece of the request that matters: the method,*)
(* the path, the name or the value of a header, a line end, a piece of the *)
(* body, a piece of a boundary, or NUL.                                    *)
(***************************************************************************)
EXTENDS Integers, Sequences, SequencesExt, FiniteSetsExt

CONSTANT Cap                      \* cells in a buffer (WEBNET_SESSION_BUFSZ)

ASSUME WebSessionAssumption == Cap \in Nat \ {0}

NUL == "nul"
LineEnd == "crlf"

\* The pieces of the boundaries of an upload. COMMON_BOUNDARY is
\* what LAST_BOUNDARY begins with.
FIRST_BOUNDARY == <<"--boundary", LineEnd>>
NORMAL_BOUNDARY == <<LineEnd>> \o FIRST_BOUNDARY
COMMON_BOUNDARY == <<LineEnd, "--boundary">>
LAST_BOUNDARY == COMMON_BOUNDARY \o <<"--">>
EndOfPart == "part"               \* the rest of the head of a part

Session ==
  [phase |-> "METHOD", ops |-> "none", write |-> FALSE, offset |-> 0,
   buffer |-> [i \in 1..Cap |-> NUL], result_code |-> 200, method |-> NUL,
   content_length |-> FALSE, multipart |-> FALSE, Range |-> FALSE,
   query_offset |-> 0, position |-> 0]

\* webnet_session_read, n cells of what comes
Received(s, cells) ==
  [s EXCEPT !.buffer = SubSeq(@, 1, s.offset) \o cells \o SubSeq(@, s.offset + Len(cells) + 1, Cap),
            !.offset = @ + Len(cells)]

\* What was parsed is moved out; what is behind the data stays as it is
Consumed(s, n) ==
  IF n = 0 THEN s
  ELSE IF n >= s.offset THEN [s EXCEPT !.offset = 0]
  ELSE [s EXCEPT !.offset = @ - n,
                 !.buffer = SubSeq(@, n + 1, s.offset) \o SubSeq(@, s.offset - n + 1, Cap)]

\* The C string in the buffer, and the line ends in it
TextLength(s) ==
  LET nuls == {i \in 1..Cap : s.buffer[i] = NUL}
  IN  IF nuls = {} THEN Cap ELSE Min(nuls) - 1
LineEnds(s) == {i \in 1..TextLength(s) : s.buffer[i] = LineEnd}
Terminate(s, ends) == [i \in 1..Cap |-> IF i \in ends THEN NUL ELSE s.buffer[i]]

\* The request line. An unknown method is noted, and stays where it is.
ParseMethod(s) ==
  LET end == Min(LineEnds(s))
  IN  IF LineEnds(s) = {} THEN s
      ELSE IF s.buffer[1] \notin {"GET", "POST"} THEN [s EXCEPT !.result_code = 501]
      ELSE Consumed([s EXCEPT !.method = s.buffer[1], !.phase = "HEADER",
                              !.buffer = Terminate(s, {end})], end)

\* The blank line: a body that is to be collected comes first, if it is
\* announced
EndOfHead(s) ==
  IF s.content_length /\ s.method = "POST"
  THEN [s EXCEPT !.phase = IF s.multipart THEN "RESPONSE" ELSE "QUERY"]
  ELSE [s EXCEPT !.phase = "RESPONSE", !.result_code = 200]

\* The header lines up to the blank line, or all that have an end
ParseHeader(s) ==
  LET ends == LineEnds(s)
      starts == ({1} \cup {i + 1 : i \in ends}) \cap 1..Cap
      blanks == starts \cap ends
      lines == {i \in ends : \A b \in blanks : i < b}
      At(name) == {i \in starts : s.buffer[i] = name /\ \E j \in lines : i < j}
      Value(name, old) == IF At(name) = {} THEN old ELSE s.buffer[Max(At(name)) + 1] = "value"
      t == [s EXCEPT !.buffer = Terminate(s, lines),
                     !.content_length = Value("Content-Length", @),
                     !.multipart = @ \/ At("multipart") # {},
                     !.Range = Value("Range", @)]
  IN  IF blanks # {} THEN Consumed(EndOfHead(t), Min(blanks))
      ELSE IF ends # {} THEN Consumed(t, Max(ends)) ELSE s

\* n: the content length
ParsePost(s, n) ==
  LET taken == IF s.query_offset + s.offset > n THEN n - s.query_offset ELSE s.offset
      t == [s EXCEPT !.query_offset = @ + taken]
  IN  IF taken = 0 THEN s
      ELSE IF t.query_offset < n THEN Consumed(t, taken)
      ELSE Consumed([t EXCEPT !.buffer[n + 1] = NUL, !.result_code = 200,
                              !.phase = "RESPONSE"], taken)

\* _webnet_session_handle_read: one phase after the other, in one call
HandleRead(s, cells, n) ==
  LET r == IF cells = <<>> THEN [s EXCEPT !.phase = "CLOSE"] ELSE Received(s, cells)
      m == IF r.phase = "METHOD" /\ r.offset > 0 THEN ParseMethod(r) ELSE r
      h == IF m.phase = "HEADER" /\ r.offset > 0 THEN ParseHeader(m) ELSE m
  IN  IF h.phase = "QUERY" /\ r.offset > 0 THEN ParsePost(h, n) ELSE h

-----------------------------------------------------------------------------
(* The reader of an upload: w is what the buffer holds, d what was written *)
Begins(w, pattern) == IsPrefix(pattern, w)
Find(w, pattern) ==
  LET at == {i \in 1..Len(w) : Begins(SubSeq(w, i, Len(w)), pattern)}
  IN  IF at = {} THEN 0 ELSE CHOOSE i \in at : \A j \in at : i <= j
HasLast(w) == Find(w, LAST_BOUNDARY) # 0

\* _next_possible_boundary: Len(w) + 1 if there is none. A line end at the
\* very end is taken for data.
NextBoundary(w) == IF Find(w, COMMON_BOUNDARY) = 0 THEN Len(w) + 1 ELSE Find(w, COMMON_BOUNDARY)

RECURSIVE UploadLoop(_, _)
UploadLoop(w, d) ==
  LET body == IF Begins(w, FIRST_BOUNDARY) \/ Begins(w, NORMAL_BOUNDARY)
                THEN SubSeq(w, Find(w, <<EndOfPart>>) + 1, Len(w)) ELSE w
      next == NextBoundary(body)
  IN  IF w = <<>> THEN [keep |-> w, data |-> d, done |-> FALSE]
      ELSE IF Begins(w, LAST_BOUNDARY) THEN [keep |-> w, data |-> d, done |-> TRUE]
      ELSE IF Len(w) < Cap \div 3 /\ ~HasLast(w) THEN [keep |-> w, data |-> d, done |-> FALSE]
      ELSE UploadLoop(SubSeq(body, next, Len(body)), d \o SubSeq(body, 1, next - 1))
=============================================================================
