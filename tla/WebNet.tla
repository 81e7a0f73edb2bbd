------------------------------- MODULE WebNet -------------------------------
(***************************************************************************)
(* The web server: one thread (webnet.c) that waits for its sockets with   *)
(* select, takes new connections and goes through the list of sessions     *)
(* (wn_session.c); the modules that answer a request (wn_module.c); and    *)
(* the clients, each of which sends one request in pieces, perhaps a       *)
(* little more, and may close its side at any time (external).             *)
(***************************************************************************)
EXTENDS WebSession

CONSTANTS
  Conns,      \* the clients; each makes one connection
  Requests,   \* what each of them may ask for, see Whole
  FileLen,    \* the length of the file
  Block       \* how much of it is read at a time (WEBNET_SESSION_BUFSZ)

VARIABLES
  req, rest,  \* the request of a client, and what the server has not received
  ready,      \* is there something to receive, or the end of the stream?
  hung,       \* has the client closed its side?
  cuts,       \* history: the places in a request that a piece of it ended at
  conn,       \* "idle", "new", "open", "closed" or "refused"
  list,       \* _session_list
  session,    \* the sessions in it
  head, body, \* what was sent: the result code and the pieces of the body
  stored,     \* what an upload has written into its file
  todo,       \* what the thread still has to go through in this round
  readset, writeset,
  waiting     \* the session whose receive call the thread is in, if any

clientvars == <<req, hung>>
sentvars == <<head, body, stored>>
roundvars == <<todo, readset, writeset>>
vars == <<clientvars, rest, ready, cuts, conn, list, session, sentvars, roundvars, waiting>>

None == "none"

-----------------------------------------------------------------------------
(* The clients *)
\* A request: its head, which begins with the request line, its body, and
\* what follows it; the file or page it is for, and the range of it
Whole(r) == r.head \o r.body \o r.more
RequestLine == <<"GET", "path", LineEnd>>

\* A piece may end anywhere. Two kinds of places are remembered: in the head,
\* if the piece began with the request line; and before the boundary at the
\* end of an upload, behind the line end that belongs to it.
Cuts(c, n) ==
  LET all == Whole(req[c])
      from == Len(all) - Len(rest[c])
      to == from + n
  IN  {k \in {"head", "boundary"} :
         \/ k = "head" /\ from < Len(RequestLine) /\ to > Len(RequestLine) /\ to < Len(req[c].head)
         \/ k = "boundary" /\ to > Len(req[c].head) /\ to < Len(all)
              /\ all[to] = LineEnd /\ all[to + 1] = "--boundary"}

Connect(c) ==
  /\ conn[c] = "idle" /\ conn' = [conn EXCEPT ![c] = "new"]
  /\ UNCHANGED <<clientvars, rest, ready, cuts, list, session, sentvars, roundvars, waiting>>

Arrive(c) ==
  /\ conn[c] \in {"new", "open"} /\ ~ready[c] /\ rest[c] # <<>>
  /\ ready' = [ready EXCEPT ![c] = TRUE]
  /\ UNCHANGED <<clientvars, rest, cuts, conn, list, session, sentvars, roundvars, waiting>>

Hang(c) ==
  /\ conn[c] \in {"new", "open"} /\ ~hung[c]
  /\ hung' = [hung EXCEPT ![c] = TRUE]
  /\ ready' = [ready EXCEPT ![c] = TRUE]
  /\ rest' = [rest EXCEPT ![c] = <<>>]
  /\ UNCHANGED <<req, cuts, conn, list, session, sentvars, roundvars, waiting>>

\* A receive call with room for so many cells: what it returns
Pieces(c, room) ==
  IF rest[c] = <<>> \/ room = 0 THEN {0}
  ELSE {n \in 1..room : n <= Len(rest[c])}

Take(c, n) ==
  /\ rest' = [rest EXCEPT ![c] = SubSeq(@, n + 1, Len(@))]
  /\ ready' = [ready EXCEPT ![c] = IF n > 0 THEN hung[c] /\ rest'[c] = <<>> ELSE @]
  /\ cuts' = [cuts EXCEPT ![c] = IF n > 0 THEN @ \cup Cuts(c, n) ELSE @]

-----------------------------------------------------------------------------
(* The modules: what a request leads to (webnet_module_handle_uri) *)
Answer(s, code, pieces) == [s |-> s, code |-> code, body |-> pieces]
Refuse(s, code) == Answer([s EXCEPT !.result_code = code], 0, <<>>)
Upto(s, from, to) == [i \in 1..(to - from) |-> from + i]

\* webnet_module_system_dofile: the head; _webnet_dofile_handle sends the
\* rest. What is sent passes through the buffer.
DoFile(s, r) ==
  LET t == [s EXCEPT !.ops = "dofile", !.write = TRUE, !.offset = 0, !.buffer = Session.buffer]
  IN  IF ~s.Range THEN Answer(t, 200, <<>>)
      ELSE IF r.start >= FileLen \/ r.end >= FileLen THEN Refuse(s, 416)
      ELSE Answer([t EXCEPT !.result_code = 216, !.position = r.start], 216, <<>>)

HandleUri(s, r) ==
  CASE r.target = "private" -> Refuse(s, 401)
    [] r.target = "upload"  -> Answer([s EXCEPT !.ops = "upload"], 0, <<>>)
    [] r.target = "page"    -> Answer(s, 200, <<1>>)       \* cgi, asp, ssi, index
    [] r.target = "missing" -> Refuse(s, 404)
    [] r.target = "empty"   -> Answer(s, 200, <<>>)
    [] r.target = "file"    -> DoFile(s, r)

\* _webnet_dofile_handle: the end of a range is the first byte not sent
RangeEnd(r) == IF r.end = 0 THEN FileLen - 1 ELSE r.end
FileEnd(s, r) == IF s.Range THEN RangeEnd(r) ELSE FileLen
KeepSession(s) == [s EXCEPT !.write = FALSE]
CloseFile(s) == [s EXCEPT !.write = FALSE, !.phase = "CLOSE"]
SendAgain(s, r) ==
  IF FileEnd(s, r) <= s.position THEN Answer(CloseFile(s), 0, <<>>)
  ELSE Answer([s EXCEPT !.position = @ + 1], 0, Upto(s, 0, 1))
SendFile(s, r) ==
  LET left == FileEnd(s, r) - s.position
      n == IF left > Block THEN Block ELSE left
  IN  IF left <= 0 THEN Answer(CloseFile(s), 0, <<>>)
      ELSE Answer([s EXCEPT !.position = @ + n], 0, Upto(s, s.position, s.position + n))

\* _webnet_module_upload_handle: the receive call, and what the loop makes
\* of the buffer
Receive(s, cells) ==
  IF cells = <<>> THEN [s EXCEPT !.phase = "CLOSE"] ELSE Received(s, cells)
InBuffer(s) == SubSeq(s.buffer, 1, s.offset)
UploadedFresh(s, u) ==
  IF u.done THEN Answer([s EXCEPT !.phase = "CLOSE"], 200, <<1>>)
  ELSE Answer([s EXCEPT !.offset = 0], 0, <<>>)
Uploaded(s, u) ==
  LET n == Len(u.keep)
      t == [s EXCEPT !.offset = n, !.buffer = u.keep \o SubSeq(@, n + 1, Cap)]
  IN  IF u.done THEN Answer([t EXCEPT !.phase = "CLOSE"], 200, <<1>>) ELSE Answer(t, 0, <<>>)

-----------------------------------------------------------------------------
(* The thread *)

UnlinkFirst(c) == IF list[1] = c THEN Tail(list) ELSE list
Unlink(c) == SelectSeq(list, LAMBDA d : d # c)

\* What an event leaves behind: the session is kept, or closed, with an
\* error page if the event was a read event
After(c, a, reading) ==
  LET ends == a.s.ops = "none" \/ a.s.phase = "CLOSE"
      page == IF ends /\ reading /\ a.s.result_code # 200 THEN <<0>> ELSE <<>>
  IN  /\ session' = [session EXCEPT ![c] = IF ends THEN Session ELSE a.s]
      /\ conn' = [conn EXCEPT ![c] = IF ends THEN "closed" ELSE @]
      /\ list' = IF ends THEN Unlink(c) ELSE list
      /\ head' = [head EXCEPT ![c] = IF a.code # 0 THEN a.code
                                     ELSE IF @ = 0 /\ page # <<>> THEN a.s.result_code ELSE @]
      /\ body' = [body EXCEPT ![c] = @ \o a.body \o page]

EndTurn ==
  /\ todo' = Tail(todo)
  /\ IF Len(todo) > 1 THEN UNCHANGED <<readset, writeset>> ELSE readset' = {} /\ writeset' = {}

\* select, and a new connection: there may be no memory for its session
Accept(c) ==
  \/ /\ list' = <<c>> \o list
     /\ session' = [session EXCEPT ![c] = Session]
     /\ conn' = [conn EXCEPT ![c] = "open"]
  \/ /\ conn' = [conn EXCEPT ![c] = "refused"]
     /\ UNCHANGED <<list, session>>

Pending == {c \in Conns : conn[c] = "new"}
Readable == {c \in Conns : conn[c] = "open" /\ ready[c]}
Writable == {c \in Conns : conn[c] = "open" /\ session[c].write}

Round ==
  /\ todo = <<>> /\ waiting = None
  /\ Pending \cup Readable \cup Writable # {}
  /\ IF Pending # {} THEN \E c \in Pending : Accept(c) ELSE UNCHANGED <<conn, list, session>>
  /\ readset' = Readable /\ writeset' = Writable
  /\ todo' = SelectSeq(list, LAMBDA c : c \in Readable \cup Writable)
  /\ UNCHANGED <<clientvars, rest, ready, cuts, sentvars, waiting>>

\* The upload handler, after its receive call if it needs one
HandleUpload(c, s) ==
  \E u \in {UploadLoop(InBuffer(s), stored[c])} :
    \E a \in {Uploaded(s, u)} :
      /\ After(c, a, TRUE) /\ EndTurn
      /\ stored' = [stored EXCEPT ![c] = u.data]

\* webnet_module_upload_open calls the handler at once: unless all of the
\* upload is there already the thread enters a receive call
OpenUpload(c, s) ==
  \/ HasLast(InBuffer(s)) /\ HandleUpload(c, s) /\ UNCHANGED waiting
  \/ /\ ~HasLast(InBuffer(s))
     /\ session' = [session EXCEPT ![c] = s] /\ waiting' = c
     /\ UNCHANGED <<conn, list, sentvars, roundvars>>

\* A read event of a session that has no request yet, or part of it
ReadRequest(c) ==
  /\ session[c].ops \in {"none", "default"}
  /\ \E n \in Pieces(c, Cap - session[c].offset) :
       /\ Take(c, n)
       /\ \E s \in {HandleRead(session[c], SubSeq(rest[c], 1, n), Len(req[c].body))} :
            \E a \in {IF s.phase = "RESPONSE" THEN HandleUri([s EXCEPT !.ops = "none"], req[c])
                      ELSE Answer([s EXCEPT !.ops = "default"], 0, <<>>)} :
              IF a.s.ops = "upload" THEN OpenUpload(c, a.s)
              ELSE After(c, a, TRUE) /\ EndTurn /\ UNCHANGED <<stored, waiting>>

\* A read event of a session that uploads, or the end of the receive call
\* in which webnet_module_upload_open has left the thread
ReadUpload(c) ==
  /\ session[c].ops = "upload" /\ ready[c]
  /\ \E n \in Pieces(c, Cap - 1 - session[c].offset) :
       /\ Take(c, n)
       /\ HandleUpload(c, Receive(session[c], SubSeq(rest[c], 1, n)))
  /\ waiting' = None

\* Whatever is received while a file is sent ends the transfer
ReadWhileSending(c) ==
  /\ session[c].ops = "dofile"
  /\ After(c, Answer(CloseFile(session[c]), 0, <<>>), TRUE) /\ EndTurn
  /\ UNCHANGED <<rest, ready, cuts, stored, waiting>>

WriteEvent(c) ==
  /\ session[c].ops = "dofile"
  /\ (\E a \in {SendFile(session[c], req[c])} : After(c, a, FALSE)) /\ EndTurn
  /\ UNCHANGED <<rest, ready, cuts, stored, waiting>>

Turn ==
  /\ todo # <<>> /\ waiting \in {None, todo[1]}
  /\ LET c == todo[1]
     IN  IF c \in readset
         THEN IF waiting = c THEN ReadUpload(c)
              ELSE ReadRequest(c) \/ ReadUpload(c) \/ ReadWhileSending(c)
         ELSE WriteEvent(c)
  /\ UNCHANGED clientvars

Init ==
  /\ req \in [Conns -> UNION {Requests[c] : c \in Conns}]
  /\ \A c \in Conns : req[c] \in Requests[c]
  /\ rest = [c \in Conns |-> Whole(req[c])]
  /\ ready = [c \in Conns |-> FALSE] /\ hung = [c \in Conns |-> FALSE]
  /\ cuts = [c \in Conns |-> {}]
  /\ conn = [c \in Conns |-> "idle"] /\ list = <<>>
  /\ session = [c \in Conns |-> Session]
  /\ head = [c \in Conns |-> 0] /\ body = [c \in Conns |-> <<>>]
  /\ stored = [c \in Conns |-> <<>>]
  /\ todo = <<>> /\ readset = {} /\ writeset = {} /\ waiting = None

Next == Round \/ Turn \/ \E c \in Conns : Connect(c) \/ Arrive(c) \/ Hang(c)

Spec == Init /\ [][Next]_vars

\* A turn that is not held up by a receive call ends
EndsTurn == todo # <<>> /\ (waiting = None \/ ready[todo[1]]) /\ todo' = Tail(todo)

\* The thread goes on. A client sends its request, or closes; one that the
\* server may leave without an answer, for a method it does not know or for
\* the places its request was cut at, closes.
FairSpec ==
  /\ Spec /\ WF_vars(Round) /\ WF_todo(EndsTurn)
  /\ \A c \in Conns :
       WF_vars(Arrive(c)) /\ WF_vars((req[c].head[1] = "BREW" \/ cuts[c] # {}) /\ Hang(c))

-----------------------------------------------------------------------------
(* The types of what the server keeps, and that the list holds exactly the *)
(* open sessions, each once (wn_session.c:69, 126)                         *)
TypeOK ==
  /\ \A c \in Conns :
       /\ conn[c] \in {"idle", "new", "open", "closed", "refused"}
       /\ session[c].phase \in {"METHOD", "HEADER", "QUERY", "RESPONSE", "CLOSE"}
       /\ session[c].ops \in {"none", "default", "dofile", "upload"}
       /\ session[c].offset \in 0..Cap /\ Len(session[c].buffer) = Cap
       /\ session[c].position \in 0..FileLen
       /\ session[c].query_offset \in 0..Len(req[c].body)
  /\ \A c \in Conns : conn[c] = "open" <=> \E i \in DOMAIN list : list[i] = c
  /\ \A i, j \in DOMAIN list : list[i] = list[j] => i = j

\* What the client of c asks for has one answer. That to a range is what its
\* head announces (wn_module.c:320, :355): the file from start to end, both
\* included, or to its last piece if no end is given.
Asks(r, name) == \E i \in DOMAIN r.head : r.head[i] = name
Proper(r) ==
  IF r.head[1] = "BREW" THEN [code |-> 501, body |-> <<0>>]
  ELSE CASE r.target = "private" -> [code |-> 401, body |-> <<0>>]
         [] r.target = "missing" -> [code |-> 404, body |-> <<0>>]
         [] r.target = "empty"   -> [code |-> 200, body |-> <<>>]
         [] r.target \in {"page", "upload"} -> [code |-> 200, body |-> <<1>>]
         [] r.target = "file" ->
              IF ~Asks(r, "Range") THEN [code |-> 200, body |-> [i \in 1..FileLen |-> i]]
              ELSE IF r.start >= FileLen \/ r.end >= FileLen THEN [code |-> 416, body |-> <<0>>]
              ELSE LET last == IF r.end = 0 THEN FileLen - 1 ELSE r.end
                   IN  [code |-> 216, body |-> [i \in 1..last - r.start + 1 |-> r.start + i]]

\* The web server keeps what a client is promised: no answer comes before the
\* end of its request, a client that only listens gets all of the right
\* answer, and sessions do not disturb each other. Three things the code does
\* are left out of the promise: a request whose head is cut behind the line it
\* begins with may be answered before its end, and anything may follow
\* (wn_session.c:347); the last piece of a range is missing
\* (wn_module.c:106); and what is received while a file is sent ends the
\* transfer (wn_module.c:129).
Sent(c) == Len(rest[c]) <= Len(req[c].more)
Exchange == INSTANCE HttpExchange WITH
  Clients <- Conns,
  code <- [c \in Conns |-> Proper(req[c]).code],
  content <- [c \in Conns |-> Proper(req[c]).body],
  lacks <- [c \in Conns |-> IF Proper(req[c]).code = 216 THEN 1 ELSE 0],
  ErrorPage <- 0,
  asked <- [c \in Conns |-> Sent(c)],
  broke <- [c \in Conns |-> hung[c] \/ (Sent(c) /\ req[c].more # <<>>)],
  excused <- [c \in Conns |-> "head" \in cuts[c]],
  ended <- [c \in Conns |-> conn[c] \in {"closed", "refused"}]
Exchanges == Exchange!Spec

\* What an upload has written is a beginning of what the client sends, and
\* all of it when the client is told that it is done: no piece of a boundary
\* is taken for data and none of the data for a boundary (:339, :445). Not if
\* the upload is cut between the last line end and "--boundary", where the
\* line end is taken for data (wn_module_upload.c:357), or its head as above.
UploadsWhole ==
  \A c \in Conns :
    LET r == req[c]
        sent == SubSeq(r.body, 4, Len(r.body) - 3)
    IN  r.target = "upload" /\ cuts[c] = {} =>
          IsPrefix(stored[c], sent) /\ (head[c] = 200 => stored[c] = sent)

\* No answer before the end of the request (wn_request.c:310)
AskedFirst == \A c \in Conns : head[c] # 0 => Sent(c)

\* Every connection is closed in the end, though the thread has to wait
\* inside the receive call of an upload (wn_module_upload.c:431)
Closes == \A c \in Conns : conn[c] = "new" ~> conn[c] \in {"closed", "refused"}
=============================================================================
