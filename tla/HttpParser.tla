----------------------------- MODULE HttpParser -----------------------------
(***************************************************************************)
(* The request parser of http_conn: read() fills m_read_buf with whatever  *)
(* has come, process_read() resumes where the last piece ended.            *)
(*                                                                         *)
(* A stream is a sequence of symbols: the text of a line is one symbol,    *)
(* its CR and its LF are two, a byte of a body is one.  So a request can   *)
(* be cut between any two of them.  Bodies hold neither CR nor LF.         *)
(* ResponseWriter has what follows a parsed request, HttpConn the clients. *)
(***************************************************************************)
EXTENDS Integers, Sequences, FiniteSetsExt

CONSTANT READ_BUFFER_SIZE   \* in symbols

ASSUME ParserAssumption == READ_BUFFER_SIZE \in Nat \ {0}

CR   == <<"CR">>
LF   == <<"LF">>
NUL  == <<"NUL">>
Byte == <<"byte of a body">>
ContentLengths == {"Content-Length"} \X Nat

\* A request: method ("GET", "POST" or another), page, keep ("none", "keep-alive",
\* or " keep-alive" as browsers send it), length of the body, and whether its
\* lines end in LF alone.
Text(r) ==
  LET end     == IF r.bareLF THEN <<LF>> ELSE <<CR, LF>>
      line(s) == <<s>> \o end
  IN  line(<<"request", r.method, r.page>>)
        \o (IF r.keep = "none" THEN <<>> ELSE line(<<"Connection", r.keep>>))
        \o (IF r.length = 0 THEN <<>> ELSE line(<<"Content-Length", r.length>>))
        \o end \o [i \in 1..r.length |-> Byte]

VARIABLES
  pc,    \* where the slot is: "closed", "in" or "out" as armed in epoll, "read",
         \* "parse" in process_read(), "do" in do_request(), "fill" in
         \* process_write(), "spin" in a loop of write() that never ends
  wire,  \* received by the kernel, not read yet
  ret, line_status,  \* locals of process() and process_read()
  m_read_buf, m_read_idx, m_checked_idx, m_start_line, m_check_state,
  m_url, m_linger, m_content_length,
  m_string,  \* the index in m_read_buf it points to
  cgi

requestVars == <<m_url, m_linger, m_content_length>>
parserVars  == <<ret, line_status, m_read_buf, m_read_idx, m_checked_idx,
                 m_start_line, m_check_state, requestVars, m_string, cgi>>

Indices == 0 .. READ_BUFFER_SIZE-1

\* Mutant: a request leaves its keep-alive to the next one.
initKeepsLinger ==
  /\ m_check_state' = "REQUESTLINE"
  /\ m_url' = "" /\ m_content_length' = 0 /\ UNCHANGED m_linger
  /\ m_start_line' = 0 /\ m_checked_idx' = 0 /\ m_read_idx' = 0
  /\ m_read_buf' = [i \in Indices |-> NUL]
\* init(): cgi, m_string and the counts of write() keep their values.
init ==
  /\ m_check_state' = "REQUESTLINE"
  /\ m_url' = "" /\ m_content_length' = 0 /\ m_linger' = FALSE
  /\ m_start_line' = 0 /\ m_checked_idx' = 0 /\ m_read_idx' = 0
  /\ m_read_buf' = [i \in Indices |-> NUL]

-----------------------------------------------------------------------------
(* read(): recv until EAGAIN.  With no room left recv is called for 0 bytes  *)
(* and returns 0, which read() takes for the end of the stream.              *)

\* Mutant: a full buffer ends the loop like EAGAIN does.
drainedOrFull == wire = <<>> \/ m_read_idx = READ_BUFFER_SIZE
drained == wire = <<>> /\ m_read_idx < READ_BUFFER_SIZE

Recv ==
  /\ pc \in {"in", "read"} /\ wire # <<>> /\ m_read_idx < READ_BUFFER_SIZE
  /\ LET room == READ_BUFFER_SIZE - m_read_idx
         n    == IF Len(wire) < room THEN Len(wire) ELSE room
     IN
     /\ m_read_buf' = [i \in Indices |-> IF i \in m_read_idx .. m_read_idx+n-1
                                         THEN wire[i - m_read_idx + 1] ELSE m_read_buf[i]]
     /\ m_read_idx' = m_read_idx + n
     /\ wire' = SubSeq(wire, n+1, Len(wire))
  /\ pc' = "read"
  /\ UNCHANGED <<ret, line_status, m_checked_idx, m_start_line, m_check_state,
                 requestVars, m_string, cgi>>

\* EAGAIN: the slot goes to a worker, which calls process_read().
ReadDone ==
  /\ pc = "read" /\ drained
  /\ pc' = "parse"
  /\ line_status' = "OK"
  /\ UNCHANGED <<wire, ret, m_read_buf, m_read_idx, m_checked_idx, m_start_line,
                 m_check_state, requestVars, m_string, cgi>>

\* read() is false: main() closes the connection.
ReadFails ==
  /\ pc = "read" /\ m_read_idx = READ_BUFFER_SIZE
  /\ pc' = "closed"
  /\ UNCHANGED <<wire, parserVars>>

-----------------------------------------------------------------------------
(* process_read().  The condition of its loop skips parse_line() when a body  *)
(* is due and has not been looked at yet.                                     *)

InBody == m_check_state = "CONTENT" /\ line_status = "OK"

ends == {i \in m_checked_idx .. m_read_idx-1 : m_read_buf[i] \in {CR, LF}}

\* Mutant: a CR at the end of a piece is passed over.
parse_lineSkipsCR ==
  LET i == Min(ends)
  IN  IF ends = {} THEN <<"OPEN", m_read_idx, {}>> ELSE
      CASE m_read_buf[i] = CR /\ i+1 = m_read_idx       -> <<"OPEN", i+1, {}>>
        [] m_read_buf[i] = CR /\ i+1 < m_read_idx /\ m_read_buf[i+1] = LF
                                                      -> <<"OK", i+2, {i, i+1}>>
        [] OTHER                                      -> <<"BAD", i, {}>>
\* parse_line(): its result, m_checked_idx after it, and where it writes '\0'
parse_line ==
  LET i == Min(ends)
  IN  IF ends = {} THEN <<"OPEN", m_read_idx, {}>> ELSE
      CASE m_read_buf[i] = CR /\ i+1 = m_read_idx       -> <<"OPEN", i, {}>>
        [] m_read_buf[i] = CR /\ i+1 < m_read_idx /\ m_read_buf[i+1] = LF
                                                      -> <<"OK", i+2, {i, i+1}>>
        [] m_read_buf[i] = LF /\ i > 1 /\ m_read_buf[i-1] = CR
                                                      -> <<"OK", i+1, {i-1, i}>>
        [] OTHER                                      -> <<"BAD", i, {}>>

\* No further line: NO_REQUEST, and process() rearms the descriptor for reading.
NoLine ==
  /\ pc = "parse" /\ ~InBody /\ parse_line[1] # "OK"
  /\ m_checked_idx' = parse_line[2]
  /\ line_status' = parse_line[1]
  /\ ret' = "NO_REQUEST"
  /\ pc' = "in"
  /\ UNCHANGED <<wire, m_read_buf, m_read_idx, m_start_line, m_check_state,
                 requestVars, m_string, cgi>>

\* A line has been read in the given state; its text begins at m_start_line.
Line(state) ==
  /\ pc = "parse" /\ ~InBody /\ m_check_state = state /\ parse_line[1] = "OK"
  /\ m_checked_idx' = parse_line[2]
  /\ m_start_line' = parse_line[2]
  /\ m_read_buf' = [i \in Indices |-> IF i \in parse_line[3] THEN NUL ELSE m_read_buf[i]]
  /\ line_status' = "OK"
  /\ UNCHANGED <<wire, m_read_idx, m_string>>
text == m_read_buf'[m_start_line]

\* Mutant: cgi is set whatever the method is.
cgiAlways == cgi' = 1
setsCgi == cgi' = IF text[2] = "POST" THEN 1 ELSE cgi

\* strcat(m_url,"judge.html")
url(page) == IF page = "/" THEN "/judge.html" ELSE page

acceptable == text[1] = "request" /\ text[2] \in {"GET", "POST"}

parse_request_line ==
  /\ Line("REQUESTLINE")
  /\ acceptable
  /\ setsCgi
  /\ m_url' = url(text[3])
  /\ m_check_state' = "HEADER"
  /\ UNCHANGED <<pc, ret, m_linger, m_content_length>>

\* Also what follows a refused line: it comes to a slot that starts anew.
RefuseRequestLine ==
  /\ Line("REQUESTLINE")
  /\ ~acceptable
  /\ ret' = "BAD_REQUEST" /\ pc' = "fill"
  /\ UNCHANGED <<m_check_state, requestVars, cgi>>

\* "Connection:" may be followed by tabs and not by a space.
parse_headers ==
  /\ Line("HEADER")
  /\ text # NUL
  /\ m_linger' = (m_linger \/ text = <<"Connection", "keep-alive">>)
  /\ m_content_length' = IF text \in ContentLengths THEN text[2] ELSE m_content_length
  /\ UNCHANGED <<pc, ret, m_check_state, m_url, cgi>>

EndOfHeaders ==
  /\ Line("HEADER")
  /\ text = NUL
  /\ IF m_content_length = 0
       THEN pc' = "do" /\ UNCHANGED m_check_state
       ELSE m_check_state' = "CONTENT" /\ UNCHANGED pc
  /\ UNCHANGED <<ret, requestVars, cgi>>

\* The body is read up to the '\0' put behind it.
terminator == m_start_line + m_content_length
complete == m_read_idx >= m_content_length + m_checked_idx

parse_content ==
  /\ pc = "parse" /\ InBody
  /\ m_start_line' = m_checked_idx
  /\ IF complete
       THEN /\ m_read_buf' = [m_read_buf EXCEPT ![terminator] = NUL]
            /\ m_string' = m_start_line
            /\ pc' = "do"
            /\ UNCHANGED line_status
       ELSE line_status' = "OPEN" /\ UNCHANGED <<m_read_buf, m_string, pc>>
  /\ UNCHANGED <<wire, ret, m_read_idx, m_checked_idx, m_check_state, requestVars, cgi>>

-----------------------------------------------------------------------------
Parser ==
  \/ Recv \/ ReadDone \/ ReadFails
  \/ NoLine \/ parse_request_line \/ RefuseRequestLine
  \/ parse_headers \/ EndOfHeaders \/ parse_content

\* new http_conn[MAX_FD]: fresh zero pages
InitParser ==
  /\ pc = "closed" /\ wire = <<>> /\ ret = "NO_REQUEST" /\ line_status = "OK"
  /\ m_read_buf = [i \in Indices |-> NUL]
  /\ m_read_idx = 0 /\ m_checked_idx = 0 /\ m_start_line = 0
  /\ m_check_state = "REQUESTLINE"
  /\ m_url = "" /\ m_linger = FALSE /\ m_content_length = 0
  /\ m_string = 0 /\ cgi = 0
=============================================================================
