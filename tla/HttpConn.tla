------------------------------ MODULE HttpConn ------------------------------
(***************************************************************************)
(* One slot of users[], with the parser and the writer at work on it and   *)
(* the clients that have it one after the other.  Reactor justifies that   *)
(* one thread at a time works on it (OneOwner).  A client sends a request  *)
(* in any pieces, and another when it has the response to the first.       *)
(***************************************************************************)
EXTENDS ResponseWriter

CONSTANTS
  Requests,  \* what clients may ask; see Text
  MaxConns,  \* bound: connections
  MaxAsks    \* bound: requests

\* No page is empty: one that does not begin with a slash makes the request line
\* unacceptable, whatever the method.
ASSUME ConnAssumption ==
  /\ Requests \subseteq [method : STRING, page : STRING, keep : STRING,
                         length : Nat, bareLF : BOOLEAN]
  /\ \A r \in Requests : r.page # ""
  /\ MaxConns \in Nat /\ MaxAsks \in Nat

VARIABLES
  asked,   \* the requests of this connection: none, or <<the last one>>
  rest,    \* what the client has not sent yet of it
  posted,  \* history: an earlier request of the slot was a POST
  conns, asks

clientVars == <<asked, rest, posted, conns, asks>>
vars == <<pc, wire, parserVars, writerVars, clientVars>>

Request  == asked[1]
hasPosted == posted \/ (asked # <<>> /\ Request.method = "POST")
Answered == response # <<>> /\ Len(received) = Len(response)

-----------------------------------------------------------------------------
\* init(sockfd, addr) for the next connection with this descriptor
Open ==
  /\ pc = "closed" /\ conns < MaxConns
  /\ conns' = conns + 1
  /\ init /\ m_write_idx' = 0
  /\ pc' = "in"
  /\ wire' = <<>> /\ rest' = <<>> /\ asked' = <<>>
  /\ posted' = hasPosted
  /\ response' = <<>> /\ received' = <<>>
  /\ UNCHANGED <<ret, line_status, m_string, cgi, fileVars, m_iv, m_iv_count,
                 bytes_to_send, bytes_have_send, regular, asks>>

Ask ==
  /\ pc = "in" /\ asks < MaxAsks
  /\ asked = <<>> \/ Answered
  /\ \E r \in Requests : asked' = <<r>> /\ rest' = Text(r)
  /\ asks' = asks + 1
  /\ posted' = hasPosted
  /\ response' = <<>> /\ received' = <<>>
  /\ UNCHANGED <<pc, wire, parserVars, fileVars, blockVars, regular, conns>>

\* What comes at another time waits in the socket as if it came before the next read.
SendPiece ==
  /\ pc \in {"in", "read"}
  /\ \E n \in 1 .. Len(rest) :
       /\ wire' = wire \o SubSeq(rest, 1, n)
       /\ rest' = SubSeq(rest, n+1, Len(rest))
  /\ UNCHANGED <<pc, parserVars, writerVars, asked, posted, conns, asks>>

\* The client hangs up, or the timer of the connection expires: cb_func.
Close ==
  /\ pc \in {"in", "out"}
  /\ pc' = "closed"
  /\ UNCHANGED <<wire, parserVars, writerVars, clientVars>>

Server == (Parser /\ UNCHANGED <<writerVars, clientVars>>)
            \/ (Writer /\ UNCHANGED clientVars)

Init ==
  /\ InitParser /\ InitWriter
  /\ asked = <<>> /\ rest = <<>> /\ posted = FALSE /\ conns = 0 /\ asks = 0

Next == Open \/ Ask \/ SendPiece \/ Close \/ Server

Spec == Init /\ [][Next]_vars
\* Main thread and workers go on.  Nothing is assumed of the client.
FairSpec == Spec /\ WF_vars(Server)

-----------------------------------------------------------------------------
(* Properties *)

\* The indices stay in order and within the buffer, the blocks within the lengths.
Points == {"closed", "in", "read", "parse", "do", "fill", "out", "spin"}
ParserTypeOK ==
  /\ pc \in Points /\ line_status \in {"OK", "OPEN", "BAD"}
  /\ m_read_idx \in 0 .. READ_BUFFER_SIZE
  /\ m_checked_idx \in 0 .. m_read_idx /\ m_start_line \in 0 .. m_checked_idx
  /\ m_check_state \in {"REQUESTLINE", "HEADER", "CONTENT"}
  /\ m_content_length \in Nat /\ m_linger \in BOOLEAN /\ cgi \in {0, 1}
  /\ m_string \in Indices
WriterTypeOK ==
  /\ m_file_address \in {Null, MapFailed, Mapping} /\ m_file_stat \in Nat
  /\ mapped \in Nat
  /\ m_write_idx \in Nat /\ m_iv_count \in 0..2
  /\ m_iv \in [0..1 -> [iov_base : Int, iov_len : Int]]
  /\ bytes_to_send \in Int /\ bytes_have_send \in Nat
TypeOK == ParserTypeOK /\ WriterTypeOK

\* However the request came in pieces, and whatever the slot served before, what
\* process_read() found is what the client asked: the page, keep-alive as the code
\* reads it, the length of the body; and a request is refused only for its method.
Understood ==
  /\ pc = "do" =>
       /\ Request.method \in {"GET", "POST"} /\ rest = <<>>
       /\ m_url = url(Request.page)
       /\ m_linger = (Request.keep = "keep-alive")
       /\ m_content_length = Request.length
  /\ pc = "fill" /\ m_url = "" => Request.method \notin {"GET", "POST"}

\* The branch of do_request() that logs in and registers is for POSTs, until the
\* slot has had one (init() does not reset cgi), and what it reads at m_string is
\* the whole body of this request and nothing behind it.
FormReadsItsBody ==
  pc = "do" /\ readsForm =>
    \/ posted /\ Request.method # "POST"
    \/ /\ Request.method = "POST"
       /\ Request.length > 0 =>
            /\ \A i \in m_string .. m_string+Request.length-1 : m_read_buf[i] = Byte
            /\ m_read_buf[m_string + Request.length] = NUL

\* The '\0' that parse_content() writes behind a body is inside the buffer: read()
\* closes a connection that fills it to the end.
TerminatorInBuffer ==
  pc = "parse" /\ InBody /\ complete => terminator \in Indices

\* As long as no earlier response left its count and no two writes ended inside
\* the headers, the client gets the bytes of the response in their order.
ClientGetsPrefix ==
  regular => received = SubSeq(response, 1, Len(received))

\* A response with a file is as long as its headers announce, also when its bytes
\* are wrong: the two blocks hold no more than what is to be sent, and something
\* as long as anything is, so write() ends.
FileReplyExact ==
  pc \in {"out", "spin"} /\ m_iv_count = 2 =>
    /\ bytes_to_send = Len(response) - Len(received)
    /\ Len(gather(m_iv, 2)) \in 1 .. bytes_to_send

\* Reactor's picture of a slot, the sign of its count and the loop that may not end,
\* is what the bytes of the responses lead to.
Stage == IF pc \in {"closed", "spin"} THEN pc
         ELSE IF pc = "out" THEN "writing" ELSE "reading"
Sign == IF bytes_to_send = 0 THEN 0 ELSE IF bytes_to_send > 0 THEN 1 ELSE -1
Slot == INSTANCE ResponseSlot WITH at <- Stage, sign <- Sign
ImplementsSlot == Slot!Spec

\* A mapping outlives its response only if the connection is closed during it: a
\* connection leaves at most one behind, whatever number of files it gets.
MappingsBounded == mapped <= conns

\* A well-formed request for a readable file that is not empty, sent in whatever
\* pieces and short enough for the buffer, is answered in full, unless the
\* connection is closed, or its body came in two pieces.
Answerable(r) ==
  /\ r.method \in {"GET", "POST"} /\ ~r.bareLF
  /\ \A f \in {Target(url(r.page))} \cup UNION {FormPages[p] : p \in DOMAIN FormPages \cap {r.page}} :
       Maps(f) /\ Stat[f].size > 0
BodyCut == m_check_state = "CONTENT" /\ m_start_line < m_checked_idx
RequestAnswered ==
  (asked # <<>> /\ rest = <<>> /\ Answerable(Request))
    ~> (Answered \/ pc = "closed" \/ BodyCut)
=============================================================================
