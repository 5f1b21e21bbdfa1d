--------------------------- MODULE HttpConnProofs ---------------------------
(***************************************************************************)
(* Proofs about HttpConn: the parser's indices stay in the buffer, the     *)
(* blocks of a response agree with what is to be sent, mappings are        *)
(* bounded, the slot implements ResponseSlot, and what the parser finds is *)
(* what the client asked.                                                  *)
(***************************************************************************)
EXTENDS HttpConn, SequenceTheorems, WellFoundedInduction, TLAPS

Symbols == {CR, LF, NUL, Byte} \cup ({"request"} \X STRING \X STRING)
             \cup ({"Connection"} \X STRING) \cup ContentLengths

LEMMA EmptyType == <<>> \in Seq(Symbols)
OBVIOUS

LEMMA RequestTypes ==
  ASSUME NEW r \in Requests
  PROVE  /\ r.method \in STRING /\ r.page \in STRING /\ r.keep \in STRING
         /\ r.length \in Nat /\ r.bareLF \in BOOLEAN
BY ConnAssumption

\* The text of a request is made of its lines, their ends and the bytes of its body.
LEMMA TextOver ==
  ASSUME NEW S, NEW r \in Requests, CR \in S, LF \in S, Byte \in S,
         <<"request", r.method, r.page>> \in S, <<"Connection", r.keep>> \in S,
         <<"Content-Length", r.length>> \in S
  PROVE  Text(r) \in Seq(S)
<1> DEFINE e == IF r.bareLF THEN <<LF>> ELSE <<CR, LF>>
           q == <<"request", r.method, r.page>>
           k == <<"Connection", r.keep>>
           n == <<"Content-Length", r.length>>
           a == <<q>> \o e
           b == IF r.keep = "none" THEN <<>> ELSE <<k>> \o e
           c == IF r.length = 0 THEN <<>> ELSE <<n>> \o e
           d == [i \in 1..r.length |-> Byte]
<1>1. r.length \in Nat  BY RequestTypes
<1>2. e \in Seq(S)
  <2>1. <<LF>> \in Seq(S) /\ <<CR, LF>> \in Seq(S)  OBVIOUS
  <2> QED  BY <2>1
<1>3. q \in S /\ k \in S /\ n \in S  OBVIOUS
<1>4. Text(r) = a \o b \o c \o e \o d  BY DEF Text
<1>5. d \in Seq(S)  BY <1>1
<1> HIDE DEF e, q, k, n, d
<1>6. ASSUME NEW x \in S PROVE <<x>> \o e \in Seq(S)
  <2>1. <<x>> \in Seq(S)  OBVIOUS
  <2> QED  BY <1>2, <2>1, ConcatProperties
<1>7. a \in Seq(S)  BY <1>3, <1>6
<1>8. b \in Seq(S)
  <2>1. <<k>> \o e \in Seq(S)  BY <1>3, <1>6
  <2>2. <<>> \in Seq(S)  OBVIOUS
  <2> QED  BY <2>1, <2>2
<1>9. c \in Seq(S)
  <2>1. <<n>> \o e \in Seq(S)  BY <1>3, <1>6
  <2>2. <<>> \in Seq(S)  OBVIOUS
  <2> QED  BY <2>1, <2>2
<1> HIDE DEF a, b, c
<1>10. a \o b \in Seq(S)  BY <1>7, <1>8, ConcatProperties
<1>11. a \o b \o c \in Seq(S)  BY <1>10, <1>9, ConcatProperties
<1>12. a \o b \o c \o e \in Seq(S)  BY <1>11, <1>2, ConcatProperties
<1>13. a \o b \o c \o e \o d \in Seq(S)  BY <1>12, <1>5, ConcatProperties
<1> QED  BY <1>4, <1>13

LEMMA TextType ==
  ASSUME NEW r \in Requests
  PROVE  Text(r) \in Seq(Symbols)
<1>1. CR \in Symbols /\ LF \in Symbols /\ Byte \in Symbols  BY DEF Symbols
<1>2. /\ <<"request", r.method, r.page>> \in Symbols
      /\ <<"Connection", r.keep>> \in Symbols
      /\ <<"Content-Length", r.length>> \in Symbols
  BY RequestTypes DEF Symbols, ContentLengths
<1> QED  BY <1>1, <1>2, TextOver

-----------------------------------------------------------------------------
(* The parser *)

\* Whoever may call process_read() or write() left the buffer with room: read()
\* closes the connection otherwise.
Room ==
  pc \in {"in", "parse", "do", "fill", "out", "spin"} => m_read_idx < READ_BUFFER_SIZE
Streams == wire \in Seq(Symbols) /\ rest \in Seq(Symbols)
ParserInv == ParserTypeOK /\ Room /\ Streams

LEMMA MinNat ==
  ASSUME NEW S, S \subseteq Nat, S # {}
  PROVE  Min(S) \in S /\ \A y \in S : Min(S) <= y
<1>1. \E x \in S : \A y \in S : x <= y
  <2>1. PICK x \in S : \A y \in S : ~(<<y, x>> \in OpToRel(<, Nat))
    BY NatLessThanWellFounded, WFMin
  <2>2. \A y \in S : ~(y < x)  BY <2>1 DEF OpToRel
  <2> QED  BY <2>2
<1> QED  BY <1>1 DEF Min

\* parse_line() leaves m_checked_idx between where it was and m_read_idx.
LEMMA ParseLine ==
  ASSUME ParserTypeOK
  PROVE  /\ parse_line[1] \in {"OK", "OPEN", "BAD"}
         /\ parse_line[2] \in m_checked_idx .. m_read_idx
<1> DEFINE i == Min(ends)
<1>1. m_checked_idx \in Nat /\ m_read_idx \in Nat /\ m_checked_idx <= m_read_idx
  BY ParserAssumption DEF ParserTypeOK
<1>2. CASE ends = {}
  <2>1. parse_line = <<"OPEN", m_read_idx, {}>>  BY <1>2 DEF parse_line
  <2> QED  BY <2>1, <1>1
<1>3. CASE ends # {}
  <2>1. ends \subseteq Nat  BY <1>1 DEF ends
  <2>2. i \in ends  BY <1>3, <2>1, MinNat
  <2>3. i \in m_checked_idx .. m_read_idx-1  BY <2>2 DEF ends
  <2>4. \/ parse_line = <<"OPEN", i, {}>>
        \/ parse_line = <<"OK", i+2, {i, i+1}>> /\ i+1 < m_read_idx
        \/ parse_line = <<"OK", i+1, {i-1, i}>>
        \/ parse_line = <<"BAD", i, {}>>
    BY <1>3 DEF parse_line
  <2> HIDE DEF i
  <2> QED  BY <2>3, <2>4, <1>1
<1> QED  BY <1>2, <1>3

LEMMA ParserInit == Init => ParserInv
<1> SUFFICES ASSUME Init PROVE ParserInv  OBVIOUS
<1>1. ParserTypeOK
  <2>1. /\ pc = "closed" /\ line_status = "OK" /\ m_read_idx = 0 /\ m_checked_idx = 0
        /\ m_start_line = 0 /\ m_check_state = "REQUESTLINE" /\ m_linger \in BOOLEAN
        /\ m_content_length = 0 /\ m_string = 0 /\ cgi = 0
    BY DEF Init, InitParser
  <2> QED  BY <2>1, ParserAssumption DEF ParserTypeOK, Points, Indices
<1>2. Room  BY DEF Init, InitParser, Room
<1>3. Streams  BY EmptyType DEF Init, InitParser, Streams
<1> QED  BY <1>1, <1>2, <1>3 DEF ParserInv

\* init() empties the buffer.
LEMMA ParserReset ==
  ASSUME ParserInv, init, pc' \in Points, line_status' = line_status, m_string' = m_string,
         cgi' = cgi, wire' = wire \/ wire' = <<>>, rest' = rest \/ rest' = <<>>
  PROVE  ParserInv'
<1>1. ParserTypeOK'
  <2>1. /\ m_read_idx' = 0 /\ m_checked_idx' = 0 /\ m_start_line' = 0
        /\ m_check_state' = "REQUESTLINE" /\ m_linger' \in BOOLEAN /\ m_content_length' = 0
    BY DEF init
  <2> QED  BY <2>1, ParserAssumption DEF ParserInv, ParserTypeOK, Indices
<1>2. Room'
  <2>1. m_read_idx' = 0  BY DEF init
  <2> QED  BY <2>1, ParserAssumption DEF Room
<1>3. Streams'  BY EmptyType DEF ParserInv, Streams
<1> QED  BY <1>1, <1>2, <1>3 DEF ParserInv

\* Nor does a step disturb it that leaves the parser alone and no slot without room.
LEMMA ParserSame ==
  ASSUME ParserInv, UNCHANGED <<wire, rest, line_status, m_read_idx, m_checked_idx, m_start_line,
                                m_check_state, m_content_length, m_linger, m_string, cgi>>,
         pc' \in Points, pc = "closed" => pc' = "closed", pc # "read"
  PROVE  ParserInv'
<1>1. ParserTypeOK'  BY DEF ParserInv, ParserTypeOK
<1>2. Room'  BY DEF ParserInv, Room, Points, ParserTypeOK
<1>3. Streams'  BY DEF ParserInv, Streams
<1> QED  BY <1>1, <1>2, <1>3 DEF ParserInv

LEMMA RecvStep ==
  ASSUME ParserInv, Recv, UNCHANGED rest
  PROVE  ParserInv'
<1> DEFINE room == READ_BUFFER_SIZE - m_read_idx
           n    == IF Len(wire) < room THEN Len(wire) ELSE room
<1>1. /\ Len(wire) \in Nat /\ m_read_idx \in Nat /\ m_read_idx < READ_BUFFER_SIZE
      /\ wire \in Seq(Symbols)
  BY DEF ParserInv, ParserTypeOK, Streams, Recv
<1>2. n \in Nat /\ n <= Len(wire) /\ m_read_idx + n <= READ_BUFFER_SIZE
  BY <1>1, ParserAssumption
<1>3. m_read_idx' = m_read_idx + n /\ wire' = SubSeq(wire, n+1, Len(wire)) /\ pc' = "read"
  BY DEF Recv
<1> HIDE DEF n
<1>4. ParserTypeOK'
  <2>1. ParserTypeOK  BY DEF ParserInv
  <2>2. m_read_idx' \in 0 .. READ_BUFFER_SIZE /\ m_read_idx <= m_read_idx'  BY <1>1, <1>2, <1>3
  <2>3. UNCHANGED <<line_status, m_checked_idx, m_start_line, m_check_state, requestVars,
                    m_string, cgi>>
    BY DEF Recv
  <2> QED  BY <1>3, <2>1, <2>2, <2>3 DEF ParserTypeOK, Points, requestVars
<1>5. Room'  BY <1>3 DEF Room
<1>6. wire' \in Seq(Symbols)
  <2>1. n+1 \in 1 .. Len(wire)+1  BY <1>1, <1>2
  <2> QED  BY <1>1, <1>2, <1>3, <2>1, SubSeqProperties
<1>7. Streams'  BY <1>6 DEF ParserInv, Streams
<1> QED  BY <1>4, <1>5, <1>7 DEF ParserInv

LEMMA LineStep ==
  ASSUME ParserInv, UNCHANGED rest,
         parse_request_line \/ RefuseRequestLine \/ parse_headers \/ EndOfHeaders
  PROVE  ParserInv'
<1>1. ParserTypeOK /\ Room /\ Streams  BY DEF ParserInv
<1>2. PICK state \in {"REQUESTLINE", "HEADER"} : Line(state)
  BY DEF parse_request_line, RefuseRequestLine, parse_headers, EndOfHeaders
<1>3. /\ pc = "parse" /\ parse_line[2] \in m_checked_idx .. m_read_idx
      /\ m_checked_idx' = parse_line[2] /\ m_start_line' = parse_line[2]
      /\ line_status' = "OK" /\ UNCHANGED <<wire, m_read_idx, m_string>>
  BY <1>1, <1>2, ParseLine DEF Line
<1>4. /\ pc' \in {"parse", "fill", "do"}
      /\ m_check_state' \in {"REQUESTLINE", "HEADER", "CONTENT"}
      /\ m_linger' \in BOOLEAN /\ cgi' \in {0, 1}
  BY <1>1, <1>3 DEF parse_request_line, RefuseRequestLine, parse_headers, EndOfHeaders, setsCgi,
                    requestVars, ParserTypeOK
<1>5. m_content_length' \in Nat
  BY <1>1 DEF parse_request_line, RefuseRequestLine, parse_headers, EndOfHeaders, requestVars,
              ParserTypeOK, ContentLengths
<1>6. ParserTypeOK'
  <2>1. /\ m_checked_idx' \in 0 .. m_read_idx' /\ m_start_line' \in 0 .. m_checked_idx'
        /\ m_read_idx' \in 0 .. READ_BUFFER_SIZE
    BY <1>1, <1>3 DEF ParserTypeOK
  <2> QED  BY <1>1, <1>3, <1>4, <1>5, <2>1 DEF ParserTypeOK, Points
<1>7. Room'  BY <1>1, <1>3 DEF Room
<1>8. Streams'  BY <1>1, <1>3 DEF Streams
<1> QED  BY <1>6, <1>7, <1>8 DEF ParserInv

LEMMA ContentStep ==
  ASSUME ParserInv, parse_content, UNCHANGED rest
  PROVE  ParserInv'
<1>1. ParserTypeOK /\ Room /\ Streams  BY DEF ParserInv
<1>2. /\ pc = "parse" /\ pc' \in {"parse", "do"} /\ m_start_line' = m_checked_idx
      /\ line_status' \in {"OK", "OPEN"} /\ m_string' \in {m_string, m_start_line}
      /\ UNCHANGED <<wire, m_read_idx, m_checked_idx, m_check_state, m_linger,
                     m_content_length, cgi>>
  BY DEF parse_content, InBody, requestVars
<1>3. m_start_line \in Indices  BY <1>1, <1>2, ParserAssumption DEF ParserTypeOK, Room, Indices
<1>4. ParserTypeOK'  BY <1>1, <1>2, <1>3 DEF ParserTypeOK, Points
<1>5. Room'  BY <1>1, <1>2 DEF Room
<1>6. Streams'  BY <1>1, <1>2 DEF Streams
<1> QED  BY <1>4, <1>5, <1>6 DEF ParserInv

LEMMA ReadStep ==
  ASSUME ParserInv, ReadDone \/ ReadFails \/ NoLine, UNCHANGED rest
  PROVE  ParserInv'
<1>1. ParserTypeOK /\ Room /\ Streams  BY DEF ParserInv
<1>2. CASE ReadDone
  <2>1. /\ m_read_idx < READ_BUFFER_SIZE /\ pc' = "parse" /\ line_status' = "OK"
        /\ UNCHANGED <<wire, m_read_idx, m_checked_idx, m_start_line, m_check_state,
                       m_content_length, m_linger, m_string, cgi>>
    BY <1>2 DEF ReadDone, drained, requestVars
  <2>2. ParserTypeOK' /\ Room' /\ Streams'
    BY <1>1, <2>1 DEF ParserTypeOK, Points, Room, Streams
  <2> QED  BY <2>2 DEF ParserInv
<1>3. CASE ReadFails
  <2>1. pc' = "closed" /\ UNCHANGED <<wire, parserVars>>  BY <1>3 DEF ReadFails
  <2>2. ParserTypeOK' /\ Room' /\ Streams'
    BY <1>1, <2>1 DEF ParserTypeOK, Points, Room, Streams, parserVars, requestVars
  <2> QED  BY <2>2 DEF ParserInv
<1>4. CASE NoLine
  <2>1. /\ pc = "parse" /\ pc' = "in" /\ line_status' = parse_line[1]
        /\ m_checked_idx' = parse_line[2]
        /\ UNCHANGED <<wire, m_read_idx, m_start_line, m_check_state,
                       m_content_length, m_linger, m_string, cgi>>
    BY <1>4 DEF NoLine, requestVars
  <2>2. /\ parse_line[1] \in {"OK", "OPEN", "BAD"}
        /\ parse_line[2] \in m_checked_idx .. m_read_idx
    BY <1>1, ParseLine
  <2>3. m_checked_idx' \in 0 .. m_read_idx' /\ m_start_line' \in 0 .. m_checked_idx'
    BY <1>1, <2>1, <2>2, ParserAssumption DEF ParserTypeOK
  <2>4. ParserTypeOK'  BY <1>1, <2>1, <2>2, <2>3 DEF ParserTypeOK, Points
  <2>5. Room' /\ Streams'  BY <1>1, <2>1 DEF Room, Streams
  <2> QED  BY <2>4, <2>5 DEF ParserInv
<1> QED  BY <1>2, <1>3, <1>4

LEMMA ClientStep ==
  ASSUME ParserInv, Open \/ Ask \/ SendPiece \/ Close
  PROVE  ParserInv'
<1>1. ParserTypeOK /\ Room /\ Streams  BY DEF ParserInv
<1>2. CASE Open
  <2>1. /\ init /\ pc' \in Points /\ UNCHANGED <<line_status, m_string, cgi>>
        /\ wire' = <<>> /\ rest' = <<>>
    BY <1>2 DEF Open, Points
  <2> QED  BY <2>1, ParserReset
<1>3. CASE Ask
  <2>1. PICK r \in Requests : rest' = Text(r)  BY <1>3 DEF Ask
  <2>2. UNCHANGED <<pc, wire, parserVars>>  BY <1>3 DEF Ask
  <2>3. Streams'  BY <1>1, <2>1, <2>2, TextType DEF Streams
  <2>4. ParserTypeOK' /\ Room'
    BY <1>1, <2>2 DEF ParserTypeOK, Room, parserVars, requestVars
  <2> QED  BY <2>3, <2>4 DEF ParserInv
<1>4. CASE SendPiece
  <2>1. PICK n \in 1 .. Len(rest) :
          wire' = wire \o SubSeq(rest, 1, n) /\ rest' = SubSeq(rest, n+1, Len(rest))
    BY <1>4 DEF SendPiece
  <2>2. UNCHANGED <<pc, parserVars>>  BY <1>4 DEF SendPiece
  <2>3. Streams'
    <3>1. wire \in Seq(Symbols) /\ rest \in Seq(Symbols)  BY <1>1 DEF Streams
    <3>2. 1 \in 1 .. Len(rest)+1 /\ n \in 0 .. Len(rest) /\ n+1 \in 1 .. Len(rest)+1
      BY <3>1
    <3>3. SubSeq(rest, 1, n) \in Seq(Symbols) /\ SubSeq(rest, n+1, Len(rest)) \in Seq(Symbols)
      BY <3>1, <3>2, SubSeqProperties
    <3>4. wire \o SubSeq(rest, 1, n) \in Seq(Symbols)  BY <3>1, <3>3, ConcatProperties
    <3> QED  BY <2>1, <3>3, <3>4 DEF Streams
  <2>4. ParserTypeOK' /\ Room'
    BY <1>1, <2>2 DEF ParserTypeOK, Room, parserVars, requestVars
  <2> QED  BY <2>3, <2>4 DEF ParserInv
<1>5. CASE Close
  <2>1. /\ pc' = "closed"
        /\ UNCHANGED <<wire, rest, line_status, m_read_idx, m_checked_idx, m_start_line,
                       m_check_state, m_content_length, m_linger, m_string, cgi>>
    BY <1>5 DEF Close, parserVars, requestVars, clientVars
  <2>2. ParserTypeOK' /\ Room' /\ Streams'
    BY <1>1, <2>1 DEF ParserTypeOK, Room, Points, Streams
  <2> QED  BY <2>2 DEF ParserInv
<1> QED  BY <1>2, <1>3, <1>4, <1>5

\* The writer leaves the parser's fields alone, or calls init().
LEMMA WriterKeepsParser ==
  ASSUME ParserInv, Writer, UNCHANGED clientVars
  PROVE  ParserInv'
<1>1. UNCHANGED rest  BY DEF clientVars
<1>2. CASE do_request \/ FillFile \/ FillError \/ FillEmpty \/ WriteSome \/ WriteCloses
             \/ WriteFails \/ WriteSpins
  <2>1. /\ pc \in {"do", "fill", "out"} /\ pc' \in {"closed", "fill", "out", "spin"}
        /\ UNCHANGED <<wire, line_status, m_read_idx, m_checked_idx, m_start_line,
                       m_check_state, m_content_length, m_linger, m_string, cgi>>
    BY <1>2 DEF do_request, FillFile, FillError, FillEmpty, Filled, WriteSome, WriteCloses,
                WriteFails, WriteSpins, writev, parserVars, requestVars
  <2>2. pc' \in Points /\ pc # "closed" /\ pc # "read"  BY <2>1 DEF Points
  <2> QED  BY <1>1, <2>1, <2>2, ParserSame
<1>3. CASE WriteNothing \/ WriteKeeps
  <2>1. init /\ pc' = "in" /\ UNCHANGED <<wire, line_status, m_string, cgi>>
    BY <1>3 DEF WriteNothing, WriteKeeps, writev
  <2>2. pc' \in Points  BY <2>1 DEF Points
  <2> QED  BY <1>1, <2>1, <2>2, ParserReset
<1> QED  BY <1>2, <1>3 DEF Writer

LEMMA ParserStep == ParserInv /\ [Next]_vars => ParserInv'
<1> SUFFICES ASSUME ParserInv, [Next]_vars PROVE ParserInv'  OBVIOUS
<1>1. CASE Open \/ Ask \/ SendPiece \/ Close  BY <1>1, ClientStep
<1>2. CASE Parser /\ UNCHANGED <<writerVars, clientVars>>
  <2>1. UNCHANGED rest  BY <1>2 DEF clientVars
  <2> QED  BY <1>2, <2>1, RecvStep, ReadStep, LineStep, ContentStep DEF Parser
<1>3. CASE Writer /\ UNCHANGED clientVars  BY <1>3, WriterKeepsParser
<1>4. CASE UNCHANGED vars
  BY <1>4 DEF vars, parserVars, requestVars, clientVars, ParserInv, ParserTypeOK, Room, Streams
<1> QED  BY <1>1, <1>2, <1>3, <1>4 DEF Next, Server

LEMMA ParserInvariant == Spec => []ParserInv
BY ParserInit, ParserStep, PTL DEF Spec

\* The '\0' that parse_content() writes behind the body is inside m_read_buf, for
\* every size of the buffer and every stream.
THEOREM TerminatorSafe == Spec => []TerminatorInBuffer
<1>1. ParserInv => TerminatorInBuffer
  <2> SUFFICES ASSUME ParserInv, pc = "parse", complete PROVE terminator \in Indices
    BY DEF TerminatorInBuffer
  <2>1. /\ m_read_idx \in Nat /\ m_checked_idx \in Nat /\ m_start_line \in Nat
        /\ m_content_length \in Nat /\ m_start_line <= m_checked_idx
        /\ m_read_idx < READ_BUFFER_SIZE
    BY ParserAssumption DEF ParserInv, ParserTypeOK, Room
  <2>2. m_read_idx >= m_content_length + m_checked_idx  BY DEF complete
  <2> QED  BY <2>1, <2>2, ParserAssumption DEF terminator, Indices
<1> QED  BY <1>1, ParserInvariant, PTL

-----------------------------------------------------------------------------
(* The blocks of a response and the mapping of its file *)

Bytes == {0, 1} \X Int
LenOf(i) == m_iv[i].iov_len
\* What is still to be sent of a response with a file is what the blocks hold and
\* at least one byte.
FileBlocks ==
  pc = "out" /\ m_iv_count = 2 =>
    /\ LenOf(1) \in Nat /\ LenOf(0) + LenOf(1) \in 1 .. bytes_to_send
    /\ bytes_to_send = Len(response) - Len(received)
Blocks ==
  /\ pc \in {"out", "spin"} => m_iv_count \in {1, 2} /\ LenOf(0) \in Nat
  /\ pc = "spin" => m_iv_count = 1
  /\ FileBlocks
Histories == response \in Seq(Bytes) /\ received \in Seq(Bytes) /\ regular \in BOOLEAN
\* The mapping is alive while a response needs it; at the other points of an open
\* connection it left none.
WithFile ==
  \/ pc = "fill" /\ ret = "FILE_REQUEST" /\ m_file_stat > 0
  \/ pc = "out" /\ m_iv_count = 2
Mappings ==
  /\ conns \in Nat /\ mapped <= conns
  /\ m_file_address = Mapping => mapped > 0
  /\ WithFile => m_file_address = Mapping /\ m_file_stat > 0
  /\ ~WithFile /\ pc # "closed" => mapped < conns
WriterInv == WriterTypeOK /\ Blocks /\ Histories /\ Mappings

LEMMA BlockType ==
  ASSUME NEW iv \in [0..1 -> [iov_base : Int, iov_len : Int]], NEW i \in 0..1,
         iv[i].iov_len \in Nat
  PROVE  /\ block(iv, i) \in Seq(Bytes) /\ Len(block(iv, i)) = iv[i].iov_len
         /\ \A j \in 1..iv[i].iov_len : block(iv, i)[j] = <<i, iv[i].iov_base + j - 1>>
<1> DEFINE n == iv[i].iov_len
           b == iv[i].iov_base
<1>1. n \in Nat /\ b \in Int  OBVIOUS
<1>2. block(iv, i) = [j \in 1..n |-> <<i, b + j - 1>>]  BY DEF block
<1> HIDE DEF n, b
<1>3. \A j \in 1..n : <<i, b + j - 1>> \in Bytes  BY <1>1 DEF Bytes
<1>4. block(iv, i) \in [1..n -> Bytes]  BY <1>2, <1>3
<1>5. block(iv, i) \in Seq(Bytes) /\ Len(block(iv, i)) = n  BY <1>1, <1>4
<1> QED  BY <1>2, <1>5 DEF n, b

LEMMA GatherType ==
  ASSUME NEW iv \in [0..1 -> [iov_base : Int, iov_len : Int]], NEW count \in {1, 2},
         iv[0].iov_len \in Nat, count = 2 => iv[1].iov_len \in Nat
  PROVE  /\ gather(iv, count) \in Seq(Bytes)
         /\ Len(gather(iv, count)) = IF count = 2 THEN iv[0].iov_len + iv[1].iov_len
                                                  ELSE iv[0].iov_len
<1>1. block(iv, 0) \in Seq(Bytes) /\ Len(block(iv, 0)) = iv[0].iov_len  BY BlockType
<1>2. CASE count = 1
  <2>1. gather(iv, count) = block(iv, 0)  BY <1>2 DEF gather
  <2> QED  BY <1>1, <1>2, <2>1
<1>3. CASE count = 2
  <2>1. gather(iv, count) = block(iv, 0) \o block(iv, 1)  BY <1>3 DEF gather
  <2>2. block(iv, 1) \in Seq(Bytes) /\ Len(block(iv, 1)) = iv[1].iov_len
    BY <1>3, BlockType
  <2>3. /\ gather(iv, count) \in Seq(Bytes)
        /\ Len(gather(iv, count)) = Len(block(iv, 0)) + Len(block(iv, 1))
    BY <1>1, <2>1, <2>2, ConcatProperties
  <2>4. Len(gather(iv, count)) = iv[0].iov_len + iv[1].iov_len  BY <1>1, <2>2, <2>3
  <2> QED  BY <1>3, <2>3, <2>4
<1> QED  BY <1>2, <1>3

LEMMA WriterInit == Init => WriterInv
<1> SUFFICES ASSUME Init PROVE WriterInv  OBVIOUS
<1> DEFINE iv == blocks(iovec(0, 0), iovec(0, 0))
<1>1. /\ pc = "closed" /\ m_file_address = Null /\ m_file_stat = 0 /\ mapped = 0 /\ conns = 0
      /\ m_write_idx = 0 /\ m_iv = iv /\ m_iv_count = 0
      /\ bytes_to_send = 0 /\ bytes_have_send = 0 /\ response = <<>> /\ received = <<>>
      /\ regular \in BOOLEAN
  BY DEF Init, InitParser, InitWriter
<1>2. iv \in [0..1 -> [iov_base : Int, iov_len : Int]]  BY DEF blocks, iovec
<1> HIDE DEF iv
<1>3. WriterTypeOK  BY <1>1, <1>2 DEF WriterTypeOK, Null
<1>4. Blocks  BY <1>1 DEF Blocks, FileBlocks
<1>5. Histories  BY <1>1 DEF Histories
<1>6. Mappings  BY <1>1 DEF Mappings, WithFile, Null, Mapping
<1> QED  BY <1>3, <1>4, <1>5, <1>6 DEF WriterInv

\* What writev takes, and what is left in the blocks
LEMMA WritevStep ==
  ASSUME WriterInv, NEW n \in Amounts, writev(n)
  PROVE  /\ pc = "out" /\ n \in 1 .. Len(gather(m_iv, m_iv_count))
         /\ bytes_to_send' = bytes_to_send - n /\ bytes_have_send' \in Nat
         /\ m_iv' \in [0..1 -> [iov_base : Int, iov_len : Int]]
         /\ LenOf(0)' \in Nat
         /\ Histories' /\ Len(received') = Len(received) + n
         /\ m_iv_count = 2 =>
              /\ bytes_to_send' >= 0
              /\ bytes_to_send' = Len(response) - Len(received')
              /\ bytes_to_send' > 0 =>
                   LenOf(1)' \in Nat /\ LenOf(0)' + LenOf(1)' \in 1 .. bytes_to_send'
         /\ UNCHANGED <<m_file_stat, m_iv_count, response, wire, ret>>
<1>1. /\ pc = "out" /\ m_iv \in [0..1 -> [iov_base : Int, iov_len : Int]]
      /\ m_iv_count \in {1, 2} /\ LenOf(0) \in Nat
      /\ m_write_idx \in Nat /\ bytes_to_send \in Int /\ bytes_have_send \in Nat
      /\ response \in Seq(Bytes) /\ received \in Seq(Bytes) /\ regular \in BOOLEAN
  BY DEF writev, WriterInv, WriterTypeOK, Blocks, Histories
<1>2. m_iv_count = 2 =>
        /\ LenOf(1) \in Nat /\ LenOf(0) + LenOf(1) \in 1 .. bytes_to_send
        /\ bytes_to_send = Len(response) - Len(received)
  BY <1>1 DEF WriterInv, Blocks, FileBlocks
<1> DEFINE g == gather(m_iv, m_iv_count)
<1>3. /\ g \in Seq(Bytes)
      /\ Len(g) = IF m_iv_count = 2 THEN LenOf(0) + LenOf(1) ELSE LenOf(0)
  BY <1>1, <1>2, GatherType DEF LenOf
<1>4. /\ bytes_to_send' = bytes_to_send - n /\ bytes_have_send' = bytes_have_send + n
      /\ received' = received \o SubSeq(g, 1, n)
      /\ UNCHANGED <<m_file_stat, m_iv_count, response, wire, ret>>
  BY DEF writev, advanced
<1>5. n \in 1 .. Len(g)  BY DEF Amounts
<1> HIDE DEF g
<1>6. bytes_have_send' \in Nat /\ bytes_have_send' >= n /\ bytes_to_send' \in Int
  BY <1>1, <1>3, <1>4, <1>5
<1> DEFINE f0 == [m_iv[0] EXCEPT !.iov_len = 0]
           f1 == iovec(bytes_have_send' - m_write_idx, bytes_to_send')
           f2 == iovec(bytes_have_send', LenOf(0) - bytes_have_send')
<1>7. /\ f0 \in [iov_base : Int, iov_len : Int] /\ f1 \in [iov_base : Int, iov_len : Int]
      /\ f2 \in [iov_base : Int, iov_len : Int]
      /\ f0.iov_len = 0 /\ f1.iov_len = bytes_to_send' /\ f2.iov_len = LenOf(0) - bytes_have_send'
  BY <1>1, <1>6 DEF iovec
<1>8. m_iv' = IF bytes_have_send' >= LenOf(0) THEN blocks(f0, f1) ELSE [m_iv EXCEPT ![0] = f2]
  BY DEF writev, advanced, iovec, LenOf
<1> HIDE DEF f0, f1, f2
<1>9. /\ m_iv' \in [0..1 -> [iov_base : Int, iov_len : Int]]
      /\ \/ LenOf(0)' = 0 /\ LenOf(1)' = bytes_to_send'
         \/ /\ LenOf(0)' = LenOf(0) - bytes_have_send' /\ LenOf(0)' > 0
            /\ LenOf(1)' = LenOf(1)
  <2>1. CASE bytes_have_send' >= LenOf(0)
    <3>1. /\ m_iv' \in [0..1 -> [iov_base : Int, iov_len : Int]]
          /\ m_iv'[0] = f0 /\ m_iv'[1] = f1
      BY <1>7, <1>8, <2>1 DEF blocks
    <3> QED  BY <1>7, <3>1 DEF LenOf
  <2>2. CASE ~(bytes_have_send' >= LenOf(0))
    <3>1. /\ m_iv' \in [0..1 -> [iov_base : Int, iov_len : Int]]
          /\ m_iv'[0] = f2 /\ m_iv'[1] = m_iv[1]
      BY <1>1, <1>7, <1>8, <2>2
    <3>2. LenOf(0)' = LenOf(0) - bytes_have_send' /\ LenOf(1)' = LenOf(1)
      BY <1>7, <3>1 DEF LenOf
    <3> QED  BY <1>1, <1>6, <2>2, <3>1, <3>2
  <2> QED  BY <2>1, <2>2
<1>10. received' \in Seq(Bytes) /\ Len(received') = Len(received) + n
  <2>1. SubSeq(g, 1, n) \in Seq(Bytes) /\ Len(SubSeq(g, 1, n)) = n
    <3>1. 1 \in 1 .. Len(g)+1 /\ n \in 0 .. Len(g) /\ n \in Nat /\ 1 <= n
      BY <1>3, <1>5
    <3> QED  BY <1>3, <3>1, SubSeqProperties
  <2> QED  BY <1>1, <1>4, <2>1, ConcatProperties
<1>11. Histories'
  <2>1. regular' \in BOOLEAN  BY DEF writev
  <2> QED  BY <1>1, <1>4, <1>10, <2>1 DEF Histories
<1>12. LenOf(0)' \in Nat  BY <1>1, <1>6, <1>9
<1>13. ASSUME m_iv_count = 2
       PROVE  /\ bytes_to_send' >= 0
              /\ bytes_to_send' = Len(response) - Len(received')
              /\ bytes_to_send' > 0 =>
                   LenOf(1)' \in Nat /\ LenOf(0)' + LenOf(1)' \in 1 .. bytes_to_send'
  <2>1. /\ LenOf(1) \in Nat /\ LenOf(0) + LenOf(1) <= bytes_to_send
        /\ bytes_to_send = Len(response) - Len(received) /\ n \in 1 .. LenOf(0) + LenOf(1)
    BY <1>1, <1>2, <1>3, <1>5, <1>13
  <2>2. Len(response) \in Nat /\ Len(received) \in Nat  BY <1>1
  <2>3. bytes_to_send' >= 0  BY <1>1, <1>4, <2>1
  <2>4. bytes_to_send' = Len(response) - Len(received')  BY <1>1, <1>4, <1>10, <2>1, <2>2
  <2>5. ASSUME bytes_to_send' > 0
        PROVE  LenOf(1)' \in Nat /\ LenOf(0)' + LenOf(1)' \in 1 .. bytes_to_send'
    <3>1. CASE LenOf(0)' = 0 /\ LenOf(1)' = bytes_to_send'
      BY <1>6, <2>5, <3>1
    <3>2. CASE /\ LenOf(0)' = LenOf(0) - bytes_have_send' /\ LenOf(0)' > 0
               /\ LenOf(1)' = LenOf(1)
      <4>1. LenOf(0) + LenOf(1) - n <= bytes_to_send'  BY <1>1, <1>4, <2>1
      <4>2. LenOf(0)' + LenOf(1)' <= LenOf(0) + LenOf(1) - n
        BY <1>1, <1>5, <1>6, <2>1, <3>2
      <4>3. LenOf(0)' \in Nat /\ LenOf(1)' \in Nat  BY <1>12, <2>1, <3>2
      <4>4. LenOf(0)' + LenOf(1)' > 0  BY <3>2, <4>3
      <4>5. n \in Int /\ LenOf(0) \in Int /\ LenOf(1) \in Int  BY <1>1, <2>1
      <4>6. bytes_to_send' \in Int  BY <1>6
      <4>7. LenOf(0)' + LenOf(1)' <= bytes_to_send'  BY <4>1, <4>2, <4>3, <4>5, <4>6
      <4> QED  BY <4>3, <4>4, <4>6, <4>7
    <3> QED  BY <1>9, <3>1, <3>2
  <2> QED  BY <2>3, <2>4, <2>5
<1> QED  BY <1>1, <1>4, <1>5, <1>6, <1>9, <1>10, <1>11, <1>12, <1>13 DEF g

\* The blocks process_write() lays out are the response.
LEMMA FillStep ==
  ASSUME WriterInv, FillFile \/ FillError
  PROVE  /\ WriterTypeOK' /\ Blocks' /\ Histories'
         /\ m_write_idx' > 0
         /\ response' = gather(m_iv', m_iv_count') /\ received' = <<>>
<1>1. /\ m_iv \in [0..1 -> [iov_base : Int, iov_len : Int]] /\ m_write_idx \in Nat
      /\ m_file_stat \in Nat /\ bytes_to_send \in Int /\ bytes_have_send \in Nat
      /\ HeaderLen \in Nat /\ ErrorLen \in Nat /\ HeaderLen > 0 /\ ErrorLen > 0
  BY WriterAssumption DEF WriterInv, WriterTypeOK
<1>2. /\ pc' = "out" /\ response' = gather(m_iv', m_iv_count') /\ received' = <<>>
      /\ UNCHANGED <<m_file_address, m_file_stat, mapped, bytes_have_send>>
  BY DEF FillFile, FillError, Filled, fileVars
<1>3. m_write_idx' \in Nat /\ m_write_idx' > 0  BY <1>1 DEF FillFile, FillError
<1>4. /\ m_iv' \in [0..1 -> [iov_base : Int, iov_len : Int]]
      /\ m_iv_count' \in {1, 2} /\ LenOf(0)' = m_write_idx'
  <2>1. CASE FillFile
    <3>1. m_iv' = blocks(iovec(0, m_write_idx'), iovec(0, m_file_stat)) /\ m_iv_count' = 2
      BY <2>1 DEF FillFile
    <3> QED  BY <1>1, <1>3, <3>1 DEF blocks, iovec, LenOf
  <2>2. CASE FillError
    <3>1. m_iv' = [m_iv EXCEPT ![0] = iovec(0, m_write_idx')] /\ m_iv_count' = 1
      BY <2>2 DEF FillError
    <3> QED  BY <1>1, <1>3, <3>1 DEF iovec, LenOf
  <2> QED  BY <2>1, <2>2
<1>5. m_iv_count' = 2 =>
        /\ LenOf(1)' = m_file_stat /\ m_file_stat > 0
        /\ bytes_to_send' = m_write_idx' + m_file_stat
  <2> SUFFICES ASSUME m_iv_count' = 2
      PROVE  /\ LenOf(1)' = m_file_stat /\ m_file_stat > 0
             /\ bytes_to_send' = m_write_idx' + m_file_stat
    OBVIOUS
  <2>1. FillFile  BY DEF FillError
  <2>2. m_iv' = blocks(iovec(0, m_write_idx'), iovec(0, m_file_stat))  BY <2>1 DEF FillFile
  <2>3. LenOf(1)' = m_file_stat  BY <2>2 DEF blocks, iovec, LenOf
  <2>4. m_file_stat # 0 /\ bytes_to_send' = m_write_idx' + m_file_stat
    BY <2>1 DEF FillFile, headersAndFile
  <2> QED  BY <1>1, <2>3, <2>4
<1>6. bytes_to_send' \in Int
  BY <1>1, <1>3 DEF FillFile, FillError, headersAndFile
<1>7. WriterTypeOK'  BY <1>1, <1>2, <1>3, <1>4, <1>6 DEF WriterInv, WriterTypeOK
<1>8. /\ response' \in Seq(Bytes)
      /\ Len(response') = IF m_iv_count' = 2 THEN LenOf(0)' + LenOf(1)' ELSE LenOf(0)'
  BY <1>1, <1>2, <1>3, <1>4, <1>5, GatherType DEF LenOf
<1>9. Histories'
  <2>1. regular' \in BOOLEAN  BY DEF FillFile, FillError, Filled
  <2> QED  BY <1>2, <1>8, <2>1 DEF Histories
<1>10. FileBlocks'
  <2> SUFFICES ASSUME m_iv_count' = 2
      PROVE  /\ LenOf(1)' \in Nat /\ LenOf(0)' + LenOf(1)' \in 1 .. bytes_to_send'
             /\ bytes_to_send' = Len(response') - Len(received')
    BY DEF FileBlocks
  <2>1. Len(received') = 0  BY <1>2
  <2> QED  BY <1>1, <1>3, <1>4, <1>5, <1>8, <2>1
<1>11. Blocks'  BY <1>2, <1>3, <1>4, <1>10 DEF Blocks
<1> QED  BY <1>2, <1>3, <1>7, <1>9, <1>11

\* A step that leaves the blocks alone and is not on its way out.
LEMMA BlocksSame ==
  ASSUME WriterInv, UNCHANGED <<m_iv, m_iv_count, bytes_to_send>>,
         \/ pc' \notin {"out", "spin"}
         \/ pc' = pc /\ UNCHANGED <<response, received>>
  PROVE  Blocks'
BY DEF WriterInv, Blocks, FileBlocks, LenOf

LEMMA MapStep ==
  ASSUME WriterInv, do_request, UNCHANGED conns
  PROVE  WriterInv'
<1>1. PICK f \in Pages : lookup(f)  BY DEF do_request
<1>2. pc = "do" /\ pc' = "fill" /\ UNCHANGED <<blockVars, sentVars>>  BY DEF do_request
<1>3. /\ mapped \in Nat /\ m_file_stat \in Nat /\ conns \in Nat /\ mapped < conns
      /\ m_file_address \in {Null, MapFailed, Mapping}
      /\ m_file_address = Mapping => mapped > 0
  BY <1>2 DEF WriterInv, WriterTypeOK, Mappings, WithFile
<1>4. Exists(f) => Stat[f].size \in Nat  BY WriterAssumption DEF Exists
<1>5. m_file_stat' \in Nat  BY <1>1, <1>3, <1>4 DEF lookup
<1>6. CASE Maps(f) /\ Stat[f].size > 0
  <2>1. /\ m_file_address' = Mapping /\ mapped' = mapped + 1 /\ m_file_stat' = Stat[f].size
    BY <1>1, <1>6 DEF lookup, Maps
  <2>2. WriterTypeOK'
    BY <1>2, <1>3, <1>5, <2>1 DEF WriterInv, WriterTypeOK, blockVars
  <2>3. Mappings'
    <3>1. mapped' \in Nat /\ mapped' > 0 /\ mapped' <= conns'  BY <1>3, <2>1
    <3>2. m_file_stat' > 0  BY <1>6, <2>1
    <3>3. ret' = "FILE_REQUEST"  BY <1>1, <1>6 DEF lookup, Maps
    <3> QED  BY <1>2, <1>3, <2>1, <3>1, <3>2, <3>3 DEF Mappings, WithFile
  <2> QED  BY <1>2, <2>2, <2>3, BlocksSame DEF WriterInv, Histories, blockVars, sentVars
<1>7. CASE ~(Maps(f) /\ Stat[f].size > 0)
  <2>1. mapped' = mapped /\ m_file_address' \in {MapFailed, m_file_address}
    BY <1>1, <1>7 DEF lookup
  <2>2. ~WithFile'
    <3>1. CASE Maps(f)
      <4>1. m_file_stat' = Stat[f].size  BY <1>1, <3>1 DEF lookup, Maps
      <4> QED  BY <1>2, <1>7, <3>1, <4>1 DEF WithFile
    <3>2. CASE ~Maps(f)
      <4>1. ret' # "FILE_REQUEST"  BY <1>1, <3>2 DEF lookup, Maps
      <4> QED  BY <1>2, <4>1 DEF WithFile
    <3> QED  BY <3>1, <3>2
  <2>3. WriterTypeOK'
    BY <1>2, <1>3, <1>5, <2>1 DEF WriterInv, WriterTypeOK, blockVars
  <2>4. Mappings'  BY <1>2, <1>3, <2>1, <2>2 DEF Mappings, Mapping, MapFailed
  <2> QED  BY <1>2, <2>3, <2>4, BlocksSame DEF WriterInv, Histories, blockVars, sentVars
<1> QED  BY <1>6, <1>7

LEMMA UnmapStep ==
  ASSUME WriterInv, unmap, pc # "closed"
  PROVE  m_file_address' = Null /\ mapped' \in Nat /\ mapped' < conns
<1>1. /\ mapped \in Nat /\ conns \in Nat /\ mapped <= conns
      /\ m_file_address = Mapping => mapped > 0
      /\ WithFile => m_file_address = Mapping /\ m_file_stat > 0
      /\ ~WithFile => mapped < conns
  BY DEF WriterInv, WriterTypeOK, Mappings
<1>2. /\ m_file_address' = Null
      /\ mapped' = IF m_file_address = Mapping /\ m_file_stat > 0 THEN mapped - 1 ELSE mapped
  BY DEF unmap
<1>3. CASE m_file_address = Mapping /\ m_file_stat > 0  BY <1>1, <1>2, <1>3
<1>4. CASE ~(m_file_address = Mapping /\ m_file_stat > 0)  BY <1>1, <1>2, <1>4
<1> QED  BY <1>3, <1>4

\* The part of the invariant that is not about the blocks, when they are not in use
LEMMA OutOfUse ==
  ASSUME WriterInv, WriterTypeOK', Histories', pc' \notin {"out", "spin"},
         conns' = conns, mapped' <= conns, m_file_address' = Mapping => mapped' > 0,
         pc' # "closed" => mapped' < conns /\ ~WithFile'
  PROVE  WriterInv'
<1>1. Blocks'  BY DEF Blocks, FileBlocks
<1>2. conns \in Nat  BY DEF WriterInv, Mappings
<1>3. WithFile' => pc' # "closed"  BY DEF WithFile
<1>4. Mappings'  BY <1>2, <1>3 DEF Mappings
<1> QED  BY <1>1, <1>4 DEF WriterInv

LEMMA SendStep ==
  ASSUME WriterInv, WriteSome \/ WriteKeeps \/ WriteCloses, UNCHANGED conns
  PROVE  WriterInv'
<1>1. PICK n \in Amounts : writev(n)  BY DEF WriteSome, WriteKeeps, WriteCloses
<1>2. /\ pc = "out"
      /\ bytes_to_send' \in Int /\ bytes_have_send' \in Nat
      /\ m_iv' \in [0..1 -> [iov_base : Int, iov_len : Int]]
      /\ LenOf(0)' \in Nat /\ Histories'
      /\ UNCHANGED <<m_file_stat, m_iv_count, ret, response>>
  <2>1. bytes_to_send \in Int  BY DEF WriterInv, WriterTypeOK
  <2>2. n \in Int
    <3>1. n \in 1 .. Len(gather(m_iv, m_iv_count))  BY <1>1, WritevStep
    <3> QED  BY <3>1
  <2>3. bytes_to_send' = bytes_to_send - n  BY <1>1, WritevStep
  <2> QED  BY <1>1, <2>1, <2>2, <2>3, WritevStep
<1>3. m_iv_count = 2 =>
        /\ bytes_to_send' = Len(response) - Len(received')
        /\ bytes_to_send' > 0 => LenOf(1)' \in Nat /\ LenOf(0)' + LenOf(1)' \in 1 .. bytes_to_send'
  BY <1>1, WritevStep
<1>4. WriterTypeOK /\ Mappings /\ m_write_idx \in Nat /\ m_iv_count \in {1, 2} /\ conns \in Nat
  BY <1>2 DEF WriterInv, WriterTypeOK, Blocks, Mappings
<1>5. CASE WriteSome
  <2>1. pc' = "out" /\ bytes_to_send' > 0 /\ UNCHANGED <<m_file_address, mapped, m_write_idx>>
    BY <1>2, <1>5 DEF WriteSome
  <2>2. WriterTypeOK'  BY <1>2, <1>4, <2>1 DEF WriterTypeOK
  <2>3. FileBlocks'  BY <1>2, <1>3, <2>1 DEF FileBlocks
  <2>4. Blocks'  BY <1>2, <1>4, <2>1, <2>3 DEF Blocks
  <2>5. Mappings'  BY <1>2, <1>4, <2>1 DEF Mappings, WithFile
  <2> QED  BY <1>2, <2>2, <2>4, <2>5 DEF WriterInv
<1>6. CASE WriteKeeps \/ WriteCloses
  <2>1. /\ unmap /\ pc' \in {"in", "closed"} /\ m_write_idx' \in Nat
    BY <1>4, <1>6 DEF WriteKeeps, WriteCloses
  <2>2. m_file_address' = Null /\ mapped' \in Nat /\ mapped' < conns
    BY <1>2, <2>1, UnmapStep
  <2>3. WriterTypeOK'  BY <1>2, <1>4, <2>1, <2>2 DEF WriterTypeOK
  <2>4. mapped' <= conns /\ ~WithFile' /\ pc' \notin {"out", "spin"}
    BY <1>4, <2>1, <2>2 DEF WithFile
  <2> QED  BY <1>2, <2>2, <2>3, <2>4, OutOfUse DEF Null, Mapping
<1> QED  BY <1>5, <1>6

LEMMA FillKeeps ==
  ASSUME WriterInv, FillFile \/ FillError, UNCHANGED conns
  PROVE  WriterInv'
<1>1. WriterTypeOK' /\ Blocks' /\ Histories'  BY FillStep
<1>2. /\ pc = "fill" /\ pc' = "out" /\ UNCHANGED <<m_file_address, m_file_stat, mapped, ret>>
  BY DEF FillFile, FillError, Filled, fileVars, parserVars
<1>3. Mappings /\ m_file_stat \in Nat  BY DEF WriterInv, WriterTypeOK
<1>4. WithFile' <=> WithFile
  <2>1. CASE FillFile
    <3>1. ret = "FILE_REQUEST" /\ m_file_stat # 0 /\ m_iv_count' = 2
      BY <2>1 DEF FillFile
    <3> QED  BY <1>2, <1>3, <3>1 DEF WithFile
  <2>2. CASE FillError
    <3>1. ret # "FILE_REQUEST" /\ m_iv_count' = 1  BY <2>2 DEF FillError
    <3> QED  BY <1>2, <3>1 DEF WithFile
  <2> QED  BY <2>1, <2>2
<1>5. Mappings'  BY <1>2, <1>3, <1>4 DEF Mappings
<1> QED  BY <1>1, <1>5 DEF WriterInv

LEMMA OtherWriterSteps ==
  ASSUME WriterInv, FillEmpty \/ WriteNothing \/ WriteFails \/ WriteSpins, UNCHANGED conns
  PROVE  WriterInv'
<1>1. WriterTypeOK /\ Blocks /\ Histories /\ Mappings  BY DEF WriterInv
<1>2. mapped \in Nat /\ conns \in Nat /\ mapped <= conns
  BY <1>1 DEF WriterTypeOK, Mappings
<1>3. CASE FillEmpty
  <2>1. pc' = "closed" /\ UNCHANGED writerVars  BY <1>3 DEF FillEmpty
  <2>2. WriterTypeOK' /\ Histories'
    BY <1>1, <2>1 DEF WriterTypeOK, Histories, writerVars, fileVars, blockVars, sentVars
  <2>3. mapped' = mapped /\ m_file_address' = m_file_address
    BY <2>1 DEF writerVars, fileVars
  <2> QED  BY <1>1, <1>2, <2>1, <2>2, <2>3, OutOfUse DEF Mappings
<1>4. CASE WriteNothing
  <2>1. /\ pc = "out" /\ bytes_to_send = 0 /\ pc' = "in" /\ m_write_idx' = 0
        /\ UNCHANGED <<m_file_address, m_file_stat, mapped, m_iv, m_iv_count, bytes_to_send,
                       bytes_have_send, response, received, regular>>
    BY <1>4 DEF WriteNothing, fileVars, sentVars
  <2>2. m_iv_count # 2
    <3>1. m_iv_count = 2 => LenOf(0) + LenOf(1) \in 1 .. bytes_to_send
      BY <1>1, <2>1 DEF Blocks, FileBlocks
    <3>2. 1 .. bytes_to_send = {}  BY <2>1
    <3> QED  BY <3>1, <3>2
  <2>3. mapped < conns  BY <1>1, <2>1, <2>2 DEF Mappings, WithFile
  <2>4. WriterTypeOK' /\ Histories'  BY <1>1, <2>1 DEF WriterTypeOK, Histories
  <2>5. ~WithFile'  BY <2>1 DEF WithFile
  <2> QED  BY <1>1, <1>2, <2>1, <2>3, <2>4, <2>5, OutOfUse DEF Mappings
<1>5. CASE WriteFails
  <2>1. /\ pc = "out" /\ unmap /\ pc' = "closed"
        /\ UNCHANGED <<m_file_stat, blockVars, sentVars>>
    BY <1>5 DEF WriteFails
  <2>2. m_file_address' = Null /\ mapped' \in Nat /\ mapped' < conns  BY <2>1, UnmapStep
  <2>3. WriterTypeOK' /\ Histories'
    BY <1>1, <2>1, <2>2 DEF WriterTypeOK, Histories, blockVars, sentVars
  <2>4. mapped' <= conns  BY <1>2, <2>2
  <2> QED  BY <2>1, <2>2, <2>3, <2>4, OutOfUse DEF Null, Mapping
<1>6. CASE WriteSpins
  <2>1. /\ pc = "out" /\ Amounts = {} /\ pc' = "spin" /\ UNCHANGED <<ret, writerVars>>
    BY <1>6 DEF WriteSpins, parserVars
  <2>2. /\ m_iv \in [0..1 -> [iov_base : Int, iov_len : Int]] /\ m_iv_count \in {1, 2}
        /\ LenOf(0) \in Nat
    BY <1>1, <2>1 DEF WriterTypeOK, Blocks
  <2>3. m_iv_count = 1
    <3> SUFFICES ASSUME m_iv_count = 2 PROVE FALSE  BY <2>2
    <3>1. LenOf(1) \in Nat /\ LenOf(0) + LenOf(1) >= 1
      BY <1>1, <2>1 DEF Blocks, FileBlocks, WriterTypeOK
    <3>2. Len(gather(m_iv, m_iv_count)) = LenOf(0) + LenOf(1)
      BY <2>2, <3>1, GatherType DEF LenOf
    <3>3. 1 \in Amounts  BY <2>2, <3>1, <3>2 DEF Amounts
    <3> QED  BY <2>1, <3>3
  <2>4. WriterTypeOK' /\ Histories'
    BY <1>1, <2>1 DEF WriterTypeOK, Histories, writerVars, fileVars, blockVars, sentVars
  <2>5. m_iv_count' = 1 /\ LenOf(0)' = LenOf(0)
    BY <2>1, <2>3 DEF writerVars, blockVars, LenOf
  <2>6. Blocks'  BY <2>1, <2>2, <2>5 DEF Blocks, FileBlocks
  <2>7. ~WithFile /\ ~WithFile'  BY <2>1, <2>3 DEF WithFile
  <2>8. Mappings'  BY <1>1, <2>1, <2>7 DEF Mappings, writerVars, fileVars
  <2> QED  BY <2>4, <2>6, <2>8 DEF WriterInv
<1> QED  BY <1>3, <1>4, <1>5, <1>6

LEMMA ParserKeepsWriter ==
  ASSUME WriterInv, Parser, UNCHANGED <<writerVars, conns>>
  PROVE  WriterInv'
<1>1. WriterTypeOK /\ Histories /\ Mappings  BY DEF WriterInv
<1>2. /\ pc \in {"in", "read", "parse"} /\ pc' \in {"read", "parse", "in", "closed", "fill", "do"}
      /\ pc' = "fill" => ret' = "BAD_REQUEST"
  BY DEF Parser, Recv, ReadDone, ReadFails, NoLine, parse_request_line, RefuseRequestLine,
         parse_headers, EndOfHeaders, parse_content, Line
<1>3. ~WithFile /\ ~WithFile'  BY <1>2 DEF WithFile
<1>4. mapped \in Nat /\ conns \in Nat /\ mapped < conns
  BY <1>1, <1>2, <1>3 DEF Mappings, WriterTypeOK
<1>5. WriterTypeOK' /\ Histories'
  BY <1>1 DEF WriterTypeOK, Histories, writerVars, fileVars, blockVars, sentVars
<1>6. mapped' = mapped /\ m_file_address' = m_file_address  BY DEF writerVars, fileVars
<1>7. mapped' < conns /\ mapped' <= conns  BY <1>4, <1>6
<1> QED  BY <1>1, <1>2, <1>3, <1>5, <1>6, <1>7, OutOfUse DEF Mappings

LEMMA ClientKeepsWriter ==
  ASSUME WriterInv, Open \/ Ask \/ SendPiece \/ Close
  PROVE  WriterInv'
<1>1. WriterTypeOK /\ Histories /\ Mappings /\ mapped \in Nat /\ conns \in Nat /\ mapped <= conns
  BY DEF WriterInv, WriterTypeOK, Mappings
<1>2. <<>> \in Seq(Bytes)  OBVIOUS
<1>3. CASE Open
  <2>1. /\ pc' = "in" /\ conns' = conns + 1 /\ m_write_idx' = 0
        /\ response' = <<>> /\ received' = <<>>
        /\ UNCHANGED <<m_file_address, m_file_stat, mapped, m_iv, m_iv_count, bytes_to_send,
                       bytes_have_send, regular>>
    BY <1>3 DEF Open, fileVars
  <2>2. WriterTypeOK' /\ Histories'  BY <1>1, <1>2, <2>1 DEF WriterTypeOK, Histories
  <2>3. Blocks'  BY <2>1 DEF Blocks, FileBlocks
  <2>4. conns' \in Nat /\ mapped' < conns' /\ mapped' <= conns'  BY <1>1, <2>1
  <2>5. Mappings'  BY <1>1, <2>1, <2>4 DEF Mappings, WithFile
  <2> QED  BY <2>2, <2>3, <2>5 DEF WriterInv
<1>4. CASE Ask
  <2>1. /\ pc = "in" /\ pc' = "in" /\ response' = <<>> /\ received' = <<>>
        /\ UNCHANGED <<fileVars, blockVars, regular, conns>>
    BY <1>4 DEF Ask
  <2>2. WriterTypeOK' /\ Histories'
    BY <1>1, <1>2, <2>1 DEF WriterTypeOK, Histories, fileVars, blockVars
  <2>3. ~WithFile /\ ~WithFile'  BY <2>1 DEF WithFile
  <2> QED  BY <1>1, <2>1, <2>2, <2>3, OutOfUse DEF Mappings, fileVars
<1>5. CASE SendPiece
  <2>1. pc \in {"in", "read"} /\ UNCHANGED <<pc, writerVars, conns>>  BY <1>5 DEF SendPiece
  <2>2. WriterTypeOK' /\ Histories'
    BY <1>1, <2>1 DEF WriterTypeOK, Histories, writerVars, fileVars, blockVars, sentVars
  <2>3. ~WithFile /\ ~WithFile'  BY <2>1 DEF WithFile
  <2> QED  BY <1>1, <2>1, <2>2, <2>3, OutOfUse DEF Mappings, writerVars, fileVars
<1>6. CASE Close
  <2>1. pc' = "closed" /\ UNCHANGED <<writerVars, conns>>  BY <1>6 DEF Close, clientVars
  <2>2. WriterTypeOK' /\ Histories'
    BY <1>1, <2>1 DEF WriterTypeOK, Histories, writerVars, fileVars, blockVars, sentVars
  <2> QED  BY <1>1, <2>1, <2>2, OutOfUse DEF Mappings, writerVars, fileVars
<1> QED  BY <1>3, <1>4, <1>5, <1>6

LEMMA WriterStep == WriterInv /\ [Next]_vars => WriterInv'
<1> SUFFICES ASSUME WriterInv, [Next]_vars PROVE WriterInv'  OBVIOUS
<1>1. CASE Open \/ Ask \/ SendPiece \/ Close  BY <1>1, ClientKeepsWriter
<1>2. CASE Parser /\ UNCHANGED <<writerVars, clientVars>>
  BY <1>2, ParserKeepsWriter DEF clientVars
<1>3. CASE Writer /\ UNCHANGED clientVars
  <2>1. UNCHANGED conns  BY <1>3 DEF clientVars
  <2> QED  BY <1>3, <2>1, MapStep, FillKeeps, SendStep, OtherWriterSteps DEF Writer
<1>4. CASE UNCHANGED vars
  <2>1. WriterTypeOK' /\ Histories'
    BY <1>4 DEF WriterInv, WriterTypeOK, Histories, vars, writerVars, fileVars, blockVars, sentVars
  <2>2. Blocks' /\ Mappings'
    BY <1>4 DEF WriterInv, Blocks, FileBlocks, LenOf, Mappings, WithFile, vars, parserVars,
                writerVars, fileVars, blockVars, sentVars, clientVars
  <2> QED  BY <2>1, <2>2 DEF WriterInv
<1> QED  BY <1>1, <1>2, <1>3, <1>4 DEF Next, Server

LEMMA WriterInvariant == Spec => []WriterInv
BY WriterInit, WriterStep, PTL DEF Spec

\* The indices of the parser and the blocks of write() keep their ranges.
THEOREM TypeCorrect == Spec => []TypeOK
<1>1. ParserInv /\ WriterInv => TypeOK  BY DEF ParserInv, WriterInv, TypeOK
<1> QED  BY <1>1, ParserInvariant, WriterInvariant, PTL

\* Whatever the sizes of header and file, and however writev splits them, the two
\* blocks hold at least one byte and no more than what is to be sent.
THEOREM FileReplies == Spec => []FileReplyExact
<1>1. WriterInv => FileReplyExact
  <2> SUFFICES ASSUME WriterInv, pc \in {"out", "spin"}, m_iv_count = 2
      PROVE  /\ bytes_to_send = Len(response) - Len(received)
             /\ Len(gather(m_iv, 2)) \in 1 .. bytes_to_send
    BY DEF FileReplyExact
  <2>1. pc = "out" /\ LenOf(0) \in Nat  BY DEF WriterInv, Blocks
  <2>2. /\ LenOf(1) \in Nat /\ LenOf(0) + LenOf(1) \in 1 .. bytes_to_send
        /\ bytes_to_send = Len(response) - Len(received)
    BY <2>1 DEF WriterInv, Blocks, FileBlocks
  <2>3. Len(gather(m_iv, 2)) = LenOf(0) + LenOf(1)
    BY <2>1, <2>2, GatherType DEF WriterInv, WriterTypeOK, LenOf
  <2> QED  BY <2>2, <2>3
<1> QED  BY <1>1, WriterInvariant, PTL

\* A slot leaves at most one mapping behind for each connection it had.
THEOREM OneMappingEach == Spec => []MappingsBounded
<1>1. WriterInv => MappingsBounded  BY DEF WriterInv, Mappings, MappingsBounded
<1> QED  BY <1>1, WriterInvariant, PTL

-----------------------------------------------------------------------------
(* HttpConn implements ResponseSlot. *)

LEMMA SignNegative ==
  ASSUME bytes_to_send \in Int
  PROVE  Sign = -1 <=> bytes_to_send < 0
BY DEF Sign

\* A step that fills or sends nothing moves only the stage of the slot.
LEMMA SameSign ==
  ASSUME bytes_to_send' = bytes_to_send
  PROVE  Sign' = Sign
BY DEF Sign

LEMMA SlotFill ==
  ASSUME WriterInv, FillFile \/ FillError \/ FillEmpty
  PROVE  Slot!Next
<1>1. CASE FillFile
  <2>1. pc = "fill" /\ pc' = "out" /\ m_iv_count' = 2  BY <1>1 DEF FillFile, Filled
  <2>2. bytes_to_send' = m_write_idx' + m_file_stat  BY <1>1 DEF FillFile, headersAndFile
  <2>3. m_write_idx' \in Nat /\ m_write_idx' > 0 /\ m_file_stat \in Nat /\ bytes_to_send' \in Int
    BY <1>1, FillStep DEF WriterInv, WriterTypeOK
  <2>4. \A w, k \in Nat : w > 0 => w + k > 0 /\ w + k # 0  OBVIOUS
  <2>5. bytes_to_send' > 0 /\ bytes_to_send' # 0  BY <2>2, <2>3, <2>4, Zenon
  <2>6. Sign' = 1  BY <2>5 DEF Sign
  <2>7. Stage = "reading" /\ Stage' = "writing"  BY <2>1 DEF Stage
  <2> QED  BY <2>1, <2>6, <2>7 DEF Slot!Next, Slot!FillFile
<1>2. CASE FillError
  <2>1. pc = "fill" /\ pc' = "out" /\ m_iv_count' = 1 /\ Sign' = Sign
    BY <1>2, SameSign DEF FillError, Filled
  <2>2. Stage = "reading" /\ Stage' = "writing"  BY <2>1 DEF Stage
  <2> QED  BY <2>1, <2>2 DEF Slot!Next, Slot!FillError
<1>3. CASE FillEmpty
  <2>1. pc = "fill" /\ pc' = "closed" /\ UNCHANGED m_iv_count /\ Sign' = Sign
    BY <1>3, SameSign DEF FillEmpty, writerVars, blockVars
  <2>2. Stage = "reading" /\ Stage' = "closed"  BY <2>1 DEF Stage
  <2> QED  BY <2>1, <2>2 DEF Slot!Next, Slot!Close
<1> QED  BY <1>1, <1>2, <1>3

LEMMA SlotSend ==
  ASSUME WriterInv, WriteSome \/ WriteKeeps \/ WriteCloses
  PROVE  Slot!Next \/ UNCHANGED Slot!slotVars
<1>1. PICK n \in Amounts : writev(n)  BY DEF WriteSome, WriteKeeps, WriteCloses
<1>2. /\ pc = "out" /\ n \in 1 .. Len(gather(m_iv, m_iv_count)) /\ UNCHANGED m_iv_count
      /\ bytes_to_send' = bytes_to_send - n
      /\ m_iv_count = 2 => bytes_to_send' >= 0
  BY <1>1, WritevStep
<1>3. bytes_to_send \in Int /\ m_iv_count \in {1, 2} /\ n \in Int /\ n >= 1
  BY <1>2 DEF WriterInv, WriterTypeOK, Blocks
<1>4. bytes_to_send # 0 /\ Sign # 0  BY <1>1 DEF writev, Sign
<1>5. CASE WriteSome
  <2>1. pc' = "out" /\ bytes_to_send' > 0  BY <1>2, <1>5 DEF WriteSome
  <2>2. bytes_to_send > 0 /\ bytes_to_send' # 0  BY <1>2, <1>3, <2>1
  <2>3. Sign = 1 /\ Sign' = 1  BY <1>4, <2>1, <2>2 DEF Sign
  <2>4. Stage' = Stage  BY <1>2, <2>1 DEF Stage
  <2> QED  BY <1>2, <2>3, <2>4 DEF Slot!slotVars
<1>6. CASE WriteKeeps \/ WriteCloses
  <2>1. pc' \in {"in", "closed"} /\ bytes_to_send' <= 0
    BY <1>6 DEF WriteKeeps, WriteCloses
  <2>2. Stage = "writing" /\ Stage' \in {"reading", "closed"}  BY <1>2, <2>1 DEF Stage
  <2>3. Sign' \in IF m_iv_count = 2 THEN {0} ELSE IF Sign = -1 THEN {-1} ELSE {-1, 0}
    <3>1. CASE m_iv_count = 2
      <4>1. bytes_to_send' = 0  BY <1>2, <1>3, <2>1, <3>1
      <4> QED  BY <3>1, <4>1 DEF Sign
    <3>2. CASE m_iv_count = 1
      <4>1. Sign' \in {-1, 0}  BY <2>1, <1>2, <1>3 DEF Sign
      <4>2. Sign = -1 => Sign' = -1
        <5>1. Sign = -1 => bytes_to_send' < 0  BY <1>2, <1>3, SignNegative
        <5> QED  BY <1>2, <1>3, <5>1 DEF Sign
      <4> QED  BY <3>2, <4>1, <4>2
    <3> QED  BY <1>3, <3>1, <3>2
  <2> QED  BY <1>2, <1>4, <2>2, <2>3 DEF Slot!Next, Slot!Sent
<1> QED  BY <1>5, <1>6

LEMMA SlotOther ==
  ASSUME WriterInv, WriterInv', do_request \/ WriteNothing \/ WriteFails \/ WriteSpins
  PROVE  Slot!Next \/ UNCHANGED Slot!slotVars
<1>1. UNCHANGED m_iv_count /\ Sign' = Sign
  BY SameSign DEF do_request, WriteNothing, WriteFails, WriteSpins, writerVars, blockVars
<1>2. CASE do_request
  <2>1. Stage' = Stage  BY <1>2 DEF do_request, Stage
  <2> QED  BY <1>1, <2>1 DEF Slot!slotVars
<1>3. CASE WriteNothing
  <2>1. Stage = "writing" /\ Stage' = "reading" /\ Sign = 0
    BY <1>3 DEF WriteNothing, Stage, Sign
  <2> QED  BY <1>1, <2>1 DEF Slot!Next, Slot!WriteNothing
<1>4. CASE WriteFails
  <2>1. Stage = "writing" /\ Stage' = "closed"  BY <1>4 DEF WriteFails, Stage
  <2> QED  BY <1>1, <2>1 DEF Slot!Next, Slot!Close
<1>5. CASE WriteSpins
  <2>1. pc = "out" /\ pc' = "spin" /\ bytes_to_send > 0  BY <1>5 DEF WriteSpins
  <2>2. m_iv_count = 1  BY <1>1, <2>1 DEF WriterInv, Blocks
  <2>3. bytes_to_send # 0  BY <2>1 DEF WriterInv, WriterTypeOK
  <2>4. Stage = "writing" /\ Stage' = "spin" /\ Sign = 1  BY <2>1, <2>3 DEF Stage, Sign
  <2> QED  BY <1>1, <2>2, <2>4 DEF Slot!Next, Slot!Spin
<1> QED  BY <1>2, <1>3, <1>4, <1>5

LEMMA SlotParser ==
  ASSUME Parser, UNCHANGED writerVars
  PROVE  Slot!Next \/ UNCHANGED Slot!slotVars
<1>1. UNCHANGED m_iv_count /\ Sign' = Sign  BY SameSign DEF writerVars, blockVars
<1>2. /\ pc \in {"in", "read", "parse"} /\ pc' \in {"read", "parse", "in", "closed", "fill", "do"}
  BY DEF Parser, Recv, ReadDone, ReadFails, NoLine, parse_request_line, RefuseRequestLine,
         parse_headers, EndOfHeaders, parse_content, Line
<1>3. Stage = "reading" /\ Stage' \in {"reading", "closed"}  BY <1>2 DEF Stage
<1> QED  BY <1>1, <1>3 DEF Slot!Next, Slot!Close, Slot!slotVars

LEMMA SlotClient ==
  ASSUME Open \/ Ask \/ SendPiece \/ Close
  PROVE  Slot!Next \/ UNCHANGED Slot!slotVars
<1>1. UNCHANGED m_iv_count /\ Sign' = Sign
  BY SameSign DEF Open, Ask, SendPiece, Close, writerVars, blockVars
<1>2. CASE Open
  <2>1. Stage = "closed" /\ Stage' = "reading"  BY <1>2 DEF Open, Stage
  <2> QED  BY <1>1, <2>1 DEF Slot!Next, Slot!Accept
<1>3. CASE Ask \/ SendPiece
  <2>1. Stage' = Stage  BY <1>3 DEF Ask, SendPiece, Stage
  <2> QED  BY <1>1, <2>1 DEF Slot!slotVars
<1>4. CASE Close
  <2>1. Stage \in {"reading", "writing"} /\ Stage' = "closed"  BY <1>4 DEF Close, Stage
  <2> QED  BY <1>1, <2>1 DEF Slot!Next, Slot!Close
<1> QED  BY <1>2, <1>3, <1>4

\* What Reactor keeps of a response, the sign of its count and the loop that never
\* ends, is what the bytes lead to, for every request, file and split of the writes.
THEOREM SlotImplemented == Spec => ImplementsSlot
<1>1. Init => Slot!Init
  <2> SUFFICES ASSUME Init PROVE Slot!Init  OBVIOUS
  <2>1. pc = "closed" /\ m_iv_count = 0 /\ bytes_to_send = 0
    BY DEF Init, InitParser, InitWriter
  <2> QED  BY <2>1 DEF Slot!Init, Stage, Sign
<1>2. WriterInv /\ WriterInv' /\ [Next]_vars => [Slot!Next]_Slot!slotVars
  <2> SUFFICES ASSUME WriterInv, WriterInv', [Next]_vars
      PROVE  Slot!Next \/ UNCHANGED Slot!slotVars
    OBVIOUS
  <2>1. CASE Open \/ Ask \/ SendPiece \/ Close  BY <2>1, SlotClient
  <2>2. CASE Parser /\ UNCHANGED <<writerVars, clientVars>>  BY <2>2, SlotParser
  <2>3. CASE Writer  BY <2>3, SlotFill, SlotSend, SlotOther DEF Writer
  <2>4. CASE UNCHANGED vars
    BY <2>4 DEF vars, writerVars, blockVars, Slot!slotVars, Stage, Sign
  <2> QED  BY <2>1, <2>2, <2>3, <2>4 DEF Next, Server
<1> QED  BY <1>1, <1>2, WriterInvariant, PTL DEF Spec, ImplementsSlot, Slot!Spec

-----------------------------------------------------------------------------
(* The bytes the client gets, as long as the bookkeeping of write() is regular *)

LEMMA GatherBytes ==
  ASSUME NEW iv \in [0..1 -> [iov_base : Int, iov_len : Int]], NEW count \in {1, 2},
         iv[0].iov_len \in Nat, count = 2 => iv[1].iov_len \in Nat
  PROVE  /\ \A k \in 1..iv[0].iov_len : gather(iv, count)[k] = <<0, iv[0].iov_base + k - 1>>
         /\ count = 2 =>
              \A k \in 1..iv[1].iov_len :
                gather(iv, count)[iv[0].iov_len + k] = <<1, iv[1].iov_base + k - 1>>
<1> DEFINE a == iv[0].iov_len
           b == iv[1].iov_len
<1>1. /\ block(iv, 0) \in Seq(Bytes) /\ Len(block(iv, 0)) = a
      /\ \A k \in 1..a : block(iv, 0)[k] = <<0, iv[0].iov_base + k - 1>>
  BY BlockType
<1>2. CASE count = 1
  <2>1. gather(iv, count) = block(iv, 0)  BY <1>2 DEF gather
  <2> QED  BY <1>1, <1>2, <2>1
<1>3. CASE count = 2
  <2>1. gather(iv, count) = block(iv, 0) \o block(iv, 1)  BY <1>3 DEF gather
  <2>2. /\ block(iv, 1) \in Seq(Bytes) /\ Len(block(iv, 1)) = b
        /\ \A k \in 1..b : block(iv, 1)[k] = <<1, iv[1].iov_base + k - 1>>
    BY <1>3, BlockType
  <2>3. a \in Nat /\ b \in Nat  BY <1>3
  <2>4. \A j \in 1 .. a+b :
          gather(iv, count)[j] = IF j <= a THEN block(iv, 0)[j] ELSE block(iv, 1)[j - a]
    BY <1>1, <2>1, <2>2, ConcatProperties
  <2> HIDE DEF a, b
  <2>5. \A k \in 1..a : k \in 1 .. a+b /\ k <= a  BY <2>3
  <2>6. \A k \in 1..b : a+k \in 1 .. a+b /\ ~(a+k <= a) /\ (a+k) - a = k  BY <2>3
  <2>7. \A k \in 1..a : gather(iv, count)[k] = <<0, iv[0].iov_base + k - 1>>
    BY <1>1, <2>4, <2>5
  <2>8. \A k \in 1..b : gather(iv, count)[a + k] = <<1, iv[1].iov_base + k - 1>>
    BY <2>2, <2>4, <2>6
  <2> QED  BY <2>7, <2>8 DEF a, b
<1> QED  BY <1>2, <1>3

\* The bytes of a response, and the blocks once the client has some of them
ByteOf(k) == IF k <= m_write_idx THEN <<0, k - 1>> ELSE <<1, k - m_write_idx - 1>>
Laid ==
  /\ Len(response) = IF m_iv_count = 2 THEN m_write_idx + m_file_stat ELSE m_write_idx
  /\ \A k \in 1 .. Len(response) : response[k] = ByteOf(k)
Left ==
  /\ Len(received) = bytes_have_send /\ bytes_have_send <= Len(response)
  /\ bytes_have_send < m_write_idx =>
       /\ m_iv[0] = iovec(bytes_have_send, m_write_idx - bytes_have_send)
       /\ m_iv_count = 2 => m_iv[1] = iovec(0, m_file_stat)
  /\ bytes_have_send >= m_write_idx =>
       /\ LenOf(0) = 0
       /\ m_iv_count = 2 => m_iv[1] = iovec(bytes_have_send - m_write_idx,
                                            m_write_idx + m_file_stat - bytes_have_send)
BytesInv == ClientGetsPrefix /\ (pc = "out" /\ regular => Laid /\ Left)

\* What the blocks hold is the rest of the response.
LEMMA RestInBlocks ==
  ASSUME WriterInv, pc = "out", Laid, Left
  PROVE  LET g == gather(m_iv, m_iv_count) IN
         /\ g \in Seq(Bytes) /\ Len(g) = Len(response) - bytes_have_send
         /\ \A k \in 1 .. Len(g) : g[k] = response[bytes_have_send + k]
<1> DEFINE g == gather(m_iv, m_iv_count)
           h == bytes_have_send
           W == m_write_idx
           S == m_file_stat
<1>1. /\ m_iv \in [0..1 -> [iov_base : Int, iov_len : Int]] /\ m_iv_count \in {1, 2}
      /\ LenOf(0) \in Nat /\ (m_iv_count = 2 => LenOf(1) \in Nat)
      /\ h \in Nat /\ W \in Nat /\ S \in Nat /\ response \in Seq(Bytes)
  BY DEF WriterInv, WriterTypeOK, Blocks, FileBlocks, Histories
<1>2. /\ g \in Seq(Bytes)
      /\ Len(g) = IF m_iv_count = 2 THEN LenOf(0) + LenOf(1) ELSE LenOf(0)
  BY <1>1, GatherType DEF LenOf
<1>3. /\ \A k \in 1..LenOf(0) : g[k] = <<0, m_iv[0].iov_base + k - 1>>
      /\ m_iv_count = 2 =>
           \A k \in 1..LenOf(1) : g[LenOf(0) + k] = <<1, m_iv[1].iov_base + k - 1>>
  BY <1>1, GatherBytes DEF LenOf
<1>4. h <= Len(response) /\ Len(response) = IF m_iv_count = 2 THEN W + S ELSE W
  BY DEF Laid, Left
<1>5. \A k \in 1 .. Len(response) : response[k] = IF k <= W THEN <<0, k - 1>> ELSE <<1, k - W - 1>>
  BY DEF Laid, ByteOf
<1> HIDE DEF g
<1>6. CASE h < W
  <2>1. LenOf(0) = W - h /\ m_iv[0].iov_base = h  BY <1>6 DEF Left, iovec, LenOf
  <2>2. m_iv_count = 2 => LenOf(1) = S /\ m_iv[1].iov_base = 0  BY <1>6 DEF Left, iovec, LenOf
  <2>3. Len(g) = Len(response) - h  BY <1>1, <1>2, <1>4, <2>1, <2>2
  <2>4. ASSUME NEW k \in 1 .. Len(g) PROVE g[k] = response[h + k]
    <3>1. k \in Int /\ h + k \in 1 .. Len(response)  BY <1>1, <1>4, <2>3
    <3>2. CASE k <= W - h
      <4>1. g[k] = <<0, h + k - 1>>  BY <1>1, <1>3, <2>1, <3>1, <3>2
      <4>2. h + k <= W  BY <1>1, <3>1, <3>2
      <4>3. response[h + k] = <<0, (h + k) - 1>>  BY <1>5, <3>1, <4>2
      <4>4. h + k - 1 = (h + k) - 1  BY <1>1, <3>1
      <4> QED  BY <4>1, <4>3, <4>4
    <3>3. CASE k > W - h
      <4>1. m_iv_count = 2  BY <1>1, <1>2, <2>1, <3>1, <3>3
      <4>2. k - (W - h) \in 1 .. S /\ LenOf(0) + (k - (W - h)) = k
        BY <1>1, <1>2, <2>1, <2>2, <3>1, <3>3, <4>1
      <4>3. g[k] = <<1, 0 + (k - (W - h)) - 1>>  BY <1>3, <2>2, <4>1, <4>2
      <4>4. ~(h + k <= W) /\ 0 + (k - (W - h)) - 1 = (h + k) - W - 1  BY <1>1, <3>1, <3>3
      <4> QED  BY <1>5, <3>1, <4>3, <4>4
    <3> QED  BY <1>1, <3>1, <3>2, <3>3
  <2> QED  BY <1>2, <2>3, <2>4 DEF g
<1>7. CASE h >= W
  <2>1. LenOf(0) = 0  BY <1>7 DEF Left
  <2>2. m_iv_count = 2 => LenOf(1) = W + S - h /\ m_iv[1].iov_base = h - W
    BY <1>7 DEF Left, iovec, LenOf
  <2>3. Len(g) = Len(response) - h  BY <1>1, <1>2, <1>4, <1>7, <2>1, <2>2
  <2>4. ASSUME NEW k \in 1 .. Len(g) PROVE g[k] = response[h + k]
    <3>1. k \in Int /\ h + k \in 1 .. Len(response) /\ k >= 1  BY <1>1, <1>4, <2>3
    <3>2. m_iv_count = 2  BY <1>1, <1>2, <2>1, <3>1
    <3>3. k \in 1 .. LenOf(1) /\ LenOf(0) + k = k  BY <1>1, <1>2, <2>1, <3>1, <3>2
    <3>4. g[k] = <<1, (h - W) + k - 1>>  BY <1>3, <2>2, <3>2, <3>3
    <3>5. ~(h + k <= W) /\ (h - W) + k - 1 = (h + k) - W - 1  BY <1>1, <1>7, <3>1
    <3> QED  BY <1>5, <3>1, <3>4, <3>5
  <2> QED  BY <1>2, <2>3, <2>4 DEF g
<1> QED  BY <1>1, <1>6, <1>7

\* writev takes the first bytes of the rest: the client has a longer prefix, and
\* the blocks hold what follows it.
LEMMA PrefixGrows ==
  ASSUME WriterInv, BytesInv, NEW n \in Amounts, writev(n), regular'
  PROVE  /\ received' = SubSeq(response', 1, Len(received'))
         /\ bytes_to_send' > 0 /\ m_write_idx' = m_write_idx => Laid' /\ Left'
<1> DEFINE g == gather(m_iv, m_iv_count)
           h == bytes_have_send
           W == m_write_idx
           S == m_file_stat
<1>1. /\ pc = "out" /\ regular /\ (h = 0 \/ h + n >= W)
      /\ received' = received \o SubSeq(g, 1, n) /\ response' = response
      /\ bytes_to_send' = bytes_to_send - n /\ bytes_have_send' = h + n
      /\ UNCHANGED <<m_iv_count, m_file_stat>>
  BY DEF writev, advanced
<1>2. Laid /\ Left /\ received = SubSeq(response, 1, Len(received))
  BY <1>1 DEF BytesInv, ClientGetsPrefix
<1>3. /\ g \in Seq(Bytes) /\ Len(g) = Len(response) - h
      /\ \A k \in 1 .. Len(g) : g[k] = response[h + k]
  BY <1>1, <1>2, RestInBlocks
<1>4. /\ h \in Nat /\ W \in Nat /\ S \in Nat /\ response \in Seq(Bytes) /\ received \in Seq(Bytes)
      /\ m_iv \in [0..1 -> [iov_base : Int, iov_len : Int]] /\ m_iv_count \in {1, 2}
      /\ LenOf(0) \in Nat
  BY <1>1 DEF WriterInv, WriterTypeOK, Blocks, Histories
<1>5. n \in 1 .. Len(g)  BY DEF Amounts
<1>6. Len(received) = h /\ h <= Len(response)
      /\ Len(response) = IF m_iv_count = 2 THEN W + S ELSE W
  BY <1>2 DEF Left, Laid
<1> HIDE DEF g
<1>7. n \in Nat /\ n >= 1 /\ n <= Len(g) /\ h + n <= Len(response)  BY <1>3, <1>4, <1>5, <1>6
<1>8. /\ SubSeq(g, 1, n) \in Seq(Bytes) /\ Len(SubSeq(g, 1, n)) = n
      /\ \A k \in 1..n : SubSeq(g, 1, n)[k] = g[k]
  <2>1. \A i \in 1..n : g[i] \in Bytes  BY <1>3, <1>7, ElementOfSeq
  <2>2. n - 1 + 1 = n /\ \A i \in 1..n : 1 + i - 1 = i  BY <1>7
  <2>3. /\ SubSeq(g, 1, n) \in Seq(Bytes)
        /\ Len(SubSeq(g, 1, n)) = IF 1 <= n THEN n - 1 + 1 ELSE 0
        /\ \A i \in 1 .. n-1+1 : SubSeq(g, 1, n)[i] = g[1+i-1]
    BY <1>7, <2>1, SubSeqProperties
  <2> QED  BY <1>7, <2>2, <2>3
<1>9. /\ received' \in Seq(Bytes) /\ Len(received') = h + n
      /\ \A j \in 1 .. h+n : received'[j] = response[j]
  <2>1. /\ received' \in Seq(Bytes) /\ Len(received') = h + n
        /\ \A j \in 1 .. h+n :
             received'[j] = IF j <= h THEN received[j] ELSE SubSeq(g, 1, n)[j - h]
    <3> DEFINE q == SubSeq(g, 1, n)
    <3>1. received \in Seq(Bytes) /\ q \in Seq(Bytes) /\ Len(received) = h /\ Len(q) = n
      BY <1>4, <1>6, <1>8
    <3>2. received' = received \o q  BY <1>1
    <3> HIDE DEF q
    <3>3. /\ received \o q \in Seq(Bytes) /\ Len(received \o q) = h + n
          /\ \A j \in 1 .. h+n : (received \o q)[j] = IF j <= h THEN received[j] ELSE q[j - h]
      BY <3>1, ConcatProperties
    <3> QED  BY <3>2, <3>3 DEF q
  <2>2. ASSUME NEW j \in 1 .. h+n PROVE received'[j] = response[j]
    <3>1. CASE j <= h
      <4>1. \A i \in 1..h : response[i] \in Bytes  BY <1>4, <1>6, ElementOfSeq
      <4>2. \A i \in 1 .. h-1+1 : SubSeq(response, 1, h)[i] = response[1+i-1]
        BY <1>4, <4>1, SubSeqProperties
      <4>3. j \in 1 .. h-1+1 /\ 1+j-1 = j  BY <1>4, <1>7, <3>1
      <4> QED  BY <1>2, <1>6, <2>1, <3>1, <4>2, <4>3
    <3>2. CASE ~(j <= h)
      <4>1. j - h \in 1..n /\ j - h \in 1 .. Len(g) /\ h + (j - h) = j
        BY <1>3, <1>4, <1>7, <3>2
      <4> QED  BY <1>3, <1>8, <2>1, <3>2, <4>1
    <3> QED  BY <3>1, <3>2
  <2> QED  BY <2>1, <2>2
<1>10. received' = SubSeq(response', 1, Len(received'))
  <2> DEFINE p == SubSeq(response, 1, h + n)
  <2>1. \A i \in 1 .. h+n : response[i] \in Bytes  BY <1>4, <1>7, ElementOfSeq
  <2>2. h + n \in Int /\ 1 <= h + n /\ h + n - 1 + 1 = h + n  BY <1>4, <1>7
  <2>3. /\ p \in Seq(Bytes) /\ Len(p) = IF 1 <= h + n THEN h + n - 1 + 1 ELSE 0
        /\ \A i \in 1 .. h+n-1+1 : p[i] = response[1+i-1]
    BY <2>1, <2>2, SubSeqProperties
  <2>4. \A i \in 1 .. h+n : i \in 1 .. h+n-1+1 /\ 1+i-1 = i  BY <1>4, <1>7
  <2> HIDE DEF p
  <2>5. Len(p) = h + n /\ \A i \in 1 .. h+n : p[i] = response[i]  BY <2>2, <2>3, <2>4
  <2>6. received' = p
    <3>1. Len(received') = Len(p)  BY <1>9, <2>5
    <3>2. \A i \in 1 .. Len(received') : received'[i] = p[i]  BY <1>9, <2>5
    <3> QED  BY <1>9, <2>3, <3>1, <3>2, SeqEqual
  <2> QED  BY <1>1, <1>9, <2>6 DEF p
<1>11. ASSUME bytes_to_send' > 0, m_write_idx' = W PROVE Laid' /\ Left'
  <2>1. Laid'  BY <1>1, <1>2, <1>11 DEF Laid, ByteOf
  <2> DEFINE sent == bytes_have_send'
  <2>2. m_iv' = IF sent >= LenOf(0)
                THEN blocks([m_iv[0] EXCEPT !.iov_len = 0], iovec(sent - W, bytes_to_send'))
                ELSE [m_iv EXCEPT ![0] = iovec(sent, LenOf(0) - sent)]
    BY DEF writev, advanced, iovec, LenOf
  <2>3. sent = h + n /\ sent \in Nat /\ Len(received') = sent /\ sent <= Len(response')
    BY <1>1, <1>4, <1>7, <1>9
  <2> HIDE DEF sent
  <2>4. ASSUME sent < W
        PROVE  /\ m_iv'[0] = iovec(sent, W - sent)
               /\ m_iv_count = 2 => m_iv'[1] = iovec(0, S)
    <3>1. h = 0  BY <1>1, <1>4, <1>7, <2>3, <2>4
    <3>2. h < W /\ W - h = W  BY <1>4, <2>3, <2>4, <3>1
    <3>3. m_iv[0] = iovec(h, W - h) /\ (m_iv_count = 2 => m_iv[1] = iovec(0, S))
      BY <1>2, <3>2 DEF Left
    <3>4. LenOf(0) = W  BY <3>2, <3>3 DEF LenOf, iovec
    <3>5. ~(sent >= LenOf(0))  BY <1>4, <2>3, <2>4, <3>4
    <3>6. m_iv' = [m_iv EXCEPT ![0] = iovec(sent, W - sent)]  BY <2>2, <3>4, <3>5
    <3> QED  BY <1>4, <3>3, <3>6
  <2>5. ASSUME sent >= W
        PROVE  /\ LenOf(0)' = 0
               /\ m_iv_count = 2 => m_iv'[1] = iovec(sent - W, W + S - sent)
    <3>1. LenOf(0) = W - h \/ LenOf(0) = 0
      <4>1. CASE h < W  BY <1>2, <4>1 DEF Left, LenOf, iovec
      <4>2. CASE h >= W  BY <1>2, <4>2 DEF Left
      <4> QED  BY <1>4, <4>1, <4>2
    <3>2. sent >= LenOf(0)  BY <1>4, <2>3, <2>5, <3>1
    <3>3. m_iv' = blocks([m_iv[0] EXCEPT !.iov_len = 0], iovec(sent - W, bytes_to_send'))
      BY <2>2, <3>2
    <3>4. m_iv'[0] = [m_iv[0] EXCEPT !.iov_len = 0] /\ m_iv'[1] = iovec(sent - W, bytes_to_send')
      BY <3>3 DEF blocks
    <3>5. LenOf(0)' = 0  BY <1>4, <3>4 DEF LenOf
    <3>6. m_iv_count = 2 => bytes_to_send' = W + S - sent
      <4>1. m_iv_count = 2 => bytes_to_send' = Len(response) - Len(received')  BY WritevStep
      <4>2. m_iv_count = 2 => bytes_to_send' = (W + S) - sent  BY <1>6, <2>3, <4>1
      <4>3. (W + S) - sent = W + S - sent  BY <1>4, <2>3
      <4> QED  BY <4>2, <4>3
    <3> QED  BY <3>4, <3>5, <3>6
  <2>6. /\ bytes_have_send' = sent /\ m_write_idx' = W /\ m_iv_count' = m_iv_count
        /\ m_file_stat' = S /\ sent \in Nat /\ W \in Nat
    BY <1>1, <1>4, <1>11, <2>3 DEF sent
  <2>7. Left'  BY <2>3, <2>4, <2>5, <2>6 DEF Left
  <2> QED  BY <2>1, <2>7
<1> QED  BY <1>10, <1>11

\* process_write() lays the response out anew; regular, only if nothing counts as sent.
LEMMA FillLays ==
  ASSUME WriterInv, FillFile \/ FillError
  PROVE  BytesInv'
<1>1. /\ WriterTypeOK' /\ Blocks' /\ Histories' /\ m_write_idx' > 0
      /\ response' = gather(m_iv', m_iv_count') /\ received' = <<>>
  BY FillStep
<1>2. /\ pc' = "out" /\ regular' = (bytes_have_send = 0)
      /\ UNCHANGED <<bytes_have_send, m_file_stat>>
  BY DEF FillFile, FillError, Filled, fileVars
<1>3. /\ m_iv' \in [0..1 -> [iov_base : Int, iov_len : Int]] /\ m_iv_count' \in {1, 2}
      /\ m_write_idx' \in Nat /\ m_file_stat \in Nat
  BY <1>1, <1>2 DEF WriterTypeOK, Blocks, WriterInv
<1>4. /\ m_iv'[0] = iovec(0, m_write_idx')
      /\ m_iv_count' = 2 => m_iv'[1] = iovec(0, m_file_stat)
  <2>1. CASE FillFile  BY <2>1 DEF FillFile, blocks
  <2>2. CASE FillError
    <3>1. m_iv \in [0..1 -> [iov_base : Int, iov_len : Int]]  BY DEF WriterInv, WriterTypeOK
    <3> QED  BY <2>2, <3>1 DEF FillError
  <2> QED  BY <2>1, <2>2
<1> DEFINE iv == m_iv'
           c == m_iv_count'
           W == m_write_idx'
           S == m_file_stat
           g == gather(iv, c)
<1>5. /\ iv[0].iov_base = 0 /\ iv[0].iov_len = W
      /\ c = 2 => iv[1].iov_base = 0 /\ iv[1].iov_len = S
  BY <1>4 DEF iovec
<1>6. /\ iv \in [0..1 -> [iov_base : Int, iov_len : Int]] /\ c \in {1, 2} /\ W \in Nat /\ S \in Nat
      /\ response' = g
  BY <1>1, <1>3
<1> HIDE DEF iv, c, W
<1>7. /\ Len(g) = IF c = 2 THEN W + S ELSE W
      /\ \A k \in 1..W : g[k] = <<0, 0 + k - 1>>
      /\ c = 2 => \A k \in 1..S : g[W + k] = <<1, 0 + k - 1>>
  BY <1>5, <1>6, GatherType, GatherBytes
<1> HIDE DEF g, S
<1>8. ASSUME NEW k \in 1 .. Len(g)
      PROVE  g[k] = IF k <= W THEN <<0, k - 1>> ELSE <<1, k - W - 1>>
  <2>1. CASE k <= W
    <3>1. k \in 1..W /\ 0 + k - 1 = k - 1  BY <1>6, <1>7, <2>1
    <3> QED  BY <1>7, <2>1, <3>1
  <2>2. CASE ~(k <= W)
    <3>1. c = 2 /\ k - W \in 1..S /\ W + (k - W) = k /\ 0 + (k - W) - 1 = k - W - 1
      BY <1>6, <1>7, <2>2
    <3> QED  BY <1>7, <2>2, <3>1
  <2> QED  BY <2>1, <2>2
<1>9. Laid'  BY <1>2, <1>6, <1>7, <1>8 DEF Laid, ByteOf, W, c, S
<1>10. regular' => Left'
  <2> SUFFICES ASSUME regular' PROVE Left'  OBVIOUS
  <2>1. bytes_have_send' = 0  BY <1>2
  <2>2. Len(received') = 0  BY <1>1
  <2>3. Len(response') \in Nat  BY <1>6, <1>7
  <2>4. W - 0 = W  BY <1>6
  <2>5. 0 < W  BY <1>1 DEF W
  <2>6. ~(0 >= W)  BY <1>6, <2>5
  <2> QED  BY <1>2, <1>4, <1>6, <2>1, <2>2, <2>3, <2>4, <2>5, <2>6 DEF Left, W
<1>11. ClientGetsPrefix'
  <2>1. Len(received') = 0 /\ SubSeq(response', 1, 0) = <<>>  BY <1>1, SubSeqEmpty
  <2> QED  BY <1>1, <2>1 DEF ClientGetsPrefix
<1> QED  BY <1>9, <1>10, <1>11 DEF BytesInv

LEMMA BytesStep == WriterInv /\ BytesInv /\ [Next]_vars => BytesInv'
<1> SUFFICES ASSUME WriterInv, BytesInv, [Next]_vars PROVE BytesInv'  OBVIOUS
<1>1. CASE FillFile \/ FillError  BY <1>1, FillLays
<1>2. CASE WriteSome \/ WriteKeeps \/ WriteCloses
  <2>1. PICK n \in Amounts : writev(n)  BY <1>2 DEF WriteSome, WriteKeeps, WriteCloses
  <2>2. CASE ~regular'  BY <2>2 DEF BytesInv, ClientGetsPrefix
  <2>3. CASE regular'
    <3>1. ClientGetsPrefix'  BY <2>1, <2>3, PrefixGrows DEF ClientGetsPrefix
    <3>2. pc' = "out" => bytes_to_send' > 0 /\ m_write_idx' = m_write_idx
      BY <1>2 DEF WriteSome, WriteKeeps, WriteCloses
    <3> QED  BY <2>1, <2>3, <3>1, <3>2, PrefixGrows DEF BytesInv
  <2> QED  BY <2>2, <2>3
<1>3. CASE Open \/ Ask
  <2>1. response' = <<>> /\ received' = <<>> /\ pc' = "in"  BY <1>3 DEF Open, Ask
  <2>2. Len(received') = 0 /\ SubSeq(response', 1, 0) = <<>>  BY <2>1, SubSeqEmpty
  <2> QED  BY <2>1, <2>2 DEF BytesInv, ClientGetsPrefix
<1>4. ASSUME UNCHANGED <<response, received, regular>>,
             \/ pc' # "out"
             \/ UNCHANGED <<pc, m_write_idx, m_file_stat, m_iv, m_iv_count, bytes_have_send>>
      PROVE  BytesInv'
  <2>1. ClientGetsPrefix'  BY <1>4 DEF BytesInv, ClientGetsPrefix
  <2> QED  BY <1>4, <2>1 DEF BytesInv, Laid, Left, ByteOf, LenOf
<1>5. CASE do_request \/ FillEmpty \/ WriteNothing \/ WriteFails \/ WriteSpins
  BY <1>4, <1>5 DEF do_request, FillEmpty, WriteNothing, WriteFails, WriteSpins, writerVars, sentVars
<1>6. CASE Parser /\ UNCHANGED <<writerVars, clientVars>>
  <2>1. pc' # "out"
    BY <1>6 DEF Parser, Recv, ReadDone, ReadFails, NoLine, parse_request_line, RefuseRequestLine,
                parse_headers, EndOfHeaders, parse_content, Line
  <2> QED  BY <1>4, <1>6, <2>1 DEF writerVars, sentVars
<1>7. CASE SendPiece \/ Close
  <2>1. pc' # "out"  BY <1>7 DEF SendPiece, Close
  <2> QED  BY <1>4, <1>7, <2>1 DEF SendPiece, Close, writerVars, sentVars
<1>8. CASE UNCHANGED vars
  BY <1>4, <1>8 DEF vars, writerVars, fileVars, blockVars, sentVars
<1> QED  BY <1>1, <1>2, <1>3, <1>5, <1>6, <1>7, <1>8 DEF Next, Server, Writer

\* As long as the count of bytes_have_send began at zero and the headers were not cut
\* twice, the client gets the headers and the file from their first byte on, in
\* order and none twice, for all lengths and every split of the writes.
THEOREM PrefixReceived == Spec => []ClientGetsPrefix
<1>1. Init => BytesInv
  <2> SUFFICES ASSUME Init PROVE BytesInv  OBVIOUS
  <2>1. response = <<>> /\ received = <<>> /\ pc = "closed"  BY DEF Init, InitParser, InitWriter
  <2>2. Len(received) = 0 /\ SubSeq(response, 1, 0) = <<>>  BY <2>1, SubSeqEmpty
  <2> QED  BY <2>1, <2>2 DEF BytesInv, ClientGetsPrefix
<1>2. BytesInv => ClientGetsPrefix  BY DEF BytesInv
<1> QED  BY <1>1, <1>2, BytesStep, WriterInvariant, PTL DEF Spec

-----------------------------------------------------------------------------
(* What the parser finds is what the client asked *)

\* Where the parts of Text(r) begin if its lines end in CR and LF; the first of
\* the headers is at 3.
LengthAt(r) == IF r.keep = "none" THEN 3 ELSE 6
EndAt(r)    == LengthAt(r) + (IF r.length = 0 THEN 0 ELSE 3)
BodyAt(r)   == EndAt(r) + 2

Supported(r) == r.method \in {"GET", "POST"}

\* The text of r: from m_start_line on in the buffer, then in wire, then in rest.
Reads(r) ==
  /\ \A i \in m_start_line .. m_read_idx-1 : m_read_buf[i] = Text(r)[i+1]
  /\ m_read_idx + Len(wire) + Len(rest) = Len(Text(r))
  /\ \A k \in 1..Len(wire) : wire[k] = Text(r)[m_read_idx + k]
  /\ \A k \in 1..Len(rest) : rest[k] = Text(r)[m_read_idx + Len(wire) + k]

\* What has been found in the lines before m_start_line.
HeadersFound(r) ==
  /\ ~r.bareLF /\ m_url = url(r.page)
  /\ m_linger = (r.keep = "keep-alive" /\ m_start_line >= LengthAt(r))
  /\ m_content_length = IF m_start_line >= EndAt(r) THEN r.length ELSE 0
AtRequestLine ==
  /\ m_check_state = "REQUESTLINE" /\ m_start_line = 0 /\ m_checked_idx <= 1
  /\ m_url = "" /\ m_linger = FALSE /\ m_content_length = 0
AtHeader(r) ==
  /\ m_check_state = "HEADER" /\ HeadersFound(r)
  /\ m_start_line \in {3, LengthAt(r), EndAt(r)}
  /\ m_checked_idx <= m_start_line + 1
  /\ m_start_line = EndAt(r) => m_checked_idx = m_start_line
AtBody(r) ==
  /\ m_check_state = "CONTENT" /\ HeadersFound(r)
  /\ r.length > 0 /\ m_start_line >= BodyAt(r)
Parsing(r) ==
  response = <<>> /\ Reads(r) /\ (AtRequestLine \/ AtHeader(r) \/ AtBody(r))

Parsed(r) ==
  /\ wire = <<>> /\ rest = <<>>
  /\ m_url = url(r.page) /\ m_linger = (r.keep = "keep-alive")
  /\ m_content_length = r.length
BodyRead(r) ==
  r.length > 0 =>
    /\ \A i \in m_string .. m_string+r.length-1 : m_read_buf[i] = Byte
    /\ m_read_buf[m_string + r.length] = NUL

\* Nothing has come since init().
Idle ==
  /\ wire = <<>> /\ rest = <<>>
  /\ m_read_idx = 0 /\ m_checked_idx = 0 /\ AtRequestLine
  /\ \A i \in Indices : m_read_buf[i] = NUL

Accepting(r) ==
  /\ pc \in {"in", "read", "parse"} => Parsing(r) \/ (pc = "in" /\ Idle)
  /\ pc \in {"do", "fill", "out", "spin"} => Parsed(r)
  /\ pc = "do" => BodyRead(r)

\* No line that begins with one of these is acceptable.
Unacceptable == {x \in Symbols : x[1] = "request" => x[2] \notin {"GET", "POST"}}
Refusing ==
  /\ pc # "do" /\ m_check_state = "REQUESTLINE" /\ m_url = "" /\ m_linger = FALSE
  /\ m_content_length = 0
  /\ \A i \in Indices : m_read_buf[i] \in Unacceptable
  /\ wire \in Seq(Unacceptable) /\ rest \in Seq(Unacceptable)
  /\ received # <<>> => pc \in {"out", "spin"} /\ bytes_to_send > 0

RequestType ==
  /\ asked = <<>> \/ \E r \in Requests : asked = <<r>>
  /\ posted \in BOOLEAN /\ DOMAIN m_read_buf = Indices
CgiPosted == cgi = 1 => hasPosted
NoRequest == asked = <<>> => pc = "closed" \/ (pc = "in" /\ Idle)
Accepted  == \A r \in Requests : asked = <<r>> /\ Supported(r) => Accepting(r)
Refused   == \A r \in Requests : asked = <<r>> /\ ~Supported(r) /\ pc # "closed" => Refusing
FoundInv  == RequestType /\ CgiPosted /\ NoRequest /\ Accepted /\ Refused

LEMMA Marks ==
  /\ CR # LF /\ CR # NUL /\ LF # NUL /\ Byte # CR /\ Byte # LF /\ Byte # NUL
  /\ CR \in Symbols /\ LF \in Symbols /\ Byte \in Symbols /\ NUL \in Symbols
  /\ CR[1] # "request" /\ LF[1] # "request" /\ Byte[1] # "request" /\ NUL[1] # "request"
BY DEF CR, LF, NUL, Byte, Symbols

LEMMA Lines ==
  ASSUME NEW m \in STRING, NEW p \in STRING, NEW n \in Nat
  PROVE  /\ <<"request", m, p>> \in Symbols \ {CR, LF, NUL}
         /\ <<"request", m, p>>[1] = "request" /\ <<"request", m, p>>[2] = m
         /\ <<"request", m, p>>[3] = p
         /\ <<"Connection", m>> \in Symbols \ {CR, LF, NUL}
         /\ <<"Connection", m>>[1] # "request" /\ <<"Connection", m>> \notin ContentLengths
         /\ <<"Connection", m>> = <<"Connection", "keep-alive">> <=> m = "keep-alive"
         /\ <<"Content-Length", n>> \in Symbols \ {CR, LF, NUL}
         /\ <<"Content-Length", n>>[1] # "request" /\ <<"Content-Length", n>>[2] = n
         /\ <<"Content-Length", n>> \in ContentLengths
         /\ <<"Content-Length", n>> # <<"Connection", "keep-alive">>
BY DEF CR, LF, NUL, Symbols, ContentLengths

LEMMA Joined ==
  ASSUME NEW S, NEW s \in Seq(S), NEW u \in Seq(S)
  PROVE  /\ s \o u \in Seq(S) /\ Len(s) \in Nat /\ Len(s \o u) = Len(s) + Len(u)
         /\ \A i \in 1..Len(s) : (s \o u)[i] = s[i]
         /\ \A i \in 1..Len(u) : (s \o u)[Len(s) + i] = u[i]
<1>1. /\ s \o u \in Seq(S) /\ Len(s \o u) = Len(s) + Len(u)
      /\ \A i \in 1 .. Len(s) + Len(u) :
           (s \o u)[i] = IF i <= Len(s) THEN s[i] ELSE u[i - Len(s)]
  BY ConcatProperties
<1>2. Len(s) \in Nat /\ Len(u) \in Nat  OBVIOUS
<1> DEFINE m == Len(s)
           n == Len(u)
           t == s \o u
<1>3. \A i \in 1 .. m+n : t[i] = IF i <= m THEN s[i] ELSE u[i - m]  BY <1>1
<1>4. m \in Nat /\ n \in Nat  BY <1>2
<1> HIDE DEF m, n, t
<1>5. \A i \in 1..m : i \in 1 .. m+n /\ i <= m  BY <1>4
<1>6. \A i \in 1..n : m+i \in 1 .. m+n /\ ~(m+i <= m) /\ (m+i) - m = i  BY <1>4
<1>7. \A i \in 1..m : t[i] = s[i]  BY <1>3, <1>5
<1>8. \A i \in 1..n : t[m+i] = u[i]  BY <1>3, <1>6
<1> QED  BY <1>1, <1>2, <1>7, <1>8 DEF m, n, t

LEMMA TwoSymbols ==
  ASSUME NEW x \in Symbols, NEW y \in Symbols
  PROVE  /\ <<x, y>> \in Seq(Symbols) /\ Len(<<x, y>>) = 2
         /\ <<x, y>>[1] = x /\ <<x, y>>[2] = y
OBVIOUS

LEMMA OneLine ==
  ASSUME NEW x \in Symbols, NEW e \in Seq(Symbols), Len(e) >= 1
  PROVE  /\ <<x>> \o e \in Seq(Symbols) /\ Len(<<x>> \o e) = 1 + Len(e)
         /\ (<<x>> \o e)[1] = x /\ \A i \in 1..Len(e) : (<<x>> \o e)[1+i] = e[i]
<1> DEFINE s == <<x>>
<1>1. s \in Seq(Symbols) /\ Len(s) = 1 /\ s[1] = x  OBVIOUS
<1> HIDE DEF s
<1>2. /\ s \o e \in Seq(Symbols) /\ Len(s \o e) = Len(s) + Len(e)
      /\ \A i \in 1..Len(s) : (s \o e)[i] = s[i]
      /\ \A i \in 1..Len(e) : (s \o e)[Len(s) + i] = e[i]
  BY <1>1, Joined
<1>3. 1 \in 1..Len(s)  BY <1>1
<1>4. (s \o e)[1] = x  BY <1>1, <1>2, <1>3
<1> QED  BY <1>1, <1>2, <1>4 DEF s

LEMMA CrLf ==
  ASSUME NEW x \in Symbols
  PROVE  LET t == <<x>> \o <<CR, LF>> IN
         t \in Seq(Symbols) /\ Len(t) = 3 /\ t[1] = x /\ t[2] = CR /\ t[3] = LF
<1> DEFINE e == <<CR, LF>>
<1>1. e \in Seq(Symbols) /\ Len(e) = 2 /\ e[1] = CR /\ e[2] = LF  BY Marks, TwoSymbols
<1> HIDE DEF e
<1>7. e \in Seq(Symbols) /\ Len(e) >= 1  BY <1>1
<1>2. /\ <<x>> \o e \in Seq(Symbols) /\ Len(<<x>> \o e) = 1 + Len(e)
      /\ (<<x>> \o e)[1] = x /\ \A i \in 1..Len(e) : (<<x>> \o e)[1+i] = e[i]
  BY <1>7, OneLine
<1> DEFINE t == <<x>> \o e
<1>3. /\ t \in Seq(Symbols) /\ Len(t) = 1 + Len(e) /\ t[1] = x
      /\ \A i \in 1..Len(e) : t[1+i] = e[i]
  BY <1>2
<1> HIDE DEF t
<1>4. 1 \in 1..Len(e) /\ 2 \in 1..Len(e) /\ 1+1 = 2 /\ 1+2 = 3  BY <1>1
<1>5. t[2] = CR /\ t[3] = LF
  <2>1. t[1+1] = e[1] /\ t[1+2] = e[2]  BY <1>3, <1>4
  <2> QED  BY <1>1, <1>4, <2>1
<1>6. t \in Seq(Symbols) /\ Len(t) = 3 /\ t[1] = x /\ t[2] = CR /\ t[3] = LF
  BY <1>1, <1>3, <1>5
<1> QED  BY <1>6 DEF t, e

LEMMA LineAdded ==
  ASSUME NEW s \in Seq(Symbols), NEW x \in Symbols
  PROVE  LET t == s \o (<<x>> \o <<CR, LF>>) IN
         /\ t \in Seq(Symbols) /\ Len(t) = Len(s) + 3
         /\ \A i \in 1..Len(s) : t[i] = s[i]
         /\ t[Len(s)+1] = x /\ t[Len(s)+2] = CR /\ t[Len(s)+3] = LF
<1> DEFINE u == <<x>> \o <<CR, LF>>
           t == s \o u
<1>1. u \in Seq(Symbols) /\ Len(u) = 3 /\ u[1] = x /\ u[2] = CR /\ u[3] = LF  BY CrLf
<1> HIDE DEF u
<1>2. /\ t \in Seq(Symbols) /\ Len(t) = Len(s) + Len(u)
      /\ \A i \in 1..Len(s) : t[i] = s[i]
      /\ \A i \in 1..Len(u) : t[Len(s) + i] = u[i]
  BY <1>1, Joined
<1> HIDE DEF t
<1>3. 1 \in 1..Len(u) /\ 2 \in 1..Len(u) /\ 3 \in 1..Len(u)  BY <1>1
<1>4. t[Len(s)+1] = x /\ t[Len(s)+2] = CR /\ t[Len(s)+3] = LF  BY <1>1, <1>2, <1>3
<1> QED  BY <1>1, <1>2, <1>4 DEF t, u

\* The symbols of a request, counted from 1.
LEMMA TextSymbols ==
  ASSUME NEW r \in Requests, ~r.bareLF
  PROVE  LET T == Text(r)  l == LengthAt(r)  e == EndAt(r)  b == BodyAt(r) IN
         /\ l \in {3, 6} /\ e \in {l, l+3} /\ b = e+2 /\ Len(T) = b + r.length
         /\ T[1] = <<"request", r.method, r.page>> /\ T[2] = CR /\ T[3] = LF
         /\ l # 3 => T[4] = <<"Connection", r.keep>> /\ T[5] = CR /\ T[6] = LF
         /\ e # l => T[l+1] = <<"Content-Length", r.length>> /\ T[l+2] = CR /\ T[l+3] = LF
         /\ T[e+1] = CR /\ T[e+2] = LF
         /\ \A k \in 1..r.length : T[b+k] = Byte
<1> DEFINE E == <<CR, LF>>
           q == <<"request", r.method, r.page>>
           k == <<"Connection", r.keep>>
           n == <<"Content-Length", r.length>>
           s1 == <<q>> \o E
           s2 == s1 \o (IF r.keep = "none" THEN <<>> ELSE <<k>> \o E)
           s3 == s2 \o (IF r.length = 0 THEN <<>> ELSE <<n>> \o E)
           s4 == s3 \o E
           body == [i \in 1..r.length |-> Byte]
           l == LengthAt(r)
           e == EndAt(r)
           b == BodyAt(r)
<1>1. /\ r.method \in STRING /\ r.page \in STRING /\ r.keep \in STRING
      /\ r.length \in Nat
  BY ConnAssumption
<1>2. q \in Symbols /\ k \in Symbols /\ n \in Symbols  BY <1>1, Lines
<1>3. Text(r) = s4 \o body  BY DEF Text
<1> HIDE DEF q, k, n
<1>4. /\ l \in {3, 6} /\ (l = 3 <=> r.keep = "none")
      /\ e \in {l, l+3} /\ (e = l <=> r.length = 0) /\ b = e+2
  BY <1>1 DEF LengthAt, EndAt, BodyAt
<1> HIDE DEF l, e, b
<1>5. s1 \in Seq(Symbols) /\ Len(s1) = 3 /\ s1[1] = q /\ s1[2] = CR /\ s1[3] = LF
  BY <1>2, CrLf
<1> HIDE DEF s1
<1>6. /\ s2 \in Seq(Symbols) /\ Len(s2) = l
      /\ \A i \in 1..3 : s2[i] = s1[i]
      /\ l # 3 => s2[4] = k /\ s2[5] = CR /\ s2[6] = LF
  <2>1. CASE r.keep = "none"
    <3>1. s2 = s1  BY <1>5, <2>1
    <3> QED  BY <1>4, <1>5, <2>1, <3>1
  <2>2. CASE r.keep # "none"
    <3>1. s2 = s1 \o (<<k>> \o <<CR, LF>>)  BY <2>2
    <3> HIDE DEF s2
    <3>2. /\ s2 \in Seq(Symbols) /\ Len(s2) = Len(s1) + 3
          /\ \A i \in 1..Len(s1) : s2[i] = s1[i]
          /\ s2[Len(s1)+1] = k /\ s2[Len(s1)+2] = CR /\ s2[Len(s1)+3] = LF
      BY <1>2, <1>5, <3>1, LineAdded
    <3> QED  BY <1>4, <1>5, <2>2, <3>2
  <2> QED  BY <2>1, <2>2
<1> HIDE DEF s2
<1>7. /\ s3 \in Seq(Symbols) /\ Len(s3) = e
      /\ \A i \in 1..l : s3[i] = s2[i]
      /\ e # l => s3[l+1] = n /\ s3[l+2] = CR /\ s3[l+3] = LF
  <2>1. CASE r.length = 0
    <3>1. s3 = s2  BY <1>6, <2>1
    <3> QED  BY <1>4, <1>6, <2>1, <3>1
  <2>2. CASE r.length # 0
    <3>1. s3 = s2 \o (<<n>> \o <<CR, LF>>)  BY <2>2
    <3> HIDE DEF s3
    <3>2. /\ s3 \in Seq(Symbols) /\ Len(s3) = Len(s2) + 3
          /\ \A i \in 1..Len(s2) : s3[i] = s2[i]
          /\ s3[Len(s2)+1] = n /\ s3[Len(s2)+2] = CR /\ s3[Len(s2)+3] = LF
      BY <1>2, <1>6, <3>1, LineAdded
    <3> QED  BY <1>4, <1>6, <2>2, <3>2
  <2> QED  BY <2>1, <2>2
<1> HIDE DEF s3
<1>8. /\ s4 \in Seq(Symbols) /\ Len(s4) = b
      /\ \A i \in 1..e : s4[i] = s3[i]
      /\ s4[e+1] = CR /\ s4[e+2] = LF
  <2>1. E \in Seq(Symbols) /\ Len(E) = 2 /\ E[1] = CR /\ E[2] = LF  BY Marks
  <2> HIDE DEF E
  <2>2. /\ s4 \in Seq(Symbols) /\ Len(s4) = Len(s3) + Len(E)
        /\ \A i \in 1..Len(s3) : s4[i] = s3[i]
        /\ \A i \in 1..Len(E) : s4[Len(s3) + i] = E[i]
    <3>1. s3 \in Seq(Symbols) /\ E \in Seq(Symbols)  BY <1>7, <2>1
    <3> QED  BY <3>1, Joined
  <2> HIDE DEF s4
  <2>3. 1 \in 1..Len(E) /\ 2 \in 1..Len(E)  BY <2>1
  <2>4. s4[e+1] = E[1] /\ s4[e+2] = E[2]  BY <1>7, <2>2, <2>3
  <2>5. \A i \in 1..e : s4[i] = s3[i]
    <3>1. Len(s3) = e  BY <1>7
    <3> QED  BY <2>2, <3>1
  <2>6. s4 \in Seq(Symbols) /\ Len(s4) = b
    <3>1. Len(s3) = e  BY <1>7
    <3> QED  BY <1>4, <2>1, <2>2, <3>1
  <2> QED  BY <2>1, <2>4, <2>5, <2>6
<1> HIDE DEF s4
<1>9. /\ Len(Text(r)) = b + r.length
      /\ \A i \in 1..b : Text(r)[i] = s4[i]
      /\ \A j \in 1..r.length : Text(r)[b+j] = Byte
  <2>1. body \in Seq(Symbols) /\ Len(body) = r.length
        /\ \A j \in 1..r.length : body[j] = Byte
    BY <1>1, Marks
  <2> HIDE DEF body
  <2>2. /\ Len(s4 \o body) = Len(s4) + Len(body)
        /\ \A i \in 1..Len(s4) : (s4 \o body)[i] = s4[i]
        /\ \A j \in 1..Len(body) : (s4 \o body)[Len(s4) + j] = body[j]
    <3>1. s4 \in Seq(Symbols) /\ body \in Seq(Symbols)  BY <1>8, <2>1
    <3> QED  BY <3>1, Joined
  <2> DEFINE W == s4 \o body
  <2>3. /\ Len(W) = Len(s4) + Len(body) /\ W = Text(r)
        /\ \A i \in 1..Len(s4) : W[i] = s4[i]
        /\ \A j \in 1..Len(body) : W[Len(s4) + j] = body[j]
    BY <1>3, <2>2
  <2> HIDE DEF W
  <2> QED  BY <1>8, <2>1, <2>3
<1> DEFINE T == Text(r)
<1> HIDE DEF T
<1>10. \A i \in 1..e : T[i] = s3[i]
  <2>1. \A i \in 1..e : i \in 1..b  BY <1>4
  <2> QED  BY <1>8, <1>9, <2>1 DEF T
<1>11. T[e+1] = CR /\ T[e+2] = LF
  <2>1. e+1 \in 1..b /\ e+2 \in 1..b  BY <1>4
  <2> QED  BY <1>8, <1>9, <2>1 DEF T
<1>12. \A i \in 1..l : T[i] = s2[i]
  <2>1. \A i \in 1..l : i \in 1..e  BY <1>4
  <2> QED  BY <1>7, <1>10, <2>1
<1>13. e # l => T[l+1] = n /\ T[l+2] = CR /\ T[l+3] = LF
  <2>1. e # l => l+1 \in 1..e /\ l+2 \in 1..e /\ l+3 \in 1..e  BY <1>4
  <2> QED  BY <1>7, <1>10, <2>1
<1>14. T[1] = q /\ T[2] = CR /\ T[3] = LF
  <2>1. 1 \in 1..l /\ 2 \in 1..l /\ 3 \in 1..l /\ 1 \in 1..3 /\ 2 \in 1..3 /\ 3 \in 1..3
    BY <1>4
  <2> QED  BY <1>5, <1>6, <1>12, <2>1
<1>15. l # 3 => T[4] = k /\ T[5] = CR /\ T[6] = LF
  <2>1. l # 3 => 4 \in 1..l /\ 5 \in 1..l /\ 6 \in 1..l  BY <1>4
  <2> QED  BY <1>6, <1>12, <2>1
<1>16. /\ l \in {3, 6} /\ e \in {l, l+3} /\ b = e+2 /\ Len(T) = b + r.length
       /\ T[1] = q /\ T[2] = CR /\ T[3] = LF
       /\ l # 3 => T[4] = k /\ T[5] = CR /\ T[6] = LF
       /\ e # l => T[l+1] = n /\ T[l+2] = CR /\ T[l+3] = LF
       /\ T[e+1] = CR /\ T[e+2] = LF
       /\ \A j \in 1..r.length : T[b+j] = Byte
  BY <1>4, <1>9, <1>11, <1>13, <1>14, <1>15 DEF T
<1> QED  BY <1>16 DEF T, q, k, n, l, e, b

LEMMA BareStart ==
  ASSUME NEW r \in Requests, r.bareLF
  PROVE  /\ Text(r)[1] = <<"request", r.method, r.page>> /\ Text(r)[2] = LF
         /\ Len(Text(r)) >= 3
<1> DEFINE E == <<LF>>
           q == <<"request", r.method, r.page>>
           k == IF r.keep = "none" THEN <<>> ELSE <<<<"Connection", r.keep>>>> \o E
           n == IF r.length = 0 THEN <<>> ELSE <<<<"Content-Length", r.length>>>> \o E
           s1 == <<q>> \o E
           body == [i \in 1..r.length |-> Byte]
<1>1. /\ r.method \in STRING /\ r.page \in STRING /\ r.keep \in STRING
      /\ r.length \in Nat
  BY ConnAssumption
<1>2. Text(r) = (((s1 \o k) \o n) \o E) \o body  BY DEF Text
<1>3. q \in Symbols  BY <1>1, Lines
<1> HIDE DEF q
<1>4. E \in Seq(Symbols) /\ Len(E) = 1 /\ E[1] = LF  BY Marks
<1>5. s1 \in Seq(Symbols) /\ Len(s1) = 2 /\ s1[1] = q /\ s1[2] = LF
  <2>1. s1 \in Seq(Symbols) /\ Len(s1) = 1 + Len(E) /\ s1[1] = q
        /\ \A i \in 1..Len(E) : s1[1+i] = E[i]
    BY <1>3, <1>4, OneLine
  <2>2. 1 \in 1..Len(E) /\ 1+1 = 2  BY <1>4
  <2>3. s1[1+1] = E[1]  BY <2>1, <2>2
  <2> QED  BY <1>4, <2>1, <2>2, <2>3
<1>6. k \in Seq(Symbols)
  <2>1. <<"Connection", r.keep>> \in Symbols  BY <1>1, Lines
  <2>2. <<<<"Connection", r.keep>>>> \o E \in Seq(Symbols)  BY <1>4, <2>1, OneLine
  <2> QED  BY <2>2, EmptyType
<1>7. n \in Seq(Symbols)
  <2>1. <<"Content-Length", r.length>> \in Symbols  BY <1>1, Lines
  <2>2. <<<<"Content-Length", r.length>>>> \o E \in Seq(Symbols)  BY <1>4, <2>1, OneLine
  <2> QED  BY <2>2, EmptyType
<1>8. body \in Seq(Symbols)  BY <1>1, Marks
<1> HIDE DEF s1, k, n, body, E
<1> DEFINE a == s1 \o k
           c == a \o n
           d == c \o E
<1>9. a \in Seq(Symbols) /\ Len(a) >= 2 /\ a[1] = q /\ a[2] = LF
  BY <1>5, <1>6, ConcatProperties
<1> HIDE DEF a
<1>10. c \in Seq(Symbols) /\ Len(c) >= 2 /\ c[1] = q /\ c[2] = LF
  BY <1>7, <1>9, ConcatProperties
<1> HIDE DEF c
<1>11. d \in Seq(Symbols) /\ Len(d) >= 3 /\ d[1] = q /\ d[2] = LF
  BY <1>4, <1>10, ConcatProperties
<1> HIDE DEF d
<1>12. Len(d \o body) >= 3 /\ (d \o body)[1] = q /\ (d \o body)[2] = LF
  BY <1>8, <1>11, ConcatProperties
<1> QED  BY <1>2, <1>12 DEF a, c, d, q

LEMMA LineCut ==
  ASSUME ends # {}, Min(ends) \in Nat, m_read_idx \in Nat,
         m_read_buf[Min(ends)] = CR, Min(ends) + 1 = m_read_idx
  PROVE  parse_line = <<"OPEN", Min(ends), {}>>
BY Marks DEF parse_line

\* What parse_line() finds where the text of a line begins: the whole line, or a
\* piece of it, of which it passes over the text at most.
LEMMA TextLine ==
  ASSUME ParserTypeOK, NEW T, NEW s \in Nat,
         s <= m_checked_idx, m_checked_idx <= s+1,
         \A i \in s .. m_read_idx-1 : m_read_buf[i] = T[i+1],
         T[s+1] \notin {CR, LF}, T[s+2] = CR, T[s+3] = LF
  PROVE  \/ parse_line = <<"OK", s+3, {s+1, s+2}>> /\ s+3 <= m_read_idx
         \/ parse_line[1] # "OK" /\ parse_line[2] \in m_checked_idx .. s+1
<1>1. m_checked_idx \in Nat /\ m_read_idx \in Nat /\ m_checked_idx <= m_read_idx
  BY ParserAssumption DEF ParserTypeOK
<1>2. CASE m_read_idx <= s+1
  <2>1. ASSUME NEW i \in m_checked_idx .. m_read_idx-1 PROVE m_read_buf[i] \notin {CR, LF}
    <3>1. i = s /\ i \in s .. m_read_idx-1  BY <1>1, <1>2
    <3>2. m_read_buf[i] = T[i+1]  BY <3>1
    <3> QED  BY <3>1, <3>2
  <2>2. ends = {}  BY <2>1 DEF ends
  <2>3. parse_line = <<"OPEN", m_read_idx, {}>>  BY <2>2 DEF parse_line
  <2> QED  BY <1>1, <1>2, <2>3
<1>3. CASE s+1 < m_read_idx
  <2> DEFINE e == Min(ends)
  <2>1. s+1 \in m_checked_idx .. m_read_idx-1 /\ s+1 \in s .. m_read_idx-1  BY <1>1, <1>3
  <2>2. m_read_buf[s+1] = CR
    <3>1. m_read_buf[s+1] = T[(s+1)+1]  BY <2>1
    <3>2. (s+1)+1 = s+2  OBVIOUS
    <3> QED  BY <3>1, <3>2
  <2>3. ends \subseteq Nat /\ s+1 \in ends  BY <1>1, <2>1, <2>2 DEF ends
  <2>4. e \in ends /\ e <= s+1  BY <2>3, MinNat
  <2>5. e \in m_checked_idx .. m_read_idx-1 /\ m_read_buf[e] \in {CR, LF}  BY <2>4 DEF ends
  <2>6. e = s+1
    <3>1. ASSUME e = s PROVE FALSE
      <4>1. s \in s .. m_read_idx-1  BY <1>1, <1>3
      <4>2. m_read_buf[s] = T[s+1]  BY <4>1
      <4> QED  BY <2>5, <3>1, <4>2
    <3> HIDE DEF e
    <3> QED  BY <1>1, <2>4, <2>5, <3>1
  <2>7. CASE s+2 = m_read_idx
    <3>1. parse_line = <<"OPEN", e, {}>>  BY <1>1, <2>2, <2>3, <2>6, <2>7 DEF parse_line
    <3> HIDE DEF e
    <3> QED  BY <1>1, <2>6, <3>1
  <2>8. CASE s+2 < m_read_idx
    <3>1. s+2 \in s .. m_read_idx-1 /\ (s+2)+1 = s+3 /\ (s+1)+1 = s+2 /\ (s+1)+2 = s+3
      BY <1>1, <2>8
    <3>2. m_read_buf[s+2] = LF
      <4>1. m_read_buf[s+2] = T[(s+2)+1]  BY <3>1
      <4> QED  BY <3>1, <4>1
    <3>3. parse_line = <<"OK", e+2, {e, e+1}>>
      <4>1. /\ m_read_buf[e] = CR /\ e+1 # m_read_idx /\ e+1 < m_read_idx
            /\ m_read_buf[e+1] = LF /\ ends # {}
        BY <1>1, <2>2, <2>3, <2>6, <2>8, <3>1, <3>2
      <4> QED  BY <4>1, Marks DEF parse_line
    <3> HIDE DEF e
    <3> QED  BY <1>1, <2>6, <2>8, <3>1, <3>3
  <2> QED  BY <1>1, <1>3, <2>7, <2>8
<1> QED  BY <1>1, <1>2, <1>3

\* The same for the empty line behind the headers.
LEMMA EmptyLine ==
  ASSUME ParserTypeOK, NEW T, NEW s \in Nat, m_checked_idx = s,
         \A i \in s .. m_read_idx-1 : m_read_buf[i] = T[i+1],
         T[s+1] = CR, T[s+2] = LF
  PROVE  \/ parse_line = <<"OK", s+2, {s, s+1}>> /\ s+2 <= m_read_idx
         \/ parse_line[1] # "OK" /\ parse_line[2] = s
<1>1. m_read_idx \in Nat /\ s <= m_read_idx  BY ParserAssumption DEF ParserTypeOK
<1>2. CASE m_read_idx = s
  <2>1. ends = {}  BY <1>1, <1>2 DEF ends
  <2>2. parse_line = <<"OPEN", m_read_idx, {}>>  BY <2>1 DEF parse_line
  <2> QED  BY <1>2, <2>2
<1>3. CASE s < m_read_idx
  <2> DEFINE e == Min(ends)
  <2>1. s \in s .. m_read_idx-1  BY <1>1, <1>3
  <2>2. m_read_buf[s] = CR  BY <2>1
  <2>3. ends \subseteq Nat /\ s \in ends  BY <1>1, <2>1, <2>2 DEF ends
  <2>4. e \in ends /\ e <= s  BY <2>3, MinNat
  <2>5. e \in s .. m_read_idx-1  BY <2>4 DEF ends
  <2>6. e = s
    <3> HIDE DEF e
    <3> QED  BY <1>1, <2>4, <2>5
  <2>7. CASE s+1 = m_read_idx
    <3>2. m_read_buf[e] = CR /\ e+1 = m_read_idx /\ ends # {}  BY <1>1, <2>2, <2>3, <2>6, <2>7
    <3>1. parse_line = <<"OPEN", e, {}>>  BY <1>1, <2>3, <2>4, <3>2, LineCut
    <3> HIDE DEF e
    <3> QED  BY <1>1, <2>6, <3>1
  <2>8. CASE s+1 < m_read_idx
    <3>1. s+1 \in s .. m_read_idx-1 /\ (s+1)+1 = s+2  BY <1>1, <2>8
    <3>2. m_read_buf[s+1] = LF
      <4>1. m_read_buf[s+1] = T[(s+1)+1]  BY <3>1
      <4> QED  BY <3>1, <4>1
    <3>3. parse_line = <<"OK", e+2, {e, e+1}>>
      <4>1. /\ m_read_buf[e] = CR /\ e+1 # m_read_idx /\ e+1 < m_read_idx
            /\ m_read_buf[e+1] = LF /\ ends # {}
        BY <1>1, <2>2, <2>3, <2>6, <2>8, <3>2
      <4> QED  BY <4>1, Marks DEF parse_line
    <3> HIDE DEF e
    <3> QED  BY <1>1, <2>6, <2>8, <3>3
  <2> QED  BY <1>1, <1>3, <2>7, <2>8
<1> QED  BY <1>1, <1>2, <1>3

\* A line that ends in LF alone is never one.
LEMMA BareLine ==
  ASSUME ParserTypeOK, NEW T, m_checked_idx <= 1,
         \A i \in 0 .. m_read_idx-1 : m_read_buf[i] = T[i+1],
         T[1] \notin {CR, LF}, T[2] = LF
  PROVE  parse_line[1] # "OK" /\ parse_line[2] \in m_checked_idx .. 1
<1>1. m_checked_idx \in Nat /\ m_read_idx \in Nat /\ m_checked_idx <= m_read_idx
  BY ParserAssumption DEF ParserTypeOK
<1>2. CASE m_read_idx <= 1
  <2>1. ASSUME NEW i \in m_checked_idx .. m_read_idx-1 PROVE m_read_buf[i] \notin {CR, LF}
    <3>1. i = 0 /\ i \in 0 .. m_read_idx-1 /\ i+1 = 1  BY <1>1, <1>2
    <3>2. m_read_buf[i] = T[i+1]  BY <3>1
    <3> QED  BY <3>1, <3>2
  <2>2. ends = {}  BY <2>1 DEF ends
  <2>3. parse_line = <<"OPEN", m_read_idx, {}>>  BY <2>2 DEF parse_line
  <2> QED  BY <1>1, <1>2, <2>3
<1>3. CASE 1 < m_read_idx
  <2> DEFINE e == Min(ends)
  <2>1. 1 \in m_checked_idx .. m_read_idx-1 /\ 1 \in 0 .. m_read_idx-1  BY <1>1, <1>3
  <2>2. m_read_buf[1] = LF
    <3>1. m_read_buf[1] = T[1+1] /\ 1+1 = 2  BY <2>1
    <3> QED  BY <3>1
  <2>3. ends \subseteq Nat /\ 1 \in ends  BY <1>1, <2>1, <2>2 DEF ends
  <2>4. e \in ends /\ e <= 1  BY <2>3, MinNat
  <2>5. e \in m_checked_idx .. m_read_idx-1 /\ m_read_buf[e] \in {CR, LF}  BY <2>4 DEF ends
  <2>6. e = 1
    <3>1. ASSUME e = 0 PROVE FALSE
      <4>1. 0 \in 0 .. m_read_idx-1 /\ 0+1 = 1  BY <1>1, <1>3
      <4>2. m_read_buf[0] = T[0+1]  BY <4>1
      <4> QED  BY <2>5, <3>1, <4>1, <4>2
    <3> HIDE DEF e
    <3> QED  BY <1>1, <2>4, <2>5, <3>1
  <2>7. parse_line = <<"BAD", e, {}>>
    <3>1. m_read_buf[e] = LF /\ ~(e > 1) /\ ends # {}  BY <2>2, <2>3, <2>6
    <3> QED  BY <3>1, Marks DEF parse_line
  <2> HIDE DEF e
  <2> QED  BY <1>1, <1>3, <2>6, <2>7
<1> QED  BY <1>1, <1>2, <1>3

LEMMA NoLineEnd ==
  ASSUME \A i \in m_checked_idx .. m_read_idx-1 : m_read_buf[i] \notin {CR, LF}
  PROVE  parse_line = <<"OPEN", m_read_idx, {}>>
<1>1. ends = {}  BY DEF ends
<1> QED  BY <1>1 DEF parse_line

-----------------------------------------------------------------------------
(* The stream of a request, and what a line of it does *)

LEMMA SendReads ==
  ASSUME ParserInv, NEW r \in Requests, Reads(r), SendPiece
  PROVE  Reads(r)'
<1> DEFINE T == Text(r)
           x == m_read_idx
<1>1. /\ wire \in Seq(Symbols) /\ rest \in Seq(Symbols) /\ x \in Nat
  BY DEF ParserInv, ParserTypeOK, Streams
<1>2. /\ \A i \in m_start_line .. x-1 : m_read_buf[i] = T[i+1]
      /\ x + Len(wire) + Len(rest) = Len(T)
      /\ \A k \in 1..Len(wire) : wire[k] = T[x + k]
      /\ \A k \in 1..Len(rest) : rest[k] = T[x + Len(wire) + k]
  BY DEF Reads
<1>3. PICK n \in 1 .. Len(rest) :
        wire' = wire \o SubSeq(rest, 1, n) /\ rest' = SubSeq(rest, n+1, Len(rest))
  BY DEF SendPiece
<1>4. UNCHANGED <<m_read_buf, m_read_idx, m_start_line>>  BY DEF SendPiece, parserVars
<1> DEFINE a == SubSeq(rest, 1, n)
           b == SubSeq(rest, n+1, Len(rest))
           w == Len(wire)
           m == Len(rest)
<1>5. w \in Nat /\ m \in Nat /\ n \in Nat /\ 1 <= n /\ n <= m  BY <1>1
<1>6. \A i \in 1..n : rest[i] \in Symbols  BY <1>1, <1>5
<1>7. \A i \in n+1..m : rest[i] \in Symbols  BY <1>1, <1>5
<1>8. /\ a \in Seq(Symbols) /\ Len(a) = n
      /\ \A k \in 1..n : a[k] = rest[k]
  <2>1. /\ a \in Seq(Symbols) /\ Len(a) = IF 1 <= n THEN n-1+1 ELSE 0
        /\ \A k \in 1 .. n-1+1 : a[k] = rest[1+k-1]
    BY <1>5, <1>6, SubSeqProperties
  <2> HIDE DEF a
  <2>2. n-1+1 = n /\ \A k \in 1..n : 1+k-1 = k  BY <1>5
  <2> QED  BY <1>5, <2>1, <2>2
<1>9. /\ b \in Seq(Symbols) /\ Len(b) = m - n
      /\ \A k \in 1 .. m-n : b[k] = rest[n+k]
  <2>1. /\ b \in Seq(Symbols) /\ Len(b) = IF n+1 <= m THEN m-(n+1)+1 ELSE 0
        /\ \A k \in 1 .. m-(n+1)+1 : b[k] = rest[(n+1)+k-1]
    BY <1>5, <1>7, SubSeqProperties
  <2> HIDE DEF b, m
  <2>2. m-(n+1)+1 = m-n /\ \A k \in 1 .. m-n : (n+1)+k-1 = n+k  BY <1>5
  <2>3. Len(b) = m - n
    <3>1. n+1 <= m \/ n = m  BY <1>5
    <3>2. n = m => m - n = 0 /\ ~(n+1 <= m)  BY <1>5
    <3> QED  BY <2>1, <2>2, <3>1, <3>2
  <2>4. \A k \in 1 .. m-n : b[k] = rest[n+k]  BY <2>1, <2>2
  <2> QED  BY <2>1, <2>3, <2>4
<1> HIDE DEF a, b
<1>10. /\ Len(wire \o a) = w + n
       /\ \A k \in 1..w : (wire \o a)[k] = wire[k]
       /\ \A k \in 1..n : (wire \o a)[w + k] = a[k]
  <2>1. wire \in Seq(Symbols) /\ a \in Seq(Symbols)  BY <1>1, <1>8
  <2>2. /\ Len(wire \o a) = Len(wire) + Len(a)
        /\ \A k \in 1..Len(wire) : (wire \o a)[k] = wire[k]
        /\ \A k \in 1..Len(a) : (wire \o a)[Len(wire) + k] = a[k]
    BY <2>1, Joined
  <2>3. Len(a) = n  BY <1>8
  <2> QED  BY <2>2, <2>3
<1> DEFINE v == wire \o a
<1>11. v = wire' /\ b = rest'  BY <1>3 DEF a, b
<1>12. Len(v) = w + n /\ (\A k \in 1..w : v[k] = wire[k]) /\ (\A k \in 1..n : v[w + k] = a[k])
  BY <1>10
<1> HIDE DEF v, T, w, m, x
<1>13. /\ \A k \in 1..w : wire[k] = T[x + k]
       /\ \A k \in 1..m : rest[k] = T[x + w + k]
       /\ x + w + m = Len(T)
  BY <1>2 DEF w, m
<1>14. ASSUME NEW k \in 1 .. Len(v) PROVE v[k] = T[x + k]
  <2>1. CASE k <= w
    <3>1. k \in 1..w  BY <1>5, <1>12, <2>1
    <3> QED  BY <1>12, <1>13, <3>1
  <2>2. CASE k > w
    <3>1. k-w \in 1..n /\ w + (k-w) = k /\ k-w \in 1..m /\ x + w + (k-w) = x + k
      BY <1>1, <1>5, <1>12, <2>2 DEF x
    <3>2. v[w + (k-w)] = a[k-w] /\ a[k-w] = rest[k-w] /\ rest[k-w] = T[x + w + (k-w)]
      BY <1>8, <1>12, <1>13, <3>1
    <3> QED  BY <3>1, <3>2
  <2> QED  BY <1>5, <1>12, <2>1, <2>2
<1>15. ASSUME NEW k \in 1 .. Len(b) PROVE b[k] = T[x + Len(v) + k]
  <2>1. k \in 1 .. m-n /\ n+k \in 1..m /\ x + w + (n+k) = x + (w+n) + k
    BY <1>1, <1>5, <1>9 DEF x
  <2>2. b[k] = rest[n+k] /\ rest[n+k] = T[x + w + (n+k)]  BY <1>9, <1>13, <2>1
  <2> QED  BY <1>12, <2>1, <2>2
<1>16. x + Len(v) + Len(b) = Len(T)  BY <1>1, <1>5, <1>9, <1>12, <1>13 DEF x
<1> QED  BY <1>2, <1>4, <1>11, <1>14, <1>15, <1>16 DEF Reads, T, x

LEMMA RecvReads ==
  ASSUME ParserInv, NEW r \in Requests, Reads(r), Recv, UNCHANGED rest
  PROVE  Reads(r)'
<1> DEFINE T == Text(r)
           x == m_read_idx
           room == READ_BUFFER_SIZE - m_read_idx
           n    == IF Len(wire) < room THEN Len(wire) ELSE room
           b == SubSeq(wire, n+1, Len(wire))
           w == Len(wire)
<1>1. /\ wire \in Seq(Symbols) /\ rest \in Seq(Symbols) /\ x \in Nat /\ x < READ_BUFFER_SIZE
      /\ m_start_line \in Nat
  BY ParserAssumption DEF ParserInv, ParserTypeOK, Streams, Recv
<1>2. /\ \A i \in m_start_line .. x-1 : m_read_buf[i] = T[i+1]
      /\ x + w + Len(rest) = Len(T)
      /\ \A k \in 1..w : wire[k] = T[x + k]
      /\ \A k \in 1..Len(rest) : rest[k] = T[x + w + k]
  BY DEF Reads
<1>3. w \in Nat /\ n \in Nat /\ n <= w /\ x + n <= READ_BUFFER_SIZE
  BY <1>1, ParserAssumption
<1>4. /\ m_read_idx' = x + n /\ wire' = b /\ m_start_line' = m_start_line
      /\ m_read_buf' = [i \in Indices |-> IF i \in x .. x+n-1 THEN wire[i - x + 1]
                                          ELSE m_read_buf[i]]
  BY DEF Recv
<1> HIDE DEF n
<1>5. \A i \in n+1..w : wire[i] \in Symbols  BY <1>1, <1>3
<1>6. Len(b) = w - n /\ \A k \in 1 .. w-n : b[k] = wire[n+k]
  <2>1. /\ Len(b) = IF n+1 <= w THEN w-(n+1)+1 ELSE 0
        /\ \A k \in 1 .. w-(n+1)+1 : b[k] = wire[(n+1)+k-1]
    BY <1>3, <1>5, SubSeqProperties
  <2> HIDE DEF b, w
  <2>2. w-(n+1)+1 = w-n /\ \A k \in 1 .. w-n : (n+1)+k-1 = n+k  BY <1>3
  <2>3. Len(b) = w - n
    <3>1. n+1 <= w \/ n = w  BY <1>3
    <3>2. n = w => w - n = 0 /\ ~(n+1 <= w)  BY <1>3
    <3> QED  BY <2>1, <2>2, <3>1, <3>2
  <2>4. \A k \in 1 .. w-n : b[k] = wire[n+k]  BY <2>1, <2>2
  <2> QED  BY <2>3, <2>4
<1> HIDE DEF b, w, x, T
<1>7. ASSUME NEW i \in m_start_line .. (x+n)-1 PROVE m_read_buf'[i] = T[i+1]
  <2>1. i \in Indices  BY <1>1, <1>3, ParserAssumption DEF Indices
  <2>2. CASE i < x
    <3>1. i \in m_start_line .. x-1 /\ i \notin x .. x+n-1  BY <1>1, <1>3, <2>2
    <3>2. m_read_buf'[i] = m_read_buf[i]  BY <1>4, <2>1, <3>1
    <3> QED  BY <1>2, <3>1, <3>2
  <2>3. CASE i >= x
    <3>1. i \in x .. x+n-1 /\ i-x+1 \in 1..w /\ x + (i-x+1) = i+1  BY <1>1, <1>3, <2>3
    <3>2. m_read_buf'[i] = wire[i-x+1]  BY <1>4, <2>1, <3>1
    <3>3. wire[i-x+1] = T[x + (i-x+1)]  BY <1>2, <3>1
    <3> QED  BY <3>1, <3>2, <3>3
  <2> QED  BY <1>1, <2>2, <2>3
<1>8. ASSUME NEW k \in 1 .. Len(b) PROVE b[k] = T[(x+n) + k]
  <2>1. k \in 1 .. w-n /\ n+k \in 1..w /\ x + (n+k) = (x+n) + k  BY <1>1, <1>3, <1>6
  <2>2. b[k] = wire[n+k] /\ wire[n+k] = T[x + (n+k)]  BY <1>2, <1>6, <2>1
  <2> QED  BY <2>1, <2>2
<1>9. (x+n) + Len(b) = x + w  BY <1>1, <1>3, <1>6
<1> QED  BY <1>2, <1>4, <1>7, <1>8, <1>9 DEF Reads, T

\* A line read leaves what is behind it, and what comes.
LEMMA ReadsBehind ==
  ASSUME ParserInv, NEW r \in Requests, Reads(r),
         UNCHANGED <<m_read_idx, wire, rest>>,
         m_start_line' \in Nat, m_start_line <= m_start_line',
         \A i \in Indices : m_start_line' <= i => m_read_buf'[i] = m_read_buf[i]
  PROVE  Reads(r)'
<1> DEFINE T == Text(r)
<1>1. /\ m_start_line \in Nat /\ m_read_idx \in Nat /\ m_read_idx <= READ_BUFFER_SIZE
  BY ParserAssumption DEF ParserInv, ParserTypeOK
<1>2. /\ \A i \in m_start_line .. m_read_idx-1 : m_read_buf[i] = T[i+1]
      /\ m_read_idx + Len(wire) + Len(rest) = Len(T)
      /\ \A k \in 1..Len(wire) : wire[k] = T[m_read_idx + k]
      /\ \A k \in 1..Len(rest) : rest[k] = T[m_read_idx + Len(wire) + k]
  BY DEF Reads
<1> HIDE DEF T
<1>3. ASSUME NEW i \in m_start_line' .. m_read_idx-1 PROVE m_read_buf'[i] = T[i+1]
  <2>1. /\ i \in Indices /\ m_start_line' <= i /\ i \in m_start_line .. m_read_idx-1
    BY <1>1, ParserAssumption DEF Indices
  <2> QED  BY <1>2, <2>1
<1> QED  BY <1>2, <1>3 DEF Reads, T

\* The text and the end of a line are read as they were sent.
LEMMA TextLineRead ==
  ASSUME ParserInv, NEW state, Line(state), UNCHANGED rest, NEW r \in Requests, Reads(r),
         m_checked_idx <= m_start_line + 1,
         Text(r)[m_start_line + 1] \notin {CR, LF},
         Text(r)[m_start_line + 2] = CR, Text(r)[m_start_line + 3] = LF
  PROVE  /\ Reads(r)' /\ m_start_line' = m_start_line + 3 /\ m_checked_idx' = m_start_line + 3
         /\ text = Text(r)[m_start_line + 1]
<1> DEFINE s == m_start_line
           T == Text(r)
<1>1. /\ ParserTypeOK /\ s \in Nat /\ m_read_idx \in Nat /\ s <= m_checked_idx
      /\ m_read_idx <= READ_BUFFER_SIZE
  BY ParserAssumption DEF ParserInv, ParserTypeOK
<1>2. /\ parse_line[1] = "OK" /\ m_checked_idx' = parse_line[2] /\ m_start_line' = parse_line[2]
      /\ m_read_buf' = [i \in Indices |-> IF i \in parse_line[3] THEN NUL ELSE m_read_buf[i]]
      /\ UNCHANGED <<m_read_idx, wire, rest>>
  BY DEF Line
<1>3. /\ m_checked_idx <= s+1 /\ T[s+1] \notin {CR, LF} /\ T[s+2] = CR /\ T[s+3] = LF
      /\ \A i \in s .. m_read_idx-1 : m_read_buf[i] = T[i+1]
  BY DEF Reads
<1> HIDE DEF s, T
<1>4. parse_line = <<"OK", s+3, {s+1, s+2}>> /\ s+3 <= m_read_idx
  BY <1>1, <1>2, <1>3, TextLine
<1>5. /\ m_start_line' = s+3 /\ m_checked_idx' = s+3
      /\ \A i \in Indices : m_read_buf'[i] = IF i \in {s+1, s+2} THEN NUL ELSE m_read_buf[i]
  <2>1. parse_line[2] = s+3 /\ parse_line[3] = {s+1, s+2}  BY <1>4
  <2> QED  BY <1>2, <2>1
<1>6. Reads(r)'
  <2>1. m_start_line' \in Nat /\ m_start_line <= m_start_line'  BY <1>1, <1>5 DEF s
  <2>2. \A i \in Indices : m_start_line' <= i => i \notin {s+1, s+2}
    BY <1>1, <1>5, ParserAssumption DEF Indices
  <2>3. \A i \in Indices : m_start_line' <= i => m_read_buf'[i] = m_read_buf[i]
    BY <1>5, <2>2
  <2> QED  BY <1>2, <2>1, <2>3, ReadsBehind
<1>7. text = T[s+1]
  <2>1. s \in Indices /\ s \notin {s+1, s+2} /\ s \in s .. m_read_idx-1
    BY <1>1, <1>4, ParserAssumption DEF Indices
  <2>2. m_read_buf'[s] = m_read_buf[s] /\ m_read_buf[s] = T[s+1]  BY <1>3, <1>5, <2>1
  <2> QED  BY <2>2 DEF text, s
<1> QED  BY <1>5, <1>6, <1>7 DEF s, T

LEMMA EmptyLineRead ==
  ASSUME ParserInv, NEW state, Line(state), UNCHANGED rest, NEW r \in Requests, Reads(r),
         m_checked_idx = m_start_line,
         Text(r)[m_start_line + 1] = CR, Text(r)[m_start_line + 2] = LF
  PROVE  /\ Reads(r)' /\ m_start_line' = m_start_line + 2 /\ m_checked_idx' = m_start_line + 2
         /\ text = NUL /\ m_start_line + 2 <= m_read_idx
<1> DEFINE s == m_start_line
           T == Text(r)
<1>1. /\ ParserTypeOK /\ s \in Nat /\ m_read_idx \in Nat /\ m_read_idx <= READ_BUFFER_SIZE
  BY ParserAssumption DEF ParserInv, ParserTypeOK
<1>2. /\ parse_line[1] = "OK" /\ m_checked_idx' = parse_line[2] /\ m_start_line' = parse_line[2]
      /\ m_read_buf' = [i \in Indices |-> IF i \in parse_line[3] THEN NUL ELSE m_read_buf[i]]
      /\ UNCHANGED <<m_read_idx, wire, rest>>
  BY DEF Line
<1>3. /\ m_checked_idx = s /\ T[s+1] = CR /\ T[s+2] = LF
      /\ \A i \in s .. m_read_idx-1 : m_read_buf[i] = T[i+1]
  BY DEF Reads
<1> HIDE DEF s, T
<1>4. parse_line = <<"OK", s+2, {s, s+1}>> /\ s+2 <= m_read_idx
  BY <1>1, <1>2, <1>3, EmptyLine
<1>5. /\ m_start_line' = s+2 /\ m_checked_idx' = s+2
      /\ \A i \in Indices : m_read_buf'[i] = IF i \in {s, s+1} THEN NUL ELSE m_read_buf[i]
  <2>1. parse_line[2] = s+2 /\ parse_line[3] = {s, s+1}  BY <1>4
  <2> QED  BY <1>2, <2>1
<1>6. Reads(r)'
  <2>1. m_start_line' \in Nat /\ m_start_line <= m_start_line'  BY <1>1, <1>5 DEF s
  <2>2. \A i \in Indices : m_start_line' <= i => i \notin {s, s+1}
    BY <1>1, <1>5, ParserAssumption DEF Indices
  <2>3. \A i \in Indices : m_start_line' <= i => m_read_buf'[i] = m_read_buf[i]
    BY <1>5, <2>2
  <2> QED  BY <1>2, <2>1, <2>3, ReadsBehind
<1>7. text = NUL
  <2>1. s \in Indices /\ s \in {s, s+1}  BY <1>1, <1>4, ParserAssumption DEF Indices
  <2>2. m_read_buf'[s] = NUL  BY <1>5, <2>1
  <2> QED  BY <2>2 DEF text, s
<1> QED  BY <1>4, <1>5, <1>6, <1>7 DEF s, T

-----------------------------------------------------------------------------
(* The steps of the parser through an accepted request *)

LEMMA Layout ==
  ASSUME NEW r \in Requests
  PROVE  /\ LengthAt(r) \in {3, 6} /\ (LengthAt(r) = 3 <=> r.keep = "none")
         /\ EndAt(r) \in {LengthAt(r), LengthAt(r) + 3}
         /\ (EndAt(r) = LengthAt(r) <=> r.length = 0)
         /\ BodyAt(r) = EndAt(r) + 2 /\ EndAt(r) \in {3, 6, 9}
BY RequestTypes DEF LengthAt, EndAt, BodyAt

\* The line that begins at s
LEMMA LineOfText ==
  ASSUME NEW r \in Requests, ~r.bareLF, NEW s \in {0, 3, LengthAt(r)}, s # EndAt(r)
  PROVE  /\ Text(r)[s+1] \notin {CR, LF, NUL} /\ Text(r)[s+2] = CR /\ Text(r)[s+3] = LF
         /\ s = 0 => Text(r)[s+1] = <<"request", r.method, r.page>>
         /\ s = 3 /\ s # LengthAt(r) => Text(r)[s+1] = <<"Connection", r.keep>>
         /\ s = LengthAt(r) => Text(r)[s+1] = <<"Content-Length", r.length>>
<1> DEFINE T == Text(r)
           l == LengthAt(r)
           e == EndAt(r)
<1>1. /\ T[1] = <<"request", r.method, r.page>> /\ T[2] = CR /\ T[3] = LF
      /\ l # 3 => T[4] = <<"Connection", r.keep>> /\ T[5] = CR /\ T[6] = LF
      /\ e # l => T[l+1] = <<"Content-Length", r.length>> /\ T[l+2] = CR /\ T[l+3] = LF
  BY TextSymbols
<1>2. l \in {3, 6} /\ e \in {l, l+3}  BY Layout
<1>3. /\ <<"request", r.method, r.page>> \notin {CR, LF, NUL}
      /\ <<"Connection", r.keep>> \notin {CR, LF, NUL}
      /\ <<"Content-Length", r.length>> \notin {CR, LF, NUL}
  BY RequestTypes, Lines
<1> DEFINE q == <<"request", r.method, r.page>>
           c == <<"Connection", r.keep>>
           n == <<"Content-Length", r.length>>
<1> HIDE DEF T, l, e, q, c, n
<1>4. /\ T[1] = q /\ T[2] = CR /\ T[3] = LF
      /\ l # 3 => T[4] = c /\ T[5] = CR /\ T[6] = LF
      /\ e # l => T[l+1] = n /\ T[l+2] = CR /\ T[l+3] = LF
      /\ q \notin {CR, LF, NUL} /\ c \notin {CR, LF, NUL} /\ n \notin {CR, LF, NUL}
  BY <1>1, <1>3 DEF q, c, n
<1>5. s \in {0, 3, l} /\ s # e  BY DEF l, e
<1>6. CASE s = 0
  BY <1>2, <1>4, <1>6 DEF T, l, e, q, c, n
<1>7. CASE s = l
  <2>1. T[s+1] = n /\ T[s+2] = CR /\ T[s+3] = LF  BY <1>4, <1>5, <1>7
  <2>2. s # 0 /\ ~(s = 3 /\ s # l)  BY <1>2, <1>7
  <2> QED  BY <1>4, <2>1, <2>2 DEF T, l, e, q, c, n
<1>8. CASE s = 3 /\ s # l
  <2>1. T[s+1] = c /\ T[s+2] = CR /\ T[s+3] = LF
    <3>1. s+1 = 4 /\ s+2 = 5 /\ s+3 = 6 /\ l # 3  BY <1>8
    <3> QED  BY <1>4, <3>1
  <2>2. s # 0 /\ s # l  BY <1>8
  <2> QED  BY <1>4, <2>1, <2>2 DEF T, l, e, q, c, n
<1> QED  BY <1>5, <1>6, <1>7, <1>8

\* A piece without a whole line changes nothing that the next one needs.
LEMMA NoLineStep ==
  ASSUME ParserInv, NEW r \in Requests, Parsing(r), NoLine, UNCHANGED <<rest, response>>
  PROVE  Parsing(r)'
<1>1. ParserTypeOK /\ m_start_line \in Nat /\ m_checked_idx \in Nat /\ m_read_idx \in Nat
      /\ m_start_line <= m_checked_idx
  BY ParserAssumption DEF ParserInv, ParserTypeOK
<1>2. /\ parse_line[1] # "OK" /\ m_checked_idx' = parse_line[2]
      /\ UNCHANGED <<wire, rest, response, m_read_buf, m_read_idx, m_start_line,
                     m_check_state, m_url, m_linger, m_content_length>>
  BY DEF NoLine, requestVars
<1>3. Reads(r) /\ response = <<>>  BY DEF Parsing
<1>4. Reads(r)' /\ response' = <<>>
  <2>1. \A i \in Indices : m_start_line' <= i => m_read_buf'[i] = m_read_buf[i]  BY <1>2
  <2> QED  BY <1>1, <1>2, <1>3, <2>1, ReadsBehind
<1>5. \A i \in m_start_line .. m_read_idx-1 : m_read_buf[i] = Text(r)[i+1]
  BY <1>3 DEF Reads
<1>6. ASSUME AtRequestLine PROVE AtRequestLine'
  <2>1. m_start_line = 0 /\ m_checked_idx <= 1  BY <1>6 DEF AtRequestLine
  <2>2. m_checked_idx' <= 1
    <3>1. CASE r.bareLF
      <4>1. <<"request", r.method, r.page>> \notin {CR, LF, NUL}  BY RequestTypes, Lines
      <4>2. Text(r)[1] \notin {CR, LF} /\ Text(r)[2] = LF  BY <3>1, <4>1, BareStart
      <4>3. \A i \in 0 .. m_read_idx-1 : m_read_buf[i] = Text(r)[i+1]  BY <1>5, <2>1
      <4>4. parse_line[2] \in m_checked_idx .. 1  BY <1>1, <2>1, <4>2, <4>3, BareLine
      <4> QED  BY <1>1, <1>2, <4>4
    <3>2. CASE ~r.bareLF
      <4>1. 0 # EndAt(r)  BY Layout
      <4>2. /\ Text(r)[0+1] \notin {CR, LF, NUL} /\ Text(r)[0+2] = CR /\ Text(r)[0+3] = LF
        BY <3>2, <4>1, LineOfText
      <4>3. \A i \in 0 .. m_read_idx-1 : m_read_buf[i] = Text(r)[i+1]  BY <1>5, <2>1
      <4>4. 0 \in Nat /\ 0 <= m_checked_idx /\ m_checked_idx <= 0+1  BY <1>1, <2>1
      <4>5. parse_line[2] \in m_checked_idx .. 0+1
        BY <1>1, <1>2, <4>2, <4>3, <4>4, TextLine
      <4> QED  BY <1>1, <1>2, <4>5
    <3> QED  BY <3>1, <3>2
  <2> QED  BY <1>2, <1>6, <2>2 DEF AtRequestLine
<1>7. ASSUME AtHeader(r) PROVE AtHeader(r)'
  <2>1. /\ m_start_line \in {3, LengthAt(r), EndAt(r)} /\ m_checked_idx <= m_start_line + 1
        /\ (m_start_line = EndAt(r) => m_checked_idx = m_start_line) /\ ~r.bareLF
    BY <1>7 DEF AtHeader, HeadersFound
  <2>2. /\ m_checked_idx' <= m_start_line + 1
        /\ m_start_line = EndAt(r) => m_checked_idx' = m_start_line
    <3>1. CASE m_start_line = EndAt(r)
      <4>1. Text(r)[EndAt(r)+1] = CR /\ Text(r)[EndAt(r)+2] = LF  BY <2>1, TextSymbols
      <4>2. Text(r)[m_start_line+1] = CR /\ Text(r)[m_start_line+2] = LF  BY <3>1, <4>1
      <4>3. m_checked_idx = m_start_line  BY <2>1, <3>1
      <4>4. parse_line[2] = m_start_line
        BY <1>1, <1>2, <1>5, <4>2, <4>3, EmptyLine
      <4> QED  BY <1>1, <1>2, <4>4
    <3>2. CASE m_start_line # EndAt(r)
      <4>1. m_start_line \in {0, 3, LengthAt(r)}  BY <2>1, <3>2
      <4>2. /\ Text(r)[m_start_line+1] \notin {CR, LF, NUL}
            /\ Text(r)[m_start_line+2] = CR /\ Text(r)[m_start_line+3] = LF
        BY <2>1, <3>2, <4>1, LineOfText
      <4>3. parse_line[2] \in m_checked_idx .. m_start_line+1
        BY <1>1, <1>2, <1>5, <2>1, <4>2, TextLine
      <4> QED  BY <1>1, <1>2, <3>2, <4>3
    <3> QED  BY <3>1, <3>2
  <2> QED  BY <1>2, <1>7, <2>2 DEF AtHeader, HeadersFound
<1>8. ASSUME AtBody(r) PROVE AtBody(r)'
  BY <1>2, <1>8 DEF AtBody, HeadersFound
<1>9. AtRequestLine' \/ AtHeader(r)' \/ AtBody(r)'  BY <1>6, <1>7, <1>8 DEF Parsing
<1> QED  BY <1>4, <1>9 DEF Parsing

\* The request line is read as it was sent, if it is a line at all.
LEMMA RequestLineRead ==
  ASSUME ParserInv, NEW r \in Requests, Parsing(r), Line("REQUESTLINE"), UNCHANGED rest
  PROVE  /\ ~r.bareLF /\ AtRequestLine /\ Reads(r)' /\ m_start_line' = 3 /\ m_checked_idx' = 3
         /\ text[1] = "request" /\ text[2] = r.method /\ text[3] = r.page
<1>1. m_check_state = "REQUESTLINE" /\ parse_line[1] = "OK"  BY DEF Line
<1>2. AtRequestLine /\ Reads(r)  BY <1>1 DEF Parsing, AtHeader, AtBody
<1>3. m_start_line = 0 /\ m_checked_idx <= 1  BY <1>2 DEF AtRequestLine
<1>4. ParserTypeOK /\ m_checked_idx \in Nat /\ m_read_idx \in Nat
  BY ParserAssumption DEF ParserInv, ParserTypeOK
<1>5. ~r.bareLF
  <2> SUFFICES ASSUME r.bareLF PROVE FALSE  OBVIOUS
  <2>1. <<"request", r.method, r.page>> \notin {CR, LF, NUL}  BY RequestTypes, Lines
  <2>2. Text(r)[1] \notin {CR, LF} /\ Text(r)[2] = LF  BY <2>1, BareStart
  <2>3. \A i \in 0 .. m_read_idx-1 : m_read_buf[i] = Text(r)[i+1]  BY <1>2, <1>3 DEF Reads
  <2>4. parse_line[1] # "OK"  BY <1>3, <1>4, <2>2, <2>3, BareLine
  <2> QED  BY <1>1, <2>4
<1>6. /\ Text(r)[0+1] \notin {CR, LF, NUL} /\ Text(r)[0+2] = CR /\ Text(r)[0+3] = LF
      /\ Text(r)[0+1] = <<"request", r.method, r.page>>
  <2>1. 0 # EndAt(r)  BY Layout
  <2> QED  BY <1>5, <2>1, LineOfText
<1>7. /\ Text(r)[m_start_line+1] \notin {CR, LF} /\ Text(r)[m_start_line+2] = CR
      /\ Text(r)[m_start_line+3] = LF /\ m_checked_idx <= m_start_line + 1
      /\ Text(r)[m_start_line+1] = <<"request", r.method, r.page>>
  BY <1>3, <1>6
<1>8. /\ Reads(r)' /\ m_start_line' = m_start_line + 3 /\ m_checked_idx' = m_start_line + 3
      /\ text = Text(r)[m_start_line + 1]
  BY <1>2, <1>7, TextLineRead
<1>9. m_start_line' = 3 /\ m_checked_idx' = 3  BY <1>3, <1>8
<1>10. text[1] = "request" /\ text[2] = r.method /\ text[3] = r.page
  <2>1. /\ <<"request", r.method, r.page>>[1] = "request"
        /\ <<"request", r.method, r.page>>[2] = r.method
        /\ <<"request", r.method, r.page>>[3] = r.page
    OBVIOUS
  <2> QED  BY <1>7, <1>8, <2>1
<1> QED  BY <1>2, <1>5, <1>8, <1>9, <1>10

LEMMA RequestLineStep ==
  ASSUME ParserInv, NEW r \in Requests, Parsing(r), parse_request_line,
         UNCHANGED <<rest, response>>
  PROVE  Parsing(r)' /\ pc' = "parse" /\ (cgi' = 1 => cgi = 1 \/ r.method = "POST")
<1>1. /\ Line("REQUESTLINE") /\ pc = "parse" /\ pc' = pc
      /\ cgi' = (IF text[2] = "POST" THEN 1 ELSE cgi)
      /\ m_url' = url(text[3]) /\ m_check_state' = "HEADER"
      /\ UNCHANGED <<m_linger, m_content_length>>
  BY DEF parse_request_line, Line, setsCgi
<1>2. /\ ~r.bareLF /\ AtRequestLine /\ Reads(r)' /\ m_start_line' = 3 /\ m_checked_idx' = 3
      /\ text[2] = r.method /\ text[3] = r.page
  BY <1>1, RequestLineRead
<1>3. HeadersFound(r)'
  <2>1. m_url' = url(r.page)  BY <1>1, <1>2
  <2>2. m_linger' = (r.keep = "keep-alive" /\ m_start_line' >= LengthAt(r))
    <3>1. m_linger' = FALSE  BY <1>1, <1>2 DEF AtRequestLine
    <3>2. r.keep = "keep-alive" => LengthAt(r) = 6  BY Layout
    <3>3. ~(r.keep = "keep-alive" /\ m_start_line' >= LengthAt(r))  BY <1>2, <3>2
    <3> QED  BY <3>1, <3>3
  <2>3. m_content_length' = IF m_start_line' >= EndAt(r) THEN r.length ELSE 0
    <3>1. m_content_length' = 0  BY <1>1, <1>2 DEF AtRequestLine
    <3>2. m_start_line' >= EndAt(r) => r.length = 0  BY <1>2, Layout
    <3> QED  BY <3>1, <3>2
  <2> QED  BY <1>2, <2>1, <2>2, <2>3 DEF HeadersFound
<1>4. AtHeader(r)'  BY <1>1, <1>2, <1>3 DEF AtHeader
<1>5. response' = <<>>  BY DEF Parsing
<1> QED  BY <1>1, <1>2, <1>4, <1>5 DEF Parsing

\* A request with a method the server knows is not refused.
LEMMA NotRefused ==
  ASSUME ParserInv, NEW r \in Requests, Supported(r), Parsing(r), RefuseRequestLine,
         UNCHANGED rest
  PROVE  FALSE
<1>1. Line("REQUESTLINE") /\ ~acceptable  BY DEF RefuseRequestLine
<1>2. text[1] = "request" /\ text[2] = r.method  BY <1>1, RequestLineRead
<1> QED  BY <1>1, <1>2 DEF acceptable, Supported

\* Where a header line is read: both header lines come at their place.
LEMMA HeaderStep ==
  ASSUME ParserInv, NEW r \in Requests, Parsing(r), parse_headers,
         UNCHANGED <<rest, response>>
  PROVE  Parsing(r)' /\ pc' = "parse"
<1> DEFINE s == m_start_line
           l == LengthAt(r)
           e == EndAt(r)
<1>1. /\ Line("HEADER") /\ m_check_state = "HEADER" /\ pc = "parse" /\ pc' = pc /\ text # NUL
      /\ m_linger' = (m_linger \/ text = <<"Connection", "keep-alive">>)
      /\ m_content_length' = IF text \in ContentLengths THEN text[2] ELSE m_content_length
      /\ UNCHANGED <<m_check_state, m_url>>
  BY DEF parse_headers, Line
<1>2. AtHeader(r) /\ Reads(r) /\ response = <<>>
  BY <1>1 DEF Parsing, AtRequestLine, AtBody
<1>3. /\ s \in {3, l, e} /\ m_checked_idx <= s+1
      /\ s = e => m_checked_idx = s
      /\ ~r.bareLF /\ m_url = url(r.page)
      /\ m_linger = (r.keep = "keep-alive" /\ s >= l)
      /\ m_content_length = IF s >= e THEN r.length ELSE 0
  BY <1>2 DEF AtHeader, HeadersFound
<1>4. l \in {3, 6} /\ (l = 3 <=> r.keep = "none") /\ e \in {l, l+3} /\ (e = l <=> r.length = 0)
  BY Layout
<1>5. s # e
  <2> SUFFICES ASSUME s = e PROVE FALSE  OBVIOUS
  <2>1. Text(r)[EndAt(r)+1] = CR /\ Text(r)[EndAt(r)+2] = LF  BY <1>3, TextSymbols
  <2>2. /\ Text(r)[m_start_line+1] = CR /\ Text(r)[m_start_line+2] = LF
        /\ m_checked_idx = m_start_line
    BY <1>3, <2>1
  <2>3. text = NUL  BY <1>1, <1>2, <2>2, EmptyLineRead
  <2> QED  BY <1>1, <2>3
<1>6. /\ Text(r)[s+1] \notin {CR, LF, NUL} /\ Text(r)[s+2] = CR /\ Text(r)[s+3] = LF
      /\ s = 3 /\ s # l => Text(r)[s+1] = <<"Connection", r.keep>>
      /\ s = l => Text(r)[s+1] = <<"Content-Length", r.length>>
  <2>1. s \in {0, 3, l}  BY <1>3, <1>5
  <2> QED  BY <1>3, <1>5, <2>1, LineOfText
<1>7. /\ Reads(r)' /\ s' = s + 3 /\ m_checked_idx' = s + 3 /\ text = Text(r)[s+1]
  BY <1>1, <1>2, <1>3, <1>6, TextLineRead
<1>8. CASE s = l
  <2>1. text = <<"Content-Length", r.length>>  BY <1>6, <1>7, <1>8
  <2>2. text \in ContentLengths /\ text[2] = r.length /\ text # <<"Connection", "keep-alive">>
    <3>1. /\ <<"Content-Length", r.length>> \in ContentLengths
          /\ <<"Content-Length", r.length>>[2] = r.length
          /\ <<"Content-Length", r.length>> # <<"Connection", "keep-alive">>
      BY RequestTypes, Lines
    <3> QED  BY <2>1, <3>1
  <2>3. s' = e /\ e = l+3 /\ s' \in {3, l, e} /\ m_checked_idx' = s'  BY <1>4, <1>5, <1>7, <1>8
  <2>4. m_linger' = (r.keep = "keep-alive" /\ s' >= l)
    <3>1. m_linger' = m_linger
      <4>1. m_linger \in BOOLEAN  BY DEF ParserInv, ParserTypeOK
      <4> QED  BY <1>1, <2>2, <4>1
    <3>2. s >= l /\ s' >= l  BY <1>4, <1>8, <2>3
    <3> QED  BY <1>3, <3>1, <3>2
  <2>5. m_content_length' = r.length /\ s' >= e
    <3>1. e \in Nat  BY <1>4
    <3> QED  BY <1>1, <2>2, <2>3, <3>1
  <2>6. HeadersFound(r)'  BY <1>1, <1>3, <2>4, <2>5 DEF HeadersFound
  <2>7. m_checked_idx' <= s' + 1  BY <1>4, <2>3
  <2>8. AtHeader(r)'  BY <1>1, <2>3, <2>6, <2>7 DEF AtHeader
  <2> QED  BY <1>1, <1>2, <1>7, <2>8 DEF Parsing
<1>9. CASE s # l
  <2>1. s = 3 /\ l = 6 /\ s' = l /\ r.keep # "none"  BY <1>3, <1>4, <1>5, <1>7, <1>9
  <2>2. text = <<"Connection", r.keep>>  BY <1>6, <1>7, <1>9, <2>1
  <2>3. text \notin ContentLengths /\ (text = <<"Connection", "keep-alive">> <=> r.keep = "keep-alive")
    <3>1. /\ <<"Connection", r.keep>> \notin ContentLengths
          /\ <<"Connection", r.keep>> = <<"Connection", "keep-alive">> <=> r.keep = "keep-alive"
      BY RequestTypes, Lines
    <3> QED  BY <2>2, <3>1
  <2>4. m_linger' = (r.keep = "keep-alive" /\ s' >= l)
    <3>1. ~(s >= l) /\ s' >= l  BY <2>1
    <3>2. m_linger = FALSE  BY <1>3, <3>1
    <3>3. m_linger' = (r.keep = "keep-alive")  BY <1>1, <2>3, <3>2
    <3> QED  BY <3>1, <3>3
  <2>5. m_content_length' = IF s' >= e THEN r.length ELSE 0
    <3>1. m_content_length' = m_content_length  BY <1>1, <2>3
    <3>2. ~(s >= e)  BY <1>4, <2>1
    <3>3. s' >= e => r.length = 0  BY <1>4, <2>1
    <3> QED  BY <1>3, <3>1, <3>2, <3>3
  <2>6. HeadersFound(r)'  BY <1>1, <1>3, <2>4, <2>5 DEF HeadersFound
  <2>7. m_checked_idx' = s' /\ m_checked_idx' <= s' + 1  BY <1>4, <1>7, <2>1
  <2>8. AtHeader(r)'  BY <1>1, <2>1, <2>6, <2>7 DEF AtHeader
  <2> QED  BY <1>1, <1>2, <1>7, <2>8 DEF Parsing
<1> QED  BY <1>8, <1>9

\* All of a request has been read and found.
LEMMA EndStep ==
  ASSUME ParserInv, NEW r \in Requests, Parsing(r), EndOfHeaders,
         UNCHANGED <<rest, response>>
  PROVE  \/ pc' = "parse" /\ Parsing(r)'
         \/ pc' = "do" /\ Parsed(r)' /\ BodyRead(r)'
<1> DEFINE s == m_start_line
           l == LengthAt(r)
           e == EndAt(r)
<1>1. /\ Line("HEADER") /\ m_check_state = "HEADER" /\ pc = "parse" /\ text = NUL
      /\ IF m_content_length = 0 THEN pc' = "do" /\ UNCHANGED m_check_state
                                 ELSE m_check_state' = "CONTENT" /\ UNCHANGED pc
      /\ UNCHANGED <<m_url, m_linger, m_content_length, wire, m_read_idx>>
  BY DEF EndOfHeaders, Line, requestVars
<1>2. AtHeader(r) /\ Reads(r) /\ response = <<>>
  BY <1>1 DEF Parsing, AtRequestLine, AtBody
<1>3. /\ s \in {3, l, e} /\ m_checked_idx <= s+1
      /\ s = e => m_checked_idx = s
      /\ ~r.bareLF /\ m_url = url(r.page)
      /\ m_linger = (r.keep = "keep-alive" /\ s >= l)
      /\ m_content_length = IF s >= e THEN r.length ELSE 0
  BY <1>2 DEF AtHeader, HeadersFound
<1>4. /\ l \in {3, 6} /\ e \in {l, l+3} /\ (e = l <=> r.length = 0) /\ BodyAt(r) = e + 2
      /\ r.length \in Nat
  BY Layout, RequestTypes
<1>5. s = e
  <2> SUFFICES ASSUME s # e PROVE FALSE  OBVIOUS
  <2>1. s \in {0, 3, l}  BY <1>3
  <2>2. /\ Text(r)[s+1] \notin {CR, LF, NUL} /\ Text(r)[s+2] = CR /\ Text(r)[s+3] = LF
    BY <1>3, <2>1, LineOfText
  <2>3. text = Text(r)[s+1]  BY <1>1, <1>2, <1>3, <2>2, TextLineRead
  <2> QED  BY <1>1, <2>2, <2>3
<1>6. /\ Text(r)[s+1] = CR /\ Text(r)[s+2] = LF
  <2>1. Text(r)[EndAt(r)+1] = CR /\ Text(r)[EndAt(r)+2] = LF  BY <1>3, TextSymbols
  <2> QED  BY <1>5, <2>1
<1>7. Reads(r)' /\ s' = s + 2 /\ m_checked_idx' = s + 2 /\ s + 2 <= m_read_idx
  <2>1. m_checked_idx = s  BY <1>3, <1>5
  <2> QED  BY <1>1, <1>2, <1>6, <2>1, EmptyLineRead
<1>8. m_content_length' = r.length /\ m_url' = url(r.page) /\ m_linger' = (r.keep = "keep-alive")
  <2>1. s >= e /\ s >= l  BY <1>4, <1>5
  <2> QED  BY <1>1, <1>3, <2>1
<1>9. CASE r.length = 0
  <2>1. pc' = "do"  BY <1>1, <1>8, <1>9
  <2>2. Len(Text(r)) = BodyAt(r) + r.length  BY <1>3, TextSymbols
  <2>3. /\ m_read_idx + Len(wire) + Len(rest) = Len(Text(r)) /\ m_read_idx \in Nat
        /\ wire \in Seq(Symbols) /\ rest \in Seq(Symbols)
    BY <1>2 DEF Reads, ParserInv, ParserTypeOK, Streams
  <2>4. Len(wire) \in Nat /\ Len(rest) \in Nat  BY <2>3
  <2>5. Len(wire) = 0 /\ Len(rest) = 0  BY <1>4, <1>5, <1>7, <1>9, <2>2, <2>3, <2>4
  <2>6. wire = <<>> /\ rest = <<>>  BY <2>3, <2>5
  <2>7. Parsed(r)'  BY <1>1, <1>8, <2>6 DEF Parsed
  <2>8. BodyRead(r)'  BY <1>9 DEF BodyRead
  <2> QED  BY <2>1, <2>7, <2>8
<1>10. CASE r.length # 0
  <2>1. pc' = "parse" /\ m_check_state' = "CONTENT"  BY <1>1, <1>8, <1>10
  <2>2. s' = BodyAt(r) /\ s' >= e /\ s' >= l /\ s' >= BodyAt(r)  BY <1>4, <1>5, <1>7
  <2>3. m_linger' = (r.keep = "keep-alive" /\ s' >= l)  BY <1>8, <2>2
  <2>4. HeadersFound(r)'  BY <1>3, <1>8, <2>2, <2>3 DEF HeadersFound
  <2>5. r.length > 0  BY <1>4, <1>10
  <2>6. AtBody(r)'  BY <2>1, <2>2, <2>4, <2>5 DEF AtBody
  <2> QED  BY <1>2, <1>7, <2>1, <2>6 DEF Parsing
<1> QED  BY <1>9, <1>10

LEMMA BodyStep ==
  ASSUME ParserInv, DOMAIN m_read_buf = Indices, NEW r \in Requests, Parsing(r), parse_content,
         UNCHANGED <<rest, response>>
  PROVE  \/ pc' = "parse" /\ Parsing(r)'
         \/ pc' = "do" /\ Parsed(r)' /\ BodyRead(r)'
<1> DEFINE s == m_start_line
           c == m_checked_idx
           n == r.length
           b == BodyAt(r)
           T == Text(r)
<1>1. /\ pc = "parse" /\ m_check_state = "CONTENT" /\ m_start_line' = c
      /\ UNCHANGED <<wire, rest, response, m_read_idx, m_checked_idx, m_check_state,
                     m_url, m_linger, m_content_length>>
  BY DEF parse_content, InBody, requestVars
<1>2. AtBody(r) /\ Reads(r) /\ response = <<>>
  BY <1>1 DEF Parsing, AtRequestLine, AtHeader
<1>3. n > 0 /\ s >= b /\ HeadersFound(r)  BY <1>2 DEF AtBody
<1>4. /\ s \in Nat /\ c \in Nat /\ m_read_idx \in Nat /\ s <= c /\ c <= m_read_idx
      /\ m_read_idx < READ_BUFFER_SIZE /\ n \in Nat /\ b \in Nat
      /\ b >= EndAt(r) /\ b >= LengthAt(r) /\ LengthAt(r) \in Nat /\ EndAt(r) \in Nat
  BY <1>1, ParserAssumption, Layout, RequestTypes DEF ParserInv, ParserTypeOK, Room
<1>5. s >= EndAt(r) /\ s >= LengthAt(r) /\ c >= EndAt(r) /\ c >= LengthAt(r) /\ c >= b
  BY <1>3, <1>4
<1>6. /\ ~r.bareLF /\ m_url = url(r.page) /\ m_content_length = n
      /\ m_linger = (r.keep = "keep-alive")
  BY <1>3, <1>5 DEF HeadersFound
<1>7. /\ Len(T) = b + n /\ \A k \in 1..n : T[b+k] = Byte
  BY <1>6, TextSymbols
<1>8. CASE ~complete
  <2>1. pc' = "parse" /\ m_read_buf' = m_read_buf  BY <1>1, <1>8 DEF parse_content
  <2>2. \A i \in Indices : m_start_line' <= i => m_read_buf'[i] = m_read_buf[i]  BY <2>1
  <2>3. Reads(r)'
    <3>1. m_start_line' \in Nat /\ m_start_line <= m_start_line'  BY <1>1, <1>4
    <3> QED  BY <1>1, <1>2, <2>2, <3>1, ReadsBehind
  <2>4. HeadersFound(r)'  BY <1>1, <1>5, <1>6 DEF HeadersFound
  <2>5. AtBody(r)'  BY <1>1, <1>3, <1>5, <2>4 DEF AtBody
  <2> QED  BY <1>1, <1>2, <2>1, <2>3, <2>5 DEF Parsing
<1>9. CASE complete
  <2>1. /\ pc' = "do" /\ m_string' = s
        /\ m_read_buf' = [m_read_buf EXCEPT ![terminator] = NUL]
    BY <1>1, <1>9 DEF parse_content
  <2>2. m_read_idx >= n + c  BY <1>6, <1>9 DEF complete
  <2>3. /\ m_read_idx + Len(wire) + Len(rest) = Len(T)
        /\ wire \in Seq(Symbols) /\ rest \in Seq(Symbols)
        /\ \A i \in s .. m_read_idx-1 : m_read_buf[i] = T[i+1]
    BY <1>2 DEF Reads, ParserInv, Streams
  <2>4. Len(wire) \in Nat /\ Len(rest) \in Nat  BY <2>3
  <2> HIDE DEF s, c, n, b, T
  <2>5. s = b /\ m_read_idx = b + n /\ Len(wire) = 0 /\ Len(rest) = 0
    BY <1>3, <1>4, <1>5, <1>7, <2>2, <2>3, <2>4
  <2>6. wire = <<>> /\ rest = <<>>  BY <2>3, <2>5
  <2>7. Parsed(r)'  BY <1>1, <1>6, <2>6 DEF Parsed, n
  <2>8. terminator = s + n  BY <1>6 DEF terminator, s
  <2>9. ASSUME NEW i \in s .. s+n-1 PROVE m_read_buf'[i] = Byte
    <3>1. i \in s .. m_read_idx-1 /\ i+1-b \in 1..n /\ b + (i+1-b) = i+1 /\ i # s+n
      BY <1>4, <2>5
    <3>2. m_read_buf[i] = T[i+1] /\ T[b + (i+1-b)] = Byte  BY <1>7, <2>3, <3>1
    <3>3. i \in Indices  BY <1>4, <2>5, ParserAssumption DEF Indices
    <3>4. m_read_buf'[i] = m_read_buf[i]  BY <2>1, <2>8, <3>1, <3>3
    <3> QED  BY <3>1, <3>2, <3>4
  <2>10. m_read_buf'[s+n] = NUL
    <3>1. s+n \in Indices  BY <1>4, <2>5, ParserAssumption DEF Indices
    <3> QED  BY <2>1, <2>8, <3>1
  <2>11. BodyRead(r)'  BY <2>1, <2>9, <2>10 DEF BodyRead, n
  <2> QED  BY <2>1, <2>7, <2>11
<1> QED  BY <1>8, <1>9

-----------------------------------------------------------------------------
(* The steps that keep a request refused *)

LEMMA UnacceptableText ==
  ASSUME NEW r \in Requests, ~Supported(r)
  PROVE  Text(r) \in Seq(Unacceptable)
<1>1. CR \in Unacceptable /\ LF \in Unacceptable /\ Byte \in Unacceptable
  BY Marks DEF Unacceptable
<1>2. /\ <<"request", r.method, r.page>> \in Unacceptable
      /\ <<"Connection", r.keep>> \in Unacceptable
      /\ <<"Content-Length", r.length>> \in Unacceptable
  BY RequestTypes, Lines DEF Unacceptable, Supported
<1> QED  BY <1>1, <1>2, TextOver

LEMMA RefusingSend ==
  ASSUME ParserInv, Refusing, SendPiece
  PROVE  Refusing'
<1>1. wire \in Seq(Unacceptable) /\ rest \in Seq(Unacceptable)  BY DEF Refusing
<1>2. PICK n \in 1 .. Len(rest) :
        wire' = wire \o SubSeq(rest, 1, n) /\ rest' = SubSeq(rest, n+1, Len(rest))
  BY DEF SendPiece
<1>3. n \in Nat /\ 1 <= n /\ n <= Len(rest) /\ Len(rest) \in Nat  BY <1>1
<1>4. (\A i \in 1..n : rest[i] \in Unacceptable) /\ \A i \in n+1..Len(rest) : rest[i] \in Unacceptable
  BY <1>1, <1>3
<1>5. SubSeq(rest, 1, n) \in Seq(Unacceptable)  BY <1>3, <1>4, SubSeqProperties
<1>6. SubSeq(rest, n+1, Len(rest)) \in Seq(Unacceptable)  BY <1>3, <1>4, SubSeqProperties
<1>7. wire \o SubSeq(rest, 1, n) \in Seq(Unacceptable)  BY <1>1, <1>5, ConcatProperties
<1>8. wire' \in Seq(Unacceptable) /\ rest' \in Seq(Unacceptable)  BY <1>2, <1>6, <1>7
<1>9. UNCHANGED <<pc, m_check_state, m_url, m_linger, m_content_length, m_read_buf,
                  received, bytes_to_send>>
  BY DEF SendPiece, parserVars, requestVars, writerVars, blockVars, sentVars
<1> QED  BY <1>8, <1>9 DEF Refusing

LEMMA RefusingRecv ==
  ASSUME ParserInv, Refusing, Recv, UNCHANGED <<rest, received, bytes_to_send>>
  PROVE  Refusing'
<1> DEFINE room == READ_BUFFER_SIZE - m_read_idx
           n    == IF Len(wire) < room THEN Len(wire) ELSE room
           x    == m_read_idx
<1>1. /\ wire \in Seq(Unacceptable) /\ rest \in Seq(Unacceptable)
      /\ \A i \in Indices : m_read_buf[i] \in Unacceptable
      /\ pc \in {"in", "read"} /\ received = <<>>
  BY DEF Refusing, Recv
<1>2. x \in Nat /\ x < READ_BUFFER_SIZE  BY DEF ParserInv, ParserTypeOK, Recv
<1>3. n \in Nat /\ n <= Len(wire) /\ Len(wire) \in Nat  BY <1>1, <1>2, ParserAssumption
<1>4. /\ wire' = SubSeq(wire, n+1, Len(wire)) /\ pc' = "read"
      /\ m_read_buf' = [i \in Indices |-> IF i \in x .. x+n-1 THEN wire[i - x + 1]
                                          ELSE m_read_buf[i]]
      /\ UNCHANGED <<m_check_state, m_url, m_linger, m_content_length>>
  BY DEF Recv, requestVars
<1> HIDE DEF n, x
<1>5. \A i \in n+1..Len(wire) : wire[i] \in Unacceptable  BY <1>1, <1>3
<1>6. SubSeq(wire, n+1, Len(wire)) \in Seq(Unacceptable)  BY <1>3, <1>5, SubSeqProperties
<1>7. ASSUME NEW i \in Indices PROVE m_read_buf'[i] \in Unacceptable
  <2>1. CASE i \in x .. x+n-1
    <3>1. i-x+1 \in 1 .. Len(wire)  BY <1>2, <1>3, <2>1
    <3> QED  BY <1>1, <1>4, <2>1, <3>1
  <2>2. CASE i \notin x .. x+n-1  BY <1>1, <1>4, <2>2
  <2> QED  BY <2>1, <2>2
<1> QED  BY <1>1, <1>4, <1>6, <1>7 DEF Refusing

\* A line of a refused request is refused.
LEMMA RefusingLine ==
  ASSUME ParserInv, Refusing, UNCHANGED <<rest, received, bytes_to_send>>,
         parse_request_line \/ RefuseRequestLine
  PROVE  Refusing' /\ RefuseRequestLine
<1>1. /\ Line("REQUESTLINE") /\ parse_line[1] = "OK" /\ m_start_line' = parse_line[2]
      /\ m_read_buf' = [i \in Indices |-> IF i \in parse_line[3] THEN NUL ELSE m_read_buf[i]]
      /\ pc = "parse" /\ UNCHANGED wire
  BY DEF parse_request_line, RefuseRequestLine, Line
<1>2. NUL \in Unacceptable  BY Marks DEF Unacceptable
<1>3. \A i \in Indices : m_read_buf'[i] \in Unacceptable  BY <1>1, <1>2 DEF Refusing
<1>4. m_start_line \in Indices
  BY ParserAssumption, <1>1 DEF ParserInv, ParserTypeOK, Room, Indices
<1>5. text \in Unacceptable  BY <1>3, <1>4 DEF text
<1>6. ~acceptable  BY <1>5 DEF acceptable, Unacceptable
<1>7. /\ RefuseRequestLine /\ pc' = "fill"
      /\ UNCHANGED <<m_check_state, m_url, m_linger, m_content_length>>
  BY <1>6 DEF parse_request_line, RefuseRequestLine, requestVars
<1>8. received = <<>>  BY <1>1 DEF Refusing
<1> QED  BY <1>1, <1>3, <1>7, <1>8 DEF Refusing

LEMMA RefusingParser ==
  ASSUME ParserInv, Refusing, Parser, UNCHANGED <<writerVars, clientVars>>
  PROVE  (pc' = "closed" \/ Refusing') /\ UNCHANGED cgi
<1>1. UNCHANGED <<rest, received, bytes_to_send>>  BY DEF writerVars, clientVars, blockVars, sentVars
<1>2. m_check_state = "REQUESTLINE"  BY DEF Refusing
<1>3. CASE Recv  BY <1>1, <1>3, RefusingRecv DEF Recv
<1>4. CASE ReadDone
  BY <1>1, <1>4 DEF ReadDone, drained, requestVars, Refusing
<1>5. CASE ReadFails  BY <1>5 DEF ReadFails, parserVars
<1>6. CASE NoLine  BY <1>1, <1>6 DEF NoLine, requestVars, Refusing
<1>7. CASE parse_request_line \/ RefuseRequestLine
  <2>1. Refusing' /\ RefuseRequestLine  BY <1>1, <1>7, RefusingLine
  <2> QED  BY <2>1 DEF RefuseRequestLine
<1>8. CASE parse_headers \/ EndOfHeaders \/ parse_content
  BY <1>2, <1>8 DEF parse_headers, EndOfHeaders, parse_content, Line, InBody
<1> QED  BY <1>3, <1>4, <1>5, <1>6, <1>7, <1>8 DEF Parser

LEMMA InitIdle ==
  ASSUME ParserInv, init, wire' = <<>>, rest' = <<>>
  PROVE  Idle'
<1>1. \A i \in Indices : m_read_buf'[i] = NUL  BY DEF init
<1>2. /\ m_checked_idx' = 0 /\ m_read_idx' = 0 /\ m_start_line' = 0
      /\ m_check_state' = "REQUESTLINE" /\ m_url' = "" /\ m_linger' = FALSE
      /\ m_content_length' = 0
  BY DEF init
<1>3. m_checked_idx' <= 1
  <2>1. m_checked_idx' = 0  BY DEF init
  <2> QED  BY <2>1
<1> QED  BY <1>1, <1>2, <1>3 DEF Idle, AtRequestLine

LEMMA RefusingWriter ==
  ASSUME ParserInv, WriterInv, Refusing, Writer, UNCHANGED clientVars
  PROVE  (pc' = "closed" \/ Refusing') /\ UNCHANGED cgi
<1>1. UNCHANGED rest  BY DEF clientVars
<1>2. /\ pc # "do" /\ m_linger = FALSE /\ wire \in Seq(Unacceptable) /\ rest \in Seq(Unacceptable)
      /\ m_check_state = "REQUESTLINE" /\ m_url = "" /\ m_content_length = 0
      /\ \A i \in Indices : m_read_buf[i] \in Unacceptable
      /\ received # <<>> => pc \in {"out", "spin"} /\ bytes_to_send > 0
  BY DEF Refusing
<1>3. CASE do_request  BY <1>2, <1>3 DEF do_request
<1>4. CASE FillFile \/ FillError
  <2>1. /\ received' = <<>> /\ pc' = "out"
        /\ UNCHANGED <<wire, m_check_state, m_url, m_linger, m_content_length, m_read_buf, cgi>>
    BY <1>4 DEF FillFile, FillError, Filled, parserVars, requestVars
  <2> QED  BY <1>1, <1>2, <2>1 DEF Refusing
<1>5. CASE FillEmpty  BY <1>5 DEF FillEmpty, parserVars
<1>6. CASE WriteNothing
  <2>1. /\ bytes_to_send = 0 /\ init /\ pc' = "in" /\ UNCHANGED <<wire, received, cgi>>
    BY <1>6 DEF WriteNothing, sentVars
  <2>2. received = <<>>
    <3>1. ~(bytes_to_send > 0)  BY <2>1
    <3> QED  BY <1>2, <3>1
  <2>3. NUL \in Unacceptable  BY Marks DEF Unacceptable
  <2>4. \A i \in Indices : m_read_buf'[i] \in Unacceptable  BY <2>1, <2>3 DEF init
  <2>5. m_check_state' = "REQUESTLINE" /\ m_url' = "" /\ m_linger' = FALSE /\ m_content_length' = 0
    BY <2>1 DEF init
  <2> QED  BY <1>1, <1>2, <2>1, <2>2, <2>4, <2>5 DEF Refusing
<1>7. CASE WriteSome
  <2>1. pc = "out" /\ bytes_to_send' > 0 /\ UNCHANGED <<pc, wire, m_check_state, m_url, m_linger,
                                          m_content_length, m_read_buf, cgi>>
    BY <1>7 DEF WriteSome, writev, requestVars
  <2> QED  BY <1>1, <1>2, <2>1 DEF Refusing
<1>8. CASE WriteKeeps  BY <1>2, <1>8 DEF WriteKeeps
<1>9. CASE WriteCloses  BY <1>9 DEF WriteCloses, writev
<1>10. CASE WriteFails  BY <1>10 DEF WriteFails, parserVars
<1>11. CASE WriteSpins
  <2>1. /\ bytes_to_send > 0 /\ pc' = "spin"
        /\ UNCHANGED <<wire, m_check_state, m_url, m_linger, m_content_length, m_read_buf, cgi,
                       received, bytes_to_send>>
    BY <1>11 DEF WriteSpins, parserVars, requestVars, writerVars, blockVars, sentVars
  <2> QED  BY <1>1, <1>2, <2>1 DEF Refusing
<1> QED
  BY <1>3, <1>4, <1>5, <1>6, <1>7, <1>8, <1>9, <1>10, <1>11 DEF Writer

-----------------------------------------------------------------------------
(* The steps of an accepted request *)

LEMMA AcceptingSend ==
  ASSUME ParserInv, NEW r \in Requests, Accepting(r), SendPiece
  PROVE  Accepting(r)'
<1>1. /\ UNCHANGED <<pc, m_check_state, m_start_line, m_checked_idx, m_url, m_linger,
                     m_content_length, response>>
      /\ pc \in {"in", "read"} /\ rest # <<>>
  BY DEF SendPiece, parserVars, requestVars, writerVars, sentVars
<1>2. Parsing(r)  BY <1>1 DEF Accepting, Idle
<1>3. Reads(r)'  BY <1>2, SendReads DEF Parsing
<1>4. Parsing(r)'
  BY <1>1, <1>2, <1>3 DEF Parsing, AtRequestLine, AtHeader, AtBody, HeadersFound
<1> QED  BY <1>1, <1>4 DEF Accepting

LEMMA AcceptingParser ==
  ASSUME ParserInv, DOMAIN m_read_buf = Indices, NEW r \in Requests, Supported(r),
         Accepting(r), Parser, UNCHANGED <<writerVars, clientVars>>
  PROVE  /\ pc' = "closed" \/ Accepting(r)'
         /\ cgi' = 1 => cgi = 1 \/ r.method = "POST"
<1>1. UNCHANGED <<rest, response>>  BY DEF writerVars, clientVars, sentVars
<1>2. pc \in {"in", "read", "parse"} /\ (pc = "in" => wire # <<>>)
  BY DEF Parser, Recv, ReadDone, ReadFails, NoLine, parse_request_line, RefuseRequestLine,
         parse_headers, EndOfHeaders, parse_content, Line
<1>3. Parsing(r)  BY <1>2 DEF Accepting, Idle
<1>4. CASE Recv
  <2>1. /\ UNCHANGED <<m_check_state, m_start_line, m_checked_idx, m_url, m_linger,
                       m_content_length, cgi>>
        /\ pc' = "read"
    BY <1>4 DEF Recv, requestVars
  <2>2. Reads(r)'  BY <1>1, <1>3, <1>4, RecvReads DEF Parsing
  <2>3. Parsing(r)'
    BY <1>1, <1>3, <2>1, <2>2 DEF Parsing, AtRequestLine, AtHeader, AtBody, HeadersFound
  <2> QED  BY <2>1, <2>3 DEF Accepting
<1>5. CASE ReadDone
  <2>1. /\ UNCHANGED <<m_check_state, m_start_line, m_checked_idx, m_url, m_linger,
                       m_content_length, cgi, wire, m_read_buf, m_read_idx>>
        /\ pc' = "parse"
    BY <1>5 DEF ReadDone, requestVars
  <2>2. Reads(r)'  BY <1>1, <1>3, <2>1 DEF Parsing, Reads
  <2>3. Parsing(r)'
    BY <1>1, <1>3, <2>1, <2>2 DEF Parsing, AtRequestLine, AtHeader, AtBody, HeadersFound
  <2> QED  BY <2>1, <2>3 DEF Accepting
<1>6. CASE ReadFails  BY <1>6 DEF ReadFails, parserVars
<1>7. CASE NoLine
  <2>1. Parsing(r)'  BY <1>1, <1>3, <1>7, NoLineStep
  <2>2. pc' = "in" /\ UNCHANGED cgi  BY <1>7 DEF NoLine
  <2> QED  BY <2>1, <2>2 DEF Accepting
<1>8. CASE parse_request_line
  <2>1. Parsing(r)' /\ pc' = "parse" /\ (cgi' = 1 => cgi = 1 \/ r.method = "POST")
    BY <1>1, <1>3, <1>8, RequestLineStep
  <2> QED  BY <2>1 DEF Accepting
<1>9. CASE RefuseRequestLine  BY <1>1, <1>3, <1>9, NotRefused
<1>10. CASE parse_headers
  <2>1. Parsing(r)' /\ pc' = "parse"  BY <1>1, <1>3, <1>10, HeaderStep
  <2>2. UNCHANGED cgi  BY <1>10 DEF parse_headers
  <2> QED  BY <2>1, <2>2 DEF Accepting
<1>11. CASE EndOfHeaders \/ parse_content
  <2>1. \/ pc' = "parse" /\ Parsing(r)'
        \/ pc' = "do" /\ Parsed(r)' /\ BodyRead(r)'
    BY <1>1, <1>3, <1>11, EndStep, BodyStep
  <2>2. UNCHANGED cgi  BY <1>11 DEF EndOfHeaders, parse_content
  <2> QED  BY <2>1, <2>2 DEF Accepting
<1> QED
  BY <1>4, <1>5, <1>6, <1>7, <1>8, <1>9, <1>10, <1>11 DEF Parser

LEMMA AcceptingWriter ==
  ASSUME ParserInv, NEW r \in Requests, Accepting(r), Writer, UNCHANGED clientVars
  PROVE  (pc' = "closed" \/ Accepting(r)') /\ UNCHANGED cgi
<1>1. UNCHANGED rest  BY DEF clientVars
<1>2. CASE do_request \/ FillFile \/ FillError \/ WriteSome \/ WriteSpins
  <2>1. /\ pc \in {"do", "fill", "out"} /\ pc' \in {"fill", "out", "spin"}
        /\ UNCHANGED <<wire, m_url, m_linger, m_content_length, cgi>>
    BY <1>2 DEF do_request, FillFile, FillError, Filled, WriteSome, WriteSpins, writev, parserVars,
                requestVars
  <2>2. Parsed(r)'  BY <1>1, <2>1 DEF Accepting, Parsed
  <2> QED  BY <2>1, <2>2 DEF Accepting
<1>3. CASE FillEmpty \/ WriteCloses \/ WriteFails
  BY <1>3 DEF FillEmpty, WriteCloses, WriteFails, writev, parserVars
<1>4. CASE WriteNothing \/ WriteKeeps
  <2>1. pc = "out" /\ pc' = "in" /\ init /\ UNCHANGED <<wire, cgi>>
    BY <1>4 DEF WriteNothing, WriteKeeps, writev
  <2>2. wire' = <<>> /\ rest' = <<>>  BY <1>1, <2>1 DEF Accepting, Parsed
  <2>3. Idle'  BY <2>1, <2>2, InitIdle
  <2> QED  BY <2>1, <2>3 DEF Accepting
<1> QED  BY <1>2, <1>3, <1>4 DEF Writer

-----------------------------------------------------------------------------
(* What process_read() finds is what was asked *)

LEMMA FoundInit == Init => FoundInv
<1> SUFFICES ASSUME Init PROVE FoundInv  OBVIOUS
<1>1. RequestType
  <2>1. asked = <<>> /\ posted \in BOOLEAN /\ m_read_buf = [i \in Indices |-> NUL]
    BY DEF Init, InitParser
  <2> QED  BY <2>1 DEF RequestType
<1>2. cgi = 0 /\ pc = "closed" /\ asked = <<>>  BY DEF Init, InitParser
<1>3. CgiPosted /\ NoRequest /\ Accepted /\ Refused
  BY <1>2 DEF CgiPosted, NoRequest, Accepted, Refused
<1> QED  BY <1>1, <1>3 DEF FoundInv

\* The buffer stays one.
LEMMA BufferStep ==
  ASSUME DOMAIN m_read_buf = Indices, [Next]_vars
  PROVE  DOMAIN m_read_buf' = Indices
<1>1. CASE Open \/ Ask \/ SendPiece \/ Close
  BY <1>1 DEF Open, Ask, SendPiece, Close, init, parserVars
<1>2. CASE Parser
  <2>1. CASE Recv  BY <2>1 DEF Recv
  <2>2. CASE ReadDone \/ ReadFails \/ NoLine
    BY <2>2 DEF ReadDone, ReadFails, NoLine, parserVars
  <2>3. CASE parse_request_line \/ RefuseRequestLine \/ parse_headers \/ EndOfHeaders
    <3>1. PICK state \in {"REQUESTLINE", "HEADER"} : Line(state)
      BY <2>3 DEF parse_request_line, RefuseRequestLine, parse_headers, EndOfHeaders
    <3> QED  BY <3>1 DEF Line
  <2>4. CASE parse_content
    <3>1. m_read_buf' = m_read_buf \/ m_read_buf' = [m_read_buf EXCEPT ![terminator] = NUL]
      BY <2>4 DEF parse_content
    <3> QED  BY <3>1
  <2> QED  BY <1>2, <2>1, <2>2, <2>3, <2>4 DEF Parser
<1>3. CASE Writer
  BY <1>3 DEF Writer, do_request, FillFile, FillError, FillEmpty, Filled, WriteNothing, WriteSome,
              WriteKeeps, WriteCloses, WriteFails, WriteSpins, init, parserVars
<1>4. CASE UNCHANGED vars  BY <1>4 DEF vars, parserVars
<1> QED  BY <1>1, <1>2, <1>3, <1>4 DEF Next, Server

LEMMA FoundOpen ==
  ASSUME ParserInv, FoundInv, Open, DOMAIN m_read_buf' = Indices
  PROVE  FoundInv'
<1>1. /\ init /\ pc' = "in" /\ wire' = <<>> /\ rest' = <<>> /\ asked' = <<>>
      /\ posted' = hasPosted /\ cgi' = cgi
  BY DEF Open
<1>2. hasPosted \in BOOLEAN  BY DEF hasPosted, FoundInv, RequestType
<1>3. RequestType'  BY <1>1, <1>2 DEF RequestType
<1>4. CgiPosted'  BY <1>1 DEF FoundInv, CgiPosted, hasPosted
<1>5. Idle'  BY <1>1, InitIdle
<1>6. NoRequest' /\ Accepted' /\ Refused'  BY <1>1, <1>5 DEF NoRequest, Accepted, Refused
<1> QED  BY <1>3, <1>4, <1>6 DEF FoundInv

LEMMA FoundAsk ==
  ASSUME ParserInv, WriterInv, FoundInv, Ask
  PROVE  FoundInv'
<1>1. /\ pc = "in" /\ (asked = <<>> \/ Answered) /\ pc' = pc /\ posted' = hasPosted
      /\ response' = <<>> /\ received' = <<>>
      /\ UNCHANGED <<wire, m_read_buf, m_read_idx, m_checked_idx, m_start_line, m_check_state,
                     m_url, m_linger, m_content_length, cgi>>
  BY DEF Ask, parserVars, requestVars
<1>2. PICK q \in Requests : asked' = <<q>> /\ rest' = Text(q)  BY DEF Ask
<1>3. Idle
  <2>1. CASE asked = <<>>  BY <1>1, <2>1 DEF FoundInv, NoRequest
  <2>2. CASE asked # <<>>
    <3>1. response # <<>> /\ received # <<>>
      <4>1. response # <<>> /\ Len(received) = Len(response)  BY <1>1, <2>2 DEF Answered
      <4>2. response \in Seq(Bytes) /\ received \in Seq(Bytes)  BY DEF WriterInv, Histories
      <4>3. Len(response) # 0  BY <4>1, <4>2
      <4>4. Len(<<>>) = 0  OBVIOUS
      <4> QED  BY <4>1, <4>3, <4>4
    <3>2. PICK r \in Requests : asked = <<r>>  BY <2>2 DEF FoundInv, RequestType
    <3>3. Supported(r)
      <4> SUFFICES ASSUME ~Supported(r) PROVE FALSE  OBVIOUS
      <4>1. pc # "closed"  BY <1>1
      <4>2. Refusing  BY <3>2, <4>1 DEF FoundInv, Refused
      <4> QED  BY <1>1, <3>1, <4>2 DEF Refusing
    <3>4. Accepting(r)  BY <3>2, <3>3 DEF FoundInv, Accepted
    <3> QED  BY <1>1, <3>1, <3>4 DEF Accepting, Parsing
  <2> QED  BY <2>1, <2>2
<1>4. asked' # <<>> /\ \A r \in Requests : asked' = <<r>> => r = q  BY <1>2
<1>5. hasPosted => hasPosted'  BY <1>1 DEF hasPosted
<1>6. RequestType'
  <2>1. hasPosted \in BOOLEAN  BY DEF hasPosted, FoundInv, RequestType
  <2> QED  BY <1>1, <1>2, <2>1 DEF FoundInv, RequestType
<1>7. CgiPosted'  BY <1>1, <1>5 DEF FoundInv, CgiPosted
<1>8. NoRequest'  BY <1>4 DEF NoRequest
<1>9. Accepting(q)'
  <2>1. /\ wire' = <<>> /\ m_read_idx' = 0 /\ m_start_line' = 0
    BY <1>1, <1>3 DEF Idle, AtRequestLine
  <2>2. Reads(q)'
    <3> DEFINE T == Text(q)
    <3>1. T \in Seq(Symbols)  BY TextType
    <3>2. Len(T) \in Nat /\ Len(wire') = 0 /\ rest' = T  BY <1>2, <2>1, <3>1
    <3> HIDE DEF T
    <3>3. m_read_idx' + Len(wire') + Len(rest') = Len(T)  BY <2>1, <3>2
    <3>4. \A k \in 1 .. Len(rest') : rest'[k] = T[m_read_idx' + Len(wire') + k]
      <4> SUFFICES ASSUME NEW k \in 1 .. Len(rest')
                   PROVE  rest'[k] = T[m_read_idx' + Len(wire') + k]
        OBVIOUS
      <4>1. m_read_idx' + Len(wire') + k = k  BY <2>1, <3>2
      <4> QED  BY <3>2, <4>1
    <3>5. \A i \in m_start_line' .. m_read_idx'-1 : m_read_buf'[i] = T[i+1]  BY <2>1
    <3>6. \A k \in 1 .. Len(wire') : wire'[k] = T[m_read_idx' + k]  BY <3>2
    <3> QED  BY <3>3, <3>4, <3>5, <3>6 DEF Reads, T
  <2>3. AtRequestLine'  BY <1>1, <1>3 DEF Idle, AtRequestLine
  <2>4. Parsing(q)'  BY <1>1, <2>2, <2>3 DEF Parsing
  <2> QED  BY <1>1, <2>4 DEF Accepting
<1>10. ASSUME ~Supported(q) PROVE Refusing'
  <2>1. NUL \in Unacceptable  BY Marks DEF Unacceptable
  <2>2. \A i \in Indices : m_read_buf'[i] \in Unacceptable  BY <1>1, <1>3, <2>1 DEF Idle
  <2>3. rest' \in Seq(Unacceptable)  BY <1>2, <1>10, UnacceptableText
  <2>4. wire' \in Seq(Unacceptable)
    <3>1. wire' = <<>>  BY <1>1, <1>3 DEF Idle
    <3> QED  BY <3>1
  <2> QED  BY <1>1, <1>3, <2>2, <2>3, <2>4 DEF Refusing, Idle, AtRequestLine
<1>11. Accepted'  BY <1>4, <1>9 DEF Accepted
<1>12. Refused'  BY <1>4, <1>10 DEF Refused
<1> QED  BY <1>6, <1>7, <1>8, <1>11, <1>12 DEF FoundInv

\* A step of the client or the server leaves what was asked.
LEMMA SameRequest ==
  ASSUME FoundInv, DOMAIN m_read_buf' = Indices, UNCHANGED <<asked, posted>>,
         NEW r \in Requests, asked = <<r>>,
         pc' # "closed" => IF Supported(r) THEN Accepting(r)' ELSE Refusing',
         cgi' = 1 => cgi = 1 \/ r.method = "POST",
         pc' = "closed" => ~Supported(r) \/ Accepting(r)'
  PROVE  FoundInv'
<1>1. \A q \in Requests : asked = <<q>> => q = r  OBVIOUS
<1>2. Request = r /\ asked # <<>>  BY DEF Request
<1>3. RequestType'  BY DEF FoundInv, RequestType
<1>4. CgiPosted'  BY <1>2 DEF FoundInv, CgiPosted, hasPosted, Request
<1>5. NoRequest'  BY <1>2 DEF NoRequest
<1>6. Accepted'  BY <1>1 DEF Accepted
<1>7. Refused'  BY <1>1 DEF Refused
<1> QED  BY <1>3, <1>4, <1>5, <1>6, <1>7 DEF FoundInv

LEMMA ClosedAccepts == \A r \in Requests : pc' = "closed" => Accepting(r)'
BY DEF Accepting

LEMMA FoundSend ==
  ASSUME ParserInv, FoundInv, SendPiece, DOMAIN m_read_buf' = Indices
  PROVE  FoundInv'
<1>1. /\ UNCHANGED <<asked, posted, cgi, pc>> /\ pc \in {"in", "read"} /\ rest # <<>>
  BY DEF SendPiece, parserVars
<1>2. asked # <<>>  BY <1>1 DEF FoundInv, NoRequest, Idle
<1>3. PICK r \in Requests : asked = <<r>>  BY <1>2 DEF FoundInv, RequestType
<1>4. CASE Supported(r)
  <2>1. Accepting(r)  BY <1>3, <1>4 DEF FoundInv, Accepted
  <2>2. Accepting(r)'  BY <2>1, AcceptingSend
  <2> QED  BY <1>1, <1>3, <1>4, <2>2, SameRequest
<1>5. CASE ~Supported(r)
  <2>1. Refusing  BY <1>1, <1>3, <1>5 DEF FoundInv, Refused
  <2>2. Refusing'  BY <2>1, RefusingSend
  <2> QED  BY <1>1, <1>3, <1>5, <2>2, SameRequest
<1> QED  BY <1>4, <1>5

LEMMA FoundServer ==
  ASSUME ParserInv, WriterInv, FoundInv, Server, DOMAIN m_read_buf' = Indices
  PROVE  FoundInv'
<1>1. /\ (Parser /\ UNCHANGED <<writerVars, clientVars>>) \/ (Writer /\ UNCHANGED clientVars)
      /\ UNCHANGED <<asked, posted>> /\ DOMAIN m_read_buf = Indices
  BY DEF Server, clientVars, FoundInv, RequestType
<1>2. pc # "closed" /\ (pc = "in" => wire # <<>>)
  <2>1. CASE Parser
    BY <2>1 DEF Parser, Recv, ReadDone, ReadFails, NoLine, parse_request_line, RefuseRequestLine,
                parse_headers, EndOfHeaders, parse_content, Line
  <2>2. CASE Writer
    BY <2>2 DEF Writer, do_request, FillFile, FillError, FillEmpty, WriteNothing, WriteSome,
                WriteKeeps, WriteCloses, WriteFails, WriteSpins, writev
  <2> QED  BY <1>1, <2>1, <2>2
<1>3. asked # <<>>  BY <1>2 DEF FoundInv, NoRequest, Idle
<1>4. PICK r \in Requests : asked = <<r>>  BY <1>3 DEF FoundInv, RequestType
<1>5. CASE Supported(r)
  <2>1. Accepting(r)  BY <1>4, <1>5 DEF FoundInv, Accepted
  <2>2. /\ pc' = "closed" \/ Accepting(r)'
        /\ cgi' = 1 => cgi = 1 \/ r.method = "POST"
    BY <1>1, <1>5, <2>1, AcceptingParser, AcceptingWriter
  <2>3. Accepting(r)'  BY <2>2, ClosedAccepts
  <2> QED  BY <1>1, <1>4, <1>5, <2>2, <2>3, SameRequest
<1>6. CASE ~Supported(r)
  <2>1. Refusing  BY <1>2, <1>4, <1>6 DEF FoundInv, Refused
  <2>2. /\ pc' = "closed" \/ Refusing'
        /\ cgi' = 1 => cgi = 1
    BY <1>1, <2>1, RefusingParser, RefusingWriter
  <2> QED  BY <1>1, <1>4, <1>6, <2>2, SameRequest
<1> QED  BY <1>5, <1>6

LEMMA FoundStep == ParserInv /\ WriterInv /\ FoundInv /\ [Next]_vars => FoundInv'
<1> SUFFICES ASSUME ParserInv, WriterInv, FoundInv, [Next]_vars PROVE FoundInv'  OBVIOUS
<1>1. DOMAIN m_read_buf' = Indices
  <2>1. DOMAIN m_read_buf = Indices  BY DEF FoundInv, RequestType
  <2> QED  BY <2>1, BufferStep
<1>2. CASE Open  BY <1>1, <1>2, FoundOpen
<1>3. CASE Ask  BY <1>3, FoundAsk
<1>4. CASE SendPiece  BY <1>1, <1>4, FoundSend
<1>5. CASE Close
  <2>1. pc' = "closed" /\ UNCHANGED <<asked, posted, cgi>>
    BY <1>5 DEF Close, parserVars, clientVars
  <2>2. RequestType'  BY <1>1, <2>1 DEF FoundInv, RequestType
  <2>3. CgiPosted'  BY <2>1 DEF FoundInv, CgiPosted, hasPosted, Request
  <2>4. Accepted'  BY <2>1, ClosedAccepts DEF Accepted
  <2>5. NoRequest' /\ Refused'  BY <2>1 DEF NoRequest, Refused
  <2> QED  BY <2>2, <2>3, <2>4, <2>5 DEF FoundInv
<1>6. CASE Server  BY <1>1, <1>6, FoundServer
<1>7. CASE UNCHANGED vars
  <2>1. UNCHANGED <<pc, wire, rest, asked, posted, response, received, bytes_to_send, m_read_buf,
                    m_read_idx, m_checked_idx, m_start_line, m_check_state, m_url, m_linger,
                    m_content_length, m_string, cgi>>
    BY <1>7 DEF vars, parserVars, requestVars, writerVars, blockVars, sentVars, clientVars
  <2>2. RequestType'  BY <2>1 DEF FoundInv, RequestType
  <2>3. CgiPosted'  BY <2>1 DEF FoundInv, CgiPosted, hasPosted, Request
  <2>4. NoRequest'  BY <2>1 DEF FoundInv, NoRequest, Idle, AtRequestLine
  <2>5. ASSUME NEW r \in Requests, Accepting(r) PROVE Accepting(r)'
    <3>1. Parsing(r) => Parsing(r)'
      BY <2>1 DEF Parsing, Reads, AtRequestLine, AtHeader, AtBody, HeadersFound
    <3>2. Idle => Idle'  BY <2>1 DEF Idle, AtRequestLine
    <3>3. (Parsed(r) => Parsed(r)') /\ (BodyRead(r) => BodyRead(r)')  BY <2>1 DEF Parsed, BodyRead
    <3> QED  BY <2>1, <2>5, <3>1, <3>2, <3>3 DEF Accepting
  <2>6. Accepted'  BY <2>1, <2>5 DEF FoundInv, Accepted
  <2>7. Refused'  BY <2>1 DEF FoundInv, Refused, Refusing
  <2> QED  BY <2>2, <2>3, <2>4, <2>6, <2>7 DEF FoundInv
<1> QED  BY <1>2, <1>3, <1>4, <1>5, <1>6, <1>7 DEF Next

LEMMA FoundInvariant == Spec => []FoundInv
<1>1. ParserInv /\ WriterInv /\ FoundInv /\ [Next]_vars => FoundInv'  BY FoundStep
<1> QED  BY <1>1, FoundInit, ParserInvariant, WriterInvariant, PTL DEF Spec

\* For every set of requests, every way to cut them in pieces and every history of
\* the slot, do_request() is called with what the client asked, and a request is
\* refused only for its method: process_read() and its automaton.
THEOREM RequestsUnderstood == Spec => []Understood
<1>1. ParserInv /\ FoundInv => Understood
  <2> SUFFICES ASSUME ParserInv, FoundInv PROVE Understood  OBVIOUS
  <2>1. ASSUME pc \in {"do", "fill"}
        PROVE  \E r \in Requests : asked = <<r>> /\ Request = r
    <3>1. asked # <<>>  BY <2>1 DEF FoundInv, NoRequest
    <3> QED  BY <3>1 DEF FoundInv, RequestType, Request
  <2>2. ASSUME pc = "do"
        PROVE  /\ Request.method \in {"GET", "POST"} /\ rest = <<>>
               /\ m_url = url(Request.page) /\ m_linger = (Request.keep = "keep-alive")
               /\ m_content_length = Request.length
    <3>1. PICK r \in Requests : asked = <<r>> /\ Request = r  BY <2>1, <2>2
    <3>2. Supported(r)  BY <2>2, <3>1 DEF FoundInv, Refused, Refusing
    <3>3. Parsed(r)  BY <2>2, <3>1, <3>2 DEF FoundInv, Accepted, Accepting
    <3> QED  BY <3>1, <3>2, <3>3 DEF Supported, Parsed
  <2>3. ASSUME pc = "fill", m_url = "" PROVE Request.method \notin {"GET", "POST"}
    <3>1. PICK r \in Requests : asked = <<r>> /\ Request = r  BY <2>1, <2>3
    <3>2. ~Supported(r)
      <4> SUFFICES ASSUME Supported(r) PROVE FALSE  OBVIOUS
      <4>1. Parsed(r)  BY <2>3, <3>1 DEF FoundInv, Accepted, Accepting
      <4>2. r.page # ""  BY ConnAssumption
      <4> QED  BY <2>3, <4>1, <4>2 DEF Parsed, url
    <3> QED  BY <3>1, <3>2 DEF Supported
  <2> QED  BY <2>2, <2>3 DEF Understood
<1> QED  BY <1>1, ParserInvariant, FoundInvariant, PTL

\* A form is read only from a POST, or in a slot that has had one (init() leaves
\* cgi), and what do_request() reads at m_string is the body of that POST up to the
\* '\0' behind it.
THEOREM FormsReadTheirBody == Spec => []FormReadsItsBody
<1>1. FoundInv => FormReadsItsBody
  <2> SUFFICES ASSUME FoundInv, pc = "do", cgi = 1
               PROVE  \/ posted /\ Request.method # "POST"
                      \/ /\ Request.method = "POST"
                         /\ Request.length > 0 =>
                              /\ \A i \in m_string .. m_string+Request.length-1 : m_read_buf[i] = Byte
                              /\ m_read_buf[m_string + Request.length] = NUL
    BY DEF FormReadsItsBody, readsForm
  <2>1. asked # <<>>  BY DEF FoundInv, NoRequest
  <2>2. PICK r \in Requests : asked = <<r>> /\ Request = r
    BY <2>1 DEF FoundInv, RequestType, Request
  <2>3. Supported(r)  BY <2>2 DEF FoundInv, Refused, Refusing
  <2>4. BodyRead(r)  BY <2>2, <2>3 DEF FoundInv, Accepted, Accepting
  <2>5. posted \/ Request.method = "POST"  BY DEF FoundInv, CgiPosted, hasPosted
  <2> QED  BY <2>2, <2>4, <2>5 DEF BodyRead
<1> QED  BY <1>1, FoundInvariant, PTL
=============================================================================
