--------------------------- MODULE ResponseWriter ---------------------------
(***************************************************************************)
(* From a parsed request to the bytes of its response: do_request() finds  *)
(* the file, process_write() lays out headers and file as two blocks, and  *)
(* write() sends them with writev, which may take a part of them only.     *)
(*                                                                         *)
(* A byte of a response is named by its block and its offset in it.        *)
(***************************************************************************)
EXTENDS HttpParser

CONSTANTS
  Files,      \* the names that exist under root/
  Stat,       \* Stat[f].mode: "file", "unreadable" or "directory";
              \* Stat[f].size: st_size
  HeaderLen,  \* bytes of status line and headers
  ErrorLen    \* bytes of a whole error page

ASSUME WriterAssumption ==
  /\ Stat \in [Files -> [mode : {"file", "unreadable", "directory"}, size : Nat]]
  /\ HeaderLen \in Nat \ {0} /\ ErrorLen \in Nat \ {0}

\* Values of m_file_address: 0, MAP_FAILED for an empty file, or a mapping
Null      == "0"
MapFailed == "MAP_FAILED"
Mapping   == "mapping"

VARIABLES
  m_file_address,
  m_file_stat,     \* its st_size
  mapped,          \* the number of mappings alive
  m_write_idx, m_iv, m_iv_count,
  bytes_to_send, bytes_have_send,
  response,        \* history: the bytes process_write() prepared
  received,        \* history: the bytes the client got of it
  regular          \* history: bytes_have_send was 0 when the response was made,
                   \* and no two calls of writev ended inside its headers

fileVars   == <<m_file_address, m_file_stat, mapped>>
blockVars  == <<m_write_idx, m_iv, m_iv_count, bytes_to_send, bytes_have_send>>
sentVars   == <<response, received, regular>>
writerVars == <<fileVars, blockVars, sentVars>>

-----------------------------------------------------------------------------
(* do_request() *)

\* The buttons of the pages; "/2" and "/3" carry a form.
Target(page) ==
  CASE page = "/0" -> "/register.html"
    [] page = "/1" -> "/log.html"
    [] page = "/5" -> "/picture.html"
    [] page = "/6" -> "/video.html"
    [] page = "/7" -> "/fans.html"
    [] OTHER      -> page
FormPages ==
  [page \in {"/2", "/3"} |-> IF page = "/2" THEN {"/welcome.html", "/logError.html"}
                                          ELSE {"/log.html", "/registerError.html"}]

\* Which of its pages a form leads to is UserTable's matter.
readsForm == cgi = 1 /\ m_url \in DOMAIN FormPages
Pages == IF readsForm THEN FormPages[m_url] ELSE {Target(m_url)}

Exists(f) == f \in Files
Maps(f) == Exists(f) /\ Stat[f].mode = "file"

\* stat, the checks of its result, open and mmap
lookup(f) ==
  /\ ret' = IF ~Exists(f) THEN "NO_RESOURCE" ELSE
            CASE Stat[f].mode = "file"       -> "FILE_REQUEST"
              [] Stat[f].mode = "unreadable" -> "FORBIDDEN_REQUEST"
              [] OTHER                       -> "BAD_REQUEST"
  /\ m_file_stat' = IF Exists(f) THEN Stat[f].size ELSE m_file_stat
  /\ IF Maps(f) /\ Stat[f].size > 0
       THEN m_file_address' = Mapping /\ mapped' = mapped + 1
       ELSE /\ m_file_address' = IF Maps(f) THEN MapFailed ELSE m_file_address
            /\ UNCHANGED mapped

do_request ==
  /\ pc = "do" /\ pc' = "fill"
  /\ \E f \in Pages : lookup(f)
  /\ UNCHANGED <<wire, line_status, m_read_buf, m_read_idx, m_checked_idx, m_start_line,
                 m_check_state, requestVars, m_string, cgi, blockVars, sentVars>>

\* Mutant: write() ends without unmap().
unmapNot == UNCHANGED <<m_file_address, mapped>>
\* munmap fails on MAP_FAILED, and for a length of 0.  Mappings are counted, not their
\* pages: the length is that of the last stat, which may be of another file.
unmap ==
  /\ m_file_address' = Null
  /\ mapped' = IF m_file_address = Mapping /\ m_file_stat > 0 THEN mapped - 1 ELSE mapped

-----------------------------------------------------------------------------
(* process_write() *)

block(iv, i) == [j \in 1..iv[i].iov_len |-> <<i, iv[i].iov_base + j - 1>>]
gather(iv, count) == IF count = 2 THEN block(iv, 0) \o block(iv, 1) ELSE block(iv, 0)
iovec(base, len) == [iov_base |-> base, iov_len |-> len]
blocks(b0, b1) == [i \in 0..1 |-> IF i = 0 THEN b0 ELSE b1]

Filled ==
  /\ response' = gather(m_iv', m_iv_count')
  /\ received' = <<>>
  /\ regular' = (bytes_have_send = 0)
  /\ pc' = "out"
  /\ UNCHANGED <<wire, parserVars, fileVars, bytes_have_send>>

\* Mutant: the count of what is to be sent leaves out the headers.
fileOnly == m_file_stat
headersAndFile == m_write_idx' + m_file_stat

FillFile ==
  /\ pc = "fill" /\ ret = "FILE_REQUEST" /\ m_file_stat # 0
  /\ m_write_idx' = m_write_idx + HeaderLen
  /\ m_iv' = blocks(iovec(0, m_write_idx'), iovec(0, m_file_stat))
  /\ m_iv_count' = 2
  /\ bytes_to_send' = headersAndFile
  /\ Filled

\* bytes_to_send keeps what an earlier response left.
FillError ==
  /\ pc = "fill" /\ ret # "FILE_REQUEST"
  /\ m_write_idx' = m_write_idx + ErrorLen
  /\ m_iv' = [m_iv EXCEPT ![0] = iovec(0, m_write_idx')]
  /\ m_iv_count' = 1
  /\ UNCHANGED bytes_to_send
  /\ Filled

\* The case falls through to default: close_conn().
FillEmpty ==
  /\ pc = "fill" /\ ret = "FILE_REQUEST" /\ m_file_stat = 0
  /\ pc' = "closed"
  /\ UNCHANGED <<wire, parserVars, writerVars>>

-----------------------------------------------------------------------------
(* write().  EAGAIN and the next event change nothing here: the slot stays "out". *)

WriteNothing ==
  /\ pc = "out" /\ bytes_to_send = 0
  /\ init /\ m_write_idx' = 0
  /\ pc' = "in"
  /\ UNCHANGED <<wire, ret, line_status, m_string, cgi, fileVars, m_iv, m_iv_count,
                 bytes_to_send, bytes_have_send, sentVars>>

\* Mutant: m_iv[1] starts where the count of all bytes says.
advancedTooFar(n) ==
  /\ bytes_to_send' = bytes_to_send - n
  /\ bytes_have_send' = bytes_have_send + n
  /\ m_iv' = IF bytes_have_send' >= m_iv[0].iov_len
             THEN blocks([m_iv[0] EXCEPT !.iov_len = 0],
                         iovec(bytes_have_send', bytes_to_send'))
             ELSE [m_iv EXCEPT ![0] = iovec(bytes_have_send', @.iov_len - bytes_have_send')]
\* The bookkeeping after writev has taken n bytes
advanced(n) ==
  /\ bytes_to_send' = bytes_to_send - n
  /\ bytes_have_send' = bytes_have_send + n
  /\ m_iv' = IF bytes_have_send' >= m_iv[0].iov_len
             THEN blocks([m_iv[0] EXCEPT !.iov_len = 0],
                         iovec(bytes_have_send' - m_write_idx, bytes_to_send'))
             ELSE [m_iv EXCEPT ![0] = iovec(bytes_have_send', @.iov_len - bytes_have_send')]

writev(n) ==
  /\ pc = "out" /\ bytes_to_send # 0
  /\ received' = received \o SubSeq(gather(m_iv, m_iv_count), 1, n)
  /\ regular' = (regular /\ (bytes_have_send = 0 \/ bytes_have_send + n >= m_write_idx))
  /\ advanced(n)
  /\ UNCHANGED <<wire, ret, line_status, m_string, cgi, m_file_stat, m_iv_count, response>>

Amounts == 1 .. Len(gather(m_iv, m_iv_count))

WriteSome ==
  /\ \E n \in Amounts : writev(n)
  /\ bytes_to_send' > 0
  /\ UNCHANGED <<pc, m_read_buf, m_read_idx, m_checked_idx, m_start_line,
                 m_check_state, requestVars, m_file_address, mapped, m_write_idx>>

WriteKeeps ==
  /\ m_linger
  /\ \E n \in Amounts : writev(n)
  /\ bytes_to_send' <= 0
  /\ unmap
  /\ init /\ m_write_idx' = 0
  /\ pc' = "in"

\* write() is false: main() closes the connection.
WriteCloses ==
  /\ ~m_linger
  /\ \E n \in Amounts : writev(n)
  /\ bytes_to_send' <= 0
  /\ unmap
  /\ pc' = "closed"
  /\ UNCHANGED <<m_read_buf, m_read_idx, m_checked_idx, m_start_line, m_check_state,
                 requestVars, m_write_idx>>

\* writev fails: the client is gone.
WriteFails ==
  /\ pc = "out" /\ bytes_to_send # 0
  /\ unmap
  /\ pc' = "closed"
  /\ UNCHANGED <<wire, parserVars, m_file_stat, blockVars, sentVars>>

\* Nothing is left in the blocks, and bytes_to_send is still positive.
WriteSpins ==
  /\ pc = "out" /\ bytes_to_send > 0 /\ Amounts = {}
  /\ pc' = "spin"
  /\ UNCHANGED <<wire, parserVars, writerVars>>

-----------------------------------------------------------------------------
Writer ==
  \/ do_request \/ FillFile \/ FillError \/ FillEmpty
  \/ WriteNothing \/ WriteSome \/ WriteKeeps \/ WriteCloses \/ WriteFails \/ WriteSpins

InitWriter ==
  /\ m_file_address = Null /\ m_file_stat = 0 /\ mapped = 0
  /\ m_write_idx = 0 /\ m_iv = blocks(iovec(0, 0), iovec(0, 0)) /\ m_iv_count = 0
  /\ bytes_to_send = 0 /\ bytes_have_send = 0
  /\ response = <<>> /\ received = <<>> /\ regular = TRUE
=============================================================================
