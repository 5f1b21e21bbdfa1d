---------------------------- MODULE ResponseSlot ----------------------------
(***************************************************************************)
(* What the event loop relies on of a slot, and all that Reactor keeps of  *)
(* its response: whether it has a file, and the sign of bytes_to_send.     *)
(* HttpConn, which has the bytes, implements this.                         *)
(***************************************************************************)
EXTENDS Integers

VARIABLES
  at,          \* "closed", "reading", "writing" or "spin"
  m_iv_count,  \* 2: headers and file, 1: an error page
  sign         \* of bytes_to_send

slotVars == <<at, m_iv_count, sign>>

Init == at = "closed" /\ m_iv_count = 0 /\ sign = 0

Accept == at = "closed" /\ at' = "reading" /\ UNCHANGED <<m_iv_count, sign>>

\* The client, the timer, a failed read() or write(), or an empty file
Close == at \in {"reading", "writing"} /\ at' = "closed" /\ UNCHANGED <<m_iv_count, sign>>

FillFile == at = "reading" /\ at' = "writing" /\ m_iv_count' = 2 /\ sign' = 1

\* The sign an earlier response left stays.
FillError == at = "reading" /\ at' = "writing" /\ m_iv_count' = 1 /\ UNCHANGED sign

WriteNothing == at = "writing" /\ sign = 0 /\ at' = "reading" /\ UNCHANGED <<m_iv_count, sign>>

\* A response with a file ends at zero.  An error page ends there or below, and
\* below if it began below.
Sent ==
  /\ at = "writing" /\ sign # 0
  /\ sign' \in IF m_iv_count = 2 THEN {0} ELSE IF sign = -1 THEN {-1} ELSE {-1, 0}
  /\ at' \in {"reading", "closed"}
  /\ UNCHANGED m_iv_count

\* Only an error page against a count that is too high keeps write() for ever.
Spin == at = "writing" /\ sign = 1 /\ m_iv_count = 1 /\ at' = "spin" /\ UNCHANGED <<m_iv_count, sign>>

Next == Accept \/ Close \/ FillFile \/ FillError \/ WriteNothing \/ Sent \/ Spin

Spec == Init /\ [][Next]_slotVars
=============================================================================
