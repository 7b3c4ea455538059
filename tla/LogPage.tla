------------------------------- MODULE LogPage -------------------------------
(***************************************************************************)
(* The message log and the page that shows it.  Any thread logs, under the *)
(* write lock; the timer thread draws the page without taking the lock, so *)
(* messages arrive between the lines it reads.  A message is its number:   *)
(* the n-th message logged is n.                                           *)
(***************************************************************************)
EXTENDS Naturals, Sequences

CONSTANTS
  LogHistory,   \* entries of the ring
  PageLines,    \* MAX_PAGE_LINES: messages a page shows at most
  MaxMessages   \* bound on the messages of a behaviour

ASSUME LogAssumption ==
  /\ LogHistory \in Nat /\ LogHistory > 1
  /\ PageLines \in Nat \ {0} /\ MaxMessages \in Nat

VARIABLES
  ring,         \* log_history.msg
  head,         \* one beyond the newest message
  tail,         \* the oldest message
  needRefresh,  \* "log page doesn't contain the latest messages"
  writer,       \* where the thread that holds the write lock is
  logged,       \* messages logged so far
  page,         \* where the timer thread is in pktgen_page_log
  cursor,       \* curr_msg
  lines,        \* the lines read so far, newest first
  shown,        \* the page on the screen, oldest first
  \* history
  sampled,      \* messages logged when the page read head
  settled       \* has no call of pktgen_log overlapped the last drawing of the page?

ringVars == <<ring, head, tail, writer, logged>>
pageVars == <<page, cursor, lines, shown, sampled>>
logVars  == <<ringVars, pageVars, needRefresh, settled>>

Entries == 0 .. LogHistory - 1

LogTypeOK ==
  /\ ring \in [Entries -> 0 .. MaxMessages]
  /\ head \in Entries /\ tail \in Entries /\ needRefresh \in BOOLEAN
  /\ writer \in {"unlocked", "stored", "moved", "bumped"}
  /\ logged \in 0 .. MaxMessages
  /\ page \in {"idle", "begin", "read", "print"}
  /\ cursor \in Entries /\ sampled \in 0 .. MaxMessages
  /\ lines \in Seq(0 .. MaxMessages) /\ Len(lines) <= PageLines
  /\ shown \in Seq(0 .. MaxMessages)
  /\ settled \in BOOLEAN

LogInit ==
  /\ ring = [e \in Entries |-> 0] /\ head = 0 /\ tail = 0
  /\ needRefresh = FALSE /\ writer = "unlocked" /\ logged = 0
  /\ page = "idle" /\ cursor = 0 /\ lines = <<>> /\ shown = <<>>
  /\ sampled = 0 /\ settled = TRUE

-----------------------------------------------------------------------------
(* pktgen_log. *)

\* The lock is taken and the message written where head points.
StoreMessage ==
  /\ writer = "unlocked" /\ logged < MaxMessages
  /\ logged' = logged + 1
  /\ ring' = [ring EXCEPT ![head] = logged']
  /\ writer' = "stored" /\ settled' = (settled /\ page = "idle")
  /\ UNCHANGED <<head, tail, needRefresh, pageVars>>

MoveHead ==
  /\ writer = "stored" /\ writer' = "moved"
  /\ head' = (head + 1) % LogHistory
  /\ UNCHANGED <<ring, tail, logged, needRefresh, pageVars, settled>>

\* "tail must move one entry if head has caught up".
NeverBump == UNCHANGED tail                                      \* mutant
BumpTail == tail' = IF head = tail THEN (tail + 1) % LogHistory ELSE tail

MoveTail ==
  /\ writer = "moved" /\ writer' = "bumped"
  /\ BumpTail
  /\ UNCHANGED <<ring, head, logged, needRefresh, pageVars, settled>>

\* The files and the screen are written; the page is told; the lock released.
ForgetRefresh == UNCHANGED needRefresh                           \* mutant
AskRefresh == needRefresh' = TRUE

EndLog ==
  /\ writer = "bumped" /\ writer' = "unlocked"
  /\ AskRefresh
  /\ UNCHANGED <<ring, head, tail, logged, pageVars, settled>>

-----------------------------------------------------------------------------
(* pktgen_page_log, on the timer thread. *)

\* Labels are to be printed (any command may ask for that), or messages came.
BeginPage ==
  /\ page = "idle"
  /\ \E printLabels \in BOOLEAN : printLabels \/ needRefresh
  /\ page' = "begin" /\ settled' = (writer = "unlocked")
  /\ UNCHANGED <<ringVars, needRefresh, cursor, lines, shown, sampled>>

ReadHead ==
  /\ page = "begin" /\ page' = "read"
  /\ cursor' = head /\ lines' = <<>> /\ sampled' = logged
  /\ UNCHANGED <<ringVars, needRefresh, shown, settled>>

\* Backwards from head, until tail or the end of the page; tail is read again
\* each time round.
NewerLine(c) == c                                                \* mutant
OlderLine(c) == (c + LogHistory - 1) % LogHistory

ReadLine ==
  /\ page = "read" /\ cursor # tail /\ Len(lines) < PageLines
  /\ cursor' = OlderLine(cursor)
  /\ lines' = Append(lines, ring[cursor'])
  /\ UNCHANGED <<ringVars, needRefresh, page, shown, sampled, settled>>

PrintPage ==
  /\ page = "read" /\ (cursor = tail \/ Len(lines) = PageLines)
  /\ shown' = [i \in 1 .. Len(lines) |-> lines[Len(lines) + 1 - i]]
  /\ page' = "print"
  /\ UNCHANGED <<ringVars, needRefresh, cursor, lines, sampled, settled>>

\* The request is withdrawn, also one made while the page was being read.
EndPage ==
  /\ page = "print" /\ page' = "idle"
  /\ needRefresh' = FALSE
  /\ UNCHANGED <<ringVars, cursor, lines, shown, sampled, settled>>

LogWriter == StoreMessage \/ MoveHead \/ MoveTail \/ EndLog
LogTimer  == BeginPage \/ ReadHead \/ ReadLine \/ PrintPage \/ EndPage

LogNext == LogWriter \/ LogTimer

LogSpec == LogInit /\ [][LogNext]_logVars

-----------------------------------------------------------------------------
SmallerOf(a, b) == IF a < b THEN a ELSE b

\* The n newest of the messages up to m, oldest first.
Newest(m, n) == [i \in 1 .. SmallerOf(m, n) |-> m - SmallerOf(m, n) + i]

\* The entries from tail up to head.
InRing == LET size == (head + LogHistory - tail) % LogHistory
          IN  [i \in 1 .. size |-> ring[(tail + i - 1) % LogHistory]]

\* Between two calls the ring holds the newest messages, all that fit, in
\* order: the bump of tail loses one message and never two, and none twice.
RingHoldsNewest ==
  writer = "unlocked" => InRing = Newest(logged, LogHistory - 1)

\* A page that was read while no more messages came than the ring has entries
\* to spare shows consecutive messages, oldest first, up to one that was the
\* newest when it began or was just being written.
PageInOrder ==
  page = "print" /\ logged - sampled < LogHistory - PageLines =>
    /\ \A i \in 1 .. Len(shown) - 1 : shown[i + 1] = shown[i] + 1
    /\ Len(shown) > 0 => shown[Len(shown)] \in {sampled - 1, sampled}

\* The page lacks messages with no refresh pending only if they were logged
\* while it was being drawn.
StaleOnlyIfOverlapped ==
  page = "idle" /\ ~needRefresh /\ writer = "unlocked" /\ settled =>
    shown = Newest(logged, SmallerOf(PageLines, LogHistory - 1))
=============================================================================
