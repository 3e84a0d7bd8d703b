--------------------------- MODULE AgentTerminals ---------------------------
(***************************************************************************)
(* A terminal of the Agent: one shell on a pseudo-terminal, its replay     *)
(* buffer, and the WebSocket connections of one browser pane.              *)
(*                                                                         *)
(* Nothing is locked.  Handlers run on the event loop or in a pool of      *)
(* threads, and every pump reads the shell in a thread of its own, which   *)
(* outlives the pump's cancellation.  Output is counted in units (what one *)
(* read returns); unit n is the n-th the shell wrote, and a cursor counts  *)
(* the units before it.  The pane keeps one connection at a time and       *)
(* reconnects with the count of what it has received.  A shell that closes *)
(* its own terminal while it lives is not considered.                      *)
(***************************************************************************)
EXTENDS Naturals, Sequences, FiniteSets

CONSTANTS
  Conns,        \* WebSocket connections, each with a connect token of its own
  BufferUnits,  \* replay_buffer_bytes
  MaxUnits      \* bound: units the shell writes

ASSUME TerminalsAssumption ==
  IsFiniteSet(Conns) /\ BufferUnits \in Nat \ {0} /\ MaxUnits \in Nat

VARIABLES
  term,      \* [status, process]: the session; process: its attribute is set
  shell,     \* whether the shell process lives
  written,   \* units the shell has written
  taken,     \* units read from the pseudo-terminal
  buffer,    \* [start, chunks]: ReplayBuffer
  conn,      \* [Conns -> [pc, cursor, ticket]]: the server's handlers
  thread,    \* [Conns -> [pc, unit, out]]: the pumps' reading threads
  net,       \* [Conns -> Seq]: sent to the pane, not received yet
  screen,    \* what the pane has received
  closing,   \* a close() is between its kill and its status
  overlap,   \* history: a replay was made while another connection could read
  cut        \* history: a replay began before the retained range

terminalVars == <<term, shell, written, taken, buffer, conn, thread, net, screen,
                  closing, overlap, cut>>

-----------------------------------------------------------------------------
Units == 1..MaxUnits
NoThread == [pc |-> "none", unit |-> 0, out |-> <<>>]
Gone == {"closed", "exited"}

TerminalsTypeOK ==
  /\ term \in [status: {"running", "purged"} \cup Gone, process: BOOLEAN]
  /\ shell \in BOOLEAN /\ closing \in BOOLEAN
  /\ overlap \in BOOLEAN /\ cut \in BOOLEAN
  /\ written \in 0..MaxUnits /\ taken \in 0..MaxUnits
  /\ buffer \in [start: 0..MaxUnits, chunks: Seq(Units)]
  /\ conn \in [Conns -> [pc: {"new", "accepted", "open", "half", "done"},
                         cursor: 0..MaxUnits,
                         ticket: {"none", "issued", "expired", "consumed"}]]
  /\ thread \in [Conns -> [pc: {"none", "pump", "select", "got", "eof"},
                           unit: 0..MaxUnits, out: Seq(Units)]]
  /\ net \in [Conns -> Seq(Seq(Units))]
  /\ screen \in Seq(Units)

TerminalsInit ==
  /\ term = [status |-> "running", process |-> TRUE]
  /\ shell = TRUE /\ closing = FALSE /\ overlap = FALSE /\ cut = FALSE
  /\ written = 0 /\ taken = 0
  /\ buffer = [start |-> 0, chunks |-> <<>>]
  /\ conn = [c \in Conns |-> [pc |-> "new", cursor |-> 0, ticket |-> "none"]]
  /\ thread = [c \in Conns |-> NoThread]
  /\ net = [c \in Conns |-> <<>>]
  /\ screen = <<>>

-----------------------------------------------------------------------------
(* The replay buffer.                                                      *)

BufferCursor == buffer.start + Len(buffer.chunks)

\* append and _trim: whole chunks go from the front.
Appended(b, unit) ==
  LET all == Append(b.chunks, unit)
      drop == IF Len(all) > BufferUnits THEN Len(all) - BufferUnits ELSE 0
  IN [start |-> b.start + drop, chunks |-> SubSeq(all, drop + 1, Len(all))]

\* Faulty variant: the unit before the cursor is sent again.
ReadFromInclusive(b, cursor) ==
  IF cursor > b.start + Len(b.chunks) THEN <<>>
  ELSE SubSeq(b.chunks, IF cursor > b.start THEN cursor - b.start ELSE 1, Len(b.chunks))

\* read_from
ReadFrom(b, cursor) ==
  IF cursor > b.start + Len(b.chunks) THEN <<>>
  ELSE SubSeq(b.chunks, (IF cursor > b.start THEN cursor - b.start ELSE 0) + 1,
              Len(b.chunks))

-----------------------------------------------------------------------------
(* The session.  Every access goes through get(): it notices an exit, and  *)
(* forgets an ended session whose retention is over.                       *)

MarkedExited == [status |-> "exited", process |-> FALSE]
Polled == IF term.process /\ term.status = "running" /\ ~shell THEN MarkedExited ELSE term
Purged(t) == IF t.status \in Gone THEN {t, [status |-> "purged", process |-> FALSE]} ELSE {t}
Got == Purged(Polled)

\* list, get, history, resize over HTTP.
HttpGet ==
  /\ term.status # "purged"
  /\ term' \in Got
  /\ UNCHANGED <<shell, written, taken, buffer, conn, thread, net, screen, closing,
                 overlap, cut>>

\* connect-token: a ticket, for a session in any state.
IssueTicket(c) ==
  /\ conn[c].pc = "new" /\ conn[c].ticket = "none"
  /\ term' \in Got /\ term'.status # "purged"
  /\ conn' = [conn EXCEPT ![c].ticket = "issued"]
  /\ UNCHANGED <<shell, written, taken, buffer, thread, net, screen, closing, overlap, cut>>

TicketExpires(c) ==
  /\ conn[c].ticket = "issued"
  /\ conn' = [conn EXCEPT ![c].ticket = "expired"]
  /\ UNCHANGED <<term, shell, written, taken, buffer, thread, net, screen, closing,
                 overlap, cut>>

\* Faulty variant: the session is closed and its shell is left to itself.
BeginCloseOnly ==
  /\ ~closing
  /\ term' \in Got /\ term'.status # "purged"
  /\ closing' = TRUE
  /\ UNCHANGED <<shell, written, taken, buffer, conn, thread, net, screen, overlap, cut>>

\* close: the shell is killed, then the fields are set.
BeginClose ==
  /\ ~closing
  /\ term' \in Got /\ term'.status # "purged"
  /\ shell' = (shell /\ ~(term'.process /\ term'.status = "running"))
  /\ closing' = TRUE
  /\ UNCHANGED <<written, taken, buffer, conn, thread, net, screen, overlap, cut>>

EndClose ==
  /\ closing
  /\ closing' = FALSE
  /\ term' = IF term.status = "purged" THEN term
             ELSE [status |-> "closed", process |-> FALSE]
  /\ UNCHANGED <<shell, written, taken, buffer, conn, thread, net, screen, overlap, cut>>

-----------------------------------------------------------------------------
(* Connections.                                                            *)

Attached(c) == conn[c].pc \in {"accepted", "open"}

\* The ticket is consumed before the session is looked at.
Connect(c) ==
  /\ conn[c].pc = "new" /\ \A d \in Conns : ~Attached(d)
  /\ conn[c].ticket # "none"
  /\ \/ /\ conn[c].ticket = "issued"
        /\ term' \in Got
        /\ conn' = [conn EXCEPT ![c] =
             [pc |-> IF term'.status = "running" THEN "accepted" ELSE "done",
              cursor |-> Len(screen), ticket |-> "consumed"]]
     \/ /\ conn[c].ticket # "issued"
        /\ conn' = [conn EXCEPT ![c].pc = "done"]
        /\ UNCHANGED term
  /\ UNCHANGED <<shell, written, taken, buffer, thread, net, screen, closing, overlap, cut>>

\* history is read and sent, and the pump is started; a purged session raises.
Replay(c) ==
  LET out == ReadFrom(buffer, conn[c].cursor) IN
  /\ conn[c].pc = "accepted"
  /\ term' \in Got
  /\ IF term'.status = "purged"
     THEN /\ conn' = [conn EXCEPT ![c].pc = "done"]
          /\ UNCHANGED <<thread, net, overlap, cut>>
     ELSE /\ conn' = [conn EXCEPT ![c].pc = "open"]
          /\ net' = [net EXCEPT ![c] = IF out = <<>> THEN @ ELSE Append(@, out)]
          /\ thread' = [thread EXCEPT ![c] = [NoThread EXCEPT !.pc = "pump"]]
          /\ overlap' = (overlap \/ \E d \in Conns \ {c} : thread[d] # NoThread)
          /\ cut' = (cut \/ conn[c].cursor < buffer.start)
  /\ UNCHANGED <<shell, written, taken, buffer, screen, closing>>

Receive(c) ==
  /\ conn[c].pc = "open" /\ net[c] # <<>>
  /\ screen' = screen \o Head(net[c])
  /\ net' = [net EXCEPT ![c] = Tail(@)]
  /\ UNCHANGED <<term, shell, written, taken, buffer, conn, thread, closing, overlap, cut>>

\* The pane is gone; the server has not noticed.
Disconnect(c) ==
  /\ conn[c].pc = "open"
  /\ conn' = [conn EXCEPT ![c].pc = "half"]
  /\ net' = [net EXCEPT ![c] = <<>>]
  /\ UNCHANGED <<term, shell, written, taken, buffer, thread, screen, closing, overlap, cut>>

\* receive_text raises, or the write of an input to an ended session does: the
\* pump is cancelled, a thread of it goes on.
HandlerEnds(c) ==
  /\ conn[c].pc = "half" \/ (conn[c].pc = "open" /\ term.status # "running")
  /\ conn' = [conn EXCEPT ![c].pc = "done"]
  /\ net' = [net EXCEPT ![c] = <<>>]
  /\ thread' = [thread EXCEPT ![c] = IF @.pc = "pump" THEN NoThread ELSE @]
  /\ UNCHANGED <<term, shell, written, taken, buffer, screen, closing, overlap, cut>>

-----------------------------------------------------------------------------
(* The pump and its thread.                                                *)

\* read_available begins; without a session or a process the pump ends.
BeginRead(c) ==
  /\ thread[c].pc = "pump"
  /\ term' \in Got
  /\ thread' = [thread EXCEPT ![c] =
       IF term'.status # "purged" /\ term'.process THEN [@ EXCEPT !.pc = "select"]
       ELSE NoThread]
  /\ UNCHANGED <<shell, written, taken, buffer, conn, net, screen, closing, overlap, cut>>

\* os.read: a unit, or the end of the shell's output.
ReadUnit(c) ==
  /\ thread[c].pc = "select" /\ term.process
  /\ \/ /\ taken < written
        /\ taken' = taken + 1
        /\ thread' = [thread EXCEPT ![c].pc = "got", ![c].unit = taken + 1]
     \/ /\ taken = written /\ ~shell
        /\ thread' = [thread EXCEPT ![c].pc = "eof"]
        /\ UNCHANGED taken
  /\ UNCHANGED <<term, shell, written, buffer, conn, net, screen, closing, overlap, cut>>

\* The unit goes to the buffer, unless a purge took it; then the loop.
StoreUnit(c) ==
  /\ thread[c].pc = "got" /\ term.status # "purged"
  /\ buffer' = Appended(buffer, thread[c].unit)
  /\ thread' = [thread EXCEPT ![c] =
       [pc |-> "select", unit |-> 0, out |-> Append(@.out, @.unit)]]
  /\ UNCHANGED <<term, shell, written, taken, conn, net, screen, closing, overlap, cut>>

\* What has been read is sent, if the pump is still there; an ended session
\* ends the pump.  (EndRead: select has timed out; a child of a dead shell may
\* hold the terminal open.)
Finish(c, t) ==
  /\ thread' = [thread EXCEPT ![c] =
       IF conn[c].pc \in {"open", "half"} /\ t.status = "running"
       THEN [NoThread EXCEPT !.pc = "pump"] ELSE NoThread]
  /\ net' = [net EXCEPT ![c] =
       IF conn[c].pc = "open" /\ thread[c].out # <<>> THEN Append(@, thread[c].out) ELSE @]

EndRead(c) ==
  /\ thread[c].pc = "select" /\ term.process
  /\ taken = written
  /\ term' \in Got
  /\ Finish(c, term')
  /\ UNCHANGED <<shell, written, taken, buffer, conn, screen, closing, overlap, cut>>

\* _mark_exited, whatever the status has become.
EndOfFile(c) ==
  /\ thread[c].pc = "eof"
  /\ term' \in IF term.status = "purged" THEN {term} ELSE Purged(MarkedExited)
  /\ Finish(c, term')
  /\ UNCHANGED <<shell, written, taken, buffer, conn, screen, closing, overlap, cut>>

\* The process attribute, or the buffer, went away under the thread: the
\* exception ends the pump, and what it had read is not sent.
ReadRaises(c) ==
  /\ \/ thread[c].pc = "select" /\ ~term.process
     \/ thread[c].pc = "got" /\ term.status = "purged"
  /\ thread' = [thread EXCEPT ![c] = NoThread]
  /\ UNCHANGED <<term, shell, written, taken, buffer, conn, net, screen, closing,
                 overlap, cut>>

-----------------------------------------------------------------------------
ShellWrites ==
  /\ shell /\ written < MaxUnits
  /\ written' = written + 1
  /\ UNCHANGED <<term, shell, taken, buffer, conn, thread, net, screen, closing,
                 overlap, cut>>

ShellExits ==
  /\ shell
  /\ shell' = FALSE
  /\ UNCHANGED <<term, written, taken, buffer, conn, thread, net, screen, closing,
                 overlap, cut>>

TerminalsNext ==
  \/ HttpGet
  \/ \E c \in Conns : IssueTicket(c)
  \/ \E c \in Conns : TicketExpires(c)
  \/ BeginClose
  \/ EndClose
  \/ \E c \in Conns : Connect(c)
  \/ \E c \in Conns : Replay(c)
  \/ \E c \in Conns : Receive(c)
  \/ \E c \in Conns : Disconnect(c)
  \/ \E c \in Conns : HandlerEnds(c)
  \/ \E c \in Conns : BeginRead(c)
  \/ \E c \in Conns : ReadUnit(c)
  \/ \E c \in Conns : StoreUnit(c)
  \/ \E c \in Conns : EndRead(c)
  \/ \E c \in Conns : EndOfFile(c)
  \/ \E c \in Conns : ReadRaises(c)
  \/ ShellWrites
  \/ ShellExits

TerminalsSpec == TerminalsInit /\ [][TerminalsNext]_terminalVars

-----------------------------------------------------------------------------
(* Properties.                                                             *)

\* The pane holds the shell's output from its first unit on, each unit once and
\* in order, over any number of reconnections, lost messages and cancelled
\* pumps, as long as every earlier connection had stopped reading when a replay
\* was made and no replay began before the retained range; the buffer then
\* holds an unbroken run that ends with the last unit stored.
ReplayExact ==
  /\ ~overlap /\ ~cut => \A i \in 1..Len(screen) : screen[i] = i
  /\ ~overlap => \A i \in 1..Len(buffer.chunks) : buffer.chunks[i] = buffer.start + i
  /\ Len(buffer.chunks) <= BufferUnits

\* A session that is not shown as running has no shell left behind it, whoever
\* ends it: a close, the pump that reads the end of the output, or a poll.
NoOrphanShell == term.status # "running" => ~shell
=============================================================================
