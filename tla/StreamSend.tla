------------------------------- MODULE StreamSend -------------------------------
(***************************************************************************)
(* stream.rs and OpenOutboundStream: the start of a stream opened locally  *)
(* and the send half of one opened locally or started by the peer, with    *)
(* the write buffers that change hands with MsQuic.                        *)
(*                                                                         *)
(* One task uses the stream: opening it holds it in the future, and every  *)
(* operation of the send half takes &mut self.  It races the events, which *)
(* MsQuic raises for this stream one at a time, and the connection's loss. *)
(* A write is a number, and a buffer is what was put into it since its     *)
(* last reset.  What an operation answers without a change of state is     *)
(* left out, except where a property speaks of the answer.                 *)
(***************************************************************************)
EXTENDS Integers, Sequences, SequencesExt

CONSTANT MaxWrites  \* bound on the writes of a stream

ASSUME StreamSendAssumption == MaxWrites \in Nat

VARIABLES
  state,        \* StreamInnerExclusive::state
  startStatus,  \* ::start_status
  sendState,    \* ::send_state
  sendError,    \* ::send_error_code is set
  cancelled,    \* ::cancelled_on_loss
  connError,    \* ::conn_error is set
  startWaiter,  \* the task is in ::start_waiters
  writeWaiter,  \* the task is in ::write_shutdown_waiters
  pool,         \* ::write_pool
  content,      \* of each WriteBuffer, the writes it holds
  made,         \* how many WriteBuffers were made
  op,           \* what the task awaits
  woken,        \* its waker was called since its last poll
  opened,       \* what OpenOutboundStream resolved to
  finished,     \* poll_finish_write resolved to Ok
  writes,       \* how many writes there were
  aborted,      \* the application aborted the send half
  closed,       \* the StreamInstance is dropped
  conn,         \* the connection is up, closing in MsQuic, or its handler knows
  start,        \* MsQuic: how far the start of the stream is
  send,         \* ... and the send half
  graceful,     \* ... it ended with all of it acknowledged
  inFlight,     \* ... the sends it has not completed
  native        \* ... whether it raises events

buffers == <<pool, content, made, writes, inFlight>>
task == <<startWaiter, writeWaiter, op, woken>>
errors == <<sendError, cancelled, connError>>
answers == <<opened, finished, aborted, closed>>
msquic == <<conn, start, send, graceful, native>>
vars == <<state, startStatus, sendState, buffers, task, errors, answers, msquic>>

\* A stream that was opened, or that the peer started.
Init ==
  /\ state = "Open" /\ startStatus = "none"
  /\ \/ sendState = "Closed" /\ start = "idle" /\ opened = "none"
     \/ sendState = "StartComplete" /\ start = "accepted" /\ opened = "ok"
  /\ sendError = FALSE /\ cancelled = FALSE /\ connError = FALSE
  /\ startWaiter = FALSE /\ writeWaiter = FALSE
  /\ pool = <<>> /\ made = 0 /\ writes = 0 /\ inFlight = {}
  /\ content = [b \in 1..MaxWrites |-> {}]
  /\ op = "none" /\ woken = FALSE
  /\ finished = FALSE /\ aborted = FALSE /\ closed = FALSE
  /\ conn = "up" /\ send = "open" /\ graceful = FALSE
  /\ native = "live"
--------------------------------------------------------------------------------
(* The task *)

Park(o) == op' = o /\ woken' = FALSE

Return ==
  /\ op' = "none" /\ woken' = FALSE
  /\ UNCHANGED <<startWaiter, writeWaiter>>

Resolve(answer) == opened' = answer /\ Return

\* OpenOutboundStream::poll after Stream::open: the connection's state is looked
\* at in every poll, the stream's start begins in the first.
PollOpen(failBlocked) ==
  /\ op \in {"none", "open"} /\ opened = "none" /\ ~ closed
  /\ \/ /\ conn = "lost"
        /\ Resolve("lost")
        /\ UNCHANGED <<state, sendState, start>>
     \/ /\ conn # "lost" /\ state = "Open"
        /\ \/ /\ state' = "Start" /\ sendState' = "Start"
              /\ start' = IF failBlocked THEN "askedOrFail" ELSE "asked"
              /\ Park("open") /\ startWaiter' = TRUE
              /\ UNCHANGED <<writeWaiter, opened>>
           \/ /\ Resolve("other")
              /\ UNCHANGED <<state, sendState, start>>
     \/ /\ conn # "lost" /\ state = "Start"
        /\ Park("open") /\ startWaiter' = TRUE
        /\ UNCHANGED <<writeWaiter, opened, state, sendState, start>>
     \/ /\ conn # "lost" /\ state \in {"StartComplete", "ShutdownComplete"}
        /\ Resolve(IF startStatus = "none" THEN "ok" ELSE startStatus)
        /\ UNCHANGED <<state, sendState, start>>
  /\ UNCHANGED <<startStatus, buffers, errors, finished, aborted, closed, conn, send,
                 graceful, native>>

MayUse(o) == opened = "ok" /\ ~ closed /\ op \in {"none", o}

\* Mutant of Reset: what the buffer holds stays in it.
ResetNothing(b) == content

\* WriteBuffer::reset.
Reset(b) == [content EXCEPT ![b] = {}]

\* poll_write_generic, with and without FIN.  MsQuic takes the buffer, or it
\* refuses the send and the buffer is reclaimed.
PollWrite(fin) ==
  LET reuse == pool # <<>>
      b == IF reuse THEN Last(pool) ELSE made + 1
      w == writes + 1
      rest == IF reuse THEN Front(pool) ELSE pool
  IN /\ MayUse("none") /\ sendState = "StartComplete" /\ w <= MaxWrites
     /\ writes' = w
     /\ made' = IF reuse THEN made ELSE b
     /\ \/ /\ send = "open"
           /\ pool' = rest
           /\ content' = [content EXCEPT ![b] = @ \cup {w}]
           /\ inFlight' = inFlight \cup {[buf |-> b, write |-> w]}
           /\ sendState' = IF fin THEN "Shutdown" ELSE sendState
           /\ send' = IF fin THEN "graceful" ELSE send
        \/ /\ pool' = Append(rest, b)
           /\ content' = Reset(b)
           /\ UNCHANGED <<inFlight, sendState, send>>
     /\ UNCHANGED <<state, startStatus, task, errors, answers, conn, start, graceful,
                    native>>

\* StreamShutdown, which MsQuic queues.
ShutdownSend(how) ==
  /\ sendState' = "Shutdown"
  /\ send' = IF send = "open" \/ (send = "graceful" /\ how = "abort") THEN how ELSE send

\* poll_finish_write.
PollFinishWrite ==
  /\ MayUse("finish")
  /\ \/ /\ sendState = "StartComplete"
        /\ ShutdownSend("graceful")
        /\ Park("finish") /\ writeWaiter' = TRUE
        /\ UNCHANGED <<startWaiter, finished>>
     \/ /\ sendState = "Shutdown"
        /\ Park("finish") /\ writeWaiter' = TRUE
        /\ UNCHANGED <<startWaiter, finished, sendState, send>>
     \/ /\ sendState = "ShutdownComplete"
        /\ finished' = (finished \/ ~ (connError \/ cancelled \/ sendError))
        /\ Return
        /\ UNCHANGED <<sendState, send>>
  /\ UNCHANGED <<state, startStatus, buffers, errors, opened, aborted, closed, conn,
                 start, graceful, native>>

\* poll_abort_write, which after a finish only waits.
PollAbortWrite ==
  /\ MayUse("abort")
  /\ \/ /\ sendState = "StartComplete"
        /\ ShutdownSend("abort")
        /\ aborted' = TRUE
        /\ Park("abort") /\ writeWaiter' = TRUE
        /\ UNCHANGED startWaiter
     \/ /\ sendState = "Shutdown"
        /\ Park("abort") /\ writeWaiter' = TRUE
        /\ UNCHANGED <<startWaiter, sendState, send, aborted>>
     \/ /\ sendState = "ShutdownComplete"
        /\ Return
        /\ UNCHANGED <<sendState, send, aborted>>
  /\ UNCHANGED <<state, startStatus, buffers, errors, opened, finished, closed, conn,
                 start, graceful, native>>

AbortWrite ==
  /\ MayUse("none") /\ sendState = "StartComplete"
  /\ ShutdownSend("abort")
  /\ aborted' = TRUE
  /\ UNCHANGED <<state, startStatus, buffers, task, errors, opened, finished, closed,
                 conn, start, graceful, native>>

\* The future is dropped; the stream goes with that of the open.
Cancel ==
  /\ op # "none"
  /\ closed' = (op = "open")
  /\ Return
  /\ UNCHANGED <<state, startStatus, sendState, buffers, errors, opened, finished,
                 aborted, msquic>>

\* The StreamInstance is dropped: StreamClose.
Close ==
  /\ op = "none" /\ opened # "none" /\ ~ closed
  /\ closed' = TRUE
  /\ UNCHANGED <<state, startStatus, sendState, buffers, task, errors, opened,
                 finished, aborted, msquic>>
--------------------------------------------------------------------------------
(* Event handlers *)

WakeStart ==
  /\ startWaiter' = FALSE
  /\ woken' = (woken \/ (startWaiter /\ op # "none"))
  /\ UNCHANGED <<writeWaiter, op>>

WakeWrite ==
  /\ writeWaiter' = FALSE
  /\ woken' = (woken \/ (writeWaiter /\ op # "none"))
  /\ UNCHANGED <<startWaiter, op>>

\* Mutant of StartComplete: the send half is left starting.
StartCompleteHalf == state' = "StartComplete" /\ UNCHANGED sendState

StartComplete ==
  /\ state' = "StartComplete"
  /\ sendState' = "StartComplete"

\* Mutants of IsReady: the limit is not looked at; every start is a success.
IsReadyBlocked(status, accepted) == status = "ok"
IsReadyAlways(status, accepted) == TRUE

IsReady(status, accepted) == status = "ok" /\ accepted

\* MsQuic's answer to the start: a stream that the limit blocks fails if it was
\* asked to and is started, not accepted, if not; on a connection that is gone
\* it fails.  It may fail for any other reason, too.
StartAnswer(status, accepted) ==
  /\ native = "live" /\ start \in {"asked", "askedOrFail"}
  /\ status = "lost" => conn # "up"
  /\ conn # "up" => status \in {"lost", "other"}
  /\ status = "limit" => start = "askedOrFail"
  /\ (status = "ok" /\ ~ accepted) => start = "asked"
  /\ accepted => status = "ok"
  /\ start' = IF status # "ok" THEN "failed" ELSE IF accepted THEN "accepted" ELSE "blocked"

HandleStartComplete(status, accepted) ==
  /\ StartAnswer(status, accepted)
  /\ startStatus' = status
  /\ IF IsReady(status, accepted) THEN StartComplete ELSE UNCHANGED <<state, sendState>>
  /\ IF accepted \/ status = "limit" THEN WakeStart ELSE UNCHANGED task
  /\ UNCHANGED <<buffers, errors, answers, conn, send, graceful, native>>

HandlePeerAccepted ==
  /\ native = "live" /\ start = "blocked" /\ conn = "up"
  /\ start' = "accepted"
  /\ StartComplete
  /\ WakeStart
  /\ UNCHANGED <<startStatus, buffers, errors, answers, conn, send, graceful, native>>

\* Mutant of HandleSendComplete: the buffer is dropped and pooled.
HandleSendCompleteTwice(s) ==
  /\ native = "live" /\ s \in inFlight
  /\ inFlight' = inFlight \ {s}
  /\ pool' = pool \o <<s.buf, s.buf>>
  /\ content' = Reset(s.buf)
  /\ UNCHANGED <<state, startStatus, sendState, made, writes, task, errors, answers, msquic>>

\* SEND_COMPLETE, cancelled or not, gives the buffer back.
HandleSendComplete(s) ==
  /\ native = "live" /\ s \in inFlight
  /\ inFlight' = inFlight \ {s}
  /\ pool' = Append(pool, s.buf)
  /\ content' = Reset(s.buf)
  /\ UNCHANGED <<state, startStatus, sendState, made, writes, task, errors, answers, msquic>>

HandlePeerReceiveAborted ==
  /\ native = "live" /\ start = "accepted" /\ conn = "up"
  /\ send \in {"open", "graceful"}
  /\ send' = "abort"
  /\ sendState' = "ShutdownComplete"
  /\ sendError' = TRUE
  /\ WakeWrite
  /\ UNCHANGED <<state, startStatus, buffers, cancelled, connError, answers, conn, start,
                 graceful, native>>

\* MsQuic is done with the send half: it is acknowledged to its end, aborted, or
\* lost with the connection, and every send was completed.
SendEnds ==
  /\ native = "live" /\ inFlight = {}
  /\ \/ send \in {"graceful", "abort"} /\ start = "accepted"
     \/ conn # "up" /\ send # "closed" /\ start \in {"accepted", "blocked"}
  /\ send' = "closed"
  /\ graceful' = (send = "graceful" /\ conn = "up")

\* Mutant of HandleSendShutdownComplete: it is left to SHUTDOWN_COMPLETE to wake.
HandleSendShutdownSilent ==
  /\ SendEnds
  /\ sendState' = "ShutdownComplete"
  /\ UNCHANGED <<state, startStatus, buffers, task, errors, answers, conn, start, native>>

HandleSendShutdownComplete ==
  /\ SendEnds
  /\ sendState' = "ShutdownComplete"
  /\ WakeWrite
  /\ UNCHANGED <<state, startStatus, buffers, errors, answers, conn, start, native>>

\* Mutant of HandleCancelOnLoss: nothing is recorded.
HandleCancelUnrecorded ==
  /\ native = "live" /\ conn = "up" /\ writes > 0 /\ send \in {"open", "graceful"}
  /\ send' = "abort"
  /\ UNCHANGED <<state, startStatus, sendState, buffers, task, errors, answers,
                 conn, start, graceful, native>>

HandleCancelOnLoss ==
  /\ native = "live" /\ conn = "up" /\ writes > 0 /\ send \in {"open", "graceful"}
  /\ send' = "abort"
  /\ cancelled' = TRUE
  /\ UNCHANGED <<state, startStatus, sendState, buffers, task, sendError, connError,
                 answers, conn, start, graceful, native>>

\* After a failed start, when both halves ended, or inside StreamClose.
StreamEnds ==
  /\ native = "live" /\ inFlight = {}
  /\ start = "failed" \/ send = "closed" \/ closed
  /\ native' = "done"

\* Mutant of HandleShutdownComplete: who waits for the start is not woken.
HandleShutdownKeepsWaiter ==
  /\ StreamEnds
  /\ state' = "ShutdownComplete" /\ sendState' = "ShutdownComplete"
  /\ connError' = (conn # "up")
  /\ UNCHANGED <<startStatus, buffers, task, sendError, cancelled, answers, conn, start,
                 send, graceful>>

\* write_shutdown_waiters are not woken: the end of the send half came before,
\* unless nobody is left to wait for it.
HandleShutdownComplete ==
  /\ StreamEnds
  /\ state' = "ShutdownComplete" /\ sendState' = "ShutdownComplete"
  /\ connError' = (conn # "up")
  /\ WakeStart
  /\ UNCHANGED <<startStatus, buffers, sendError, cancelled, answers, conn, start,
                 send, graceful>>

\* MsQuic closes the connection; its handler then sets ConnectionState::Shutdown.
ConnectionCloses ==
  /\ conn = "up" /\ conn' = "closing"
  /\ UNCHANGED <<state, startStatus, sendState, buffers, task, errors, answers, start,
                 send, graceful, native>>

ConnectionShutdown ==
  /\ conn = "closing" /\ conn' = "lost"
  /\ UNCHANGED <<state, startStatus, sendState, buffers, task, errors, answers, start,
                 send, graceful, native>>
--------------------------------------------------------------------------------
User ==
  \/ \E failBlocked \in BOOLEAN : PollOpen(failBlocked)
  \/ PollFinishWrite
  \/ PollAbortWrite

Events ==
  \/ \E status \in {"ok", "limit", "lost", "other"} : \E accepted \in BOOLEAN :
       HandleStartComplete(status, accepted)
  \/ \E s \in inFlight : HandleSendComplete(s)
  \/ HandleSendShutdownComplete
  \/ HandleShutdownComplete
  \/ ConnectionShutdown

Next ==
  \/ User
  \/ Events
  \/ \E fin \in BOOLEAN : PollWrite(fin)
  \/ AbortWrite
  \/ Cancel
  \/ Close
  \/ HandlePeerAccepted
  \/ HandlePeerReceiveAborted
  \/ HandleCancelOnLoss
  \/ ConnectionCloses

\* A task that was woken is polled again, and MsQuic raises the events that are
\* due on a connection it closed.
Fairness ==
  /\ WF_vars(woken /\ User)
  /\ WF_vars(conn # "up" /\ Events)

Spec == Init /\ [][Next]_vars /\ Fairness
--------------------------------------------------------------------------------
(* Properties *)

Buffers == 1..MaxWrites

TypeOK ==
  /\ state \in {"Open", "Start", "StartComplete", "ShutdownComplete"}
  /\ startStatus \in {"none", "ok", "limit", "lost", "other"}
  /\ sendState \in {"Closed", "Start", "StartComplete", "Shutdown", "ShutdownComplete"}
  /\ sendError \in BOOLEAN /\ cancelled \in BOOLEAN /\ connError \in BOOLEAN
  /\ startWaiter \in BOOLEAN /\ writeWaiter \in BOOLEAN
  /\ pool \in Seq(Buffers)
  /\ content \in [Buffers -> SUBSET (1..MaxWrites)]
  /\ made \in 0..MaxWrites /\ writes \in 0..MaxWrites
  /\ op \in {"none", "open", "finish", "abort"} /\ woken \in BOOLEAN
  /\ opened \in {"none", "ok", "limit", "lost", "other"}
  /\ finished \in BOOLEAN /\ aborted \in BOOLEAN /\ closed \in BOOLEAN
  /\ conn \in {"up", "closing", "lost"}
  /\ start \in {"idle", "asked", "askedOrFail", "blocked", "accepted", "failed"}
  /\ send \in {"open", "graceful", "abort", "closed"}
  /\ graceful \in BOOLEAN
  /\ inFlight \subseteq [buf : Buffers, write : 1..MaxWrites]
  /\ native \in {"live", "done"}

\* buffer.rs:225-230 and stream.rs:924: each WriteBuffer that was made is in the
\* pool or with MsQuic, once.  In both, it is freed twice; in neither, leaked.
BuffersOwnedOnce ==
  LET away == {s.buf : s \in inFlight}
  IN /\ IsInjective(pool)
     /\ Range(pool) \cap away = {}
     /\ \A s, r \in inFlight : s.buf = r.buf => s = r
     /\ Range(pool) \cup away = 1..made

\* What MsQuic sends is the write it was called for, nothing that an earlier
\* send, completed or refused, left in a recycled buffer.
SendsWhatWasWritten == \A s \in inFlight : content[s.buf] = {s.write}

\* A task that waits is on the list that the event it waits for drains, and
\* that event is still to come (write_shutdown_waiters: stream.rs:1521).
NoLostWakeup ==
  (op # "none" /\ ~ woken) =>
    \/ op = "open" /\ startWaiter /\ state = "Start" /\ native = "live"
    \/ op \in {"finish", "abort"} /\ writeWaiter /\ sendState = "Shutdown"

\* poll_start's expect("conn_error") (stream.rs:162) never panics.
ErrorWhenStartLost ==
  (state \in {"StartComplete", "ShutdownComplete"} /\ startStatus = "lost") => connError

\* A finish that is Ok means the peer has it all, or the application aborted
\* after all; a reset or a send cancelled on loss is an error.  Not so while a
\* connection is closing: SEND_SHUTDOWN_COMPLETE comes before the error does.
NoFalseFinish == finished => graceful \/ aborted \/ conn # "up"

\* A stream that was handed out is one the peer accepts, except when the
\* connection is lost while the stream is blocked: its start_status is Ok.
OpenedIsAccepted == opened = "ok" => start = "accepted" \/ conn # "up"

\* Whatever the task awaits ends once the connection is lost.
LossResolves == \A o \in {"open", "finish", "abort"} :
  (conn # "up" /\ op = o) ~> (op # o)
================================================================================
