------------------------------- MODULE StreamRecv -------------------------------
(***************************************************************************)
(* stream.rs, the receive half of a stream: the buffers MsQuic lends it,   *)
(* the reads that hand them to the application, and the accounting that    *)
(* gives them back in order (register_read_complete).                      *)
(*                                                                         *)
(* Bytes are their offsets in the stream.  A buffer is what one RECEIVE    *)
(* event indicated; recv_buffers is kept as a set, its order being that of *)
(* the offsets, and the cursor of its first buffer as the number of bytes  *)
(* the application was given.  A stream reaches the application when its   *)
(* start is over, so recv_state Start is never read, and a stream that is  *)
(* Closed for reading answers every read with an error.  MsQuic is in its  *)
(* multi-receive mode; in the other it raises fewer of the same events.    *)
(***************************************************************************)
EXTENDS Integers, FiniteSets

CONSTANTS Tasks,    \* the tasks that read
          MaxTotal, \* bound on the bytes of the stream
          MaxLen    \* bound on one indication and on one read

ASSUME StreamRecvAssumption ==
  /\ MaxTotal \in Nat
  /\ MaxLen \in Nat

VARIABLES
  recvState,  \* StreamInnerExclusive::recv_state
  queue,      \* ::recv_buffers
  done,       \* ::read_complete_map, the bytes of its ranges
  cursor,     \* ::read_complete_cursor
  recvError,  \* ::recv_error_code is set
  cancelled,  \* ::cancelled_on_loss
  connError,  \* ::conn_error is set
  waiters,    \* ::read_waiters
  held,       \* buffers out of the queue and not dropped: chunks the application
              \* has, and buffers that a poll_read is about to drop
  read,       \* how many bytes the application was given
  aborted,    \* the application aborted reading
  eof,        \* a read reported the end of the stream
  op,         \* what each task awaits
  woken,      \* its waker was called since its last poll
  closed,     \* the StreamInstance is dropped and StreamClose was called
  total,      \* MsQuic: how many bytes it indicated ...
  fin,        \* ... that it indicated the end of the stream
  base,       \* ... how many bytes it was told are complete
  drained,    \* ... that it was told so of the whole stream
  native      \* ... which events it may still raise

accounting == <<queue, done, cursor, held, read, total, fin, base, drained>>
tasks == <<waiters, op, woken>>
flags == <<recvError, cancelled, connError>>
vars == <<recvState, accounting, flags, tasks, aborted, eof, closed, native>>

Buffer == [off : Nat, end : Nat, fin : BOOLEAN]
Bytes(b) == b.off .. (b.end - 1)

Init ==
  /\ recvState = "StartComplete"
  /\ queue = {} /\ held = {} /\ done = {}
  /\ cursor = 0 /\ read = 0 /\ total = 0 /\ base = 0
  /\ fin = FALSE /\ drained = FALSE
  /\ recvError = FALSE /\ cancelled = FALSE /\ connError = FALSE
  /\ waiters = {}
  /\ op = [t \in Tasks |-> "none"]
  /\ woken = [t \in Tasks |-> FALSE]
  /\ aborted = FALSE /\ eof = FALSE /\ closed = FALSE
  /\ native = "live"
--------------------------------------------------------------------------------
(* Completing receives *)

\* The end of the first range of d if that range starts at 0, and 0 if not.
IsPrefixEnd(n, d) == n \notin d /\ 0 .. (n - 1) \subseteq d

\* Mutant of EmptyFin: a call of length 0 is never made.
EmptyFinIgnored(b) == FALSE

EmptyFin(b) == b.off = b.end /\ b.fin

\* StreamReceiveComplete(n): MsQuic reclaims the next n bytes, and is done with
\* the stream when it reclaimed all of a stream whose end it indicated.
ReceiveComplete(n) ==
  /\ base' = base + n
  /\ drained' = (drained \/ (fin /\ base + n = total))

\* register_read_complete for each buffer of bs, and the call to MsQuic it asks
\* for, if calls are allowed.  A call of length 0 acknowledges an empty FIN.
Register(bs, mayCall) ==
  LET grown == done \cup UNION {Bytes(b) : b \in bs}
  IN \E n \in 0..total :
       /\ IsPrefixEnd(n, grown)
       /\ done' = grown
       /\ cursor' = n
       /\ IF mayCall /\ \/ n > cursor
                        \/ \E b \in bs : EmptyFin(b) /\ (b.off = n \/ grown = {})
          THEN ReceiveComplete(n - cursor)
          ELSE UNCHANGED <<base, drained>>

\* Drop for StreamRecvBuffer: StreamInstance::read_complete, under the lock.
Drop(b) ==
  /\ b \in held
  /\ held' = held \ {b}
  /\ Register({b}, TRUE)
  /\ UNCHANGED <<recvState, queue, read, total, fin, flags, tasks, aborted, eof,
                 closed, native>>

--------------------------------------------------------------------------------
(* The application *)

MayRead(t) == ~ closed /\ op[t] \in {"none", "read"}

\* What takes &mut self is called while nobody reads in another task;
\* poll_read_chunk alone can be shared.
Alone(t) == \A u \in Tasks \ {t} : op[u] = "none"

Return(t) ==
  /\ op' = [op EXCEPT ![t] = "none"]
  /\ woken' = [woken EXCEPT ![t] = FALSE]
  /\ UNCHANGED waiters

Park(t) ==
  /\ op' = [op EXCEPT ![t] = "read"]
  /\ woken' = [woken EXCEPT ![t] = FALSE]
  /\ waiters' = waiters \cup {t}

TakeOut(bs) ==
  /\ queue' = queue \ bs
  /\ held' = held \cup bs

\* poll_read and poll_read_buf into room for k bytes.  A buffer leaves the queue
\* only when a byte is wanted and it has none left.
PollRead(t, k) ==
  /\ MayRead(t) /\ Alone(t) /\ recvState = "StartComplete"
  /\ \/ /\ read + k <= total
        /\ read' = read + k
        /\ TakeOut({b \in queue : b.end < read + k})
        /\ Return(t)
        /\ UNCHANGED <<recvState, eof>>
     \/ /\ read + k > total
        /\ read' = total
        /\ TakeOut(queue)
        /\ \/ /\ \E b \in queue : b.fin
              /\ recvState' = "Shutdown"
              /\ eof' = (eof \/ read = total)
              /\ Return(t)
           \/ /\ \A b \in queue : ~ b.fin
              /\ IF read < total THEN Return(t) ELSE Park(t)
              /\ UNCHANGED <<recvState, eof>>
  /\ UNCHANGED <<done, cursor, total, fin, base, drained, flags, aborted, closed, native>>

\* poll_read_chunk: the first buffer, with what is left in it.
PollReadChunk(t) ==
  /\ MayRead(t) /\ recvState = "StartComplete"
  /\ \/ \E b \in queue :
          /\ \A c \in queue : b.off <= c.off
          /\ read' = b.end
          /\ TakeOut({b})
          /\ recvState' = IF b.fin THEN "Shutdown" ELSE recvState
          /\ Return(t)
     \/ queue = {} /\ Park(t) /\ UNCHANGED <<recvState, queue, held, read>>
  /\ UNCHANGED <<done, cursor, total, fin, base, drained, flags, aborted, eof, closed, native>>

\* A read after the end, a reset, an abort or the loss of the connection.
PollReadEnded(t) ==
  /\ MayRead(t)
  /\ \/ recvState = "Shutdown" /\ eof' = TRUE
     \/ /\ recvState = "ShutdownComplete"
        /\ eof' = (eof \/ ~ (connError \/ cancelled \/ recvError))
  /\ Return(t)
  /\ UNCHANGED <<recvState, accounting, flags, aborted, closed, native>>

Cancel(t) ==
  /\ op[t] = "read"
  /\ Return(t)
  /\ UNCHANGED <<recvState, accounting, flags, aborted, eof, closed, native>>

Wake ==
  /\ waiters' = {}
  /\ woken' = [t \in Tasks |-> woken[t] \/ (op[t] = "read" /\ t \in waiters)]
  /\ UNCHANGED op

\* Nobody reads in the meantime, so it does not matter that poll_abort_read
\* wakes the readers and abort_read does not.
BeginAbort ==
  /\ ~ closed /\ \A t \in Tasks : op[t] = "none"
  /\ recvState = "StartComplete"
  /\ recvState' = "ShutdownComplete"
  /\ aborted' = TRUE
  /\ UNCHANGED <<accounting, flags, eof, closed, native>>

PollAbortRead == BeginAbort /\ Wake
AbortRead == BeginAbort /\ UNCHANGED tasks

\* The last Arc of the StreamInstance goes: nobody reads and no chunk is held.
Close ==
  /\ ~ closed /\ held = {} /\ \A t \in Tasks : op[t] = "none"
  /\ closed' = TRUE
  /\ UNCHANGED <<recvState, accounting, flags, tasks, aborted, eof, native>>

--------------------------------------------------------------------------------
(* Event handlers *)

\* Empty only if it carries the end of the stream.
HandleReceive(len, last) ==
  /\ native = "live" /\ ~ closed /\ ~ fin
  /\ total + len <= MaxTotal /\ (len = 0 => last)
  /\ queue' = queue \cup {[off |-> total, end |-> total + len, fin |-> last]}
  /\ total' = total + len
  /\ fin' = last
  /\ Wake
  /\ UNCHANGED <<recvState, done, cursor, held, read, base, drained, flags, aborted,
                 eof, closed, native>>

HandlePeerSendShutdown ==
  /\ native = "live" /\ ~ closed /\ drained
  /\ native' = "recvClosed"
  /\ recvState' = "ShutdownComplete"
  /\ Wake
  /\ UNCHANGED <<accounting, flags, aborted, eof, closed>>

\* Mutant of HandlePeerSendAborted: the readers are not woken.
HandlePeerSendAbortedSilent ==
  /\ native = "live" /\ ~ closed
  /\ native' = "recvClosed"
  /\ recvState' = "ShutdownComplete"
  /\ recvError' = TRUE
  /\ UNCHANGED <<accounting, cancelled, connError, tasks, aborted, eof, closed>>

HandlePeerSendAborted ==
  /\ native = "live" /\ ~ closed
  /\ native' = "recvClosed"
  /\ recvState' = "ShutdownComplete"
  /\ recvError' = TRUE
  /\ Wake
  /\ UNCHANGED <<accounting, cancelled, connError, aborted, eof, closed>>

\* Mutant of HandleCancelOnLoss: nothing is recorded.
HandleCancelOnLossUnrecorded ==
  /\ native \in {"live", "recvClosed"} /\ ~ closed
  /\ native' = "recvClosed"
  /\ UNCHANGED <<recvState, accounting, flags, tasks, aborted, eof, closed>>

\* Data sent with CANCEL_ON_LOSS was lost; MsQuic aborts both directions next.
HandleCancelOnLoss ==
  /\ native \in {"live", "recvClosed"} /\ ~ closed
  /\ native' = "recvClosed"
  /\ cancelled' = TRUE
  /\ UNCHANGED <<recvState, accounting, recvError, connError, tasks, aborted, eof, closed>>

\* The abort that the application asked for takes effect.
FinishAbort ==
  /\ native = "live" /\ aborted /\ ~ closed
  /\ native' = "recvClosed"
  /\ UNCHANGED <<recvState, accounting, flags, tasks, aborted, eof, closed>>

\* Mutants of HandleShutdownComplete: all that was received is completed, what
\* the application holds included; MsQuic is called although it is closing.
HandleShutdownBlind(connectionShutdown) ==
  /\ native = "recvClosed" \/ (native = "live" /\ (connectionShutdown \/ closed))
  /\ native' = "done"
  /\ cursor' = total
  /\ IF closed THEN UNCHANGED <<base, drained>> ELSE ReceiveComplete(total - cursor)
  /\ queue' = {}
  /\ recvState' = "ShutdownComplete"
  /\ connError' = connectionShutdown
  /\ Wake
  /\ UNCHANGED <<done, held, read, total, fin, recvError, cancelled, aborted, eof, closed>>

HandleShutdownCalling(connectionShutdown) ==
  /\ native = "recvClosed" \/ (native = "live" /\ (connectionShutdown \/ closed))
  /\ native' = "done"
  /\ Register(queue, TRUE)
  /\ queue' = {}
  /\ recvState' = "ShutdownComplete"
  /\ connError' = connectionShutdown
  /\ Wake
  /\ UNCHANGED <<held, read, total, fin, recvError, cancelled, aborted, eof, closed>>

\* The buffers nobody was given go through the same accounting.
HandleShutdownComplete(connectionShutdown) ==
  /\ native = "recvClosed" \/ (native = "live" /\ (connectionShutdown \/ closed))
  /\ native' = "done"
  /\ Register(queue, ~ closed)
  /\ queue' = {}
  /\ recvState' = "ShutdownComplete"
  /\ connError' = connectionShutdown
  /\ Wake
  /\ UNCHANGED <<held, read, total, fin, recvError, cancelled, aborted, eof, closed>>

--------------------------------------------------------------------------------
Next ==
  \/ \E b \in held : Drop(b)
  \/ \E t \in Tasks :
       \/ \E k \in 1..MaxLen : PollRead(t, k)
       \/ PollReadChunk(t)
       \/ PollReadEnded(t)
       \/ Cancel(t)
  \/ PollAbortRead
  \/ AbortRead
  \/ Close
  \/ \E len \in 0..MaxLen : \E last \in BOOLEAN : HandleReceive(len, last)
  \/ HandlePeerSendShutdown
  \/ HandlePeerSendAborted
  \/ HandleCancelOnLoss
  \/ FinishAbort
  \/ \E c \in BOOLEAN : HandleShutdownComplete(c)

Spec == Init /\ [][Next]_vars

--------------------------------------------------------------------------------
(* Properties *)

TypeOK ==
  /\ recvState \in {"StartComplete", "Shutdown", "ShutdownComplete"}
  /\ queue \subseteq Buffer /\ held \subseteq Buffer
  /\ done \subseteq 0 .. (MaxTotal - 1)
  /\ cursor \in Nat /\ read \in Nat /\ total \in Nat /\ base \in Nat
  /\ fin \in BOOLEAN /\ drained \in BOOLEAN
  /\ recvError \in BOOLEAN /\ cancelled \in BOOLEAN /\ connError \in BOOLEAN
  /\ waiters \subseteq Tasks
  /\ op \in [Tasks -> {"none", "read"}]
  /\ woken \in [Tasks -> BOOLEAN]
  /\ aborted \in BOOLEAN /\ eof \in BOOLEAN /\ closed \in BOOLEAN
  /\ native \in {"live", "recvClosed", "done"}

Outstanding == queue \cup held

\* The use-after-free that stream.rs:1187-1196 and :1470-1477 speak of: MsQuic
\* is never told that a byte is complete while a buffer that the application
\* can still read, or may still be given, points at it, whatever the order in
\* which chunks are dropped and whenever the stream shuts down.
NoUseAfterFree ==
  \A b \in Outstanding : \A n \in Bytes(b) : base <= n

\* Nothing stays with MsQuic for ever: when no buffer is outstanding, every
\* byte it indicated was completed, and so was the end of the stream, even an
\* empty one (register_read_complete's calls of length 0).  Without this the
\* peer's flow control window closes, or PEER_SEND_SHUTDOWN never comes.
AllReclaimed ==
  (Outstanding = {} /\ ~ closed) => base = total /\ (fin => drained)

\* stream.rs:1174-1178 and :1557-1562: a read reports the end of the stream
\* only if the application was given all of it, or gave up reading itself; a
\* teardown, a reset or a lost connection never looks like the end.
NoFalseEof == eof => aborted \/ (fin /\ read = total)

\* A parked reader has its waker on the list, has nothing to read and does not
\* know of an end of the stream.
NoLostWakeup ==
  \A t \in Tasks : (op[t] = "read" /\ ~ woken[t]) =>
    t \in waiters /\ recvState = "StartComplete" /\ queue = {}

\* Once StreamClose began MsQuic is not called for this stream (stream.rs:1494).
NoCallWhileClosing == [][closed => UNCHANGED <<base, drained>>]_vars

Stream == INSTANCE ByteStream
  WITH arrived <- total, complete <- fin, given <- read, ended <- eof,
       abandoned <- aborted, inUse <- UNION {Bytes(b) : b \in Outstanding},
       returned <- base

\* Under every interleaving of reads, chunk drops, aborts and events the receive
\* half is a byte stream: bytes are given once and in order and never after an
\* abort, the end is told once everything was given, and MsQuic gets its memory
\* back in order when neither recv_buffers nor the application can reach it.
ImplementsByteStream == Stream!StreamSpec
================================================================================
