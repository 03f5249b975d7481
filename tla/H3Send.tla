-------------------------------- MODULE H3Send --------------------------------
(***************************************************************************)
(* h3-msquic-async, SendStream and OpenStreams over StreamSend: h3 hands   *)
(* over data that is written chunk by chunk, through a future that owns    *)
(* the stream until the write is over, while MsQuic's events go on between *)
(* two chunks.                                                             *)
(*                                                                         *)
(* Chunks are numbered in the order in which h3 hands them over; one write *)
(* takes a whole chunk.  h3 (external) does not call send_data or          *)
(* poll_send before poll_ready is through with what it handed over: the    *)
(* adapter answers the first with an internal error, panics on the second. *)
(* OpenOutboundStream is asked not to fail when the limit blocks.          *)
(***************************************************************************)
EXTENDS StreamSend

CONSTANT MaxData  \* bound on the chunks of one send_data

ASSUME H3SendAssumption == MaxData \in Nat

VARIABLES
  stream,   \* SendStream::stream is Some; if not, ::write_fut has it
  writing,  \* ::writing is Some
  rest,     \* ... and the chunks that remain of it
  inReady,  \* h3 is in poll_ready
  accepted, \* how many chunks h3 handed over
  wire      \* the chunks MsQuic took

h3Vars == <<stream, writing, rest, inReady, accepted, wire>>

H3Init ==
  /\ Init
  /\ stream = TRUE
  /\ writing = FALSE /\ rest = << >>
  /\ inReady = FALSE
  /\ accepted = 0 /\ wire = << >>
--------------------------------------------------------------------------------
(* SendStream: what unwraps the stream has it as a guard, see StreamIsThere. *)

Calls == MayUse("none") /\ ~ inReady

SendData(n) ==
  /\ Calls /\ ~ writing
  /\ accepted + n <= MaxWrites
  /\ writing' = TRUE
  /\ rest' = [i \in 1..n |-> accepted + i]
  /\ accepted' = accepted + n
  /\ UNCHANGED <<vars, stream, inReady, wire>>

\* poll_ready with nothing to write is ready at once.
BeginReady ==
  /\ Calls /\ writing
  /\ inReady' = TRUE
  /\ UNCHANGED <<vars, stream, writing, rest, accepted, wire>>

EndReady == inReady' = FALSE

\* Mutant of Fail: what could not be written is given up.
FailForgets == EndReady /\ rest' = Tail(rest) /\ UNCHANGED wire

\* writing stays as it is.
Fail == EndReady /\ UNCHANGED <<rest, wire>>

\* One round of poll_ready: the stream moves into the future, if it is not there
\* already, the chunk is written, and the stream comes back.  Only the write of
\* a stream that is still starting is pending, and keeps it.
WriteChunk ==
  /\ inReady /\ rest # << >>
  /\ \/ /\ PollWrite(FALSE)
        /\ \/ /\ inFlight' # inFlight
              /\ wire' = Append(wire, Head(rest)) /\ rest' = Tail(rest)
              /\ UNCHANGED inReady
           \/ inFlight' = inFlight /\ Fail
     \/ /\ sendState # "StartComplete"
        /\ Fail
        /\ UNCHANGED vars
  /\ stream' = (sendState # "Start")
  /\ UNCHANGED <<writing, accepted>>

Ready ==
  /\ inReady /\ rest = << >>
  /\ writing' = FALSE
  /\ EndReady
  /\ UNCHANGED <<vars, stream, rest, accepted, wire>>

PollFinish ==
  /\ ~ inReady /\ stream
  /\ PollFinishWrite
  /\ UNCHANGED h3Vars

\* reset: an abort_write that comes too late is ignored.
ResetStream ==
  /\ Calls /\ stream
  /\ AbortWrite
  /\ UNCHANGED h3Vars

\* The bytes go to MsQuic at once.
PollSend ==
  /\ Calls /\ ~ writing /\ stream
  /\ PollWrite(FALSE)
  /\ IF inFlight' # inFlight
     THEN accepted' = accepted + 1 /\ wire' = Append(wire, accepted')
     ELSE UNCHANGED <<accepted, wire>>
  /\ UNCHANGED <<stream, writing, rest, inReady>>

--------------------------------------------------------------------------------
\* What goes on below, between any two steps of h3.
Below ==
  \/ Events
  \/ HandlePeerAccepted
  \/ HandlePeerReceiveAborted
  \/ ConnectionCloses

\* poll_open_bidi and poll_open_send, the future of poll_finish or of an open
\* that is dropped, the stream that is dropped.
Around ==
  \/ PollOpen(FALSE)
  \/ Cancel
  \/ Close

H3Next ==
  \/ \E n \in 1..MaxData : SendData(n)
  \/ BeginReady
  \/ WriteChunk
  \/ Ready
  \/ PollFinish
  \/ ResetStream
  \/ PollSend
  \/ Below /\ UNCHANGED h3Vars
  \/ ~ inReady /\ Around /\ UNCHANGED h3Vars

H3Spec == H3Init /\ [][H3Next]_<<vars, h3Vars>>

--------------------------------------------------------------------------------
(* Properties *)

\* MsQuic gets the chunks that h3 handed over in their order, none twice and
\* none skipped, whatever events come between two chunks and whatever send it
\* refuses: what it has and what is still to be written is all of it.
SendsInOrder == wire \o rest = [i \in 1..accepted |-> i]

\* poll_finish, reset, poll_send and send_id find a stream to unwrap
\* (lib.rs:541): one that h3 was given is past its start, in both of its
\* states, so no write of it is left in the future.
StreamIsThere == opened = "ok" => stream
================================================================================
