-------------------------------- MODULE H3Recv --------------------------------
(***************************************************************************)
(* h3-msquic-async, RecvStream: h3 reads a stream through a future that    *)
(* owns the stream while a read is pending, and takes the bytes out of the *)
(* buffers it is handed.                                                   *)
(*                                                                         *)
(* Below it is the byte stream that StreamRecv implements, read by         *)
(* poll_read_chunk alone; how far a chunk goes is the transport's choice.  *)
(* h3 (external) polls, consumes, stops and asks for the id at any time.   *)
(***************************************************************************)
EXTENDS ByteStream, RecvBuffer

CONSTANTS MaxBytes,     \* bound on the bytes of the stream
          MaxFragments, \* bound on the fragments of a chunk
          MaxChunks     \* bound on the chunks h3 keeps

ASSUME H3RecvAssumption ==
  MaxBytes \in Nat /\ MaxFragments \in Nat /\ MaxChunks \in Nat

VARIABLES
  finTaken, \* the stream: the chunk with its end was read
  broken,   \* the stream: it was reset, or its connection lost
  stream,   \* RecvStream::stream is Some
  reading,  \* ::read_chunk_fut is pending
  chunks,   \* the buffers h3 holds
  pos,      \* the next byte h3 is to consume
  handed,   \* how many bytes were handed to h3 in chunks
  end,      \* h3 was told of the end
  panicked

adapterVars == <<stream, reading, handed, end>>
vars == <<streamVars, finTaken, broken, adapterVars, chunks, pos, panicked>>

Init ==
  /\ StreamInit
  /\ finTaken = FALSE /\ broken = FALSE
  /\ stream = TRUE /\ reading = FALSE
  /\ chunks = << >> /\ pos = 0 /\ handed = 0
  /\ end = FALSE /\ panicked = FALSE
--------------------------------------------------------------------------------
(* The stream *)

Receive ==
  /\ arrived' \in arrived .. MaxBytes
  /\ Arrive
  /\ arrived' = arrived => complete'
  /\ UNCHANGED <<finTaken, broken, adapterVars, chunks, pos, panicked>>

Break ==
  /\ ~ broken /\ broken' = TRUE
  /\ UNCHANGED <<streamVars, finTaken, adapterVars, chunks, pos, panicked>>

Fragments(n) ==
  {f \in UNION {[1..m -> 1..n] : m \in 0..MaxFragments} : Total(f) = n}
    \cup (IF n = 0 THEN {<<0>>} ELSE {})

\* poll_read_chunk finds a chunk: data, the end, or both.
ReadsChunk(n, last) ==
  /\ ~ broken /\ ~ abandoned /\ ~ finTaken
  /\ given' = n /\ Read /\ ended' = ended
  /\ last => complete /\ n = arrived
  /\ n = given => last
  /\ finTaken' = last

ReadsEnd ==
  /\ ~ broken /\ (finTaken \/ abandoned)
  /\ ended' = TRUE /\ Read /\ given' = given
  /\ UNCHANGED finTaken

ReadsError == broken /\ UNCHANGED <<streamVars, finTaken>>

ReadPends ==
  /\ ~ broken /\ ~ abandoned /\ ~ finTaken
  /\ ~ complete /\ given = arrived
  /\ UNCHANGED <<streamVars, finTaken>>

--------------------------------------------------------------------------------
(* RecvStream *)

\* Mutant of Hidden: a chunk that ends the stream is taken for the end.
HiddenIfLast(b) == IsEmpty(b) \/ b.fin

\* The filter of poll_data: an end that carries nothing is no chunk to h3.
Hidden(b) == IsEmpty(b) /\ b.fin

\* Mutant of Restore: on an error the stream stays with the future that is over.
RestoreUnlessError(failed) == stream' = ~ failed /\ reading' = FALSE

\* The future is ready, and gives the stream back whatever the result.
Restore(failed) == stream' = TRUE /\ reading' = FALSE

\* The stream moves into the future, if it is not there already, and is read.
PollData ==
  /\ ~ panicked /\ Len(chunks) < MaxChunks /\ (stream \/ reading)
  /\ \/ /\ \E n \in given .. arrived : \E last \in BOOLEAN : ReadsChunk(n, last)
        /\ Restore(FALSE)
        /\ \E f \in Fragments(given' - given) :
             LET b == NewBuffer(given, f, finTaken') IN
             IF Hidden(b)
             THEN end' = TRUE /\ UNCHANGED <<chunks, handed>>
             ELSE chunks' = Append(chunks, b) /\ handed' = handed + b.len /\ UNCHANGED end
     \/ ReadsEnd /\ Restore(FALSE) /\ end' = TRUE /\ UNCHANGED <<chunks, handed>>
     \/ ReadsError /\ Restore(TRUE) /\ UNCHANGED <<chunks, handed, end>>
     \/ ReadPends /\ stream' = FALSE /\ reading' = TRUE /\ UNCHANGED <<chunks, handed, end>>
  /\ UNCHANGED <<broken, pos, panicked>>

\* stop_sending and recv_id unwrap the stream.
Panic ==
  /\ ~ panicked /\ ~ stream
  /\ panicked' = TRUE
  /\ UNCHANGED <<streamVars, finTaken, broken, adapterVars, chunks, pos>>

\* The error of an abort_read that comes too late is ignored.
StopSending ==
  /\ ~ panicked /\ stream
  /\ IF ~ broken /\ ~ finTaken /\ ~ abandoned THEN Abandon ELSE UNCHANGED streamVars
  /\ UNCHANGED <<finTaken, broken, adapterVars, chunks, pos, panicked>>

--------------------------------------------------------------------------------
(* h3 *)

\* The front chunk is put back at b, or dropped when it is used up.
Consume(b, k) ==
  /\ pos' = pos + k
  /\ IF Remaining(b) > 0
     THEN chunks' = [chunks EXCEPT ![1] = b] /\ UNCHANGED streamVars
     ELSE /\ chunks' = Tail(chunks)
          /\ inUse' = inUse \ (b.off .. (b.off + b.len - 1))
          /\ \E r \in returned .. arrived : returned' = r
          /\ Release
  /\ UNCHANGED <<finTaken, broken, adapterVars, panicked>>

ConsumeByAdvance(k) ==
  /\ chunks # << >> /\ k <= Remaining(chunks[1])
  /\ Consume(Advance(chunks[1], k), k)

ConsumeByGetBytes(k) ==
  /\ chunks # << >> /\ SliceUpTo(chunks[1], k) > 0
  /\ Consume(GetBytes(chunks[1], k), SliceUpTo(chunks[1], k))

Next ==
  \/ Receive
  \/ Break
  \/ PollData
  \/ Panic
  \/ StopSending
  \/ \E k \in 1..MaxBytes : ConsumeByAdvance(k) \/ ConsumeByGetBytes(k)

Spec == Init /\ [][Next]_vars

--------------------------------------------------------------------------------
(* Properties *)

\* Whatever mix of advance and get_bytes_upto_size moved it across its fragments
\* (buffer.rs:102-162), a chunk shows the byte that comes next, its pieces make
\* up what remains of it, it shows nothing only when nothing remains, and the
\* next chunk continues where it ends.
BufferViewsNext ==
  /\ chunks # << >> => At(chunks[1]) = pos
  /\ \A i \in DOMAIN chunks :
       /\ Remaining(chunks[i]) = Total(ChunksVectored(chunks[i], MaxFragments))
       /\ Remaining(chunks[i]) > 0 => Chunk(chunks[i]) > 0
       /\ i > 1 => At(chunks[i]) = chunks[i - 1].off + chunks[i - 1].len

\* h3 is told of the end only when it was handed every byte of the stream, or
\* stopped the stream itself (lib.rs:422): an end without bytes is not handed
\* out as a chunk, and a chunk with bytes is never taken for the end.
EndMeansAll == end => (complete /\ handed = arrived) \/ abandoned

\* poll_data keeps the stream in its future only while the read is pending: a
\* stop_sending or a recv_id panics then (lib.rs:442), and at no other time.
PanicsOnlyOnPendingRead == panicked => reading
================================================================================
