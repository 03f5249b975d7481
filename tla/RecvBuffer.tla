------------------------------ MODULE RecvBuffer ------------------------------
(***************************************************************************)
(* buffer.rs, StreamRecvBuffer: a view of what one RECEIVE event lent, a   *)
(* list of fragments, with a cursor that the application moves forward.    *)
(* A fragment is its length; only an end of the stream that carries no     *)
(* byte has a fragment of length 0, or none.                               *)
(***************************************************************************)
EXTENDS Integers, Sequences

\* The sums of the first lengths, from none of them to all.
Sums(lengths) ==
  LET sum[i \in 0 .. Len(lengths)] == IF i = 0 THEN 0 ELSE sum[i - 1] + lengths[i]
  IN sum

Total(lengths) == Sums(lengths)[Len(lengths)]
Lesser(m, n) == IF m < n THEN m ELSE n

NewBuffer(off, lengths, last) ==
  [off |-> off, buffers |-> lengths, len |-> Total(lengths),
   cursor |-> 0, inBuffer |-> 0, fin |-> last]

Exhausted(b) == Len(b.buffers) <= b.cursor

\* len(), remaining()
Remaining(b) ==
  IF Exhausted(b) THEN 0
  ELSE b.len - Sums(b.buffers)[b.cursor] - b.inBuffer

IsEmpty(b) == Remaining(b) = 0

\* as_slice_upto_size: how much of the current fragment it shows.
SliceUpTo(b, size) ==
  IF Exhausted(b) THEN 0 ELSE Lesser(b.buffers[b.cursor + 1] - b.inBuffer, size)

Chunk(b) == SliceUpTo(b, Remaining(b))

\* Mutant of GetBytes: the next fragment is entered where this one was left.
GetBytesKeepsPlace(b, size) ==
  LET at == b.inBuffer + SliceUpTo(b, size)
  IN IF Exhausted(b) THEN b
     ELSE IF at >= b.buffers[b.cursor + 1]
          THEN [b EXCEPT !.cursor = @ + 1]
          ELSE [b EXCEPT !.inBuffer = at]

\* get_bytes_upto_size: takes what SliceUpTo shows.
GetBytes(b, size) ==
  LET at == b.inBuffer + SliceUpTo(b, size)
  IN IF Exhausted(b) THEN b
     ELSE IF at >= b.buffers[b.cursor + 1]
          THEN [b EXCEPT !.cursor = @ + 1, !.inBuffer = 0]
          ELSE [b EXCEPT !.inBuffer = at]

\* One round of the loop of advance, for the fragment of length n.
AdvanceOver(s, n) ==
  LET left == n - s.b.inBuffer
  IN IF s.count = 0 THEN s
     ELSE IF s.count < left
          THEN [b |-> [s.b EXCEPT !.inBuffer = @ + s.count], count |-> 0]
          ELSE [b |-> [s.b EXCEPT !.cursor = @ + 1, !.inBuffer = 0], count |-> s.count - left]

\* Buf::advance, which asserts count <= Remaining(b).
Advance(b, count) ==
  LET after[i \in b.cursor .. Len(b.buffers)] ==
        IF i = b.cursor THEN [b |-> b, count |-> count]
        ELSE AdvanceOver(after[i - 1], b.buffers[i])
  IN after[Len(b.buffers)].b

\* chunks_vectored into n slices: the skip is that of the first fragment only.
ChunksVectored(b, n) ==
  LET rest == SubSeq(b.buffers, b.cursor + 1, Len(b.buffers))
  IN [i \in 1 .. Lesser(n, Len(rest)) |-> rest[i] - (IF i = 1 THEN b.inBuffer ELSE 0)]

\* The offset in the stream of the next byte the view shows.
At(b) == b.off + b.len - Remaining(b)
================================================================================
