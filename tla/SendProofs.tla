------------------------------ MODULE SendProofs ------------------------------
(***************************************************************************)
(* Proofs about StreamSend and the h3 adapter over it, for any number of   *)
(* writes and of chunks.                                                   *)
(*                                                                         *)
(* StreamSend: every write buffer is owned once and holds what its send    *)
(* was called with, no task sleeps on a list that nothing will drain, and  *)
(* an answer that is Ok is true.                                           *)
(*                                                                         *)
(* H3Send: the stream below keeps that invariant under whatever h3 does,   *)
(* chunks reach MsQuic in their order, and the stream is always there.     *)
(***************************************************************************)
EXTENDS H3Send, SequenceTheorems, TLAPS

(* StreamSend: the inductive invariant *)

Away == {s.buf : s \in inFlight}

\* A buffer was made for a write; one that is not in flight was reset.
BuffersReset ==
  /\ made <= writes
  /\ \A b \in Buffers : b \notin Away => content[b] = {}

BufferInv == BuffersReset /\ BuffersOwnedOnce /\ SendsWhatWasWritten

\* What the state says of the start in MsQuic.
StartMatches ==
  /\ state = "ShutdownComplete" <=> native = "done"
  /\ state = "StartComplete" => start = "accepted"
  /\ (start \in {"asked", "askedOrFail", "blocked"} /\ native = "live") => state = "Start"
  /\ (opened = "none" /\ state = "Open") => start = "idle"
  /\ start = "failed" => startStatus \in {"limit", "lost", "other"}
  /\ startStatus = "lost" => conn # "up" /\ start = "failed"

\* What ended, and why.
EndMatches ==
  /\ send = "closed" => /\ sendState = "ShutdownComplete"
                        /\ start = "accepted" \/ (start = "blocked" /\ conn # "up")
  /\ (state = "ShutdownComplete" /\ ~ closed) => start = "failed" \/ send = "closed"
  /\ graceful => send = "closed"
  /\ connError => conn # "up"
  /\ send = "abort" => sendError \/ cancelled \/ aborted
  /\ sendState = "ShutdownComplete" =>
       \/ connError \/ cancelled \/ sendError \/ graceful
       \/ aborted \/ closed \/ conn # "up" \/ start = "failed"

\* The send half is used only on a stream that was handed out and not dropped.
OpenMatches ==
  /\ opened = "ok" =>
       \/ start = "accepted"
       \/ start = "blocked" /\ conn # "up" /\ state = "ShutdownComplete"
  /\ op # "none" => ~ closed
  /\ op \in {"finish", "abort"} => opened = "ok"

ControlInv == /\ StartMatches /\ EndMatches /\ OpenMatches
              /\ ErrorWhenStartLost /\ NoFalseFinish /\ NoLostWakeup

Inv == TypeOK /\ BufferInv /\ ControlInv

--------------------------------------------------------------------------------
(* The pool *)

\* What pop takes from a pool without duplicates, and what it leaves.
LEMMA FrontFacts ==
  ASSUME NEW S, NEW p \in Seq(S), p # <<>>, IsInjective(p)
  PROVE  /\ Front(p) \in Seq(S) /\ IsInjective(Front(p))
         /\ Last(p) \in S /\ Last(p) \in Range(p)
         /\ Range(Front(p)) = Range(p) \ {Last(p)}
<1> DEFINE n == Len(p)
<1>1. n \in Nat /\ n > 0 /\ DOMAIN p = 1..n
  OBVIOUS
<1>2. /\ Front(p) \in Seq(S) /\ DOMAIN Front(p) = 1..(n - 1)
      /\ \A i \in 1..(n - 1) : Front(p)[i] = p[i]
  BY <1>1 DEF Front
<1>3. Last(p) = p[n] /\ n \in DOMAIN p /\ p[n] \in S
  BY <1>1 DEF Last
<1>4. IsInjective(Front(p))
  BY <1>1, <1>2 DEF IsInjective
<1>5. Range(Front(p)) \subseteq Range(p) \ {Last(p)}
  BY <1>1, <1>2, <1>3 DEF IsInjective, Range
<1>6. Range(p) \ {Last(p)} \subseteq Range(Front(p))
  BY <1>1, <1>2, <1>3 DEF Range
<1> QED BY <1>2, <1>3, <1>4, <1>5, <1>6 DEF Range

\* A buffer that is not in the pool can be put there.
LEMMA AppendFacts ==
  ASSUME NEW S, NEW p \in Seq(S), IsInjective(p), NEW x \in S, x \notin Range(p)
  PROVE  /\ Append(p, x) \in Seq(S) /\ IsInjective(Append(p, x))
         /\ Range(Append(p, x)) = Range(p) \cup {x}
<1> DEFINE n == Len(p)
           q == Append(p, x)
<1>1. n \in Nat /\ DOMAIN p = 1..n
  OBVIOUS
<1>2. /\ q \in Seq(S) /\ DOMAIN q = 1..(n + 1)
      /\ q[n + 1] = x /\ \A i \in 1..n : q[i] = p[i]
  OBVIOUS
<1>3. \A i \in 1..n : p[i] # x
  BY <1>1 DEF Range
<1> HIDE DEF q
<1>4. IsInjective(q)
  BY <1>1, <1>2, <1>3 DEF IsInjective
<1>5. Range(q) = Range(p) \cup {x}
  <2>1. Range(q) \subseteq Range(p) \cup {x}
    BY <1>1, <1>2 DEF Range
  <2>2. \A y \in Range(p) : y \in Range(q)
    BY <1>1, <1>2 DEF Range
  <2>3. x \in Range(q)
    BY <1>1, <1>2 DEF Range
  <2> QED BY <2>1, <2>2, <2>3
<1> QED BY <1>2, <1>4, <1>5 DEF q
--------------------------------------------------------------------------------
(* The buffers *)

\* Most steps leave the buffers alone.
LEMMA BuffersKept ==
  ASSUME BufferInv, UNCHANGED buffers
  PROVE  BufferInv'
BY DEF BufferInv, BuffersReset, BuffersOwnedOnce, SendsWhatWasWritten, Away, buffers

\* The buffer that a write takes: it is owned by nobody else, empty, and the pool
\* is left with the others.
LEMMA TakenFacts ==
  ASSUME TypeOK, BufferInv, writes + 1 <= MaxWrites, NEW b, NEW left, NEW m,
         b = IF pool # <<>> THEN Last(pool) ELSE made + 1,
         left = IF pool # <<>> THEN Front(pool) ELSE pool,
         m = IF pool # <<>> THEN made ELSE b
  PROVE  /\ b \in Buffers /\ b \notin Away /\ content[b] = {}
         /\ left \in Seq(Buffers) /\ IsInjective(left) /\ b \notin Range(left)
         /\ Range(left) \cap Away = {}
         /\ Range(left) \cup Away \cup {b} = 1..m
         /\ m \in Nat /\ m <= writes + 1 /\ m <= MaxWrites
<1> USE StreamSendAssumption
<1>1. /\ IsInjective(pool) /\ Range(pool) \cap Away = {}
      /\ Range(pool) \cup Away = 1..made
      /\ made \in Nat /\ writes \in Nat /\ made <= writes /\ pool \in Seq(Buffers)
  BY DEF BufferInv, BuffersOwnedOnce, BuffersReset, Away, TypeOK
<1>2. CASE pool # <<>>
  <2>1. /\ b = Last(pool) /\ left = Front(pool) /\ m = made
    BY <1>2
  <2>2. /\ left \in Seq(Buffers) /\ IsInjective(left)
        /\ b \in Buffers /\ b \in Range(pool)
        /\ Range(left) = Range(pool) \ {b}
    BY <1>1, <1>2, <2>1, FrontFacts
  <2>3. b \notin Away /\ content[b] = {}
    BY <1>1, <2>2 DEF BufferInv, BuffersReset
  <2> QED BY <1>1, <2>1, <2>2, <2>3
<1>3. CASE pool = <<>>
  <2>1. b = made + 1 /\ left = pool /\ m = made + 1
    BY <1>3
  <2>2. b \in Buffers /\ b \notin 1..made
    BY <1>1, <2>1 DEF Buffers
  <2>3. b \notin Away /\ b \notin Range(left)
    BY <1>1, <2>1, <2>2
  <2>4. content[b] = {}
    BY <2>2, <2>3 DEF BufferInv, BuffersReset
  <2>5. 1..m = (1..made) \cup {b}
    BY <1>1, <2>1
  <2> QED BY <1>1, <2>1, <2>2, <2>3, <2>4, <2>5
<1> QED BY <1>2, <1>3

\* MsQuic takes the write, or refuses it and the buffer is pooled again.
LEMMA PollWriteBuffers ==
  ASSUME TypeOK, BufferInv, NEW fin \in BOOLEAN, PollWrite(fin)
  PROVE  /\ BufferInv'
         /\ pool' \in Seq(Buffers) /\ content' \in [Buffers -> SUBSET (1..MaxWrites)]
         /\ made' \in 0..MaxWrites /\ writes' \in 0..MaxWrites
         /\ inFlight' \subseteq [buf : Buffers, write : 1..MaxWrites]
<1> USE StreamSendAssumption
<1> DEFINE b == IF pool # <<>> THEN Last(pool) ELSE made + 1
           left == IF pool # <<>> THEN Front(pool) ELSE pool
           w == writes + 1
<1>1. w <= MaxWrites /\ writes' = w /\ made' = IF pool # <<>> THEN made ELSE b
  BY DEF PollWrite
<1>2. \/ /\ pool' = left
         /\ content' = [content EXCEPT ![b] = @ \cup {w}]
         /\ inFlight' = inFlight \cup {[buf |-> b, write |-> w]}
      \/ /\ pool' = Append(left, b)
         /\ content' = [content EXCEPT ![b] = {}]
         /\ inFlight' = inFlight
  BY DEF PollWrite, Reset
<1>3. /\ b \in Buffers /\ b \notin Away /\ content[b] = {}
      /\ left \in Seq(Buffers) /\ IsInjective(left) /\ b \notin Range(left)
      /\ Range(left) \cap Away = {}
      /\ Range(left) \cup Away \cup {b} = 1..made'
      /\ made' \in Nat /\ made' <= writes + 1 /\ made' <= MaxWrites
  <2>1. writes + 1 <= MaxWrites
    BY <1>1
  <2> HIDE DEF b, left
  <2>2. /\ b = IF pool # <<>> THEN Last(pool) ELSE made + 1
        /\ left = IF pool # <<>> THEN Front(pool) ELSE pool
    BY DEF b, left
  <2> QED BY <1>1, <2>1, <2>2, TakenFacts
<1> HIDE DEF b, left
<1>4. w \in 1..MaxWrites /\ writes' \in 0..MaxWrites /\ made' \in 0..MaxWrites
      /\ made' <= writes'
  <2>1. writes \in Nat /\ writes' = writes + 1 /\ writes + 1 <= MaxWrites
    BY <1>1 DEF TypeOK
  <2>2. MaxWrites \in Nat
    BY StreamSendAssumption
  <2>3. made' \in Nat /\ made' <= writes + 1 /\ made' <= MaxWrites
    BY <1>3
  <2> QED BY <2>1, <2>2, <2>3
<1>5. content \in [Buffers -> SUBSET (1..MaxWrites)]
      /\ inFlight \subseteq [buf : Buffers, write : 1..MaxWrites]
  BY DEF TypeOK
<1>6. CASE /\ pool' = left
           /\ content' = [content EXCEPT ![b] = @ \cup {w}]
           /\ inFlight' = inFlight \cup {[buf |-> b, write |-> w]}
  <2>1. Away' = Away \cup {b}
    <3>1. PICK r : r = [buf |-> b, write |-> w]
      OBVIOUS
    <3>2. r.buf = b /\ inFlight' = inFlight \cup {r}
      BY <1>6, <3>1
    <3> QED BY <3>2 DEF Away
  <2>2. /\ content' \in [Buffers -> SUBSET (1..MaxWrites)] /\ content'[b] = {w}
        /\ \A c \in Buffers : c # b => content'[c] = content[c]
    BY <1>3, <1>4, <1>5, <1>6
  <2>3. \A s \in inFlight : s.buf \in Buffers /\ s.buf # b
    BY <1>3, <1>5 DEF Away
  <2>4. BuffersOwnedOnce'
    <3>1. \A s, r \in inFlight' : s.buf = r.buf => s = r
      BY <1>6, <2>3 DEF BufferInv, BuffersOwnedOnce
    <3>2. /\ IsInjective(pool') /\ Range(pool') \cap Away' = {}
          /\ Range(pool') \cup Away' = 1..made'
      BY <1>3, <1>6, <2>1
    <3> QED BY <3>1, <3>2 DEF BuffersOwnedOnce, Away
  <2>5. SendsWhatWasWritten'
    BY <1>6, <2>2, <2>3 DEF BufferInv, SendsWhatWasWritten
  <2>6. BuffersReset'
    BY <1>4, <2>1, <2>2 DEF BufferInv, BuffersReset
  <2>7. inFlight' \subseteq [buf : Buffers, write : 1..MaxWrites]
    BY <1>3, <1>4, <1>5, <1>6
  <2> QED BY <1>3, <1>4, <1>6, <2>2, <2>4, <2>5, <2>6, <2>7 DEF BufferInv
<1>7. CASE /\ pool' = Append(left, b)
           /\ content' = [content EXCEPT ![b] = {}]
           /\ inFlight' = inFlight
  <2>1. Away' = Away
    BY <1>7 DEF Away
  <2>2. content' = content
    BY <1>3, <1>5, <1>7
  <2>3. /\ pool' \in Seq(Buffers) /\ IsInjective(pool')
        /\ Range(pool') = Range(left) \cup {b}
    BY <1>3, <1>7, AppendFacts
  <2>4. BuffersOwnedOnce'
    <3>1. Range(pool') \cap Away' = {} /\ Range(pool') \cup Away' = 1..made'
      BY <1>3, <2>1, <2>3
    <3>2. \A s, r \in inFlight' : s.buf = r.buf => s = r
      BY <1>7 DEF BufferInv, BuffersOwnedOnce
    <3> QED BY <2>3, <3>1, <3>2 DEF BuffersOwnedOnce, Away
  <2>5. SendsWhatWasWritten' /\ BuffersReset'
    BY <1>4, <1>7, <2>1, <2>2 DEF BufferInv, SendsWhatWasWritten, BuffersReset
  <2> QED BY <1>4, <1>5, <1>7, <2>2, <2>3, <2>4, <2>5 DEF BufferInv
<1> QED BY <1>2, <1>6, <1>7

\* The buffer of a send that is complete is reset and pooled.
LEMMA SendCompleteBuffers ==
  ASSUME TypeOK, BufferInv, NEW s \in inFlight, HandleSendComplete(s)
  PROVE  /\ BufferInv'
         /\ pool' \in Seq(Buffers) /\ content' \in [Buffers -> SUBSET (1..MaxWrites)]
         /\ inFlight' \subseteq [buf : Buffers, write : 1..MaxWrites]
<1>1. /\ inFlight' = inFlight \ {s} /\ pool' = Append(pool, s.buf)
      /\ content' = [content EXCEPT ![s.buf] = {}] /\ made' = made /\ writes' = writes
  BY DEF HandleSendComplete, Reset
<1>2. /\ IsInjective(pool) /\ Range(pool) \cap Away = {}
      /\ \A q, r \in inFlight : q.buf = r.buf => q = r
      /\ Range(pool) \cup Away = 1..made
      /\ s.buf \in Away
  BY DEF BufferInv, BuffersOwnedOnce, Away
<1>3. /\ s.buf \in Buffers /\ pool \in Seq(Buffers)
      /\ content \in [Buffers -> SUBSET (1..MaxWrites)]
      /\ inFlight \subseteq [buf : Buffers, write : 1..MaxWrites]
  BY DEF TypeOK
<1>4. Away' = Away \ {s.buf}
  BY <1>1, <1>2 DEF Away
<1>5. /\ pool' \in Seq(Buffers) /\ IsInjective(pool')
      /\ Range(pool') = Range(pool) \cup {s.buf}
  BY <1>1, <1>2, <1>3, AppendFacts
<1>6. /\ content' \in [Buffers -> SUBSET (1..MaxWrites)] /\ content'[s.buf] = {}
      /\ \A c \in Buffers : c # s.buf => content'[c] = content[c]
  BY <1>1, <1>3
<1>7. BuffersOwnedOnce'
  <2>1. /\ Range(pool') \cap Away' = {} /\ Range(pool') \cup Away' = 1..made'
    BY <1>1, <1>2, <1>4, <1>5
  <2>2. \A q, r \in inFlight' : q.buf = r.buf => q = r
    BY <1>1, <1>2
  <2> QED BY <1>5, <2>1, <2>2 DEF BuffersOwnedOnce, Away
<1>8. SendsWhatWasWritten'
  <2>1. \A q \in inFlight' : q \in inFlight /\ q.buf \in Buffers /\ q.buf # s.buf
    BY <1>1, <1>2, <1>3
  <2> QED BY <1>6, <2>1 DEF BufferInv, SendsWhatWasWritten
<1>9. BuffersReset'
  BY <1>1, <1>4, <1>6 DEF BufferInv, BuffersReset
<1> QED BY <1>1, <1>3, <1>5, <1>6, <1>7, <1>8, <1>9 DEF BufferInv
--------------------------------------------------------------------------------
(* The other steps *)

LEMMA PollOpenInv ==
  ASSUME Inv, NEW failBlocked \in BOOLEAN, PollOpen(failBlocked)
  PROVE  Inv'
<1> USE DEF Inv, PollOpen, Park, Return, Resolve, task, errors, answers, msquic
<1>1. TypeOK'
  <2>1. startWaiter' \in BOOLEAN /\ writeWaiter' \in BOOLEAN /\ woken' \in BOOLEAN
    BY DEF TypeOK
  <2>2. /\ sendError' \in BOOLEAN /\ cancelled' \in BOOLEAN /\ connError' \in BOOLEAN
        /\ finished' \in BOOLEAN /\ aborted' \in BOOLEAN /\ closed' \in BOOLEAN
        /\ graceful' \in BOOLEAN
    BY DEF TypeOK
  <2> QED BY <2>1, <2>2 DEF TypeOK, buffers
<1>2. BufferInv'
  BY BuffersKept
<1>3. StartMatches'
  BY DEF TypeOK, ControlInv, StartMatches
<1>4. EndMatches'
  BY DEF TypeOK, ControlInv, StartMatches, EndMatches
<1>5. OpenMatches'
  BY DEF TypeOK, ControlInv, StartMatches, EndMatches, OpenMatches
<1>6. ErrorWhenStartLost'
  BY DEF TypeOK, ControlInv, StartMatches, ErrorWhenStartLost
<1>7. NoFalseFinish'
  BY DEF TypeOK, ControlInv, EndMatches, OpenMatches, NoFalseFinish
<1>8. NoLostWakeup'
  BY DEF TypeOK, ControlInv, StartMatches, EndMatches, OpenMatches, NoLostWakeup
<1> QED BY <1>1, <1>2, <1>3, <1>4, <1>5, <1>6, <1>7, <1>8 DEF ControlInv

LEMMA PollFinishWriteInv ==
  ASSUME Inv, PollFinishWrite
  PROVE  Inv'
<1> USE DEF Inv, PollFinishWrite, MayUse, ShutdownSend, Park, Return, task, errors, answers, msquic
<1>1. TypeOK'
  <2>1. startWaiter' \in BOOLEAN /\ writeWaiter' \in BOOLEAN /\ woken' \in BOOLEAN
    BY DEF TypeOK
  <2>2. /\ sendError' \in BOOLEAN /\ cancelled' \in BOOLEAN /\ connError' \in BOOLEAN
        /\ finished' \in BOOLEAN /\ aborted' \in BOOLEAN /\ closed' \in BOOLEAN
        /\ graceful' \in BOOLEAN
    BY DEF TypeOK
  <2> QED BY <2>1, <2>2 DEF TypeOK, buffers
<1>2. BufferInv'
  BY BuffersKept
<1>3. StartMatches'
  BY DEF TypeOK, ControlInv, StartMatches
<1>4. EndMatches'
  BY DEF TypeOK, ControlInv, StartMatches, EndMatches
<1>5. OpenMatches'
  BY DEF TypeOK, ControlInv, StartMatches, EndMatches, OpenMatches
<1>6. ErrorWhenStartLost'
  BY DEF TypeOK, ControlInv, StartMatches, ErrorWhenStartLost
<1>7. NoFalseFinish'
  BY DEF TypeOK, ControlInv, EndMatches, OpenMatches, NoFalseFinish
<1>8. NoLostWakeup'
  BY DEF TypeOK, ControlInv, StartMatches, EndMatches, OpenMatches, NoLostWakeup
<1> QED BY <1>1, <1>2, <1>3, <1>4, <1>5, <1>6, <1>7, <1>8 DEF ControlInv

LEMMA PollAbortWriteInv ==
  ASSUME Inv, PollAbortWrite
  PROVE  Inv'
<1> USE DEF Inv, PollAbortWrite, MayUse, ShutdownSend, Park, Return, task, errors, answers, msquic
<1>1. TypeOK'
  <2>1. startWaiter' \in BOOLEAN /\ writeWaiter' \in BOOLEAN /\ woken' \in BOOLEAN
    BY DEF TypeOK
  <2>2. /\ sendError' \in BOOLEAN /\ cancelled' \in BOOLEAN /\ connError' \in BOOLEAN
        /\ finished' \in BOOLEAN /\ aborted' \in BOOLEAN /\ closed' \in BOOLEAN
        /\ graceful' \in BOOLEAN
    BY DEF TypeOK
  <2> QED BY <2>1, <2>2 DEF TypeOK, buffers
<1>2. BufferInv'
  BY BuffersKept
<1>3. StartMatches'
  BY DEF TypeOK, ControlInv, StartMatches
<1>4. EndMatches'
  BY DEF TypeOK, ControlInv, StartMatches, EndMatches
<1>5. OpenMatches'
  BY DEF TypeOK, ControlInv, StartMatches, EndMatches, OpenMatches
<1>6. ErrorWhenStartLost'
  BY DEF TypeOK, ControlInv, StartMatches, ErrorWhenStartLost
<1>7. NoFalseFinish'
  BY DEF TypeOK, ControlInv, EndMatches, OpenMatches, NoFalseFinish
<1>8. NoLostWakeup'
  BY DEF TypeOK, ControlInv, StartMatches, EndMatches, OpenMatches, NoLostWakeup
<1> QED BY <1>1, <1>2, <1>3, <1>4, <1>5, <1>6, <1>7, <1>8 DEF ControlInv

LEMMA AbortWriteInv ==
  ASSUME Inv, AbortWrite
  PROVE  Inv'
<1> USE DEF Inv, AbortWrite, MayUse, ShutdownSend, task, errors, answers, msquic
<1>1. TypeOK'
  BY DEF TypeOK, buffers
<1>2. BufferInv'
  BY BuffersKept
<1>3. ControlInv'
  BY DEF TypeOK, ControlInv, StartMatches, EndMatches, OpenMatches, ErrorWhenStartLost,
         NoFalseFinish, NoLostWakeup
<1> QED BY <1>1, <1>2, <1>3

LEMMA CancelInv ==
  ASSUME Inv, Cancel
  PROVE  Inv'
<1> USE DEF Inv, Cancel, Return, task, errors, answers, msquic
<1>1. TypeOK'
  <2>1. startWaiter' \in BOOLEAN /\ writeWaiter' \in BOOLEAN /\ woken' \in BOOLEAN
    BY DEF TypeOK
  <2>2. /\ sendError' \in BOOLEAN /\ cancelled' \in BOOLEAN /\ connError' \in BOOLEAN
        /\ finished' \in BOOLEAN /\ aborted' \in BOOLEAN /\ closed' \in BOOLEAN
        /\ graceful' \in BOOLEAN
    BY DEF TypeOK
  <2> QED BY <2>1, <2>2 DEF TypeOK, buffers
<1>2. BufferInv'
  BY BuffersKept
<1>3. ControlInv'
  BY DEF TypeOK, ControlInv, StartMatches, EndMatches, OpenMatches, ErrorWhenStartLost,
         NoFalseFinish, NoLostWakeup
<1> QED BY <1>1, <1>2, <1>3

LEMMA CloseInv ==
  ASSUME Inv, Close
  PROVE  Inv'
<1> USE DEF Inv, Close, task, errors, answers, msquic
<1>1. TypeOK'
  BY DEF TypeOK, buffers
<1>2. BufferInv'
  BY BuffersKept
<1>3. ControlInv'
  BY DEF TypeOK, ControlInv, StartMatches, EndMatches, OpenMatches, ErrorWhenStartLost,
         NoFalseFinish, NoLostWakeup
<1> QED BY <1>1, <1>2, <1>3

LEMMA HandleStartCompleteInv ==
  ASSUME Inv, NEW status \in {"ok", "limit", "lost", "other"}, NEW good \in BOOLEAN,
         HandleStartComplete(status, good)
  PROVE  Inv'
<1> USE DEF Inv, HandleStartComplete, StartAnswer, IsReady, StartComplete, WakeStart, task, errors, answers, msquic
<1>1. TypeOK'
  <2>1. startWaiter' \in BOOLEAN /\ writeWaiter' \in BOOLEAN /\ woken' \in BOOLEAN
    BY DEF TypeOK
  <2>2. /\ sendError' \in BOOLEAN /\ cancelled' \in BOOLEAN /\ connError' \in BOOLEAN
        /\ finished' \in BOOLEAN /\ aborted' \in BOOLEAN /\ closed' \in BOOLEAN
        /\ graceful' \in BOOLEAN
    BY DEF TypeOK
  <2> QED BY <2>1, <2>2 DEF TypeOK, buffers
<1>2. BufferInv'
  BY BuffersKept
<1>3. StartMatches'
  BY DEF TypeOK, ControlInv, StartMatches
<1>4. EndMatches'
  BY DEF TypeOK, ControlInv, StartMatches, EndMatches
<1>5. OpenMatches'
  BY DEF TypeOK, ControlInv, StartMatches, EndMatches, OpenMatches
<1>6. ErrorWhenStartLost'
  BY DEF TypeOK, ControlInv, StartMatches, ErrorWhenStartLost
<1>7. NoFalseFinish'
  BY DEF TypeOK, ControlInv, EndMatches, OpenMatches, NoFalseFinish
<1>8. NoLostWakeup'
  BY DEF TypeOK, ControlInv, StartMatches, EndMatches, OpenMatches, NoLostWakeup
<1> QED BY <1>1, <1>2, <1>3, <1>4, <1>5, <1>6, <1>7, <1>8 DEF ControlInv

LEMMA HandlePeerAcceptedInv ==
  ASSUME Inv, HandlePeerAccepted
  PROVE  Inv'
<1> USE DEF Inv, HandlePeerAccepted, StartComplete, WakeStart, task, errors, answers, msquic
<1>1. TypeOK'
  <2>1. startWaiter' \in BOOLEAN /\ writeWaiter' \in BOOLEAN /\ woken' \in BOOLEAN
    BY DEF TypeOK
  <2>2. /\ sendError' \in BOOLEAN /\ cancelled' \in BOOLEAN /\ connError' \in BOOLEAN
        /\ finished' \in BOOLEAN /\ aborted' \in BOOLEAN /\ closed' \in BOOLEAN
        /\ graceful' \in BOOLEAN
    BY DEF TypeOK
  <2> QED BY <2>1, <2>2 DEF TypeOK, buffers
<1>2. BufferInv'
  BY BuffersKept
<1>3. StartMatches'
  BY DEF TypeOK, ControlInv, StartMatches
<1>4. EndMatches'
  BY DEF TypeOK, ControlInv, StartMatches, EndMatches
<1>5. OpenMatches'
  BY DEF TypeOK, ControlInv, StartMatches, EndMatches, OpenMatches
<1>6. ErrorWhenStartLost'
  BY DEF TypeOK, ControlInv, StartMatches, ErrorWhenStartLost
<1>7. NoFalseFinish'
  BY DEF TypeOK, ControlInv, EndMatches, OpenMatches, NoFalseFinish
<1>8. NoLostWakeup'
  BY DEF TypeOK, ControlInv, StartMatches, EndMatches, OpenMatches, NoLostWakeup
<1> QED BY <1>1, <1>2, <1>3, <1>4, <1>5, <1>6, <1>7, <1>8 DEF ControlInv

LEMMA HandlePeerReceiveAbortedInv ==
  ASSUME Inv, HandlePeerReceiveAborted
  PROVE  Inv'
<1> USE DEF Inv, HandlePeerReceiveAborted, WakeWrite, task, errors, answers, msquic
<1>1. TypeOK'
  <2>1. startWaiter' \in BOOLEAN /\ writeWaiter' \in BOOLEAN /\ woken' \in BOOLEAN
    BY DEF TypeOK
  <2>2. /\ sendError' \in BOOLEAN /\ cancelled' \in BOOLEAN /\ connError' \in BOOLEAN
        /\ finished' \in BOOLEAN /\ aborted' \in BOOLEAN /\ closed' \in BOOLEAN
        /\ graceful' \in BOOLEAN
    BY DEF TypeOK
  <2> QED BY <2>1, <2>2 DEF TypeOK, buffers
<1>2. BufferInv'
  BY BuffersKept
<1>3. StartMatches'
  BY DEF TypeOK, ControlInv, StartMatches
<1>4. EndMatches'
  BY DEF TypeOK, ControlInv, StartMatches, EndMatches
<1>5. OpenMatches'
  BY DEF TypeOK, ControlInv, StartMatches, EndMatches, OpenMatches
<1>6. ErrorWhenStartLost'
  BY DEF TypeOK, ControlInv, StartMatches, ErrorWhenStartLost
<1>7. NoFalseFinish'
  BY DEF TypeOK, ControlInv, EndMatches, OpenMatches, NoFalseFinish
<1>8. NoLostWakeup'
  BY DEF TypeOK, ControlInv, StartMatches, EndMatches, OpenMatches, NoLostWakeup
<1> QED BY <1>1, <1>2, <1>3, <1>4, <1>5, <1>6, <1>7, <1>8 DEF ControlInv

LEMMA HandleSendShutdownCompleteInv ==
  ASSUME Inv, HandleSendShutdownComplete
  PROVE  Inv'
<1> USE DEF Inv, HandleSendShutdownComplete, SendEnds, WakeWrite, task, errors, answers, msquic
<1>1. TypeOK'
  <2>1. startWaiter' \in BOOLEAN /\ writeWaiter' \in BOOLEAN /\ woken' \in BOOLEAN
    BY DEF TypeOK
  <2>2. /\ sendError' \in BOOLEAN /\ cancelled' \in BOOLEAN /\ connError' \in BOOLEAN
        /\ finished' \in BOOLEAN /\ aborted' \in BOOLEAN /\ closed' \in BOOLEAN
        /\ graceful' \in BOOLEAN
    BY DEF TypeOK
  <2> QED BY <2>1, <2>2 DEF TypeOK, buffers
<1>2. BufferInv'
  BY BuffersKept
<1>3. StartMatches'
  BY DEF TypeOK, ControlInv, StartMatches
<1>4. EndMatches'
  BY DEF TypeOK, ControlInv, StartMatches, EndMatches
<1>5. OpenMatches'
  BY DEF TypeOK, ControlInv, StartMatches, EndMatches, OpenMatches
<1>6. ErrorWhenStartLost'
  BY DEF TypeOK, ControlInv, StartMatches, ErrorWhenStartLost
<1>7. NoFalseFinish'
  BY DEF TypeOK, ControlInv, EndMatches, OpenMatches, NoFalseFinish
<1>8. NoLostWakeup'
  BY DEF TypeOK, ControlInv, StartMatches, EndMatches, OpenMatches, NoLostWakeup
<1> QED BY <1>1, <1>2, <1>3, <1>4, <1>5, <1>6, <1>7, <1>8 DEF ControlInv

LEMMA HandleCancelOnLossInv ==
  ASSUME Inv, HandleCancelOnLoss
  PROVE  Inv'
<1> USE DEF Inv, HandleCancelOnLoss, task, errors, answers, msquic
<1>1. TypeOK'
  BY DEF TypeOK, buffers
<1>2. BufferInv'
  BY BuffersKept
<1>3. ControlInv'
  BY DEF TypeOK, ControlInv, StartMatches, EndMatches, OpenMatches, ErrorWhenStartLost,
         NoFalseFinish, NoLostWakeup
<1> QED BY <1>1, <1>2, <1>3

LEMMA HandleShutdownCompleteInv ==
  ASSUME Inv, HandleShutdownComplete
  PROVE  Inv'
<1> USE DEF Inv, HandleShutdownComplete, StreamEnds, WakeStart, task, errors, answers, msquic
<1>1. TypeOK'
  <2>1. startWaiter' \in BOOLEAN /\ writeWaiter' \in BOOLEAN /\ woken' \in BOOLEAN
    BY DEF TypeOK
  <2>2. /\ sendError' \in BOOLEAN /\ cancelled' \in BOOLEAN /\ connError' \in BOOLEAN
        /\ finished' \in BOOLEAN /\ aborted' \in BOOLEAN /\ closed' \in BOOLEAN
        /\ graceful' \in BOOLEAN
    BY DEF TypeOK
  <2> QED BY <2>1, <2>2 DEF TypeOK, buffers
<1>2. BufferInv'
  BY BuffersKept
<1>3. StartMatches'
  BY DEF TypeOK, ControlInv, StartMatches
<1>4. EndMatches'
  BY DEF TypeOK, ControlInv, StartMatches, EndMatches
<1>5. OpenMatches'
  BY DEF TypeOK, ControlInv, StartMatches, EndMatches, OpenMatches
<1>6. ErrorWhenStartLost'
  BY DEF TypeOK, ControlInv, StartMatches, ErrorWhenStartLost
<1>7. NoFalseFinish'
  BY DEF TypeOK, ControlInv, EndMatches, OpenMatches, NoFalseFinish
<1>8. NoLostWakeup'
  BY DEF TypeOK, ControlInv, StartMatches, EndMatches, OpenMatches, NoLostWakeup
<1> QED BY <1>1, <1>2, <1>3, <1>4, <1>5, <1>6, <1>7, <1>8 DEF ControlInv

LEMMA ConnectionClosesInv ==
  ASSUME Inv, ConnectionCloses
  PROVE  Inv'
<1> USE DEF Inv, ConnectionCloses, task, errors, answers, msquic
<1>1. TypeOK'
  BY DEF TypeOK, buffers
<1>2. BufferInv'
  BY BuffersKept
<1>3. ControlInv'
  BY DEF TypeOK, ControlInv, StartMatches, EndMatches, OpenMatches, ErrorWhenStartLost,
         NoFalseFinish, NoLostWakeup
<1> QED BY <1>1, <1>2, <1>3

LEMMA ConnectionShutdownInv ==
  ASSUME Inv, ConnectionShutdown
  PROVE  Inv'
<1> USE DEF Inv, ConnectionShutdown, task, errors, answers, msquic
<1>1. TypeOK'
  BY DEF TypeOK, buffers
<1>2. BufferInv'
  BY BuffersKept
<1>3. ControlInv'
  BY DEF TypeOK, ControlInv, StartMatches, EndMatches, OpenMatches, ErrorWhenStartLost,
         NoFalseFinish, NoLostWakeup
<1> QED BY <1>1, <1>2, <1>3

\* The two steps that move a buffer change little else.
LEMMA PollWriteInv ==
  ASSUME Inv, NEW fin \in BOOLEAN, PollWrite(fin)
  PROVE  Inv'
<1> USE DEF Inv, PollWrite, MayUse, task, errors, answers, msquic
<1>1. /\ BufferInv'
      /\ pool' \in Seq(Buffers) /\ content' \in [Buffers -> SUBSET (1..MaxWrites)]
      /\ made' \in 0..MaxWrites /\ writes' \in 0..MaxWrites
      /\ inFlight' \subseteq [buf : Buffers, write : 1..MaxWrites]
  BY PollWriteBuffers
<1>2. /\ UNCHANGED <<state, startStatus, task, errors, answers, conn, start, graceful, native>>
      /\ opened = "ok" /\ op = "none" /\ sendState = "StartComplete" /\ ~ closed
      /\ \/ /\ send = "open"
            /\ sendState' = IF fin THEN "Shutdown" ELSE sendState
            /\ send' = IF fin THEN "graceful" ELSE send
         \/ UNCHANGED <<sendState, send>>
  OBVIOUS
<1> USE DEF TypeOK
<1>3. TypeOK'
  BY <1>1, <1>2
<1> USE DEF ControlInv
<1>4. StartMatches' /\ OpenMatches'
  BY <1>2 DEF StartMatches, OpenMatches
<1>5. EndMatches'
  BY <1>2 DEF EndMatches
<1>6. ErrorWhenStartLost' /\ NoFalseFinish' /\ NoLostWakeup'
  BY <1>2 DEF ErrorWhenStartLost, NoFalseFinish, NoLostWakeup
<1> QED BY <1>1, <1>3, <1>4, <1>5, <1>6

LEMMA HandleSendCompleteInv ==
  ASSUME Inv, NEW s \in inFlight, HandleSendComplete(s)
  PROVE  Inv'
<1> USE DEF Inv
<1>1. /\ BufferInv'
      /\ pool' \in Seq(Buffers) /\ content' \in [Buffers -> SUBSET (1..MaxWrites)]
      /\ inFlight' \subseteq [buf : Buffers, write : 1..MaxWrites]
  BY SendCompleteBuffers
<1>2. UNCHANGED <<state, startStatus, sendState, made, writes, task, errors, answers, msquic>>
  BY DEF HandleSendComplete
<1>3. TypeOK'
  BY <1>1, <1>2 DEF TypeOK, task, errors, answers, msquic
<1>4. ControlInv'
  BY <1>2 DEF ControlInv, StartMatches, EndMatches, OpenMatches, ErrorWhenStartLost,
              NoFalseFinish, NoLostWakeup, task, errors, answers, msquic
<1> QED BY <1>1, <1>3, <1>4

LEMMA InitInv ==
  ASSUME Init
  PROVE  Inv
<1> USE StreamSendAssumption
<1>1. pool \in Seq(Buffers) /\ content \in [Buffers -> SUBSET (1..MaxWrites)]
  BY DEF Init, Buffers
<1>2. /\ made \in 0..MaxWrites /\ writes \in 0..MaxWrites
      /\ inFlight \subseteq [buf : Buffers, write : 1..MaxWrites]
  BY DEF Init
<1>3. /\ sendState \in {"Closed", "StartComplete"} /\ start \in {"idle", "accepted"}
      /\ opened \in {"none", "ok"}
  BY DEF Init
<1>4. TypeOK
  BY <1>1, <1>2, <1>3 DEF Init, TypeOK
<1>5. BufferInv
  <2>1. Away = {} /\ Range(pool) = {} /\ IsInjective(pool) /\ made = 0 /\ writes = 0
    BY DEF Init, Away, Range, IsInjective
  <2>2. \A b \in Buffers : content[b] = {}
    BY DEF Init, Buffers
  <2>3. 1..made = {}
    BY <2>1
  <2>4. BuffersOwnedOnce /\ SendsWhatWasWritten
    BY <2>1, <2>3 DEF Init, BuffersOwnedOnce, SendsWhatWasWritten, Away
  <2> QED BY <2>1, <2>2, <2>4 DEF BufferInv, BuffersReset
<1>6. ControlInv
  BY DEF Init, ControlInv, StartMatches, EndMatches, OpenMatches, ErrorWhenStartLost,
         NoFalseFinish, NoLostWakeup
<1> QED BY <1>4, <1>5, <1>6 DEF Inv

LEMMA NextInv ==
  ASSUME Inv, [Next]_vars
  PROVE  Inv'
<1>1. CASE UNCHANGED vars
  <2>1. BufferInv'
    BY <1>1, BuffersKept DEF Inv, vars
  <2> QED
    BY <1>1, <2>1 DEF vars, buffers, task, errors, answers, msquic, Inv, TypeOK, ControlInv,
       StartMatches, EndMatches, OpenMatches, ErrorWhenStartLost, NoFalseFinish, NoLostWakeup
<1>2. CASE User
  BY <1>2, PollOpenInv, PollFinishWriteInv, PollAbortWriteInv DEF User
<1>3. CASE Events
  BY <1>3, HandleStartCompleteInv, HandleSendCompleteInv, HandleSendShutdownCompleteInv,
     HandleShutdownCompleteInv, ConnectionShutdownInv DEF Events
<1>4. CASE \E fin \in BOOLEAN : PollWrite(fin)
  BY <1>4, PollWriteInv
<1>5. CASE AbortWrite \/ Cancel \/ Close
  BY <1>5, AbortWriteInv, CancelInv, CloseInv
<1>6. CASE HandlePeerAccepted \/ HandlePeerReceiveAborted \/ HandleCancelOnLoss
  BY <1>6, HandlePeerAcceptedInv, HandlePeerReceiveAbortedInv, HandleCancelOnLossInv
<1>7. CASE ConnectionCloses
  BY <1>7, ConnectionClosesInv
<1> QED BY <1>1, <1>2, <1>3, <1>4, <1>5, <1>6, <1>7 DEF Next

\* Inv holds in every state of a stream's start and send half.
THEOREM Invariance == Spec => []Inv
<1>1. Init => Inv
  BY InitInv
<1>2. Inv /\ [Next]_vars => Inv'
  BY NextInv
<1> QED BY <1>1, <1>2, PTL DEF Spec

--------------------------------------------------------------------------------
(* StreamSend: the properties *)

\* The stream's start, its send half and its buffers stay within their types.
THEOREM TypeCorrect == Spec => []TypeOK
<1>1. Inv => TypeOK
  BY DEF Inv
<1> QED BY <1>1, Invariance, PTL

\* Every WriteBuffer that was made is in the pool or with MsQuic, once, whatever
\* sends are refused, completed or cancelled (buffer.rs:225-230, stream.rs:924).
THEOREM BuffersOwned == Spec => []BuffersOwnedOnce
<1>1. Inv => BuffersOwnedOnce
  BY DEF Inv, BufferInv
<1> QED BY <1>1, Invariance, PTL

\* A buffer in flight holds the write it was sent for and nothing else, however
\* often it was recycled.
THEOREM BuffersFresh == Spec => []SendsWhatWasWritten
<1>1. Inv => SendsWhatWasWritten
  BY DEF Inv, BufferInv
<1> QED BY <1>1, Invariance, PTL

\* The task that opens, finishes or aborts is woken by the event it waits for, or
\* it is on the list of that event (stream.rs:1521).
THEOREM WakeupsKept == Spec => []NoLostWakeup
<1>1. Inv => NoLostWakeup
  BY DEF Inv, ControlInv
<1> QED BY <1>1, Invariance, PTL

\* A start that failed with its connection finds the error that poll_start
\* expects there (stream.rs:162).
THEOREM StartErrorThere == Spec => []ErrorWhenStartLost
<1>1. Inv => ErrorWhenStartLost
  BY DEF Inv, ControlInv
<1> QED BY <1>1, Invariance, PTL

\* poll_finish_write answers Ok only when MsQuic said the peer has it all, the
\* application aborted, or the connection is closing.
THEOREM FinishIsTrue == Spec => []NoFalseFinish
<1>1. Inv => NoFalseFinish
  BY DEF Inv, ControlInv
<1> QED BY <1>1, Invariance, PTL

\* OpenOutboundStream answers with a stream that the peer accepts, except when the
\* connection is lost while the stream is blocked.
THEOREM OpenedStreams == Spec => []OpenedIsAccepted
<1>1. Inv => OpenedIsAccepted
  BY DEF Inv, ControlInv, OpenMatches, OpenedIsAccepted
<1> QED BY <1>1, Invariance, PTL

--------------------------------------------------------------------------------
(* H3Send: the inductive invariant *)

\* A stream that is starting was not accepted: the write that would keep the
\* stream in its future is never made on one that h3 was given.
StartsUnaccepted ==
  /\ start = "accepted" => state # "Start"
  /\ sendState = "Start" => state = "Start"

AdapterTyped ==
  /\ stream = TRUE /\ writing \in BOOLEAN /\ inReady \in BOOLEAN
  /\ rest \in Seq(Nat) /\ wire \in Seq(Nat) /\ accepted \in Nat
  /\ ~ writing => rest = << >>
  /\ inReady => opened = "ok"

\* What MsQuic has and what remains, chunk by chunk.
InOrder ==
  /\ Len(wire) + Len(rest) = accepted
  /\ \A i \in 1..Len(wire) : wire[i] = i
  /\ \A i \in 1..Len(rest) : rest[i] = Len(wire) + i

H3Inv == Inv /\ StartsUnaccepted /\ AdapterTyped /\ InOrder

--------------------------------------------------------------------------------
(* The stream below *)

LEMMA StreamStep ==
  ASSUME Inv, StartsUnaccepted, Next
  PROVE  Inv' /\ StartsUnaccepted'
<1> USE DEF StartsUnaccepted
<1> SUFFICES StartsUnaccepted'
  BY NextInv
<1>1. CASE User
  <2>1. ASSUME NEW failBlocked \in BOOLEAN, PollOpen(failBlocked)
        PROVE  StartsUnaccepted'
    BY <2>1 DEF PollOpen, Inv, ControlInv, StartMatches
  <2>2. CASE PollFinishWrite \/ PollAbortWrite
    BY <2>2 DEF PollFinishWrite, PollAbortWrite, ShutdownSend
  <2> QED BY <1>1, <2>1, <2>2 DEF User
<1>2. CASE Events
  <2>1. ASSUME NEW status \in {"ok", "limit", "lost", "other"}, NEW ok \in BOOLEAN,
               HandleStartComplete(status, ok)
        PROVE  StartsUnaccepted'
    BY <2>1 DEF HandleStartComplete, StartAnswer, IsReady, StartComplete
  <2>2. ASSUME NEW s \in inFlight, HandleSendComplete(s)
        PROVE  StartsUnaccepted'
    BY <2>2 DEF HandleSendComplete, msquic
  <2>3. CASE HandleSendShutdownComplete \/ HandleShutdownComplete \/ ConnectionShutdown
    BY <2>3 DEF HandleSendShutdownComplete, HandleShutdownComplete, ConnectionShutdown
  <2> QED BY <1>2, <2>1, <2>2, <2>3 DEF Events
<1>3. CASE \E fin \in BOOLEAN : PollWrite(fin)
  BY <1>3 DEF PollWrite
<1>4. CASE AbortWrite \/ Cancel \/ Close
  BY <1>4 DEF AbortWrite, ShutdownSend, Cancel, Close, msquic
<1>5. CASE HandlePeerAccepted \/ HandlePeerReceiveAborted
  BY <1>5 DEF HandlePeerAccepted, StartComplete, HandlePeerReceiveAborted
<1>6. CASE HandleCancelOnLoss \/ ConnectionCloses
  BY <1>6 DEF HandleCancelOnLoss, ConnectionCloses
<1> QED BY <1>1, <1>2, <1>3, <1>4, <1>5, <1>6 DEF Next

LEMMA StreamKept ==
  ASSUME Inv, StartsUnaccepted, UNCHANGED vars
  PROVE  Inv' /\ StartsUnaccepted'
<1>1. Inv'
  BY NextInv
<1> QED BY <1>1 DEF StartsUnaccepted, vars, msquic

\* A stream that h3 was given is past its start.
LEMMA PastStart ==
  ASSUME Inv, StartsUnaccepted, opened = "ok"
  PROVE  sendState # "Start"
BY DEF StartsUnaccepted, Inv, ControlInv, OpenMatches

--------------------------------------------------------------------------------
(* The adapter *)

\* The adapter as it was, over a stream that moved on.
LEMMA AdapterKept ==
  ASSUME AdapterTyped, InOrder, UNCHANGED h3Vars, inReady => opened' = opened
  PROVE  AdapterTyped' /\ InOrder'
BY DEF AdapterTyped, InOrder, h3Vars

LEMMA SendDataInv ==
  ASSUME H3Inv, NEW n \in 1..MaxData, SendData(n)
  PROVE  H3Inv'
<1> USE DEF H3Inv
<1>1. /\ rest = << >> /\ rest' = [i \in 1..n |-> accepted + i]
      /\ accepted' = accepted + n /\ wire' = wire /\ stream' = stream
      /\ writing' = TRUE /\ inReady' = inReady /\ UNCHANGED vars
  BY DEF SendData, AdapterTyped
<1>2. n \in Nat /\ accepted \in Nat /\ wire \in Seq(Nat) /\ Len(wire) \in Nat
  BY H3SendAssumption DEF AdapterTyped
<1>3. /\ rest' \in Seq(Nat) /\ Len(rest') = n
      /\ \A i \in 1..n : rest'[i] = accepted + i
  BY <1>1, <1>2
<1>4. Len(rest) = 0
  BY <1>1
<1>5. Len(wire) = accepted /\ \A i \in 1..Len(wire) : wire[i] = i
  BY <1>2, <1>4 DEF InOrder
<1>6. InOrder'
  BY <1>1, <1>2, <1>3, <1>5 DEF InOrder
<1>7. AdapterTyped'
  BY <1>1, <1>2, <1>3 DEF AdapterTyped, vars, answers
<1> QED BY <1>1, <1>6, <1>7, StreamKept

\* MsQuic takes the first chunk that remains.
LEMMA TakeChunk ==
  ASSUME AdapterTyped, InOrder, rest # << >>,
         wire' = Append(wire, Head(rest)), rest' = Tail(rest), accepted' = accepted
  PROVE  InOrder' /\ rest' \in Seq(Nat) /\ wire' \in Seq(Nat)
<1>1. /\ rest \in Seq(Nat) /\ wire \in Seq(Nat) /\ accepted \in Nat
      /\ Len(rest) \in Nat /\ Len(rest) > 0 /\ Len(wire) \in Nat
  BY DEF AdapterTyped
<1>2. /\ rest' \in Seq(Nat) /\ Len(rest') = Len(rest) - 1
      /\ \A i \in 1..Len(rest') : i + 1 \in 1..Len(rest) /\ rest'[i] = rest[i + 1]
  BY <1>1
<1>3. Head(rest) = rest[1] /\ rest[1] = Len(wire) + 1
  BY <1>1 DEF InOrder
<1>4. /\ wire' \in Seq(Nat) /\ Len(wire') = Len(wire) + 1
      /\ \A i \in 1..Len(wire') :
           wire'[i] = IF i = Len(wire) + 1 THEN Len(wire) + 1 ELSE wire[i]
  BY <1>1, <1>3
<1>5. Len(wire') + Len(rest') = accepted'
  <2>1. Len(wire) + Len(rest) = accepted
    BY DEF InOrder
  <2>2. Len(wire') = Len(wire) + 1 /\ Len(rest') = Len(rest) - 1 /\ accepted' = accepted
    BY <1>2, <1>4
  <2>3. Len(wire) \in Nat /\ Len(rest) \in Nat
    BY <1>1
  <2> QED BY <2>1, <2>2, <2>3
<1>6. \A i \in 1..Len(wire') : wire'[i] = i
  BY <1>1, <1>4 DEF InOrder
<1>7. \A i \in 1..Len(rest') : rest'[i] = Len(wire') + i
  <2> SUFFICES ASSUME NEW i \in 1..Len(rest')
               PROVE  rest'[i] = Len(wire') + i
    OBVIOUS
  <2>1. i + 1 \in 1..Len(rest) /\ rest'[i] = rest[i + 1]
    BY <1>2
  <2>2. rest[i + 1] = Len(wire) + (i + 1)
    BY <2>1 DEF InOrder
  <2> QED BY <1>1, <1>4, <2>1, <2>2
<1> QED BY <1>2, <1>4, <1>5, <1>6, <1>7 DEF InOrder

LEMMA WriteChunkInv ==
  ASSUME H3Inv, WriteChunk
  PROVE  H3Inv'
<1> USE DEF H3Inv
<1>1. /\ inReady /\ rest # << >> /\ writing' = writing /\ accepted' = accepted
      /\ opened = "ok" /\ stream' = TRUE
  BY PastStart DEF WriteChunk, AdapterTyped
<1>2. Inv' /\ StartsUnaccepted' /\ opened' = opened
  <2>1. CASE PollWrite(FALSE)
    <3>1. Next
      BY <2>1 DEF Next
    <3> QED BY <2>1, <3>1, StreamStep DEF PollWrite, answers
  <2>2. CASE UNCHANGED vars
    BY <2>2, StreamKept DEF vars, answers
  <2> QED BY <2>1, <2>2 DEF WriteChunk
<1>3. /\ inReady' \in BOOLEAN
      /\ \/ UNCHANGED <<rest, wire>>
         \/ wire' = Append(wire, Head(rest)) /\ rest' = Tail(rest)
  BY DEF WriteChunk, Fail, EndReady, AdapterTyped
<1>4. writing
  BY <1>1 DEF AdapterTyped
<1>5. InOrder' /\ rest' \in Seq(Nat) /\ wire' \in Seq(Nat)
  BY <1>1, <1>3, TakeChunk DEF InOrder, AdapterTyped
<1> QED BY <1>1, <1>2, <1>3, <1>4, <1>5 DEF AdapterTyped

LEMMA ReadyInv ==
  ASSUME H3Inv, BeginReady \/ Ready
  PROVE  H3Inv'
<1> USE DEF H3Inv
<1>1. UNCHANGED <<vars, stream, rest, accepted, wire>>
  BY DEF BeginReady, Ready
<1>2. Inv' /\ StartsUnaccepted' /\ opened' = opened
  BY <1>1, StreamKept DEF vars, answers
<1>3. CASE BeginReady
  BY <1>1, <1>2, <1>3 DEF BeginReady, Calls, MayUse, AdapterTyped, InOrder
<1>4. CASE Ready
  BY <1>1, <1>2, <1>4 DEF Ready, EndReady, AdapterTyped, InOrder
<1> QED BY <1>3, <1>4

\* poll_send hands over one chunk, which MsQuic takes or refuses.
LEMMA PollSendInv ==
  ASSUME H3Inv, PollSend
  PROVE  H3Inv'
<1> USE DEF H3Inv
<1>1. /\ rest = << >> /\ ~ inReady /\ PollWrite(FALSE)
      /\ UNCHANGED <<stream, writing, rest, inReady>>
      /\ \/ accepted' = accepted + 1 /\ wire' = Append(wire, accepted + 1)
         \/ UNCHANGED <<accepted, wire>>
  BY DEF PollSend, Calls, AdapterTyped
<1>2. Inv' /\ StartsUnaccepted'
  BY <1>1, StreamStep DEF Next
<1>3. CASE UNCHANGED <<accepted, wire>>
  BY <1>1, <1>2, <1>3 DEF AdapterTyped, InOrder
<1>4. CASE accepted' = accepted + 1 /\ wire' = Append(wire, accepted + 1)
  <2>1. /\ wire \in Seq(Nat) /\ accepted \in Nat /\ Len(wire) = accepted
        /\ Len(rest) = 0 /\ Len(rest') = 0
    BY <1>1 DEF AdapterTyped, InOrder
  <2>2. /\ wire' \in Seq(Nat) /\ Len(wire') = accepted + 1
        /\ \A i \in 1..Len(wire') :
             wire'[i] = IF i = accepted + 1 THEN accepted + 1 ELSE wire[i]
    BY <1>4, <2>1
  <2>3. InOrder'
    BY <1>4, <2>1, <2>2 DEF InOrder
  <2> QED BY <1>1, <1>2, <1>4, <2>1, <2>2, <2>3 DEF AdapterTyped
<1> QED BY <1>1, <1>3, <1>4

\* Everything else moves the stream alone.
LEMMA StreamAloneInv ==
  ASSUME H3Inv,
         \/ PollFinish \/ ResetStream
         \/ Below /\ UNCHANGED h3Vars
         \/ ~ inReady /\ Around /\ UNCHANGED h3Vars
  PROVE  H3Inv'
<1> USE DEF H3Inv
<1>1. UNCHANGED h3Vars
  BY DEF PollFinish, ResetStream
<1>2. Next
  BY DEF PollFinish, ResetStream, Below, Around, Next, User
<1>3. inReady => opened' = opened
  <2>1. CASE PollFinish \/ ResetStream
    BY <2>1 DEF PollFinish, ResetStream, Calls
  <2>2. CASE Below
    BY <2>2 DEF Below, Events, HandlePeerAccepted, HandlePeerReceiveAborted, ConnectionCloses,
       HandleStartComplete, HandleSendComplete, HandleSendShutdownComplete,
       HandleShutdownComplete, ConnectionShutdown, answers
  <2> QED BY <2>1, <2>2
<1>4. Inv' /\ StartsUnaccepted'
  BY <1>2, StreamStep
<1>5. AdapterTyped' /\ InOrder'
  BY <1>1, <1>3, AdapterKept
<1> QED BY <1>4, <1>5

LEMMA H3InitInv ==
  ASSUME H3Init
  PROVE  H3Inv
<1>1. Inv
  BY InitInv DEF H3Init
<1>2. StartsUnaccepted
  BY DEF H3Init, Init, StartsUnaccepted
<1>3. rest = << >> /\ wire = << >> /\ accepted = 0
  BY DEF H3Init
<1>4. rest \in Seq(Nat) /\ wire \in Seq(Nat) /\ Len(rest) = 0 /\ Len(wire) = 0
  BY <1>3
<1>5. AdapterTyped
  <2>1. stream = TRUE /\ writing = FALSE /\ inReady = FALSE /\ accepted \in Nat
    BY <1>3 DEF H3Init
  <2> QED BY <1>3, <1>4, <2>1 DEF AdapterTyped
<1>6. InOrder
  BY <1>3, <1>4 DEF InOrder
<1> QED BY <1>1, <1>2, <1>5, <1>6 DEF H3Inv

LEMMA H3NextInv ==
  ASSUME H3Inv, [H3Next]_<<vars, h3Vars>>
  PROVE  H3Inv'
<1>1. CASE UNCHANGED <<vars, h3Vars>>
  BY <1>1, StreamKept, AdapterKept DEF H3Inv, vars, answers
<1>2. CASE H3Next
  BY <1>2, SendDataInv, ReadyInv, WriteChunkInv, PollSendInv, StreamAloneInv DEF H3Next
<1> QED BY <1>1, <1>2

\* H3Inv, and with it the invariant of the stream, holds in every state of h3's
\* send half.
THEOREM H3Invariance == H3Spec => []H3Inv
<1>1. H3Init => H3Inv
  BY H3InitInv
<1>2. H3Inv /\ [H3Next]_<<vars, h3Vars>> => H3Inv'
  BY H3NextInv
<1> QED BY <1>1, <1>2, PTL DEF H3Spec

--------------------------------------------------------------------------------
(* H3Send: the properties *)

\* What MsQuic has and what is still to be written is what h3 handed over, in
\* order, whichever sends are refused and however often h3 polls again.
THEOREM ChunksInOrder == H3Spec => []SendsInOrder
<1>1. ASSUME H3Inv
      PROVE  SendsInOrder
  <2> DEFINE all == wire \o rest
             wanted == [i \in 1..accepted |-> i]
  <2>1. /\ wire \in Seq(Nat) /\ rest \in Seq(Nat) /\ accepted \in Nat
        /\ Len(wire) \in Nat /\ Len(rest) \in Nat
        /\ Len(wire) + Len(rest) = accepted
    BY <1>1 DEF H3Inv, AdapterTyped, InOrder
  <2>2. /\ all \in Seq(Nat) /\ Len(all) = accepted
        /\ \A i \in 1..accepted :
             all[i] = IF i <= Len(wire) THEN wire[i] ELSE rest[i - Len(wire)]
    BY <2>1, ConcatProperties
  <2>3. \A i \in 1..accepted : all[i] = i
    <3> SUFFICES ASSUME NEW i \in 1..accepted
                 PROVE  all[i] = i
      OBVIOUS
    <3>1. CASE i <= Len(wire)
      BY <1>1, <2>1, <2>2, <3>1 DEF H3Inv, InOrder
    <3>2. CASE i > Len(wire)
      <4>1. i - Len(wire) \in 1..Len(rest)
        BY <2>1, <3>2
      <4>2. rest[i - Len(wire)] = Len(wire) + (i - Len(wire))
        BY <1>1, <4>1 DEF H3Inv, InOrder
      <4> HIDE DEF all
      <4> QED BY <2>1, <2>2, <3>2, <4>2
    <3> QED BY <2>1, <3>1, <3>2
  <2>4. wanted \in Seq(Nat) /\ Len(wanted) = accepted /\ \A i \in 1..accepted : wanted[i] = i
    BY <2>1
  <2> HIDE DEF all, wanted
  <2>5. all = wanted
    BY <2>2, <2>3, <2>4, SeqEqual
  <2> QED BY <2>5 DEF all, wanted, SendsInOrder
<1> QED BY <1>1, H3Invariance, PTL

\* poll_finish, reset, poll_send and send_id find the stream they unwrap
\* (lib.rs:541).
THEOREM StreamThere == H3Spec => []StreamIsThere
<1>1. H3Inv => StreamIsThere
  BY DEF H3Inv, AdapterTyped, StreamIsThere
<1> QED BY <1>1, H3Invariance, PTL

\* lib.rs:481-600: whatever h3 does with a stream, the stream below moves as
\* StreamSend allows any application to move it.
THEOREM H3UsesStream == H3Spec => Init /\ [][Next]_vars
<1>1. H3Init => Init
  BY DEF H3Init
<1>2. [H3Next]_<<vars, h3Vars>> => [Next]_vars
  <2> SUFFICES ASSUME H3Next PROVE Next \/ UNCHANGED vars
    OBVIOUS
  <2>1. CASE (\E n \in 1..MaxData : SendData(n)) \/ BeginReady \/ Ready
    BY <2>1 DEF SendData, BeginReady, Ready
  <2>2. CASE WriteChunk \/ PollSend
    BY <2>2 DEF WriteChunk, PollSend, Next
  <2>3. CASE PollFinish \/ ResetStream \/ Below \/ Around
    BY <2>3 DEF PollFinish, ResetStream, Below, Around, Next, User
  <2> QED BY <2>1, <2>2, <2>3 DEF H3Next
<1> QED BY <1>1, <1>2, PTL DEF H3Spec

\* With that, what StreamSend owes any application it owes h3: its buffers, its
\* answers and its wakeups.
THEOREM SafeUnderH3 ==
  H3Spec => []( /\ BuffersOwnedOnce /\ SendsWhatWasWritten
                /\ NoLostWakeup /\ NoFalseFinish /\ OpenedIsAccepted )
<1>1. Inv => /\ BuffersOwnedOnce /\ SendsWhatWasWritten
             /\ NoLostWakeup /\ NoFalseFinish /\ OpenedIsAccepted
  BY DEF Inv, BufferInv, ControlInv, OpenMatches, OpenedIsAccepted
<1>2. H3Inv => Inv
  BY DEF H3Inv
<1> QED BY <1>1, <1>2, H3Invariance, PTL
================================================================================
