---------------------------- MODULE StreamRecvProofs ----------------------------
(***************************************************************************)
(* Proofs about StreamRecv, for any number of readers and any bound on the *)
(* stream: MsQuic is never told to reclaim memory the application can      *)
(* reach, everything it lent comes back, and no read takes a teardown for  *)
(* the end of the stream.                                                  *)
(***************************************************************************)
EXTENDS StreamRecv, TLAPS

(* The inductive invariant *)

\* Buffers lie within the bytes indicated; only the last one ends the stream,
\* and only that one may be empty.
BuffersShaped ==
  \A b \in Outstanding :
    /\ b.off <= b.end /\ b.end <= total
    /\ b.off = b.end => b.fin
    /\ b.fin => fin /\ b.end = total

\* No byte is lent twice.
BuffersApart ==
  /\ queue \cap held = {}
  /\ \A b, c \in Outstanding : b # c => Bytes(b) \cap Bytes(c) = {}

\* Each byte MsQuic indicated is either registered as complete or lent.
BytesAccounted ==
  /\ \A n \in 0 .. (total - 1) : n \in done \/ \E b \in Outstanding : n \in Bytes(b)
  /\ done \subseteq 0 .. (total - 1)
  /\ \A b \in Outstanding : Bytes(b) \cap done = {}

\* The cursor is the end of the completed prefix.
CursorAtPrefix == IsPrefixEnd(cursor, done) /\ cursor <= total

\* What MsQuic was told is what the cursor says, until it is not told any more.
MsQuicTold ==
  /\ base <= cursor /\ (~ closed => base = cursor)
  /\ drained => fin /\ base = total
  /\ (fin /\ ~ drained /\ ~ closed) =>
       cursor < total \/ \E b \in Outstanding : EmptyFin(b)
  /\ closed => held = {}

AcctInv == /\ TypeOK /\ total <= MaxTotal
           /\ BuffersShaped /\ BuffersApart /\ BytesAccounted
           /\ CursorAtPrefix /\ MsQuicTold

\* What was given to the application lies below `read`, what was not, above.
GivenInOrder ==
  /\ read <= total
  /\ native # "done" => \A n \in done : n < read
  /\ \A b \in held : b.end <= read
  /\ \A b \in queue : read <= b.end

\* Every state in which a read reports the end is one in which it is true.
EndIsTrue ==
  /\ recvState = "Shutdown" => fin /\ read = total
  /\ (recvState = "ShutdownComplete" \/ native = "recvClosed") =>
       \/ connError \/ cancelled \/ recvError
       \/ aborted \/ closed
       \/ fin /\ read = total
  /\ connError => native = "done"

ReadInv == AcctInv /\ GivenInOrder /\ EndIsTrue /\ NoFalseEof

--------------------------------------------------------------------------------
(* The accounting *)

LEMMA BytesMember ==
  ASSUME NEW b \in Buffer, NEW n
  PROVE  n \in Bytes(b) <=> n \in Nat /\ b.off <= n /\ n < b.end
  BY DEF Buffer, Bytes

\* The result of register_read_complete for buffers that are outstanding: the
\* cursor moves to the end of the new prefix and never past what was received.
LEMMA RegisterFacts ==
  ASSUME AcctInv, NEW bs \in SUBSET Outstanding, NEW mayCall \in BOOLEAN,
         Register(bs, mayCall)
  PROVE  /\ done' = done \cup UNION {Bytes(b) : b \in bs}
         /\ cursor' \in Nat /\ cursor <= cursor' /\ cursor' <= total
         /\ IsPrefixEnd(cursor', done')
         /\ mayCall \/ UNCHANGED <<base, drained>>
         /\ \/ cursor' = cursor /\ base' = base
            \/ base' = base + (cursor' - cursor)
            \/ ~ mayCall
         /\ drained' \in BOOLEAN
         /\ drained => drained'
         /\ drained' => drained \/ (fin /\ base' = total)
         /\ (mayCall /\ fin /\ base' = total
              /\ (cursor < cursor' \/ \E b \in bs : EmptyFin(b) /\ b.off = cursor'))
            => drained'
<1> DEFINE grown == done \cup UNION {Bytes(b) : b \in bs}
<1>1. PICK n \in 0..total :
        /\ IsPrefixEnd(n, grown)
        /\ done' = grown
        /\ cursor' = n
        /\ IF mayCall /\ \/ n > cursor
                         \/ \E b \in bs : EmptyFin(b) /\ (b.off = n \/ grown = {})
           THEN ReceiveComplete(n - cursor)
           ELSE UNCHANGED <<base, drained>>
  BY DEF Register
<1>2. cursor <= n
  <2>1. 0 .. (cursor - 1) \subseteq grown /\ n \notin grown /\ cursor \in Nat /\ n \in Nat
    BY <1>1 DEF AcctInv, TypeOK, CursorAtPrefix, IsPrefixEnd
  <2> QED BY <2>1
<1>3. n \in Nat /\ cursor \in Nat /\ base \in Nat /\ total \in Nat /\ n <= total
  BY <1>1 DEF AcctInv, TypeOK
<1>4. drained \in BOOLEAN /\ fin \in BOOLEAN
  BY DEF AcctInv, TypeOK
<1>5. CASE mayCall /\ \/ n > cursor
                      \/ \E b \in bs : EmptyFin(b) /\ (b.off = n \/ grown = {})
  <2>1. base' = base + (n - cursor) /\ drained' = (drained \/ (fin /\ base' = total))
    BY <1>1, <1>5 DEF ReceiveComplete
  <2> QED BY <1>1, <1>2, <1>3, <1>4, <1>5, <2>1
<1>6. CASE ~ (mayCall /\ \/ n > cursor
                         \/ \E b \in bs : EmptyFin(b) /\ (b.off = n \/ grown = {}))
  <2>1. base' = base /\ drained' = drained
    BY <1>1, <1>6
  <2> QED BY <1>1, <1>2, <1>3, <1>4, <1>6, <2>1
<1> QED BY <1>5, <1>6
\* Completing some of the outstanding buffers keeps the accounts of the rest.
LEMMA RegisterKeeps ==
  ASSUME AcctInv, NEW bs \in SUBSET Outstanding, NEW mayCall \in BOOLEAN,
         Register(bs, mayCall), Outstanding' = Outstanding \ bs,
         mayCall <=> ~ closed, queue' \subseteq queue, held' \subseteq held,
         UNCHANGED <<total, fin, closed>>
  PROVE  /\ BuffersShaped' /\ BuffersApart' /\ BytesAccounted'
         /\ CursorAtPrefix' /\ MsQuicTold'
         /\ done' \subseteq 0 .. (MaxTotal - 1)
         /\ cursor' \in Nat /\ base' \in Nat /\ drained' \in BOOLEAN
<1> USE DEF AcctInv
<1>1. /\ done' = done \cup UNION {Bytes(b) : b \in bs}
      /\ cursor' \in Nat /\ cursor <= cursor' /\ cursor' <= total
      /\ IsPrefixEnd(cursor', done')
      /\ mayCall \/ UNCHANGED <<base, drained>>
      /\ \/ cursor' = cursor /\ base' = base
         \/ base' = base + (cursor' - cursor)
         \/ ~ mayCall
      /\ drained' \in BOOLEAN
      /\ drained => drained'
      /\ drained' => drained \/ (fin /\ base' = total)
      /\ (mayCall /\ fin /\ base' = total
           /\ (cursor < cursor' \/ \E b \in bs : EmptyFin(b) /\ b.off = cursor'))
         => drained'
  BY RegisterFacts
<1>2. /\ cursor \in Nat /\ base \in Nat /\ total \in Nat /\ MaxTotal \in Nat
      /\ fin \in BOOLEAN /\ drained \in BOOLEAN /\ closed \in BOOLEAN
      /\ Outstanding \subseteq Buffer /\ total <= MaxTotal
  BY StreamRecvAssumption DEF TypeOK, Outstanding
<1>3. BuffersShaped'
  BY <1>1, <1>2 DEF BuffersShaped
<1>4. BuffersApart'
  BY DEF BuffersApart, Bytes
<1>5. BytesAccounted'
  <2>1. ASSUME NEW n \in 0 .. (total - 1)
        PROVE  n \in done' \/ \E b \in Outstanding' : n \in Bytes(b)
    <3>1. CASE n \in done
      BY <1>1, <3>1
    <3>2. CASE \E b \in Outstanding : n \in Bytes(b)
      BY <1>1, <3>2
    <3> QED BY <3>1, <3>2 DEF BytesAccounted
  <2>2. done' \subseteq 0 .. (total - 1)
    <3>1. ASSUME NEW b \in bs, NEW n \in Bytes(b)
          PROVE  n \in 0 .. (total - 1)
      <4>1. b \in Buffer /\ b.end <= total
        BY <1>2 DEF BuffersShaped
      <4> QED BY <4>1, <1>2 DEF Buffer, Bytes
    <3> QED BY <1>1, <3>1 DEF BytesAccounted
  <2>3. ASSUME NEW b \in Outstanding'
        PROVE  Bytes(b) \cap done' = {}
    <3>1. b \in Outstanding /\ b \notin bs
      OBVIOUS
    <3>2. \A c \in bs : Bytes(b) \cap Bytes(c) = {}
      BY <3>1 DEF BuffersApart
    <3> QED BY <1>1, <3>1, <3>2 DEF BytesAccounted
  <2> QED BY <2>1, <2>2, <2>3 DEF BytesAccounted, Bytes
<1>6. CursorAtPrefix'
  BY <1>1, <1>2 DEF CursorAtPrefix, IsPrefixEnd
<1>7. /\ base' \in Nat /\ base' <= cursor'
      /\ ~ closed' => base' = cursor'
      /\ drained' => fin' /\ base' = total'
  BY <1>1, <1>2 DEF MsQuicTold
<1>8. ASSUME fin', ~ drained', ~ closed'
      PROVE  cursor' < total' \/ \E b \in Outstanding' : EmptyFin(b)
  <2>1. SUFFICES ASSUME cursor' = total
                 PROVE  \E b \in Outstanding' : EmptyFin(b)
    BY <1>1, <1>2
  <2>2. mayCall /\ base' = total /\ fin
    BY <1>7, <1>8, <2>1
  <2>3. cursor' = cursor /\ ~ \E b \in bs : EmptyFin(b) /\ b.off = cursor'
    BY <1>1, <1>2, <1>8, <2>2
  <2>a. fin /\ ~ drained /\ ~ closed /\ cursor = total
    BY <1>1, <1>8, <2>1, <2>2, <2>3
  <2>4. PICK b \in Outstanding : EmptyFin(b)
    BY <1>2, <2>a DEF MsQuicTold
  <2>5. b.off = total
    BY <2>4 DEF BuffersShaped, EmptyFin
  <2> QED BY <2>1, <2>3, <2>4, <2>5
<1>9. closed' => held' = {}
  BY DEF MsQuicTold
<1>10. done' \subseteq 0 .. (MaxTotal - 1)
  BY <1>2, <1>5 DEF BytesAccounted
<1> QED
  BY <1>1, <1>3, <1>4, <1>5, <1>6, <1>7, <1>8, <1>9, <1>10 DEF MsQuicTold, EmptyFin

--------------------------------------------------------------------------------
(* AcctInv is inductive *)

LEMMA InitAcct == Init => AcctInv
<1> SUFFICES ASSUME Init PROVE AcctInv
  OBVIOUS
<1>1. TypeOK
  <2>1. op \in [Tasks -> {"none", "read"}] /\ woken \in [Tasks -> BOOLEAN]
    BY DEF Init
  <2> QED BY <2>1 DEF Init, TypeOK
<1>a. total <= MaxTotal
  BY StreamRecvAssumption DEF Init
<1>2. BuffersShaped /\ BuffersApart /\ BytesAccounted /\ CursorAtPrefix
  BY DEF Init, BuffersShaped, BuffersApart, BytesAccounted, CursorAtPrefix,
         IsPrefixEnd, Outstanding
<1>3. MsQuicTold
  BY DEF Init, MsQuicTold
<1> QED BY <1>1, <1>a, <1>2, <1>3 DEF AcctInv

\* Giving buffers to the application lends no byte and completes none.
LEMMA TakeOutKeeps ==
  ASSUME AcctInv, NEW bs \in SUBSET queue, TakeOut(bs), ~ closed,
         UNCHANGED <<done, cursor, total, fin, base, drained, closed>>
  PROVE  /\ BuffersShaped' /\ BuffersApart' /\ BytesAccounted'
         /\ CursorAtPrefix' /\ MsQuicTold'
         /\ queue' \subseteq Buffer /\ held' \subseteq Buffer
<1> USE DEF AcctInv
<1>1. Outstanding' = Outstanding
  BY DEF TakeOut, Outstanding
<1>2. BuffersShaped' /\ CursorAtPrefix'
  BY <1>1 DEF BuffersShaped, CursorAtPrefix, IsPrefixEnd
<1>3. BuffersApart'
  BY <1>1 DEF BuffersApart, TakeOut, Bytes
<1>4. BytesAccounted'
  BY <1>1 DEF BytesAccounted, Bytes
<1>5. MsQuicTold'
  BY <1>1 DEF MsQuicTold, EmptyFin
<1>6. queue' \subseteq Buffer /\ held' \subseteq Buffer
  BY DEF TakeOut, TypeOK
<1> QED BY <1>2, <1>3, <1>4, <1>5, <1>6

\* A step that leaves the accounts alone.
LEMMA AccountsUnchanged ==
  ASSUME AcctInv, UNCHANGED <<accounting, closed>>
  PROVE  /\ BuffersShaped' /\ BuffersApart' /\ BytesAccounted'
         /\ CursorAtPrefix' /\ MsQuicTold' /\ (total <= MaxTotal)'
<1> USE DEF AcctInv, accounting
<1>1. Outstanding' = Outstanding
  BY DEF Outstanding
<1>2. BuffersShaped' /\ CursorAtPrefix'
  BY <1>1 DEF BuffersShaped, CursorAtPrefix, IsPrefixEnd
<1>3. BuffersApart' /\ BytesAccounted'
  BY <1>1 DEF BuffersApart, BytesAccounted, Bytes
<1>4. MsQuicTold'
  BY <1>1 DEF MsQuicTold, EmptyFin
<1> QED BY <1>2, <1>3, <1>4

\* The new buffer takes the bytes that follow all those indicated before.
LEMMA ReceiveKeeps ==
  ASSUME AcctInv, NEW len \in 0..MaxLen, NEW last \in BOOLEAN,
         HandleReceive(len, last)
  PROVE  /\ BuffersShaped' /\ BuffersApart' /\ BytesAccounted'
         /\ CursorAtPrefix' /\ MsQuicTold' /\ (total <= MaxTotal)'
         /\ queue' \subseteq Buffer /\ total' \in Nat /\ fin' \in BOOLEAN
<1> USE DEF AcctInv
<1> DEFINE new == [off |-> total, end |-> total + len, fin |-> last]
<1>1. /\ cursor \in Nat /\ base \in Nat /\ total \in Nat
      /\ len \in Nat /\ closed = FALSE /\ fin = FALSE /\ drained = FALSE
      /\ Outstanding \subseteq Buffer
  BY StreamRecvAssumption DEF TypeOK, Outstanding, HandleReceive, MsQuicTold
<1>2. /\ new \in Buffer /\ new.off = total /\ new.end = total + len /\ new.fin = last
      /\ queue' = queue \cup {new} /\ held' = held
      /\ total' = total + len /\ fin' = last /\ closed' = closed
      /\ done' = done /\ cursor' = cursor /\ base' = base /\ drained' = drained
      /\ total + len <= MaxTotal /\ (len = 0 => last)
  BY <1>1 DEF HandleReceive, Buffer
<1> HIDE DEF new
<1>3. Outstanding' = Outstanding \cup {new}
  BY <1>2 DEF Outstanding
<1>4. \A b \in Outstanding : /\ b.off \in Nat /\ b.end \in Nat
                             /\ b.off < b.end /\ b.end <= total /\ ~ b.fin
  BY <1>1 DEF BuffersShaped, Buffer
<1>5. new \notin Outstanding
  BY <1>1, <1>2, <1>4
<1>6. Bytes(new) = total .. ((total + len) - 1)
  BY <1>2 DEF Bytes
<1>7. ASSUME NEW b \in Outstanding, NEW n \in Bytes(b) PROVE n \notin Bytes(new)
  <2>1. n < total
    BY <1>1, <1>4 DEF Bytes
  <2> QED BY <1>1, <1>6, <2>1
<1>8. BuffersShaped'
  BY <1>1, <1>2, <1>3, <1>4 DEF BuffersShaped
<1>9. BuffersApart'
  <2>1. queue' \cap held' = {}
    BY <1>2, <1>5 DEF BuffersApart, Outstanding
  <2>2. \A b, c \in Outstanding' : b # c => Bytes(b) \cap Bytes(c) = {}
    <3> USE DEF BuffersApart
    <3> QED BY <1>3, <1>7
  <2> QED BY <2>1, <2>2 DEF BuffersApart, Bytes
<1>10. BytesAccounted'
  <2>1. ASSUME NEW n \in 0 .. (total' - 1)
        PROVE  n \in done' \/ \E b \in Outstanding' : n \in Bytes(b)
    <3>1. CASE n \in 0 .. (total - 1)
      BY <1>2, <1>3, <3>1 DEF BytesAccounted
    <3>2. CASE n \notin 0 .. (total - 1)
      BY <1>1, <1>2, <1>3, <1>6, <3>2
    <3> QED BY <3>1, <3>2
  <2>2. done' \subseteq 0 .. (total' - 1)
    BY <1>1, <1>2 DEF BytesAccounted
  <2>3. Bytes(new) \cap done = {}
    BY <1>1, <1>6 DEF BytesAccounted
  <2>4. \A b \in Outstanding' : Bytes(b) \cap done' = {}
    BY <1>2, <1>3, <2>3 DEF BytesAccounted
  <2> QED BY <2>1, <2>2, <2>4 DEF BytesAccounted, Bytes
<1>11. CursorAtPrefix'
  BY <1>1, <1>2 DEF CursorAtPrefix, IsPrefixEnd
<1>12. MsQuicTold'
  <2>1. fin' => cursor' < total' \/ EmptyFin(new)
    <3>1. CASE len = 0
      BY <1>2, <3>1, <1>1 DEF EmptyFin
    <3>2. CASE len # 0
      BY <1>1, <1>2, <3>2 DEF CursorAtPrefix
    <3> QED BY <3>1, <3>2
  <2>2. new \in Outstanding'
    BY <1>3
  <2> QED BY <1>1, <1>2, <2>1, <2>2 DEF MsQuicTold, EmptyFin
<1>13. (total <= MaxTotal)'
  BY <1>2, StreamRecvAssumption
<1> QED BY <1>1, <1>2, <1>8, <1>9, <1>10, <1>11, <1>12, <1>13 DEF TypeOK

LEMMA DropAcct ==
  ASSUME AcctInv, NEW b \in held, Drop(b)
  PROVE  AcctInv'
<1>1. /\ ~ closed /\ b \in Outstanding /\ b \notin queue
      /\ held' = held \ {b} /\ queue' = queue /\ Register({b}, TRUE)
      /\ UNCHANGED <<total, fin, closed>>
  BY DEF Drop, AcctInv, MsQuicTold, BuffersApart, Outstanding
<1>2. Outstanding' = Outstanding \ {b}
  BY <1>1 DEF Outstanding
<1>3. /\ BuffersShaped' /\ BuffersApart' /\ BytesAccounted'
      /\ CursorAtPrefix' /\ MsQuicTold'
      /\ done' \subseteq 0 .. (MaxTotal - 1)
      /\ cursor' \in Nat /\ base' \in Nat /\ drained' \in BOOLEAN
  <2>1. closed \in BOOLEAN
    BY DEF AcctInv, TypeOK
  <2> QED BY <1>1, <1>2, <2>1, RegisterKeeps
<1>4. TypeOK'
  BY <1>1, <1>3 DEF AcctInv, TypeOK, Drop, flags, tasks
<1> QED BY <1>1, <1>3, <1>4 DEF AcctInv

LEMMA ShutdownCompleteAcct ==
  ASSUME AcctInv, NEW c \in BOOLEAN, HandleShutdownComplete(c)
  PROVE  AcctInv'
<1>1. /\ Register(queue, ~ closed) /\ queue' = {} /\ held' = held
      /\ UNCHANGED <<total, fin, closed>>
  BY DEF HandleShutdownComplete
<1>2. Outstanding' = Outstanding \ queue /\ queue \subseteq Outstanding
  BY <1>1 DEF Outstanding, AcctInv, BuffersApart
<1>3. /\ BuffersShaped' /\ BuffersApart' /\ BytesAccounted'
      /\ CursorAtPrefix' /\ MsQuicTold'
      /\ done' \subseteq 0 .. (MaxTotal - 1)
      /\ cursor' \in Nat /\ base' \in Nat /\ drained' \in BOOLEAN
  <2>1. (~ closed) \in BOOLEAN
    BY DEF AcctInv, TypeOK
  <2> DEFINE call == ~ closed
  <2>2. call \in BOOLEAN /\ Register(queue, call) /\ (call <=> ~ closed)
    BY <1>1, <2>1
  <2>3. queue' \subseteq queue /\ held' \subseteq held
    BY <1>1
  <2> HIDE DEF call
  <2> QED BY <1>1, <1>2, <2>2, <2>3, RegisterKeeps
<1>4. TypeOK'
  BY <1>1, <1>3 DEF AcctInv, TypeOK, HandleShutdownComplete, Wake
<1> QED BY <1>1, <1>3, <1>4 DEF AcctInv

LEMMA PollReadAcct ==
  ASSUME AcctInv, NEW t \in Tasks, NEW k \in 1..MaxLen, PollRead(t, k)
  PROVE  AcctInv'
<1>1. /\ ~ closed /\ \E bs \in SUBSET queue : TakeOut(bs)
      /\ UNCHANGED <<done, cursor, total, fin, base, drained, closed>>
  <2>1. CASE TakeOut({b \in queue : b.end < read + k})
    BY <2>1 DEF PollRead, MayRead
  <2>2. CASE TakeOut(queue)
    BY <2>2 DEF PollRead, MayRead
  <2> QED BY <2>1, <2>2 DEF PollRead
<1>2. /\ BuffersShaped' /\ BuffersApart' /\ BytesAccounted'
      /\ CursorAtPrefix' /\ MsQuicTold'
      /\ queue' \subseteq Buffer /\ held' \subseteq Buffer
  BY <1>1, TakeOutKeeps
<1>3. read' \in Nat
  <2>1. k \in Nat
    BY StreamRecvAssumption
  <2> QED BY <2>1 DEF PollRead, AcctInv, TypeOK
<1>4. /\ recvState' \in {"StartComplete", "Shutdown", "ShutdownComplete"}
      /\ eof' \in BOOLEAN
  BY DEF PollRead, AcctInv, TypeOK
<1>5. /\ waiters' \subseteq Tasks /\ op' \in [Tasks -> {"none", "read"}]
      /\ woken' \in [Tasks -> BOOLEAN]
  BY DEF PollRead, Return, Park, AcctInv, TypeOK
<1>6. UNCHANGED <<flags, aborted, native>>
  BY DEF PollRead
<1>7. TypeOK'
  BY <1>1, <1>2, <1>3, <1>4, <1>5, <1>6 DEF AcctInv, TypeOK, flags
<1> QED BY <1>1, <1>2, <1>7 DEF AcctInv

LEMMA PollReadChunkAcct ==
  ASSUME AcctInv, NEW t \in Tasks, PollReadChunk(t)
  PROVE  AcctInv'
<1>1. UNCHANGED <<done, cursor, total, fin, base, drained, closed, flags, aborted,
                  eof, native>> /\ ~ closed
  BY DEF PollReadChunk, MayRead
<1>2. CASE queue = {} /\ Park(t) /\ UNCHANGED <<recvState, queue, held, read>>
  <2>1. UNCHANGED <<accounting, closed>>
    BY <1>1, <1>2 DEF accounting
  <2>2. TypeOK'
    BY <1>1, <1>2 DEF AcctInv, TypeOK, Park, flags
  <2> QED BY <2>1, <2>2, AccountsUnchanged DEF AcctInv
<1>3. ASSUME NEW b \in queue, read' = b.end, TakeOut({b}), Return(t),
             recvState' = IF b.fin THEN "Shutdown" ELSE recvState
      PROVE  AcctInv'
  <2>1. /\ BuffersShaped' /\ BuffersApart' /\ BytesAccounted'
        /\ CursorAtPrefix' /\ MsQuicTold'
        /\ queue' \subseteq Buffer /\ held' \subseteq Buffer
    BY <1>1, <1>3, TakeOutKeeps
  <2>2. read' \in Nat
    BY <1>3 DEF AcctInv, TypeOK, Buffer
  <2>3. TypeOK'
    BY <1>1, <1>3, <2>1, <2>2 DEF AcctInv, TypeOK, Return, flags
  <2> QED BY <1>1, <2>1, <2>3 DEF AcctInv
<1> QED BY <1>2, <1>3 DEF PollReadChunk

LEMMA CloseAcct == AcctInv /\ Close => AcctInv'
<1> SUFFICES ASSUME AcctInv, Close PROVE AcctInv'
  OBVIOUS
<1> USE DEF AcctInv, Close, accounting
<1>1. Outstanding' = Outstanding
  BY DEF Outstanding
<1>2. BuffersShaped' /\ CursorAtPrefix'
  BY <1>1 DEF BuffersShaped, CursorAtPrefix, IsPrefixEnd
<1>3. BuffersApart' /\ BytesAccounted'
  BY <1>1 DEF BuffersApart, BytesAccounted, Bytes
<1>4. MsQuicTold'
  BY DEF MsQuicTold
<1>5. TypeOK'
  BY DEF TypeOK, flags, tasks
<1> QED BY <1>2, <1>3, <1>4, <1>5

LEMMA StepAcct == AcctInv /\ [Next]_vars => AcctInv'
<1> SUFFICES ASSUME AcctInv, [Next]_vars PROVE AcctInv'
  OBVIOUS
<1> DEFINE Quiet == UNCHANGED <<accounting, closed>> /\ TypeOK'
<1>0. ASSUME Quiet PROVE AcctInv'
  BY <1>0, AccountsUnchanged DEF AcctInv
<1>1. ASSUME NEW b \in held, Drop(b) PROVE AcctInv'
  BY <1>1, DropAcct
<1>2. ASSUME NEW t \in Tasks, NEW k \in 1..MaxLen, PollRead(t, k) PROVE AcctInv'
  BY <1>2, PollReadAcct
<1>3. ASSUME NEW t \in Tasks, PollReadChunk(t) PROVE AcctInv'
  BY <1>3, PollReadChunkAcct
<1>4. ASSUME NEW t \in Tasks, PollReadEnded(t) PROVE Quiet
  BY <1>4 DEF PollReadEnded, Return, AcctInv, TypeOK, accounting, flags
<1>5. ASSUME NEW t \in Tasks, Cancel(t) PROVE Quiet
  BY <1>5 DEF Cancel, Return, AcctInv, TypeOK, accounting, flags
<1>6. ASSUME PollAbortRead PROVE Quiet
  BY <1>6 DEF PollAbortRead, BeginAbort, Wake, AcctInv, TypeOK, accounting, flags
<1>7. ASSUME AbortRead PROVE Quiet
  BY <1>7 DEF AbortRead, BeginAbort, AcctInv, TypeOK, accounting, flags, tasks
<1>8. ASSUME Close PROVE AcctInv'
  BY <1>8, CloseAcct
<1>9. ASSUME NEW len \in 0..MaxLen, NEW last \in BOOLEAN, HandleReceive(len, last)
      PROVE  AcctInv'
  <2>1. /\ BuffersShaped' /\ BuffersApart' /\ BytesAccounted'
        /\ CursorAtPrefix' /\ MsQuicTold' /\ (total <= MaxTotal)'
        /\ queue' \subseteq Buffer /\ total' \in Nat /\ fin' \in BOOLEAN
    BY <1>9, ReceiveKeeps
  <2>2. TypeOK'
    BY <1>9, <2>1 DEF HandleReceive, Wake, AcctInv, TypeOK, flags
  <2> QED BY <2>1, <2>2 DEF AcctInv
<1>10. ASSUME HandlePeerSendShutdown PROVE Quiet
  BY <1>10 DEF HandlePeerSendShutdown, Wake, AcctInv, TypeOK, accounting, flags
<1>11. ASSUME HandlePeerSendAborted PROVE Quiet
  BY <1>11 DEF HandlePeerSendAborted, Wake, AcctInv, TypeOK, accounting
<1>12. ASSUME HandleCancelOnLoss PROVE Quiet
  BY <1>12 DEF HandleCancelOnLoss, AcctInv, TypeOK, accounting, tasks
<1>13. ASSUME FinishAbort PROVE Quiet
  BY <1>13 DEF FinishAbort, AcctInv, TypeOK, accounting, flags, tasks
<1>14. ASSUME NEW c \in BOOLEAN, HandleShutdownComplete(c) PROVE AcctInv'
  BY <1>14, ShutdownCompleteAcct
<1>15. ASSUME UNCHANGED vars PROVE Quiet
  BY <1>15 DEF vars, AcctInv, TypeOK, accounting, flags, tasks
<1> HIDE DEF Quiet
<1> QED
  BY <1>0, <1>1, <1>2, <1>3, <1>4, <1>5, <1>6, <1>7, <1>8, <1>9, <1>10, <1>11,
     <1>12, <1>13, <1>14, <1>15 DEF Next

\* The accounts of every reachable state are in order: the inductive invariant
\* of register_read_complete.
THEOREM Accounts == Spec => []AcctInv
  BY InitAcct, StepAcct, PTL DEF Spec

\* stream.rs: every field of the stream keeps its type.
THEOREM TypeCorrect == Spec => []TypeOK
  BY Accounts, PTL DEF AcctInv

LEMMA CompletedPrefix ==
  ASSUME AcctInv
  PROVE  /\ cursor \in Nat /\ total \in Nat /\ cursor <= total
         /\ cursor \notin done
         /\ \A n \in Nat : n < cursor => n \in done
<1>1. cursor \in Nat /\ total \in Nat
  BY DEF AcctInv, TypeOK
<1> QED BY <1>1 DEF AcctInv, CursorAtPrefix, IsPrefixEnd

\* What is lent is not complete, and MsQuic was told of the completed front only.
LEMMA AcctSafe == AcctInv => NoUseAfterFree
<1> SUFFICES ASSUME AcctInv, NEW b \in Outstanding, NEW n \in Bytes(b)
             PROVE  base <= n
  BY DEF NoUseAfterFree
<1>1. b \in Buffer /\ base \in Nat
  BY DEF AcctInv, TypeOK, Outstanding
<1>2. n \in Nat /\ n \notin done
  BY <1>1, BytesMember DEF AcctInv, BytesAccounted
<1>3. cursor <= n
  BY <1>2, CompletedPrefix
<1> QED BY <1>1, <1>2, <1>3, CompletedPrefix DEF AcctInv, MsQuicTold

\* register_read_complete (stream.rs:1185): in whatever order chunks are
\* dropped, MsQuic is not told to reclaim a byte that a live buffer points at.
THEOREM SafeReclaim == Spec => []NoUseAfterFree
  BY Accounts, AcctSafe, PTL

\* The same accounting gives everything back: with no buffer outstanding all
\* the bytes are completed and so is the end of the stream, an empty one too.
THEOREM FullReclaim == Spec => []AllReclaimed
<1>1. AcctInv => AllReclaimed
  <2> SUFFICES ASSUME AcctInv, Outstanding = {}, ~ closed
               PROVE  base = total /\ (fin => drained)
    BY DEF AllReclaimed
  <2>1. \A n \in 0 .. (total - 1) : n \in done
    BY DEF AcctInv, BytesAccounted
  <2>2. cursor = total
    BY <2>1, CompletedPrefix
  <2>3. total \in Nat /\ base = cursor
    BY DEF AcctInv, MsQuicTold, TypeOK
  <2> QED BY <2>2, <2>3 DEF AcctInv, MsQuicTold
<1> QED BY <1>1, Accounts, PTL

\* stream.rs:1494: a step of a stream that is closing calls MsQuic no more.
THEOREM NoLateCall == Spec => NoCallWhileClosing
<1>1. AcctInv /\ [Next]_vars => [closed => UNCHANGED <<base, drained>>]_vars
  <2> SUFFICES ASSUME AcctInv, Next, closed PROVE UNCHANGED <<base, drained>>
    OBVIOUS
  <2> USE DEF accounting
  <2>1. ASSUME NEW b \in held, Drop(b) PROVE FALSE
    BY <2>1 DEF AcctInv, MsQuicTold
  <2>2. ASSUME NEW c \in BOOLEAN, HandleShutdownComplete(c)
        PROVE  UNCHANGED <<base, drained>>
    BY <2>2 DEF HandleShutdownComplete, Register
  <2>3. ASSUME NEW t \in Tasks, NEW k \in 1..MaxLen, PollRead(t, k) PROVE FALSE
    BY <2>3 DEF PollRead, MayRead
  <2>4. ASSUME NEW t \in Tasks, PollReadChunk(t) \/ PollReadEnded(t) PROVE FALSE
    BY <2>4 DEF PollReadChunk, PollReadEnded, MayRead
  <2>5. ASSUME NEW t \in Tasks, Cancel(t) PROVE UNCHANGED <<base, drained>>
    BY <2>5 DEF Cancel
  <2>6. ASSUME PollAbortRead \/ AbortRead \/ Close PROVE FALSE
    BY <2>6 DEF PollAbortRead, AbortRead, BeginAbort, Close
  <2>7. ASSUME NEW len \in 0..MaxLen, NEW last \in BOOLEAN, HandleReceive(len, last)
        PROVE  FALSE
    BY <2>7 DEF HandleReceive
  <2>8. ASSUME \/ HandlePeerSendShutdown \/ HandlePeerSendAborted
               \/ HandleCancelOnLoss \/ FinishAbort
        PROVE  FALSE
    BY <2>8 DEF HandlePeerSendShutdown, HandlePeerSendAborted, HandleCancelOnLoss,
                FinishAbort
  <2> QED BY <2>1, <2>2, <2>3, <2>4, <2>5, <2>6, <2>7, <2>8 DEF Next
<1> QED BY <1>1, Accounts, PTL DEF Spec, NoCallWhileClosing

--------------------------------------------------------------------------------
(* The end of the stream *)

LEMMA InitRead == Init => ReadInv
<1> SUFFICES ASSUME Init PROVE ReadInv
  OBVIOUS
<1>1. GivenInOrder /\ EndIsTrue /\ NoFalseEof
  BY DEF Init, GivenInOrder, EndIsTrue, NoFalseEof
<1> QED BY <1>1, InitAcct DEF ReadInv

\* The stream was reclaimed to its end only if it was read to its end.
LEMMA DrainedIsRead ==
  ASSUME ReadInv, drained, native # "done"
  PROVE  fin /\ read = total
<1>1. fin /\ base = total /\ cursor = total /\ read \in Nat /\ total \in Nat
  BY CompletedPrefix DEF ReadInv, AcctInv, MsQuicTold, TypeOK
<1>2. \A n \in Nat : n < total => n < read
  BY <1>1, CompletedPrefix DEF ReadInv, GivenInOrder
<1>3. CASE total = 0
  BY <1>1, <1>3 DEF ReadInv, GivenInOrder
<1>4. CASE total # 0
  <2>1. total - 1 \in Nat /\ total - 1 < total
    BY <1>1, <1>4
  <2>2. total - 1 < read
    BY <1>2, <2>1
  <2> QED BY <1>1, <2>2 DEF ReadInv, GivenInOrder
<1> QED BY <1>3, <1>4

\* Of two outstanding buffers the one that starts first ends first.
LEMMA OrderedEnds ==
  ASSUME AcctInv, NEW b \in Outstanding, NEW c \in Outstanding, b.off <= c.off
  PROVE  b.end <= c.end
<1>1. /\ b.off \in Nat /\ b.end \in Nat /\ c.off \in Nat /\ c.end \in Nat
      /\ total \in Nat /\ b.end <= total /\ c.off <= c.end /\ c.end <= total
      /\ c.off = c.end => c.end = total
  BY DEF AcctInv, TypeOK, BuffersShaped, Outstanding, Buffer
<1>2. SUFFICES ASSUME c.end < b.end PROVE FALSE
  BY <1>1
<1>3. c.off < c.end
  BY <1>1, <1>2
<1>4. c.off \in Bytes(b) /\ c.off \in Bytes(c) /\ b # c
  BY <1>1, <1>2, <1>3 DEF Bytes
<1> QED BY <1>4 DEF AcctInv, BuffersApart

LEMMA StepRead == ReadInv /\ [Next]_vars => GivenInOrder' /\ EndIsTrue' /\ NoFalseEof'
<1> SUFFICES ASSUME ReadInv, [Next]_vars
             PROVE  GivenInOrder' /\ EndIsTrue' /\ NoFalseEof'
  OBVIOUS
<1> USE DEF ReadInv
<1>0. /\ read \in Nat /\ total \in Nat /\ read <= total /\ MaxLen \in Nat
      /\ queue \subseteq Buffer /\ held \subseteq Buffer
      /\ \A b \in Outstanding : b.off \in Nat /\ b.end \in Nat /\ b.end <= total
      /\ \A b \in Outstanding : b.fin => fin /\ b.end = total
      /\ done \subseteq 0 .. (total - 1)
  BY StreamRecvAssumption
     DEF AcctInv, TypeOK, GivenInOrder, BuffersShaped, BytesAccounted, Outstanding, Buffer
<1>1. ASSUME NEW b \in held, Drop(b)
      PROVE  GivenInOrder' /\ EndIsTrue' /\ NoFalseEof'
  <2>1. done' = done \cup Bytes(b)
    BY <1>1 DEF Drop, Register
  <2>2. \A n \in Bytes(b) : n < read
    BY <1>0 DEF GivenInOrder, Bytes, Outstanding
  <2> QED BY <1>1, <2>1, <2>2 DEF Drop, flags, GivenInOrder, EndIsTrue, NoFalseEof
<1>2. ASSUME NEW t \in Tasks, NEW k \in 1..MaxLen, PollRead(t, k)
      PROVE  GivenInOrder' /\ EndIsTrue' /\ NoFalseEof'
  <2>0. /\ UNCHANGED <<done, total, fin, flags, aborted, closed, native>>
        /\ recvState = "StartComplete" /\ k \in Nat
    BY <1>0, <1>2 DEF PollRead
  <2>1. CASE /\ read + k <= total
             /\ read' = read + k
             /\ TakeOut({b \in queue : b.end < read + k})
             /\ UNCHANGED <<recvState, eof>>
    <3>1. GivenInOrder'
      BY <1>0, <2>0, <2>1 DEF GivenInOrder, TakeOut, Outstanding
    <3>2. (fin /\ read = total) => FALSE
      BY <1>0, <2>0, <2>1
    <3> QED BY <2>0, <2>1, <3>1, <3>2 DEF EndIsTrue, NoFalseEof, flags
  <2>2. CASE /\ read + k > total
             /\ read' = total
             /\ TakeOut(queue)
             /\ \/ /\ \E b \in queue : b.fin
                   /\ recvState' = "Shutdown"
                   /\ eof' = (eof \/ read = total)
                \/ UNCHANGED <<recvState, eof>>
    <3>1. GivenInOrder'
      BY <1>0, <2>0, <2>2 DEF GivenInOrder, TakeOut, Outstanding
    <3>2. recvState' = "Shutdown" => fin
      BY <1>0, <2>0, <2>2 DEF Outstanding
    <3>3. EndIsTrue'
      BY <2>0, <2>2, <3>2 DEF EndIsTrue, flags
    <3>4. NoFalseEof'
      BY <2>0, <2>2, <1>0 DEF NoFalseEof, Outstanding
    <3> QED BY <3>1, <3>3, <3>4
  <2> QED BY <1>2, <2>1, <2>2 DEF PollRead
<1>3. ASSUME NEW t \in Tasks, PollReadChunk(t)
      PROVE  GivenInOrder' /\ EndIsTrue' /\ NoFalseEof'
  <2>0. /\ UNCHANGED <<done, total, fin, flags, aborted, eof, closed, native>>
        /\ recvState = "StartComplete"
    BY <1>3 DEF PollReadChunk
  <2>1. CASE UNCHANGED <<recvState, queue, held, read>>
    BY <2>0, <2>1 DEF GivenInOrder, EndIsTrue, NoFalseEof, flags
  <2>2. ASSUME NEW b \in queue, \A c \in queue : b.off <= c.off, read' = b.end,
               TakeOut({b}), recvState' = IF b.fin THEN "Shutdown" ELSE recvState
        PROVE  GivenInOrder' /\ EndIsTrue' /\ NoFalseEof'
    <3>1. \A c \in queue : b.end <= c.end
      BY <2>2, OrderedEnds DEF Outstanding
    <3>2. read <= b.end /\ b.end <= total /\ b.end \in Nat
      BY <1>0 DEF GivenInOrder, Outstanding
    <3>3. GivenInOrder'
      BY <1>0, <2>0, <2>2, <3>1, <3>2 DEF GivenInOrder, TakeOut, Outstanding
    <3>4. read = total => read' = total
      BY <1>0, <2>2, <3>2
    <3>5. recvState' = "Shutdown" => fin /\ read' = total
      BY <1>0, <2>0, <2>2 DEF Outstanding
    <3> QED BY <2>0, <2>2, <3>3, <3>4, <3>5 DEF EndIsTrue, NoFalseEof, flags
  <2> QED BY <1>3, <2>1, <2>2 DEF PollReadChunk
<1>4. ASSUME NEW t \in Tasks, PollReadEnded(t)
      PROVE  GivenInOrder' /\ EndIsTrue' /\ NoFalseEof'
  BY <1>4 DEF PollReadEnded, MayRead, accounting, flags, GivenInOrder, EndIsTrue, NoFalseEof
<1>5. ASSUME NEW t \in Tasks, Cancel(t)
      PROVE  GivenInOrder' /\ EndIsTrue' /\ NoFalseEof'
  BY <1>5 DEF Cancel, accounting, flags, GivenInOrder, EndIsTrue, NoFalseEof
<1>6. ASSUME PollAbortRead \/ AbortRead
      PROVE  GivenInOrder' /\ EndIsTrue' /\ NoFalseEof'
  BY <1>6 DEF PollAbortRead, AbortRead, BeginAbort, accounting, flags, GivenInOrder,
              EndIsTrue, NoFalseEof
<1>7. ASSUME Close
      PROVE  GivenInOrder' /\ EndIsTrue' /\ NoFalseEof'
  BY <1>7 DEF Close, accounting, flags, GivenInOrder, EndIsTrue, NoFalseEof
<1>8. ASSUME NEW len \in 0..MaxLen, NEW last \in BOOLEAN, HandleReceive(len, last)
      PROVE  GivenInOrder' /\ EndIsTrue' /\ NoFalseEof'
  <2> DEFINE new == [off |-> total, end |-> total + len, fin |-> last]
  <2>1. /\ queue' = queue \cup {new} /\ new.end = total + len /\ total' = total + len
        /\ len \in Nat /\ ~ fin
        /\ UNCHANGED <<recvState, done, held, read, flags, aborted, eof, closed, native>>
    BY <1>0, <1>8 DEF HandleReceive
  <2> HIDE DEF new
  <2>2. GivenInOrder'
    BY <1>0, <2>1 DEF GivenInOrder
  <2> QED BY <2>1, <2>2 DEF flags, EndIsTrue, NoFalseEof
<1>9. ASSUME HandlePeerSendShutdown
      PROVE  GivenInOrder' /\ EndIsTrue' /\ NoFalseEof'
  <2>1. fin /\ read = total
    BY <1>9, DrainedIsRead DEF HandlePeerSendShutdown
  <2> QED BY <1>9, <2>1 DEF HandlePeerSendShutdown, accounting, flags, GivenInOrder,
                            EndIsTrue, NoFalseEof
<1>10. ASSUME HandlePeerSendAborted \/ HandleCancelOnLoss \/ FinishAbort
      PROVE  GivenInOrder' /\ EndIsTrue' /\ NoFalseEof'
  BY <1>10 DEF HandlePeerSendAborted, HandleCancelOnLoss, FinishAbort, accounting, flags,
               GivenInOrder, EndIsTrue, NoFalseEof
<1>11. ASSUME NEW c \in BOOLEAN, HandleShutdownComplete(c)
      PROVE  GivenInOrder' /\ EndIsTrue' /\ NoFalseEof'
  <2>1. /\ native' = "done" /\ queue' = {} /\ recvState' = "ShutdownComplete"
        /\ connError' = c
        /\ UNCHANGED <<held, read, total, fin, recvError, cancelled, aborted, eof, closed>>
        /\ native = "recvClosed" \/ c \/ closed
    BY <1>11 DEF HandleShutdownComplete
  <2>2. GivenInOrder' /\ NoFalseEof'
    BY <2>1 DEF GivenInOrder, NoFalseEof
  <2>3. EndIsTrue'
    <3>1. native = "recvClosed" => ~ connError
      BY DEF EndIsTrue
    <3> QED BY <2>1, <3>1 DEF EndIsTrue
  <2> QED BY <2>2, <2>3
<1>12. ASSUME UNCHANGED vars
      PROVE  GivenInOrder' /\ EndIsTrue' /\ NoFalseEof'
  BY <1>12 DEF vars, accounting, flags, GivenInOrder, EndIsTrue, NoFalseEof
<1> QED
  BY <1>1, <1>2, <1>3, <1>4, <1>5, <1>6, <1>7, <1>8, <1>9, <1>10, <1>11, <1>12 DEF Next

\* Reads give the bytes out in order, and the stream knows how it ended.
THEOREM ReadsInOrder == Spec => []ReadInv
<1>1. ReadInv /\ [Next]_vars => ReadInv'
  BY StepAcct, StepRead DEF ReadInv
<1> QED BY <1>1, InitRead, PTL DEF Spec

\* poll_read_generic (stream.rs:737): no read takes a reset, a teardown or a
\* lost connection for the end of the stream.
THEOREM TrueEof == Spec => []NoFalseEof
  BY ReadsInOrder, PTL DEF ReadInv

--------------------------------------------------------------------------------
(* Wakeups *)

LEMMA WakeAll ==
  ASSUME TypeOK, NoLostWakeup, Wake
  PROVE  \A t \in Tasks : op'[t] = "read" => woken'[t]
  BY DEF TypeOK, NoLostWakeup, Wake

LEMMA StepWakeup == AcctInv /\ NoLostWakeup /\ [Next]_vars => NoLostWakeup'
<1> SUFFICES ASSUME AcctInv, NoLostWakeup, [Next]_vars PROVE NoLostWakeup'
  OBVIOUS
<1>0. TypeOK
  BY DEF AcctInv
<1> DEFINE Parked(t) == op[t] = "read" /\ ~ woken[t]
           Fine(t) == t \in waiters /\ recvState = "StartComplete" /\ queue = {}
<1>1. SUFFICES ASSUME NEW t \in Tasks, Parked(t)' PROVE Fine(t)'
  BY DEF NoLostWakeup
<1>2. Parked(t) => Fine(t)
  BY DEF NoLostWakeup
<1>3. CASE Wake
  BY <1>0, <1>1, <1>3, WakeAll
<1>5. ASSUME NEW s \in Tasks, Return(s), recvState' = recvState \/ queue # {},
             queue' \subseteq queue
      PROVE  Fine(t)'
  <2>1. t # s /\ Parked(t)
    BY <1>0, <1>1, <1>5 DEF Return, TypeOK
  <2> QED BY <1>2, <1>5, <2>1 DEF Return
<1>6. ASSUME NEW s \in Tasks, Park(s), recvState = "StartComplete", queue' = {},
             UNCHANGED recvState
      PROVE  Fine(t)'
  <2>1. CASE t = s
    BY <1>6, <2>1 DEF Park
  <2>2. CASE t # s
    BY <1>0, <1>1, <1>2, <1>6, <2>2 DEF Park, TypeOK
  <2> QED BY <2>1, <2>2
<1> HIDE DEF Fine, Parked
<1>7. ASSUME NEW b \in held, Drop(b) PROVE Fine(t)'
  BY <1>1, <1>2, <1>7 DEF Drop, tasks, Fine, Parked
<1>8. ASSUME NEW s \in Tasks, NEW k \in 1..MaxLen, PollRead(s, k) PROVE Fine(t)'
  <2>1. recvState = "StartComplete"
    BY <1>8 DEF PollRead
  <2>2. CASE Return(s) /\ (recvState' = recvState \/ \E b \in queue : b.fin)
             /\ \E bs \in SUBSET queue : TakeOut(bs)
    <3>1. queue' \subseteq queue /\ (recvState' = recvState \/ queue # {})
      BY <2>2 DEF TakeOut
    <3> QED BY <1>5, <2>1, <2>2, <3>1
  <2>3. CASE Park(s) /\ UNCHANGED recvState /\ TakeOut(queue)
    BY <1>6, <2>1, <2>3 DEF TakeOut
  <2> QED BY <1>8, <2>2, <2>3 DEF PollRead
<1>9. ASSUME NEW s \in Tasks, PollReadChunk(s) PROVE Fine(t)'
  <2>1. recvState = "StartComplete"
    BY <1>9 DEF PollReadChunk
  <2>2. CASE queue = {} /\ Park(s) /\ UNCHANGED <<recvState, queue>>
    BY <1>6, <2>1, <2>2
  <2>3. CASE Return(s) /\ \E b \in queue : TakeOut({b})
    BY <1>5, <2>1, <2>3 DEF TakeOut
  <2> QED BY <1>9, <2>2, <2>3 DEF PollReadChunk
<1>10. ASSUME NEW s \in Tasks, PollReadEnded(s) PROVE Fine(t)'
  BY <1>5, <1>10 DEF PollReadEnded, accounting
<1>11. ASSUME NEW s \in Tasks, Cancel(s) PROVE Fine(t)'
  BY <1>5, <1>11 DEF Cancel, accounting
<1>12. ASSUME AbortRead PROVE Fine(t)'
  BY <1>1, <1>12 DEF AbortRead, BeginAbort, tasks, Parked
<1>13. ASSUME Close PROVE Fine(t)'
  BY <1>1, <1>2, <1>13 DEF Close, accounting, tasks, Fine, Parked
<1>14. ASSUME HandleCancelOnLoss \/ FinishAbort PROVE Fine(t)'
  BY <1>1, <1>2, <1>14 DEF HandleCancelOnLoss, FinishAbort, accounting, tasks, Fine, Parked
<1>15. ASSUME UNCHANGED vars PROVE Fine(t)'
  BY <1>1, <1>2, <1>15 DEF vars, accounting, tasks, Fine, Parked
<1>16. ASSUME \/ PollAbortRead \/ HandlePeerSendShutdown \/ HandlePeerSendAborted
              \/ \E len \in 0..MaxLen : \E last \in BOOLEAN : HandleReceive(len, last)
              \/ \E c \in BOOLEAN : HandleShutdownComplete(c)
       PROVE  Wake
  BY <1>16 DEF PollAbortRead, HandlePeerSendShutdown, HandlePeerSendAborted,
               HandleReceive, HandleShutdownComplete
<1> QED
  BY <1>3, <1>7, <1>8, <1>9, <1>10, <1>11, <1>12, <1>13, <1>14, <1>15, <1>16
  DEF Next, Fine

\* register_waker under the lock that the handlers take: whatever could let a
\* parked reader go on wakes it.
THEOREM ReadersWoken == Spec => []NoLostWakeup
<1>1. Init => NoLostWakeup
  BY DEF Init, NoLostWakeup
<1> QED BY <1>1, StepWakeup, Accounts, PTL DEF Spec

--------------------------------------------------------------------------------
(* The byte stream *)

AbortIsOver == aborted => recvState = "ShutdownComplete"

LEMMA AcctSafeNext == AcctInv' => NoUseAfterFree'
  BY AcctSafe, PTL

\* Both ways to complete buffers shrink what is lent and raise the mark in step.
LEMMA ReleaseStep ==
  ASSUME AcctInv, AcctInv', NEW bs \in SUBSET Outstanding, NEW mayCall \in BOOLEAN,
         Register(bs, mayCall), Outstanding' \subseteq Outstanding,
         UNCHANGED <<total, fin, read, eof, aborted>>
  PROVE  Stream!Release
<1> DEFINE lent == UNION {Bytes(b) : b \in Outstanding}
<1>1. lent' \subseteq lent
  BY DEF Bytes
<1>2. /\ base \in Nat /\ cursor \in Nat /\ cursor' \in Nat /\ total \in Nat
      /\ cursor <= cursor' /\ cursor' <= total
      /\ base <= cursor /\ base' <= cursor' /\ base' \in Nat
      /\ \/ cursor' = cursor /\ base' = base
         \/ base' = base + (cursor' - cursor)
         \/ base' = base
  <2>1. /\ cursor' \in Nat /\ cursor <= cursor' /\ cursor' <= total
        /\ mayCall \/ UNCHANGED <<base, drained>>
        /\ \/ cursor' = cursor /\ base' = base
           \/ base' = base + (cursor' - cursor)
           \/ ~ mayCall
    BY RegisterFacts
  <2> QED BY <2>1 DEF AcctInv, TypeOK, MsQuicTold
<1>a. base \in Nat /\ base' \in Nat /\ base' <= total
  BY <1>2
<1>b. \A x, y, c, d \in Nat : c <= d /\ y = x + (d - c) => x <= y
  OBVIOUS
<1>c. base <= base'
  <2>1. CASE base' = base
    BY <1>a, <2>1
  <2>2. CASE base' = base + (cursor' - cursor)
    <3>1. cursor \in Nat /\ cursor' \in Nat /\ cursor <= cursor' /\ base \in Nat
      BY <1>2
    <3> QED BY <1>a, <1>b, <2>2, <3>1
  <2> QED BY <1>2, <2>1, <2>2
<1>3. base' \in base .. total
  BY <1>2, <1>a, <1>c
<1>4. NoUseAfterFree'
  BY AcctSafeNext
<1>5. \A n \in lent' : base' <= n
  BY <1>4 DEF NoUseAfterFree, Bytes
<1> QED BY <1>1, <1>3, <1>5 DEF Stream!Release

LEMMA StepStream ==
  ReadInv /\ ReadInv' /\ AbortIsOver /\ [Next]_vars
    => [Stream!StreamNext]_(Stream!streamVars)
<1> SUFFICES ASSUME ReadInv, ReadInv', AbortIsOver, [Next]_vars
             PROVE  [Stream!StreamNext]_(Stream!streamVars)
  OBVIOUS
<1> USE DEF Stream!StreamNext, Stream!streamVars
<1> DEFINE lent == UNION {Bytes(b) : b \in Outstanding}
           Same == UNCHANGED <<total, fin, read, eof, aborted, base>> /\ lent' = lent
<1>0. /\ AcctInv /\ AcctInv' /\ NoFalseEof' /\ read \in Nat /\ total \in Nat
      /\ read <= total /\ read' <= total' /\ read' \in Nat
      /\ eof \in BOOLEAN /\ eof' \in BOOLEAN
  BY DEF ReadInv, AcctInv, TypeOK, GivenInOrder
<1>a. ASSUME Outstanding' = Outstanding PROVE lent' = lent
  BY <1>a DEF Bytes
<1>1. ASSUME NEW b \in held, Drop(b) PROVE Stream!Release
  <2>1. Register({b}, TRUE) /\ Outstanding' \subseteq Outstanding
        /\ UNCHANGED <<total, fin, read, eof, aborted>> /\ {b} \in SUBSET Outstanding
    BY <1>1 DEF Drop, Outstanding
  <2> QED BY <1>0, <2>1, ReleaseStep
<1>2. ASSUME NEW c \in BOOLEAN, HandleShutdownComplete(c) PROVE Stream!Release
  <2> DEFINE call == ~ closed
  <2>1. Register(queue, call) /\ Outstanding' \subseteq Outstanding
        /\ UNCHANGED <<total, fin, read, eof, aborted>> /\ queue \in SUBSET Outstanding
    BY <1>2 DEF HandleShutdownComplete, Outstanding
  <2>2. call \in BOOLEAN
    BY <1>0 DEF AcctInv, TypeOK
  <2> HIDE DEF call
  <2> QED BY <1>0, <2>1, <2>2, ReleaseStep
<1>3. ASSUME UNCHANGED <<total, fin, base, aborted>>, Outstanding' = Outstanding,
             recvState = "StartComplete" \/ read' = read, read <= read', eof => eof'
      PROVE  Stream!Read
  <2>1. read' \in read .. total
    BY <1>0, <1>3
  <2>2. aborted => read' = read
    BY <1>3 DEF AbortIsOver
  <2>3. eof' => eof \/ aborted \/ (fin /\ read' = total)
    BY <1>0, <1>3 DEF NoFalseEof
  <2>4. lent' = lent
    BY <1>3, <1>a
  <2>5. eof' \in {eof, TRUE}
    BY <1>0, <1>3
  <2> QED BY <1>3, <2>1, <2>2, <2>3, <2>4, <2>5 DEF Stream!Read
<1>4. ASSUME NEW t \in Tasks, NEW k \in 1..MaxLen, PollRead(t, k) PROVE Stream!Read
  <2>1. UNCHANGED <<total, fin, base, aborted>> /\ recvState = "StartComplete"
        /\ (eof => eof') /\ k \in Nat
    BY <1>4, <1>0, StreamRecvAssumption DEF PollRead
  <2>2. Outstanding' = Outstanding
    BY <1>4 DEF PollRead, TakeOut, Outstanding
  <2>3. read <= read'
    BY <1>0, <1>4, <2>1 DEF PollRead
  <2> QED BY <1>3, <2>1, <2>2, <2>3
<1>5. ASSUME NEW t \in Tasks, PollReadChunk(t) PROVE Stream!Read
  <2>1. UNCHANGED <<total, fin, base, aborted, eof>> /\ recvState = "StartComplete"
    BY <1>5 DEF PollReadChunk
  <2>2. Outstanding' = Outstanding
    BY <1>5 DEF PollReadChunk, TakeOut, Outstanding
  <2>3. read <= read'
    <3>1. \A b \in queue : read <= b.end
      BY DEF ReadInv, GivenInOrder
    <3>2. read' = read \/ \E b \in queue : read' = b.end
      BY <1>5 DEF PollReadChunk
    <3> QED BY <1>0, <3>1, <3>2
  <2> QED BY <1>3, <2>1, <2>2, <2>3
<1>6. ASSUME NEW t \in Tasks, PollReadEnded(t) PROVE Stream!Read
  <2>1. UNCHANGED <<total, fin, base, aborted, read>> /\ Outstanding' = Outstanding
        /\ (eof => eof')
    BY <1>6 DEF PollReadEnded, accounting, Outstanding
  <2> QED BY <1>0, <1>3, <2>1
<1>7. ASSUME PollAbortRead \/ AbortRead PROVE Stream!Abandon
  <2>1. aborted' = TRUE /\ UNCHANGED <<total, fin, base, read, eof>>
        /\ Outstanding' = Outstanding
    BY <1>7 DEF PollAbortRead, AbortRead, BeginAbort, accounting, Outstanding
  <2> QED BY <1>a, <2>1 DEF Stream!Abandon
<1>8. ASSUME NEW len \in 0..MaxLen, NEW last \in BOOLEAN, HandleReceive(len, last)
      PROVE  Stream!Arrive
  <2> DEFINE new == [off |-> total, end |-> total + len, fin |-> last]
  <2>1. /\ ~ fin /\ total' = total + len /\ len \in Nat /\ fin' \in BOOLEAN
        /\ UNCHANGED <<read, eof, aborted, base>>
        /\ Outstanding' = Outstanding \cup {new}
    BY <1>8, StreamRecvAssumption DEF HandleReceive, Outstanding
  <2>2. Bytes(new) = total .. (total' - 1)
    BY <2>1 DEF Bytes
  <2> HIDE DEF new
  <2>3. lent' = lent \cup total .. (total' - 1)
    <3>1. lent' = UNION {Bytes(b) : b \in Outstanding'}
      BY DEF Bytes
    <3> QED BY <2>1, <2>2, <3>1
  <2> QED BY <1>0, <2>1, <2>3 DEF Stream!Arrive
<1>9. ASSUME \/ Close \/ HandlePeerSendShutdown \/ HandlePeerSendAborted
             \/ HandleCancelOnLoss \/ FinishAbort \/ UNCHANGED vars
             \/ \E t \in Tasks : Cancel(t)
      PROVE  Same
  <2>1. UNCHANGED <<total, fin, read, eof, aborted, base>> /\ Outstanding' = Outstanding
    BY <1>9 DEF Close, HandlePeerSendShutdown, HandlePeerSendAborted, HandleCancelOnLoss,
                FinishAbort, Cancel, vars, accounting, Outstanding
  <2> QED BY <1>a, <2>1
<1> QED BY <1>1, <1>2, <1>4, <1>5, <1>6, <1>7, <1>8, <1>9 DEF Next

LEMMA StepAbort == AbortIsOver /\ [Next]_vars => AbortIsOver'
<1> SUFFICES ASSUME AbortIsOver, [Next]_vars PROVE AbortIsOver'
  OBVIOUS
<1> USE DEF AbortIsOver
<1>1. ASSUME NEW b \in held, Drop(b) PROVE AbortIsOver'
  BY <1>1 DEF Drop
<1>2. ASSUME NEW t \in Tasks, NEW k \in 1..MaxLen, PollRead(t, k) PROVE AbortIsOver'
  BY <1>2 DEF PollRead
<1>3. ASSUME NEW t \in Tasks, PollReadChunk(t) \/ PollReadEnded(t) \/ Cancel(t)
      PROVE  AbortIsOver'
  BY <1>3 DEF PollReadChunk, PollReadEnded, Cancel
<1>4. ASSUME NEW len \in 0..MaxLen, NEW last \in BOOLEAN, HandleReceive(len, last)
      PROVE  AbortIsOver'
  BY <1>4 DEF HandleReceive
<1>5. ASSUME NEW c \in BOOLEAN, HandleShutdownComplete(c) PROVE AbortIsOver'
  BY <1>5 DEF HandleShutdownComplete
<1>6. ASSUME \/ PollAbortRead \/ AbortRead \/ Close \/ HandlePeerSendShutdown
             \/ HandlePeerSendAborted \/ HandleCancelOnLoss \/ FinishAbort
             \/ UNCHANGED vars
      PROVE  AbortIsOver'
  BY <1>6 DEF PollAbortRead, AbortRead, BeginAbort, Close, HandlePeerSendShutdown,
              HandlePeerSendAborted, HandleCancelOnLoss, FinishAbort, vars
<1> QED BY <1>1, <1>2, <1>3, <1>4, <1>5, <1>6 DEF Next

LEMMA InitStream == Init => Stream!StreamInit
  BY DEF Init, Stream!StreamInit, Outstanding, Bytes

\* stream.rs, the receive half: for any readers and any bounds its behaviours are
\* those of a byte stream whose memory is returned in order.
THEOREM RefinesByteStream == Spec => ImplementsByteStream
<1>1. Init => AbortIsOver
  BY DEF Init, AbortIsOver
<1>2. Spec => []AbortIsOver
  BY <1>1, StepAbort, PTL DEF Spec
<1> QED BY <1>2, ReadsInOrder, InitStream, StepStream, PTL
        DEF Spec, ImplementsByteStream, Stream!StreamSpec
================================================================================
