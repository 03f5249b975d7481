----------------------------- MODULE ListenerProofs -----------------------------
(***************************************************************************)
(* Proofs about Listener, for any set of tasks and any bounds: no task     *)
(* sleeps on a list that nothing will drain, the native stop that poll_stop *)
(* makes outside the lock is the one that is due until the registration is *)
(* shut down, and Finished is final.                                       *)
(***************************************************************************)
EXTENDS Listener, TLAPS

(* The inductive invariant *)

\* What the state says of the listener in MsQuic.  A run that looks started is
\* being stopped only after Registration::shutdown.  A stop that is decided is
\* under way, or a task is about to ask for it.
NativeMatches ==
  /\ state = "Open" <=> native = "idle"
  /\ state = "ShutdownComplete" <=> native = "stopped"
  /\ state = "StartComplete" => native = "running" \/ shutdown
  /\ (state = "Shutdown" /\ native = "running") => \E t \in Tasks : calling[t] = starts

\* A call is for a run that was.
CallsPast == \A t \in Tasks : calling[t] <= starts

\* A connection that is queued was offered.
QueueOffered == queue <= offered

Inv == /\ TypeOK /\ NativeMatches /\ StopIsDue /\ CallsPast /\ QueueOffered
       /\ NoLostWakeup /\ NothingAfterFinished

--------------------------------------------------------------------------------
LEMMA InitInv ==
  ASSUME Init
  PROVE  Inv
<1>1. MaxConns \in Nat /\ MaxStarts \in Nat
  BY ListenerAssumption
<1>2. TypeOK
  <2>1. op \in [Tasks -> {"none", "accept", "stop"}] /\ woken \in [Tasks -> BOOLEAN]
    BY DEF Init
  <2>2. queue \in 0..MaxConns /\ offered \in 0..MaxConns /\ starts \in 0..MaxStarts
    BY <1>1 DEF Init
  <2>3. /\ acceptWaiters \subseteq Tasks /\ stopWaiters \subseteq Tasks
        /\ calling \in [Tasks -> 0..MaxStarts]
    BY <1>1 DEF Init
  <2> QED BY <2>1, <2>2, <2>3 DEF Init, TypeOK
<1>3. NoLostWakeup
  BY DEF Init, NoLostWakeup
<1>4. NativeMatches /\ StopIsDue /\ CallsPast
  BY DEF Init, NativeMatches, StopIsDue, CallsPast
<1>5. QueueOffered /\ NothingAfterFinished
  BY DEF Init, QueueOffered, NothingAfterFinished
<1> QED BY <1>2, <1>3, <1>4, <1>5 DEF Inv

\* A task that returns leaves the wakeups of the others as they were.
LEMMA ReturnKeeps ==
  ASSUME NEW t \in Tasks, Return(t), TypeOK, NoLostWakeup,
         queue' <= queue, queue' \in Nat, state' = state
  PROVE  /\ NoLostWakeup'
         /\ acceptWaiters' \subseteq Tasks /\ stopWaiters' \subseteq Tasks
         /\ op' \in [Tasks -> {"none", "accept", "stop"}] /\ woken' \in [Tasks -> BOOLEAN]
<1>1. /\ op' \in [Tasks -> {"none", "accept", "stop"}] /\ woken' \in [Tasks -> BOOLEAN]
      /\ acceptWaiters' = acceptWaiters /\ stopWaiters' = stopWaiters
  BY DEF Return, TypeOK
<1>2. \A u \in Tasks : u # t => op'[u] = op[u] /\ woken'[u] = woken[u]
  BY DEF Return, TypeOK
<1>3. op'[t] = "none"
  BY DEF Return, TypeOK
<1>4. NoLostWakeup'
  BY <1>1, <1>2, <1>3 DEF NoLostWakeup, TypeOK
<1> QED BY <1>1, <1>4 DEF TypeOK

LEMMA StartInv ==
  ASSUME Inv, NEW t \in Tasks, Start(t)
  PROVE  Inv'
<1> USE DEF Inv
<1>1. starts' \in 0..MaxStarts
  BY ListenerAssumption DEF Start, TypeOK
<1>2. TypeOK'
  BY <1>1 DEF Start, TypeOK, tasks
<1>3. \A u \in Tasks : /\ calling'[u] = calling[u] /\ calling[u] \in Nat
                       /\ calling[u] <= starts /\ calling[u] # starts'
  <2>1. calling' = calling /\ starts' = starts + 1 /\ starts \in Nat
    BY DEF Start, TypeOK
  <2>2. \A u \in Tasks : calling[u] \in Nat /\ calling[u] <= starts
    BY DEF TypeOK, CallsPast
  <2> QED BY <2>1, <2>2
<1>4. NativeMatches' /\ StopIsDue' /\ CallsPast'
  <2>1. NativeMatches'
    BY DEF Start, NativeMatches
  <2>2. CallsPast'
    <3>1. starts' = starts + 1 /\ starts \in Nat
      BY DEF Start, TypeOK
    <3> QED BY <1>3, <3>1 DEF CallsPast
  <2>3. \A u \in Tasks : calling[u] # 0 => shutdown'
    BY DEF Start, StopIsDue
  <2>4. StopIsDue'
    BY <1>3, <2>3 DEF StopIsDue
  <2> QED BY <2>1, <2>2, <2>4
<1>5. NoLostWakeup'
  BY DEF Start, NoLostWakeup, tasks
<1>6. QueueOffered' /\ NothingAfterFinished'
  BY DEF Start, QueueOffered, NothingAfterFinished
<1> QED BY <1>2, <1>4, <1>5, <1>6

LEMMA PollAcceptInv ==
  ASSUME Inv, NEW t \in Tasks, PollAccept(t)
  PROVE  Inv'
<1> USE DEF Inv
<1>1. UNCHANGED <<state, calling, native, offered, starts, shutdown>>
  BY DEF PollAccept, msquic
<1>2. NativeMatches' /\ StopIsDue' /\ CallsPast'
  BY <1>1 DEF NativeMatches, StopIsDue, CallsPast
<1>3. CASE queue > 0 /\ queue' = queue - 1 /\ Return(t) /\ UNCHANGED drained
  <2>1. queue' \in 0..MaxConns /\ queue' <= queue /\ queue' \in Nat
    BY <1>3, ListenerAssumption DEF TypeOK
  <2>2. ~ drained'
    <3>1. queue # 0
      BY <1>3 DEF TypeOK
    <3> QED BY <1>3, <3>1 DEF NothingAfterFinished
  <2>3. NoLostWakeup' /\ TypeOK'
    BY <1>1, <1>3, <2>1, ReturnKeeps DEF TypeOK
  <2>4. QueueOffered'
    BY <1>1, <2>1 DEF QueueOffered, TypeOK
  <2> QED BY <1>2, <2>2, <2>3, <2>4 DEF NothingAfterFinished
<1>4. CASE queue = 0 /\ state = "Open" /\ Return(t) /\ UNCHANGED <<queue, drained>>
  <2>1. NoLostWakeup' /\ TypeOK'
    BY <1>1, <1>4, ReturnKeeps DEF TypeOK
  <2> QED BY <1>1, <1>2, <1>4, <2>1 DEF QueueOffered, NothingAfterFinished
<1>5. CASE /\ queue = 0 /\ state = "ShutdownComplete" /\ Return(t)
           /\ drained' = TRUE /\ UNCHANGED queue
  <2>1. NoLostWakeup' /\ TypeOK'
    BY <1>1, <1>5, ReturnKeeps DEF TypeOK
  <2> QED BY <1>1, <1>2, <1>5, <2>1 DEF QueueOffered, NothingAfterFinished, NativeMatches
<1>6. CASE /\ queue = 0 /\ state \in {"StartComplete", "Shutdown"} /\ Park(t, "accept")
           /\ acceptWaiters' = acceptWaiters \cup {t}
           /\ UNCHANGED <<queue, drained, stopWaiters>>
  <2>1. TypeOK'
    BY <1>1, <1>6 DEF TypeOK, Park
  <2>2. \A u \in Tasks : u # t => op'[u] = op[u] /\ woken'[u] = woken[u]
    BY <1>6 DEF Park, TypeOK
  <2>3. op'[t] = "accept" /\ t \in acceptWaiters'
    BY <1>6 DEF Park, TypeOK
  <2>4. NoLostWakeup'
    BY <1>1, <1>6, <2>2, <2>3 DEF NoLostWakeup
  <2> QED BY <1>1, <1>2, <1>6, <2>1, <2>4 DEF QueueOffered, NothingAfterFinished
<1> QED BY <1>3, <1>4, <1>5, <1>6 DEF PollAccept

LEMMA PollStopInv ==
  ASSUME Inv, NEW t \in Tasks, PollStop(t)
  PROVE  Inv'
<1> USE DEF Inv
<1>1. UNCHANGED <<queue, drained, native, offered, starts, shutdown>>
  BY DEF PollStop, msquic
<1>2. QueueOffered' /\ NothingAfterFinished'
  BY <1>1 DEF QueueOffered, NothingAfterFinished
<1>3. CASE /\ state \in {"Open", "ShutdownComplete"} /\ Return(t)
           /\ UNCHANGED <<state, calling>>
  <2>1. NoLostWakeup' /\ TypeOK'
    BY <1>1, <1>3, ReturnKeeps DEF TypeOK
  <2> QED BY <1>1, <1>2, <1>3, <2>1 DEF NativeMatches, StopIsDue, CallsPast
<1>4. CASE /\ state \in {"StartComplete", "Shutdown"} /\ Park(t, "stop")
           /\ stopWaiters' = stopWaiters \cup {t}
           /\ state' = "Shutdown"
           /\ calling' = IF state = "StartComplete" THEN [calling EXCEPT ![t] = starts]
                                                    ELSE calling
           /\ UNCHANGED acceptWaiters
  <2>1. TypeOK'
    BY <1>1, <1>4 DEF TypeOK, Park
  <2>2. \A u \in Tasks : u # t => op'[u] = op[u] /\ woken'[u] = woken[u]
    BY <1>4 DEF Park, TypeOK
  <2>3. op'[t] = "stop" /\ t \in stopWaiters'
    BY <1>4 DEF Park, TypeOK
  <2>4. NoLostWakeup'
    BY <1>1, <1>4, <2>2, <2>3 DEF NoLostWakeup
  <2>5. CASE state = "StartComplete"
    <3>1. \A u \in Tasks : calling'[u] = IF u = t THEN starts ELSE calling[u]
      BY <1>4, <2>5 DEF TypeOK
    <3>2. \A u \in Tasks : calling[u] # 0 => calling[u] # starts
      BY <2>5 DEF StopIsDue
    <3>3. native = "running" \/ shutdown
      BY <2>5 DEF NativeMatches
    <3>4. StopIsDue'
      <4> SUFFICES ASSUME NEW u \in Tasks, calling'[u] # 0
                   PROVE  /\ \A v \in Tasks \ {u} : calling'[v] # calling'[u]
                          /\ (calling'[u] = starts /\ native = "running") \/ shutdown
        BY <1>1, <1>4 DEF StopIsDue
      <4>1. CASE u = t
        <5>1. calling'[u] = starts /\ starts # 0
          BY <3>1, <4>1
        <5>2. \A v \in Tasks \ {u} : calling'[v] # starts
          BY <3>1, <3>2, <4>1, <5>1
        <5> QED BY <3>3, <5>1, <5>2
      <4>2. CASE u # t
        <5>1. calling'[u] = calling[u] /\ calling[u] # 0 /\ calling[u] # starts
          BY <3>1, <3>2, <4>2
        <5>2. \A v \in Tasks \ {u} : calling'[v] # calling[u]
          BY <3>1, <5>1 DEF StopIsDue
        <5> QED BY <5>1, <5>2 DEF StopIsDue
      <4> QED BY <4>1, <4>2
    <3>5. CallsPast'
      BY <1>1, <3>1 DEF CallsPast, TypeOK
    <3>6. NativeMatches'
      BY <1>1, <1>4, <2>5, <3>1 DEF NativeMatches
    <3> QED BY <1>2, <2>1, <2>4, <3>4, <3>5, <3>6
  <2>6. CASE state = "Shutdown"
    BY <1>1, <1>2, <1>4, <2>1, <2>4, <2>6 DEF NativeMatches, StopIsDue, CallsPast
  <2> QED BY <1>4, <2>5, <2>6
<1> QED BY <1>3, <1>4 DEF PollStop

LEMMA NativeStopInv ==
  ASSUME Inv, NEW t \in Tasks, NativeStop(t)
  PROVE  Inv'
<1> USE DEF Inv
<1>1. \A u \in Tasks : calling'[u] = IF u = t THEN 0 ELSE calling[u]
  BY DEF NativeStop, TypeOK
<1>2. UNCHANGED <<state, starts, shutdown, drained, queue, offered>>
  BY DEF NativeStop
<1>3. /\ native' \in {"idle", "stopping", "stopped"}
      /\ native' # "stopping" => native' = native
      /\ native = "running" <=> native' = "stopping" /\ native # "stopping"
  BY DEF NativeStop, Unbind, TypeOK
<1>4. TypeOK'
  <2>1. calling' \in [Tasks -> 0..MaxStarts]
    BY ListenerAssumption DEF NativeStop, TypeOK
  <2> QED BY <1>2, <1>3, <2>1 DEF NativeStop, TypeOK, tasks
<1>5. NoLostWakeup'
  BY DEF NativeStop, NoLostWakeup, tasks
<1>6. \A u \in Tasks \ {t} : calling[u] # 0 => shutdown
  BY DEF NativeStop, StopIsDue
<1>7. StopIsDue' /\ CallsPast'
  BY <1>1, <1>2, <1>6 DEF StopIsDue, CallsPast, TypeOK
<1>8. state = "StartComplete" => shutdown
  BY DEF NativeStop, StopIsDue
<1>9. NativeMatches'
  BY <1>2, <1>3, <1>8 DEF NativeMatches
<1> QED BY <1>2, <1>3, <1>4, <1>5, <1>7, <1>9 DEF QueueOffered, NothingAfterFinished

LEMMA RegistrationShutdownInv ==
  ASSUME Inv, RegistrationShutdown
  PROVE  Inv'
<1> USE DEF Inv
<1>1. /\ shutdown' = TRUE
      /\ UNCHANGED <<state, queue, tasks, calling, drained, offered, starts>>
  BY DEF RegistrationShutdown
<1>2. /\ native' \in {"idle", "stopping", "stopped"}
      /\ native' # "stopping" => native' = native
      /\ native \in {"idle", "stopped"} => native' = native
  BY DEF RegistrationShutdown, Unbind, TypeOK
<1>3. TypeOK' /\ NoLostWakeup'
  BY <1>1, <1>2 DEF TypeOK, NoLostWakeup, tasks
<1>4. NativeMatches' /\ StopIsDue' /\ CallsPast'
  BY <1>1, <1>2 DEF NativeMatches, StopIsDue, CallsPast
<1> QED BY <1>1, <1>2, <1>3, <1>4 DEF QueueOffered, NothingAfterFinished

LEMMA CancelInv ==
  ASSUME Inv, NEW t \in Tasks, Cancel(t)
  PROVE  Inv'
<1> USE DEF Inv
<1>1. TypeOK'
  BY DEF Cancel, TypeOK, msquic
<1>2. \A u \in Tasks : u # t => op'[u] = op[u] /\ woken'[u] = woken[u]
  BY DEF Cancel, TypeOK
<1>3. op'[t] = "none"
  BY DEF Cancel, TypeOK
<1>4. NoLostWakeup'
  BY <1>2, <1>3 DEF Cancel, NoLostWakeup
<1> QED BY <1>1, <1>4 DEF Cancel, msquic, NativeMatches, StopIsDue, CallsPast, QueueOffered,
                          NothingAfterFinished

\* What a drained list wakes: its tasks, and it takes no wakeup back.
LEMMA WakeFacts ==
  ASSUME NEW ts, Wake(ts), TypeOK
  PROVE  /\ woken' \in [Tasks -> BOOLEAN]
         /\ \A u \in Tasks : ~ woken'[u] => ~ woken[u] /\ (u \notin ts \/ op[u] = "none")
BY DEF Wake, TypeOK

LEMMA NewConnectionInv ==
  ASSUME Inv, HandleNewConnection
  PROVE  Inv'
<1> USE DEF Inv
<1>1. /\ woken' \in [Tasks -> BOOLEAN]
      /\ \A u \in Tasks :
           ~ woken'[u] => ~ woken[u] /\ (u \notin acceptWaiters \/ op[u] = "none")
  BY WakeFacts DEF HandleNewConnection
<1>2. offered' \in 0..MaxConns /\ queue' \in 0..MaxConns /\ queue' <= offered'
  BY ListenerAssumption DEF HandleNewConnection, TypeOK, QueueOffered
<1>3. TypeOK'
  BY <1>1, <1>2 DEF HandleNewConnection, TypeOK
<1>4. NoLostWakeup'
  BY <1>1 DEF HandleNewConnection, NoLostWakeup, TypeOK
<1>5. drained' = FALSE
  BY DEF HandleNewConnection, NothingAfterFinished, TypeOK
<1> QED BY <1>2, <1>3, <1>4, <1>5 DEF HandleNewConnection, NativeMatches, StopIsDue, CallsPast,
                                      QueueOffered, NothingAfterFinished

LEMMA StopCompleteInv ==
  ASSUME Inv, HandleStopComplete
  PROVE  Inv'
<1> USE DEF Inv
<1>1. /\ woken' \in [Tasks -> BOOLEAN]
      /\ \A u \in Tasks : ~ woken'[u] =>
           ~ woken[u] /\ (u \notin acceptWaiters \cup stopWaiters \/ op[u] = "none")
  BY WakeFacts DEF HandleStopComplete
<1>2. TypeOK'
  BY <1>1 DEF HandleStopComplete, TypeOK
<1>3. NoLostWakeup'
  BY <1>1 DEF HandleStopComplete, NoLostWakeup, TypeOK
<1>4. \A t \in Tasks : calling[t] # 0 => shutdown
  BY DEF HandleStopComplete, StopIsDue
<1> QED BY <1>2, <1>3, <1>4 DEF HandleStopComplete, NativeMatches, StopIsDue, CallsPast,
                                QueueOffered, NothingAfterFinished

LEMMA NextInv ==
  ASSUME Inv, [Next]_vars
  PROVE  Inv'
<1>1. CASE UNCHANGED vars
  BY <1>1 DEF vars, tasks, msquic, Inv, TypeOK, NativeMatches, StopIsDue, CallsPast, QueueOffered,
              NoLostWakeup, NothingAfterFinished
<1>2. ASSUME NEW t \in Tasks,
             Start(t) \/ PollAccept(t) \/ PollStop(t) \/ NativeStop(t) \/ Cancel(t)
      PROVE  Inv'
  BY <1>2, StartInv, PollAcceptInv, PollStopInv, NativeStopInv, CancelInv
<1>3. CASE HandleNewConnection
  BY <1>3, NewConnectionInv
<1>4. CASE HandleStopComplete
  BY <1>4, StopCompleteInv
<1>5. CASE RegistrationShutdown
  BY <1>5, RegistrationShutdownInv
<1> QED BY <1>1, <1>2, <1>3, <1>4, <1>5 DEF Next

\* Inv holds in every state of the listener.
THEOREM Invariance == Spec => []Inv
<1>1. Init => Inv
  BY InitInv
<1>2. Inv /\ [Next]_vars => Inv'
  BY NextInv
<1> QED BY <1>1, <1>2, PTL DEF Spec

--------------------------------------------------------------------------------
(* The properties *)

\* The state and the bookkeeping of the listener stay within their types.
THEOREM TypeCorrect == Spec => []TypeOK
<1>1. Inv => TypeOK
  BY DEF Inv
<1> QED BY <1>1, Invariance, PTL

\* No task that awaits accept() or stop() is left without a waker: whatever the
\* tasks cancel and MsQuic raises, a task that sleeps is on the right list
\* (listener.rs:376, 396-404).
THEOREM WakeupsKept == Spec => []NoLostWakeup
<1>1. Inv => NoLostWakeup
  BY DEF Inv
<1> QED BY <1>1, Invariance, PTL

\* However many tasks stop and start the listener, a run is stopped by one of
\* them, and the native stop outside the lock (listener.rs:152-165) finds the run
\* it is meant for, running, unless the registration was shut down
\* (registration.rs:128-134).
THEOREM StopCallIsDue == Spec => []StopIsDue
<1>1. Inv => StopIsDue
  BY DEF Inv
<1> QED BY <1>1, Invariance, PTL

\* Once an accept has answered Finished no connection is queued or offered until
\* the listener starts again (listener.rs:119-131).
THEOREM FinishedIsFinal == Spec => []NothingAfterFinished
<1>1. Inv => NothingAfterFinished
  BY DEF Inv
<1> QED BY <1>1, Invariance, PTL
================================================================================
