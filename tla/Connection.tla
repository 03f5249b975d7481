------------------------------- MODULE Connection -------------------------------
(***************************************************************************)
(* connection.rs: the state machine of one connection, its queues and its  *)
(* waiter lists.  Tasks poll the connection's operations; MsQuic calls the *)
(* event handlers on its own thread.  Both run under the lock of           *)
(* ConnectionInner::exclusive, so each poll and each handler is one step.  *)
(*                                                                         *)
(* `native` is what MsQuic is doing with the handle.  It is external: only *)
(* the order in which it may raise its events is modelled.  A connection   *)
(* that a listener accepted starts in state Connected (from_raw) while     *)
(* MsQuic is still completing the handshake: native is then "accepting".   *)
(***************************************************************************)
EXTENDS Naturals, Sequences, FiniteSets

CONSTANTS Tasks,        \* the tasks of the application
          DgramStates,  \* the (send_enabled, max_send_length) pairs MsQuic reports
          NoDgram,      \* (false, 0), the pair before any report
          MaxQueue,     \* bound on each queue of streams and datagrams
          MaxEvents     \* bound on the event queue

ASSUME ConnectionAssumption ==
  /\ NoDgram \notin DgramStates
  /\ MaxQueue \in Nat /\ MaxEvents \in Nat

VARIABLES
  state,      \* ConnectionInnerExclusive::state
  error,      \* ::error
  waiters,    \* the six Vec<Waker>, as sets of tasks (register_waker keeps one each)
  inbound,    \* how many streams inbound_streams holds
  inboundUni, \* ... and inbound_uni_streams
  recvBufs,   \* ... and how many datagrams recv_buffers holds
  events,     \* ::events
  dgram,      \* ::dgram_send_enabled and ::dgram_max_send_length
  op,         \* the operation each task is awaiting
  woken,      \* the task's waker was called since it was polled last
  shutdownCalled, \* the application shut the connection down: "no", "yes", or
                  \* "early", while MsQuic was accepting it
  native      \* what MsQuic is doing with the connection

queues == <<inbound, inboundUni, recvBufs, events, dgram>>
vars == <<state, error, waiters, queues, op, woken, shutdownCalled, native>>

States == {"Open", "Connecting", "Connected", "Shutdown", "ShutdownComplete"}
Errors == {"None", "ByTransport", "ByPeer", "ByLocal"}
Lists == {"start", "inbound", "inboundUni", "recv", "shutdown", "event"}
Ops == {"start", "accept", "acceptUni", "receive", "send", "shutdown", "event"}
LostStates == {"Shutdown", "ShutdownComplete"}
Events == [kind : {"DatagramStateChanged"}, now : DgramStates]
            \cup [kind : {"Path"}]

TypeOK ==
  /\ state \in States
  /\ error \in Errors
  /\ waiters \in [Lists -> SUBSET Tasks]
  /\ inbound \in 0..MaxQueue /\ inboundUni \in 0..MaxQueue /\ recvBufs \in 0..MaxQueue
  /\ events \in Seq(Events) /\ Len(events) <= MaxEvents
  /\ dgram \in DgramStates \cup {NoDgram}
  /\ op \in [Tasks -> Ops \cup {"none"}]
  /\ woken \in [Tasks -> BOOLEAN]
  /\ shutdownCalled \in {"no", "yes", "early"}
  /\ native \in {"idle", "handshake", "accepting", "connected", "closing", "done"}

\* Opened by the application, or accepted by a listener.
Init ==
  /\ \/ state = "Open" /\ native = "idle"
     \/ state = "Connected" /\ native = "accepting"
  /\ error = "None"
  /\ waiters = [l \in Lists |-> {}]
  /\ inbound = 0 /\ inboundUni = 0 /\ recvBufs = 0
  /\ events = <<>>
  /\ dgram = NoDgram
  /\ op = [t \in Tasks |-> "none"]
  /\ woken = [t \in Tasks |-> FALSE]
  /\ shutdownCalled = "no"

--------------------------------------------------------------------------------
(* Polls *)

\* A task polls the operation it awaits, or begins one.
MayPoll(t, o) == op[t] \in {"none", o}

\* Poll::Ready: the task goes on.
Return(t) ==
  /\ op' = [op EXCEPT ![t] = "none"]
  /\ woken' = [woken EXCEPT ![t] = FALSE]
  /\ UNCHANGED waiters

\* register_waker on list l, then Poll::Pending.
Park(t, o, l) ==
  /\ op' = [op EXCEPT ![t] = o]
  /\ woken' = [woken EXCEPT ![t] = FALSE]
  /\ waiters' = [waiters EXCEPT ![l] = @ \cup {t}]

\* What every poll but start and shutdown does outside Connected: an error
\* before the start and after the loss, a wait for the handshake in between.
PollNotConnected(t, o) ==
  /\ \/ state \in {"Open", "Shutdown", "ShutdownComplete"} /\ Return(t)
     \/ state = "Connecting" /\ Park(t, o, "start")
  /\ UNCHANGED <<state, error, queues, shutdownCalled, native>>

\* The state is set under the lock that the Connected handler takes, so the
\* handshake cannot complete before Connecting is recorded.
PollStart(t) ==
  /\ MayPoll(t, "start")
  /\ \/ /\ state = "Open"
        /\ \/ Return(t) /\ UNCHANGED <<state, native>>     \* msquic start failed
           \/ /\ native = "idle"
              /\ state' = "Connecting" /\ native' = "handshake"
              /\ Park(t, "start", "start")
     \/ state = "Connecting" /\ Park(t, "start", "start") /\ UNCHANGED <<state, native>>
     \/ /\ state \in {"Connected", "Shutdown", "ShutdownComplete"}
        /\ Return(t) /\ UNCHANGED <<state, native>>
  /\ UNCHANGED <<error, queues, shutdownCalled>>

\* Mutant of PollAcceptInboundStream: pop_front().unwrap() without is_empty().
PollAcceptUnchecked(t) ==
  /\ MayPoll(t, "accept")
  /\ \/ PollNotConnected(t, "accept")
     \/ /\ state = "Connected"
        /\ inbound' = inbound - 1 /\ Return(t)
        /\ UNCHANGED <<state, error, inboundUni, recvBufs, events, dgram,
                       shutdownCalled, native>>

PollAcceptInboundStream(t) ==
  /\ MayPoll(t, "accept")
  /\ \/ PollNotConnected(t, "accept")
     \/ /\ state = "Connected"
        /\ \/ inbound > 0 /\ inbound' = inbound - 1 /\ Return(t)
           \/ inbound = 0 /\ UNCHANGED inbound /\ Park(t, "accept", "inbound")
        /\ UNCHANGED <<state, error, inboundUni, recvBufs, events, dgram,
                       shutdownCalled, native>>

PollAcceptInboundUniStream(t) ==
  /\ MayPoll(t, "acceptUni")
  /\ \/ PollNotConnected(t, "acceptUni")
     \/ /\ state = "Connected"
        /\ \/ inboundUni > 0 /\ inboundUni' = inboundUni - 1 /\ Return(t)
           \/ inboundUni = 0 /\ UNCHANGED inboundUni /\ Park(t, "acceptUni", "inboundUni")
        /\ UNCHANGED <<state, error, inbound, recvBufs, events, dgram,
                       shutdownCalled, native>>

\* Mutant of PollReceiveDatagram: the queue is read before the state.
PollReceiveQueueFirst(t) ==
  /\ MayPoll(t, "receive")
  /\ \/ /\ recvBufs > 0
        /\ recvBufs' = recvBufs - 1 /\ Return(t)
        /\ UNCHANGED <<state, error, inbound, inboundUni, events, dgram,
                       shutdownCalled, native>>
     \/ recvBufs = 0 /\ PollNotConnected(t, "receive")
     \/ /\ recvBufs = 0 /\ state = "Connected"
        /\ Park(t, "receive", "recv")
        /\ UNCHANGED <<state, error, queues, shutdownCalled, native>>

PollReceiveDatagram(t) ==
  /\ MayPoll(t, "receive")
  /\ \/ PollNotConnected(t, "receive")
     \/ /\ state = "Connected"
        /\ \/ recvBufs > 0 /\ recvBufs' = recvBufs - 1 /\ Return(t)
           \/ recvBufs = 0 /\ UNCHANGED recvBufs /\ Park(t, "receive", "recv")
        /\ UNCHANGED <<state, error, inbound, inboundUni, events, dgram,
                       shutdownCalled, native>>

\* poll_send_datagram, and the connection's part in OpenOutboundStream: once
\* connected they do not wait for this connection any more.
PollSend(t) ==
  /\ MayPoll(t, "send")
  /\ \/ PollNotConnected(t, "send")
     \/ /\ state = "Connected"
        /\ Return(t)
        /\ UNCHANGED <<state, error, queues, shutdownCalled, native>>

\* Events can still be read after a shutdown began, until it is complete.
PollEvent(t) ==
  /\ MayPoll(t, "event")
  /\ \/ state # "Shutdown" /\ PollNotConnected(t, "event")
     \/ /\ state \in {"Connected", "Shutdown"}
        /\ \/ events # <<>> /\ events' = Tail(events) /\ Return(t)
           \/ events = <<>> /\ UNCHANGED events /\ Park(t, "event", "event")
        /\ UNCHANGED <<state, error, inbound, inboundUni, recvBufs, dgram,
                       shutdownCalled, native>>

\* ConnectionShutdown only queues the shutdown on MsQuic's worker.
BeginShutdown ==
  /\ state' = "Shutdown"
  /\ error' = "ByLocal"
  /\ shutdownCalled' = IF native = "accepting" \/ shutdownCalled = "early"
                       THEN "early" ELSE "yes"

PollShutdown(t) ==
  /\ MayPoll(t, "shutdown")
  /\ \/ /\ state \in {"Open", "ShutdownComplete"}
        /\ Return(t) /\ UNCHANGED <<state, error, shutdownCalled>>
     \/ /\ state = "Connecting"
        /\ Park(t, "shutdown", "start") /\ UNCHANGED <<state, error, shutdownCalled>>
     \/ /\ state = "Connected"
        /\ BeginShutdown /\ Park(t, "shutdown", "shutdown")
     \/ /\ state = "Shutdown"
        /\ Park(t, "shutdown", "shutdown") /\ UNCHANGED <<state, error, shutdownCalled>>
  /\ UNCHANGED <<queues, native>>

\* Connection::shutdown: synchronous, and wakes nobody.
Shutdown ==
  /\ state = "Connected"
  /\ BeginShutdown
  /\ UNCHANGED <<waiters, queues, op, woken, native>>

\* The task drops the future; its waker stays on the list.
Cancel(t) ==
  /\ op[t] # "none"
  /\ op' = [op EXCEPT ![t] = "none"]
  /\ woken' = [woken EXCEPT ![t] = FALSE]
  /\ UNCHANGED <<state, error, waiters, queues, shutdownCalled, native>>

--------------------------------------------------------------------------------
(* Event handlers *)

\* Drain the lists and wake what they hold.
Wake(ls) ==
  /\ waiters' = [l \in Lists |-> IF l \in ls THEN {} ELSE waiters[l]]
  /\ woken' = [t \in Tasks |->
                 woken[t] \/ (op[t] # "none" /\ \E l \in ls : t \in waiters[l])]
  /\ UNCHANGED op

\* MsQuic raises events from the start of the handshake until the connection
\* closes; before the handshake is complete, only a server hears from its peer
\* (0-RTT).
PeerLive == native \in {"accepting", "connected"}
Live == PeerLive \/ native = "handshake"

HandleConnected ==
  /\ native \in {"handshake", "accepting"}
  /\ native' = "connected"
  /\ state' = "Connected"
  /\ Wake({"start"})
  /\ UNCHANGED <<error, queues, shutdownCalled>>

HandleShutdownInitiatedByTransport ==
  /\ Live
  /\ native' = "closing"
  /\ state' = "Shutdown"
  /\ error' = "ByTransport"
  /\ Wake({"start", "inbound", "recv"})
  /\ UNCHANGED <<queues, shutdownCalled>>

\* Mutant of HandleShutdownInitiatedByPeer: recv_waiters is not drained.
HandlePeerKeepsReceivers ==
  /\ Live
  /\ native' = "closing"
  /\ state' = "Shutdown"
  /\ error' = "ByPeer"
  /\ Wake({"start", "inbound"})
  /\ UNCHANGED <<queues, shutdownCalled>>

HandleShutdownInitiatedByPeer ==
  /\ Live
  /\ native' = "closing"
  /\ state' = "Shutdown"
  /\ error' = "ByPeer"
  /\ Wake({"start", "inbound", "recv"})
  /\ UNCHANGED <<queues, shutdownCalled>>

\* Mutants of HandleShutdownComplete: no default for the error; two of the
\* five lists left alone.
HandleCompleteNoError ==
  /\ native = "closing"
  /\ native' = "done"
  /\ state' = "ShutdownComplete"
  /\ Wake({"start", "inbound", "recv", "shutdown", "event"})
  /\ UNCHANGED <<error, queues, shutdownCalled>>

HandleCompleteKeepsWaiters ==
  /\ native = "closing"
  /\ native' = "done"
  /\ state' = "ShutdownComplete"
  /\ error' = IF error = "None" THEN "ByLocal" ELSE error
  /\ Wake({"start", "inbound", "recv"})
  /\ UNCHANGED <<queues, shutdownCalled>>

HandleShutdownComplete ==
  /\ native = "closing"
  /\ native' = "done"
  /\ state' = "ShutdownComplete"
  /\ error' = IF error = "None" THEN "ByLocal" ELSE error
  /\ Wake({"start", "inbound", "recv", "shutdown", "event"})
  /\ UNCHANGED <<queues, shutdownCalled>>

HandlePeerStreamStarted(unidirectional) ==
  /\ PeerLive
  /\ IF unidirectional
     THEN /\ inboundUni < MaxQueue
          /\ inboundUni' = inboundUni + 1
          /\ Wake({"inboundUni"})
          /\ UNCHANGED inbound
     ELSE /\ inbound < MaxQueue
          /\ inbound' = inbound + 1
          /\ Wake({"inbound"})
          /\ UNCHANGED inboundUni
  /\ UNCHANGED <<state, error, recvBufs, events, dgram, shutdownCalled, native>>

\* Mutant of HandleDatagramStateChanged: every state is appended.
HandleDatagramStateAppended(d) ==
  /\ Live
  /\ Len(events) < MaxEvents
  /\ dgram' = d
  /\ events' = Append(events, [kind |-> "DatagramStateChanged", now |-> d])
  /\ Wake({"event"})
  /\ UNCHANGED <<state, error, inbound, inboundUni, recvBufs, shutdownCalled, native>>

\* Recorded, and coalesced onto the entry that is still queued if there is one.
HandleDatagramStateChanged(d) ==
  LET entry == [kind |-> "DatagramStateChanged", now |-> d]
      queued == {i \in DOMAIN events : events[i].kind = "DatagramStateChanged"}
  IN /\ Live
     /\ dgram' = d
     /\ \/ /\ queued # {}
           /\ events' = [i \in DOMAIN events |-> IF i \in queued THEN entry ELSE events[i]]
        \/ /\ queued = {}
           /\ Len(events) < MaxEvents
           /\ events' = Append(events, entry)
     /\ Wake({"event"})
     /\ UNCHANGED <<state, error, inbound, inboundUni, recvBufs, shutdownCalled, native>>

HandleDatagramReceived ==
  /\ PeerLive
  /\ recvBufs < MaxQueue
  /\ recvBufs' = recvBufs + 1
  /\ Wake({"recv"})
  /\ UNCHANGED <<state, error, inbound, inboundUni, events, dgram, shutdownCalled, native>>

\* The address and path events: each indication is queued, none is coalesced.
HandlePathEvent ==
  /\ Live
  /\ Len(events) < MaxEvents
  /\ events' = Append(events, [kind |-> "Path"])
  /\ Wake({"event"})
  /\ UNCHANGED <<state, error, inbound, inboundUni, recvBufs, dgram, shutdownCalled, native>>

\* MsQuic carries out a shutdown the application asked for, or one that
\* Registration::shutdown queued.  It raises no event until it is complete.
CloseLocally ==
  /\ native \notin {"closing", "done"}
  /\ native' = "closing"
  /\ UNCHANGED <<state, error, waiters, queues, op, woken, shutdownCalled>>

--------------------------------------------------------------------------------
Poll(t) == \/ PollStart(t)
           \/ PollAcceptInboundStream(t)
           \/ PollAcceptInboundUniStream(t)
           \/ PollReceiveDatagram(t)
           \/ PollSend(t)
           \/ PollEvent(t)
           \/ PollShutdown(t)

Handle == \/ HandleConnected
          \/ HandleShutdownInitiatedByTransport
          \/ HandleShutdownInitiatedByPeer
          \/ HandleShutdownComplete
          \/ \E u \in BOOLEAN : HandlePeerStreamStarted(u)
          \/ \E d \in DgramStates : HandleDatagramStateChanged(d)
          \/ HandleDatagramReceived
          \/ HandlePathEvent

Next == \/ \E t \in Tasks : Poll(t) \/ Cancel(t)
        \/ Shutdown
        \/ Handle
        \/ CloseLocally

Spec == Init /\ [][Next]_vars

\* The executor polls a task that was woken; MsQuic carries out a shutdown that
\* was asked for, and completes one that began.
Fairness == /\ \A t \in Tasks : WF_vars(woken[t] /\ op[t] # "none" /\ Poll(t))
            /\ WF_vars(shutdownCalled # "no" /\ CloseLocally)
            /\ WF_vars(HandleShutdownComplete)

FairSpec == Spec /\ Fairness

--------------------------------------------------------------------------------
(* Properties *)

Parked(t) == op[t] # "none" /\ ~ woken[t]

\* A poll of o would return Pending now.
Blocks(o) ==
  \/ state = "Connecting"
  \/ /\ state = "Connected"
     /\ \/ o = "accept" /\ inbound = 0
        \/ o = "acceptUni" /\ inboundUni = 0
        \/ o = "receive" /\ recvBufs = 0
        \/ o = "event" /\ events = <<>>
        \/ o = "shutdown"
  \/ /\ state = "Shutdown"
     /\ \/ o = "event" /\ events = <<>>
        \/ o = "shutdown"

\* Every poll that finds the connection lost reports `error`, with expect("error"):
\* the error is set whenever the state says that the connection is lost, even
\* when the Connected event comes after a shutdown (connection.rs:133).
ErrorWhenLost == state \in LostStates => error # "None"

\* A parked task has its waker on a list, and what it waits for has not
\* happened, however the task's earlier polls, cancellations and other tasks'
\* wakeups interleave.  After a local shutdown tasks stay parked until it is
\* complete (connection.rs:353-369); none is parked then, except those that
\* accept unidirectional streams, whose list is drained by new streams only.
NoLostWakeup ==
  \A t \in Tasks : Parked(t) =>
    /\ \E l \in Lists : t \in waiters[l]
    /\ \/ Blocks(op[t])
       \/ shutdownCalled # "no" /\ native # "done"
       \/ op[t] = "acceptUni" /\ state \in LostStates

\* The one DatagramStateChanged that waits in the queue describes the limit
\* send_datagram applies now (connection.rs:1387-1392), and changes of state
\* never fill the queue.
QueuedStateIsCurrent ==
  /\ \A i \in DOMAIN events :
       events[i].kind = "DatagramStateChanged" => events[i].now = dgram
  /\ Cardinality({i \in DOMAIN events : events[i].kind = "DatagramStateChanged"}) <= 1

\* A task that awaits the shutdown of a connection it shut down goes on.
ShutdownResolves ==
  \A t \in Tasks : (op[t] = "shutdown" /\ shutdownCalled # "no") ~> (op[t] # "shutdown")

\* No operation outlives the connection, but for acceptUni.
LossResolves ==
  \A t \in Tasks :
    (op[t] \notin {"none", "acceptUni"} /\ native = "done") ~> (op[t] = "none")

\* A connection that was lost, or shut down after its handshake, stays lost, and
\* hands out no stream and no datagram that was queued before (the state is read
\* before the queues).
LossIsFinal ==
  [][(state \in LostStates /\ shutdownCalled # "early") =>
       (/\ state' \in LostStates
        /\ inbound' >= inbound /\ inboundUni' >= inboundUni
        /\ recvBufs' >= recvBufs)]_vars

\* No datagram is handed out once the application has shut the connection
\* down; tests.rs:2394 says so of a connection that a listener accepted.
NoDatagramAfterShutdown == [][shutdownCalled # "no" => recvBufs' >= recvBufs]_vars
================================================================================
