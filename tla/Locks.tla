--------------------------------- MODULE Locks ---------------------------------
(***************************************************************************)
(* Which locks each operation takes, in which order, and which calls it    *)
(* makes meanwhile that wait for a MsQuic worker.  An operation is a       *)
(* program: a sequence of locks, unlocks and waits; what it does to the    *)
(* data is in the other modules.                                           *)
(*                                                                         *)
(* connection: ConnectionInner::exclusive; handler: its                    *)
(* peer_certificate_received_callback; stream: StreamInner::exclusive; id: *)
(* StreamInnerShared::id, a RwLock taken here as a mutex; listener:        *)
(* ListenerInner::exclusive; rundown: RundownState::waiters.               *)
(*                                                                         *)
(* MsQuic (external): get_param, set_param and the closes of a connection  *)
(* wait until the worker of the connection is between two events, and are  *)
(* carried out at once when the worker itself makes them; what is queued   *)
(* (start, send, shutdown, receive_complete) waits for nothing.            *)
(***************************************************************************)
EXTENDS Naturals, Sequences

CONSTANT Tasks  \* the application's threads

ConnWorker == "connWorker"
ListenerWorker == "listenerWorker"
Workers == {ConnWorker, ListenerWorker}
Threads == Tasks \cup Workers
LockNames == {"connection", "handler", "stream", "id", "listener", "rundown"}

ASSUME LocksAssumption == Tasks \cap Workers = {}

VARIABLES
  prog,  \* what is left of the operation each thread is in
  name,  \* its name
  owner  \* who holds each lock, {} or one thread

locksVars == <<prog, name, owner>>

LocksInit ==
  /\ prog = [t \in Threads |-> << >>]
  /\ name = [t \in Threads |-> "idle"]
  /\ owner = [l \in LockNames |-> {}]
--------------------------------------------------------------------------------
(* Programs *)

Lock(l) == [do |-> "lock", what |-> l]
Unlock(l) == [do |-> "unlock", what |-> l]
CallTo(w) == <<[do |-> "call", what |-> w]>>
Call == CallTo(ConnWorker)
Under(l, body) == <<Lock(l)>> \o body \o <<Unlock(l)>>
Brief(l) == Under(l, << >>)

\* poll_start, the accepts, datagrams, poll_shutdown, shutdown, poll_event.
ConnPoll == Brief("connection")

\* The stream is started under the lock of its connection; when it cannot even
\* be opened its guard is dropped there.
OpenOutboundStream == {Under("connection", Brief("stream")),
                       Under("connection", Brief("rundown"))}

\* The setters and getters of connection parameters, get_path_statistics.
SetParam == Call

SetCallback == Brief("handler")

\* The block is handed to MsQuic under the lock.
SetSslKeyLog == Under("connection", Call)

DropStream == Brief("stream") \o Call \o Brief("rundown")

\* The close, then the streams nobody accepted, then the guard.
DropConnection == Call \o DropStream \o Brief("rundown")

StreamPoll == Brief("stream")

\* The buffers that were read to their end are dropped after the lock.
PollRead == Brief("stream") \o Brief("stream")

StreamId == Brief("id") \o Call \o Brief("id")

ListenerPoll == Brief("listener")

\* STOP_COMPLETE is raised on the thread that stops.
ListenerStop ==
  Brief("listener") \o CallTo(ListenerWorker) \o Brief("listener")

WaitIdle == Brief("rundown")

\* What the peer certificate handler may do with its connection.
HandlerMay ==
  {<< >>, ConnPoll, SetParam, SetSslKeyLog} \cup OpenOutboundStream

\* Mutant of Certificate: the handler is kept in exclusive.
CertificateExclusive == {Under("connection", p) : p \in HandlerMay}

Certificate == {Under("handler", p) : p \in HandlerMay}

ConnEvent == Brief("connection")

\* With tracing enabled the adopted stream is asked for its id first.
PeerStreamStarted == StreamId \o Brief("connection")

StartComplete == Brief("id") \o Brief("stream")
StreamEvent == Brief("stream")

\* Its set_param and set_configuration run on the worker that raised the event.
NewConnection == Under("listener", CallTo(ListenerWorker))

AppPrograms ==
  {<<"openOutboundStream", p>> : p \in OpenOutboundStream} \cup
  {<<"connPoll", ConnPoll>>, <<"setParam", SetParam>>, <<"setCallback", SetCallback>>,
   <<"setKeyLogFile", SetSslKeyLog>>, <<"dropStream", DropStream>>,
   <<"dropConnection", DropConnection>>, <<"streamPoll", StreamPoll>>,
   <<"pollRead", PollRead>>, <<"streamId", StreamId>>,
   <<"listenerPoll", ListenerPoll>>, <<"listenerStop", ListenerStop>>,
   <<"waitIdle", WaitIdle>>}

WorkerPrograms(w) ==
  IF w = ConnWorker
  THEN {<<"certificate", p>> : p \in Certificate} \cup
       {<<"connEvent", ConnEvent>>, <<"peerStreamStarted", PeerStreamStarted>>,
        <<"startComplete", StartComplete>>, <<"streamEvent", StreamEvent>>}
  ELSE {<<"newConnection", NewConnection>>}

--------------------------------------------------------------------------------
(* Threads *)

Begin(t) ==
  /\ prog[t] = << >>
  /\ \E p \in IF t \in Workers THEN WorkerPrograms(t) ELSE AppPrograms :
       /\ name' = [name EXCEPT ![t] = p[1]]
       /\ prog' = [prog EXCEPT ![t] = p[2]]
  /\ UNCHANGED owner

\* Whom the next step of t waits for.
WaitsFor(t) ==
  IF prog[t] = << >> THEN {}
  ELSE LET s == Head(prog[t]) IN
       CASE s.do = "lock" -> owner[s.what]
         [] s.do = "call" -> IF t # s.what /\ prog[s.what] # << >> THEN {s.what} ELSE {}
         [] s.do = "unlock" -> {}

Step(t) ==
  /\ prog[t] # << >> /\ WaitsFor(t) = {}
  /\ LET s == Head(prog[t]) IN
       owner' = CASE s.do = "lock" -> [owner EXCEPT ![s.what] = {t}]
                  [] s.do = "unlock" -> [owner EXCEPT ![s.what] = {}]
                  [] s.do = "call" -> owner
  /\ prog' = [prog EXCEPT ![t] = Tail(@)]
  /\ name' = [name EXCEPT ![t] = IF Len(prog[t]) = 1 THEN "idle" ELSE @]

LocksNext == \E t \in Threads : Begin(t) \/ Step(t)

LocksSpec == LocksInit /\ [][LocksNext]_locksVars

--------------------------------------------------------------------------------
(* Properties *)

\* No threads wait for each other in a circle, a thread for itself included:
\* not the open that holds two locks (connection.rs:2215), not the handler that
\* uses its connection (connection.rs:612), not a read that drops buffers
\* (stream.rs:770), not an id that is asked for (stream.rs:618), not a stop
\* (listener.rs:163).  The one exception is set_sslkeylog_file
\* (connection.rs:942): it holds the lock of the connection while set_param
\* waits for a worker that may be waiting for that lock.
NoCircularWait ==
  \A circle \in (SUBSET Threads) \ {{}} :
    (\A t \in circle : WaitsFor(t) \cap circle # {}) =>
      \E t \in circle \cap Tasks : name[t] = "setKeyLogFile"
================================================================================
