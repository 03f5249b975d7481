-------------------------------- MODULE Handles --------------------------------
(***************************************************************************)
(* Who owns the native handles, and when: listener.rs, connection.rs and   *)
(* stream.rs as far as they open, queue, share and close them, with the    *)
(* reservation (RundownGuard) of each.  What wait_idle answers is taken    *)
(* from IdleBarrier, which Rundown implements.                             *)
(*                                                                         *)
(* A handle is a Listener, a ConnectionInstance or a StreamInstance.  Drop *)
(* order is the order of the fields: the native close, which waits for the *)
(* running callback and then drops the callback's context with its queue,  *)
(* and the guard last.                                                     *)
(***************************************************************************)
EXTENDS Naturals

CONSTANTS Listeners, Connections, Streams, \* the handles there can be
          MaxRefs                          \* bound on the clones of one handle

ASSUME HandlesAssumption ==
  /\ Listeners \cap Connections = {}
  /\ Listeners \cap Streams = {}
  /\ Connections \cap Streams = {}
  /\ MaxRefs \in Nat

Handles == Listeners \cup Connections \cup Streams

Waiters == {"owner"}

VARIABLES
  live,       \* the handles whose guard is held
  status,     \* what the registration's owner knows of its wait_idle
  stage,      \* where each handle is in its life
  parent,     \* the handle whose callback, or whose method, it comes from
  refs,       \* the clones the application holds (Arc strong count)
  shutdown,   \* Registration::shutdown was called
  regClosed   \* the Registration is dropped: RegistrationClose ran

vars == <<live, status, stage, parent, refs, shutdown, regClosed>>

Barrier == INSTANCE IdleBarrier WITH Guards <- Handles

\* The stages of a handle in which MsQuic calls back.
RaisesEvents == {"queued", "open", "closing"}

Becomes(h, s) == stage' = [stage EXCEPT ![h] = s]

Init ==
  /\ Barrier!Init
  /\ stage = [h \in Handles |-> "none"]
  /\ parent = [h \in Handles |-> h]
  /\ refs = [h \in Handles |-> 0]
  /\ shutdown = FALSE
  /\ regClosed = FALSE
--------------------------------------------------------------------------------
(* Opening *)

\* Listener::new and Connection::new reserve before they open.  An application
\* that has called shutdown makes no more of them, and no more clones.
ReserveNew(h) ==
  /\ h \in Listeners \cup Connections /\ stage[h] = "none" /\ ~ shutdown
  /\ Barrier!Reserve(h)
  /\ Becomes(h, "reserved")
  /\ UNCHANGED <<parent, refs, shutdown, regClosed>>

\* OpenOutboundStream::poll, which borrows the connection.
ReserveStream(h, c) ==
  /\ h \in Streams /\ stage[h] = "none"
  /\ c \in Connections /\ stage[c] = "open"
  /\ Barrier!Reserve(h)
  /\ Becomes(h, "reserved")
  /\ parent' = [parent EXCEPT ![h] = c]
  /\ UNCHANGED <<refs, shutdown, regClosed>>

Open(h) ==
  /\ stage[h] = "reserved"
  /\ Becomes(h, "open")
  /\ refs' = [refs EXCEPT ![h] = 1]
  /\ UNCHANGED <<live, status, parent, shutdown, regClosed>>

\* The native open failed: the local guard is dropped.
OpenFails(h) ==
  /\ stage[h] = "reserved"
  /\ Barrier!Release(h)
  /\ Becomes(h, "gone")
  /\ UNCHANGED <<parent, refs, shutdown, regClosed>>

\* MsQuic raises NEW_CONNECTION on a listener, or PEER_STREAM_STARTED on a
\* connection, accepted by the application or not, until the native close has
\* begun: the native handle exists, nobody owns it yet.
Offer(h, p) ==
  /\ stage[h] = "none" /\ stage[p] \in RaisesEvents
  /\ \/ h \in Connections /\ p \in Listeners
     \/ h \in Streams /\ p \in Connections
  /\ Becomes(h, "offered")
  /\ parent' = [parent EXCEPT ![h] = p]
  /\ UNCHANGED <<live, status, refs, shutdown, regClosed>>

\* A `?` of handle_event_new_connection: MsQuic takes the connection back.
Reject(h) ==
  /\ h \in Connections /\ stage[h] = "offered"
  /\ Becomes(h, "gone")
  /\ UNCHANGED <<live, status, parent, refs, shutdown, regClosed>>

\* Mutant of Adopt: streams are not tracked.
AdoptUntracked(h) ==
  /\ stage[h] = "offered"
  /\ IF h \in Streams THEN UNCHANGED <<live, status>> ELSE Barrier!Reserve(h)
  /\ Becomes(h, "queued")
  /\ UNCHANGED <<parent, refs, shutdown, regClosed>>

\* from_raw with its guard, and the queue of the callback's context.
Adopt(h) ==
  /\ stage[h] = "offered"
  /\ Barrier!Reserve(h)
  /\ Becomes(h, "queued")
  /\ UNCHANGED <<parent, refs, shutdown, regClosed>>
--------------------------------------------------------------------------------
(* Sharing and closing *)

\* poll_accept, poll_accept_inbound_stream and poll_accept_inbound_uni_stream.
Accept(h) ==
  /\ stage[h] = "queued" /\ stage[parent[h]] = "open"
  /\ Becomes(h, "open")
  /\ refs' = [refs EXCEPT ![h] = 1]
  /\ UNCHANGED <<live, status, parent, shutdown, regClosed>>

\* Connection is Clone, and Stream::split makes two of one.
Clone(h) ==
  /\ h \notin Listeners /\ stage[h] = "open" /\ refs[h] < MaxRefs /\ ~ shutdown
  /\ refs' = [refs EXCEPT ![h] = @ + 1]
  /\ UNCHANGED <<live, status, stage, parent, shutdown, regClosed>>

\* Dropping the last clone drops the instance; a future that opens a stream
\* borrows its connection.
DropRef(h) ==
  /\ stage[h] = "open"
  /\ refs[h] = 1 => \A k \in Handles : parent[k] = h => stage[k] # "reserved"
  /\ refs' = [refs EXCEPT ![h] = @ - 1]
  /\ IF refs[h] = 1 THEN Becomes(h, "closing") ELSE UNCHANGED stage
  /\ UNCHANGED <<live, status, parent, shutdown, regClosed>>

\* The running callback has returned.
CallbacksOver(h) == \A k \in Handles : parent[k] = h => stage[k] # "offered"

\* Mutant of CloseNative: the context is kept alive, and its queue with it.
CloseNativeKeepsQueue(h) ==
  /\ stage[h] = "closing" /\ CallbacksOver(h)
  /\ Becomes(h, "closed")
  /\ UNCHANGED <<live, status, parent, refs, shutdown, regClosed>>

\* ListenerClose, ConnectionClose or StreamClose, and the drop of the context:
\* what nobody accepted is closed with it.
CloseNative(h) ==
  /\ stage[h] = "closing" /\ CallbacksOver(h)
  /\ stage' = [k \in Handles |->
       IF k = h THEN "closed"
       ELSE IF parent[k] = h /\ stage[k] = "queued" THEN "closing"
       ELSE stage[k]]
  /\ UNCHANGED <<live, status, parent, refs, shutdown, regClosed>>

\* Mutant of DropGuard: the guard is declared before the handle.
DropGuardFirst(h) ==
  /\ stage[h] \in {"closing", "closed"}
  /\ Barrier!Release(h)
  /\ IF stage[h] = "closed" THEN Becomes(h, "gone") ELSE UNCHANGED stage
  /\ UNCHANGED <<parent, refs, shutdown, regClosed>>

DropGuard(h) ==
  /\ stage[h] = "closed"
  /\ Barrier!Release(h)
  /\ Becomes(h, "gone")
  /\ UNCHANGED <<parent, refs, shutdown, regClosed>>
--------------------------------------------------------------------------------
(* The registration *)

\* The documented teardown: shutdown, wait_idle, drop.
Shutdown ==
  /\ ~ shutdown
  /\ shutdown' = TRUE
  /\ UNCHANGED <<live, status, stage, parent, refs, regClosed>>

WaitIdle ==
  /\ shutdown
  /\ \E w \in Waiters : Barrier!Start(w) \/ Barrier!Resolve(w) \/ Barrier!ResolveAtOnce(w)
  /\ UNCHANGED <<stage, parent, refs, shutdown, regClosed>>

DropRegistration ==
  /\ status["owner"] = "resolved" /\ ~ regClosed
  /\ regClosed' = TRUE
  /\ UNCHANGED <<live, status, stage, parent, refs, shutdown>>
--------------------------------------------------------------------------------
Next ==
  \/ \E h \in Handles :
       \/ ReserveNew(h)
       \/ \E p \in Handles : ReserveStream(h, p) \/ Offer(h, p)
       \/ Open(h) \/ OpenFails(h)
       \/ Reject(h) \/ Adopt(h)
       \/ Accept(h) \/ Clone(h) \/ DropRef(h)
       \/ CloseNative(h) \/ DropGuard(h)
  \/ Shutdown
  \/ WaitIdle
  \/ DropRegistration

\* What was begun is finished; after shutdown the application drops what it
\* holds and awaits wait_idle, as the documented teardown asks it to.
Fairness ==
  /\ \A h \in Handles :
       /\ WF_vars(Open(h) \/ OpenFails(h))
       /\ WF_vars(Reject(h) \/ Adopt(h))
       /\ WF_vars(shutdown /\ DropRef(h))
       /\ WF_vars(CloseNative(h))
       /\ WF_vars(DropGuard(h))
  /\ WF_vars(WaitIdle)

Spec == Init /\ [][Next]_vars /\ Fairness
--------------------------------------------------------------------------------
(* Properties *)

Stages == {"none", "reserved", "offered", "queued", "open", "closing", "closed", "gone"}

TypeOK ==
  /\ live \subseteq Handles
  /\ status \in [Waiters -> {"idle", "waiting", "resolved", "cancelled"}]
  /\ stage \in [Handles -> Stages]
  /\ parent \in [Handles -> Handles]
  /\ refs \in [Handles -> Nat]
  /\ \A h \in Handles : refs[h] > 0 <=> stage[h] = "open"
  /\ shutdown \in BOOLEAN /\ regClosed \in BOOLEAN

\* MsQuic has the handle, or is about to be called for it.
Native(h) == stage[h] \in {"reserved", "offered", "queued", "open", "closing"}

\* The design's load-bearing rule (docs/registration-wait-idle-design.md, 5 and
\* 6): whenever the count is zero nothing native is open, being opened, offered
\* by a callback or being closed, so wait_idle never tells a lie.
IdleMeansClosed == live = {} => \A h \in Handles : ~ Native(h)

\* Section 9.2: RegistrationClose frees the worker pool that StreamClose and
\* ConnectionClose queue onto; it runs after the last of them.
RegistrationOutlives == regClosed => \A h \in Handles : ~ Native(h)

\* After the documented teardown began wait_idle resolves: no reservation leaks
\* on a failed open, a refused connection or in the queue of what was closed.
DrainsEventually == shutdown ~> status["owner"] = "resolved"
================================================================================
