-------------------------------- MODULE Listener --------------------------------
(***************************************************************************)
(* listener.rs: starting, accepting and stopping, by tasks that share the  *)
(* Listener, against the two events MsQuic raises for it.  A poll and an   *)
(* event handler are each one step under the lock of                       *)
(* ListenerInner::exclusive, except that poll_stop releases the lock       *)
(* before it calls the native stop: what runs in between is a step too.    *)
(* Registration::shutdown stops the listener without the crate's knowledge,*)
(* at any moment.  Each start begins a run of the listener, numbered from 1.*)
(*                                                                         *)
(* Connections are counted, not named.  The close of the listener, and of  *)
(* the connections still queued then, is Handles.tla.                      *)
(***************************************************************************)
EXTENDS Naturals

CONSTANTS Tasks,     \* the tasks that use the listener
          MaxConns,  \* bound on the connections MsQuic offers
          MaxStarts  \* bound on the starts: a stopped listener may start again

ASSUME ListenerAssumption == MaxConns \in Nat /\ MaxStarts \in Nat

VARIABLES
  state,         \* ListenerInnerExclusive::state
  queue,         \* how many connections ::new_connections holds
  acceptWaiters, \* ::new_connection_waiters
  stopWaiters,   \* ::shutdown_complete_waiters
  op,            \* what each task awaits
  woken,         \* its waker was called since its last poll
  calling,       \* of each task between poll_stop's unlock and its native stop,
                 \* the run it decided to stop; 0 of the others
  drained,       \* an accept has answered Finished since the last start
  native,        \* what MsQuic is doing with the listener
  offered,       \* how many connections MsQuic has offered
  starts,        \* how often the listener was started: the run it is in
  shutdown       \* Registration::shutdown was called

tasks == <<acceptWaiters, stopWaiters, op, woken>>
msquic == <<native, offered, starts, shutdown>>
vars == <<state, queue, tasks, calling, drained, msquic>>

Init ==
  /\ state = "Open" /\ queue = 0
  /\ acceptWaiters = {} /\ stopWaiters = {}
  /\ op = [t \in Tasks |-> "none"] /\ woken = [t \in Tasks |-> FALSE]
  /\ calling = [t \in Tasks |-> 0] /\ drained = FALSE
  /\ native = "idle" /\ offered = 0 /\ starts = 0 /\ shutdown = FALSE
--------------------------------------------------------------------------------
(* The tasks *)

\* A task polls what it awaits, or begins something.
MayPoll(t, o) == op[t] \in {"none", o} /\ calling[t] = 0

\* Poll::Ready, or a call that is not a future.
Return(t) ==
  /\ op' = [op EXCEPT ![t] = "none"] /\ woken' = [woken EXCEPT ![t] = FALSE]
  /\ UNCHANGED <<acceptWaiters, stopWaiters>>

\* Poll::Pending, the waker registered by then.
Park(t, o) == op' = [op EXCEPT ![t] = o] /\ woken' = [woken EXCEPT ![t] = FALSE]

\* start and start_on_port.  The lock is held across ListenerStart, so that no
\* event is handled before the state is set; a start that fails changes nothing.
\* Whether MsQuic starts a listener after the registration's shutdown is open.
Start(t) ==
  /\ MayPoll(t, "none") /\ state \in {"Open", "ShutdownComplete"}
  /\ native \in {"idle", "stopped"} /\ starts < MaxStarts
  /\ state' = "StartComplete" /\ native' = "running"
  /\ starts' = starts + 1 /\ drained' = FALSE
  /\ UNCHANGED <<queue, tasks, calling, offered, shutdown>>

\* Mutant of PollAccept: the state is looked at before the queue.
PollAcceptStateFirst(t) ==
  /\ MayPoll(t, "accept")
  /\ \/ state = "ShutdownComplete" /\ Return(t) /\ drained' = TRUE /\ UNCHANGED queue
     \/ /\ state # "ShutdownComplete" /\ queue > 0
        /\ queue' = queue - 1 /\ Return(t) /\ UNCHANGED drained
     \/ queue = 0 /\ state = "Open" /\ Return(t) /\ UNCHANGED <<queue, drained>>
     \/ /\ queue = 0 /\ state \in {"StartComplete", "Shutdown"} /\ Park(t, "accept")
        /\ acceptWaiters' = acceptWaiters \cup {t}
        /\ UNCHANGED <<queue, drained, stopWaiters>>
  /\ UNCHANGED <<state, calling, msquic>>

\* Mutant of PollAccept: whoever was woken takes a connection.
PollAcceptWokenPops(t) ==
  /\ MayPoll(t, "accept") /\ UNCHANGED <<state, calling, msquic>>
  /\ \/ /\ woken[t] \/ queue > 0
        /\ queue' = queue - 1 /\ Return(t) /\ UNCHANGED drained
     \/ /\ queue = 0 /\ ~ woken[t] /\ state \in {"StartComplete", "Shutdown"}
        /\ Park(t, "accept") /\ acceptWaiters' = acceptWaiters \cup {t}
        /\ UNCHANGED <<queue, drained, stopWaiters>>

\* The queue is emptied first, whatever the state.
PollAccept(t) ==
  /\ MayPoll(t, "accept")
  /\ \/ queue > 0 /\ queue' = queue - 1 /\ Return(t) /\ UNCHANGED drained
     \/ queue = 0 /\ state = "Open" /\ Return(t) /\ UNCHANGED <<queue, drained>>
     \/ /\ queue = 0 /\ state = "ShutdownComplete" /\ Return(t)
        /\ drained' = TRUE /\ UNCHANGED queue
     \/ /\ queue = 0 /\ state \in {"StartComplete", "Shutdown"} /\ Park(t, "accept")
        /\ acceptWaiters' = acceptWaiters \cup {t}
        /\ UNCHANGED <<queue, drained, stopWaiters>>
  /\ UNCHANGED <<state, calling, msquic>>

\* Mutant of PollStop: the state is left to the STOP_COMPLETE event.
PollStopStateLater(t) ==
  /\ MayPoll(t, "stop")
  /\ \/ state \in {"Open", "ShutdownComplete"} /\ Return(t) /\ UNCHANGED calling
     \/ /\ state \in {"StartComplete", "Shutdown"} /\ Park(t, "stop")
        /\ stopWaiters' = stopWaiters \cup {t}
        /\ calling' = [calling EXCEPT ![t] = starts]
        /\ UNCHANGED acceptWaiters
  /\ UNCHANGED <<state, queue, drained, msquic>>

\* Up to the unlock: the first to stop is the one that will call MsQuic.
PollStop(t) ==
  /\ MayPoll(t, "stop")
  /\ \/ state \in {"Open", "ShutdownComplete"} /\ Return(t) /\ UNCHANGED <<state, calling>>
     \/ /\ state \in {"StartComplete", "Shutdown"} /\ Park(t, "stop")
        /\ stopWaiters' = stopWaiters \cup {t}
        /\ state' = "Shutdown"
        /\ calling' = IF state = "StartComplete" THEN [calling EXCEPT ![t] = starts]
                                                 ELSE calling
        /\ UNCHANGED acceptWaiters
  /\ UNCHANGED <<queue, drained, msquic>>

\* MsQuic unbinds a listener that runs, and completes the stop inside the call
\* that asks for it or later.
Unbind == native' = IF native = "running" THEN "stopping" ELSE native

\* ListenerStop, whatever run the listener is in by now.
NativeStop(t) ==
  /\ calling[t] # 0 /\ calling' = [calling EXCEPT ![t] = 0]
  /\ Unbind
  /\ UNCHANGED <<state, queue, tasks, drained, offered, starts, shutdown>>

\* The future is dropped, by tokio::select! or with its task: its waker stays.
Cancel(t) ==
  /\ op[t] # "none" /\ calling[t] = 0
  /\ op' = [op EXCEPT ![t] = "none"] /\ woken' = [woken EXCEPT ![t] = FALSE]
  /\ UNCHANGED <<state, queue, acceptWaiters, stopWaiters, calling, drained, msquic>>

\* Registration::shutdown stops all listeners; none of the crate's state changes.
RegistrationShutdown ==
  /\ shutdown' = TRUE
  /\ Unbind
  /\ UNCHANGED <<state, queue, tasks, calling, drained, offered, starts>>
--------------------------------------------------------------------------------
(* The events *)

Wake(ts) == woken' = [t \in Tasks |-> woken[t] \/ (t \in ts /\ op[t] # "none")]

\* Mutant of HandleNewConnection: one waiter is woken for one connection.
HandleNewConnectionWakesOne ==
  /\ native \in {"running", "stopping"} /\ offered < MaxConns
  /\ offered' = offered + 1 /\ queue' = queue + 1
  /\ \/ acceptWaiters = {} /\ UNCHANGED <<acceptWaiters, woken>>
     \/ \E t \in acceptWaiters : acceptWaiters' = acceptWaiters \ {t} /\ Wake({t})
  /\ UNCHANGED <<state, stopWaiters, op, calling, drained, native, starts, shutdown>>

\* handle_event_new_connection.  A callback that began before the stop may get
\* the lock after it.  A connection that is refused changes nothing here.
HandleNewConnection ==
  /\ native \in {"running", "stopping"} /\ offered < MaxConns
  /\ offered' = offered + 1 /\ queue' = queue + 1
  /\ Wake(acceptWaiters) /\ acceptWaiters' = {}
  /\ UNCHANGED <<state, stopWaiters, op, calling, drained, native, starts, shutdown>>

\* Mutant of HandleStopComplete: the state stays Shutdown.
HandleStopCompleteStateless ==
  /\ native = "stopping" /\ native' = "stopped"
  /\ Wake(acceptWaiters \cup stopWaiters) /\ acceptWaiters' = {} /\ stopWaiters' = {}
  /\ UNCHANGED <<state, queue, op, calling, drained, offered, starts, shutdown>>

\* handle_event_stop_complete, after the last callback of the listener.
HandleStopComplete ==
  /\ native = "stopping" /\ native' = "stopped"
  /\ state' = "ShutdownComplete"
  /\ Wake(acceptWaiters \cup stopWaiters) /\ acceptWaiters' = {} /\ stopWaiters' = {}
  /\ UNCHANGED <<queue, op, calling, drained, offered, starts, shutdown>>
--------------------------------------------------------------------------------
Next ==
  \/ \E t \in Tasks :
       Start(t) \/ PollAccept(t) \/ PollStop(t) \/ NativeStop(t) \/ Cancel(t)
  \/ RegistrationShutdown
  \/ HandleNewConnection
  \/ HandleStopComplete

\* A woken task is polled again, a poll that has begun ends, and MsQuic completes
\* a stop it was asked for.
Fairness ==
  /\ \A t \in Tasks :
       /\ WF_vars(woken[t] /\ (PollAccept(t) \/ PollStop(t)))
       /\ WF_vars(NativeStop(t))
  /\ WF_vars(HandleStopComplete)

Spec == Init /\ [][Next]_vars /\ Fairness
--------------------------------------------------------------------------------
(* Properties *)

TypeOK ==
  /\ state \in {"Open", "StartComplete", "Shutdown", "ShutdownComplete"}
  /\ queue \in 0..MaxConns
  /\ acceptWaiters \subseteq Tasks /\ stopWaiters \subseteq Tasks
  /\ op \in [Tasks -> {"none", "accept", "stop"}] /\ woken \in [Tasks -> BOOLEAN]
  /\ calling \in [Tasks -> 0..MaxStarts] /\ drained \in BOOLEAN
  /\ native \in {"idle", "running", "stopping", "stopped"}
  /\ offered \in 0..MaxConns /\ starts \in 0..MaxStarts
  /\ shutdown \in BOOLEAN

\* listener.rs:376 and 396-404: a task that waits and was not woken is on the
\* list that the event it waits for drains, and there is nothing for it now.
\* Waking one acceptor per connection would not do: it may be dropped unpolled.
NoLostWakeup ==
  \A t \in Tasks : ~ woken[t] =>
    /\ op[t] = "accept" => t \in acceptWaiters /\ queue = 0
                                               /\ state \in {"StartComplete", "Shutdown"}
    /\ op[t] = "stop" => t \in stopWaiters /\ state = "Shutdown"

\* listener.rs:152-165: a run is stopped by one task, and is not taken for a
\* started one after that.  The native stop comes after the unlock and knows no
\* runs; it finds the run it is meant for, still running, unless
\* Registration::shutdown stopped the listener first (registration.rs:128-134).
\* Then the listener may be down, or up again, and the call stops the new run.
StopIsDue ==
  \A t \in Tasks : calling[t] # 0 =>
    /\ \A u \in Tasks \ {t} : calling[u] # calling[t]
    /\ calling[t] = starts => state # "StartComplete"
    /\ (calling[t] = starts /\ native = "running") \/ shutdown

\* listener.rs:119-131: Finished is the last answer.  No connection that MsQuic
\* handed over is still queued, or comes, until the listener starts again.
NothingAfterFinished == drained => queue = 0 /\ native = "stopped"

\* A stop() that is awaited ends.  A restart may have it stop the listener once
\* more (162), which MaxStarts bounds.
StopResolves == \A t \in Tasks : (op[t] = "stop") ~> (op[t] # "stop")
================================================================================
