-------------------------------- MODULE Rundown --------------------------------
(***************************************************************************)
(* registration.rs: the count of live tracked handles (RundownState),      *)
(* the RAII guards that hold it, and the wait_idle futures.                *)
(*                                                                         *)
(* Each action is one access to shared memory: a load or a                 *)
(* read-modify-write of `active`, or one critical section of the `waiters` *)
(* mutex.  Guards are dropped and futures polled on different threads, so  *)
(* every interleaving of these accesses is a behaviour.                    *)
(***************************************************************************)
EXTENDS Naturals, FiniteSets

CONSTANTS Guards,    \* RundownGuard values; one that was dropped is used again
          Waiters,   \* WaitIdle futures
          Tasks,     \* the tasks that may poll a future, i.e. their wakers
          NoTask,    \* the task of a future that was not polled yet
          NoKey      \* WaitIdle::key = None

ASSUME RundownAssumption ==
  /\ IsFiniteSet(Guards)
  /\ NoTask \notin Tasks
  /\ NoKey \notin Nat

VARIABLES
  active,     \* RundownState::active
  next,       \* Waiters::next, the next free key
  map,        \* Waiters::map, as a set of [key, waker] slots
  gpc,        \* where the life of each guard is
  woken,      \* the slots a dropping guard drained and has not woken yet
  wpc,        \* where the poll (or drop) of each future is
  key,        \* WaitIdle::key
  task,       \* the task that polled the future last
  notified    \* that task was woken after the future's last poll began

vars == <<active, next, map, gpc, woken, wpc, key, task, notified>>
guardVars == <<gpc, woken>>
waiterVars == <<wpc, key, task>>

Slot == [key : Nat, waker : Tasks]

GuardPc == {"none", "held", "drain", "waking"}
WaiterPc == {"unpolled", "insert", "recheck", "pending",
             "deregReady", "ready", "deregDrop", "dropped"}

TypeOK ==
  /\ active \in Nat
  /\ next \in Nat
  /\ map \subseteq Slot
  /\ gpc \in [Guards -> GuardPc]
  /\ woken \in [Guards -> SUBSET Slot]
  /\ wpc \in [Waiters -> WaiterPc]
  /\ key \in [Waiters -> Nat \cup {NoKey}]
  /\ task \in [Waiters -> Tasks \cup {NoTask}]
  /\ notified \in [Waiters -> BOOLEAN]

Init ==
  /\ active = 0
  /\ next = 0
  /\ map = {}
  /\ gpc = [g \in Guards |-> "none"]
  /\ woken = [g \in Guards |-> {}]
  /\ wpc = [w \in Waiters |-> "unpolled"]
  /\ key = [w \in Waiters |-> NoKey]
  /\ task = [w \in Waiters |-> NoTask]
  /\ notified = [w \in Waiters |-> FALSE]

--------------------------------------------------------------------------------
(* Guards *)

\* RundownGuard::new: fetch_add(1).
Reserve(g) ==
  /\ gpc[g] = "none"
  /\ active' = active + 1
  /\ gpc' = [gpc EXCEPT ![g] = "held"]
  /\ UNCHANGED <<next, map, woken, waiterVars, notified>>

\* Mutants of Release: the last guard forgets to drain; one drop is counted
\* twice.
ReleaseSilently(g) ==
  /\ gpc[g] = "held"
  /\ active' = active - 1
  /\ gpc' = [gpc EXCEPT ![g] = "none"]
  /\ UNCHANGED <<next, map, woken, waiterVars, notified>>

ReleaseTwice(g) ==
  /\ gpc[g] = "held"
  /\ active' = IF active > 1 THEN active - 2 ELSE 0
  /\ gpc' = [gpc EXCEPT ![g] = IF active = 1 THEN "drain" ELSE "none"]
  /\ UNCHANGED <<next, map, woken, waiterVars, notified>>

\* Drop for RundownGuard, fetch_sub(1): the guard that finds 1 must drain.
Release(g) ==
  /\ gpc[g] = "held"
  /\ active' = active - 1
  /\ gpc' = [gpc EXCEPT ![g] = IF active = 1 THEN "drain" ELSE "none"]
  /\ UNCHANGED <<next, map, woken, waiterVars, notified>>

\* It takes every waker out of the map under the lock ...
Drain(g) ==
  /\ gpc[g] = "drain"
  /\ woken' = [woken EXCEPT ![g] = map]
  /\ map' = {}
  /\ gpc' = [gpc EXCEPT ![g] = IF map = {} THEN "none" ELSE "waking"]
  /\ UNCHANGED <<active, next, waiterVars, notified>>

\* ... and wakes them one by one after releasing it.  A woken task polls again
\* every pending future it polled last; it does nothing for one that moved to
\* another task.
Wake(g) ==
  /\ gpc[g] = "waking"
  /\ \E s \in woken[g] :
       /\ woken' = [woken EXCEPT ![g] = @ \ {s}]
       /\ gpc' = [gpc EXCEPT ![g] = IF woken[g] = {s} THEN "none" ELSE "waking"]
       /\ notified' = [w \in Waiters |-> notified[w] \/ task[w] = s.waker]
  /\ UNCHANGED <<active, next, map, waiterVars>>

--------------------------------------------------------------------------------
(* Futures *)

\* poll up to the fast-path load of `active`.  A pending future may be polled
\* again at any time, and by another task than before.
Poll(w, t) ==
  /\ wpc[w] \in {"unpolled", "pending"}
  /\ task' = [task EXCEPT ![w] = t]
  /\ notified' = [notified EXCEPT ![w] = FALSE]
  /\ wpc' = [wpc EXCEPT ![w] = IF active = 0 THEN "deregReady" ELSE "insert"]
  /\ UNCHANGED <<active, next, map, guardVars, key>>

\* The map after HashMap::insert(k, t).
WithSlot(k, t) == {s \in map : s.key # k} \cup {[key |-> k, waker |-> t]}

\* The critical section of poll: reuse the future's key or allocate one.
Register(w) ==
  /\ wpc[w] = "insert"
  /\ \/ /\ key[w] # NoKey
        /\ map' = WithSlot(key[w], task[w])
        /\ UNCHANGED <<next, key>>
     \/ /\ key[w] = NoKey
        /\ map' = WithSlot(next, task[w])
        /\ next' = next + 1
        /\ key' = [key EXCEPT ![w] = next]
  /\ wpc' = [wpc EXCEPT ![w] = "recheck"]
  /\ UNCHANGED <<active, guardVars, task, notified>>

\* Mutant of Recheck: Pending without the second load.
RecheckSkipped(w) ==
  /\ wpc[w] = "recheck"
  /\ wpc' = [wpc EXCEPT ![w] = "pending"]
  /\ UNCHANGED <<active, next, map, guardVars, key, task, notified>>

\* The second load of `active`, after registering.
Recheck(w) ==
  /\ wpc[w] = "recheck"
  /\ wpc' = [wpc EXCEPT ![w] = IF active = 0 THEN "deregReady" ELSE "pending"]
  /\ UNCHANGED <<active, next, map, guardVars, key, task, notified>>

\* Mutant of Deregister: the key is taken, the slot stays in the map.
DeregisterKeyOnly(w) ==
  /\ wpc[w] \in {"deregReady", "deregDrop"}
  /\ key' = [key EXCEPT ![w] = NoKey]
  /\ wpc' = [wpc EXCEPT ![w] = IF @ = "deregReady" THEN "ready" ELSE "dropped"]
  /\ UNCHANGED <<active, next, map, guardVars, task, notified>>

\* WaitIdle::deregister, from poll before Ready and from Drop.
Deregister(w) ==
  /\ wpc[w] \in {"deregReady", "deregDrop"}
  /\ map' = {s \in map : s.key # key[w]}
  /\ key' = [key EXCEPT ![w] = NoKey]
  /\ wpc' = [wpc EXCEPT ![w] = IF @ = "deregReady" THEN "ready" ELSE "dropped"]
  /\ UNCHANGED <<active, next, guardVars, task, notified>>

\* The owner drops a future that is not being polled.
Cancel(w) ==
  /\ wpc[w] \in {"unpolled", "pending"}
  /\ wpc' = [wpc EXCEPT ![w] = "deregDrop"]
  /\ UNCHANGED <<active, next, map, guardVars, key, task, notified>>

--------------------------------------------------------------------------------
GuardStep(g) == Drain(g) \/ Wake(g)
PollStep(w) == Register(w) \/ Recheck(w) \/ Deregister(w)

Next ==
  \/ \E g \in Guards : Reserve(g) \/ Release(g) \/ GuardStep(g)
  \/ \E w \in Waiters :
       \/ \E t \in Tasks : Poll(w, t)
       \/ PollStep(w)
       \/ Cancel(w)

Spec == Init /\ [][Next]_vars

\* The executor polls what it was told to poll.
Repoll(w) == /\ notified[w]
             /\ \E t \in Tasks : Poll(w, t)

\* A thread finishes the drop or the poll it is in, and a woken task runs.
\* Nothing makes the application create or drop a handle, or poll a future
\* for the first time.
Fairness == /\ \A g \in Guards : WF_vars(Drain(g)) /\ WF_vars(Wake(g))
            /\ \A w \in Waiters : WF_vars(PollStep(w)) /\ WF_vars(Repoll(w))

FairSpec == Spec /\ Fairness

--------------------------------------------------------------------------------
(* Properties *)

\* The guards that `active` counts.
Counted == {g \in Guards : gpc[g] = "held"}

\* The slots of the map, and those on their way to being woken.
Promised == map \cup UNION {woken[g] : g \in Guards}

\* Someone will drain the map: the last guard, when it goes, or one that
\* already saw the count reach zero.
DrainAhead == active > 0 \/ \E g \in Guards : gpc[g] = "drain"

\* The re-check after registering (registration.rs:235) closes the window
\* between the fast-path load and the lock: the task of a pending future has
\* been woken, or is about to be, or its waker is in a map that will be drained.
NoLostWakeup ==
  \A w \in Waiters : wpc[w] = "pending" =>
    \/ notified[w]
    \/ \E g \in Guards : \E s \in woken[g] : s.waker = task[w]
    \/ [key |-> key[w], waker |-> task[w]] \in map /\ DrainAhead

\* The map never holds a slot that no future will remove: each slot is under
\* the key of a future that still exists, and no two futures share a key, so
\* deregistering one never silences another.
SlotsOwned ==
  /\ \A s \in map : \E w \in Waiters : key[w] = s.key
  /\ \A w \in Waiters : wpc[w] \in {"ready", "dropped"} => key[w] = NoKey
  /\ \A v, w \in Waiters : key[v] = key[w] => v = w \/ key[v] = NoKey

\* `active` is the number of reservations that were taken and not released:
\* the count never wraps below zero however drops interleave.
ActiveIsCount == active = Cardinality(Counted)

\* The refinement mapping: a future has resolved once its load saw zero.
Status(w) == CASE wpc[w] = "unpolled" -> "idle"
               [] wpc[w] \in {"insert", "recheck", "pending"} -> "waiting"
               [] wpc[w] \in {"deregReady", "ready"} -> "resolved"
               [] OTHER -> "cancelled"

Barrier == INSTANCE IdleBarrier
             WITH live <- Counted, status <- [w \in Waiters |-> Status(w)]

\* The counter, the slots and the wakers implement the idle barrier: wait_idle
\* resolves only at a moment when no tracked handle holds a reservation, and
\* always resolves once none does.
ImplementsBarrier == Barrier!Spec
================================================================================
