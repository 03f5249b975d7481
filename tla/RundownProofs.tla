----------------------------- MODULE RundownProofs -----------------------------
(***************************************************************************)
(* Proofs about Rundown for any finite set of guards and any sets of       *)
(* futures and tasks: the counter counts, no slot is leaked, no wakeup is  *)
(* lost, and the whole implements the safety part of the idle barrier.     *)
(***************************************************************************)
EXTENDS Rundown, FiniteSetTheorems, TLAPS

(* The inductive invariant *)

\* Keys in use were allocated, and a registered future has one.
KeysAllocated ==
  /\ \A w \in Waiters : key[w] \in Nat => key[w] < next
  /\ \A w \in Waiters : wpc[w] \in {"recheck", "pending"} => key[w] \in Nat
  /\ \A w \in Waiters : wpc[w] = "unpolled" => key[w] = NoKey

\* A guard that is not waking anybody holds no drained slot, so draining never
\* overwrites slots that were promised a wake.
WokenOnlyWhileWaking == \A g \in Guards : gpc[g] # "waking" => woken[g] = {}

\* The wakeup of a future's task is on its way.
WakeUnderway(w) == \/ notified[w]
                   \/ \E g \in Guards : \E s \in woken[g] : s.waker = task[w]

\* The future's current waker is in the map.
InMap(w) == [key |-> key[w], waker |-> task[w]] \in map

\* A registered future is in the map or its wakeup is on its way; once it is
\* parked, being in the map is enough only if the map will be drained.
RegisteredReachable ==
  \A w \in Waiters :
    /\ wpc[w] = "recheck" => WakeUnderway(w) \/ InMap(w)
    /\ wpc[w] = "pending" => WakeUnderway(w) \/ (InMap(w) /\ DrainAhead)

\* A future that is about to register, or has, was polled by a task.
PolledByTask ==
  \A w \in Waiters : wpc[w] \in {"insert", "recheck", "pending"} => task[w] \in Tasks

CountInv == TypeOK /\ PolledByTask /\ ActiveIsCount

SlotInv == SlotsOwned /\ KeysAllocated

WakeInv == WokenOnlyWhileWaking /\ RegisteredReachable

--------------------------------------------------------------------------------
(* The counter *)

\* Counted is finite, so its cardinality behaves as a counter.
LEMMA CountedFinite == IsFiniteSet(Counted)
  BY RundownAssumption, FS_Subset DEF Counted

\* The state predicate CountInv is inductive: a guard that is held is counted,
\* so fetch_sub never finds zero (registration.rs:64).
LEMMA CountInvStep == CountInv /\ [Next]_vars => CountInv'
<1> SUFFICES ASSUME CountInv, [Next]_vars
             PROVE  CountInv'
  OBVIOUS
<1> USE RundownAssumption DEF CountInv, TypeOK, PolledByTask, Slot, GuardPc, WaiterPc
<1>1. ASSUME NEW g \in Guards, Reserve(g)
      PROVE  CountInv'
  <2>1. Counted' = Counted \cup {g} /\ g \notin Counted
    BY <1>1 DEF Reserve, Counted
  <2>2. Cardinality(Counted') = Cardinality(Counted) + 1
    BY <2>1, CountedFinite, FS_AddElement
  <2>3. TypeOK' /\ PolledByTask'
    BY <1>1 DEF Reserve, waiterVars
  <2> QED
    BY <1>1, <2>2, <2>3 DEF Reserve, ActiveIsCount
<1>2. ASSUME NEW g \in Guards, Release(g)
      PROVE  CountInv'
  <2>1. Counted' = Counted \ {g} /\ g \in Counted
    BY <1>2 DEF Release, Counted
  <2>2. Cardinality(Counted') = Cardinality(Counted) - 1
    BY <2>1, CountedFinite, FS_RemoveElement
  <2>3. Cardinality(Counted') \in Nat
    <3>1. IsFiniteSet(Counted')
      BY <2>1, CountedFinite, FS_RemoveElement
    <3> QED BY <3>1, FS_CardinalityType
  <2>4. active' = Cardinality(Counted')
    BY <1>2, <2>2 DEF Release, ActiveIsCount
  <2>5. TypeOK' /\ PolledByTask'
    BY <1>2, <2>3, <2>4 DEF Release, waiterVars
  <2> QED
    BY <2>4, <2>5 DEF ActiveIsCount
<1>3. ASSUME NEW g \in Guards, GuardStep(g)
      PROVE  CountInv'
  <2>1. Counted' = Counted
    BY <1>3 DEF GuardStep, Drain, Wake, Counted
  <2>2. TypeOK' /\ PolledByTask'
    <3>1. CASE Drain(g)
      BY <3>1 DEF Drain, waiterVars
    <3>2. CASE Wake(g)
      BY <3>2 DEF Wake, waiterVars
    <3> QED BY <1>3, <3>1, <3>2 DEF GuardStep
  <2>3. active' = active
    BY <1>3 DEF GuardStep, Drain, Wake
  <2> QED BY <2>1, <2>2, <2>3 DEF ActiveIsCount
<1>4. ASSUME NEW w \in Waiters,
             (\E t \in Tasks : Poll(w, t)) \/ PollStep(w) \/ Cancel(w)
      PROVE  CountInv'
  <2>1. Counted' = Counted /\ active' = active
    BY <1>4 DEF Poll, PollStep, Register, Recheck, Deregister, Cancel, guardVars, Counted
  <2>2. TypeOK' /\ PolledByTask'
    <3>1. CASE \E t \in Tasks : Poll(w, t)
      BY <3>1 DEF Poll, guardVars
    <3>2. CASE Register(w)
      BY <3>2 DEF Register, WithSlot, guardVars
    <3>3. CASE Recheck(w)
      BY <3>3 DEF Recheck, guardVars
    <3>4. CASE Deregister(w)
      BY <3>4 DEF Deregister, guardVars
    <3>5. CASE Cancel(w)
      BY <3>5 DEF Cancel, guardVars
    <3> QED BY <1>4, <3>1, <3>2, <3>3, <3>4, <3>5 DEF PollStep
  <2> QED BY <2>1, <2>2 DEF ActiveIsCount
<1>5. CASE UNCHANGED vars
  BY <1>5 DEF vars, ActiveIsCount, Counted
<1> QED
  BY <1>1, <1>2, <1>3, <1>4, <1>5 DEF Next

LEMMA CountInvInit == Init => CountInv
<1> SUFFICES ASSUME Init PROVE CountInv
  OBVIOUS
<1>1. Counted = {}
  BY DEF Init, Counted
<1>2. TypeOK /\ PolledByTask
  BY RundownAssumption DEF Init, TypeOK, PolledByTask, GuardPc, WaiterPc
<1> QED
  BY <1>1, <1>2, FS_EmptySet DEF Init, CountInv, ActiveIsCount

\* Every variable keeps its type; in particular `active` never goes below zero.
THEOREM TypeCorrect == Spec => []TypeOK
<1>1. Spec => []CountInv
  BY CountInvInit, CountInvStep, PTL DEF Spec
<1> QED
  BY <1>1, PTL DEF CountInv

\* `active` is the number of guards created and not dropped, whatever the
\* interleaving of fetch_add and fetch_sub.
THEOREM CountCorrect == Spec => []ActiveIsCount
<1>1. Spec => []CountInv
  BY CountInvInit, CountInvStep, PTL DEF Spec
<1> QED
  BY <1>1, PTL DEF CountInv

--------------------------------------------------------------------------------
(* The slots *)

LEMMA SlotInvInit == Init => SlotInv
  BY RundownAssumption DEF Init, SlotInv, SlotsOwned, KeysAllocated

\* Slots stay owned: only the allocation takes a fresh key, and a future gives
\* its key up only together with its slot.
LEMMA SlotInvStep == CountInv /\ SlotInv /\ [Next]_vars => SlotInv'
<1> SUFFICES ASSUME CountInv, SlotInv, [Next]_vars
             PROVE  SlotInv'
  OBVIOUS
<1> USE RundownAssumption DEF CountInv, TypeOK, Slot, WaiterPc, SlotInv, SlotsOwned, KeysAllocated
<1>1. ASSUME NEW g \in Guards, Reserve(g) \/ Release(g) \/ GuardStep(g)
      PROVE  SlotInv'
  <2>1. UNCHANGED <<next, waiterVars>> /\ map' \subseteq map
    BY <1>1 DEF Reserve, Release, GuardStep, Drain, Wake
  <2> QED BY <2>1 DEF waiterVars
<1>2. ASSUME NEW w \in Waiters, NEW t \in Tasks, Poll(w, t)
      PROVE  SlotInv'
  BY <1>2 DEF Poll, guardVars
<1>3. ASSUME NEW w \in Waiters, Register(w)
      PROVE  SlotInv'
  <2>1. CASE key[w] # NoKey
    BY <1>3, <2>1 DEF Register, WithSlot
  <2>2. CASE key[w] = NoKey
    <3>1. /\ map' = WithSlot(next, task[w])
          /\ next' = next + 1
          /\ key' = [key EXCEPT ![w] = next]
          /\ wpc' = [wpc EXCEPT ![w] = "recheck"]
      BY <1>3, <2>2 DEF Register
    <3>2. \A v \in Waiters : v # w => key[v] # next
      OBVIOUS
    <3>3. \A s \in map' : \E v \in Waiters : key'[v] = s.key
      <4> TAKE s \in map'
      <4>1. CASE s \in map
        <5>1. PICK v \in Waiters : key[v] = s.key
          BY <4>1
        <5>2. v # w
          BY <4>1, <5>1, <2>2
        <5> QED BY <3>1, <5>1, <5>2
      <4>2. CASE s \notin map
        BY <3>1, <4>2 DEF WithSlot
      <4> QED BY <4>1, <4>2
    <3>4. \A u, v \in Waiters : key'[u] = key'[v] => u = v \/ key'[u] = NoKey
      BY <3>1, <3>2
    <3>5. KeysAllocated'
      BY <3>1
    <3> QED BY <3>1, <3>3, <3>4, <3>5
  <2> QED BY <2>1, <2>2
<1>4. ASSUME NEW w \in Waiters, Recheck(w)
      PROVE  SlotInv'
  BY <1>4 DEF Recheck, guardVars
<1>5. ASSUME NEW w \in Waiters, Deregister(w)
      PROVE  SlotInv'
  <2>1. \A s \in map' : \E v \in Waiters : key'[v] = s.key
    <3> TAKE s \in map'
    <3>1. s \in map /\ s.key # key[w]
      BY <1>5 DEF Deregister
    <3>2. PICK v \in Waiters : key[v] = s.key
      BY <3>1
    <3> QED BY <1>5, <3>1, <3>2 DEF Deregister
  <2> QED BY <1>5, <2>1 DEF Deregister
<1>6. ASSUME NEW w \in Waiters, Cancel(w)
      PROVE  SlotInv'
  BY <1>6 DEF Cancel, guardVars
<1>7. CASE UNCHANGED vars
  BY <1>7 DEF vars
<1> QED
  BY <1>1, <1>2, <1>3, <1>4, <1>5, <1>6, <1>7 DEF Next, PollStep

\* No slot outlives its future and no two futures share one
\* (registration.rs:204-250), so dropping a future never silences another.
THEOREM SlotsCorrect == Spec => []SlotsOwned
<1>1. Init => CountInv /\ SlotInv
  BY CountInvInit, SlotInvInit
<1>2. (CountInv /\ SlotInv) /\ [Next]_vars => (CountInv /\ SlotInv)'
  BY CountInvStep, SlotInvStep
<1>3. SlotInv => SlotsOwned
  BY DEF SlotInv
<1> QED
  BY <1>1, <1>2, <1>3, PTL DEF Spec

--------------------------------------------------------------------------------
(* The wakeups *)

LEMMA WakeInvInit == Init => WakeInv
  BY DEF Init, WakeInv, WokenOnlyWhileWaking, RegisteredReachable

\* A wakeup that is on its way stays so until the future is polled again.
LEMMA UnderwayStays ==
  ASSUME CountInv, WokenOnlyWhileWaking, [Next]_vars,
         NEW w \in Waiters, WakeUnderway(w), task'[w] = task[w],
         notified[w] => notified'[w]
  PROVE  WakeUnderway(w)'
<1> USE DEF CountInv, TypeOK
<1>1. CASE notified[w]
  BY <1>1 DEF WakeUnderway
<1>2. ASSUME NEW g \in Guards, NEW s \in woken[g], s.waker = task[w]
      PROVE  WakeUnderway(w)'
  <2>1. CASE woken' = woken
    BY <1>2, <2>1 DEF WakeUnderway
  <2>2. ASSUME NEW h \in Guards, Drain(h)
        PROVE  WakeUnderway(w)'
    <3>1. woken[h] = {}
      BY <2>2 DEF Drain, WokenOnlyWhileWaking
    <3>2. h # g
      BY <1>2, <3>1
    <3>3. woken'[g] = woken[g]
      BY <2>2, <3>2 DEF Drain
    <3> QED BY <1>2, <3>3 DEF WakeUnderway
  <2>3. ASSUME NEW h \in Guards, Wake(h)
        PROVE  WakeUnderway(w)'
    <3>1. PICK r \in woken[h] :
            /\ woken' = [woken EXCEPT ![h] = @ \ {r}]
            /\ notified' = [v \in Waiters |-> notified[v] \/ task[v] = r.waker]
      BY <2>3 DEF Wake
    <3>2. CASE s = r
      <4>1. task[w] = r.waker
        BY <1>2, <3>2
      <4>2. notified'[w] = (notified[w] \/ task[w] = r.waker)
        BY <3>1
      <4> QED BY <4>1, <4>2 DEF WakeUnderway
    <3>3. CASE s # r
      <4>1. s \in woken'[g]
        BY <3>1, <3>3, <1>2
      <4> QED BY <4>1, <1>2 DEF WakeUnderway
    <3> QED BY <3>2, <3>3
  <2>4. woken' = woken \/ \E h \in Guards : Drain(h) \/ Wake(h)
    BY DEF Next, vars, Reserve, Release, GuardStep, Poll, PollStep, Register,
           Recheck, Deregister, Cancel, guardVars
  <2> QED BY <2>1, <2>2, <2>3, <2>4
<1> QED BY <1>1, <1>2 DEF WakeUnderway

\* The slot of a future stays in the map until it is drained into some guard's
\* hands: no other future can remove or overwrite it.
LEMMA InMapStays ==
  ASSUME CountInv, SlotInv, [Next]_vars,
         NEW w \in Waiters, wpc[w] \in {"recheck", "pending"}, InMap(w),
         task'[w] = task[w], wpc'[w] \in {"recheck", "pending"}
  PROVE  InMap(w)' \/ WakeUnderway(w)'
<1> USE DEF CountInv, TypeOK, SlotInv, SlotsOwned, KeysAllocated, WaiterPc
<1> DEFINE mine == [key |-> key[w], waker |-> task[w]]
<1>0. key[w] \in Nat /\ key[w] < next
  OBVIOUS
<1>1. ASSUME NEW g \in Guards, Reserve(g) \/ Release(g) \/ Wake(g)
      PROVE  InMap(w)'
  BY <1>1 DEF Reserve, Release, Wake, waiterVars, InMap
<1>2. ASSUME NEW g \in Guards, Drain(g)
      PROVE  WakeUnderway(w)'
  <2>1. mine \in woken'[g]
    BY <1>2 DEF Drain, InMap
  <2>2. mine.waker = task'[w]
    OBVIOUS
  <2> QED BY <2>1, <2>2 DEF WakeUnderway
<1>3. ASSUME NEW v \in Waiters,
             (\E t \in Tasks : Poll(v, t)) \/ Recheck(v) \/ Cancel(v)
      PROVE  InMap(w)'
  BY <1>3 DEF Poll, Recheck, Cancel, InMap
<1>4. ASSUME NEW v \in Waiters, Register(v)
      PROVE  InMap(w)'
  <2>1. v # w
    BY <1>4 DEF Register
  <2>2. key'[w] = key[w]
    BY <1>4, <2>1 DEF Register
  <2>3. PICK k : map' = WithSlot(k, task[v]) /\ k # key[w]
    <3>1. CASE key[v] # NoKey
      BY <1>4, <2>1, <3>1 DEF Register
    <3>2. CASE key[v] = NoKey
      BY <1>4, <1>0, <3>2 DEF Register
    <3> QED BY <3>1, <3>2
  <2>4. mine \in map'
    BY <2>3 DEF WithSlot, InMap
  <2> QED BY <2>2, <2>4 DEF InMap
<1>5. ASSUME NEW v \in Waiters, Deregister(v)
      PROVE  InMap(w)'
  <2>1. v # w
    BY <1>5 DEF Deregister
  <2>2. key[v] # key[w]
    BY <2>1, <1>0, RundownAssumption
  <2>3. key'[w] = key[w] /\ mine \in map'
    BY <1>5, <2>1, <2>2 DEF Deregister, InMap
  <2> QED BY <2>3 DEF InMap
<1>6. CASE UNCHANGED vars
  BY <1>6 DEF vars, InMap
<1> QED
  BY <1>1, <1>2, <1>3, <1>4, <1>5, <1>6 DEF Next, GuardStep, PollStep

\* Whoever takes the count to zero becomes the one that drains.
LEMMA DrainAheadStays ==
  ASSUME CountInv, [Next]_vars, DrainAhead
  PROVE  DrainAhead' \/ \E g \in Guards : Drain(g)
<1> USE DEF CountInv, TypeOK, DrainAhead
<1>1. ASSUME NEW g \in Guards, Reserve(g)
      PROVE  DrainAhead'
  BY <1>1 DEF Reserve
<1>2. ASSUME NEW g \in Guards, Release(g)
      PROVE  DrainAhead'
  <2>1. CASE active = 1
    BY <1>2, <2>1 DEF Release
  <2>2. CASE active > 1
    BY <1>2, <2>2 DEF Release
  <2>3. CASE active = 0
    <3>1. PICK h \in Guards : gpc[h] = "drain"
      BY <2>3
    <3> QED BY <1>2, <2>3, <3>1 DEF Release
  <2> QED BY <2>1, <2>2, <2>3
<1>3. ASSUME NEW g \in Guards, Wake(g)
      PROVE  DrainAhead'
  BY <1>3 DEF Wake
<1>4. ASSUME NEW w \in Waiters,
             (\E t \in Tasks : Poll(w, t)) \/ PollStep(w) \/ Cancel(w)
      PROVE  DrainAhead'
  BY <1>4 DEF Poll, PollStep, Register, Recheck, Deregister, Cancel, guardVars
<1>5. CASE UNCHANGED vars
  BY <1>5 DEF vars
<1> QED BY <1>1, <1>2, <1>3, <1>4, <1>5 DEF Next, GuardStep

LEMMA WokenStep == CountInv /\ WokenOnlyWhileWaking /\ [Next]_vars => WokenOnlyWhileWaking'
<1> SUFFICES ASSUME CountInv, WokenOnlyWhileWaking, [Next]_vars
             PROVE  WokenOnlyWhileWaking'
  OBVIOUS
<1> USE DEF CountInv, TypeOK, WokenOnlyWhileWaking
<1>1. ASSUME NEW g \in Guards, Reserve(g) \/ Release(g)
      PROVE  WokenOnlyWhileWaking'
  BY <1>1 DEF Reserve, Release
<1>2. ASSUME NEW g \in Guards, Drain(g)
      PROVE  WokenOnlyWhileWaking'
  BY <1>2 DEF Drain
<1>3. ASSUME NEW g \in Guards, Wake(g)
      PROVE  WokenOnlyWhileWaking'
  BY <1>3 DEF Wake
<1>4. CASE UNCHANGED guardVars
  BY <1>4 DEF guardVars
<1> QED
  BY <1>1, <1>2, <1>3, <1>4 DEF Next, vars, GuardStep, Poll, PollStep, Register,
     Recheck, Deregister, Cancel, guardVars

LEMMA WakeInvStep == CountInv /\ SlotInv /\ WakeInv /\ [Next]_vars => WakeInv'
<1> SUFFICES ASSUME CountInv, SlotInv, WakeInv, [Next]_vars
             PROVE  RegisteredReachable'
  BY WokenStep DEF WakeInv
<1> SUFFICES ASSUME NEW w \in Waiters
             PROVE  /\ wpc'[w] = "recheck" => WakeUnderway(w)' \/ InMap(w)'
                    /\ wpc'[w] = "pending" =>
                         WakeUnderway(w)' \/ (InMap(w)' /\ DrainAhead')
  BY DEF RegisteredReachable
<1> USE DEF WakeInv, CountInv, TypeOK
\* A step of another process leaves the future where it is ...
<1>1. CASE /\ wpc'[w] = wpc[w] /\ task'[w] = task[w]
           /\ notified[w] => notified'[w]
  <2>1. CASE WakeUnderway(w)
    BY <1>1, <2>1, UnderwayStays
  <2>2. CASE wpc[w] \in {"recheck", "pending"} /\ ~ WakeUnderway(w)
    <3>1. InMap(w)
      BY <2>2 DEF RegisteredReachable
    <3>2. InMap(w)' \/ WakeUnderway(w)'
      BY <1>1, <2>2, <3>1, InMapStays
    <3>3. CASE wpc[w] = "pending"
      <4>1. DrainAhead
        BY <2>2, <3>3 DEF RegisteredReachable
      <4>2. DrainAhead' \/ \E g \in Guards : Drain(g)
        BY <4>1, DrainAheadStays
      <4>3. ASSUME NEW g \in Guards, Drain(g)
            PROVE  WakeUnderway(w)'
        <5>1. [key |-> key[w], waker |-> task[w]] \in woken'[g]
          BY <3>1, <4>3 DEF Drain, InMap
        <5> QED BY <1>1, <5>1 DEF WakeUnderway
      <4> QED BY <1>1, <3>2, <3>3, <4>2, <4>3
    <3>4. CASE wpc[w] = "recheck"
      BY <1>1, <3>2, <3>4
    <3> QED BY <2>2, <3>3, <3>4
  <2> QED BY <1>1, <2>1, <2>2
\* ... and its own steps register it and re-check the count.
<1>2. ASSUME Register(w)
      PROVE  InMap(w)' /\ wpc'[w] = "recheck"
  <2>1. CASE key[w] # NoKey
    BY <1>2, <2>1 DEF Register, WithSlot, InMap
  <2>2. CASE key[w] = NoKey
    <3>1. map' = WithSlot(next, task[w]) /\ key'[w] = next /\ task' = task
      BY <1>2, <2>2 DEF Register
    <3>2. wpc'[w] = "recheck"
      BY <1>2 DEF Register
    <3> QED BY <3>1, <3>2 DEF WithSlot, InMap
  <2> QED BY <2>1, <2>2
<1>3. ASSUME Recheck(w)
      PROVE  wpc'[w] = "pending" =>
               WakeUnderway(w)' \/ (InMap(w)' /\ DrainAhead')
  <2>1. CASE active # 0
    <3>1. WakeUnderway(w) \/ InMap(w)
      BY <1>3 DEF Recheck, RegisteredReachable
    <3>2. DrainAhead'
      BY <1>3, <2>1 DEF Recheck, DrainAhead
    <3>3. InMap(w)' = InMap(w) /\ WakeUnderway(w)' = WakeUnderway(w)
      BY <1>3 DEF Recheck, InMap, WakeUnderway, guardVars
    <3> QED BY <3>1, <3>2, <3>3
  <2>2. CASE active = 0
    BY <1>3, <2>2 DEF Recheck
  <2> QED BY <2>1, <2>2
<1>4. ASSUME (\E t \in Tasks : Poll(w, t)) \/ Deregister(w) \/ Cancel(w)
      PROVE  wpc'[w] \notin {"recheck", "pending"}
  BY <1>4 DEF Poll, Deregister, Cancel
<1>6. ASSUME NEW v \in Waiters, v # w,
             (\E t \in Tasks : Poll(v, t)) \/ PollStep(v) \/ Cancel(v)
      PROVE  wpc'[w] = wpc[w] /\ task'[w] = task[w] /\ notified'[w] = notified[w]
  BY <1>6 DEF Poll, PollStep, Register, Recheck, Deregister, Cancel
<1>7. ASSUME NEW g \in Guards, Reserve(g) \/ Release(g) \/ GuardStep(g)
      PROVE  /\ wpc'[w] = wpc[w] /\ task'[w] = task[w]
             /\ notified[w] => notified'[w]
  BY <1>7 DEF Reserve, Release, GuardStep, Drain, Wake, waiterVars
<1>8. CASE UNCHANGED vars
  BY <1>1, <1>8 DEF vars
<1>5. ASSUME Recheck(w)
      PROVE  wpc'[w] # "recheck"
  BY <1>5 DEF Recheck
<1> QED
  BY <1>1, <1>2, <1>3, <1>4, <1>5, <1>6, <1>7, <1>8 DEF Next, PollStep

\* A task parked in wait_idle is always going to be woken
\* (registration.rs:59-75 and 215-243), for every interleaving of guard drops
\* with the load, registration and re-check of every poll.
THEOREM WakeupsCorrect == Spec => []NoLostWakeup
<1> DEFINE Inv == CountInv /\ SlotInv /\ WakeInv
<1>1. Init => Inv
  BY CountInvInit, SlotInvInit, WakeInvInit
<1>2. Inv /\ [Next]_vars => Inv'
  BY CountInvStep, SlotInvStep, WakeInvStep
<1>3. Inv => NoLostWakeup
  BY DEF WakeInv, RegisteredReachable, WakeUnderway, InMap, NoLostWakeup
<1> QED
  BY <1>1, <1>2, <1>3, PTL DEF Spec

--------------------------------------------------------------------------------
(* The idle barrier *)

LEMMA BarrierInit == Init => Barrier!Init
  BY DEF Init, Barrier!Init, Counted, Status

\* Every step of the code is a step of the idle barrier or changes nothing
\* that the barrier speaks of.
LEMMA BarrierStep == CountInv /\ [Next]_vars => [Barrier!Next]_(Barrier!vars)
<1> SUFFICES ASSUME CountInv, [Next]_vars
             PROVE  [Barrier!Next]_(Barrier!vars)
  OBVIOUS
<1> USE DEF CountInv, TypeOK, WaiterPc, GuardPc, Barrier!Next, Barrier!vars
<1> DEFINE st == [w \in Waiters |-> Status(w)]
<1>0. active = 0 => Counted = {}
  BY CountedFinite, FS_EmptySet DEF ActiveIsCount
<1>1. ASSUME NEW g \in Guards, Reserve(g)
      PROVE  Barrier!Reserve(g)
  <2>1. Counted' = Counted \cup {g} /\ g \notin Counted
    BY <1>1 DEF Reserve, Counted
  <2>2. st' = st
    BY <1>1 DEF Reserve, waiterVars, Status
  <2> QED BY <2>1, <2>2 DEF Barrier!Reserve
<1>2. ASSUME NEW g \in Guards, Release(g)
      PROVE  Barrier!Release(g)
  <2>1. Counted' = Counted \ {g} /\ g \in Counted
    BY <1>2 DEF Release, Counted
  <2>2. st' = st
    BY <1>2 DEF Release, waiterVars, Status
  <2> QED BY <2>1, <2>2 DEF Barrier!Release
<1>3. ASSUME NEW g \in Guards, GuardStep(g)
      PROVE  UNCHANGED Barrier!vars
  <2>1. Counted' = Counted
    BY <1>3 DEF GuardStep, Drain, Wake, Counted
  <2>2. st' = st
    BY <1>3 DEF GuardStep, Drain, Wake, waiterVars, Status
  <2> QED BY <2>1, <2>2
<1>4. ASSUME NEW w \in Waiters, NEW t \in Tasks, Poll(w, t)
      PROVE  \/ Barrier!Start(w) \/ Barrier!Resolve(w) \/ Barrier!ResolveAtOnce(w)
             \/ UNCHANGED Barrier!vars
  <2>1. Counted' = Counted
    BY <1>4 DEF Poll, guardVars, Counted
  <2>2. CASE active = 0
    <3>1. st' = [st EXCEPT ![w] = "resolved"] /\ st[w] \in {"idle", "waiting"}
      BY <1>4, <2>2 DEF Poll, Status
    <3> QED BY <1>0, <2>1, <2>2, <3>1 DEF Barrier!Resolve, Barrier!ResolveAtOnce
  <2>3. CASE active # 0 /\ wpc[w] = "unpolled"
    <3>1. st' = [st EXCEPT ![w] = "waiting"] /\ st[w] = "idle"
      BY <1>4, <2>3 DEF Poll, Status
    <3> QED BY <2>1, <3>1 DEF Barrier!Start
  <2>4. CASE active # 0 /\ wpc[w] = "pending"
    <3>1. st' = st
      BY <1>4, <2>4 DEF Poll, Status
    <3> QED BY <2>1, <3>1
  <2> QED BY <1>4, <2>2, <2>3, <2>4 DEF Poll
<1>5. ASSUME NEW w \in Waiters, Register(w)
      PROVE  UNCHANGED Barrier!vars
  <2>1. Counted' = Counted
    BY <1>5 DEF Register, guardVars, Counted
  <2>2. st' = st
    BY <1>5 DEF Register, Status
  <2> QED BY <2>1, <2>2
<1>6. ASSUME NEW w \in Waiters, Recheck(w)
      PROVE  Barrier!Resolve(w) \/ UNCHANGED Barrier!vars
  <2>1. Counted' = Counted
    BY <1>6 DEF Recheck, guardVars, Counted
  <2>2. CASE active = 0
    <3>1. st' = [st EXCEPT ![w] = "resolved"] /\ st[w] = "waiting"
      BY <1>6, <2>2 DEF Recheck, Status
    <3> QED BY <1>0, <2>1, <2>2, <3>1 DEF Barrier!Resolve
  <2>3. CASE active # 0
    <3>1. st' = st
      BY <1>6, <2>3 DEF Recheck, Status
    <3> QED BY <2>1, <3>1
  <2> QED BY <2>2, <2>3
<1>7. ASSUME NEW w \in Waiters, Deregister(w)
      PROVE  UNCHANGED Barrier!vars
  <2>1. Counted' = Counted
    BY <1>7 DEF Deregister, guardVars, Counted
  <2>2. st' = st
    BY <1>7 DEF Deregister, Status
  <2> QED BY <2>1, <2>2
<1>8. ASSUME NEW w \in Waiters, Cancel(w)
      PROVE  Barrier!Cancel(w)
  <2>1. Counted' = Counted
    BY <1>8 DEF Cancel, guardVars, Counted
  <2>2. st' = [st EXCEPT ![w] = "cancelled"] /\ st[w] \in {"idle", "waiting"}
    BY <1>8 DEF Cancel, Status
  <2> QED BY <2>1, <2>2 DEF Barrier!Cancel
<1>9. CASE UNCHANGED vars
  <2>1. Counted' = Counted /\ st' = st
    BY <1>9 DEF vars, Counted, Status
  <2> QED BY <2>1
<1> QED
  BY <1>1, <1>2, <1>3, <1>4, <1>5, <1>6, <1>7, <1>8, <1>9 DEF Next, PollStep

\* The safety half of ImplementsBarrier: a wait_idle future resolves only at a
\* moment when no guard is held.
THEOREM SafeBarrier == Spec => Barrier!SafeSpec
<1>1. Spec => []CountInv
  BY CountInvInit, CountInvStep, PTL DEF Spec
<1> QED
  BY <1>1, BarrierInit, BarrierStep, PTL DEF Spec, Barrier!SafeSpec
================================================================================
