------------------------------ MODULE IdleBarrier ------------------------------
(***************************************************************************)
(* What Registration::wait_idle promises, without counters, slots or       *)
(* wakers: a set of live reservations, and waiters that resolve at a       *)
(* moment when no reservation is live.  Rundown.tla implements it.         *)
(***************************************************************************)
CONSTANTS Guards,   \* the reservations (RundownGuard values)
          Waiters   \* the wait_idle futures

VARIABLES live,     \* the reservations that are held
          status    \* what the owner of each future has seen of it

vars == <<live, status>>

Init == /\ live = {}
        /\ status = [w \in Waiters |-> "idle"]

Reserve(g) == /\ g \notin live
              /\ live' = live \cup {g}
              /\ UNCHANGED status

Release(g) == /\ g \in live
              /\ live' = live \ {g}
              /\ UNCHANGED status

\* The first poll of a future.
Start(w) == /\ status[w] = "idle"
            /\ status' = [status EXCEPT ![w] = "waiting"]
            /\ UNCHANGED live

\* A future resolves only at a moment when nothing is live.
Resolve(w) == /\ status[w] = "waiting"
              /\ live = {}
              /\ status' = [status EXCEPT ![w] = "resolved"]
              /\ UNCHANGED live

\* The first poll may find nothing live already.
ResolveAtOnce(w) == /\ status[w] = "idle"
                    /\ live = {}
                    /\ status' = [status EXCEPT ![w] = "resolved"]
                    /\ UNCHANGED live

Cancel(w) == /\ status[w] \in {"idle", "waiting"}
             /\ status' = [status EXCEPT ![w] = "cancelled"]
             /\ UNCHANGED live

Next == \/ \E g \in Guards : Reserve(g) \/ Release(g)
        \/ \E w \in Waiters : Start(w) \/ Resolve(w) \/ ResolveAtOnce(w) \/ Cancel(w)

SafeSpec == Init /\ [][Next]_vars

\* No waiter is forgotten: once nothing is live for good, it resolves.
Spec == SafeSpec /\ \A w \in Waiters : WF_vars(Resolve(w))
================================================================================
