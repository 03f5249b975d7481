------------------------------ MODULE HandlesProofs ------------------------------
(***************************************************************************)
(* Proofs about Handles for any listeners, connections and streams: while  *)
(* MsQuic has a handle, a reservation is held, its own or, until the       *)
(* callback that brought it has returned, that of the callback's handle.   *)
(***************************************************************************)
EXTENDS Handles, TLAPS

\* A guard is held from before the open until after the close.
GuardSpansHandle ==
  \A h \in Handles :
    h \in live <=> stage[h] \in {"reserved", "queued", "open", "closing", "closed"}

\* A handle without a guard belongs to a callback of a handle that has one.
CallbackCovered ==
  \A h \in Handles : stage[h] = "offered" => stage[parent[h]] \in RaisesEvents

\* The count stays at zero after wait_idle resolved.
IdleStays ==
  /\ status["owner"] = "resolved" => shutdown /\ live = {}
  /\ regClosed => status["owner"] = "resolved"

Inv == TypeOK /\ GuardSpansHandle /\ CallbackCovered /\ IdleStays

LEMMA InitInv == Init => Inv
<1> SUFFICES ASSUME Init PROVE Inv
  OBVIOUS
<1> USE DEF Init, Barrier!Init
<1>1. TypeOK
  <2>1. status \in [Waiters -> {"idle", "waiting", "resolved", "cancelled"}]
    OBVIOUS
  <2>2. refs \in [Handles -> Nat] /\ \A h \in Handles : refs[h] = 0 /\ stage[h] = "none"
    OBVIOUS
  <2>3. stage \in [Handles -> Stages] /\ parent \in [Handles -> Handles]
    BY DEF Stages
  <2>4. \A h \in Handles : refs[h] > 0 <=> stage[h] = "open"
    BY <2>2
  <2>5. live \subseteq Handles /\ shutdown \in BOOLEAN /\ regClosed \in BOOLEAN
    OBVIOUS
  <2> QED BY <2>1, <2>2, <2>3, <2>4, <2>5 DEF TypeOK
<1>2. status["owner"] = "idle"
  BY DEF Waiters
<1> QED BY <1>1, <1>2 DEF Inv, GuardSpansHandle, CallbackCovered, IdleStays

\* With no reservation every handle is unused or gone.
LEMMA IdleFacts ==
  ASSUME Inv, live = {}
  PROVE  \A h \in Handles : stage[h] \in {"none", "gone"}
<1> SUFFICES ASSUME NEW h \in Handles PROVE stage[h] \in {"none", "gone"}
  OBVIOUS
<1>1. \A k \in Handles : stage[k] \in {"none", "offered", "gone"}
  BY DEF Inv, TypeOK, Stages, GuardSpansHandle
<1>2. stage[h] # "offered"
  BY <1>1 DEF Inv, TypeOK, CallbackCovered, RaisesEvents
<1> QED BY <1>1, <1>2

\* An action that moves one handle from a stage to another.
LEMMA MoveKeeps ==
  ASSUME Inv, NEW h \in Handles, NEW s \in Stages, Becomes(h, s),
         h \in live' <=> s \in {"reserved", "queued", "open", "closing", "closed"},
         live' \subseteq Handles,
         \A k \in Handles \ {h} : k \in live' <=> k \in live,
         \/ UNCHANGED parent
         \/ \E p \in Handles : parent' = [parent EXCEPT ![h] = p],
         s = "offered" => stage[parent'[h]] \in RaisesEvents /\ stage[h] = "none"
                                                             /\ parent'[h] # h,
         s = "closed" => CallbacksOver(h),
         s \in RaisesEvents \/ stage[h] \notin RaisesEvents \/ s = "closed"
  PROVE  /\ stage' \in [Handles -> Stages] /\ parent' \in [Handles -> Handles]
         /\ GuardSpansHandle' /\ CallbackCovered'
<1> USE DEF Inv, TypeOK, RaisesEvents
<1>1. /\ stage' \in [Handles -> Stages] /\ parent' \in [Handles -> Handles]
      /\ stage'[h] = s /\ \A k \in Handles \ {h} : stage'[k] = stage[k]
      /\ \A k \in Handles \ {h} : parent'[k] = parent[k]
  BY DEF Becomes
<1>2. GuardSpansHandle'
  BY <1>1 DEF GuardSpansHandle
<1>3. CallbackCovered'
  <2> SUFFICES ASSUME NEW k \in Handles, stage'[k] = "offered"
               PROVE  stage'[parent'[k]] \in RaisesEvents
    BY DEF CallbackCovered
  <2>1. CASE k = h
    <3>1. stage[parent'[h]] \in RaisesEvents /\ parent'[h] # h
      BY <1>1, <2>1
    <3> QED BY <1>1, <2>1, <3>1
  <2>2. CASE k # h
    <3>1. stage[k] = "offered" /\ stage[parent[k]] \in RaisesEvents
      BY <1>1, <2>2 DEF CallbackCovered
    <3>2. CASE parent[k] = h
      <4>1. s # "closed"
        BY <3>1, <3>2 DEF CallbacksOver
      <4> QED BY <1>1, <2>2, <3>1, <3>2, <4>1
    <3>3. CASE parent[k] # h
      BY <1>1, <2>2, <3>1, <3>3
    <3> QED BY <3>2, <3>3
  <2> QED BY <2>1, <2>2
<1> QED BY <1>1, <1>2, <1>3

\* What a step must do to the other variables.
LEMMA TypeKeeps ==
  ASSUME Inv, NEW h \in Handles, stage' \in [Handles -> Stages],
         \A k \in Handles \ {h} : stage'[k] = stage[k]
                              \/ (stage[k] = "queued" /\ stage'[k] = "closing"),
         parent' \in [Handles -> Handles], live' \subseteq Handles, UNCHANGED status,
         refs' \in [Handles -> Nat],
         \A k \in Handles \ {h} : refs'[k] = refs[k],
         refs'[h] > 0 <=> stage'[h] = "open",
         UNCHANGED <<shutdown, regClosed>>
  PROVE  TypeOK'
  BY DEF Inv, TypeOK

LEMMA StepInv == Inv /\ [Next]_vars => Inv'
<1> SUFFICES ASSUME Inv, [Next]_vars PROVE Inv'
  OBVIOUS
<1> USE DEF Inv, RaisesEvents
<1>0. /\ live \subseteq Handles /\ stage \in [Handles -> Stages]
      /\ parent \in [Handles -> Handles] /\ refs \in [Handles -> Nat]
      /\ \A h \in Handles : refs[h] > 0 <=> stage[h] = "open"
  BY DEF TypeOK
<1>1. ASSUME NEW h \in Handles, stage[h] # "none", UNCHANGED <<status, shutdown, regClosed>>,
             \/ live' \subseteq live
             \/ stage[h] = "offered"
      PROVE  IdleStays'
  <2>1. status["owner"] = "resolved" => live' = {}
    BY <1>1, IdleFacts DEF IdleStays
  <2> QED BY <1>1, <2>1 DEF IdleStays
<1>2. ASSUME NEW h \in Handles, ReserveNew(h) PROVE Inv'
  <2>1. Becomes(h, "reserved") /\ live' = live \cup {h} /\ ~ shutdown /\ stage[h] = "none"
        /\ UNCHANGED <<status, parent, refs, shutdown, regClosed>>
    BY <1>2 DEF ReserveNew, Barrier!Reserve
  <2>2. /\ stage' \in [Handles -> Stages] /\ parent' \in [Handles -> Handles]
        /\ GuardSpansHandle' /\ CallbackCovered'
    BY <1>0, <2>1, MoveKeeps DEF Stages
  <2>3. TypeOK'
    BY <1>0, <2>1, <2>2, TypeKeeps DEF Becomes
  <2> QED BY <2>1, <2>2, <2>3 DEF IdleStays
<1>3. ASSUME NEW h \in Handles, NEW c \in Handles, ReserveStream(h, c) PROVE Inv'
  <2>1. Becomes(h, "reserved") /\ live' = live \cup {h} /\ stage[h] = "none"
        /\ parent' = [parent EXCEPT ![h] = c] /\ stage[c] = "open"
        /\ UNCHANGED <<status, refs, shutdown, regClosed>>
    BY <1>3 DEF ReserveStream, Barrier!Reserve
  <2>2. /\ stage' \in [Handles -> Stages] /\ parent' \in [Handles -> Handles]
        /\ GuardSpansHandle' /\ CallbackCovered'
    BY <1>0, <2>1, MoveKeeps DEF Stages
  <2>3. TypeOK'
    BY <1>0, <2>1, <2>2, TypeKeeps DEF Becomes
  <2>4. status["owner"] # "resolved"
    BY <2>1, IdleFacts DEF IdleStays
  <2> QED BY <2>1, <2>2, <2>3, <2>4 DEF IdleStays
<1>4. ASSUME NEW h \in Handles, Open(h) PROVE Inv'
  <2>1. Becomes(h, "open") /\ stage[h] = "reserved" /\ refs' = [refs EXCEPT ![h] = 1]
        /\ UNCHANGED <<live, status, parent, shutdown, regClosed>>
    BY <1>4 DEF Open
  <2>2. /\ stage' \in [Handles -> Stages] /\ parent' \in [Handles -> Handles]
        /\ GuardSpansHandle' /\ CallbackCovered'
    BY <1>0, <2>1, MoveKeeps DEF Stages, GuardSpansHandle
  <2>3. TypeOK'
    BY <1>0, <2>1, <2>2, TypeKeeps DEF Becomes
  <2> QED BY <1>1, <2>1, <2>2, <2>3
<1>5. ASSUME NEW h \in Handles, OpenFails(h) \/ DropGuard(h) PROVE Inv'
  <2>1. Becomes(h, "gone") /\ stage[h] \in {"reserved", "closed"} /\ live' = live \ {h}
        /\ UNCHANGED <<status, parent, refs, shutdown, regClosed>>
    BY <1>5 DEF OpenFails, DropGuard, Barrier!Release
  <2>2. /\ stage' \in [Handles -> Stages] /\ parent' \in [Handles -> Handles]
        /\ GuardSpansHandle' /\ CallbackCovered'
    BY <1>0, <2>1, MoveKeeps DEF Stages
  <2>3. TypeOK'
    BY <1>0, <2>1, <2>2, TypeKeeps DEF Becomes
  <2> QED BY <1>1, <2>1, <2>2, <2>3
<1>6. ASSUME NEW h \in Handles, NEW p \in Handles, Offer(h, p) PROVE Inv'
  <2>1. Becomes(h, "offered") /\ stage[h] = "none" /\ stage[p] \in RaisesEvents
        /\ h # p /\ parent' = [parent EXCEPT ![h] = p]
        /\ UNCHANGED <<live, status, refs, shutdown, regClosed>>
    BY <1>6 DEF Offer
  <2>2. /\ stage' \in [Handles -> Stages] /\ parent' \in [Handles -> Handles]
        /\ GuardSpansHandle' /\ CallbackCovered'
    BY <1>0, <2>1, MoveKeeps DEF Stages, GuardSpansHandle
  <2>3. TypeOK'
    BY <1>0, <2>1, <2>2, TypeKeeps DEF Becomes
  <2> QED BY <2>1, <2>2, <2>3 DEF IdleStays
<1>7. ASSUME NEW h \in Handles, Reject(h) PROVE Inv'
  <2>1. Becomes(h, "gone") /\ stage[h] = "offered"
        /\ UNCHANGED <<live, status, parent, refs, shutdown, regClosed>>
    BY <1>7 DEF Reject
  <2>2. /\ stage' \in [Handles -> Stages] /\ parent' \in [Handles -> Handles]
        /\ GuardSpansHandle' /\ CallbackCovered'
    BY <1>0, <2>1, MoveKeeps DEF Stages, GuardSpansHandle
  <2>3. TypeOK'
    BY <1>0, <2>1, <2>2, TypeKeeps DEF Becomes
  <2> QED BY <1>1, <2>1, <2>2, <2>3
<1>8. ASSUME NEW h \in Handles, Adopt(h) PROVE Inv'
  <2>1. Becomes(h, "queued") /\ stage[h] = "offered" /\ live' = live \cup {h}
        /\ UNCHANGED <<status, parent, refs, shutdown, regClosed>>
    BY <1>8 DEF Adopt, Barrier!Reserve
  <2>2. /\ stage' \in [Handles -> Stages] /\ parent' \in [Handles -> Handles]
        /\ GuardSpansHandle' /\ CallbackCovered'
    BY <1>0, <2>1, MoveKeeps DEF Stages
  <2>3. TypeOK'
    BY <1>0, <2>1, <2>2, TypeKeeps DEF Becomes
  <2>4. status["owner"] # "resolved"
    BY <2>1, IdleFacts DEF IdleStays
  <2> QED BY <2>1, <2>2, <2>3, <2>4 DEF IdleStays
<1>9. ASSUME NEW h \in Handles, Accept(h) PROVE Inv'
  <2>1. Becomes(h, "open") /\ stage[h] = "queued" /\ refs' = [refs EXCEPT ![h] = 1]
        /\ UNCHANGED <<live, status, parent, shutdown, regClosed>>
    BY <1>9 DEF Accept
  <2>2. /\ stage' \in [Handles -> Stages] /\ parent' \in [Handles -> Handles]
        /\ GuardSpansHandle' /\ CallbackCovered'
    BY <1>0, <2>1, MoveKeeps DEF Stages, GuardSpansHandle
  <2>3. TypeOK'
    BY <1>0, <2>1, <2>2, TypeKeeps DEF Becomes
  <2> QED BY <1>1, <2>1, <2>2, <2>3
<1>10. ASSUME NEW h \in Handles, Clone(h) PROVE Inv'
  <2>1. stage[h] = "open" /\ refs' = [refs EXCEPT ![h] = @ + 1]
        /\ UNCHANGED <<live, status, stage, parent, shutdown, regClosed>>
    BY <1>10 DEF Clone
  <2>2. TypeOK'
    BY <1>0, <2>1, TypeKeeps
  <2> QED BY <2>1, <2>2 DEF GuardSpansHandle, CallbackCovered, IdleStays
<1>11. ASSUME NEW h \in Handles, DropRef(h) PROVE Inv'
  <2>1. /\ stage[h] = "open" /\ refs' = [refs EXCEPT ![h] = @ - 1]
        /\ IF refs[h] = 1 THEN Becomes(h, "closing") ELSE UNCHANGED stage
        /\ UNCHANGED <<live, status, parent, shutdown, regClosed>>
    BY <1>11 DEF DropRef
  <2>2. CASE refs[h] = 1
    <3>1. /\ stage' \in [Handles -> Stages] /\ parent' \in [Handles -> Handles]
          /\ GuardSpansHandle' /\ CallbackCovered'
      BY <1>0, <2>1, <2>2, MoveKeeps DEF Stages, GuardSpansHandle
    <3>2. TypeOK'
      BY <1>0, <2>1, <2>2, <3>1, TypeKeeps DEF Becomes
    <3> QED BY <1>1, <2>1, <3>1, <3>2
  <2>3. CASE refs[h] # 1
    <3>1. TypeOK'
      BY <1>0, <2>1, <2>3, TypeKeeps
    <3> QED BY <2>1, <2>3, <3>1 DEF GuardSpansHandle, CallbackCovered, IdleStays
  <2> QED BY <2>2, <2>3
<1>12. ASSUME NEW h \in Handles, CloseNative(h) PROVE Inv'
  <2>1. /\ stage[h] = "closing" /\ CallbacksOver(h)
        /\ stage' = [k \in Handles |->
             IF k = h THEN "closed"
             ELSE IF parent[k] = h /\ stage[k] = "queued" THEN "closing"
             ELSE stage[k]]
        /\ UNCHANGED <<live, status, parent, refs, shutdown, regClosed>>
    BY <1>12 DEF CloseNative
  <2>2. stage' \in [Handles -> Stages]
    BY <1>0, <2>1 DEF Stages
  <2>3. TypeOK'
    BY <1>0, <2>1, <2>2, TypeKeeps
  <2>4. GuardSpansHandle'
    BY <1>0, <2>1 DEF GuardSpansHandle
  <2>5. CallbackCovered'
    <3> SUFFICES ASSUME NEW k \in Handles, stage'[k] = "offered"
                 PROVE  stage'[parent[k]] \in RaisesEvents
      BY <2>1 DEF CallbackCovered
    <3>1. stage[k] = "offered" /\ parent[k] # h /\ parent[k] \in Handles
      BY <1>0, <2>1 DEF CallbacksOver
    <3>2. stage[parent[k]] \in RaisesEvents
      BY <3>1 DEF CallbackCovered
    <3> QED BY <2>1, <3>1, <3>2
  <2> QED BY <1>1, <2>1, <2>3, <2>4, <2>5
<1>13. ASSUME Shutdown \/ DropRegistration PROVE Inv'
  <2>1. /\ UNCHANGED <<live, status, stage, parent, refs>>
        /\ shutdown => shutdown'
        /\ regClosed' => regClosed \/ status["owner"] = "resolved"
    BY <1>13 DEF Shutdown, DropRegistration
  <2>2. TypeOK'
    <3>1. shutdown' \in BOOLEAN /\ regClosed' \in BOOLEAN
      BY <1>13, Zenon DEF Shutdown, DropRegistration, TypeOK
    <3>2. /\ live' \subseteq Handles
          /\ status' \in [Waiters -> {"idle", "waiting", "resolved", "cancelled"}]
          /\ stage' \in [Handles -> Stages] /\ parent' \in [Handles -> Handles]
          /\ refs' \in [Handles -> Nat]
          /\ \A h \in Handles : refs'[h] > 0 <=> stage'[h] = "open"
      BY <2>1 DEF TypeOK
    <3> QED BY <3>1, <3>2, Zenon DEF TypeOK
  <2>3. GuardSpansHandle' /\ CallbackCovered'
    BY <2>1 DEF GuardSpansHandle, CallbackCovered
  <2>4. IdleStays'
    <3>1. (status["owner"] = "resolved" => shutdown' /\ live = {})
      BY <2>1 DEF IdleStays
    <3>2. regClosed' => status["owner"] = "resolved"
      BY <2>1 DEF IdleStays
    <3> QED BY <2>1, <3>1, <3>2 DEF IdleStays
  <2> QED BY <2>2, <2>3, <2>4
<1>14. ASSUME WaitIdle PROVE Inv'
  <2>1. /\ shutdown /\ UNCHANGED <<live, stage, parent, refs, shutdown, regClosed>>
        /\ \E w \in Waiters :
             \/ status[w] = "idle" /\ status' = [status EXCEPT ![w] = "waiting"]
             \/ live = {} /\ status' = [status EXCEPT ![w] = "resolved"]
    BY <1>14 DEF WaitIdle, Barrier!Start, Barrier!Resolve, Barrier!ResolveAtOnce
  <2>2. TypeOK'
    BY <2>1 DEF TypeOK
  <2>3. IdleStays'
    BY <2>1 DEF IdleStays, TypeOK, Waiters
  <2> QED BY <2>1, <2>2, <2>3 DEF GuardSpansHandle, CallbackCovered
<1>15. ASSUME UNCHANGED vars PROVE Inv'
  BY <1>15 DEF vars, TypeOK, GuardSpansHandle, CallbackCovered, IdleStays
<1> QED
  BY <1>2, <1>3, <1>4, <1>5, <1>6, <1>7, <1>8, <1>9, <1>10, <1>11, <1>12, <1>13,
     <1>14, <1>15 DEF Next

\* Every handle is where its fields say: type correctness of the ownership.
THEOREM TypeCorrect == Spec => []TypeOK
  BY InitInv, StepInv, PTL DEF Spec, Inv

\* registration-wait-idle-design.md, 5 and 6: reserving before the native open
\* and releasing after the native close keeps the count above zero while MsQuic
\* has any handle, the one that a running callback was just offered included.
THEOREM CountCoversHandles == Spec => []IdleMeansClosed
<1>1. Inv => IdleMeansClosed
  BY IdleFacts DEF IdleMeansClosed, Native
<1> QED BY <1>1, InitInv, StepInv, PTL DEF Spec

\* Section 9.2: dropping the registration after wait_idle is safe.
THEOREM SafeTeardown == Spec => []RegistrationOutlives
<1>1. Inv => RegistrationOutlives
  <2> SUFFICES ASSUME Inv, regClosed, NEW h \in Handles PROVE ~ Native(h)
    BY DEF RegistrationOutlives
  <2>1. live = {}
    BY DEF Inv, IdleStays
  <2> QED BY <2>1, IdleFacts DEF Native
<1> QED BY <1>1, InitInv, StepInv, PTL DEF Spec

================================================================================
