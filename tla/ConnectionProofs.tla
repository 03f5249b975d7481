---------------------------- MODULE ConnectionProofs ----------------------------
(***************************************************************************)
(* Proofs about Connection, for any set of tasks and any bound on the      *)
(* queues: the error is there when a poll reports it, no task sleeps on a  *)
(* list that nothing will drain, a lost connection stays lost, and the     *)
(* queued datagram state is the current one.                               *)
(***************************************************************************)
EXTENDS Connection, FiniteSetTheorems, TLAPS

(* The inductive invariant *)

\* What the state says of the connection in MsQuic.  Between a local shutdown
\* and MsQuic carrying it out the state runs ahead; an early one is undone by
\* the Connected event.
NativeMatches ==
  /\ native = "idle" => state = "Open"
  /\ native = "handshake" => state = "Connecting"
  /\ native \in {"accepting", "connected"} =>
       \/ state = "Connected"
       \/ /\ state = "Shutdown" /\ shutdownCalled # "no"
          /\ native = "accepting" => shutdownCalled = "early"
  /\ native = "done" <=> state = "ShutdownComplete"
  /\ shutdownCalled # "no" => state \notin {"Open", "Connecting"}

\* The list of what t awaits, or of the handshake while that is under way.
OnItsList(t) ==
  \/ state = "Connecting" /\ t \in waiters["start"]
  \/ /\ state \notin {"Open", "Connecting"}
     /\ \/ op[t] = "accept" /\ t \in waiters["inbound"]
        \/ op[t] = "acceptUni" /\ t \in waiters["inboundUni"]
        \/ op[t] = "receive" /\ t \in waiters["recv"]
        \/ op[t] = "event" /\ t \in waiters["event"]
        \/ op[t] = "shutdown" /\ t \in waiters["shutdown"]

MustWait(t) ==
  \/ Blocks(op[t])
  \/ shutdownCalled # "no" /\ native # "done"
  \/ op[t] = "acceptUni" /\ state \in LostStates

WaitsWell == \A t \in Tasks : Parked(t) => OnItsList(t) /\ MustWait(t)

IsState(e) == e.kind = "DatagramStateChanged"

\* At most one event of the queue is a datagram state, and it is current.
OneState ==
  /\ \A i \in DOMAIN events : IsState(events[i]) => events[i].now = dgram
  /\ \A i, j \in DOMAIN events : IsState(events[i]) /\ IsState(events[j]) => i = j

Inv == TypeOK /\ NativeMatches /\ ErrorWhenLost /\ WaitsWell /\ OneState

--------------------------------------------------------------------------------
(* The tasks *)

\* A task that goes on leaves the others as they were.
LEMMA ReturnFacts ==
  ASSUME TypeOK, NEW t \in Tasks, Return(t)
  PROVE  /\ waiters' = waiters
         /\ op' \in [Tasks -> Ops \cup {"none"}] /\ woken' \in [Tasks -> BOOLEAN]
         /\ ~ Parked(t)'
         /\ \A u \in Tasks : u # t => op'[u] = op[u] /\ woken'[u] = woken[u]
BY DEF TypeOK, Return, Parked

\* A task that parks is on the list it parks on, and nobody leaves a list.
LEMMA ParkFacts ==
  ASSUME TypeOK, NEW t \in Tasks, NEW o \in Ops, NEW l \in Lists, Park(t, o, l)
  PROVE  /\ waiters' \in [Lists -> SUBSET Tasks]
         /\ op' \in [Tasks -> Ops \cup {"none"}] /\ woken' \in [Tasks -> BOOLEAN]
         /\ op'[t] = o /\ t \in waiters'[l]
         /\ \A k \in Lists : waiters[k] \subseteq waiters'[k]
         /\ \A u \in Tasks : u # t => op'[u] = op[u] /\ woken'[u] = woken[u]
BY DEF TypeOK, Park

\* A task that still sleeps after lists were drained was on none of them.
LEMMA WakeFacts ==
  ASSUME TypeOK, NEW ls \in SUBSET Lists, Wake(ls)
  PROVE  /\ waiters' \in [Lists -> SUBSET Tasks] /\ woken' \in [Tasks -> BOOLEAN]
         /\ op' = op
         /\ \A l \in Lists \ ls : waiters'[l] = waiters[l]
         /\ \A t \in Tasks : Parked(t)' => Parked(t) /\ \A l \in ls : t \notin waiters[l]
BY DEF TypeOK, Wake, Parked

\* WaitsWell survives a task going on, if the others have to wait as before.
LEMMA ReturnWaits ==
  ASSUME TypeOK, WaitsWell, NEW t \in Tasks, Return(t), state' = state,
         \A u \in Tasks : Parked(u) /\ MustWait(u) /\ op'[u] = op[u] => MustWait(u)'
  PROVE  WaitsWell'
<1>1. /\ waiters' = waiters /\ ~ Parked(t)'
      /\ \A u \in Tasks : u # t => op'[u] = op[u] /\ woken'[u] = woken[u]
  BY ReturnFacts
<1>2. \A u \in Tasks : u # t => (Parked(u)' <=> Parked(u))
  BY <1>1 DEF Parked
<1>3. \A u \in Tasks : u # t /\ Parked(u) => OnItsList(u)'
  BY <1>1 DEF WaitsWell, OnItsList
<1> QED BY <1>1, <1>2, <1>3 DEF WaitsWell

\* ... and a task parking, if it has to wait and is on its list.
LEMMA ParkWaits ==
  ASSUME TypeOK, WaitsWell, NEW t \in Tasks, NEW o \in Ops, NEW l \in Lists, Park(t, o, l),
         state' = state \/ (state' = "Shutdown" /\ state = "Connected"),
         OnItsList(t)', MustWait(t)',
         \A u \in Tasks : Parked(u) /\ MustWait(u) /\ op'[u] = op[u] => MustWait(u)'
  PROVE  WaitsWell'
<1>1. /\ \A k \in Lists : waiters[k] \subseteq waiters'[k]
      /\ \A u \in Tasks : u # t => op'[u] = op[u] /\ woken'[u] = woken[u]
  BY ParkFacts
<1>2. \A u \in Tasks : u # t => (Parked(u)' <=> Parked(u))
  BY <1>1 DEF Parked
<1>3. \A u \in Tasks : u # t /\ Parked(u) => OnItsList(u)'
  BY <1>1 DEF WaitsWell, OnItsList, Lists
<1> QED BY <1>1, <1>2, <1>3 DEF WaitsWell
--------------------------------------------------------------------------------
(* The polls *)

\* Outside Connected a poll answers with an error, or waits for the handshake.
LEMMA NotConnectedInv ==
  ASSUME Inv, NEW t \in Tasks, NEW o \in Ops, PollNotConnected(t, o)
  PROVE  Inv'
<1> USE DEF Inv
<1>1. UNCHANGED <<state, error, queues, shutdownCalled, native>>
  BY DEF PollNotConnected
<1>2. NativeMatches' /\ ErrorWhenLost' /\ OneState'
  BY <1>1 DEF NativeMatches, ErrorWhenLost, OneState, queues
<1>3. \A u \in Tasks : Parked(u) /\ MustWait(u) /\ op'[u] = op[u] => MustWait(u)'
  BY <1>1 DEF MustWait, Blocks, queues
<1>4. CASE Return(t)
  <2>1. TypeOK'
    BY <1>1, <1>4, ReturnFacts DEF TypeOK, queues
  <2>2. WaitsWell'
    BY <1>1, <1>3, <1>4, ReturnWaits
  <2> QED BY <1>2, <2>1, <2>2
<1>5. CASE state = "Connecting" /\ Park(t, o, "start")
  <2>1. "start" \in Lists
    BY DEF Lists
  <2>2. t \in waiters'["start"] /\ TypeOK'
    BY <1>1, <1>5, <2>1, ParkFacts DEF TypeOK, queues
  <2>3. OnItsList(t)' /\ MustWait(t)'
    BY <1>1, <1>5, <2>2 DEF OnItsList, MustWait, Blocks
  <2>4. WaitsWell'
    BY <1>1, <1>3, <1>5, <2>1, <2>3, ParkWaits
  <2> QED BY <1>2, <2>2, <2>4
<1> QED BY <1>4, <1>5 DEF PollNotConnected

LEMMA PollStartInv ==
  ASSUME Inv, NEW t \in Tasks, PollStart(t)
  PROVE  Inv'
<1> USE DEF Inv
<1>1. UNCHANGED <<error, queues, shutdownCalled>> /\ "start" \in Lists /\ "start" \in Ops
  BY DEF PollStart, Lists, Ops
<1>2. OneState'
  BY <1>1 DEF OneState, queues
<1>3. CASE Return(t) /\ UNCHANGED <<state, native>>
  <2>1. TypeOK'
    BY <1>1, <1>3, ReturnFacts DEF TypeOK, queues
  <2>2. NativeMatches' /\ ErrorWhenLost'
    BY <1>1, <1>3 DEF NativeMatches, ErrorWhenLost
  <2>3. \A u \in Tasks : Parked(u) /\ MustWait(u) /\ op'[u] = op[u] => MustWait(u)'
    BY <1>1, <1>3 DEF MustWait, Blocks, queues
  <2>4. WaitsWell'
    BY <1>3, <2>3, ReturnWaits
  <2> QED BY <1>2, <2>1, <2>2, <2>4
<1>4. CASE /\ state = "Open" /\ native = "idle"
           /\ state' = "Connecting" /\ native' = "handshake" /\ Park(t, "start", "start")
  <2>1. \A u \in Tasks : ~ Parked(u)
    BY <1>4 DEF WaitsWell, OnItsList
  <2>2. /\ t \in waiters'["start"]
        /\ \A u \in Tasks : u # t => op'[u] = op[u] /\ woken'[u] = woken[u]
    BY <1>1, <1>4, ParkFacts
  <2>3. TypeOK'
    BY <1>1, <1>4, ParkFacts DEF TypeOK, queues, States
  <2>4. WaitsWell'
    BY <1>4, <2>1, <2>2 DEF WaitsWell, Parked, OnItsList, MustWait, Blocks
  <2>5. NativeMatches' /\ ErrorWhenLost'
    BY <1>1, <1>4 DEF NativeMatches, ErrorWhenLost, LostStates
  <2> QED BY <1>2, <2>3, <2>4, <2>5
<1>5. CASE /\ state = "Connecting" /\ Park(t, "start", "start") /\ UNCHANGED <<state, native>>
  <2>1. PollNotConnected(t, "start")
    BY <1>1, <1>5 DEF PollNotConnected
  <2> QED BY <1>1, <2>1, NotConnectedInv
<1> QED BY <1>3, <1>4, <1>5 DEF PollStart

LEMMA PollAcceptInv ==
  ASSUME Inv, NEW t \in Tasks, PollAcceptInboundStream(t)
  PROVE  Inv'
<1> USE DEF Inv
<1>1. CASE PollNotConnected(t, "accept")
  BY <1>1, NotConnectedInv DEF Ops
<1>2. CASE /\ state = "Connected"
           /\ \/ inbound > 0 /\ inbound' = inbound - 1 /\ Return(t)
              \/ inbound = 0 /\ UNCHANGED inbound /\ Park(t, "accept", "inbound")
           /\ UNCHANGED <<state, error, inboundUni, recvBufs, events, dgram,
                          shutdownCalled, native>>
  <2>1. NativeMatches' /\ ErrorWhenLost' /\ OneState'
    BY <1>2 DEF NativeMatches, ErrorWhenLost, OneState
  <2>2. "inbound" \in Lists /\ "accept" \in Ops /\ inbound' \in 0..MaxQueue
    BY <1>2, ConnectionAssumption DEF Lists, Ops, TypeOK
  <2>3. TypeOK'
    BY <1>2, <2>2, ReturnFacts, ParkFacts DEF TypeOK
  <2>4. \A u \in Tasks : Parked(u) /\ MustWait(u) /\ op'[u] = op[u] => MustWait(u)'
    BY <1>2 DEF MustWait, Blocks, TypeOK
  <2>5. CASE Return(t)
    BY <1>2, <2>1, <2>3, <2>4, <2>5, ReturnWaits
  <2>6. CASE inbound = 0 /\ UNCHANGED inbound /\ Park(t, "accept", "inbound")
    <3>1. op'[t] = "accept" /\ t \in waiters'["inbound"]
      BY <2>2, <2>6, ParkFacts
    <3>2. OnItsList(t)' /\ MustWait(t)'
      BY <1>2, <2>6, <3>1 DEF OnItsList, MustWait, Blocks
    <3> QED BY <1>2, <2>1, <2>2, <2>3, <2>4, <2>6, <3>2, ParkWaits
  <2> QED BY <1>2, <2>5, <2>6
<1> QED BY <1>1, <1>2 DEF PollAcceptInboundStream

LEMMA PollAcceptUniInv ==
  ASSUME Inv, NEW t \in Tasks, PollAcceptInboundUniStream(t)
  PROVE  Inv'
<1> USE DEF Inv
<1>1. CASE PollNotConnected(t, "acceptUni")
  BY <1>1, NotConnectedInv DEF Ops
<1>2. CASE /\ state = "Connected"
           /\ \/ inboundUni > 0 /\ inboundUni' = inboundUni - 1 /\ Return(t)
              \/ inboundUni = 0 /\ UNCHANGED inboundUni /\ Park(t, "acceptUni", "inboundUni")
           /\ UNCHANGED <<state, error, inbound, recvBufs, events, dgram,
                          shutdownCalled, native>>
  <2>1. NativeMatches' /\ ErrorWhenLost' /\ OneState'
    BY <1>2 DEF NativeMatches, ErrorWhenLost, OneState
  <2>2. "inboundUni" \in Lists /\ "acceptUni" \in Ops /\ inboundUni' \in 0..MaxQueue
    BY <1>2, ConnectionAssumption DEF Lists, Ops, TypeOK
  <2>3. TypeOK'
    BY <1>2, <2>2, ReturnFacts, ParkFacts DEF TypeOK
  <2>4. \A u \in Tasks : Parked(u) /\ MustWait(u) /\ op'[u] = op[u] => MustWait(u)'
    BY <1>2 DEF MustWait, Blocks, TypeOK
  <2>5. CASE Return(t)
    BY <1>2, <2>1, <2>3, <2>4, <2>5, ReturnWaits
  <2>6. CASE inboundUni = 0 /\ UNCHANGED inboundUni /\ Park(t, "acceptUni", "inboundUni")
    <3>1. op'[t] = "acceptUni" /\ t \in waiters'["inboundUni"]
      BY <2>2, <2>6, ParkFacts
    <3>2. OnItsList(t)' /\ MustWait(t)'
      BY <1>2, <2>6, <3>1 DEF OnItsList, MustWait, Blocks
    <3> QED BY <1>2, <2>1, <2>2, <2>3, <2>4, <2>6, <3>2, ParkWaits
  <2> QED BY <1>2, <2>5, <2>6
<1> QED BY <1>1, <1>2 DEF PollAcceptInboundUniStream

LEMMA PollReceiveInv ==
  ASSUME Inv, NEW t \in Tasks, PollReceiveDatagram(t)
  PROVE  Inv'
<1> USE DEF Inv
<1>1. CASE PollNotConnected(t, "receive")
  BY <1>1, NotConnectedInv DEF Ops
<1>2. CASE /\ state = "Connected"
           /\ \/ recvBufs > 0 /\ recvBufs' = recvBufs - 1 /\ Return(t)
              \/ recvBufs = 0 /\ UNCHANGED recvBufs /\ Park(t, "receive", "recv")
           /\ UNCHANGED <<state, error, inbound, inboundUni, events, dgram,
                          shutdownCalled, native>>
  <2>1. NativeMatches' /\ ErrorWhenLost' /\ OneState'
    BY <1>2 DEF NativeMatches, ErrorWhenLost, OneState
  <2>2. "recv" \in Lists /\ "receive" \in Ops /\ recvBufs' \in 0..MaxQueue
    BY <1>2, ConnectionAssumption DEF Lists, Ops, TypeOK
  <2>3. TypeOK'
    BY <1>2, <2>2, ReturnFacts, ParkFacts DEF TypeOK
  <2>4. \A u \in Tasks : Parked(u) /\ MustWait(u) /\ op'[u] = op[u] => MustWait(u)'
    BY <1>2 DEF MustWait, Blocks, TypeOK
  <2>5. CASE Return(t)
    BY <1>2, <2>1, <2>3, <2>4, <2>5, ReturnWaits
  <2>6. CASE recvBufs = 0 /\ UNCHANGED recvBufs /\ Park(t, "receive", "recv")
    <3>1. op'[t] = "receive" /\ t \in waiters'["recv"]
      BY <2>2, <2>6, ParkFacts
    <3>2. OnItsList(t)' /\ MustWait(t)'
      BY <1>2, <2>6, <3>1 DEF OnItsList, MustWait, Blocks
    <3> QED BY <1>2, <2>1, <2>2, <2>3, <2>4, <2>6, <3>2, ParkWaits
  <2> QED BY <1>2, <2>5, <2>6
<1> QED BY <1>1, <1>2 DEF PollReceiveDatagram

LEMMA PollSendInv ==
  ASSUME Inv, NEW t \in Tasks, PollSend(t)
  PROVE  Inv'
<1> USE DEF Inv
<1>1. CASE PollNotConnected(t, "send")
  BY <1>1, NotConnectedInv DEF Ops
<1>2. CASE Return(t) /\ UNCHANGED <<state, error, queues, shutdownCalled, native>>
  <2>1. NativeMatches' /\ ErrorWhenLost' /\ OneState'
    BY <1>2 DEF NativeMatches, ErrorWhenLost, OneState, queues
  <2>2. TypeOK'
    BY <1>2, ReturnFacts DEF TypeOK, queues
  <2>3. \A u \in Tasks : Parked(u) /\ MustWait(u) /\ op'[u] = op[u] => MustWait(u)'
    BY <1>2 DEF MustWait, Blocks, queues
  <2> QED BY <1>2, <2>1, <2>2, <2>3, ReturnWaits
<1> QED BY <1>1, <1>2 DEF PollSend

\* Taking the first event leaves at most one datagram state.
LEMMA TailKeeps ==
  ASSUME TypeOK, OneState, events # <<>>, events' = Tail(events), dgram' = dgram
  PROVE  OneState' /\ events' \in Seq(Events) /\ Len(events') <= MaxEvents
<1>1. events \in Seq(Events) /\ Len(events) <= MaxEvents /\ MaxEvents \in Nat
  BY ConnectionAssumption DEF TypeOK
<1>2. /\ events' \in Seq(Events) /\ Len(events') = Len(events) - 1 /\ Len(events) \in Nat
      /\ \A i \in DOMAIN events' : i \in Nat /\ i + 1 \in DOMAIN events
                                 /\ events'[i] = events[i + 1]
  BY <1>1
<1>3. OneState'
  BY <1>2 DEF OneState
<1> QED BY <1>1, <1>2, <1>3

LEMMA PollEventInv ==
  ASSUME Inv, NEW t \in Tasks, PollEvent(t)
  PROVE  Inv'
<1> USE DEF Inv
<1>1. CASE PollNotConnected(t, "event")
  BY <1>1, NotConnectedInv DEF Ops
<1>2. CASE /\ state \in {"Connected", "Shutdown"}
           /\ events # <<>> /\ events' = Tail(events) /\ Return(t)
           /\ UNCHANGED <<state, error, inbound, inboundUni, recvBufs, dgram,
                          shutdownCalled, native>>
  <2>1. NativeMatches' /\ ErrorWhenLost'
    BY <1>2 DEF NativeMatches, ErrorWhenLost
  <2>2. OneState' /\ events' \in Seq(Events) /\ Len(events') <= MaxEvents
    BY <1>2, TailKeeps
  <2>3. TypeOK'
    BY <1>2, <2>2, ReturnFacts DEF TypeOK
  <2>4. \A u \in Tasks : Parked(u) /\ MustWait(u) /\ op'[u] = op[u] => MustWait(u)'
    BY <1>2 DEF MustWait, Blocks
  <2> QED BY <1>2, <2>1, <2>2, <2>3, <2>4, ReturnWaits
<1>3. CASE /\ state \in {"Connected", "Shutdown"}
           /\ events = <<>> /\ UNCHANGED events /\ Park(t, "event", "event")
           /\ UNCHANGED <<state, error, inbound, inboundUni, recvBufs, dgram,
                          shutdownCalled, native>>
  <2>1. NativeMatches' /\ ErrorWhenLost' /\ OneState'
    BY <1>3 DEF NativeMatches, ErrorWhenLost, OneState
  <2>2. "event" \in Lists /\ "event" \in Ops
    BY DEF Lists, Ops
  <2>3. TypeOK' /\ op'[t] = "event" /\ t \in waiters'["event"]
    BY <1>3, <2>2, ParkFacts DEF TypeOK
  <2>4. \A u \in Tasks : Parked(u) /\ MustWait(u) /\ op'[u] = op[u] => MustWait(u)'
    BY <1>3 DEF MustWait, Blocks
  <2>5. OnItsList(t)' /\ MustWait(t)'
    BY <1>3, <2>3 DEF OnItsList, MustWait, Blocks
  <2> QED BY <1>3, <2>1, <2>2, <2>3, <2>4, <2>5, ParkWaits
<1> QED BY <1>1, <1>2, <1>3 DEF PollEvent

\* A shutdown of the application runs ahead of MsQuic: who waits goes on waiting.
LEMMA BeginShutdownKeeps ==
  ASSUME Inv, state = "Connected", BeginShutdown, UNCHANGED <<queues, native>>
  PROVE  /\ NativeMatches' /\ ErrorWhenLost' /\ OneState'
         /\ state' \in States /\ error' \in Errors /\ shutdownCalled' \in {"no", "yes", "early"}
         /\ state' = "Shutdown" /\ shutdownCalled' # "no"
         /\ \A u \in Tasks : Parked(u) /\ MustWait(u) /\ op'[u] = op[u] => MustWait(u)'
<1> USE DEF Inv, BeginShutdown
<1>1. NativeMatches'
  BY DEF NativeMatches, TypeOK
<1>2. ErrorWhenLost' /\ OneState'
  BY DEF ErrorWhenLost, OneState, queues
<1>3. native' # "done" /\ state' = "Shutdown" /\ shutdownCalled' # "no"
  BY <1>1 DEF NativeMatches
<1>4. \A u \in Tasks : MustWait(u)'
  BY <1>3 DEF MustWait
<1> QED BY <1>1, <1>2, <1>3, <1>4 DEF States, Errors

LEMMA PollShutdownInv ==
  ASSUME Inv, NEW t \in Tasks, PollShutdown(t)
  PROVE  Inv'
<1> USE DEF Inv
<1>1. UNCHANGED <<queues, native>> /\ "start" \in Lists /\ "shutdown" \in Lists /\ "shutdown" \in Ops
  BY DEF PollShutdown, Lists, Ops
<1>2. ASSUME UNCHANGED <<state, error, shutdownCalled>>
      PROVE  /\ NativeMatches' /\ ErrorWhenLost' /\ OneState'
             /\ \A u \in Tasks : Parked(u) /\ MustWait(u) /\ op'[u] = op[u] => MustWait(u)'
  BY <1>1, <1>2 DEF NativeMatches, ErrorWhenLost, OneState, MustWait, Blocks, queues
<1>3. CASE Return(t) /\ UNCHANGED <<state, error, shutdownCalled>>
  <2>1. TypeOK'
    BY <1>1, <1>3, ReturnFacts DEF TypeOK, queues
  <2> QED BY <1>2, <1>3, <2>1, ReturnWaits
<1>4. CASE /\ state = "Connecting" /\ Park(t, "shutdown", "start")
           /\ UNCHANGED <<state, error, shutdownCalled>>
  <2>1. PollNotConnected(t, "shutdown")
    BY <1>1, <1>4 DEF PollNotConnected
  <2> QED BY <1>1, <2>1, NotConnectedInv
<1>5. CASE /\ state = "Connected" /\ BeginShutdown /\ Park(t, "shutdown", "shutdown")
  <2>1. op'[t] = "shutdown" /\ t \in waiters'["shutdown"]
    BY <1>1, <1>5, ParkFacts
  <2>2. /\ NativeMatches' /\ ErrorWhenLost' /\ OneState'
        /\ state' \in States /\ error' \in Errors /\ shutdownCalled' \in {"no", "yes", "early"}
        /\ state' = "Shutdown"
        /\ \A u \in Tasks : Parked(u) /\ MustWait(u) /\ op'[u] = op[u] => MustWait(u)'
    BY <1>1, <1>5, BeginShutdownKeeps
  <2>3. TypeOK'
    BY <1>1, <1>5, <2>2, ParkFacts DEF TypeOK, queues
  <2>4. OnItsList(t)' /\ MustWait(t)'
    BY <2>1, <2>2 DEF OnItsList, MustWait, Blocks
  <2> QED BY <1>1, <1>5, <2>2, <2>3, <2>4, ParkWaits
<1>6. CASE /\ state = "Shutdown" /\ Park(t, "shutdown", "shutdown")
           /\ UNCHANGED <<state, error, shutdownCalled>>
  <2>1. op'[t] = "shutdown" /\ t \in waiters'["shutdown"]
    BY <1>1, <1>6, ParkFacts
  <2>2. TypeOK'
    BY <1>1, <1>6, ParkFacts DEF TypeOK, queues
  <2>3. OnItsList(t)' /\ MustWait(t)'
    BY <1>6, <2>1 DEF OnItsList, MustWait, Blocks
  <2> QED BY <1>1, <1>2, <1>6, <2>2, <2>3, ParkWaits
<1> QED BY <1>3, <1>4, <1>5, <1>6 DEF PollShutdown

LEMMA ShutdownInv ==
  ASSUME Inv, Shutdown
  PROVE  Inv'
<1> USE DEF Inv
<1>1. state = "Connected" /\ BeginShutdown /\ UNCHANGED <<waiters, queues, op, woken, native>>
  BY DEF Shutdown
<1>2. /\ NativeMatches' /\ ErrorWhenLost' /\ OneState'
      /\ state' \in States /\ error' \in Errors /\ shutdownCalled' \in {"no", "yes", "early"}
      /\ state' = "Shutdown"
      /\ \A u \in Tasks : Parked(u) /\ MustWait(u) /\ op'[u] = op[u] => MustWait(u)'
  BY <1>1, BeginShutdownKeeps
<1>3. TypeOK'
  BY <1>1, <1>2 DEF TypeOK, queues
<1>4. WaitsWell'
  BY <1>1, <1>2 DEF WaitsWell, Parked, OnItsList
<1> QED BY <1>2, <1>3, <1>4

LEMMA CancelInv ==
  ASSUME Inv, NEW t \in Tasks, Cancel(t)
  PROVE  Inv'
<1> USE DEF Inv, Cancel
<1>1. NativeMatches' /\ ErrorWhenLost' /\ OneState' /\ Return(t)
  BY DEF NativeMatches, ErrorWhenLost, OneState, queues, Return
<1>2. TypeOK'
  BY <1>1, ReturnFacts DEF TypeOK, queues
<1>3. \A u \in Tasks : Parked(u) /\ MustWait(u) /\ op'[u] = op[u] => MustWait(u)'
  BY DEF MustWait, Blocks, queues
<1> QED BY <1>1, <1>2, <1>3, ReturnWaits
--------------------------------------------------------------------------------
(* The event handlers *)

\* WaitsWell survives a drain, if who is on none of the drained lists has to
\* wait as before and the list it is on is still the one it belongs to.
LEMMA WakeWaits ==
  ASSUME TypeOK, WaitsWell, NEW ls \in SUBSET Lists, Wake(ls),
         \/ state' = state
         \/ "start" \in ls /\ state' \notin {"Open", "Connecting"},
         \A u \in Tasks :
           (OnItsList(u) /\ MustWait(u) /\ op'[u] = op[u] /\ \A l \in ls : u \notin waiters[l])
             => MustWait(u)'
  PROVE  WaitsWell'
<1> SUFFICES ASSUME NEW u \in Tasks, Parked(u)'
             PROVE  OnItsList(u)' /\ MustWait(u)'
  BY DEF WaitsWell
<1>1. /\ op' = op /\ Parked(u)
      /\ \A l \in ls : u \notin waiters[l]
      /\ \A l \in Lists : u \in waiters[l] => u \in waiters'[l]
  BY WakeFacts
<1>2. OnItsList(u) /\ MustWait(u)
  BY <1>1 DEF WaitsWell
<1>3. OnItsList(u)'
  BY <1>1, <1>2 DEF OnItsList, Lists
<1> QED BY <1>1, <1>2, <1>3

LEMMA ConnectedInv ==
  ASSUME Inv, HandleConnected
  PROVE  Inv'
<1> USE DEF Inv
<1>1. /\ Wake({"start"}) /\ {"start"} \in SUBSET Lists
      /\ native \in {"handshake", "accepting"} /\ native' = "connected" /\ state' = "Connected"
      /\ UNCHANGED <<error, queues, shutdownCalled>>
  BY DEF HandleConnected, Lists
<1>2. TypeOK'
  BY <1>1, WakeFacts DEF TypeOK, queues, States
<1>3. NativeMatches' /\ ErrorWhenLost' /\ OneState'
  BY <1>1 DEF NativeMatches, ErrorWhenLost, OneState, queues, LostStates
<1>4. WaitsWell'
  <2>1. ASSUME NEW u \in Tasks, OnItsList(u), MustWait(u), u \notin waiters["start"],
               op'[u] = op[u]
        PROVE  MustWait(u)'
    <3>1. CASE shutdownCalled # "no"
      BY <1>1, <3>1 DEF MustWait
    <3>2. CASE shutdownCalled = "no"
      <4>1. state = "Connected"
        BY <1>1, <2>1, <3>2 DEF NativeMatches, OnItsList
      <4> QED BY <1>1, <2>1, <4>1 DEF MustWait, Blocks, queues, LostStates
    <3> QED BY <3>1, <3>2
  <2> QED BY <1>1, <2>1, WakeWaits
<1> QED BY <1>2, <1>3, <1>4

\* The two events that begin a loss drain the same lists.  A task that has events
\* to read, or streams or datagrams to take, was not asleep.
LEMMA LossInv ==
  ASSUME Inv, Live, native' = "closing", state' = "Shutdown",
         error' \in {"ByTransport", "ByPeer"}, Wake({"start", "inbound", "recv"}),
         UNCHANGED <<queues, shutdownCalled>>
  PROVE  Inv'
<1> USE DEF Inv
<1> DEFINE ls == {"start", "inbound", "recv"}
<1>1. ls \in SUBSET Lists
  BY DEF Lists
<1>2. TypeOK'
  BY <1>1, WakeFacts DEF TypeOK, queues, States, Errors
<1>3. NativeMatches' /\ ErrorWhenLost' /\ OneState'
  BY DEF NativeMatches, ErrorWhenLost, OneState, queues, Live, PeerLive
<1>4. ASSUME NEW u \in Tasks, OnItsList(u), MustWait(u),
             \A l \in ls : u \notin waiters[l], op'[u] = op[u]
      PROVE  MustWait(u)'
  <2>1. /\ op[u] \in {"acceptUni", "event", "shutdown"} /\ state # "Connecting"
        /\ native # "done"
    BY <1>4 DEF OnItsList, Live, PeerLive
  <2>2. state \in {"Connected", "Shutdown"}
    BY <2>1 DEF NativeMatches, Live, PeerLive
  <2> QED BY <1>4, <2>1, <2>2 DEF MustWait, Blocks, queues, LostStates
<1>5. WaitsWell'
  BY <1>1, <1>4, WakeWaits
<1> QED BY <1>2, <1>3, <1>5

LEMMA ShutdownCompleteInv ==
  ASSUME Inv, HandleShutdownComplete
  PROVE  Inv'
<1> USE DEF Inv
<1> DEFINE ls == {"start", "inbound", "recv", "shutdown", "event"}
<1>1. /\ ls \in SUBSET Lists /\ Wake(ls)
      /\ native' = "done" /\ state' = "ShutdownComplete"
      /\ error' = IF error = "None" THEN "ByLocal" ELSE error
      /\ UNCHANGED <<queues, shutdownCalled>>
  BY DEF HandleShutdownComplete, Lists
<1>2. TypeOK'
  BY <1>1, WakeFacts DEF TypeOK, queues, States, Errors
<1>3. NativeMatches' /\ ErrorWhenLost' /\ OneState'
  BY <1>1 DEF NativeMatches, ErrorWhenLost, OneState, queues
<1>4. ASSUME NEW u \in Tasks, OnItsList(u), \A l \in ls : u \notin waiters[l], op'[u] = op[u]
      PROVE  MustWait(u)'
  <2>1. op[u] = "acceptUni"
    BY <1>4 DEF OnItsList
  <2> QED BY <1>1, <1>4, <2>1 DEF MustWait, LostStates
<1>5. WaitsWell'
  BY <1>1, <1>4, WakeWaits
<1> QED BY <1>2, <1>3, <1>5

LEMMA PeerStreamInv ==
  ASSUME Inv, NEW unidirectional \in BOOLEAN, HandlePeerStreamStarted(unidirectional)
  PROVE  Inv'
<1> USE DEF Inv
<1> DEFINE l == IF unidirectional THEN "inboundUni" ELSE "inbound"
<1>1. /\ Wake({l}) /\ {l} \in SUBSET Lists
      /\ UNCHANGED <<state, error, recvBufs, events, dgram, shutdownCalled, native>>
      /\ l = "inbound" => inboundUni' = inboundUni
      /\ l = "inboundUni" => inbound' = inbound
      /\ l \in {"inbound", "inboundUni"}
  BY DEF HandlePeerStreamStarted, Lists
<1>2. inbound' \in 0..MaxQueue /\ inboundUni' \in 0..MaxQueue
  BY ConnectionAssumption DEF HandlePeerStreamStarted, TypeOK
<1>3. TypeOK'
  BY <1>1, <1>2, WakeFacts DEF TypeOK
<1>4. NativeMatches' /\ ErrorWhenLost' /\ OneState'
  BY <1>1 DEF NativeMatches, ErrorWhenLost, OneState
<1>5. ASSUME NEW u \in Tasks, OnItsList(u), MustWait(u), u \notin waiters[l], op'[u] = op[u]
      PROVE  MustWait(u)'
  BY <1>1, <1>5 DEF OnItsList, MustWait, Blocks
<1>6. WaitsWell'
  BY <1>1, <1>5, WakeWaits
<1> QED BY <1>3, <1>4, <1>6

LEMMA DatagramInv ==
  ASSUME Inv, HandleDatagramReceived
  PROVE  Inv'
<1> USE DEF Inv
<1>1. /\ Wake({"recv"}) /\ {"recv"} \in SUBSET Lists
      /\ UNCHANGED <<state, error, inbound, inboundUni, events, dgram, shutdownCalled, native>>
  BY DEF HandleDatagramReceived, Lists
<1>2. recvBufs' \in 0..MaxQueue
  BY ConnectionAssumption DEF HandleDatagramReceived, TypeOK
<1>3. TypeOK'
  BY <1>1, <1>2, WakeFacts DEF TypeOK
<1>4. NativeMatches' /\ ErrorWhenLost' /\ OneState'
  BY <1>1 DEF NativeMatches, ErrorWhenLost, OneState
<1>5. ASSUME NEW u \in Tasks, OnItsList(u), MustWait(u), u \notin waiters["recv"],
             op'[u] = op[u]
      PROVE  MustWait(u)'
  BY <1>1, <1>5 DEF OnItsList, MustWait, Blocks
<1>6. WaitsWell'
  BY <1>1, <1>5, WakeWaits
<1> QED BY <1>3, <1>4, <1>6

\* A step that only queues an event, or replaces one, wakes who reads events.
LEMMA EventInv ==
  ASSUME Inv, Wake({"event"}),
         UNCHANGED <<state, error, inbound, inboundUni, recvBufs, shutdownCalled, native>>,
         OneState', events' \in Seq(Events), Len(events') <= MaxEvents,
         dgram' \in DgramStates \cup {NoDgram}
  PROVE  Inv'
<1> USE DEF Inv
<1>1. {"event"} \in SUBSET Lists
  BY DEF Lists
<1>2. TypeOK'
  BY <1>1, WakeFacts DEF TypeOK
<1>3. NativeMatches' /\ ErrorWhenLost'
  BY DEF NativeMatches, ErrorWhenLost
<1>4. ASSUME NEW u \in Tasks, OnItsList(u), MustWait(u), u \notin waiters["event"],
             op'[u] = op[u]
      PROVE  MustWait(u)'
  BY <1>4 DEF OnItsList, MustWait, Blocks
<1>5. WaitsWell'
  BY <1>1, <1>4, WakeWaits
<1> QED BY <1>2, <1>3, <1>5

LEMMA PathEventInv ==
  ASSUME Inv, HandlePathEvent
  PROVE  Inv'
<1> USE DEF Inv
<1> DEFINE e == [kind |-> "Path"]
<1>1. /\ events' = Append(events, e) /\ Len(events) < MaxEvents /\ dgram' = dgram
      /\ Wake({"event"})
      /\ UNCHANGED <<state, error, inbound, inboundUni, recvBufs, shutdownCalled, native>>
  BY DEF HandlePathEvent
<1>2. e \in Events /\ ~ IsState(e)
  BY DEF Events, IsState
<1> HIDE DEF e
<1>3. events \in Seq(Events) /\ MaxEvents \in Nat
  BY ConnectionAssumption DEF TypeOK
<1>4. /\ events' \in Seq(Events) /\ Len(events') = Len(events) + 1 /\ Len(events) \in Nat
      /\ \A i \in DOMAIN events' : (i \in DOMAIN events /\ events'[i] = events[i]) \/ events'[i] = e
  BY <1>1, <1>2, <1>3
<1>5. OneState'
  BY <1>1, <1>2, <1>4 DEF OneState
<1>6. Len(events') <= MaxEvents
  BY <1>1, <1>3, <1>4
<1> QED BY <1>1, <1>4, <1>5, <1>6, EventInv DEF TypeOK

\* The event in the queue is replaced, or one is queued when there is none.
LEMMA DatagramStateInv ==
  ASSUME Inv, NEW d \in DgramStates, HandleDatagramStateChanged(d)
  PROVE  Inv'
<1> USE DEF Inv
<1> DEFINE e == [kind |-> "DatagramStateChanged", now |-> d]
           queued == {i \in DOMAIN events : IsState(events[i])}
<1>1. /\ dgram' = d /\ Wake({"event"})
      /\ UNCHANGED <<state, error, inbound, inboundUni, recvBufs, shutdownCalled, native>>
      /\ \/ /\ queued # {}
            /\ events' = [i \in DOMAIN events |-> IF i \in queued THEN e ELSE events[i]]
         \/ /\ queued = {}
            /\ Len(events) < MaxEvents
            /\ events' = Append(events, e)
  BY DEF HandleDatagramStateChanged, IsState
<1>2. e \in Events /\ IsState(e) /\ e.now = d
  BY DEF Events, IsState
<1> HIDE DEF e
<1>3. /\ events \in Seq(Events) /\ Len(events) <= MaxEvents /\ MaxEvents \in Nat
      /\ Len(events) \in Nat /\ DOMAIN events = 1..Len(events)
  BY ConnectionAssumption DEF TypeOK
<1>4. CASE events' = [i \in DOMAIN events |-> IF i \in queued THEN e ELSE events[i]]
  <2>1. \A i \in DOMAIN events : events[i] \in Events
    BY <1>3
  <2>2. events' \in [1..Len(events) -> Events]
    BY <1>2, <1>3, <1>4, <2>1
  <2>3. events' \in Seq(Events) /\ Len(events') = Len(events)
    BY <1>3, <2>2
  <2>4. \A i \in DOMAIN events' :
          i \in DOMAIN events /\ (IsState(events'[i]) => i \in queued /\ events'[i] = e)
    BY <1>4
  <2>5. OneState'
    BY <1>1, <1>2, <2>4 DEF OneState
  <2>6. Len(events') <= MaxEvents
    BY <1>3, <2>3
  <2> QED BY <1>1, <2>3, <2>5, <2>6, EventInv
<1>5. CASE /\ queued = {} /\ Len(events) < MaxEvents /\ events' = Append(events, e)
  <2>1. /\ events' \in Seq(Events) /\ Len(events') = Len(events) + 1
        /\ \A i \in DOMAIN events' :
             \/ i \in DOMAIN events /\ events'[i] = events[i] /\ i # Len(events) + 1
             \/ i = Len(events) + 1 /\ events'[i] = e
    BY <1>2, <1>3, <1>5
  <2>2. \A i \in DOMAIN events' : IsState(events'[i]) => i = Len(events) + 1 /\ events'[i] = e
    BY <1>5, <2>1
  <2>3. OneState'
    BY <1>1, <1>2, <2>2 DEF OneState
  <2>4. Len(events') <= MaxEvents
    BY <1>3, <1>5, <2>1
  <2> QED BY <1>1, <2>1, <2>3, <2>4, EventInv
<1> QED BY <1>1, <1>4, <1>5

LEMMA CloseLocallyInv ==
  ASSUME Inv, CloseLocally
  PROVE  Inv'
<1> USE DEF Inv, CloseLocally
<1>1. TypeOK' /\ NativeMatches' /\ ErrorWhenLost' /\ OneState'
  BY DEF TypeOK, NativeMatches, ErrorWhenLost, OneState, queues
<1>2. WaitsWell'
  BY DEF WaitsWell, Parked, OnItsList, MustWait, Blocks, queues
<1> QED BY <1>1, <1>2

--------------------------------------------------------------------------------
(* The specification *)

LEMMA InitInv ==
  ASSUME Init
  PROVE  Inv
<1>1. /\ events \in Seq(Events) /\ Len(events) = 0 /\ DOMAIN events = {}
      /\ inbound \in 0..MaxQueue /\ inboundUni \in 0..MaxQueue /\ recvBufs \in 0..MaxQueue
  BY ConnectionAssumption DEF Init
<1>2. /\ waiters \in [Lists -> SUBSET Tasks] /\ op \in [Tasks -> Ops \cup {"none"}]
      /\ woken \in [Tasks -> BOOLEAN]
  BY DEF Init
<1>3. TypeOK
  <2>1. state \in States /\ native \in {"idle", "accepting"}
    BY DEF Init, States
  <2> QED BY <1>1, <1>2, <2>1, ConnectionAssumption DEF Init, TypeOK, Errors
<1>4. NativeMatches /\ ErrorWhenLost
  BY DEF Init, NativeMatches, ErrorWhenLost, LostStates
<1>5. WaitsWell /\ OneState
  BY <1>1 DEF Init, WaitsWell, Parked, OneState
<1> QED BY <1>3, <1>4, <1>5 DEF Inv

LEMMA NextInv ==
  ASSUME Inv, [Next]_vars
  PROVE  Inv'
<1>1. CASE UNCHANGED vars
  BY <1>1 DEF vars, queues, Inv, TypeOK, NativeMatches, ErrorWhenLost, WaitsWell, OneState,
              Parked, OnItsList, MustWait, Blocks
<1>2. ASSUME NEW t \in Tasks, Poll(t) \/ Cancel(t)
      PROVE  Inv'
  BY <1>2, PollStartInv, PollAcceptInv, PollAcceptUniInv, PollReceiveInv, PollSendInv,
     PollEventInv, PollShutdownInv, CancelInv DEF Poll
<1>3. CASE Shutdown
  BY <1>3, ShutdownInv
<1>4. CASE Handle
  <2>1. CASE HandleShutdownInitiatedByTransport \/ HandleShutdownInitiatedByPeer
    <3>1. error' \in {"ByTransport", "ByPeer"}
      BY <2>1 DEF HandleShutdownInitiatedByTransport, HandleShutdownInitiatedByPeer
    <3> QED BY <2>1, <3>1, LossInv
            DEF HandleShutdownInitiatedByTransport, HandleShutdownInitiatedByPeer
  <2> QED BY <1>4, <2>1, ConnectedInv, ShutdownCompleteInv, PeerStreamInv, DatagramStateInv,
             DatagramInv, PathEventInv DEF Handle
<1>5. CASE CloseLocally
  BY <1>5, CloseLocallyInv
<1> QED BY <1>1, <1>2, <1>3, <1>4, <1>5 DEF Next

\* Inv holds in every state of a connection.
THEOREM Invariance == Spec => []Inv
<1>1. Init => Inv
  BY InitInv
<1>2. Inv /\ [Next]_vars => Inv'
  BY NextInv
<1> QED BY <1>1, <1>2, PTL DEF Spec

\* What a step of a connection that is lost may do.
LEMMA LostStep ==
  ASSUME Inv, Next, state \in LostStates, shutdownCalled # "early"
  PROVE  /\ state' \in LostStates
         /\ inbound' >= inbound /\ inboundUni' >= inboundUni
         /\ recvBufs' >= recvBufs
<1> USE DEF Inv, LostStates
<1>1. inbound \in Nat /\ inboundUni \in Nat /\ recvBufs \in Nat
  BY DEF TypeOK
<1>2. ASSUME NEW t \in Tasks, NEW o, PollNotConnected(t, o)
      PROVE  UNCHANGED <<state, inbound, inboundUni, recvBufs>>
  BY <1>2 DEF PollNotConnected, queues
<1>3. ASSUME NEW t \in Tasks, Poll(t) \/ Cancel(t)
      PROVE  UNCHANGED <<state, inbound, inboundUni, recvBufs>>
  <2>1. CASE PollStart(t) \/ PollShutdown(t) \/ Cancel(t)
    BY <2>1 DEF PollStart, PollShutdown, Cancel, queues
  <2>2. CASE PollAcceptInboundStream(t) \/ PollAcceptInboundUniStream(t)
    BY <1>2, <2>2 DEF PollAcceptInboundStream, PollAcceptInboundUniStream
  <2>3. CASE PollReceiveDatagram(t) \/ PollSend(t) \/ PollEvent(t)
    BY <1>2, <2>3 DEF PollReceiveDatagram, PollSend, PollEvent
  <2> QED BY <1>3, <2>1, <2>2, <2>3 DEF Poll
<1>4. CASE Shutdown
  BY <1>4 DEF Shutdown
<1>5. CASE CloseLocally
  BY <1>1, <1>5 DEF CloseLocally, queues
<1>6. CASE Handle
  <2>1. ~ HandleConnected
    BY DEF NativeMatches, HandleConnected
  <2>2. CASE \/ HandleShutdownInitiatedByTransport \/ HandleShutdownInitiatedByPeer
             \/ HandleShutdownComplete
    BY <1>1, <2>2 DEF HandleShutdownInitiatedByTransport, HandleShutdownInitiatedByPeer,
       HandleShutdownComplete, queues
  <2>3. CASE \E u \in BOOLEAN : HandlePeerStreamStarted(u)
    BY <1>1, <2>3 DEF HandlePeerStreamStarted
  <2>4. CASE HandleDatagramReceived \/ HandlePathEvent
    BY <1>1, <2>4 DEF HandleDatagramReceived, HandlePathEvent
  <2>5. ASSUME NEW d \in DgramStates, HandleDatagramStateChanged(d)
        PROVE  UNCHANGED <<state, inbound, inboundUni, recvBufs>>
    BY <2>5 DEF HandleDatagramStateChanged
  <2> QED BY <1>1, <1>6, <2>1, <2>2, <2>3, <2>4, <2>5 DEF Handle
<1> QED BY <1>1, <1>3, <1>4, <1>5, <1>6 DEF Next

--------------------------------------------------------------------------------
(* The properties *)

\* The state, the queues and the waiter lists stay within their types.
THEOREM TypeCorrect == Spec => []TypeOK
<1>1. Inv => TypeOK
  BY DEF Inv
<1> QED BY <1>1, Invariance, PTL

\* Every poll that finds the connection lost finds the error it unwraps with
\* expect("error") (connection.rs:133).
THEOREM ErrorThere == Spec => []ErrorWhenLost
<1>1. Inv => ErrorWhenLost
  BY DEF Inv
<1> QED BY <1>1, Invariance, PTL

\* No task sleeps through what it waits for, however polls, cancellations and
\* events interleave (connection.rs:353-369).
THEOREM WakeupsKept == Spec => []NoLostWakeup
<1>1. Inv => NoLostWakeup
  BY DEF Inv, WaitsWell, OnItsList, MustWait, NoLostWakeup, Lists
<1> QED BY <1>1, Invariance, PTL

\* The datagram state that waits in the queue is the one that send_datagram
\* applies, and there is at most one (connection.rs:1387-1392).
THEOREM QueuedStateCurrent == Spec => []QueuedStateIsCurrent
<1>1. ASSUME Inv
      PROVE  QueuedStateIsCurrent
  <2> DEFINE queued == {i \in DOMAIN events : events[i].kind = "DatagramStateChanged"}
  <2>1. \A i, j \in queued : i = j
    BY <1>1 DEF Inv, OneState, IsState
  <2>2. queued = {} \/ \E i : queued = {i}
    BY <2>1
  <2>3. Cardinality(queued) \in {0, 1}
    BY <2>2, FS_EmptySet, FS_Singleton
  <2>4. \A i \in DOMAIN events :
          events[i].kind = "DatagramStateChanged" => events[i].now = dgram
    BY <1>1 DEF Inv, OneState, IsState
  <2> QED BY <2>3, <2>4 DEF QueuedStateIsCurrent
<1> QED BY <1>1, Invariance, PTL

\* A lost connection stays lost and hands out nothing that was queued before,
\* unless the application shut it down during the handshake.
THEOREM LossFinal == Spec => LossIsFinal
<1>1. Inv /\ [Next]_vars =>
        [(state \in LostStates /\ shutdownCalled # "early") =>
           (/\ state' \in LostStates
            /\ inbound' >= inbound /\ inboundUni' >= inboundUni
            /\ recvBufs' >= recvBufs)]_vars
  BY LostStep
<1> QED BY <1>1, Invariance, PTL DEF Spec, LossIsFinal
================================================================================
