# Verification of msquic-async

`msquic-async` wraps the callback API of MsQuic in Rust futures. This directory
holds TLA+ models of the crate's own logic (the state it keeps, the handlers
MsQuic calls, the polls the executor makes), TLC configurations that check them
on small instances, and TLAPS proofs of the properties that matter most. Line
numbers refer to `src/msquic-async/src/` unless a path says otherwise.

## The system

```
 application tasks                          MsQuic worker threads
   | poll_*  (one lock per object)             | events, one at a time per handle
   v                                           v
 Registration -- Listener -- Connection -- Stream (read half, write half)
   |                                          ^ moved into the futures of
   |                                          | h3-msquic-async's RecvStream, SendStream
   |  RundownState: count + waker map (no lock for the count)
   +-- a RundownGuard in every Listener, ConnectionInstance, StreamInstance
```

| Component | State | Operations | What is hard | What makes it correct |
|---|---|---|---|---|
| Registration rundown (`registration.rs`) | `active` atomic, keyed waker map | guard new and drop, `wait_idle` poll, drop | lock-free count against a locked map, on any threads | resolves only when nothing is reserved, and then always; no slot leaks |
| Handle ownership (all four files) | field order of the owners, `Arc` counts, queues of the callback contexts | open, adopt from a callback, clone, accept, drop | drop order, failed opens, objects nobody accepted, streams that outlive connections | the count is zero only when MsQuic has no handle of ours |
| Listener (`listener.rs`) | state, queue of connections, two waiter lists | start, accept, stop, NEW_CONNECTION, STOP_COMPLETE | native stop is called outside the lock, the registration's shutdown stops it as well, restart, cancelled acceptors | no lost wakeup, one native stop per run, no connection after Finished |
| Connection (`connection.rs`) | state, error, four queues, six waiter lists | start, accepts, datagrams, events, shutdown; the event handlers | events that overtake calls, three ways to end, coalesced events | the error is there whenever the state says lost; every wait ends |
| Stream receive half (`stream.rs`) | receive state, buffer queue, completed ranges, cursor | three kinds of reads, chunk drop, abort, RECEIVE, ends | memory lent by MsQuic, returned out of order on any thread | nothing is given back while readable; everything is, in the end; no false EOF |
| Stream start and send half (`stream.rs`) | state, start status, send state, write pool | open, write, finish, abort, START_COMPLETE, SEND_COMPLETE, ends | buffers that change hands, refused sends, blocked opens, cancel on loss | one owner per buffer, right content, no false success |
| Buffers (`buffer.rs`) | offset, fragments, read cursor; the write buffer's three vectors | slice, advance, reset, into_raw | cursor arithmetic across fragments, recycling | what a buffer shows is what comes next; a recycled one is empty |
| Waker lists, locks (`sync.rs`, all files) | waiter lists; six locks | `register_waker`; lock, unlock, calls that wait for a worker | wakers of dropped futures stay; locks held while another is taken or a worker is awaited | one entry per task; no circular wait |
| Datagram send buffers (`connection.rs:1022-1057`) | connection's write pool | send, DATAGRAM_SEND_STATE_CHANGED | several events for one buffer, refused sends | one owner per buffer, one payload in it |
| TLS key log (`connection.rs:920-954`, `listener.rs`) | secrets block, file, the listener's clone | set, log at Connected | a raw pointer MsQuic writes to later, a set_param that fails, a second set | the block outlives MsQuic's pointer; an accepted log gets the keys |
| h3 adapter, streams (`src/h3-msquic-async/src/lib.rs`) | futures with the stream moved in, chunks being written | h3's RecvStream, SendStream, OpenStreams traits | calls while a future holds the stream, MsQuic's events between two chunks | everything before the end, chunks in order, a stream to unwrap |
| Connection parameters (`connection.rs:371-891`) | none | getters and setters | they wait for the worker | no lock is held meanwhile |
| h3 datagrams, async I/O traits, examples | none | pass-through | nothing | not modelled: no state |

The components meet in four places. Objects hold guards of the rundown
(`Handles` uses `IdleBarrier`, the specification that `Rundown` is shown to
implement). Connections hand streams out, and listeners connections, through
queues in the callback contexts (`Handles` follows the ownership, `Connection`
and `Listener` the waiting). A connection's end reaches its streams as their own
events (`StreamSend` and `StreamRecv` take it as an input that comes at any
moment). The h3 adapter owns streams: `H3Send` is composed with `StreamSend`,
`H3Recv` with `ByteStream`, the specification that `StreamRecv` is shown to
implement. `Locks` crosses all of them: it keeps of each operation only what it
locks and what it waits for.

## The modules

**IdleBarrier** is the abstract specification of `Registration::wait_idle`: a set
of live reservations, and futures that resolve at a moment when it is empty.

**Rundown** models `registration.rs` at the grain of single accesses to shared
memory: `Release` is the `fetch_sub`, `Drain` the critical section that empties
the map, `Wake` one call of a waker after the unlock, `Poll`, `Register` and
`Recheck` the two loads and the insertion of `WaitIdle::poll`. Futures move
between tasks, are polled again without a wakeup and are dropped at any moment.
The atomics are modelled as sequentially consistent. That loses nothing here: a
drain and a registration are ordered by the mutex, and a re-check that follows
the drain's unlock sees the decrement that came before it.

**Handles** follows every native handle through reserved, offered, queued, open,
closing, closed and gone. A Rust drop is two actions, `CloseNative` and
`DropGuard`, in the order of the fields; MsQuic's close waits for a running
callback of the handle (`CallbacksOver`, external) and drops the callback's
context, so what was queued there starts to close with it. The `OpenOutboundStream`
future borrows its connection, which is `DropRef`'s guard.

**Listener** models `listener.rs` with several tasks. A poll is one step under the
lock, except `poll_stop`: it sets the state under the lock (`PollStop`) and calls
ListenerStop after it (`NativeStop`), with everything else free to run between.
STOP_COMPLETE may come inside that call or later. `RegistrationShutdown` stops the
listener at any moment without changing its state (`registration.rs:128-134`), so
STOP_COMPLETE also comes to a listener that is started, or before `NativeStop`. Each
start begins a run, numbered by `starts`; `calling` remembers which run a task is
about to stop. Whether MsQuic starts a listener again after the registration's
shutdown is left open. The number of queued connections stands for the queue.

**Connection** models `connection.rs`: state, error, queues by their length, the
event queue by its entries, six waiter lists as sets of tasks. A poll and a
handler are each one step, as both run under one lock. `native` says which
events MsQuic may raise next; it is external. Init has two forms: `idle`, a
connection opened locally, and `accepting`, one from a listener, which `from_raw`
starts in state Connected before its handshake is over. **MCConnection** adds the
symmetry of tasks and datagram states.

**ByteStream** is what the receive half promises, whatever its buffers and its
read calls: bytes are read once and in order, the end is told only after the last
byte, memory goes back in order and only when nothing can reach it.

**StreamRecv** models the receive half. A byte is its offset; a RECEIVE event
lends an interval of them, `queue` holds the intervals not yet read, `held` those
the application has, `done` and `cursor` are `read_complete_map` and
`read_complete_cursor`, and `base` is what MsQuic was told. `Register` is
`register_read_complete`, with its three results: a length, length 0 for the end
of the stream, and nothing. In the refinement
mapping of `ImplementsByteStream`, `inUse` is what the queue and the application
hold, and `returned` is `base`.

**StreamSend** models opening a stream and its send half, for a stream opened
locally or started by the peer. The write pool is a sequence of buffers, each with
the writes it holds; a refused send is reclaimed and reset, a completion resets
and pools. `conn` is the connection as the stream's task sees it: up, closed in
MsQuic, and closed with ConnectionState saying so.

**Lending** is what a connection lends to MsQuic as raw pointers. One half is the
WriteBuffers of `poll_send`: a refused send takes its buffer back at once, a
DATAGRAM_SEND_STATE_CHANGED gives it back when it says Sent or Canceled, and only
then: what the event says of the same datagram later touches nothing. The other is the
block of TLS secrets: set by `set_sslkeylog_file` or, with a clone of the
listener's file, by `handle_event_new_connection`, filled by MsQuic during the
handshake, logged by `handle_event_connected`.

**Locks** gives each operation as a program of locks, unlocks and calls that wait
for a worker, over six kinds of locks, two workers and some application threads.
Branches of the code with different locks are different programs. An operation
whose locks are taken one after the other is that sequence, so that an order that
is wrong only between two statements shows.

**RecvBuffer** has the operators of `StreamRecvBuffer`: fragments by their
lengths, with their partial sums, the cursor in two parts, `remaining`, `as_slice_upto_size`,
`get_bytes_upto_size`, `chunk`, `advance` and `chunks_vectored`.

**H3Recv** is the adapter's RecvStream over `ByteStream` and `RecvBuffer`: a read
moves the stream into a future and puts it back, chunks are consumed by any mix of
`advance` and `get_bytes_upto_size`, and h3 may ask for anything at any time.

**H3Send** is SendStream and OpenStreams over `StreamSend`, which it EXTENDS: the
adapter's steps are steps of the stream with the write future added, and MsQuic's
events run between two chunks. What MsQuic was given is kept chunk by chunk. After
a write that failed, `writing` and what remains of it stay (`lib.rs:529`), as in the
code, and a later `poll_ready` goes on from there.

Each module holds, beside a definition, the faulty variants of it that a slip in
the code would produce (they are named as mutants in a comment). A property is
kept only if one of them violates it.

## The runs

| Run | Bounds | Distinct states | Question |
|---|---|---|---|
| `rundown` | 2 guards, 2 futures, 2 tasks | 354,745 | exact count, no lost wakeup, no leaked slot, refinement of IdleBarrier with liveness |
| `handles` | 1 listener, 2 connections, 1 stream, 2 clones | 26,092 | is the count zero only when all is closed, and does it get there |
| `listener` | 3 tasks, 2 connections, 2 starts | 43,154 | stop against start, accept, cancellation and the registration's shutdown |
| `connection` | 2 tasks, 2 datagram states, queues of 1, 2 events | 1,301,440 | safety of a connection, opened locally or accepted |
| `connection_live` | 2 tasks, 1 datagram state, queues of 0, 1 event | 517,325 | every wait ends, on either kind of connection |
| `connection_reopen` | 1 task | violation | a datagram after shutdown, see below |
| `stream_recv` | 2 tasks, 5 bytes, pieces of up to 3 | 85,621 | memory, wakeups, refinement of ByteStream |
| `stream_send` | 3 writes | 14,693 | start, buffers, answers, waits |
| `locks` | 2 application threads, 2 workers | 256,908 | does anyone wait in a circle |
| `lending` | 2 buffers, 2 payloads | 7,508 | who owns what MsQuic points to, are the keys logged |
| `h3_recv` | 5 bytes, 3 fragments a chunk, 3 chunks | 18,772 | cursor over fragments, end of stream, unwraps |
| `h3_send` | 3 writes, 2 chunks a call | 30,089 | order of chunks across refused sends, unwraps |

Why the bounds are enough. In the rundown two guards are the first at which a count
can pass zero and come back, and two futures the first at which keys can be confused.
In the listener the third task is the one that starts again while a second still waits
in `stop` and the first has been woken, or is about to call ListenerStop for a run
that is over. In the receive half five bytes in pieces of up to three make every order
of three buffers, with a partial read, an empty final buffer and a gap; in the send
half three writes are a buffer in flight, one reclaimed and one reused. Two
connections and a stream are one queued, one accepted and a child that outlives its
parent. Queues hold nothing in `connection_live` because its question is the wait that
nothing feeds; a wait that is fed is `NoLostWakeup`'s, in `connection`. Two
application threads and the connection's worker are a circle of three, one thread more
than any lock order of the code needs. In `lending` one buffer is with MsQuic while
the other is sent, refused and reused. Three fragments are a first, a middle and a
last one, and five bytes give them different lengths. Two chunks of one call and a
third of the next show a refusal at the start, between two chunks and at the end.
Every action of every module is taken in these runs. `CHECK_DEADLOCK FALSE` stands
where an object's life ends for good: a stream that is closed, a registration that is
dropped, a connection that is closed. `locks` and the runs of the connection and the
listener do check for deadlock.

`MaxQueue`, `MaxEvents`, `MaxRefs`, `MaxConns`, `MaxStarts`, `MaxWrites`,
`MaxTotal`, `MaxLen`, `MaxBytes`, `MaxFragments`, `MaxChunks` and `MaxData` bound what the code leaves unbounded; each is in the guard
of the action that would go past it.

### Properties worth reading first

- `Rundown!ImplementsBarrier`: the counter, the map and the re-check together are
  `IdleBarrier`, so `wait_idle` never resolves early and never misses the moment.
- `Handles!IdleMeansClosed` and `RegistrationOutlives`: sections 5, 6 and 9.2 of
  `src/docs/registration-wait-idle-design.md`.
- `StreamRecv!NoUseAfterFree` and `AllReclaimed`: the two sides of the accounting;
  completing too early is a use after free, too late a stalled peer.
- `StreamSend!BuffersOwnedOnce` and `SendsWhatWasWritten`: the `Box` that goes
  through MsQuic as a raw pointer comes back once, and empty.
- `StreamRecv!ImplementsByteStream`: all of the receive half in one statement; a
  torn-down stream is never taken for one that ended well. `NoFalseFinish` says so
  of the send half.
- `Connection!ErrorWhenLost` and `StreamSend!ErrorWhenStartLost`: the `expect`s
  cannot panic.
- `NoLostWakeup`, in every module that has waiters: a task that sleeps is on the
  list that will be drained, and what it waits for has not happened.
- `Locks!NoCircularWait`: `OpenOutboundStream` holds two locks, the certificate
  handler uses its connection from the worker, a read drops buffers of the same
  stream; all of it together, on any threads.
- `Lending!SecretsOutliveMsQuic` and `KeysAreLogged`: the block that MsQuic fills
  through a raw pointer, from the set to the log.
- `H3Send!SendsInOrder`: a chunk whose send is refused is written again, in its
  place, whatever MsQuic reports in between.
- `Listener!StopIsDue`: whatever tasks do between the unlock and the native stop, the
  call finds the run it is meant for, unless the registration is shut down.

### What the runs show of the code as it is

`connection_reopen` is a violation. `handle_event_connected` sets the state to
Connected whatever it was (`connection.rs:1196`). An accepted connection can be
used, and shut down, before its handshake completes; ConnectionShutdown is only
queued, so CONNECTED may follow it. The state goes back from Shutdown to
Connected, and `poll_receive_datagram` hands out a datagram, which `tests.rs:2394`
calls unexpected. The other safety and liveness properties of an accepted
connection hold nonetheless.

Eight behaviours are excepted by name in a property, because the code has them and
nothing in the repository promises otherwise:

- `inbound_uni_stream_waiters` is drained by new streams only, so a task in
  `accept_inbound_uni_stream` sleeps through the loss of its connection
  (`connection.rs:1212-1229`, `1273-1294`).
- A finish polled between SEND_SHUTDOWN_COMPLETE and SHUTDOWN_COMPLETE of a lost
  connection is Ok: the event's `graceful` is ignored (`stream.rs:1430`).
- An open that the peer's limit blocks resolves Ok when the connection is lost,
  with a stream that is dead (`stream.rs:149-152`).
- A `stop` that was woken and finds the listener started again stops the new run
  (`listener.rs:152-164`). `StopResolves` only says that it ends.
- When Registration::shutdown stops the listener between the unlock in `poll_stop` and
  its ListenerStop (`listener.rs:162-164`), and MsQuic lets it start again, the call
  stops the new run. `StopIsDue` excepts a registration that was shut down.
- `set_sslkeylog_file` holds the connection's lock while `set_param` waits for the
  worker, which may be waiting for that lock in an event (`connection.rs:942`). It
  is the one circle `NoCircularWait` allows; without the exception TLC shows it.
- When that `set_param` fails the block stays in `tls_secrets`, and a second call
  returns Ok without telling MsQuic of it (`connection.rs:926`). `stranded` in
  `KeysAreLogged` is this case.
- `stop_sending` and `recv_id` unwrap a stream that a pending `poll_data` has moved
  into its future, and panic (`src/h3-msquic-async/src/lib.rs:442`).
  `PanicsOnlyOnPendingRead` says that they do so at no other time.

## Assumptions about MsQuic

Events of one handle do not overlap. ListenerClose, ConnectionClose and StreamClose
wait for a running callback and end the callbacks. STOP_COMPLETE follows the
listener's last NEW_CONNECTION; a ListenerStop of a listener that does not run does
nothing. A start fails with ABORTED or INVALID_STATE only on a connection that is
gone. PEER_ACCEPTED comes once, before the stream's other events. Sends complete
before SEND_SHUTDOWN_COMPLETE, which comes before SHUTDOWN_COMPLETE. A received byte
stays readable until a completion covers it. get_param, set_param and the closes wait
until the connection's worker is between two events, or run at once when the worker
makes them; start, send, shutdown and receive_complete wait for nothing. Secrets are
derived before CONNECTED. A datagram that MsQuic took is reported Sent or Canceled
exactly once, and after Sent it may be Lost and Acknowledged. The definitions that say
so are listed as external.

## Fairness

The executor polls a task whose waker was called: weak fairness of the polls of a
woken task, never of a first poll. A poll or a drop that has begun ends: weak
fairness of `Drain`, `Wake`, `PollStep`, `NativeStop`, `CloseNative`, `DropGuard`.
MsQuic completes what it began, a shutdown, a stop or the events of a closed
connection: weak fairness of those handlers only. `Handles` also assumes that
after `shutdown` the application drops what it holds, which the documented
teardown asks of it. Nothing assumes that the peer answers, or that a connection
ends by itself; that is why the liveness properties start from a loss or a call.
`Lending`, `Locks`, `H3Recv` and `H3Send` assume no fairness and state no liveness.

## The proofs

TLAPS checks these for every value of the constants, under the named assumptions
of each module (bounds are naturals, the three kinds of handles are disjoint,
guards are finitely many). Each proof module states its inductive invariant, one
lemma for Init, one for the steps with a case for every action, and then the
theorems that follow.

**RundownProofs.** `CountCorrect` needs only that a guard changes side with the
count; it rests on cardinalities of finite sets. `SlotsCorrect` adds that keys in
use were allocated. `WakeupsCorrect` is the interesting one. `NoLostWakeup` is not
inductive: it speaks of parked futures, and the danger lies in the step before.
`RegisteredReachable` covers the future between its registration and its re-check
as well: its waker is in the map or its wakeup is on its way, and once the second
load has seen a guard, someone will drain the map. `SafeBarrier` maps each step
onto a step of IdleBarrier or a stutter.

**StreamRecvProofs.** `AcctInv` says that the bytes indicated are split between
`done` and the buffers that are outstanding, without overlap, that the cursor is
the end of the completed prefix, and that MsQuic was told exactly that until
StreamClose began. `SafeReclaim` and `FullReclaim` follow from it by looking at
the byte at the cursor. `RegisterFacts` is the lemma about
`register_read_complete` that every caller uses. `ReadInv` adds that the
application was given a front of the stream, which yields `TrueEof`.
`RefinesByteStream` maps every step onto one of ByteStream or a stutter, under
`AcctInv` and `ReadInv`: a byte leaves `inUse` only where one of them says that the
reader is past it. `ReadersWoken` shows that each list operation keeps a sleeper registered.

**HandlesProofs.** `GuardSpansHandle`: a guard is held in exactly the stages from
reserved to closed. `CallbackCovered`: a handle that a callback was just offered
has a parent that is not past its close. Together they say that an empty set of
guards leaves every handle unused or gone (`IdleFacts`), from which
`CountCoversHandles` and, with `IdleStays`, `SafeTeardown` follow.

**ConnectionProofs.** `NativeMatches` ties the state to what MsQuic may still
report; without it an event could come in a state it has no business in.
`NoLostWakeup` speaks of what a sleeper waits for, and is not inductive: `WaitsWell`
says that a parked task is on its list (`OnItsList`, of the handshake while that is
under way) and that it must wait (`MustWait`). `QueuedStateIsCurrent` needs
`OneState`, that at most one queued event is a datagram state, since replacing the
first would leave a second stale. `LossFinal` is an action property: no step leaves
the lost states.

**SendProofs.** The send half first. `BufferInv` adds to ownership and content that a
buffer not in flight is empty (`BuffersReset`); `FrontFacts` and `AppendFacts` are the
two facts about the pool as a sequence that every use of it cites. `ControlInv` says
what the three state fields mean in MsQuic: `StartMatches` of the start, `EndMatches`
of what ended and why, `OpenMatches` of a stream that was handed out. `FinishIsTrue`
comes from `EndMatches`, `OpenedStreams` from `OpenMatches`.

Then the composition with h3: `StreamStep` and its companions re-establish that
invariant under the adapter's steps, with `StartsUnaccepted` added (a stream that is
starting was not accepted). From it the write future never keeps the stream of an
opened one, so `StreamIsThere`; `InOrder` describes `wire` and `rest` chunk by chunk,
from which `SendsInOrder` follows. `H3UsesStream` shows that H3Send implements the safety
part of StreamSend, each step of it a step of the stream or a stutter, and `SafeUnderH3`
that the stream's guarantees hold under h3 as well.

**ListenerProofs.** `NativeMatches` ties the state to MsQuic's listener: a run that
looks started is running until the registration is shut down. `StopIsDue` itself is
inductive with that and `CallsPast`, that calls are for runs that were: a start, which
needs a listener that is down, finds pending calls only after a shutdown, and numbers
the new run past them. `QueueOffered` keeps the queue below what MsQuic offered.

**BoundaryProofs.** The two halves of Lending have invariants of their own. The
datagrams need only types and ownership. The secrets need that MsQuic's pointer comes
with a block and a file until the handshake is over (`PointedHasFile`), that a stored
block was given to MsQuic unless a set_param failed (`BlockIsPointed`), and that what
was promised is under way (`PromiseKept`).

Of Locks it is shown first that each program is `Orderly`: it takes its locks in the
order of `Rank` (handler, then connection or listener, then the rest), waits for
another worker only while it holds none, and releases what it takes; `set_sslkeylog_file`
alone may wait for a worker under its lock (`ProgramsOrderly`). `LocksInv` says that
what is left of every operation is orderly from what its thread holds on, and that
`owner` is that. Then whoever a thread waits for is in an operation and, holding a lock, can
itself only wait for a lock of higher rank (`WaitsUpwards`); there are three ranks, so
a circle without the exception ends. `NoCircle` is `NoCircularWait` for any number of
threads. `SomeoneRuns` follows: while operations are under way one of them can go on.

**H3RecvProofs.** What a chunk shows is a sum over its fragments, and `advance` a loop
over them, both recursive functions. `SetInduction` derives induction on the numbers,
for sets, from their well-foundedness, `Recursion` that a function defined by its next
value exists, and `SumsFacts` and `AdvanceMoves` what these two compute. A chunk is `Live`
while its cursor is at a byte of it, and `Moved` says what a move by n bytes leaves:
`WithinFragment` and `NextFragment` are the two ways the cursor moves, `GetBytesMoves`
and `AdvanceMoves` put them together, the second for walks over any number of
fragments. `InOrder`, the invariant, says that the chunks h3 holds are live and lie one
after the other from `pos` to `given`; `ViewsNext` follows with `VectoredIsRest`.
`Told` keeps `handed` at `given`, so an end that was taken means all, and `Held` keeps
the stream in one place.

Only model-checked are the liveness properties, which need fairness and so are out of
the prover's reach: `ImplementsBarrier`'s liveness, `DrainsEventually`,
`ShutdownResolves`, both `LossResolves`, `StopResolves`. Every other property of a
passing run is a theorem. `TypeOK` of Rundown, StreamRecv, StreamSend and Handles, the
absence of a false end of stream (`TrueEof`), `SomeoneRuns` and the theorems on the buffers' calls
are theorems without a run of their own.

## Not modelled, and why

- Parameters and address getters keep no state: that they wait for the worker
  without a lock is in `Locks`, their conversions (`connection.rs:371-891`) and the
  loop of `get_path_statistics` are not modelled.
- `h3-msquic-async/src/datagram.rs` and the async I/O traits (`stream.rs:1745-1872`)
  forward to polls that are modelled. The adapter's conversions of errors and ids
  are left out; one of them unwraps a status without a name (`lib.rs:68`), which
  depends on the binding.
- Wording, logging, the `Debug` impls and the examples are left out, and byte
  contents except for which write or which position a byte belongs to.
- Poisoned locks: no handler of the model panics, so `lock_poison_tolerant` is a
  plain lock. A waker that panics, or takes a lock of the crate while it is called
  under one (`connection.rs:1223`), is the executor's doing and left out.
- A certificate handler that holds a clone of its own connection keeps it alive for
  ever (`connection.rs:602`). That is a cycle in the application's data, which
  `Handles` does not see.
- Orders of memory weaker than sequential consistency; see Rundown.

## Plan

1. The adapter's `poll_open_bidi` and `poll_accept_bidi` over `Connection`: the
   streams of futures they keep are, at present, an open of `StreamSend` and an
   accept of `Connection` that begins again at once.
2. A stream under its connection in one module. Safety gains nothing from it: the
   loss of the connection is an input of the stream modules that may come at any
   moment, more often than the connection would send it. A liveness property that
   spans both would be new.
