# A TLA+ model of raknet-python

`raknet-python` wraps the C++ RakNet networking engine for Python: a nanobind
binding (`src/raknet_python.cpp`) and, over it, two layers with the same
interface, a threaded one (`src/raknet/_peer.py`) and an asyncio one
(`src/raknet/asyncio.py`). RakNet itself is a git submodule and not part of the
repository. Everything hard in this code is between threads: one *pump* thread
per peer polls RakNet and routes each packet into the connections, while the
user's threads connect, accept, receive and close.

This directory models that, checks it with TLC on small instances and proves
its central invariants with TLAPS. File and line references are to
`src/raknet/` unless another path is given.

## 1. Inventory

| Component | Where | State it keeps | Operations |
|---|---|---|---|
| Router | `_router.py` | none | `route(packet)`: picks a sink callback from the first byte of the payload |
| Mailbox | `_peer.py:44-76` | `_items`, `_exc`, a `Condition` | `put`, `close`, `get`, `poll` |
| Connection | `_peer.py:97-179` | `_closed`, its mailbox, `_owns_peer` | `send`, `recv`, `poll`, `close`, iteration |
| Peer, tables | `_peer.py:199-216` | `_connections`, `_pending_connects`, `_pending_pings`, `_closed`, under `_lock` | registering, popping, `_begin_close` |
| Peer, pump | `_peer.py:349-366`, `480-535` | the packet in its hands | the loop, the callbacks, `_overflow`, `_fail` |
| Peer, teardown | `_peer.py:322-328`, `436-460` | the snapshot `_begin_close` returned | join, shutdown, `_finish_close` |
| Peer, calls | `_peer.py:256-302`, `368-410` | `_PendingConnect`, `_accept_queue` | `connect`, `accept`, `serve_forever` |
| Ping | `_peer.py:304-311`, `412-434`, `530-535`, `asyncio.py:252-260` | `_PendingPing` | `ping`, the `pong` callback |
| asyncio mailbox, event, accept queue | `asyncio.py:18-107` | a queue per loop, `_size`, `_drained` | the same, across the thread boundary |
| asyncio peer | `asyncio.py:110-277` | that of Peer | the same, under cancellation |
| Factories | `_peer.py:538-582`, `asyncio.py:280-323` | `_owns_peer` | `create_server`, `create_connection`, `ping` |
| Bindings | `src/raknet_python.cpp` | a `RakPeerInterface`, the GIL, what a call holds | forward; give up the GIL; copy packets and responses |
| RakNet | external | remote systems, sessions, packet queue | connect, cancel, close, shutdown, receive |

**How they interact.** RakNet queues packets; the pump takes one at a time
(`receive`), the router calls one callback of the peer, and the callback takes
`_lock` for the table, releases it, and only then touches the connection, the
pending connect or the accept queue. `connect()` registers a pending connect,
dials, and blocks on its event. `accept()` blocks on the accept queue. `recv()`
blocks on the mailbox's condition. `Connection.close()` and the teardown write
the same objects from other threads. No lock is held across two of these steps,
which is where the interesting behaviours come from. Below them, the methods of the
binding that may take long give up the GIL: RakNet then reads Python's buffers, and the
pump uses RakNet's packets, while other threads call the same `RakPeer` and the last of
its owners lets go of it.

**What is hard in it.** The callback that reads the table and then acts on what
it read; a timeout of `connect()` that races with the pump's answer; a teardown
whose snapshot races with a callback that inserts; a close by guid while the
same remote reconnects; one sentinel that must wake every `accept()`; a queue
at its limit; a pump that dies of an exception; in the asyncio layer, the same
across the boundary between the pump's thread and the event loop, where every
wait can be cancelled and the worker thread behind it goes on; pointers that cross
the GIL. `PROJECT.json` lists each of
these hazards with its line and the property that is about it.

**What makes each part correct.**

* Mailbox: a pipe. Every message once and in order, the end after the last of
  them, with the first reason; nobody sleeps while there is something for him, but
  for a sleeper whose notification went with an item that `poll()` took.
* Pending connect: resolved once, one way and for good; a blocked `connect()` is
  always known to the thread that will set its event, and returns.
* Connection: in the table while it is live; marked closed before its reader can
  be told; always with somebody who will close it.
* Ping: answered once, told of a closed peer only when it is closed, ended by
  `close()` at the latest unless another ping of its address took its entry, and gone
  from the table when it is over.
* Peer as a whole: whatever a factory raises or whoever cancels it, somebody will
  close the peer it made.
* Bindings: no buffer or packet is used after it was freed, and each packet is given
  back.
* Teardown: terminates, whoever starts it; wakes every `accept()`; misses as
  little as possible.

## 2. Modules

```
PythonNone   None
Router       Router.route and the message ids          EXTENDS PythonNone
RakNet       external: the peer behind RakPeer         EXTENDS Router
MailboxData  the data of a _Mailbox                    EXTENDS PythonNone
PeerCore     tables, pump, callbacks, teardown         EXTENDS RakNet, MailboxData
Peer         connect, accept, owners; properties       EXTENDS PeerCore
AsyncPeer    the same as tasks, under cancellation     EXTENDS Peer
Pipe         abstract: what a mailbox promises
Mailbox      a _Mailbox with its condition variable    EXTENDS MailboxData; refines Pipe
AsyncMailbox an _AsyncMailbox and its event loop       EXTENDS MailboxData; refines Pipe
Ping         ping() of both layers                     EXTENDS PythonNone
RakPeer      the bindings: GIL, buffers, packets       EXTENDS PythonNone
PeerLife     factories, pump and close() over RakPeer  EXTENDS RakPeer
MCPeer, MCPeerCore, MCAsyncPeer        instances
PeerInvariants                         inductive invariants of Peer
MailboxProofs, AsyncMailboxProofs, PingProofs, PeerLifeProofs,
PeerProofs, PeerObjectProofs, PeerConnectionProofs,
AsyncPeerProofs                        proofs
```

An operator named `X_Something` is a deliberately wrong variant of the operator
`X` (a notification less, a reset left out, a step skipped). No specification
uses these; replacing `X` by its variant makes a property fail, which shows the
property to depend on that line of the code.

### Router, RakNet

`Route` maps a message id to the callback, with the test order of
`_router.py:43-61`; `None` is an empty payload. Only the first byte of a packet
and its remote are kept.

`RakNet` is external. Its state is what the Python layer can tell apart: for
each remote system "none", "connecting", "open" or "closing", and a queue of
packets. Calls from the layer are `RawConnect`, `RawCancelConnectionAttempt`,
`RawCloseConnection`, `RawShutdown` and `RawReceive`; its own steps are a
remote that connects, accepts, rejects, sends or leaves. A remote stands for an
address and a guid together. A *session* is one establishment of a connection:
RakNet reports none, no guard reads it, and it serves only to tell two
connections of one guid apart in the properties.

### MailboxData, Mailbox, Pipe

`MailboxData` has the two fields and the critical sections as operators.
`Mailbox` adds the condition variable of CPython's `threading`: a FIFO of
sleepers, `notify` that takes its head even if that sleeper's wait has just
timed out, and the second look at the predicate after a timeout. Threads call
`get` and `poll` over and over; the pump puts; anyone closes at any time.
`Pipe` is the promise: counters of messages sent and delivered, and how it
ended. `Mailbox` implements it with `delivered <- taken, ended <- box.exc`.

### PeerCore

One variable per attribute of `Peer` and per field of the objects it shares:
`connections` and `pendingConnects` by remote, `pending` by `connect()` call
(`event`, `connection`, `reason`), `connState` (a `Connection`: not built, open,
`_closed`) and `mailbox` by session, `acceptQueue` with `None` as the sentinel.
`pumpPc` is the step of the pump; `packet`, `popped` and `found` are the
callback's local variables. `closePhase`, `closeConns`, `closePends` and
`marked` are the local variables of the one teardown, which runs in the thread
that called `close()` or in a crashed pump.

A critical section under `_lock` is one action. So is a write that other
threads can see. `_overflow`, for instance, is four actions (pop from the table,
set `_closed`, hang up, close the mailbox), with every other thread free to run
between them.

Three deliberate simplifications. `reason` and `event` of a failed connect are
written in one step (nobody reads `reason` before the event is set). A crash of the
pump (`PumpCrashes`) loses the packet before its callback had an effect: between two
effects of a callback nothing is called that raises, except for want of memory, and
what such a crash leaves behind (a popped waiter that nobody resolves) is not
modelled, here and in `Ping`. And `HangUp` is one action, the check of the peer's
`_closed` with the `close_connection` behind it (`_peer.py:474-475`, `515-516`): a
shutdown in between leaves RakNet nothing to close.

### Peer

The user's threads by `pc`: each `connect()` call runs `_start_connect`, waits
with or without a timeout, `_abandon_connect`s and either cancels or waits again
and closes what it was given. The owner of a connection reads until it is told
the end, or closes when it likes. Acceptors loop on `accept()` like
`serve_forever`. `CallFinishes` and `AcceptGets` hand a connection to its owner.

### AsyncPeer

The asyncio `Peer` inherits the tables, callbacks and helpers of the threaded one, and
the module does the same: its steps are those of `Peer` and `PeerCore` where the method
is inherited. What is new is `task` (has the task its worker's result, was it cancelled,
did it give up on a result the pump was about to publish) and `closeLost`. A task runs
from one await to the next without another task in between (`LoopIsFree`), while the
pump, its teardown after a crash and the worker threads run at any time. A task can be cancelled at every await:
while `_start_connect` is in its worker (`StartIsCancelled`), while it waits for its
event (`WaitIsCancelled`), in `accept()` and in `close()`, whose `_finish_close` is then
lost. The tasks of the owners may be cancelled as well, which is `OwnerCloses`.

`TaskHoldsConnection` names two places where the code lets go of an attempt it cannot
take back: a cancellation while the worker runs (`asyncio.py:243`), and one between the
pump's pop and its assignment of `pending.connection` (`246`). A connection made there
has no owner; the property says that it stays in the table until it is closed, so that
the pump can end it and `close()` finds it. `OrphanIsReaped` says what a comment asks
for at the second place, and fails (finding 5). `TaskIsReachable` and
`CloseEndsEveryTask` say that nothing else is lost, but by a `close()` that was itself
cancelled (`266`).

### AsyncMailbox

The pump's side of `put()` and `close()` only appends to `scheduled`, the
callbacks given to `call_soon_threadsafe`; the loop's side runs them in order
(`LoopRuns`) and resumes tasks. `asyncio.Queue` is external: a FIFO of getters,
`put_nowait` that wakes its head, a woken getter that looks again, and a
cancelled one that passes its wakeup on. A task's code between two awaits is one
action. `put()` counts and schedules in two actions (`PutCounts`,
`PutSchedules`): CPython 3.12 and later, which the package requires, switches
threads at calls, and there is one between them. The code's comment allows for a
race on `_size`; under the GIL its check and its increments are not torn.

The refinement of `Pipe` orders messages and the end by the *calls* of `put()`
and `close()`, not by what the loop has run so far. The loop is open for as long
as there are tasks on it; the branches for a closed loop (`RuntimeError`) leave
nobody to observe them.

### Ping

The table `pings` has one entry per address, `pong` and `event` are the fields of
a `_PendingPing`. `layer` chooses at the start between a `threading.Event`, set at
once, and a `_ThreadsafeEvent`, which the pump schedules and the loop sets
(`LoopSets`); `at` chooses the address of each call, so that calls may or may
not share one. A pong may arrive for any address, any number of times or never, also
before the request went out. In the asyncio layer `_start_ping` runs in a thread and goes on
when its task is cancelled (`abandoned`). The pump and the teardown are those of
`PeerCore`, reduced to what touches pings.

### RakPeer, PeerLife

`RakPeer` is the class of that name in `raknet_python.cpp`. A method without
`gil_scoped_release` is a step of the thread that holds the GIL; one with it is three:
`Releases`, what RakNet does (`...Runs`), and `Returns`, once it has the GIL again. `lent`
is what RakNet got pointers to, `held` what the arguments of the call keep alive, `items`
the list that `send_list` was given, which other threads may change. `receive()` is five
steps: it calls, RakNet hands it a packet, it takes the GIL, it copies the payload (or
runs out of memory, and the packet is not given back), it deallocates. RakNet's memory is
external: a slot is reused as soon as it is free, and `Shutdown` frees the packets RakNet
holds and those it never got back. The `RakPeerInterface` goes with the last reference;
that a call holds one to its `self` is the work of CPython and nanobind, and taken as
given (`Unreferenced`).

`PeerLife` drives it: `Peer.__init__` (which may raise after `startup`, after
configuring and when the pump's thread does not start), the three factories, the pump with `_fail`, `close()`, and users. It has
both layers: in the asyncio one a task may be cancelled while a worker builds the peer
(`BuildIsCancelled`) or joins the pump (`JoinIsCancelled`). Assumed of the users: only the
pump calls `receive`, nobody calls `startup` or `shutdown` on the raw peer, and they get
the peer from its caller.

## 3. What is checked

| Run | Instance | Shows |
|---|---|---|
| `mailbox` | 2 threads in `get`, 1 in `poll`, queue of 2, 3 messages | `NoLostWakeup` (after a `poll()` took an item it claims nothing), `ClosedWakesEveryone`, `CloseReleases` (liveness), refinement of `Pipe` |
| `peer_core`, scene "one" | 1 remote, 2 sessions, 1 `connect()` or 1 acceptor, queue of 1 | pending connects resolve once and for good; live connections are registered; a reader told of the end finds its connection closed; nothing is left without a holder; unclaimed sessions only after a timeout |
| `peer_core`, scene "two" | 2 remotes, 2 sessions, 2 `connect()` calls, no rejections and no user packets | the same, and above all: a blocked call is always reachable; the teardown misses at most one connection |
| `peer_liveness` | 1 `connect()` or 2 acceptors, 1 session | `close()` terminates; every `accept()` wakes; `connect()` returns or raises |
| `async_mailbox` | 3 tasks in `get`, queue of 2, 3 messages, 2 closes in flight | `SizeIsBacklog`, `EndReachesEveryone` (liveness), refinement of `Pipe` |
| `async_peer` | 1 remote, 1 session, 1 `connect()` and 1 acceptor as tasks | an open connection has a task or, when its `connect()` was cancelled, a place in the table; a waiting task is reachable; results are final; `CloseEndsEveryTask` (liveness) |
| `ping` | 2 calls, 2 addresses, both layers | a waiting ping is reachable, answered once, told the truth; no stale entries; `CloseEndsPings` (liveness) |
| `peer_life` | the caller, the pump, 1 user, 1 buffer, 2 packet slots | no buffer or packet is used after it was freed; packets go back; a running pump has an owner; `GilIsPassedOn` (liveness) |
| `duplicate_connect`, `cancel_too_late`, `close_misses_insert`, `stale_close`, `reap_too_early` | the smallest instance each | the five findings below |

**Bounds.** *Sessions* bounds how often a connection can be made over a whole
run: two are needed for a remote that comes back while its old connection is
still being closed, and for two calls that succeed. `MaxPackets` stops remotes
from sending user packets while that many are queued; it does not bound RakNet's
own notices. With `MaxQueue = 1`, two packets overflow a mailbox. `MaxMessages =
3` over a queue of two lets the mailbox fill, empty and be refused. Two acceptors
are the least for which a swallowed sentinel matters; two `get` threads and a
`poll` the least for which a notification can reach the wrong sleeper.
`Rejections` holds an id the router knows (17 or 18) and, in `peer_core`, one it
ignores (10). Three tasks are needed for the end to be passed on through a
getter that was cancelled to one that still sleeps; `MaxCloses = 2` lets a second
reason overtake the loop. Two pings are enough for an entry to be overwritten and
popped by the wrong call; a third behaves like the second. Sessions are symmetric in the runs without liveness.
`peer_core` and `peer_liveness` start with either the calls or the acceptors absent
(`MCPeerCore!SceneInit`, `MCPeer!RoleInit`): the product of the two is out of reach, and
they meet only in the tables of the core, not in each other. `peer_core` has two scenes
for the same reason: all that one remote does, or two remotes that are dialled and do
little else (`InScene`); a blocked call and a missed connection need no user packets. `async_peer` has both, with one session. In `peer_life` two slots let a packet
arrive while another is being copied, two contents tell a reused slot from the old one,
and one user besides the caller is the least for a call to be in progress while the
last owner goes.
`CHECK_DEADLOCK FALSE` is given for `Peer` and `AsyncPeer`: once the peer is closed and
every thread has ended there is nothing left to do. The same goes for `Ping`. The two
mailbox runs and `peer_life` check deadlock.

**Fairness** (`Peer!Fairness`). Weak fairness for the pump, the teardown, each
`connect()` call, each acceptor and each owner: they are threads the scheduler
runs. Timeouts, `close()`, a pump crash and an owner's decision to close are left
to chance, so no liveness result depends on them. RakNet answers every attempt
(weak fairness of accept-or-reject per remote): it sends a bounded number of
requests and then reports `ID_CONNECTION_ATTEMPT_FAILED`. In `Mailbox`, a thread
that is awake gets the lock in the end; in `AsyncMailbox`, the loop runs its
callbacks and the tasks that are ready. `Ping` assumes that threads and the loop run,
and neither a pong nor a timeout. `AsyncPeer` assumes weak fairness of the pump, of each
task, of the workers and of the teardown, and nothing of RakNet or of a cancellation.
`PeerLife` is about the GIL: a thread that keeps using it is made to drop it after the
switch interval (strong fairness of `Preempts`, since it may come and go at `Running`),
one that waits gets it in the end (strong fairness of `Returns`, disabled whenever
another thread is in between), and a method with the GIL goes on (`HeldStep`). RakNet is
not assumed ever to finish what a method asked of it.

**Findings.** Each is a run in which the property, taken from a comment or from
the documentation, fails.

1. `duplicate_connect`. Two `connect()` calls to one address share a key. The
   second overwrites the first's entry (`_peer.py:382`), and its failed dial pops
   it (`392`). The first times out, finds no entry, concludes that the pump "is
   committed to set the event" and waits for ever without a timeout (`297`).
2. `cancel_too_late`. The timeout pops the entry after RakNet has established the
   session and before the pump saw it. The cancel has nothing to cancel,
   `connect_succeeded` finds no entry, and the session stays open with no
   `Connection` for it.
3. `close_misses_insert`. `_begin_close` takes its snapshot while the pump is in a
   callback that then inserts a connection (`483`, `492`). Nobody marks it closed
   or closes its mailbox; its reader blocks for ever.
4. `stale_close`. `Connection.close` pops by guid after an unlocked check. If the
   remote left and came back in between, it removes the *new* connection and hangs
   up its session; the disconnect that follows finds no entry, and the new
   connection's reader is never told.

5. `reap_too_early`. `_cancel_pending` returns False when the pump has the entry, and its
   comment says that the caller "must reap any orphaned connection" (`_peer.py:397-398`).
   The threaded `connect()` waits for the event first; the asyncio one, cancelled, looks
   once at `pending.connection` (`asyncio.py:246`), which the pump may not have assigned
   yet (`_peer.py:492-494`). The connection stays open, and nobody has it.

`ConnectReturns` is checked with one call and `WaiterIsReachable` with calls to
different remotes because of finding 1; `LiveIsRegistered`, `AtMostOneOrphan`,
`ZombieOnlyAfterTimeout` and `TaskHoldsConnection` state exactly what remains true
beside findings 2 to 5.

Other properties name exceptions about which no document says anything, and what happens
in them is not checked: a `poll()` that takes an item after its notification went to a
sleeper (`polled` in `NoLostWakeup`); pings that share an address (`Rivals` in
`PingIsReachable`, `CloseEndsPings`) and a `_start_ping` whose task was cancelled
(`abandoned` in `NoStaleEntries`); a `connect()` cancelled while its worker runs
(`asyncio.py:243`), a factory cancelled while its worker builds the peer (`197`,
`abandoned` in `RunningPumpHasAnOwner`) and a cancelled `close()` (`closeLost`); a payload
for which there is no memory (`leaked` in `EveryPacketGoesBack`). `PROJECT.json` lists the
hazards behind them, with a note.

## 4. What is proved

For every number of remotes, sessions, calls, acceptors and threads and for every
bound; the assumptions are the named `ASSUME`s: `None` is nothing else, rejections
are no opening ids, and threads, calls and sessions are different things. Three theorems
about `connect()` and three about its asyncio form add that no two calls dial one address,
without which finding 1 refutes what they rest on.

* `MailboxTypeCorrect`, `ClosedMailboxWakes`, `NobodyOversleeps`,
  `MailboxImplementsPipe` (`MailboxProofs`). The invariant says that the items are the
  messages `taken + 1 .. sent`, that the sleepers are exactly queued, and that nobody
  was told a reason before `taken` reached the mark. The refinement is one step or
  stutter of `Pipe` per action. For `NoLostWakeup` the queue has every sleeper once,
  among them some whose timeouts have run out (`LineInv`), and while it is not empty
  there is one thread on its way for each message (`OnePerMessage`): messages may be
  left alone, but only while nobody sleeps.
* `AsyncMailboxTypeCorrect`, `SizeCountsBacklog` and `AsyncMailboxImplementsPipe`
  (`AsyncMailboxProofs`). The invariant follows the stream of messages through the
  loop: the queue holds those after the last one taken, with the end once among them,
  wherever the getters have put it back (`QueueInv`); what is scheduled goes on where
  the queue stops (`ScheduleInv`); and until the loop runs the first close, whatever is
  scheduled behind it was put after the mark (`EndInv`). `SizeIsBacklog` then compares
  cardinalities: the items with an interval without one point, the scheduled messages,
  by a bijection, with another.
* `PeerTypeCorrect` (`PeerProofs`). Type correctness needs much more than types:
  `BaseInv` adds what the pump has in its hands at each of its steps (`PumpInv`),
  that the teardown touches its snapshot only after the pump has stopped
  (`CloseInv`), and that every session in a packet, table, queue or thread has begun
  and belongs to the remote it is filed under (`RakInv`, `TableInv`, `ObjectInv`,
  `QueueInv`, `HandsInv`, `ThreadInv`). One lemma per part says what a step must
  leave alone to keep it; one per group of actions does the rest.
* `ResolvedOnce` and `ResolvedForGood` (`PeerObjectProofs`), that is
  `ResolvedExactlyOnce` and `ResolutionIsFinal`. The strengthening is
  `ResolutionInv`: a pending connect is in at most one of the table, the pump's hands
  and the teardown's snapshot, unresolved as long as it is there. The steps that hand
  one on (`PumpPopsPending`, `BeginClose`, `CallRegisters`) or write one are treated
  each; all others shrink these sets and follow from one lemma. Note that this holds
  also with many calls to one address: finding 1 loses an answer, it never gives two.
* `WaitersAreReachable` (`PeerObjectProofs`), that is `WaiterIsReachable`, under the
  hypothesis that no two calls dial one address, which finding 1 shows to be needed.
  `WaiterInv` follows an unresolved call from the table to the pump's hands or the
  teardown's snapshot; `SnapshotInv` adds that an open peer has no snapshot, so that
  `_begin_close` overwrites none.
* `ClosedMailboxIsDisconnected` (`PeerObjectProofs`), that is
  `ClosedMailboxMeansDisconnected`. That `_closed` is set before the mailbox is closed
  (`MarkedInv`) is not enough: nobody may build a `Connection` anew over a closed
  mailbox. RakNet announces a session once (`OpeningInv`), so the one that is built
  had none before, and whatever the tables, queues and threads refer to has been built
  (`BuiltInv`).
* `ConnectionsHaveHolders` (`PeerConnectionProofs`), that is `EveryConnectionHasAHolder`,
  again with one call per address. The case to exclude is a call that raised or timed out
  and still gets a connection. `GiveUpInv` does it, for each call by itself
  (`CallOK`): before it dials no packet can accept
  it (`NotDialled`), and once it has given up it is neither in the table nor in the
  pump's hands, and what it was given is closed (`GivenUp`). `WorldQuiet` collects what
  the other threads must leave alone for that, and each group of actions is shown to.
* `ConnectedIsRegistered` (`PeerConnectionProofs`), that is `LiveIsRegistered`, for any
  number of calls and whatever they dial. Its heart is the order of a remote's packets
  (`OrderInv`): RakNet ends a session before it opens the next, so when the pump gets to
  an opening it has handled the end of the one before, and its insert replaces no
  `Connection`. That leaves the owners: each is set going on one `Connection` once, and a
  `connect()` that closes one was alone in holding it (`OwnInv`).
* `OneOrphanAtMost` (`PeerConnectionProofs`), that is `AtMostOneOrphan`. When
  `_begin_close` copies the table, what is connected is in it or, at most once, in the
  hands of the pump, which then inserts it too late; after that the pump stops, and
  nothing connected is outside the snapshot but this one (`SnapshotCovers`).
* `ZombiesAfterTimeout` (`PeerConnectionProofs`), that is `ZombieOnlyAfterTimeout`, with
  one call per address. An attempt is answered once, and from RakNet to the packet queue
  to the pump its answer is in one place; until the pump has taken it to the table, the
  call that dialled is registered there or has timed out (`AttemptInv`). So when
  `connect_succeeded` finds no entry, finding 2 is what happened. An announcement leaves
  the pump otherwise only when its `Connection` is built (`HandedInv`).
* The asyncio peer (`AsyncPeerProofs`), for any number of tasks. Each of its steps is one
  of `Peer` or one of four cancellations (`StepIs`, `Cancels`), so what was proved of
  `Peer` carries over once it survives these. `AsyncTypeCorrect`, `AsyncResolvedForGood`
  and `AsyncKeepsSafety` say so for the types, for `ResolutionIsFinal` and for
  `ResolvedExactlyOnce`, `ClosedMailboxMeansDisconnected`, `LiveIsRegistered` and
  `AtMostOneOrphan`, whatever the calls dial. With one call per address,
  `TasksAreReachable` is `TaskIsReachable`; `TasksHoldConnections` is
  `TaskHoldsConnection`, for which `CallOK` holds of every call but those that had to
  leave before the pump published their connection, and `LiveIsRegistered` finds those;
  and `TasksLeaveZombiesLate` is
  `ZombieOnlyAfterTimeout`.
* `PingTypeCorrect`, `PingTellsTheTruth`, `PingIsNotForgotten`, `PingLeavesNoEntry` and
  `PingIsAnsweredOnce` (`PingProofs`), for any number of pings and addresses. A ping is
  handed from the table to the pump or to the teardown's snapshot (`OwnerInv`), and an
  event that is set has a pong or a closed peer behind it (`TruthInv`). A call's steps
  all go through `CallMoves`, what a call may do to the table; every other step through
  `HandsOn`, which says that nobody becomes unreachable.
* Every safety property of `peer_life` (`PeerLifeProofs`), for any number of users,
  buffers, slots and contents: `PeerLifeTypeCorrect`, `LentBuffersAreAlive`,
  `ReceivedFaithfully`, `PacketsGoBack`, `ResponseStable` and
  `PumpHasAnOwner`. The invariant says where each thread is and what it holds there
  (`PlaceInv`, `CallInv`), that only the pump ever has a packet and has none while a
  shutdown runs (`HandInv`), that RakNet's slots are nowhere twice (`PacketInv`), and which steps of
  the caller and of the pump hold a reference (`OwnerInv`); a thread inside a method keeps the `RakPeer` alive whoever else lets go.

**Only model-checked.** Liveness, since the prover has no `ENABLED`: `CloseReleases`,
`EndReachesEveryone`, `CloseEndsEveryTask`, `CloseEndsPings`, `GilIsPassedOn` and the three
of `peer_liveness`. Every invariant and every action property a run checks is proved.

## 5. Not modelled

* `send`: it forwards; its checks read `_closed`. Payloads, priorities
  and channels are not kept. Bans are RakNet's; the conversion of their duration to
  milliseconds (`_peer.py:314`) has no state and no property.
* The getters and setters of `RakPeer` that forward one call under the GIL, lists of
  connections among them, and the value classes (`SystemAddress`, `RakNetGUID`,
  `RakNetStatistics`): no state of the bindings.
* The `RuntimeError` of `call_soon_threadsafe` on a closed loop: with the loop gone
  nobody is left to observe the branch.
* RakNet's protocol; whether it reports a rejection that `CONNECT_FAILURES` leaves out
  with a second packet (`_router.py:54`) cannot be told from this repository.
* A message that `message()` puts after the connection it looked up was closed
  (`_peer.py:508`) may be read after `ConnectionClosed` was raised. `Pipe` allows it, and
  no document says otherwise.
