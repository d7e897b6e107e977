# MTCL in TLA+

MTCL (Multi-Transport Communication Library) gives C++ programs one interface, the
`Manager` and `HandleUser` handles, to connections and teams over several transports.
This directory holds a TLA+ model of its core, TLC configurations that check the model on
small instances, and TLAPS proofs of some of the properties for every instance.

All modules were translated from `src/include/`; `PROJECT.json` names, for each definition,
the lines it stands for. A definition whose name begins with `Mut` is a wrong variant of the
one it precedes; the mutants in `PROJECT.json` say which property notices it.

## 1. The system

| Part | State it keeps | Operations | Source |
|---|---|---|---|
| Handle | `fd`, `closed_rd`, `closed_wr`, `counter`, `probed` | `close`, `yield`, reference counting, deletion | `handle.hpp` |
| HandleUser | `realHandle`, `isReadable` | `send`, `probe`, `receive`, `yield`, `close`, move, destructor | `handleUser.hpp` |
| Manager | `handleReady`, `groupsReady`, `contexts`, `end` | `init`, `listen`, `connect`, `getNext`, `createTeam`, `finalize`; the IO thread `getReadyBackend` | `manager.hpp` |
| ConnTcp | `connections`, `set`, `tmpset`, `fdmax`, `listen_sck` | `listen`, `connect`, `update`, `notify_close`, `notify_yield`, `end` | `protocols/tcp.hpp` |
| shmBuffer | segment: spinlock, guard, size, one chunk; a `std::mutex` per object | `put`, `get`, `tryget`, `getsize`, `trygetsize`, `peek` | `protocols/shm_buffer.hpp` |
| ConnSHM | `connections`, `connbuff`, `shmconnid`, names of segments | the ConnType operations | `protocols/shm.hpp` |
| ConnUCX | `connections`, endpoints, a request per handle, the socket for addresses | the ConnType operations | `protocols/ucx.hpp` |
| ConnMQTT | `connections`, a client and a queue `messages` per handle | the ConnType operations | `protocols/mqtt.hpp` |
| ConnMPI | `connections` by rank and tag | the ConnType operations | `protocols/mpi.hpp` |
| CollectiveContext | flags, `canSend`, `canReceive`, `coll` | `send`, `receive`, `probe`, `sendrecv`, `close`, `yield` | `collectives/collectiveContext.hpp` |
| Generic collectives | `participants`, `probed_idx`, `current` | the same, per collective | `collectives/collectiveImpl.hpp` |
| ConnMPIP2P | communicators | the ConnType operations | `protocols/mpip2p.hpp` |
| MPI and UCC collectives | requests of the library | the same | `collectives/{mpi,ucc}Impl.hpp` |
| Proxy | routing tables (`bimap`) | forward, connect, close between pools | `proxy/` |

How they interact. The program holds `HandleUser` wrappers; each counts as a reference to a
`Handle`, which is deleted when the counter is 0 and both sides are closed. A transport keeps
its handles in a table. The IO thread calls `update` of every transport; a new connection is
accepted, its handshake read (`addinQ(true, h)`) and the handle queued in `handleReady`, or,
when the handshake names a team, in `groupsReady`. A handle that can be read is taken out of
the set of polled handles and queued (`addinQ(false, h)`). `getNext` moves an element of the
queue to the program, which reads from it and gives it back with `yield` (or by destroying
the wrapper). The end of a stream in one direction is a message of size 0, EOS. `finalize`
stops the IO thread and closes what the transports' tables hold.

What is hard:

* *Ownership.* A connection must have exactly one party that may read it, while the IO thread
  works on a snapshot of the select set and the program yields, closes and destroys.
* *Descriptors are reused.* A closed descriptor may belong to a new connection at once;
  `connections`, `set`, `fdmax` and `fd` have to agree at each step.
* *Four ways to close.* EOS from the peer, `close()`, destructors and `finalize` come in any
  order; each side is closed once, the Handle deleted once and not too early.
* *Failure.* A peer can vanish anywhere, with an end of stream or a reset, also inside a message
  or in the handshake, which the IO thread awaits with the mutex held. It can also stay silent.
* *News comes once.* `ucp_stream_worker_poll` reports an endpoint once for each arrival; a
  request left behind by a probe, the probe in `notify_yield` and the poll compete for it. Over
  MQTT a header read ahead is announced by no further arrival.
* *Waiting inside the mutex.* In ConnTcp, ConnUCX, ConnMQTT and ConnMPI the IO thread waits for a
  handshake with the transport's mutex held.
* *Names are shared.* MPI connections are a rank and a tag, shared-memory connections two names
  that both ends unlink and that come round again.
* *Single slot.* In shared memory, messages of any size pass through one slot; the guard is
  all that orders writers and reader.
* *Teams.* The root's collectives read several streams whose owners leave while it reads.

The hazards, each at its line and with the properties that cover it, are listed in
`PROJECT.json`.

What makes each part correct, in a sentence: a connection has one owner and every owner
passes it on (Handle, Manager, transports); table, set and descriptors agree (transports);
a message is delivered whole, once, in order (buffer, collectives); the end is reported when
everything has arrived (collectives); teams form (createTeam); `finalize` returns and leaves
nothing open; a proxied connection leads to the peer it was opened for (Proxy).

## 2. The modules

| Module | Models | Lines of source |
|---|---|---|
| `TcpNode` | one process: Handle, HandleUser, Manager, IO thread, ConnTcp; its peers and the kernel | `handle.hpp`, `handleUser.hpp`, `manager.hpp`, `tcp.hpp` |
| `HandleContract` | the promise of Manager and transports, without mechanism: who owns a connection | comments of `protocolInterface.hpp`, `manager.hpp` |
| `TcpNodeProofs` | theorems about `TcpNode`, among them that it implements `HandleContract` | |
| `ShmBuffer` | the segment, its writers and its reader | `shm_buffer.hpp` |
| `MsgChannel` | the promise of a shmBuffer: a one-place channel of whole messages | |
| `ShmBufferProofs` | theorems about `ShmBuffer` | |
| `Collective` | one team of processes: creation, the four generic collectives, contexts, polling | `manager.hpp`, `collectiveContext.hpp`, `collectiveImpl.hpp` |
| `CollectiveProofs` | theorems about `Collective` | |
| `Ucx` | two processes over UCX, the library's streams and poll | `ucx.hpp`, and `handle.hpp`, `handleUser.hpp`, `manager.hpp` as it uses them |
| `UcxProofs` | theorems about `Ucx` | |
| `Mqtt` | two processes over MQTT, and the broker | `mqtt.hpp`, and the same |
| `MqttProofs` | theorems about `Mqtt` | |
| `Mpi` | two processes over MPI messages | `mpi.hpp`, and the same |
| `MpiProofs` | theorems about `Mpi` | |
| `MpiContractProofs` | `Mpi` implements `HandleContract`, as a theorem | |
| `ShmConn` | two processes over shared memory, the names of segments | `shm.hpp`, `shm_buffer.hpp`, and the same |
| `ShmConnProofs` | theorems about `ShmConn` | |
| `MC...` | constants, specifications and refinements for TLC, one module for each of the above | |

### TcpNode

`obj` holds the Handle objects, `tcp` the members of ConnTcp, `io` the IO thread inside
`update`, `mgr` the Manager's queues and the progress of `finalize`, `slot` the program's
HandleUser objects, `op` the call each thread is in, with its locals. `sock`, `wire` and
`backlog` are the kernel: descriptors, what can be read from a connection and what has been
written, connections to accept.

A call of the program that ends in one critical section is one action (`Listen`, `Connect`,
`GetNext`, `Send`, `Probe`, `Receive`). `close`, `yield` and the destructor run through
`Handle::close`, `notify_close`, `notify_yield` and `decrementReferenceCounter`, which other
threads can interleave with; each is a sequence of steps, in the order of the code: write EOS
(`SendEOS`), set the flags (`MarkClosed`), read them as arguments (`ReadFlags`), look the
descriptor up without the mutex (`NotifyClose`), the critical section (`Forget`), `close(fd)`
(`CloseFd`), test and delete (`Reap`); `NotifyYield`; `Decrement`, then `Reap`. A critical
section of the mutex `shm` is one step, except the one in which the IO thread reads the
handshake: `ShmFree` is the guard of all others. `update` is `Snapshot`, `Select`, then one
step for each ready descriptor (`Accept` and `Handshake`, or `Deliver`), up to the `fdmax` of
that moment. `finalize` is `Finalize`, `Join`, then `EndNext`, `DrainSkip` or `Drain`, and the
steps of `close` for each connection of the table, `EndDone`.

Streams carry whole frames: the two kinds of handshake, header, body, EOS, end of stream,
reset. A peer may end between the header and the body of a message (`"torn"`), and a reset may or
may not cost what has not been read. The kernel reports a reset once: to a reader, or to a write,
which then fails, and whoever reads next finds the end of the stream (`ErrorTaken`, used by `Send`,
`SendEOS` and a `Connect` whose handshake cannot be written). The difference matters, as
`setAsClosed` leaves its loop at an error but not at the end of a stream. Payloads, names, addresses, the retry loop of connect and the timeout of select are
left out. A blocking call that has nothing to read is an action that is not enabled. A
program yields what it may read (`Yield`), and listens before its first yield (`Listen`);
`ListenAnyTime` and `YieldAnyTime` are the same calls without that discipline.

### ShmBuffer

Each turn of a loop of `put` and `get` that finds the guard in the state it waits for is one
step (`PutChunk`, `GetSize`, `GetEOS`, `GetFirst`, `GetNext`); the other turns spin. `Lock`
tells which writers share the `std::mutex` of a shmBuffer object. The slot holds which bytes
of which message, `rcvd` the pieces `get` has assembled. The number of chunks is computed as
in the code, in single precision: `Float` is the rounding of IEEE 754 for sizes below 2^30.

### Collective

`handle` are the Handles of the team's connections, `coll` the CollectiveImpl and `ctx` the
CollectiveContext of each process, `user` and `ready` where its HandleUser is, `op` the call
in progress, `sent` and `got` what each program has sent so far and what it has received
from each other member. Members join (`Join`), the root's IO thread files their connections (`Accept`),
and the root goes on when all are there (`Gathered`); members may send before that. The loop
of `FanInGeneric::probe` takes one step for each participant it looks at (`ProbeTurn`),
since others send and close in between; so does the loop of `GatherGeneric::receive`
(`GatherTurn`). A send to several participants is one step, as streams to different members
do not interact; when a member has died it may stop in the middle (`SendFails`). No HandleUser
refers to the handles of a team, so their counter is 0 and `close` on both sides deletes
them; `life` records that, and a use after it. `PeekTrue` is `HandleTCP::peek` as written: the
result of `recv` converted to bool, so that "nothing to read" (-1) is true.

### Ucx, Mqtt, Mpi, ShmConn

These four have one shape: the two ends of each connection in full (`h[c][p]`), the table entry
with its flag `to_manage`, the Manager's ready queue as a count for each handle (`queue`), the
program's HandleUser (`user`), one thread of the program (`main`) and the IO thread (`io`) in
each of the two processes. A process connects or listens, gets, probes, receives, sends, yields,
closes and finalizes in any order its handles allow. A critical section of the transport's mutex
is one step; where the code holds it while it waits for a handshake, `LockFree` keeps the other
critical sections out. ConnSHM releases the mutex first, so `ShmConn` has no such guard. What the
modules differ in is what carries the data:

* `Ucx`: `rx` is what a worker has received for an endpoint, `ready` the endpoints the next poll
  reports. Arriving data fills a posted request first (`Transmit`, `Transmitted`); a poll forgets
  what it has reported (`Reported`, from the comment at `ucx.hpp:625`). `notify_yield` is two
  steps, the probe and, if it found nothing, the critical section (`Yield`, `MarkManaged`); so
  are the poll and the dispatch of its results. `oob` is the socket on which addresses are
  exchanged.
* `Mqtt`: `topic` is what the broker has delivered to a client, `dropped` remembers for whom
  something was published in vain. Header and payload are two publications, and the ack is a
  third kind. `is_probed` and `messages` are as in the code. `end` closes only the handles that
  are given back, as the code does.
* `Mpi`: `net` holds messages by tag, each with the connection its sender meant, so that a
  message that reaches the wrong handle is seen (`crossed`). The table is keyed by tag and keeps
  the first entry of a key, as `std::map::insert` does. `end` waits for EOS whatever `finalize`
  was told, in the order of the tags. MPI buffers what is sent.
* `ShmConn`: `names` is which segment a name denotes; creating fails if it is in use, closing
  removes it whatever it denotes by then. A segment is a slot for one message: this is the
  promise `MsgChannel` that `ShmBuffer` is proved to keep. `shmconnid % limit` numbers the
  names, with a small `SHM_MAX_CONCURRENT_CONN` so that they come round. `peek` never returns
  less than 0 and the flag is never reset, so every turn of `update` queues every yielded
  handle; `MaxQueue` bounds that.

`HandleContract` is implemented by `TcpNode` and by both processes of `Mpi`. `Ucx` and `Mqtt` do
not implement it as it stands: their `notify_yield` may queue a handle whose header it has read.
`ShmConn` does not: it queues handles that are not ready.

## 3. Runs

Deadlock is checked in the runs of `TcpNode` and `ShmBuffer`; not in the others, where programs may
end, or wait for a peer that died, does not listen or sends no more.

| Run | Bounds | What it shows |
|---|---|---|
| `MCTcpNode` | 2 connections, 1 thread, 2 wrappers, 3 descriptors, 2 frames in flight, peers may end without EOS | types; `FdmaxIsMax`, `TableExact` (with `SetIsOpen`), `ClosesOwnSocket`, `RefCountExact`, `NoDangling`, and that `TcpNode` implements `HandleContract` (`KeepsContract`) |
| `MCTcpCrash` | 1 connection, 5 frames, end of stream and reset, also between header and body, `FairSpec` | the error paths keep `OneOwner`, `Reclaimed` and `EOSIsLast`; `finalize(false)` returns unless a silent peer holds the IO thread (`FinalizeReturns`) |
| `MCTcpBlock` | as MCTcpNode with 1 wrapper, handshakes that fail, no other crash, `finalize(true)`, `ClosingSpec` | a yielded connection with data is served (`YieldedIsServed`); `finalize(true)` returns (`FinalizeReturns`), both with the exceptions below, and closes what is registered (`FinalizeClosesRegistered`) |
| `MCShmBuffer` | 2 writers of one process, 4 messages, sizes EOS to three chunks | `Intact`, `ProbeHolds`, `ShmBuffer` implements `MsgChannel` (`IsChannel`), all messages arrive and every put returns (`Delivered`) |
| `MCCollective` | root and 2 members, each of the 4 types, 2 messages each, one member may die | `InOrder`, `EndIsComplete`, `OneHolder`, `OthersSafe`, `TeamForms`, `AllArrive` |
| `MCUcx` | 1 connection, 1 message from the process that connects, one process finalizes with and one without waiting, `FairSpec` | `OneOwner`, `Framed`, `WakesPoll`, `ClosedIsComplete`; `Progress`: `EventServed`, `ConnectReturns` and `FinalizeReturns` |
| `MCMqtt` | 1 connection, 1 message each way, one process finalizes with and one without waiting, `FairSpec` | `OneOwner`, `Framed`, `NothingMissed`; `Progress`: `YieldedIsServed`, `ConnectReturns` and `FinalizeReturns` |
| `MCMpi` | 2 connections with tags 1 and 2 made by one process, in that order, 1 message from the process that accepts | `NotCrossed` (with `OneOwner`), `HandshakeComes`, `NoMutualWait`; each process implements `HandleContract` (`KeepsContract`) |
| `MCShmConn` | 2 connections made by one process, `SHM_MAX_CONCURRENT_CONN` 1 and 2, 1 message from the process that connects, the listener yields, a handle at most once in the queue | `PeekIsMapped`, `OpensItsOwn`, `NoneLeft` |

In `Collective`, `Ucx`, `Mqtt`, `Mpi` and `ShmConn` the type invariant is a conjunct of the first
ownership or mapping invariant of its run.

The bounds are the least at which the interesting cases occur: two connections and three
descriptors (one for the listener) make a closed descriptor come back as another connection
while the IO thread still holds the old snapshot; two wrappers let a thread work on both; five
frames are a message, EOS and end of stream behind a handshake; three chunks are first, middle
and last; two members are needed for one to leave while the other is being read, two messages
for the fan-out to come round. One connection is enough for the races of `Ucx` and `Mqtt`, which
are between the two threads of a process and an arrival; what two connections share is the tag in
`Mpi` and the name in `ShmConn`, and those have two. The constraint `InOrder` of `MCMpi` removes
only the mirror image in which the second connection is made first. Handles, wrappers and the
connections of `ShmConn` are interchangeable in the invariant runs (`Symmetry`, `Swaps`); runs with
liveness use no symmetry, and `YieldedIsServed` of `TcpNode` is checked for one connection among
others since all are alike.

The liveness properties of `TcpNode` name the behaviours in which the code does wait for ever, and
hold in all others. The first is a peer that connects and then stays silent: the IO thread waits for
its handshake with the mutex held (`<>[]AwaitsPeer`), and nothing else is served, nor does `finalize`
get past its `join`. The second is `Spins`: `finalize(true)` drains a stream that has ended without
EOS. `MCTcpBlock` reaches it through `Connect` alone: the write of the handshake fails, which takes
the error, the Handle stays in the table, and the loop of `setAsClosed` reads 0 for ever. A stream
that ended in a reset nobody has written to does not spin, nor does one on which EOS arrives.

Three runs show the code doing something else than its documentation, comments or examples say;
each checks one property and TLC finds it violated:

| Run | What happens |
|---|---|
| `VThreadsDelete` | two threads with a wrapper of one connection each: decrement and test are two steps, the Handle is deleted twice or while in use |
| `VUcxLost` | a message arrives after the probe of `notify_yield` and before the handle is in the table; the poll reports it to nobody, and never again |
| `VCrossConnect` | two processes connect to each other: each IO thread waits, inside the mutex, for a handshake that the other side sends after taking its own mutex. It is shown for MPI; ConnTcp, ConnUCX and ConnMQTT take the same steps in the same order |

Other disagreements have no run of their own. They are cases that a property excludes, or that
the code shows in a few lines: `finalize` leaves a connection
open whose EOS the program has read (`FinalizeClosesRegistered` excludes it); `finalize(true)` over
TCP never returns when a peer ended without EOS, or the handshake of a `connect` could not be
written (`Spins` in `FinalizeReturns`), and no `finalize` returns while a peer is silent in its
handshake (`AwaitsPeer`); over UCX, what a program sends after it has read the peer's EOS is lost,
the EOS of its own `close()` included, because `HandleUser::probe` closes the read side and
`notify_close` the endpoint with it (`ClosedIsComplete` is about what the peer sends); a `listen` after a `yield` empties the select set
(`Listen` excludes it); `FanOutGeneric::probe` writes to the handle its own `close` has deleted
(`OthersSafe` excludes the fan-out); a message of 16 MiB and one byte loses a chunk in shared
memory (`FloatIsExact`); shared-memory names that come round can be unlinked by the peer of the
old connection (`OpensItsOwn` is about numbers that are not used twice); `ConnSHM::update` queues handles that are not ready.

`MCTcpNode` therefore has one thread of the program, besides the IO thread and the peers: with
two threads the counter is already wrong, as `VThreadsDelete` shows.

### Fairness

`TcpNode!FairSpec`: weak fairness of the IO thread, of every thread inside a call and of
`finalize` once called (the operating system schedules runnable threads). Nothing is assumed of the
program's other calls, nor of peers: one may connect and never send its handshake. `ClosingSpec` (in `MCTcpNode`) adds that a peer whose connection is open sooner or later closes its side (strong
fairness of `PeerClose`), which is what `finalize(true)` waits for.
`ShmBuffer!FairSpec`: both sides spin until they can go on, and the receiver reads what has
arrived. `Collective!FairSpec`: threads run, every member calls `createTeam`, and a program
that gets a handle from `getNext` goes on to read from it; strong fairness of `probe` and
`receive`, since the program may yield in between any number of times.
`Ucx!FairSpec` and `Mqtt!FairSpec`: weak fairness of a program's thread inside a call and of the
IO thread, in each process; nothing is assumed of the calls the programs make. `Mpi` and
`ShmConn` have no liveness runs: `ConnMPI::end` waits for the peer whatever it does, and `put`
waits for a slot the peer may never empty.

## 4. Theorems

TLAPS proves the following for every value of the constants that satisfies the named
assumptions.

`TcpNodeProofs`, from `HandleAssumption` (the null pointer is no Handle), `ThreadAssumption`,
`FdAssumption`, `NetAssumption`, `ModeAssumption`:

* `TypeCorrect`: `Spec => []TypeOK`. Types alone are not inductive: a step of a call uses
  `op[t].h` and `op[t].fd`, and `accept` the head of the backlog. `TypeOK` therefore contains
  that a busy thread has a Handle, and a descriptor where it uses one, and that the listening
  descriptor is found ready only with a connection waiting. One lemma per group of actions.
* `FdmaxCorrect`: `Spec => []FdmaxIsMax`. It is inductive together with `TypeOK`. The core is
  `FdClrMax`: after `FD_CLR` of the largest descriptor, the largest one below it is the new
  maximum, which rests on `HighestIsGreatest` (a nonempty set of descriptors has a greatest
  element, from well-foundedness of the naturals).

The other theorems about `TcpNode` have the hypothesis `OneThread`: besides the IO thread, the
peers and the kernel, one thread uses the handles. It cannot be dropped, as `VThreadsDelete`
violates `NoDangling` with two. One inductive invariant, `OwnerInv` (`OwnerCorrect`), gives them all:

* `EOSLastCorrect`, `TableCorrect`, `OwnSocketCorrect`, `RefCountCorrect`, `NoDanglingCorrect`,
  `OneOwnerCorrect`, `ReclaimedCorrect`, `FinalizeCorrect`: `EOSIsLast`, `TableExact`,
  `ClosesOwnSocket`, `RefCountExact`, `NoDangling`, `OneOwner`, `Reclaimed` and
  `FinalizeClosesRegistered` hold at every step.

`OwnerInv` adds to these invariants what the code relies on between two critical sections:
`LifeAt` (a Handle that is not there yet, or no more, is out of everybody's reach, and one that
is closed and that nobody counts is in the hands of the call that deletes it); `TableAt` (a
connection is in the table, under its own descriptor, until its read side is closed, and keeps
the descriptor until both sides are; what of the table `finalize` has still to close); `CountAt`
(the counter during the calls that are about to decrement it); `OwnerAt` (never two owners,
readable wrappers included, and at least one unless the connection died before anybody had it);
`PeerAt` (nothing refers to a connection that nobody has opened, and what the handshake
finds in the stream); `CallAt` and `PhaseAt` (the arguments of a call in progress agree with the
Handle they were read from, which holds with one thread only); `PlacesOK` (queues hold a connection
once, the set holds descriptors in use only). Between the steps of `close`, flags, table,
descriptors and counter disagree for a while; `CallAt` says which step is still to come.

* `KeepsItsContract`: `Spec => KeepsContract`, the refinement of `HandleContract`. By `OwnerInv` the
  owners that `OwnerOf` names in order exclude each other (`Own`), so a step moves a connection
  from one owner to the next (`OneMoves`) and not past a second one. `HandleContract` promises
  that what is queued has something to read; this needs the invariant `Found`: what `select` found
  readable is still so when `update` gets to its descriptor, because only the owner reads and until
  then the owner is the set.

`ShmBufferProofs`, from `SizeAssumption` and `LockAssumption` (the writers share a mutex, or
messages fit in one chunk, as connection requests do), and the hypothesis `FloatIsExact` that
the sizes in use are exact in single precision; it cannot be dropped, as 2^24 + 1 rounds to 2^24, which is a chunk less:

* `MessagesIntact`: what `get` returns is whole and in order. `Intact` speaks of finished
  messages only; the inductive invariant `IInv` adds `Writers` (at most one writer is between
  two chunks of a message, and which bytes it has put), `Slot` (the slot holds exactly the
  chunk the reader wants next, with the writer right behind it, or is empty and the writer is
  about to put that chunk), and `Reader` (the pieces so far are a prefix, and `nmsgs` is the
  number of chunks left).
* `ProbeIsExact`: the size a probe returned is the size of the message `get` copies next.
* `ImplementsChannel`: `ShmBuffer` implements `MsgChannel`. A message enters the channel with
  its first chunk and leaves it with its last; all other steps stutter.

`MpiProofs`, from `ProcAssumption`, `ConnAssumption`, `TagAssumption` (tags are distinct, as the
programs must choose them) and the bounds' types, for any number of connections and messages:

* `TagsKeepApart`: `Spec => []NotCrossed`, which includes `OneOwner`. `NotCrossed` speaks of what
  was received; the invariant `Inv` adds that what is on its way with the tag of a connection was
  sent on it (`Lanes`), which entry the table has under which tag (`Table`), that nobody knows a
  handle that is not made (`Fresh`), what the two threads are in the middle of (`Busy`), and that
  no end has two owners even while `finalize` runs (`Single`).
* `OneCallerIsAnswered`: `Spec => []HandshakeComes` under the hypothesis that one process makes all
  connections; `VCrossConnect` shows that it cannot be dropped. It needs `Requests` (a request is
  sent once, by a caller that has the handle, to a callee that has not) and `Greeted` (whoever
  waits for a handshake has a caller that is about to send it, or has it already).
* `EndsTogether`: `Spec => []NoMutualWait`. `Finalizing` says that `end` has the rest of the table
  to close in the order of the tags and has sent EOS where it waits; `Framed` that a stream
  alternates headers and payloads and ends in the EOS of a writer that has closed, so that a wait
  for EOS ends. Of two processes that wait, take the smaller tag: its peer has either closed it
  or is not yet past it.

`MpiContractProofs`, from the same assumptions, with `Inv` of `MpiProofs`:

* `KeepsItsContract`: `Spec => KeepsContract`, the refinement of `HandleContract` by each of the two
  processes, for any number of connections and messages. The mapping (`Owner`, `Readable` in `Mpi`)
  takes the first owner it finds, so it is `Single` that makes a step move a connection from one
  owner to the next (`Moves`, `Settles`) and not past a second one. Every step of a process is at
  most an arrival on one connection for the other (`Elsewhere`). What `update` queues is managed and
  has something to read, and is not closed, because nothing is on its way to a closed end
  (`Framed`); `connect` and `update` take a connection from nobody, because nobody knows a handle
  that is not made (`Fresh`).

`ShmConnProofs`, from `ConnAssumption` (finitely many connections), `ProcAssumption`,
`CallerAssumption`, `ConcurrentAssumption`, `BoundAssumption`, for any `SHM_MAX_CONCURRENT_CONN`:

* `LooksIntoMapped`: `Spec => []PeekIsMapped`. `Ends` says that a buffer that is not mapped was
  closed and that the table had forgotten the handle before; a handle in the table whose read
  side is closed is one that the program's thread is taking out (`Threads`).
* `NamesAreRemoved`: `Spec => []NoneLeft`, also when numbers go round. A name belongs to the
  connection that made it (`Numbers`), and the end that made a segment removes its name when it
  unmaps it (`Left`): so the names of a connection are gone when its caller has closed, whatever
  the peer does.
* `NumbersSuffice`: `Spec => []OpensItsOwn`. With a number for each connection the numbers in use
  differ, as the counter is the number of connections made so far (`Numbers`, with the cardinality
  theorems of the library). Until the listener takes a request (`Requests`), the handshake fills
  the caller's segment or is about to, so the caller's EOS has to wait, both names exist and both
  segments are mapped (`Own`).

All actions of `ShmConn` but four change one end of one connection and remove at most its names;
`LocalKeeps` is the invariant's preservation by any such step.

`MqttProofs`, from `ProcAssumption` (two processes), `ConnAssumption` (there is a connection),
`CallerAssumption` (any process may call, so connections in both directions are included)
and `BoundAssumption`, for any number of connections and messages. One inductive
invariant `Inv` gives all three:

* `EachEndHasOneOwner`: `Spec => []OneOwner`. `Ends` adds that an end never has two owners, even
  while `finalize` runs, and none once its read side is closed. `Openings` says for each stage of a
  connection what its two ends and topics hold: until the caller has the ack nobody has touched
  either handle, and a callee in the handshake has a caller that greets it.
* `HeadersAreHeaders`: `Spec => []Framed`. `Streams` says what is still with the broker: headers
  and payloads in turn, from a payload where the reader has the header already, up to a header
  where the writer has not yet published the payload, with EOS at the end of a closed stream. The
  parity of the length ties the two ends together (`WellFramed`; `FramedAppend`, `FramedProbe`,
  `FramedReceive`, `FramedPair`). `is_probed` alone does not tell a header in `messages` from one
  that the program has: `Streams` relates it to `messages` and `probed`.
* `NothingIsMissed`: `Spec => []NothingMissed`. An end subscribes from the moment its peer may
  publish until its read side is closed (`Ends`), which rests on `Openings`: the ack is sent after
  the subscription and before anything else. `Threads` adds that `end` closes only handles that
  nobody else has.

All actions but `Poll` change one end of one connection; `LocalKeeps` reduces the preservation of
`Inv` by such a step to that connection. `Poll` reads ahead for all ends of the table at once.

`UcxProofs`, from `ProcAssumption` (two processes), `ConnAssumption` (there is a connection),
`CallerAssumption` (connections in either direction), `BoundAssumption` and `FlagAssumption`, for
any number of connections and messages. One inductive invariant `Inv` (`InvCorrect`) gives all four:

* `OneOwnerCorrect`: `Spec => []OneOwner`. `Ends` says that an end has an owner exactly from the
  creation of its endpoint to the close of its read side, and that nobody uses a handle before its
  handshake; `Openings`, that there is no endpoint before the exchange of addresses has got there.
* `FramedCorrect`: `Spec => []Framed`. Both the program's `probe` and the request that
  `notify_yield` leaves behind take the header off the stream. `Streams` says that a stream is
  a chain of whole messages with EOS at its end (`Chain`), begins with a header unless the header
  is in `last_probe` or in a finished request, and begins with its payload if it is.
* `WakesPollCorrect`: `Spec => []WakesPoll`. `Streams` adds that a posted request has an empty stream.
* `ClosedIsCompleteCorrect`: `Spec => []ClosedIsComplete`. `Ends` says that before `finalize` the
  read side is closed when EOS has been read and not otherwise; `Streams`, that EOS in a stream, or
  read from it, is the last of what a closed writer wrote, and nothing before it was lost.

Each action but the poll changes one end of one connection, and at the other end at most the
posted request (`Elsewhere`).

`CollectiveProofs`, from `TeamAssumption` (a finite set of members besides the root, ranks that are
distinct), for any number of members, messages and deaths. One inductive invariant `Inv`
(`InvCorrect`) gives all four:

* `InOrderCorrect`: `Spec => []InOrder`. What is sent on a connection over a run is its flow: the
  k-th frame follows from k, the type of the team and, in a fan-out, the member's place in the
  list (`Counted`, `Dealt`, `Ranked`). `Streams` says that at any moment a stream holds a
  handshake at most, then the segment of the flow from what has been read to what has been written
  (`Seg`), then EOS and the shutdown. Both bounds are functions of the counts of what the programs
  have sent and received (`Read`, `Written`), so what is read next is the next message. In a
  gather it takes four frames for each, with the root in the middle of a round.
* `EndIsCompleteCorrect`: `Spec => []EndIsComplete`. `Ending` says who may have sent the EOS that is in
  a stream, and `Ends` what those that have been told of the end have received. For a fan-out the
  share of each member follows from the quotient of what the root has sent (`Shares`, `Quotient`).
* `OneHolderCorrect`: `Spec => []OneHolder`, from `Contexts`; `Members` says that the lists of
  participants have every member once, and all of them where the code indexes without a test.
* `OthersSafeCorrect`: `Spec => []OthersSafe`, from `HandlesKept`, which says for each type which
  handles are still open. It is not claimed of fan-outs, whose root
  does use deleted handles (see §3), nor when a member has died.

`OwnerInv` and `Found` were first checked with TLC, on two Handles and two descriptors.

Only model-checked: every liveness property, as fairness and `ENABLED` are outside the prover's
reach. The invariants of `TcpNode` other than `TypeOK` and `FdmaxIsMax` are not claimed for more
than one thread of the program.

## 5. What is not modelled

* The byte level of streams: a header read in parts by a non-blocking probe.
* ConnMPIP2P: it does not override `ConnType::connect(const std::string&, int, unsigned)`, so it
  is an abstract class and cannot be part of a program at this commit.
* The proxy and its bimap. A connection through a proxy sends its label (`manager.hpp:526`)
  before `Manager::connect` sends the handshake, and the proxy's Manager takes the first four
  bytes of the label for the handshake's flag; a proxy never yields what it accepts from another
  one. There is no routing to state properties of until that is settled.
* MPI and UCC collectives, thin wrappers of calls whose behaviour is the library's.
* Errors of the UCX, MQTT and MPI libraries; reconnection to the broker; `HandleMQTT::peek`, which
  loses the header it reads, and so collectives over MQTT; MPI tags that are used twice; messages
  of size 0, which every transport takes for EOS.
* The step between `shm_open` and the initialisation of the listener's buffer.
* The `SINGLE_IO_THREAD` build, in which `getNext` polls, and configuration parsing.
* Resets of a team's connections, several teams at once, refused calls of `createTeam`, `finalize`
  of teams, teams over transports other than TCP.
* Move assignment of a HandleUser, and `yield` of a handle that is not readable.

## 6. Plan

Done: all models above; every invariant and every refinement the runs check as a theorem
(those of `TcpNode`, other than types and `fdmax`, for a program of one thread). Next:

1. Two teams at once in `createTeam`, so that the wait of two roots for each other is one run, and
   `finalize` of teams.
2. Two processes of `TcpNode` joined by their streams, so that EOS in both directions is one system,
   and the IO thread's loop over the byte level of a header.
3. The proxy, once its handshake is settled (see §5).
