------------------------------ MODULE TcpNode ------------------------------
(***************************************************************************)
(* One MTCL process that uses the TCP transport: the Handle objects and    *)
(* their reference counts (handle.hpp), the HandleUser wrappers the program *)
(* holds (handleUser.hpp), the Manager's ready queue, IO thread and         *)
(* finalize (manager.hpp), and ConnTcp's connection table, select set and   *)
(* descriptor bookkeeping (protocols/tcp.hpp).                              *)
(*                                                                         *)
(* The IO thread and every thread of the program take one step at a time.  *)
(* A critical section of ConnTcp's mutex shm is one step, except the one    *)
(* in which the IO thread waits for the handshake of a connection it has    *)
(* just accepted: there the mutex is held across steps (ShmFree).           *)
(* Definitions named Mut... are wrong variants of the definition they go   *)
(* before.                                                                 *)
(***************************************************************************)
EXTENDS Integers, Sequences, FiniteSets

CONSTANTS
    Handle,     \* the connections, each with the Handle object made for it
    NoHandle,   \* the null pointer
    Thread,     \* threads of the program that call the library
    Main,       \* the one of them that calls Manager::finalize
    Slot,       \* HandleUser objects each thread may hold at a time (bound)
    MaxFd,      \* descriptors are 0..MaxFd (bound)
    NetCap,     \* frames in flight from a peer (bound)
    BlockFlag,  \* the argument of Manager::finalize
    Crash       \* how a peer may vanish: "fin", "rst", "torn" within a message

ASSUME HandleAssumption == NoHandle \notin Handle
ASSUME ThreadAssumption == Main \in Thread
ASSUME FdAssumption == MaxFd \in Nat
ASSUME NetAssumption == NetCap \in Nat
ASSUME ModeAssumption == BlockFlag \in BOOLEAN /\ Crash \subseteq {"fin", "rst", "torn"}

FD == 0..MaxFd
NoFd == -1
MaybeHandle == Handle \union {NoHandle}
MaybeFd == FD \union {NoFd}

VARIABLES
    obj,        \* the Handle objects: fields of CommunicationHandle, HandleTCP
    tcp,        \* ConnTcp: connections, set, fdmax, listen_sck
    io,         \* the IO thread in ConnTcp::update: pc, tmpset, h (in handshake)
    mgr,        \* Manager: handleReady, groupsReady, phase (end and what comes
                \* after it), todo (what ConnTcp::end has still to close)
    slot,       \* the program's HandleUser objects
    op,         \* what each thread of the program is doing: pc and locals
    sock,       \* kernel: the connection behind each descriptor
    wire,       \* kernel: per connection, the frames to read, the state of the
                \* peer, and what has been written (open, eos, or late: data
                \* or another EOS after the EOS)
    backlog     \* kernel: connections waiting for accept

vars == <<obj, tcp, io, mgr, slot, op, sock, wire, backlog>>

(* What a peer can have put in the stream: the p2p handshake, the two parts *)
(* of a team handshake, header and payload of a message, EOS, and the end   *)
(* of the stream (orderly, or by a reset).                                  *)
Frame == {"p2p", "team", "id", "msg", "body", "eos", "fin", "rst"}
Life == {"none", "live", "freed", "double"}
PC == {"idle", "eos", "mark", "notify", "notify_close", "forget", "closefd",
       "reap", "yield", "decr", "drop", "next", "drain"}

HandleObject == [fd : MaybeFd, closed_rd : BOOLEAN, closed_wr : BOOLEAN,
                 counter : Int, probed : {"no", "msg", "eos"}, life : Life]
TcpState == [connections : [FD -> MaybeHandle], set : SUBSET FD,
             fdmax : MaybeFd, listen_sck : MaybeFd]
IoState == [pc : {"snapshot", "select", "scan", "handshake", "exited"},
            tmpset : SUBSET FD, h : MaybeHandle]
MgrState == [handleReady : Seq(Handle), groupsReady : SUBSET Handle,
             phase : {"run", "join", "end", "done"}, todo : SUBSET (FD \X Handle)]
Stream == [in : Seq(Frame), peer : {"none", "new", "named", "open", "shut", "reset"},
           out : {"open", "eos", "late"}]
Wrapper == [real : MaybeHandle, readable : BOOLEAN]
Empty == [real |-> NoHandle, readable |-> FALSE]
Activity == [pc : PC, h : MaybeHandle, wr : BOOLEAN, rd : BOOLEAN,
             fd : MaybeFd, then : {"idle", "decr", "next", "drain"}]
Idling == [pc |-> "idle", h |-> NoHandle, wr |-> FALSE, rd |-> FALSE,
           fd |-> NoFd, then |-> "idle"]

(* The state after Manager::init.                                           *)
Init ==
    /\ obj = [h \in Handle |->
                [fd |-> NoFd, closed_rd |-> FALSE, closed_wr |-> FALSE,
                 counter |-> 0, probed |-> "no", life |-> "none"]]
    /\ tcp = [connections |-> [f \in FD |-> NoHandle], set |-> {},
              fdmax |-> NoFd, listen_sck |-> NoFd]
    /\ io = [pc |-> "snapshot", tmpset |-> {}, h |-> NoHandle]
    /\ mgr = [handleReady |-> <<>>, groupsReady |-> {}, phase |-> "run",
              todo |-> {}]
    /\ slot = [t \in Thread |-> [s \in Slot |-> Empty]]
    /\ op = [t \in Thread |-> Idling]
    /\ sock = [f \in FD |-> NoHandle]
    /\ wire = [h \in Handle |-> [in |-> <<>>, peer |-> "none", out |-> "open"]]
    /\ backlog = <<>>

(***************************************************************************)
(* Kernel: descriptors and streams.                                        *)
(***************************************************************************)
OpenFd == {f \in FD : sock[f] # NoHandle \/ f = tcp.listen_sck}
FreeFd == FD \ OpenFd
Lowest(S) == CHOOSE f \in S : \A g \in S : f <= g
Highest(S) == CHOOSE f \in S : \A g \in S : g <= f

ReadyToRead(f) == IF f = tcp.listen_sck THEN backlog # <<>>
                                        ELSE wire[sock[f]].in # <<>>

(* A frame leaves the stream when it is read; the end of the stream stays, *)
(* and a reset is reported once.                                           *)
Consume(h) == [wire EXCEPT ![h].in =
                 IF Head(@) \in {"fin", "rst"} THEN <<"fin">> ELSE Tail(@)]

(* Writing a message, or EOS.  On a connection that was reset the write    *)
(* fails and takes the error with it: a reader finds the end of the stream. *)
ErrorTaken(s) == [i \in DOMAIN s |-> IF s[i] = "rst" THEN "fin" ELSE s[i]]
Write(h, isEOS) ==
    [wire EXCEPT ![h].in = ErrorTaken(@),
                 ![h].out = IF @ # "open" THEN "late" ELSE IF isEOS THEN "eos" ELSE "open"]

(* A descriptor for h, and the Handle registered under it.                 *)
MutRegister(h, f) == sock' = [sock EXCEPT ![f] = h] /\ UNCHANGED tcp
Register(h, f) ==
    /\ sock' = [sock EXCEPT ![f] = h]
    /\ tcp' = [tcp EXCEPT !.connections[f] = h]

(* The mutex of ConnTcp can be taken.                                      *)
ShmFree == io.pc # "handshake"

(* FD_CLR(f, &set) and the scan for the new fdmax that follows it.         *)
MutFdClrNoScan(f) == [tcp EXCEPT !.set = @ \ {f}, !.fdmax = IF f # @ THEN @ ELSE NoFd]
MutFdClrForgotten(f) == tcp
FdClr(f) ==
    LET rest == tcp.set \ {f}
        below == {g \in rest : g < tcp.fdmax}
    IN  [tcp EXCEPT !.set = rest,
                    !.fdmax = IF f # @ THEN @
                              ELSE IF below = {} THEN NoFd ELSE Highest(below)]

(***************************************************************************)
(* The program's threads.  An operation starts on an idle thread; close,   *)
(* yield and the destructor then go on step by step, op[t] holding the     *)
(* locals and, in "then", what the caller does when the call returns.      *)
(***************************************************************************)
At(t, l) == op[t].pc = l
Goto(t, l) == op' = [op EXCEPT ![t].pc = l]
Return(t, l) == op' = [op EXCEPT ![t] = IF l = "idle" THEN Idling
                                        ELSE [@ EXCEPT !.pc = l]]
Call(t, l, h, wr, rd, k) ==
    op' = [op EXCEPT ![t] = [pc |-> l, h |-> h, wr |-> wr, rd |-> rd,
                             fd |-> obj[h].fd, then |-> k]]

(* Handle::close up to the call of notify_close: EOS is written, then the  *)
(* flags are set, then they are read again as notify_close's arguments.    *)
MutEOSAgain(t) == op[t].wr
EOSDue(t) == op[t].wr /\ ~obj[op[t].h].closed_wr

SendEOS(t) ==
    /\ At(t, "eos")
    /\ wire' = IF EOSDue(t) THEN Write(op[t].h, TRUE) ELSE wire
    /\ Goto(t, "mark")
    /\ UNCHANGED <<obj, tcp, io, mgr, slot, sock, backlog>>

MarkClosed(t) ==
    /\ At(t, "mark")
    /\ obj' = [obj EXCEPT ![op[t].h].closed_wr = @ \/ op[t].wr,
                          ![op[t].h].closed_rd = @ \/ op[t].rd]
    /\ Goto(t, "notify")
    /\ UNCHANGED <<tcp, io, mgr, slot, sock, wire, backlog>>

ReadFlags(t) ==
    LET h == op[t].h IN
    /\ At(t, "notify")
    /\ op' = [op EXCEPT ![t].pc = "notify_close", ![t].wr = obj[h].closed_wr,
                        ![t].rd = obj[h].closed_rd]
    /\ UNCHANGED <<obj, tcp, io, mgr, slot, sock, wire, backlog>>

(* handle->fd = -1, after close(fd).                                       *)
MutKeepFd(h) == obj
DropFd(h) == [obj EXCEPT ![h].fd = NoFd]

(* notify_close up to its critical section.  Without close_rd the table is *)
(* read without the mutex, and the descriptor closed if it is not there.   *)
NotifyClose(t) ==
    LET h == op[t].h
        f == obj[h].fd
        gone == f # NoFd /\ ~op[t].rd /\ tcp.connections[f] = NoHandle
    IN
    /\ At(t, "notify_close")
    /\ op' = [op EXCEPT ![t].fd = f,
                        ![t].pc = IF f # NoFd /\ op[t].rd THEN "forget" ELSE "reap"]
    /\ sock' = IF gone THEN [sock EXCEPT ![f] = NoHandle] ELSE sock
    /\ obj' = IF gone THEN DropFd(h) ELSE obj
    /\ UNCHANGED <<tcp, io, mgr, slot, wire, backlog>>

(* The critical section of notify_close.                                   *)
Forget(t) ==
    LET f == op[t].fd IN
    /\ At(t, "forget") /\ ShmFree
    /\ tcp' = [FdClr(f) EXCEPT !.connections[f] = NoHandle]
    /\ Goto(t, IF op[t].wr THEN "closefd" ELSE "reap")
    /\ UNCHANGED <<obj, io, mgr, slot, sock, wire, backlog>>

CloseFd(t) ==
    /\ At(t, "closefd")
    /\ sock' = [sock EXCEPT ![op[t].fd] = NoHandle]
    /\ obj' = DropFd(op[t].h)
    /\ Goto(t, "reap")
    /\ UNCHANGED <<tcp, io, mgr, slot, wire, backlog>>

(* "if (counter == 0 && closed_rd && closed_wr) delete this", which ends   *)
(* both Handle::close and Handle::decrementReferenceCounter.               *)
MutUnreferenced(h) == obj[h].closed_rd /\ obj[h].closed_wr
Unreferenced(h) == obj[h].counter = 0 /\ obj[h].closed_rd /\ obj[h].closed_wr

Reap(t) ==
    LET h == op[t].h IN
    /\ At(t, "reap") \/ At(t, "drop")
    /\ obj' = IF ~Unreferenced(h) THEN obj
              ELSE [obj EXCEPT ![h].life = IF @ = "live" THEN "freed" ELSE "double"]
    /\ Return(t, IF At(t, "drop") THEN "idle" ELSE op[t].then)
    /\ UNCHANGED <<tcp, io, mgr, slot, sock, wire, backlog>>

(* The critical section of notify_yield; the descriptor was read before it.*)
NotifyYield(t) ==
    LET h == op[t].h
        f == op[t].fd
    IN
    /\ At(t, "yield") /\ ShmFree
    /\ tcp' = IF obj[h].closed_rd /\ obj[h].closed_wr THEN tcp
              ELSE [tcp EXCEPT !.set = @ \union {f},
                               !.fdmax = IF f > @ THEN f ELSE @]
    /\ Return(t, op[t].then)
    /\ UNCHANGED <<obj, io, mgr, slot, sock, wire, backlog>>

MutNoRelease(h) == obj
ReleaseReference(h) == [obj EXCEPT ![h].counter = @ - 1]

Decrement(t) ==
    /\ At(t, "decr")
    /\ obj' = ReleaseReference(op[t].h)
    /\ Goto(t, "drop")
    /\ UNCHANGED <<tcp, io, mgr, slot, sock, wire, backlog>>

Step(t) == \/ SendEOS(t) \/ MarkClosed(t) \/ ReadFlags(t) \/ NotifyClose(t)
           \/ Forget(t) \/ CloseFd(t) \/ Reap(t) \/ NotifyYield(t) \/ Decrement(t)

(***************************************************************************)
(* The calls of the program.                                               *)
(***************************************************************************)
Idle(t) == mgr.phase = "run" /\ At(t, "idle")
Holds(t, s, h) == slot[t][s].real = h /\ h # NoHandle
MutStaysReadable(t, s) == UNCHANGED slot
Release(t, s) == slot' = [slot EXCEPT ![t][s].readable = FALSE]

(* Manager::listen -> ConnTcp::listen, without the mutex.                  *)
ListenAnyTime(t) ==
    LET f == Lowest(FreeFd) IN
    /\ Idle(t) /\ tcp.listen_sck = NoFd /\ FreeFd # {}
    /\ tcp' = [tcp EXCEPT !.listen_sck = f, !.set = {f}, !.fdmax = f]
    /\ io' = [io EXCEPT !.tmpset = {}]
    /\ UNCHANGED <<obj, mgr, slot, op, sock, wire, backlog>>

(* The order programs are expected to use: listen before the first yield.  *)
Listen(t) == tcp.set = {} /\ ListenAnyTime(t)

(* Manager::connect: a descriptor, a registered Handle, and the handshake. *)
(* When the handshake cannot be written (the peer has reset the connection) *)
(* the failed write takes the error, the Handle stays registered and the   *)
(* program gets an empty HandleUser.                                       *)
Connect(t, s, h, ok) ==
    LET f == Lowest(FreeFd) IN
    /\ Idle(t) /\ slot[t][s] = Empty /\ wire[h].peer = "none"
    /\ FreeFd # {} /\ ShmFree
    /\ Register(h, f)
    /\ obj' = [obj EXCEPT ![h].fd = f, ![h].life = "live",
                          ![h].counter = IF ok THEN 1 ELSE 0]
    /\ wire' = IF ok THEN [wire EXCEPT ![h].peer = "open"]
                     ELSE [wire EXCEPT ![h].peer = "reset", ![h].in = <<"fin">>]
    /\ slot' = IF ok THEN [slot EXCEPT ![t][s] = [real |-> h, readable |-> TRUE]]
                     ELSE slot
    /\ UNCHANGED <<io, mgr, op, backlog>>

(* Manager::getNext when the queue is not empty; the element of the queue  *)
(* is moved out, so the counter does not change.                           *)
GetNext(t, s) ==
    /\ Idle(t) /\ slot[t][s] = Empty /\ mgr.handleReady # <<>>
    /\ slot' = [slot EXCEPT ![t][s] = [real |-> Head(mgr.handleReady),
                                       readable |-> TRUE]]
    /\ mgr' = [mgr EXCEPT !.handleReady = Tail(@)]
    /\ UNCHANGED <<obj, tcp, io, op, sock, wire, backlog>>

(* HandleUser::send; EBADF when the write side is closed.                  *)
Send(t, s) == \E h \in Handle :
    /\ Idle(t) /\ Holds(t, s, h) /\ ~obj[h].closed_wr
    /\ wire' = Write(h, FALSE)
    /\ UNCHANGED <<obj, tcp, io, mgr, slot, op, sock, backlog>>

(* HandleUser::probe when it reads a header; otherwise it returns at once  *)
(* (a cached header, a wrapper that is not readable, a closed handle).     *)
Probe(t, s) == \E h \in Handle :
    LET frame == Head(wire[h].in) IN
    /\ Idle(t) /\ Holds(t, s, h) /\ slot[t][s].readable
    /\ obj[h].probed = "no" /\ ~obj[h].closed_rd /\ wire[h].in # <<>>
    /\ wire' = Consume(h)
    /\ obj' = [obj EXCEPT ![h].probed = IF frame \in {"msg", "eos"} THEN frame ELSE @]
    /\ IF frame \in {"fin", "eos"} THEN Release(t, s) ELSE UNCHANGED slot
    /\ IF frame \in {"fin", "rst", "eos"}
       THEN Call(t, "eos", h, frame # "eos", TRUE, "idle") ELSE UNCHANGED op
    /\ UNCHANGED <<tcp, io, mgr, sock, backlog>>

(* HandleUser::receive of a message whose header has been read, in a buffer *)
(* that is large enough (otherwise ENOMEM and nothing changes).            *)
Receive(t, s) == \E h \in Handle :
    /\ Idle(t) /\ Holds(t, s, h) /\ slot[t][s].readable
    /\ obj[h].probed = "msg" /\ ~obj[h].closed_rd /\ wire[h].in # <<>>
    /\ obj' = [obj EXCEPT ![h].probed = "no"]
    /\ wire' = Consume(h)
    /\ UNCHANGED <<tcp, io, mgr, slot, op, sock, backlog>>

(* HandleUser::close closes the write side only.                           *)
Close(t, s) == \E h \in Handle :
    /\ Idle(t) /\ Holds(t, s, h)
    /\ Call(t, "eos", h, TRUE, FALSE, "idle")
    /\ UNCHANGED <<obj, tcp, io, mgr, slot, sock, wire, backlog>>

(* HandleUser::yield and the destructor.                                   *)
MutYieldAlways(h) == TRUE
Managed(h) == ~obj[h].closed_rd /\ obj[h].fd # NoFd

YieldAnyTime(t, s) == \E h \in Handle :
    /\ Idle(t) /\ Holds(t, s, h)
    /\ Release(t, s)
    /\ IF Managed(h) THEN Call(t, "yield", h, FALSE, FALSE, "idle")
                     ELSE UNCHANGED op
    /\ UNCHANGED <<obj, tcp, io, mgr, sock, wire, backlog>>

(* What the program is expected to yield: a handle it may read from.       *)
Yield(t, s) == slot[t][s].readable /\ YieldAnyTime(t, s)

Destroy(t, s) == \E h \in Handle :
    /\ mgr.phase \in {"run", "done"} /\ At(t, "idle") /\ Holds(t, s, h)
    /\ slot' = [slot EXCEPT ![t][s] = Empty]
    /\ Call(t, IF slot[t][s].readable /\ Managed(h) THEN "yield" ELSE "decr",
            h, FALSE, FALSE, "decr")
    /\ UNCHANGED <<obj, tcp, io, mgr, sock, wire, backlog>>

(***************************************************************************)
(* Manager::finalize, ConnTcp::end and ConnType::setAsClosed.  The program *)
(* makes no other call from here on; the HandleUser objects it still holds *)
(* are destroyed when finalize has returned.                               *)
(***************************************************************************)
Finalize ==
    /\ \A t \in Thread : Idle(t)
    /\ mgr' = [mgr EXCEPT !.phase = "join"]
    /\ UNCHANGED <<obj, tcp, io, slot, op, sock, wire, backlog>>

Join ==
    /\ mgr.phase = "join" /\ io.pc = "exited"
    /\ mgr' = [mgr EXCEPT !.phase = "end",
                          !.todo = {<<f, tcp.connections[f]>> : f \in
                                      {g \in FD : tcp.connections[g] # NoHandle}}]
    /\ Goto(Main, "next")
    /\ UNCHANGED <<obj, tcp, io, slot, sock, wire, backlog>>

EndNext == \E e \in mgr.todo :
    /\ At(Main, "next") /\ \A g \in mgr.todo : e[1] <= g[1]
    /\ mgr' = [mgr EXCEPT !.todo = @ \ {e}]
    /\ Call(Main, IF obj[e[2]].closed_wr THEN "drain" ELSE "eos", e[2], TRUE,
            FALSE, "drain")
    /\ UNCHANGED <<obj, tcp, io, slot, sock, wire, backlog>>

EndDone ==
    /\ At(Main, "next") /\ mgr.todo = {}
    /\ mgr' = [mgr EXCEPT !.phase = "done"]
    /\ Return(Main, "idle")
    /\ UNCHANGED <<obj, tcp, io, slot, sock, wire, backlog>>

(* The end of setAsClosed, reached at once unless the call is blocking.    *)
MutNoCloseRead(h) == Goto(Main, "next")
MutCloseReadTwice(h) == Call(Main, "eos", h, FALSE, TRUE, "drain")
CloseRead(h) == Call(Main, "eos", h, FALSE, TRUE, "next")

DrainSkip ==
    LET h == op[Main].h IN
    /\ At(Main, "drain") /\ (~BlockFlag \/ obj[h].closed_rd)
    /\ CloseRead(h)
    /\ UNCHANGED <<obj, tcp, io, mgr, slot, sock, wire, backlog>>

(* One turn of the loop that waits for the peer's EOS: a pending message is *)
(* read and dropped, an error leaves setAsClosed.  At the end of a stream  *)
(* without EOS the size keeps its last value and the loop turns again.     *)
Drain ==
    LET h == op[Main].h
        frame == Head(wire[h].in)
    IN
    /\ At(Main, "drain") /\ BlockFlag /\ ~obj[h].closed_rd
    /\ wire[h].in # <<>>
    /\ wire' = Consume(h)
    /\ obj' = [obj EXCEPT ![h].probed = IF frame = "rst" THEN @
                                        ELSE IF frame = "msg" THEN "msg" ELSE "no"]
    /\ CASE frame = "eos" -> CloseRead(h)
         [] frame = "rst" -> Goto(Main, "next")
         [] OTHER         -> UNCHANGED op
    /\ UNCHANGED <<tcp, io, mgr, slot, sock, backlog>>

Finalization == Finalize \/ Join \/ EndNext \/ EndDone \/ DrainSkip \/ Drain

(***************************************************************************)
(* The IO thread: getReadyBackend calls ConnTcp::update until finalize.    *)
(***************************************************************************)
IoGoto(l) == io' = [io EXCEPT !.pc = l]

IoExit ==
    /\ io.pc = "snapshot" /\ mgr.phase # "run"
    /\ IoGoto("exited")
    /\ UNCHANGED <<obj, tcp, mgr, slot, op, sock, wire, backlog>>

Snapshot ==
    /\ io.pc = "snapshot" /\ mgr.phase = "run"
    /\ io' = [io EXCEPT !.pc = "select", !.tmpset = tcp.set]
    /\ UNCHANGED <<obj, tcp, mgr, slot, op, sock, wire, backlog>>

(* select on the snapshot, up to the current fdmax; EBADF when it names a  *)
(* descriptor that has been closed.                                        *)
Select ==
    LET polled == {f \in io.tmpset : f <= tcp.fdmax}
        ready == IF polled \subseteq OpenFd
                 THEN {f \in polled : ReadyToRead(f)} ELSE {}
    IN
    /\ io.pc = "select"
    /\ io' = [io EXCEPT !.tmpset = ready,
                        !.pc = IF ready = {} THEN "snapshot" ELSE "scan"]
    /\ UNCHANGED <<obj, tcp, mgr, slot, op, sock, wire, backlog>>

(* The loop over the ready descriptors, in increasing order, up to fdmax as *)
(* it is at each turn.                                                     *)
Scanning == {f \in io.tmpset : f <= tcp.fdmax}

ScanDone ==
    /\ io.pc = "scan" /\ Scanning = {}
    /\ IoGoto("snapshot")
    /\ UNCHANGED <<obj, tcp, mgr, slot, op, sock, wire, backlog>>

(* A new connection: the mutex is taken and kept during the handshake.     *)
Accept ==
    LET f == Lowest(FreeFd)
        h == Head(backlog)
    IN
    /\ io.pc = "scan" /\ Scanning # {} /\ Lowest(Scanning) = tcp.listen_sck
    /\ FreeFd # {}
    /\ Register(h, f)
    /\ obj' = [obj EXCEPT ![h].fd = f, ![h].life = "live"]
    /\ backlog' = Tail(backlog)
    /\ io' = [pc |-> "handshake", h |-> h, tmpset |-> io.tmpset \ {tcp.listen_sck}]
    /\ UNCHANGED <<mgr, slot, op, wire>>

(* addinQ puts a handle in the ready queue, wrapped in a HandleUser.       *)
MutUncounted(h) ==
    mgr' = [mgr EXCEPT !.handleReady = Append(@, h)] /\ UNCHANGED obj
Enqueue(h) ==
    /\ mgr' = [mgr EXCEPT !.handleReady = Append(@, h)]
    /\ obj' = [obj EXCEPT ![h].counter = @ + 1]

(* addinQ(true, h): connectionHandshake, one frame at a time.  A p2p       *)
(* connection goes to the ready queue in a new HandleUser, a team's to     *)
(* groupsReady, one that ends or fails nowhere.                            *)
Handshake ==
    LET h == io.h
        frame == Head(wire[h].in)
    IN
    /\ io.pc = "handshake" /\ wire[h].in # <<>>
    /\ wire' = Consume(h)
    /\ CASE frame = "p2p" -> Enqueue(h)
         [] frame = "id"  -> /\ mgr' = [mgr EXCEPT !.groupsReady = @ \union {h}]
                             /\ UNCHANGED obj
         [] OTHER         -> UNCHANGED <<mgr, obj>>
    /\ io' = IF frame = "team" THEN io ELSE [io EXCEPT !.pc = "scan", !.h = NoHandle]
    /\ UNCHANGED <<tcp, slot, op, sock, backlog>>

(* A connection with something to read leaves the set and, if it is still  *)
(* registered, goes to the queue: addinQ(false, h).                        *)
Deliver ==
    LET f == Lowest(Scanning)
        h == tcp.connections[f]
    IN
    /\ io.pc = "scan" /\ Scanning # {} /\ f # tcp.listen_sck
    /\ io' = [io EXCEPT !.tmpset = @ \ {f}]
    /\ tcp' = FdClr(f)
    /\ IF h = NoHandle THEN UNCHANGED <<mgr, obj>> ELSE Enqueue(h)
    /\ UNCHANGED <<slot, op, sock, wire, backlog>>

IoThread == \/ IoExit \/ Snapshot \/ Select \/ ScanDone \/ Accept \/ Handshake
            \/ Deliver

(***************************************************************************)
(* The peers (MTCL processes themselves): connect, handshake, messages,    *)
(* HandleUser::close, or a crash before EOS.                               *)
(***************************************************************************)
PeerConnect(h) ==
    /\ tcp.listen_sck # NoFd /\ wire[h].peer = "none"
    /\ wire' = [wire EXCEPT ![h].peer = "new"]
    /\ backlog' = Append(backlog, h)
    /\ UNCHANGED <<obj, tcp, io, mgr, slot, op, sock>>

(* The peer goes from one state to another, leaving frames to read.        *)
PeerStep(h, from, frames, to) ==
    /\ wire[h].peer = from /\ Len(frames) <= NetCap
    /\ wire' = [wire EXCEPT ![h].peer = to, ![h].in = frames]
    /\ UNCHANGED <<obj, tcp, io, mgr, slot, op, sock, backlog>>

PeerHello(h) == \/ PeerStep(h, "new", <<"p2p">>, "open")
                \/ PeerStep(h, "new", <<"team">>, "named")
                \/ PeerStep(h, "named", wire[h].in \o <<"id">>, "open")
PeerSend(h)  == PeerStep(h, "open", wire[h].in \o <<"msg", "body">>, "open")
PeerClose(h) == PeerStep(h, "open", wire[h].in \o <<"eos", "fin">>, "shut")

(* It ends, possibly between the header and the payload of a message; a    *)
(* reset may cost what has not been read yet.                              *)
PeerCrash(h) == \E from \in {"new", "named", "open"} :
    \E frames \in {wire[h].in} \union
         IF "torn" \in Crash /\ from = "open" THEN {wire[h].in \o <<"msg">>} ELSE {} :
      \/ "fin" \in Crash /\ PeerStep(h, from, frames \o <<"fin">>, "shut")
      \/ "rst" \in Crash /\ \/ PeerStep(h, from, frames \o <<"rst">>, "reset")
                            \/ PeerStep(h, from, <<"rst">>, "reset")

Peer(h) == PeerConnect(h) \/ PeerHello(h) \/ PeerSend(h) \/ PeerClose(h) \/ PeerCrash(h)

(***************************************************************************)
(* The specification.                                                      *)
(***************************************************************************)
Operation(t) ==
    \/ Listen(t)
    \/ \E s \in Slot : \/ GetNext(t, s) \/ Send(t, s) \/ Probe(t, s)
                       \/ Receive(t, s) \/ Close(t, s) \/ Yield(t, s)
                       \/ Destroy(t, s)
                       \/ \E h \in Handle, ok \in BOOLEAN : Connect(t, s, h, ok)

(* finalize has returned and the program has destroyed its wrappers.       *)
Terminated ==
    /\ mgr.phase = "done"
    /\ \A t \in Thread : At(t, "idle") /\ \A s \in Slot : slot[t][s] = Empty
    /\ UNCHANGED vars

Next == \/ IoThread
        \/ \E t \in Thread : Operation(t) \/ Step(t)
        \/ Finalization
        \/ \E h \in Handle : Peer(h)
        \/ Terminated

Spec == Init /\ [][Next]_vars

(* The operating system runs every thread that can run, and finalize goes  *)
(* on once it has been called.  Nothing is assumed of the peers.           *)
FairSpec == /\ Spec
            /\ WF_vars(IoThread)
            /\ \A t \in Thread : WF_vars(Step(t))
            /\ WF_vars(Join \/ EndNext \/ EndDone \/ DrainSkip \/ Drain)

-----------------------------------------------------------------------------
(***************************************************************************)
(* Properties.                                                             *)
(***************************************************************************)
Types ==
    /\ obj \in [Handle -> HandleObject] /\ tcp \in TcpState /\ io \in IoState
    /\ mgr \in MgrState /\ slot \in [Thread -> [Slot -> Wrapper]]
    /\ op \in [Thread -> Activity] /\ sock \in [FD -> MaybeHandle]
    /\ wire \in [Handle -> Stream] /\ backlog \in Seq(Handle)

BusyThreads ==
    \A t \in Thread :
      /\ op[t].pc \notin {"idle", "next"} => op[t].h \in Handle
      /\ op[t].pc \in {"yield", "forget", "closefd"} => op[t].fd \in FD

BusyIo ==
    /\ io.pc = "handshake" => io.h \in Handle /\ tcp.listen_sck \notin io.tmpset
    /\ io.pc = "scan" /\ tcp.listen_sck \in io.tmpset => backlog # <<>>

(* Every variable stays in its type; a thread inside a call has a Handle,  *)
(* and a descriptor where it uses one; accept is called when a connection  *)
(* is waiting.                                                             *)
TypeOK == Types /\ BusyThreads /\ BusyIo

(* fdmax, kept up by hand in update, notify_close, notify_yield and listen, *)
(* is the largest descriptor of the set: select looks at nothing above it. *)
FdmaxIsMax ==
    IF tcp.set = {} THEN tcp.fdmax = NoFd
                    ELSE tcp.fdmax \in tcp.set /\ \A f \in tcp.set : f <= tcp.fdmax

(* Who may read from h next: a readable HandleUser or the thread that is   *)
(* closing its read side, the ready queue, a thread inside yield, the      *)
(* select set, the IO thread in the handshake, or a team.                  *)
Wrappers(h) == {w \in Thread \X Slot : slot[w[1]][w[2]].real = h}
Readers(h) == {w \in Wrappers(h) : slot[w[1]][w[2]].readable}
Doing(h, ls) == {t \in Thread : op[t].h = h /\ op[t].pc \in ls}
Queued(h) == {i \in DOMAIN mgr.handleReady : mgr.handleReady[i] = h}
Closers(h) == {t \in Doing(h, {"eos", "mark"}) : op[t].rd}
One(b) == IF b THEN 1 ELSE 0
Owners(h) ==
    (IF Readers(h) # {} THEN Cardinality(Readers(h)) ELSE Cardinality(Closers(h)))
    + Cardinality(Doing(h, {"yield"})) + Cardinality(Queued(h))
    + One(obj[h].fd \in tcp.set) + One(io.h = h) + One(h \in mgr.groupsReady)

Running == mgr.phase \in {"run", "join"}

(* A connection that is still open for reading has exactly one owner among *)
(* program, queue, select set and IO thread, at every step of getNext,     *)
(* yield, ~HandleUser, update and addinQ: two owners would read one stream *)
(* together, none would lose its messages.  The exception is a connection  *)
(* that died in its handshake, which nobody gets.                          *)
DiedInHandshake(h) == wire[h].peer \in {"shut", "reset"} /\ obj[h].counter = 0
OneOwner ==
    Running =>
      \A h \in Handle : obj[h].life = "live" /\ ~obj[h].closed_rd =>
        Owners(h) = 1 \/ (Owners(h) = 0 /\ DiedInHandshake(h))

(* The connection table, the handles and the descriptors agree: a          *)
(* registered handle exists and owns the descriptor it is filed under, and *)
(* a handle is registered until its read side is closed.  Until finalize,  *)
(* select polls only descriptors whose connection is registered and open   *)
(* for reading: the EBADF update expects does not happen, and a closed     *)
(* descriptor that the kernel gives to a new connection is never polled    *)
(* for the old one.                                                        *)
SetIsOpen ==
    Running => \A f \in tcp.set \ {tcp.listen_sck} :
        /\ tcp.connections[f] # NoHandle
        /\ ~obj[tcp.connections[f]].closed_rd
TableExact ==
    /\ SetIsOpen
    /\ \A f \in FD : LET h == tcp.connections[f] IN
          h # NoHandle => obj[h].life = "live" /\ obj[h].fd = f /\ sock[f] = h
    /\ \A h \in Handle : obj[h].life = "live" /\ ~obj[h].closed_rd =>
          obj[h].fd # NoFd /\ tcp.connections[obj[h].fd] = h

(* close(fd) and the erasure from the table that goes before it hit the    *)
(* connection's own descriptor, never one that has been given up.          *)
ClosesOwnSocket ==
    \A t \in Thread : op[t].pc \in {"forget", "closefd"} =>
        sock[op[t].fd] = op[t].h

(* The reference counter counts the HandleUser objects of the program, of  *)
(* the destructors in progress and of the ready queue.                     *)
RefCountExact ==
    \A h \in Handle : obj[h].counter =
        Cardinality(Wrappers(h)) + Cardinality(Queued(h))
        + Cardinality({t \in Doing(h, {"yield", "decr"}) : op[t].then = "decr"})

(* A Handle is deleted once, and nothing refers to it afterwards: no       *)
(* HandleUser, queue, table, team or call in progress.                     *)
NoDangling ==
    \A h \in Handle :
      /\ obj[h].life # "double"
      /\ obj[h].life = "freed" =>
           /\ Wrappers(h) = {} /\ Queued(h) = {} /\ Doing(h, PC \ {"next"}) = {}
           /\ \A f \in FD : tcp.connections[f] # h
           /\ Running => h \notin mgr.groupsReady

(* A connection closed on both sides gives up its descriptor and, when the *)
(* last HandleUser is gone, its Handle, whatever the order of EOS, close   *)
(* and destructors.                                                        *)
Reclaimed ==
    \A h \in Handle :
      (obj[h].closed_rd /\ obj[h].closed_wr /\ Doing(h, PC \ {"next"}) = {}) =>
        /\ obj[h].fd = NoFd
        /\ Wrappers(h) = {} /\ Queued(h) = {} => obj[h].life = "freed"

(* EOS is written once and is the last thing written on a connection.      *)
EOSIsLast == \A h \in Handle : wire[h].out # "late"

(* What ConnTcp::end does achieve: it closes every connection on both sides *)
(* except the ones whose EOS the program has read and not answered, which  *)
(* have left the table it goes through.                                    *)
FinalizeClosesRegistered ==
    mgr.phase = "done" =>
      \A h \in Handle : obj[h].life = "live" =>
        \/ obj[h].closed_rd /\ obj[h].probed = "eos"
        \/ obj[h].closed_rd /\ obj[h].closed_wr /\ obj[h].fd = NoFd
        \/ BlockFlag /\ wire[h].peer = "reset"

(* The process keeps the contract of HandleContract: each connection has   *)
(* one owner, update queues it only when there is something to read, nobody *)
(* else reads from it, and it is never handed out after its EOS.           *)
OwnerOf(h) ==
    IF obj[h].life = "none" THEN "none"
    ELSE IF obj[h].life # "live" \/ obj[h].closed_rd THEN "closed"
    ELSE IF io.h = h THEN "handshake"
    ELSE IF h \in mgr.groupsReady THEN "team"
    ELSE IF Queued(h) # {} THEN "ready"
    ELSE IF obj[h].fd \in tcp.set THEN "managed"
    ELSE IF \/ Readers(h) # {} \/ Doing(h, {"yield"}) # {}
            \/ Running /\ Closers(h) # {}
         THEN "user"
    ELSE "lost"

Contract == INSTANCE HandleContract WITH
    owner <- [h \in Handle |-> OwnerOf(h)],
    avail <- [h \in Handle |-> wire[h].in # <<>>],
    ending <- ~Running

KeepsContract == Contract!Spec

(* The IO thread waits for the handshake of a peer that is silent, inside  *)
(* the mutex that connect, yield and close of any other connection need.   *)
AwaitsPeer == io.pc = "handshake" /\ wire[io.h].in = <<>>

(* A connection in the select set that has something to read reaches the   *)
(* ready queue or the program, unless finalize comes first, or the IO      *)
(* thread waits for ever for a peer that has connected and stays silent.   *)
Served(h) == \/ (obj[h].fd \in tcp.set /\ wire[h].in # <<>>) ~>
                   (obj[h].fd \notin tcp.set \/ mgr.phase # "run")
             \/ <>[]AwaitsPeer

(* The loop of setAsClosed after the end of a stream without EOS: probe    *)
(* reads 0 for ever, and the size never becomes 0.                         *)
Spins == /\ BlockFlag /\ At(Main, "drain") /\ ~obj[op[Main].h].closed_rd
         /\ wire[op[Main].h].in = <<"fin">>

(* Manager::finalize returns, whatever the program has left open, with two *)
(* exceptions: the IO thread it joins waits for ever for a silent peer, or *)
(* it was told to wait for EOS and a stream has ended without (Spins).  A  *)
(* reset that nothing was written after does not keep it.                  *)
FinalizeReturns == \/ (mgr.phase = "join") ~> (mgr.phase = "done" \/ Spins)
                   \/ <>[]AwaitsPeer
=============================================================================
