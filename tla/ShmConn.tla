------------------------------ MODULE ShmConn -------------------------------
(***************************************************************************)
(* Two MTCL processes on one host that talk through named shared-memory    *)
(* segments (protocols/shm.hpp).  Who connects creates two segments, "in"  *)
(* and "out" as it sees them, and puts their names in the listener's       *)
(* buffer; the listener opens them by name.  Both sides unlink both names  *)
(* when they close, and names are used again.  A segment is a slot for one *)
(* message (module ShmBuffer has its chunks): put waits until it is empty, *)
(* probe looks at it, get empties it, and EOS stays in it.  A critical     *)
(* section of the mutex shm is one step, and so are the few system calls   *)
(* that create or open one buffer.  Definitions named Mut... are wrong     *)
(* variants of the definition they go before.                              *)
(***************************************************************************)
EXTENDS Naturals, FiniteSets

CONSTANTS
    Conn,       \* the connections
    NoConn,     \* no connection
    Proc,       \* the two processes
    Caller,     \* the process that connects, for each connection
    Concurrent, \* values of SHM_MAX_CONCURRENT_CONN to consider
    MaxSend,    \* messages a process sends (bound)
    Yielder,    \* processes whose programs give handles back (bound)
    MaxQueue,   \* times a handle is in the ready queue at once (bound)
    BlockFlag   \* the argument of each process's Manager::finalize

ASSUME ConnAssumption == /\ IsFiniteSet(Conn) /\ Conn # {} /\ NoConn \notin Conn
                         /\ "closed" \notin Conn /\ "empty" \notin Conn
ASSUME ProcAssumption == \E p, q \in Proc : p # q /\ Proc = {p, q}
ASSUME CallerAssumption == Caller \in [Conn -> Proc]
ASSUME ConcurrentAssumption == Concurrent \subseteq Nat \ {0}
ASSUME BoundAssumption == MaxSend \in [Proc -> Nat] /\ MaxQueue \in Nat \ {0}
                           /\ Yielder \subseteq Proc
ASSUME FlagAssumption == BlockFlag \in [Proc -> BOOLEAN]

Other(p) == CHOOSE q \in Proc : q # p
Callee(c) == Other(Caller[c])

VARIABLES
    limit,      \* SHM_MAX_CONCURRENT_CONN
    shmconnid,  \* the counter of each process that makes names
    id,         \* the number in the names of a connection's segments
    names,      \* the system: the segment that a name denotes, if any
    slot,       \* what each segment holds
    connbuff,   \* the listener's buffer: closed, empty or a request
    h,          \* the HandleSHM of each end of a connection: the segments
                \* mapped as in and out, and its entry in "connections"
    queue,      \* Manager::handleReady, as how often each handle is in it
    user,       \* the HandleUser of the program: none, held (readable), given
    main,       \* the program's thread: pc, c, where to go on, what it puts,
                \* and what ConnSHM::end has still to close
    io,         \* the IO thread in ConnSHM::update: pc, c
    sent,       \* messages sent by each process (bounded by MaxSend)
    missing     \* connections whose segments the listener did not find

vars == <<limit, shmconnid, id, names, slot, connbuff, h, queue, user, main, io,
          sent, missing>>

segments == <<limit, shmconnid, id, names>>

Dir == {"in", "out"}
Ids == 0..(Cardinality(Conn) - 1)
NoId == Cardinality(Conn)
Segment == Conn \union {NoConn}

HandleSHM == [in : Segment, out : Segment, reg : BOOLEAN, to_manage : BOOLEAN,
              probed : {"none", "msg", "eos"}, closed_rd : BOOLEAN, closed_wr : BOOLEAN]
NewHandle == [in |-> NoConn, out |-> NoConn, reg |-> FALSE, to_manage |-> FALSE,
              probed |-> "none", closed_rd |-> FALSE, closed_wr |-> FALSE]
Idling == [pc |-> "idle", c |-> NoConn, then |-> "idle", what |-> "msg", todo |-> {}]

(* The state after Manager::init.                                          *)
Init ==
    /\ limit \in Concurrent
    /\ shmconnid = [p \in Proc |-> 0]
    /\ id = [c \in Conn |-> NoId]
    /\ names = [p \in Proc |-> [d \in Dir |-> [i \in Ids |-> NoConn]]]
    /\ slot = [c \in Conn |-> [d \in Dir |-> "empty"]]
    /\ connbuff = [p \in Proc |-> "closed"]
    /\ h = [c \in Conn |-> [p \in Proc |-> NewHandle]]
    /\ queue = [p \in Proc |-> [c \in Conn |-> 0]]
    /\ user = [p \in Proc |-> [c \in Conn |-> "none"]]
    /\ main = [p \in Proc |-> Idling]
    /\ io = [p \in Proc |-> [pc |-> "start", c |-> NoConn]]
    /\ sent = [p \in Proc |-> 0]
    /\ missing = {}

(* The segment an end reads from, and the one it writes to, have the names *)
(* that the connecting process gave them.                                  *)
Reads(c, p) == IF p = Caller[c] THEN "in" ELSE "out"
Writes(c, p) == IF p = Caller[c] THEN "out" ELSE "in"
InSlot(c, p) == slot[h[c][p].in][Reads(c, p)]
OutSlot(c, p) == slot[h[c][p].out][Writes(c, p)]

(* shmBuffer::close(true) of a buffer that is mapped removes its name,     *)
(* whatever the name denotes by now; of one that is not it does nothing.   *)
MutKeepName(c, p, d, ns) == ns
Unlinked(c, p, d, ns) ==
    IF (IF d = Reads(c, p) THEN h[c][p].in ELSE h[c][p].out) = NoConn THEN ns
    ELSE [ns EXCEPT ![Caller[c]][d][id[c]] = NoConn]

(***************************************************************************)
(* The program's thread.                                                   *)
(***************************************************************************)
At(p, l) == main[p].pc = l
Idle(p) == At(p, "idle")
Goto(p, l) == main' = [main EXCEPT ![p].pc = l]
Return(p) ==
    main' = [main EXCEPT ![p] = [Idling EXCEPT !.pc = main[p].then, !.todo = main[p].todo]]
Call(p, l, c, k) == main' = [main EXCEPT ![p].pc = l, ![p].c = c, ![p].then = k]
CallPut(p, c, f, k) ==
    main' = [main EXCEPT ![p].pc = "put", ![p].c = c, ![p].what = f, ![p].then = k]

Listen(p) ==
    /\ Idle(p) /\ connbuff[p] = "closed" /\ \E c \in Conn : Callee(c) = p
    /\ connbuff' = [connbuff EXCEPT ![p] = "empty"]
    /\ UNCHANGED <<segments, slot, h, queue, user, main, io, sent, missing>>

(* shm_open with O_EXCL refuses a name that is in use.                     *)
Free(p, d, n) == names[p][d][n] = NoConn

(* ConnSHM::connect: the numbers in the names go round.  If the second of  *)
(* the names is refused, the first segment stays behind.                   *)
Connect(p, c) ==
    LET n == shmconnid[p] % limit IN
    /\ Idle(p) /\ Caller[c] = p /\ id[c] = NoId
    /\ connbuff[Callee(c)] # "closed" /\ ~At(Callee(c), "done")
    /\ shmconnid' = [shmconnid EXCEPT ![p] = @ + 1]
    /\ id' = [id EXCEPT ![c] = n]
    /\ \/ ~Free(p, "in", n) /\ UNCHANGED <<names, h, main>>
       \/ /\ Free(p, "in", n) /\ ~Free(p, "out", n) /\ UNCHANGED <<h, main>>
          /\ names' = [names EXCEPT ![p]["in"][n] = c]
       \/ /\ Free(p, "in", n) /\ Free(p, "out", n) /\ Call(p, "request", c, "idle")
          /\ names' = [names EXCEPT ![p]["in"][n] = c, ![p]["out"][n] = c]
          /\ h' = [h EXCEPT ![c][p].in = c, ![c][p].out = c]
    /\ UNCHANGED <<limit, slot, connbuff, queue, user, io, sent, missing>>

(* connshm.put waits for room in the listener's buffer, which is still     *)
(* mapped here if the listener has ended.                                  *)
PutRequest(p) ==
    LET c == main[p].c IN
    /\ At(p, "request") /\ connbuff[Callee(c)] = "empty"
    /\ connbuff' = [connbuff EXCEPT ![Callee(c)] = c]
    /\ Goto(p, "insert")
    /\ UNCHANGED <<segments, slot, h, queue, user, io, sent, missing>>

(* The table entry, and the handshake that Manager::connect sends.         *)
ConnectInsert(p) ==
    LET c == main[p].c IN
    /\ At(p, "insert")
    /\ h' = [h EXCEPT ![c][p].reg = TRUE]
    /\ user' = [user EXCEPT ![p][c] = "held"]
    /\ CallPut(p, c, "msg", "idle")
    /\ UNCHANGED <<segments, slot, connbuff, queue, io, sent, missing>>

(* shmBuffer::put waits for the slot; sendEOS ends in notify_close.        *)
MutOverwrite(c, p) == TRUE
SlotFree(c, p) == OutSlot(c, p) = "empty"

Put(p) ==
    LET c == main[p].c IN
    /\ At(p, "put") /\ SlotFree(c, p)
    /\ slot' = [slot EXCEPT ![h[c][p].out][Writes(c, p)] = main[p].what]
    /\ h' = IF main[p].what = "eos" THEN [h EXCEPT ![c][p].closed_wr = TRUE] ELSE h
    /\ IF main[p].what = "eos" THEN Goto(p, "notify") ELSE Return(p)
    /\ UNCHANGED <<segments, connbuff, queue, user, io, sent, missing>>

GetNext(p, c) ==
    /\ Idle(p) /\ queue[p][c] > 0
    /\ queue' = [queue EXCEPT ![p][c] = @ - 1]
    /\ user' = [user EXCEPT ![p][c] = "held"]
    /\ UNCHANGED <<segments, slot, connbuff, h, main, io, sent, missing>>

Send(p, c) ==
    /\ Idle(p) /\ user[p][c] # "none" /\ ~h[c][p].closed_wr /\ sent[p] < MaxSend[p]
    /\ sent' = [sent EXCEPT ![p] = @ + 1]
    /\ CallPut(p, c, "msg", "idle")
    /\ UNCHANGED <<segments, slot, connbuff, h, queue, user, io, missing>>

(* HandleUser::probe when it returns a size; at EOS it closes the read     *)
(* side.                                                                   *)
MayRead(p, c) == user[p][c] = "held" /\ ~h[c][p].closed_rd
Probe(p, c) ==
    LET eos == InSlot(c, p) = "eos" IN
    /\ Idle(p) /\ MayRead(p, c) /\ h[c][p].probed = "none" /\ InSlot(c, p) # "empty"
    /\ h' = [h EXCEPT ![c][p].probed = InSlot(c, p), ![c][p].closed_rd = eos]
    /\ user' = IF eos THEN [user EXCEPT ![p][c] = "given"] ELSE user
    /\ IF eos THEN Call(p, "notify", c, "idle") ELSE UNCHANGED main
    /\ UNCHANGED <<segments, slot, connbuff, queue, io, sent, missing>>

Receive(p, c) ==
    /\ Idle(p) /\ MayRead(p, c) /\ h[c][p].probed = "msg"
    /\ h' = [h EXCEPT ![c][p].probed = "none"]
    /\ slot' = [slot EXCEPT ![h[c][p].in][Reads(c, p)] = "empty"]
    /\ UNCHANGED <<segments, connbuff, queue, user, main, io, sent, missing>>

Close(p, c) ==
    /\ Idle(p) /\ user[p][c] # "none" /\ ~h[c][p].closed_wr
    /\ CallPut(p, c, "eos", "idle")
    /\ UNCHANGED <<segments, slot, connbuff, h, queue, user, io, sent, missing>>

(* notify_close with the handle's flags: the out buffer is closed; the     *)
(* entry of the table goes before the in buffer does, since update looks   *)
(* into the buffers of the entries.                                        *)
MutUnmapFirst(c, p) == [h EXCEPT ![c][p].out = NoConn, ![c][p].in = NoConn]
Erased(c, p) == [h EXCEPT ![c][p].out = NoConn, ![c][p].reg = FALSE,
                          ![c][p].to_manage = FALSE]

NotifyClose(p) ==
    LET c == main[p].c  e == h[c][p] IN
    /\ At(p, "notify")
    /\ names' = IF e.closed_wr THEN Unlinked(c, p, Writes(c, p), names) ELSE names
    /\ h' = IF e.closed_rd THEN IF e.closed_wr THEN Erased(c, p)
                                ELSE [Erased(c, p) EXCEPT ![c][p].out = e.out]
            ELSE [h EXCEPT ![c][p].out = NoConn]
    /\ IF e.closed_rd THEN Goto(p, "unmap")
       ELSE IF main[p].then = "drain" THEN Goto(p, "drain") ELSE Return(p)
    /\ UNCHANGED <<limit, shmconnid, id, slot, connbuff, queue, user, io, sent,
                   missing>>

CloseIn(p) ==
    LET c == main[p].c IN
    /\ At(p, "unmap")
    /\ names' = Unlinked(c, p, Reads(c, p), names)
    /\ h' = [h EXCEPT ![c][p].in = NoConn]
    /\ Return(p)
    /\ UNCHANGED <<limit, shmconnid, id, slot, connbuff, queue, user, io, sent,
                   missing>>

(* HandleUser::yield -> notify_yield.                                      *)
Yield(p, c) ==
    /\ Idle(p) /\ p \in Yielder /\ MayRead(p, c)
    /\ user' = [user EXCEPT ![p][c] = "given"]
    /\ h' = [h EXCEPT ![c][p].to_manage = h[c][p].reg]
    /\ UNCHANGED <<segments, slot, connbuff, queue, main, io, sent, missing>>

(***************************************************************************)
(* Manager::finalize and ConnSHM::end, which at last removes the name of   *)
(* the listener's buffer.                                                  *)
(***************************************************************************)
Finalize(p) ==
    /\ Idle(p)
    /\ Goto(p, "join")
    /\ UNCHANGED <<segments, slot, connbuff, h, queue, user, io, sent, missing>>

Join(p) ==
    /\ At(p, "join") /\ io[p].pc = "exited"
    /\ main' = [main EXCEPT ![p].pc = "end", ![p].todo = {c \in Conn : h[c][p].reg}]
    /\ UNCHANGED <<segments, slot, connbuff, h, queue, user, io, sent, missing>>

(* setAsClosed sends EOS, unless it was sent.                              *)
EndNext(p) == \E c \in main[p].todo :
    /\ At(p, "end")
    /\ main' = [main EXCEPT ![p].pc = IF h[c][p].closed_wr THEN "drain" ELSE "put",
                            ![p].c = c, ![p].what = "eos", ![p].then = "drain",
                            ![p].todo = @ \ {c}]
    /\ UNCHANGED <<segments, slot, connbuff, h, queue, user, io, sent, missing>>

(* The loop of setAsClosed that waits for EOS and drops what comes before. *)
Drain(p) ==
    LET c == main[p].c IN
    /\ At(p, "drain") /\ BlockFlag[p] /\ InSlot(c, p) = "msg"
    /\ slot' = [slot EXCEPT ![h[c][p].in][Reads(c, p)] = "empty"]
    /\ h' = [h EXCEPT ![c][p].probed = "none"]
    /\ UNCHANGED <<segments, connbuff, queue, user, main, io, sent, missing>>

CloseRead(p) ==
    LET c == main[p].c IN
    /\ At(p, "drain") /\ (BlockFlag[p] => InSlot(c, p) = "eos")
    /\ h' = [h EXCEPT ![c][p].closed_rd = TRUE]
    /\ Call(p, "notify", c, "end")
    /\ UNCHANGED <<segments, slot, connbuff, queue, user, io, sent, missing>>

EndDone(p) ==
    /\ At(p, "end") /\ main[p].todo = {}
    /\ Goto(p, "done")
    /\ UNCHANGED <<segments, slot, connbuff, h, queue, user, io, sent, missing>>

(***************************************************************************)
(* The IO thread in ConnSHM::update.                                       *)
(***************************************************************************)
IoAt(p, l) == io[p].pc = l
IoGoto(p, l) == io' = [io EXCEPT ![p] = [pc |-> l, c |-> NoConn]]
Requested(p) == connbuff[p] \notin {"closed", "empty"}

IoExit(p) ==
    /\ IoAt(p, "start") /\ At(p, "join")
    /\ IoGoto(p, "exited")
    /\ UNCHANGED <<segments, slot, connbuff, h, queue, user, main, sent, missing>>

Taken(p) == [connbuff EXCEPT ![p] = "empty"]

(* A request: the segments are opened by name and the handle entered; if   *)
(* there is none by a name, the connection is forgotten.                   *)
Accept(p) ==
    LET c == connbuff[p]
        in == names[Caller[c]]["out"][id[c]]
        out == names[Caller[c]]["in"][id[c]]
    IN
    /\ IoAt(p, "start") /\ ~At(p, "join") /\ Requested(p)
    /\ connbuff' = Taken(p)
    /\ IF NoConn \in {in, out}
       THEN missing' = missing \union {c} /\ IoGoto(p, "poll") /\ UNCHANGED h
       ELSE /\ h' = [h EXCEPT ![c][p].in = in, ![c][p].out = out, ![c][p].reg = TRUE]
            /\ io' = [io EXCEPT ![p].pc = "handshake", ![p].c = c]
            /\ UNCHANGED missing
    /\ UNCHANGED <<segments, slot, queue, user, main, sent>>

(* addinQ(true, handle), without the mutex: the handshake is waited for,   *)
(* and the handle queued.                                                  *)
Handshake(p) ==
    LET c == io[p].c IN
    /\ IoAt(p, "handshake") /\ InSlot(c, p) # "empty"
    /\ slot' = [slot EXCEPT ![h[c][p].in][Reads(c, p)] = "empty"]
    /\ queue' = [queue EXCEPT ![p][c] = @ + 1]
    /\ IoGoto(p, "poll")
    /\ UNCHANGED <<segments, connbuff, h, user, main, sent, missing>>

(* The loop over the table: peek returns 0 or 1 and never less, and so     *)
(* every handle that was given back is queued, each time.                  *)
Polled(p) == {c \in Conn : h[c][p].reg /\ h[c][p].to_manage}

Poll(p) ==
    /\ IoAt(p, "poll") \/ (IoAt(p, "start") /\ ~Requested(p) /\ ~At(p, "join"))
    /\ queue' = [queue EXCEPT ![p] = [c \in Conn |->
                   IF c \in Polled(p) /\ @[c] < MaxQueue THEN @[c] + 1 ELSE @[c]]]
    /\ IoGoto(p, "start")
    /\ UNCHANGED <<segments, slot, connbuff, h, user, main, sent, missing>>

IoThread(p) == IoExit(p) \/ Accept(p) \/ Handshake(p) \/ Poll(p)

(***************************************************************************)
(* The specification.                                                      *)
(***************************************************************************)
Operation(p) ==
    \/ Listen(p) \/ Finalize(p)
    \/ \E c \in Conn : \/ Connect(p, c) \/ GetNext(p, c) \/ Send(p, c)
                       \/ Probe(p, c) \/ Receive(p, c)
                       \/ Close(p, c) \/ Yield(p, c)

(* A call in progress goes on by itself.                                   *)
Step(p) == \/ PutRequest(p) \/ ConnectInsert(p) \/ Put(p) \/ NotifyClose(p)
           \/ CloseIn(p) \/ Join(p) \/ EndNext(p) \/ Drain(p) \/ CloseRead(p)
           \/ EndDone(p)

Next == \E p \in Proc : Operation(p) \/ Step(p) \/ IoThread(p)

Spec == Init /\ [][Next]_vars

-----------------------------------------------------------------------------
(***************************************************************************)
(* Properties.                                                             *)
(***************************************************************************)
(* Every variable stays in its type, and every count within its bound.     *)
TypeOK ==
    /\ limit \in Concurrent
    /\ shmconnid \in [Proc -> 0..Cardinality(Conn)]
    /\ id \in [Conn -> Ids \union {NoId}]
    /\ names \in [Proc -> [Dir -> [Ids -> Segment]]]
    /\ slot \in [Conn -> [Dir -> {"empty", "msg", "eos"}]]
    /\ connbuff \in [Proc -> Conn \union {"closed", "empty"}]
    /\ h \in [Conn -> [Proc -> HandleSHM]]
    /\ queue \in [Proc -> [Conn -> 0..MaxQueue]]
    /\ user \in [Proc -> [Conn -> {"none", "held", "given"}]]
    /\ main \in [Proc -> [pc : {"idle", "request", "insert", "put", "notify", "unmap",
                                "join", "end", "drain", "done"},
                          c : Segment, then : {"idle", "drain", "end"},
                          what : {"msg", "eos"}, todo : SUBSET Conn]]
    /\ io \in [Proc -> [pc : {"start", "handshake", "poll", "exited"}, c : Segment]]
    /\ sent \in [Proc -> Nat]
    /\ missing \subseteq Conn

(* The IO thread looks only into buffers that are mapped: notify_close,    *)
(* which unmaps without the mutex, has taken the handle out of the table.  *)
PeekIsMapped ==
    /\ TypeOK
    /\ \A c \in Conn, p \in Proc :
         /\ h[c][p].reg /\ h[c][p].to_manage => h[c][p].in # NoConn
         /\ io[p].c = c => h[c][p].in # NoConn

(* As long as no number is used twice, the two ends of a connection map    *)
(* the same two segments, those that were made for it, and the listener    *)
(* finds both of every request: whoever closes first, no name goes before  *)
(* the peer has mapped the segment, since EOS waits until the handshake    *)
(* was taken.  (Once the numbers go round, the last unlink of an old       *)
(* connection can remove the names of a new one.)                          *)
OpensItsOwn ==
    limit >= Cardinality(Conn) =>
      /\ \A c \in Conn, p \in Proc : {h[c][p].in, h[c][p].out} \subseteq {c, NoConn}
      /\ missing = {}

(* A connection that both ends have closed leaves no name behind.          *)
Ended(c, p) == h[c][p].closed_rd /\ h[c][p].closed_wr /\ h[c][p].in = NoConn
               /\ h[c][p].out = NoConn
NoneLeft ==
    \A c \in Conn : (\A p \in Proc : Ended(c, p)) =>
      \A d \in Dir : names[Caller[c]][d][id[c]] # c
=============================================================================
