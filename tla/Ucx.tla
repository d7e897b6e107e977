-------------------------------- MODULE Ucx --------------------------------
(***************************************************************************)
(* Two MTCL processes that talk over the UCX transport (protocols/ucx.hpp): *)
(* HandleUCX and its outstanding receive request, ConnUCX with its table   *)
(* of endpoints, the exchange of addresses over a socket, and the worker's *)
(* stream poll, which reports an endpoint once for every arrival of data   *)
(* and never again.  Each process has one thread of the program and the    *)
(* Manager's IO thread.  A critical section of ConnUCX's mutex shm is one  *)
(* step, except the one in which the IO thread waits for a handshake.      *)
(* Data moves from the sender to the receiving worker in one step: a slow  *)
(* network is a slow sender.  Definitions named Mut... are wrong variants  *)
(* of the definition they go before.                                       *)
(***************************************************************************)
EXTENDS Naturals, Sequences, FiniteSets

CONSTANTS
    Conn,       \* the connections
    Proc,       \* the two processes
    Caller,     \* the process that connects, for each connection
    MaxSend,    \* messages a process sends on a connection (bound)
    BlockFlag   \* the argument of each process's Manager::finalize

ASSUME ProcAssumption == \E p, q \in Proc : p # q /\ Proc = {p, q}
ASSUME ConnAssumption == Conn # {}
ASSUME CallerAssumption == Caller \in [Conn -> Proc]
ASSUME BoundAssumption == MaxSend \in [Proc -> Nat]
ASSUME FlagAssumption == BlockFlag \in [Proc -> BOOLEAN]

Other(p) == CHOOSE q \in Proc : q # p
Callee(c) == Other(Caller[c])

VARIABLES
    h,          \* the HandleUCX of each end of a connection, and its entry
                \* in "connections" (reg, to_manage)
    rx,         \* UCX: data a worker holds for an endpoint, in frames
    ready,      \* UCX: endpoints the next ucp_stream_worker_poll reports
    oob,        \* the socket over which the addresses are exchanged
    queue,      \* Manager::handleReady, as how often each handle is in it
    user,       \* the HandleUser of the program: none, held (readable), given
    main,       \* the program's thread: pc, c, where to go on, and what
                \* ConnUCX::end has still to close
    io,         \* the IO thread in ConnUCX::update: pc, c, polled, listening
    sent        \* messages sent by each end (bounded by MaxSend)

vars == <<h, rx, ready, oob, queue, user, main, io, sent>>

(* Header and payload of a message; EOS and the bytes that go with it.     *)
Frame == {"hdr", "body", "eos", "pad"}

HandleUCX == [ep : {"none", "open", "closed"}, reg : BOOLEAN, to_manage : BOOLEAN,
              request : {"none", "posted", "done"}, test_probe : Frame,
              last_probe : Frame \union {"none"}, probed : Frame \union {"none"},
              closed_rd : BOOLEAN, closed_wr : BOOLEAN, lost : BOOLEAN]
NewHandle == [ep |-> "none", reg |-> FALSE, to_manage |-> FALSE,
              request |-> "none", test_probe |-> "hdr", last_probe |-> "none",
              probed |-> "none", closed_rd |-> FALSE, closed_wr |-> FALSE,
              lost |-> FALSE]
Idling == [pc |-> "idle", c |-> CHOOSE c \in Conn : TRUE, then |-> "idle", todo |-> {}]

(* The state after Manager::init.                                          *)
Init ==
    /\ h = [c \in Conn |-> [p \in Proc |-> NewHandle]]
    /\ rx = [c \in Conn |-> [p \in Proc |-> <<>>]]
    /\ ready = [p \in Proc |-> {}]
    /\ oob = [c \in Conn |-> "none"]
    /\ queue = [p \in Proc |-> [c \in Conn |-> 0]]
    /\ user = [p \in Proc |-> [c \in Conn |-> "none"]]
    /\ main = [p \in Proc |-> Idling]
    /\ io = [p \in Proc |-> [pc |-> "start", c |-> Idling.c, polled |-> {},
                             listening |-> FALSE]]
    /\ sent = [c \in Conn |-> [p \in Proc |-> 0]]

(***************************************************************************)
(* The UCX library: a stream per endpoint.                                 *)
(***************************************************************************)
Reaches(c, p) == h[c][p].ep = "open" /\ h[c][Other(p)].ep # "closed"

(* Data that arrives fills a posted request first.                         *)
Posted(c, q) == h[c][q].request = "posted"
Left(c, q, frames) == IF Posted(c, q) THEN Tail(frames) ELSE frames

(* ucp_stream_send_nbx: what the peer's worker does with the data, and the *)
(* ends in hs after it.  Data for or from a closed endpoint is lost.       *)
Transmit(c, p, frames) ==
    LET q == Other(p) IN
    IF ~Reaches(c, p) THEN UNCHANGED <<rx, ready>>
    ELSE /\ rx' = [rx EXCEPT ![c][q] = @ \o Left(c, q, frames)]
         /\ ready' = [ready EXCEPT ![q] = IF Left(c, q, frames) = <<>> THEN @
                                          ELSE @ \union {c}]

Transmitted(hs, c, p, frames) ==
    IF ~Reaches(c, p) THEN [hs EXCEPT ![c][p].lost = TRUE]
    ELSE IF Posted(c, Other(p))
         THEN [hs EXCEPT ![c][Other(p)].request = "done",
                         ![c][Other(p)].test_probe = Head(frames)]
         ELSE hs

(* An endpoint whose data has all been read is not reported any more.      *)
Drained(c, p, rest) ==
    /\ rx' = [rx EXCEPT ![c][p] = rest]
    /\ ready' = IF rest = <<>> THEN [ready EXCEPT ![p] = @ \ {c}] ELSE ready

(* ucp_stream_worker_poll reports up to n endpoints and forgets them.      *)
Reported(p, n) ==
    LET m == IF Cardinality(ready[p]) <= n THEN Cardinality(ready[p]) ELSE n
    IN  {T \in SUBSET ready[p] : Cardinality(T) = m}

(***************************************************************************)
(* HandleUCX.                                                              *)
(***************************************************************************)
Message == <<"hdr", "body">>

(* sendEOS: the four bytes after the header are what the poll reports when *)
(* a posted request has taken the header.                                  *)
MutEOSAlone == <<"eos">>
EOS == <<"eos", "pad">>

(* receive_internal of a header: from the request posted by an earlier     *)
(* probe once it is complete, or from the data already there.              *)
HeaderThere(c, p) == \/ h[c][p].last_probe # "none"
                     \/ h[c][p].request = "done"
                     \/ h[c][p].request = "none" /\ rx[c][p] # <<>>
Header(c, p) == IF h[c][p].last_probe # "none" THEN h[c][p].last_probe
                ELSE IF h[c][p].request = "done" THEN h[c][p].test_probe
                ELSE Head(rx[c][p])

(* HandleUCX::probe: the handle and the stream after it.  A header that was *)
(* read before is returned again; with EOS the bytes after it are read.    *)
MutProbeAgain(c, p) ==
    LET rest == IF h[c][p].request = "done" THEN rx[c][p] ELSE Tail(rx[c][p])
    IN  IF Header(c, p) = "eos" /\ rest # <<>> THEN Tail(rest) ELSE rest
AfterHeader(c, p) ==
    LET rest == IF h[c][p].request = "done" THEN rx[c][p] ELSE Tail(rx[c][p])
    IN  IF h[c][p].last_probe # "none" THEN rx[c][p]
        ELSE IF Header(c, p) = "eos" /\ rest # <<>> THEN Tail(rest) ELSE rest

Probed(c, p) == [h EXCEPT ![c][p].request = IF h[c][p].last_probe # "none" THEN @
                                            ELSE "none",
                          ![c][p].last_probe = Header(c, p)]

(* A non-blocking probe that finds nothing leaves its request behind.      *)
Post(c, p) == [h EXCEPT ![c][p].request = "posted"]

(***************************************************************************)
(* The program's thread.                                                   *)
(***************************************************************************)
At(p, l) == main[p].pc = l
Idle(p) == At(p, "idle")
Goto(p, l) == main' = [main EXCEPT ![p].pc = l]
Call(p, l, c, k) == main' = [main EXCEPT ![p].pc = l, ![p].c = c, ![p].then = k]

(* The mutex can be taken: the IO thread is not waiting for a handshake.   *)
LockFree(p) == io[p].pc # "handshake"

Listen(p) ==
    /\ Idle(p) /\ ~io[p].listening /\ \E c \in Conn : Callee(c) = p
    /\ io' = [io EXCEPT ![p].listening = TRUE]
    /\ UNCHANGED <<h, rx, ready, oob, queue, user, main, sent>>

(* ConnUCX::connect up to the wait for the peer's address.                 *)
Connect(p, c) ==
    /\ Idle(p) /\ Caller[c] = p /\ oob[c] = "none" /\ io[Callee(c)].listening
    /\ oob' = [oob EXCEPT ![c] = "called"]
    /\ Call(p, "dial", c, "idle")
    /\ UNCHANGED <<h, rx, ready, queue, user, io, sent>>

(* The rest of exchange_address, and ucp_ep_create; or the peer has ended  *)
(* and the socket with it, and connect returns nullptr.                    *)
ConnectAnswered(p) ==
    LET c == main[p].c IN
    /\ At(p, "dial")
    /\ \/ oob[c] = "answered" /\ Goto(p, "insert")
          /\ h' = [h EXCEPT ![c][p].ep = "open"] /\ UNCHANGED oob
       \/ oob[c] = "called" /\ At(Callee(c), "done") /\ Goto(p, "idle")
          /\ oob' = [oob EXCEPT ![c] = "failed"] /\ UNCHANGED h
    /\ UNCHANGED <<rx, ready, queue, user, io, sent>>

(* The table entry, and the handshake that Manager::connect sends.         *)
ConnectInsert(p) ==
    LET c == main[p].c IN
    /\ At(p, "insert") /\ LockFree(p)
    /\ h' = Transmitted([h EXCEPT ![c][p].reg = TRUE], c, p, Message)
    /\ Transmit(c, p, Message)
    /\ user' = [user EXCEPT ![p][c] = "held"]
    /\ Goto(p, "idle")
    /\ UNCHANGED <<oob, queue, io, sent>>

GetNext(p, c) ==
    /\ Idle(p) /\ queue[p][c] > 0
    /\ queue' = [queue EXCEPT ![p][c] = @ - 1]
    /\ user' = [user EXCEPT ![p][c] = "held"]
    /\ UNCHANGED <<h, rx, ready, oob, main, io, sent>>

Send(p, c) ==
    /\ Idle(p) /\ user[p][c] # "none" /\ ~h[c][p].closed_wr /\ sent[c][p] < MaxSend[p]
    /\ sent' = [sent EXCEPT ![c][p] = @ + 1]
    /\ h' = Transmitted(h, c, p, Message)
    /\ Transmit(c, p, Message)
    /\ UNCHANGED <<oob, queue, user, main, io>>

(* HandleUser::probe, blocking or not, when it returns a header; at EOS it *)
(* closes the read side.                                                   *)
MayRead(p, c) == user[p][c] = "held" /\ ~h[c][p].closed_rd
Probe(p, c) ==
    LET eos == Header(c, p) = "eos" IN
    /\ Idle(p) /\ MayRead(p, c) /\ h[c][p].probed = "none" /\ HeaderThere(c, p)
    /\ Drained(c, p, AfterHeader(c, p))
    /\ h' = [Probed(c, p) EXCEPT ![c][p].probed = Header(c, p),
                                 ![c][p].closed_rd = eos]
    /\ user' = IF eos THEN [user EXCEPT ![p][c] = "given"] ELSE user
    /\ IF eos THEN Call(p, "notify", c, "idle") ELSE UNCHANGED main
    /\ UNCHANGED <<oob, queue, io, sent>>

(* HandleUser::probe, non-blocking, with nothing to read.                  *)
ProbeNothing(p, c) ==
    /\ Idle(p) /\ MayRead(p, c) /\ h[c][p].probed = "none" /\ ~HeaderThere(c, p)
    /\ h' = Post(c, p)
    /\ UNCHANGED <<rx, ready, oob, queue, user, main, io, sent>>

Received(c, p) == [h EXCEPT ![c][p].probed = "none", ![c][p].last_probe = "none"]

Receive(p, c) ==
    /\ Idle(p) /\ MayRead(p, c) /\ h[c][p].probed = "hdr" /\ rx[c][p] # <<>>
    /\ h' = Received(c, p)
    /\ Drained(c, p, Tail(rx[c][p]))
    /\ UNCHANGED <<oob, queue, user, main, io, sent>>

(* Handle::close(true, false) up to notify_close; a second close does      *)
(* nothing.                                                                *)
Close(p, c) ==
    /\ Idle(p) /\ user[p][c] # "none" /\ ~h[c][p].closed_wr
    /\ h' = Transmitted([h EXCEPT ![c][p].closed_wr = TRUE], c, p, EOS)
    /\ Transmit(c, p, EOS)
    /\ Call(p, "notify", c, "idle")
    /\ UNCHANGED <<oob, queue, user, io, sent>>

(* notify_close with the handle's flags: it returns at once on a handle    *)
(* that was closed before.                                                 *)
MutCloseAnySide(c, p) == h[c][p].reg
ClosesEndpoint(c, p) == h[c][p].reg /\ h[c][p].closed_rd

NotifyClose(p) ==
    LET c == main[p].c IN
    /\ At(p, "notify") /\ LockFree(p)
    /\ h' = IF ClosesEndpoint(c, p)
            THEN [h EXCEPT ![c][p].reg = FALSE, ![c][p].to_manage = FALSE,
                           ![c][p].ep = "closed"]
            ELSE h
    /\ ready' = IF ClosesEndpoint(c, p) THEN [ready EXCEPT ![p] = @ \ {c}] ELSE ready
    /\ Goto(p, main[p].then)
    /\ UNCHANGED <<rx, oob, queue, user, io, sent>>

(* HandleUser::yield -> notify_yield: a probe without the mutex, and the   *)
(* handle goes back to the queue or, in a second step, to the table.       *)
Yield(p, c) ==
    /\ Idle(p) /\ MayRead(p, c)
    /\ user' = [user EXCEPT ![p][c] = "given"]
    /\ IF HeaderThere(c, p)
       THEN /\ h' = Probed(c, p) /\ Drained(c, p, AfterHeader(c, p))
            /\ queue' = [queue EXCEPT ![p][c] = @ + 1] /\ UNCHANGED main
       ELSE /\ h' = Post(c, p) /\ Call(p, "mark", c, "idle")
            /\ UNCHANGED <<rx, ready, queue>>
    /\ UNCHANGED <<oob, io, sent>>

MarkManaged(p) ==
    /\ At(p, "mark") /\ LockFree(p)
    /\ h' = [h EXCEPT ![main[p].c][p].to_manage = TRUE]
    /\ Goto(p, "idle")
    /\ UNCHANGED <<rx, ready, oob, queue, user, io, sent>>

(***************************************************************************)
(* Manager::finalize and ConnUCX::end.                                     *)
(***************************************************************************)
Finalize(p) ==
    /\ Idle(p)
    /\ Goto(p, "join")
    /\ UNCHANGED <<h, rx, ready, oob, queue, user, io, sent>>

Join(p) ==
    /\ At(p, "join") /\ io[p].pc = "exited"
    /\ main' = [main EXCEPT ![p].pc = "end", ![p].todo = {c \in Conn : h[c][p].reg}]
    /\ UNCHANGED <<h, rx, ready, oob, queue, user, io, sent>>

EndNext(p) == \E c \in main[p].todo :
    /\ At(p, "end")
    /\ h' = IF h[c][p].closed_wr THEN h
            ELSE Transmitted([h EXCEPT ![c][p].closed_wr = TRUE], c, p, EOS)
    /\ IF h[c][p].closed_wr THEN UNCHANGED <<rx, ready>> ELSE Transmit(c, p, EOS)
    /\ main' = [main EXCEPT ![p].pc = "notify", ![p].c = c, ![p].then = "drain",
                            ![p].todo = @ \ {c}]
    /\ UNCHANGED <<oob, queue, user, io, sent>>

(* One turn of the loop of setAsClosed that waits for EOS and drops what   *)
(* comes before it.                                                        *)
Drain(p) ==
    LET c == main[p].c
        rest == AfterHeader(c, p)
    IN
    /\ At(p, "drain") /\ BlockFlag[p]
    /\ HeaderThere(c, p) /\ Header(c, p) # "eos" /\ rest # <<>>
    /\ h' = [Probed(c, p) EXCEPT ![c][p].probed = "none", ![c][p].last_probe = "none"]
    /\ Drained(c, p, Tail(rest))
    /\ UNCHANGED <<oob, queue, user, main, io, sent>>

(* Its end: at EOS, or at once if finalize is not to wait.                 *)
CloseAllowed(c, p) == BlockFlag[p] => HeaderThere(c, p) /\ Header(c, p) = "eos"

CloseRead(p) ==
    LET c == main[p].c IN
    /\ At(p, "drain") /\ CloseAllowed(c, p)
    /\ h' = [h EXCEPT ![c][p].closed_rd = TRUE]
    /\ Call(p, "notify", c, "end")
    /\ UNCHANGED <<rx, ready, oob, queue, user, io, sent>>

EndDone(p) ==
    /\ At(p, "end") /\ main[p].todo = {}
    /\ Goto(p, "done")
    /\ UNCHANGED <<h, rx, ready, oob, queue, user, io, sent>>

Finalization(p) == Join(p) \/ EndNext(p) \/ Drain(p) \/ CloseRead(p) \/ EndDone(p)

(***************************************************************************)
(* The IO thread in ConnUCX::update.                                       *)
(***************************************************************************)
IoAt(p, l) == io[p].pc = l
IoGoto(p, l) == io' = [io EXCEPT ![p].pc = l]

(* Connections that wait to be accepted.                                   *)
Calls(p) == {c \in Conn : Callee(c) = p /\ oob[c] = "called"}

IoExit(p) ==
    /\ IoAt(p, "start") /\ At(p, "join")
    /\ IoGoto(p, "exited")
    /\ UNCHANGED <<h, rx, ready, oob, queue, user, main, sent>>

(* accept, exchange_address and ucp_ep_create; then the mutex is taken,    *)
(* the handle entered in the table, and the handshake waited for.          *)
Answer(p) == \E c \in Calls(p) :
    /\ IoAt(p, "start") /\ io[p].listening /\ ~At(p, "join")
    /\ oob' = [oob EXCEPT ![c] = "answered"]
    /\ h' = [h EXCEPT ![c][p].ep = "open", ![c][p].reg = TRUE]
    /\ io' = [io EXCEPT ![p].pc = "handshake", ![p].c = c]
    /\ UNCHANGED <<rx, ready, queue, user, main, sent>>

Handshake(p) ==
    LET c == io[p].c IN
    /\ IoAt(p, "handshake") /\ rx[c][p] # <<>>
    /\ Drained(c, p, SubSeq(rx[c][p], 3, Len(rx[c][p])))
    /\ queue' = [queue EXCEPT ![p][c] = @ + 1]
    /\ IoGoto(p, "poll")
    /\ UNCHANGED <<h, oob, user, main, sent>>

(* The poll, outside the mutex, for at most as many endpoints as there are *)
(* entries in the table.                                                   *)
MutOneLess(p) == Cardinality({c \in Conn : h[c][p].reg}) - 1
PollSize(p) == Cardinality({c \in Conn : h[c][p].reg})

Poll(p) ==
    /\ IoAt(p, "poll") \/ (IoAt(p, "start") /\ Calls(p) = {} /\ ~At(p, "join"))
    /\ \E T \in Reported(p, PollSize(p)) :
         /\ ready' = [ready EXCEPT ![p] = @ \ T]
         /\ io' = [io EXCEPT ![p].pc = IF T = {} THEN "start" ELSE "dispatch",
                             ![p].polled = T]
    /\ UNCHANGED <<h, rx, oob, queue, user, main, sent>>

(* The loop over the reported endpoints, inside the mutex.                 *)
MutDispatched(p) == {c \in io[p].polled : h[c][p].reg}
Dispatched(p) == {c \in io[p].polled : h[c][p].reg /\ h[c][p].to_manage}

Dispatch(p) ==
    /\ IoAt(p, "dispatch")
    /\ h' = [c \in Conn |-> IF c \in Dispatched(p)
                            THEN [h[c] EXCEPT ![p].to_manage = FALSE] ELSE h[c]]
    /\ queue' = [queue EXCEPT ![p] = [c \in Conn |->
                   IF c \in Dispatched(p) THEN @[c] + 1 ELSE @[c]]]
    /\ io' = [io EXCEPT ![p].pc = "start", ![p].polled = {}]
    /\ UNCHANGED <<rx, ready, oob, user, main, sent>>

IoThread(p) == \/ IoExit(p) \/ Answer(p) \/ Handshake(p) \/ Poll(p)
               \/ Dispatch(p)

(***************************************************************************)
(* The specification.                                                      *)
(***************************************************************************)
Operation(p) ==
    \/ Listen(p) \/ Finalize(p)
    \/ \E c \in Conn : \/ Connect(p, c) \/ GetNext(p, c) \/ Send(p, c)
                       \/ Probe(p, c) \/ ProbeNothing(p, c) \/ Receive(p, c)
                       \/ Close(p, c) \/ Yield(p, c)

(* A call in progress goes on by itself.                                   *)
Step(p) == \/ ConnectAnswered(p) \/ ConnectInsert(p) \/ NotifyClose(p)
           \/ MarkManaged(p) \/ Finalization(p)

Next == \E p \in Proc : Operation(p) \/ Step(p) \/ IoThread(p)

Spec == Init /\ [][Next]_vars

(* The operating system runs both threads of both processes.               *)
FairSpec == Spec /\ \A p \in Proc : WF_vars(Step(p)) /\ WF_vars(IoThread(p))

-----------------------------------------------------------------------------
(***************************************************************************)
(* Properties.                                                             *)
(***************************************************************************)
(* Every variable stays in its type, and every count within its bound.     *)
TypeOK ==
    /\ h \in [Conn -> [Proc -> HandleUCX]]
    /\ rx \in [Conn -> [Proc -> Seq(Frame)]]
    /\ ready \in [Proc -> SUBSET Conn]
    /\ oob \in [Conn -> {"none", "called", "answered", "failed"}]
    /\ queue \in [Proc -> [Conn -> 0..1]]
    /\ user \in [Proc -> [Conn -> {"none", "held", "given"}]]
    /\ main \in [Proc -> [pc : {"idle", "dial", "insert", "notify", "mark", "join",
                                "end", "drain", "done"},
                          c : Conn, then : {"idle", "drain", "end"},
                          todo : SUBSET Conn]]
    /\ io \in [Proc -> [pc : {"start", "handshake", "poll", "dispatch",
                              "exited"},
                        c : Conn, polled : SUBSET Conn, listening : BOOLEAN]]
    /\ \A c \in Conn, p \in Proc : sent[c][p] \in 0..MaxSend[p]

Running(p) == io[p].pc # "exited"
Stopping(p) == At(p, "join") \/ ~Running(p)
One(b) == IF b THEN 1 ELSE 0
Owners(c, p) == One(user[p][c] = "held") + queue[p][c] + One(h[c][p].to_manage)
                + One(main[p].pc \in {"insert", "mark"} /\ main[p].c = c)
                + One(io[p].pc = "handshake" /\ io[p].c = c)

(* Until finalize, an end that is open for reading belongs to exactly one  *)
(* of the program, the ready queue, the table and the thread that moves it: *)
(* notify_yield decides without the mutex what update decides with it.     *)
OneOwner ==
    /\ TypeOK
    /\ \A c \in Conn, p \in Proc :
      Running(p) /\ h[c][p].ep = "open" /\ ~h[c][p].closed_rd => Owners(c, p) = 1

(* Headers are read where headers are and payloads where payloads are,     *)
(* although a header may be read by a probe of the program, by the request *)
(* an earlier probe left behind, or by notify_yield, and be cached twice   *)
(* (last_probe, probed); EOS comes after everything else.                  *)
Framed ==
    \A c \in Conn, p \in Proc : LET e == h[c][p] IN
      /\ e.last_probe \in {"none", "hdr", "eos"} /\ e.test_probe \in {"hdr", "eos"}
      /\ e.last_probe = "hdr" /\ ~e.closed_rd =>
           rx[c][p] # <<>> /\ Head(rx[c][p]) = "body"
      /\ e.last_probe = "eos" => rx[c][p] = <<>>

(* When data completes the request that a probe left behind, bytes remain  *)
(* for the poll to report: the "useless" bytes of EOS are there for that.  *)
WakesPoll ==
    \A c \in Conn, p \in Proc :
      h[c][p].request = "done" /\ ~h[c][p].closed_rd => rx[c][p] # <<>>

(* notify_close closes the endpoint, for both directions, with the read    *)
(* side: before finalize it does so only when the peer's EOS has been read, *)
(* so all that the peer has sent has arrived and been read, and the peer   *)
(* sends no more.  What this end sends afterwards is lost.                 *)
ClosedIsComplete ==
    \A c \in Conn, p \in Proc :
      Running(p) /\ h[c][p].ep = "closed" =>
        /\ h[c][Other(p)].closed_wr /\ ~h[c][Other(p)].lost
        /\ rx[c][p] = <<>>

(* An arrival that the poll has still to report reaches a connection that  *)
(* is in the table: it is queued, unless finalize stops the IO thread.     *)
EventServed ==
    \A c \in Conn, p \in Proc :
      (h[c][p].to_manage /\ c \in ready[p]) ~> (~h[c][p].to_manage \/ Stopping(p))

(* connect returns, although it waits for the peer's IO thread to answer   *)
(* and for its own to release the mutex.                                   *)
ConnectReturns == \A p \in Proc : (At(p, "dial") ~> Idle(p))

(* finalize(false) returns, whatever the peer does.                        *)
FinalizeReturns ==
    \A p \in Proc : (At(p, "join") /\ ~BlockFlag[p]) ~> At(p, "done")

(* The three together: no wait of ConnUCX goes on for ever.                *)
Progress == EventServed /\ ConnectReturns /\ FinalizeReturns

(* "Check if handle still has some data to receive, addinQ in case we have *)
(* data": a yielded connection with something to read is handed out.       *)
YieldedIsServed ==
    \A c \in Conn, p \in Proc :
      (h[c][p].to_manage /\ HeaderThere(c, p)) ~> (~h[c][p].to_manage \/ Stopping(p))
=============================================================================
