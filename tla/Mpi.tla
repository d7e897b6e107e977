-------------------------------- MODULE Mpi ---------------------------------
(***************************************************************************)
(* Two MTCL processes that talk over MPI messages (protocols/mpi.hpp).  A  *)
(* connection has no object of its own in MPI: a HandleMPI is a rank and a *)
(* tag, its messages are those of that rank with that tag, and its entry   *)
(* in the table "connections" has that key.  A request for a connection is *)
(* a message with MPI_CONNECTION_TAG that names the tag to use.  Each      *)
(* process has one thread of the program and the Manager's IO thread; a    *)
(* critical section of the mutex shm is one step, except the one in which  *)
(* the IO thread waits for a handshake.  Messages are small enough for the *)
(* library to buffer, and a slow network is a slow sender.  Definitions    *)
(* named Mut... are wrong variants of the definition they go before.       *)
(***************************************************************************)
EXTENDS Naturals, Sequences

CONSTANTS
    Conn,       \* the connections
    Proc,       \* the two processes
    Caller,     \* the process that connects, for each connection
    Tag,        \* the tag of its connect string "rank:tag"
    MaxSend,    \* messages a process sends (bound)
    NoConn      \* no connection

ASSUME ProcAssumption == \E p, q \in Proc : p # q /\ Proc = {p, q}
ASSUME CallerAssumption == Caller \in [Conn -> Proc]
(* The programs give each connection a tag of its own.                     *)
ASSUME TagAssumption == /\ Tag \in [Conn -> Nat]
                        /\ \A c, d \in Conn : Tag[c] = Tag[d] => c = d
ASSUME BoundAssumption == MaxSend \in [Proc -> Nat]
ASSUME ConnAssumption == Conn # {} /\ NoConn \notin Conn

MPI_CONNECTION_TAG == 0

Other(p) == CHOOSE q \in Proc : q # p
Callee(c) == Other(Caller[c])

VARIABLES
    h,          \* the HandleMPI of each end of a connection
    connections,\* the table: what each tag is entered as, and to_manage
    net,        \* MPI: messages for a process, by tag, with the connection
                \* that their sender meant
    request,    \* MPI: requests for a connection, on their way to the callee
    queue,      \* Manager::handleReady, as how often each handle is in it
    user,       \* the HandleUser of the program: none, held (readable), given
    main,       \* the program's thread: pc, c, and what ConnMPI::end has
                \* still to close
    io,         \* the IO thread in ConnMPI::update: pc, c
    sent        \* messages sent by each process (bounded by MaxSend)

vars == <<h, connections, net, request, queue, user, main, io, sent>>

Frame == {"hdr", "body", "eos"}
Tags == {Tag[c] : c \in Conn}

HandleMPI == [made : BOOLEAN, probed : Frame \union {"none"}, crossed : BOOLEAN,
              closed_rd : BOOLEAN, closed_wr : BOOLEAN]
NewHandle == [made |-> FALSE, probed |-> "none", crossed |-> FALSE,
              closed_rd |-> FALSE, closed_wr |-> FALSE]
NoEntry == [c |-> NoConn, to_manage |-> FALSE]
Idling == [pc |-> "idle", c |-> CHOOSE c \in Conn : TRUE, todo |-> {}]

(* The state after Manager::init.                                          *)
Init ==
    /\ h = [c \in Conn |-> [p \in Proc |-> NewHandle]]
    /\ connections = [p \in Proc |-> [t \in Tags |-> NoEntry]]
    /\ net = [p \in Proc |-> [t \in Tags |-> <<>>]]
    /\ request = [p \in Proc |-> <<>>]
    /\ queue = [p \in Proc |-> [c \in Conn |-> 0]]
    /\ user = [p \in Proc |-> [c \in Conn |-> "none"]]
    /\ main = [p \in Proc |-> Idling]
    /\ io = [p \in Proc |-> [pc |-> "start", c |-> Idling.c]]
    /\ sent = [p \in Proc |-> 0]

(***************************************************************************)
(* HandleMPI.                                                              *)
(***************************************************************************)
(* The messages that MPI_Recv and MPI_Iprobe with the handle's rank and    *)
(* tag match; the one with the lowest tag, where they match any tag.       *)
MutAnyTag(c, p) ==
    LET full == {t \in Tags : net[p][t] # <<>>}
    IN  IF full = {} THEN Tag[c] ELSE CHOOSE t \in full : \A u \in full : t <= u
Matched(c, p) == Tag[c]

Inbox(c, p) == net[p][Matched(c, p)]

(* Two or three MPI_Send: a header and its payload, or EOS.                *)
MPI_Send(c, p, frames) ==
    net' = [net EXCEPT ![Other(p)][Tag[c]] = @ \o [i \in DOMAIN frames |-> <<c, frames[i]>>]]

(* MPI_Recv of the n oldest messages; a handle that gets one of another    *)
(* connection is marked.                                                   *)
MPI_Recv(c, p, n) ==
    net' = [net EXCEPT ![p][Matched(c, p)] = SubSeq(@, n + 1, Len(@))]
Crossed(c, p, n) == h[c][p].crossed \/ \E i \in 1..n : Inbox(c, p)[i][1] # c

(***************************************************************************)
(* The program's thread.                                                   *)
(***************************************************************************)
At(p, l) == main[p].pc = l
Idle(p) == At(p, "idle")
Goto(p, l) == main' = [main EXCEPT ![p].pc = l]
Call(p, l, c) == main' = [main EXCEPT ![p].pc = l, ![p].c = c]

(* The mutex can be taken: the IO thread is not waiting for a handshake.   *)
LockFree(p) == io[p].pc # "handshake"

(* std::map::insert leaves an entry that is there as it is.                *)
Insert(c, p) ==
    connections' = [connections EXCEPT ![p][Tag[c]] =
                      IF @ = NoEntry THEN [c |-> c, to_manage |-> FALSE] ELSE @]

(* ConnMPI::connect refuses a tag that is not greater than                 *)
(* MPI_CONNECTION_TAG, else sends the request.                             *)
Connect(p, c) ==
    /\ Idle(p) /\ Caller[c] = p /\ ~h[c][p].made /\ Tag[c] > MPI_CONNECTION_TAG
    /\ request' = [request EXCEPT ![Other(p)] = Append(@, c)]
    /\ h' = [h EXCEPT ![c][p].made = TRUE]
    /\ Call(p, "insert", c)
    /\ UNCHANGED <<connections, net, queue, user, io, sent>>

(* The table entry, and the handshake that Manager::connect sends.         *)
MutNoHello == <<>>
Hello == <<"hdr", "body">>

ConnectInsert(p) ==
    LET c == main[p].c IN
    /\ At(p, "insert") /\ LockFree(p)
    /\ Insert(c, p)
    /\ MPI_Send(c, p, Hello)
    /\ user' = [user EXCEPT ![p][c] = "held"]
    /\ Goto(p, "idle")
    /\ UNCHANGED <<h, request, queue, io, sent>>

GetNext(p, c) ==
    /\ Idle(p) /\ queue[p][c] > 0
    /\ queue' = [queue EXCEPT ![p][c] = @ - 1]
    /\ user' = [user EXCEPT ![p][c] = "held"]
    /\ UNCHANGED <<h, connections, net, request, main, io, sent>>

Send(p, c) ==
    /\ Idle(p) /\ user[p][c] # "none" /\ ~h[c][p].closed_wr /\ sent[p] < MaxSend[p]
    /\ sent' = [sent EXCEPT ![p] = @ + 1]
    /\ MPI_Send(c, p, <<"hdr", "body">>)
    /\ UNCHANGED <<h, connections, request, queue, user, main, io>>

(* HandleUser::probe when it returns a header; at EOS it closes the read   *)
(* side.                                                                   *)
MayRead(p, c) == user[p][c] = "held" /\ ~h[c][p].closed_rd
Probe(p, c) ==
    LET f == Head(Inbox(c, p))[2] IN
    /\ Idle(p) /\ MayRead(p, c) /\ h[c][p].probed = "none" /\ Inbox(c, p) # <<>>
    /\ h' = [h EXCEPT ![c][p].probed = f, ![c][p].closed_rd = (f = "eos"),
                      ![c][p].crossed = Crossed(c, p, 1)]
    /\ MPI_Recv(c, p, 1)
    /\ user' = IF f = "eos" THEN [user EXCEPT ![p][c] = "given"] ELSE user
    /\ IF f = "eos" THEN Call(p, "notify", c) ELSE UNCHANGED main
    /\ UNCHANGED <<connections, request, queue, io, sent>>

Receive(p, c) ==
    /\ Idle(p) /\ MayRead(p, c) /\ h[c][p].probed = "hdr" /\ Inbox(c, p) # <<>>
    /\ h' = [h EXCEPT ![c][p].probed = "none", ![c][p].crossed = Crossed(c, p, 1)]
    /\ MPI_Recv(c, p, 1)
    /\ UNCHANGED <<connections, request, queue, user, main, io, sent>>

(* Handle::close(true, false) up to notify_close.                          *)
Close(p, c) ==
    /\ Idle(p) /\ user[p][c] # "none" /\ ~h[c][p].closed_wr
    /\ h' = [h EXCEPT ![c][p].closed_wr = TRUE]
    /\ MPI_Send(c, p, <<"eos">>)
    /\ Call(p, "notify", c)
    /\ UNCHANGED <<connections, request, queue, user, io, sent>>

(* notify_close with the handle's flags: whatever is entered under the     *)
(* handle's key goes.                                                      *)
Erases(c, p) == h[c][p].closed_rd

NotifyClose(p) ==
    LET c == main[p].c IN
    /\ At(p, "notify") /\ LockFree(p)
    /\ connections' = IF Erases(c, p)
                      THEN [connections EXCEPT ![p][Tag[c]] = NoEntry]
                      ELSE connections
    /\ Goto(p, "idle")
    /\ UNCHANGED <<h, net, request, queue, user, io, sent>>

(* HandleUser::yield -> notify_yield.                                      *)
Yield(p, c) ==
    /\ Idle(p) /\ MayRead(p, c) /\ LockFree(p)
    /\ user' = [user EXCEPT ![p][c] = "given"]
    /\ connections' = IF connections[p][Tag[c]] = NoEntry THEN connections
                      ELSE [connections EXCEPT ![p][Tag[c]].to_manage = TRUE]
    /\ UNCHANGED <<h, net, request, queue, main, io, sent>>

(***************************************************************************)
(* Manager::finalize and ConnMPI::end, which waits for EOS on everything   *)
(* in the table whatever finalize was told.                                *)
(***************************************************************************)
Finalize(p) ==
    /\ Idle(p)
    /\ Goto(p, "join")
    /\ UNCHANGED <<h, connections, net, request, queue, user, io, sent>>

Entered(p) == {connections[p][t].c : t \in Tags} \ {NoConn}

Join(p) ==
    /\ At(p, "join") /\ io[p].pc = "exited"
    /\ main' = [main EXCEPT ![p].pc = "end", ![p].todo = Entered(p)]
    /\ UNCHANGED <<h, connections, net, request, queue, user, io, sent>>

EOSDue(c, p) == ~h[c][p].closed_wr

(* The table is sorted by its keys, and so the lowest tag comes first.     *)
MutAnyOrder(p) == main[p].todo
FirstToClose(p) == {c \in main[p].todo : \A d \in main[p].todo : Tag[c] <= Tag[d]}

EndNext(p) == \E c \in FirstToClose(p) :
    /\ At(p, "end")
    /\ h' = [h EXCEPT ![c][p].closed_wr = TRUE]
    /\ IF EOSDue(c, p) THEN MPI_Send(c, p, <<"eos">>) ELSE UNCHANGED net
    /\ main' = [main EXCEPT ![p].pc = "drain", ![p].c = c, ![p].todo = @ \ {c}]
    /\ UNCHANGED <<connections, request, queue, user, io, sent>>

(* The loop of setAsClosed: a message that comes before EOS is dropped.  A *)
(* header that the program has probed already is not waited for again.     *)
Drain(p) ==
    LET c == main[p].c
        n == IF h[c][p].probed = "hdr" THEN 1 ELSE 2
    IN
    /\ At(p, "drain") /\ Len(Inbox(c, p)) >= n
    /\ h[c][p].probed = "hdr" \/ Head(Inbox(c, p))[2] # "eos"
    /\ h' = [h EXCEPT ![c][p].probed = "none", ![c][p].crossed = Crossed(c, p, n)]
    /\ MPI_Recv(c, p, n)
    /\ UNCHANGED <<connections, request, queue, user, main, io, sent>>

CloseRead(p) ==
    LET c == main[p].c IN
    /\ At(p, "drain") /\ h[c][p].probed = "none"
    /\ Inbox(c, p) # <<>> /\ Head(Inbox(c, p))[2] = "eos"
    /\ h' = [h EXCEPT ![c][p].closed_rd = TRUE, ![c][p].crossed = Crossed(c, p, 1)]
    /\ MPI_Recv(c, p, 1)
    /\ connections' = [connections EXCEPT ![p][Tag[c]] = NoEntry]
    /\ Goto(p, "end")
    /\ UNCHANGED <<request, queue, user, io, sent>>

EndDone(p) ==
    /\ At(p, "end") /\ main[p].todo = {}
    /\ Goto(p, "done")
    /\ UNCHANGED <<h, connections, net, request, queue, user, io, sent>>

(***************************************************************************)
(* The IO thread in ConnMPI::update.                                       *)
(***************************************************************************)
IoAt(p, l) == io[p].pc = l
IoGoto(p, l) == io' = [io EXCEPT ![p].pc = l]

IoExit(p) ==
    /\ IoAt(p, "start") /\ At(p, "join")
    /\ IoGoto(p, "exited")
    /\ UNCHANGED <<h, connections, net, request, queue, user, main, sent>>

(* A request: a handle, and inside the mutex its entry in the table.       *)
Accept(p) ==
    LET c == Head(request[p]) IN
    /\ IoAt(p, "start") /\ ~At(p, "join") /\ request[p] # <<>>
    /\ request' = [request EXCEPT ![p] = Tail(@)]
    /\ h' = [h EXCEPT ![c][p].made = TRUE]
    /\ Insert(c, p)
    /\ io' = [io EXCEPT ![p].pc = "handshake", ![p].c = c]
    /\ UNCHANGED <<net, queue, user, main, sent>>

(* addinQ(true, handle): connectionHandshake waits inside the mutex, and   *)
(* the handle is queued.                                                   *)
Handshake(p) ==
    LET c == io[p].c IN
    /\ IoAt(p, "handshake") /\ Len(Inbox(c, p)) >= 2
    /\ h' = [h EXCEPT ![c][p].crossed = Crossed(c, p, 2)]
    /\ MPI_Recv(c, p, 2)
    /\ queue' = [queue EXCEPT ![p][c] = @ + 1]
    /\ IoGoto(p, "poll")
    /\ UNCHANGED <<connections, request, user, main, sent>>

(* The loop over the table, with MPI_Iprobe for each entry.                *)
MutPollAll(p) == {t \in Tags : connections[p][t] # NoEntry /\ net[p][t] # <<>>}
Polled(p) == {t \in Tags : connections[p][t].to_manage /\ net[p][t] # <<>>}

Poll(p) ==
    /\ IoAt(p, "poll") \/ (IoAt(p, "start") /\ request[p] = <<>> /\ ~At(p, "join"))
    /\ connections' = [connections EXCEPT ![p] = [t \in Tags |->
                         IF t \in Polled(p) THEN [@[t] EXCEPT !.to_manage = FALSE]
                         ELSE @[t]]]
    /\ queue' = [queue EXCEPT ![p] = [c \in Conn |->
                   IF \E t \in Polled(p) : connections[p][t].c = c THEN @[c] + 1
                   ELSE @[c]]]
    /\ IoGoto(p, "start")
    /\ UNCHANGED <<h, net, request, user, main, sent>>

IoThread(p) == IoExit(p) \/ Accept(p) \/ Handshake(p) \/ Poll(p)

(***************************************************************************)
(* The specification.                                                      *)
(***************************************************************************)
Operation(p) ==
    \/ Finalize(p)
    \/ \E c \in Conn : \/ Connect(p, c) \/ GetNext(p, c) \/ Send(p, c)
                       \/ Probe(p, c) \/ Receive(p, c)
                       \/ Close(p, c) \/ Yield(p, c)

Step(p) == \/ ConnectInsert(p) \/ NotifyClose(p) \/ Join(p) \/ EndNext(p)
           \/ Drain(p) \/ CloseRead(p) \/ EndDone(p)

Next == \E p \in Proc : Operation(p) \/ Step(p) \/ IoThread(p)

Spec == Init /\ [][Next]_vars

-----------------------------------------------------------------------------
(***************************************************************************)
(* Properties.                                                             *)
(***************************************************************************)
(* Every variable stays in its type, and every count within its bound.     *)
TypeOK ==
    /\ h \in [Conn -> [Proc -> HandleMPI]]
    /\ connections \in [Proc -> [Tags -> [c : Conn \union {NoConn}, to_manage : BOOLEAN]]]
    /\ net \in [Proc -> [Tags -> Seq(Conn \X Frame)]]
    /\ request \in [Proc -> Seq(Conn)]
    /\ queue \in [Proc -> [Conn -> 0..1]]
    /\ user \in [Proc -> [Conn -> {"none", "held", "given"}]]
    /\ main \in [Proc -> [pc : {"idle", "insert", "notify", "join", "end", "drain",
                                "done"},
                          c : Conn, todo : SUBSET Conn]]
    /\ io \in [Proc -> [pc : {"start", "handshake", "poll", "exited"}, c : Conn]]
    /\ \A p \in Proc : sent[p] \in 0..MaxSend[p]

Running(p) == io[p].pc # "exited"
Managed(c, p) == connections[p][Tag[c]].c = c /\ connections[p][Tag[c]].to_manage
One(b) == IF b THEN 1 ELSE 0
Owners(c, p) == One(user[p][c] = "held") + queue[p][c] + One(Managed(c, p))
                + One(io[p].pc = "handshake" /\ io[p].c = c)
                + One(At(p, "insert") /\ main[p].c = c)

(* Until finalize, an end that is open for reading belongs to exactly one  *)
(* of the program, the ready queue, the table and the thread that makes it,*)
(* although the table knows a handle only by its rank and tag.             *)
OneOwner ==
    \A c \in Conn, p \in Proc :
      Running(p) /\ h[c][p].made /\ ~h[c][p].closed_rd => Owners(c, p) = 1

(* Connections of the same two ranks share one MPI communicator: with tags *)
(* of their own, no handle ever receives what was sent on another          *)
(* connection, in the handshake, in finalize or in between; each has one   *)
(* owner, and every variable its type.                                     *)
NotCrossed ==
    /\ TypeOK
    /\ OneOwner
    /\ \A c \in Conn, p \in Proc : ~h[c][p].crossed

(* The IO thread waits for a handshake inside the mutex, and the process   *)
(* that sends it needs its own mutex before: it is never itself held up by *)
(* a handshake, and so update comes back to the Manager.                   *)
HandshakeComes ==
    \A p \in Proc : LET c == io[p].c  q == Other(p) IN
      IoAt(p, "handshake") /\ Inbox(c, p) = <<>> =>
        At(q, "insert") /\ main[q].c = c /\ LockFree(q)

(* ConnMPI::end waits for EOS on one connection after the other.  If both  *)
(* processes are finalized, and each has sent EOS or still has an entry    *)
(* for every connection that the other waits for, neither waits for ever:  *)
(* each sends its EOS before it waits, and in the same order.              *)
Closes(c, p) == h[c][p].closed_wr \/ c \in Entered(p)
Waits(p) == At(p, "drain") /\ Inbox(main[p].c, p) = <<>>
NoMutualWait ==
    (\A p \in Proc : ~Running(p) /\ \A c \in Entered(p) : Closes(c, Other(p)))
      => \A p \in Proc : Waits(p) => ~Waits(Other(p)) /\ ~At(Other(p), "done")

(* Who may read from each connection, as HandleContract has it.            *)
Owner(p) == [c \in Conn |->
    IF h[c][p].closed_rd THEN "closed"
    ELSE IF queue[p][c] > 0 THEN "ready"
    ELSE IF user[p][c] = "held" THEN "user"
    ELSE IF Managed(c, p) THEN "managed"
    ELSE IF io[p].pc = "handshake" /\ io[p].c = c THEN "handshake"
    ELSE "none"]
Readable(p) == [c \in Conn |-> Inbox(c, p) # <<>> \/ h[c][p].closed_rd]

(* In each process, ConnMPI and the Manager keep what HandleContract says  *)
(* of ownership: a connection is queued only if it can be read, only its   *)
(* owner reads from it, and it is not handed out after EOS.                *)
Contract(p) == INSTANCE HandleContract WITH Handle <- Conn, owner <- Owner(p),
                                  avail <- Readable(p), ending <- ~Running(p)
KeepsContract == /\ \A p \in Proc : Contract(p)!Init
                 /\ [][\A p \in Proc : [Contract(p)!Next]_(Contract(p)!vars)]_vars
=============================================================================
