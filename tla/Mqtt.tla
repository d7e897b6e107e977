-------------------------------- MODULE Mqtt --------------------------------
(***************************************************************************)
(* Two MTCL processes that talk over an MQTT broker (protocols/mqtt.hpp):  *)
(* HandleMQTT with the header that the IO thread reads ahead for it, and   *)
(* ConnMQTT, which makes a client with a topic of its own for each end of  *)
(* a connection.  Each process has one thread of the program and the       *)
(* Manager's IO thread.  A critical section of ConnMQTT's mutex shm is one *)
(* step, except the one in which the IO thread waits for a handshake.  A   *)
(* slow broker is a slow publisher.  Definitions named Mut... are wrong    *)
(* variants of the definition they go before.                              *)
(***************************************************************************)
EXTENDS Naturals, Sequences

CONSTANTS
    Conn,       \* the connections
    Proc,       \* the two processes
    Caller,     \* the process that connects, for each connection
    MaxSend,    \* messages a process sends on a connection (bound)
    BlockFlag   \* the argument of each process's Manager::finalize

ASSUME ProcAssumption == \E p, q \in Proc : p # q /\ Proc = {p, q}
ASSUME ConnAssumption == Conn # {}
ASSUME CallerAssumption == Caller \in [Conn -> Proc]
ASSUME BoundAssumption == MaxSend \in [Proc -> Nat]
ASSUME FlagAssumption == BlockFlag \in [Proc -> BOOLEAN]

Other(p) == CHOOSE q \in Proc : q # p
Callee(c) == Other(Caller[c])

VARIABLES
    h,          \* the HandleMQTT of each end of a connection, and its entry
                \* in "connections" (reg, to_manage)
    topic,      \* the broker: messages for the client of each end
    dropped,    \* ends for which a message came while nobody subscribed
    request,    \* the request for a connection: none, sent, lost, taken
    queue,      \* Manager::handleReady, as how often each handle is in it
    user,       \* the HandleUser of the program: none, held (readable), given
    main,       \* the program's thread: pc, c, and what ConnMQTT::end has
                \* still to close
    io,         \* the IO thread in ConnMQTT::update: pc, c, listening
    sent        \* messages sent by each end (bounded by MaxSend)

vars == <<h, topic, dropped, request, queue, user, main, io, sent>>

(* The header and the payload of a message are two MQTT messages.          *)
Frame == {"hdr", "body", "eos", "ack"}

HandleMQTT == [subscribed : BOOLEAN, reg : BOOLEAN, to_manage : BOOLEAN,
               is_probed : BOOLEAN, messages : Seq(Frame),
               probed : Frame \union {"none"}, closed_rd : BOOLEAN,
               closed_wr : BOOLEAN]
NewHandle == [subscribed |-> FALSE, reg |-> FALSE, to_manage |-> FALSE,
              is_probed |-> FALSE, messages |-> <<>>, probed |-> "none",
              closed_rd |-> FALSE, closed_wr |-> FALSE]
Idling == [pc |-> "idle", c |-> CHOOSE c \in Conn : TRUE, todo |-> {}]

(* The state after Manager::init.                                          *)
Init ==
    /\ h = [c \in Conn |-> [p \in Proc |-> NewHandle]]
    /\ topic = [c \in Conn |-> [p \in Proc |-> <<>>]]
    /\ dropped = {}
    /\ request = [c \in Conn |-> "none"]
    /\ queue = [p \in Proc |-> [c \in Conn |-> 0]]
    /\ user = [p \in Proc |-> [c \in Conn |-> "none"]]
    /\ main = [p \in Proc |-> Idling]
    /\ io = [p \in Proc |-> [pc |-> "start", c |-> Idling.c, listening |-> FALSE]]
    /\ sent = [c \in Conn |-> [p \in Proc |-> 0]]

(* client->publish: the broker passes a message on to who subscribes to    *)
(* its topic then, and forgets it if there is nobody.                      *)
Publish(c, p, f) ==
    LET q == Other(p) IN
    IF h[c][q].subscribed
    THEN topic' = [topic EXCEPT ![c][q] = Append(@, f)] /\ UNCHANGED dropped
    ELSE dropped' = dropped \union {<<c, q>>} /\ UNCHANGED topic

(***************************************************************************)
(* HandleMQTT.                                                             *)
(***************************************************************************)
(* What a blocking receive takes: a message read ahead, or the client's.   *)
Pending(c, p) == h[c][p].messages \o topic[c][p]

(* probe: is_probed says that the header is in "messages"; it stays set    *)
(* until the payload is received.                                          *)
HeaderThere(c, p) == IF h[c][p].is_probed THEN h[c][p].messages # <<>>
                     ELSE Pending(c, p) # <<>>
Take(c, p, hs) ==
    /\ h' = [hs EXCEPT ![c][p].messages = IF @ = <<>> THEN @ ELSE Tail(@)]
    /\ topic' = IF h[c][p].messages = <<>> THEN [topic EXCEPT ![c][p] = Tail(@)]
                ELSE topic

(* receive: the payload, and is_probed is reset.                           *)
Received(c, p) == [h EXCEPT ![c][p].is_probed = FALSE]

(***************************************************************************)
(* The program's thread.                                                   *)
(***************************************************************************)
At(p, l) == main[p].pc = l
Idle(p) == At(p, "idle")
Goto(p, l) == main' = [main EXCEPT ![p].pc = l]
Call(p, l, c) == main' = [main EXCEPT ![p].pc = l, ![p].c = c]

(* The mutex can be taken: the IO thread is not waiting for a handshake.   *)
LockFree(p) == io[p].pc # "handshake"

Listen(p) ==
    /\ Idle(p) /\ ~io[p].listening /\ \E c \in Conn : Callee(c) = p
    /\ io' = [io EXCEPT ![p].listening = TRUE]
    /\ UNCHANGED <<h, topic, dropped, request, queue, user, main, sent>>

(* ConnMQTT::connect: a client that subscribes to topic_out, the request,  *)
(* and the wait for the ack.                                               *)
Connect(p, c) ==
    /\ Idle(p) /\ Caller[c] = p /\ request[c] = "none"
    /\ h' = [h EXCEPT ![c][p].subscribed = TRUE]
    /\ request' = [request EXCEPT ![c] = IF io[Callee(c)].listening THEN "sent"
                                         ELSE "lost"]
    /\ Call(p, "dial", c)
    /\ UNCHANGED <<topic, dropped, queue, user, io, sent>>

ConnectAcked(p) ==
    LET c == main[p].c IN
    /\ At(p, "dial") /\ topic[c][p] # <<>>
    /\ topic' = [topic EXCEPT ![c][p] = Tail(@)]
    /\ Goto(p, "insert")
    /\ UNCHANGED <<h, dropped, request, queue, user, io, sent>>

(* The table entry, and the header of the handshake of Manager::connect.   *)
ConnectInsert(p) ==
    LET c == main[p].c IN
    /\ At(p, "insert") /\ LockFree(p)
    /\ h' = [h EXCEPT ![c][p].reg = TRUE]
    /\ Publish(c, p, "hdr")
    /\ user' = [user EXCEPT ![p][c] = "held"]
    /\ Goto(p, "payload")
    /\ UNCHANGED <<request, queue, io, sent>>

GetNext(p, c) ==
    /\ Idle(p) /\ queue[p][c] > 0
    /\ queue' = [queue EXCEPT ![p][c] = @ - 1]
    /\ user' = [user EXCEPT ![p][c] = "held"]
    /\ UNCHANGED <<h, topic, dropped, request, main, io, sent>>

(* HandleMQTT::send: the header, then the payload.                         *)
Send(p, c) ==
    /\ Idle(p) /\ user[p][c] # "none" /\ ~h[c][p].closed_wr /\ sent[c][p] < MaxSend[p]
    /\ sent' = [sent EXCEPT ![c][p] = @ + 1]
    /\ Publish(c, p, "hdr")
    /\ Call(p, "payload", c)
    /\ UNCHANGED <<h, request, queue, user, io>>

SendPayload(p) ==
    /\ At(p, "payload")
    /\ Publish(main[p].c, p, "body")
    /\ Goto(p, "idle")
    /\ UNCHANGED <<h, request, queue, user, io, sent>>

(* HandleUser::probe when it returns a header; at EOS it closes the read   *)
(* side.                                                                   *)
MayRead(p, c) == user[p][c] = "held" /\ ~h[c][p].closed_rd
Probe(p, c) ==
    LET eos == Head(Pending(c, p)) = "eos" IN
    /\ Idle(p) /\ MayRead(p, c) /\ h[c][p].probed = "none" /\ HeaderThere(c, p)
    /\ Take(c, p, [h EXCEPT ![c][p].is_probed = TRUE, ![c][p].closed_rd = eos,
                            ![c][p].probed = Head(Pending(c, p))])
    /\ user' = IF eos THEN [user EXCEPT ![p][c] = "given"] ELSE user
    /\ IF eos THEN Call(p, "notify", c) ELSE UNCHANGED main
    /\ UNCHANGED <<dropped, request, queue, io, sent>>

Receive(p, c) ==
    /\ Idle(p) /\ MayRead(p, c) /\ h[c][p].probed = "hdr" /\ Pending(c, p) # <<>>
    /\ Take(c, p, [Received(c, p) EXCEPT ![c][p].probed = "none"])
    /\ UNCHANGED <<dropped, request, queue, user, main, io, sent>>

(* Handle::close(true, false) up to notify_close.                          *)
Close(p, c) ==
    /\ Idle(p) /\ user[p][c] # "none" /\ ~h[c][p].closed_wr
    /\ h' = [h EXCEPT ![c][p].closed_wr = TRUE]
    /\ Publish(c, p, "eos")
    /\ Call(p, "notify", c)
    /\ UNCHANGED <<request, queue, user, io, sent>>

(* notify_close with the handle's flags.                                   *)
NotifyClose(p) ==
    LET c == main[p].c IN
    /\ At(p, "notify") /\ LockFree(p)
    /\ h' = IF h[c][p].closed_rd
            THEN [h EXCEPT ![c][p].reg = FALSE, ![c][p].to_manage = FALSE] ELSE h
    /\ Goto(p, "idle")
    /\ UNCHANGED <<topic, dropped, request, queue, user, io, sent>>

(* HandleUser::yield -> notify_yield: a handle whose header has been read  *)
(* goes to the queue, since no arrival will announce it again.             *)
MutYieldToTable(c, p) == FALSE
GoesToQueue(c, p) == h[c][p].is_probed

Yield(p, c) ==
    /\ Idle(p) /\ MayRead(p, c) /\ LockFree(p)
    /\ user' = [user EXCEPT ![p][c] = "given"]
    /\ IF GoesToQueue(c, p)
       THEN queue' = [queue EXCEPT ![p][c] = @ + 1] /\ UNCHANGED h
       ELSE h' = [h EXCEPT ![c][p].to_manage = TRUE] /\ UNCHANGED queue
    /\ UNCHANGED <<topic, dropped, request, main, io, sent>>

(***************************************************************************)
(* Manager::finalize and ConnMQTT::end, which closes the handles that are  *)
(* in the table with to_manage set and no others.                          *)
(***************************************************************************)
Finalize(p) ==
    /\ Idle(p)
    /\ Goto(p, "join")
    /\ UNCHANGED <<h, topic, dropped, request, queue, user, io, sent>>

ToClose(p) == {c \in Conn : h[c][p].reg /\ h[c][p].to_manage}

Join(p) ==
    /\ At(p, "join") /\ io[p].pc = "exited"
    /\ main' = [main EXCEPT ![p].pc = "end", ![p].todo = ToClose(p)]
    /\ UNCHANGED <<h, topic, dropped, request, queue, user, io, sent>>

EndNext(p) == \E c \in main[p].todo :
    /\ At(p, "end")
    /\ h' = [h EXCEPT ![c][p].closed_wr = TRUE]
    /\ IF h[c][p].closed_wr THEN UNCHANGED <<topic, dropped>> ELSE Publish(c, p, "eos")
    /\ main' = [main EXCEPT ![p].pc = "drain", ![p].c = c, ![p].todo = @ \ {c}]
    /\ UNCHANGED <<request, queue, user, io, sent>>

(* The loop of setAsClosed that waits for EOS: a header, or the payload    *)
(* that goes with it.                                                      *)
Drain(p) ==
    LET c == main[p].c IN
    /\ At(p, "drain") /\ BlockFlag[p] /\ Pending(c, p) # <<>>
    /\ \/ /\ ~h[c][p].is_probed /\ Head(Pending(c, p)) # "eos"
          /\ Take(c, p, [h EXCEPT ![c][p].is_probed = TRUE])
       \/ h[c][p].is_probed /\ Take(c, p, Received(c, p))
    /\ UNCHANGED <<dropped, request, queue, user, main, io, sent>>

(* Its end, at EOS or at once if finalize is not to wait; nobody else has  *)
(* a reference to a handle that was in the table, and it is deleted.       *)
CloseAllowed(c, p) ==
    BlockFlag[p] => /\ ~h[c][p].is_probed
                    /\ Pending(c, p) # <<>> /\ Head(Pending(c, p)) = "eos"

CloseRead(p) ==
    LET c == main[p].c IN
    /\ At(p, "drain") /\ CloseAllowed(c, p)
    /\ h' = [h EXCEPT ![c][p].closed_rd = TRUE, ![c][p].reg = FALSE,
                      ![c][p].to_manage = FALSE,
                      ![c][p].subscribed = user[p][c] # "none"]
    /\ Goto(p, "end")
    /\ UNCHANGED <<topic, dropped, request, queue, user, io, sent>>

EndDone(p) ==
    /\ At(p, "end") /\ main[p].todo = {}
    /\ Goto(p, "done")
    /\ UNCHANGED <<h, topic, dropped, request, queue, user, io, sent>>

(***************************************************************************)
(* The IO thread in ConnMQTT::update.                                      *)
(***************************************************************************)
IoAt(p, l) == io[p].pc = l
IoGoto(p, l) == io' = [io EXCEPT ![p].pc = l]
Requests(p) == {c \in Conn : Callee(c) = p /\ request[c] = "sent"}

IoExit(p) ==
    /\ IoAt(p, "start") /\ At(p, "join")
    /\ IoGoto(p, "exited")
    /\ UNCHANGED <<h, topic, dropped, request, queue, user, main, sent>>

(* A request: createClient subscribes to topic-in.                         *)
MutSkipSubscribe(c, p) == h
Subscribed(c, p) == [h EXCEPT ![c][p].subscribed = TRUE]

Accept(p) == \E c \in Requests(p) :
    /\ IoAt(p, "start") /\ ~At(p, "join")
    /\ request' = [request EXCEPT ![c] = "taken"]
    /\ h' = Subscribed(c, p)
    /\ io' = [io EXCEPT ![p].pc = "ack", ![p].c = c]
    /\ UNCHANGED <<topic, dropped, queue, user, main, sent>>

(* The ack; then the mutex is taken and the handle entered in the table.   *)
SendAck(p) == Publish(io[p].c, p, "ack")

Ack(p) ==
    /\ IoAt(p, "ack")
    /\ SendAck(p)
    /\ h' = [h EXCEPT ![io[p].c][p].reg = TRUE]
    /\ IoGoto(p, "handshake")
    /\ UNCHANGED <<request, queue, user, main, sent>>

(* addinQ(true, handle): connectionHandshake waits for header and payload  *)
(* inside the mutex, and the handle is queued.                             *)
Handshake(p) ==
    LET c == io[p].c IN
    /\ IoAt(p, "handshake") /\ Len(topic[c][p]) >= 2
    /\ topic' = [topic EXCEPT ![c][p] = SubSeq(@, 3, Len(@))]
    /\ queue' = [queue EXCEPT ![p][c] = @ + 1]
    /\ IoGoto(p, "poll")
    /\ UNCHANGED <<h, dropped, request, user, main, sent>>

(* The loop over the table: the header of a handle that has one is read    *)
(* ahead, and the handle is queued.                                        *)
MutNeedsPayload(p) ==
    {c \in Conn : h[c][p].reg /\ h[c][p].to_manage /\ Len(topic[c][p]) >= 2}
MutPollAll(p) == {c \in Conn : h[c][p].reg /\ topic[c][p] # <<>>}
Polled(p) == {c \in Conn : h[c][p].reg /\ h[c][p].to_manage /\ topic[c][p] # <<>>}

Poll(p) ==
    /\ IoAt(p, "poll") \/ (IoAt(p, "start") /\ Requests(p) = {} /\ ~At(p, "join"))
    /\ h' = [c \in Conn |-> IF c \in Polled(p)
              THEN [h[c] EXCEPT ![p].is_probed = TRUE, ![p].to_manage = FALSE,
                                ![p].messages = Append(@, Head(topic[c][p]))]
              ELSE h[c]]
    /\ topic' = [c \in Conn |-> IF c \in Polled(p)
                                THEN [topic[c] EXCEPT ![p] = Tail(@)] ELSE topic[c]]
    /\ queue' = [queue EXCEPT ![p] = [c \in Conn |->
                   IF c \in Polled(p) THEN @[c] + 1 ELSE @[c]]]
    /\ IoGoto(p, "start")
    /\ UNCHANGED <<dropped, request, user, main, sent>>

IoThread(p) == IoExit(p) \/ Accept(p) \/ Ack(p) \/ Handshake(p) \/ Poll(p)

(***************************************************************************)
(* The specification.                                                      *)
(***************************************************************************)
Operation(p) ==
    \/ Listen(p) \/ Finalize(p)
    \/ \E c \in Conn : \/ Connect(p, c) \/ GetNext(p, c) \/ Send(p, c)
                       \/ Probe(p, c) \/ Receive(p, c)
                       \/ Close(p, c) \/ Yield(p, c)

(* A call in progress goes on by itself.                                   *)
Step(p) == \/ ConnectAcked(p) \/ ConnectInsert(p) \/ SendPayload(p)
           \/ NotifyClose(p) \/ Join(p) \/ EndNext(p) \/ Drain(p)
           \/ CloseRead(p) \/ EndDone(p)

Next == \E p \in Proc : Operation(p) \/ Step(p) \/ IoThread(p)

Spec == Init /\ [][Next]_vars

(* The operating system runs both threads of both processes, and the       *)
(* broker delivers.                                                        *)
FairSpec == Spec /\ \A p \in Proc : WF_vars(Step(p)) /\ WF_vars(IoThread(p))

-----------------------------------------------------------------------------
(***************************************************************************)
(* Properties.                                                             *)
(***************************************************************************)
(* Every variable stays in its type, and every count within its bound.     *)
TypeOK ==
    /\ h \in [Conn -> [Proc -> HandleMQTT]]
    /\ topic \in [Conn -> [Proc -> Seq(Frame)]]
    /\ dropped \subseteq Conn \X Proc
    /\ request \in [Conn -> {"none", "sent", "lost", "taken"}]
    /\ queue \in [Proc -> [Conn -> 0..1]]
    /\ user \in [Proc -> [Conn -> {"none", "held", "given"}]]
    /\ main \in [Proc -> [pc : {"idle", "dial", "insert", "payload", "notify", "join",
                                "end", "drain", "done"},
                          c : Conn, todo : SUBSET Conn]]
    /\ io \in [Proc -> [pc : {"start", "ack", "handshake", "poll", "exited"},
                        c : Conn, listening : BOOLEAN]]
    /\ sent \in [Conn -> [Proc -> Nat]]
    /\ \A c \in Conn, p \in Proc : sent[c][p] <= MaxSend[p]

Running(p) == io[p].pc # "exited"
Stopping(p) == At(p, "join") \/ ~Running(p)
One(b) == IF b THEN 1 ELSE 0
Owners(c, p) == One(user[p][c] = "held") + queue[p][c] + One(h[c][p].to_manage)
                + One(io[p].pc = "handshake" /\ io[p].c = c)

(* Until finalize, an end that is open for reading belongs to exactly one  *)
(* of the program, the ready queue, the table and the handshake, whichever *)
(* way notify_yield decides.                                               *)
OneOwner ==
    /\ TypeOK
    /\ \A c \in Conn, p \in Proc :
      Running(p) /\ h[c][p].reg /\ ~h[c][p].closed_rd => Owners(c, p) = 1

(* A header is read ahead by the IO thread or read by the program, cached  *)
(* in "messages", in is_probed and in HandleUser's probed: probe never     *)
(* takes the front of an empty queue, payloads are where they are looked   *)
(* for, and the IO thread never takes a payload for a header.              *)
Framed ==
    \A c \in Conn, p \in Proc :
      LET e == h[c][p]
          next == IF Pending(c, p) = <<>> THEN {} ELSE {Head(Pending(c, p))}
      IN  Running(p) /\ ~e.closed_rd /\ e.reg =>
            /\ e.is_probed /\ e.probed = "none" => e.messages \in {<<"hdr">>, <<"eos">>}
            /\ e.probed = "hdr" => next \subseteq {"body"}
            /\ ~e.is_probed => e.messages = <<>> /\ next \subseteq {"hdr", "eos"}
            /\ e.to_manage => ~e.is_probed

(* "Must send the ACK to the remote end otherwise I can miss some          *)
(* messages": each end subscribes before the other can publish, and        *)
(* nothing is published in vain while its reader may still read.           *)
NothingMissed ==
    \A c \in Conn, p \in Proc : <<c, p>> \in dropped => h[c][p].closed_rd

(* A connection that was given back and has something to read is handed    *)
(* out again, unless finalize stops the IO thread.                         *)
YieldedIsServed ==
    \A c \in Conn, p \in Proc :
      (h[c][p].to_manage /\ topic[c][p] # <<>>) ~> (~h[c][p].to_manage \/ Stopping(p))

(* connect returns if its request reached a process that goes on, although *)
(* it waits for that process's ack.                                        *)
ConnectReturns ==
    \A c \in Conn : LET p == Caller[c] IN
      (At(p, "dial") /\ main[p].c = c /\ request[c] = "sent")
        ~> (At(p, "insert") \/ Stopping(Callee(c)))

(* finalize(false) returns, whatever the peer does.                        *)
FinalizeReturns ==
    \A p \in Proc : (At(p, "join") /\ ~BlockFlag[p]) ~> At(p, "done")

(* The three together: no wait of ConnMQTT goes on for ever.               *)
Progress == YieldedIsServed /\ ConnectReturns /\ FinalizeReturns
=============================================================================
