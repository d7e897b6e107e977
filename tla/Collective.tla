----------------------------- MODULE Collective -----------------------------
(***************************************************************************)
(* A team: its creation (Manager::createTeam), the generic implementation  *)
(* of its collective (collectives/collectiveImpl.hpp) over one connection  *)
(* between the root and each of the other processes - broadcast, fan-in,   *)
(* fan-out or gather -, the CollectiveContext around it, and the polling   *)
(* of contexts by the Manager's IO thread.                                 *)
(*                                                                         *)
(* Each process runs one thread of the program.  A stream carries whole    *)
(* header and body frames; what a send writes to several streams is        *)
(* written in one step, what is read is read one frame or message at a     *)
(* time.  Nothing holds a reference to the handles of a team but the team, *)
(* so their counters stay 0 and close deletes them.                        *)
(* Definitions named Mut... are wrong variants of the definition they go   *)
(* before.                                                                 *)
(***************************************************************************)
EXTENDS Integers, Sequences, FiniteSets, SequencesExt

CONSTANTS
    Root,       \* the root of the team
    Worker,     \* its other members
    Rank,       \* position of each member in the participants string
    Types,      \* the HandleTypes the team may have
    MaxSend,    \* messages, or rounds, of each member (bound)
    MayCrash    \* members that may die, or never reach the root

Proc == {Root} \union Worker
N == Cardinality(Worker)

ASSUME TeamAssumption ==
    /\ Root \notin Worker /\ IsFiniteSet(Worker) /\ Worker # {}
    /\ Rank \in [Proc -> 0..N] /\ \A p, q \in Proc : Rank[p] = Rank[q] => p = q
    /\ Types \subseteq {"BROADCAST", "FANIN", "FANOUT", "GATHER"}
    /\ MaxSend \in Nat /\ MayCrash \subseteq Proc

VARIABLES
    groupsReady,\* members whose team handshake the root has read, in order
    type,       \* CommunicationHandle::type of the team's contexts
    in,         \* per handle, the frames that can be read from it
    handle,     \* per handle, closed_rd, closed_wr and whether it still exists
    ctx,        \* per process, the CollectiveContext
    coll,       \* per process, the CollectiveImpl
    user,       \* per process, whether the program has a readable HandleUser
    ready,      \* per process, how often the context is in handleReady
    op,         \* per process, the call in progress and its locals
    sent,       \* per process, how many messages or rounds it has sent
    got         \* per process and sender, what it has received, in order

vars == <<groupsReady, type, in, handle, ctx, coll, user, ready, op, sent, got>>

(* <<p, q>> is the Handle of process p for its connection with q.          *)
End == ({Root} \X Worker) \union (Worker \X {Root})
Peer(e) == <<e[2], e[1]>>

Value == 0..MaxSend \union 0..N
Frame == [t : {"hdr", "body"}, v : Value] \union [t : {"team", "eos", "fin"}, v : {0}]
TEAM == [t |-> "team", v |-> 0]
EOS == [t |-> "eos", v |-> 0]
FIN == [t |-> "fin", v |-> 0]
Message(v) == <<[t |-> "hdr", v |-> v], [t |-> "body", v |-> v]>>

Context == [closed_rd : BOOLEAN, closed_wr : BOOLEAN,
            probed : {"no", "msg", "eos"}, toManage : BOOLEAN]
Impl == [participants : Seq(Proc), probed_idx : Nat, current : Nat]
HandleState == [closed_rd : BOOLEAN, closed_wr : BOOLEAN,
                life : {"live", "freed", "used"}]
Call == [pc : {"create", "idle", "probe", "receive", "ended", "dead"}, i : Nat,
         blocking : BOOLEAN, rank : 0..N, data : BOOLEAN,
         buff : [0..N -> 0..MaxSend]]
Idle == [pc |-> "idle", i |-> 1, blocking |-> TRUE, rank |-> 0,
         data |-> FALSE, buff |-> [r \in 0..N |-> 0]]

(* createContext: who may send and who may receive.                        *)
CanSend(ty, p) == (ty = "FANIN" /\ p # Root) \/ (ty = "FANOUT" /\ p = Root)
CanReceive(ty, p) == (ty = "FANIN" /\ p = Root) \/ (ty = "FANOUT" /\ p # Root)

(* Every member is about to call createTeam; the contexts are as the       *)
(* constructor makes them.                                                 *)
Init ==
    /\ type \in Types
    /\ groupsReady = <<>>
    /\ in = [e \in End |-> <<>>]
    /\ handle = [e \in End |-> [closed_rd |-> FALSE, closed_wr |-> FALSE, life |-> "live"]]
    /\ ctx = [p \in Proc |-> [closed_rd |-> ~CanReceive(type, p),
                              closed_wr |-> ~CanSend(type, p),
                              probed |-> "no", toManage |-> FALSE]]
    /\ coll = [p \in Proc |-> [participants |-> <<>>, probed_idx |-> 0, current |-> 1]]
    /\ user = [p \in Proc |-> FALSE]
    /\ ready = [p \in Proc |-> 0]
    /\ op = [p \in Proc |-> [Idle EXCEPT !.pc = "create"]]
    /\ sent = [p \in Proc |-> 0]
    /\ got = [p \in Proc |-> [q \in Proc |-> <<>>]]

(***************************************************************************)
(* Streams and handles.                                                    *)
(***************************************************************************)
At(p, l) == op[p].pc = l
Return(p, l) == op' = [op EXCEPT ![p] = [Idle EXCEPT !.pc = l]]
Handles(p) == {<<p, coll[p].participants[i]>> : i \in DOMAIN coll[p].participants}

(* Handle::close on a set of handles: EOS and the shutdown that follows it *)
(* on the streams, the flags, and the deletion when both sides are closed. *)
Closed(ins, E, wr) ==
    [e \in End |-> IF Peer(e) \in E /\ wr /\ ~handle[Peer(e)].closed_wr
                   THEN ins[e] \o <<EOS, FIN>> ELSE ins[e]]
Mark(h, wr, rd) ==
    LET r == h.closed_rd \/ rd
        w == h.closed_wr \/ wr
    IN  IF h.life # "live" THEN [h EXCEPT !.life = "used"]
        ELSE [closed_rd |-> r, closed_wr |-> w, life |-> IF r /\ w THEN "freed" ELSE "live"]
Marked(E, wr, rd) ==
    [e \in End |-> IF e \in E THEN Mark(handle[e], wr, rd) ELSE handle[e]]

(* The same frames on the streams of every handle of E.                    *)
Sent(E, frames) == [e \in End |-> IF Peer(e) \in E THEN in[e] \o frames ELSE in[e]]

(* What a handle yields without blocking; the end of a stream stays.       *)
Next1(e) == IF in[e] = <<>> THEN "none" ELSE in[e][1].t
Taken(e, n) == [in EXCEPT ![e] = IF @[1] = FIN THEN @ ELSE SubSeq(@, n + 1, Len(@))]

(***************************************************************************)
(* Manager::createTeam.                                                    *)
(***************************************************************************)
Created(p, ps) ==
    /\ Return(p, "idle")
    /\ coll' = [coll EXCEPT ![p].participants = ps]
    /\ user' = [user EXCEPT ![p] = TRUE]

(* A member other than the root connects and sends the team handshake; it  *)
(* does not wait for the root.                                             *)
Join(p) ==
    /\ At(p, "create") /\ p # Root
    /\ in' = [in EXCEPT ![<<Root, p>>] = Append(@, TEAM)]
    /\ Created(p, <<Root>>)
    /\ UNCHANGED <<groupsReady, type, handle, ctx, ready, sent, got>>

(* The root's IO thread accepts a connection of the team: addinQ.          *)
Accept(w) ==
    /\ ~At(Root, "dead") /\ in[<<Root, w>>] # <<>> /\ in[<<Root, w>>][1] = TEAM
    /\ in' = [in EXCEPT ![<<Root, w>>] = Tail(@)]
    /\ groupsReady' = Append(groupsReady, w)
    /\ UNCHANGED <<type, handle, ctx, coll, user, ready, op, sent, got>>

(* CollectiveContext::update, with size = N + 1.                           *)
MutAllMembers(count) == count = N + 1
TeamReady(count) == count = N

(* The root waits on group_cond until all have connected.                  *)
Gathered(p) ==
    /\ At(p, "create") /\ p = Root /\ TeamReady(Len(groupsReady))
    /\ Created(p, groupsReady)
    /\ groupsReady' = <<>>
    /\ UNCHANGED <<type, in, handle, ctx, ready, sent, got>>

Creation(p) == Join(p) \/ Gathered(p) \/ (p \in Worker /\ Accept(p))

(***************************************************************************)
(* Sending: HandleUser::send, and sendrecv on the side that sends.         *)
(***************************************************************************)
(* The program sends nothing after its close, and closes once.             *)
Unsent(p) == sent[p] < MaxSend /\ \A e \in Handles(p) : ~handle[e].closed_wr
CountSent(p) == sent' = [sent EXCEPT ![p] = @ + 1]

(* FanInGeneric::send, BroadcastGeneric::send: to every participant.       *)
SendAll(p) ==
    /\ At(p, "idle") /\ Unsent(p)
    /\ (type = "FANIN" /\ ~ctx[p].closed_wr) \/ (type = "BROADCAST" /\ p = Root)
    /\ in' = Sent(Handles(p), Message(sent[p] + 1))
    /\ CountSent(p)
    /\ UNCHANGED <<groupsReady, type, handle, ctx, coll, user, ready, op, got>>

(* The same when a participant has died: the ones after it in the list get *)
(* nothing, and the program, told of the error, sends no more.             *)
SendFails(p) ==
    LET ps == coll[p].participants IN
    /\ At(p, "idle") /\ Unsent(p)
    /\ (type = "FANIN" /\ ~ctx[p].closed_wr) \/ (type = "BROADCAST" /\ p = Root)
    /\ \E i \in DOMAIN ps :
         /\ At(ps[i], "dead")
         /\ in' = Sent({<<p, ps[j]>> : j \in 1..(i - 1)}, Message(sent[p] + 1))
    /\ Return(p, "ended")
    /\ UNCHANGED <<groupsReady, type, handle, ctx, coll, user, ready, sent, got>>

(* FanOutGeneric::send: to the current participant, then the next is due.  *)
Due(c, count) == (c % count) + 1

SendOne(p) ==
    LET c == coll[p].current IN
    /\ At(p, "idle") /\ Unsent(p) /\ type = "FANOUT" /\ ~ctx[p].closed_wr
    /\ in' = Sent({<<p, coll[p].participants[c]>>}, Message(sent[p] + 1))
    /\ coll' = [coll EXCEPT ![p].current = Due(c, Len(coll[p].participants))]
    /\ CountSent(p)
    /\ UNCHANGED <<groupsReady, type, handle, ctx, user, ready, op, got>>

(* GatherGeneric::sendrecv of a process that is not the root: its rank and *)
(* its data, as two messages.                                              *)
SendRanked(p) ==
    /\ At(p, "idle") /\ Unsent(p) /\ type = "GATHER" /\ p # Root
    /\ in' = Sent(Handles(p), Message(Rank[p]) \o Message(sent[p] + 1))
    /\ CountSent(p)
    /\ UNCHANGED <<groupsReady, type, handle, ctx, coll, user, ready, op, got>>

(* HandleUser::close, that is close(true, false): the collective closes    *)
(* the write side of its handles where it is up to this process.           *)
ClosesHandles(p) ==
    CASE type = "FANIN" -> p # Root
      [] type \in {"FANOUT", "BROADCAST"} -> p = Root
      [] type = "GATHER" -> TRUE

Close(p) ==
    /\ At(p, "idle") \/ At(p, "ended")
    /\ ClosesHandles(p) /\ \E e \in Handles(p) : ~handle[e].closed_wr
    /\ in' = Closed(in, Handles(p), TRUE)
    /\ handle' = Marked(Handles(p), TRUE, FALSE)
    /\ ctx' = [ctx EXCEPT ![p].closed_wr = TRUE]
    /\ UNCHANGED <<groupsReady, type, coll, user, ready, op, sent, got>>

Sender(p) == SendAll(p) \/ SendFails(p) \/ SendOne(p) \/ SendRanked(p) \/ Close(p)

(***************************************************************************)
(* Receiving: HandleUser::probe and receive on a fan-in or a fan-out.      *)
(***************************************************************************)
MayProbe(p) == /\ At(p, "idle") /\ user[p]
               /\ ctx[p].probed = "no" /\ ~ctx[p].closed_rd

(* What HandleUser::probe does with the collective's answer: the header of *)
(* a message, EOS, 0 (a connection ended), or -1 (nothing yet).            *)
Outcome(p, res) ==
    /\ ctx' = [ctx EXCEPT ![p].probed = IF res \in {"msg", "eos"} THEN res ELSE @,
                          ![p].closed_rd = @ \/ res \in {"eos", "end"},
                          ![p].closed_wr = @ \/ res = "end"]
    /\ user' = [user EXCEPT ![p] = @ /\ res \notin {"eos", "end"}]

ProbeStart(p, blocking) ==
    /\ MayProbe(p) /\ type = "FANIN"
    /\ op' = [op EXCEPT ![p] = [Idle EXCEPT !.pc = "probe", !.blocking = blocking]]
    /\ UNCHANGED <<groupsReady, type, in, handle, ctx, coll, user, ready, sent, got>>

(* The participants that are left after one has sent EOS.                  *)
MutKept(ps, i) == ps
Without(ps, i) == RemoveAt(ps, i)

(* iter goes back to begin() at the end of what is left.                   *)
Wrapped(iter, left) == IF iter > Len(left) THEN 1 ELSE iter

(* One turn of the loop in FanInGeneric::probe.  The participant after one *)
(* that is erased is skipped, as iter++ follows the erase.                 *)
ProbeTurn(p) ==
    LET i == op[p].i
        e == <<p, coll[p].participants[i]>>
        t == Next1(e)
        left == IF t = "eos" THEN Without(coll[p].participants, i) ELSE coll[p].participants
        iter == IF t = "eos" /\ i > Len(left) THEN i ELSE i + 1
        atEnd == iter > Len(left)
        res == CASE t = "hdr" -> "msg"
                 [] t = "fin" -> "end"
                 [] left = <<>> -> "eos"
                 [] OTHER -> "again"
    IN
    /\ At(p, "probe")
    /\ in' = CASE t = "hdr" -> Taken(e, 1)
               [] t = "eos" -> Closed(Taken(e, 1), {e}, TRUE)
               [] OTHER -> in
    /\ handle' = IF t = "eos" THEN Marked({e}, TRUE, TRUE) ELSE handle
    /\ coll' = [coll EXCEPT ![p].participants = left,
                            ![p].probed_idx = IF t = "hdr" THEN i ELSE @]
    /\ IF res = "again" /\ (op[p].blocking \/ ~atEnd)
       THEN op' = [op EXCEPT ![p].i = Wrapped(iter, left)] /\ UNCHANGED <<ctx, user>>
       ELSE Return(p, "idle") /\ Outcome(p, res)
    /\ UNCHANGED <<groupsReady, type, ready, sent, got>>

(* FanOutGeneric::probe, when there is something to read.  After an EOS it *)
(* closes, and so deletes, the handle and then writes to it.               *)
ProbeOne(p) ==
    LET e == <<p, coll[p].participants[1]>>
        t == Next1(e)
    IN
    /\ MayProbe(p) /\ type = "FANOUT" /\ t # "none"
    /\ in' = IF t = "eos" THEN Closed(Taken(e, 1), {e}, TRUE) ELSE Taken(e, 1)
    /\ handle' = IF t # "eos" THEN handle
                 ELSE [handle EXCEPT ![e] = [Mark(@, TRUE, TRUE) EXCEPT !.life = "used"]]
    /\ coll' = [coll EXCEPT ![p].participants = IF t = "eos" THEN <<>> ELSE @]
    /\ Outcome(p, CASE t = "hdr" -> "msg" [] t = "eos" -> "eos" [] t = "fin" -> "end")
    /\ UNCHANGED <<groupsReady, type, ready, op, sent, got>>

(* receive, from the handle that was probed.                               *)
MutFirst(p) == 1
ProbedAt(p) == IF type = "FANIN" THEN coll[p].probed_idx ELSE 1

Receive(p) ==
    LET e == <<p, coll[p].participants[ProbedAt(p)]>> IN
    /\ At(p, "idle") /\ user[p] /\ ctx[p].probed = "msg" /\ ~ctx[p].closed_rd
    /\ in[e] # <<>>
    /\ got' = [got EXCEPT ![p][e[2]] = Append(@, in[e][1].v)]
    /\ in' = Taken(e, 1)
    /\ ctx' = [ctx EXCEPT ![p].probed = "no"]
    /\ coll' = [coll EXCEPT ![p].probed_idx = 0]
    /\ UNCHANGED <<groupsReady, type, handle, user, ready, op, sent>>

(***************************************************************************)
(* Receiving: sendrecv on a broadcast or a gather.  The program stops when *)
(* it returns 0.                                                           *)
(***************************************************************************)

(* CollectiveImpl::probeHandle closes the read side at EOS, both at the    *)
(* end of the stream.                                                      *)
MutBoth(t) == TRUE
ClosesWrite(t) == t = "fin"

(* BroadcastGeneric::receive, which closes the write side after either; at *)
(* the end of the stream the handle has been deleted by then.              *)
ReceiveAll(p) ==
    LET e == <<p, Root>>
        t == Next1(e)
    IN
    /\ At(p, "idle") /\ type = "BROADCAST" /\ p # Root /\ t # "none"
    /\ IF t = "hdr"
       THEN /\ in' = Taken(e, 2)
            /\ got' = [got EXCEPT ![p][Root] = Append(@, in[e][1].v)]
            /\ UNCHANGED <<handle, op>>
       ELSE /\ in' = Closed(Taken(e, 1), {e}, TRUE)
            /\ handle' = [handle EXCEPT ![e] = Mark(Mark(@, ClosesWrite(t), TRUE), TRUE, FALSE)]
            /\ Return(p, "ended")
            /\ UNCHANGED got
    /\ UNCHANGED <<groupsReady, type, ctx, coll, user, ready, sent>>

(* GatherGeneric::sendrecv of the root: its own data, then a rank and data *)
(* from each participant in turn.                                          *)
GatherStart(p) ==
    /\ At(p, "idle") /\ Unsent(p) /\ type = "GATHER" /\ p = Root
    /\ op' = [op EXCEPT ![p] = [Idle EXCEPT !.pc = "receive", !.buff[Rank[p]] = sent[p] + 1]]
    /\ CountSent(p)
    /\ UNCHANGED <<groupsReady, type, in, handle, ctx, coll, user, ready, got>>

GatherTurn(p) ==
    LET i == op[p].i
        e == <<p, coll[p].participants[i]>>
        t == Next1(e)
        v == in[e][1].v
        buff == [op[p].buff EXCEPT ![op[p].rank] = v]
    IN
    /\ At(p, "receive") /\ t # "none"
    /\ in' = IF t = "hdr" THEN Taken(e, 2) ELSE Closed(Taken(e, 1), {e}, ClosesWrite(t))
    /\ handle' = IF t = "hdr" THEN handle ELSE Marked({e}, ClosesWrite(t), TRUE)
    /\ CASE t # "hdr" -> Return(p, "ended") /\ UNCHANGED got
         [] t = "hdr" /\ ~op[p].data ->
              /\ op' = [op EXCEPT ![p].rank = v, ![p].data = TRUE]
              /\ UNCHANGED got
         [] t = "hdr" /\ op[p].data /\ i < Len(coll[p].participants) ->
              /\ op' = [op EXCEPT ![p].buff = buff, ![p].data = FALSE, ![p].i = i + 1]
              /\ UNCHANGED got
         [] OTHER ->
              /\ Return(p, "idle")
              /\ got' = [got EXCEPT ![p][p] = Append(@, buff)]
    /\ UNCHANGED <<groupsReady, type, ctx, coll, user, ready, sent>>

Receiver(p) == \/ ProbeTurn(p) \/ ProbeOne(p) \/ Receive(p) \/ ReceiveAll(p)
               \/ GatherStart(p) \/ GatherTurn(p)
               \/ \E b \in BOOLEAN : ProbeStart(p, b)

(***************************************************************************)
(* Contexts and the Manager.                                               *)
(***************************************************************************)

(* CollectiveContext::yield, from HandleUser::yield or the destructor: the *)
(* context is marked for the IO thread (releaseTeam).                      *)
Yield(p) ==
    /\ At(p, "idle") /\ user[p] /\ CanReceive(type, p) /\ ~ctx[p].closed_rd
    /\ user' = [user EXCEPT ![p] = FALSE]
    /\ ctx' = [ctx EXCEPT ![p].toManage = TRUE]
    /\ UNCHANGED <<groupsReady, type, in, handle, coll, ready, op, sent, got>>

(* HandleTCP::peek: the result of recv as a bool.  It is -1, hence true,   *)
(* when there is nothing to read, and false only at the end of the stream. *)
MutPeekFalse(e) == FALSE
PeekTrue(e) == Next1(e) # "fin"

(* The loop over the contexts in getReadyBackend; poll.                    *)
MutStillManaged(p) == ctx
Unmanaged(p) == [ctx EXCEPT ![p].toManage = FALSE]

Poll(p) ==
    /\ ~At(p, "dead") /\ ctx[p].toManage
    /\ ctx[p].probed = "msg" \/ \E e \in Handles(p) : PeekTrue(e)
    /\ ctx' = Unmanaged(p)
    /\ ready' = [ready EXCEPT ![p] = @ + 1]
    /\ UNCHANGED <<groupsReady, type, in, handle, coll, user, op, sent, got>>

(* Manager::getNext.                                                       *)
GetNext(p) ==
    /\ At(p, "idle") /\ ~user[p] /\ ready[p] > 0
    /\ ready' = [ready EXCEPT ![p] = @ - 1]
    /\ user' = [user EXCEPT ![p] = TRUE]
    /\ UNCHANGED <<groupsReady, type, in, handle, ctx, coll, op, sent, got>>

(* A member dies; its connections end without EOS.                         *)
Die(p) ==
    /\ p \in MayCrash /\ ~At(p, "dead")
    /\ Return(p, "dead")
    /\ in' = [e \in End |-> IF e[2] = p /\ ~handle[Peer(e)].closed_wr
                            THEN Append(in[e], FIN) ELSE in[e]]
    /\ UNCHANGED <<groupsReady, type, handle, ctx, coll, user, ready, sent, got>>

Next == \E p \in Proc : \/ Creation(p) \/ Sender(p) \/ Receiver(p) \/ Yield(p) \/ Poll(p)
                        \/ GetNext(p) \/ Die(p)

Spec == Init /\ [][Next]_vars

(* Threads run and every member calls createTeam; a program that gets a    *)
(* handle from getNext reads from it sooner or later, with a blocking      *)
(* probe.                                                                  *)
FairSpec == Spec /\ \A p \in Proc :
    /\ WF_vars(Join(p)) /\ WF_vars(Gathered(p)) /\ WF_vars(p \in Worker /\ Accept(p))
    /\ WF_vars(Poll(p)) /\ WF_vars(GetNext(p))
    /\ WF_vars(ProbeTurn(p)) /\ WF_vars(GatherTurn(p)) /\ WF_vars(ReceiveAll(p))
    /\ SF_vars(ProbeStart(p, TRUE)) /\ SF_vars(ProbeOne(p)) /\ SF_vars(Receive(p))
    /\ WF_vars(GatherStart(p))

-----------------------------------------------------------------------------
(* Every variable stays in its type; a probe in progress is at one of the  *)
(* participants that are left.                                             *)
TypeOK ==
    /\ groupsReady \in Seq(Worker) /\ type \in Types /\ in \in [End -> Seq(Frame)]
    /\ handle \in [End -> HandleState] /\ ctx \in [Proc -> Context]
    /\ coll \in [Proc -> Impl] /\ user \in [Proc -> BOOLEAN]
    /\ ready \in [Proc -> Nat] /\ op \in [Proc -> Call]
    /\ sent \in [Proc -> 0..MaxSend]
    /\ \A p \in Proc : op[p].pc \in {"probe", "receive"} =>
                         op[p].i \in DOMAIN coll[p].participants

Dead == {p \in Proc : At(p, "dead")}
From(p, q) == Len(got[p][q])
Turn(w) == CHOOSE i \in 1..N : coll[Root].participants[i] = w
Consecutive(s) == \A k \in DOMAIN s : s[k] = k

(* Messages arrive whole, once, in the order they were sent and at the     *)
(* right member: a fan-in never takes the body of one participant for the  *)
(* header of another, though participants leave while it looks; a fan-out  *)
(* serves its members in turn; a broadcast is the same for all; a gather   *)
(* puts the n-th data of every member, and nothing else, in its n-th       *)
(* result, under the member's rank.                                        *)
InOrder ==
    CASE type = "FANIN" -> \A w \in Worker : Consecutive(got[Root][w])
      [] type = "FANOUT" -> \A w \in Worker : \A k \in DOMAIN got[w][Root] :
                              got[w][Root][k] = (k - 1) * N + Turn(w)
      [] type = "BROADCAST" -> \A w \in Worker : Consecutive(got[w][Root])
      [] type = "GATHER" -> \A k \in DOMAIN got[Root][Root] :
                              got[Root][Root][k] = [r \in 0..N |-> k]

(* "All participants have closed their connection, we notify the           *)
(* HandleUser that an EOS has been received for the entire group": who is  *)
(* told of the end has received everything, as long as nobody dies.        *)
Shut(e) == handle[e].closed_wr
Complete(p) ==
    CASE type = "FANIN" -> \A w \in Worker : Shut(<<w, Root>>) /\ From(p, w) = sent[w]
      [] type = "FANOUT" -> From(p, Root) = (sent[Root] + N - Turn(p)) \div N
      [] type = "BROADCAST" -> From(p, Root) = sent[Root]
      [] type = "GATHER" -> \E w \in Worker : Shut(<<w, Root>>) /\ sent[w] = From(p, p)
Told(p) == At(p, "ended") \/ (CanReceive(type, p) /\ ctx[p].closed_rd)
EndIsComplete == Dead = {} => \A p \in Proc : Told(p) => Complete(p)

(* The context of a team that can be received from is in one place: the    *)
(* program's readable HandleUser, the ready queue, or the contexts the IO  *)
(* thread polls; and a probe in progress is at one of the participants     *)
(* that are left (TypeOK).                                                 *)
One(b) == IF b THEN 1 ELSE 0
OneHolder ==
    /\ TypeOK
    /\ \A p \in Proc : CanReceive(type, p) /\ ~ctx[p].closed_rd /\ ~At(p, "create") =>
        p \in Dead \/ One(user[p]) + ready[p] + One(ctx[p].toManage) = 1

(* No handle is used after close has deleted it, while nobody dies.  The   *)
(* fan-out is left out: at EOS FanOutGeneric::probe writes to the handle   *)
(* that its own close has just deleted.                                    *)
OthersSafe ==
    type # "FANOUT" /\ Dead = {} => \A e \in End : handle[e].life # "used"

(* While nobody dies, every team is formed.                                *)
TeamForms == <>(Dead # {} \/ \A p \in Proc : ~At(p, "create"))

(* While nobody dies, every message that is sent is received, however the  *)
(* receiver alternates between probing, yielding and getNext, and every    *)
(* round of a gather that all contribute to completes.                     *)
Arrived(k) ==
    CASE type = "FANIN" -> \A w \in Worker : sent[w] >= k => From(Root, w) >= k
      [] type = "FANOUT" -> \A w \in Worker : sent[Root] >= k /\ Turn(w) = 1 + ((k - 1) % N) =>
                                From(w, Root) >= 1 + (k - 1) \div N
      [] type = "BROADCAST" -> \A w \in Worker : sent[Root] >= k => From(w, Root) >= k
      [] type = "GATHER" -> (\A p \in Proc : sent[p] >= k) => From(Root, Root) >= k
AllArrive == \A k \in 1..MaxSend : []<>(Arrived(k) \/ Dead # {})
=============================================================================
