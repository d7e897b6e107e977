----------------------------- MODULE ShmBuffer ------------------------------
(***************************************************************************)
(* A shmBuffer (protocols/shm_buffer.hpp): one slot in shared memory, with *)
(* a guard that says whether it is taken, through which a message of any   *)
(* size goes in chunks of SHM_SMALL_MSG_SIZE bytes.  Each turn of a loop   *)
(* under the spinlock of the segment is one step; a turn that finds the    *)
(* guard in the wrong state spins, and is a step that is not enabled.      *)
(*                                                                         *)
(* Writers are threads; those of one process share the std::mutex of its   *)
(* shmBuffer object.  The reader is the owner of the connection.           *)
(* Definitions named Mut... are wrong variants of the definition they go   *)
(* before.                                                                 *)
(***************************************************************************)
EXTENDS Integers, Sequences

CONSTANTS
    Writer,     \* threads that call put
    Lock,       \* the mutex of each writer's process
    Size,       \* the sizes of messages; 0 is EOS
    Chunk,      \* SHM_SMALL_MSG_SIZE
    MaxMsgs     \* no put starts once this many messages are out (bound)

(* Processes that share a buffer for writing (connection requests) put     *)
(* messages of one chunk only.                                             *)
ASSUME SizeAssumption == Size \subseteq Nat /\ Chunk \in Nat \ {0} /\ MaxMsgs \in Nat
ASSUME LockAssumption ==
    \/ \A v, w \in Writer : Lock[v] = Lock[w]
    \/ \A n \in Size : n <= Chunk

VARIABLES
    seg,        \* the segment: guard, size, and which bytes of which message
    put,        \* put in each writer: what is left of its locals
    held,       \* the writers' mutexes that are locked
    rd,         \* the reader: probe, then get
    sent,       \* the sizes of the messages in the order they began
    rcvd        \* what get has returned: size, and the pieces of the buffer

vars == <<seg, put, held, rd, sent, rcvd>>

Piece == [id : Nat, off : Nat, len : Nat]
Segment == [guard : BOOLEAN, size : Nat, id : Nat, off : Nat]
Putting == [pc : {"idle", "put"}, size : Nat, id : Nat, p : Nat]
Getting == [pc : {"idle", "probed", "get"}, size : Nat, nmsgs : Nat, p : Nat,
            buf : Seq(Piece)]
Resting == [pc |-> "idle", size |-> 0, id |-> 0, p |-> 0]
Waiting == [pc |-> "idle", size |-> 0, nmsgs |-> 0, p |-> 0, buf |-> <<>>]

(* The segment as createBuffer leaves it.                                  *)
Init == /\ seg = [guard |-> FALSE, size |-> 0, id |-> 0, off |-> 0]
        /\ put = [w \in Writer |-> Resting]
        /\ held = {}
        /\ rd = Waiting
        /\ sent = <<>> /\ rcvd = <<>>

Smaller(a, b) == IF a < b THEN a ELSE b

(* (float)n for n < 2^30: exact up to 2^24, otherwise the nearest multiple *)
(* of the unit in the last place, ties to even.                            *)
FloatExact == 16777216
Unit(n) == CHOOSE u \in {2, 4, 8, 16, 32, 64} : n \div u < FloatExact /\ n \div u >= FloatExact \div 2
Float(n) ==
    IF n <= FloatExact THEN n
    ELSE LET u == Unit(n)
             q == n \div u
             up == 2 * (n % u) > u \/ (2 * (n % u) = u /\ q % 2 = 1)
         IN  u * IF up THEN q + 1 ELSE q

(* nmsgs = std::ceil((float)size / SHM_SMALL_MSG_SIZE)                     *)
NMsgs(n) == (Float(n) + Chunk - 1) \div Chunk

-----------------------------------------------------------------------------
MutNoMutex(w) == TRUE
MutexFree(w) == Lock[w] \notin held
MutNoWait == TRUE
SlotFree == ~seg.guard

(* put locks the mutex.                                                    *)
PutStart(w, n) ==
    /\ put[w].pc = "idle" /\ MutexFree(w) /\ Len(sent) < MaxMsgs
    /\ put' = [put EXCEPT ![w] = [pc |-> "put", size |-> n, id |-> 0, p |-> 0]]
    /\ held' = held \union {Lock[w]}
    /\ UNCHANGED <<seg, rd, sent, rcvd>>

(* One turn of the loop of put, or its only step when the size is 0.  The  *)
(* last one returns and unlocks the mutex.                                 *)
PutChunk(w) ==
    LET n == put[w].size
        p == put[w].p
        id == IF p = 0 THEN Len(sent) + 1 ELSE put[w].id
        next == p + Smaller(n - p, Chunk)
    IN
    /\ put[w].pc = "put" /\ SlotFree
    /\ seg' = [guard |-> TRUE, size |-> n, id |-> id, off |-> p]
    /\ sent' = IF p = 0 THEN Append(sent, n) ELSE sent
    /\ put' = [put EXCEPT ![w] = IF next = n THEN Resting
                                 ELSE [@ EXCEPT !.id = id, !.p = next]]
    /\ held' = IF next = n THEN held \ {Lock[w]} ELSE held
    /\ UNCHANGED <<rd, rcvd>>

(* getsize and trygetsize, when the slot is taken; trygetsize fails with   *)
(* EAGAIN otherwise.                                                       *)
GetSize ==
    /\ rd.pc = "idle" /\ seg.guard
    /\ rd' = [rd EXCEPT !.pc = "probed", !.size = seg.size]
    /\ UNCHANGED <<seg, put, held, sent, rcvd>>

(* get of an EOS.                                                          *)
MutKeepEOS ==
    /\ rd.pc = "probed" /\ seg.guard /\ seg.size = 0
    /\ rd' = Waiting
    /\ UNCHANGED <<seg, put, held, sent, rcvd>>
GetEOS ==
    /\ rd.pc = "probed" /\ seg.guard /\ seg.size = 0
    /\ seg' = [seg EXCEPT !.guard = FALSE]
    /\ rd' = Waiting
    /\ rcvd' = Append(rcvd, [size |-> 0, buf |-> <<>>])
    /\ UNCHANGED <<put, held, sent>>

(* One turn of the loop of get (and of tryget) with size, nmsgs, p and the *)
(* buffer as they are at its start.                                        *)
Copy(n, k, p, buf) ==
    LET s == Smaller(n - p, Chunk)
        now == Append(buf, [id |-> seg.id, off |-> seg.off, len |-> s])
    IN
    /\ seg' = [seg EXCEPT !.guard = FALSE]
    /\ IF k = 1
       THEN rd' = Waiting /\ rcvd' = Append(rcvd, [size |-> n, buf |-> now])
       ELSE /\ rd' = [pc |-> "get", size |-> n, nmsgs |-> k - 1, p |-> p + s, buf |-> now]
            /\ UNCHANGED rcvd
    /\ UNCHANGED <<put, held, sent>>

GetFirst ==
    /\ rd.pc = "probed" /\ seg.guard /\ seg.size # 0
    /\ Copy(seg.size, NMsgs(seg.size), 0, <<>>)

GetNext ==
    /\ rd.pc = "get" /\ seg.guard
    /\ Copy(rd.size, rd.nmsgs, rd.p, rd.buf)

(* Everything that was sent within the bound has been received.            *)
Terminated ==
    /\ Len(sent) >= MaxMsgs /\ Len(rcvd) = Len(sent)
    /\ rd.pc = "idle" /\ \A w \in Writer : put[w].pc = "idle"
    /\ UNCHANGED vars

Next == \/ \E w \in Writer : PutChunk(w) \/ \E n \in Size : PutStart(w, n)
        \/ GetSize \/ GetEOS \/ GetFirst \/ GetNext
        \/ Terminated

Spec == Init /\ [][Next]_vars

(* Both sides spin until they can go on, and the receiver reads what has   *)
(* arrived.                                                                *)
FairSpec == /\ Spec
            /\ \A w \in Writer : WF_vars(PutChunk(w))
            /\ WF_vars(GetSize \/ GetEOS \/ GetFirst \/ GetNext)

-----------------------------------------------------------------------------
(* Every variable stays in its type; in particular nmsgs counts down to 0  *)
(* and not past it.                                                        *)
TypeOK == /\ seg \in Segment
          /\ put \in [Writer -> Putting]
          /\ held \subseteq {Lock[w] : w \in Writer}
          /\ rd \in Getting
          /\ sent \in Seq(Size)
          /\ rcvd \in Seq([size : Nat, buf : Seq(Piece)])

(* The pieces of message i, of size n, in order and without a gap.         *)
Whole(buf, i, n) ==
    LET Off(k) == (k - 1) * Chunk IN
    /\ \A k \in DOMAIN buf :
         buf[k] = [id |-> i, off |-> Off(k), len |-> Smaller(n - Off(k), Chunk)]
    /\ Off(Len(buf)) < n
    /\ n <= Len(buf) * Chunk

(* What get returns is the next message that was put, whole: the chunks of *)
(* two messages are never mixed, none is lost, repeated or left behind for *)
(* the next get, whatever the interleaving of writers and reader.          *)
Intact == \A i \in DOMAIN rcvd :
            i <= Len(sent) /\ rcvd[i].size = sent[i] /\ Whole(rcvd[i].buf, i, sent[i])

(* The size that probe returned, for which the receiver allocated its      *)
(* buffer, is the size of the message get is going to copy: get does not   *)
(* look at the size of the buffer.                                         *)
ProbeHolds == rd.pc = "probed" =>
                /\ seg.guard /\ seg.size = rd.size
                /\ seg.off = 0 /\ seg.id = Len(rcvd) + 1

(* The buffer is a one-place channel of whole messages: a message enters   *)
(* it with its first chunk and leaves it with its last.                    *)
OnTheWay == SubSeq(sent, Len(rcvd) + 1, Len(sent))
Returned == [i \in DOMAIN rcvd |-> rcvd[i].size]
Channel == INSTANCE MsgChannel WITH place <- OnTheWay, taken <- Returned

IsChannel == Channel!Spec

(* Every message that is put is received, and every put returns: neither   *)
(* side spins on the guard for ever.                                       *)
Delivered ==
    /\ \A i \in 1..MaxMsgs : (Len(sent) >= i) ~> (Len(rcvd) >= i)
    /\ \A w \in Writer : put[w].pc = "put" ~> put[w].pc = "idle"
=============================================================================
