-------------------------- MODULE CollectiveProofs ---------------------------
(***************************************************************************)
(* Collective, for any team, with any number of members and of messages:   *)
(* messages arrive whole, once, in order and at the right member           *)
(* (InOrder); who is told of the end has received everything               *)
(* (EndIsComplete); the context of a team has one holder (OneHolder); and  *)
(* no handle but a fan-out's is used once it is deleted (OthersSafe).      *)
(*                                                                         *)
(* What is sent on a connection over the whole run is its flow: the k-th   *)
(* frame of it follows from k, the type of the team and, in a fan-out, the *)
(* place of the member in the list.  At any moment the stream holds a      *)
(* handshake at most, then a segment of the flow - from what has been read *)
(* to what has been written -, then EOS and the shutdown.  Both ends of    *)
(* the segment are functions of what the program has sent and received.    *)
(***************************************************************************)
EXTENDS Collective, SequenceTheorems, FiniteSetTheorems, TLAPS

(***************************************************************************)
(* The inductive invariant, in parts.                                      *)
(***************************************************************************)
Ps(p) == coll[p].participants
Among(x, s) == \E i \in DOMAIN s : s[i] = x
Working(p) == op[p].pc \notin {"create", "dead"}
L == From(Root, Root)
Fresh(e) == handle[e] = [closed_rd |-> FALSE, closed_wr |-> FALSE, life |-> "live"]
(* The root has read a header from w, and not yet the body.                *)
HalfRead(w) == /\ ctx[Root].probed = "msg"
               /\ Ps(Root)[coll[Root].probed_idx] = w
Results == IF type = "GATHER" THEN [0..N -> 0..MaxSend] ELSE Value
Typed == TypeOK /\ got \in [Proc -> [Proc -> Seq(Results)]]

(* Who is in the lists of participants; nothing happens to a process       *)
(* before it has called createTeam.                                        *)
Members ==
    /\ \A w \in Worker :
        /\ Ps(w) \in {<<>>, <<Root>>}
        /\ Working(w) /\ (type = "FANOUT" => ~ctx[w].closed_rd) => Ps(w) = <<Root>>
        /\ At(w, "create") => ~Among(w, groupsReady) /\ ~Among(w, Ps(Root))
    /\ Ps(Root) \in Seq(Worker) /\ IsInjective(Ps(Root)) /\ IsInjective(groupsReady)
    /\ type # "FANIN" /\ Ps(Root) # <<>> => Len(Ps(Root)) = N
    /\ type # "FANIN" /\ Working(Root) => \A w \in Worker : Among(w, Ps(Root))
    /\ \A p \in Proc : At(p, "create") =>
        /\ Ps(p) = <<>> /\ coll[p].current = 1 /\ sent[p] = 0
        /\ ~user[p] /\ ready[p] = 0 /\ ~ctx[p].toManage /\ ctx[p].probed = "no"
        /\ \A e \in End : e[1] = p => Fresh(e)

(* The flags of the context, and its one holder.                           *)
ContextAt(p) ==
    /\ ~CanReceive(type, p) => ctx[p].closed_rd
    /\ ~CanSend(type, p) => ctx[p].closed_wr
    /\ At(p, "probe") => /\ p = Root /\ type = "FANIN" /\ ctx[p].probed = "no"
                         /\ ~ctx[p].closed_rd /\ user[p]
    /\ At(p, "receive") => p = Root /\ type = "GATHER"
    /\ CanReceive(type, p) /\ ~ctx[p].closed_rd /\ op[p].pc \notin {"create", "dead"} =>
         One(user[p]) + ready[p] + One(ctx[p].toManage) = 1

Contexts ==
    /\ \A p \in Proc : ContextAt(p)
    /\ type = "FANIN" =>
        /\ ctx[Root].probed = "msg" => coll[Root].probed_idx \in DOMAIN Ps(Root)
        /\ Working(Root) /\ ~ctx[Root].closed_rd => Ps(Root) # <<>>

(* Who has closed which handles: a participant of a fan-in has its handle  *)
(* open, and the root of a gather closes all its handles together.         *)
HandlesKept ==
    /\ \A e \in End : handle[e].life # "live" => handle[e].closed_rd /\ handle[e].closed_wr
    /\ OthersSafe
    /\ type = "FANIN" => \A w \in Worker : Among(w, Ps(Root)) => Fresh(<<Root, w>>)
    /\ type = "BROADCAST" => \A w \in Worker :
        /\ ~handle[<<Root, w>>].closed_rd
        /\ op[w].pc \notin {"ended", "dead"} => Fresh(<<w, Root>>)
    /\ type = "GATHER" => \A w \in Worker :
        /\ ~handle[<<w, Root>>].closed_rd
        /\ At(Root, "receive") => ~Shut(<<Root, w>>)
        /\ op[Root].pc \notin {"ended", "dead"} => ~handle[<<Root, w>>].closed_rd
        /\ Dead = {} => \A x \in Worker : Shut(<<Root, w>>) = Shut(<<Root, x>>)

(* The k-th frame sent on a connection.                                    *)
Header(v) == [t |-> "hdr", v |-> v]
Body(v) == [t |-> "body", v |-> v]
Counted(k, f) == \E j \in Nat : (k = 2*j + 1 /\ f = Header(j + 1)) \/ (k = 2*j + 2 /\ f = Body(j + 1))
Dealt(w, k, f) == \E j \in Nat, i \in DOMAIN Ps(Root) : Ps(Root)[i] = w /\
   ((k = 2*j + 1 /\ f = Header(j*N + i)) \/ (k = 2*j + 2 /\ f = Body(j*N + i)))
Ranked(w, k, f) == \E j \in Nat : \/ k = 4*j + 1 /\ f = Header(Rank[w])
                                  \/ k = 4*j + 2 /\ f = Body(Rank[w])
                                  \/ k = 4*j + 3 /\ f = Header(j + 1)
                                  \/ k = 4*j + 4 /\ f = Body(j + 1)
Flow(e) == {x \in Nat \X Frame : CASE type \in {"FANIN", "BROADCAST"} -> Counted(x[1], x[2])
                [] type = "FANOUT" -> Dealt(e[1], x[1], x[2])
                [] type = "GATHER" -> Ranked(e[2], x[1], x[2])}

(* A stream: a handshakes, the frames b + 1 to m of the flow F, and the    *)
(* last z of EOS and the shutdown.                                         *)
Seg(s, a, b, m, z, F) ==
    /\ b <= m
    /\ Len(s) = a + (m - b) + z
    /\ a = 1 => s[1] = TEAM
    /\ \A j \in 1..(m - b) : <<b + j, s[a + j]>> \in F
    /\ z > 0 => s[Len(s)] = FIN
    /\ z = 2 => s[Len(s) - 1] = EOS

(* While the handshake is there, its sender is in no list of the root.     *)
Opening(e, a, b) == a = 1 =>
    /\ e[1] = Root /\ b = 0 /\ ~At(e[2], "create")
    /\ ~Among(e[2], groupsReady) /\ ~Among(e[2], Ps(Root))

(* A stream ends because the peer has closed it, or has died; when nobody  *)
(* dies, EOS has gone only from a reader that has been told.               *)
Ending(e, z) == z > 0 =>
    /\ Shut(Peer(e)) \/ At(e[2], "dead")
    /\ Dead = {} /\ z = 1 =>
        /\ type = "FANIN" /\ e[1] = Root => ~Among(e[2], Ps(Root)) /\ Working(Root)
        /\ type = "FANOUT" /\ e[2] = Root => ctx[e[1]].closed_rd
        /\ type = "BROADCAST" /\ e[2] = Root => At(e[1], "ended")
        /\ type = "GATHER" /\ e[1] = Root => At(Root, "ended")

(* The handles that messages are read from, and how many frames have been  *)
(* read from them and written to them.                                     *)
Carries(e) == IF type \in {"FANIN", "GATHER"} THEN e[1] = Root ELSE e[2] = Root
Read(e, b) ==
    CASE type = "FANIN" -> b = 2 * From(Root, e[2]) + One(HalfRead(e[2]))
      [] type = "FANOUT" -> b = 2 * From(e[1], Root) + One(ctx[e[1]].probed = "msg")
      [] type = "BROADCAST" -> b = 2 * From(e[1], Root)
      [] type = "GATHER" ->
          /\ op[Root].pc \in {"create", "idle"} => b = 4 * L
          /\ At(Root, "receive") => \A k \in DOMAIN Ps(Root) : Ps(Root)[k] = e[2] =>
                b = 4 * L + (IF k < op[Root].i THEN 4
                             ELSE IF k = op[Root].i /\ op[Root].data THEN 2 ELSE 0)
Written(e, m) ==
    CASE type = "FANIN" -> m = 2 * sent[e[2]]
      [] type = "FANOUT" ->
          /\ Ps(Root) = <<>> => m = 0
          /\ \A i \in DOMAIN Ps(Root) : Ps(Root)[i] = e[1] =>
               \E q \in Nat : /\ sent[Root] = q * N + coll[Root].current - 1
                              /\ m = 2 * (q + One(i < coll[Root].current))
      [] type = "BROADCAST" ->
          \E j \in Nat : m = 2 * j /\ (op[Root].pc \in {"create", "idle"} => j = sent[Root])
      [] type = "GATHER" -> m = 4 * sent[e[2]]

Stream(e) == \E a \in 0..1, z \in 0..2, b, m \in Nat :
    /\ Seg(in[e], a, b, m, z, Flow(e))
    /\ Opening(e, a, b) /\ Ending(e, z)
    /\ IF Carries(e) THEN Read(e, b) /\ Written(e, m) ELSE b = 0 /\ m = 0
Streams == \A e \in End : Stream(e)

(* What has been received, and what a gather in progress has collected.    *)
Values ==
    /\ type = "FANIN" => \A w \in Worker : Consecutive(got[Root][w])
    /\ type = "BROADCAST" => \A w \in Worker : Consecutive(got[w][Root])
    /\ type = "FANOUT" => \A i \in DOMAIN Ps(Root) :
        \A k \in DOMAIN got[Ps(Root)[i]][Root] : got[Ps(Root)[i]][Root][k] = (k - 1) * N + i
    /\ type = "FANOUT" => coll[Root].current \in 1..N
    /\ type = "GATHER" =>
        /\ \A k \in 1..L : got[Root][Root][k] = [r \in 0..N |-> k]
        /\ op[Root].pc \in {"create", "idle"} => sent[Root] = L
        /\ At(Root, "receive") =>
            /\ sent[Root] = L + 1 /\ op[Root].buff[Rank[Root]] = L + 1
            /\ \A k \in 1..(op[Root].i - 1) : op[Root].buff[Rank[Ps(Root)[k]]] = L + 1
            /\ op[Root].data => op[Root].rank = Rank[Ps(Root)[op[Root].i]]

(* While nobody dies, whoever has been told of the end has everything.     *)
Ends == Dead = {} =>
    /\ \A p \in Proc : At(p, "ended") => IF p = Root THEN type = "GATHER" ELSE type = "BROADCAST"
    /\ type = "FANIN" =>
        /\ Working(Root) => \A w \in Worker : ~Among(w, Ps(Root)) =>
                              Shut(<<w, Root>>) /\ From(Root, w) = sent[w]
        /\ ctx[Root].closed_rd => Ps(Root) = <<>> /\ Working(Root)
    /\ type = "FANOUT" => \A w \in Worker : ctx[w].closed_rd =>
        /\ Shut(<<Root, w>>)
        /\ \E i \in DOMAIN Ps(Root), q \in Nat :
            /\ Ps(Root)[i] = w /\ sent[Root] = q * N + coll[Root].current - 1
            /\ From(w, Root) = q + One(i < coll[Root].current)
    /\ type = "BROADCAST" => \A w \in Worker : At(w, "ended") =>
        Shut(<<Root, w>>) /\ From(w, Root) = sent[Root]
    /\ type = "GATHER" /\ At(Root, "ended") =>
        \E w \in Worker : Shut(<<w, Root>>) /\ sent[w] = L

(***************************************************************************)
(* The team.                                                               *)
(***************************************************************************)

(* The team has N >= 1 members other than the root, which is not one.      *)
LEMMA Team ==
  /\ N \in Nat /\ N >= 1 /\ Root \in Proc /\ Worker \subseteq Proc
  /\ \A w \in Worker : w # Root
  /\ \A p \in Proc : p = Root \/ p \in Worker
<1>1. N \in Nat /\ N # 0
  BY TeamAssumption, FS_CardinalityType, FS_EmptySet DEF N
<1> QED BY <1>1, TeamAssumption DEF Proc

(* N different members are all of them.                                    *)
LEMMA AllListed ==
  ASSUME NEW s \in Seq(Worker), IsInjective(s), Len(s) = N, NEW w \in Worker
  PROVE  Among(w, s)
<1>1. s \in Injection(1..N, Worker)
  BY Team, LenProperties, ElementOfSeq DEF Injection
<1>2. IsFiniteSet(1..N) /\ Cardinality(1..N) = N
  BY Team, FS_Interval
<1>3. s \in Surjection(1..N, Worker)
  BY <1>1, <1>2, TeamAssumption, FS_Injection DEF N
<1> QED BY <1>3, LenProperties DEF Surjection, Among

(* Every position of the result of a gather belongs to a member.           *)
LEMMA AllRanked ==
  ASSUME NEW r \in 0..N
  PROVE  \E p \in Proc : Rank[p] = r
<1>1. IsFiniteSet(Proc) /\ Cardinality(Proc) = N + 1
  BY TeamAssumption, FS_AddElement DEF Proc, N
<1>2. IsFiniteSet(0..N) /\ Cardinality(0..N) = N + 1
  BY Team, FS_Interval
<1>3. Rank \in Injection(Proc, 0..N)
  BY TeamAssumption DEF Injection, IsInjective
<1>4. Rank \in Surjection(Proc, 0..N)
  BY <1>1, <1>2, <1>3, FS_Injection
<1> QED BY <1>4 DEF Surjection

(***************************************************************************)
(* Sequences.                                                              *)
(***************************************************************************)
LEMMA Dropped ==
  ASSUME NEW S, NEW s \in Seq(S), NEW n \in 1..2, Len(s) >= n,
         NEW t, t = SubSeq(s, n + 1, Len(s))
  PROVE  /\ t \in Seq(S) /\ Len(s) \in Nat /\ Len(t) = Len(s) - n
         /\ \A i \in 1..(Len(s) - n) : t[i] = s[i + n]
<1>1. PICK l \in Nat : l = Len(s) /\ l >= n /\ \A i \in 1..l : s[i] \in S
  BY LenProperties, ElementOfSeq
<1>2. \A i \in (n + 1)..l : s[i] \in S
  BY <1>1
<1>3. t = SubSeq(s, n + 1, l) /\ n + 1 \in 1..(l + 1) /\ l \in 0..Len(s)
  BY <1>1
<1>4. /\ t \in Seq(S)
      /\ Len(t) = IF n + 1 <= l THEN l - (n + 1) + 1 ELSE 0
      /\ \A i \in 1..(l - (n + 1) + 1) : t[i] = s[n + 1 + i - 1]
  BY <1>1, <1>2, <1>3, SubSeqProperties
<1>5. Len(t) = l - n
  BY <1>1, <1>4
<1>6. ASSUME NEW i \in 1..(l - n) PROVE t[i] = s[i + n]
  BY <1>1, <1>4
<1> QED BY <1>1, <1>4, <1>5, <1>6

LEMMA Tailed ==
  ASSUME NEW S, NEW s \in Seq(S), s # <<>>, NEW t, t = Tail(s)
  PROVE  /\ t \in Seq(S) /\ Len(s) \in Nat /\ Len(s) >= 1 /\ Len(t) = Len(s) - 1
         /\ \A i \in 1..(Len(s) - 1) : t[i] = s[i + 1]
<1>1. /\ t \in Seq(S) /\ Len(t) = Len(s) - 1 /\ \A i \in 1..Len(t) : t[i] = s[i + 1]
  BY HeadTailProperties
<1>2. Len(s) \in Nat /\ Len(s) >= 1
  BY LenProperties, EmptySeq
<1> QED BY <1>1, <1>2

LEMMA Joined ==
  ASSUME NEW S, NEW s \in Seq(S), NEW r \in Seq(S), NEW t, t = s \o r
  PROVE  /\ t \in Seq(S) /\ Len(s) \in Nat /\ Len(r) \in Nat /\ Len(t) = Len(s) + Len(r)
         /\ \A i \in 1..Len(s) : t[i] = s[i]
         /\ \A i \in 1..Len(r) : t[Len(s) + i] = r[i]
<1>1. Len(s) \in Nat /\ Len(r) \in Nat
  BY LenProperties
<1>2. /\ t \in Seq(S) /\ Len(t) = Len(s) + Len(r)
      /\ \A i \in 1..(Len(s) + Len(r)) : t[i] = IF i <= Len(s) THEN s[i] ELSE r[i - Len(s)]
  BY ConcatProperties
<1>3. ASSUME NEW i \in 1..Len(r) PROVE t[Len(s) + i] = r[i]
  BY <1>1, <1>2
<1>4. ASSUME NEW i \in 1..Len(s) PROVE t[i] = s[i]
  BY <1>1, <1>2
<1> QED BY <1>1, <1>2, <1>3, <1>4

LEMMA Appended ==
  ASSUME NEW S, NEW s \in Seq(S), NEW x \in S, NEW t, t = Append(s, x)
  PROVE  /\ t \in Seq(S) /\ Len(s) \in Nat /\ Len(t) = Len(s) + 1
         /\ \A i \in 1..Len(s) : t[i] = s[i]
         /\ t[Len(s) + 1] = x
<1>1. Len(s) \in Nat
  BY LenProperties
<1> QED BY <1>1, AppendProperties

(* A list without its i-th member.                                         *)
LEMMA Removed ==
  ASSUME NEW S, NEW s \in Seq(S), NEW i \in 1..Len(s), NEW t, t = Without(s, i)
  PROVE  /\ t \in Seq(S) /\ Len(s) \in Nat /\ Len(t) = Len(s) - 1
         /\ \A j \in 1..Len(t) : t[j] = IF j < i THEN s[j] ELSE s[j + 1]
<1>1. PICK l \in Nat : l = Len(s) /\ i \in 1..l /\ \A j \in 1..l : s[j] \in S
  BY LenProperties, ElementOfSeq
<1>2. PICK a : a = SubSeq(s, 1, i - 1)
  OBVIOUS
<1>3. PICK b : b = SubSeq(s, i + 1, l)
  OBVIOUS
<1>4. /\ a \in Seq(S) /\ Len(a) = i - 1 /\ \A j \in 1..(i - 1) : a[j] = s[j]
  <2>1. i - 1 \in Int /\ \A j \in 1..(i - 1) : s[j] \in S
    BY <1>1
  <2>2. /\ a \in Seq(S) /\ Len(a) = IF 1 <= i - 1 THEN i - 1 - 1 + 1 ELSE 0
        /\ \A j \in 1..(i - 1 - 1 + 1) : a[j] = s[1 + j - 1]
    BY <1>2, <2>1, SubSeqProperties
  <2> QED BY <1>1, <2>2
<1>5. /\ b \in Seq(S) /\ Len(b) = l - i /\ \A j \in 1..(l - i) : b[j] = s[i + j]
  <2>1. \A j \in (i + 1)..l : s[j] \in S
    BY <1>1
  <2>2. /\ b \in Seq(S) /\ Len(b) = IF i + 1 <= l THEN l - (i + 1) + 1 ELSE 0
        /\ \A j \in 1..(l - (i + 1) + 1) : b[j] = s[i + 1 + j - 1]
    BY <1>1, <1>3, <2>1, SubSeqProperties
  <2> QED BY <1>1, <2>2
<1>6. t = a \o b
  BY <1>1, <1>2, <1>3 DEF Without, RemoveAt
<1>7. a \in Seq(S) /\ b \in Seq(S)
  BY <1>4, <1>5
<1>8. /\ t \in Seq(S) /\ Len(t) = l - 1
      /\ \A j \in 1..(i - 1) : t[j] = a[j]
      /\ \A j \in 1..(l - i) : t[i - 1 + j] = b[j]
  <2>1. /\ t \in Seq(S) /\ Len(t) = Len(a) + Len(b)
        /\ \A j \in 1..Len(a) : t[j] = a[j]
        /\ \A j \in 1..Len(b) : t[Len(a) + j] = b[j]
    BY <1>6, <1>7, Joined
  <2>2. Len(a) = i - 1 /\ Len(b) = l - i
    BY <1>4, <1>5
  <2>3. Len(t) = l - 1
    BY <1>1, <2>1, <2>2
  <2> QED BY <2>1, <2>2, <2>3
<1>9. ASSUME NEW j \in 1..(l - 1) PROVE t[j] = IF j < i THEN s[j] ELSE s[j + 1]
  <2>1. CASE j < i
    BY <1>1, <1>4, <1>8, <2>1
  <2>2. CASE ~(j < i)
    <3>1. PICK k \in 1..(l - i) : j = i - 1 + k
      <4>1. j - (i - 1) \in 1..(l - i) /\ j = i - 1 + (j - (i - 1))
        BY <1>1, <2>2
      <4> QED BY <4>1
    <3>2. t[i - 1 + k] = b[k] /\ b[k] = s[i + k]
      BY <1>5, <1>8, <3>1
    <3>3. i + k = j + 1
      BY <1>1, <3>1
    <3>4. t[j] = s[j + 1]
      BY <3>1, <3>2, <3>3, Zenon
    <3> QED BY <2>2, <3>4
  <2> QED BY <2>1, <2>2
<1> QED BY <1>1, <1>8, <1>9

(* Who is left when the i-th has gone, where all are different.            *)
LEMMA Left ==
  ASSUME NEW S, NEW s \in Seq(S), IsInjective(s), NEW i \in 1..Len(s), NEW t, t = Without(s, i)
  PROVE  /\ IsInjective(t)
         /\ \A x : Among(x, t) <=> Among(x, s) /\ x # s[i]
<1>1. PICK l \in Nat : l = Len(s) /\ i \in 1..l
  BY LenProperties
<1>2. /\ DOMAIN s = 1..l /\ DOMAIN t = 1..(l - 1)
      /\ \A j \in 1..(l - 1) : t[j] = IF j < i THEN s[j] ELSE s[j + 1]
  BY <1>1, Removed, LenProperties
<1>3. \A j, k \in 1..l : s[j] = s[k] => j = k
  BY <1>2 DEF IsInjective
<1>4. IsInjective(t)
  <2>1. SUFFICES ASSUME NEW j \in 1..(l - 1), NEW k \in 1..(l - 1), t[j] = t[k] PROVE j = k
    BY <1>2 DEF IsInjective
  <2> QED BY <1>1, <1>2, <1>3, <2>1
<1>5. ASSUME NEW x, Among(x, t) PROVE Among(x, s) /\ x # s[i]
  <2>1. PICK j \in 1..(l - 1) : t[j] = x
    BY <1>2, <1>5 DEF Among
  <2>2. PICK k \in 1..l : s[k] = x /\ k # i
    BY <1>1, <1>2, <2>1
  <2> QED BY <1>1, <1>2, <1>3, <2>2 DEF Among
<1>6. ASSUME NEW x, Among(x, s), x # s[i] PROVE Among(x, t)
  <2>1. PICK k \in 1..l : s[k] = x /\ k # i
    BY <1>2, <1>6 DEF Among
  <2>2. CASE k < i
    <3>1. k \in 1..(l - 1) /\ t[k] = x
      BY <1>1, <1>2, <2>1, <2>2
    <3> QED BY <1>2, <3>1 DEF Among
  <2>3. CASE k > i
    <3>1. k - 1 \in 1..(l - 1) /\ t[k - 1] = x
      BY <1>1, <1>2, <2>1, <2>3
    <3> QED BY <1>2, <3>1 DEF Among
  <2> QED BY <1>1, <2>1, <2>2, <2>3
<1> QED BY <1>4, <1>5, <1>6

(***************************************************************************)
(* Segments of a flow.                                                     *)
(***************************************************************************)
LEMMA Frames == TEAM \in Frame /\ EOS \in Frame /\ FIN \in Frame
BY DEF TEAM, EOS, FIN, Frame

(* What is read first, once the handshake has been taken.                  *)
LEMMA SegHead ==
  ASSUME NEW F, NEW s \in Seq(Frame), NEW b \in Nat, NEW m \in Nat, NEW z \in 0..2,
         Seg(s, 0, b, m, z, F), s # <<>>
  PROVE  /\ Len(s) \in Nat /\ Len(s) >= 1 /\ s[1] \in Frame
         /\ \/ b < m /\ <<b + 1, s[1]>> \in F
            \/ b = m /\ z = 2 /\ s[1] = EOS /\ Len(s) = 2
            \/ b = m /\ z = 1 /\ s[1] = FIN /\ Len(s) = 1
<1>1. PICK l \in Nat : l = Len(s) /\ l >= 1
  BY LenProperties, EmptySeq
<1>2. s[1] \in Frame
  BY <1>1, ElementOfSeq
<1>3. b <= m /\ l = (m - b) + z
  BY <1>1 DEF Seg
<1>4. CASE b < m
  <2>1. 1 \in 1..(m - b) /\ b + 1 = 1 + b /\ 0 + 1 = 1
    BY <1>3, <1>4
  <2>2. <<b + 1, s[0 + 1]>> \in F
    BY <2>1 DEF Seg
  <2> QED BY <1>1, <1>2, <1>4, <2>1, <2>2
<1>5. CASE b = m /\ z = 2
  <2>1. l = 2 /\ l - 1 = 1
    BY <1>3, <1>5
  <2>2. s[l - 1] = EOS
    BY <1>1, <1>5 DEF Seg
  <2> QED BY <1>1, <1>2, <1>5, <2>1, <2>2
<1>6. CASE b = m /\ z = 1
  <2>1. l = 1
    BY <1>3, <1>6
  <2>2. s[l] = FIN
    BY <1>1, <1>6 DEF Seg
  <2> QED BY <1>1, <1>2, <1>6, <2>1, <2>2
<1>7. b < m \/ (b = m /\ z = 2) \/ (b = m /\ z = 1)
  BY <1>1, <1>3
<1> QED BY <1>4, <1>5, <1>6, <1>7

(* One or two frames are read.                                             *)
LEMMA SegTake ==
  ASSUME NEW F, NEW s \in Seq(Frame), NEW b \in Nat, NEW m \in Nat, NEW z \in 0..2,
         NEW n \in 1..2, Seg(s, 0, b, m, z, F), b + n <= m,
         NEW t, t = SubSeq(s, n + 1, Len(s))
  PROVE  t \in Seq(Frame) /\ Seg(t, 0, b + n, m, z, F)
<1>1. PICK l \in Nat : l = Len(s) /\ l = (m - b) + z
  BY LenProperties DEF Seg
<1>2. t \in Seq(Frame) /\ Len(t) = l - n /\ \A i \in 1..(l - n) : t[i] = s[i + n]
  <2>1. Len(s) >= n
    BY <1>1
  <2>2. /\ t \in Seq(Frame) /\ Len(s) \in Nat /\ Len(t) = Len(s) - n
        /\ \A i \in 1..(Len(s) - n) : t[i] = s[i + n]
    BY <2>1, Dropped, SMTT(30)
  <2> QED BY <1>1, <2>2
<1>3. ASSUME NEW j \in 1..(m - (b + n)) PROVE <<b + n + j, t[0 + j]>> \in F
  <2>1. j \in 1..(l - n) /\ j + n \in 1..(m - b) /\ b + n + j = b + (j + n)
        /\ 0 + j = j /\ 0 + (j + n) = j + n
    BY <1>1
  <2>2. <<b + (j + n), s[0 + (j + n)]>> \in F
    BY <2>1 DEF Seg
  <2>3. t[j] = s[j + n]
    BY <1>2, <2>1
  <2> QED BY <2>1, <2>2, <2>3, Zenon
<1>4. z > 0 => t[Len(t)] = FIN
  <2>1. SUFFICES ASSUME z > 0 PROVE t[l - n] = FIN
    BY <1>2
  <2>2. l - n \in 1..(l - n) /\ l - n + n = l
    BY <1>1, <2>1
  <2>3. s[l] = FIN
    BY <1>1, <2>1 DEF Seg
  <2>4. t[l - n] = s[l - n + n]
    BY <1>2, <2>2
  <2> QED BY <2>2, <2>3, <2>4
<1>5. z = 2 => t[Len(t) - 1] = EOS
  <2>1. SUFFICES ASSUME z = 2 PROVE t[l - n - 1] = EOS
    BY <1>2
  <2>2. l - n - 1 \in 1..(l - n) /\ l - n - 1 + n = l - 1
    BY <1>1, <2>1
  <2>3. s[l - 1] = EOS
    BY <1>1, <2>1 DEF Seg
  <2>4. t[l - n - 1] = s[l - n - 1 + n]
    BY <1>2, <2>2
  <2> QED BY <2>2, <2>3, <2>4
<1>6. b + n <= m /\ Len(t) = 0 + (m - (b + n)) + z
  BY <1>1, <1>2
<1> QED BY <1>2, <1>3, <1>4, <1>5, <1>6 DEF Seg

(* EOS is read: what is left is the end of the stream.                     *)
LEMMA SegEnd ==
  ASSUME NEW F, NEW s \in Seq(Frame), NEW m \in Nat, Seg(s, 0, m, m, 2, F),
         NEW t, t = SubSeq(s, 1 + 1, Len(s))
  PROVE  t \in Seq(Frame) /\ Seg(t, 0, m, m, 1, F)
<1>1. Len(s) = 2 /\ s[2] = FIN
  <2>1. Len(s) = 0 + (m - m) + 2 /\ s[Len(s)] = FIN
    BY DEF Seg
  <2> QED BY <2>1
<1>2. t \in Seq(Frame) /\ Len(t) = 1 /\ t[1] = s[2]
  <2>0. PICK n \in 1..2 : n = 1
    OBVIOUS
  <2>1. Len(s) >= n /\ t = SubSeq(s, n + 1, Len(s))
    BY <1>1, <2>0
  <2>3. /\ t \in Seq(Frame) /\ Len(t) = Len(s) - n
        /\ \A i \in 1..(Len(s) - n) : t[i] = s[i + n]
    BY <2>1, Dropped
  <2>2. 1 \in 1..(2 - 1) /\ 1 + 1 = 2 /\ 2 - 1 = 1
    OBVIOUS
  <2> QED BY <1>1, <2>0, <2>2, <2>3
<1> QED BY <1>1, <1>2 DEF Seg

(* The root takes the handshake.                                           *)
LEMMA SegTeam ==
  ASSUME NEW F, NEW s \in Seq(Frame), NEW b \in Nat, NEW m \in Nat, NEW z \in 0..2,
         Seg(s, 1, b, m, z, F), NEW t, t = Tail(s)
  PROVE  t \in Seq(Frame) /\ Seg(t, 0, b, m, z, F)
<1>1. PICK l \in Nat : l = Len(s) /\ l = 1 + (m - b) + z /\ b <= m
  BY LenProperties DEF Seg
<1>2. t \in Seq(Frame) /\ Len(t) = l - 1 /\ \A i \in 1..(l - 1) : t[i] = s[i + 1]
  <2>1. l # 0
    BY <1>1
  <2>2. s # <<>>
    BY <1>1, <2>1, EmptySeq
  <2>3. /\ t \in Seq(Frame) /\ Len(t) = Len(s) - 1
        /\ \A i \in 1..(Len(s) - 1) : t[i] = s[i + 1]
    BY <2>2, Tailed, Zenon
  <2> QED BY <1>1, <2>3
<1>3. ASSUME NEW j \in 1..(m - b) PROVE <<b + j, t[0 + j]>> \in F
  <2>1. j \in 1..(l - 1) /\ 0 + j = j /\ 1 + j = j + 1
    BY <1>1
  <2>2. <<b + j, s[1 + j]>> \in F
    BY DEF Seg
  <2> QED BY <1>2, <2>1, <2>2
<1>4. z > 0 => t[Len(t)] = FIN
  <2>1. SUFFICES ASSUME z > 0 PROVE t[l - 1] = FIN
    BY <1>2
  <2>2. l - 1 \in 1..(l - 1) /\ l - 1 + 1 = l
    BY <1>1, <2>1
  <2>3. s[l] = FIN
    BY <1>1, <2>1 DEF Seg
  <2> QED BY <1>2, <2>2, <2>3
<1>5. z = 2 => t[Len(t) - 1] = EOS
  <2>1. SUFFICES ASSUME z = 2 PROVE t[l - 1 - 1] = EOS
    BY <1>2
  <2>2. l - 1 - 1 \in 1..(l - 1) /\ l - 1 - 1 + 1 = l - 1
    BY <1>1, <2>1
  <2>3. s[l - 1] = EOS
    BY <1>1, <2>1 DEF Seg
  <2> QED BY <1>2, <2>2, <2>3
<1>6. Len(t) = 0 + (m - b) + z
  BY <1>1, <1>2
<1> QED BY <1>1, <1>2, <1>3, <1>4, <1>5, <1>6 DEF Seg

(* Frames are written to a stream that is open.                            *)
Fits(r, m, F) == \A j \in 1..Len(r) : <<m + j, r[j]>> \in F

LEMMA SegWrite ==
  ASSUME NEW F, NEW s \in Seq(Frame), NEW a \in 0..1, NEW b \in Nat, NEW m \in Nat,
         Seg(s, a, b, m, 0, F), NEW r \in Seq(Frame), Fits(r, m, F), NEW t, t = s \o r
  PROVE  t \in Seq(Frame) /\ Len(r) \in Nat /\ Seg(t, a, b, m + Len(r), 0, F)
<1>1. /\ t \in Seq(Frame) /\ Len(s) \in Nat /\ Len(r) \in Nat /\ Len(t) = Len(s) + Len(r)
      /\ \A i \in 1..Len(s) : t[i] = s[i]
      /\ \A i \in 1..Len(r) : t[Len(s) + i] = r[i]
  BY Joined
<1>2. PICK l \in Nat : l = Len(s)
  BY <1>1
<1>3. PICK n \in Nat : n = Len(r)
  BY <1>1
<1>4. l = a + (m - b) /\ b <= m
  BY <1>2 DEF Seg
<1>5. ASSUME NEW j \in 1..((m + n) - b) PROVE <<b + j, t[a + j]>> \in F
  <2>1. CASE j <= m - b
    <3>1. j \in 1..(m - b) /\ a + j \in 1..l
      BY <1>4, <2>1
    <3>2. <<b + j, s[a + j]>> \in F
      BY <3>1 DEF Seg
    <3>3. t[a + j] = s[a + j]
      BY <1>1, <1>2, <3>1
    <3> QED BY <3>2, <3>3
  <2>2. CASE j > m - b
    <3>1. PICK k \in 1..n : j = (m - b) + k
      <4>1. j - (m - b) \in 1..n /\ j = (m - b) + (j - (m - b))
        BY <1>4, <2>2
      <4> QED BY <4>1
    <3>2. b + j = m + k /\ a + j = l + k
      BY <1>4, <3>1
    <3>3. <<m + k, r[k]>> \in F
      BY <1>3 DEF Fits
    <3>4. t[l + k] = r[k]
      BY <1>1, <1>2, <1>3
    <3> QED BY <3>2, <3>3, <3>4
  <2>3. j <= m - b \/ j > m - b
    BY <1>4
  <2> QED BY <2>1, <2>2, <2>3, Zenon
<1>6. a = 1 => t[1] = TEAM
  <2>1. a = 1 => 1 \in 1..l
    BY <1>4
  <2>2. a = 1 => s[1] = TEAM
    BY DEF Seg
  <2> QED BY <1>1, <1>2, <2>1, <2>2
<1>7. b <= m + n /\ Len(t) = a + ((m + n) - b) + 0
  BY <1>1, <1>2, <1>3, <1>4
<1>8. (0 > 0 => t[Len(t)] = FIN) /\ (0 = 2 => t[Len(t) - 1] = EOS)
  OBVIOUS
<1>9. Seg(t, a, b, m + n, 0, F)
  BY <1>5, <1>6, <1>7, <1>8, Zenon DEF Seg
<1> QED BY <1>1, <1>3, <1>9

(* The writer shuts the stream, or dies.                                   *)
LEMMA SegEnds ==
  ASSUME NEW F, NEW s \in Seq(Frame), NEW a \in 0..1, NEW b \in Nat, NEW m \in Nat,
         Seg(s, a, b, m, 0, F), NEW z \in 1..2, NEW r \in Seq(Frame), Len(r) = z,
         r[z] = FIN, z = 2 => r[1] = EOS, NEW t, t = s \o r
  PROVE  t \in Seq(Frame) /\ Seg(t, a, b, m, z, F)
<1>1. /\ t \in Seq(Frame) /\ Len(s) \in Nat /\ Len(t) = Len(s) + Len(r)
      /\ \A i \in 1..Len(s) : t[i] = s[i]
      /\ \A i \in 1..Len(r) : t[Len(s) + i] = r[i]
  BY Joined
<1>2. PICK l \in Nat : l = Len(s)
  BY <1>1
<1>3. l = a + (m - b) /\ b <= m
  BY <1>2 DEF Seg
<1>4. /\ Len(t) = l + z /\ t[l + z] = FIN
      /\ z = 2 => t[l + 1] = EOS
  BY <1>1, <1>2
<1>5. ASSUME NEW j \in 1..(m - b) PROVE <<b + j, t[a + j]>> \in F
  <2>1. a + j \in 1..l
    BY <1>3
  <2>2. <<b + j, s[a + j]>> \in F
    BY DEF Seg
  <2> QED BY <1>1, <1>2, <2>1, <2>2
<1>6. a = 1 => t[1] = TEAM
  <2>1. a = 1 => 1 \in 1..l
    BY <1>3
  <2>2. a = 1 => s[1] = TEAM
    BY DEF Seg
  <2> QED BY <1>1, <1>2, <2>1, <2>2
<1>7. Len(t) = a + (m - b) + z
  BY <1>3, <1>4
<1>8. (z > 0 => t[Len(t)] = FIN) /\ (z = 2 => t[Len(t) - 1] = EOS)
  <2>1. z = 2 => l + z - 1 = l + 1
    OBVIOUS
  <2> QED BY <1>4, <2>1
<1>9. Seg(t, a, b, m, z, F)
  BY <1>3, <1>5, <1>6, <1>7, <1>8, Zenon DEF Seg
<1> QED BY <1>1, <1>9

LEMMA SegShut ==
  ASSUME NEW F, NEW s \in Seq(Frame), NEW a \in 0..1, NEW b \in Nat, NEW m \in Nat,
         Seg(s, a, b, m, 0, F), NEW t, t = s \o <<EOS, FIN>>
  PROVE  t \in Seq(Frame) /\ Seg(t, a, b, m, 2, F)
<1>1. PICK r : r = <<EOS, FIN>>
  OBVIOUS
<1>2. r \in Seq(Frame) /\ Len(r) = 2 /\ r[1] = EOS /\ r[2] = FIN
  BY <1>1, Frames
<1>3. t = s \o r
  BY <1>1
<1>4. PICK z \in 1..2 : z = 2
  OBVIOUS
<1>5. Len(r) = z /\ r[z] = FIN /\ (z = 2 => r[1] = EOS)
  BY <1>2, <1>4
<1>6. t \in Seq(Frame) /\ Seg(t, a, b, m, z, F)
  BY <1>2, <1>3, <1>5, SegEnds
<1> QED BY <1>4, <1>6

LEMMA SegDie ==
  ASSUME NEW F, NEW s \in Seq(Frame), NEW a \in 0..1, NEW b \in Nat, NEW m \in Nat,
         Seg(s, a, b, m, 0, F), NEW t, t = Append(s, FIN)
  PROVE  t \in Seq(Frame) /\ Seg(t, a, b, m, 1, F)
<1>1. PICK r : r = <<FIN>>
  OBVIOUS
<1>2. r \in Seq(Frame) /\ Len(r) = 1 /\ r[1] = FIN
  BY <1>1, Frames
<1>3. t = s \o r
  BY <1>1, Frames, AppendIsConcat
<1>4. PICK z \in 1..2 : z = 1
  OBVIOUS
<1>5. Len(r) = z /\ r[z] = FIN /\ (z = 2 => r[1] = EOS)
  BY <1>2, <1>4
<1>6. t \in Seq(Frame) /\ Seg(t, a, b, m, z, F)
  BY <1>2, <1>3, <1>5, SegEnds
<1> QED BY <1>4, <1>6

(* A member that joins sends its handshake first.                          *)
LEMMA SegJoin ==
  ASSUME NEW F, NEW s \in Seq(Frame), Seg(s, 0, 0, 0, 0, F), NEW t, t = Append(s, TEAM)
  PROVE  t \in Seq(Frame) /\ Seg(t, 1, 0, 0, 0, F)
<1>1. Len(s) = 0
  BY DEF Seg
<1>2. t \in Seq(Frame) /\ Len(t) = 1 /\ t[1] = TEAM
  <2>1. t \in Seq(Frame) /\ Len(t) = 0 + 1 /\ t[0 + 1] = TEAM
    BY <1>1, Appended, Frames
  <2> QED BY <2>1
<1> QED BY <1>2 DEF Seg

(* The flow itself does not matter while nothing is on it.                 *)
LEMMA SegIdle ==
  ASSUME NEW F, NEW G, NEW s, NEW a, NEW b \in Nat, NEW z, Seg(s, a, b, b, z, F)
  PROVE  Seg(s, a, b, b, z, G)
BY DEF Seg

(***************************************************************************)
(* Flows.                                                                  *)
(***************************************************************************)
LEMMA CountedAt ==
  ASSUME NEW j \in Nat, NEW f
  PROVE  /\ Counted(2 * j + 1, f) <=> f = Header(j + 1)
         /\ Counted(2 * j + 2, f) <=> f = Body(j + 1)
<1>1. ASSUME NEW i \in Nat PROVE 2 * j + 1 # 2 * i + 2 /\ 2 * j + 2 # 2 * i + 1
             /\ (2 * j + 1 = 2 * i + 1 => i = j) /\ (2 * j + 2 = 2 * i + 2 => i = j)
  OBVIOUS
<1> QED BY <1>1 DEF Counted

LEMMA DealtAt ==
  ASSUME Members, NEW i \in DOMAIN Ps(Root), NEW w, w = Ps(Root)[i], NEW j \in Nat, NEW f
  PROVE  /\ Dealt(w, 2 * j + 1, f) <=> f = Header(j * N + i)
         /\ Dealt(w, 2 * j + 2, f) <=> f = Body(j * N + i)
<1>1. ASSUME NEW k \in Nat PROVE 2 * j + 1 # 2 * k + 2 /\ 2 * j + 2 # 2 * k + 1
             /\ (2 * j + 1 = 2 * k + 1 => k = j) /\ (2 * j + 2 = 2 * k + 2 => k = j)
  OBVIOUS
<1>2. ASSUME NEW k \in DOMAIN Ps(Root), Ps(Root)[k] = w PROVE k = i
  BY <1>2 DEF Members, IsInjective
<1> QED BY <1>1, <1>2 DEF Dealt

LEMMA RankedAt ==
  ASSUME NEW w, NEW j \in Nat, NEW f
  PROVE  /\ Ranked(w, 4 * j + 1, f) <=> f = Header(Rank[w])
         /\ Ranked(w, 4 * j + 2, f) <=> f = Body(Rank[w])
         /\ Ranked(w, 4 * j + 3, f) <=> f = Header(j + 1)
         /\ Ranked(w, 4 * j + 4, f) <=> f = Body(j + 1)
<1>1. ASSUME NEW i \in Nat
      PROVE  /\ 4 * j + 1 \notin {4 * i + 2, 4 * i + 3, 4 * i + 4}
             /\ 4 * j + 2 \notin {4 * i + 1, 4 * i + 3, 4 * i + 4}
             /\ 4 * j + 3 \notin {4 * i + 1, 4 * i + 2, 4 * i + 4}
             /\ 4 * j + 4 \notin {4 * i + 1, 4 * i + 2, 4 * i + 3}
             /\ (4 * j + 1 = 4 * i + 1 => i = j) /\ (4 * j + 2 = 4 * i + 2 => i = j)
             /\ (4 * j + 3 = 4 * i + 3 => i = j) /\ (4 * j + 4 = 4 * i + 4 => i = j)
  OBVIOUS
<1>2. Ranked(w, 4 * j + 1, f) <=> f = Header(Rank[w])
  BY <1>1 DEF Ranked
<1>3. Ranked(w, 4 * j + 2, f) <=> f = Body(Rank[w])
  BY <1>1 DEF Ranked
<1>4. Ranked(w, 4 * j + 3, f) <=> f = Header(j + 1)
  BY <1>1 DEF Ranked
<1>5. Ranked(w, 4 * j + 4, f) <=> f = Body(j + 1)
  BY <1>1 DEF Ranked
<1> QED BY <1>2, <1>3, <1>4, <1>5

(* The two frames of a message.                                            *)
LEMMA MessageFrames ==
  ASSUME NEW v \in Value
  PROVE  /\ Header(v) \in Frame /\ Body(v) \in Frame
         /\ Message(v) \in Seq(Frame) /\ Len(Message(v)) = 2
         /\ Message(v)[1] = Header(v) /\ Message(v)[2] = Body(v)
         /\ Header(v).t = "hdr" /\ Header(v).v = v /\ Body(v).v = v /\ Body(v).t = "body"
<1>1. Header(v) \in Frame /\ Body(v) \in Frame
  BY DEF Header, Body, Frame
<1>2. Message(v) = <<Header(v), Body(v)>>
  BY DEF Message, Header, Body
<1> QED BY <1>1, <1>2 DEF Header, Body

LEMMA Kinds ==
  ASSUME NEW v, NEW w
  PROVE  /\ TEAM.t = "team" /\ EOS.t = "eos" /\ FIN.t = "fin"
         /\ Header(v).t = "hdr" /\ Header(v).v = v /\ Body(v).t = "body" /\ Body(v).v = v
         /\ Header(v) # TEAM /\ Header(v) # FIN /\ Body(v) # TEAM /\ Body(v) # FIN
         /\ EOS # TEAM /\ EOS # FIN /\ FIN # TEAM
BY DEF Header, Body, TEAM, EOS, FIN

(* Every frame of a flow belongs to a message.                             *)
LEMMA InFlow ==
  ASSUME NEW e, NEW k, NEW f, <<k, f>> \in Flow(e), type \in Types
  PROVE  f.t \in {"hdr", "body"} /\ f # TEAM /\ f # FIN
<1>1. type \in {"BROADCAST", "FANIN", "FANOUT", "GATHER"}
  BY TeamAssumption
<1>2. \/ type \in {"FANIN", "BROADCAST"} /\ Counted(k, f)
      \/ type = "FANOUT" /\ Dealt(e[1], k, f)
      \/ type = "GATHER" /\ Ranked(e[2], k, f)
  BY <1>1 DEF Flow
<1>3. \E v : f = Header(v) \/ f = Body(v)
  BY <1>2 DEF Counted, Dealt, Ranked
<1> QED BY <1>3, Kinds

(***************************************************************************)
(* The invariant.                                                          *)
(***************************************************************************)
Inv == Typed /\ Members /\ Contexts /\ HandlesKept /\ Streams /\ Values /\ Ends

(* The two handles of a member's connection.                               *)
LEMMA Connections ==
  /\ \A w \in Worker : /\ <<Root, w>> \in End /\ <<w, Root>> \in End
                       /\ Peer(<<Root, w>>) = <<w, Root>> /\ Peer(<<w, Root>>) = <<Root, w>>
                       /\ <<Root, w>> # <<w, Root>>
  /\ \A e \in End : /\ Peer(e) \in End /\ Peer(Peer(e)) = e /\ e[1] \in Proc /\ e[2] \in Proc
                    /\ e = <<e[1], e[2]>> /\ Peer(e) = <<e[2], e[1]>>
                    /\ \/ e[1] = Root /\ e[2] \in Worker /\ e[2] # Root
                       \/ e[2] = Root /\ e[1] \in Worker /\ e[1] # Root
<1>1. \A w \in Worker : w # Root
  BY Team
<1>2. \A w \in Worker : /\ <<Root, w>> \in End /\ <<w, Root>> \in End
                        /\ Peer(<<Root, w>>) = <<w, Root>> /\ Peer(<<w, Root>>) = <<Root, w>>
                        /\ <<Root, w>> # <<w, Root>>
  BY <1>1 DEF End, Peer
<1>3. ASSUME NEW e \in End
      PROVE  \/ \E w \in Worker : e = <<Root, w>>
             \/ \E w \in Worker : e = <<w, Root>>
  BY DEF End
<1>4. ASSUME NEW e \in End, NEW w \in Worker, e = <<Root, w>> \/ e = <<w, Root>>
      PROVE  /\ Peer(e) \in End /\ Peer(Peer(e)) = e /\ e[1] \in Proc /\ e[2] \in Proc
             /\ e = <<e[1], e[2]>> /\ Peer(e) = <<e[2], e[1]>>
             /\ \/ e[1] = Root /\ e[2] \in Worker /\ e[2] # Root
                \/ e[2] = Root /\ e[1] \in Worker /\ e[1] # Root
  BY <1>1, <1>4 DEF End, Peer, Proc
<1> QED BY <1>2, <1>3, <1>4

(* The handles of a process.                                               *)
LEMMA Own ==
  ASSUME Members, NEW p \in Proc, NEW e \in End
  PROVE  /\ e \in Handles(p) <=> e[1] = p /\ Among(e[2], Ps(p))
         /\ Handles(p) \subseteq End
         /\ e \in Handles(p) => Peer(e) \notin Handles(p)
<1>1. \A i \in DOMAIN Ps(p) : <<p, Ps(p)[i]>> \in End
  <2>1. CASE p = Root
    <3>1. \A i \in DOMAIN Ps(Root) : Ps(Root)[i] \in Worker
      BY ElementOfSeq, LenProperties DEF Members
    <3> QED BY <2>1, <3>1, Connections
  <2>2. CASE p \in Worker
    <3>1. \A i \in DOMAIN Ps(p) : Ps(p)[i] = Root
      BY <2>2 DEF Members
    <3> QED BY <2>2, <3>1, Connections
  <2> QED BY <2>1, <2>2, Team
<1>2. e = <<e[1], e[2]>>
  BY Connections
<1>3. Handles(p) = {<<p, Ps(p)[i]>> : i \in DOMAIN Ps(p)}
  BY DEF Handles, Ps
<1>4. e \in Handles(p) <=> e[1] = p /\ Among(e[2], Ps(p))
  BY <1>2, <1>3 DEF Among
<1>5. Handles(p) \subseteq End
  BY <1>1, <1>3
<1>6. e \in Handles(p) => Peer(e) \notin Handles(p)
  <2>1. /\ Peer(e) = <<e[2], e[1]>>
        /\ \/ e[1] = Root /\ e[2] \in Worker /\ e[2] # Root
           \/ e[2] = Root /\ e[1] \in Worker /\ e[1] # Root
    BY Connections
  <2> QED BY <1>3, <1>4, <2>1
<1> QED BY <1>4, <1>5, <1>6

LEMMA Kind == ASSUME Typed PROVE type \in {"BROADCAST", "FANIN", "FANOUT", "GATHER"}
BY TeamAssumption DEF Typed, TypeOK

LEMMA Kept ==
  ASSUME Inv
  PROVE  Typed /\ Members /\ Contexts /\ HandlesKept /\ Streams /\ Values /\ Ends
BY DEF Inv

(* The types of what belongs to a process, a handle or a stream.           *)
LEMMA ProcTypes ==
  ASSUME Typed, NEW p \in Proc
  PROVE  /\ ctx[p] \in Context /\ coll[p] \in Impl /\ user[p] \in BOOLEAN /\ ready[p] \in Nat
         /\ op[p] \in Call /\ sent[p] \in 0..MaxSend /\ sent[p] \in Nat /\ MaxSend \in Nat
         /\ ctx[p].closed_rd \in BOOLEAN /\ ctx[p].closed_wr \in BOOLEAN
         /\ ctx[p].toManage \in BOOLEAN /\ ctx[p].probed \in {"no", "msg", "eos"}
         /\ Ps(p) \in Seq(Proc) /\ coll[p].probed_idx \in Nat /\ coll[p].current \in Nat
         /\ op[p].i \in Nat /\ op[p].blocking \in BOOLEAN /\ op[p].rank \in 0..N
         /\ op[p].data \in BOOLEAN /\ op[p].buff \in [0..N -> 0..MaxSend]
         /\ op[p].pc \in {"create", "idle", "probe", "receive", "ended", "dead"}
<1>1. /\ ctx[p] \in Context /\ coll[p] \in Impl /\ user[p] \in BOOLEAN /\ ready[p] \in Nat
      /\ op[p] \in Call /\ sent[p] \in 0..MaxSend
  BY DEF Typed, TypeOK
<1>2. MaxSend \in Nat /\ sent[p] \in Nat
  BY <1>1, TeamAssumption
<1>3. PICK r \in Call : r = op[p]
  BY <1>1
<1>4. /\ r.i \in Nat /\ r.blocking \in BOOLEAN /\ r.rank \in 0..N
      /\ r.data \in BOOLEAN /\ r.buff \in [0..N -> 0..MaxSend]
      /\ r.pc \in {"create", "idle", "probe", "receive", "ended", "dead"}
  BY DEF Call
<1> QED BY <1>1, <1>2, <1>3, <1>4 DEF Context, Impl, Ps

(* The locals of a process that is in no call.                             *)
NoCall == Idle
LEMMA IdleCall ==
  /\ NoCall \in Call /\ NoCall.i = 1 /\ NoCall.pc = "idle" /\ NoCall.data = FALSE
  /\ \A l \in {"idle", "ended", "dead"} : /\ [Idle EXCEPT !.pc = l] \in Call
                                          /\ [Idle EXCEPT !.pc = l].pc = l
<1>1. PICK f : f = [r \in 0..N |-> 0]
  OBVIOUS
<1>2. f \in [0..N -> 0..MaxSend] /\ 0 \in 0..N /\ 1 \in Nat
  BY <1>1, Team, TeamAssumption
<1>3. Idle = [pc |-> "idle", i |-> 1, blocking |-> TRUE, rank |-> 0, data |-> FALSE, buff |-> f]
  BY <1>1 DEF Idle
<1>4. Idle \in Call /\ Idle.i = 1 /\ Idle.pc = "idle" /\ Idle.data = FALSE
  BY <1>2, <1>3 DEF Call
<1>5. PICK c \in Call : c = Idle
  BY <1>4
<1>6. \A l \in {"idle", "ended", "dead"} : /\ [c EXCEPT !.pc = l] \in Call
                                          /\ [c EXCEPT !.pc = l].pc = l
  BY DEF Call
<1> QED BY <1>4, <1>5, <1>6 DEF NoCall

LEMMA EndTypes ==
  ASSUME Typed, NEW e \in End
  PROVE  /\ in[e] \in Seq(Frame) /\ handle[e] \in HandleState
         /\ handle[e].closed_rd \in BOOLEAN /\ handle[e].closed_wr \in BOOLEAN
         /\ handle[e].life \in {"live", "freed", "used"}
BY DEF Typed, TypeOK, HandleState

LEMMA GotTypes ==
  ASSUME Typed, NEW p \in Proc, NEW q \in Proc
  PROVE  got[p][q] \in Seq(Results) /\ From(p, q) \in Nat
BY LenProperties DEF Typed, From

(***************************************************************************)
(* What no step undoes.                                                    *)
(***************************************************************************)
Known(w) == Among(w, groupsReady) \/ Among(w, Ps(Root))

Onward ==
    /\ type' = type
    /\ \A p \in Proc :
        /\ At(p, "create")' => At(p, "create")
        /\ At(p, "dead") => At(p, "dead")'
        /\ Dead' = {} /\ At(p, "ended") => At(p, "ended")'
        /\ ctx[p].closed_rd => ctx'[p].closed_rd
    /\ Dead' = {} /\ Working(Root) =>
        Working(Root)' /\ \A w \in Worker : Among(w, Ps(Root))' => Among(w, Ps(Root))
    /\ \A e \in End : Shut(e) => Shut(e)'

LEMMA OpeningKept ==
  ASSUME Onward, NEW e \in End, NEW a, NEW b, Opening(e, a, b),
         \A w \in Worker : e[2] = w /\ Known(w)' => Known(w)
  PROVE  Opening(e, a, b)'
<1>1. SUFFICES ASSUME a = 1
               PROVE  e[1] = Root /\ b = 0 /\ ~At(e[2], "create")' /\ ~Known(e[2])'
  BY DEF Opening, Known
<1>2. e[1] = Root /\ b = 0 /\ ~At(e[2], "create") /\ ~Known(e[2])
  BY <1>1 DEF Opening, Known
<1>3. e[2] \in Worker /\ e[2] \in Proc
  BY <1>2, Connections
<1> QED BY <1>2, <1>3 DEF Onward

LEMMA DeadKept ==
  ASSUME Onward
  PROVE  Dead' = {} => Dead = {}
<1>1. ASSUME Dead' = {}, NEW p \in Proc PROVE ~At(p, "dead")
  BY <1>1 DEF Onward, Dead
<1> QED BY <1>1 DEF Dead

LEMMA EndingKept ==
  ASSUME Onward, NEW e \in End, NEW z, Ending(e, z)
  PROVE  Ending(e, z)'
<1>1. SUFFICES ASSUME z > 0 PROVE Ending(e, z)'
  BY DEF Ending
<1>2. Peer(e) \in End /\ e[1] \in Proc /\ e[2] \in Proc /\ Root \in Proc
  BY Connections, Team
<1>3. Shut(Peer(e))' \/ At(e[2], "dead")'
  <2>1. Shut(Peer(e)) \/ At(e[2], "dead")
    BY <1>1 DEF Ending
  <2>2. Shut(Peer(e)) => Shut(Peer(e))'
    BY <1>2 DEF Onward
  <2>3. At(e[2], "dead") => At(e[2], "dead")'
    BY <1>2 DEF Onward
  <2> QED BY <2>1, <2>2, <2>3
<1>4. ASSUME Dead' = {}, z = 1
      PROVE  /\ type = "FANIN" /\ e[1] = Root => ~Among(e[2], Ps(Root))' /\ Working(Root)'
             /\ type = "FANOUT" /\ e[2] = Root => ctx'[e[1]].closed_rd
             /\ type = "BROADCAST" /\ e[2] = Root => At(e[1], "ended")'
             /\ type = "GATHER" /\ e[1] = Root => At(Root, "ended")'
  <2>1. Dead = {}
    BY <1>4, DeadKept
  <2>2. /\ type = "FANIN" /\ e[1] = Root => ~Among(e[2], Ps(Root)) /\ Working(Root)
        /\ type = "FANOUT" /\ e[2] = Root => ctx[e[1]].closed_rd
        /\ type = "BROADCAST" /\ e[2] = Root => At(e[1], "ended")
        /\ type = "GATHER" /\ e[1] = Root => At(Root, "ended")
    BY <1>1, <1>4, <2>1 DEF Ending
  <2>3. type = "FANIN" /\ e[1] = Root => ~Among(e[2], Ps(Root))' /\ Working(Root)'
    <3>1. e[1] = Root => e[2] \in Worker
      BY Connections
    <3> QED BY <1>4, <2>2, <3>1 DEF Onward
  <2>4. type = "FANOUT" /\ e[2] = Root => ctx'[e[1]].closed_rd
    BY <1>2, <2>2 DEF Onward
  <2>5. type = "BROADCAST" /\ e[2] = Root => At(e[1], "ended")'
    BY <1>2, <1>4, <2>2 DEF Onward
  <2>6. type = "GATHER" /\ e[1] = Root => At(Root, "ended")'
    BY <1>2, <1>4, <2>2 DEF Onward
  <2> QED BY <2>3, <2>4, <2>5, <2>6
<1>5. type' = type
  BY DEF Onward
<1> QED BY <1>3, <1>4, <1>5 DEF Ending

(* A stream nobody reads or writes in this step.                           *)
LEMMA StreamKept ==
  ASSUME Inv, Onward, NEW e \in End, in'[e] = in[e], Flow(e)' = Flow(e),
         \A w \in Worker : e[2] = w /\ Known(w)' => Known(w),
         \A b \in Nat : Carries(e) /\ Read(e, b) => Read(e, b)',
         \A m \in Nat : Carries(e) /\ Written(e, m) => Written(e, m)'
  PROVE  Stream(e)'
<1>1. PICK a \in 0..1, z \in 0..2, b \in Nat, m \in Nat :
        /\ Seg(in[e], a, b, m, z, Flow(e))
        /\ Opening(e, a, b) /\ Ending(e, z)
        /\ IF Carries(e) THEN Read(e, b) /\ Written(e, m) ELSE b = 0 /\ m = 0
  BY DEF Inv, Streams, Stream
<1>2. Opening(e, a, b)' /\ Ending(e, z)'
  BY <1>1, OpeningKept, EndingKept
<1>3. Carries(e)' <=> Carries(e)
  BY DEF Onward, Carries
<1>4. IF Carries(e)' THEN Read(e, b)' /\ Written(e, m)' ELSE b = 0 /\ m = 0
  BY <1>1, <1>3
<1>5. Seg(in'[e], a, b, m, z, Flow(e)')
  BY <1>1
<1> QED BY <1>2, <1>4, <1>5 DEF Stream

(* A step after which nothing has been sent, received or closed for        *)
(* reading, and nobody has left the team.                                  *)
Still ==
    /\ type' = type /\ coll'[Root] = coll[Root] /\ sent' = sent /\ got' = got
    /\ type = "GATHER" => op'[Root] = op[Root] \/ At(Root, "dead")'
    /\ type = "BROADCAST" =>
        (op'[Root].pc \in {"create", "idle"} => op[Root].pc \in {"create", "idle"})
    /\ \A p \in Proc :
        /\ ctx'[p].probed = ctx[p].probed /\ ctx'[p].closed_rd = ctx[p].closed_rd
        /\ At(p, "ended")' => At(p, "ended")
        /\ op[p].pc \in {"ended", "dead"} => op'[p].pc \in {"ended", "dead"}
    /\ Working(Root)' => Working(Root)

LEMMA StillSides ==
  ASSUME Typed, Still, NEW e \in End
  PROVE  /\ Flow(e)' = Flow(e)
         /\ \A b \in Nat : Read(e, b) => Read(e, b)'
         /\ \A m \in Nat : Written(e, m) => Written(e, m)'
<1>1. /\ type' = type /\ coll'[Root] = coll[Root] /\ sent' = sent /\ got' = got
      /\ type = "GATHER" => op'[Root] = op[Root] \/ At(Root, "dead")'
      /\ type = "BROADCAST" =>
           (op'[Root].pc \in {"create", "idle"} => op[Root].pc \in {"create", "idle"})
      /\ \A p \in Proc : ctx'[p].probed = ctx[p].probed
  BY DEF Still
<1>2. Flow(e)' = Flow(e)
  BY <1>1 DEF Flow, Dealt, Ps
<1>3. type \in {"BROADCAST", "FANIN", "FANOUT", "GATHER"}
  BY Kind
<1>4. e[1] \in Proc /\ e[2] \in Proc /\ Root \in Proc
  BY Connections, Team
<1>5. ASSUME NEW b \in Nat, Read(e, b) PROVE Read(e, b)'
  <2>1. CASE type = "FANIN"
    BY <1>1, <1>4, <1>5, <2>1 DEF Read, From, HalfRead, Ps
  <2>2. CASE type = "FANOUT"
    BY <1>1, <1>4, <1>5, <2>2 DEF Read, From
  <2>3. CASE type = "BROADCAST"
    BY <1>1, <1>4, <1>5, <2>3 DEF Read, From
  <2>4. CASE type = "GATHER" /\ op'[Root] = op[Root]
    BY <1>1, <1>4, <1>5, <2>4 DEF Read, L, From, Ps, At
  <2>5. CASE type = "GATHER" /\ At(Root, "dead")'
    BY <1>1, <2>5 DEF Read, At
  <2> QED BY <1>1, <1>3, <2>1, <2>2, <2>3, <2>4, <2>5
<1>6. ASSUME NEW m \in Nat, Written(e, m) PROVE Written(e, m)'
  <2>1. CASE type = "FANIN"
    BY <1>1, <1>6, <2>1 DEF Written
  <2>2. CASE type = "FANOUT"
    BY <1>1, <1>6, <2>2 DEF Written, Ps
  <2>3. CASE type = "BROADCAST"
    BY <1>1, <1>6, <2>3 DEF Written
  <2>4. CASE type = "GATHER"
    BY <1>1, <1>6, <2>4 DEF Written
  <2> QED BY <1>3, <2>1, <2>2, <2>3, <2>4
<1> QED BY <1>2, <1>5, <1>6

LEMMA StillHandles ==
  ASSUME Inv, Still, Onward, handle' = handle, At(Root, "receive")' => At(Root, "receive")
  PROVE  HandlesKept'
<1>1. /\ type' = type /\ coll'[Root] = coll[Root]
      /\ \A p \in Proc : op[p].pc \in {"ended", "dead"} => op'[p].pc \in {"ended", "dead"}
  BY DEF Still
<1>2. Dead' = {} => Dead = {}
  BY DeadKept
<1>3. HandlesKept /\ Root \in Proc /\ Worker \subseteq Proc
  BY Team DEF Inv
<1>4. OthersSafe'
  BY <1>1, <1>2, <1>3 DEF HandlesKept, OthersSafe
<1>5. \A e \in End : (handle[e].life # "live" => handle[e].closed_rd /\ handle[e].closed_wr)'
  BY <1>3 DEF HandlesKept
<1>6. type = "FANIN" => \A w \in Worker : Among(w, Ps(Root))' => Fresh(<<Root, w>>)'
  BY <1>1, <1>3 DEF HandlesKept, Among, Ps, Fresh
<1>7. type = "BROADCAST" => \A w \in Worker :
        /\ ~handle'[<<Root, w>>].closed_rd
        /\ op'[w].pc \notin {"ended", "dead"} => Fresh(<<w, Root>>)'
  BY <1>1, <1>3 DEF HandlesKept, Fresh
<1>8. type = "GATHER" => \A w \in Worker :
        /\ ~handle'[<<w, Root>>].closed_rd
        /\ At(Root, "receive")' => ~Shut(<<Root, w>>)'
        /\ op'[Root].pc \notin {"ended", "dead"} => ~handle'[<<Root, w>>].closed_rd
        /\ Dead' = {} => \A x \in Worker : Shut(<<Root, w>>)' = Shut(<<Root, x>>)'
  BY <1>1, <1>2, <1>3 DEF HandlesKept, Shut
<1> QED BY <1>1, <1>4, <1>5, <1>6, <1>7, <1>8 DEF HandlesKept

LEMMA StillValues == 
  ASSUME Inv, Still
  PROVE  Values'
<1>1. /\ type' = type /\ coll'[Root] = coll[Root] /\ sent' = sent /\ got' = got
      /\ type = "GATHER" => op'[Root] = op[Root] \/ At(Root, "dead")'
  BY DEF Still
<1>2. Values
  BY DEF Inv
<1>3. type = "FANIN" => \A w \in Worker : Consecutive(got'[Root][w])
  BY <1>1, <1>2 DEF Values
<1>4. type = "BROADCAST" => \A w \in Worker : Consecutive(got'[w][Root])
  BY <1>1, <1>2 DEF Values
<1>5. type = "FANOUT" =>
        /\ \A i \in DOMAIN Ps(Root)' : \A k \in DOMAIN got'[Ps(Root)'[i]][Root] :
             got'[Ps(Root)'[i]][Root][k] = (k - 1) * N + i
        /\ coll'[Root].current \in 1..N
  BY <1>1, <1>2 DEF Values, Ps
<1>6. type = "GATHER" /\ op'[Root] = op[Root] => Values'
  BY <1>1, <1>2 DEF Values, Ps, L, From, At
<1>7. type = "GATHER" /\ At(Root, "dead")' => Values'
  BY <1>1, <1>2 DEF Values, Ps, L, From, At
<1> QED BY <1>1, <1>3, <1>4, <1>5, <1>6, <1>7 DEF Values

LEMMA StillEnds ==
  ASSUME Inv, Still, Onward
  PROVE  Ends'
<1>1. /\ type' = type /\ coll'[Root] = coll[Root] /\ sent' = sent /\ got' = got
      /\ \A p \in Proc : /\ At(p, "ended")' => At(p, "ended")
                         /\ ctx'[p].closed_rd = ctx[p].closed_rd
      /\ Working(Root)' => Working(Root)
  BY DEF Still
<1>2. SUFFICES ASSUME Dead' = {} PROVE Ends'
  BY DEF Ends
<1>3. Dead = {} /\ (Working(Root) => Working(Root)')
  BY <1>2, DeadKept DEF Onward
<1>4. Ends /\ Root \in Proc /\ Worker \subseteq Proc
  BY Team DEF Inv
<1>5. \A w \in Worker : /\ Shut(<<w, Root>>) => Shut(<<w, Root>>)'
                        /\ Shut(<<Root, w>>) => Shut(<<Root, w>>)'
  BY Connections DEF Onward
<1>6. \A p \in Proc : At(p, "ended")' =>
        IF p = Root THEN type = "GATHER" ELSE type = "BROADCAST"
  BY <1>1, <1>3, <1>4 DEF Ends
<1>7. type = "FANIN" =>
        /\ Working(Root)' => \A w \in Worker : ~Among(w, Ps(Root))' =>
                              Shut(<<w, Root>>)' /\ From(Root, w)' = sent'[w]
        /\ ctx'[Root].closed_rd => Ps(Root)' = <<>> /\ Working(Root)'
  <2>1. /\ Ps(Root)' = Ps(Root) /\ \A w \in Worker : (Among(w, Ps(Root))' <=> Among(w, Ps(Root)))
        /\ \A w \in Worker : From(Root, w)' = From(Root, w)
    BY <1>1 DEF Ps, Among, From
  <2>2. type = "FANIN" =>
        /\ Working(Root) => \A w \in Worker : ~Among(w, Ps(Root)) =>
                              Shut(<<w, Root>>) /\ From(Root, w) = sent[w]
        /\ ctx[Root].closed_rd => Ps(Root) = <<>> /\ Working(Root)
    BY <1>3, <1>4 DEF Ends
  <2> QED BY <1>1, <1>3, <1>4, <1>5, <2>1, <2>2, ZenonT(60)
<1>8. type = "FANOUT" => \A w \in Worker : ctx'[w].closed_rd =>
        /\ Shut(<<Root, w>>)'
        /\ \E i \in DOMAIN Ps(Root)', q \in Nat :
            /\ Ps(Root)'[i] = w /\ sent'[Root] = q * N + coll'[Root].current - 1
            /\ From(w, Root)' = q + One(i < coll'[Root].current)
  <2>1. SUFFICES ASSUME type = "FANOUT", NEW w \in Worker, ctx'[w].closed_rd
                 PROVE  /\ Shut(<<Root, w>>)'
                        /\ \E i \in DOMAIN Ps(Root)', q \in Nat :
                            /\ Ps(Root)'[i] = w /\ sent'[Root] = q * N + coll'[Root].current - 1
                            /\ From(w, Root)' = q + One(i < coll'[Root].current)
    OBVIOUS
  <2>2. ctx[w].closed_rd
    BY <1>1, <1>4, <2>1
  <2>3. /\ Shut(<<Root, w>>)
        /\ \E i \in DOMAIN Ps(Root), q \in Nat :
            /\ Ps(Root)[i] = w /\ sent[Root] = q * N + coll[Root].current - 1
            /\ From(w, Root) = q + One(i < coll[Root].current)
    BY <1>3, <1>4, <2>1, <2>2 DEF Ends
  <2>4. /\ Ps(Root)' = Ps(Root) /\ From(w, Root)' = From(w, Root)
        /\ coll'[Root].current = coll[Root].current /\ sent'[Root] = sent[Root]
    BY <1>1 DEF Ps, From
  <2> QED BY <1>5, <2>3, <2>4
<1>9. type = "BROADCAST" => \A w \in Worker : At(w, "ended")' =>
        Shut(<<Root, w>>)' /\ From(w, Root)' = sent'[Root]
  BY <1>1, <1>3, <1>4, <1>5 DEF Ends, From
<1>10. type = "GATHER" /\ At(Root, "ended")' =>
        \E w \in Worker : Shut(<<w, Root>>)' /\ sent'[w] = L'
  BY <1>1, <1>3, <1>4, <1>5 DEF Ends, From, L
<1> QED BY <1>1, <1>6, <1>7, <1>8, <1>9, <1>10 DEF Ends

(* A step that touches neither streams, handles nor participants.          *)
Quiet ==
    /\ Still /\ UNCHANGED <<groupsReady, in, handle, coll>>
    /\ \A p \in Proc : \A l \in {"create", "dead"} : At(p, l)' <=> At(p, l)
    /\ \A p \in Proc : Dead' = {} /\ At(p, "ended") => At(p, "ended")'
    /\ At(Root, "receive")' => At(Root, "receive")

LEMMA QuietKeeps ==
  ASSUME Inv, Quiet
  PROVE  (HandlesKept /\ Streams /\ Values /\ Ends)'
<1>1. /\ Still /\ groupsReady' = groupsReady /\ handle' = handle /\ coll' = coll /\ in' = in
      /\ At(Root, "receive")' => At(Root, "receive")
      /\ \A p \in Proc : /\ At(p, "create")' <=> At(p, "create")
                         /\ At(p, "dead")' <=> At(p, "dead")
                         /\ Dead' = {} /\ At(p, "ended") => At(p, "ended")'
  BY DEF Quiet
<1>2. Working(Root)' <=> Working(Root)
  BY <1>1, Team DEF Working, At
<1>3. \A w \in Worker : /\ Known(w)' <=> Known(w)
                        /\ Among(w, Ps(Root))' <=> Among(w, Ps(Root))
  BY <1>1 DEF Known, Ps, Among
<1>4. \A e \in End : Shut(e)' <=> Shut(e)
  BY <1>1 DEF Shut
<1>5. type' = type /\ \A p \in Proc : ctx'[p].closed_rd = ctx[p].closed_rd
  BY <1>1 DEF Still
<1>6. Onward
  BY <1>1, <1>2, <1>3, <1>4, <1>5 DEF Onward
<1>7. Typed
  BY DEF Inv
<1>8. ASSUME NEW e \in End PROVE Stream(e)'
  BY <1>1, <1>3, <1>6, <1>7, StillSides, StreamKept
<1> QED BY <1>1, <1>6, <1>8, StillHandles, StillValues, StillEnds DEF Streams

(***************************************************************************)
(* The context of one process changes hands.                               *)
(***************************************************************************)
LEMMA LocalKeeps ==
  ASSUME Inv, Quiet, NEW p \in Proc, ~At(p, "create"), ContextAt(p)',
         \A x \in Proc : x # p => /\ user'[x] = user[x] /\ ready'[x] = ready[x]
                                  /\ ctx'[x] = ctx[x] /\ op'[x] = op[x]
  PROVE  (Members /\ Contexts /\ HandlesKept /\ Streams /\ Values /\ Ends)'
<1>1. HandlesKept' /\ Streams' /\ Values' /\ Ends'
  BY QuietKeeps
<1>2. /\ type' = type /\ coll' = coll /\ groupsReady' = groupsReady /\ sent' = sent
      /\ handle' = handle
      /\ \A x \in Proc : /\ At(x, "create")' <=> At(x, "create")
                         /\ At(x, "dead")' <=> At(x, "dead")
                         /\ ctx'[x].probed = ctx[x].probed
                         /\ ctx'[x].closed_rd = ctx[x].closed_rd
  BY DEF Quiet, Still
<1>3. \A x \in Proc : Working(x)' <=> Working(x)
  BY <1>2 DEF Working, At
<1>4. Members /\ Contexts /\ Root \in Proc /\ Worker \subseteq Proc
  BY Team DEF Inv
<1>5. Members'
  <2>1. \A w \in Worker :
          /\ Ps(w)' \in {<<>>, <<Root>>}
          /\ Working(w)' /\ (type' = "FANOUT" => ~ctx'[w].closed_rd) => Ps(w)' = <<Root>>
          /\ At(w, "create")' => ~Among(w, groupsReady)' /\ ~Among(w, Ps(Root))'
    BY <1>2, <1>3, <1>4 DEF Members, Ps, Among
  <2>2. /\ Ps(Root)' \in Seq(Worker) /\ IsInjective(Ps(Root))' /\ IsInjective(groupsReady)'
        /\ type' # "FANIN" /\ Ps(Root)' # <<>> => Len(Ps(Root)') = N
        /\ type' # "FANIN" /\ Working(Root)' => \A w \in Worker : Among(w, Ps(Root))'
    BY <1>2, <1>3, <1>4 DEF Members, Ps, Among, IsInjective
  <2>3. ASSUME NEW x \in Proc, At(x, "create")'
        PROVE  /\ Ps(x)' = <<>> /\ coll'[x].current = 1 /\ sent'[x] = 0
               /\ ~user'[x] /\ ready'[x] = 0 /\ ~ctx'[x].toManage /\ ctx'[x].probed = "no"
               /\ \A e \in End : e[1] = x => Fresh(e)'
    <3>1. At(x, "create") /\ x # p
      BY <1>2, <2>3
    <3>2. /\ Ps(x) = <<>> /\ coll[x].current = 1 /\ sent[x] = 0
          /\ ~user[x] /\ ready[x] = 0 /\ ~ctx[x].toManage /\ ctx[x].probed = "no"
          /\ \A e \in End : e[1] = x => Fresh(e)
      BY <1>4, <3>1 DEF Members
    <3>3. user'[x] = user[x] /\ ready'[x] = ready[x] /\ ctx'[x] = ctx[x]
      BY <3>1
    <3> QED BY <1>2, <3>2, <3>3 DEF Ps, Fresh
  <2> QED BY <2>1, <2>2, <2>3 DEF Members
<1>6. Contexts'
  <2>1. ASSUME NEW x \in Proc PROVE ContextAt(x)'
    <3>1. CASE x = p
      BY <3>1
    <3>2. CASE x # p
      BY <1>2, <1>4, <3>2 DEF Contexts, ContextAt, At
    <3> QED BY <3>1, <3>2
  <2>2. type' = "FANIN" =>
        /\ ctx'[Root].probed = "msg" => coll'[Root].probed_idx \in DOMAIN Ps(Root)'
        /\ Working(Root)' /\ ~ctx'[Root].closed_rd => Ps(Root)' # <<>>
    BY <1>2, <1>3, <1>4 DEF Contexts, Ps
  <2> QED BY <2>1, <2>2 DEF Contexts
<1> QED BY <1>1, <1>5, <1>6

(* The program gives up its readable handle.                               *)
LEMMA YieldKeeps ==
  ASSUME Inv, NEW p \in Proc, Yield(p)
  PROVE  Inv'
<1>1. PICK r : r = [ctx[p] EXCEPT !.toManage = TRUE]
  OBVIOUS
<1>2. Typed /\ ctx[p] \in Context /\ ContextAt(p)
  BY ProcTypes DEF Inv, Contexts
<1>3. /\ r \in Context /\ r.toManage = TRUE /\ r.probed = ctx[p].probed
      /\ r.closed_rd = ctx[p].closed_rd /\ r.closed_wr = ctx[p].closed_wr
  BY <1>1, <1>2 DEF Context
<1>4. ctx' = [ctx EXCEPT ![p] = r] /\ user' = [user EXCEPT ![p] = FALSE]
  BY <1>1 DEF Yield
<1>5. UNCHANGED <<groupsReady, type, in, handle, coll, ready, op, sent, got>>
  BY DEF Yield
<1>6. Typed'
  BY <1>2, <1>3, <1>4, <1>5 DEF Typed, TypeOK, At, Results
<1>7. /\ ctx'[p] = r /\ user'[p] = FALSE
      /\ \A x \in Proc : x # p => user'[x] = user[x] /\ ctx'[x] = ctx[x]
  BY <1>2, <1>4 DEF Typed, TypeOK
<1>8. Quiet
  BY <1>3, <1>5, <1>7 DEF Quiet, Still, Working, At
<1>9. At(p, "idle") /\ user[p] /\ CanReceive(type, p) /\ ~ctx[p].closed_rd
  BY DEF Yield
<1>10. ContextAt(p)'
  <2>1. ready[p] \in Nat /\ op'[p] = op[p] /\ type' = type /\ ready'[p] = ready[p]
    BY <1>2, <1>5, ProcTypes
  <2>2. One(user[p]) + ready[p] + One(ctx[p].toManage) = 1
    BY <1>2, <1>9 DEF ContextAt, At
  <2>3. One(user[p]) = 1 /\ One(user'[p]) = 0 /\ One(ctx'[p].toManage) = 1
        /\ One(ctx[p].toManage) \in 0..1
    BY <1>3, <1>7, <1>9 DEF One
  <2>4. One(user'[p]) + ready'[p] + One(ctx'[p].toManage) = 1
    BY <2>1, <2>2, <2>3
  <2>5. op'[p].pc = "idle"
    BY <1>9, <2>1 DEF At
  <2> QED BY <1>2, <1>3, <1>7, <2>1, <2>4, <2>5 DEF ContextAt, At
<1>11. ~At(p, "create")
  BY <1>9 DEF At
<1> QED BY <1>5, <1>6, <1>7, <1>8, <1>10, <1>11, LocalKeeps DEF Inv

(* The IO thread finds a managed context readable.                         *)
LEMMA PollKeeps ==
  ASSUME Inv, NEW p \in Proc, Poll(p)
  PROVE  Inv'
<1>1. PICK r : r = [ctx[p] EXCEPT !.toManage = FALSE]
  OBVIOUS
<1>2. Typed /\ Members /\ ctx[p] \in Context /\ ContextAt(p) /\ ready[p] \in Nat
  BY ProcTypes DEF Inv, Contexts
<1>3. /\ r \in Context /\ r.toManage = FALSE /\ r.probed = ctx[p].probed
      /\ r.closed_rd = ctx[p].closed_rd /\ r.closed_wr = ctx[p].closed_wr
  BY <1>1, <1>2 DEF Context
<1>4. ctx' = [ctx EXCEPT ![p] = r] /\ ready' = [ready EXCEPT ![p] = ready[p] + 1]
  BY <1>1 DEF Poll, Unmanaged
<1>5. UNCHANGED <<groupsReady, type, in, handle, coll, user, op, sent, got>>
  BY DEF Poll
<1>6. Typed'
  <2>1. ready[p] + 1 \in Nat
    BY <1>2
  <2> QED BY <1>2, <1>3, <1>4, <1>5, <2>1 DEF Typed, TypeOK, Results
<1>7. /\ ctx'[p] = r /\ ready'[p] = ready[p] + 1
      /\ \A x \in Proc : x # p => ready'[x] = ready[x] /\ ctx'[x] = ctx[x]
  BY <1>2, <1>4 DEF Typed, TypeOK
<1>8. Quiet
  BY <1>3, <1>5, <1>7 DEF Quiet, Still, Working, At
<1>9. ctx[p].toManage /\ ~At(p, "dead")
  BY DEF Poll
<1>10. ~At(p, "create")
  BY <1>2, <1>9 DEF Members
<1>11. ContextAt(p)'
  <2>1. op'[p] = op[p] /\ type' = type /\ user'[p] = user[p]
    BY <1>5
  <2>2. ASSUME CanReceive(type, p), ~ctx[p].closed_rd, op[p].pc \notin {"create", "dead"}
        PROVE  One(user'[p]) + ready'[p] + One(ctx'[p].toManage) = 1
    <3>1. One(user[p]) + ready[p] + One(ctx[p].toManage) = 1
      BY <1>2, <2>2 DEF ContextAt
    <3>2. One(ctx'[p].toManage) = 0 /\ One(ctx[p].toManage) = 1 /\ One(user[p]) \in 0..1
      BY <1>3, <1>7, <1>9 DEF One
    <3> QED BY <1>2, <1>7, <2>1, <3>1, <3>2
  <2> QED BY <1>2, <1>3, <1>7, <2>1, <2>2 DEF ContextAt, At
<1> QED BY <1>5, <1>6, <1>7, <1>8, <1>10, <1>11, LocalKeeps DEF Inv

(* The program takes the handle from the ready queue.                      *)
LEMMA GetNextKeeps ==
  ASSUME Inv, NEW p \in Proc, GetNext(p)
  PROVE  Inv'
<1>1. Typed /\ ctx[p] \in Context /\ ContextAt(p) /\ ready[p] \in Nat
  BY ProcTypes DEF Inv, Contexts
<1>2. At(p, "idle") /\ ~user[p] /\ ready[p] > 0
  BY DEF GetNext
<1>3. /\ ready' = [ready EXCEPT ![p] = ready[p] - 1] /\ user' = [user EXCEPT ![p] = TRUE]
      /\ ready[p] - 1 \in Nat
  BY <1>1, <1>2 DEF GetNext
<1>4. UNCHANGED <<groupsReady, type, in, handle, ctx, coll, op, sent, got>>
  BY DEF GetNext
<1>5. Typed'
  BY <1>1, <1>3, <1>4 DEF Typed, TypeOK, At, Results
<1>6. /\ user'[p] = TRUE /\ ready'[p] = ready[p] - 1
      /\ \A x \in Proc : x # p => ready'[x] = ready[x] /\ user'[x] = user[x]
  BY <1>1, <1>3 DEF Typed, TypeOK
<1>7. Quiet
  BY <1>4 DEF Quiet, Still, Working, At
<1>8. ~At(p, "create")
  BY <1>2 DEF At
<1>9. ContextAt(p)'
  <2>1. op'[p] = op[p] /\ type' = type /\ ctx'[p] = ctx[p] /\ op[p].pc = "idle"
    BY <1>2, <1>4 DEF At
  <2>2. ASSUME CanReceive(type, p), ~ctx[p].closed_rd
        PROVE  One(user'[p]) + ready'[p] + One(ctx'[p].toManage) = 1
    <3>1. One(user[p]) + ready[p] + One(ctx[p].toManage) = 1
      BY <1>1, <2>1, <2>2 DEF ContextAt
    <3>2. One(user[p]) = 0 /\ One(user'[p]) = 1 /\ One(ctx[p].toManage) \in 0..1
      BY <1>2, <1>6 DEF One
    <3> QED BY <1>1, <1>6, <2>1, <3>1, <3>2
  <2> QED BY <1>1, <2>1, <2>2 DEF ContextAt, At
<1> QED BY <1>4, <1>5, <1>6, <1>7, <1>8, <1>9, LocalKeeps DEF Inv

(* The root of a fan-in begins to probe: there is a participant left.      *)
LEMMA ProbeStartKeeps ==
  ASSUME Inv, NEW p \in Proc, NEW blocking \in BOOLEAN, ProbeStart(p, blocking)
  PROVE  Inv'
<1>1. PICK r : r = [Idle EXCEPT !.pc = "probe", !.blocking = blocking]
  OBVIOUS
<1>2. Typed /\ Contexts /\ ctx[p] \in Context /\ ContextAt(p)
  BY ProcTypes DEF Inv, Contexts
<1>3. r \in Call /\ r.pc = "probe" /\ r.i = 1
  <2>1. r = [NoCall EXCEPT !.pc = "probe", !.blocking = blocking] /\ NoCall \in Call
    BY <1>1, IdleCall DEF NoCall
  <2>2. NoCall.i = 1
    BY IdleCall
  <2> QED BY <2>1, <2>2 DEF Call
<1>4. /\ At(p, "idle") /\ user[p] /\ ctx[p].probed = "no" /\ ~ctx[p].closed_rd /\ type = "FANIN"
      /\ op' = [op EXCEPT ![p] = r]
  BY <1>1 DEF ProbeStart, MayProbe
<1>5. UNCHANGED <<groupsReady, type, in, handle, ctx, coll, user, ready, sent, got>>
  BY DEF ProbeStart
<1>6. p = Root
  BY <1>2, <1>4 DEF ContextAt, CanReceive
<1>7. op'[p] = r /\ \A x \in Proc : x # p => op'[x] = op[x]
  BY <1>2, <1>4 DEF Typed, TypeOK
<1>8. 1 \in DOMAIN coll[p].participants
  <2>1. Ps(p) # <<>> /\ Ps(p) \in Seq(Proc)
    BY <1>2, <1>4, <1>6, ProcTypes DEF Contexts, Working, At
  <2> QED BY <2>1, LenProperties, EmptySeq DEF Ps
<1>9. Typed'
  <2>1. op' \in [Proc -> Call]
    BY <1>2, <1>3, <1>4 DEF Typed, TypeOK
  <2>2. \A x \in Proc : op'[x].pc \in {"probe", "receive"} =>
                          op'[x].i \in DOMAIN coll[x].participants
    BY <1>2, <1>3, <1>7, <1>8 DEF Typed, TypeOK
  <2> QED BY <1>2, <1>5, <2>1, <2>2 DEF Typed, TypeOK, Results
<1>10. Quiet
  BY <1>3, <1>4, <1>5, <1>7 DEF Quiet, Still, Working, At
<1>11. ~At(p, "create")
  BY <1>4 DEF At
<1>12. ContextAt(p)'
  BY <1>2, <1>3, <1>4, <1>5, <1>6, <1>7 DEF ContextAt, At, CanSend, CanReceive
<1> QED BY <1>5, <1>7, <1>9, <1>10, <1>11, <1>12, LocalKeeps DEF Inv

(***************************************************************************)
(* The team is formed, and its members die.                                *)
(***************************************************************************)
Unborn(x) ==
    /\ Ps(x) = <<>> /\ coll[x].current = 1 /\ sent[x] = 0
    /\ ~user[x] /\ ready[x] = 0 /\ ~ctx[x].toManage /\ ctx[x].probed = "no"
    /\ \A e \in End : e[1] = x => Fresh(e)

(* A process that has not called createTeam is not touched by the others.  *)
Untouched(x) ==
    /\ coll'[x] = coll[x] /\ sent'[x] = sent[x] /\ user'[x] = user[x]
    /\ ready'[x] = ready[x] /\ ctx'[x] = ctx[x] /\ op'[x] = op[x]
    /\ \A e \in End : e[1] = x => handle'[e] = handle[e]

LEMMA UnbornKept ==
  ASSUME NEW x, Unborn(x), Untouched(x)
  PROVE  Unborn(x)'
BY DEF Unborn, Untouched, Fresh, Ps

LEMMA Unborns ==
  ASSUME Members, NEW x \in Proc, At(x, "create")
  PROVE  Unborn(x)
BY DEF Members, Unborn

LEMMA MembersFrom ==
  ASSUME type' = type, Ps(Root)' \in Seq(Worker), IsInjective(Ps(Root)'),
         IsInjective(groupsReady'),
         type # "FANIN" /\ Ps(Root)' # <<>> => Len(Ps(Root)') = N,
         type # "FANIN" /\ Working(Root)' => \A w \in Worker : Among(w, Ps(Root))',
         \A w \in Worker :
           /\ Ps(w)' \in {<<>>, <<Root>>}
           /\ Working(w)' /\ (type = "FANOUT" => ~ctx'[w].closed_rd) => Ps(w)' = <<Root>>
           /\ At(w, "create")' => ~Known(w)',
         \A x \in Proc : At(x, "create")' => Unborn(x)'
  PROVE  Members'
BY DEF Members, Known, Unborn

(* The lists of participants do not change.                                *)
LEMMA MembersKept ==
  ASSUME Inv, type' = type, groupsReady' = groupsReady,
         \A x \in Proc : /\ Ps(x)' = Ps(x) /\ (Working(x)' => Working(x))
                         /\ ctx[x].closed_rd => ctx'[x].closed_rd
                         /\ At(x, "create")' => At(x, "create") /\ Untouched(x)
  PROVE  Members'
<1>1. Members /\ Root \in Proc /\ Worker \subseteq Proc
  BY Team DEF Inv
<1>2. /\ Ps(Root)' = Ps(Root) /\ (Working(Root)' => Working(Root))
      /\ \A w \in Worker : (Among(w, Ps(Root))' <=> Among(w, Ps(Root))) /\ (Known(w)' <=> Known(w))
  BY <1>1 DEF Among, Known
<1>3. /\ Ps(Root)' \in Seq(Worker) /\ IsInjective(Ps(Root)') /\ IsInjective(groupsReady')
      /\ type # "FANIN" /\ Ps(Root)' # <<>> => Len(Ps(Root)') = N
      /\ type # "FANIN" /\ Working(Root)' => \A w \in Worker : Among(w, Ps(Root))'
  BY <1>1, <1>2 DEF Members
<1>4. ASSUME NEW w \in Worker
      PROVE  /\ Ps(w)' \in {<<>>, <<Root>>}
             /\ Working(w)' /\ (type = "FANOUT" => ~ctx'[w].closed_rd) => Ps(w)' = <<Root>>
             /\ At(w, "create")' => ~Known(w)'
  BY <1>1, <1>2 DEF Members, Known
<1>5. ASSUME NEW x \in Proc, At(x, "create")' PROVE Unborn(x)'
  BY <1>1, <1>5, Unborns, UnbornKept
<1> QED BY <1>3, <1>4, <1>5, MembersFrom

LEMMA ContextKept ==
  ASSUME NEW x, ContextAt(x), type' = type, ctx'[x] = ctx[x], user'[x] = user[x],
         ready'[x] = ready[x],
         \/ op'[x].pc = op[x].pc \/ op'[x].pc = "dead"
         \/ op'[x].pc \in {"idle", "ended"} /\ op[x].pc \notin {"create", "dead"}
  PROVE  ContextAt(x)'
BY DEF ContextAt, At

LEMMA ContextsKept ==
  ASSUME Inv, type' = type, Ps(Root)' = Ps(Root), coll'[Root].probed_idx = coll[Root].probed_idx,
         Working(Root)' => Working(Root), ctx'[Root] = ctx[Root],
         \A x \in Proc : ContextAt(x)'
  PROVE  Contexts'
<1>1. Contexts
  BY DEF Inv
<1> QED BY <1>1 DEF Contexts

(* A process returns from a call, or from where it was.                    *)
LEMMA Returned ==
  ASSUME Typed, NEW p \in Proc, NEW l \in {"idle", "ended", "dead"}, Return(p, l)
  PROVE  /\ op' \in [Proc -> Call] /\ op'[p].pc = l
         /\ \A x \in Proc : x # p => op'[x] = op[x]
         /\ \A x \in Proc : op'[x].pc \in {"probe", "receive"} => x # p
<1>1. PICK r : r = [Idle EXCEPT !.pc = l]
  OBVIOUS
<1>2. r \in Call /\ r.pc = l
  BY <1>1, IdleCall
<1>3. op' = [op EXCEPT ![p] = r]
  BY <1>1 DEF Return
<1> QED BY <1>2, <1>3 DEF Typed, TypeOK

(* A member connects.                                                      *)
LEMMA JoinKeeps ==
  ASSUME Inv, NEW p \in Worker, Join(p)
  PROVE  Inv'
<1>1. /\ Typed /\ Members /\ Contexts /\ p \in Proc /\ p # Root /\ Root \in Proc
      /\ Worker \subseteq Proc /\ ContextAt(p) /\ coll[p] \in Impl /\ coll \in [Proc -> Impl]
  BY Team, ProcTypes DEF Inv, Contexts, Typed, TypeOK
<1>2. /\ At(p, "create") /\ Return(p, "idle")
      /\ in' = [in EXCEPT ![<<Root, p>>] = Append(in[<<Root, p>>], TEAM)]
      /\ coll' = [coll EXCEPT ![p].participants = <<Root>>]
      /\ user' = [user EXCEPT ![p] = TRUE]
  BY DEF Join, Created
<1>3. UNCHANGED <<groupsReady, type, handle, ctx, ready, sent, got>>
  BY DEF Join
<1>4. /\ op' \in [Proc -> Call] /\ op'[p].pc = "idle" /\ \A x \in Proc : x # p => op'[x] = op[x]
      /\ \A x \in Proc : op'[x].pc \in {"probe", "receive"} => x # p
  BY <1>1, <1>2, Returned
<1>5. /\ coll' \in [Proc -> Impl] /\ Ps(p)' = <<Root>>
      /\ \A x \in Proc : x # p => coll'[x] = coll[x] /\ user'[x] = user[x] /\ Ps(x)' = Ps(x)
      /\ user'[p] = TRUE /\ user' \in [Proc -> BOOLEAN]
  <2>1. PICK r : r = [coll[p] EXCEPT !.participants = <<Root>>]
    OBVIOUS
  <2>2. <<Root>> \in Seq(Proc)
    BY <1>1
  <2>3. r \in Impl /\ r.participants = <<Root>>
    BY <1>1, <2>1, <2>2 DEF Impl
  <2>4. coll' = [coll EXCEPT ![p] = r]
    BY <1>2, <2>1
  <2>5. user \in [Proc -> BOOLEAN]
    BY <1>1 DEF Typed, TypeOK
  <2> QED BY <1>1, <1>2, <2>3, <2>4, <2>5 DEF Ps
<1>6. Unborn(p) /\ op[p].pc = "create"
  BY <1>1, <1>2, Unborns DEF At
<1>7. Still
  BY <1>1, <1>3, <1>4, <1>5, <1>6 DEF Still, Working, At
<1>8. \A w \in Worker : (Known(w)' <=> Known(w)) /\ (Among(w, Ps(Root))' <=> Among(w, Ps(Root)))
  BY <1>1, <1>3, <1>5 DEF Known, Among
<1>9. Onward
  <2>1. Working(Root)' <=> Working(Root)
    BY <1>1, <1>4 DEF Working
  <2>2. \A x \in Proc : /\ At(x, "create")' => At(x, "create")
                        /\ At(x, "dead") => At(x, "dead")'
                        /\ At(x, "ended") => At(x, "ended")'
    BY <1>4, <1>6 DEF At
  <2> QED BY <1>3, <1>8, <2>1, <2>2 DEF Onward, Shut
<1>10. Members'
  <2>1. /\ Ps(Root)' \in Seq(Worker) /\ IsInjective(Ps(Root)') /\ IsInjective(groupsReady')
        /\ type # "FANIN" /\ Ps(Root)' # <<>> => Len(Ps(Root)') = N
        /\ type # "FANIN" /\ Working(Root)' => \A w \in Worker : Among(w, Ps(Root))'
    BY <1>1, <1>3, <1>4, <1>5, <1>8 DEF Members, Working
  <2>2. ASSUME NEW w \in Worker
        PROVE  /\ Ps(w)' \in {<<>>, <<Root>>}
               /\ Working(w)' /\ (type = "FANOUT" => ~ctx'[w].closed_rd) => Ps(w)' = <<Root>>
               /\ At(w, "create")' => ~Known(w)'
    <3>1. CASE w = p
      BY <1>4, <1>5, <3>1 DEF At
    <3>2. CASE w # p
      BY <1>1, <1>3, <1>4, <1>5, <1>8, <3>2 DEF Members, Known, Working, At
    <3> QED BY <3>1, <3>2
  <2>3. ASSUME NEW x \in Proc, At(x, "create")' PROVE Unborn(x)'
    <3>1. x # p /\ At(x, "create")
      BY <1>4, <2>3 DEF At
    <3>2. Untouched(x)
      BY <1>3, <1>4, <1>5, <3>1 DEF Untouched
    <3> QED BY <1>1, <3>1, <3>2, Unborns, UnbornKept
  <2> QED BY <1>3, <2>1, <2>2, <2>3, MembersFrom
<1>11. Contexts'
  <2>1. ASSUME NEW x \in Proc PROVE ContextAt(x)'
    <3>1. CASE x # p
      BY <1>1, <1>3, <1>4, <1>5, <3>1, ContextKept DEF Contexts
    <3>2. CASE x = p
      <4>1. One(user'[p]) = 1 /\ ready'[p] = 0 /\ One(ctx'[p].toManage) = 0
        BY <1>3, <1>5, <1>6 DEF Unborn, One
      <4> QED BY <1>1, <1>3, <1>4, <3>2, <4>1 DEF ContextAt, At
    <3> QED BY <3>1, <3>2
  <2> QED BY <1>1, <1>3, <1>4, <1>5, <2>1, ContextsKept DEF Working
<1>12. \A e \in End : in'[e] = IF e = <<Root, p>> THEN Append(in[e], TEAM) ELSE in[e]
  BY <1>1, <1>2, Connections DEF Typed, TypeOK
<1>13. ASSUME NEW e \in End, e # <<Root, p>> PROVE Stream(e)'
  BY <1>1, <1>7, <1>8, <1>9, <1>12, <1>13, StillSides, StreamKept
<1>14. ASSUME NEW e \in End, e = <<Root, p>> PROVE Stream(e)' /\ in'[e] \in Seq(Frame)
  <2>1. PICK a \in 0..1, z \in 0..2, b \in Nat, m \in Nat :
          /\ Seg(in[e], a, b, m, z, Flow(e))
          /\ Opening(e, a, b) /\ Ending(e, z)
          /\ IF Carries(e) THEN Read(e, b) /\ Written(e, m) ELSE b = 0 /\ m = 0
    BY DEF Inv, Streams, Stream
  <2>2. e[1] = Root /\ e[2] = p /\ Peer(e) = <<p, Root>> /\ Peer(e) \in End
    BY <1>1, <1>14, Connections DEF Peer
  <2>3. a = 0
    BY <1>2, <2>1, <2>2 DEF Opening
  <2>4. z = 0
    <3>1. ~Shut(Peer(e)) /\ ~At(p, "dead")
      BY <1>1, <1>6, <2>2, Connections DEF Unborn, Fresh, Shut, At
    <3> QED BY <2>1, <2>2, <3>1 DEF Ending
  <2>5. m = 0 /\ b = 0
    <3>1. m = 0
      <4>1. CASE Carries(e)
        <5>1. type \in {"FANIN", "GATHER"}
          BY <1>1, <2>2, <4>1 DEF Carries
        <5>2. m = 2 * sent[p] \/ m = 4 * sent[p]
          BY <2>1, <2>2, <4>1, <5>1 DEF Written
        <5> QED BY <1>6, <5>2 DEF Unborn
      <4>2. CASE ~Carries(e)
        BY <2>1, <4>2
      <4> QED BY <4>1, <4>2
    <3>2. b <= m
      BY <2>1 DEF Seg
    <3> QED BY <3>1, <3>2
  <2>6. in[e] \in Seq(Frame) /\ in'[e] = Append(in[e], TEAM)
    BY <1>1, <1>12, <1>14, EndTypes
  <2>7. in'[e] \in Seq(Frame) /\ Seg(in'[e], 1, 0, 0, 0, Flow(e))
    BY <2>1, <2>3, <2>4, <2>5, <2>6, SegJoin
  <2>8. Flow(e)' = Flow(e) /\ (Carries(e)' <=> Carries(e))
        /\ (Read(e, b) => Read(e, b)') /\ (Written(e, m) => Written(e, m)')
    BY <1>1, <1>3, <1>7, StillSides DEF Carries
  <2>9. IF Carries(e)' THEN Read(e, 0)' /\ Written(e, 0)' ELSE TRUE
    BY <2>1, <2>5, <2>8
  <2>10. Ending(e, 0)'
    BY DEF Ending
  <2>11. Opening(e, 1, 0)'
    <3>1. ~Known(p)
      BY <1>1, <1>2 DEF Members, Known
    <3>2. ~Known(p)' /\ ~At(p, "create")'
      BY <1>4, <1>8, <3>1 DEF At
    <3> QED BY <2>2, <3>2 DEF Opening, Known
  <2>12. Seg(in'[e], 1, 0, 0, 0, Flow(e)')
    BY <2>7, <2>8
  <2> QED BY <2>7, <2>9, <2>10, <2>11, <2>12 DEF Stream
<1>15. Streams'
  BY <1>13, <1>14 DEF Streams
<1>16. Typed'
  <2>1. in' \in [End -> Seq(Frame)]
    BY <1>1, <1>2, <1>12, <1>14, EndTypes DEF Typed, TypeOK
  <2>2. \A x \in Proc : op'[x].pc \in {"probe", "receive"} =>
                          op'[x].i \in DOMAIN coll'[x].participants
    BY <1>1, <1>4, <1>5 DEF Typed, TypeOK
  <2> QED BY <1>1, <1>3, <1>4, <1>5, <2>1, <2>2 DEF Typed, TypeOK, Results
<1>17. HandlesKept' /\ Values' /\ Ends'
  <2>1. At(Root, "receive")' => At(Root, "receive")
    BY <1>1, <1>4 DEF At
  <2> QED BY <1>3, <1>7, <1>9, <2>1, StillHandles, StillValues, StillEnds
<1> QED BY <1>10, <1>11, <1>15, <1>16, <1>17 DEF Inv

(* The root takes the handshake of a member.                               *)
LEMMA AcceptKeeps ==
  ASSUME Inv, NEW w \in Worker, Accept(w)
  PROVE  Inv'
<1>1. /\ Typed /\ Members /\ Contexts /\ w \in Proc /\ w # Root /\ Root \in Proc
      /\ Worker \subseteq Proc /\ <<Root, w>> \in End
  BY Team, Connections DEF Inv
<1>2. /\ in[<<Root, w>>] # <<>> /\ in[<<Root, w>>][1] = TEAM
      /\ in' = [in EXCEPT ![<<Root, w>>] = Tail(in[<<Root, w>>])]
      /\ groupsReady' = Append(groupsReady, w)
  BY DEF Accept
<1>3. UNCHANGED <<type, handle, ctx, coll, user, ready, op, sent, got>>
  BY DEF Accept
<1>4. Still /\ Onward
  BY <1>3 DEF Still, Onward, Working, At, Dead, Ps, Among, Shut
<1>5. \A e \in End : in'[e] = IF e = <<Root, w>> THEN Tail(in[e]) ELSE in[e]
  BY <1>1, <1>2 DEF Typed, TypeOK
<1>6. PICK e \in End : e = <<Root, w>>
  BY <1>1
<1>7. PICK a \in 0..1, z \in 0..2, b \in Nat, m \in Nat :
        /\ Seg(in[e], a, b, m, z, Flow(e))
        /\ Opening(e, a, b) /\ Ending(e, z)
        /\ IF Carries(e) THEN Read(e, b) /\ Written(e, m) ELSE b = 0 /\ m = 0
  BY DEF Inv, Streams, Stream
<1>8. in[e] \in Seq(Frame) /\ type \in Types /\ groupsReady \in Seq(Worker)
  BY <1>1, EndTypes DEF Typed, TypeOK
<1>9. a = 1
  <2>1. SUFFICES ASSUME a = 0 PROVE FALSE
    OBVIOUS
  <2>2. \/ b < m /\ <<b + 1, in[e][1]>> \in Flow(e)
        \/ in[e][1] = EOS \/ in[e][1] = FIN
    BY <1>2, <1>6, <1>7, <1>8, <2>1, SegHead
  <2>3. <<b + 1, in[e][1]>> \in Flow(e) => in[e][1] # TEAM
    BY <1>8, InFlow
  <2>4. EOS # TEAM /\ FIN # TEAM
    BY Kinds
  <2> QED BY <1>2, <1>6, <2>2, <2>3, <2>4
<1>10. b = 0 /\ ~At(w, "create") /\ ~Known(w)
  BY <1>6, <1>7, <1>9 DEF Opening, Known
<1>11. in'[e] \in Seq(Frame) /\ Seg(in'[e], 0, b, m, z, Flow(e))
  BY <1>5, <1>6, <1>7, <1>8, <1>9, SegTeam
<1>12. /\ groupsReady' \in Seq(Worker) /\ IsInjective(groupsReady')
       /\ \A x : Among(x, groupsReady') <=> Among(x, groupsReady) \/ x = w
  <2>1. PICK l \in Nat : l = Len(groupsReady)
    BY <1>8, LenProperties
  <2>2. /\ groupsReady' \in Seq(Worker) /\ Len(groupsReady') = l + 1
        /\ \A i \in 1..l : groupsReady'[i] = groupsReady[i]
        /\ groupsReady'[l + 1] = w
    BY <1>2, <1>8, <2>1, Appended
  <2>3. DOMAIN groupsReady = 1..l /\ DOMAIN groupsReady' = 1..(l + 1)
    BY <1>8, <2>1, <2>2, LenProperties
  <2>4. \A i \in 1..(l + 1) : i \in 1..l \/ i = l + 1
    OBVIOUS
  <2>5. IsInjective(groupsReady) /\ \A i \in 1..l : groupsReady[i] # w
    BY <1>1, <1>10, <2>3 DEF Members, Known, Among
  <2>6. ASSUME NEW i \in 1..(l + 1), NEW j \in 1..(l + 1), groupsReady'[i] = groupsReady'[j]
        PROVE  i = j
    <3>1. CASE i \in 1..l /\ j \in 1..l
      BY <2>2, <2>3, <2>5, <2>6, <3>1 DEF IsInjective
    <3>2. CASE i = l + 1 /\ j \in 1..l
      BY <2>2, <2>5, <2>6, <3>2
    <3>3. CASE i \in 1..l /\ j = l + 1
      BY <2>2, <2>5, <2>6, <3>3
    <3> QED BY <2>4, <3>1, <3>2, <3>3
  <2>7. IsInjective(groupsReady')
    BY <2>3, <2>6 DEF IsInjective
  <2>8. ASSUME NEW x PROVE Among(x, groupsReady') <=> Among(x, groupsReady) \/ x = w
    <3>1. Among(x, groupsReady) => Among(x, groupsReady')
      BY <2>2, <2>3 DEF Among
    <3>2. Among(w, groupsReady')
      <4>1. l + 1 \in 1..(l + 1)
        OBVIOUS
      <4> QED BY <2>2, <2>3, <4>1 DEF Among
    <3>3. Among(x, groupsReady') => Among(x, groupsReady) \/ x = w
      BY <2>2, <2>3, <2>4 DEF Among
    <3> QED BY <3>1, <3>2, <3>3
  <2> QED BY <2>2, <2>7, <2>8
<1>13. \A x : (Known(x)' <=> Known(x) \/ x = w) /\ (Among(x, Ps(Root))' <=> Among(x, Ps(Root)))
  BY <1>3, <1>12 DEF Known, Ps, Among
<1>14. ASSUME NEW d \in End PROVE Stream(d)'
  <2>1. CASE d[2] = w
    <3>1. d = e
      BY <1>1, <1>6, <2>1, Connections
    <3>2. Flow(e)' = Flow(e) /\ (Carries(e)' <=> Carries(e))
          /\ (Read(e, b) => Read(e, b)') /\ (Written(e, m) => Written(e, m)')
      BY <1>1, <1>3, <1>4, StillSides DEF Carries
    <3>3. IF Carries(e)' THEN Read(e, b)' /\ Written(e, m)' ELSE b = 0 /\ m = 0
      BY <1>7, <3>2
    <3>4. Opening(e, 0, b)' /\ Ending(e, z)'
      BY <1>4, <1>7, EndingKept DEF Opening
    <3>5. Seg(in'[e], 0, b, m, z, Flow(e)')
      BY <1>11, <3>2
    <3> QED BY <3>1, <3>3, <3>4, <3>5 DEF Stream
  <2>2. CASE d[2] # w
    <3>1. d # <<Root, w>>
      BY <2>2
    <3>2. in'[d] = in[d]
      BY <1>5, <3>1
    <3> QED BY <1>1, <1>4, <1>13, <2>2, <3>2, StillSides, StreamKept
  <2> QED BY <2>1, <2>2
<1>15. Members'
  <2>1. /\ Ps(Root)' \in Seq(Worker) /\ IsInjective(Ps(Root)') /\ IsInjective(groupsReady')
        /\ type # "FANIN" /\ Ps(Root)' # <<>> => Len(Ps(Root)') = N
        /\ type # "FANIN" /\ Working(Root)' => \A x \in Worker : Among(x, Ps(Root))'
    BY <1>1, <1>3, <1>12, <1>13 DEF Members, Working, Ps
  <2>2. ASSUME NEW x \in Worker
        PROVE  /\ Ps(x)' \in {<<>>, <<Root>>}
               /\ Working(x)' /\ (type = "FANOUT" => ~ctx'[x].closed_rd) => Ps(x)' = <<Root>>
               /\ At(x, "create")' => ~Known(x)'
    BY <1>1, <1>3, <1>10, <1>13 DEF Members, Known, Working, At, Ps
  <2>3. ASSUME NEW x \in Proc, At(x, "create")' PROVE Unborn(x)'
    <3>1. At(x, "create") /\ Untouched(x)
      BY <1>3, <2>3 DEF Untouched, At
    <3> QED BY <1>1, <3>1, Unborns, UnbornKept
  <2> QED BY <1>3, <2>1, <2>2, <2>3, MembersFrom
<1>16. Contexts'
  BY <1>1, <1>3 DEF Contexts, ContextAt, At, Working, Ps
<1>17. Typed'
  <2>1. in' \in [End -> Seq(Frame)]
    BY <1>1, <1>2, <1>6, <1>11 DEF Typed, TypeOK
  <2> QED BY <1>1, <1>3, <1>12, <2>1 DEF Typed, TypeOK, Results
<1>18. HandlesKept' /\ Values' /\ Ends'
  BY <1>3, <1>4, StillHandles, StillValues, StillEnds DEF At
<1> QED BY <1>14, <1>15, <1>16, <1>17, <1>18 DEF Inv, Streams

(* All have come: the root's createTeam returns.                           *)
LEMMA GatheredKeeps ==
  ASSUME Inv, NEW p \in Proc, Gathered(p)
  PROVE  Inv'
<1>1. /\ Typed /\ Members /\ Contexts /\ p = Root /\ Root \in Proc
      /\ Worker \subseteq Proc /\ ContextAt(p) /\ coll[p] \in Impl /\ coll \in [Proc -> Impl]
      /\ \A w \in Worker : w # Root
  BY Team, ProcTypes DEF Inv, Contexts, Typed, TypeOK, Gathered
<1>2. /\ At(p, "create") /\ Return(p, "idle") /\ Len(groupsReady) = N
      /\ coll' = [coll EXCEPT ![p].participants = groupsReady]
      /\ user' = [user EXCEPT ![p] = TRUE] /\ groupsReady' = <<>>
  BY DEF Gathered, Created, TeamReady
<1>3. UNCHANGED <<type, in, handle, ctx, ready, sent, got>>
  BY DEF Gathered
<1>4. /\ op' \in [Proc -> Call] /\ op'[p].pc = "idle" /\ \A x \in Proc : x # p => op'[x] = op[x]
      /\ \A x \in Proc : op'[x].pc \in {"probe", "receive"} => x # p
  BY <1>1, <1>2, Returned
<1>5. groupsReady \in Seq(Worker) /\ IsInjective(groupsReady) /\ groupsReady \in Seq(Proc)
  BY <1>1 DEF Typed, TypeOK, Members
<1>6. /\ coll' \in [Proc -> Impl] /\ Ps(p)' = groupsReady
      /\ coll'[p].probed_idx = coll[p].probed_idx /\ coll'[p].current = coll[p].current
      /\ \A x \in Proc : x # p => coll'[x] = coll[x] /\ user'[x] = user[x] /\ Ps(x)' = Ps(x)
      /\ user'[p] = TRUE /\ user' \in [Proc -> BOOLEAN]
  <2>1. PICK r : r = [coll[p] EXCEPT !.participants = groupsReady]
    OBVIOUS
  <2>2. /\ r \in Impl /\ r.participants = groupsReady
        /\ r.probed_idx = coll[p].probed_idx /\ r.current = coll[p].current
    BY <1>1, <1>5, <2>1 DEF Impl
  <2>3. coll' = [coll EXCEPT ![p] = r]
    BY <1>2, <2>1
  <2>4. user \in [Proc -> BOOLEAN]
    BY <1>1 DEF Typed, TypeOK
  <2> QED BY <1>1, <1>2, <2>2, <2>3, <2>4 DEF Ps
<1>7. Unborn(p) /\ op[p].pc = "create" /\ ~Working(Root)
  BY <1>1, <1>2, Unborns DEF At, Working
<1>8. \A w \in Worker : Among(w, Ps(Root)')
  BY <1>1, <1>2, <1>5, <1>6, AllListed
<1>9. \A w \in Worker : (Known(w)' <=> Known(w)) /\ Among(w, groupsReady)
  <2>1. ASSUME NEW w \in Worker PROVE Among(w, groupsReady)
    BY <1>1, <1>6, <1>8
  <2> QED BY <1>1, <1>8, <2>1 DEF Known, Among
<1>10. Onward
  <2>1. \A x \in Proc : /\ At(x, "create")' => At(x, "create")
                        /\ At(x, "dead") => At(x, "dead")'
                        /\ At(x, "ended") => At(x, "ended")'
    BY <1>4, <1>7 DEF At
  <2> QED BY <1>3, <1>7, <2>1 DEF Onward, Shut
<1>11. Members'
  <2>1. /\ Ps(Root)' \in Seq(Worker) /\ IsInjective(Ps(Root)') /\ IsInjective(groupsReady')
        /\ type # "FANIN" /\ Ps(Root)' # <<>> => Len(Ps(Root)') = N
    BY <1>1, <1>2, <1>5, <1>6 DEF IsInjective
  <2>2. ASSUME NEW w \in Worker
        PROVE  /\ Ps(w)' \in {<<>>, <<Root>>}
               /\ Working(w)' /\ (type = "FANOUT" => ~ctx'[w].closed_rd) => Ps(w)' = <<Root>>
               /\ At(w, "create")' => ~Known(w)'
    BY <1>1, <1>3, <1>4, <1>6, <1>9 DEF Members, Known, Working, At
  <2>3. ASSUME NEW x \in Proc, At(x, "create")' PROVE Unborn(x)'
    <3>1. x # p /\ At(x, "create")
      BY <1>4, <2>3 DEF At
    <3>2. Untouched(x)
      BY <1>3, <1>4, <1>6, <3>1 DEF Untouched
    <3> QED BY <1>1, <3>1, <3>2, Unborns, UnbornKept
  <2> QED BY <1>3, <1>8, <2>1, <2>2, <2>3, MembersFrom
<1>12. Ps(Root)' # <<>>
  BY <1>1, <1>2, <1>6, Team, EmptySeq
<1>13. Contexts'
  <2>1. ASSUME NEW x \in Proc PROVE ContextAt(x)'
    <3>1. CASE x # p
      BY <1>1, <1>3, <1>4, <1>6, <3>1, ContextKept DEF Contexts
    <3>2. CASE x = p
      <4>1. One(user'[p]) = 1 /\ ready'[p] = 0 /\ One(ctx'[p].toManage) = 0
        BY <1>3, <1>6, <1>7 DEF Unborn, One
      <4> QED BY <1>1, <1>3, <1>4, <3>2, <4>1 DEF ContextAt, At
    <3> QED BY <3>1, <3>2
  <2>2. ctx'[Root].probed = "no"
    BY <1>1, <1>3, <1>7 DEF Unborn
  <2> QED BY <1>12, <2>1, <2>2 DEF Contexts
<1>14. ASSUME NEW e \in End PROVE Stream(e)'
  <2>1. PICK a \in 0..1, z \in 0..2, b \in Nat, m \in Nat :
          /\ Seg(in[e], a, b, m, z, Flow(e))
          /\ Opening(e, a, b) /\ Ending(e, z)
          /\ IF Carries(e) THEN Read(e, b) /\ Written(e, m) ELSE b = 0 /\ m = 0
    BY DEF Inv, Streams, Stream
  <2>2. Opening(e, a, b)' /\ Ending(e, z)'
    BY <1>9, <1>10, <2>1, OpeningKept, EndingKept
  <2>3. type' = type /\ (Carries(e)' <=> Carries(e)) /\ e[1] \in Proc /\ e[2] \in Proc
    BY <1>3, Connections DEF Carries
  <2>4. type \in {"BROADCAST", "FANIN", "FANOUT", "GATHER"}
    BY <1>1, Kind
  <2>5. CASE type # "FANOUT" \/ ~Carries(e)
    <3>1. Carries(e) => Read(e, b)'
      <4>1. CASE type = "FANIN"
        BY <1>1, <1>3, <1>7, <2>1, <2>3, <4>1 DEF Read, From, HalfRead, Unborn
      <4>2. CASE type = "BROADCAST"
        BY <1>3, <2>1, <2>3, <4>2 DEF Read, From
      <4>3. CASE type = "GATHER"
        BY <1>1, <1>3, <1>4, <1>7, <2>1, <2>3, <4>3 DEF Read, L, From, At
      <4> QED BY <2>4, <2>5, <4>1, <4>2, <4>3
    <3>2. Carries(e) => Written(e, m)'
      <4>1. CASE type = "FANIN"
        BY <1>3, <2>1, <4>1 DEF Written
      <4>2. CASE type = "BROADCAST"
        BY <1>1, <1>3, <1>7, <2>1, <4>2 DEF Written
      <4>3. CASE type = "GATHER"
        BY <1>3, <2>1, <4>3 DEF Written
      <4> QED BY <2>4, <2>5, <4>1, <4>2, <4>3
    <3>3. Seg(in'[e], a, b, m, z, Flow(e)')
      <4>1. CASE type # "FANOUT"
        <5>1. Flow(e)' = Flow(e)
          BY <1>3, <2>4, <4>1 DEF Flow
        <5> QED BY <1>3, <2>1, <5>1
      <4>2. CASE ~Carries(e)
        <5>1. b = m
          BY <2>1, <4>2
        <5>2. Seg(in'[e], a, b, b, z, Flow(e))
          BY <1>3, <2>1, <5>1
        <5> QED BY <5>1, <5>2, SegIdle
      <4> QED BY <2>5, <4>1, <4>2
    <3> QED BY <2>1, <2>2, <2>3, <3>1, <3>2, <3>3 DEF Stream
  <2>6. CASE type = "FANOUT" /\ Carries(e)
    <3>1. Ps(Root) = <<>> /\ coll[Root].current = 1 /\ sent[Root] = 0
      BY <1>1, <1>7 DEF Unborn
    <3>2. m = 0 /\ b = 0
      <4>1. m = 0
        BY <2>1, <2>6, <3>1 DEF Written
      <4>2. b <= m
        BY <2>1 DEF Seg
      <4> QED BY <4>1, <4>2
    <3>3. Read(e, b)'
      BY <1>3, <2>1, <2>3, <2>6 DEF Read, From
    <3>4. Written(e, m)'
      <4>1. \A i \in DOMAIN Ps(Root)' : i >= 1
        BY <1>1, <1>5, <1>6, LenProperties
      <4>2. ASSUME NEW i \in DOMAIN Ps(Root)'
            PROVE  \E q \in Nat : sent'[Root] = q * N + coll'[Root].current - 1
                                  /\ m = 2 * (q + One(i < coll'[Root].current))
        <5>1. sent'[Root] = 0 * N + coll'[Root].current - 1
          BY <1>1, <1>3, <1>6, <3>1, Team
        <5>2. One(i < coll'[Root].current) = 0
          <6>1. i \in Nat /\ i >= 1
            BY <1>1, <1>5, <1>6, <4>1, LenProperties
          <6>2. ~(i < coll'[Root].current)
            BY <1>1, <1>6, <3>1, <6>1
          <6> QED BY <6>2 DEF One
        <5>3. m = 2 * (0 + One(i < coll'[Root].current))
          BY <3>2, <5>2
        <5> QED BY <5>1, <5>3
      <4> QED BY <1>3, <1>12, <2>6, <4>2 DEF Written
    <3>5. Seg(in'[e], a, b, m, z, Flow(e)')
      <4>1. Seg(in'[e], a, b, b, z, Flow(e))
        BY <1>3, <2>1, <3>2
      <4> QED BY <3>2, <4>1, SegIdle
    <3> QED BY <2>1, <2>2, <2>3, <3>3, <3>4, <3>5 DEF Stream
  <2> QED BY <2>5, <2>6
<1>15. Typed'
  <2>1. \A x \in Proc : op'[x].pc \in {"probe", "receive"} =>
                          op'[x].i \in DOMAIN coll'[x].participants
    BY <1>1, <1>4, <1>6 DEF Typed, TypeOK
  <2>2. groupsReady' \in Seq(Worker)
    BY <1>2
  <2> QED BY <1>1, <1>3, <1>4, <1>6, <2>1, <2>2 DEF Typed, TypeOK, Results
<1>16. Dead' = {} => Dead = {}
  BY <1>10, DeadKept
<1>17. HandlesKept'
  <2>1. HandlesKept /\ \A w \in Worker : Fresh(<<Root, w>>)
    BY <1>1, <1>7, Connections DEF Inv, Unborn
  <2>2. /\ type' = type /\ handle' = handle /\ \A x \in Worker : op'[x] = op[x]
    BY <1>1, <1>3, <1>4
  <2>3. OthersSafe'
    BY <1>16, <2>1, <2>2 DEF HandlesKept, OthersSafe
  <2>4. type = "GATHER" => \A w \in Worker :
        /\ ~handle'[<<w, Root>>].closed_rd
        /\ At(Root, "receive")' => ~Shut(<<Root, w>>)'
        /\ op'[Root].pc \notin {"ended", "dead"} => ~handle'[<<Root, w>>].closed_rd
        /\ Dead' = {} => \A x \in Worker : Shut(<<Root, w>>)' = Shut(<<Root, x>>)'
    BY <2>1, <2>2 DEF HandlesKept, Shut, Fresh
  <2>5. type = "BROADCAST" => \A w \in Worker :
        /\ ~handle'[<<Root, w>>].closed_rd
        /\ op'[w].pc \notin {"ended", "dead"} => Fresh(<<w, Root>>)'
    BY <2>1, <2>2 DEF HandlesKept, Fresh
  <2>6. \A e \in End : handle'[e].life # "live" => handle'[e].closed_rd /\ handle'[e].closed_wr
    BY <2>1, <2>2 DEF HandlesKept
  <2>7. \A w \in Worker : Fresh(<<Root, w>>)'
    BY <2>1, <2>2 DEF Fresh
  <2> QED BY <2>2, <2>3, <2>4, <2>5, <2>6, <2>7 DEF HandlesKept
<1>18. Values'
  <2>1. Values /\ Ps(Root) = <<>> /\ coll[Root].current = 1 /\ sent[Root] = 0
    BY <1>1, <1>7 DEF Inv, Unborn
  <2>2. type = "FANOUT" => \A w \in Worker : got[w][Root] = <<>>
    <3>1. SUFFICES ASSUME type = "FANOUT", NEW w \in Worker PROVE got[w][Root] = <<>>
      OBVIOUS
    <3>2. PICK e \in End : e = <<w, Root>>
      BY Connections
    <3>3. Carries(e)
      BY <3>1, <3>2 DEF Carries
    <3>4. PICK a \in 0..1, z \in 0..2, b \in Nat, m \in Nat :
            Seg(in[e], a, b, m, z, Flow(e)) /\ Read(e, b) /\ Written(e, m)
      BY <3>3 DEF Inv, Streams, Stream
    <3>5. b = 0
      <4>1. m = 0
        BY <2>1, <3>1, <3>4 DEF Written
      <4>2. b <= m
        BY <3>4 DEF Seg
      <4> QED BY <4>1, <4>2
    <3>6. From(w, Root) \in Nat /\ got[w][Root] \in Seq(Results)
      BY <1>1, GotTypes
    <3>7. From(w, Root) = 0
      <4>1. PICK c \in 0..1 : c = One(ctx[w].probed = "msg")
        BY DEF One
      <4>2. b = 2 * From(w, Root) + c
        BY <3>1, <3>2, <3>4, <4>1 DEF Read
      <4> QED BY <3>5, <3>6, <4>2
    <3> QED BY <3>6, <3>7, EmptySeq DEF From
  <2>3. type = "FANOUT" =>
        /\ \A i \in DOMAIN Ps(Root)' : \A k \in DOMAIN got'[Ps(Root)'[i]][Root] :
             got'[Ps(Root)'[i]][Root][k] = (k - 1) * N + i
        /\ coll'[Root].current \in 1..N
    <3>1. \A i \in DOMAIN Ps(Root)' : Ps(Root)'[i] \in Worker
      BY <1>1, <1>5, <1>6, LenProperties, ElementOfSeq
    <3>2. DOMAIN <<>> = {}
      OBVIOUS
    <3> QED BY <1>1, <1>3, <1>6, <2>1, <2>2, <3>1, <3>2, Team
  <2>4. type = "FANIN" => \A w \in Worker : Consecutive(got'[Root][w])
    BY <1>3, <2>1 DEF Values
  <2>5. type = "BROADCAST" => \A w \in Worker : Consecutive(got'[w][Root])
    BY <1>3, <2>1 DEF Values
  <2>6. type = "GATHER" => \A k \in 1..L' : got'[Root][Root][k] = [r \in 0..N |-> k]
    BY <1>3, <2>1 DEF Values, L, From
  <2>7. type = "GATHER" => sent'[Root] = L'
    BY <1>1, <1>3, <1>7, <2>1 DEF Values, L, From
  <2>8. ~At(Root, "receive")'
    BY <1>1, <1>4 DEF At
  <2> QED BY <1>3, <2>3, <2>4, <2>5, <2>6, <2>7, <2>8 DEF Values
<1>19. Ends'
  <2>1. SUFFICES ASSUME Dead' = {} PROVE Ends'
    BY DEF Ends
  <2>2. Ends /\ Dead = {}
    BY <1>16, <2>1 DEF Inv
  <2>3. \A x \in Proc : /\ At(x, "ended")' => At(x, "ended")
                        /\ ctx'[x].closed_rd = ctx[x].closed_rd
    BY <1>3, <1>4 DEF At
  <2>4. \A x \in Proc : At(x, "ended")' => IF x = Root THEN type = "GATHER" ELSE type = "BROADCAST"
    BY <2>2, <2>3 DEF Ends
  <2>5. type = "FANIN" => ~ctx'[Root].closed_rd
    BY <1>1, <1>7, <2>2, <2>3 DEF Ends
  <2>6. type = "FANOUT" => \A w \in Worker : ~ctx'[w].closed_rd
    <3>1. Ps(Root) = <<>>
      BY <1>1, <1>7 DEF Unborn
    <3> QED BY <1>1, <2>2, <2>3, <3>1 DEF Ends
  <2>7. type = "BROADCAST" => \A w \in Worker : At(w, "ended")' =>
          Shut(<<Root, w>>)' /\ From(w, Root)' = sent'[Root]
    BY <1>1, <1>3, <2>2, <2>3 DEF Ends, Shut, From
  <2>8. ~At(Root, "ended")'
    BY <1>1, <1>4 DEF At
  <2> QED BY <1>3, <1>8, <2>4, <2>5, <2>6, <2>7, <2>8 DEF Ends
<1> QED BY <1>11, <1>13, <1>14, <1>15, <1>17, <1>18, <1>19 DEF Inv, Streams

(* A member dies.                                                          *)
LEMMA DieKeeps ==
  ASSUME Inv, NEW p \in Proc, Die(p)
  PROVE  Inv'
<1>1. /\ Typed /\ Members /\ Contexts /\ Root \in Proc /\ Worker \subseteq Proc
  BY Team DEF Inv
<1>2. /\ ~At(p, "dead") /\ Return(p, "dead")
      /\ in' = [e \in End |-> IF e[2] = p /\ ~handle[Peer(e)].closed_wr
                              THEN Append(in[e], FIN) ELSE in[e]]
  BY DEF Die
<1>3. UNCHANGED <<groupsReady, type, handle, ctx, coll, user, ready, sent, got>>
  BY DEF Die
<1>4. /\ op' \in [Proc -> Call] /\ op'[p].pc = "dead" /\ \A x \in Proc : x # p => op'[x] = op[x]
      /\ \A x \in Proc : op'[x].pc \in {"probe", "receive"} => x # p
  BY <1>1, <1>2, Returned
<1>5. Dead' # {}
  BY <1>4 DEF Dead, At
<1>6. Still
  BY <1>1, <1>3, <1>4 DEF Still, Working, At
<1>7. Onward
  BY <1>3, <1>4, <1>5 DEF Onward, At, Shut
<1>8. \A w \in Worker : Known(w)' <=> Known(w)
  BY <1>3 DEF Known, Among, Ps
<1>9. Members'
  <2>1. ASSUME NEW x \in Proc
        PROVE  /\ Ps(x)' = Ps(x) /\ (Working(x)' => Working(x))
               /\ ctx[x].closed_rd => ctx'[x].closed_rd
               /\ At(x, "create")' => At(x, "create") /\ Untouched(x)
    BY <1>3, <1>4 DEF Ps, Working, At, Untouched
  <2> QED BY <1>3, <2>1, MembersKept
<1>10. Contexts'
  <2>1. ASSUME NEW x \in Proc PROVE ContextAt(x)'
    BY <1>1, <1>3, <1>4, ContextKept DEF Contexts
  <2> QED BY <1>1, <1>3, <1>4, <2>1, ContextsKept DEF Working, Ps
<1>11. ASSUME NEW e \in End PROVE Stream(e)' /\ in'[e] \in Seq(Frame)
  <2>1. PICK a \in 0..1, z \in 0..2, b \in Nat, m \in Nat :
          /\ Seg(in[e], a, b, m, z, Flow(e))
          /\ Opening(e, a, b) /\ Ending(e, z)
          /\ IF Carries(e) THEN Read(e, b) /\ Written(e, m) ELSE b = 0 /\ m = 0
    BY DEF Inv, Streams, Stream
  <2>2. in[e] \in Seq(Frame)
    BY <1>1, EndTypes
  <2>3. CASE e[2] = p /\ ~Shut(Peer(e))
    <3>1. in'[e] = Append(in[e], FIN)
      BY <1>2, <2>3 DEF Shut
    <3>2. z = 0
      BY <1>2, <2>1, <2>3 DEF Ending
    <3>3. in'[e] \in Seq(Frame) /\ Seg(in'[e], a, b, m, 1, Flow(e))
      BY <2>1, <2>2, <3>1, <3>2, SegDie
    <3>4. Flow(e)' = Flow(e) /\ (Carries(e)' <=> Carries(e))
          /\ (Read(e, b) => Read(e, b)') /\ (Written(e, m) => Written(e, m)')
      BY <1>1, <1>3, <1>6, StillSides DEF Carries
    <3>5. IF Carries(e)' THEN Read(e, b)' /\ Written(e, m)' ELSE b = 0 /\ m = 0
      BY <2>1, <3>4
    <3>6. Ending(e, 1)'
      BY <1>4, <1>5, <2>3 DEF Ending, At
    <3>7. Opening(e, a, b)'
      BY <1>7, <1>8, <2>1, OpeningKept
    <3>8. Seg(in'[e], a, b, m, 1, Flow(e)')
      BY <3>3, <3>4
    <3> QED BY <3>3, <3>5, <3>6, <3>7, <3>8 DEF Stream
  <2>4. CASE ~(e[2] = p /\ ~Shut(Peer(e)))
    <3>1. in'[e] = in[e]
      BY <1>2, <2>4 DEF Shut
    <3> QED BY <1>1, <1>6, <1>7, <1>8, <2>2, <3>1, StillSides, StreamKept
  <2> QED BY <2>3, <2>4
<1>12. Typed'
  <2>1. in' \in [End -> Seq(Frame)]
    BY <1>2, <1>11
  <2>2. \A x \in Proc : op'[x].pc \in {"probe", "receive"} =>
                          op'[x].i \in DOMAIN coll'[x].participants
    BY <1>1, <1>3, <1>4 DEF Typed, TypeOK
  <2> QED BY <1>1, <1>3, <1>4, <2>1, <2>2 DEF Typed, TypeOK, Results
<1>13. HandlesKept' /\ Values' /\ Ends'
  <2>1. At(Root, "receive")' => At(Root, "receive")
    BY <1>1, <1>4 DEF At
  <2> QED BY <1>3, <1>6, <1>7, <2>1, StillHandles, StillValues, StillEnds
<1> QED BY <1>9, <1>10, <1>11, <1>12, <1>13 DEF Inv, Streams

(***************************************************************************)
(* Closing.                                                                *)
(***************************************************************************)
(* The write side is closed, the read side, or both.                       *)
LEMMA MarkWr ==
  ASSUME NEW h \in HandleState
  PROVE  \E m \in HandleState :
         /\ m = Mark(h, TRUE, FALSE)
         /\ h.life = "live" => m.closed_wr /\ m.closed_rd = h.closed_rd /\ m.life = (IF h.closed_rd THEN "freed" ELSE "live")
         /\ h.life # "live" => /\ m.closed_wr = h.closed_wr /\ m.closed_rd = h.closed_rd
                               /\ m.life = "used"
<1>0. PICK m : m = Mark(h, TRUE, FALSE)
  OBVIOUS
<1>1. CASE h.life # "live"
  <2>1. m = [h EXCEPT !.life = "used"]
    BY <1>0, <1>1 DEF Mark
  <2>2. /\ m \in HandleState /\ m.closed_wr = h.closed_wr /\ m.closed_rd = h.closed_rd
        /\ m.life = "used"
    BY <2>1 DEF HandleState
  <2> QED BY <1>0, <1>1, <2>2
<1>2. CASE h.life = "live" /\ h.closed_rd = TRUE /\ h.closed_wr = TRUE
  <2>1. m = [closed_rd |-> TRUE, closed_wr |-> TRUE, life |-> "freed"]
    BY <1>0, <1>2 DEF Mark
  <2>2. m \in HandleState /\ m.closed_rd = TRUE /\ m.closed_wr = TRUE /\ m.life = "freed"
    BY <2>1 DEF HandleState
  <2> QED BY <1>0, <1>2, <2>2
<1>3. CASE h.life = "live" /\ h.closed_rd = TRUE /\ h.closed_wr = FALSE
  <2>1. m = [closed_rd |-> TRUE, closed_wr |-> TRUE, life |-> "freed"]
    BY <1>0, <1>3 DEF Mark
  <2>2. m \in HandleState /\ m.closed_rd = TRUE /\ m.closed_wr = TRUE /\ m.life = "freed"
    BY <2>1 DEF HandleState
  <2> QED BY <1>0, <1>3, <2>2
<1>4. CASE h.life = "live" /\ h.closed_rd = FALSE /\ h.closed_wr = TRUE
  <2>1. m = [closed_rd |-> FALSE, closed_wr |-> TRUE, life |-> "live"]
    BY <1>0, <1>4 DEF Mark
  <2>2. m \in HandleState /\ m.closed_rd = FALSE /\ m.closed_wr = TRUE /\ m.life = "live"
    BY <2>1 DEF HandleState
  <2> QED BY <1>0, <1>4, <2>2
<1>5. CASE h.life = "live" /\ h.closed_rd = FALSE /\ h.closed_wr = FALSE
  <2>1. m = [closed_rd |-> FALSE, closed_wr |-> TRUE, life |-> "live"]
    BY <1>0, <1>5 DEF Mark
  <2>2. m \in HandleState /\ m.closed_rd = FALSE /\ m.closed_wr = TRUE /\ m.life = "live"
    BY <2>1 DEF HandleState
  <2> QED BY <1>0, <1>5, <2>2
<1> QED BY <1>1, <1>2, <1>3, <1>4, <1>5 DEF HandleState

LEMMA MarkRd ==
  ASSUME NEW h \in HandleState
  PROVE  \E m \in HandleState :
         /\ m = Mark(h, FALSE, TRUE)
         /\ h.life = "live" => m.closed_wr = h.closed_wr /\ m.closed_rd /\ m.life = (IF h.closed_wr THEN "freed" ELSE "live")
         /\ h.life # "live" => /\ m.closed_wr = h.closed_wr /\ m.closed_rd = h.closed_rd
                               /\ m.life = "used"
<1>0. PICK m : m = Mark(h, FALSE, TRUE)
  OBVIOUS
<1>1. CASE h.life # "live"
  <2>1. m = [h EXCEPT !.life = "used"]
    BY <1>0, <1>1 DEF Mark
  <2>2. /\ m \in HandleState /\ m.closed_wr = h.closed_wr /\ m.closed_rd = h.closed_rd
        /\ m.life = "used"
    BY <2>1 DEF HandleState
  <2> QED BY <1>0, <1>1, <2>2
<1>2. CASE h.life = "live" /\ h.closed_rd = TRUE /\ h.closed_wr = TRUE
  <2>1. m = [closed_rd |-> TRUE, closed_wr |-> TRUE, life |-> "freed"]
    BY <1>0, <1>2 DEF Mark
  <2>2. m \in HandleState /\ m.closed_rd = TRUE /\ m.closed_wr = TRUE /\ m.life = "freed"
    BY <2>1 DEF HandleState
  <2> QED BY <1>0, <1>2, <2>2
<1>3. CASE h.life = "live" /\ h.closed_rd = TRUE /\ h.closed_wr = FALSE
  <2>1. m = [closed_rd |-> TRUE, closed_wr |-> FALSE, life |-> "live"]
    BY <1>0, <1>3 DEF Mark
  <2>2. m \in HandleState /\ m.closed_rd = TRUE /\ m.closed_wr = FALSE /\ m.life = "live"
    BY <2>1 DEF HandleState
  <2> QED BY <1>0, <1>3, <2>2
<1>4. CASE h.life = "live" /\ h.closed_rd = FALSE /\ h.closed_wr = TRUE
  <2>1. m = [closed_rd |-> TRUE, closed_wr |-> TRUE, life |-> "freed"]
    BY <1>0, <1>4 DEF Mark
  <2>2. m \in HandleState /\ m.closed_rd = TRUE /\ m.closed_wr = TRUE /\ m.life = "freed"
    BY <2>1 DEF HandleState
  <2> QED BY <1>0, <1>4, <2>2
<1>5. CASE h.life = "live" /\ h.closed_rd = FALSE /\ h.closed_wr = FALSE
  <2>1. m = [closed_rd |-> TRUE, closed_wr |-> FALSE, life |-> "live"]
    BY <1>0, <1>5 DEF Mark
  <2>2. m \in HandleState /\ m.closed_rd = TRUE /\ m.closed_wr = FALSE /\ m.life = "live"
    BY <2>1 DEF HandleState
  <2> QED BY <1>0, <1>5, <2>2
<1> QED BY <1>1, <1>2, <1>3, <1>4, <1>5 DEF HandleState

LEMMA MarkBoth ==
  ASSUME NEW h \in HandleState
  PROVE  \E m \in HandleState :
         /\ m = Mark(h, TRUE, TRUE)
         /\ h.life = "live" => m.closed_wr /\ m.closed_rd /\ m.life = "freed"
         /\ h.life # "live" => /\ m.closed_wr = h.closed_wr /\ m.closed_rd = h.closed_rd
                               /\ m.life = "used"
<1>0. PICK m : m = Mark(h, TRUE, TRUE)
  OBVIOUS
<1>1. CASE h.life # "live"
  <2>1. m = [h EXCEPT !.life = "used"]
    BY <1>0, <1>1 DEF Mark
  <2>2. /\ m \in HandleState /\ m.closed_wr = h.closed_wr /\ m.closed_rd = h.closed_rd
        /\ m.life = "used"
    BY <2>1 DEF HandleState
  <2> QED BY <1>0, <1>1, <2>2
<1>2. CASE h.life = "live" /\ h.closed_rd = TRUE /\ h.closed_wr = TRUE
  <2>1. m = [closed_rd |-> TRUE, closed_wr |-> TRUE, life |-> "freed"]
    BY <1>0, <1>2 DEF Mark
  <2>2. m \in HandleState /\ m.closed_rd = TRUE /\ m.closed_wr = TRUE /\ m.life = "freed"
    BY <2>1 DEF HandleState
  <2> QED BY <1>0, <1>2, <2>2
<1>3. CASE h.life = "live" /\ h.closed_rd = TRUE /\ h.closed_wr = FALSE
  <2>1. m = [closed_rd |-> TRUE, closed_wr |-> TRUE, life |-> "freed"]
    BY <1>0, <1>3 DEF Mark
  <2>2. m \in HandleState /\ m.closed_rd = TRUE /\ m.closed_wr = TRUE /\ m.life = "freed"
    BY <2>1 DEF HandleState
  <2> QED BY <1>0, <1>3, <2>2
<1>4. CASE h.life = "live" /\ h.closed_rd = FALSE /\ h.closed_wr = TRUE
  <2>1. m = [closed_rd |-> TRUE, closed_wr |-> TRUE, life |-> "freed"]
    BY <1>0, <1>4 DEF Mark
  <2>2. m \in HandleState /\ m.closed_rd = TRUE /\ m.closed_wr = TRUE /\ m.life = "freed"
    BY <2>1 DEF HandleState
  <2> QED BY <1>0, <1>4, <2>2
<1>5. CASE h.life = "live" /\ h.closed_rd = FALSE /\ h.closed_wr = FALSE
  <2>1. m = [closed_rd |-> TRUE, closed_wr |-> TRUE, life |-> "freed"]
    BY <1>0, <1>5 DEF Mark
  <2>2. m \in HandleState /\ m.closed_rd = TRUE /\ m.closed_wr = TRUE /\ m.life = "freed"
    BY <2>1 DEF HandleState
  <2> QED BY <1>0, <1>5, <2>2
<1> QED BY <1>1, <1>2, <1>3, <1>4, <1>5 DEF HandleState

(* The program closes.                                                     *)
LEMMA CloseKeeps ==
  ASSUME Inv, NEW p \in Proc, Close(p)
  PROVE  Inv'
<1>1. /\ Typed /\ Members /\ Contexts /\ HandlesKept /\ Root \in Proc /\ Worker \subseteq Proc
      /\ ctx[p] \in Context /\ op[p].pc \in {"idle", "ended"}
  BY Team, ProcTypes DEF Inv, Close, At
<1>2. /\ in' = Closed(in, Handles(p), TRUE) /\ handle' = Marked(Handles(p), TRUE, FALSE)
      /\ ctx' = [ctx EXCEPT ![p].closed_wr = TRUE]
      /\ ClosesHandles(p) /\ \E e \in Handles(p) : ~Shut(e)
  BY DEF Close, Shut
<1>3. UNCHANGED <<groupsReady, type, coll, user, ready, op, sent, got>>
  BY DEF Close
<1>4. /\ ctx' \in [Proc -> Context] /\ \A x \in Proc : x # p => ctx'[x] = ctx[x]
      /\ ctx'[p].probed = ctx[p].probed /\ ctx'[p].closed_rd = ctx[p].closed_rd
      /\ ctx'[p].toManage = ctx[p].toManage /\ ctx'[p].closed_wr
  <2>1. PICK r : r = [ctx[p] EXCEPT !.closed_wr = TRUE]
    OBVIOUS
  <2>2. /\ r \in Context /\ r.closed_wr /\ r.probed = ctx[p].probed
        /\ r.closed_rd = ctx[p].closed_rd /\ r.toManage = ctx[p].toManage
    BY <1>1, <2>1 DEF Context
  <2>3. ctx' = [ctx EXCEPT ![p] = r]
    BY <1>2, <2>1
  <2> QED BY <1>1, <2>2, <2>3 DEF Typed, TypeOK
<1>5. \A e \in End :
        /\ handle'[e] = IF e \in Handles(p) THEN Mark(handle[e], TRUE, FALSE) ELSE handle[e]
        /\ in'[e] = IF Peer(e) \in Handles(p) /\ ~Shut(Peer(e)) THEN in[e] \o <<EOS, FIN>>
                    ELSE in[e]
  BY <1>2 DEF Closed, Marked, Shut
<1>6. \A e \in End : e \in Handles(p) <=> e[1] = p /\ Among(e[2], Ps(p))
  BY <1>1, Own
<1>30. ASSUME NEW e \in End
       PROVE  /\ handle'[e] \in HandleState /\ handle'[e].closed_rd = handle[e].closed_rd
              /\ Shut(e) => Shut(e)'
              /\ e \in Handles(p) => Shut(e)'
              /\ e \in Handles(p) /\ handle[e].life = "live" =>
                   handle'[e].life = (IF handle[e].closed_rd THEN "freed" ELSE "live")
  <2>1. handle[e] \in HandleState
    BY <1>1, EndTypes
  <2>2. CASE e \notin Handles(p)
    BY <1>5, <2>1, <2>2 DEF Shut
  <2>3. CASE e \in Handles(p)
    <3>1. PICK h \in HandleState : h = handle[e]
      BY <2>1
    <3>2. PICK m \in HandleState :
             /\ m = Mark(h, TRUE, FALSE)
             /\ h.life = "live" => /\ m.closed_wr /\ m.closed_rd = h.closed_rd
                                   /\ m.life = (IF h.closed_rd THEN "freed" ELSE "live")
             /\ h.life # "live" => /\ m.closed_wr = h.closed_wr /\ m.closed_rd = h.closed_rd
                                   /\ m.life = "used"
      BY MarkWr
    <3>3. handle'[e] = m
      BY <1>5, <2>3, <3>1, <3>2
    <3>4. handle[e].life # "live" => handle[e].closed_wr
      BY <1>1 DEF HandlesKept
    <3>5. /\ m.closed_rd = h.closed_rd /\ m.closed_wr
          /\ h.life = "live" => m.life = (IF h.closed_rd THEN "freed" ELSE "live")
      BY <3>1, <3>2, <3>4
    <3> QED BY <2>1, <2>3, <3>1, <3>3, <3>5 DEF Shut
  <2> QED BY <2>2, <2>3
<1>7. \A e \in End : Shut(e) => Shut(e)'
  BY <1>30
<1>8. \A e \in End : e \in Handles(p) => Shut(e)'
  BY <1>30
<1>9. \A e \in End : handle'[e] \in HandleState /\ handle'[e].closed_rd = handle[e].closed_rd
  BY <1>30
<1>10. Still
  BY <1>1, <1>3, <1>4 DEF Still, At, Working
<1>11. Onward
  BY <1>3, <1>4, <1>7 DEF Onward, At, Working, Dead, Among, Ps
<1>12. (\A w \in Worker : Known(w)' <=> Known(w)) /\ Dead' = Dead
  BY <1>3 DEF Known, Among, Ps, Dead, At
<1>13. Members'
  <2>1. ASSUME NEW x \in Proc
        PROVE  /\ Ps(x)' = Ps(x) /\ (Working(x)' => Working(x))
               /\ ctx[x].closed_rd => ctx'[x].closed_rd
               /\ At(x, "create")' => At(x, "create") /\ Untouched(x)
    <3>1. At(x, "create") => Untouched(x)
      <4>1. SUFFICES ASSUME At(x, "create") PROVE Untouched(x)
        OBVIOUS
      <4>2. x # p
        BY <1>1, <4>1 DEF At
      <4> QED BY <1>3, <1>4, <1>5, <1>6, <4>2 DEF Untouched
    <3>2. ctx[x].closed_rd => ctx'[x].closed_rd
      BY <1>4
    <3> QED BY <1>3, <3>1, <3>2 DEF Ps, Working, At
  <2> QED BY <1>3, <2>1, MembersKept
<1>14. Contexts'
  <2>1. ASSUME NEW x \in Proc PROVE ContextAt(x)'
    <3>1. CASE x # p
      BY <1>1, <1>3, <1>4, <3>1, ContextKept DEF Contexts
    <3>2. CASE x = p
      BY <1>1, <1>3, <1>4, <3>2 DEF Contexts, ContextAt, At
    <3> QED BY <3>1, <3>2
  <2>2. ctx'[Root].probed = ctx[Root].probed /\ ctx'[Root].closed_rd = ctx[Root].closed_rd
    BY <1>1, <1>4
  <2> QED BY <1>1, <1>3, <2>1, <2>2 DEF Contexts, Working, Ps
<1>15. ASSUME NEW e \in End PROVE Stream(e)' /\ in'[e] \in Seq(Frame)
  <2>1. PICK a \in 0..1, z \in 0..2, b \in Nat, m \in Nat :
          /\ Seg(in[e], a, b, m, z, Flow(e))
          /\ Opening(e, a, b) /\ Ending(e, z)
          /\ IF Carries(e) THEN Read(e, b) /\ Written(e, m) ELSE b = 0 /\ m = 0
    BY DEF Inv, Streams, Stream
  <2>2. in[e] \in Seq(Frame) /\ Peer(e) \in End /\ Peer(e)[1] = e[2]
    BY <1>1, EndTypes, Connections
  <2>3. CASE Peer(e) \in Handles(p) /\ ~Shut(Peer(e))
    <3>1. in'[e] = in[e] \o <<EOS, FIN>> /\ e[2] = p
      BY <1>5, <1>6, <2>2, <2>3
    <3>2. z = 0
      BY <1>1, <2>1, <2>3, <3>1 DEF Ending, At
    <3>3. in'[e] \in Seq(Frame) /\ Seg(in'[e], a, b, m, 2, Flow(e))
      BY <2>1, <2>2, <3>1, <3>2, SegShut
    <3>4. Flow(e)' = Flow(e) /\ (Carries(e)' <=> Carries(e))
          /\ (Read(e, b) => Read(e, b)') /\ (Written(e, m) => Written(e, m)')
      BY <1>1, <1>3, <1>10, StillSides DEF Carries
    <3>5. IF Carries(e)' THEN Read(e, b)' /\ Written(e, m)' ELSE b = 0 /\ m = 0
      BY <2>1, <3>4
    <3>6. Ending(e, 2)'
      BY <1>8, <2>2, <2>3 DEF Ending
    <3>7. Opening(e, a, b)'
      BY <1>11, <1>12, <2>1, OpeningKept
    <3>8. Seg(in'[e], a, b, m, 2, Flow(e)')
      BY <3>3, <3>4
    <3> QED BY <3>3, <3>5, <3>6, <3>7, <3>8 DEF Stream
  <2>4. CASE ~(Peer(e) \in Handles(p) /\ ~Shut(Peer(e)))
    <3>1. in'[e] = in[e]
      BY <1>5, <2>4
    <3> QED BY <1>1, <1>10, <1>11, <1>12, <2>2, <3>1, StillSides, StreamKept
  <2> QED BY <2>3, <2>4
<1>16. Typed'
  <2>1. in' \in [End -> Seq(Frame)]
    <3>1. in' = [e \in End |-> in'[e]]
      BY <1>2 DEF Closed
    <3> QED BY <1>15, <3>1
  <2>2. handle' \in [End -> HandleState]
    <3>1. handle' = [e \in End |-> handle'[e]]
      BY <1>2 DEF Marked
    <3> QED BY <1>9, <3>1
  <2> QED BY <1>1, <1>3, <1>4, <2>1, <2>2 DEF Typed, TypeOK, Results
<1>17. HandlesKept'
  <2>1. ASSUME type # "FANOUT", Dead = {}, NEW e \in Handles(p), e \in End
        PROVE  handle[e].life = "live"
    <3>1. type \in {"BROADCAST", "FANIN", "GATHER"} /\ e = <<e[1], e[2]>> /\ e[1] = p
      BY <1>1, <1>6, <2>1, Kind, Connections
    <3>2. CASE type = "FANIN"
      <4>1. p # Root
        BY <1>2, <3>2 DEF ClosesHandles
      <4>2. p \in Worker /\ \A x : Among(x, Ps(p)) => x = Root
        BY <1>1, <4>1, Team DEF Members, Among
      <4>3. PICK d \in Handles(p) : ~Shut(d)
        BY <1>2
      <4>4. d \in End /\ d[2] = Root /\ d[1] = p /\ e[2] = Root
        BY <1>1, <1>6, <2>1, <4>2, Own
      <4>5. d = e
        BY <3>1, <4>4, Connections
      <4> QED BY <1>1, <2>1, <4>3, <4>5 DEF HandlesKept, Shut
    <3>3. CASE type = "BROADCAST"
      <4>1. p = Root
        BY <1>2, <3>3 DEF ClosesHandles
      <4>2. e[2] \in Worker
        BY <2>1, <3>1, <4>1, Connections
      <4>3. ~handle[e].closed_rd
        BY <1>1, <3>1, <3>3, <4>1, <4>2 DEF HandlesKept
      <4> QED BY <1>1, <2>1, <4>3 DEF HandlesKept
    <3>4. CASE type = "GATHER" /\ p # Root
      <4>1. p \in Worker /\ e = <<p, Root>>
        BY <1>1, <2>1, <3>1, <3>4, Team, Connections
      <4>2. ~handle[e].closed_rd
        BY <1>1, <3>4, <4>1 DEF HandlesKept
      <4> QED BY <1>1, <2>1, <4>2 DEF HandlesKept
    <3>5. CASE type = "GATHER" /\ p = Root
      <4>1. PICK d \in Handles(p) : ~Shut(d)
        BY <1>2
      <4>2. d \in End /\ d[1] = Root
        <5>1. Handles(p) \subseteq End
          BY <1>1, <2>1, Own
        <5> QED BY <1>6, <3>5, <4>1, <5>1
      <4>3. d = <<Root, d[2]>> /\ d[2] \in Worker /\ e = <<Root, e[2]>> /\ e[2] \in Worker
        BY <2>1, <3>1, <3>5, <4>2, Connections
      <4>4. Shut(<<Root, e[2]>>) = Shut(<<Root, d[2]>>)
        BY <1>1, <2>1, <3>5, <4>3 DEF HandlesKept
      <4>5. ~Shut(e)
        BY <4>1, <4>3, <4>4
      <4> QED BY <1>1, <2>1, <4>5 DEF HandlesKept, Shut
    <3> QED BY <3>1, <3>2, <3>3, <3>4, <3>5
  <2>2. OthersSafe'
    <3>1. SUFFICES ASSUME type # "FANOUT", Dead = {}, NEW e \in End
                   PROVE  handle'[e].life # "used"
      BY <1>3, <1>12 DEF OthersSafe
    <3>2. CASE e \in Handles(p)
      BY <1>30, <2>1, <3>1, <3>2
    <3>3. CASE e \notin Handles(p)
      BY <1>1, <1>5, <3>1, <3>3 DEF HandlesKept, OthersSafe
    <3> QED BY <3>2, <3>3
  <2>3. ASSUME NEW e \in End, handle'[e].life # "live"
        PROVE  handle'[e].closed_rd /\ handle'[e].closed_wr
    <3>1. CASE e \notin Handles(p)
      BY <1>1, <1>5, <2>3, <3>1 DEF HandlesKept
    <3>2. CASE e \in Handles(p) /\ handle[e].life # "live"
      BY <1>1, <1>8, <1>9, <3>2 DEF HandlesKept, Shut
    <3>3. CASE e \in Handles(p) /\ handle[e].life = "live"
      BY <1>8, <1>9, <1>30, <2>3, <3>3 DEF Shut
    <3> QED BY <3>1, <3>2, <3>3
  <2>4. type = "FANIN" => \A w \in Worker : Among(w, Ps(Root))' => Fresh(<<Root, w>>)'
    <3>1. SUFFICES ASSUME type = "FANIN", NEW w \in Worker, Among(w, Ps(Root))'
                   PROVE  Fresh(<<Root, w>>)'
      OBVIOUS
    <3>2. p # Root
      BY <1>2, <3>1 DEF ClosesHandles
    <3>3. <<Root, w>> \in End /\ <<Root, w>> \notin Handles(p)
      BY <1>6, <3>2, Connections
    <3>4. Fresh(<<Root, w>>)
      BY <1>1, <1>3, <3>1 DEF HandlesKept, Among, Ps
    <3> QED BY <1>5, <3>3, <3>4 DEF Fresh
  <2>5. type = "BROADCAST" => \A w \in Worker :
          /\ ~handle'[<<Root, w>>].closed_rd
          /\ op'[w].pc \notin {"ended", "dead"} => Fresh(<<w, Root>>)'
    <3>1. SUFFICES ASSUME type = "BROADCAST", NEW w \in Worker
                   PROVE  /\ ~handle'[<<Root, w>>].closed_rd
                          /\ op'[w].pc \notin {"ended", "dead"} => Fresh(<<w, Root>>)'
      OBVIOUS
    <3>2. p = Root /\ w # Root
      BY <1>2, <3>1, Team DEF ClosesHandles
    <3>3. <<w, Root>> \in End /\ <<Root, w>> \in End /\ <<w, Root>> \notin Handles(p)
      BY <1>6, <3>2, Connections
    <3> QED BY <1>1, <1>3, <1>5, <1>9, <3>1, <3>3 DEF HandlesKept, Fresh
  <2>6. type = "GATHER" => \A w \in Worker :
          /\ ~handle'[<<w, Root>>].closed_rd
          /\ At(Root, "receive")' => ~Shut(<<Root, w>>)'
          /\ op'[Root].pc \notin {"ended", "dead"} => ~handle'[<<Root, w>>].closed_rd
          /\ Dead' = {} => \A x \in Worker : Shut(<<Root, w>>)' = Shut(<<Root, x>>)'
    <3>1. SUFFICES ASSUME type = "GATHER", NEW w \in Worker
                   PROVE  /\ ~handle'[<<w, Root>>].closed_rd
                          /\ At(Root, "receive")' => ~Shut(<<Root, w>>)'
                          /\ op'[Root].pc \notin {"ended", "dead"} => ~handle'[<<Root, w>>].closed_rd
                          /\ Dead = {} => \A x \in Worker :
                                             Shut(<<Root, w>>)' = Shut(<<Root, x>>)'
      BY <1>12
    <3>2. ~handle'[<<w, Root>>].closed_rd
      BY <1>1, <1>9, <3>1, Connections DEF HandlesKept
    <3>3. op'[Root].pc \notin {"ended", "dead"} => ~handle'[<<Root, w>>].closed_rd
      BY <1>1, <1>3, <1>9, <3>1, Connections DEF HandlesKept
    <3>4. CASE p = Root
      <4>1. \A x \in Worker : <<Root, x>> \in End /\ <<Root, x>> \in Handles(Root)
        <5>1. \A x \in Worker : Among(x, Ps(Root))
          BY <1>1, <3>1, <3>4 DEF Members, Working
        <5> QED BY <1>6, <3>4, <5>1, Connections
      <4>2. \A x \in Worker : handle'[<<Root, x>>].closed_wr = TRUE
        BY <1>1, <1>5, <1>8, <1>9, <3>4, <4>1 DEF Shut, HandleState
      <4>3. ~At(Root, "receive")'
        BY <1>1, <1>3, <3>4 DEF At
      <4> QED BY <3>2, <3>3, <4>2, <4>3 DEF Shut
    <3>5. CASE p # Root
      <4>1. \A x \in Worker : <<Root, x>> \in End /\ handle'[<<Root, x>>] = handle[<<Root, x>>]
        BY <1>5, <1>6, <3>5, Connections
      <4> QED BY <1>1, <1>3, <3>1, <3>2, <3>3, <4>1 DEF HandlesKept, Shut, At
    <3> QED BY <3>4, <3>5
  <2>7. type' = type
    BY <1>3
  <2> QED BY <2>2, <2>3, <2>4, <2>5, <2>6, <2>7 DEF HandlesKept
<1>18. Values' /\ Ends'
  BY <1>10, <1>11, StillValues, StillEnds
<1> QED BY <1>13, <1>14, <1>15, <1>16, <1>17, <1>18 DEF Inv, Streams

(***************************************************************************)
(* Sending.                                                                *)
(***************************************************************************)

(* Who may still send has shut nothing, and is connected.                  *)
LEMMA Unshut ==
  ASSUME Inv, NEW p \in Proc, At(p, "idle"), Unsent(p)
  PROVE  /\ \A e \in End : e \in Handles(p) => ~Shut(e)
         /\ p = Root /\ type # "FANIN" => \A w \in Worker : <<Root, w>> \in Handles(Root)
         /\ p # Root /\ type # "FANOUT" => \A e \in End : e \in Handles(p) <=> e = <<p, Root>>
<1>1. Members /\ Working(p)
  BY Kept DEF Working, At
<1>2. \A e \in End : e \in Handles(p) => ~Shut(e)
  BY DEF Unsent, Shut
<1>3. ASSUME p = Root, type # "FANIN", NEW w \in Worker PROVE <<Root, w>> \in Handles(Root)
  <2>1. Among(w, Ps(Root))
    BY <1>1, <1>3 DEF Members
  <2>2. /\ <<Root, w>> \in End /\ <<Root, w>>[1] = Root /\ <<Root, w>>[2] = w
    BY Connections
  <2> QED BY <1>1, <1>3, <2>1, <2>2, Own
<1>4. ASSUME p # Root, type # "FANOUT", NEW e \in End
      PROVE  e \in Handles(p) <=> e = <<p, Root>>
  <2>1. p \in Worker /\ Ps(p) = <<Root>>
    BY <1>1, <1>4, Team DEF Members
  <2>2. \A x : Among(x, Ps(p)) <=> x = Root
    BY <2>1 DEF Among
  <2>3. e = <<e[1], e[2]>>
    BY Connections
  <2> QED BY <1>1, <2>2, <2>3, Own
<1> QED BY <1>2, <1>3, <1>4

(* What all sends have in common.                                          *)
Sending(p) ==
    /\ At(p, "idle") /\ Unsent(p)
    /\ p = Root <=> type \in {"FANOUT", "BROADCAST"}
    /\ UNCHANGED <<groupsReady, type, handle, ctx, user, ready, got>>
    /\ \/ op' = op
       \/ Dead # {} /\ Return(p, "ended") /\ type \in {"FANIN", "BROADCAST"}
    /\ coll' = coll \/ (type = "FANOUT" /\ \E c \in 1..N : coll' = [coll EXCEPT ![p].current = c])
    /\ sent' = sent \/ CountSent(p)

LEMMA SendFacts ==
  ASSUME Inv, NEW p \in Proc, Sending(p)
  PROVE  /\ UNCHANGED <<groupsReady, type, handle, ctx, user, ready, got>>
         /\ coll' \in [Proc -> Impl] /\ op' \in [Proc -> Call] /\ sent' \in [Proc -> 0..MaxSend]
         /\ \A x \in Proc : Ps(x)' = Ps(x)
         /\ coll'[Root].probed_idx = coll[Root].probed_idx
         /\ type = "FANOUT" => coll'[Root].current \in 1..N
         /\ type = "GATHER" => op' = op /\ coll' = coll /\ sent'[Root] = sent[Root]
         /\ \A x \in Proc : x # p => sent'[x] = sent[x] /\ op'[x] = op[x] /\ coll'[x] = coll[x]
         /\ op' = op \/ (Dead # {} /\ op'[p].pc = "ended")
<1>1. UNCHANGED <<groupsReady, type, handle, ctx, user, ready, got>>
  BY DEF Sending
<1>2. Typed /\ Values /\ Root \in Proc
  BY Kept, Team
<1>3. /\ op' \in [Proc -> Call] /\ \A x \in Proc : x # p => op'[x] = op[x]
      /\ op' = op \/ (Dead # {} /\ op'[p].pc = "ended")
  <2>1. CASE op' = op
    BY <1>2, <2>1 DEF Typed, TypeOK
  <2>2. CASE Dead # {} /\ Return(p, "ended")
    BY <1>2, <2>2, Returned
  <2> QED BY <2>1, <2>2 DEF Sending
<1>4. /\ coll' \in [Proc -> Impl] /\ \A x \in Proc : Ps(x)' = Ps(x)
      /\ \A x \in Proc : x # p => coll'[x] = coll[x]
      /\ coll'[Root].probed_idx = coll[Root].probed_idx
      /\ type = "FANOUT" => coll'[Root].current \in 1..N
  <2>1. CASE coll' = coll
    BY <1>2, <2>1 DEF Typed, TypeOK, Ps, Values
  <2>2. CASE type = "FANOUT" /\ \E c \in 1..N : coll' = [coll EXCEPT ![p].current = c]
    <3>1. PICK c \in 1..N : coll' = [coll EXCEPT ![p].current = c]
      BY <2>2
    <3>2. PICK r : r = [coll[p] EXCEPT !.current = c]
      OBVIOUS
    <3>3. /\ r \in Impl /\ r.current = c /\ r.participants = coll[p].participants
          /\ r.probed_idx = coll[p].probed_idx
      <4>1. coll[p] \in Impl /\ c \in Nat
        BY <1>2, ProcTypes, Team
      <4> QED BY <3>2, <4>1 DEF Impl
    <3>4. coll' = [coll EXCEPT ![p] = r] /\ coll \in [Proc -> Impl]
      BY <1>2, <3>1, <3>2 DEF Typed, TypeOK
    <3>5. coll'[p] = r /\ \A x \in Proc : x # p => coll'[x] = coll[x]
      BY <3>4
    <3>6. p = Root
      BY <2>2 DEF Sending
    <3> QED BY <3>3, <3>4, <3>5, <3>6 DEF Ps
  <2> QED BY <2>1, <2>2 DEF Sending
<1>5. sent' \in [Proc -> 0..MaxSend] /\ \A x \in Proc : x # p => sent'[x] = sent[x]
  <2>1. sent[p] \in 0..MaxSend /\ sent[p] < MaxSend /\ MaxSend \in Nat
    BY <1>2, ProcTypes DEF Sending, Unsent
  <2>2. sent \in [Proc -> 0..MaxSend]
    BY <1>2 DEF Typed, TypeOK
  <2>3. CASE sent' = sent
    BY <2>2, <2>3
  <2>4. CASE CountSent(p)
    <3>1. sent' = [sent EXCEPT ![p] = sent[p] + 1] /\ sent[p] + 1 \in 0..MaxSend
      BY <2>1, <2>4 DEF CountSent
    <3> QED BY <2>2, <3>1
  <2> QED BY <2>3, <2>4 DEF Sending
<1>6. type = "GATHER" => op' = op /\ coll' = coll /\ sent'[Root] = sent[Root]
  <2>1. type = "GATHER" => op' = op /\ coll' = coll /\ p # Root
    BY DEF Sending
  <2> QED BY <1>2, <1>5, <2>1
<1> QED BY <1>1, <1>3, <1>4, <1>5, <1>6

LEMMA SendKeeps ==
  ASSUME Inv, NEW p \in Proc, Sending(p), in' \in [End -> Seq(Frame)], Streams'
  PROVE  Inv'
<1>1. /\ Typed /\ Members /\ Contexts /\ HandlesKept /\ Values /\ Ends
      /\ Root \in Proc /\ Worker \subseteq Proc /\ At(p, "idle") /\ Unsent(p)
      /\ (p = Root <=> type \in {"FANOUT", "BROADCAST"})
  BY Kept, Team DEF Sending
<1>2. UNCHANGED <<groupsReady, type, handle, ctx, user, ready, got>>
  BY SendFacts
<1>3. /\ coll' \in [Proc -> Impl] /\ op' \in [Proc -> Call] /\ sent' \in [Proc -> 0..MaxSend]
      /\ \A x \in Proc : Ps(x)' = Ps(x)
      /\ coll'[Root].probed_idx = coll[Root].probed_idx
      /\ type = "FANOUT" => coll'[Root].current \in 1..N
      /\ type = "GATHER" => op' = op /\ coll' = coll /\ sent'[Root] = sent[Root]
      /\ \A x \in Proc : x # p => sent'[x] = sent[x] /\ op'[x] = op[x] /\ coll'[x] = coll[x]
      /\ op' = op \/ (Dead # {} /\ op'[p].pc = "ended")
  BY SendFacts
<1>4. /\ \A x \in Proc : At(x, "create")' => At(x, "create") /\ x # p
      /\ \A x \in Proc : op'[x].pc = op[x].pc \/ (x = p /\ op'[x].pc = "ended" /\ Dead # {})
      /\ \A x \in Proc : At(x, "dead")' <=> At(x, "dead")
  BY <1>1, <1>3 DEF At
<1>5. /\ \A x \in Proc : Working(x)' <=> Working(x)
      /\ Dead' = Dead
      /\ \A w \in Worker : (Known(w)' <=> Known(w)) /\ (Among(w, Ps(Root))' <=> Among(w, Ps(Root)))
  BY <1>1, <1>2, <1>3, <1>4 DEF Working, Dead, Known, Among, At
<1>6. Dead = {} => op' = op
  BY <1>3
<1>7. Typed'
  <2>1. \A x \in Proc : op'[x].pc \in {"probe", "receive"} => op'[x].i \in DOMAIN coll'[x].participants
    <3>1. SUFFICES ASSUME NEW x \in Proc, op'[x].pc \in {"probe", "receive"}
                   PROVE  op'[x].i \in DOMAIN Ps(x)'
      BY DEF Ps
    <3>2. x # p /\ op'[x] = op[x]
      BY <1>1, <1>3, <1>4, <3>1 DEF At
    <3> QED BY <1>1, <1>3, <3>1, <3>2 DEF Typed, TypeOK, Ps
  <2> QED BY <1>1, <1>2, <1>3, <2>1 DEF Typed, TypeOK, Results
<1>8. Members'
  <2>1. ASSUME NEW x \in Proc, At(x, "create")' PROVE At(x, "create") /\ Untouched(x)
    BY <1>2, <1>3, <1>4, <2>1 DEF Untouched
  <2> QED BY <1>2, <1>3, <1>5, <2>1, MembersKept
<1>9. Contexts'
  <2>1. ASSUME NEW x \in Proc PROVE ContextAt(x)'
    <3>1. ContextAt(x) /\ (op'[x].pc = op[x].pc \/ (op'[x].pc = "ended" /\ op[x].pc = "idle"))
      BY <1>1, <1>4 DEF Contexts, At
    <3> QED BY <1>2, <3>1, ContextKept
  <2> QED BY <1>1, <1>2, <1>3, <1>5, <2>1, ContextsKept
<1>10. HandlesKept'
  <2>1. OthersSafe'
    BY <1>1, <1>2, <1>5 DEF HandlesKept, OthersSafe
  <2>2. \A e \in End : (handle[e].life # "live" => handle[e].closed_rd /\ handle[e].closed_wr)'
    BY <1>1, <1>2 DEF HandlesKept
  <2>3. type = "FANIN" => \A w \in Worker : Among(w, Ps(Root))' => Fresh(<<Root, w>>)'
    BY <1>1, <1>2, <1>5 DEF HandlesKept, Fresh
  <2>4. type = "BROADCAST" => \A w \in Worker :
          /\ ~handle'[<<Root, w>>].closed_rd
          /\ op'[w].pc \notin {"ended", "dead"} => Fresh(<<w, Root>>)'
    BY <1>1, <1>2, <1>4 DEF HandlesKept, Fresh, At
  <2>5. type = "GATHER" => \A w \in Worker :
          /\ ~handle'[<<w, Root>>].closed_rd
          /\ At(Root, "receive")' => ~Shut(<<Root, w>>)'
          /\ op'[Root].pc \notin {"ended", "dead"} => ~handle'[<<Root, w>>].closed_rd
          /\ Dead' = {} => \A x \in Worker : Shut(<<Root, w>>)' = Shut(<<Root, x>>)'
    BY <1>1, <1>2, <1>3, <1>5 DEF HandlesKept, Shut, At
  <2> QED BY <1>2, <2>1, <2>2, <2>3, <2>4, <2>5 DEF HandlesKept
<1>11. Values'
  <2>1. type = "FANOUT" => \A i \in DOMAIN Ps(Root)' : \A k \in DOMAIN got'[Ps(Root)'[i]][Root] :
          got'[Ps(Root)'[i]][Root][k] = (k - 1) * N + i
    BY <1>1, <1>2, <1>3 DEF Values
  <2>2. type = "GATHER" =>
        /\ \A k \in 1..L' : got'[Root][Root][k] = [r \in 0..N |-> k]
        /\ op'[Root].pc \in {"create", "idle"} => sent'[Root] = L'
        /\ At(Root, "receive")' =>
            /\ sent'[Root] = L' + 1 /\ op'[Root].buff[Rank[Root]] = L' + 1
            /\ \A k \in 1..(op'[Root].i - 1) : op'[Root].buff[Rank[Ps(Root)'[k]]] = L' + 1
            /\ op'[Root].data => op'[Root].rank = Rank[Ps(Root)'[op'[Root].i]]
    BY <1>1, <1>2, <1>3 DEF Values, L, From, At
  <2> QED BY <1>1, <1>2, <1>3, <2>1, <2>2 DEF Values
<1>12. Ends'
  <2>1. SUFFICES ASSUME Dead = {} PROVE Ends'
    BY <1>5 DEF Ends
  <2>2. op' = op
    BY <1>6, <2>1
  <2>3. \A e \in End : e \in Handles(p) => ~Shut(e)
    BY <1>1, Unshut
  <2>4. \A x \in Proc : At(x, "ended")' => IF x = Root THEN type = "GATHER" ELSE type = "BROADCAST"
    BY <1>1, <2>1, <2>2 DEF Ends, At
  <2>5. type = "FANIN" =>
        /\ Working(Root)' => \A w \in Worker : ~Among(w, Ps(Root))' =>
                              Shut(<<w, Root>>)' /\ From(Root, w)' = sent'[w]
        /\ ctx'[Root].closed_rd => Ps(Root)' = <<>> /\ Working(Root)'
    <3>1. SUFFICES ASSUME type = "FANIN" PROVE
        /\ Working(Root)' => \A w \in Worker : ~Among(w, Ps(Root))' =>
                              Shut(<<w, Root>>)' /\ From(Root, w)' = sent'[w]
        /\ ctx'[Root].closed_rd => Ps(Root)' = <<>> /\ Working(Root)'
      OBVIOUS
    <3>2. p \in Worker /\ <<p, Root>> \in Handles(p) /\ <<p, Root>> \in End
      BY <1>1, <3>1, Unshut, Team, Connections
    <3>3. ~Shut(<<p, Root>>)
      BY <2>3, <3>2
    <3> QED BY <1>1, <1>2, <1>3, <1>5, <2>1, <3>1, <3>3 DEF Ends, Shut, From
  <2>6. type \in {"FANOUT", "BROADCAST"} => \A w \in Worker : ~Shut(<<Root, w>>)
    <3>1. SUFFICES ASSUME type \in {"FANOUT", "BROADCAST"}, NEW w \in Worker
                   PROVE  ~Shut(<<Root, w>>)
      OBVIOUS
    <3>2. p = Root /\ type # "FANIN"
      BY <1>1, <3>1
    <3>3. <<Root, w>> \in Handles(Root)
      BY <1>1, <3>2, Unshut
    <3>4. <<Root, w>> \in End
      BY Connections
    <3> QED BY <2>3, <3>2, <3>3, <3>4
  <2>7. type = "FANOUT" => \A w \in Worker : ~ctx'[w].closed_rd
    BY <1>1, <1>2, <2>1, <2>6 DEF Ends
  <2>8. type = "BROADCAST" => \A w \in Worker : ~At(w, "ended")'
    BY <1>1, <2>1, <2>2, <2>6 DEF Ends, At
  <2>9. type = "GATHER" /\ At(Root, "ended")' => \E w \in Worker : Shut(<<w, Root>>)' /\ sent'[w] = L'
    <3>1. SUFFICES ASSUME type = "GATHER", At(Root, "ended")
                   PROVE  \E w \in Worker : Shut(<<w, Root>>)' /\ sent'[w] = L'
      BY <2>2 DEF At
    <3>2. PICK w \in Worker : Shut(<<w, Root>>) /\ sent[w] = L
      BY <1>1, <2>1, <3>1 DEF Ends
    <3>3. p # Root /\ <<w, Root>> \in End
      BY <1>1, <3>1, Connections
    <3>4. w # p
      <4>1. <<p, Root>> \in End => <<p, Root>> \in Handles(p)
        BY <1>1, <3>1, <3>3, Unshut
      <4> QED BY <2>3, <3>2, <3>3, <4>1
    <3> QED BY <1>1, <1>2, <1>3, <3>2, <3>4 DEF Shut, L, From
  <2> QED BY <1>2, <2>4, <2>5, <2>7, <2>8, <2>9 DEF Ends
<1> QED BY <1>7, <1>8, <1>9, <1>10, <1>11, <1>12 DEF Inv

(* What is written continues the flow of each stream it is written to.     *)
Delivers(E, r) == \A e \in End, m \in Nat : Carries(e) /\ Written(e, m) =>
    IF Peer(e) \in E THEN Fits(r, m, Flow(e)) /\ Written(e, m + Len(r))' ELSE Written(e, m)'

LEMMA SendStreams ==
  ASSUME Inv, NEW p \in Proc, Sending(p), NEW E, E \subseteq Handles(p), NEW r \in Seq(Frame),
         in' = Sent(E, r), Delivers(E, r)
  PROVE  in' \in [End -> Seq(Frame)] /\ Streams'
<1>1. /\ Typed /\ Members /\ Root \in Proc /\ Worker \subseteq Proc
      /\ At(p, "idle") /\ Unsent(p)
      /\ (p = Root <=> type \in {"FANOUT", "BROADCAST"})
      /\ type \in {"BROADCAST", "FANIN", "FANOUT", "GATHER"}
  BY Kept, Kind, Team DEF Sending
<1>2. UNCHANGED <<groupsReady, type, handle, ctx, user, ready, got>>
  BY SendFacts
<1>3. /\ \A x \in Proc : Ps(x)' = Ps(x)
      /\ coll'[Root].probed_idx = coll[Root].probed_idx
      /\ type = "GATHER" => op' = op /\ coll' = coll
      /\ \A x \in Proc : x # p => op'[x] = op[x]
      /\ op' = op \/ (Dead # {} /\ op'[p].pc = "ended")
  BY SendFacts
<1>4. /\ \A x \in Proc : op'[x].pc = op[x].pc \/ (x = p /\ op'[x].pc = "ended" /\ Dead # {})
      /\ \A x \in Proc : At(x, "dead")' <=> At(x, "dead")
  BY <1>1, <1>3 DEF At
<1>5. /\ \A x \in Proc : Working(x)' <=> Working(x)
      /\ Dead' = Dead
      /\ \A w \in Worker : (Known(w)' <=> Known(w)) /\ (Among(w, Ps(Root))' <=> Among(w, Ps(Root)))
  BY <1>1, <1>2, <1>3, <1>4 DEF Working, Dead, Known, Among, At
<1>6. Onward
  BY <1>1, <1>2, <1>4, <1>5 DEF Onward, At, Shut
<1>7. ASSUME NEW e \in End
      PROVE  Flow(e)' = Flow(e) /\ \A b \in Nat : Read(e, b) => Read(e, b)'
  <2>1. Flow(e)' = Flow(e)
    BY <1>1, <1>2, <1>3 DEF Flow, Dealt
  <2>2. e[1] \in Proc /\ e[2] \in Proc
    BY Connections
  <2>3. ASSUME NEW b \in Nat, Read(e, b) PROVE Read(e, b)'
    <3>1. CASE type = "FANIN"
      BY <1>1, <1>2, <1>3, <2>3, <3>1 DEF Read, From, HalfRead
    <3>2. CASE type = "FANOUT"
      BY <1>2, <2>3, <3>2 DEF Read, From
    <3>3. CASE type = "BROADCAST"
      BY <1>2, <2>3, <3>3 DEF Read, From
    <3>4. CASE type = "GATHER"
      BY <1>1, <1>2, <1>3, <2>3, <3>4 DEF Read, L, From, At
    <3> QED BY <1>1, <3>1, <3>2, <3>3, <3>4
  <2> QED BY <2>1, <2>3
<1>8. ASSUME NEW e \in End PROVE in'[e] \in Seq(Frame) /\ Stream(e)'
  <2>1. in[e] \in Seq(Frame) /\ Peer(e) \in End /\ Peer(e)[1] = e[2] /\ e[2] \in Proc
    BY <1>1, EndTypes, Connections
  <2>2. CASE Peer(e) \in E
    <3>1. PICK a \in 0..1, z \in 0..2, b \in Nat, m \in Nat :
            /\ Seg(in[e], a, b, m, z, Flow(e))
            /\ Opening(e, a, b) /\ Ending(e, z)
            /\ IF Carries(e) THEN Read(e, b) /\ Written(e, m) ELSE b = 0 /\ m = 0
      BY DEF Inv, Streams, Stream
    <3>2. e[2] = p
      BY <1>1, <2>1, <2>2, Own
    <3>3. ~Shut(Peer(e)) /\ ~At(p, "dead")
      BY <1>1, <2>1, <2>2, Unshut DEF At
    <3>4. z = 0
      BY <3>1, <3>2, <3>3 DEF Ending
    <3>5. Carries(e)
      BY <1>1, <3>2, Connections DEF Carries
    <3>6. Fits(r, m, Flow(e)) /\ Written(e, m + Len(r))'
      BY <2>2, <3>1, <3>5 DEF Delivers
    <3>7. in'[e] = in[e] \o r
      BY <2>2 DEF Sent
    <3>8. Seg(in[e], a, b, m, 0, Flow(e))
      BY <3>1, <3>4
    <3>9. in'[e] \in Seq(Frame) /\ Len(r) \in Nat /\ Seg(in'[e], a, b, m + Len(r), 0, Flow(e))
      BY <2>1, <3>6, <3>7, <3>8, SegWrite
    <3>10. PICK n \in Nat : n = m + Len(r)
      BY <3>9
    <3>11. Opening(e, a, b)' /\ Ending(e, 0)'
      BY <1>5, <1>6, <3>1, OpeningKept DEF Ending
    <3>12. Seg(in'[e], a, b, n, 0, Flow(e)') /\ Carries(e)' /\ Read(e, b)' /\ Written(e, n)'
      BY <1>2, <1>7, <3>1, <3>5, <3>6, <3>9, <3>10 DEF Carries
    <3> QED BY <3>9, <3>11, <3>12 DEF Stream
  <2>3. CASE Peer(e) \notin E
    <3>1. in'[e] = in[e]
      BY <2>3 DEF Sent
    <3>2. \A m \in Nat : Carries(e) /\ Written(e, m) => Written(e, m)'
      BY <2>3 DEF Delivers
    <3> QED BY <1>5, <1>6, <1>7, <2>1, <3>1, <3>2, StreamKept
  <2> QED BY <2>2, <2>3
<1>9. in' \in [End -> Seq(Frame)]
  <2>1. in' = [e \in End |-> in'[e]]
    BY DEF Sent
  <2> QED BY <1>8, <2>1
<1> QED BY <1>8, <1>9 DEF Streams

LEMMA CountedFits ==
  ASSUME NEW e, NEW s \in Nat, s + 1 \in Value, type \in {"FANIN", "BROADCAST"}
  PROVE  Fits(Message(s + 1), 2 * s, Flow(e))
<1>1. PICK v \in Value : v = s + 1
  OBVIOUS
<1>2. /\ Header(v) \in Frame /\ Body(v) \in Frame /\ Len(Message(v)) = 2
      /\ Message(v)[1] = Header(v) /\ Message(v)[2] = Body(v)
  BY MessageFrames
<1>3. Counted(2 * s + 1, Header(v)) /\ Counted(2 * s + 2, Body(v))
  BY <1>1, CountedAt
<1>4. 2 * s + 1 \in Nat /\ 2 * s + 2 \in Nat
  OBVIOUS
<1>5. <<2 * s + 1, Header(v)>> \in Flow(e) /\ <<2 * s + 2, Body(v)>> \in Flow(e)
  BY <1>2, <1>3, <1>4 DEF Flow
<1> QED BY <1>1, <1>2, <1>5 DEF Fits

LEMMA DealtFits ==
  ASSUME Members, type = "FANOUT", NEW i \in DOMAIN Ps(Root), NEW e, e[1] = Ps(Root)[i],
         NEW q \in Nat, q * N + i \in Value
  PROVE  Fits(Message(q * N + i), 2 * q, Flow(e))
<1>1. PICK v \in Value : v = q * N + i
  OBVIOUS
<1>2. /\ Header(v) \in Frame /\ Body(v) \in Frame /\ Len(Message(v)) = 2
      /\ Message(v)[1] = Header(v) /\ Message(v)[2] = Body(v)
  BY MessageFrames
<1>3. Dealt(e[1], 2 * q + 1, Header(v)) /\ Dealt(e[1], 2 * q + 2, Body(v))
  BY <1>1, DealtAt
<1>4. 2 * q + 1 \in Nat /\ 2 * q + 2 \in Nat
  OBVIOUS
<1>5. <<2 * q + 1, Header(v)>> \in Flow(e) /\ <<2 * q + 2, Body(v)>> \in Flow(e)
  BY <1>2, <1>3, <1>4 DEF Flow
<1>6. \A j \in 1..2 : <<2 * q + j, Message(v)[j]>> \in Flow(e)
  <2>1. \A j \in 1..2 : j = 1 \/ j = 2
    OBVIOUS
  <2> QED BY <1>2, <1>5, <2>1
<1>7. Fits(Message(v), 2 * q, Flow(e))
  BY <1>2, <1>6 DEF Fits
<1> QED BY <1>1, <1>7

LEMMA RankedFits ==
  ASSUME type = "GATHER", NEW w \in Worker, NEW e, e[2] = w, NEW s \in Nat, s + 1 \in Value
  PROVE  LET r == Message(Rank[w]) \o Message(s + 1)
         IN  r \in Seq(Frame) /\ Len(r) = 4 /\ Fits(r, 4 * s, Flow(e))
<1>0. PICK k \in Value : k = Rank[w]
  BY TeamAssumption, Team DEF Value
<1>1. PICK v \in Value : v = s + 1
  OBVIOUS
<1>2. /\ Header(v) \in Frame /\ Body(v) \in Frame /\ Len(Message(v)) = 2
      /\ Message(v) \in Seq(Frame) /\ Message(v)[1] = Header(v) /\ Message(v)[2] = Body(v)
  BY MessageFrames
<1>3. /\ Header(k) \in Frame /\ Body(k) \in Frame /\ Len(Message(k)) = 2
      /\ Message(k) \in Seq(Frame) /\ Message(k)[1] = Header(k) /\ Message(k)[2] = Body(k)
  BY MessageFrames
<1>4. PICK r : r = Message(k) \o Message(v)
  OBVIOUS
<1>5. /\ r \in Seq(Frame) /\ Len(r) = 2 + 2
      /\ \A i \in 1..2 : r[i] = Message(k)[i]
      /\ \A i \in 1..2 : r[2 + i] = Message(v)[i]
  <2>1. PICK x \in Seq(Frame), y \in Seq(Frame) : x = Message(k) /\ y = Message(v)
    BY <1>2, <1>3
  <2>2. r = x \o y
    BY <1>4, <2>1
  <2>3. /\ r \in Seq(Frame) /\ Len(x) \in Nat /\ Len(y) \in Nat /\ Len(r) = Len(x) + Len(y)
        /\ \A i \in 1..Len(x) : r[i] = x[i]
        /\ \A i \in 1..Len(y) : r[Len(x) + i] = y[i]
    BY <2>2, Joined
  <2> QED BY <1>2, <1>3, <2>1, <2>3
<1>6. /\ Len(r) = 4 /\ r[1] = Header(k) /\ r[2] = Body(k) /\ r[2 + 1] = Header(v) /\ r[2 + 2] = Body(v)
  BY <1>2, <1>3, <1>5
<1>7. /\ Ranked(w, 4 * s + 1, Header(k)) /\ Ranked(w, 4 * s + 2, Body(k))
      /\ Ranked(w, 4 * s + 3, Header(v)) /\ Ranked(w, 4 * s + 4, Body(v))
  BY <1>0, <1>1, RankedAt
<1>8. 4 * s + 1 \in Nat /\ 4 * s + 2 \in Nat /\ 4 * s + 3 \in Nat /\ 4 * s + 4 \in Nat
  OBVIOUS
<1>9. /\ <<4 * s + 1, Header(k)>> \in Flow(e) /\ <<4 * s + 2, Body(k)>> \in Flow(e)
      /\ <<4 * s + 3, Header(v)>> \in Flow(e) /\ <<4 * s + 4, Body(v)>> \in Flow(e)
  BY <1>2, <1>3, <1>7, <1>8 DEF Flow
<1>10. ASSUME NEW j \in 1..4 PROVE <<4 * s + j, r[j]>> \in Flow(e)
  <2>1. j = 1 \/ j = 2 \/ j = 3 \/ j = 4
    OBVIOUS
  <2>2. r[3] = Header(v) /\ r[4] = Body(v)
    BY <1>6
  <2> QED BY <1>6, <1>9, <2>1, <2>2
<1> QED BY <1>0, <1>1, <1>4, <1>5, <1>6, <1>10 DEF Fits

(* The next message, or round, has a number.                               *)
LEMMA NextValue ==
  ASSUME Typed, NEW p \in Proc, Unsent(p)
  PROVE  sent[p] \in Nat /\ sent[p] + 1 \in Value
<1>1. sent[p] \in Nat /\ MaxSend \in Nat /\ sent[p] < MaxSend
  BY ProcTypes DEF Unsent
<1> QED BY <1>1 DEF Value

LEMMA SendAllKeeps ==
  ASSUME Inv, NEW p \in Proc, SendAll(p)
  PROVE  Inv'
<1>1. /\ Typed /\ Members /\ Contexts /\ Root \in Proc /\ Worker \subseteq Proc
      /\ type \in {"FANIN", "BROADCAST"} /\ At(p, "idle") /\ Unsent(p)
      /\ in' = Sent(Handles(p), Message(sent[p] + 1)) /\ CountSent(p)
      /\ coll' = coll /\ op' = op
  BY Kept, Team DEF SendAll
<1>2. p = Root <=> type \in {"FANOUT", "BROADCAST"}
  <2>1. (type = "FANIN" /\ ~ctx[p].closed_wr) \/ (type = "BROADCAST" /\ p = Root)
    BY DEF SendAll
  <2>2. type = "FANIN" /\ ~ctx[p].closed_wr => p # Root
    BY <1>1 DEF Contexts, ContextAt, CanSend
  <2> QED BY <1>1, <2>1, <2>2
<1>3. Sending(p)
  BY <1>1, <1>2 DEF Sending, SendAll
<1>4. PICK s \in Nat : s = sent[p] /\ s + 1 \in Value
  BY <1>1, NextValue
<1>5. PICK r : r = Message(s + 1)
  OBVIOUS
<1>8. r \in Seq(Frame) /\ Len(r) = 2
  BY <1>4, <1>5, MessageFrames
<1>6. sent'[p] = s + 1 /\ \A x \in Proc : x # p => sent'[x] = sent[x]
  BY <1>1, <1>4 DEF CountSent, Typed, TypeOK
<1>7. ASSUME NEW e \in End, NEW m \in Nat, Carries(e), Written(e, m)
      PROVE  IF Peer(e) \in Handles(p)
             THEN Fits(r, m, Flow(e)) /\ Written(e, m + Len(r))'
             ELSE Written(e, m)'
  <2>1. /\ Peer(e) \in End /\ e[2] \in Proc /\ Peer(e) = <<e[2], e[1]>>
        /\ e[1] = Root => e[2] \in Worker /\ e[2] # Root
        /\ e[2] = Root => e[1] \in Worker
    BY Connections
  <2>2. CASE type = "FANIN"
    <3>1. e[1] = Root /\ m = 2 * sent[e[2]] /\ p # Root
      BY <1>2, <1>7, <2>2 DEF Carries, Written
    <3>2. Peer(e) \in Handles(p) <=> e[2] = p
      <4>1. Peer(e) \in Handles(p) <=> Peer(e) = <<p, Root>>
        BY <1>1, <2>1, <2>2, <3>1, Unshut
      <4> QED BY <2>1, <3>1, <4>1
    <3>3. CASE e[2] = p
      <4>1. m = 2 * s /\ Fits(r, 2 * s, Flow(e))
        BY <1>1, <1>4, <1>5, <3>1, <3>3, CountedFits
      <4>2. m + Len(r) = 2 * (s + 1)
        BY <1>8, <4>1
      <4>3. Written(e, m + Len(r))'
        BY <1>3, <1>6, <2>2, <3>3, <4>2 DEF Written, Sending
      <4> QED BY <3>2, <3>3, <4>1, <4>3
    <3>4. CASE e[2] # p
      <4>1. Written(e, m)'
        BY <1>3, <1>6, <2>1, <2>2, <3>1, <3>4 DEF Written, Sending
      <4> QED BY <3>2, <3>4, <4>1
    <3> QED BY <3>3, <3>4
  <2>3. CASE type = "BROADCAST"
    <3>1. e[2] = Root /\ p = Root /\ op[Root].pc = "idle"
      BY <1>1, <1>2, <1>7, <2>3 DEF Carries, At
    <3>2. Peer(e) \in Handles(p)
      BY <1>1, <2>1, <2>3, <3>1, Unshut
    <3>3. m = 2 * s
      BY <1>4, <1>7, <2>3, <3>1 DEF Written
    <3>4. Fits(r, m, Flow(e))
      BY <1>1, <1>4, <1>5, <3>3, CountedFits
    <3>5. m + Len(r) = 2 * (s + 1)
      BY <1>8, <3>3
    <3>6. Written(e, m + Len(r))'
      BY <1>3, <1>6, <2>3, <3>1, <3>5 DEF Written, Sending
    <3> QED BY <3>2, <3>4, <3>6
  <2> QED BY <1>1, <2>2, <2>3
<1>9. Delivers(Handles(p), r)
  BY <1>7 DEF Delivers
<1>10. r \in Seq(Frame) /\ in' = Sent(Handles(p), r)
  BY <1>1, <1>4, <1>5, <1>8
<1>11. in' \in [End -> Seq(Frame)] /\ Streams'
  BY <1>3, <1>9, <1>10, SendStreams
<1> QED BY <1>3, <1>11, SendKeeps

LEMMA SendFailsKeeps ==
  ASSUME Inv, NEW p \in Proc, SendFails(p)
  PROVE  Inv'
<1>1. /\ Typed /\ Members /\ Contexts /\ Root \in Proc /\ Worker \subseteq Proc
      /\ type \in {"FANIN", "BROADCAST"} /\ At(p, "idle") /\ Unsent(p)
      /\ Return(p, "ended") /\ coll' = coll /\ sent' = sent
  BY Kept, Team DEF SendFails
<1>2. p = Root <=> type \in {"FANOUT", "BROADCAST"}
  <2>1. (type = "FANIN" /\ ~ctx[p].closed_wr) \/ (type = "BROADCAST" /\ p = Root)
    BY DEF SendFails
  <2>2. type = "FANIN" /\ ~ctx[p].closed_wr => p # Root
    BY <1>1 DEF Contexts, ContextAt, CanSend
  <2> QED BY <1>1, <2>1, <2>2
<1>3. PICK i \in DOMAIN Ps(p) :
        /\ At(Ps(p)[i], "dead")
        /\ in' = Sent({<<p, Ps(p)[j]>> : j \in 1..(i - 1)}, Message(sent[p] + 1))
  BY DEF SendFails, Ps
<1>4. PICK E : E = {<<p, Ps(p)[j]>> : j \in 1..(i - 1)}
  OBVIOUS
<1>5. PICK l \in Nat : DOMAIN Ps(p) = 1..l /\ i \in 1..l
  BY <1>1, ProcTypes, LenProperties
<1>6. E \subseteq Handles(p)
  <2>1. 1..(i - 1) \subseteq DOMAIN Ps(p)
    BY <1>5
  <2> QED BY <1>4, <2>1 DEF Handles, Ps
<1>7. Dead # {}
  <2>1. Ps(p)[i] \in Proc
    BY <1>1, <1>3, ProcTypes, ElementOfSeq, LenProperties
  <2> QED BY <1>3, <2>1 DEF Dead
<1>8. Sending(p)
  BY <1>1, <1>2, <1>7 DEF Sending, SendFails
<1>9. PICK s \in Nat : s = sent[p] /\ s + 1 \in Value
  BY <1>1, NextValue
<1>10. PICK r : r = Message(s + 1)
  OBVIOUS
<1>11. r \in Seq(Frame) /\ Len(r) = 2 /\ in' = Sent(E, r)
  BY <1>3, <1>4, <1>9, <1>10, MessageFrames
<1>12. ASSUME NEW e \in End, NEW m \in Nat, Carries(e), Written(e, m)
       PROVE  IF Peer(e) \in E THEN Fits(r, m, Flow(e)) /\ Written(e, m + Len(r))'
              ELSE Written(e, m)'
  <2>1. CASE type = "FANIN"
    <3>1. p \in Worker /\ Ps(p) \in {<<>>, <<Root>>}
      BY <1>1, <1>2, <2>1, Team DEF Members
    <3>2. i = 1
      BY <1>3, <3>1
    <3>3. E = {}
      BY <1>4, <3>2
    <3>4. Written(e, m)'
      BY <1>1, <1>8, <1>12, <2>1 DEF Written, Sending
    <3> QED BY <3>3, <3>4
  <2>2. CASE type = "BROADCAST"
    <3>1. p = Root /\ op[Root].pc = "idle"
      BY <1>1, <1>2, <2>2 DEF At
    <3>2. m = 2 * s
      BY <1>9, <1>12, <2>2, <3>1 DEF Written
    <3>3. Fits(r, m, Flow(e))
      BY <1>1, <1>9, <1>10, <3>2, CountedFits
    <3>4. op'[Root].pc = "ended" /\ type' = "BROADCAST"
      BY <1>1, <1>8, <2>2, <3>1, Returned DEF Sending
    <3>5. \A j \in Nat : Written(e, 2 * j)'
      BY <3>4 DEF Written
    <3>6. m + Len(r) = 2 * (s + 1) /\ s + 1 \in Nat
      BY <1>11, <3>2
    <3>7. Written(e, m + Len(r))' /\ Written(e, m)'
      BY <3>2, <3>5, <3>6
    <3> QED BY <3>3, <3>7
  <2> QED BY <1>1, <2>1, <2>2
<1>13. Delivers(E, r)
  BY <1>12 DEF Delivers
<1>14. in' \in [End -> Seq(Frame)] /\ Streams'
  BY <1>6, <1>8, <1>11, <1>13, SendStreams
<1> QED BY <1>8, <1>14, SendKeeps

(* The next participant's turn.                                            *)
LEMMA NextTurn ==
  ASSUME NEW n \in Nat, NEW c \in 1..n, NEW d, d = Due(c, n)
  PROVE  d = IF c < n THEN c + 1 ELSE 1
<1>1. CASE c < n
  <2>1. c % n = c
    BY <1>1
  <2> QED BY <1>1, <2>1 DEF Due
<1>2. CASE c = n
  <2>1. c % n = 0
    BY <1>2
  <2> QED BY <1>2, <2>1 DEF Due
<1> QED BY <1>1, <1>2

LEMMA SendOneKeeps ==
  ASSUME Inv, NEW p \in Proc, SendOne(p)
  PROVE  Inv'
<1>1. /\ Typed /\ Members /\ Contexts /\ Values /\ Root \in Proc /\ Worker \subseteq Proc
      /\ type = "FANOUT" /\ At(p, "idle") /\ Unsent(p) /\ ~ctx[p].closed_wr
      /\ op' = op /\ CountSent(p) /\ type' = type
  BY Kept, Team DEF SendOne
<1>2. p = Root
  BY <1>1 DEF Contexts, ContextAt, CanSend
<1>3. PICK c \in 1..N : c = coll[Root].current
  BY <1>1 DEF Values
<1>4. PICK l \in Nat : l = N /\ l >= 1
  BY Team
<1>5. DOMAIN Ps(Root) = 1..l /\ Len(Ps(Root)) = l /\ Ps(Root) # <<>>
  <2>1. \A w \in Worker : Among(w, Ps(Root))
    BY <1>1, <1>2 DEF Members, Working, At
  <2>2. Worker # {}
    BY TeamAssumption
  <2>3. Ps(Root) # <<>>
    BY <2>1, <2>2 DEF Among
  <2>4. Len(Ps(Root)) = N /\ Ps(Root) \in Seq(Worker)
    BY <1>1, <2>3 DEF Members
  <2> QED BY <1>4, <2>3, <2>4, LenProperties
<1>6. PICK d : d = Due(c, l)
  OBVIOUS
<1>7. ASSUME NEW q \in Nat, NEW i \in 1..l
      PROVE  /\ d \in 1..l
             /\ \E k \in Nat : /\ q * l + c = k * l + d - 1
                               /\ k + (IF i < d THEN 1 ELSE 0) = q + (IF i <= c THEN 1 ELSE 0)
  <2>1. c \in 1..l
    BY <1>4
  <2>2. d = IF c < l THEN c + 1 ELSE 1
    BY <1>6, <2>1, NextTurn
  <2>3. CASE c < l
    <3>1. d = c + 1 /\ q * l + c = q * l + d - 1
      BY <2>2, <2>3
    <3> QED BY <2>3, <3>1
  <2>4. CASE c = l
    <3>1. d = 1 /\ q * l + c = (q + 1) * l + d - 1
      BY <2>2, <2>4
    <3>2. (q + 1) + (IF i < d THEN 1 ELSE 0) = q + (IF i <= c THEN 1 ELSE 0)
      BY <2>4, <3>1
    <3> QED BY <1>4, <3>1, <3>2
  <2> QED BY <2>1, <2>3, <2>4
<1>8. d \in 1..N
  BY <1>3, <1>4, <1>7
<1>9. coll' = [coll EXCEPT ![p].current = d]
  BY <1>2, <1>3, <1>5, <1>6 DEF SendOne, Ps
<1>10. Sending(p)
  BY <1>1, <1>2, <1>8, <1>9 DEF Sending, SendOne
<1>11. PICK s \in Nat : s = sent[p] /\ s + 1 \in Value
  BY <1>1, NextValue
<1>12. PICK E : E = {<<p, Ps(p)[c]>>}
  OBVIOUS
<1>13. E \subseteq Handles(p)
  BY <1>2, <1>3, <1>4, <1>5, <1>12 DEF Handles, Ps
<1>14. PICK r : r = Message(s + 1)
  OBVIOUS
<1>15. r \in Seq(Frame) /\ Len(r) = 2 /\ in' = Sent(E, r)
  BY <1>2, <1>3, <1>11, <1>12, <1>14, MessageFrames DEF SendOne, Ps
<1>16. sent'[Root] = s + 1 /\ coll'[Root].current = d /\ Ps(Root)' = Ps(Root)
  <2>1. sent'[Root] = s + 1
    BY <1>1, <1>2, <1>11 DEF CountSent, Typed, TypeOK
  <2>2. coll \in [Proc -> Impl] /\ coll[Root] \in Impl
    BY <1>1 DEF Typed, TypeOK
  <2>3. PICK x : x = [coll[Root] EXCEPT !.current = d]
    OBVIOUS
  <2>4. x.current = d
    BY <2>2, <2>3 DEF Impl
  <2>5. coll' = [coll EXCEPT ![Root] = x]
    BY <1>2, <1>9, <2>3
  <2> QED BY <1>1, <1>10, <2>1, <2>2, <2>4, <2>5, SendFacts
<1>17. ASSUME NEW e \in End, NEW m \in Nat, Carries(e), Written(e, m)
       PROVE  IF Peer(e) \in E THEN Fits(r, m, Flow(e)) /\ Written(e, m + Len(r))'
              ELSE Written(e, m)'
  <2>1. /\ e[2] = Root /\ Peer(e) = <<Root, e[1]>> /\ e[1] \in Worker
    <3>1. e[2] = Root
      BY <1>1, <1>17 DEF Carries
    <3> QED BY <3>1, Connections
  <2>2. Among(e[1], Ps(Root))
    BY <1>1, <1>2, <2>1 DEF Members, Working, At
  <2>3. PICK i \in 1..l : Ps(Root)[i] = e[1]
    BY <1>5, <2>2 DEF Among
  <2>4. \A k \in 1..l : Ps(Root)[k] = e[1] => k = i
    BY <1>1, <1>5, <2>3 DEF Members, IsInjective
  <2>5. PICK q \in Nat : s = q * N + c - 1 /\ m = 2 * (q + One(i < c))
    BY <1>1, <1>2, <1>3, <1>5, <1>11, <1>17, <2>3 DEF Written
  <2>6. PICK k \in Nat : /\ q * l + c = k * l + d - 1
                         /\ k + (IF i < d THEN 1 ELSE 0) = q + (IF i <= c THEN 1 ELSE 0)
    BY <1>7
  <2>7. s + 1 = q * l + c /\ s + 1 = k * N + d - 1
    <3>1. PICK t \in Nat : t = q * l
      BY <1>4
    <3> QED BY <1>3, <1>4, <2>5, <2>6, <3>1
  <2>8. Peer(e) \in E <=> i = c
    <3>1. Peer(e) \in E <=> e[1] = Ps(Root)[c]
      BY <1>2, <1>12, <2>1
    <3> QED BY <1>3, <1>4, <2>3, <2>4, <3>1
  <2>9. \A n : n = 2 * (k + One(i < d)) => Written(e, n)'
    <3>1. SUFFICES ASSUME NEW n, n = 2 * (k + One(i < d)) PROVE Written(e, n)'
      OBVIOUS
    <3>2. \A j \in 1..l : Ps(Root)[j] = e[1] => sent'[Root] = k * N + d - 1 /\ n = 2 * (k + One(j < d))
      BY <1>16, <2>4, <2>7, <3>1
    <3> QED BY <1>1, <1>5, <1>16, <3>2 DEF Written
  <2>10. /\ One(i < c) \in 0..1 /\ One(i < d) \in 0..1
         /\ i = c => One(i < c) = 0 /\ k + One(i < d) = q + 1
         /\ i # c => k + One(i < d) = q + One(i < c)
    BY <2>6 DEF One
  <2>11. CASE i = c
    <3>2. m = 2 * q /\ m + Len(r) = 2 * (k + One(i < d))
      BY <1>15, <2>5, <2>10, <2>11
    <3>3. Written(e, m + Len(r))'
      BY <2>9, <3>2
    <3>4. s + 1 = q * N + i /\ i \in DOMAIN Ps(Root)
      BY <1>4, <1>5, <2>7, <2>11
    <3>5. Fits(r, 2 * q, Flow(e))
      BY <1>1, <1>11, <1>14, <2>3, <3>4, DealtFits
    <3> QED BY <2>8, <2>11, <3>2, <3>3, <3>5
  <2>12. CASE i # c
    <3>2. m = 2 * (k + One(i < d))
      BY <2>5, <2>10, <2>12
    <3>3. Written(e, m)'
      BY <2>9, <3>2
    <3> QED BY <2>8, <2>12, <3>3
  <2> QED BY <2>11, <2>12
<1>18. Delivers(E, r)
  BY <1>17 DEF Delivers
<1>19. in' \in [End -> Seq(Frame)] /\ Streams'
  BY <1>10, <1>13, <1>15, <1>18, SendStreams
<1> QED BY <1>10, <1>19, SendKeeps

LEMMA SendRankedKeeps ==
  ASSUME Inv, NEW p \in Proc, SendRanked(p)
  PROVE  Inv'
<1>1. /\ Typed /\ Members /\ p \in Worker /\ Worker \subseteq Proc
      /\ type = "GATHER" /\ At(p, "idle") /\ Unsent(p) /\ p # Root
      /\ op' = op /\ coll' = coll /\ CountSent(p) /\ type' = type
  BY Kept, Team DEF SendRanked
<1>2. Sending(p)
  BY <1>1 DEF Sending, SendRanked
<1>3. PICK s \in Nat : s = sent[p] /\ s + 1 \in Value
  BY <1>1, NextValue
<1>4. PICK r : r = Message(Rank[p]) \o Message(s + 1)
  OBVIOUS
<1>5. in' = Sent(Handles(p), r)
  BY <1>3, <1>4 DEF SendRanked
<1>6. r \in Seq(Frame) /\ Len(r) = 4 /\ \A e \in End : e[2] = p => Fits(r, 4 * s, Flow(e))
  <2>1. ASSUME NEW e, e[2] = p PROVE r \in Seq(Frame) /\ Len(r) = 4 /\ Fits(r, 4 * s, Flow(e))
    BY <1>1, <1>3, <1>4, <2>1, RankedFits
  <2>2. <<Root, p>>[2] = p
    OBVIOUS
  <2> QED BY <2>1, <2>2
<1>7. sent'[p] = s + 1 /\ \A x \in Proc : x # p => sent'[x] = sent[x]
  BY <1>1, <1>3 DEF CountSent, Typed, TypeOK
<1>8. ASSUME NEW e \in End, NEW m \in Nat, Carries(e), Written(e, m)
      PROVE  IF Peer(e) \in Handles(p) THEN Fits(r, m, Flow(e)) /\ Written(e, m + Len(r))'
             ELSE Written(e, m)'
  <2>1. e[1] = Root /\ m = 4 * sent[e[2]]
    BY <1>1, <1>8 DEF Carries, Written
  <2>2. /\ Peer(e) \in End /\ Peer(e) = <<e[2], Root>> /\ e[2] \in Worker
    BY <2>1, Connections
  <2>3. Peer(e) \in Handles(p) <=> e[2] = p
    <3>1. Peer(e) \in Handles(p) <=> Peer(e) = <<p, Root>>
      BY <1>1, <2>2, Unshut
    <3> QED BY <2>2, <3>1
  <2>4. CASE e[2] = p
    <3>1. m = 4 * s /\ Fits(r, m, Flow(e))
      BY <1>3, <1>6, <2>1, <2>4
    <3>2. m + Len(r) = 4 * (s + 1)
      BY <1>6, <3>1
    <3>3. Written(e, m + Len(r))'
      BY <1>1, <1>7, <2>4, <3>2 DEF Written
    <3> QED BY <2>3, <2>4, <3>1, <3>3
  <2>5. CASE e[2] # p
    <3>1. Written(e, m)'
      BY <1>1, <1>7, <2>1, <2>2, <2>5 DEF Written
    <3> QED BY <2>3, <2>5, <3>1
  <2> QED BY <2>4, <2>5
<1>9. Delivers(Handles(p), r)
  BY <1>8 DEF Delivers
<1>10. in' \in [End -> Seq(Frame)] /\ Streams'
  BY <1>1, <1>2, <1>5, <1>6, <1>9, SendStreams
<1> QED BY <1>1, <1>2, <1>10, SendKeeps

(***************************************************************************)
(* Receiving.                                                              *)
(***************************************************************************)

(* What a process reads from a participant it knows: no handshake.         *)
LEMMA Incoming ==
  ASSUME Inv, NEW e \in End, e[1] # Root \/ Among(e[2], Ps(Root))
  PROVE  \E z \in 0..2, b \in Nat, m \in Nat :
           /\ Seg(in[e], 0, b, m, z, Flow(e)) /\ Ending(e, z)
           /\ IF Carries(e) THEN Read(e, b) /\ Written(e, m) ELSE b = 0 /\ m = 0
<1>1. PICK a \in 0..1, z \in 0..2, b \in Nat, m \in Nat :
        /\ Seg(in[e], a, b, m, z, Flow(e))
        /\ Opening(e, a, b) /\ Ending(e, z)
        /\ IF Carries(e) THEN Read(e, b) /\ Written(e, m) ELSE b = 0 /\ m = 0
  BY DEF Inv, Streams, Stream
<1>2. a = 0
  BY <1>1 DEF Opening
<1> QED BY <1>1, <1>2

(* The value a frame carries.                                              *)
LEMMA FrameValue ==
  ASSUME NEW f \in Frame
  PROVE  f.v \in Value /\ f.t \in {"hdr", "body", "team", "eos", "fin"}
<1>1. 0 \in Value
  BY Team, TeamAssumption DEF Value
<1> QED BY <1>1 DEF Frame

LEMMA TakenData ==
  ASSUME Typed, NEW e \in End, NEW n \in 1..2, in' = Taken(e, n), in[e][1] # FIN
  PROVE  /\ in'[e] = SubSeq(in[e], n + 1, Len(in[e]))
         /\ \A d \in End : d # e => in'[d] = in[d]
         /\ in' = [d \in End |-> in'[d]]
<1>1. in' = [in EXCEPT ![e] = IF in[e][1] = FIN THEN in[e] ELSE SubSeq(in[e], n + 1, Len(in[e]))]
  BY DEF Taken
<1> QED BY <1>1 DEF Typed, TypeOK

LEMMA TakeStream ==
  ASSUME Typed, Onward, NEW e \in End, NEW n \in 1..2,
         in'[e] = SubSeq(in[e], n + 1, Len(in[e])),
         NEW z \in 0..2, NEW b \in Nat, NEW m \in Nat,
         Seg(in[e], 0, b, m, z, Flow(e)), b + n <= m, Ending(e, z),
         Flow(e)' = Flow(e), Carries(e), Read(e, b + n)', Written(e, m)'
  PROVE  in'[e] \in Seq(Frame) /\ Stream(e)'
<1>1. PICK s \in Seq(Frame) : s = in[e]
  BY EndTypes
<1>2. PICK t : t = in'[e]
  OBVIOUS
<1>3. Seg(s, 0, b, m, z, Flow(e)) /\ t = SubSeq(s, n + 1, Len(s))
  BY <1>1, <1>2
<1>4. t \in Seq(Frame) /\ Seg(t, 0, b + n, m, z, Flow(e))
  BY <1>3, SegTake
<1>5. PICK k \in Nat : k = b + n
  OBVIOUS
<1>6. Seg(in'[e], 0, k, m, z, Flow(e)') /\ Read(e, k)' /\ Opening(e, 0, k)'
  BY <1>2, <1>4, <1>5 DEF Opening
<1>7. Ending(e, z)' /\ Carries(e)'
  BY EndingKept DEF Onward, Carries
<1> QED BY <1>2, <1>4, <1>6, <1>7 DEF Stream

(* A value is received.                                                    *)
LEMMA GotMore ==
  ASSUME Typed, NEW p \in Proc, NEW q \in Proc, NEW v \in Results,
         got' = [got EXCEPT ![p][q] = Append(@, v)]
  PROVE  /\ got' \in [Proc -> [Proc -> Seq(Results)]]
         /\ got'[p][q] = Append(got[p][q], v) /\ From(p, q) \in Nat /\ From(p, q)' = From(p, q) + 1
         /\ DOMAIN got[p][q] = 1..From(p, q) /\ DOMAIN got'[p][q] = 1..(From(p, q) + 1)
         /\ \A k \in 1..From(p, q) : got'[p][q][k] = got[p][q][k]
         /\ got'[p][q][From(p, q) + 1] = v
         /\ \A x \in Proc, y \in Proc : x # p \/ y # q => got'[x][y] = got[x][y] /\ From(x, y)' = From(x, y)
<1>1. PICK s \in Seq(Results) : s = got[p][q]
  BY GotTypes
<1>2. PICK t : t = Append(s, v)
  OBVIOUS
<1>3. /\ t \in Seq(Results) /\ Len(s) \in Nat /\ Len(t) = Len(s) + 1
      /\ \A i \in 1..Len(s) : t[i] = s[i]
      /\ t[Len(s) + 1] = v
  BY <1>2, Appended
<1>4. got \in [Proc -> [Proc -> Seq(Results)]]
  BY DEF Typed
<1>5. got' = [got EXCEPT ![p] = [got[p] EXCEPT ![q] = t]]
  BY <1>1, <1>2
<1>6. [got[p] EXCEPT ![q] = t] \in [Proc -> Seq(Results)]
  BY <1>3, <1>4
<1>7. /\ got' \in [Proc -> [Proc -> Seq(Results)]] /\ got'[p][q] = t
      /\ \A x \in Proc, y \in Proc : x # p \/ y # q => got'[x][y] = got[x][y]
  BY <1>4, <1>5, <1>6
<1>8. DOMAIN s = 1..Len(s) /\ DOMAIN t = 1..(Len(s) + 1)
  BY <1>3, LenProperties
<1> QED BY <1>1, <1>2, <1>3, <1>7, <1>8 DEF From

(* A collective context that may be received from.                         *)
LEMMA Receiving ==
  ASSUME Inv, NEW p \in Proc, ~ctx[p].closed_rd, At(p, "idle")
  PROVE  /\ (type = "FANIN" /\ p = Root) \/ (type = "FANOUT" /\ p # Root)
         /\ type = "FANOUT" => p \in Worker /\ Ps(p) = <<Root>>
<1>1. CanReceive(type, p) /\ Members
  BY Kept DEF Contexts, ContextAt
<1>2. (type = "FANIN" /\ p = Root) \/ (type = "FANOUT" /\ p # Root)
  BY <1>1 DEF CanReceive
<1>3. type = "FANOUT" => p \in Worker /\ Ps(p) = <<Root>>
  BY <1>1, <1>2, Team DEF Members, Working, At
<1> QED BY <1>2, <1>3

(* A worker of a fan-out finds its position among the participants, once   *)
(* something has been written to it.                                       *)
LEMMA Position ==
  ASSUME Typed, Members, type = "FANOUT", NEW e \in End, e[2] = Root,
         NEW m \in Nat, Written(e, m), m > 0
  PROVE  \E i \in DOMAIN Ps(Root) : Ps(Root)[i] = e[1] /\
           \E q \in Nat : sent[Root] = q * N + coll[Root].current - 1
                          /\ m = 2 * (q + One(i < coll[Root].current))
<1>1. Ps(Root) # <<>>
  BY DEF Written
<1>2. Ps(Root) \in Seq(Worker) /\ IsInjective(Ps(Root)) /\ Len(Ps(Root)) = N
  BY <1>1 DEF Members
<1>3. e[1] \in Worker
  BY Connections
<1>4. Among(e[1], Ps(Root))
  BY <1>2, <1>3, AllListed
<1> QED BY <1>4 DEF Among, Written

(* The body of a message that has been probed.                             *)
LEMMA ReceiveKeeps ==
  ASSUME Inv, NEW p \in Proc, Receive(p)
  PROVE  Inv'
<1>1. /\ Typed /\ Members /\ Contexts /\ HandlesKept /\ Streams /\ Values /\ Ends
      /\ Root \in Proc /\ Worker \subseteq Proc
      /\ op[p].pc = "idle" /\ ctx[p].probed = "msg" /\ ~ctx[p].closed_rd
      /\ (type = "FANIN" /\ p = Root) \/ (type = "FANOUT" /\ p # Root)
      /\ type = "FANOUT" => p \in Worker /\ Ps(p) = <<Root>>
  <2>1. At(p, "idle") /\ ctx[p].probed = "msg" /\ ~ctx[p].closed_rd
    BY DEF Receive
  <2> QED BY <2>1, Kept, Team, Receiving DEF At
<1>2. UNCHANGED <<groupsReady, type, handle, user, ready, op, sent>>
  BY DEF Receive
<1>3. PICK e : e = <<p, Ps(p)[ProbedAt(p)]>>
  OBVIOUS
<1>4. /\ in[e] # <<>> /\ got' = [got EXCEPT ![p][e[2]] = Append(@, in[e][1].v)]
      /\ in' = Taken(e, 1) /\ ctx' = [ctx EXCEPT ![p].probed = "no"]
      /\ coll' = [coll EXCEPT ![p].probed_idx = 0]
  BY <1>3 DEF Receive, Ps
<1>5. /\ e \in End /\ e[1] = p /\ Carries(e) /\ (e[1] # Root \/ Among(e[2], Ps(Root)))
      /\ type = "FANIN" => e[2] \in Worker /\ HalfRead(e[2]) /\ \A w \in Worker : HalfRead(w) => w = e[2]
      /\ type = "FANOUT" => e[2] = Root
  <2>1. CASE type = "FANIN"
    <3>1. p = Root /\ ProbedAt(p) = coll[Root].probed_idx
      BY <1>1, <2>1 DEF ProbedAt
    <3>2. ProbedAt(p) \in DOMAIN Ps(Root)
      BY <1>1, <2>1, <3>1 DEF Contexts
    <3>3. Ps(Root)[ProbedAt(p)] \in Worker
      BY <1>1, <3>2, ElementOfSeq, LenProperties DEF Members
    <3> QED BY <1>1, <1>3, <2>1, <3>1, <3>2, <3>3, Connections DEF Carries, Among, HalfRead
  <2>2. CASE type = "FANOUT"
    <3>1. p # Root /\ p \in Worker /\ Ps(p) = <<Root>> /\ ProbedAt(p) = 1
      BY <1>1, <2>2 DEF ProbedAt
    <3>2. e = <<p, Root>>
      BY <1>3, <3>1
    <3> QED BY <2>2, <3>1, <3>2, Connections DEF Carries
  <2> QED BY <1>1, <2>1, <2>2
<1>6. PICK q \in Proc : q = e[2]
  BY <1>5, Connections
<1>7. PICK z \in 0..2, b \in Nat, m \in Nat :
        Seg(in[e], 0, b, m, z, Flow(e)) /\ Ending(e, z) /\ Read(e, b) /\ Written(e, m)
  <2>1. \E z \in 0..2, b \in Nat, m \in Nat :
           /\ Seg(in[e], 0, b, m, z, Flow(e)) /\ Ending(e, z)
           /\ IF Carries(e) THEN Read(e, b) /\ Written(e, m) ELSE b = 0 /\ m = 0
    BY <1>5, Incoming
  <2> QED BY <1>5, <2>1
<1>8. From(p, q) \in Nat /\ b = 2 * From(p, q) + 1
  <2>1. From(p, q) \in Nat
    BY <1>1, GotTypes
  <2>2. type = "FANIN" => b = 2 * From(p, q) + 1
    BY <1>1, <1>5, <1>6, <1>7 DEF Read, One
  <2>3. type = "FANOUT" => b = 2 * From(p, q) + 1
    BY <1>1, <1>5, <1>6, <1>7 DEF Read, One
  <2> QED BY <1>1, <2>1, <2>2, <2>3
<1>9. \E j \in Nat : m = 2 * j
  <2>1. CASE type = "FANIN"
    <3>1. e[2] \in Proc /\ m = 2 * sent[e[2]]
      BY <1>6, <1>7, <2>1 DEF Written
    <3> QED BY <1>1, <3>1, ProcTypes
  <2>2. CASE type = "FANOUT"
    <3>1. m > 0
      BY <1>7, <1>8 DEF Seg
    <3>2. PICK i \in DOMAIN Ps(Root) : Ps(Root)[i] = e[1] /\
           \E n \in Nat : sent[Root] = n * N + coll[Root].current - 1
                          /\ m = 2 * (n + One(i < coll[Root].current))
      BY <1>1, <1>5, <1>7, <2>2, <3>1, Position
    <3>3. PICK n \in Nat : m = 2 * (n + One(i < coll[Root].current))
      BY <3>2
    <3>4. PICK o \in 0..1 : o = One(i < coll[Root].current)
      BY DEF One
    <3>5. n + o \in Nat /\ m = 2 * (n + o)
      BY <3>3, <3>4
    <3> QED BY <3>5
  <2> QED BY <1>1, <2>1, <2>2
<1>10. PICK f \in Frame : f = in[e][1] /\ b < m /\ <<b + 1, f>> \in Flow(e)
  <2>1. PICK s \in Seq(Frame) : s = in[e] /\ s # <<>>
    BY <1>1, <1>4, <1>5, EndTypes
  <2>0. PICK F : F = Flow(e)
    OBVIOUS
  <2>2. Seg(s, 0, b, m, z, F)
    BY <1>7, <2>0, <2>1
  <2>5. s # <<>>
    BY <2>1
  <2>3. /\ Len(s) \in Nat /\ Len(s) >= 1 /\ s[1] \in Frame
        /\ \/ b < m /\ <<b + 1, s[1]>> \in F
           \/ b = m /\ z = 2 /\ s[1] = EOS /\ Len(s) = 2
           \/ b = m /\ z = 1 /\ s[1] = FIN /\ Len(s) = 1
    BY <2>2, <2>5, SegHead
  <2>4. b # m
    BY <1>8, <1>9
  <2> QED BY <2>0, <2>1, <2>3, <2>4
<1>11. f # FIN /\ f.v \in Value /\ f.v \in Results
  <2>1. f # FIN
    BY <1>1, <1>10, InFlow DEF Typed, TypeOK
  <2> QED BY <1>1, <2>1, FrameValue DEF Results
<1>12. /\ type = "FANIN" => f.v = From(p, q) + 1
       /\ type = "FANOUT" => \E i \in DOMAIN Ps(Root) : Ps(Root)[i] = p /\ f.v = From(p, q) * N + i
  <2>1. PICK j \in Nat : j = From(p, q) /\ b + 1 = 2 * j + 2
    BY <1>8
  <2>2. CASE type = "FANIN"
    <3>1. Counted(2 * j + 2, f)
      BY <1>10, <2>1, <2>2 DEF Flow
    <3>2. f = Body(j + 1)
      BY <3>1, CountedAt
    <3> QED BY <2>1, <2>2, <3>2, Kinds
  <2>3. CASE type = "FANOUT"
    <3>1. Dealt(p, 2 * j + 2, f)
      BY <1>5, <1>10, <2>1, <2>3 DEF Flow
    <3>2. PICK i \in DOMAIN Ps(Root) : Ps(Root)[i] = p
      BY <3>1 DEF Dealt
    <3>3. f = Body(j * N + i)
      BY <1>1, <3>1, <3>2, DealtAt
    <3> QED BY <2>1, <2>3, <3>2, <3>3, Kinds
  <2> QED BY <1>1, <2>2, <2>3
<1>13. /\ got' \in [Proc -> [Proc -> Seq(Results)]]
       /\ From(p, q)' = From(p, q) + 1
       /\ DOMAIN got[p][q] = 1..From(p, q) /\ DOMAIN got'[p][q] = 1..(From(p, q) + 1)
       /\ \A k \in 1..From(p, q) : got'[p][q][k] = got[p][q][k]
       /\ got'[p][q][From(p, q) + 1] = f.v
       /\ \A x \in Proc, y \in Proc : x # p \/ y # q => got'[x][y] = got[x][y] /\ From(x, y)' = From(x, y)
  <2>1. got' = [got EXCEPT ![p][q] = Append(@, f.v)]
    BY <1>4, <1>6, <1>10
  <2>2. PICK v \in Results : v = f.v
    BY <1>11
  <2>4. Typed
    BY <1>1
  <2>5. got' = [got EXCEPT ![p][q] = Append(@, v)]
    BY <2>1, <2>2
  <2>3. /\ got' \in [Proc -> [Proc -> Seq(Results)]]
        /\ got'[p][q] = Append(got[p][q], v) /\ From(p, q) \in Nat /\ From(p, q)' = From(p, q) + 1
        /\ DOMAIN got[p][q] = 1..From(p, q) /\ DOMAIN got'[p][q] = 1..(From(p, q) + 1)
        /\ \A k \in 1..From(p, q) : got'[p][q][k] = got[p][q][k]
        /\ got'[p][q][From(p, q) + 1] = v
        /\ \A x \in Proc, y \in Proc : x # p \/ y # q => got'[x][y] = got[x][y] /\ From(x, y)' = From(x, y)
    BY <2>4, <2>5, GotMore
  <2> QED BY <2>2, <2>3
<1>14. /\ in'[e] = SubSeq(in[e], 1 + 1, Len(in[e]))
       /\ \A d \in End : d # e => in'[d] = in[d]
       /\ in' = [d \in End |-> in'[d]]
  <2>1. PICK n \in 1..2 : n = 1
    OBVIOUS
  <2>2. /\ in'[e] = SubSeq(in[e], n + 1, Len(in[e]))
        /\ \A d \in End : d # e => in'[d] = in[d]
        /\ in' = [d \in End |-> in'[d]]
    <3>1. in' = Taken(e, n) /\ in[e][1] # FIN
      BY <1>4, <1>10, <1>11, <2>1
    <3> QED BY <1>1, <1>5, <3>1, TakenData
  <2> QED BY <2>1, <2>2
<1>15. /\ ctx' \in [Proc -> Context] /\ \A x \in Proc : x # p => ctx'[x] = ctx[x]
       /\ ctx'[p].probed = "no" /\ ctx'[p].closed_rd = ctx[p].closed_rd
       /\ ctx'[p].toManage = ctx[p].toManage /\ ctx'[p].closed_wr = ctx[p].closed_wr
  <2>1. PICK r : r = [ctx[p] EXCEPT !.probed = "no"]
    OBVIOUS
  <2>2. ctx[p] \in Context
    BY <1>1, ProcTypes
  <2>3. /\ r \in Context /\ r.closed_wr = ctx[p].closed_wr /\ r.probed = "no"
        /\ r.closed_rd = ctx[p].closed_rd /\ r.toManage = ctx[p].toManage
    BY <2>1, <2>2 DEF Context
  <2>4. ctx' = [ctx EXCEPT ![p] = r]
    BY <1>4, <2>1
  <2> QED BY <1>1, <2>3, <2>4 DEF Typed, TypeOK
<1>16. /\ coll' \in [Proc -> Impl] /\ \A x \in Proc : x # p => coll'[x] = coll[x]
       /\ \A x \in Proc : Ps(x)' = Ps(x) /\ coll'[x].current = coll[x].current
  <2>1. PICK r : r = [coll[p] EXCEPT !.probed_idx = 0]
    OBVIOUS
  <2>2. coll[p] \in Impl
    BY <1>1, ProcTypes
  <2>3. r \in Impl /\ r.participants = coll[p].participants /\ r.current = coll[p].current
    BY <2>1, <2>2 DEF Impl
  <2>4. coll' = [coll EXCEPT ![p] = r]
    BY <1>4, <2>1
  <2> QED BY <1>1, <2>3, <2>4 DEF Typed, TypeOK, Ps
<1>17. Onward
  <2>1. \A x \in Proc : ctx'[x].closed_rd = ctx[x].closed_rd
    BY <1>15
  <2>2. Ps(Root)' = Ps(Root)
    BY <1>1, <1>16
  <2> QED BY <1>2, <2>1, <2>2 DEF Onward, At, Working, Dead, Among, Shut
<1>18. (\A w \in Worker : Known(w)' <=> Known(w)) /\ Dead' = Dead
  BY <1>1, <1>2, <1>16 DEF Known, Among, Dead, At
<1>19. ASSUME NEW d \in End
       PROVE  /\ Flow(d)' = Flow(d)
              /\ \A n \in Nat : Written(d, n) => Written(d, n)'
  <2>1. Flow(d)' = Flow(d)
    BY <1>1, <1>2, <1>16 DEF Flow, Dealt
  <2>2. type \in {"FANIN", "FANOUT"} /\ Ps(Root)' = Ps(Root) /\ coll'[Root].current = coll[Root].current
    BY <1>1, <1>16
  <2> QED BY <1>2, <2>1, <2>2 DEF Written
<1>20. ASSUME NEW d \in End PROVE in'[d] \in Seq(Frame) /\ Stream(d)'
  <2>1. CASE d = e
    <3>1. Read(e, b + 1)'
      <4>1. b + 1 = 2 * (From(p, q) + 1)
        BY <1>8
      <4>2. CASE type = "FANIN"
        <5>1. ~HalfRead(e[2])' /\ type' = "FANIN"
          BY <1>1, <1>2, <1>15, <4>2 DEF HalfRead
        <5>2. One(HalfRead(e[2]))' = 0
          BY <5>1 DEF One
        <5> QED BY <1>1, <1>6, <1>8, <1>13, <4>1, <4>2, <5>1, <5>2 DEF Read
      <4>3. CASE type = "FANOUT"
        <5>1. ctx'[p].probed # "msg" /\ type' = "FANOUT" /\ q = Root
          BY <1>2, <1>5, <1>6, <1>15, <4>3
        <5>2. One(ctx[p].probed = "msg")' = 0
          BY <5>1 DEF One
        <5> QED BY <1>5, <1>8, <1>13, <4>1, <5>1, <5>2 DEF Read
      <4> QED BY <1>1, <4>2, <4>3
    <3>2. PICK n \in 1..2 : n = 1
      OBVIOUS
    <3>3. /\ in'[e] = SubSeq(in[e], n + 1, Len(in[e])) /\ b + n <= m /\ Read(e, b + n)'
      BY <1>10, <1>14, <3>1, <3>2
    <3>4. Flow(e)' = Flow(e) /\ Written(e, m)'
      BY <1>5, <1>7, <1>19
    <3> QED BY <1>1, <1>5, <1>7, <1>17, <2>1, <3>3, <3>4, TakeStream
  <2>2. CASE d # e
    <3>1. in'[d] = in[d] /\ in[d] \in Seq(Frame)
      BY <1>1, <1>14, <2>2, EndTypes
    <3>2. ASSUME NEW n \in Nat, Carries(d), Read(d, n) PROVE Read(d, n)'
      <4>1. d[1] \in Proc /\ d[2] \in Proc /\ d = <<d[1], d[2]>> /\ e = <<e[1], e[2]>>
        BY <1>5, Connections
      <4>2. CASE type = "FANIN"
        <5>1. d[1] = Root /\ d[2] \in Worker /\ d[2] # q /\ p = Root
          BY <1>1, <1>5, <1>6, <2>2, <3>2, <4>1, <4>2, Connections DEF Carries
        <5>2. ~HalfRead(d[2]) /\ ~HalfRead(d[2])'
          BY <1>5, <1>6, <1>15, <4>2, <5>1 DEF HalfRead
        <5>3. One(HalfRead(d[2])) = 0 /\ One(HalfRead(d[2]))' = 0
          BY <5>2 DEF One
        <5>4. From(Root, d[2])' = From(Root, d[2])
          BY <1>1, <1>13, <4>1, <5>1
        <5> QED BY <1>2, <3>2, <4>2, <5>3, <5>4 DEF Read
      <4>3. CASE type = "FANOUT"
        <5>1. d[2] = Root /\ d[1] # p
          BY <1>5, <2>2, <3>2, <4>1, <4>3 DEF Carries
        <5>2. From(d[1], Root)' = From(d[1], Root) /\ ctx'[d[1]] = ctx[d[1]]
          BY <1>1, <1>13, <1>15, <4>1, <5>1
        <5> QED BY <1>2, <3>2, <4>3, <5>2 DEF Read
      <4> QED BY <1>1, <4>2, <4>3
    <3> QED BY <1>17, <1>18, <1>19, <3>1, <3>2, StreamKept
  <2> QED BY <2>1, <2>2
<1>21. Typed'
  <2>1. in' \in [End -> Seq(Frame)]
    BY <1>14, <1>20
  <2>2. \A x \in Proc : op'[x].pc \in {"probe", "receive"} => op'[x].i \in DOMAIN coll'[x].participants
    BY <1>1, <1>2, <1>16 DEF Typed, TypeOK, Ps
  <2> QED BY <1>1, <1>2, <1>13, <1>15, <1>16, <2>1, <2>2 DEF Typed, TypeOK, Results
<1>22. Members'
  <2>1. ASSUME NEW x \in Proc
        PROVE  /\ Ps(x)' = Ps(x) /\ (Working(x)' => Working(x))
               /\ ctx[x].closed_rd => ctx'[x].closed_rd
               /\ At(x, "create")' => At(x, "create") /\ Untouched(x)
    <3>1. At(x, "create")' => At(x, "create") /\ x # p
      BY <1>1, <1>2 DEF At
    <3> QED BY <1>2, <1>15, <1>16, <3>1 DEF Untouched, Working
  <2> QED BY <1>2, <2>1, MembersKept
<1>23. Contexts'
  <2>1. ASSUME NEW x \in Proc PROVE ContextAt(x)'
    <3>1. CASE x # p
      BY <1>1, <1>2, <1>15, <3>1, ContextKept DEF Contexts
    <3>2. CASE x = p
      BY <1>1, <1>2, <1>15, <3>2 DEF Contexts, ContextAt, At
    <3> QED BY <3>1, <3>2
  <2>2. type = "FANIN" => ctx'[Root].probed = "no" /\ ctx'[Root].closed_rd = ctx[Root].closed_rd
    BY <1>1, <1>15
  <2> QED BY <1>1, <1>2, <1>16, <2>1, <2>2 DEF Contexts, Working
<1>24. HandlesKept'
  <2>1. Ps(Root)' = Ps(Root)
    BY <1>1, <1>16
  <2> QED BY <1>1, <1>2, <1>18, <2>1 DEF HandlesKept, OthersSafe, Among, Fresh, Shut, At
<1>25. Values'
  <2>1. CASE type = "FANIN"
    <3>1. ASSUME NEW w \in Worker PROVE Consecutive(got'[Root][w])
      <4>1. Consecutive(got[Root][w]) /\ w \in Proc
        BY <1>1, <2>1 DEF Values
      <4>2. CASE w # q
        BY <1>1, <1>13, <2>1, <4>1, <4>2
      <4>3. CASE w = q
        <5>0. Consecutive(got[p][q])
          BY <1>1, <2>1, <4>1, <4>3
        <5>1. \A k \in 1..From(p, q) : got'[p][q][k] = k
          BY <1>13, <5>0 DEF Consecutive
        <5>2. got'[p][q][From(p, q) + 1] = From(p, q) + 1
          BY <1>12, <1>13, <2>1
        <5>3. \A k \in 1..(From(p, q) + 1) : k \in 1..From(p, q) \/ k = From(p, q) + 1
          BY <1>8
        <5>4. \A k \in DOMAIN got'[p][q] : got'[p][q][k] = k
          BY <1>13, <5>1, <5>2, <5>3
        <5> QED BY <1>1, <2>1, <4>3, <5>4 DEF Consecutive
      <4> QED BY <4>2, <4>3
    <3> QED BY <1>2, <2>1, <3>1 DEF Values
  <2>2. CASE type = "FANOUT"
    <3>1. PICK i \in DOMAIN Ps(Root) : Ps(Root)[i] = p /\ f.v = From(p, q) * N + i
      BY <1>12, <2>2
    <3>2. q = Root
      BY <1>5, <1>6, <2>2
    <3>3. ASSUME NEW j \in DOMAIN Ps(Root)
          PROVE  \A k \in DOMAIN got'[Ps(Root)[j]][Root] : got'[Ps(Root)[j]][Root][k] = (k - 1) * N + j
      <4>1. \A k \in DOMAIN got[Ps(Root)[j]][Root] : got[Ps(Root)[j]][Root][k] = (k - 1) * N + j
        BY <1>1, <2>2 DEF Values
      <4>2. CASE j = i
        <5>1. ASSUME NEW k \in 1..(From(p, q) + 1) PROVE got'[p][q][k] = (k - 1) * N + i
          <6>1. CASE k = From(p, q) + 1
            <7>1. k - 1 = From(p, q)
              BY <1>8, <6>1
            <7> QED BY <1>13, <3>1, <6>1, <7>1
          <6>2. CASE k # From(p, q) + 1
            <7>1. k \in 1..From(p, q)
              BY <1>8, <6>2
            <7> QED BY <1>13, <3>1, <3>2, <4>1, <4>2, <7>1
          <6> QED BY <6>1, <6>2
        <5> QED BY <1>13, <3>1, <3>2, <4>2, <5>1
      <4>3. CASE j # i
        <5>1. Ps(Root)[j] # p
          BY <1>1, <3>1, <4>3 DEF Members, IsInjective
        <5>2. Ps(Root)[j] \in Proc
          BY <1>1, ElementOfSeq, LenProperties DEF Members
        <5>3. got'[Ps(Root)[j]][Root] = got[Ps(Root)[j]][Root]
          BY <1>1, <1>13, <5>1, <5>2
        <5> QED BY <4>1, <5>3
      <4> QED BY <4>2, <4>3
    <3>4. Ps(Root)' = Ps(Root) /\ coll'[Root].current = coll[Root].current
      BY <1>1, <1>16
    <3> QED BY <1>1, <1>2, <2>2, <3>3, <3>4 DEF Values
  <2> QED BY <1>1, <2>1, <2>2
<1>26. Ends'
  <2>1. SUFFICES ASSUME Dead = {} PROVE Ends'
    BY <1>18 DEF Ends
  <2>2. Ps(Root)' = Ps(Root) /\ coll'[Root].current = coll[Root].current
    BY <1>1, <1>16
  <2>3. \A x \in Proc : At(x, "ended")' => IF x = Root THEN type = "GATHER" ELSE type = "BROADCAST"
    BY <1>1, <1>2, <2>1 DEF Ends, At
  <2>4. type = "FANIN" =>
        /\ Working(Root)' => \A w \in Worker : ~Among(w, Ps(Root))' =>
                              Shut(<<w, Root>>)' /\ From(Root, w)' = sent'[w]
        /\ ctx'[Root].closed_rd => Ps(Root)' = <<>> /\ Working(Root)'
    <3>1. SUFFICES ASSUME type = "FANIN" PROVE
        /\ Working(Root)' => \A w \in Worker : ~Among(w, Ps(Root)) =>
                              Shut(<<w, Root>>) /\ From(Root, w)' = sent[w]
        /\ ctx'[Root].closed_rd => Ps(Root) = <<>> /\ Working(Root)'
      BY <1>2, <2>2 DEF Among, Shut
    <3>2. p = Root /\ Among(q, Ps(Root)) /\ ~ctx'[Root].closed_rd
      BY <1>1, <1>5, <1>6, <1>15, <3>1
    <3>3. ASSUME NEW w \in Worker, Working(Root), ~Among(w, Ps(Root))
          PROVE  Shut(<<w, Root>>) /\ From(Root, w)' = sent[w]
      <4>1. Shut(<<w, Root>>) /\ From(Root, w) = sent[w]
        BY <1>1, <2>1, <3>1, <3>3 DEF Ends
      <4>2. w # q /\ w \in Proc
        BY <1>1, <3>2, <3>3
      <4> QED BY <1>1, <1>13, <4>1, <4>2
    <3> QED BY <1>2, <3>2, <3>3 DEF Working
  <2>5. type = "FANOUT" => \A w \in Worker : ctx'[w].closed_rd =>
        /\ Shut(<<Root, w>>)'
        /\ \E i \in DOMAIN Ps(Root)', n \in Nat :
            /\ Ps(Root)'[i] = w /\ sent'[Root] = n * N + coll'[Root].current - 1
            /\ From(w, Root)' = n + One(i < coll'[Root].current)
    <3>1. SUFFICES ASSUME type = "FANOUT", NEW w \in Worker, ctx'[w].closed_rd
          PROVE  /\ Shut(<<Root, w>>)'
                 /\ \E i \in DOMAIN Ps(Root), n \in Nat :
                     /\ Ps(Root)[i] = w /\ sent[Root] = n * N + coll[Root].current - 1
                     /\ From(w, Root)' = n + One(i < coll[Root].current)
      BY <1>2, <2>2
    <3>2. w # p /\ w \in Proc /\ ctx[w].closed_rd
      BY <1>1, <1>15, <3>1
    <3>3. /\ Shut(<<Root, w>>)
          /\ \E i \in DOMAIN Ps(Root), n \in Nat :
              /\ Ps(Root)[i] = w /\ sent[Root] = n * N + coll[Root].current - 1
              /\ From(w, Root) = n + One(i < coll[Root].current)
      BY <1>1, <2>1, <3>1, <3>2 DEF Ends
    <3>4. From(w, Root)' = From(w, Root)
      BY <1>1, <1>13, <3>2
    <3> QED BY <1>2, <3>3, <3>4 DEF Shut
  <2> QED BY <1>1, <1>2, <2>3, <2>4, <2>5 DEF Ends
<1> QED BY <1>20, <1>21, <1>22, <1>23, <1>24, <1>25, <1>26 DEF Inv, Streams

(* The end of a stream is read: EOS is taken, the shutdown stays, and the  *)
(* reader may shut its own side.                                           *)
EndRead(e) ==
    /\ in[e] # <<>> /\ in[e][1].t \in {"eos", "fin"}
    /\ in'[e] = IF in[e][1] = FIN THEN in[e] ELSE SubSeq(in[e], 1 + 1, Len(in[e]))
    /\ \A d \in End : d # e =>
         \/ in'[d] = in[d]
         \/ d = Peer(e) /\ ~Shut(e) /\ Shut(e)' /\ in'[d] = in[d] \o <<EOS, FIN>>

(* What Handle::close does to the streams when the end has been read.      *)
LEMMA ClosedEnd ==
  ASSUME Typed, NEW e \in End, in[e] # <<>>, in[e][1].t \in {"eos", "fin"},
         in' = Closed(Taken(e, 1), {e}, TRUE), Shut(e)'
  PROVE  EndRead(e) /\ in' = [d \in End |-> in'[d]]
<1>1. Taken(e, 1)[e] = IF in[e][1] = FIN THEN in[e] ELSE SubSeq(in[e], 1 + 1, Len(in[e]))
  BY DEF Taken, Typed, TypeOK
<1>2. \A d \in End : d # e => Taken(e, 1)[d] = in[d]
  BY DEF Taken, Typed, TypeOK
<1>3. /\ \A d \in End : in'[d] = IF Peer(d) \in {e} /\ ~Shut(Peer(d))
                                 THEN Taken(e, 1)[d] \o <<EOS, FIN>> ELSE Taken(e, 1)[d]
      /\ in' = [d \in End |-> in'[d]]
  BY DEF Closed, Shut
<1>4. (\A d \in End : Peer(d) = e => d = Peer(e)) /\ Peer(e) # e
  <2>1. \A d \in End : Peer(d) = e => d = Peer(e)
    BY Connections
  <2>2. /\ Peer(e) = <<e[2], e[1]>> /\ e = <<e[1], e[2]>>
        /\ \/ e[1] = Root /\ e[2] # Root
           \/ e[2] = Root /\ e[1] # Root
    BY Connections
  <2>3. Peer(e) # e
    BY <2>2
  <2> QED BY <2>1, <2>3
<1>5. in'[e] = Taken(e, 1)[e]
  BY <1>3, <1>4
<1>6. ASSUME NEW d \in End, d # e
      PROVE  \/ in'[d] = in[d]
             \/ d = Peer(e) /\ ~Shut(e) /\ Shut(e)' /\ in'[d] = in[d] \o <<EOS, FIN>>
  BY <1>2, <1>3, <1>4, <1>6
<1> QED BY <1>1, <1>3, <1>5, <1>6 DEF EndRead

(* No flow, and nothing read or written, has changed.                      *)
SidesKept == \A d \in End :
    /\ Flow(d)' = Flow(d)
    /\ \A n \in Nat : Carries(d) => (Read(d, n) => Read(d, n)') /\ (Written(d, n) => Written(d, n)')
    /\ \A w \in Worker : d[2] = w /\ Known(w)' => Known(w)

LEMMA AtEnd ==
  ASSUME Inv, NEW e \in End, e[1] # Root \/ Among(e[2], Ps(Root)), in[e] # <<>>,
         in[e][1].t \in {"eos", "fin"}
  PROVE  \E z \in 1..2, b \in Nat :
           /\ Seg(in[e], 0, b, b, z, Flow(e)) /\ Ending(e, z)
           /\ IF Carries(e) THEN Read(e, b) /\ Written(e, b) ELSE b = 0
           /\ in[e][1].t = "eos" => z = 2 /\ in[e][1] = EOS /\ in[e][1] # FIN
           /\ in[e][1].t = "fin" => z = 1 /\ in[e][1] = FIN
<1>1. PICK z \in 0..2, b \in Nat, m \in Nat :
        /\ Seg(in[e], 0, b, m, z, Flow(e)) /\ Ending(e, z)
        /\ IF Carries(e) THEN Read(e, b) /\ Written(e, m) ELSE b = 0 /\ m = 0
  BY Incoming
<1>2. PICK s \in Seq(Frame) : s = in[e]
  BY Kept, EndTypes
<1>3. PICK F : F = Flow(e)
  OBVIOUS
<1>4. Seg(s, 0, b, m, z, F)
  BY <1>1, <1>2, <1>3
<1>5. s # <<>>
  BY <1>2
<1>6. /\ Len(s) \in Nat /\ Len(s) >= 1 /\ s[1] \in Frame
      /\ \/ b < m /\ <<b + 1, s[1]>> \in F
         \/ b = m /\ z = 2 /\ s[1] = EOS /\ Len(s) = 2
         \/ b = m /\ z = 1 /\ s[1] = FIN /\ Len(s) = 1
  BY <1>4, <1>5, SegHead
<1>7. type \in Types
  BY Kept DEF Typed, TypeOK
<1>8. ~(b < m /\ <<b + 1, s[1]>> \in F)
  <2>1. ASSUME <<b + 1, s[1]>> \in Flow(e) PROVE s[1].t \in {"hdr", "body"}
    BY <1>7, <2>1, InFlow
  <2> QED BY <1>2, <1>3, <2>1
<1>9. b = m /\ ((z = 2 /\ s[1] = EOS) \/ (z = 1 /\ s[1] = FIN))
  BY <1>6, <1>8
<1> QED BY <1>1, <1>2, <1>9, Kinds

LEMMA EndStreams ==
  ASSUME Inv, Onward, NEW e \in End, e[1] # Root \/ Among(e[2], Ps(Root)), ~At(e[1], "dead"),
         EndRead(e), SidesKept, in[e][1].t = "eos" => Ending(e, 1)',
         in' = [d \in End |-> in'[d]]
  PROVE  in' \in [End -> Seq(Frame)] /\ Streams'
<1>1. Typed /\ in[e] \in Seq(Frame) /\ in[e] # <<>> /\ in[e][1].t \in {"eos", "fin"}
  BY Kept, EndTypes DEF EndRead
<1>2. PICK z \in 1..2, b \in Nat :
        /\ Seg(in[e], 0, b, b, z, Flow(e)) /\ Ending(e, z)
        /\ IF Carries(e) THEN Read(e, b) /\ Written(e, b) ELSE b = 0
        /\ in[e][1].t = "eos" => z = 2 /\ in[e][1] = EOS /\ in[e][1] # FIN
        /\ in[e][1].t = "fin" => z = 1 /\ in[e][1] = FIN
  BY <1>1, AtEnd
<1>3. ASSUME NEW d \in End
      PROVE  /\ Flow(d)' = Flow(d) /\ (Carries(d)' <=> Carries(d))
             /\ \A n \in Nat : Carries(d) => (Read(d, n) => Read(d, n)') /\ (Written(d, n) => Written(d, n)')
             /\ \A w \in Worker : d[2] = w /\ Known(w)' => Known(w)
  BY DEF SidesKept, Onward, Carries
<1>4. in'[e] \in Seq(Frame) /\ Stream(e)'
  <2>1. CASE in[e][1].t = "fin"
    <3>1. in'[e] = in[e]
      BY <1>2, <2>1 DEF EndRead
    <3>2. /\ Flow(e)' = Flow(e)
          /\ \A n \in Nat : Carries(e) /\ Read(e, n) => Read(e, n)'
          /\ \A n \in Nat : Carries(e) /\ Written(e, n) => Written(e, n)'
          /\ \A w \in Worker : e[2] = w /\ Known(w)' => Known(w)
      BY <1>3
    <3>3. Stream(e)'
      BY <3>1, <3>2, StreamKept
    <3> QED BY <1>1, <3>1, <3>3
  <2>2. CASE in[e][1].t = "eos"
    <3>1. PICK s \in Seq(Frame) : s = in[e]
      BY <1>1
    <3>2. PICK F : F = Flow(e)
      OBVIOUS
    <3>3. PICK t : t = SubSeq(s, 1 + 1, Len(s))
      OBVIOUS
    <3>4. Seg(s, 0, b, b, 2, F)
      BY <1>2, <2>2, <3>1, <3>2
    <3>5. t \in Seq(Frame) /\ Seg(t, 0, b, b, 1, F)
      BY <3>3, <3>4, SegEnd
    <3>6. in'[e] = t
      BY <1>2, <2>2, <3>1, <3>3 DEF EndRead
    <3>7. Opening(e, 0, b)' /\ Ending(e, 1)'
      BY <2>2 DEF Opening
    <3>8. IF Carries(e)' THEN Read(e, b)' /\ Written(e, b)' ELSE b = 0 /\ b = 0
      BY <1>2, <1>3
    <3>9. Seg(in'[e], 0, b, b, 1, Flow(e)')
      BY <1>3, <3>2, <3>5, <3>6
    <3> QED BY <3>5, <3>6, <3>7, <3>8, <3>9 DEF Stream
  <2> QED BY <1>1, <2>1, <2>2
<1>5. ASSUME NEW d \in End, d # e PROVE in'[d] \in Seq(Frame) /\ Stream(d)'
  <2>1. in[d] \in Seq(Frame)
    BY <1>1, EndTypes
  <2>2. CASE in'[d] = in[d]
    <3>1. /\ Flow(d)' = Flow(d)
          /\ \A n \in Nat : Carries(d) /\ Read(d, n) => Read(d, n)'
          /\ \A n \in Nat : Carries(d) /\ Written(d, n) => Written(d, n)'
          /\ \A w \in Worker : d[2] = w /\ Known(w)' => Known(w)
      BY <1>3
    <3>2. Stream(d)'
      BY <2>2, <3>1, StreamKept
    <3> QED BY <2>1, <2>2, <3>2
  <2>3. CASE d = Peer(e) /\ ~Shut(e) /\ Shut(e)' /\ in'[d] = in[d] \o <<EOS, FIN>>
    <3>1. PICK a \in 0..1, y \in 0..2, n \in Nat, m \in Nat :
            /\ Seg(in[d], a, n, m, y, Flow(d))
            /\ Opening(d, a, n) /\ Ending(d, y)
            /\ IF Carries(d) THEN Read(d, n) /\ Written(d, m) ELSE n = 0 /\ m = 0
      BY DEF Inv, Streams, Stream
    <3>2. Peer(d) = e /\ d[2] = e[1]
      BY <2>3, Connections
    <3>3. y = 0
      BY <2>3, <3>1, <3>2 DEF Ending
    <3>4. PICK s \in Seq(Frame) : s = in[d]
      BY <2>1
    <3>5. PICK F : F = Flow(d)
      OBVIOUS
    <3>6. PICK t : t = s \o <<EOS, FIN>>
      OBVIOUS
    <3>7. Seg(s, a, n, m, 0, F)
      BY <3>1, <3>3, <3>4, <3>5
    <3>8. t \in Seq(Frame) /\ Seg(t, a, n, m, 2, F)
      BY <3>6, <3>7, SegShut
    <3>9. in'[d] = t
      BY <2>3, <3>4, <3>6
    <3>10. Opening(d, a, n)'
      BY <1>3, <3>1, OpeningKept
    <3>11. Ending(d, 2)'
      BY <2>3, <3>2 DEF Ending
    <3>12. IF Carries(d)' THEN Read(d, n)' /\ Written(d, m)' ELSE n = 0 /\ m = 0
      BY <1>3, <3>1
    <3>13. Seg(in'[d], a, n, m, 2, Flow(d)')
      BY <1>3, <3>5, <3>8, <3>9
    <3> QED BY <3>8, <3>9, <3>10, <3>11, <3>12, <3>13 DEF Stream
  <2> QED BY <1>5, <2>2, <2>3 DEF EndRead
<1>6. \A d \in End : in'[d] \in Seq(Frame) /\ Stream(d)'
  BY <1>4, <1>5
<1> QED BY <1>6 DEF Streams

(***************************************************************************)
(* A broadcast.                                                            *)
(***************************************************************************)

(* What a member knows of the root of a broadcast.                         *)
LEMMA Broadcaster ==
  ASSUME Inv, type = "BROADCAST"
  PROVE  /\ op[Root].pc \in {"create", "idle", "ended", "dead"}
         /\ Dead = {} => op[Root].pc \in {"create", "idle"}
<1>1. Typed /\ Contexts /\ Ends /\ Root \in Proc
  BY Kept, Team
<1>2. op[Root].pc \in {"create", "idle", "ended", "dead"}
  BY <1>1, ProcTypes DEF Contexts, ContextAt, At
<1>3. Dead = {} => op[Root].pc # "dead" /\ op[Root].pc # "ended"
  BY <1>1 DEF Dead, Ends, At
<1> QED BY <1>2, <1>3

LEMMA BroadcastDataKeeps ==
  ASSUME Inv, NEW p \in Worker, type = "BROADCAST", ReceiveAll(p), Next1(<<p, Root>>) = "hdr"
  PROVE  Inv'
<1>1. /\ Typed /\ Members /\ Contexts /\ HandlesKept /\ Streams /\ Values /\ Ends
      /\ Root \in Proc /\ Worker \subseteq Proc /\ p # Root
  BY Kept, Team
<1>2. /\ UNCHANGED <<groupsReady, type, handle, ctx, coll, user, ready, op, sent>>
      /\ op[p].pc = "idle"
  BY DEF ReceiveAll, At
<1>3. PICK e \in End : e = <<p, Root>> /\ e[1] = p /\ e[2] = Root /\ e[1] # Root
  BY <1>1, Connections
<1>4. /\ in[e] # <<>> /\ in[e][1].t = "hdr"
      /\ in' = Taken(e, 2) /\ got' = [got EXCEPT ![p][Root] = Append(@, in[e][1].v)]
  BY <1>3 DEF ReceiveAll, Next1
<1>5. Carries(e)
  BY <1>3 DEF Carries
<1>6. PICK z \in 0..2, b \in Nat, m \in Nat :
        Seg(in[e], 0, b, m, z, Flow(e)) /\ Ending(e, z) /\ Read(e, b) /\ Written(e, m)
  <2>1. \E z \in 0..2, b \in Nat, m \in Nat :
           /\ Seg(in[e], 0, b, m, z, Flow(e)) /\ Ending(e, z)
           /\ IF Carries(e) THEN Read(e, b) /\ Written(e, m) ELSE b = 0 /\ m = 0
    BY <1>3, Incoming
  <2> QED BY <1>5, <2>1
<1>7. PICK g \in Nat : g = From(p, Root) /\ b = 2 * g
  <2>1. From(p, Root) \in Nat
    BY <1>1, GotTypes
  <2> QED BY <1>3, <1>6, <2>1 DEF Read
<1>8. PICK j \in Nat : m = 2 * j
  BY <1>6 DEF Written
<1>9. PICK f \in Frame : f = in[e][1] /\ b < m /\ f = Header(g + 1)
  <2>1. PICK s \in Seq(Frame) : s = in[e]
    BY <1>1, EndTypes
  <2>2. PICK F : F = Flow(e)
    OBVIOUS
  <2>3. Seg(s, 0, b, m, z, F)
    BY <1>6, <2>1, <2>2
  <2>4. s # <<>>
    BY <1>4, <2>1
  <2>5. /\ Len(s) \in Nat /\ Len(s) >= 1 /\ s[1] \in Frame
        /\ \/ b < m /\ <<b + 1, s[1]>> \in F
           \/ b = m /\ z = 2 /\ s[1] = EOS /\ Len(s) = 2
           \/ b = m /\ z = 1 /\ s[1] = FIN /\ Len(s) = 1
    BY <2>3, <2>4, SegHead
  <2>6. b < m /\ <<b + 1, s[1]>> \in F
    BY <1>4, <2>1, <2>5, Kinds
  <2>7. Counted(2 * g + 1, s[1])
    BY <1>7, <2>2, <2>6 DEF Flow
  <2>8. s[1] = Header(g + 1)
    BY <2>7, CountedAt
  <2> QED BY <2>1, <2>5, <2>6, <2>8
<1>10. b + 2 <= m
  BY <1>7, <1>8, <1>9
<1>11. f # FIN /\ f.v = g + 1 /\ f.v \in Value
  BY <1>9, Kinds, FrameValue
<1>12. PICK v \in Results : v = f.v
  BY <1>11 DEF Results
<1>13. got' = [got EXCEPT ![p][Root] = Append(@, v)]
  BY <1>4, <1>9, <1>12
<1>14. p \in Proc
  BY <1>1
<1>15. Typed
  BY <1>1
<1>16. PICK q \in Proc : q = Root
  BY <1>1
<1>17. got' = [got EXCEPT ![p][q] = Append(@, v)]
  BY <1>13, <1>16
<1>18. /\ got' \in [Proc -> [Proc -> Seq(Results)]]
       /\ got'[p][q] = Append(got[p][q], v) /\ From(p, q) \in Nat /\ From(p, q)' = From(p, q) + 1
       /\ DOMAIN got[p][q] = 1..From(p, q) /\ DOMAIN got'[p][q] = 1..(From(p, q) + 1)
       /\ \A k \in 1..From(p, q) : got'[p][q][k] = got[p][q][k]
       /\ got'[p][q][From(p, q) + 1] = v
       /\ \A x \in Proc, y \in Proc : x # p \/ y # q => got'[x][y] = got[x][y] /\ From(x, y)' = From(x, y)
  BY <1>14, <1>15, <1>17, GotMore
<1>19. PICK n \in 1..2 : n = 2
  OBVIOUS
<1>20. /\ in'[e] = SubSeq(in[e], n + 1, Len(in[e]))
       /\ \A d \in End : d # e => in'[d] = in[d]
       /\ in' = [d \in End |-> in'[d]]
  <2>1. in' = Taken(e, n) /\ in[e][1] # FIN
    BY <1>4, <1>9, <1>11, <1>19
  <2> QED BY <1>15, <2>1, TakenData
<1>21. Onward /\ Dead' = Dead /\ (\A w \in Worker : Known(w)' <=> Known(w))
  BY <1>2 DEF Onward, At, Working, Dead, Among, Ps, Shut, Known
<1>22. ASSUME NEW d \in End
       PROVE  /\ Flow(d)' = Flow(d) /\ \A k \in Nat : Written(d, k) => Written(d, k)'
  BY <1>2 DEF Flow, Dealt, Ps, Written
<1>23. ASSUME NEW d \in End PROVE in'[d] \in Seq(Frame) /\ Stream(d)'
  <2>1. CASE d = e
    <3>1. b + n = 2 * (g + 1) /\ b + n <= m
      BY <1>7, <1>10, <1>19
    <3>2. From(e[1], Root)' = g + 1 /\ type' = "BROADCAST"
      BY <1>2, <1>3, <1>7, <1>16, <1>18
    <3>3. Read(e, b + n)'
      BY <3>1, <3>2 DEF Read
    <3>4. Flow(e)' = Flow(e) /\ Written(e, m)'
      BY <1>6, <1>22
    <3> QED BY <1>5, <1>6, <1>15, <1>20, <1>21, <2>1, <3>1, <3>3, <3>4, TakeStream
  <2>2. CASE d # e
    <3>1. in'[d] = in[d] /\ in[d] \in Seq(Frame)
      BY <1>1, <1>20, <2>2, EndTypes
    <3>2. ASSUME NEW k \in Nat, Carries(d), Read(d, k) PROVE Read(d, k)'
      <4>1. d[2] = Root /\ d[1] # p /\ d[1] \in Proc
        BY <1>3, <2>2, <3>2, Connections DEF Carries
      <4>2. From(d[1], Root)' = From(d[1], Root)
        BY <1>1, <1>18, <4>1
      <4> QED BY <1>2, <3>2, <4>2 DEF Read
    <3> QED BY <1>21, <1>22, <3>1, <3>2, StreamKept
  <2> QED BY <2>1, <2>2
<1>24. Typed'
  <2>1. in' \in [End -> Seq(Frame)]
    BY <1>20, <1>23
  <2> QED BY <1>1, <1>2, <1>18, <2>1 DEF Typed, TypeOK, Results
<1>25. Members'
  BY <1>1, <1>2 DEF Members, Working, At, Among, Ps, Fresh
<1>26. Contexts'
  BY <1>1, <1>2 DEF Contexts, ContextAt, At, Working, Ps
<1>27. HandlesKept'
  BY <1>1, <1>2, <1>21 DEF HandlesKept, OthersSafe, Among, Ps, Fresh, Shut, At
<1>28. Values'
  <2>1. ASSUME NEW w \in Worker PROVE Consecutive(got'[w][Root])
    <3>1. Consecutive(got[w][q]) /\ w \in Proc
      BY <1>1, <1>16 DEF Values
    <3>2. CASE w # p
      BY <1>16, <1>18, <3>1, <3>2
    <3>3. CASE w = p
      <4>0. Consecutive(got[p][q])
        BY <3>1, <3>3
      <4>1. \A k \in 1..From(p, q) : got'[p][q][k] = k
        BY <1>18, <4>0 DEF Consecutive
      <4>2. got'[p][q][From(p, q) + 1] = From(p, q) + 1
        BY <1>7, <1>11, <1>12, <1>16, <1>18
      <4>3. \A k \in 1..(From(p, q) + 1) : k \in 1..From(p, q) \/ k = From(p, q) + 1
        BY <1>18
      <4>4. \A k \in DOMAIN got'[p][q] : got'[p][q][k] = k
        BY <1>18, <4>1, <4>2, <4>3
      <4> QED BY <1>16, <3>3, <4>4 DEF Consecutive
    <3> QED BY <3>2, <3>3
  <2> QED BY <1>2, <2>1 DEF Values
<1>29. Ends'
  <2>1. SUFFICES ASSUME Dead = {} PROVE Ends'
    BY <1>21 DEF Ends
  <2>2. \A x \in Proc : At(x, "ended")' => IF x = Root THEN type = "GATHER" ELSE type = "BROADCAST"
    BY <1>1, <1>2, <2>1 DEF Ends, At
  <2>3. ASSUME NEW w \in Worker, At(w, "ended")'
        PROVE  Shut(<<Root, w>>)' /\ From(w, Root)' = sent'[Root]
    <3>1. At(w, "ended") /\ w # p /\ w \in Proc
      BY <1>1, <1>2, <2>3 DEF At
    <3>2. Shut(<<Root, w>>) /\ From(w, Root) = sent[Root]
      BY <1>1, <2>1, <3>1 DEF Ends
    <3>3. From(w, Root)' = From(w, Root)
      BY <1>16, <1>18, <3>1
    <3> QED BY <1>2, <3>2, <3>3 DEF Shut
  <2> QED BY <1>2, <2>2, <2>3 DEF Ends
<1> QED BY <1>23, <1>24, <1>25, <1>26, <1>27, <1>28, <1>29 DEF Inv, Streams

(* Between messages a header comes next.                                   *)
LEMMA HeaderNext ==
  ASSUME Typed, Members, NEW e, NEW b \in Nat, NEW f, <<b + 1, f>> \in Flow(e), NEW j \in Nat,
         b = 2 * j
  PROVE  f.t = "hdr"
<1>1. CASE type \in {"FANIN", "BROADCAST"}
  <2>1. Counted(2 * j + 1, f)
    BY <1>1 DEF Flow
  <2>2. f = Header(j + 1)
    BY <2>1, CountedAt
  <2> QED BY <2>2, Kinds
<1>2. CASE type = "FANOUT"
  <2>1. Dealt(e[1], 2 * j + 1, f)
    BY <1>2 DEF Flow
  <2>2. PICK i \in DOMAIN Ps(Root) : Ps(Root)[i] = e[1]
    BY <2>1 DEF Dealt
  <2>3. f = Header(j * N + i)
    BY <2>1, <2>2, DealtAt
  <2> QED BY <2>3, Kinds
<1>3. CASE type = "GATHER"
  <2>1. PICK i \in Nat : \/ 2 * j + 1 = 4 * i + 1 /\ f = Header(Rank[e[2]])
                         \/ 2 * j + 1 = 4 * i + 2 /\ f = Body(Rank[e[2]])
                         \/ 2 * j + 1 = 4 * i + 3 /\ f = Header(i + 1)
                         \/ 2 * j + 1 = 4 * i + 4 /\ f = Body(i + 1)
    BY <1>3 DEF Flow, Ranked
  <2>2. 2 * j + 1 # 4 * i + 2 /\ 2 * j + 1 # 4 * i + 4
    OBVIOUS
  <2> QED BY <2>1, <2>2, Kinds
<1> QED BY <1>1, <1>2, <1>3, Kind

(* What is read between messages is a header or the end of the stream.     *)
LEMMA HeaderOrEnd ==
  ASSUME Inv, NEW e \in End, e[1] # Root \/ Among(e[2], Ps(Root)), in[e] # <<>>,
         \A b \in Nat : Carries(e) /\ Read(e, b) =>
           \E j \in Nat : b = 2 * j
  PROVE  in[e][1].t \in {"hdr", "eos", "fin"}
<1>1. PICK z \in 0..2, b \in Nat, m \in Nat :
        /\ Seg(in[e], 0, b, m, z, Flow(e)) /\ Ending(e, z)
        /\ IF Carries(e) THEN Read(e, b) /\ Written(e, m) ELSE b = 0 /\ m = 0
  BY Incoming
<1>2. PICK s \in Seq(Frame) : s = in[e]
  BY Kept, EndTypes
<1>3. PICK F : F = Flow(e)
  OBVIOUS
<1>4. Seg(s, 0, b, m, z, F)
  BY <1>1, <1>2, <1>3
<1>5. s # <<>>
  BY <1>2
<1>6. /\ Len(s) \in Nat /\ Len(s) >= 1 /\ s[1] \in Frame
      /\ \/ b < m /\ <<b + 1, s[1]>> \in F
         \/ b = m /\ z = 2 /\ s[1] = EOS /\ Len(s) = 2
         \/ b = m /\ z = 1 /\ s[1] = FIN /\ Len(s) = 1
  BY <1>4, <1>5, SegHead
<1>7. Typed /\ Members
  BY Kept
<1>8. ASSUME b < m, <<b + 1, s[1]>> \in F PROVE s[1].t = "hdr"
  <2>1. Carries(e) /\ Read(e, b)
    BY <1>1, <1>8
  <2>2. PICK j \in Nat : b = 2 * j
    BY <2>1
  <2>3. <<b + 1, s[1]>> \in Flow(e)
    BY <1>3, <1>8
  <2> QED BY <1>7, <2>2, <2>3, HeaderNext
<1> QED BY <1>2, <1>6, <1>8, Kinds

LEMMA BroadcastEndKeeps ==
  ASSUME Inv, NEW p \in Worker, type = "BROADCAST", ReceiveAll(p), Next1(<<p, Root>>) # "hdr"
  PROVE  Inv'
<1>1. /\ Typed /\ Members /\ Contexts /\ HandlesKept /\ Streams /\ Values /\ Ends
      /\ Root \in Proc /\ Worker \subseteq Proc /\ p # Root /\ p \in Proc
  BY Kept, Team
<1>2. /\ UNCHANGED <<groupsReady, type, ctx, coll, user, ready, sent, got>>
      /\ op[p].pc = "idle" /\ Return(p, "ended")
  BY DEF ReceiveAll, At
<1>3. PICK e \in End : e = <<p, Root>> /\ e[1] = p /\ e[2] = Root /\ e[1] # Root
  BY <1>1, Connections
<1>4. PICK h : h = handle[e]
  OBVIOUS
<1>5. /\ in[e] # <<>> /\ in[e][1].t # "hdr"
      /\ in' = Closed(Taken(e, 1), {e}, TRUE)
      /\ handle' = [handle EXCEPT ![e] = Mark(Mark(h, ClosesWrite(in[e][1].t), TRUE), TRUE, FALSE)]
  BY <1>3, <1>4 DEF ReceiveAll, Next1
<1>6. Carries(e)
  BY <1>3 DEF Carries
<1>7. From(p, Root) \in Nat /\ \A b \in Nat : Read(e, b) => b = 2 * From(p, Root)
  BY <1>1, <1>3, GotTypes DEF Read
<1>8. in[e][1].t \in {"eos", "fin"}
  <2>1. \A b \in Nat : Carries(e) /\ Read(e, b) =>
           \E j \in Nat : b = 2 * j
    BY <1>7
  <2>2. in[e][1].t \in {"hdr", "eos", "fin"}
    BY <1>3, <1>5, <2>1, HeaderOrEnd
  <2> QED BY <1>5, <2>2
<1>9. PICK z \in 1..2, b \in Nat :
        /\ Seg(in[e], 0, b, b, z, Flow(e)) /\ Ending(e, z)
        /\ Read(e, b) /\ Written(e, b)
        /\ in[e][1].t = "eos" => z = 2 /\ in[e][1] = EOS /\ in[e][1] # FIN
        /\ in[e][1].t = "fin" => z = 1 /\ in[e][1] = FIN
  <2>1. \E z \in 1..2, b \in Nat :
           /\ Seg(in[e], 0, b, b, z, Flow(e)) /\ Ending(e, z)
           /\ IF Carries(e) THEN Read(e, b) /\ Written(e, b) ELSE b = 0
           /\ in[e][1].t = "eos" => z = 2 /\ in[e][1] = EOS /\ in[e][1] # FIN
           /\ in[e][1].t = "fin" => z = 1 /\ in[e][1] = FIN
    BY <1>3, <1>5, <1>8, AtEnd
  <2> QED BY <1>6, <2>1
<1>10. Dead = {} => in[e][1].t = "eos"
  <2>1. Dead = {} /\ z = 1 => At(p, "ended")
    BY <1>3, <1>9 DEF Ending
  <2> QED BY <1>2, <1>8, <1>9, <2>1 DEF At
<1>11. h = [closed_rd |-> FALSE, closed_wr |-> FALSE, life |-> "live"]
  BY <1>1, <1>2, <1>3, <1>4 DEF HandlesKept, Fresh
<1>12. \E x \in {"freed", "used"} :
         /\ handle' = [handle EXCEPT ![e] = [closed_rd |-> TRUE, closed_wr |-> TRUE, life |-> x]]
         /\ in[e][1].t = "eos" => x = "freed"
  <2>1. CASE in[e][1].t = "eos"
    <3>1. Mark(h, ClosesWrite(in[e][1].t), TRUE) = [closed_rd |-> TRUE, closed_wr |-> FALSE, life |-> "live"]
      BY <1>11, <2>1 DEF Mark, ClosesWrite
    <3>2. Mark([closed_rd |-> TRUE, closed_wr |-> FALSE, life |-> "live"], TRUE, FALSE)
            = [closed_rd |-> TRUE, closed_wr |-> TRUE, life |-> "freed"]
      BY DEF Mark
    <3> QED BY <1>5, <3>1, <3>2
  <2>2. CASE in[e][1].t = "fin"
    <3>1. Mark(h, ClosesWrite(in[e][1].t), TRUE) = [closed_rd |-> TRUE, closed_wr |-> TRUE, life |-> "freed"]
      BY <1>11, <2>2 DEF Mark, ClosesWrite
    <3>2. Mark([closed_rd |-> TRUE, closed_wr |-> TRUE, life |-> "freed"], TRUE, FALSE)
            = [closed_rd |-> TRUE, closed_wr |-> TRUE, life |-> "used"]
      BY DEF Mark
    <3> QED BY <1>5, <2>2, <3>1, <3>2
  <2> QED BY <1>8, <2>1, <2>2
<1>13. PICK x \in {"freed", "used"} :
         /\ handle' = [handle EXCEPT ![e] = [closed_rd |-> TRUE, closed_wr |-> TRUE, life |-> x]]
         /\ in[e][1].t = "eos" => x = "freed"
  BY <1>12
<1>14. /\ handle' \in [End -> HandleState] /\ \A d \in End : d # e => handle'[d] = handle[d]
       /\ handle'[e].closed_rd /\ handle'[e].closed_wr /\ handle'[e].life = x
  <2>1. PICK r : r = [closed_rd |-> TRUE, closed_wr |-> TRUE, life |-> x]
    OBVIOUS
  <2>2. r \in HandleState /\ r.closed_rd /\ r.closed_wr /\ r.life = x
    BY <2>1 DEF HandleState
  <2>3. handle' = [handle EXCEPT ![e] = r]
    BY <1>13, <2>1
  <2> QED BY <1>1, <2>2, <2>3 DEF Typed, TypeOK
<1>15. /\ op' \in [Proc -> Call] /\ op'[p].pc = "ended" /\ \A y \in Proc : y # p => op'[y] = op[y]
  BY <1>1, <1>2, Returned
<1>16. /\ \A y \in Proc : At(y, "dead")' <=> At(y, "dead")
       /\ \A y \in Proc : At(y, "create")' <=> At(y, "create")
       /\ \A y \in Proc : Working(y)' <=> Working(y)
       /\ \A y \in Proc : At(y, "ended")' <=> (At(y, "ended") \/ y = p)
  BY <1>2, <1>15 DEF At, Working
<1>17. /\ Dead' = Dead /\ op'[Root] = op[Root]
       /\ \A w \in Worker : (Known(w)' <=> Known(w)) /\ (Among(w, Ps(Root))' <=> Among(w, Ps(Root)))
  BY <1>1, <1>2, <1>15, <1>16 DEF Dead, Known, Among, Ps
<1>18. \A d \in End : Shut(d) => Shut(d)'
  BY <1>14 DEF Shut
<1>19. Onward
  BY <1>1, <1>2, <1>16, <1>17, <1>18 DEF Onward
<1>20. SidesKept
  BY <1>2, <1>17 DEF SidesKept, Flow, Dealt, Ps, Read, Written, From
<1>21. EndRead(e) /\ in' = [d \in End |-> in'[d]]
  <2>1. Shut(e)'
    BY <1>14 DEF Shut
  <2> QED BY <1>1, <1>5, <1>8, <2>1, ClosedEnd
<1>22. in[e][1].t = "eos" => Ending(e, 1)'
  <2>1. SUFFICES ASSUME in[e][1].t = "eos" PROVE Ending(e, 1)'
    OBVIOUS
  <2>2. Shut(Peer(e)) \/ At(Root, "dead")
    BY <1>3, <1>9 DEF Ending
  <2>3. Shut(Peer(e))' \/ At(Root, "dead")'
    BY <1>1, <1>16, <1>18, <2>2, Connections
  <2>4. At(p, "ended")' /\ type' = "BROADCAST"
    BY <1>1, <1>2, <1>16
  <2> QED BY <1>3, <2>3, <2>4 DEF Ending
<1>23. in' \in [End -> Seq(Frame)] /\ Streams'
  BY <1>2, <1>3, <1>19, <1>20, <1>21, <1>22, EndStreams DEF At
<1>24. Typed'
  <2>1. \A y \in Proc : op'[y].pc \in {"probe", "receive"} => op'[y].i \in DOMAIN coll'[y].participants
    BY <1>1, <1>2, <1>15 DEF Typed, TypeOK
  <2> QED BY <1>1, <1>2, <1>14, <1>15, <1>23, <2>1 DEF Typed, TypeOK, Results
<1>25. Members'
  <2>1. ASSUME NEW y \in Proc
        PROVE  /\ Ps(y)' = Ps(y) /\ (Working(y)' => Working(y))
               /\ ctx[y].closed_rd => ctx'[y].closed_rd
               /\ At(y, "create")' => At(y, "create") /\ Untouched(y)
    <3>1. At(y, "create") => y # p
      BY <1>2 DEF At
    <3>2. y # p => Untouched(y)
      BY <1>2, <1>3, <1>14, <1>15 DEF Untouched
    <3> QED BY <1>2, <1>16, <3>1, <3>2 DEF Ps
  <2> QED BY <1>2, <2>1, MembersKept
<1>26. Contexts'
  <2>1. ASSUME NEW y \in Proc PROVE ContextAt(y)'
    <3>1. ContextAt(y) /\ (op'[y].pc = op[y].pc \/ (op'[y].pc = "ended" /\ op[y].pc = "idle"))
      BY <1>1, <1>2, <1>15 DEF Contexts
    <3> QED BY <1>2, <3>1, ContextKept
  <2> QED BY <1>1, <1>2, <1>16, <2>1 DEF Contexts, Ps
<1>27. HandlesKept'
  <2>1. OthersSafe'
    BY <1>1, <1>2, <1>10, <1>13, <1>14, <1>17 DEF HandlesKept, OthersSafe
  <2>2. \A d \in End : (handle[d].life # "live" => handle[d].closed_rd /\ handle[d].closed_wr)'
    BY <1>1, <1>14 DEF HandlesKept
  <2>3. ASSUME NEW w \in Worker
        PROVE  /\ ~handle'[<<Root, w>>].closed_rd
               /\ op'[w].pc \notin {"ended", "dead"} => Fresh(<<w, Root>>)'
    <3>1. /\ <<Root, w>> \in End /\ <<Root, w>> # e
          /\ <<w, Root>> \in End /\ (w # p => <<w, Root>> # e)
      BY <1>3, Connections
    <3>2. w = p => op'[w].pc = "ended"
      BY <1>15
    <3> QED BY <1>1, <1>14, <1>15, <3>1, <3>2 DEF HandlesKept, Fresh
  <2> QED BY <1>2, <2>1, <2>2, <2>3 DEF HandlesKept
<1>28. Values'
  BY <1>1, <1>2 DEF Values
<1>29. Ends'
  <2>1. SUFFICES ASSUME Dead = {} PROVE Ends'
    BY <1>17 DEF Ends
  <2>2. \A y \in Proc : At(y, "ended")' => IF y = Root THEN type = "GATHER" ELSE type = "BROADCAST"
    BY <1>1, <1>16, <2>1 DEF Ends
  <2>3. ASSUME NEW w \in Worker, At(w, "ended")'
        PROVE  Shut(<<Root, w>>)' /\ From(w, Root)' = sent'[Root]
    <3>1. CASE w # p
      <4>1. Shut(<<Root, w>>) /\ From(w, Root) = sent[Root]
        BY <1>1, <1>16, <2>1, <2>3, <3>1 DEF Ends
      <4> QED BY <1>2, <1>18, <4>1, Connections DEF From
    <3>2. CASE w = p
      <4>1. Shut(Peer(e))
        BY <1>1, <1>3, <1>9, <2>1 DEF Ending, Dead
      <4>2. Peer(e) = <<Root, p>> /\ Peer(e) \in End
        BY <1>3, Connections
      <4>3. op[Root].pc \in {"create", "idle"}
        BY <2>1, Broadcaster
      <4>4. PICK j \in Nat : b = 2 * j /\ j = sent[Root]
        BY <1>9, <4>3 DEF Written
      <4>5. PICK k \in Nat : k = From(p, Root) /\ b = 2 * k
        BY <1>7, <1>9
      <4>6. j = k
        BY <4>4, <4>5
      <4>7. From(p, Root)' = From(p, Root)
        BY <1>2 DEF From
      <4> QED BY <1>2, <1>18, <3>2, <4>1, <4>2, <4>4, <4>5, <4>6, <4>7
    <3> QED BY <3>1, <3>2
  <2> QED BY <1>2, <2>2, <2>3 DEF Ends
<1> QED BY <1>23, <1>24, <1>25, <1>26, <1>27, <1>28, <1>29 DEF Inv

LEMMA ReceiveAllKeeps ==
  ASSUME Inv, NEW p \in Proc, ReceiveAll(p)
  PROVE  Inv'
<1>1. type = "BROADCAST" /\ p \in Worker
  BY Team DEF ReceiveAll
<1> QED BY <1>1, BroadcastDataKeeps, BroadcastEndKeeps

(***************************************************************************)
(* A gather.                                                               *)
(***************************************************************************)
LEMMA GatherStartKeeps ==
  ASSUME Inv, NEW p \in Proc, GatherStart(p)
  PROVE  Inv'
<1>1. /\ Typed /\ Members /\ Contexts /\ HandlesKept /\ Streams /\ Values /\ Ends
      /\ Root \in Proc /\ Worker \subseteq Proc
      /\ p = Root /\ type = "GATHER" /\ op[Root].pc = "idle" /\ At(Root, "idle") /\ Unsent(Root)
  BY Kept, Team DEF GatherStart, At
<1>2. UNCHANGED <<groupsReady, type, in, handle, ctx, coll, user, ready, got>>
  BY DEF GatherStart
<1>3. PICK s \in Nat : s = sent[Root] /\ s = L /\ s + 1 \in 0..MaxSend
  <2>1. sent[Root] \in Nat /\ sent[Root] < MaxSend /\ MaxSend \in Nat
    BY <1>1, ProcTypes DEF Unsent
  <2>2. sent[Root] = L
    BY <1>1 DEF Values
  <2> QED BY <2>1, <2>2
<1>4. sent' \in [Proc -> 0..MaxSend] /\ sent'[Root] = s + 1 /\ \A x \in Proc : x # Root => sent'[x] = sent[x]
  <2>1. sent' = [sent EXCEPT ![Root] = s + 1]
    BY <1>1, <1>3 DEF GatherStart, CountSent
  <2> QED BY <1>1, <1>3, <2>1 DEF Typed, TypeOK
<1>5. PICK c \in Call : /\ op' = [op EXCEPT ![Root] = c]
                        /\ c.pc = "receive" /\ c.i = 1 /\ c.data = FALSE /\ c.buff[Rank[Root]] = s + 1
  <2>1. PICK d \in Call : d = Idle /\ d.i = 1 /\ d.data = FALSE
    BY IdleCall DEF NoCall
  <2>2. Rank[Root] \in 0..N /\ d.buff \in [0..N -> 0..MaxSend]
    BY <1>1, TeamAssumption DEF Call
  <2>3. PICK f \in [0..N -> 0..MaxSend] : f = [d.buff EXCEPT ![Rank[Root]] = s + 1] /\ f[Rank[Root]] = s + 1
    <3>1. PICK g \in [0..N -> 0..MaxSend] : g = d.buff
      BY <2>2
    <3>2. PICK r \in 0..N, v \in 0..MaxSend : r = Rank[Root] /\ v = s + 1
      BY <1>3, <2>2
    <3>3. PICK f : f = [g EXCEPT ![r] = v]
      OBVIOUS
    <3>4. f \in [0..N -> 0..MaxSend] /\ f[r] = v
      BY <3>3
    <3> QED BY <3>1, <3>2, <3>3, <3>4
  <2>4. PICK c : c = [d EXCEPT !.pc = "receive", !.buff = f]
    OBVIOUS
  <2>5. c \in Call /\ c.pc = "receive" /\ c.i = d.i /\ c.data = d.data /\ c.buff = f
    BY <2>4 DEF Call
  <2>6. [d EXCEPT !.pc = "receive", !.buff[Rank[Root]] = s + 1] = c
    BY <2>3, <2>4 DEF Call
  <2>7. op' = [op EXCEPT ![Root] = [d EXCEPT !.pc = "receive", !.buff[Rank[Root]] = s + 1]]
    BY <1>1, <1>3, <2>1 DEF GatherStart
  <2> QED BY <2>1, <2>3, <2>5, <2>6, <2>7
<1>6. /\ op' \in [Proc -> Call] /\ op'[Root] = c /\ \A x \in Proc : x # Root => op'[x] = op[x]
  BY <1>1, <1>5 DEF Typed, TypeOK
<1>7. /\ \A x \in Proc : \A l \in {"create", "dead", "ended"} : At(x, l)' <=> At(x, l)
      /\ \A x \in Proc : Working(x)' <=> Working(x)
  BY <1>1, <1>5, <1>6 DEF At, Working
<1>8. /\ Dead' = Dead
      /\ \A w \in Worker : (Known(w)' <=> Known(w)) /\ (Among(w, Ps(Root))' <=> Among(w, Ps(Root)))
  BY <1>2, <1>7 DEF Dead, Known, Among, Ps
<1>9. Onward
  BY <1>1, <1>2, <1>7, <1>8 DEF Onward, Shut
<1>10. Typed'
  <2>1. Ps(Root) \in Seq(Worker) /\ Ps(Root) # <<>>
    <3>1. \A w \in Worker : Among(w, Ps(Root))
      BY <1>1 DEF Members, Working
    <3> QED BY <1>1, <3>1, TeamAssumption DEF Members, Among
  <2>2. 1 \in DOMAIN Ps(Root)
    BY <2>1, LenProperties, EmptySeq
  <2>3. \A x \in Proc : op'[x].pc \in {"probe", "receive"} => op'[x].i \in DOMAIN coll'[x].participants
    BY <1>1, <1>2, <1>5, <1>6, <2>2 DEF Typed, TypeOK, Ps
  <2> QED BY <1>1, <1>2, <1>4, <1>6, <2>3 DEF Typed, TypeOK, Results
<1>11. Members'
  <2>1. ASSUME NEW x \in Proc
        PROVE  /\ Ps(x)' = Ps(x) /\ (Working(x)' => Working(x))
               /\ ctx[x].closed_rd => ctx'[x].closed_rd
               /\ At(x, "create")' => At(x, "create") /\ Untouched(x)
    <3>1. At(x, "create") => x # Root
      BY <1>1 DEF At
    <3>2. x # Root => Untouched(x)
      BY <1>2, <1>4, <1>6 DEF Untouched
    <3> QED BY <1>2, <1>7, <3>1, <3>2 DEF Ps
  <2> QED BY <1>2, <2>1, MembersKept
<1>12. Contexts'
  <2>1. ASSUME NEW x \in Proc PROVE ContextAt(x)'
    BY <1>1, <1>2, <1>5, <1>6 DEF Contexts, ContextAt, At, CanReceive, CanSend
  <2> QED BY <1>1, <1>2, <2>1 DEF Contexts
<1>13. HandlesKept'
  <2>1. \A w \in Worker : ~Shut(<<Root, w>>)
    BY <1>1, Unshut, Connections
  <2>2. OthersSafe' /\ \A d \in End : (handle[d].life # "live" => handle[d].closed_rd /\ handle[d].closed_wr)'
    BY <1>1, <1>2, <1>8 DEF HandlesKept, OthersSafe
  <2>3. ASSUME NEW w \in Worker
        PROVE  /\ ~handle'[<<w, Root>>].closed_rd
               /\ ~Shut(<<Root, w>>)'
               /\ ~handle'[<<Root, w>>].closed_rd
               /\ Dead' = {} => \A x \in Worker : Shut(<<Root, w>>)' = Shut(<<Root, x>>)'
    BY <1>1, <1>2, <1>8, <2>1 DEF HandlesKept, Shut
  <2> QED BY <1>1, <1>2, <2>2, <2>3 DEF HandlesKept
<1>14. ASSUME NEW e \in End PROVE Stream(e)'
  <2>1. in'[e] = in[e] /\ Flow(e)' = Flow(e)
    BY <1>1, <1>2 DEF Flow
  <2>2. ASSUME NEW b \in Nat, Carries(e), Read(e, b) PROVE Read(e, b)'
    <3>1. b = 4 * L /\ L \in Nat /\ L' = L
      BY <1>1, <1>2, <1>3, <2>2 DEF Read, L, From
    <3>2. \A k \in DOMAIN Ps(Root) : ~(k < 1)
      <4>1. Ps(Root) \in Seq(Worker)
        BY <1>1 DEF Members
      <4> QED BY <4>1, LenProperties
    <3>3. \A k \in DOMAIN Ps(Root)' :
            b = 4 * L' + (IF k < op'[Root].i THEN 4 ELSE IF k = op'[Root].i /\ op'[Root].data THEN 2 ELSE 0)
      BY <1>2, <1>5, <1>6, <3>1, <3>2 DEF Ps
    <3> QED BY <1>1, <1>2, <1>5, <1>6, <3>3 DEF Read
  <2>3. ASSUME NEW m \in Nat, Carries(e), Written(e, m) PROVE Written(e, m)'
    <3>1. e[2] \in Proc /\ e[2] # Root
      BY <1>1, <2>3, Connections DEF Carries
    <3> QED BY <1>1, <1>2, <1>4, <2>3, <3>1 DEF Written
  <2> QED BY <1>8, <1>9, <2>1, <2>2, <2>3, StreamKept
<1>15. Values'
  <2>1. L' = L
    BY <1>2 DEF L, From
  <2>2. \A k \in 1..(1 - 1) : FALSE
    OBVIOUS
  <2> QED BY <1>1, <1>2, <1>3, <1>4, <1>5, <1>6, <2>1, <2>2 DEF Values, At
<1>16. Ends'
  BY <1>1, <1>2, <1>7, <1>8 DEF Ends, At
<1> QED BY <1>10, <1>11, <1>12, <1>13, <1>14, <1>15, <1>16 DEF Inv, Streams

(* Where the root of a gather is, and what it has read there.              *)
LEMMA Gathering ==
  ASSUME Inv, type = "GATHER", At(Root, "receive")
  PROVE  \E i \in DOMAIN Ps(Root), e \in End, l \in Nat :
           /\ i = op[Root].i /\ e = <<Root, Ps(Root)[i]>> /\ e[1] = Root /\ e[2] = Ps(Root)[i]
           /\ e[2] \in Worker /\ Among(e[2], Ps(Root)) /\ Carries(e)
           /\ l = L /\ sent[Root] = l + 1 /\ l + 1 \in 0..MaxSend
           /\ \A b \in Nat : Read(e, b) => b = 4 * l + (IF op[Root].data THEN 2 ELSE 0)
<1>1. Typed /\ Members /\ Values /\ Root \in Proc
  BY Kept, Team
<1>2. PICK i \in DOMAIN Ps(Root) : i = op[Root].i
  BY <1>1 DEF Typed, TypeOK, Ps, At
<1>3. Ps(Root)[i] \in Worker
  BY <1>1, <1>2, ElementOfSeq, LenProperties DEF Members
<1>4. PICK e \in End : e = <<Root, Ps(Root)[i]>> /\ e[1] = Root /\ e[2] = Ps(Root)[i]
  BY <1>3, Connections
<1>5. PICK l \in Nat : l = L
  BY <1>1, GotTypes DEF L
<1>6. sent[Root] = l + 1
  BY <1>1, <1>5 DEF Values
<1>7. l + 1 \in 0..MaxSend
  BY <1>1, <1>6, ProcTypes
<1>8. ASSUME NEW b \in Nat, Read(e, b) PROVE b = 4 * l + (IF op[Root].data THEN 2 ELSE 0)
  <2>1. i \in Int
    BY <1>1, LenProperties DEF Members
  <2>2. b = 4 * L + (IF i < op[Root].i THEN 4 ELSE IF i = op[Root].i /\ op[Root].data THEN 2 ELSE 0)
    BY <1>4, <1>8 DEF Read
  <2>3. ~(i < op[Root].i)
    BY <1>2, <2>1
  <2> QED BY <1>2, <1>5, <2>2, <2>3
<1>9. Among(e[2], Ps(Root)) /\ Carries(e)
  BY <1>4 DEF Among, Carries
<1> QED BY <1>2, <1>3, <1>4, <1>5, <1>6, <1>7, <1>8, <1>9

(* The root of a gather takes a message.                                   *)
LEMMA GatherHead ==
  ASSUME Inv, type = "GATHER", NEW e \in End, e[1] = Root, e[2] \in Worker, Among(e[2], Ps(Root)),
         in[e] # <<>>, in[e][1].t = "hdr", NEW l \in Nat, NEW x \in 0..1,
         \A b \in Nat : Read(e, b) => b = 4 * l + 2 * x
  PROVE  /\ in[e][1] = (IF x = 1 THEN Header(l + 1) ELSE Header(Rank[e[2]]))
         /\ \E z \in 0..2, b \in Nat, m \in Nat :
              /\ Seg(in[e], 0, b, m, z, Flow(e)) /\ Ending(e, z) /\ Read(e, b) /\ Written(e, m)
              /\ b + 2 <= m
<1>1. Typed /\ Carries(e)
  BY Kept DEF Carries
<1>2. PICK z \in 0..2, b \in Nat, m \in Nat :
        Seg(in[e], 0, b, m, z, Flow(e)) /\ Ending(e, z) /\ Read(e, b) /\ Written(e, m)
  <2>1. \E z \in 0..2, b \in Nat, m \in Nat :
           /\ Seg(in[e], 0, b, m, z, Flow(e)) /\ Ending(e, z)
           /\ IF Carries(e) THEN Read(e, b) /\ Written(e, m) ELSE b = 0 /\ m = 0
    BY Incoming
  <2> QED BY <1>1, <2>1
<1>3. b = 4 * l + 2 * x
  BY <1>2
<1>4. PICK j \in Nat : m = 4 * j
  <2>1. e[2] \in Proc /\ m = 4 * sent[e[2]]
    BY <1>2, Team DEF Written
  <2> QED BY <1>1, <2>1, ProcTypes
<1>5. PICK f \in Frame : f = in[e][1] /\ b < m /\ <<b + 1, f>> \in Flow(e)
  <2>1. PICK s \in Seq(Frame) : s = in[e]
    BY <1>1, EndTypes
  <2>2. PICK F : F = Flow(e)
    OBVIOUS
  <2>3. Seg(s, 0, b, m, z, F)
    BY <1>2, <2>1, <2>2
  <2>4. s # <<>>
    BY <2>1
  <2>5. /\ Len(s) \in Nat /\ Len(s) >= 1 /\ s[1] \in Frame
        /\ \/ b < m /\ <<b + 1, s[1]>> \in F
           \/ b = m /\ z = 2 /\ s[1] = EOS /\ Len(s) = 2
           \/ b = m /\ z = 1 /\ s[1] = FIN /\ Len(s) = 1
    BY <2>3, <2>4, SegHead
  <2>6. b < m /\ <<b + 1, s[1]>> \in F
    BY <2>1, <2>5, Kinds
  <2> QED BY <2>1, <2>2, <2>5, <2>6
<1>6. b + 2 <= m
  BY <1>3, <1>4, <1>5
<1>7. Ranked(e[2], b + 1, f)
  BY <1>5 DEF Flow
<1>8. CASE x = 0
  <2>1. Ranked(e[2], 4 * l + 1, f)
    BY <1>3, <1>7, <1>8
  <2>2. f = Header(Rank[e[2]])
    BY <2>1, RankedAt
  <2> QED BY <1>2, <1>5, <1>6, <1>8, <2>2
<1>9. CASE x = 1
  <2>1. b + 1 = 4 * l + 3
    BY <1>3, <1>9
  <2>2. Ranked(e[2], 4 * l + 3, f)
    BY <1>7, <2>1
  <2>3. f = Header(l + 1)
    BY <2>2, RankedAt
  <2> QED BY <1>2, <1>5, <1>6, <1>9, <2>3
<1> QED BY <1>8, <1>9

(* What the three ways of taking a message have in common.                 *)
Gathers(c, e) ==
    /\ UNCHANGED <<groupsReady, type, handle, ctx, coll, user, ready, sent>>
    /\ in' = Taken(e, 2) /\ op' = [op EXCEPT ![Root] = c]
    /\ c.pc \in {"receive", "idle"} /\ (c.pc = "receive" => c.i \in DOMAIN Ps(Root))

LEMMA GatherKeeps ==
  ASSUME Inv, type = "GATHER", At(Root, "receive"), NEW c \in Call, NEW e \in End, Gathers(c, e),
         in[e][1] # FIN,
         NEW z \in 0..2, NEW b \in Nat, NEW m \in Nat,
         Seg(in[e], 0, b, m, z, Flow(e)), Ending(e, z), Written(e, m), b + 2 <= m,
         Carries(e), Read(e, b + 2)', got' \in [Proc -> [Proc -> Seq(Results)]],
         \A d \in End, n \in Nat : d # e /\ Carries(d) /\ Read(d, n) => Read(d, n)',
         Values'
  PROVE  Inv'
<1>1. /\ Typed /\ Members /\ Contexts /\ HandlesKept /\ Streams /\ Values /\ Ends
      /\ Root \in Proc /\ Worker \subseteq Proc /\ op[Root].pc = "receive"
  BY Kept, Team DEF At
<1>2. /\ UNCHANGED <<groupsReady, type, handle, ctx, coll, user, ready, sent>>
      /\ in' = Taken(e, 2) /\ op' = [op EXCEPT ![Root] = c]
      /\ c.pc \in {"receive", "idle"} /\ (c.pc = "receive" => c.i \in DOMAIN Ps(Root))
  BY DEF Gathers
<1>3. /\ op' \in [Proc -> Call] /\ op'[Root] = c /\ \A x \in Proc : x # Root => op'[x] = op[x]
  BY <1>1, <1>2 DEF Typed, TypeOK
<1>4. /\ \A x \in Proc : \A k \in {"create", "dead", "ended"} : At(x, k)' <=> At(x, k)
      /\ \A x \in Proc : Working(x)' <=> Working(x)
  BY <1>1, <1>2, <1>3 DEF At, Working
<1>5. /\ Dead' = Dead
      /\ \A w \in Worker : (Known(w)' <=> Known(w)) /\ (Among(w, Ps(Root))' <=> Among(w, Ps(Root)))
  BY <1>2, <1>4 DEF Dead, Known, Among, Ps
<1>6. Onward
  BY <1>1, <1>2, <1>4, <1>5 DEF Onward, Shut
<1>7. PICK n \in 1..2 : n = 2
  OBVIOUS
<1>8. /\ in'[e] = SubSeq(in[e], n + 1, Len(in[e]))
      /\ \A d \in End : d # e => in'[d] = in[d]
      /\ in' = [d \in End |-> in'[d]]
  BY <1>1, <1>2, <1>7, TakenData
<1>9. ASSUME NEW d \in End
      PROVE  Flow(d)' = Flow(d) /\ \A k \in Nat : Carries(d) /\ Written(d, k) => Written(d, k)'
  <2>1. Flow(d)' = Flow(d)
    BY <1>2 DEF Flow
  <2> QED BY <1>2, <2>1 DEF Written
<1>10. ASSUME NEW d \in End PROVE in'[d] \in Seq(Frame) /\ Stream(d)'
  <2>1. CASE d = e
    <3>1. b + n <= m /\ Read(e, b + n)'
      BY <1>7
    <3>2. Flow(e)' = Flow(e) /\ Written(e, m)'
      BY <1>9
    <3> QED BY <1>1, <1>6, <1>8, <2>1, <3>1, <3>2, TakeStream
  <2>2. CASE d # e
    <3>1. in'[d] = in[d] /\ in[d] \in Seq(Frame)
      BY <1>1, <1>8, <2>2, EndTypes
    <3>2. /\ \A k \in Nat : Carries(d) /\ Read(d, k) => Read(d, k)'
          /\ \A k \in Nat : Carries(d) /\ Written(d, k) => Written(d, k)'
          /\ Flow(d)' = Flow(d) /\ \A w \in Worker : d[2] = w /\ Known(w)' => Known(w)
      BY <1>5, <1>9, <2>2
    <3> QED BY <1>6, <3>1, <3>2, StreamKept
  <2> QED BY <2>1, <2>2
<1>11. Typed'
  <2>1. in' \in [End -> Seq(Frame)]
    BY <1>8, <1>10
  <2>2. \A x \in Proc : op'[x].pc \in {"probe", "receive"} => op'[x].i \in DOMAIN coll'[x].participants
    BY <1>1, <1>2, <1>3 DEF Typed, TypeOK, Ps
  <2> QED BY <1>1, <1>2, <1>3, <2>1, <2>2 DEF Typed, TypeOK, Results
<1>12. Members'
  <2>1. ASSUME NEW x \in Proc
        PROVE  /\ Ps(x)' = Ps(x) /\ (Working(x)' => Working(x))
               /\ ctx[x].closed_rd => ctx'[x].closed_rd
               /\ At(x, "create")' => At(x, "create") /\ Untouched(x)
    <3>1. At(x, "create") => x # Root
      BY <1>1 DEF At
    <3>2. x # Root => Untouched(x)
      BY <1>2, <1>3 DEF Untouched
    <3> QED BY <1>2, <1>4, <3>1, <3>2 DEF Ps
  <2> QED BY <1>2, <2>1, MembersKept
<1>13. Contexts'
  <2>1. ASSUME NEW x \in Proc PROVE ContextAt(x)'
    BY <1>1, <1>2, <1>3 DEF Contexts, ContextAt, At, CanReceive, CanSend
  <2> QED BY <1>1, <1>2, <2>1 DEF Contexts
<1>14. HandlesKept'
  <2>2. OthersSafe' /\ \A d \in End : (handle[d].life # "live" => handle[d].closed_rd /\ handle[d].closed_wr)'
    BY <1>1, <1>2, <1>5 DEF HandlesKept, OthersSafe
  <2>3. ASSUME NEW w \in Worker
        PROVE  /\ ~handle'[<<w, Root>>].closed_rd
               /\ ~Shut(<<Root, w>>)'
               /\ ~handle'[<<Root, w>>].closed_rd
               /\ Dead' = {} => \A x \in Worker : Shut(<<Root, w>>)' = Shut(<<Root, x>>)'
    BY <1>1, <1>2, <1>5 DEF HandlesKept, Shut, At
  <2> QED BY <1>1, <1>2, <2>2, <2>3 DEF HandlesKept
<1>15. Ends'
  <2>1. \A x \in Proc : At(x, "ended")' <=> At(x, "ended")
    BY <1>4
  <2>2. ~At(Root, "ended")'
    BY <1>2, <1>3 DEF At
  <2> QED BY <1>1, <1>2, <1>5, <2>1, <2>2 DEF Ends
<1> QED BY <1>10, <1>11, <1>12, <1>13, <1>14, <1>15 DEF Inv, Streams

LEMMA GatherValues ==
  ASSUME type' = "GATHER", op'[Root].pc = "receive",
         \A k \in 1..L' : got'[Root][Root][k] = [r \in 0..N |-> k],
         sent'[Root] = L' + 1, op'[Root].buff[Rank[Root]] = L' + 1,
         \A k \in 1..(op'[Root].i - 1) : op'[Root].buff[Rank[Ps(Root)'[k]]] = L' + 1,
         op'[Root].data => op'[Root].rank = Rank[Ps(Root)'[op'[Root].i]]
  PROVE  Values'
BY DEF Values, At

(* A rank has come.                                                        *)
LEMMA GatherRankKeeps ==
  ASSUME Inv, NEW p \in Proc, GatherTurn(p), p = Root, type = "GATHER", At(Root, "receive"),
         Next1(<<Root, Ps(Root)[op[Root].i]>>) = "hdr", ~op[Root].data
  PROVE  Inv'
<1>1. /\ Typed /\ Members /\ Values /\ Root \in Proc /\ op[Root] \in Call /\ op[Root].pc = "receive"
  BY Kept, Team, ProcTypes DEF At
<1>2. PICK i \in DOMAIN Ps(Root), e \in End, l \in Nat :
        /\ i = op[Root].i /\ e = <<Root, Ps(Root)[i]>> /\ e[1] = Root /\ e[2] = Ps(Root)[i]
        /\ e[2] \in Worker /\ Among(e[2], Ps(Root)) /\ Carries(e)
        /\ l = L /\ sent[Root] = l + 1 /\ l + 1 \in 0..MaxSend
        /\ \A b \in Nat : Read(e, b) => b = 4 * l + (IF op[Root].data THEN 2 ELSE 0)
  BY Gathering
<1>3. /\ UNCHANGED <<groupsReady, type, handle, ctx, coll, user, ready, sent, got>>
      /\ in[e] # <<>> /\ in[e][1].t = "hdr" /\ in' = Taken(e, 2)
      /\ op' = [op EXCEPT ![Root].rank = in[e][1].v, ![Root].data = TRUE]
  BY <1>2 DEF GatherTurn, Next1, Ps
<1>4. PICK x \in 0..1 : x = 0
  OBVIOUS
<1>5. /\ in[e][1] = Header(Rank[e[2]])
      /\ \E z \in 0..2, b \in Nat, m \in Nat :
           /\ Seg(in[e], 0, b, m, z, Flow(e)) /\ Ending(e, z) /\ Read(e, b) /\ Written(e, m)
           /\ b + 2 <= m
  <2>1. \A b \in Nat : Read(e, b) => b = 4 * l + 2 * x
    BY <1>2, <1>4
  <2>2. /\ in[e][1] = (IF x = 1 THEN Header(l + 1) ELSE Header(Rank[e[2]]))
        /\ \E z \in 0..2, b \in Nat, m \in Nat :
             /\ Seg(in[e], 0, b, m, z, Flow(e)) /\ Ending(e, z) /\ Read(e, b) /\ Written(e, m)
             /\ b + 2 <= m
    BY <1>2, <1>3, <2>1, GatherHead
  <2> QED BY <1>4, <2>2
<1>6. PICK z \in 0..2, b \in Nat, m \in Nat :
        /\ Seg(in[e], 0, b, m, z, Flow(e)) /\ Ending(e, z) /\ Read(e, b) /\ Written(e, m)
        /\ b + 2 <= m
  BY <1>5
<1>7. PICK r \in 0..N : r = in[e][1].v /\ r = Rank[e[2]]
  <2>1. Rank[e[2]] \in 0..N
    BY <1>2, TeamAssumption, Team
  <2>2. in[e][1].v = Rank[e[2]]
    BY <1>5, Kinds
  <2> QED BY <2>1, <2>2
<1>8. PICK d \in Call : d = op[Root]
  BY <1>1
<1>9. PICK c : c = [d EXCEPT !.rank = r, !.data = TRUE]
  OBVIOUS
<1>10. /\ c \in Call /\ c.pc = d.pc /\ c.i = d.i /\ c.rank = r /\ c.data = TRUE /\ c.buff = d.buff
  BY <1>9 DEF Call
<1>11. op' = [op EXCEPT ![Root] = c]
  BY <1>3, <1>7, <1>8, <1>9
<1>12. op'[Root] = c
  BY <1>1, <1>11 DEF Typed, TypeOK
<1>13. c.pc = "receive" /\ c.i = i
  BY <1>1, <1>2, <1>8, <1>10
<1>14. Gathers(c, e)
  BY <1>2, <1>3, <1>11, <1>13 DEF Gathers
<1>15. in[e][1] # FIN
  BY <1>5, Kinds
<1>16. ASSUME NEW k \in DOMAIN Ps(Root) PROVE k \in Int
  BY <1>1, LenProperties DEF Members
<1>17. Read(e, b + 2)'
  <2>1. b = 4 * l
    BY <1>2, <1>6
  <2>2. \A k \in DOMAIN Ps(Root) : Ps(Root)[k] = e[2] => k = i
    BY <1>1, <1>2 DEF Members, IsInjective
  <2>3. L' = l /\ Ps(Root)' = Ps(Root) /\ type' = "GATHER"
    BY <1>2, <1>3 DEF L, From, Ps
  <2>4. \A k \in DOMAIN Ps(Root) : Ps(Root)[k] = e[2] =>
          b + 2 = 4 * l + (IF k < i THEN 4 ELSE IF k = i /\ TRUE THEN 2 ELSE 0)
    BY <1>16, <2>1, <2>2
  <2> QED BY <1>10, <1>12, <1>13, <2>3, <2>4 DEF Read, At
<1>18. ASSUME NEW y \in End, NEW n \in Nat, y # e, Carries(y), Read(y, n) PROVE Read(y, n)'
  <2>1. y[1] = Root /\ y[2] # e[2]
    BY <1>2, <1>18, Connections DEF Carries
  <2>2. L' = L /\ Ps(Root)' = Ps(Root) /\ type' = "GATHER"
    BY <1>3 DEF L, From, Ps
  <2>3. \A k \in DOMAIN Ps(Root) : Ps(Root)[k] = y[2] =>
          n = 4 * L + (IF k < i THEN 4 ELSE IF k = i /\ op[Root].data THEN 2 ELSE 0)
    BY <1>2, <1>18 DEF Read
  <2>4. Ps(Root)[i] # y[2]
    BY <1>2, <2>1
  <2>5. \A k \in DOMAIN Ps(Root) : Ps(Root)[k] = y[2] =>
          n = 4 * L + (IF k < i THEN 4 ELSE IF k = i /\ TRUE THEN 2 ELSE 0)
    BY <2>3, <2>4
  <2> QED BY <1>10, <1>12, <1>13, <2>2, <2>5 DEF Read, At
<1>19. Values'
  <2>1. L' = L /\ Ps(Root)' = Ps(Root)
    BY <1>3 DEF L, From, Ps
  <2>2. /\ sent[Root] = L + 1 /\ d.buff[Rank[Root]] = L + 1
        /\ \A k \in 1..(i - 1) : d.buff[Rank[Ps(Root)[k]]] = L + 1
    BY <1>1, <1>2, <1>8 DEF Values
  <2>3. \A k \in 1..L : got[Root][Root][k] = [y \in 0..N |-> k]
    BY <1>1 DEF Values
  <2>4. type' = "GATHER" /\ got' = got /\ sent' = sent
    BY <1>3
  <2>5. \A k \in 1..L' : got'[Root][Root][k] = [y \in 0..N |-> k]
    BY <2>1, <2>3, <2>4
  <2>6. sent'[Root] = L' + 1 /\ op'[Root].buff[Rank[Root]] = L' + 1
    BY <1>10, <1>12, <2>1, <2>2, <2>4
  <2>7. \A k \in 1..(op'[Root].i - 1) : op'[Root].buff[Rank[Ps(Root)'[k]]] = L' + 1
    BY <1>10, <1>12, <1>13, <2>1, <2>2
  <2>8. op'[Root].rank = Rank[Ps(Root)'[op'[Root].i]]
    BY <1>2, <1>7, <1>10, <1>12, <1>13, <2>1
  <2>9. op'[Root].pc = "receive"
    BY <1>12, <1>13
  <2> QED BY <2>4, <2>5, <2>6, <2>7, <2>8, <2>9, GatherValues
<1>20. got' \in [Proc -> [Proc -> Seq(Results)]]
  BY <1>1, <1>3 DEF Typed
<1> QED BY <1>2, <1>6, <1>10, <1>14, <1>15, <1>17, <1>18, <1>19, <1>20, GatherKeeps

(* The data of a participant that is not the last has come.                *)
LEMMA GatherNextKeeps ==
  ASSUME Inv, NEW p \in Proc, GatherTurn(p), p = Root, type = "GATHER", At(Root, "receive"),
         Next1(<<Root, Ps(Root)[op[Root].i]>>) = "hdr", op[Root].data,
         op[Root].i < Len(Ps(Root))
  PROVE  Inv'
<1>1. /\ Typed /\ Members /\ Values /\ Root \in Proc /\ op[Root] \in Call /\ op[Root].pc = "receive"
  BY Kept, Team, ProcTypes DEF At
<1>2. PICK i \in DOMAIN Ps(Root), e \in End, l \in Nat :
        /\ i = op[Root].i /\ e = <<Root, Ps(Root)[i]>> /\ e[1] = Root /\ e[2] = Ps(Root)[i]
        /\ e[2] \in Worker /\ Among(e[2], Ps(Root)) /\ Carries(e)
        /\ l = L /\ sent[Root] = l + 1 /\ l + 1 \in 0..MaxSend
        /\ \A b \in Nat : Read(e, b) => b = 4 * l + (IF op[Root].data THEN 2 ELSE 0)
  BY Gathering
<1>0. UNCHANGED <<groupsReady, type, handle, ctx, coll, user, ready, sent, got>>
  BY <1>2 DEF GatherTurn, Next1, Ps
<1>3. /\ in[e] # <<>> /\ in[e][1].t = "hdr" /\ in' = Taken(e, 2)
      /\ op' = [op EXCEPT ![Root].buff = [op[Root].buff EXCEPT ![op[Root].rank] = in[e][1].v],
                          ![Root].data = FALSE, ![Root].i = i + 1]
  BY <1>2 DEF GatherTurn, Next1, Ps
<1>4. PICK x \in 0..1 : x = 1
  OBVIOUS
<1>5. /\ in[e][1] = Header(l + 1)
      /\ \E z \in 0..2, b \in Nat, m \in Nat :
           /\ Seg(in[e], 0, b, m, z, Flow(e)) /\ Ending(e, z) /\ Read(e, b) /\ Written(e, m)
           /\ b + 2 <= m
  <2>1. \A b \in Nat : Read(e, b) => b = 4 * l + 2 * x
    BY <1>2, <1>4
  <2>2. /\ in[e][1] = (IF x = 1 THEN Header(l + 1) ELSE Header(Rank[e[2]]))
        /\ \E z \in 0..2, b \in Nat, m \in Nat :
             /\ Seg(in[e], 0, b, m, z, Flow(e)) /\ Ending(e, z) /\ Read(e, b) /\ Written(e, m)
             /\ b + 2 <= m
    <3>1. in[e] # <<>> /\ in[e][1].t = "hdr"
      BY <1>3
    <3>2. e[1] = Root /\ e[2] \in Worker /\ Among(e[2], Ps(Root))
      BY <1>2
    <3> QED BY <2>1, <3>1, <3>2, GatherHead
  <2> QED BY <1>4, <2>2
<1>6. PICK z \in 0..2, b \in Nat, m \in Nat :
        /\ Seg(in[e], 0, b, m, z, Flow(e)) /\ Ending(e, z) /\ Read(e, b) /\ Written(e, m)
        /\ b + 2 <= m
  BY <1>5
<1>7. PICK v \in 0..MaxSend : v = in[e][1].v /\ v = l + 1
  <2>1. in[e][1].v = l + 1
    BY <1>5, Kinds
  <2> QED BY <1>2, <2>1
<1>8. PICK d \in Call : d = op[Root]
  BY <1>1
<1>9. PICK g \in [0..N -> 0..MaxSend] : g = d.buff
  BY DEF Call
<1>10. PICK r \in 0..N : r = d.rank /\ r = Rank[e[2]]
  <2>1. d.rank \in 0..N
    BY DEF Call
  <2>2. d.rank = Rank[e[2]]
    BY <1>1, <1>2, <1>8 DEF Values, At
  <2> QED BY <2>1, <2>2
<1>11. PICK f \in [0..N -> 0..MaxSend] :
         /\ f = [g EXCEPT ![r] = v] /\ f[r] = v /\ \A y \in 0..N : y # r => f[y] = g[y]
  <2>1. PICK f : f = [g EXCEPT ![r] = v]
    OBVIOUS
  <2>2. f \in [0..N -> 0..MaxSend] /\ f[r] = v
    BY <2>1
  <2>3. \A y \in 0..N : y # r => f[y] = g[y]
    BY <2>1
  <2> QED BY <2>1, <2>2, <2>3
<1>12. PICK k1 \in Nat : k1 = i + 1 /\ k1 \in DOMAIN Ps(Root)
  <2>1. i \in 1..Len(Ps(Root)) /\ Len(Ps(Root)) \in Nat /\ DOMAIN Ps(Root) = 1..Len(Ps(Root))
    BY <1>1, LenProperties DEF Members
  <2> QED BY <1>2, <2>1
<1>13. PICK c : c = [d EXCEPT !.buff = f, !.data = FALSE, !.i = k1]
  OBVIOUS
<1>14. /\ c \in Call /\ c.pc = d.pc /\ c.i = k1 /\ c.data = FALSE /\ c.buff = f
  BY <1>13 DEF Call
<1>15. op' = [op EXCEPT ![Root] = c]
  <2>1. op' = [op EXCEPT ![Root].buff = [op[Root].buff EXCEPT ![op[Root].rank] = in[e][1].v],
                         ![Root].data = FALSE, ![Root].i = i + 1]
    BY <1>3
  <2>2. f = [op[Root].buff EXCEPT ![op[Root].rank] = in[e][1].v] /\ d = op[Root] /\ k1 = i + 1
    BY <1>7, <1>8, <1>9, <1>10, <1>11, <1>12
  <2>3. op' = [op EXCEPT ![Root].buff = f, ![Root].data = FALSE, ![Root].i = k1]
    BY <2>1, <2>2, ZenonT(60)
  <2> QED BY <1>13, <2>2, <2>3, ZenonT(60)
<1>16. op'[Root] = c
  BY <1>1, <1>15 DEF Typed, TypeOK
<1>17. c.pc = "receive" /\ c.i = i + 1
  BY <1>1, <1>8, <1>12, <1>14
<1>18. Gathers(c, e)
  BY <1>0, <1>3, <1>12, <1>14, <1>15, <1>17 DEF Gathers
<1>19. in[e][1] # FIN
  BY <1>5, Kinds
<1>20. ASSUME NEW k \in DOMAIN Ps(Root) PROVE k \in Int
  BY <1>1, LenProperties DEF Members
<1>21. Read(e, b + 2)'
  <2>1. b + 2 = 4 * l + 4
    <3>1. b = 4 * l + 2
      BY <1>2, <1>6
    <3> QED BY <3>1
  <2>2. \A k \in DOMAIN Ps(Root) : Ps(Root)[k] = e[2] => k = i
    BY <1>1, <1>2 DEF Members, IsInjective
  <2>3. L' = l /\ Ps(Root)' = Ps(Root) /\ type' = "GATHER"
    BY <1>0, <1>2 DEF L, From, Ps
  <2>4. \A k \in DOMAIN Ps(Root) : Ps(Root)[k] = e[2] =>
          b + 2 = 4 * l + (IF k < i + 1 THEN 4 ELSE IF k = i + 1 /\ FALSE THEN 2 ELSE 0)
    BY <1>20, <2>1, <2>2
  <2> QED BY <1>14, <1>16, <1>17, <2>3, <2>4 DEF Read, At
<1>22. ASSUME NEW y \in End, NEW n \in Nat, y # e, Carries(y), Read(y, n) PROVE Read(y, n)'
  <2>1. y[1] = Root /\ y[2] # e[2]
    BY <1>2, <1>22, Connections DEF Carries
  <2>2. L' = L /\ Ps(Root)' = Ps(Root) /\ type' = "GATHER"
    BY <1>0 DEF L, From, Ps
  <2>3. \A k \in DOMAIN Ps(Root) : Ps(Root)[k] = y[2] =>
          n = 4 * L + (IF k < i THEN 4 ELSE IF k = i /\ op[Root].data THEN 2 ELSE 0)
    BY <1>2, <1>22 DEF Read
  <2>4. Ps(Root)[i] # y[2]
    BY <1>2, <2>1
  <2>5. ASSUME NEW k \in DOMAIN Ps(Root), Ps(Root)[k] = y[2]
        PROVE  n = 4 * L + (IF k < i + 1 THEN 4 ELSE IF k = i + 1 /\ FALSE THEN 2 ELSE 0)
    <3>1. k # i /\ k \in Int /\ i \in Int
      BY <1>20, <2>4, <2>5
    <3>2. n = 4 * L + (IF k < i THEN 4 ELSE 0)
      BY <2>3, <2>5, <3>1
    <3>3. k < i <=> k < i + 1
      BY <3>1
    <3> QED BY <3>2, <3>3
  <2> QED BY <1>14, <1>16, <1>17, <2>2, <2>5 DEF Read, At
<1>23. Values'
  <2>1. L' = l /\ Ps(Root)' = Ps(Root)
    BY <1>0, <1>2 DEF L, From, Ps
  <2>2. /\ sent[Root] = l + 1 /\ g[Rank[Root]] = l + 1
        /\ \A k \in 1..(i - 1) : g[Rank[Ps(Root)[k]]] = l + 1
    BY <1>1, <1>2, <1>8, <1>9 DEF Values
  <2>3. \A k \in 1..l : got[Root][Root][k] = [y \in 0..N |-> k]
    BY <1>1, <1>2 DEF Values
  <2>4. Rank[Root] \in 0..N
    BY <1>1, TeamAssumption
  <2>5. f[Rank[Root]] = l + 1
    BY <1>7, <1>11, <2>2, <2>4
  <2>6. ASSUME NEW k \in 1..(i + 1 - 1) PROVE f[Rank[Ps(Root)[k]]] = l + 1
    <3>0. i \in 1..Len(Ps(Root)) /\ Len(Ps(Root)) \in Nat
      BY <1>1, LenProperties DEF Members
    <3>1. k \in DOMAIN Ps(Root) /\ (k = i \/ k \in 1..(i - 1))
      BY <1>1, <3>0, LenProperties DEF Members
    <3>2. Rank[Ps(Root)[k]] \in 0..N
      <4>1. Ps(Root)[k] \in Proc
        BY <1>1, <3>1, ElementOfSeq, LenProperties, Team DEF Members
      <4> QED BY <4>1, TeamAssumption
    <3> QED BY <1>2, <1>7, <1>10, <1>11, <2>2, <3>1, <3>2
  <2>7. type' = "GATHER" /\ got' = got /\ sent' = sent
    BY <1>0
  <2>8. \A k \in 1..L' : got'[Root][Root][k] = [y \in 0..N |-> k]
    BY <2>1, <2>3, <2>7
  <2>9. sent'[Root] = L' + 1 /\ op'[Root].buff[Rank[Root]] = L' + 1
    BY <1>14, <1>16, <2>1, <2>2, <2>5, <2>7
  <2>10. \A k \in 1..(op'[Root].i - 1) : op'[Root].buff[Rank[Ps(Root)'[k]]] = L' + 1
    <3>1. op'[Root].buff = f /\ op'[Root].i = i + 1
      BY <1>14, <1>16, <1>17
    <3> QED BY <2>1, <2>6, <3>1
  <2>11. ~op'[Root].data /\ op'[Root].pc = "receive"
    BY <1>14, <1>16, <1>17
  <2> QED BY <2>7, <2>8, <2>9, <2>10, <2>11, GatherValues
<1>24. got' \in [Proc -> [Proc -> Seq(Results)]]
  BY <1>0, <1>1 DEF Typed
<1> QED BY <1>2, <1>6, <1>14, <1>18, <1>19, <1>21, <1>22, <1>23, <1>24, GatherKeeps

(* A round is complete.                                                    *)
GotOne(p, v) == got' = [got EXCEPT ![p][p] = Append(@, v)]

LEMMA GotRound ==
  ASSUME Typed, NEW v \in Results, GotOne(Root, v)
  PROVE  /\ got' \in [Proc -> [Proc -> Seq(Results)]] /\ L \in Nat /\ L' = L + 1
         /\ \A k \in 1..L : got'[Root][Root][k] = got[Root][Root][k]
         /\ got'[Root][Root][L + 1] = v
<1>1. PICK p \in Proc, q \in Proc : p = Root /\ q = Root
  BY Team
<1>2. got' = [got EXCEPT ![p][q] = Append(@, v)]
  BY <1>1 DEF GotOne
<1>3. /\ got' \in [Proc -> [Proc -> Seq(Results)]]
      /\ got'[p][q] = Append(got[p][q], v) /\ From(p, q) \in Nat /\ From(p, q)' = From(p, q) + 1
      /\ DOMAIN got[p][q] = 1..From(p, q) /\ DOMAIN got'[p][q] = 1..(From(p, q) + 1)
      /\ \A k \in 1..From(p, q) : got'[p][q][k] = got[p][q][k]
      /\ got'[p][q][From(p, q) + 1] = v
      /\ \A x \in Proc, y \in Proc : x # p \/ y # q => got'[x][y] = got[x][y] /\ From(x, y)' = From(x, y)
  BY <1>2, GotMore
<1> QED BY <1>1, <1>3 DEF L

(* The data of the last participant has come: the round is complete.       *)
LEMMA GatherLastKeeps ==
  ASSUME Inv, NEW p \in Proc, GatherTurn(p), p = Root, type = "GATHER", At(Root, "receive"),
         Next1(<<Root, Ps(Root)[op[Root].i]>>) = "hdr", op[Root].data,
         ~(op[Root].i < Len(Ps(Root)))
  PROVE  Inv'
<1>1. /\ Typed /\ Members /\ Values /\ Root \in Proc /\ op[Root] \in Call /\ op[Root].pc = "receive"
  BY Kept, Team, ProcTypes DEF At
<1>2. PICK i \in DOMAIN Ps(Root), e \in End, l \in Nat :
        /\ i = op[Root].i /\ e = <<Root, Ps(Root)[i]>> /\ e[1] = Root /\ e[2] = Ps(Root)[i]
        /\ e[2] \in Worker /\ Among(e[2], Ps(Root)) /\ Carries(e)
        /\ l = L /\ sent[Root] = l + 1 /\ l + 1 \in 0..MaxSend
        /\ \A b \in Nat : Read(e, b) => b = 4 * l + (IF op[Root].data THEN 2 ELSE 0)
  BY Gathering
<1>0. UNCHANGED <<groupsReady, type, handle, ctx, coll, user, ready, sent>>
  BY <1>2 DEF GatherTurn, Next1, Ps
<1>3. /\ in[e] # <<>> /\ in[e][1].t = "hdr" /\ in' = Taken(e, 2) /\ Return(Root, "idle")
      /\ got' = [got EXCEPT ![Root][Root] =
                   Append(@, [op[Root].buff EXCEPT ![op[Root].rank] = in[e][1].v])]
  BY <1>2 DEF GatherTurn, Next1, Ps
<1>4. PICK o \in 0..1 : o = 1
  OBVIOUS
<1>5. /\ in[e][1] = Header(l + 1)
      /\ \E z \in 0..2, b \in Nat, m \in Nat :
           /\ Seg(in[e], 0, b, m, z, Flow(e)) /\ Ending(e, z) /\ Read(e, b) /\ Written(e, m)
           /\ b + 2 <= m
  <2>1. \A b \in Nat : Read(e, b) => b = 4 * l + 2 * o
    BY <1>2, <1>4
  <2>2. /\ in[e][1] = (IF o = 1 THEN Header(l + 1) ELSE Header(Rank[e[2]]))
        /\ \E z \in 0..2, b \in Nat, m \in Nat :
             /\ Seg(in[e], 0, b, m, z, Flow(e)) /\ Ending(e, z) /\ Read(e, b) /\ Written(e, m)
             /\ b + 2 <= m
    <3>1. in[e] # <<>> /\ in[e][1].t = "hdr"
      BY <1>3
    <3>2. e[1] = Root /\ e[2] \in Worker /\ Among(e[2], Ps(Root))
      BY <1>2
    <3> QED BY <2>1, <3>1, <3>2, GatherHead
  <2> QED BY <1>4, <2>2
<1>6. PICK z \in 0..2, b \in Nat, m \in Nat :
        /\ Seg(in[e], 0, b, m, z, Flow(e)) /\ Ending(e, z) /\ Read(e, b) /\ Written(e, m)
        /\ b + 2 <= m
  BY <1>5
<1>7. PICK v \in 0..MaxSend : v = in[e][1].v /\ v = l + 1
  <2>1. in[e][1].v = l + 1
    BY <1>5, Kinds
  <2> QED BY <1>2, <2>1
<1>8. PICK d \in Call : d = op[Root]
  BY <1>1
<1>9. PICK g \in [0..N -> 0..MaxSend] : g = d.buff
  BY DEF Call
<1>10. PICK r \in 0..N : r = d.rank /\ r = Rank[e[2]]
  <2>1. d.rank \in 0..N
    BY DEF Call
  <2>2. d.rank = Rank[e[2]]
    BY <1>1, <1>2, <1>8 DEF Values, At
  <2> QED BY <2>1, <2>2
<1>11. PICK f \in [0..N -> 0..MaxSend] :
         /\ f = [g EXCEPT ![r] = v] /\ f[r] = v /\ \A y \in 0..N : y # r => f[y] = g[y]
  <2>1. PICK f : f = [g EXCEPT ![r] = v]
    OBVIOUS
  <2>2. f \in [0..N -> 0..MaxSend] /\ f[r] = v
    BY <2>1
  <2>3. \A y \in 0..N : y # r => f[y] = g[y]
    BY <2>1
  <2> QED BY <2>1, <2>2, <2>3
<1>12. ASSUME NEW k \in DOMAIN Ps(Root) PROVE k \in Int /\ k <= i /\ k >= 1
  <2>1. i \in 1..Len(Ps(Root)) /\ Len(Ps(Root)) \in Nat /\ DOMAIN Ps(Root) = 1..Len(Ps(Root))
    BY <1>1, LenProperties DEF Members
  <2>2. ~(i < Len(Ps(Root)))
    BY <1>2
  <2> QED BY <2>1, <2>2
<1>13. \A w \in Worker : Among(w, Ps(Root))
  BY <1>1 DEF Members, Working
<1>14. f = [y \in 0..N |-> l + 1]
  <2>1. ASSUME NEW y \in 0..N PROVE f[y] = l + 1
    <3>1. PICK q \in Proc : Rank[q] = y
      BY AllRanked
    <3>2. CASE y = r
      BY <1>7, <1>11, <3>2
    <3>3. CASE q = Root
      <4>1. g[y] = l + 1
        BY <1>1, <1>2, <1>8, <1>9, <3>1, <3>3 DEF Values
      <4> QED BY <1>7, <1>11, <4>1
    <3>4. CASE q \in Worker /\ y # r
      <4>1. PICK k \in DOMAIN Ps(Root) : Ps(Root)[k] = q
        BY <1>13, <3>4 DEF Among
      <4>2. k # i
        BY <1>2, <1>10, <3>1, <3>4, <4>1
      <4>3. k \in 1..(i - 1)
        BY <1>12, <4>2
      <4>4. g[Rank[Ps(Root)[k]]] = l + 1
        BY <1>1, <1>2, <1>8, <1>9, <4>3 DEF Values
      <4> QED BY <1>11, <3>1, <3>4, <4>1, <4>4
    <3> QED BY <3>2, <3>3, <3>4, Team
  <2> QED BY <2>1
<1>15. PICK u \in Results : u = f
  BY DEF Results
<1>16. got' = [got EXCEPT ![Root][Root] = Append(@, u)]
  BY <1>3, <1>7, <1>8, <1>9, <1>10, <1>11, <1>15
<1>17. Typed
  BY <1>1
<1>18. /\ got' \in [Proc -> [Proc -> Seq(Results)]] /\ L \in Nat /\ L' = L + 1
       /\ \A k \in 1..L : got'[Root][Root][k] = got[Root][Root][k]
       /\ got'[Root][Root][L + 1] = u
  <2>1. GotOne(Root, u)
    BY <1>16 DEF GotOne
  <2> QED BY <1>17, <2>1, GotRound
<1>19. L' = l + 1
  BY <1>2, <1>18
<1>20. PICK c : c = [Idle EXCEPT !.pc = "idle"]
  OBVIOUS
<1>21. c \in Call /\ c.pc = "idle" /\ op' = [op EXCEPT ![Root] = c]
  BY <1>3, <1>20, IdleCall DEF Return
<1>22. op'[Root] = c
  BY <1>1, <1>21 DEF Typed, TypeOK
<1>23. Gathers(c, e)
  BY <1>0, <1>3, <1>21 DEF Gathers
<1>24. in[e][1] # FIN
  BY <1>5, Kinds
<1>25. Read(e, b + 2)'
  <2>0. b = 4 * l + 2
    BY <1>2, <1>6
  <2>1. b + 2 = 4 * (l + 1)
    BY <2>0
  <2>2. type' = "GATHER" /\ op'[Root].pc = "idle"
    BY <1>0, <1>21, <1>22
  <2> QED BY <1>19, <2>1, <2>2 DEF Read, At
<1>26. ASSUME NEW y \in End, NEW n \in Nat, y # e, Carries(y), Read(y, n) PROVE Read(y, n)'
  <2>1. y[1] = Root /\ y[2] # e[2] /\ y[2] \in Worker
    BY <1>2, <1>26, Connections DEF Carries
  <2>2. PICK k \in DOMAIN Ps(Root) : Ps(Root)[k] = y[2]
    BY <1>13, <2>1 DEF Among
  <2>3. n = 4 * l + (IF k < i THEN 4 ELSE IF k = i /\ op[Root].data THEN 2 ELSE 0)
    BY <1>2, <1>26, <2>2 DEF Read
  <2>4. k # i
    BY <1>2, <2>1, <2>2
  <2>5. k < i
    <3>1. i \in Int
      BY <1>12
    <3> QED BY <1>12, <2>4, <3>1
  <2>6. n = 4 * (l + 1)
    BY <2>3, <2>5
  <2>7. type' = "GATHER" /\ op'[Root].pc = "idle"
    BY <1>0, <1>21, <1>22
  <2> QED BY <1>19, <2>6, <2>7 DEF Read, At
<1>27. Values'
  <2>1. type' = "GATHER" /\ op'[Root].pc = "idle" /\ sent' = sent
    BY <1>0, <1>21, <1>22
  <2>2. \A k \in 1..l : got[Root][Root][k] = [y \in 0..N |-> k]
    BY <1>1, <1>2 DEF Values
  <2>3. L = l
    BY <1>2
  <2>4. ASSUME NEW k \in 1..(l + 1) PROVE got'[Root][Root][k] = [y \in 0..N |-> k]
    <3>1. CASE k = l + 1
      BY <1>14, <1>15, <1>18, <2>3, <3>1
    <3>2. CASE k # l + 1
      <4>1. k \in 1..l
        BY <3>2
      <4> QED BY <1>18, <2>2, <2>3, <4>1
    <3> QED BY <3>1, <3>2
  <2>5. \A k \in 1..L' : got'[Root][Root][k] = [y \in 0..N |-> k]
    BY <1>19, <2>4
  <2>6. sent'[Root] = L'
    BY <1>2, <1>19, <2>1
  <2> QED BY <2>1, <2>5, <2>6 DEF Values, At
<1>28. got' \in [Proc -> [Proc -> Seq(Results)]]
  BY <1>18
<1> QED BY <1>2, <1>6, <1>21, <1>23, <1>24, <1>25, <1>26, <1>27, <1>28, GatherKeeps

(* A connection of the gather has ended.                                   *)
LEMMA GatherEndKeeps ==
  ASSUME Inv, NEW p \in Proc, GatherTurn(p), p = Root, type = "GATHER", At(Root, "receive"),
         Next1(<<Root, Ps(Root)[op[Root].i]>>) # "hdr"
  PROVE  Inv'
<1>1. /\ Typed /\ Members /\ Contexts /\ HandlesKept /\ Streams /\ Values /\ Ends
      /\ Root \in Proc /\ Worker \subseteq Proc /\ op[Root].pc = "receive"
  BY Kept, Team DEF At
<1>2. PICK i \in DOMAIN Ps(Root), e \in End, l \in Nat :
        /\ i = op[Root].i /\ e = <<Root, Ps(Root)[i]>> /\ e[1] = Root /\ e[2] = Ps(Root)[i]
        /\ e[2] \in Worker /\ Among(e[2], Ps(Root)) /\ Carries(e)
        /\ l = L /\ sent[Root] = l + 1 /\ l + 1 \in 0..MaxSend
        /\ \A b \in Nat : Read(e, b) => b = 4 * l + (IF op[Root].data THEN 2 ELSE 0)
  BY Gathering
<1>3. UNCHANGED <<groupsReady, type, ctx, coll, user, ready, sent, got>>
  BY <1>2 DEF GatherTurn, Next1, Ps
<1>4. /\ in[e] # <<>> /\ in[e][1].t # "hdr" /\ Return(Root, "ended")
      /\ in' = Closed(Taken(e, 1), {e}, ClosesWrite(in[e][1].t))
      /\ handle' = Marked({e}, ClosesWrite(in[e][1].t), TRUE)
  BY <1>2 DEF GatherTurn, Next1, Ps
<1>5. in[e][1].t \in {"eos", "fin"}
  <2>1. ASSUME NEW b \in Nat, Carries(e), Read(e, b) PROVE \E j \in Nat : b = 2 * j
    <3>1. PICK x \in 0..1 : 2 * x = IF op[Root].data THEN 2 ELSE 0
      <4>1. op[Root].data => 2 * 1 = IF op[Root].data THEN 2 ELSE 0
        OBVIOUS
      <4>2. ~op[Root].data => 2 * 0 = IF op[Root].data THEN 2 ELSE 0
        OBVIOUS
      <4> QED BY <4>1, <4>2
    <3>2. b = 4 * l + 2 * x
      BY <1>2, <2>1, <3>1
    <3>3. 2 * l + x \in Nat /\ b = 2 * (2 * l + x)
      BY <3>2
    <3> QED BY <3>3
  <2>2. in[e][1].t \in {"hdr", "eos", "fin"}
    BY <1>2, <1>4, <2>1, HeaderOrEnd
  <2> QED BY <1>4, <2>2
<1>6. PICK z \in 1..2, b \in Nat :
        /\ Seg(in[e], 0, b, b, z, Flow(e)) /\ Ending(e, z)
        /\ Read(e, b) /\ Written(e, b)
        /\ in[e][1].t = "eos" => z = 2 /\ in[e][1] = EOS /\ in[e][1] # FIN
        /\ in[e][1].t = "fin" => z = 1 /\ in[e][1] = FIN
  <2>1. \E z \in 1..2, b \in Nat :
           /\ Seg(in[e], 0, b, b, z, Flow(e)) /\ Ending(e, z)
           /\ IF Carries(e) THEN Read(e, b) /\ Written(e, b) ELSE b = 0
           /\ in[e][1].t = "eos" => z = 2 /\ in[e][1] = EOS /\ in[e][1] # FIN
           /\ in[e][1].t = "fin" => z = 1 /\ in[e][1] = FIN
    BY <1>2, <1>4, <1>5, AtEnd
  <2> QED BY <1>2, <2>1
<1>7. Dead = {} => in[e][1].t = "eos"
  <2>1. Dead = {} /\ z = 1 => At(Root, "ended")
    BY <1>2, <1>6 DEF Ending
  <2> QED BY <1>1, <1>5, <1>6, <2>1 DEF At
<1>8. PICK h \in HandleState : h = handle[e] /\ ~h.closed_wr /\ ~h.closed_rd /\ h.life = "live"
  <2>1. ~Shut(e) /\ ~handle[e].closed_rd
    BY <1>1, <1>2 DEF HandlesKept, At
  <2> QED BY <1>1, <2>1, EndTypes DEF HandlesKept, Shut
<1>9. PICK r \in HandleState :
        /\ handle' = [d \in End |-> IF d \in {e} THEN r ELSE handle[d]]
        /\ r.closed_rd
        /\ in[e][1].t = "eos" => ~r.closed_wr /\ r.life = "live"
        /\ in[e][1].t = "fin" => r.closed_wr /\ r.life = "freed"
  <2>1. CASE in[e][1].t = "eos"
    <3>1. PICK r \in HandleState : r = Mark(h, FALSE, TRUE) /\ r.closed_wr = h.closed_wr /\ r.closed_rd /\ r.life = (IF h.closed_wr THEN "freed" ELSE "live")
      <4>1. \E m \in HandleState :
             /\ m = Mark(h, FALSE, TRUE)
             /\ h.life = "live" => m.closed_wr = h.closed_wr /\ m.closed_rd /\ m.life = (IF h.closed_wr THEN "freed" ELSE "live")
             /\ h.life # "live" => /\ m.closed_wr = h.closed_wr /\ m.closed_rd = h.closed_rd
                                   /\ m.life = "used"
        BY MarkRd
      <4> QED BY <1>8, <4>1
    <3>2. ClosesWrite(in[e][1].t) = FALSE
      BY <2>1 DEF ClosesWrite
    <3>3. handle' = [d \in End |-> IF d \in {e} THEN r ELSE handle[d]]
      BY <1>4, <1>8, <3>1, <3>2 DEF Marked
    <3> QED BY <1>8, <2>1, <3>1, <3>3
  <2>2. CASE in[e][1].t = "fin"
    <3>1. PICK r \in HandleState : r = Mark(h, TRUE, TRUE) /\ r.closed_wr /\ r.closed_rd /\ r.life = "freed"
      <4>1. \E m \in HandleState :
             /\ m = Mark(h, TRUE, TRUE)
             /\ h.life = "live" => m.closed_wr /\ m.closed_rd /\ m.life = "freed"
             /\ h.life # "live" => /\ m.closed_wr = h.closed_wr /\ m.closed_rd = h.closed_rd
                                   /\ m.life = "used"
        BY MarkBoth
      <4> QED BY <1>8, <4>1
    <3>2. ClosesWrite(in[e][1].t) = TRUE
      BY <2>2 DEF ClosesWrite
    <3>3. handle' = [d \in End |-> IF d \in {e} THEN r ELSE handle[d]]
      BY <1>4, <1>8, <3>1, <3>2 DEF Marked
    <3> QED BY <2>2, <3>1, <3>3
  <2> QED BY <1>5, <2>1, <2>2
<1>10. /\ handle' \in [End -> HandleState] /\ \A d \in End : d # e => handle'[d] = handle[d]
       /\ handle'[e] = r
  BY <1>1, <1>9 DEF Typed, TypeOK
<1>11. /\ op' \in [Proc -> Call] /\ op'[Root].pc = "ended" /\ \A y \in Proc : y # Root => op'[y] = op[y]
  BY <1>1, <1>4, Returned
<1>12. /\ \A y \in Proc : At(y, "dead")' <=> At(y, "dead")
       /\ \A y \in Proc : At(y, "create")' <=> At(y, "create")
       /\ \A y \in Proc : Working(y)' <=> Working(y)
       /\ \A y \in Proc : At(y, "ended")' <=> (At(y, "ended") \/ y = Root)
  BY <1>1, <1>11 DEF At, Working
<1>13. /\ Dead' = Dead
       /\ \A w \in Worker : (Known(w)' <=> Known(w)) /\ (Among(w, Ps(Root))' <=> Among(w, Ps(Root)))
  BY <1>3, <1>12 DEF Dead, Known, Among, Ps
<1>14. \A d \in End : Shut(d) => Shut(d)'
  BY <1>8, <1>10 DEF Shut
<1>15. Onward
  BY <1>3, <1>12, <1>13, <1>14 DEF Onward
<1>16. SidesKept
  <2>1. type' = "GATHER" /\ ~At(Root, "receive")' /\ op'[Root].pc \notin {"create", "idle"}
    BY <1>3, <1>11 DEF At
  <2>2. ASSUME NEW d \in End
        PROVE  /\ Flow(d)' = Flow(d)
               /\ \A n \in Nat : Carries(d) => (Read(d, n) => Read(d, n)') /\ (Written(d, n) => Written(d, n)')
               /\ \A w \in Worker : d[2] = w /\ Known(w)' => Known(w)
    <3>1. Flow(d)' = Flow(d)
      BY <1>3 DEF Flow
    <3>2. \A n \in Nat : Read(d, n)' /\ (Written(d, n) => Written(d, n)')
      BY <1>3, <2>1 DEF Read, Written
    <3> QED BY <1>13, <3>1, <3>2
  <2> QED BY <2>2 DEF SidesKept
<1>17. EndRead(e) /\ in' = [d \in End |-> in'[d]]
  <2>1. Taken(e, 1)[e] = IF in[e][1] = FIN THEN in[e] ELSE SubSeq(in[e], 1 + 1, Len(in[e]))
    BY <1>1 DEF Taken, Typed, TypeOK
  <2>2. \A d \in End : d # e => Taken(e, 1)[d] = in[d]
    BY <1>1 DEF Taken, Typed, TypeOK
  <2>3. /\ \A d \in End : in'[d] = IF Peer(d) \in {e} /\ in[e][1].t = "fin" /\ ~Shut(Peer(d))
                                   THEN Taken(e, 1)[d] \o <<EOS, FIN>> ELSE Taken(e, 1)[d]
        /\ in' = [d \in End |-> in'[d]]
    BY <1>4 DEF Closed, Shut, ClosesWrite
  <2>4. \A d \in End : Peer(d) = e => d = Peer(e)
    BY Connections
  <2>5. Peer(e) # e
    BY <1>2, Connections
  <2>6. in'[e] = Taken(e, 1)[e]
    BY <2>3, <2>4, <2>5
  <2>7. ASSUME NEW d \in End, d # e
        PROVE  \/ in'[d] = in[d]
               \/ d = Peer(e) /\ ~Shut(e) /\ Shut(e)' /\ in'[d] = in[d] \o <<EOS, FIN>>
    BY <1>9, <1>10, <2>2, <2>3, <2>4, <2>7 DEF Shut
  <2> QED BY <1>4, <1>5, <2>1, <2>3, <2>6, <2>7 DEF EndRead
<1>18. in[e][1].t = "eos" => Ending(e, 1)'
  <2>1. SUFFICES ASSUME in[e][1].t = "eos" PROVE Ending(e, 1)'
    OBVIOUS
  <2>2. Shut(Peer(e)) \/ At(e[2], "dead")
    BY <1>2, <1>6 DEF Ending
  <2>3. Shut(Peer(e))' \/ At(e[2], "dead")'
    BY <1>2, <1>12, <1>14, <2>2, Connections
  <2>4. At(Root, "ended")' /\ type' = "GATHER"
    BY <1>1, <1>3, <1>12
  <2> QED BY <1>2, <2>3, <2>4 DEF Ending
<1>19. in' \in [End -> Seq(Frame)] /\ Streams'
  <2>1. ~At(e[1], "dead")
    BY <1>1, <1>2 DEF At
  <2> QED BY <1>2, <1>15, <1>16, <1>17, <1>18, <2>1, EndStreams
<1>20. Typed'
  <2>1. \A y \in Proc : op'[y].pc \in {"probe", "receive"} => op'[y].i \in DOMAIN coll'[y].participants
    BY <1>1, <1>3, <1>11 DEF Typed, TypeOK
  <2> QED BY <1>1, <1>3, <1>10, <1>11, <1>19, <2>1 DEF Typed, TypeOK, Results
<1>21. Members'
  <2>1. ASSUME NEW y \in Proc
        PROVE  /\ Ps(y)' = Ps(y) /\ (Working(y)' => Working(y))
               /\ ctx[y].closed_rd => ctx'[y].closed_rd
               /\ At(y, "create")' => At(y, "create") /\ Untouched(y)
    <3>1. At(y, "create") => y # Root
      BY <1>1 DEF At
    <3>2. y # Root => Untouched(y)
      BY <1>2, <1>3, <1>10, <1>11 DEF Untouched
    <3> QED BY <1>3, <1>12, <3>1, <3>2 DEF Ps
  <2> QED BY <1>3, <2>1, MembersKept
<1>22. Contexts'
  <2>1. ASSUME NEW y \in Proc PROVE ContextAt(y)'
    <3>1. ContextAt(y) /\ (op'[y].pc = op[y].pc \/ (op'[y].pc = "ended" /\ op[y].pc = "receive"))
      BY <1>1, <1>11 DEF Contexts
    <3> QED BY <1>3, <3>1, ContextKept
  <2> QED BY <1>1, <1>3, <1>12, <2>1 DEF Contexts, Ps
<1>23. HandlesKept'
  <2>1. \A d \in End : (handle[d].life # "live" => handle[d].closed_rd /\ handle[d].closed_wr)'
    BY <1>1, <1>5, <1>9, <1>10 DEF HandlesKept
  <2>2. OthersSafe'
    <3>1. \A d \in End : d # e /\ Dead = {} => handle'[d].life # "used"
      BY <1>1, <1>10 DEF HandlesKept, OthersSafe
    <3>2. handle'[e].life # "used"
      BY <1>5, <1>9, <1>10
    <3> QED BY <1>3, <1>13, <3>1, <3>2 DEF OthersSafe
  <2>3. ASSUME NEW w \in Worker PROVE ~handle'[<<w, Root>>].closed_rd
    <3>1. <<w, Root>> \in End /\ <<w, Root>> # e
      BY <1>2, Connections, Team
    <3> QED BY <1>1, <1>10, <3>1 DEF HandlesKept
  <2>4. ASSUME NEW w \in Worker, Dead' = {} PROVE ~Shut(<<Root, w>>)'
    <3>1. <<Root, w>> \in End /\ ~Shut(<<Root, w>>)
      BY <1>1, Connections DEF HandlesKept, At
    <3>2. ~r.closed_wr
      BY <1>7, <1>9, <1>13, <2>4
    <3> QED BY <1>10, <3>1, <3>2 DEF Shut
  <2>5. ~At(Root, "receive")' /\ op'[Root].pc \in {"ended", "dead"}
    BY <1>11 DEF At
  <2>6. type' = "GATHER"
    BY <1>3
  <2>7. ASSUME NEW w \in Worker
        PROVE  Dead' = {} => \A x \in Worker : Shut(<<Root, w>>)' = Shut(<<Root, x>>)'
    <3>1. \A x \in Worker : handle'[<<Root, x>>].closed_wr \in BOOLEAN
      BY <1>10, Connections DEF HandleState
    <3> QED BY <2>4, <3>1 DEF Shut
  <2> QED BY <2>1, <2>2, <2>3, <2>5, <2>6, <2>7 DEF HandlesKept
<1>24. Values'
  <2>1. L' = L /\ type' = "GATHER" /\ op'[Root].pc = "ended"
    BY <1>3, <1>11 DEF L, From
  <2> QED BY <1>1, <1>3, <2>1 DEF Values, At
<1>25. Ends'
  <2>1. SUFFICES ASSUME Dead = {} PROVE Ends'
    BY <1>13 DEF Ends
  <2>2. \A y \in Proc : At(y, "ended")' => IF y = Root THEN type = "GATHER" ELSE type = "BROADCAST"
    BY <1>1, <1>12, <2>1 DEF Ends
  <2>3. \E w \in Worker : Shut(<<w, Root>>)' /\ sent'[w] = L'
    <3>1. Peer(e) = <<e[2], Root>> /\ Peer(e) \in End
      BY <1>2, Connections
    <3>2. Shut(Peer(e))
      BY <1>1, <1>2, <1>6, <2>1 DEF Ending, Dead
    <3>3. sent[e[2]] \in Nat /\ b = 4 * sent[e[2]]
      BY <1>1, <1>2, <1>6, ProcTypes DEF Written
    <3>4. b = 4 * l + (IF op[Root].data THEN 2 ELSE 0)
      BY <1>2, <1>6
    <3>5. b = 4 * l \/ b = 4 * l + 2
      BY <3>4
    <3>6. sent[e[2]] = l
      BY <3>3, <3>5
    <3>7. L' = l
      BY <1>2, <1>3 DEF L, From
    <3> QED BY <1>2, <1>3, <1>14, <3>1, <3>2, <3>6, <3>7
  <2> QED BY <1>3, <2>2, <2>3 DEF Ends
<1> QED BY <1>19, <1>20, <1>21, <1>22, <1>23, <1>24, <1>25 DEF Inv

LEMMA GatherTurnKeeps ==
  ASSUME Inv, NEW p \in Proc, GatherTurn(p)
  PROVE  Inv'
<1>1. At(p, "receive")
  BY DEF GatherTurn
<1>2. p = Root /\ type = "GATHER" /\ At(Root, "receive")
  BY <1>1, Kept DEF Contexts, ContextAt
<1> QED BY <1>2, GatherRankKeeps, GatherNextKeeps, GatherLastKeeps, GatherEndKeeps

(***************************************************************************)
(* A fan-in or a fan-out is probed.                                        *)
(***************************************************************************)

(* The header of a message has been read from e.                           *)
ProbedMsg(p, e) ==
    /\ UNCHANGED <<groupsReady, type, handle, user, ready, sent, got>>
    /\ in' = Taken(e, 1)
    /\ ctx' \in [Proc -> Context] /\ \A x \in Proc : x # p => ctx'[x] = ctx[x]
    /\ ctx'[p].probed = "msg" /\ ctx'[p].closed_rd = ctx[p].closed_rd
    /\ ctx'[p].toManage = ctx[p].toManage /\ ctx'[p].closed_wr = ctx[p].closed_wr
    /\ coll' \in [Proc -> Impl] /\ \A x \in Proc : x # p => coll'[x] = coll[x]
    /\ \A x \in Proc : Ps(x)' = Ps(x) /\ coll'[x].current = coll[x].current
    /\ type = "FANIN" => coll'[p].probed_idx \in DOMAIN Ps(p) /\ Ps(p)[coll'[p].probed_idx] = e[2]
    /\ op' \in [Proc -> Call] /\ \A x \in Proc : x # p => op'[x] = op[x]
    /\ op'[p].pc = "idle"

(* Where the process that probes is.                                       *)
Probing(p, e) ==
    /\ op[p].pc \in {"idle", "probe"} /\ ctx[p].probed = "no" /\ ~ctx[p].closed_rd
    /\ (type = "FANIN" /\ p = Root /\ e[2] \in Worker) \/ (type = "FANOUT" /\ p \in Worker /\ p # Root /\ e[2] = Root)
    /\ e[1] = p /\ (e[1] # Root \/ Among(e[2], Ps(Root)))
    /\ in[e] # <<>>

(* Nothing is half read before a probe: what comes is a header or the end. *)
LEMMA Probes ==
  ASSUME Inv, NEW p \in Proc, NEW e \in End, Probing(p, e)
  PROVE  /\ Carries(e) /\ in[e][1].t \in {"hdr", "eos", "fin"}
         /\ \A b \in Nat : Read(e, b) => b = 2 * From(p, e[2])
         /\ From(p, e[2]) \in Nat /\ e[2] \in Proc
<1>1. Typed /\ e[2] \in Proc /\ e[1] = p
  BY Kept, Connections DEF Probing
<1>2. From(p, e[2]) \in Nat
  BY <1>1, GotTypes
<1>3. ctx[p].probed = "no" /\ ((type = "FANIN" /\ p = Root) \/ (type = "FANOUT" /\ p # Root /\ e[2] = Root))
  BY DEF Probing
<1>4. Carries(e)
  BY <1>1, <1>3 DEF Carries
<1>5. ASSUME NEW b \in Nat, Read(e, b) PROVE b = 2 * From(p, e[2])
  <2>1. CASE type = "FANIN"
    <3>1. ~HalfRead(e[2])
      BY <1>3, <2>1 DEF HalfRead
    <3>2. One(HalfRead(e[2])) = 0
      BY <3>1 DEF One
    <3>3. b = 2 * From(Root, e[2]) + One(HalfRead(e[2]))
      BY <1>5, <2>1 DEF Read
    <3>4. b = 2 * From(p, e[2]) + 0
      BY <1>3, <2>1, <3>2, <3>3
    <3> QED BY <1>2, <3>4
  <2>2. CASE type = "FANOUT"
    <3>1. b = 2 * From(p, e[2]) + One(ctx[p].probed = "msg")
      BY <1>1, <1>3, <1>5, <2>2 DEF Read
    <3>2. One(ctx[p].probed = "msg") = 0
      BY <1>3 DEF One
    <3>3. b = 2 * From(p, e[2]) + 0
      BY <3>1, <3>2
    <3> QED BY <1>2, <3>3
  <2> QED BY <1>3, <2>1, <2>2
<1>6. in[e][1].t \in {"hdr", "eos", "fin"}
  <2>1. \A b \in Nat : Carries(e) /\ Read(e, b) => \E j \in Nat : b = 2 * j
    BY <1>2, <1>5
  <2>2. in[e] # <<>> /\ (e[1] # Root \/ Among(e[2], Ps(Root)))
    BY DEF Probing
  <2> QED BY <2>1, <2>2, HeaderOrEnd
<1> QED BY <1>1, <1>2, <1>4, <1>5, <1>6

LEMMA HeaderKeeps ==
  ASSUME Inv, NEW p \in Proc, NEW e \in End, Probing(p, e), ProbedMsg(p, e), in[e][1].t = "hdr"
  PROVE  Inv'
<1>1. /\ Typed /\ Members /\ Contexts /\ HandlesKept /\ Streams /\ Values /\ Ends
      /\ Root \in Proc /\ Worker \subseteq Proc
  BY Kept, Team
<1>2. /\ op[p].pc \in {"idle", "probe"} /\ ctx[p].probed = "no" /\ ~ctx[p].closed_rd
      /\ (type = "FANIN" /\ p = Root) \/ (type = "FANOUT" /\ p \in Worker /\ p # Root)
      /\ e[1] = p /\ (e[1] # Root \/ Among(e[2], Ps(Root))) /\ in[e] # <<>>
      /\ type = "FANIN" => e[2] \in Worker
      /\ type = "FANOUT" => e[2] = Root
  BY DEF Probing
<1>3. UNCHANGED <<groupsReady, type, handle, user, ready, sent, got>>
  BY DEF ProbedMsg
<1>4. /\ in' = Taken(e, 1)
      /\ ctx' \in [Proc -> Context] /\ \A x \in Proc : x # p => ctx'[x] = ctx[x]
      /\ ctx'[p].probed = "msg" /\ ctx'[p].closed_rd = ctx[p].closed_rd
      /\ ctx'[p].toManage = ctx[p].toManage /\ ctx'[p].closed_wr = ctx[p].closed_wr
  BY DEF ProbedMsg
<1>5. /\ coll' \in [Proc -> Impl] /\ \A x \in Proc : x # p => coll'[x] = coll[x]
      /\ \A x \in Proc : Ps(x)' = Ps(x) /\ coll'[x].current = coll[x].current
      /\ type = "FANIN" => coll'[p].probed_idx \in DOMAIN Ps(p) /\ Ps(p)[coll'[p].probed_idx] = e[2]
  BY DEF ProbedMsg
<1>6. /\ op' \in [Proc -> Call] /\ op'[p].pc = "idle" /\ \A x \in Proc : x # p => op'[x] = op[x]
  BY DEF ProbedMsg
<1>7. /\ Carries(e) /\ (\A b \in Nat : Read(e, b) => b = 2 * From(p, e[2]))
      /\ From(p, e[2]) \in Nat /\ e[2] \in Proc
  BY Probes
<1>8. PICK q \in Proc, g \in Nat : q = e[2] /\ g = From(p, q)
  BY <1>7
<1>9. PICK z \in 0..2, b \in Nat, m \in Nat :
        Seg(in[e], 0, b, m, z, Flow(e)) /\ Ending(e, z) /\ Read(e, b) /\ Written(e, m)
  <2>1. \E z \in 0..2, b \in Nat, m \in Nat :
           /\ Seg(in[e], 0, b, m, z, Flow(e)) /\ Ending(e, z)
           /\ IF Carries(e) THEN Read(e, b) /\ Written(e, m) ELSE b = 0 /\ m = 0
    BY <1>2, Incoming
  <2> QED BY <1>7, <2>1
<1>10. b = 2 * g
  BY <1>7, <1>8, <1>9
<1>11. b < m /\ in[e][1] # FIN
  <2>1. PICK s \in Seq(Frame) : s = in[e]
    BY <1>1, EndTypes
  <2>2. PICK F : F = Flow(e)
    OBVIOUS
  <2>3. Seg(s, 0, b, m, z, F)
    BY <1>9, <2>1, <2>2
  <2>4. s # <<>>
    BY <1>2, <2>1
  <2>5. /\ Len(s) \in Nat /\ Len(s) >= 1 /\ s[1] \in Frame
        /\ \/ b < m /\ <<b + 1, s[1]>> \in F
           \/ b = m /\ z = 2 /\ s[1] = EOS /\ Len(s) = 2
           \/ b = m /\ z = 1 /\ s[1] = FIN /\ Len(s) = 1
    BY <2>3, <2>4, SegHead
  <2> QED BY <2>1, <2>5, Kinds
<1>12. PICK n \in 1..2 : n = 1
  OBVIOUS
<1>13. /\ in'[e] = SubSeq(in[e], n + 1, Len(in[e]))
       /\ \A d \in End : d # e => in'[d] = in[d]
       /\ in' = [d \in End |-> in'[d]]
  <2>1. in' = Taken(e, n) /\ in[e][1] # FIN
    BY <1>4, <1>11, <1>12
  <2> QED BY <1>1, <2>1, TakenData
<1>14. Ps(Root)' = Ps(Root) /\ coll'[Root].current = coll[Root].current
  BY <1>1, <1>5
<1>15. /\ \A x \in Proc : \A k \in {"create", "dead", "ended"} : At(x, k)' <=> At(x, k)
       /\ \A x \in Proc : Working(x)' <=> Working(x)
       /\ \A x \in Proc : ctx'[x].closed_rd = ctx[x].closed_rd
  BY <1>2, <1>4, <1>6 DEF At, Working
<1>16. /\ Dead' = Dead
       /\ \A w \in Worker : (Known(w)' <=> Known(w)) /\ (Among(w, Ps(Root))' <=> Among(w, Ps(Root)))
  BY <1>3, <1>14, <1>15 DEF Dead, Known, Among
<1>17. Onward
  BY <1>1, <1>3, <1>15, <1>16 DEF Onward, Shut
<1>18. ASSUME NEW d \in End
       PROVE  /\ Flow(d)' = Flow(d)
              /\ \A k \in Nat : Written(d, k) => Written(d, k)'
  <2>1. Flow(d)' = Flow(d)
    BY <1>3, <1>14 DEF Flow, Dealt
  <2>2. type \in {"FANIN", "FANOUT"}
    BY <1>2
  <2> QED BY <1>3, <1>14, <2>1, <2>2 DEF Written
<1>19. ASSUME NEW d \in End PROVE in'[d] \in Seq(Frame) /\ Stream(d)'
  <2>1. CASE d = e
    <3>1. Read(e, b + 1)'
      <4>1. CASE type = "FANIN"
        <5>1. HalfRead(e[2])' /\ type' = "FANIN"
          BY <1>2, <1>3, <1>4, <1>5, <1>14, <4>1 DEF HalfRead
        <5>2. One(HalfRead(e[2]))' = 1
          BY <5>1 DEF One
        <5>3. From(Root, e[2])' = g
          BY <1>2, <1>3, <1>8, <4>1 DEF From
        <5> QED BY <1>10, <5>1, <5>2, <5>3 DEF Read
      <4>2. CASE type = "FANOUT"
        <5>1. ctx'[e[1]].probed = "msg" /\ type' = "FANOUT"
          BY <1>2, <1>3, <1>4, <4>2
        <5>2. One(ctx[e[1]].probed = "msg")' = 1
          BY <5>1 DEF One
        <5>3. From(e[1], Root)' = g
          BY <1>2, <1>3, <1>8, <4>2 DEF From
        <5> QED BY <1>10, <5>1, <5>2, <5>3 DEF Read
      <4> QED BY <1>2, <4>1, <4>2
    <3>2. b + n <= m /\ Read(e, b + n)'
      BY <1>11, <1>12, <3>1
    <3>3. Flow(e)' = Flow(e) /\ Written(e, m)'
      BY <1>9, <1>18
    <3> QED BY <1>1, <1>7, <1>9, <1>13, <1>17, <2>1, <3>2, <3>3, TakeStream
  <2>2. CASE d # e
    <3>1. in'[d] = in[d] /\ in[d] \in Seq(Frame)
      BY <1>1, <1>13, <2>2, EndTypes
    <3>2. ASSUME NEW k \in Nat, Carries(d), Read(d, k) PROVE Read(d, k)'
      <4>1. d[1] \in Proc /\ d[2] \in Proc /\ d = <<d[1], d[2]>> /\ e = <<e[1], e[2]>>
        BY Connections
      <4>2. CASE type = "FANIN"
        <5>1. d[1] = Root /\ d[2] # e[2] /\ p = Root
          BY <1>2, <2>2, <3>2, <4>1, <4>2 DEF Carries
        <5>2. ~HalfRead(d[2])
          BY <1>2, <4>2 DEF HalfRead
        <5>3. ~HalfRead(d[2])'
          BY <1>5, <1>14, <4>2, <5>1 DEF HalfRead
        <5>4. One(HalfRead(d[2])) = 0 /\ One(HalfRead(d[2]))' = 0
          BY <5>2, <5>3 DEF One
        <5> QED BY <1>3, <3>2, <4>2, <5>4 DEF Read, From
      <4>3. CASE type = "FANOUT"
        <5>1. d[2] = Root /\ d[1] # p
          BY <1>2, <2>2, <3>2, <4>1, <4>3 DEF Carries
        <5>2. ctx'[d[1]] = ctx[d[1]]
          BY <1>4, <4>1, <5>1
        <5> QED BY <1>3, <3>2, <4>3, <5>2 DEF Read, From
      <4> QED BY <1>2, <4>2, <4>3
    <3> QED BY <1>16, <1>17, <1>18, <3>1, <3>2, StreamKept
  <2> QED BY <2>1, <2>2
<1>20. Typed'
  <2>1. in' \in [End -> Seq(Frame)]
    BY <1>13, <1>19
  <2>2. \A x \in Proc : op'[x].pc \in {"probe", "receive"} => op'[x].i \in DOMAIN coll'[x].participants
    BY <1>1, <1>5, <1>6 DEF Typed, TypeOK, Ps
  <2> QED BY <1>1, <1>3, <1>4, <1>5, <1>6, <2>1, <2>2 DEF Typed, TypeOK, Results
<1>21. Members'
  <2>1. ASSUME NEW x \in Proc
        PROVE  /\ Ps(x)' = Ps(x) /\ (Working(x)' => Working(x))
               /\ ctx[x].closed_rd => ctx'[x].closed_rd
               /\ At(x, "create")' => At(x, "create") /\ Untouched(x)
    <3>1. At(x, "create")' => At(x, "create") /\ x # p
      BY <1>2, <1>15 DEF At
    <3>2. x # p => Untouched(x)
      BY <1>3, <1>4, <1>5, <1>6 DEF Untouched
    <3> QED BY <1>5, <1>15, <3>1, <3>2
  <2> QED BY <1>3, <2>1, MembersKept
<1>22. Contexts'
  <2>1. ASSUME NEW x \in Proc PROVE ContextAt(x)'
    <3>1. CASE x # p
      BY <1>1, <1>3, <1>4, <1>6, <3>1, ContextKept DEF Contexts
    <3>2. CASE x = p
      BY <1>1, <1>2, <1>3, <1>4, <1>6, <3>2 DEF Contexts, ContextAt, At
    <3> QED BY <3>1, <3>2
  <2>2. type = "FANIN" => coll'[Root].probed_idx \in DOMAIN Ps(Root)
    BY <1>2, <1>5
  <2> QED BY <1>1, <1>3, <1>14, <1>15, <2>1, <2>2 DEF Contexts
<1>23. HandlesKept'
  BY <1>1, <1>2, <1>3, <1>16 DEF HandlesKept, OthersSafe, Fresh
<1>24. Values'
  BY <1>1, <1>2, <1>3, <1>14 DEF Values
<1>25. Ends'
  <2>1. SUFFICES ASSUME Dead = {} PROVE Ends'
    BY <1>16 DEF Ends
  <2>2. \A x \in Proc : At(x, "ended")' => IF x = Root THEN type = "GATHER" ELSE type = "BROADCAST"
    BY <1>1, <1>15, <2>1 DEF Ends
  <2>3. \A x \in Proc, y \in Proc : From(x, y)' = From(x, y)
    BY <1>3 DEF From
  <2>4. \A d \in End : Shut(d)' <=> Shut(d)
    BY <1>3 DEF Shut
  <2>5. type = "FANIN" =>
        /\ Working(Root)' => \A w \in Worker : ~Among(w, Ps(Root))' =>
                              Shut(<<w, Root>>)' /\ From(Root, w)' = sent'[w]
        /\ ctx'[Root].closed_rd => Ps(Root)' = <<>> /\ Working(Root)'
    <3>1. SUFFICES ASSUME type = "FANIN"
                   PROVE  /\ Working(Root)' => \A w \in Worker : ~Among(w, Ps(Root))' =>
                                Shut(<<w, Root>>)' /\ From(Root, w)' = sent'[w]
                          /\ ctx'[Root].closed_rd => Ps(Root)' = <<>> /\ Working(Root)'
      OBVIOUS
    <3>2. /\ Working(Root) => \A w \in Worker : ~Among(w, Ps(Root)) =>
                                Shut(<<w, Root>>) /\ From(Root, w) = sent[w]
          /\ ctx[Root].closed_rd => Ps(Root) = <<>> /\ Working(Root)
      BY <1>1, <2>1, <3>1 DEF Ends
    <3>3. ASSUME NEW w \in Worker, Working(Root)', ~Among(w, Ps(Root))'
          PROVE  Shut(<<w, Root>>)' /\ From(Root, w)' = sent'[w]
      <4>1. Working(Root) /\ ~Among(w, Ps(Root)) /\ <<w, Root>> \in End
        BY <1>1, <1>15, <1>16, <3>3, Connections
      <4>2. Shut(<<w, Root>>)' /\ From(Root, w)' = From(Root, w)
        BY <1>1, <2>3, <2>4, <3>2, <4>1
      <4> QED BY <1>3, <3>2, <4>1, <4>2
    <3>4. ctx'[Root].closed_rd => Ps(Root)' = <<>> /\ Working(Root)'
      BY <1>1, <1>14, <1>15, <3>2
    <3> QED BY <3>3, <3>4
  <2>6. type = "FANOUT" => \A w \in Worker : ctx'[w].closed_rd =>
        /\ Shut(<<Root, w>>)'
        /\ \E i \in DOMAIN Ps(Root)', k \in Nat :
            /\ Ps(Root)'[i] = w /\ sent'[Root] = k * N + coll'[Root].current - 1
            /\ From(w, Root)' = k + One(i < coll'[Root].current)
    <3>1. SUFFICES ASSUME type = "FANOUT", NEW w \in Worker, ctx[w].closed_rd
          PROVE  /\ Shut(<<Root, w>>)
                 /\ \E i \in DOMAIN Ps(Root), k \in Nat :
                     /\ Ps(Root)[i] = w /\ sent[Root] = k * N + coll[Root].current - 1
                     /\ From(w, Root) = k + One(i < coll[Root].current)
      <4>1. \A w \in Worker : w \in Proc /\ <<Root, w>> \in End
        BY <1>1, Connections
      <4> QED BY <1>1, <1>3, <1>14, <1>15, <2>3, <2>4, <4>1
    <3> QED BY <1>1, <2>1, <3>1 DEF Ends
  <2> QED BY <1>2, <1>3, <2>2, <2>5, <2>6 DEF Ends
<1> QED BY <1>19, <1>20, <1>21, <1>22, <1>23, <1>24, <1>25 DEF Inv, Streams

(* A fan-out is probed.                                                    *)
LEMMA Dealing ==
  ASSUME Inv, NEW p \in Proc, ProbeOne(p)
  PROVE  /\ type = "FANOUT" /\ p \in Worker /\ p # Root /\ op[p].pc = "idle" /\ Ps(p) = <<Root>>
         /\ \E e \in End : e = <<p, Root>> /\ e[1] = p /\ e[2] = Root /\ Probing(p, e)
<1>1. At(p, "idle") /\ ctx[p].probed = "no" /\ ~ctx[p].closed_rd /\ type = "FANOUT"
  BY DEF ProbeOne, MayProbe
<1>2. p \in Worker /\ Ps(p) = <<Root>> /\ p # Root
  BY <1>1, Receiving
<1>3. PICK e \in End : e = <<p, Root>> /\ e[1] = p /\ e[2] = Root
  BY <1>2, Connections
<1>4. <<p, coll[p].participants[1]>> = e
  BY <1>2, <1>3 DEF Ps
<1>5. in[e] # <<>>
  BY <1>4 DEF ProbeOne, Next1
<1>6. Probing(p, e)
  BY <1>1, <1>2, <1>3, <1>5 DEF Probing, At
<1> QED BY <1>1, <1>2, <1>3, <1>6 DEF At

(* What HandleUser::probe leaves in the context.                           *)
LEMMA Answered ==
  ASSUME Typed, NEW p \in Proc, NEW res \in {"msg", "eos", "end", "again"}, Outcome(p, res)
  PROVE  /\ ctx' \in [Proc -> Context] /\ \A x \in Proc : x # p => ctx'[x] = ctx[x]
         /\ user' \in [Proc -> BOOLEAN] /\ \A x \in Proc : x # p => user'[x] = user[x]
         /\ ctx'[p].toManage = ctx[p].toManage
         /\ ctx[p].closed_wr => ctx'[p].closed_wr
         /\ ctx'[p].closed_rd <=> (ctx[p].closed_rd \/ res \in {"eos", "end"})
         /\ res = "msg" => ctx'[p].probed = "msg" /\ ctx'[p].closed_rd = ctx[p].closed_rd
                           /\ ctx'[p].closed_wr = ctx[p].closed_wr /\ user' = user
         /\ res = "again" => ctx' = ctx /\ user' = user
         /\ res \in {"eos", "end"} => (ctx[p].probed # "msg" => ctx'[p].probed # "msg")
<1>1. PICK c \in Context : c = ctx[p]
  BY ProcTypes
<1>2. c.closed_rd \in BOOLEAN /\ c.closed_wr \in BOOLEAN /\ c.toManage \in BOOLEAN
      /\ c.probed \in {"no", "msg", "eos"}
  BY DEF Context
<1>3. PICK r : r = [c EXCEPT !.probed = IF res \in {"msg", "eos"} THEN res ELSE @,
                             !.closed_rd = @ \/ res \in {"eos", "end"},
                             !.closed_wr = @ \/ res = "end"]
  OBVIOUS
<1>4. /\ r \in Context /\ r.toManage = c.toManage
      /\ c.closed_wr => r.closed_wr
      /\ r.closed_rd <=> (c.closed_rd \/ res \in {"eos", "end"})
      /\ res = "msg" => r.probed = "msg" /\ r.closed_rd = c.closed_rd /\ r.closed_wr = c.closed_wr
      /\ res = "again" => r = c
      /\ res \in {"eos", "end"} => (c.probed # "msg" => r.probed # "msg")
  <2>1. CASE res = "msg"
    <3>1. r = [closed_rd |-> c.closed_rd, closed_wr |-> c.closed_wr, probed |-> "msg", toManage |-> c.toManage]
      BY <1>2, <1>3, <2>1 DEF Context
    <3> QED BY <1>2, <2>1, <3>1 DEF Context
  <2>2. CASE res = "eos"
    <3>1. r = [closed_rd |-> TRUE, closed_wr |-> c.closed_wr, probed |-> "eos", toManage |-> c.toManage]
      BY <1>2, <1>3, <2>2 DEF Context
    <3> QED BY <1>2, <2>2, <3>1 DEF Context
  <2>3. CASE res = "end"
    <3>1. r = [closed_rd |-> TRUE, closed_wr |-> TRUE, probed |-> c.probed, toManage |-> c.toManage]
      BY <1>2, <1>3, <2>3 DEF Context
    <3> QED BY <1>2, <2>3, <3>1 DEF Context
  <2>4. CASE res = "again"
    <3>1. r = [closed_rd |-> c.closed_rd, closed_wr |-> c.closed_wr, probed |-> c.probed, toManage |-> c.toManage]
      BY <1>2, <1>3, <2>4 DEF Context
    <3>2. r = c
      BY <3>1 DEF Context
    <3> QED BY <2>4, <3>2
  <2> QED BY <2>1, <2>2, <2>3, <2>4
<1>5. ctx' = [ctx EXCEPT ![p] = r]
  BY <1>1, <1>3 DEF Outcome
<1>6. ctx' \in [Proc -> Context] /\ ctx'[p] = r /\ (\A x \in Proc : x # p => ctx'[x] = ctx[x])
      /\ (r = c => ctx' = ctx)
  BY <1>1, <1>4, <1>5 DEF Typed, TypeOK
<1>7. user' = [user EXCEPT ![p] = user[p] /\ res \notin {"eos", "end"}]
  BY DEF Outcome
<1>8. /\ user' \in [Proc -> BOOLEAN] /\ (\A x \in Proc : x # p => user'[x] = user[x])
      /\ (res \in {"msg", "again"} => user' = user)
  BY <1>7 DEF Typed, TypeOK
<1> QED BY <1>1, <1>4, <1>6, <1>8

LEMMA DealHeaderKeeps ==
  ASSUME Inv, NEW p \in Proc, ProbeOne(p), Next1(<<p, Root>>) = "hdr"
  PROVE  Inv'
<1>1. /\ type = "FANOUT" /\ p \in Worker /\ p # Root /\ op[p].pc = "idle" /\ Ps(p) = <<Root>>
      /\ \E e \in End : e = <<p, Root>> /\ e[1] = p /\ e[2] = Root /\ Probing(p, e)
  BY Dealing
<1>2. PICK e \in End : e = <<p, Root>> /\ e[1] = p /\ e[2] = Root /\ Probing(p, e)
  BY <1>1
<1>3. Typed /\ in[e] # <<>>
  BY <1>2, Kept DEF Probing
<1>4. in[e][1].t = "hdr" /\ Next1(e) = "hdr" /\ <<p, coll[p].participants[1]>> = e
  BY <1>1, <1>2, <1>3 DEF Next1, Ps
<1>5. UNCHANGED <<groupsReady, type, ready, op, sent, got>> /\ in' = Taken(e, 1) /\ handle' = handle
  BY <1>4 DEF ProbeOne
<1>6. coll' = [coll EXCEPT ![p].participants = coll[p].participants]
  BY <1>4 DEF ProbeOne
<1>7. coll' = coll
  <2>1. PICK c \in Impl : c = coll[p]
    BY <1>3, ProcTypes
  <2>2. [c EXCEPT !.participants = c.participants] = c
    BY DEF Impl
  <2>3. coll' = [coll EXCEPT ![p] = c]
    BY <1>6, <2>1, <2>2
  <2> QED BY <1>3, <2>1, <2>3 DEF Typed, TypeOK
<1>8. PICK res \in {"msg", "eos", "end", "again"} : res = "msg" /\ Outcome(p, res)
  BY <1>4 DEF ProbeOne
<1>9. /\ ctx' \in [Proc -> Context] /\ \A x \in Proc : x # p => ctx'[x] = ctx[x]
      /\ ctx'[p].toManage = ctx[p].toManage
      /\ ctx'[p].probed = "msg" /\ ctx'[p].closed_rd = ctx[p].closed_rd
      /\ ctx'[p].closed_wr = ctx[p].closed_wr /\ user' = user
  BY <1>3, <1>8, Answered
<1>10. ProbedMsg(p, e)
  BY <1>1, <1>3, <1>5, <1>7, <1>9 DEF ProbedMsg, Ps, Typed, TypeOK
<1> QED BY <1>2, <1>4, <1>10, HeaderKeeps

(* The end of a stream of a fan-out has been read.                         *)
DealtOut(p, e) ==
    /\ UNCHANGED <<groupsReady, type, ready, op, sent, got>>
    /\ ctx' \in [Proc -> Context] /\ \A x \in Proc : x # p => ctx'[x] = ctx[x]
    /\ user' \in [Proc -> BOOLEAN] /\ \A x \in Proc : x # p => user'[x] = user[x]
    /\ ctx'[p].closed_rd /\ ctx'[p].probed # "msg" /\ (ctx[p].closed_wr => ctx'[p].closed_wr)
    /\ coll' \in [Proc -> Impl] /\ \A x \in Proc : x # p => coll'[x] = coll[x]
    /\ Ps(p)' \in {<<>>, <<Root>>}
    /\ handle' \in [End -> HandleState] /\ \A d \in End : d # e => handle'[d] = handle[d]
    /\ handle'[e].life # "live" => handle'[e].closed_rd /\ handle'[e].closed_wr
    /\ Shut(e) => Shut(e)'
    /\ EndRead(e) /\ in' = [d \in End |-> in'[d]]

LEMMA DealtOutKeeps ==
  ASSUME Inv, NEW p \in Proc, NEW e \in End, Probing(p, e), type = "FANOUT", op[p].pc = "idle",
         DealtOut(p, e)
  PROVE  Inv'
<1>1. /\ Typed /\ Members /\ Contexts /\ HandlesKept /\ Streams /\ Values /\ Ends
      /\ Root \in Proc /\ Worker \subseteq Proc
  BY Kept, Team
<1>2. /\ ctx[p].probed = "no" /\ ~ctx[p].closed_rd /\ p \in Worker /\ p # Root
      /\ e[1] = p /\ e[2] = Root /\ e[1] # Root /\ in[e] # <<>>
  BY DEF Probing
<1>3. UNCHANGED <<groupsReady, type, ready, op, sent, got>>
  BY DEF DealtOut
<1>4. /\ ctx' \in [Proc -> Context] /\ \A x \in Proc : x # p => ctx'[x] = ctx[x]
      /\ user' \in [Proc -> BOOLEAN] /\ \A x \in Proc : x # p => user'[x] = user[x]
      /\ ctx'[p].closed_rd /\ ctx'[p].probed # "msg" /\ (ctx[p].closed_wr => ctx'[p].closed_wr)
  BY DEF DealtOut
<1>5. /\ coll' \in [Proc -> Impl] /\ \A x \in Proc : x # p => coll'[x] = coll[x]
      /\ Ps(p)' \in {<<>>, <<Root>>}
  BY DEF DealtOut
<1>6. /\ handle' \in [End -> HandleState] /\ \A d \in End : d # e => handle'[d] = handle[d]
      /\ handle'[e].life # "live" => handle'[e].closed_rd /\ handle'[e].closed_wr
      /\ Shut(e) => Shut(e)'
  BY DEF DealtOut
<1>7. EndRead(e) /\ in' = [d \in End |-> in'[d]]
  BY DEF DealtOut
<1>8. Carries(e) /\ \A b \in Nat : Read(e, b) => b = 2 * From(p, Root)
  BY <1>2, Probes
<1>9. From(p, Root) \in Nat
  BY <1>1, GotTypes
<1>10. coll'[Root] = coll[Root] /\ Ps(Root)' = Ps(Root)
  BY <1>1, <1>2, <1>5 DEF Ps
<1>11. /\ \A x \in Proc : \A k \in {"create", "dead", "ended"} : At(x, k)' <=> At(x, k)
       /\ \A x \in Proc : Working(x)' <=> Working(x)
       /\ \A x \in Proc : ctx[x].closed_rd => ctx'[x].closed_rd
  BY <1>3, <1>4 DEF At, Working
<1>12. /\ Dead' = Dead
       /\ \A w \in Worker : (Known(w)' <=> Known(w)) /\ (Among(w, Ps(Root))' <=> Among(w, Ps(Root)))
  BY <1>3, <1>10, <1>11 DEF Dead, Known, Among
<1>13. \A d \in End : Shut(d) => Shut(d)'
  BY <1>6 DEF Shut
<1>14. Onward
  BY <1>1, <1>3, <1>11, <1>12, <1>13 DEF Onward
<1>15. SidesKept
  <2>1. ASSUME NEW d \in End
        PROVE  /\ Flow(d)' = Flow(d)
               /\ \A n \in Nat : Carries(d) => (Read(d, n) => Read(d, n)') /\ (Written(d, n) => Written(d, n)')
               /\ \A w \in Worker : d[2] = w /\ Known(w)' => Known(w)
    <3>1. Flow(d)' = Flow(d)
      BY <1>3, <1>10 DEF Flow, Dealt
    <3>2. ASSUME NEW n \in Nat, Written(d, n) PROVE Written(d, n)'
      BY <1>3, <1>10, <3>2 DEF Written
    <3>3. ASSUME NEW n \in Nat, Read(d, n) PROVE Read(d, n)'
      <4>1. d[1] \in Proc
        BY Connections
      <4>2. One(ctx[d[1]].probed = "msg")' = One(ctx[d[1]].probed = "msg")
        <5>1. CASE d[1] = p
          BY <1>2, <1>4, <5>1 DEF One
        <5>2. CASE d[1] # p
          BY <1>4, <4>1, <5>2 DEF One
        <5> QED BY <5>1, <5>2
      <4>3. type' = "FANOUT" /\ From(d[1], Root)' = From(d[1], Root)
        BY <1>3 DEF From
      <4>4. n = 2 * From(d[1], Root) + One(ctx[d[1]].probed = "msg")
        BY <3>3 DEF Read
      <4> QED BY <4>2, <4>3, <4>4 DEF Read
    <3> QED BY <1>12, <3>1, <3>2, <3>3
  <2> QED BY <2>1 DEF SidesKept
<1>16. in[e][1].t \in {"eos", "fin"}
  BY <1>7 DEF EndRead
<1>17. PICK z \in 1..2, b \in Nat :
        /\ Seg(in[e], 0, b, b, z, Flow(e)) /\ Ending(e, z)
        /\ Read(e, b) /\ Written(e, b)
        /\ in[e][1].t = "eos" => z = 2 /\ in[e][1] = EOS /\ in[e][1] # FIN
        /\ in[e][1].t = "fin" => z = 1 /\ in[e][1] = FIN
  <2>1. \E z \in 1..2, b \in Nat :
           /\ Seg(in[e], 0, b, b, z, Flow(e)) /\ Ending(e, z)
           /\ IF Carries(e) THEN Read(e, b) /\ Written(e, b) ELSE b = 0
           /\ in[e][1].t = "eos" => z = 2 /\ in[e][1] = EOS /\ in[e][1] # FIN
           /\ in[e][1].t = "fin" => z = 1 /\ in[e][1] = FIN
    BY <1>2, <1>16, AtEnd
  <2> QED BY <1>8, <2>1
<1>18. in[e][1].t = "eos" => Ending(e, 1)'
  <2>1. SUFFICES ASSUME in[e][1].t = "eos" PROVE Ending(e, 1)'
    OBVIOUS
  <2>2. Shut(Peer(e)) \/ At(Root, "dead")
    BY <1>2, <1>17 DEF Ending
  <2>3. Shut(Peer(e))' \/ At(Root, "dead")'
    BY <1>1, <1>11, <1>13, <2>2, Connections
  <2> QED BY <1>2, <1>3, <1>4, <2>3 DEF Ending
<1>19. in' \in [End -> Seq(Frame)] /\ Streams'
  <2>1. ~At(e[1], "dead")
    BY <1>2 DEF At
  <2> QED BY <1>2, <1>7, <1>14, <1>15, <1>18, <2>1, EndStreams
<1>20. Typed'
  <2>1. \A x \in Proc : op'[x].pc \in {"probe", "receive"} => op'[x].i \in DOMAIN coll'[x].participants
    BY <1>1, <1>3, <1>5 DEF Typed, TypeOK
  <2> QED BY <1>1, <1>3, <1>4, <1>5, <1>6, <1>19, <2>1 DEF Typed, TypeOK, Results
<1>21. Members'
  <2>1. /\ Ps(Root)' \in Seq(Worker) /\ IsInjective(Ps(Root)') /\ IsInjective(groupsReady')
        /\ type # "FANIN" /\ Ps(Root)' # <<>> => Len(Ps(Root)') = N
        /\ type # "FANIN" /\ Working(Root)' => \A w \in Worker : Among(w, Ps(Root))'
    BY <1>1, <1>3, <1>10, <1>11, <1>12 DEF Members
  <2>2. ASSUME NEW w \in Worker
        PROVE  /\ Ps(w)' \in {<<>>, <<Root>>}
               /\ Working(w)' /\ (type = "FANOUT" => ~ctx'[w].closed_rd) => Ps(w)' = <<Root>>
               /\ At(w, "create")' => ~Known(w)'
    <3>1. w # p => Ps(w)' = Ps(w)
      BY <1>1, <1>5 DEF Ps
    <3>2. At(w, "create")' => ~Known(w)'
      BY <1>1, <1>11, <1>12 DEF Members, Known
    <3>3. CASE w = p
      BY <1>4, <1>5, <3>2, <3>3
    <3>4. CASE w # p
      BY <1>1, <1>11, <3>1, <3>2, <3>4 DEF Members
    <3> QED BY <3>3, <3>4
  <2>3. ASSUME NEW x \in Proc, At(x, "create")' PROVE Unborn(x)'
    <3>1. At(x, "create") /\ x # p
      BY <1>11, <2>3 DEF At
    <3>2. Untouched(x)
      BY <1>2, <1>3, <1>4, <1>5, <1>6, <3>1 DEF Untouched
    <3> QED BY <1>1, <3>1, <3>2, Unborns, UnbornKept
  <2> QED BY <1>3, <2>1, <2>2, <2>3, MembersFrom
<1>22. Contexts'
  <2>1. ASSUME NEW x \in Proc PROVE ContextAt(x)'
    <3>1. CASE x # p
      BY <1>1, <1>3, <1>4, <3>1, ContextKept DEF Contexts
    <3>2. CASE x = p
      <4>1. ~CanSend(type, p) => ctx[p].closed_wr
        BY <1>1 DEF Contexts, ContextAt
      <4> QED BY <1>3, <1>4, <3>2, <4>1 DEF ContextAt, At
    <3> QED BY <3>1, <3>2
  <2> QED BY <1>3, <2>1 DEF Contexts
<1>23. HandlesKept'
  <2>1. \A d \in End : (handle[d].life # "live" => handle[d].closed_rd /\ handle[d].closed_wr)'
    BY <1>1, <1>6 DEF HandlesKept
  <2> QED BY <1>3, <2>1 DEF HandlesKept, OthersSafe
<1>24. Values'
  BY <1>1, <1>3, <1>10 DEF Values
<1>25. Ends'
  <2>1. SUFFICES ASSUME Dead = {} PROVE Ends'
    BY <1>12 DEF Ends
  <2>2. \A x \in Proc : At(x, "ended")' => IF x = Root THEN type = "GATHER" ELSE type = "BROADCAST"
    BY <1>1, <1>11, <2>1 DEF Ends
  <2>3. ASSUME NEW w \in Worker, ctx'[w].closed_rd
        PROVE  /\ Shut(<<Root, w>>)
               /\ \E i \in DOMAIN Ps(Root), k \in Nat :
                   /\ Ps(Root)[i] = w /\ sent[Root] = k * N + coll[Root].current - 1
                   /\ From(w, Root) = k + One(i < coll[Root].current)
    <3>1. CASE w # p
      <4>1. ctx[w].closed_rd
        BY <1>1, <1>4, <2>3, <3>1
      <4> QED BY <1>1, <2>1, <4>1 DEF Ends
    <3>2. CASE w = p
      <4>1. Peer(e) = <<Root, p>> /\ Peer(e) \in End /\ Peer(e)[1] = Root
        BY <1>2, Connections
      <4>2. Shut(Peer(e))
        BY <1>1, <1>2, <1>17, <2>1 DEF Ending, Dead
      <4>3. ~At(Root, "create")
        <5>1. At(Root, "create") => Fresh(Peer(e))
          BY <1>1, <4>1 DEF Members
        <5>2. ~Fresh(Peer(e))
          BY <4>2 DEF Fresh, Shut
        <5> QED BY <5>1, <5>2
      <4>4. Working(Root)
        BY <1>1, <2>1, <4>3 DEF Working, At, Dead
      <4>5. PICK i \in DOMAIN Ps(Root) : Ps(Root)[i] = p
        BY <1>1, <1>2, <4>4 DEF Members, Among
      <4>6. PICK k \in Nat : /\ sent[Root] = k * N + coll[Root].current - 1
                             /\ b = 2 * (k + One(i < coll[Root].current))
        BY <1>2, <1>17, <4>5 DEF Written
      <4>7. PICK o \in 0..1 : o = One(i < coll[Root].current)
        BY DEF One
      <4>8. b = 2 * From(p, Root) /\ b = 2 * (k + o)
        BY <1>8, <1>17, <4>6, <4>7
      <4>9. From(p, Root) = k + o
        BY <1>9, <4>8
      <4>10. From(p, Root) = k + One(i < coll[Root].current)
        BY <4>7, <4>9
      <4> QED BY <3>2, <4>1, <4>2, <4>5, <4>6, <4>10
    <3> QED BY <3>1, <3>2
  <2>4. \A w \in Worker : ctx'[w].closed_rd =>
        /\ Shut(<<Root, w>>)'
        /\ \E i \in DOMAIN Ps(Root)', k \in Nat :
            /\ Ps(Root)'[i] = w /\ sent'[Root] = k * N + coll'[Root].current - 1
            /\ From(w, Root)' = k + One(i < coll'[Root].current)
    <3>1. \A w \in Worker : From(w, Root)' = From(w, Root) /\ (Shut(<<Root, w>>) => Shut(<<Root, w>>)')
      BY <1>3, <1>13, Connections DEF From
    <3> QED BY <1>3, <1>10, <2>3, <3>1
  <2> QED BY <1>3, <2>2, <2>4 DEF Ends
<1> QED BY <1>19, <1>20, <1>21, <1>22, <1>23, <1>24, <1>25 DEF Inv

(* A handle is closed for good, and then used.                             *)
LEMMA DealEndKeeps ==
  ASSUME Inv, NEW p \in Proc, ProbeOne(p), Next1(<<p, Root>>) # "hdr"
  PROVE  Inv'
<1>1. /\ type = "FANOUT" /\ p \in Worker /\ p # Root /\ op[p].pc = "idle" /\ Ps(p) = <<Root>>
      /\ \E e \in End : e = <<p, Root>> /\ e[1] = p /\ e[2] = Root /\ Probing(p, e)
  BY Dealing
<1>2. PICK e \in End : e = <<p, Root>> /\ e[1] = p /\ e[2] = Root /\ Probing(p, e)
  BY <1>1
<1>3. Typed /\ HandlesKept /\ in[e] # <<>> /\ ctx[p].probed = "no"
  BY <1>2, Kept DEF Probing
<1>4. /\ in[e][1].t # "hdr" /\ Next1(e) = in[e][1].t /\ <<p, coll[p].participants[1]>> = e
  BY <1>1, <1>2, <1>3 DEF Next1, Ps
<1>5. in[e][1].t \in {"eos", "fin"}
  BY <1>2, <1>4, Probes
<1>6. UNCHANGED <<groupsReady, type, ready, op, sent, got>>
  BY <1>4 DEF ProbeOne
<1>7. PICK res \in {"msg", "eos", "end", "again"} : res \in {"eos", "end"} /\ Outcome(p, res)
  <2>1. in[e][1].t = "eos" => Outcome(p, "eos")
    BY <1>4 DEF ProbeOne
  <2>2. in[e][1].t = "fin" => Outcome(p, "end")
    BY <1>4 DEF ProbeOne
  <2> QED BY <1>5, <2>1, <2>2
<1>8. /\ ctx' \in [Proc -> Context] /\ \A x \in Proc : x # p => ctx'[x] = ctx[x]
      /\ user' \in [Proc -> BOOLEAN] /\ \A x \in Proc : x # p => user'[x] = user[x]
      /\ ctx'[p].closed_rd /\ ctx'[p].probed # "msg" /\ (ctx[p].closed_wr => ctx'[p].closed_wr)
  BY <1>3, <1>7, Answered
<1>9. /\ coll' \in [Proc -> Impl] /\ \A x \in Proc : x # p => coll'[x] = coll[x]
      /\ Ps(p)' \in {<<>>, <<Root>>}
  <2>1. PICK c \in Impl : c = coll[p]
    BY <1>3, ProcTypes
  <2>2. PICK s \in Seq(Proc) : s \in {<<>>, <<Root>>} /\ s = IF Next1(e) = "eos" THEN <<>> ELSE c.participants
    <3>1. c.participants = <<Root>> /\ c.participants \in Seq(Proc)
      BY <1>1, <2>1 DEF Ps, Impl
    <3>2. <<>> \in Seq(Proc)
      OBVIOUS
    <3> QED BY <3>1, <3>2
  <2>3. PICK r : r = [c EXCEPT !.participants = s]
    OBVIOUS
  <2>4. r \in Impl /\ r.participants = s
    BY <2>3 DEF Impl
  <2>5. coll' = [coll EXCEPT ![p].participants = IF Next1(e) = "eos" THEN <<>> ELSE @]
    BY <1>4 DEF ProbeOne
  <2>6. coll' = [coll EXCEPT ![p] = r]
    BY <2>1, <2>2, <2>3, <2>5
  <2> QED BY <1>3, <2>2, <2>4, <2>6 DEF Typed, TypeOK, Ps
<1>10. CASE in[e][1].t = "fin"
  <2>1. in' = Taken(e, 1) /\ handle' = handle /\ in[e][1] = FIN
    <3>1. in[e][1] = FIN
      <4>1. \E z \in 1..2, b \in Nat :
           /\ Seg(in[e], 0, b, b, z, Flow(e)) /\ Ending(e, z)
           /\ IF Carries(e) THEN Read(e, b) /\ Written(e, b) ELSE b = 0
           /\ in[e][1].t = "eos" => z = 2 /\ in[e][1] = EOS /\ in[e][1] # FIN
           /\ in[e][1].t = "fin" => z = 1 /\ in[e][1] = FIN
        BY <1>1, <1>2, <1>3, <1>5, AtEnd
      <4> QED BY <1>10, <4>1
    <3> QED BY <1>4, <1>10, <3>1 DEF ProbeOne
  <2>2. in' = in
    BY <1>3, <2>1 DEF Taken, Typed, TypeOK
  <2>3. EndRead(e) /\ in' = [d \in End |-> in'[d]]
    BY <1>3, <1>5, <2>1, <2>2 DEF EndRead, Typed, TypeOK
  <2>4. handle'[e].life # "live" => handle'[e].closed_rd /\ handle'[e].closed_wr
    BY <1>3, <2>1 DEF HandlesKept
  <2>5. handle' \in [End -> HandleState] /\ (\A d \in End : d # e => handle'[d] = handle[d]) /\ (Shut(e) => Shut(e)')
    BY <1>3, <2>1 DEF Typed, TypeOK, Shut
  <2>6. DealtOut(p, e)
    BY <1>6, <1>8, <1>9, <2>3, <2>4, <2>5 DEF DealtOut
  <2> QED BY <1>1, <1>2, <2>6, DealtOutKeeps
<1>11. CASE in[e][1].t = "eos"
  <2>1. /\ in' = Closed(Taken(e, 1), {e}, TRUE)
        /\ handle' = [handle EXCEPT ![e] = [Mark(handle[e], TRUE, TRUE) EXCEPT !.life = "used"]]
    BY <1>4, <1>11 DEF ProbeOne
  <2>2. PICK h \in HandleState : h = handle[e] /\ (h.life # "live" => h.closed_rd /\ h.closed_wr)
    BY <1>3, EndTypes DEF HandlesKept
  <2>3. \E m \in HandleState :
         /\ m = Mark(h, TRUE, TRUE)
         /\ h.life = "live" => m.closed_wr /\ m.closed_rd /\ m.life = "freed"
         /\ h.life # "live" => /\ m.closed_wr = h.closed_wr /\ m.closed_rd = h.closed_rd
                               /\ m.life = "used"
    BY MarkBoth
  <2>4. PICK m \in HandleState : m = Mark(h, TRUE, TRUE) /\ m.closed_wr /\ m.closed_rd
    BY <2>2, <2>3
  <2>5. PICK r : r = [m EXCEPT !.life = "used"]
    OBVIOUS
  <2>6. r \in HandleState /\ r.closed_wr /\ r.closed_rd
    BY <2>4, <2>5 DEF HandleState
  <2>7. handle' = [handle EXCEPT ![e] = r]
    BY <2>1, <2>2, <2>4, <2>5
  <2>8. handle' \in [End -> HandleState] /\ handle'[e] = r /\ (\A d \in End : d # e => handle'[d] = handle[d])
    BY <1>3, <2>6, <2>7 DEF Typed, TypeOK
  <2>9. Shut(e)'
    BY <2>6, <2>8 DEF Shut
  <2>10. EndRead(e) /\ in' = [d \in End |-> in'[d]]
    BY <1>3, <1>11, <2>1, <2>9, ClosedEnd
  <2>11. DealtOut(p, e)
    BY <1>6, <1>8, <1>9, <2>6, <2>8, <2>9, <2>10 DEF DealtOut
  <2> QED BY <1>1, <1>2, <2>11, DealtOutKeeps
<1> QED BY <1>5, <1>10, <1>11

LEMMA ProbeOneKeeps ==
  ASSUME Inv, NEW p \in Proc, ProbeOne(p)
  PROVE  Inv'
BY DealHeaderKeeps, DealEndKeeps

(***************************************************************************)
(* A turn of the loop of a fan-in's probe.                                 *)
(***************************************************************************)

(* Where the root of a fan-in is looking.                                  *)
Looks(i, w, e) ==
    /\ op[Root].pc = "probe" /\ op[Root].i = i /\ type = "FANIN"
    /\ ctx[Root].probed = "no" /\ ~ctx[Root].closed_rd /\ user[Root]
    /\ i \in DOMAIN Ps(Root) /\ Ps(Root)[i] = w /\ Among(w, Ps(Root)) /\ Ps(Root) # <<>>
    /\ e = <<Root, w>> /\ e[1] = Root /\ e[2] = w
    /\ in[e] # <<>> => Probing(Root, e)

LEMMA Looking ==
  ASSUME Inv, NEW p \in Proc, ProbeTurn(p)
  PROVE  p = Root /\ \E i \in Nat, w \in Worker, e \in End : Looks(i, w, e)
<1>1. Typed /\ Members /\ ContextAt(p) /\ op[p].pc = "probe"
  BY Kept DEF Contexts, ProbeTurn, At
<1>2. p = Root /\ type = "FANIN" /\ ctx[Root].probed = "no" /\ ~ctx[Root].closed_rd /\ user[Root]
  BY <1>1 DEF ContextAt, At
<1>3. PICK i \in Nat : i = op[Root].i /\ i \in DOMAIN Ps(Root)
  BY <1>1, <1>2, ProcTypes DEF Typed, TypeOK, Ps
<1>4. PICK w \in Worker : w = Ps(Root)[i]
  BY <1>1, <1>3, ElementOfSeq, LenProperties DEF Members
<1>5. PICK e \in End : e = <<Root, w>> /\ e[1] = Root /\ e[2] = w
  BY Connections
<1>6. Among(w, Ps(Root))
  BY <1>3, <1>4 DEF Among
<1>7. Ps(Root) # <<>>
  BY <1>3, EmptySeq
<1>8. in[e] # <<>> => Probing(Root, e)
  BY <1>1, <1>2, <1>4, <1>5, <1>6 DEF Probing
<1>9. Looks(i, w, e)
  BY <1>1, <1>2, <1>3, <1>4, <1>5, <1>6, <1>7, <1>8 DEF Looks
<1> QED BY <1>2, <1>9

(* The end of a stream of a fan-in has been read.                          *)
FannedEnd(e) ==
    /\ UNCHANGED <<groupsReady, type, ready, sent, got>>
    /\ op' \in [Proc -> Call] /\ \A x \in Proc : x # Root => op'[x] = op[x]
    /\ op'[Root].pc \in {"probe", "idle"}
    /\ op'[Root].pc = "probe" => op'[Root].i \in DOMAIN Ps(Root)' /\ ctx' = ctx /\ user' = user
    /\ ctx' \in [Proc -> Context] /\ \A x \in Proc : x # Root => ctx'[x] = ctx[x]
    /\ user' \in [Proc -> BOOLEAN] /\ \A x \in Proc : x # Root => user'[x] = user[x]
    /\ ctx'[Root].closed_rd \/ (ctx' = ctx /\ user' = user /\ Ps(Root)' # <<>>)
    /\ ctx'[Root].probed # "msg" /\ (ctx[Root].closed_wr => ctx'[Root].closed_wr)
    /\ coll' \in [Proc -> Impl] /\ \A x \in Proc : x # Root => coll'[x] = coll[x]
    /\ Ps(Root)' \in Seq(Worker) /\ IsInjective(Ps(Root)')
    /\ \A w \in Worker : Among(w, Ps(Root))' => Among(w, Ps(Root))
    /\ in[e][1].t = "eos" =>
        /\ ~Among(e[2], Ps(Root))' /\ \A w \in Worker : Among(w, Ps(Root)) /\ w # e[2] => Among(w, Ps(Root))'
        /\ ctx'[Root].closed_rd => Ps(Root)' = <<>>
    /\ handle' \in [End -> HandleState] /\ \A d \in End : d # e => handle'[d] = handle[d]
    /\ handle'[e] = handle[e] \/ ~Among(e[2], Ps(Root))'
    /\ handle'[e].life # "live" => handle'[e].closed_rd /\ handle'[e].closed_wr
    /\ handle'[e].life = "used" => handle[e].life = "used"
    /\ Shut(e) => Shut(e)'
    /\ EndRead(e) /\ in' = [d \in End |-> in'[d]]

LEMMA FannedEndKeeps ==
  ASSUME Inv, NEW i \in Nat, NEW w \in Worker, NEW e \in End, Looks(i, w, e), FannedEnd(e)
  PROVE  Inv'
<1>1. /\ Typed /\ Members /\ Contexts /\ HandlesKept /\ Streams /\ Values /\ Ends
      /\ Root \in Proc /\ Worker \subseteq Proc
  BY Kept, Team
<1>2. /\ type = "FANIN" /\ op[Root].pc = "probe" /\ ctx[Root].probed = "no" /\ ~ctx[Root].closed_rd
      /\ e = <<Root, w>> /\ e[1] = Root /\ e[2] = w /\ Among(w, Ps(Root))
  BY DEF Looks
<1>3. UNCHANGED <<groupsReady, type, ready, sent, got>>
  BY DEF FannedEnd
<1>4. /\ op' \in [Proc -> Call] /\ \A x \in Proc : x # Root => op'[x] = op[x]
      /\ op'[Root].pc \in {"probe", "idle"}
      /\ op'[Root].pc = "probe" => op'[Root].i \in DOMAIN Ps(Root)' /\ ctx' = ctx /\ user' = user
  BY DEF FannedEnd
<1>5. /\ ctx' \in [Proc -> Context] /\ \A x \in Proc : x # Root => ctx'[x] = ctx[x]
      /\ user' \in [Proc -> BOOLEAN] /\ \A x \in Proc : x # Root => user'[x] = user[x]
      /\ ctx'[Root].closed_rd \/ (ctx' = ctx /\ user' = user /\ Ps(Root)' # <<>>)
      /\ ctx'[Root].probed # "msg" /\ (ctx[Root].closed_wr => ctx'[Root].closed_wr)
  BY DEF FannedEnd
<1>6. /\ coll' \in [Proc -> Impl] /\ \A x \in Proc : x # Root => coll'[x] = coll[x]
      /\ Ps(Root)' \in Seq(Worker) /\ IsInjective(Ps(Root)')
      /\ \A x \in Worker : Among(x, Ps(Root))' => Among(x, Ps(Root))
  BY DEF FannedEnd
<1>7. in[e][1].t = "eos" =>
        /\ ~Among(w, Ps(Root))' /\ \A x \in Worker : Among(x, Ps(Root)) /\ x # w => Among(x, Ps(Root))'
        /\ ctx'[Root].closed_rd => Ps(Root)' = <<>>
  BY <1>2 DEF FannedEnd
<1>8. /\ handle' \in [End -> HandleState] /\ \A d \in End : d # e => handle'[d] = handle[d]
      /\ handle'[e] = handle[e] \/ ~Among(w, Ps(Root))'
      /\ handle'[e].life # "live" => handle'[e].closed_rd /\ handle'[e].closed_wr
      /\ handle'[e].life = "used" => handle[e].life = "used"
      /\ Shut(e) => Shut(e)'
  BY <1>2 DEF FannedEnd
<1>9. EndRead(e) /\ in' = [d \in End |-> in'[d]]
  BY DEF FannedEnd
<1>10. in[e] # <<>> /\ in[e][1].t \in {"eos", "fin"} /\ Probing(Root, e)
  BY <1>9 DEF EndRead, Looks
<1>11. Carries(e) /\ \A b \in Nat : Read(e, b) => b = 2 * From(Root, w)
  BY <1>1, <1>2, <1>10, Probes
<1>12. /\ \A x \in Proc : \A k \in {"create", "dead", "ended"} : At(x, k)' <=> At(x, k)
       /\ \A x \in Proc : Working(x)' <=> Working(x)
       /\ \A x \in Proc : ctx[x].closed_rd => ctx'[x].closed_rd
       /\ Working(Root) /\ Working(Root)'
  BY <1>1, <1>2, <1>4, <1>5 DEF At, Working
<1>13. Dead' = Dead /\ \A x \in Worker : Known(x)' => Known(x)
  BY <1>3, <1>6, <1>12 DEF Dead, Known, Among
<1>14. \A d \in End : Shut(d) => Shut(d)'
  BY <1>8 DEF Shut
<1>15. Onward
  BY <1>1, <1>3, <1>6, <1>12, <1>13, <1>14 DEF Onward
<1>16. SidesKept
  <2>1. ASSUME NEW d \in End
        PROVE  /\ Flow(d)' = Flow(d)
               /\ \A n \in Nat : Carries(d) => (Read(d, n) => Read(d, n)') /\ (Written(d, n) => Written(d, n)')
               /\ \A x \in Worker : d[2] = x /\ Known(x)' => Known(x)
    <3>1. Flow(d)' = Flow(d)
      BY <1>2, <1>3 DEF Flow
    <3>2. ASSUME NEW n \in Nat, Written(d, n) PROVE Written(d, n)'
      BY <1>2, <1>3, <3>2 DEF Written
    <3>3. ASSUME NEW n \in Nat, Read(d, n) PROVE Read(d, n)'
      <4>1. ~HalfRead(d[2]) /\ ~HalfRead(d[2])'
        BY <1>2, <1>5 DEF HalfRead
      <4>2. One(HalfRead(d[2])) = 0 /\ One(HalfRead(d[2]))' = 0
        BY <4>1 DEF One
      <4> QED BY <1>2, <1>3, <3>3, <4>2 DEF Read, From
    <3> QED BY <1>13, <3>1, <3>2, <3>3
  <2> QED BY <2>1 DEF SidesKept
<1>17. PICK z \in 1..2, b \in Nat :
        /\ Seg(in[e], 0, b, b, z, Flow(e)) /\ Ending(e, z)
        /\ Read(e, b) /\ Written(e, b)
        /\ in[e][1].t = "eos" => z = 2 /\ in[e][1] = EOS /\ in[e][1] # FIN
        /\ in[e][1].t = "fin" => z = 1 /\ in[e][1] = FIN
  <2>1. \E z \in 1..2, b \in Nat :
           /\ Seg(in[e], 0, b, b, z, Flow(e)) /\ Ending(e, z)
           /\ IF Carries(e) THEN Read(e, b) /\ Written(e, b) ELSE b = 0
           /\ in[e][1].t = "eos" => z = 2 /\ in[e][1] = EOS /\ in[e][1] # FIN
           /\ in[e][1].t = "fin" => z = 1 /\ in[e][1] = FIN
    BY <1>2, <1>10, AtEnd
  <2> QED BY <1>11, <2>1
<1>18. in[e][1].t = "eos" => Ending(e, 1)'
  <2>1. SUFFICES ASSUME in[e][1].t = "eos" PROVE Ending(e, 1)'
    OBVIOUS
  <2>2. Shut(Peer(e)) \/ At(w, "dead")
    BY <1>2, <1>17 DEF Ending
  <2>3. Shut(Peer(e))' \/ At(w, "dead")'
    BY <1>1, <1>12, <1>14, <2>2, Connections
  <2>4. ~Among(e[2], Ps(Root))' /\ Working(Root)' /\ type' = "FANIN"
    BY <1>2, <1>3, <1>7, <1>12, <2>1
  <2> QED BY <1>2, <2>3, <2>4 DEF Ending
<1>19. in' \in [End -> Seq(Frame)] /\ Streams'
  <2>1. ~At(e[1], "dead") /\ (e[1] # Root \/ Among(e[2], Ps(Root)))
    BY <1>2 DEF At
  <2> QED BY <1>9, <1>15, <1>16, <1>18, <2>1, EndStreams
<1>20. Typed'
  <2>1. \A x \in Proc : op'[x].pc \in {"probe", "receive"} => op'[x].i \in DOMAIN coll'[x].participants
    BY <1>1, <1>4, <1>6 DEF Typed, TypeOK, Ps
  <2> QED BY <1>1, <1>3, <1>4, <1>5, <1>6, <1>8, <1>19, <2>1 DEF Typed, TypeOK, Results
<1>21. Members'
  <2>1. ASSUME NEW x \in Worker
        PROVE  /\ Ps(x)' \in {<<>>, <<Root>>}
               /\ Working(x)' /\ (type = "FANOUT" => ~ctx'[x].closed_rd) => Ps(x)' = <<Root>>
               /\ At(x, "create")' => ~Known(x)'
    <3>1. Ps(x)' = Ps(x) /\ x \in Proc
      BY <1>1, <1>6, Team DEF Ps
    <3>2. At(x, "create")' => ~Known(x)'
      BY <1>1, <1>12, <1>13, <3>1 DEF Members, Known
    <3> QED BY <1>1, <1>2, <1>12, <3>1, <3>2 DEF Members
  <2>2. ASSUME NEW x \in Proc, At(x, "create")' PROVE Unborn(x)'
    <3>1. At(x, "create") /\ x # Root
      BY <1>2, <1>12, <2>2 DEF At
    <3>2. Untouched(x)
      BY <1>2, <1>3, <1>4, <1>5, <1>6, <1>8, <3>1 DEF Untouched
    <3> QED BY <1>1, <3>1, <3>2, Unborns, UnbornKept
  <2>3. IsInjective(groupsReady') /\ type' = type
    BY <1>1, <1>3 DEF Members
  <2> QED BY <1>2, <1>6, <2>1, <2>2, <2>3, MembersFrom
<1>22. Contexts'
  <2>1. ASSUME NEW x \in Proc PROVE ContextAt(x)'
    <3>1. CASE x # Root
      BY <1>1, <1>3, <1>4, <1>5, <3>1, ContextKept DEF Contexts
    <3>2. ContextAt(Root)'
      <4>1. ContextAt(Root)
        BY <1>1 DEF Contexts
      <4>2. CASE ctx'[Root].closed_rd
        <5>1. op'[Root].pc # "probe"
          BY <1>2, <1>4, <4>2
        <5> QED BY <1>3, <1>4, <1>5, <4>1, <4>2, <5>1 DEF ContextAt, At
      <4>3. CASE ctx' = ctx /\ user' = user
        BY <1>2, <1>3, <1>4, <4>1, <4>3 DEF ContextAt, At
      <4> QED BY <1>5, <4>2, <4>3
    <3> QED BY <3>1, <3>2
  <2> QED BY <1>5, <2>1 DEF Contexts
<1>23. HandlesKept'
  <2>1. \A d \in End : (handle[d].life # "live" => handle[d].closed_rd /\ handle[d].closed_wr)'
    BY <1>1, <1>8 DEF HandlesKept
  <2>2. OthersSafe'
    BY <1>1, <1>3, <1>8, <1>13 DEF HandlesKept, OthersSafe
  <2>3. ASSUME NEW x \in Worker, Among(x, Ps(Root))' PROVE Fresh(<<Root, x>>)'
    <3>1. Fresh(<<Root, x>>) /\ <<Root, x>> \in End
      BY <1>1, <1>2, <1>6, <2>3, Connections DEF HandlesKept
    <3>2. handle'[<<Root, x>>] = handle[<<Root, x>>]
      BY <1>2, <1>8, <2>3, <3>1
    <3> QED BY <3>1, <3>2 DEF Fresh
  <2> QED BY <1>2, <1>3, <2>1, <2>2, <2>3 DEF HandlesKept
<1>24. Values'
  BY <1>1, <1>2, <1>3 DEF Values
<1>25. Ends'
  <2>1. SUFFICES ASSUME Dead = {} PROVE Ends'
    BY <1>13 DEF Ends
  <2>2. \A x \in Proc : At(x, "ended")' => IF x = Root THEN type = "GATHER" ELSE type = "BROADCAST"
    BY <1>1, <1>12, <2>1 DEF Ends
  <2>3. in[e][1].t = "eos" /\ z = 2 /\ Shut(Peer(e))
    <3>1. ~(z = 1)
      BY <1>2, <1>17, <2>1 DEF Ending
    <3>2. z = 2
      BY <1>17, <3>1
    <3>3. ~At(w, "dead")
      BY <1>1, <2>1 DEF Dead
    <3> QED BY <1>2, <1>10, <1>17, <3>2, <3>3 DEF Ending
  <2>4. Shut(<<w, Root>>) /\ From(Root, w) = sent[w]
    <3>1. b = 2 * From(Root, w) /\ b = 2 * sent[w]
      BY <1>2, <1>11, <1>17 DEF Written
    <3>2. From(Root, w) \in Nat /\ sent[w] \in Nat
      BY <1>1, ProcTypes, GotTypes
    <3>3. Peer(e) = <<w, Root>>
      BY <1>2, Connections
    <3> QED BY <2>3, <3>1, <3>2, <3>3
  <2>5. ASSUME NEW x \in Worker, ~Among(x, Ps(Root))'
        PROVE  Shut(<<x, Root>>)' /\ From(Root, x)' = sent'[x]
    <3>1. Shut(<<x, Root>>) /\ From(Root, x) = sent[x]
      <4>1. CASE x = w
        BY <2>4, <4>1
      <4>2. CASE x # w
        <5>1. ~Among(x, Ps(Root))
          BY <1>7, <2>3, <2>5, <4>2
        <5> QED BY <1>1, <1>2, <1>12, <2>1, <5>1 DEF Ends
      <4> QED BY <4>1, <4>2
    <3>2. <<x, Root>> \in End
      BY Connections
    <3> QED BY <1>3, <1>14, <3>1, <3>2 DEF From
  <2>6. ctx'[Root].closed_rd => Ps(Root)' = <<>> /\ Working(Root)'
    BY <1>7, <1>12, <2>3
  <2> QED BY <1>2, <1>3, <2>2, <2>5, <2>6 DEF Ends
<1> QED BY <1>19, <1>20, <1>21, <1>22, <1>23, <1>24, <1>25 DEF Inv

LEMMA FanHeaderKeeps ==
  ASSUME Inv, ProbeTurn(Root), NEW i \in Nat, NEW w \in Worker, NEW e \in End, Looks(i, w, e),
         Next1(e) = "hdr"
  PROVE  Inv'
<1>1. /\ op[Root].i = i /\ i \in DOMAIN Ps(Root) /\ Ps(Root)[i] = w /\ e = <<Root, w>> /\ e[2] = w
      /\ in[e] # <<>> => Probing(Root, e)
  BY DEF Looks
<1>2. in[e] # <<>> /\ in[e][1].t = "hdr" /\ Probing(Root, e) /\ Typed /\ Root \in Proc
  BY <1>1, Kept, Team DEF Next1
<1>3. <<Root, coll[Root].participants[op[Root].i]>> = e
  BY <1>1 DEF Ps
<1>4. UNCHANGED <<groupsReady, type, ready, sent, got>> /\ in' = Taken(e, 1) /\ handle' = handle
  BY <1>3 DEF ProbeTurn
<1>5. coll' = [coll EXCEPT ![Root].participants = coll[Root].participants, ![Root].probed_idx = i]
  BY <1>1, <1>3 DEF ProbeTurn
<1>6. Return(Root, "idle") /\ Outcome(Root, "msg")
  <2>1. PICK res : res = CASE Next1(e) = "hdr" -> "msg"
                           [] Next1(e) = "fin" -> "end"
                           [] coll[Root].participants = <<>> -> "eos"
                           [] OTHER -> "again"
    OBVIOUS
  <2>2. res = "msg" /\ res # "again"
    BY <2>1 DEF Looks, Ps
  <2>3. IF res = "again" /\ (op[Root].blocking \/ ~(i + 1 > Len(coll[Root].participants)))
        THEN op' = [op EXCEPT ![Root].i = Wrapped(i + 1, coll[Root].participants)] /\ UNCHANGED <<ctx, user>>
        ELSE Return(Root, "idle") /\ Outcome(Root, res)
    BY <1>1, <1>3, <2>1 DEF ProbeTurn
  <2> QED BY <2>2, <2>3
<1>7. PICK c \in Impl : c = coll[Root]
  BY <1>2, ProcTypes
<1>8. PICK r : r = [c EXCEPT !.participants = c.participants, !.probed_idx = i]
  OBVIOUS
<1>9. r \in Impl /\ r.participants = c.participants /\ r.probed_idx = i /\ r.current = c.current
  BY <1>8 DEF Impl
<1>10. coll' = [coll EXCEPT ![Root] = r]
  BY <1>5, <1>7, <1>8
<1>11. /\ coll' \in [Proc -> Impl] /\ coll'[Root] = r /\ \A x \in Proc : x # Root => coll'[x] = coll[x]
  BY <1>2, <1>9, <1>10 DEF Typed, TypeOK
<1>12. \A x \in Proc : Ps(x)' = Ps(x) /\ coll'[x].current = coll[x].current
  BY <1>7, <1>9, <1>11 DEF Ps
<1>13. coll'[Root].probed_idx \in DOMAIN Ps(Root) /\ Ps(Root)[coll'[Root].probed_idx] = e[2]
  BY <1>1, <1>9, <1>11
<1>14. PICK res \in {"msg", "eos", "end", "again"} : res = "msg" /\ Outcome(Root, res)
  BY <1>6
<1>15. /\ ctx' \in [Proc -> Context] /\ \A x \in Proc : x # Root => ctx'[x] = ctx[x]
       /\ ctx'[Root].toManage = ctx[Root].toManage
       /\ ctx'[Root].probed = "msg" /\ ctx'[Root].closed_rd = ctx[Root].closed_rd
       /\ ctx'[Root].closed_wr = ctx[Root].closed_wr /\ user' = user
  BY <1>2, <1>14, Answered
<1>16. PICK l \in {"idle", "ended", "dead"} : l = "idle" /\ Return(Root, l)
  BY <1>6
<1>17. op' \in [Proc -> Call] /\ op'[Root].pc = "idle" /\ \A x \in Proc : x # Root => op'[x] = op[x]
  BY <1>2, <1>16, Returned
<1>18. ProbedMsg(Root, e)
  BY <1>4, <1>11, <1>12, <1>13, <1>15, <1>17 DEF ProbedMsg
<1> QED BY <1>2, <1>18, HeaderKeeps

(* The list and the position of who was probed, written back.              *)
LEMMA SameImpl ==
  ASSUME Typed, coll' = [coll EXCEPT ![Root].participants = coll[Root].participants,
                                     ![Root].probed_idx = coll[Root].probed_idx]
  PROVE  coll' = coll
<1>1. PICK c \in Impl : c = coll[Root]
  BY ProcTypes, Team
<1>2. PICK r : r = [c EXCEPT !.participants = c.participants, !.probed_idx = c.probed_idx]
  OBVIOUS
<1>3. r = c
  BY <1>2 DEF Impl
<1>4. coll' = [coll EXCEPT ![Root] = c]
  BY <1>1, <1>2, <1>3
<1> QED BY <1>1, <1>4, Team DEF Typed, TypeOK

(* What is left to do after a turn that ends nothing.                      *)
Goes(left, iter) ==
    \/ op' = [op EXCEPT ![Root].i = Wrapped(iter, left)] /\ UNCHANGED <<ctx, user>>
    \/ Return(Root, "idle") /\ Outcome(Root, "again")

LEMMA GoesOn ==
  ASSUME Typed, op[Root].pc = "probe", NEW left \in Seq(Proc), left # <<>>,
         NEW iter \in Nat, iter >= 1, Goes(left, iter)
  PROVE  /\ op' \in [Proc -> Call] /\ \A x \in Proc : x # Root => op'[x] = op[x]
         /\ op'[Root].pc \in {"probe", "idle"} /\ ctx' = ctx /\ user' = user
         /\ op'[Root].pc = "probe" => op'[Root].i \in DOMAIN left
<1>1. Root \in Proc
  BY Team
<1>2. CASE op' = [op EXCEPT ![Root].i = Wrapped(iter, left)] /\ UNCHANGED <<ctx, user>>
  <2>1. PICK c \in Call : c = op[Root] /\ c.pc = "probe"
    BY <1>1, ProcTypes
  <2>2. PICK l \in Nat : l = Len(left) /\ l >= 1 /\ DOMAIN left = 1..l
    BY LenProperties, EmptySeq
  <2>3. PICK j \in Nat : j = Wrapped(iter, left) /\ j \in 1..l
    BY <2>2 DEF Wrapped
  <2>4. PICK r : r = [c EXCEPT !.i = j]
    OBVIOUS
  <2>5. r \in Call /\ r.pc = "probe" /\ r.i = j
    BY <2>1, <2>4 DEF Call
  <2>6. op' = [op EXCEPT ![Root] = r]
    BY <1>2, <2>1, <2>3, <2>4
  <2>7. op' \in [Proc -> Call] /\ op'[Root] = r /\ \A x \in Proc : x # Root => op'[x] = op[x]
    BY <1>1, <2>5, <2>6 DEF Typed, TypeOK
  <2> QED BY <1>2, <2>2, <2>3, <2>5, <2>7
<1>3. CASE Return(Root, "idle") /\ Outcome(Root, "again")
  <2>1. PICK l \in {"idle", "ended", "dead"} : l = "idle" /\ Return(Root, l)
    BY <1>3
  <2>2. op' \in [Proc -> Call] /\ op'[Root].pc = "idle" /\ \A x \in Proc : x # Root => op'[x] = op[x]
    BY <1>1, <2>1, Returned
  <2>3. PICK res \in {"msg", "eos", "end", "again"} : res = "again" /\ Outcome(Root, res)
    BY <1>3
  <2>4. ctx' = ctx /\ user' = user
    BY <1>1, <2>3, Answered
  <2> QED BY <2>2, <2>4
<1> QED BY <1>2, <1>3 DEF Goes

(* Nothing has come from this participant.                                 *)
LEMMA FanNoneKeeps ==
  ASSUME Inv, ProbeTurn(Root), NEW i \in Nat, NEW w \in Worker, NEW e \in End, Looks(i, w, e),
         Next1(e) = "none"
  PROVE  Inv'
<1>1. /\ op[Root].pc = "probe" /\ type = "FANIN"
      /\ op[Root].i = i /\ Ps(Root)[i] = w /\ Ps(Root) # <<>> /\ e = <<Root, w>>
  BY DEF Looks
<1>2. /\ Typed /\ Root \in Proc /\ ContextAt(Root) /\ Ps(Root) \in Seq(Proc)
  BY Kept, Team, ProcTypes DEF Contexts
<1>3. <<Root, coll[Root].participants[op[Root].i]>> = e
  BY <1>1 DEF Ps
<1>4. UNCHANGED <<groupsReady, type, ready, sent, got>> /\ in' = in /\ handle' = handle
  BY <1>3 DEF ProbeTurn
<1>5. coll' = [coll EXCEPT ![Root].participants = coll[Root].participants,
                           ![Root].probed_idx = coll[Root].probed_idx]
  BY <1>3 DEF ProbeTurn
<1>6. coll' = coll
  BY <1>2, <1>5, SameImpl
<1>7. Goes(Ps(Root), i + 1)
  BY <1>1, <1>3 DEF ProbeTurn, Goes, Ps
<1>8. i + 1 \in Nat /\ i + 1 >= 1
  OBVIOUS
<1>9. /\ op' \in [Proc -> Call] /\ \A x \in Proc : x # Root => op'[x] = op[x]
      /\ op'[Root].pc \in {"probe", "idle"} /\ ctx' = ctx /\ user' = user
      /\ op'[Root].pc = "probe" => op'[Root].i \in DOMAIN Ps(Root)
  BY <1>1, <1>2, <1>7, <1>8, GoesOn
<1>10. Quiet
  BY <1>1, <1>4, <1>6, <1>9 DEF Quiet, Still, Working, At
<1>11. Typed'
  <2>1. \A x \in Proc : op'[x].pc \in {"probe", "receive"} => op'[x].i \in DOMAIN coll'[x].participants
    BY <1>2, <1>6, <1>9 DEF Typed, TypeOK, Ps
  <2> QED BY <1>2, <1>4, <1>6, <1>9, <2>1 DEF Typed, TypeOK, Results
<1>12. ContextAt(Root)'
  BY <1>1, <1>2, <1>4, <1>9 DEF ContextAt, At
<1>13. ~At(Root, "create") /\ ready' = ready
  BY <1>1, <1>4 DEF At
<1> QED BY <1>2, <1>9, <1>10, <1>11, <1>12, <1>13, LocalKeeps DEF Inv

(* A connection has ended without EOS: its process has died.               *)
LEMMA FanFinKeeps ==
  ASSUME Inv, ProbeTurn(Root), NEW i \in Nat, NEW w \in Worker, NEW e \in End, Looks(i, w, e),
         Next1(e) = "fin"
  PROVE  Inv'
<1>1. /\ op[Root].i = i /\ Ps(Root)[i] = w /\ e = <<Root, w>> /\ ctx[Root].probed = "no"
      /\ in[e] # <<>> => Probing(Root, e)
  BY DEF Looks
<1>2. /\ Typed /\ Members /\ HandlesKept /\ Root \in Proc
      /\ in[e] # <<>> /\ in[e][1].t = "fin"
  BY Kept, Team DEF Next1
<1>3. <<Root, coll[Root].participants[op[Root].i]>> = e
  BY <1>1 DEF Ps
<1>4. UNCHANGED <<groupsReady, type, ready, sent, got>> /\ in' = in /\ handle' = handle
  BY <1>3 DEF ProbeTurn
<1>5. coll' = [coll EXCEPT ![Root].participants = coll[Root].participants,
                           ![Root].probed_idx = coll[Root].probed_idx]
  BY <1>3 DEF ProbeTurn
<1>6. coll' = coll
  BY <1>2, <1>5, SameImpl
<1>7. Return(Root, "idle") /\ Outcome(Root, "end")
  <2>1. PICK res : res = CASE Next1(e) = "hdr" -> "msg"
                           [] Next1(e) = "fin" -> "end"
                           [] coll[Root].participants = <<>> -> "eos"
                           [] OTHER -> "again"
    OBVIOUS
  <2>2. res = "end" /\ res # "again"
    BY <2>1 DEF Looks, Ps
  <2>3. IF res = "again" /\ (op[Root].blocking \/ ~(i + 1 > Len(coll[Root].participants)))
        THEN op' = [op EXCEPT ![Root].i = Wrapped(i + 1, coll[Root].participants)] /\ UNCHANGED <<ctx, user>>
        ELSE Return(Root, "idle") /\ Outcome(Root, res)
    BY <1>1, <1>3, <2>1 DEF ProbeTurn
  <2> QED BY <2>2, <2>3
<1>8. PICK l \in {"idle", "ended", "dead"} : l = "idle" /\ Return(Root, l)
  BY <1>7
<1>9. op' \in [Proc -> Call] /\ op'[Root].pc = "idle" /\ \A x \in Proc : x # Root => op'[x] = op[x]
  BY <1>2, <1>8, Returned
<1>10. PICK res \in {"msg", "eos", "end", "again"} : res = "end" /\ Outcome(Root, res)
  BY <1>7
<1>11. /\ ctx' \in [Proc -> Context] /\ \A x \in Proc : x # Root => ctx'[x] = ctx[x]
       /\ user' \in [Proc -> BOOLEAN] /\ \A x \in Proc : x # Root => user'[x] = user[x]
       /\ ctx'[Root].closed_rd /\ ctx'[Root].probed # "msg"
       /\ (ctx[Root].closed_wr => ctx'[Root].closed_wr)
  BY <1>1, <1>2, <1>10, Answered
<1>12. EndRead(e) /\ in' = [d \in End |-> in'[d]]
  <2>1. Probing(Root, e) /\ (e[1] # Root \/ Among(e[2], Ps(Root)))
    BY <1>1, <1>2 DEF Probing
  <2>2. \E z \in 1..2, b \in Nat :
           /\ Seg(in[e], 0, b, b, z, Flow(e)) /\ Ending(e, z)
           /\ IF Carries(e) THEN Read(e, b) /\ Written(e, b) ELSE b = 0
           /\ in[e][1].t = "eos" => z = 2 /\ in[e][1] = EOS /\ in[e][1] # FIN
           /\ in[e][1].t = "fin" => z = 1 /\ in[e][1] = FIN
    BY <1>2, <2>1, AtEnd
  <2>3. in[e][1] = FIN
    BY <1>2, <2>2
  <2> QED BY <1>2, <1>4, <2>3 DEF EndRead, Typed, TypeOK
<1>13. Ps(Root)' = Ps(Root) /\ Ps(Root) \in Seq(Worker) /\ IsInjective(Ps(Root))
       /\ \A x \in Worker : Among(x, Ps(Root))' <=> Among(x, Ps(Root))
  BY <1>2, <1>6 DEF Ps, Members, Among
<1>14. handle'[e].life # "live" => handle'[e].closed_rd /\ handle'[e].closed_wr
  BY <1>2, <1>4 DEF HandlesKept
<1>15. coll' \in [Proc -> Impl] /\ handle' \in [End -> HandleState]
  BY <1>2, <1>4, <1>6 DEF Typed, TypeOK
<1>16. FannedEnd(e)
  BY <1>2, <1>4, <1>6, <1>9, <1>11, <1>12, <1>13, <1>14, <1>15 DEF FannedEnd, Shut
<1> QED BY <1>16, FannedEndKeeps

(* A participant has sent EOS: it leaves the list, and its handle is       *)
(* closed; the last one ends the fan-in.                                   *)
LEMMA FanEosKeeps ==
  ASSUME Inv, ProbeTurn(Root), NEW i \in Nat, NEW w \in Worker, NEW e \in End, Looks(i, w, e),
         Next1(e) = "eos"
  PROVE  Inv'
<1>1. /\ op[Root].pc = "probe" /\ type = "FANIN" /\ ctx[Root].probed = "no" /\ e[2] = w
      /\ op[Root].i = i /\ i \in DOMAIN Ps(Root) /\ Ps(Root)[i] = w /\ e = <<Root, w>>
      /\ Among(w, Ps(Root))
  BY DEF Looks
<1>2. /\ Typed /\ Members /\ HandlesKept /\ Root \in Proc /\ Worker \subseteq Proc
      /\ in[e] # <<>> /\ in[e][1].t = "eos"
  BY Kept, Team DEF Next1
<1>3. <<Root, coll[Root].participants[op[Root].i]>> = e
  BY <1>1 DEF Ps
<1>4. UNCHANGED <<groupsReady, type, ready, sent, got>>
  BY DEF ProbeTurn
<1>5. in' = Closed(Taken(e, 1), {e}, TRUE) /\ handle' = Marked({e}, TRUE, TRUE)
  BY <1>3 DEF ProbeTurn
<1>6. PICK left : left = Without(Ps(Root), i)
  OBVIOUS
<1>7. Ps(Root) \in Seq(Worker) /\ Ps(Root) \in Seq(Proc) /\ IsInjective(Ps(Root)) /\ i \in 1..Len(Ps(Root))
  BY <1>1, <1>2, ProcTypes, LenProperties DEF Members
<1>8. left \in Seq(Worker) /\ left \in Seq(Proc)
  <2>1. left \in Seq(Worker)
    BY <1>6, <1>7, Removed
  <2>2. left \in Seq(Proc)
    BY <1>6, <1>7, Removed
  <2> QED BY <2>1, <2>2
<1>9. /\ IsInjective(left) /\ ~Among(w, left)
      /\ \A x \in Worker : (Among(x, left) => Among(x, Ps(Root)))
                           /\ (Among(x, Ps(Root)) /\ x # w => Among(x, left))
  <2>1. IsInjective(left) /\ \A x : Among(x, left) <=> Among(x, Ps(Root)) /\ x # Ps(Root)[i]
    BY <1>6, <1>7, Left
  <2> QED BY <1>1, <2>1
<1>10. coll' = [coll EXCEPT ![Root].participants = left, ![Root].probed_idx = coll[Root].probed_idx]
  BY <1>1, <1>3, <1>6 DEF ProbeTurn, Ps
<1>11. /\ coll' \in [Proc -> Impl] /\ \A x \in Proc : x # Root => coll'[x] = coll[x]
       /\ Ps(Root)' = left
  <2>1. PICK c \in Impl : c = coll[Root]
    BY <1>2, ProcTypes
  <2>2. PICK r : r = [c EXCEPT !.participants = left, !.probed_idx = c.probed_idx]
    OBVIOUS
  <2>3. r \in Impl /\ r.participants = left
    BY <1>8, <2>2 DEF Impl
  <2>4. coll' = [coll EXCEPT ![Root] = r]
    BY <1>10, <2>1, <2>2
  <2> QED BY <1>2, <2>3, <2>4 DEF Typed, TypeOK, Ps
<1>12. /\ handle' \in [End -> HandleState] /\ \A d \in End : d # e => handle'[d] = handle[d]
       /\ handle'[e].closed_rd /\ handle'[e].closed_wr /\ handle'[e].life = "freed"
  <2>1. Fresh(e)
    BY <1>1, <1>2 DEF HandlesKept
  <2>2. PICK h \in HandleState : h = handle[e] /\ h.life = "live"
    BY <1>2, <2>1, EndTypes DEF Fresh
  <2>3. \E m \in HandleState :
         /\ m = Mark(h, TRUE, TRUE)
         /\ h.life = "live" => m.closed_wr /\ m.closed_rd /\ m.life = "freed"
         /\ h.life # "live" => /\ m.closed_wr = h.closed_wr /\ m.closed_rd = h.closed_rd
                               /\ m.life = "used"
    BY MarkBoth
  <2>4. PICK m \in HandleState : m = Mark(h, TRUE, TRUE) /\ m.closed_wr /\ m.closed_rd /\ m.life = "freed"
    BY <2>2, <2>3
  <2>5. \A d \in End : handle'[d] = IF d \in {e} THEN Mark(handle[d], TRUE, TRUE) ELSE handle[d]
    BY <1>5 DEF Marked
  <2>6. handle'[e] = m /\ \A d \in End : d # e => handle'[d] = handle[d]
    BY <2>2, <2>4, <2>5
  <2>7. handle' = [d \in End |-> handle'[d]]
    BY <1>5 DEF Marked
  <2>8. \A d \in End : handle'[d] \in HandleState
    BY <1>2, <2>6, EndTypes
  <2>9. handle' \in [End -> HandleState]
    BY <2>7, <2>8
  <2> QED BY <2>4, <2>6, <2>9
<1>13. EndRead(e) /\ in' = [d \in End |-> in'[d]]
  <2>1. Shut(e)'
    BY <1>12 DEF Shut
  <2> QED BY <1>2, <1>5, <2>1, ClosedEnd
<1>14. PICK iter \in Nat : iter = (IF i > Len(left) THEN i ELSE i + 1) /\ iter >= 1
  <2>1. i \in Nat /\ i >= 1 /\ Len(left) \in Nat
    BY <1>7, <1>8, LenProperties
  <2> QED BY <2>1
<1>15. IF left # <<>> /\ (op[Root].blocking \/ ~(iter > Len(left)))
       THEN op' = [op EXCEPT ![Root].i = Wrapped(iter, left)] /\ UNCHANGED <<ctx, user>>
       ELSE Return(Root, "idle") /\ Outcome(Root, IF left = <<>> THEN "eos" ELSE "again")
  BY <1>1, <1>3, <1>6, <1>14 DEF ProbeTurn, Ps
<1>16. /\ op' \in [Proc -> Call] /\ \A x \in Proc : x # Root => op'[x] = op[x]
       /\ op'[Root].pc \in {"probe", "idle"}
       /\ op'[Root].pc = "probe" => op'[Root].i \in DOMAIN left /\ ctx' = ctx /\ user' = user
       /\ ctx' \in [Proc -> Context] /\ \A x \in Proc : x # Root => ctx'[x] = ctx[x]
       /\ user' \in [Proc -> BOOLEAN] /\ \A x \in Proc : x # Root => user'[x] = user[x]
       /\ ctx'[Root].closed_rd \/ (ctx' = ctx /\ user' = user /\ left # <<>>)
       /\ ctx'[Root].probed # "msg" /\ (ctx[Root].closed_wr => ctx'[Root].closed_wr)
       /\ ctx'[Root].closed_rd => left = <<>>
  <2>1. CASE left = <<>>
    <3>1. Return(Root, "idle") /\ Outcome(Root, "eos")
      BY <1>15, <2>1
    <3>2. PICK l \in {"idle", "ended", "dead"} : l = "idle" /\ Return(Root, l)
      BY <3>1
    <3>3. op' \in [Proc -> Call] /\ op'[Root].pc = "idle" /\ \A x \in Proc : x # Root => op'[x] = op[x]
      BY <1>2, <3>2, Returned
    <3>4. PICK res \in {"msg", "eos", "end", "again"} : res = "eos" /\ Outcome(Root, res)
      BY <3>1
    <3>5. /\ ctx' \in [Proc -> Context] /\ \A x \in Proc : x # Root => ctx'[x] = ctx[x]
          /\ user' \in [Proc -> BOOLEAN] /\ \A x \in Proc : x # Root => user'[x] = user[x]
          /\ ctx'[Root].closed_rd /\ ctx'[Root].probed # "msg"
          /\ (ctx[Root].closed_wr => ctx'[Root].closed_wr)
      BY <1>1, <1>2, <3>4, Answered
    <3> QED BY <2>1, <3>3, <3>5
  <2>2. CASE left # <<>>
    <3>1. Goes(left, iter)
      BY <1>15, <2>2 DEF Goes
    <3>2. /\ op' \in [Proc -> Call] /\ \A x \in Proc : x # Root => op'[x] = op[x]
          /\ op'[Root].pc \in {"probe", "idle"} /\ ctx' = ctx /\ user' = user
          /\ op'[Root].pc = "probe" => op'[Root].i \in DOMAIN left
      BY <1>1, <1>2, <1>8, <1>14, <2>2, <3>1, GoesOn
    <3> QED BY <1>1, <1>2, <2>2, <3>2 DEF Typed, TypeOK, Looks
  <2> QED BY <2>1, <2>2
<1>17. \A x \in Worker : Among(x, Ps(Root))' <=> Among(x, left)
  BY <1>11 DEF Among
<1>18. FannedEnd(e)
  <2>1. /\ UNCHANGED <<groupsReady, type, ready, sent, got>>
        /\ ~Among(e[2], Ps(Root))' /\ \A x \in Worker : Among(x, Ps(Root)) /\ x # e[2] => Among(x, Ps(Root))'
        /\ \A x \in Worker : Among(x, Ps(Root))' => Among(x, Ps(Root))
        /\ Shut(e)'
    BY <1>1, <1>4, <1>9, <1>12, <1>17 DEF Shut
  <2> QED BY <1>8, <1>9, <1>11, <1>12, <1>13, <1>16, <2>1 DEF FannedEnd
<1> QED BY <1>18, FannedEndKeeps

LEMMA ProbeTurnKeeps ==
  ASSUME Inv, NEW p \in Proc, ProbeTurn(p)
  PROVE  Inv'
<1>1. p = Root /\ \E i \in Nat, w \in Worker, e \in End : Looks(i, w, e)
  BY Looking
<1>2. PICK i \in Nat, w \in Worker, e \in End : Looks(i, w, e)
  BY <1>1
<1>3. ProbeTurn(Root)
  BY <1>1
<1>4. Next1(e) \in {"none", "hdr", "eos", "fin"}
  <2>1. in[e] # <<>> => in[e][1].t \in {"hdr", "eos", "fin"}
    BY <1>2, Probes, Team DEF Looks
  <2> QED BY <2>1 DEF Next1
<1> QED BY <1>2, <1>3, <1>4, FanNoneKeeps, FanHeaderKeeps, FanEosKeeps, FanFinKeeps

(***************************************************************************)
(* The invariant holds.                                                    *)
(***************************************************************************)
LEMMA InitHolds ==
  ASSUME Init
  PROVE  Inv
<1>1. /\ Root \in Proc /\ Worker \subseteq Proc /\ N \in Nat /\ N >= 1
      /\ type \in {"BROADCAST", "FANIN", "FANOUT", "GATHER"}
  BY Team, TeamAssumption DEF Init
<1>2. /\ groupsReady = <<>> /\ type \in Types /\ \A e \in End : in[e] = <<>> /\ Fresh(e)
      /\ \A p \in Proc :
          /\ ctx[p].probed = "no" /\ ~ctx[p].toManage /\ ~user[p] /\ ready[p] = 0 /\ sent[p] = 0
          /\ ctx[p].closed_rd = ~CanReceive(type, p) /\ ctx[p].closed_wr = ~CanSend(type, p)
          /\ Ps(p) = <<>> /\ coll[p].current = 1 /\ op[p].pc = "create"
          /\ \A q \in Proc : got[p][q] = <<>> /\ From(p, q) = 0
  <2>1. \A p \in Proc : op[p].pc = "create"
    <3>1. PICK c \in Call : c = NoCall
      BY IdleCall
    <3>2. [c EXCEPT !.pc = "create"].pc = "create"
      BY DEF Call
    <3> QED BY <3>1, <3>2 DEF Init, NoCall
  <2>2. \A p \in Proc, q \in Proc : got[p][q] = <<>> /\ From(p, q) = 0
    BY EmptySeq DEF Init, From
  <2> QED BY <2>1, <2>2 DEF Init, Fresh, Ps
<1>3. Typed
  <2>1. op \in [Proc -> Call]
    <3>1. PICK c \in Call : c = NoCall
      BY IdleCall
    <3>2. [c EXCEPT !.pc = "create"] \in Call
      BY DEF Call
    <3> QED BY <3>1, <3>2 DEF Init, NoCall
  <2>2. ctx \in [Proc -> Context]
    BY DEF Init, Context, CanReceive, CanSend
  <2>3. coll \in [Proc -> Impl] /\ handle \in [End -> HandleState]
    BY DEF Init, Impl, HandleState
  <2>4. in \in [End -> Seq(Frame)] /\ user \in [Proc -> BOOLEAN] /\ ready \in [Proc -> Nat]
        /\ groupsReady \in Seq(Worker) /\ sent \in [Proc -> 0..MaxSend]
    BY TeamAssumption DEF Init
  <2>5. got \in [Proc -> [Proc -> Seq(Results)]]
    BY DEF Init
  <2> QED BY <1>2, <2>1, <2>2, <2>3, <2>4, <2>5 DEF Typed, TypeOK
<1>4. \A x : ~Among(x, <<>>)
  BY DEF Among
<1>5. Members
  <2>1. Ps(Root) = <<>> /\ IsInjective(<<>>) /\ <<>> \in Seq(Worker)
    BY <1>1, <1>2 DEF IsInjective
  <2>2. \A p \in Proc : ~Working(p)
    BY <1>2 DEF Working
  <2>3. \A w \in Worker : Ps(w) \in {<<>>, <<Root>>} /\ ~Working(w)
                          /\ ~Among(w, groupsReady) /\ ~Among(w, Ps(Root))
    BY <1>1, <1>2, <1>4, <2>1, <2>2
  <2>4. \A p \in Proc : Unborn(p)
    BY <1>2 DEF Unborn
  <2> QED BY <1>1, <1>2, <2>1, <2>2, <2>3, <2>4 DEF Members, Unborn
<1>6. Contexts
  BY <1>1, <1>2 DEF Contexts, ContextAt, Working, At
<1>7. HandlesKept
  <2>1. \A e \in End : handle[e].life = "live" /\ ~handle[e].closed_rd /\ ~handle[e].closed_wr
    BY <1>2 DEF Fresh
  <2>2. \A w \in Worker : <<Root, w>> \in End /\ <<w, Root>> \in End
    BY Connections
  <2>3. OthersSafe /\ \A e \in End : handle[e].life # "live" => handle[e].closed_rd /\ handle[e].closed_wr
    BY <2>1 DEF OthersSafe
  <2>4. \A w \in Worker : Fresh(<<Root, w>>) /\ Fresh(<<w, Root>>)
    BY <1>2, <2>2
  <2>5. \A w \in Worker : ~handle[<<Root, w>>].closed_rd /\ ~handle[<<w, Root>>].closed_rd
                          /\ Shut(<<Root, w>>) = FALSE
    BY <2>1, <2>2, <2>4 DEF Shut, Fresh
  <2> QED BY <2>3, <2>4, <2>5 DEF HandlesKept
<1>8. ASSUME NEW e \in End PROVE Stream(e)
  <2>1. e[1] \in Proc /\ e[2] \in Proc /\ in[e] = <<>>
    BY <1>2, Connections
  <2>2. Seg(in[e], 0, 0, 0, 0, Flow(e)) /\ Opening(e, 0, 0) /\ Ending(e, 0)
    BY <2>1, EmptySeq DEF Seg, Opening, Ending
  <2>3. Read(e, 0)
    <3>1. One(HalfRead(e[2])) = 0 /\ One(ctx[e[1]].probed = "msg") = 0
      BY <1>1, <1>2, <2>1 DEF HalfRead, One
    <3>2. From(Root, e[2]) = 0 /\ From(e[1], Root) = 0 /\ L = 0
      BY <1>1, <1>2, <2>1 DEF L
    <3>3. ~At(Root, "receive")
      BY <1>1, <1>2 DEF At
    <3>4. type = "GATHER" => Read(e, 0)
      BY <3>2, <3>3 DEF Read
    <3>5. type = "FANIN" => Read(e, 0)
      BY <3>1, <3>2 DEF Read
    <3>6. type = "FANOUT" => Read(e, 0)
      BY <3>1, <3>2 DEF Read
    <3>7. type = "BROADCAST" => Read(e, 0)
      BY <3>2 DEF Read
    <3> QED BY <1>1, <3>4, <3>5, <3>6, <3>7
  <2>4. Written(e, 0)
    <3>1. sent[e[2]] = 0 /\ sent[Root] = 0 /\ DOMAIN Ps(Root) = {}
      BY <1>1, <1>2, <2>1, EmptySeq
    <3>2. PICK j \in Nat : j = 0 /\ 0 = 2 * j
      OBVIOUS
    <3>3. type = "BROADCAST" => Written(e, 0)
      BY <3>1, <3>2 DEF Written
    <3>4. PICK s : s = sent[e[2]] /\ 0 = 2 * s /\ 0 = 4 * s
      BY <3>1
    <3>6. (type = "FANIN" => Written(e, 0)) /\ (type = "GATHER" => Written(e, 0))
      BY <3>4 DEF Written
    <3>5. type = "FANOUT" => Written(e, 0)
      BY <3>1 DEF Written
    <3> QED BY <1>1, <3>3, <3>5, <3>6
  <2> QED BY <2>2, <2>3, <2>4 DEF Stream
<1>9. Values
  <2>1. \A p \in Proc, q \in Proc : DOMAIN got[p][q] = {}
    BY <1>2, EmptySeq
  <2>2. DOMAIN Ps(Root) = {} /\ L = 0 /\ sent[Root] = 0 /\ coll[Root].current \in 1..N /\ ~At(Root, "receive")
    BY <1>1, <1>2, EmptySeq DEF L, At
  <2> QED BY <1>1, <2>1, <2>2 DEF Values, Consecutive
<1>10. Ends
  <2>1. \A p \in Proc : ~At(p, "ended") /\ ~Working(p)
    BY <1>2 DEF At, Working
  <2>2. type = "FANIN" => ~ctx[Root].closed_rd
    BY <1>1, <1>2 DEF CanReceive
  <2>3. type = "FANOUT" => \A w \in Worker : ~ctx[w].closed_rd
    BY <1>1, <1>2, Team DEF CanReceive
  <2> QED BY <1>1, <2>1, <2>2, <2>3 DEF Ends
<1> QED BY <1>3, <1>5, <1>6, <1>7, <1>8, <1>9, <1>10 DEF Inv, Streams

LEMMA StutterKeeps ==
  ASSUME Inv, UNCHANGED vars
  PROVE  Inv'
<1>1. UNCHANGED <<groupsReady, type, in, handle, ctx, coll, user, ready, op, sent, got>>
  BY DEF vars
<1>2. Quiet
  BY <1>1 DEF Quiet, Still, Working, At
<1>3. Typed' /\ Members' /\ Contexts'
  BY <1>1 DEF Inv, Typed, TypeOK, Results, Members, Contexts, ContextAt, Among, Ps, Working, At,
              Fresh, IsInjective
<1> QED BY <1>2, <1>3, QuietKeeps DEF Inv

LEMMA NextKeeps ==
  ASSUME Inv, Next
  PROVE  Inv'
<1>1. PICK p \in Proc : Creation(p) \/ Sender(p) \/ Receiver(p) \/ Yield(p) \/ Poll(p)
                        \/ GetNext(p) \/ Die(p)
  BY DEF Next
<1>2. CASE Creation(p)
  <2>1. Join(p) => p \in Worker
    BY Team DEF Join
  <2> QED BY <1>2, <2>1, JoinKeeps, GatheredKeeps, AcceptKeeps DEF Creation
<1>3. CASE Sender(p)
  BY <1>3, SendAllKeeps, SendFailsKeeps, SendOneKeeps, SendRankedKeeps, CloseKeeps DEF Sender
<1>4. CASE Receiver(p)
  BY <1>4, ProbeTurnKeeps, ProbeOneKeeps, ReceiveKeeps, ReceiveAllKeeps, GatherStartKeeps,
     GatherTurnKeeps, ProbeStartKeeps DEF Receiver
<1>5. CASE Yield(p) \/ Poll(p) \/ GetNext(p) \/ Die(p)
  BY <1>5, YieldKeeps, PollKeeps, GetNextKeeps, DieKeeps
<1> QED BY <1>1, <1>2, <1>3, <1>4, <1>5

(* The strengthening of the properties below is an invariant: every step   *)
(* of createTeam, of the collectives and of the IO thread preserves it.    *)
THEOREM InvCorrect == Spec => []Inv
<1>1. Init => Inv
  BY InitHolds
<1>2. Inv /\ [Next]_vars => Inv'
  BY StutterKeeps, NextKeeps
<1> QED BY <1>1, <1>2, PTL DEF Spec

(* The context of a team that can be received from is in one place: the    *)
(* program, the ready queue or the contexts the IO thread polls.           *)
THEOREM OneHolderCorrect == Spec => []OneHolder
<1>1. Inv => OneHolder
  <2>1. SUFFICES ASSUME Inv PROVE OneHolder
    OBVIOUS
  <2>2. TypeOK /\ \A p \in Proc : ContextAt(p)
    BY <2>1, Kept DEF Typed, Contexts
  <2>3. ASSUME NEW p \in Proc, CanReceive(type, p), ~ctx[p].closed_rd, ~At(p, "create"), p \notin Dead
        PROVE  One(user[p]) + ready[p] + One(ctx[p].toManage) = 1
    BY <2>2, <2>3 DEF ContextAt, Dead, At
  <2> QED BY <2>2, <2>3 DEF OneHolder
<1> QED BY <1>1, InvCorrect, PTL

(* No handle of a team but a fan-out's is used after Handle::close has     *)
(* deleted it, while nobody dies.                                          *)
THEOREM OthersSafeCorrect == Spec => []OthersSafe
<1>1. Inv => OthersSafe
  BY Kept DEF HandlesKept
<1> QED BY <1>1, InvCorrect, PTL

(* The turn of a member of a fan-out is its place in the list.             *)
LEMMA TurnIs ==
  ASSUME Members, Ps(Root) # <<>>, type = "FANOUT", NEW w \in Worker
  PROVE  \E i \in 1..N : DOMAIN Ps(Root) = 1..N /\ Ps(Root)[i] = w /\ Turn(w) = i
                         /\ \A k \in DOMAIN Ps(Root) : Ps(Root)[k] = w => k = i
<1>1. Ps(Root) \in Seq(Worker) /\ IsInjective(Ps(Root)) /\ Len(Ps(Root)) = N /\ DOMAIN Ps(Root) = 1..N
  BY LenProperties DEF Members
<1>2. PICK i \in 1..N : Ps(Root)[i] = w
  BY <1>1, AllListed DEF Among
<1>3. \A k \in 1..N : Ps(Root)[k] = w => k = i
  BY <1>1, <1>2 DEF IsInjective
<1>4. Turn(w) = i
  BY <1>2, <1>3 DEF Turn, Ps
<1> QED BY <1>1, <1>2, <1>3, <1>4

(* What probe and receive, or sendrecv, deliver arrives whole, once, in    *)
(* order and at the right member.                                          *)
THEOREM InOrderCorrect == Spec => []InOrder
<1>1. Inv => InOrder
  <2>1. SUFFICES ASSUME Inv PROVE InOrder
    OBVIOUS
  <2>2. Typed /\ Members /\ Values /\ Streams /\ Root \in Proc /\ Worker \subseteq Proc
        /\ type \in {"BROADCAST", "FANIN", "FANOUT", "GATHER"}
    BY <2>1, Kept, Kind, Team
  <2>3. CASE type = "FANIN" \/ type = "BROADCAST"
    BY <2>2, <2>3 DEF InOrder, Values
  <2>4. CASE type = "FANOUT"
    <3>1. ASSUME NEW w \in Worker, NEW k \in DOMAIN got[w][Root]
          PROVE  got[w][Root][k] = (k - 1) * N + Turn(w)
      <4>1. CASE Ps(Root) # <<>>
        <5>1. PICK i \in 1..N : DOMAIN Ps(Root) = 1..N /\ Ps(Root)[i] = w /\ Turn(w) = i
          BY <2>2, <2>4, <4>1, TurnIs
        <5> QED BY <2>2, <2>4, <3>1, <5>1 DEF Values
      <4>2. Ps(Root) # <<>>
        <5>1. PICK e \in End : e = <<w, Root>> /\ e[1] = w /\ e[2] = Root
          BY Connections
        <5>2. Carries(e)
          BY <2>4, <5>1 DEF Carries
        <5>3. PICK b \in Nat, m \in Nat : b <= m /\ Read(e, b) /\ Written(e, m)
          BY <2>2, <5>2 DEF Streams, Stream, Seg
        <5>4. PICK o \in 0..1 : o = One(ctx[w].probed = "msg")
          BY DEF One
        <5>5. b = 2 * From(w, Root) + o
          BY <2>4, <5>1, <5>3, <5>4 DEF Read
        <5>6. From(w, Root) \in Nat /\ DOMAIN got[w][Root] = 1..From(w, Root)
          BY <2>2, LenProperties DEF From, Typed
        <5>7. From(w, Root) >= 1
          BY <3>1, <5>6
        <5>8. m # 0
          BY <5>3, <5>5, <5>6, <5>7
        <5> QED BY <2>4, <5>3, <5>8 DEF Written
      <4> QED BY <4>1, <4>2
    <3> QED BY <2>4, <3>1 DEF InOrder
  <2>5. CASE type = "GATHER"
    <3>1. DOMAIN got[Root][Root] = 1..L
      BY <2>2, LenProperties DEF From, L, Typed
    <3> QED BY <2>2, <2>5, <3>1 DEF InOrder, Values
  <2> QED BY <2>2, <2>3, <2>4, <2>5
<1> QED BY <1>1, InvCorrect, PTL

LEMMA Quotient ==
  ASSUME NEW n \in Nat, n >= 1, NEW k \in Nat, NEW r \in 0..(n - 1), NEW t \in Nat, t = k * n + r
  PROVE  t \div n = k
BY SMTT(60)

(* How many of s values, dealt to n in turn, the i-th of them gets.        *)
LEMMA Shares ==
  ASSUME NEW n \in Nat, n >= 1, NEW q \in Nat, NEW c \in 1..n, NEW i \in 1..n,
         NEW s \in Nat, s = q * n + c - 1
  PROVE  (s + n - i) \div n = q + (IF i < c THEN 1 ELSE 0)
<1>1. ASSUME NEW k \in Nat, NEW r \in 0..(n - 1), NEW t \in Nat, t = k * n + r
      PROVE  t \div n = k
  BY <1>1, Quotient
<1>2. PICK x \in Nat : x = q * n
  OBVIOUS
<1>3. CASE i < c
  <2>1. (q + 1) * n = x + n
    BY <1>2
  <2>2. s + n - i = (q + 1) * n + (c - 1 - i) /\ c - 1 - i \in 0..(n - 1) /\ s + n - i \in Nat
    BY <1>2, <1>3, <2>1
  <2>3. (s + n - i) \div n = q + 1
    BY <1>1, <2>2
  <2> QED BY <1>3, <2>3
<1>4. CASE ~(i < c)
  <2>1. s + n - i = q * n + (c - 1 + n - i) /\ c - 1 + n - i \in 0..(n - 1) /\ s + n - i \in Nat
    BY <1>2, <1>4
  <2>2. (s + n - i) \div n = q
    BY <1>1, <2>1
  <2> QED BY <1>4, <2>2
<1> QED BY <1>3, <1>4

(* Who is told of the end, by EOS or a sendrecv that returns 0, has        *)
(* received everything, while nobody dies.                                 *)
THEOREM EndIsCompleteCorrect == Spec => []EndIsComplete
<1>1. Inv => EndIsComplete
  <2>1. SUFFICES ASSUME Inv, Dead = {}, NEW p \in Proc, Told(p) PROVE Complete(p)
    BY DEF EndIsComplete
  <2>2. Typed /\ Members /\ Ends /\ Values /\ Root \in Proc /\ Worker \subseteq Proc /\ N \in Nat /\ N >= 1
        /\ type \in {"BROADCAST", "FANIN", "FANOUT", "GATHER"} /\ (p = Root \/ p \in Worker)
    BY <2>1, Kept, Kind, Team
  <2>3. At(p, "ended") => IF p = Root THEN type = "GATHER" ELSE type = "BROADCAST"
    BY <2>1, <2>2 DEF Ends
  <2>4. CASE type = "FANIN"
    <3>1. p = Root /\ ctx[Root].closed_rd
      BY <2>1, <2>3, <2>4 DEF Told, CanReceive
    <3>2. Ps(Root) = <<>> /\ \A w \in Worker : Shut(<<w, Root>>) /\ From(Root, w) = sent[w]
      <4>1. Ps(Root) = <<>> /\ Working(Root)
        BY <2>1, <2>2, <2>4, <3>1 DEF Ends
      <4>2. \A w \in Worker : ~Among(w, Ps(Root))
        BY <4>1, EmptySeq DEF Among
      <4> QED BY <2>1, <2>2, <2>4, <4>1, <4>2 DEF Ends
    <3> QED BY <2>4, <3>1, <3>2 DEF Complete
  <2>5. CASE type = "FANOUT"
    <3>1. p \in Worker /\ p # Root /\ ctx[p].closed_rd
      BY <2>1, <2>2, <2>3, <2>5, Team DEF Told, CanReceive
    <3>2. PICK i \in DOMAIN Ps(Root), q \in Nat :
            /\ Ps(Root)[i] = p /\ sent[Root] = q * N + coll[Root].current - 1
            /\ From(p, Root) = q + One(i < coll[Root].current)
      BY <2>1, <2>2, <2>5, <3>1 DEF Ends
    <3>3. Ps(Root) # <<>>
      BY <3>2, EmptySeq
    <3>4. PICK k \in 1..N : DOMAIN Ps(Root) = 1..N /\ Turn(p) = k
                            /\ \A x \in DOMAIN Ps(Root) : Ps(Root)[x] = p => x = k
      BY <2>2, <2>5, <3>1, <3>3, TurnIs
    <3>5. i = k
      BY <3>2, <3>4
    <3>6. PICK c \in 1..N : c = coll[Root].current
      BY <2>2, <2>5 DEF Values
    <3>7. PICK s \in Nat : s = sent[Root] /\ s = q * N + c - 1
      BY <2>2, <3>2, <3>6, ProcTypes
    <3>8. (s + N - k) \div N = q + (IF k < c THEN 1 ELSE 0)
      BY <2>2, <3>7, Shares
    <3>9. From(p, Root) = (sent[Root] + N - Turn(p)) \div N
      BY <3>2, <3>4, <3>5, <3>6, <3>7, <3>8 DEF One
    <3> QED BY <2>5, <3>9 DEF Complete
  <2>6. CASE type = "BROADCAST"
    <3>1. At(p, "ended") /\ p \in Worker
      BY <2>1, <2>2, <2>3, <2>6 DEF Told, CanReceive
    <3> QED BY <2>1, <2>2, <2>6, <3>1 DEF Complete, Ends
  <2>7. CASE type = "GATHER"
    <3>1. At(p, "ended") /\ p = Root
      BY <2>1, <2>2, <2>3, <2>7 DEF Told, CanReceive
    <3> QED BY <2>1, <2>2, <2>7, <3>1 DEF Complete, Ends, L
  <2> QED BY <2>2, <2>4, <2>5, <2>6, <2>7
<1> QED BY <1>1, InvCorrect, PTL
=============================================================================
