----------------------------- MODULE MpiProofs ------------------------------
(***************************************************************************)
(* Mpi, for any number of connections, any tags and any number of          *)
(* messages: no handle receives what was sent on another connection and    *)
(* each has one owner (NotCrossed), two processes that finalize do not     *)
(* wait for each other (NoMutualWait), and, where one process makes all    *)
(* connections, the handshake that update waits for inside the mutex       *)
(* comes (HandshakeComes).                                                 *)
(***************************************************************************)
EXTENDS Mpi, SequenceTheorems, TLAPS

(***************************************************************************)
(* The inductive invariant, in parts.                                      *)
(***************************************************************************)
Lane(c, p) == net[p][Tag[c]]
Entry(c, p) == connections[p][Tag[c]]
Inserting(c, p) == At(p, "insert") /\ main[p].c = c
InTable(p) == {c \in Conn : Entry(c, p).c = c}
Greeting(c, p) == IoAt(p, "handshake") /\ io[p].c = c
Asked(c, p) == \E i \in DOMAIN request[p] : request[p][i] = c

(* What is on its way with the tag of a connection was sent on it, and so  *)
(* no handle has received anything else.                                   *)
Lanes == \A c \in Conn, p \in Proc :
           Lane(c, p) \in Seq({c} \X Frame) /\ ~h[c][p].crossed

(* The table has a connection under its own tag only, and has it from the  *)
(* insertion to the end of its read side.                                  *)
Table ==
    \A c \in Conn, p \in Proc :
      /\ Entry(c, p).c \in {c, NoConn}
      /\ Entry(c, p).c = NoConn => ~Entry(c, p).to_manage
      /\ h[c][p].made /\ ~h[c][p].closed_rd => Entry(c, p).c = c \/ Inserting(c, p)

(* Nobody knows a handle that is not made yet.                             *)
FreshAt(c, p) ==
    ~h[c][p].made =>
      /\ h[c][p] = NewHandle /\ Entry(c, p).c = NoConn
      /\ user[p][c] = "none" /\ queue[p][c] = 0
      /\ ~Greeting(c, p) /\ ~Inserting(c, p)

Fresh == \A c \in Conn, p \in Proc : FreshAt(c, p)

(* What the two threads of a process are in the middle of.                 *)
BusyAt(p) ==
    /\ At(p, "insert") => /\ h[main[p].c][p].made /\ Entry(main[p].c, p).c = NoConn
                          /\ ~h[main[p].c][p].closed_wr /\ ~h[main[p].c][p].closed_rd
                          /\ Caller[main[p].c] = p
    /\ At(p, "notify") => h[main[p].c][p].made
    /\ IoAt(p, "handshake") => /\ Caller[io[p].c] = Other(p) /\ h[io[p].c][p].made
                               /\ h[io[p].c][p].probed = "none"
                               /\ ~h[io[p].c][p].closed_rd
    /\ IoAt(p, "exited") => main[p].pc \in {"join", "end", "drain", "done"}
    /\ main[p].pc \in {"end", "drain", "done"} => IoAt(p, "exited")

Busy == \A p \in Proc : BusyAt(p)

(* A request on its way was sent once, by the caller, and its callee has   *)
(* no handle yet; a callee that has one was asked by a caller that has.    *)
Requests ==
    /\ \A c \in Conn, p \in Proc :
         /\ Asked(c, p) => /\ ~h[c][p].made /\ h[c][Other(p)].made
                           /\ Caller[c] = Other(p)
         /\ Caller[c] = p /\ h[c][Other(p)].made => h[c][p].made
    /\ \A p \in Proc :
         \A i, j \in DOMAIN request[p] : request[p][i] = request[p][j] => i = j

(* No end ever has two owners, also while finalize runs.                   *)
Single == \A c \in Conn, p \in Proc : Owners(c, p) <= 1

(* A stream is headers and payloads in turn, from a payload where the      *)
(* reader has the header already (k = 1), with EOS at the end where the    *)
(* writer has closed it (e = 1).                                           *)
WellFramed(s, e, k) ==
    /\ Len(s) >= e /\ (Len(s) + k + e) % 2 = 0
    /\ \A i \in 1..Len(s) :
         s[i][2] = IF e = 1 /\ i = Len(s) THEN "eos"
                   ELSE IF (i + k) % 2 = 1 THEN "hdr" ELSE "body"

(* The writer has sent EOS and the reader has not read it.                 *)
EOSComes(c, p) == One(h[c][Other(p)].closed_wr /\ ~h[c][p].closed_rd)
Probed(c, p) == One(h[c][p].probed = "hdr")

FramedAt(c, p) ==
    /\ h[c][p].closed_rd => Lane(c, p) = <<>> /\ h[c][Other(p)].closed_wr
    /\ h[c][p].probed \in {"none", "hdr"} \/ h[c][p].closed_rd
    /\ WellFramed(Lane(c, p), EOSComes(c, p), Probed(c, p))

Framed == \A c \in Conn, p \in Proc : FramedAt(c, p)

(* The handshake of a request comes: its caller is about to send it, or    *)
(* has sent it.                                                            *)
Greeted ==
    \A c \in Conn, p \in Proc :
      Greeting(c, p) \/ Asked(c, p) => Inserting(c, Other(p)) \/ Len(Lane(c, p)) >= 2

(* ConnMPI::end has the rest of the table to close, in the order of the    *)
(* tags, and has sent EOS where it waits for one; an entry whose read side *)
(* is closed is about to go.                                               *)
FinalizingAt(p) ==
    /\ At(p, "end") => main[p].todo = InTable(p)
    /\ At(p, "drain") => /\ main[p].c \in InTable(p)
                         /\ main[p].todo = InTable(p) \ {main[p].c}
                         /\ \A d \in main[p].todo : Tag[main[p].c] < Tag[d]
                         /\ h[main[p].c][p].closed_wr
    /\ At(p, "done") => InTable(p) = {}
    /\ \A c \in InTable(p) : h[c][p].closed_rd => At(p, "notify") /\ main[p].c = c

Finalizing == \A p \in Proc : FinalizingAt(p)

Inv == /\ TypeOK /\ Lanes /\ Table /\ Fresh /\ Busy /\ Requests /\ Single
       /\ OneOwner /\ Framed /\ Greeted /\ Finalizing

-----------------------------------------------------------------------------
(***************************************************************************)
(* Lemmas about processes, streams and the state.                          *)
(***************************************************************************)
(* There are two processes, and each is the other of the other.            *)
LEMMA TwoProcs ==
  ASSUME NEW p \in Proc
  PROVE  /\ Other(p) \in Proc /\ Other(p) # p /\ Other(Other(p)) = p
         /\ \A q \in Proc : q = p \/ q = Other(p)
<1>1. PICK a, b \in Proc : a # b /\ Proc = {a, b}
  BY ProcAssumption
<1>2. \A r \in Proc : \E q \in Proc : q # r
  BY <1>1
<1>3. \A r \in Proc : Other(r) \in Proc /\ Other(r) # r
  BY <1>2 DEF Other
<1> QED BY <1>1, <1>3

(* What sending appends to a stream.                                       *)
LEMMA SentLane ==
  ASSUME NEW c, NEW s \in Seq({c} \X Frame), NEW frames \in Seq(Frame),
         NEW t, t = s \o [i \in DOMAIN frames |-> <<c, frames[i]>>]
  PROVE  /\ t \in Seq({c} \X Frame) /\ Len(t) = Len(s) + Len(frames)
         /\ \A i \in 1..Len(s) : t[i] = s[i]
         /\ \A i \in 1..Len(frames) : t[Len(s) + i] = <<c, frames[i]>>
<1> DEFINE u == [i \in DOMAIN frames |-> <<c, frames[i]>>]
<1>1. /\ Len(frames) \in Nat /\ DOMAIN frames = 1..Len(frames)
      /\ \A i \in 1..Len(frames) : frames[i] \in Frame
  BY LenProperties, ElementOfSeq
<1>2. u \in Seq({c} \X Frame) /\ Len(u) = Len(frames)
  BY <1>1
<1>3. \A i \in 1..Len(frames) : u[i] = <<c, frames[i]>>
  BY <1>1
<1> HIDE DEF u
<1>4. /\ t \in Seq({c} \X Frame) /\ Len(t) = Len(s) + Len(u)
      /\ \A i \in 1..(Len(s) + Len(u)) : t[i] = IF i <= Len(s) THEN s[i] ELSE u[i - Len(s)]
  BY <1>2, ConcatProperties DEF u
<1>5. Len(s) \in Nat
  BY LenProperties
<1> QED BY <1>1, <1>2, <1>3, <1>4, <1>5

(* What receiving leaves of a stream.                                      *)
LEMMA ReceivedLane ==
  ASSUME NEW S, NEW s \in Seq(S), NEW m \in Nat, 1 <= m, m <= Len(s) + 1
  PROVE  /\ SubSeq(s, m, Len(s)) \in Seq(S)
         /\ Len(SubSeq(s, m, Len(s))) = Len(s) + 1 - m
         /\ \A i \in 1..(Len(s) + 1 - m) : SubSeq(s, m, Len(s))[i] = s[i + m - 1]
<1>1. Len(s) \in Nat /\ \A i \in 1..Len(s) : s[i] \in S
  BY LenProperties, ElementOfSeq
<1>2. \A i \in m..Len(s) : s[i] \in S
  BY <1>1
<1>3. /\ SubSeq(s, m, Len(s)) \in Seq(S)
      /\ Len(SubSeq(s, m, Len(s))) = IF m <= Len(s) THEN Len(s) - m + 1 ELSE 0
      /\ \A i \in 1..(Len(s) - m + 1) : SubSeq(s, m, Len(s))[i] = s[m + i - 1]
  BY <1>1, <1>2, SubSeqProperties
<1> QED BY <1>1, <1>3

(* The same for one message.                                               *)
LEMMA OneRead ==
  ASSUME NEW S, NEW s \in Seq(S), s # <<>>
  PROVE  /\ Len(s) \in Nat /\ Len(s) >= 1
         /\ SubSeq(s, 2, Len(s)) \in Seq(S) /\ Len(SubSeq(s, 2, Len(s))) = Len(s) - 1
         /\ \A i \in 1..(Len(s) - 1) : SubSeq(s, 2, Len(s))[i] = s[i + 1]
<1>1. Len(s) \in Nat
  BY LenProperties
<1>2. 1 <= 2 /\ 2 <= Len(s) + 1 /\ 2 \in Nat
  BY <1>1, EmptySeq
<1>3. /\ SubSeq(s, 2, Len(s)) \in Seq(S) /\ Len(SubSeq(s, 2, Len(s))) = Len(s) + 1 - 2
      /\ \A i \in 1..(Len(s) + 1 - 2) : SubSeq(s, 2, Len(s))[i] = s[i + 2 - 1]
  BY <1>2, ReceivedLane, Zenon
<1> QED BY <1>1, <1>2, <1>3

(* The same for two messages.                                              *)
LEMMA TwoRead ==
  ASSUME NEW S, NEW s \in Seq(S), Len(s) >= 2
  PROVE  /\ Len(s) \in Nat
         /\ SubSeq(s, 3, Len(s)) \in Seq(S) /\ Len(SubSeq(s, 3, Len(s))) = Len(s) - 2
         /\ \A i \in 1..(Len(s) - 2) : SubSeq(s, 3, Len(s))[i] = s[i + 2]
<1>1. Len(s) \in Nat
  BY LenProperties
<1>2. 1 <= 3 /\ 3 <= Len(s) + 1 /\ 3 \in Nat
  BY <1>1
<1>3. /\ SubSeq(s, 3, Len(s)) \in Seq(S) /\ Len(SubSeq(s, 3, Len(s))) = Len(s) + 1 - 3
      /\ \A i \in 1..(Len(s) + 1 - 3) : SubSeq(s, 3, Len(s))[i] = s[i + 3 - 1]
  BY <1>2, ReceivedLane, Zenon
<1> QED BY <1>1, <1>2, <1>3

(* The position after a whole message is one of a header.                  *)
LEMMA Parity ==
  ASSUME NEW n \in Nat, NEW j \in {0, 1}, (n + j) % 2 = 0
  PROVE  (n + 1 + j) % 2 = 1 /\ (n + 2 + j) % 2 = 0
OBVIOUS

(* The length that a message makes.                                        *)
LEMMA SentParity ==
  ASSUME NEW n \in Nat, NEW m \in Nat, NEW j \in {0, 1}, (n + j + 0) % 2 = 0, m = n + 2
  PROVE  m >= 0 /\ (m + j + 0) % 2 = 0
OBVIOUS

(* The lengths that reads leave.                                           *)
LEMMA ReadParity ==
  ASSUME NEW n \in Nat, NEW m \in Nat, NEW e \in {0, 1}, n >= e
  PROVE  /\ m = n - 1 /\ (n + 0 + e) % 2 = 0 => (m + 1 + e) % 2 = 0
         /\ m = n - 1 /\ (n + 1 + e) % 2 = 0 => (m + 0 + e) % 2 = 0 /\ m >= e
         /\ m = n - 2 /\ (n + 0 + e) % 2 = 0 => (m + 0 + e) % 2 = 0 /\ m >= e
OBVIOUS

(* What the library sends for one message.                                 *)
Message == <<"hdr", "body">>

(* A message that the library takes keeps a stream well framed.            *)
LEMMA FramedSend ==
  ASSUME NEW c, NEW s \in Seq({c} \X Frame), NEW k \in {0, 1},
         WellFramed(s, 0, k),
         NEW t, t = s \o [i \in DOMAIN Message |-> <<c, Message[i]>>]
  PROVE  /\ WellFramed(t, 0, k) /\ Len(t) = Len(s) + 2 /\ t \in Seq({c} \X Frame)
<1>1. <<"hdr", "body">> \in Seq(Frame) /\ Len(<<"hdr", "body">>) = 2
  BY DEF Frame
<1>2. /\ t \in Seq({c} \X Frame) /\ Len(t) = Len(s) + 2
      /\ \A i \in 1..Len(s) : t[i] = s[i]
      /\ t[Len(s) + 1] = <<c, "hdr">> /\ t[Len(s) + 2] = <<c, "body">>
  BY <1>1, SentLane DEF Message
<1>3. Len(s) \in Nat
  BY LenProperties
<1>w. (Len(s) + k + 0) % 2 = 0
  BY DEF WellFramed
<1>p. (Len(s) + 1 + k) % 2 = 1 /\ (Len(s) + 2 + k) % 2 = 0
  BY <1>3, <1>w, Parity
<1>4. \A i \in 1..Len(t) : i \in 1..Len(s) \/ i = Len(s) + 1 \/ i = Len(s) + 2
  BY <1>2, <1>3
<1>5. \A i \in 1..Len(t) : t[i][2] = IF (i + k) % 2 = 1 THEN "hdr" ELSE "body"
  <2>2. \A i \in 1..Len(s) : s[i][2] = IF (i + k) % 2 = 1 THEN "hdr" ELSE "body"
    BY DEF WellFramed
  <2> SUFFICES ASSUME NEW i \in 1..Len(t)
               PROVE  t[i][2] = IF (i + k) % 2 = 1 THEN "hdr" ELSE "body"
    OBVIOUS
  <2>3. CASE i \in 1..Len(s)
    BY <1>2, <2>2, <2>3
  <2>4. CASE i = Len(s) + 1
    BY <1>2, <1>p, <2>4
  <2>5. CASE i = Len(s) + 2
    BY <1>2, <1>p, <2>5
  <2> QED BY <1>4, <2>3, <2>4, <2>5
<1>6. Len(t) >= 0 /\ (Len(t) + k + 0) % 2 = 0
  <2>1. Len(t) \in Nat /\ Len(t) = Len(s) + 2
    BY <1>2, <1>3
  <2> QED BY <1>3, <1>w, <2>1, SentParity, Zenon
<1> QED BY <1>2, <1>5, <1>6 DEF WellFramed

(* EOS closes a stream.                                                    *)
LEMMA FramedEOS ==
  ASSUME NEW c, NEW s \in Seq({c} \X Frame), NEW k \in {0, 1},
         WellFramed(s, 0, k),
         NEW t, t = s \o [i \in DOMAIN <<"eos">> |-> <<c, <<"eos">>[i]>>]
  PROVE  /\ WellFramed(t, 1, k) /\ Len(t) = Len(s) + 1 /\ t \in Seq({c} \X Frame)
<1>1. <<"eos">> \in Seq(Frame) /\ Len(<<"eos">>) = 1
  BY DEF Frame
<1>2. /\ t \in Seq({c} \X Frame) /\ Len(t) = Len(s) + 1
      /\ \A i \in 1..Len(s) : t[i] = s[i]
      /\ t[Len(s) + 1] = <<c, "eos">>
  BY <1>1, SentLane
<1>3. Len(s) \in Nat
  BY LenProperties
<1> QED BY <1>2, <1>3 DEF WellFramed

(* A header is read, and its payload is next; or EOS, and nothing is.      *)
LEMMA FramedProbe ==
  ASSUME NEW S, NEW s \in Seq(S), NEW e \in {0, 1}, WellFramed(s, e, 0),
         s # <<>>, NEW t, t = SubSeq(s, 2, Len(s))
  PROVE  /\ s[1][2] \in {"hdr", "eos"}
         /\ s[1][2] = "hdr" => WellFramed(t, e, 1)
         /\ s[1][2] = "eos" => e = 1 /\ t = <<>>
<1>1. /\ Len(s) \in Nat /\ Len(s) >= 1 /\ t \in Seq(S) /\ Len(t) = Len(s) - 1
      /\ \A i \in 1..(Len(s) - 1) : t[i] = s[i + 1]
  BY OneRead, Zenon
<1>2. s[1][2] = IF e = 1 /\ 1 = Len(s) THEN "eos" ELSE "hdr"
  BY <1>1 DEF WellFramed
<1>3. Len(t) = 0 => t = <<>>
  BY <1>1, EmptySeq
<1>4. ASSUME s[1][2] = "hdr" PROVE WellFramed(t, e, 1)
  <2>1. Len(t) >= e /\ (Len(t) + 1 + e) % 2 = 0
    <3>1. (Len(s) + 0 + e) % 2 = 0 /\ Len(s) >= e
      BY DEF WellFramed
    <3>2. Len(t) \in Nat /\ (e = 1 => Len(s) # 1)
      BY <1>1, <1>2, <1>4
    <3>3. (Len(t) + 1 + e) % 2 = 0
      BY <1>1, <3>1, <3>2, ReadParity, Zenon
    <3>4. Len(s) >= e
      BY <3>1
    <3>5. Len(t) >= e
      BY <1>1, <3>2, <3>4
    <3> QED BY <3>3, <3>5, Zenon
  <2>2. \A i \in 1..Len(t) : t[i][2] = IF e = 1 /\ i = Len(t) THEN "eos"
                                       ELSE IF (i + 1) % 2 = 1 THEN "hdr" ELSE "body"
    <3> SUFFICES ASSUME NEW i \in 1..Len(t)
                 PROVE  t[i][2] = IF e = 1 /\ i = Len(t) THEN "eos"
                                  ELSE IF (i + 1) % 2 = 1 THEN "hdr" ELSE "body"
      OBVIOUS
    <3>1. i + 1 \in 1..Len(s) /\ t[i] = s[i + 1] /\ (i = Len(t) <=> i + 1 = Len(s))
      BY <1>1
    <3>2. s[i + 1][2] = IF e = 1 /\ i + 1 = Len(s) THEN "eos"
                        ELSE IF (i + 1 + 0) % 2 = 1 THEN "hdr" ELSE "body"
      BY <3>1 DEF WellFramed
    <3> QED BY <3>1, <3>2
  <2> QED BY <2>1, <2>2 DEF WellFramed
<1> QED BY <1>1, <1>2, <1>3, <1>4

(* A payload is read, and a header or EOS is next.                         *)
LEMMA FramedReceive ==
  ASSUME NEW S, NEW s \in Seq(S), NEW e \in {0, 1}, WellFramed(s, e, 1),
         s # <<>>, NEW t, t = SubSeq(s, 2, Len(s))
  PROVE  WellFramed(t, e, 0)
<1>1. /\ Len(s) \in Nat /\ Len(s) >= 1 /\ t \in Seq(S) /\ Len(t) = Len(s) - 1
      /\ \A i \in 1..(Len(s) - 1) : t[i] = s[i + 1]
  BY OneRead, Zenon
<1>2. Len(t) >= e /\ (Len(t) + 0 + e) % 2 = 0
  <2>1. (Len(s) + 1 + e) % 2 = 0 /\ Len(s) >= e
    BY DEF WellFramed
  <2>2. Len(t) \in Nat
    BY <1>1
  <2> QED BY <1>1, <2>1, <2>2, ReadParity, Zenon
<1>3. \A i \in 1..Len(t) : t[i][2] = IF e = 1 /\ i = Len(t) THEN "eos"
                                     ELSE IF (i + 0) % 2 = 1 THEN "hdr" ELSE "body"
  <2> SUFFICES ASSUME NEW i \in 1..Len(t)
               PROVE  t[i][2] = IF e = 1 /\ i = Len(t) THEN "eos"
                                ELSE IF (i + 0) % 2 = 1 THEN "hdr" ELSE "body"
    OBVIOUS
  <2>1. i + 1 \in 1..Len(s) /\ t[i] = s[i + 1] /\ (i = Len(t) <=> i + 1 = Len(s))
    BY <1>1
  <2>2. s[i + 1][2] = IF e = 1 /\ i + 1 = Len(s) THEN "eos"
                      ELSE IF (i + 1 + 1) % 2 = 1 THEN "hdr" ELSE "body"
    BY <2>1 DEF WellFramed
  <2>3. (i + 1 + 1) % 2 = (i + 0) % 2
    OBVIOUS
  <2> QED BY <2>1, <2>2, <2>3
<1> QED BY <1>2, <1>3 DEF WellFramed

(* A header and its payload are read.                                      *)
LEMMA FramedPair ==
  ASSUME NEW S, NEW s \in Seq(S), NEW e \in {0, 1}, WellFramed(s, e, 0),
         Len(s) >= 2, NEW t, t = SubSeq(s, 3, Len(s))
  PROVE  WellFramed(t, e, 0)
<1>1. /\ Len(s) \in Nat /\ t \in Seq(S) /\ Len(t) = Len(s) - 2
      /\ \A i \in 1..(Len(s) - 2) : t[i] = s[i + 2]
  BY TwoRead, Zenon
<1>2. Len(t) >= e /\ (Len(t) + 0 + e) % 2 = 0
  <2>1. (Len(s) + 0 + e) % 2 = 0 /\ Len(s) >= e
    BY DEF WellFramed
  <2>2. Len(t) \in Nat
    BY <1>1
  <2> QED BY <1>1, <2>1, <2>2, ReadParity, Zenon
<1>3. \A i \in 1..Len(t) : t[i][2] = IF e = 1 /\ i = Len(t) THEN "eos"
                                     ELSE IF (i + 0) % 2 = 1 THEN "hdr" ELSE "body"
  <2> SUFFICES ASSUME NEW i \in 1..Len(t)
               PROVE  t[i][2] = IF e = 1 /\ i = Len(t) THEN "eos"
                                ELSE IF (i + 0) % 2 = 1 THEN "hdr" ELSE "body"
    OBVIOUS
  <2>1. i + 2 \in 1..Len(s) /\ t[i] = s[i + 2] /\ (i = Len(t) <=> i + 2 = Len(s))
    BY <1>1
  <2>2. s[i + 2][2] = IF e = 1 /\ i + 2 = Len(s) THEN "eos"
                      ELSE IF (i + 2 + 0) % 2 = 1 THEN "hdr" ELSE "body"
    BY <2>1 DEF WellFramed
  <2>3. (i + 2 + 0) % 2 = (i + 0) % 2
    OBVIOUS
  <2> QED BY <2>1, <2>2, <2>3
<1> QED BY <1>2, <1>3 DEF WellFramed

(* The parts of a well-typed state.                                        *)
LEMMA Parts ==
  ASSUME TypeOK
  PROVE  /\ \A c \in Conn : Tag[c] \in Tags /\ Tag[c] \in Nat
         /\ \A c, d \in Conn : Tag[c] = Tag[d] => c = d
         /\ \A t \in Tags : \E c \in Conn : t = Tag[c]
         /\ \A c \in Conn, p \in Proc :
              /\ h[c][p] \in HandleMPI /\ h[c][p].made \in BOOLEAN
              /\ h[c][p].probed \in Frame \union {"none"}
              /\ h[c][p].closed_rd \in BOOLEAN /\ h[c][p].closed_wr \in BOOLEAN
              /\ h[c][p].crossed \in BOOLEAN
              /\ Entry(c, p) \in [c : Conn \union {NoConn}, to_manage : BOOLEAN]
              /\ Entry(c, p).c \in Conn \union {NoConn} /\ Entry(c, p).to_manage \in BOOLEAN
              /\ Lane(c, p) \in Seq(Conn \X Frame)
              /\ queue[p][c] \in 0..1 /\ user[p][c] \in {"none", "held", "given"}
         /\ \A p \in Proc :
              /\ request[p] \in Seq(Conn) /\ sent[p] \in 0..MaxSend[p]
              /\ main[p].pc \in {"idle", "insert", "notify", "join", "end", "drain", "done"}
              /\ main[p].c \in Conn /\ main[p].todo \subseteq Conn
              /\ io[p].pc \in {"start", "handshake", "poll", "exited"} /\ io[p].c \in Conn
<1>1. \A c \in Conn, p \in Proc : h[c][p] \in HandleMPI
  BY DEF TypeOK
<1>2. \A c \in Conn : Tag[c] \in Tags
  BY DEF Tags
<1>3. \A c \in Conn, p \in Proc :
        Entry(c, p) \in [c : Conn \union {NoConn}, to_manage : BOOLEAN]
  BY <1>2 DEF TypeOK, Entry
<1>4. \A c \in Conn, p \in Proc :
        /\ h[c][p].made \in BOOLEAN /\ h[c][p].probed \in Frame \union {"none"}
        /\ h[c][p].closed_rd \in BOOLEAN /\ h[c][p].closed_wr \in BOOLEAN
        /\ h[c][p].crossed \in BOOLEAN
  BY <1>1 DEF HandleMPI
<1>5. \A c \in Conn, p \in Proc :
        /\ Entry(c, p).c \in Conn \union {NoConn} /\ Entry(c, p).to_manage \in BOOLEAN
        /\ Lane(c, p) \in Seq(Conn \X Frame)
        /\ queue[p][c] \in 0..1 /\ user[p][c] \in {"none", "held", "given"}
  BY <1>2, <1>3 DEF TypeOK, Lane
<1>6. \A p \in Proc :
        /\ request[p] \in Seq(Conn) /\ sent[p] \in 0..MaxSend[p]
        /\ main[p].pc \in {"idle", "insert", "notify", "join", "end", "drain", "done"}
        /\ main[p].c \in Conn /\ main[p].todo \subseteq Conn
        /\ io[p].pc \in {"start", "handshake", "poll", "exited"} /\ io[p].c \in Conn
  BY DEF TypeOK
<1>7. \A t \in Tags : \E c \in Conn : t = Tag[c]
  BY DEF Tags
<1> QED BY <1>1, <1>2, <1>3, <1>4, <1>5, <1>6, <1>7, TagAssumption

(* A change of one entry of the table.                                     *)
LEMMA EntrySet ==
  ASSUME TypeOK, NEW c \in Conn, NEW p \in Proc,
         NEW r \in [c : Conn \union {NoConn}, to_manage : BOOLEAN],
         connections' = [connections EXCEPT ![p][Tag[c]] = r]
  PROVE  /\ connections' \in [Proc -> [Tags -> [c : Conn \union {NoConn}, to_manage : BOOLEAN]]]
         /\ Entry(c, p)' = r
         /\ \A d \in Conn, q \in Proc : d # c \/ q # p => Entry(d, q)' = Entry(d, q)
<1>1. Tag[c] \in Tags /\ \A d \in Conn : Tag[d] \in Tags /\ (Tag[d] = Tag[c] => d = c)
  BY Parts
<1> QED BY <1>1 DEF TypeOK, Entry

(* A send: what is on its way, and no other connection is touched.         *)
LEMMA NetSend ==
  ASSUME TypeOK, Lanes, NEW c \in Conn, NEW p \in Proc, NEW frames \in Seq(Frame),
         MPI_Send(c, p, frames)
  PROVE  /\ net' \in [Proc -> [Tags -> Seq(Conn \X Frame)]]
         /\ Lane(c, Other(p))' = Lane(c, Other(p)) \o [i \in DOMAIN frames |-> <<c, frames[i]>>]
         /\ Lane(c, Other(p))' \in Seq({c} \X Frame)
         /\ \A d \in Conn, q \in Proc : d # c \/ q # Other(p) => Lane(d, q)' = Lane(d, q)
<1> DEFINE q == Other(p)
           t == net[q][Tag[c]] \o [i \in DOMAIN frames |-> <<c, frames[i]>>]
<1>1. q \in Proc
  BY TwoProcs
<1>2. Tag[c] \in Tags /\ \A d \in Conn : Tag[d] \in Tags /\ (Tag[d] = Tag[c] => d = c)
  BY Parts
<1>3. net[q][Tag[c]] \in Seq({c} \X Frame)
  BY <1>1 DEF Lanes, Lane
<1>4. t \in Seq({c} \X Frame)
  BY <1>3, SentLane
<1>5. t \in Seq(Conn \X Frame)
  BY <1>4, \A x \in {c} \X Frame : x \in Conn \X Frame, ElementOfSeq, LenProperties
<1>6. net' = [net EXCEPT ![q][Tag[c]] = t]
  BY DEF MPI_Send
<1> HIDE DEF t, q
<1>7. net' \in [Proc -> [Tags -> Seq(Conn \X Frame)]]
  BY <1>1, <1>2, <1>5, <1>6 DEF TypeOK
<1>8. Lane(c, q)' = t /\ \A d \in Conn, r \in Proc : d # c \/ r # q => Lane(d, r)' = Lane(d, r)
  BY <1>1, <1>2, <1>6 DEF TypeOK, Lane
<1> QED BY <1>4, <1>7, <1>8 DEF t, q, Lane

(* A receive: what is left, all of it and all that was read being of the   *)
(* handle's own connection.                                                *)
LEMMA NetRecv ==
  ASSUME TypeOK, Lanes, NEW c \in Conn, NEW p \in Proc, NEW n \in Nat,
         n <= Len(Lane(c, p)), MPI_Recv(c, p, n)
  PROVE  /\ net' \in [Proc -> [Tags -> Seq(Conn \X Frame)]]
         /\ Lane(c, p)' = SubSeq(Lane(c, p), n + 1, Len(Lane(c, p)))
         /\ Lane(c, p)' \in Seq({c} \X Frame) /\ Len(Lane(c, p))' = Len(Lane(c, p)) - n
         /\ \A d \in Conn, q \in Proc : d # c \/ q # p => Lane(d, q)' = Lane(d, q)
         /\ Crossed(c, p, n) = FALSE
<1> DEFINE s == net[p][Tag[c]]
           t == SubSeq(s, n + 1, Len(s))
<1>2. Tag[c] \in Tags /\ \A d \in Conn : Tag[d] \in Tags /\ (Tag[d] = Tag[c] => d = c)
  BY Parts
<1>3. s \in Seq({c} \X Frame) /\ s \in Seq(Conn \X Frame) /\ n <= Len(s)
  BY Parts DEF Lanes, Lane
<1>4. /\ t \in Seq({c} \X Frame) /\ Len(t) = Len(s) - n /\ t \in Seq(Conn \X Frame)
  <2>1. Len(s) \in Nat /\ n + 1 \in Nat /\ 1 <= n + 1 /\ n + 1 <= Len(s) + 1
    BY <1>3, LenProperties
  <2>2. t \in Seq({c} \X Frame) /\ Len(t) = Len(s) + 1 - (n + 1)
    BY <1>3, <2>1, ReceivedLane, Zenon
  <2>3. t \in Seq(Conn \X Frame)
    BY <1>3, <2>1, ReceivedLane, Zenon
  <2> QED BY <2>1, <2>2, <2>3
<1>5. \A i \in 1..n : s[i][1] = c
  <2>1. \A i \in 1..Len(s) : s[i] \in {c} \X Frame
    BY <1>3, ElementOfSeq
  <2>2. Len(s) \in Nat
    BY <1>3, LenProperties
  <2> QED BY <1>3, <2>1, <2>2
<1>6. net' = [net EXCEPT ![p][Tag[c]] = t]
  BY DEF MPI_Recv, Matched
<1>9. ~Crossed(c, p, n)
  BY <1>5 DEF Crossed, Inbox, Matched, Lanes
<1> HIDE DEF t
<1>7. net' \in [Proc -> [Tags -> Seq(Conn \X Frame)]]
  BY <1>2, <1>4, <1>6 DEF TypeOK
<1>8. Lane(c, p)' = t /\ \A d \in Conn, r \in Proc : d # c \/ r # p => Lane(d, r)' = Lane(d, r)
  BY <1>2, <1>6 DEF TypeOK, Lane
<1>10. Crossed(c, p, n) \in BOOLEAN
  BY Parts DEF Crossed
<1> QED BY <1>4, <1>7, <1>8, <1>9, <1>10 DEF t, Lane

PC == {"idle", "insert", "notify", "join", "end", "drain", "done"}
Thread == [pc : PC, c : Conn, todo : SUBSET Conn]

(* A change of what the program's thread of one process does.              *)
LEMMA MainSet ==
  ASSUME TypeOK, NEW p \in Proc, NEW r \in Thread, main' = [main EXCEPT ![p] = r]
  PROVE  /\ main' \in [Proc -> Thread] /\ main'[p] = r
         /\ \A x \in Proc : x # p => main'[x] = main[x]
BY DEF TypeOK, Thread, PC

(* What Goto does.                                                         *)
LEMMA GotoSet ==
  ASSUME TypeOK, NEW p \in Proc, NEW l \in PC, Goto(p, l)
  PROVE  /\ main' \in [Proc -> Thread] /\ main'[p].pc = l
         /\ main'[p].c = main[p].c /\ main'[p].todo = main[p].todo
         /\ \A x \in Proc : x # p => main'[x] = main[x]
<1> DEFINE r == [main[p] EXCEPT !.pc = l]
<1>1. main[p] \in Thread
  BY DEF TypeOK, Thread, PC
<1>2. r \in Thread /\ r.pc = l /\ r.c = main[p].c /\ r.todo = main[p].todo
  BY <1>1 DEF Thread
<1>3. main' = [main EXCEPT ![p] = r]
  BY DEF Goto
<1> HIDE DEF r
<1> QED BY <1>2, <1>3, MainSet

(* What Call does.                                                         *)
LEMMA CallSet ==
  ASSUME TypeOK, NEW p \in Proc, NEW l \in PC, NEW c \in Conn, Call(p, l, c)
  PROVE  /\ main' \in [Proc -> Thread] /\ main'[p].pc = l
         /\ main'[p].c = c /\ main'[p].todo = main[p].todo
         /\ \A x \in Proc : x # p => main'[x] = main[x]
<1> DEFINE r == [main[p] EXCEPT !.pc = l, !.c = c]
<1>1. main[p] \in Thread
  BY DEF TypeOK, Thread, PC
<1>2. r \in Thread /\ r.pc = l /\ r.c = c /\ r.todo = main[p].todo
  BY <1>1 DEF Thread
<1>3. main' = [main EXCEPT ![p] = r]
  BY <1>1 DEF Call, Thread, TypeOK
<1> HIDE DEF r
<1> QED BY <1>2, <1>3, MainSet

(* What IoGoto does.                                                       *)
LEMMA IoGotoSet ==
  ASSUME TypeOK, NEW p \in Proc, NEW l \in {"start", "handshake", "poll", "exited"},
         IoGoto(p, l)
  PROVE  /\ io' \in [Proc -> [pc : {"start", "handshake", "poll", "exited"}, c : Conn]]
         /\ io'[p].pc = l /\ io'[p].c = io[p].c
         /\ \A x \in Proc : x # p => io'[x] = io[x]
BY DEF TypeOK, IoGoto

(* An insertion into the table.                                            *)
LEMMA InsertSet ==
  ASSUME TypeOK, Table, NEW c \in Conn, NEW p \in Proc, Entry(c, p).c = NoConn,
         Insert(c, p)
  PROVE  /\ connections' \in [Proc -> [Tags -> [c : Conn \union {NoConn}, to_manage : BOOLEAN]]]
         /\ Entry(c, p)'.c = c /\ ~Entry(c, p)'.to_manage
         /\ \A d \in Conn, x \in Proc : d # c \/ x # p => Entry(d, x)' = Entry(d, x)
<1>1. /\ Entry(c, p) \in [c : Conn \union {NoConn}, to_manage : BOOLEAN]
      /\ ~Entry(c, p).to_manage
  BY Parts DEF Table
<1>2. Entry(c, p) = NoEntry
  BY <1>1 DEF NoEntry
<1>3. PICK r \in [c : Conn \union {NoConn}, to_manage : BOOLEAN] :
        r.c = c /\ ~r.to_manage /\ r = [c |-> c, to_manage |-> FALSE]
  OBVIOUS
<1>4. connections' = [connections EXCEPT ![p][Tag[c]] = r]
  BY <1>2, <1>3 DEF Insert, Entry
<1>5. /\ connections' \in [Proc -> [Tags -> [c : Conn \union {NoConn}, to_manage : BOOLEAN]]]
      /\ Entry(c, p)' = r
      /\ \A d \in Conn, x \in Proc : d # c \/ x # p => Entry(d, x)' = Entry(d, x)
  BY <1>4, EntrySet
<1> QED BY <1>3, <1>5

(* An end has at most one owner: what each owner excludes.                 *)
LEMMA Exclusive ==
  ASSUME TypeOK, Single, NEW c \in Conn, NEW p \in Proc
  PROVE  /\ user[p][c] = "held" => queue[p][c] = 0 /\ ~Managed(c, p) /\ ~Greeting(c, p)
                                   /\ ~Inserting(c, p)
         /\ queue[p][c] > 0 => queue[p][c] = 1 /\ ~Managed(c, p) /\ ~Greeting(c, p)
                               /\ ~Inserting(c, p)
         /\ Managed(c, p) => ~Greeting(c, p) /\ ~Inserting(c, p)
         /\ Greeting(c, p) => ~Inserting(c, p)
<1>1. queue[p][c] \in 0..1
  BY Parts
<1>2. Owners(c, p) <= 1
  BY DEF Single
<1>3. Owners(c, p) = One(user[p][c] = "held") + queue[p][c] + One(Managed(c, p))
                     + One(Greeting(c, p)) + One(Inserting(c, p))
  BY DEF Owners, Greeting, Inserting, IoAt
<1> QED BY <1>1, <1>2, <1>3 DEF One

(* What is entered in the table.                                           *)
LEMMA EnteredIs ==
  ASSUME TypeOK, Table, NEW p \in Proc
  PROVE  Entered(p) = InTable(p)
<1>1. \A t \in Tags : \E d \in Conn : t = Tag[d] /\ connections[p][t].c \in {d, NoConn}
  BY Parts DEF Table, Entry
<1>2. \A d \in Conn : Tag[d] \in Tags
  BY Parts
<1>3. Entered(p) \subseteq InTable(p)
  BY <1>1, ConnAssumption DEF Entered, InTable, Entry
<1>4. InTable(p) \subseteq Entered(p)
  BY <1>2, ConnAssumption DEF Entered, InTable, Entry
<1> QED BY <1>3, <1>4

(* A message that is sent on a connection whose write side is open.        *)
LEMMA MessageSent ==
  ASSUME TypeOK, Lanes, Framed, NEW c \in Conn, NEW p \in Proc, ~h[c][p].closed_wr,
         MPI_Send(c, p, Message)
  PROVE  /\ net' \in [Proc -> [Tags -> Seq(Conn \X Frame)]]
         /\ Lane(c, Other(p))' \in Seq({c} \X Frame)
         /\ Len(Lane(c, Other(p))') = Len(Lane(c, Other(p))) + 2
         /\ WellFramed(Lane(c, Other(p))', 0, Probed(c, Other(p)))
         /\ \A d \in Conn, x \in Proc : d # c \/ x # Other(p) => Lane(d, x)' = Lane(d, x)
<1> DEFINE q == Other(p)
<1>1. q \in Proc /\ Other(q) = p
  BY TwoProcs
<1>2. Message \in Seq(Frame)
  BY DEF Frame, Message
<1>3. /\ net' \in [Proc -> [Tags -> Seq(Conn \X Frame)]]
      /\ Lane(c, q)' = Lane(c, q) \o [i \in DOMAIN Message |-> <<c, Message[i]>>]
      /\ \A d \in Conn, x \in Proc : d # c \/ x # q => Lane(d, x)' = Lane(d, x)
  BY <1>2, NetSend
<1>4. WellFramed(Lane(c, q), 0, Probed(c, q))
  BY <1>1 DEF Framed, FramedAt, EOSComes, One
<1>5. Lane(c, q) \in Seq({c} \X Frame) /\ Probed(c, q) \in {0, 1}
  BY <1>1 DEF Lanes, Probed, One
<1>6. PICK s \in Seq({c} \X Frame), k \in {0, 1} : s = Lane(c, q) /\ k = Probed(c, q)
  BY <1>5
<1>7. PICK t : t = Lane(c, q)'
  OBVIOUS
<1>8. t = s \o [i \in DOMAIN Message |-> <<c, Message[i]>>] /\ WellFramed(s, 0, k)
  BY <1>3, <1>4, <1>6, <1>7
<1>9. WellFramed(t, 0, k) /\ Len(t) = Len(s) + 2 /\ t \in Seq({c} \X Frame)
  BY <1>8, FramedSend, ZenonT(60)
<1> QED BY <1>3, <1>4, <1>6, <1>7, <1>9

(* The same for EOS.                                                       *)
LEMMA EOSSent ==
  ASSUME TypeOK, Lanes, Framed, NEW c \in Conn, NEW p \in Proc, ~h[c][p].closed_wr,
         MPI_Send(c, p, <<"eos">>)
  PROVE  /\ net' \in [Proc -> [Tags -> Seq(Conn \X Frame)]]
         /\ Lane(c, Other(p))' \in Seq({c} \X Frame)
         /\ Len(Lane(c, Other(p))') = Len(Lane(c, Other(p))) + 1
         /\ WellFramed(Lane(c, Other(p))', 1, Probed(c, Other(p)))
         /\ ~h[c][Other(p)].closed_rd
         /\ \A d \in Conn, x \in Proc : d # c \/ x # Other(p) => Lane(d, x)' = Lane(d, x)
<1> DEFINE q == Other(p)
<1>1. q \in Proc /\ Other(q) = p
  BY TwoProcs
<1>2. <<"eos">> \in Seq(Frame)
  BY DEF Frame
<1>3. /\ net' \in [Proc -> [Tags -> Seq(Conn \X Frame)]]
      /\ Lane(c, q)' = Lane(c, q) \o [i \in DOMAIN <<"eos">> |-> <<c, <<"eos">>[i]>>]
      /\ \A d \in Conn, x \in Proc : d # c \/ x # q => Lane(d, x)' = Lane(d, x)
  BY <1>2, NetSend
<1>4. WellFramed(Lane(c, q), 0, Probed(c, q)) /\ ~h[c][q].closed_rd
  BY <1>1 DEF Framed, FramedAt, EOSComes, One
<1>5. Lane(c, q) \in Seq({c} \X Frame) /\ Probed(c, q) \in {0, 1}
  BY <1>1 DEF Lanes, Probed, One
<1>6. PICK s \in Seq({c} \X Frame), k \in {0, 1} : s = Lane(c, q) /\ k = Probed(c, q)
  BY <1>5
<1>7. PICK t : t = Lane(c, q)'
  OBVIOUS
<1>8. t = s \o [i \in DOMAIN <<"eos">> |-> <<c, <<"eos">>[i]>>] /\ WellFramed(s, 0, k)
  BY <1>3, <1>4, <1>6, <1>7
<1>9. WellFramed(t, 1, k) /\ Len(t) = Len(s) + 1 /\ t \in Seq({c} \X Frame)
  BY <1>8, FramedEOS, ZenonT(60)
<1> QED BY <1>3, <1>4, <1>6, <1>7, <1>9

(* What a read of one message leaves, when the reader has no header.       *)
LEMMA HeadRead ==
  ASSUME TypeOK, Lanes, Framed, NEW c \in Conn, NEW p \in Proc, Inbox(c, p) # <<>>,
         h[c][p].probed = "none", ~h[c][p].closed_rd, MPI_Recv(c, p, 1)
  PROVE  /\ net' \in [Proc -> [Tags -> Seq(Conn \X Frame)]]
         /\ Lane(c, p)' \in Seq({c} \X Frame) /\ Crossed(c, p, 1) = FALSE
         /\ \A d \in Conn, x \in Proc : d # c \/ x # p => Lane(d, x)' = Lane(d, x)
         /\ Head(Inbox(c, p))[2] \in {"hdr", "eos"}
         /\ Head(Inbox(c, p))[2] = "hdr" => WellFramed(Lane(c, p)', EOSComes(c, p), 1)
         /\ Head(Inbox(c, p))[2] = "eos" => /\ Lane(c, p)' = <<>> /\ EOSComes(c, p) = 1
                                            /\ h[c][Other(p)].closed_wr
<1>1. Inbox(c, p) = Lane(c, p) /\ Lane(c, p) \in Seq({c} \X Frame)
  BY DEF Inbox, Matched, Lane, Lanes
<1>2. PICK s \in Seq({c} \X Frame), e \in {0, 1} : s = Lane(c, p) /\ e = EOSComes(c, p)
  BY <1>1 DEF EOSComes, One
<1>3. s # <<>> /\ WellFramed(s, e, 0)
  BY <1>1, <1>2 DEF Framed, FramedAt, Probed, One
<1>4. 1 \in Nat /\ 1 <= Len(s)
  BY <1>3, OneRead
<1>5. /\ net' \in [Proc -> [Tags -> Seq(Conn \X Frame)]]
      /\ Lane(c, p)' = SubSeq(s, 1 + 1, Len(s))
      /\ Lane(c, p)' \in Seq({c} \X Frame) /\ Crossed(c, p, 1) = FALSE
      /\ \A d \in Conn, x \in Proc : d # c \/ x # p => Lane(d, x)' = Lane(d, x)
  BY <1>2, <1>4, NetRecv
<1>6. PICK t : t = Lane(c, p)' /\ t = SubSeq(s, 2, Len(s))
  BY <1>5
<1>7. /\ s[1][2] \in {"hdr", "eos"}
      /\ s[1][2] = "hdr" => WellFramed(t, e, 1)
      /\ s[1][2] = "eos" => e = 1 /\ t = <<>>
  BY <1>3, <1>6, FramedProbe, Zenon
<1>8. Head(Inbox(c, p)) = s[1]
  BY <1>1, <1>2, <1>3
<1>9. EOSComes(c, p) = 1 => h[c][Other(p)].closed_wr
  BY DEF EOSComes, One
<1> QED BY <1>2, <1>5, <1>6, <1>7, <1>8, <1>9

(* The same, when the reader has the header.                               *)
LEMMA BodyRead ==
  ASSUME TypeOK, Lanes, Framed, NEW c \in Conn, NEW p \in Proc, Inbox(c, p) # <<>>,
         h[c][p].probed = "hdr", MPI_Recv(c, p, 1)
  PROVE  /\ net' \in [Proc -> [Tags -> Seq(Conn \X Frame)]]
         /\ Lane(c, p)' \in Seq({c} \X Frame) /\ Crossed(c, p, 1) = FALSE
         /\ \A d \in Conn, x \in Proc : d # c \/ x # p => Lane(d, x)' = Lane(d, x)
         /\ WellFramed(Lane(c, p)', EOSComes(c, p), 0)
<1>1. Inbox(c, p) = Lane(c, p) /\ Lane(c, p) \in Seq({c} \X Frame)
  BY DEF Inbox, Matched, Lane, Lanes
<1>2. PICK s \in Seq({c} \X Frame), e \in {0, 1} : s = Lane(c, p) /\ e = EOSComes(c, p)
  BY <1>1 DEF EOSComes, One
<1>3. s # <<>> /\ WellFramed(s, e, 1)
  BY <1>1, <1>2 DEF Framed, FramedAt, Probed, One
<1>4. 1 \in Nat /\ 1 <= Len(s)
  BY <1>3, OneRead
<1>5. /\ net' \in [Proc -> [Tags -> Seq(Conn \X Frame)]]
      /\ Lane(c, p)' = SubSeq(s, 1 + 1, Len(s))
      /\ Lane(c, p)' \in Seq({c} \X Frame) /\ Crossed(c, p, 1) = FALSE
      /\ \A d \in Conn, x \in Proc : d # c \/ x # p => Lane(d, x)' = Lane(d, x)
  BY <1>2, <1>4, NetRecv
<1>6. PICK t : t = Lane(c, p)' /\ t = SubSeq(s, 2, Len(s))
  BY <1>5
<1>7. WellFramed(t, e, 0)
  BY <1>3, <1>6, FramedReceive, Zenon
<1> QED BY <1>2, <1>5, <1>6, <1>7

(* The same for a header and its payload.                                  *)
LEMMA PairRead ==
  ASSUME TypeOK, Lanes, Framed, NEW c \in Conn, NEW p \in Proc, Len(Inbox(c, p)) >= 2,
         h[c][p].probed = "none", MPI_Recv(c, p, 2)
  PROVE  /\ net' \in [Proc -> [Tags -> Seq(Conn \X Frame)]]
         /\ Lane(c, p)' \in Seq({c} \X Frame) /\ Crossed(c, p, 2) = FALSE
         /\ \A d \in Conn, x \in Proc : d # c \/ x # p => Lane(d, x)' = Lane(d, x)
         /\ WellFramed(Lane(c, p)', EOSComes(c, p), 0)
<1>1. Inbox(c, p) = Lane(c, p) /\ Lane(c, p) \in Seq({c} \X Frame)
  BY DEF Inbox, Matched, Lane, Lanes
<1>2. PICK s \in Seq({c} \X Frame), e \in {0, 1} : s = Lane(c, p) /\ e = EOSComes(c, p)
  BY <1>1 DEF EOSComes, One
<1>3. Len(s) >= 2 /\ WellFramed(s, e, 0)
  BY <1>1, <1>2 DEF Framed, FramedAt, Probed, One
<1>4. 2 \in Nat /\ 2 <= Len(s)
  BY <1>3, LenProperties
<1>5. /\ net' \in [Proc -> [Tags -> Seq(Conn \X Frame)]]
      /\ Lane(c, p)' = SubSeq(s, 2 + 1, Len(s))
      /\ Lane(c, p)' \in Seq({c} \X Frame) /\ Crossed(c, p, 2) = FALSE
      /\ \A d \in Conn, x \in Proc : d # c \/ x # p => Lane(d, x)' = Lane(d, x)
  BY <1>2, <1>4, NetRecv
<1>6. PICK t : t = Lane(c, p)' /\ t = SubSeq(s, 3, Len(s))
  BY <1>5
<1>7. WellFramed(t, e, 0)
  BY <1>3, <1>6, FramedPair, Zenon
<1> QED BY <1>2, <1>5, <1>6, <1>7

(* An erasure.                                                             *)
LEMMA EraseSet ==
  ASSUME TypeOK, NEW c \in Conn, NEW p \in Proc,
         connections' = [connections EXCEPT ![p][Tag[c]] = NoEntry]
  PROVE  /\ connections' \in [Proc -> [Tags -> [c : Conn \union {NoConn}, to_manage : BOOLEAN]]]
         /\ Entry(c, p)'.c = NoConn /\ ~Entry(c, p)'.to_manage
         /\ \A d \in Conn, x \in Proc : d # c \/ x # p => Entry(d, x)' = Entry(d, x)
<1>1. NoEntry \in [c : Conn \union {NoConn}, to_manage : BOOLEAN]
  BY DEF NoEntry
<1>2. /\ connections' \in [Proc -> [Tags -> [c : Conn \union {NoConn}, to_manage : BOOLEAN]]]
      /\ Entry(c, p)' = NoEntry
      /\ \A d \in Conn, x \in Proc : d # c \/ x # p => Entry(d, x)' = Entry(d, x)
  BY <1>1, EntrySet
<1> QED BY <1>2 DEF NoEntry

(* A step of one process leaves what the other one is doing as it was.     *)
LEMMA BusyKept ==
  ASSUME TypeOK, Busy, NEW q \in Proc, main'[q] = main[q], io'[q] = io[q],
         \A d \in Conn : h'[d][q] = h[d][q] /\ Entry(d, q)' = Entry(d, q)
  PROVE  BusyAt(q)'
<1>1. main[q].c \in Conn /\ io[q].c \in Conn
  BY Parts
<1>2. BusyAt(q)
  BY DEF Busy
<1> QED BY <1>1, <1>2 DEF BusyAt, At, IoAt

(* And what it has still to close.                                         *)
LEMMA FinalizingKept ==
  ASSUME TypeOK, Finalizing, NEW q \in Proc, main'[q] = main[q],
         \A d \in Conn : h'[d][q] = h[d][q] /\ Entry(d, q)' = Entry(d, q)
  PROVE  FinalizingAt(q)'
<1>1. main[q].c \in Conn
  BY Parts
<1>2. FinalizingAt(q)
  BY DEF Finalizing
<1>3. InTable(q)' = InTable(q) /\ InTable(q) \subseteq Conn
  BY DEF InTable
<1> QED BY <1>1, <1>2, <1>3 DEF FinalizingAt, At

(* A stream that is left alone stays well framed.                          *)
LEMMA FramedKept ==
  ASSUME Framed, NEW d \in Conn, NEW x \in Proc, Lane(d, x)' = Lane(d, x),
         h'[d][x].probed = h[d][x].probed, h'[d][x].closed_rd <=> h[d][x].closed_rd,
         h'[d][Other(x)].closed_wr <=> h[d][Other(x)].closed_wr
  PROVE  FramedAt(d, x)'
<1>1. EOSComes(d, x)' = EOSComes(d, x) /\ Probed(d, x)' = Probed(d, x)
  BY DEF EOSComes, Probed, One
<1>2. FramedAt(d, x)
  BY DEF Framed
<1> QED BY <1>1, <1>2 DEF FramedAt

-----------------------------------------------------------------------------
(***************************************************************************)
(* Each action keeps the invariant.                                        *)
(***************************************************************************)
(* ConnMPI::connect.                                                       *)
LEMMA ConnectKeeps ==
  ASSUME Inv, NEW p \in Proc, NEW c \in Conn, Connect(p, c)
  PROVE  Inv'
<1> DEFINE q == Other(p)
           r == [h[c][p] EXCEPT !.made = TRUE]
<1>1. TypeOK /\ Lanes /\ Table /\ Fresh /\ Busy /\ Requests /\ Single /\ OneOwner
      /\ Framed /\ Greeted /\ Finalizing
  BY DEF Inv
<1>2. /\ q \in Proc /\ q # p /\ Other(q) = p /\ \A x \in Proc : x = p \/ x = q
  BY TwoProcs
<1>3. /\ h[c][p] = NewHandle /\ Entry(c, p).c = NoConn /\ main[p].pc = "idle"
      /\ user[p][c] = "none" /\ queue[p][c] = 0 /\ ~Greeting(c, p) /\ ~Inserting(c, p)
  BY <1>1 DEF Connect, Fresh, FreshAt, Idle, At
<1>4. /\ h[c][p] \in HandleMPI /\ r \in HandleMPI
      /\ r.made /\ r.crossed = h[c][p].crossed /\ r.closed_rd = h[c][p].closed_rd
      /\ r.closed_wr = h[c][p].closed_wr /\ r.probed = h[c][p].probed
  <2>1. h[c][p] \in HandleMPI
    BY <1>1, Parts
  <2> QED BY <2>1 DEF HandleMPI
<1>5. h' = [h EXCEPT ![c][p] = r]
  BY <1>1 DEF Connect
<1> HIDE DEF r
<1>6. /\ h' \in [Conn -> [Proc -> HandleMPI]] /\ h'[c][p] = r
      /\ \A d \in Conn, x \in Proc : d # c \/ x # p => h'[d][x] = h[d][x]
  BY <1>1, <1>4, <1>5 DEF TypeOK
<1>7. /\ ~h[c][p].crossed /\ ~h[c][p].closed_rd /\ ~h[c][p].closed_wr
      /\ h[c][p].probed = "none" /\ ~h[c][p].made
  BY <1>3 DEF NewHandle
<1>8. /\ Call(p, "insert", c)
      /\ request' = [request EXCEPT ![q] = Append(@, c)]
      /\ UNCHANGED <<connections, net, queue, user, io, sent>>
      /\ Caller[c] = p
  BY DEF Connect
<1>9. /\ main' \in [Proc -> Thread] /\ main'[p].pc = "insert" /\ main'[p].c = c
      /\ \A x \in Proc : x # p => main'[x] = main[x]
  BY <1>1, <1>8, CallSet DEF PC
<1>10. \A d \in Conn, x \in Proc : Entry(d, x)' = Entry(d, x) /\ Lane(d, x)' = Lane(d, x)
  BY <1>8 DEF Entry, Lane
<1>a. /\ request[q] \in Seq(Conn) /\ request'[q] \in Seq(Conn)
      /\ Len(request[q]) \in Nat /\ DOMAIN request[q] = 1..Len(request[q])
      /\ DOMAIN request'[q] = 1..(Len(request[q]) + 1) /\ request'[q][Len(request[q]) + 1] = c
      /\ \A i \in 1..Len(request[q]) : request'[q][i] = request[q][i]
      /\ request'[p] = request[p] /\ request' \in [Proc -> Seq(Conn)]
  BY <1>1, <1>2, <1>8, AppendProperties, LenProperties DEF TypeOK
<1>11. TypeOK'
  BY <1>1, <1>6, <1>8, <1>9, <1>a DEF TypeOK, Thread, PC
<1>P. \A x \in Proc : main[x].c \in Conn /\ io[x].c \in Conn
  BY <1>1, Parts
<1>12. Lanes'
  BY <1>1, <1>4, <1>6, <1>7, <1>10 DEF Lanes
<1>13. Table'
  BY <1>1, <1>3, <1>6, <1>7, <1>9, <1>10 DEF Table, Inserting, At
<1>14. \A d \in Conn, x \in Proc : d # c \/ x # p => Owners(d, x)' = Owners(d, x)
  BY <1>3, <1>8, <1>9 DEF Owners, Managed, At, Entry
<1>15. Owners(c, p)' = 1
  <2>1. /\ ~Managed(c, p)' /\ ~(user[p][c] = "held")' /\ queue'[p][c] = 0
        /\ ~(io'[p].pc = "handshake" /\ io'[p].c = c) /\ At(p, "insert")' /\ main'[p].c = c
    BY <1>3, <1>8, <1>9, ConnAssumption DEF Managed, Entry, Greeting, IoAt, At
  <2> QED BY <2>1 DEF Owners, One
<1>16. Fresh'
  BY <1>1, <1>3, <1>4, <1>6, <1>7, <1>8, <1>9, <1>10 DEF Fresh, FreshAt, Greeting, Inserting, At, IoAt
<1>17. Busy'
  BY <1>1, <1>2, <1>3, <1>4, <1>6, <1>7, <1>8, <1>9, <1>10, <1>P DEF Busy, BusyAt, At, IoAt, Greeting
<1>18. Requests'
  <2>1. ~h[c][q].made
    BY <1>1, <1>2, <1>7, <1>8 DEF Requests
  <2>2. ~Asked(c, q)
    BY <1>1, <1>2, <1>7 DEF Requests
  <2>3. \A d \in Conn, x \in Proc : Asked(d, x)' => Asked(d, x) \/ (d = c /\ x = q)
    BY <1>2, <1>a DEF Asked
  <2>4. /\ h'[c][p].made
        /\ \A d \in Conn, x \in Proc : d # c \/ x # p => (h'[d][x].made <=> h[d][x].made)
    BY <1>4, <1>6
  <2>5. ASSUME NEW d \in Conn, NEW x \in Proc
        PROVE  /\ Asked(d, x)' => /\ ~h'[d][x].made /\ h'[d][Other(x)].made
                                  /\ Caller[d] = Other(x)
               /\ Caller[d] = x /\ h'[d][Other(x)].made => h'[d][x].made
    <3>1. CASE d # c
      BY <1>1, <1>2, <2>3, <2>4, <3>1 DEF Requests
    <3>2. CASE d = c
      BY <1>1, <1>2, <1>7, <1>8, <2>1, <2>3, <2>4, <3>2 DEF Requests
    <3> QED BY <3>1, <3>2
  <2>6. \A i, j \in DOMAIN request'[q] : request'[q][i] = request'[q][j] => i = j
    <3> SUFFICES ASSUME NEW i \in DOMAIN request'[q], NEW j \in DOMAIN request'[q],
                        request'[q][i] = request'[q][j]
                 PROVE  i = j
      OBVIOUS
    <3>1. \A n \in DOMAIN request'[q] : n \in DOMAIN request[q] \/ n = Len(request[q]) + 1
      BY <1>a
    <3>2. \A n \in DOMAIN request[q] : request'[q][n] # c
      BY <1>a, <2>2 DEF Asked
    <3>3. CASE i \in DOMAIN request[q] /\ j \in DOMAIN request[q]
      BY <1>1, <1>2, <1>a, <3>3, SMTT(30) DEF Requests
    <3> QED BY <1>a, <3>1, <3>2, <3>3
  <2>7. \A i, j \in DOMAIN request'[p] : request'[p][i] = request'[p][j] => i = j
    BY <1>1, <1>a DEF Requests
  <2>8. \A x \in Proc :
          \A i, j \in DOMAIN request'[x] : request'[x][i] = request'[x][j] => i = j
    BY <1>2, <2>6, <2>7
  <2> QED BY <2>5, <2>8 DEF Requests
<1>19. Single'
  BY <1>1, <1>14, <1>15 DEF Single
<1>20. OneOwner'
  BY <1>1, <1>6, <1>8, <1>14, <1>15 DEF OneOwner, Running
<1>21. Framed'
  BY <1>1, <1>2, <1>4, <1>6, <1>7, <1>10 DEF Framed, FramedAt, EOSComes, Probed
<1>22. Greeted'
  <2>1. \A d \in Conn, x \in Proc : Asked(d, x)' => Asked(d, x) \/ (d = c /\ x = q)
    BY <1>2, <1>a DEF Asked
  <2>2. \A d \in Conn, x \in Proc : Greeting(d, x)' = Greeting(d, x)
    BY <1>8 DEF Greeting, IoAt
  <2>3. \A d \in Conn, x \in Proc : Inserting(d, x) => Inserting(d, x)'
    BY <1>3, <1>9 DEF Inserting, At
  <2>4. Inserting(c, p)'
    BY <1>9 DEF Inserting, At
  <2> QED BY <1>1, <1>2, <1>10, <2>1, <2>2, <2>3, <2>4 DEF Greeted
<1>23. Finalizing'
  <2>1. \A x \in Proc : InTable(x)' = InTable(x) /\ InTable(x) \subseteq Conn
    BY <1>10 DEF InTable
  <2> QED BY <1>1, <1>3, <1>4, <1>6, <1>7, <1>8, <1>9, <2>1 DEF Finalizing, FinalizingAt, At
<1> QED BY <1>11, <1>12, <1>13, <1>16, <1>17, <1>18, <1>19, <1>20, <1>21, <1>22, <1>23 DEF Inv

(* ConnMPI::connect enters the handle, and Manager::connect sends the      *)
(* handshake.                                                              *)
LEMMA ConnectInsertKeeps ==
  ASSUME Inv, NEW p \in Proc, NEW c \in Conn, main[p].c = c, ConnectInsert(p)
  PROVE  Inv'
<1> DEFINE q == Other(p)
<1>1. TypeOK /\ Lanes /\ Table /\ Fresh /\ Busy /\ Requests /\ Single /\ OneOwner
      /\ Framed /\ Greeted /\ Finalizing
  BY DEF Inv
<1>2. /\ q \in Proc /\ q # p /\ Other(q) = p /\ \A x \in Proc : x = p \/ x = q
  BY TwoProcs
<1>P. \A x \in Proc : main[x].c \in Conn /\ io[x].c \in Conn
  BY <1>1, Parts
<1>3. /\ main[p].pc = "insert" /\ Inserting(c, p) /\ io[p].pc # "handshake"
      /\ Insert(c, p) /\ MPI_Send(c, p, Message) /\ Goto(p, "idle")
      /\ user' = [user EXCEPT ![p][c] = "held"]
      /\ UNCHANGED <<h, request, queue, io, sent>>
  BY DEF ConnectInsert, At, Inserting, LockFree, Hello, Message
<1>4. /\ h[c][p].made /\ Entry(c, p).c = NoConn /\ Caller[c] = p
      /\ ~h[c][p].closed_wr /\ ~h[c][p].closed_rd
  BY <1>1, <1>3 DEF Busy, BusyAt, At
<1>5. user[p][c] # "held" /\ queue[p][c] = 0 /\ ~Managed(c, p) /\ ~Greeting(c, p)
  BY <1>1, <1>3, Exclusive, Parts
<1>6. /\ connections' \in [Proc -> [Tags -> [c : Conn \union {NoConn}, to_manage : BOOLEAN]]]
      /\ Entry(c, p)'.c = c /\ ~Entry(c, p)'.to_manage
      /\ \A d \in Conn, x \in Proc : d # c \/ x # p => Entry(d, x)' = Entry(d, x)
  BY <1>1, <1>3, <1>4, InsertSet
<1>7. /\ main' \in [Proc -> Thread] /\ main'[p].pc = "idle"
      /\ \A x \in Proc : x # p => main'[x] = main[x]
  BY <1>1, <1>3, GotoSet DEF PC
<1>8. /\ net' \in [Proc -> [Tags -> Seq(Conn \X Frame)]]
      /\ Lane(c, q)' \in Seq({c} \X Frame)
      /\ \A d \in Conn, x \in Proc : d # c \/ x # q => Lane(d, x)' = Lane(d, x)
      /\ WellFramed(Lane(c, q)', 0, Probed(c, q)) /\ Len(Lane(c, q)') = Len(Lane(c, q)) + 2
  BY <1>1, <1>3, <1>4, MessageSent
<1>9. /\ user' \in [Proc -> [Conn -> {"none", "held", "given"}]] /\ user'[p][c] = "held"
      /\ \A d \in Conn, x \in Proc : d # c \/ x # p => user'[x][d] = user[x][d]
  BY <1>1, <1>3 DEF TypeOK
<1>11. TypeOK'
  BY <1>1, <1>3, <1>6, <1>7, <1>8, <1>9 DEF TypeOK, Thread, PC
<1>12. Lanes'
  BY <1>1, <1>3, <1>8 DEF Lanes
<1>13. Table'
  BY <1>1, <1>3, <1>6, <1>7 DEF Table, Inserting, At
<1>14. \A d \in Conn, x \in Proc : d # c \/ x # p => Owners(d, x)' = Owners(d, x)
  BY <1>3, <1>6, <1>7, <1>9 DEF Owners, Managed, At, Entry
<1>15. Owners(c, p)' = 1
  <2>1. /\ ~Managed(c, p)' /\ user'[p][c] = "held" /\ queue'[p][c] = 0
        /\ ~(io'[p].pc = "handshake" /\ io'[p].c = c) /\ ~At(p, "insert")'
    BY <1>3, <1>5, <1>6, <1>7, <1>9 DEF Managed, Entry, At
  <2> QED BY <2>1 DEF Owners, One
<1>16. Fresh'
  BY <1>1, <1>3, <1>4, <1>6, <1>7, <1>9 DEF Fresh, FreshAt, Greeting, Inserting, At, IoAt
<1>17. Busy'
  <2>1. BusyAt(p)'
    BY <1>1, <1>3, <1>7, <1>P DEF Busy, BusyAt, At, IoAt
  <2>2. BusyAt(q)'
    BY <1>1, <1>2, <1>3, <1>6, <1>7, <1>P DEF Busy, BusyAt, At, IoAt
  <2> QED BY <1>2, <2>1, <2>2 DEF Busy
<1>18. Requests'
  BY <1>1, <1>3 DEF Requests, Asked
<1>19. Single'
  BY <1>1, <1>14, <1>15 DEF Single
<1>20. OneOwner'
  BY <1>1, <1>3, <1>14, <1>15 DEF OneOwner, Running
<1>21. Framed'
  BY <1>1, <1>2, <1>3, <1>4, <1>8, SMTT(30) DEF Framed, FramedAt, EOSComes, Probed, One
<1>22. Greeted'
  <2>1. Len(Lane(c, q)) \in Nat
    BY <1>1, <1>2, LenProperties DEF Lanes
  <2>2. \A d \in Conn, x \in Proc : Inserting(d, x) => Inserting(d, x)' \/ (d = c /\ x = p)
    BY <1>3, <1>7 DEF Inserting, At
  <2>3. \A d \in Conn, x \in Proc : /\ Greeting(d, x)' => Greeting(d, x)
                                    /\ Asked(d, x)' => Asked(d, x)
    BY <1>3 DEF Greeting, Asked, IoAt
  <2>4. Len(Lane(c, q))' >= 2
    BY <1>8, <2>1
  <2> QED BY <1>1, <1>2, <1>8, <2>2, <2>3, <2>4, SMTT(30) DEF Greeted
<1>23. Finalizing'
  <2>1. InTable(q)' = InTable(q) /\ InTable(p)' = InTable(p) \union {c}
    BY <1>2, <1>6 DEF InTable
  <2>2. FinalizingAt(p)'
    BY <1>1, <1>3, <1>4, <1>7, <2>1 DEF Finalizing, FinalizingAt, At
  <2>3. FinalizingAt(q)'
    BY <1>1, <1>2, <1>3, <1>7, <2>1 DEF Finalizing, FinalizingAt, At
  <2> QED BY <1>2, <2>2, <2>3 DEF Finalizing
<1> QED BY <1>11, <1>12, <1>13, <1>16, <1>17, <1>18, <1>19, <1>20, <1>21, <1>22, <1>23 DEF Inv

(* Manager::getNext.                                                       *)
LEMMA GetNextKeeps ==
  ASSUME Inv, NEW p \in Proc, NEW c \in Conn, GetNext(p, c)
  PROVE  Inv'
<1>1. TypeOK /\ Lanes /\ Table /\ Fresh /\ Busy /\ Requests /\ Single /\ OneOwner
      /\ Framed /\ Greeted /\ Finalizing
  BY DEF Inv
<1>2. /\ queue[p][c] > 0 /\ queue' = [queue EXCEPT ![p][c] = @ - 1]
      /\ user' = [user EXCEPT ![p][c] = "held"]
      /\ UNCHANGED <<h, connections, net, request, main, io, sent>>
  BY DEF GetNext
<1>3. queue[p][c] = 1 /\ ~Managed(c, p) /\ ~Greeting(c, p) /\ ~Inserting(c, p)
  BY <1>1, <1>2, Exclusive
<1>4. h[c][p].made
  BY <1>1, <1>3 DEF Fresh, FreshAt
<1>5. /\ user' \in [Proc -> [Conn -> {"none", "held", "given"}]] /\ user'[p][c] = "held"
      /\ \A d \in Conn, x \in Proc : d # c \/ x # p => user'[x][d] = user[x][d]
  BY <1>1, <1>2 DEF TypeOK
<1>6. /\ queue' \in [Proc -> [Conn -> 0..1]] /\ queue'[p][c] = 0
      /\ \A d \in Conn, x \in Proc : d # c \/ x # p => queue'[x][d] = queue[x][d]
  BY <1>1, <1>2, <1>3 DEF TypeOK
<1>7. TypeOK'
  BY <1>1, <1>2, <1>5, <1>6 DEF TypeOK
<1>8. Owners(c, p)' = 1
  <2>1. /\ ~Managed(c, p)' /\ user'[p][c] = "held" /\ queue'[p][c] = 0
        /\ ~(io'[p].pc = "handshake" /\ io'[p].c = c) /\ ~(At(p, "insert")' /\ main'[p].c = c)
    BY <1>2, <1>3, <1>5, <1>6 DEF Managed, Greeting, Inserting, IoAt, At
  <2> QED BY <2>1 DEF Owners, One
<1>9. \A d \in Conn, x \in Proc : d # c \/ x # p => Owners(d, x)' = Owners(d, x)
  BY <1>2, <1>5, <1>6 DEF Owners, Managed, At
<1>10. Single' /\ OneOwner'
  BY <1>1, <1>2, <1>8, <1>9 DEF Single, OneOwner, Running
<1>11. Fresh'
  BY <1>1, <1>2, <1>4, <1>5, <1>6 DEF Fresh, FreshAt, Greeting, Inserting, Entry, At, IoAt
<1>12. Lanes' /\ Table' /\ Busy' /\ Requests' /\ Framed' /\ Greeted' /\ Finalizing'
  BY <1>1, <1>2, SMTT(30) DEF Lanes, Table, Busy, BusyAt, Requests, Framed, FramedAt, Greeted, Finalizing,
     FinalizingAt, Lane, Entry,
     Inserting, Greeting, Asked, InTable, At, IoAt, EOSComes, Probed
<1> QED BY <1>7, <1>10, <1>11, <1>12 DEF Inv

(* Handle::send.                                                           *)
LEMMA SendKeeps ==
  ASSUME Inv, NEW p \in Proc, NEW c \in Conn, Send(p, c)
  PROVE  Inv'
<1> DEFINE q == Other(p)
<1>1. TypeOK /\ Lanes /\ Table /\ Fresh /\ Busy /\ Requests /\ Single /\ OneOwner
      /\ Framed /\ Greeted /\ Finalizing
  BY DEF Inv
<1>2. /\ q \in Proc /\ q # p /\ Other(q) = p /\ \A x \in Proc : x = p \/ x = q
  BY TwoProcs
<1>3. /\ ~h[c][p].closed_wr /\ sent[p] < MaxSend[p] /\ sent' = [sent EXCEPT ![p] = @ + 1]
      /\ MPI_Send(c, p, Message)
      /\ UNCHANGED <<h, connections, request, queue, user, main, io>>
  BY DEF Send, Message
<1>4. /\ net' \in [Proc -> [Tags -> Seq(Conn \X Frame)]]
      /\ Lane(c, q)' \in Seq({c} \X Frame)
      /\ \A d \in Conn, x \in Proc : d # c \/ x # q => Lane(d, x)' = Lane(d, x)
      /\ WellFramed(Lane(c, q)', 0, Probed(c, q)) /\ Len(Lane(c, q)') = Len(Lane(c, q)) + 2
  BY <1>1, <1>3, MessageSent
<1>5. TypeOK'
  BY <1>1, <1>3, <1>4, BoundAssumption, SMTT(30) DEF TypeOK
<1>6. Lanes'
  BY <1>1, <1>3, <1>4 DEF Lanes
<1>7. Framed'
  BY <1>1, <1>2, <1>3, <1>4, SMTT(30) DEF Framed, FramedAt, EOSComes, Probed, One
<1>8. Greeted'
  <2>1. Len(Lane(c, q)) \in Nat
    BY <1>1, <1>2, LenProperties DEF Lanes
  <2>2. Len(Lane(c, q))' >= 2
    BY <1>4, <2>1
  <2> QED BY <1>1, <1>3, <1>4, <2>2 DEF Greeted, Greeting, Asked, Inserting, At, IoAt
<1>9. \A d \in Conn, x \in Proc : Owners(d, x)' = Owners(d, x)
  BY <1>3 DEF Owners, Managed, At
<1>10. Single' /\ OneOwner'
  BY <1>1, <1>3, <1>9 DEF Single, OneOwner, Running
<1>11. Table' /\ Fresh' /\ Busy' /\ Requests' /\ Finalizing'
  BY <1>1, <1>3, SMTT(30) DEF Table, Fresh, FreshAt, Busy, BusyAt, Requests, Finalizing, FinalizingAt, Entry,
     Inserting, Greeting, Asked, InTable, At, IoAt
<1> QED BY <1>5, <1>6, <1>7, <1>8, <1>10, <1>11 DEF Inv

(* A read that leaves the handle open: what was read is gone, and the      *)
(* handle has a header or not.                                             *)
LEMMA ReadKeeps ==
  ASSUME Inv, NEW p \in Proc, NEW c \in Conn, NEW k \in {"none", "hdr"}, NEW j,
         j = IF k = "hdr" THEN 1 ELSE 0, NEW r \in HandleMPI, r.made, ~r.closed_rd, r.closed_wr <=> h[c][p].closed_wr,
         r.probed = k, ~r.crossed, h' = [h EXCEPT ![c][p] = r],
         h[c][p].made, ~h[c][p].closed_rd, ~Greeting(c, p),
         net' \in [Proc -> [Tags -> Seq(Conn \X Frame)]],
         Lane(c, p)' \in Seq({c} \X Frame),
         \A d \in Conn, x \in Proc : d # c \/ x # p => Lane(d, x)' = Lane(d, x),
         WellFramed(Lane(c, p)', EOSComes(c, p), j),
         UNCHANGED <<connections, request, queue, user, main, io, sent>>
  PROVE  Inv'
<1> DEFINE q == Other(p)
<1>1. TypeOK /\ Lanes /\ Table /\ Fresh /\ Busy /\ Requests /\ Single /\ OneOwner
      /\ Framed /\ Greeted /\ Finalizing
  BY DEF Inv
<1>2. /\ q \in Proc /\ q # p /\ Other(q) = p /\ \A x \in Proc : x = p \/ x = q
  BY TwoProcs
<1>P. \A x \in Proc : main[x].c \in Conn /\ io[x].c \in Conn
  BY <1>1, Parts
<1>3. UNCHANGED <<connections, request, queue, user, main, io, sent>>
  OBVIOUS
<1>4. /\ net' \in [Proc -> [Tags -> Seq(Conn \X Frame)]]
      /\ Lane(c, p)' \in Seq({c} \X Frame)
      /\ \A d \in Conn, x \in Proc : d # c \/ x # p => Lane(d, x)' = Lane(d, x)
      /\ WellFramed(Lane(c, p)', EOSComes(c, p), j)
  OBVIOUS
<1>5. h[c][p].made /\ ~h[c][p].closed_rd /\ ~Greeting(c, p)
  OBVIOUS
<1>7. /\ r.made /\ ~r.closed_rd /\ (r.closed_wr <=> h[c][p].closed_wr)
      /\ r.probed = k /\ ~r.crossed
  OBVIOUS
<1>8. /\ h' \in [Conn -> [Proc -> HandleMPI]] /\ h'[c][p] = r
      /\ \A d \in Conn, x \in Proc : d # c \/ x # p => h'[d][x] = h[d][x]
  BY <1>1 DEF TypeOK
<1>9. TypeOK'
  BY <1>1, <1>3, <1>4, <1>8 DEF TypeOK
<1>10. Lanes'
  <2>1. \A d \in Conn, x \in Proc : Lane(d, x)' \in Seq({d} \X Frame)
    BY <1>1, <1>4 DEF Lanes
  <2>2. \A d \in Conn, x \in Proc : ~h'[d][x].crossed
    BY <1>1, <1>7, <1>8 DEF Lanes
  <2> QED BY <2>1, <2>2 DEF Lanes
<1>11. \A d \in Conn, x \in Proc :
         Entry(d, x)' = Entry(d, x) /\ (Inserting(d, x)' <=> Inserting(d, x))
         /\ (Greeting(d, x)' <=> Greeting(d, x)) /\ (Asked(d, x)' <=> Asked(d, x))
  BY <1>3 DEF Entry, Inserting, Greeting, Asked, At, IoAt
<1>12. \A d \in Conn, x \in Proc :
         /\ h'[d][x].made <=> h[d][x].made
         /\ h'[d][x].closed_rd <=> h[d][x].closed_rd
         /\ h'[d][x].closed_wr <=> h[d][x].closed_wr
  BY <1>5, <1>7, <1>8
<1>13. Table'
  BY <1>1, <1>11, <1>12 DEF Table
<1>14. Fresh'
  BY <1>1, <1>3, <1>5, <1>8, <1>11, <1>12 DEF Fresh, FreshAt
<1>15. Busy'
  BY <1>1, <1>3, <1>5, <1>8, <1>11, <1>12, <1>P, SMTT(30) DEF Busy, BusyAt, At, IoAt, Greeting
<1>16. Requests'
  BY <1>1, <1>2, <1>3, <1>11, <1>12 DEF Requests
<1>17. \A d \in Conn, x \in Proc : Owners(d, x)' = Owners(d, x)
  BY <1>3 DEF Owners, Managed, At
<1>18. Single' /\ OneOwner'
  BY <1>1, <1>3, <1>12, <1>17 DEF Single, OneOwner, Running
<1>19. Framed'
  <2>1. \A d \in Conn, x \in Proc : EOSComes(d, x)' = EOSComes(d, x)
    BY <1>2, <1>12 DEF EOSComes, One
  <2>2. FramedAt(c, p)'
    BY <1>3, <1>4, <1>7, <1>8, <2>1 DEF FramedAt, Probed, One
  <2>3. ASSUME NEW d \in Conn, NEW x \in Proc, d # c \/ x # p PROVE FramedAt(d, x)'
    BY <1>1, <1>2, <1>4, <1>8, <1>12, <2>1, <2>3 DEF Framed, FramedAt, Probed
  <2> QED BY <2>2, <2>3 DEF Framed
<1>20. Greeted'
  <2>1. ~Greeting(c, p)' /\ ~Asked(c, p)'
    BY <1>1, <1>5, <1>11 DEF Requests
  <2> SUFFICES ASSUME NEW d \in Conn, NEW x \in Proc, Greeting(d, x)' \/ Asked(d, x)'
               PROVE  Inserting(d, Other(x))' \/ Len(Lane(d, x))' >= 2
    BY DEF Greeted
  <2>2. Lane(d, x)' = Lane(d, x)
    BY <1>4, <2>1
  <2>3. Inserting(d, Other(x)) \/ Len(Lane(d, x)) >= 2
    BY <1>1, <1>11 DEF Greeted
  <2> QED BY <1>2, <1>11, <2>2, <2>3
<1>21. Finalizing'
  BY <1>1, <1>3, <1>11, <1>12, <1>P DEF Finalizing, FinalizingAt, At, InTable
<1> QED BY <1>9, <1>10, <1>13, <1>14, <1>15, <1>16, <1>18, <1>19, <1>20, <1>21 DEF Inv

(* HandleUser::probe that reads a header.                                  *)
LEMMA ProbeHeaderKeeps ==
  ASSUME Inv, NEW p \in Proc, NEW c \in Conn, Probe(p, c), Head(Inbox(c, p))[2] # "eos"
  PROVE  Inv'
<1>1. TypeOK /\ Lanes /\ Framed /\ Fresh /\ Single
  BY DEF Inv
<1>2. /\ user[p][c] = "held" /\ ~h[c][p].closed_rd /\ h[c][p].probed = "none"
      /\ Inbox(c, p) # <<>> /\ MPI_Recv(c, p, 1)
      /\ UNCHANGED <<connections, request, queue, user, main, io, sent>>
  BY DEF Probe, MayRead
<1>3. Crossed(c, p, 1) = FALSE
  BY <1>1, <1>2, HeadRead
<1>4. /\ net' \in [Proc -> [Tags -> Seq(Conn \X Frame)]]
      /\ Lane(c, p)' \in Seq({c} \X Frame)
      /\ \A d \in Conn, x \in Proc : d # c \/ x # p => Lane(d, x)' = Lane(d, x)
      /\ WellFramed(Lane(c, p)', EOSComes(c, p), 1) /\ Head(Inbox(c, p))[2] = "hdr"
  BY <1>1, <1>2, HeadRead
<1>5. h[c][p].made /\ ~Greeting(c, p)
  BY <1>1, <1>2, Exclusive DEF Fresh, FreshAt
<1>6. h[c][p] \in HandleMPI
  BY <1>1, Parts
<1>7. PICK r : r = [h[c][p] EXCEPT !.probed = "hdr", !.closed_rd = FALSE, !.crossed = FALSE]
  OBVIOUS
<1>8. /\ r \in HandleMPI /\ r.made /\ (r.closed_wr <=> h[c][p].closed_wr)
      /\ r.probed = "hdr" /\ ~r.closed_rd /\ ~r.crossed
  BY <1>5, <1>6, <1>7 DEF HandleMPI, Frame
<1>9. h' = [h EXCEPT ![c][p] = r]
  BY <1>1, <1>3, <1>4, <1>7 DEF Probe, TypeOK
<1> QED BY <1>2, <1>4, <1>5, <1>8, <1>9, ReadKeeps

(* Handle::receive.                                                        *)
LEMMA ReceiveKeeps ==
  ASSUME Inv, NEW p \in Proc, NEW c \in Conn, Receive(p, c)
  PROVE  Inv'
<1>1. TypeOK /\ Lanes /\ Framed /\ Fresh /\ Single
  BY DEF Inv
<1>2. /\ user[p][c] = "held" /\ ~h[c][p].closed_rd /\ h[c][p].probed = "hdr"
      /\ Inbox(c, p) # <<>> /\ MPI_Recv(c, p, 1)
      /\ UNCHANGED <<connections, request, queue, user, main, io, sent>>
  BY DEF Receive, MayRead
<1>3. Crossed(c, p, 1) = FALSE
  BY <1>1, <1>2, BodyRead
<1>4. /\ net' \in [Proc -> [Tags -> Seq(Conn \X Frame)]]
      /\ Lane(c, p)' \in Seq({c} \X Frame)
      /\ \A d \in Conn, x \in Proc : d # c \/ x # p => Lane(d, x)' = Lane(d, x)
      /\ WellFramed(Lane(c, p)', EOSComes(c, p), 0)
  BY <1>1, <1>2, BodyRead
<1>5. h[c][p].made /\ ~Greeting(c, p)
  BY <1>1, <1>2, Exclusive DEF Fresh, FreshAt
<1>6. h[c][p] \in HandleMPI
  BY <1>1, Parts
<1>7. PICK r : r = [h[c][p] EXCEPT !.probed = "none", !.crossed = FALSE]
  OBVIOUS
<1>8. /\ r \in HandleMPI /\ r.made /\ (r.closed_wr <=> h[c][p].closed_wr)
      /\ r.probed = "none" /\ ~r.closed_rd /\ ~r.crossed
  BY <1>2, <1>5, <1>6, <1>7 DEF HandleMPI, Frame
<1>9. h' = [h EXCEPT ![c][p] = r]
  BY <1>1, <1>3, <1>7 DEF Receive, TypeOK
<1> QED BY <1>2, <1>4, <1>5, <1>8, <1>9, ReadKeeps

(* The loop of setAsClosed.                                                *)
LEMMA DrainKeeps ==
  ASSUME Inv, NEW p \in Proc, NEW c \in Conn, main[p].c = c, Drain(p)
  PROVE  Inv'
<1> DEFINE n == IF h[c][p].probed = "hdr" THEN 1 ELSE 2
<1>1. TypeOK /\ Lanes /\ Framed /\ Fresh /\ Busy /\ Table /\ Finalizing
  BY DEF Inv
<1>2. /\ main[p].pc = "drain" /\ Len(Inbox(c, p)) >= n /\ MPI_Recv(c, p, n)
      /\ h[c][p].probed = "hdr" \/ Head(Inbox(c, p))[2] # "eos"
      /\ h' = [h EXCEPT ![c][p].probed = "none", ![c][p].crossed = Crossed(c, p, n)]
      /\ UNCHANGED <<connections, request, queue, user, main, io, sent>>
  BY DEF Drain, At
<1>3. /\ c \in InTable(p) /\ ~h[c][p].closed_rd /\ io[p].pc = "exited"
  BY <1>1, <1>2 DEF Finalizing, FinalizingAt, Busy, BusyAt, At, IoAt
<1>4. h[c][p].made /\ ~Greeting(c, p)
  BY <1>1, <1>3, ConnAssumption DEF Fresh, FreshAt, InTable, Greeting, IoAt
<1>5. h[c][p].probed \in {"none", "hdr"}
  BY <1>1, <1>3 DEF Framed, FramedAt
<1>6. /\ Crossed(c, p, n) = FALSE
      /\ net' \in [Proc -> [Tags -> Seq(Conn \X Frame)]]
      /\ Lane(c, p)' \in Seq({c} \X Frame)
      /\ \A d \in Conn, x \in Proc : d # c \/ x # p => Lane(d, x)' = Lane(d, x)
      /\ WellFramed(Lane(c, p)', EOSComes(c, p), 0)
  <2>1. CASE h[c][p].probed = "hdr"
    <3>1. n = 1 /\ Inbox(c, p) # <<>>
      BY <1>2, <2>1
    <3> QED BY <1>1, <1>2, <2>1, <3>1, BodyRead
  <2>2. CASE h[c][p].probed = "none"
    <3>1. n = 2
      BY <2>2
    <3> QED BY <1>1, <1>2, <2>2, <3>1, PairRead
  <2> QED BY <1>5, <2>1, <2>2
<1>7. h[c][p] \in HandleMPI
  BY <1>1, Parts
<1>8. PICK r : r = [h[c][p] EXCEPT !.probed = "none", !.crossed = FALSE]
  OBVIOUS
<1>9. /\ r \in HandleMPI /\ r.made /\ (r.closed_wr <=> h[c][p].closed_wr)
      /\ r.probed = "none" /\ ~r.closed_rd /\ ~r.crossed
  BY <1>3, <1>4, <1>7, <1>8 DEF HandleMPI, Frame
<1>10. h' = [h EXCEPT ![c][p] = r]
  BY <1>1, <1>2, <1>6, <1>8 DEF TypeOK
<1>11. UNCHANGED <<connections, request, queue, user, main, io, sent>>
  BY <1>2
<1>12. /\ net' \in [Proc -> [Tags -> Seq(Conn \X Frame)]]
       /\ Lane(c, p)' \in Seq({c} \X Frame)
       /\ \A d \in Conn, x \in Proc : d # c \/ x # p => Lane(d, x)' = Lane(d, x)
       /\ WellFramed(Lane(c, p)', EOSComes(c, p), 0)
  BY <1>6
<1> QED BY <1>3, <1>4, <1>9, <1>10, <1>11, <1>12, ReadKeeps

(* HandleUser::probe that reads EOS closes the read side.                  *)
LEMMA ProbeEOSKeeps ==
  ASSUME Inv, NEW p \in Proc, NEW c \in Conn, Probe(p, c), Head(Inbox(c, p))[2] = "eos"
  PROVE  Inv'
<1> DEFINE q == Other(p)
<1>1. TypeOK /\ Lanes /\ Table /\ Fresh /\ Busy /\ Requests /\ Single /\ OneOwner
      /\ Framed /\ Greeted /\ Finalizing
  BY DEF Inv
<1>2. /\ q \in Proc /\ q # p /\ Other(q) = p /\ \A x \in Proc : x = p \/ x = q
  BY TwoProcs
<1>P. \A x \in Proc : main[x].c \in Conn /\ io[x].c \in Conn
  BY <1>1, Parts
<1>3. /\ user[p][c] = "held" /\ ~h[c][p].closed_rd /\ h[c][p].probed = "none"
      /\ main[p].pc = "idle" /\ Inbox(c, p) # <<>> /\ MPI_Recv(c, p, 1)
      /\ user' = [user EXCEPT ![p][c] = "given"] /\ Call(p, "notify", c)
      /\ UNCHANGED <<connections, request, queue, io, sent>>
  BY DEF Probe, MayRead, Idle, At
<1>x. Crossed(c, p, 1) = FALSE
  BY <1>1, <1>3, HeadRead
<1>4. /\ net' \in [Proc -> [Tags -> Seq(Conn \X Frame)]]
      /\ Lane(c, p)' \in Seq({c} \X Frame)
      /\ \A d \in Conn, x \in Proc : d # c \/ x # p => Lane(d, x)' = Lane(d, x)
      /\ Lane(c, p)' = <<>> /\ h[c][q].closed_wr
  BY <1>1, <1>3, HeadRead
<1>5. h[c][p].made /\ ~Greeting(c, p) /\ ~Inserting(c, p) /\ queue[p][c] = 0 /\ ~Managed(c, p)
  BY <1>1, <1>3, Exclusive DEF Fresh, FreshAt
<1>6. /\ main' \in [Proc -> Thread] /\ main'[p].pc = "notify" /\ main'[p].c = c
      /\ \A x \in Proc : x # p => main'[x] = main[x]
  BY <1>1, <1>3, CallSet DEF PC
<1>7. /\ user' \in [Proc -> [Conn -> {"none", "held", "given"}]] /\ user'[p][c] = "given"
      /\ \A d \in Conn, x \in Proc : d # c \/ x # p => user'[x][d] = user[x][d]
  BY <1>1, <1>3 DEF TypeOK
<1> DEFINE r == [h[c][p] EXCEPT !.probed = "eos", !.closed_rd = TRUE, !.crossed = FALSE]
<1>8. h' = [h EXCEPT ![c][p] = r]
  BY <1>1, <1>x DEF Probe, TypeOK
<1>9. /\ r \in HandleMPI /\ r.made /\ (r.closed_wr <=> h[c][p].closed_wr)
      /\ r.probed = "eos" /\ r.closed_rd /\ ~r.crossed
  <2>1. h[c][p] \in HandleMPI
    BY <1>1, Parts
  <2> QED BY <1>5, <2>1 DEF HandleMPI, Frame
<1> HIDE DEF r
<1>10. /\ h' \in [Conn -> [Proc -> HandleMPI]] /\ h'[c][p] = r
       /\ \A d \in Conn, x \in Proc : d # c \/ x # p => h'[d][x] = h[d][x]
  BY <1>1, <1>8, <1>9 DEF TypeOK
<1>11. TypeOK'
  BY <1>1, <1>3, <1>4, <1>6, <1>7, <1>10 DEF TypeOK, Thread, PC
<1>12. Lanes'
  <2>1. \A d \in Conn, x \in Proc : Lane(d, x)' \in Seq({d} \X Frame)
    BY <1>1, <1>4 DEF Lanes
  <2>2. \A d \in Conn, x \in Proc : ~h'[d][x].crossed
    BY <1>1, <1>9, <1>10 DEF Lanes
  <2> QED BY <2>1, <2>2 DEF Lanes
<1>13. \A d \in Conn, x \in Proc :
         /\ Entry(d, x)' = Entry(d, x) /\ (Inserting(d, x)' <=> Inserting(d, x))
         /\ (Greeting(d, x)' <=> Greeting(d, x)) /\ (Asked(d, x)' <=> Asked(d, x))
  BY <1>3, <1>6 DEF Entry, Inserting, Greeting, Asked, At, IoAt
<1>14. \A d \in Conn, x \in Proc : /\ h'[d][x].made <=> h[d][x].made
                                   /\ h'[d][x].closed_wr <=> h[d][x].closed_wr
  BY <1>5, <1>9, <1>10
<1>15. Table'
  BY <1>1, <1>9, <1>10, <1>13, <1>14 DEF Table
<1>16. Fresh'
  <2>1. FreshAt(c, p)'
    BY <1>5, <1>14 DEF FreshAt
  <2>2. ASSUME NEW d \in Conn, NEW x \in Proc, d # c \/ x # p PROVE FreshAt(d, x)'
    BY <1>1, <1>3, <1>7, <1>10, <1>13, <2>2, SMTT(30) DEF Fresh, FreshAt
  <2> QED BY <2>1, <2>2 DEF Fresh
<1>17. Busy'
  <2>1. BusyAt(p)'
    BY <1>1, <1>3, <1>5, <1>6, <1>9, <1>10, <1>P DEF Busy, BusyAt, At, IoAt, Greeting
  <2>2. BusyAt(q)'
    BY <1>1, <1>2, <1>3, <1>6, <1>10, <1>13, <1>P DEF Busy, BusyAt, At, IoAt
  <2> QED BY <1>2, <2>1, <2>2 DEF Busy
<1>18. Requests'
  BY <1>1, <1>2, <1>3, <1>13, <1>14 DEF Requests
<1>19. \A d \in Conn, x \in Proc : d # c \/ x # p => Owners(d, x)' = Owners(d, x)
  BY <1>3, <1>6, <1>7 DEF Owners, Managed, At
<1>20. Owners(c, p)' = 0
  <2>1. /\ ~Managed(c, p)' /\ user'[p][c] # "held" /\ queue'[p][c] = 0
        /\ ~(io'[p].pc = "handshake" /\ io'[p].c = c) /\ ~At(p, "insert")'
    BY <1>3, <1>5, <1>6, <1>7 DEF Managed, Greeting, IoAt, At
  <2> QED BY <2>1 DEF Owners, One
<1>21. Single' /\ OneOwner'
  BY <1>1, <1>3, <1>9, <1>10, <1>19, <1>20 DEF Single, OneOwner, Running
<1>22. Framed'
  <2>1. FramedAt(c, p)'
    <3>1. EOSComes(c, p)' = 0 /\ Probed(c, p)' = 0 /\ Lane(c, p)' = <<>>
      BY <1>4, <1>9, <1>10 DEF EOSComes, Probed, One
    <3>2. WellFramed(<<>>, 0, 0)
      BY DEF WellFramed
    <3> QED BY <1>2, <1>4, <1>9, <1>10, <1>14, <3>1, <3>2 DEF FramedAt
  <2>2. ASSUME NEW d \in Conn, NEW x \in Proc, d # c \/ x # p PROVE FramedAt(d, x)'
    <3>1. Lane(d, x)' = Lane(d, x) /\ h'[d][x] = h[d][x]
      BY <1>4, <1>10, <2>2
    <3>2. h'[d][Other(x)].closed_wr <=> h[d][Other(x)].closed_wr
      BY <1>14, TwoProcs
    <3> QED BY <1>1, <3>1, <3>2, FramedKept
  <2> QED BY <2>1, <2>2 DEF Framed
<1>23. Greeted'
  <2>1. ~Greeting(c, p)' /\ ~Asked(c, p)'
    BY <1>1, <1>5, <1>13 DEF Requests
  <2> SUFFICES ASSUME NEW d \in Conn, NEW x \in Proc, Greeting(d, x)' \/ Asked(d, x)'
               PROVE  Inserting(d, Other(x))' \/ Len(Lane(d, x))' >= 2
    BY DEF Greeted
  <2>2. Lane(d, x)' = Lane(d, x)
    BY <1>4, <2>1
  <2>3. Inserting(d, Other(x)) \/ Len(Lane(d, x)) >= 2
    BY <1>1, <1>13 DEF Greeted
  <2> QED BY <1>2, <1>13, <2>2, <2>3
<1>24. Finalizing'
  <2>1. \A x \in Proc : InTable(x)' = InTable(x) /\ InTable(x) \subseteq Conn
    BY <1>13 DEF InTable
  <2>2. FinalizingAt(p)'
    BY <1>1, <1>3, <1>6, <1>10, <2>1 DEF Finalizing, FinalizingAt, At
  <2>3. FinalizingAt(q)'
    BY <1>1, <1>2, <1>6, <1>10, <1>P, <2>1 DEF Finalizing, FinalizingAt, At
  <2> QED BY <1>2, <2>2, <2>3 DEF Finalizing
<1> QED BY <1>11, <1>12, <1>15, <1>16, <1>17, <1>18, <1>21, <1>22, <1>23, <1>24 DEF Inv

(* setAsClosed that reads EOS: the table forgets the connection.           *)
LEMMA CloseReadKeeps ==
  ASSUME Inv, NEW p \in Proc, NEW c \in Conn, main[p].c = c, CloseRead(p)
  PROVE  Inv'
<1> DEFINE q == Other(p)
<1>1. TypeOK /\ Lanes /\ Table /\ Fresh /\ Busy /\ Requests /\ Single /\ OneOwner
      /\ Framed /\ Greeted /\ Finalizing
  BY DEF Inv
<1>2. /\ q \in Proc /\ q # p /\ Other(q) = p /\ \A x \in Proc : x = p \/ x = q
  BY TwoProcs
<1>P. \A x \in Proc : main[x].c \in Conn /\ io[x].c \in Conn
  BY <1>1, Parts
<1>3. /\ main[p].pc = "drain" /\ h[c][p].probed = "none" /\ Inbox(c, p) # <<>>
      /\ Head(Inbox(c, p))[2] = "eos" /\ MPI_Recv(c, p, 1) /\ Goto(p, "end")
      /\ connections' = [connections EXCEPT ![p][Tag[c]] = NoEntry]
      /\ UNCHANGED <<request, queue, user, io, sent>>
  BY DEF CloseRead, At
<1>5. /\ c \in InTable(p) /\ main[p].todo = InTable(p) \ {c} /\ ~h[c][p].closed_rd
      /\ io[p].pc = "exited"
  BY <1>1, <1>3 DEF Finalizing, FinalizingAt, Busy, BusyAt, At, IoAt
<1>6. h[c][p].made
  BY <1>1, <1>5, ConnAssumption DEF Fresh, FreshAt, InTable
<1>x. Crossed(c, p, 1) = FALSE
  BY <1>1, <1>3, <1>5, HeadRead
<1>4. /\ net' \in [Proc -> [Tags -> Seq(Conn \X Frame)]]
      /\ Lane(c, p)' \in Seq({c} \X Frame)
      /\ \A d \in Conn, x \in Proc : d # c \/ x # p => Lane(d, x)' = Lane(d, x)
      /\ Lane(c, p)' = <<>> /\ h[c][q].closed_wr
  BY <1>1, <1>3, <1>5, HeadRead
<1>7. /\ main' \in [Proc -> Thread] /\ main'[p].pc = "end" /\ main'[p].c = c
      /\ main'[p].todo = main[p].todo /\ \A x \in Proc : x # p => main'[x] = main[x]
  BY <1>1, <1>3, GotoSet DEF PC
<1> DEFINE r == [h[c][p] EXCEPT !.closed_rd = TRUE, !.crossed = FALSE]
<1>8. h' = [h EXCEPT ![c][p] = r]
  BY <1>1, <1>x DEF CloseRead, TypeOK
<1>9. /\ r \in HandleMPI /\ r.made /\ (r.closed_wr <=> h[c][p].closed_wr)
      /\ r.probed = "none" /\ r.closed_rd /\ ~r.crossed
  <2>1. h[c][p] \in HandleMPI
    BY <1>1, Parts
  <2> QED BY <1>3, <1>6, <2>1 DEF HandleMPI, Frame
<1> HIDE DEF r
<1>10. /\ h' \in [Conn -> [Proc -> HandleMPI]] /\ h'[c][p] = r
       /\ \A d \in Conn, x \in Proc : d # c \/ x # p => h'[d][x] = h[d][x]
  BY <1>1, <1>8, <1>9 DEF TypeOK
<1>e. /\ connections' \in [Proc -> [Tags -> [c : Conn \union {NoConn}, to_manage : BOOLEAN]]]
      /\ Entry(c, p)'.c = NoConn /\ ~Entry(c, p)'.to_manage
      /\ \A d \in Conn, x \in Proc : d # c \/ x # p => Entry(d, x)' = Entry(d, x)
  BY <1>1, <1>3, EraseSet
<1>11. TypeOK'
  BY <1>1, <1>3, <1>4, <1>7, <1>e, <1>10 DEF TypeOK, Thread, PC
<1>12. Lanes'
  <2>1. \A d \in Conn, x \in Proc : Lane(d, x)' \in Seq({d} \X Frame)
    BY <1>1, <1>4, ZenonT(60) DEF Lanes
  <2>2. \A d \in Conn, x \in Proc : ~h'[d][x].crossed
    BY <1>1, <1>9, <1>10 DEF Lanes
  <2> QED BY <2>1, <2>2 DEF Lanes
<1>13. \A d \in Conn, x \in Proc :
         /\ (Inserting(d, x)' <=> Inserting(d, x))
         /\ (Greeting(d, x)' <=> Greeting(d, x)) /\ (Asked(d, x)' <=> Asked(d, x))
  BY <1>3, <1>7 DEF Inserting, Greeting, Asked, At, IoAt
<1>14. \A d \in Conn, x \in Proc : /\ h'[d][x].made <=> h[d][x].made
                                   /\ h'[d][x].closed_wr <=> h[d][x].closed_wr
  BY <1>6, <1>9, <1>10
<1>15. Table'
  BY <1>1, <1>9, <1>10, <1>13, <1>14, <1>e DEF Table
<1>16. Fresh'
  BY <1>1, <1>3, <1>6, <1>10, <1>13, <1>14, <1>e DEF Fresh, FreshAt
<1>17. Busy'
  <2>1. BusyAt(p)'
    BY <1>1, <1>3, <1>5, <1>7 DEF Busy, BusyAt, At, IoAt
  <2>2. BusyAt(q)'
    BY <1>1, <1>2, <1>3, <1>7, <1>10, <1>e, BusyKept
  <2> QED BY <1>2, <2>1, <2>2 DEF Busy
<1>18. Requests'
  BY <1>1, <1>2, <1>3, <1>13, <1>14 DEF Requests
<1>19. \A d \in Conn, x \in Proc : d # c \/ x # p => Owners(d, x)' = Owners(d, x)
  BY <1>3, <1>7, <1>e DEF Owners, Managed, Entry, At
<1>20. Owners(c, p)' <= 1
  <2>1. /\ ~Managed(c, p)' /\ user'[p][c] = user[p][c] /\ queue'[p][c] = queue[p][c]
        /\ ~(io'[p].pc = "handshake" /\ io'[p].c = c) /\ ~At(p, "insert")'
    BY <1>3, <1>5, <1>7, <1>e, ConnAssumption DEF Managed, Entry, At
  <2>2. queue[p][c] \in 0..1 /\ (user[p][c] = "held" => queue[p][c] = 0)
    BY <1>1, Exclusive, Parts
  <2> QED BY <2>1, <2>2 DEF Owners, One
<1>21. Single' /\ OneOwner'
  BY <1>1, <1>3, <1>9, <1>10, <1>19, <1>20 DEF Single, OneOwner, Running
<1>22. Framed'
  <2>1. FramedAt(c, p)'
    <3>1. EOSComes(c, p)' = 0 /\ Probed(c, p)' = 0 /\ Lane(c, p)' = <<>>
      BY <1>4, <1>9, <1>10 DEF EOSComes, Probed, One
    <3>2. WellFramed(<<>>, 0, 0)
      BY DEF WellFramed
    <3> QED BY <1>2, <1>4, <1>9, <1>10, <1>14, <3>1, <3>2 DEF FramedAt
  <2>2. ASSUME NEW d \in Conn, NEW x \in Proc, d # c \/ x # p PROVE FramedAt(d, x)'
    <3>1. Lane(d, x)' = Lane(d, x) /\ h'[d][x] = h[d][x]
      BY <1>4, <1>10, <2>2
    <3>2. h'[d][Other(x)].closed_wr <=> h[d][Other(x)].closed_wr
      BY <1>14, TwoProcs
    <3> QED BY <1>1, <3>1, <3>2, FramedKept
  <2> QED BY <2>1, <2>2 DEF Framed
<1>23. Greeted'
  <2>1. ~Greeting(c, p)' /\ ~Asked(c, p)'
    BY <1>1, <1>5, <1>6, <1>13 DEF Requests, Greeting, IoAt
  <2> SUFFICES ASSUME NEW d \in Conn, NEW x \in Proc, Greeting(d, x)' \/ Asked(d, x)'
               PROVE  Inserting(d, Other(x))' \/ Len(Lane(d, x))' >= 2
    BY DEF Greeted
  <2>2. Lane(d, x)' = Lane(d, x)
    BY <1>4, <2>1
  <2>3. Inserting(d, Other(x)) \/ Len(Lane(d, x)) >= 2
    BY <1>1, <1>13 DEF Greeted
  <2> QED BY <1>2, <1>13, <2>2, <2>3
<1>24. Finalizing'
  <2>1. InTable(q)' = InTable(q) /\ InTable(p)' = InTable(p) \ {c} /\ InTable(p) \subseteq Conn
    BY <1>2, <1>e, ConnAssumption DEF InTable
  <2>2. FinalizingAt(p)'
    BY <1>1, <1>3, <1>5, <1>7, <1>10, <2>1 DEF Finalizing, FinalizingAt, At
  <2>3. FinalizingAt(q)'
    BY <1>1, <1>2, <1>7, <1>10, <1>P, <2>1 DEF Finalizing, FinalizingAt, At, InTable
  <2> QED BY <1>2, <2>2, <2>3 DEF Finalizing
<1> QED BY <1>11, <1>12, <1>15, <1>16, <1>17, <1>18, <1>21, <1>22, <1>23, <1>24 DEF Inv


(* A step of a thread that changes neither handles nor messages: the table *)
(* forgets at most a connection that is closed for reading.                *)
LEMMA ThreadKeeps ==
  ASSUME Inv, NEW p \in Proc, NEW c \in Conn,
         UNCHANGED <<h, net, request, queue, user, sent>>,
         connections' \in [Proc -> [Tags -> [c : Conn \union {NoConn}, to_manage : BOOLEAN]]],
         \A d \in Conn, x \in Proc : d # c \/ x # p => Entry(d, x)' = Entry(d, x),
         \/ Entry(c, p)' = Entry(c, p)
         \/ h[c][p].closed_rd /\ Entry(c, p)'.c = NoConn /\ ~Entry(c, p)'.to_manage,
         main' \in [Proc -> Thread], \A x \in Proc : x # p => main'[x] = main[x],
         main[p].pc # "insert", main'[p].pc # "insert",
         io' \in [Proc -> [pc : {"start", "handshake", "poll", "exited"}, c : Conn]],
         \A x \in Proc : x # p => io'[x] = io[x],
         io'[p].pc = "handshake" <=> io[p].pc = "handshake", io'[p].c = io[p].c,
         io[p].pc = "exited" => io'[p].pc = "exited",
         BusyAt(p)', FinalizingAt(p)'
  PROVE  Inv'
<1> DEFINE q == Other(p)
<1>1. TypeOK /\ Lanes /\ Table /\ Fresh /\ Busy /\ Requests /\ Single /\ OneOwner
      /\ Framed /\ Greeted /\ Finalizing
  BY DEF Inv
<1>2. /\ q \in Proc /\ q # p /\ Other(q) = p /\ \A x \in Proc : x = p \/ x = q
  BY TwoProcs
<1>3. TypeOK'
  BY <1>1 DEF TypeOK, Thread, PC
<1>4. \A d \in Conn, x \in Proc :
         /\ (Inserting(d, x)' <=> Inserting(d, x)) /\ (Greeting(d, x)' <=> Greeting(d, x))
         /\ (Asked(d, x)' <=> Asked(d, x)) /\ Lane(d, x)' = Lane(d, x)
  BY <1>2 DEF Inserting, Greeting, Asked, Lane, At, IoAt
<1>5. Lanes' /\ Requests' /\ Framed' /\ Greeted'
  <2>1. Requests'
    BY <1>1, <1>4 DEF Requests
  <2>2. Framed'
    BY <1>1, <1>4 DEF Framed, FramedAt, EOSComes, Probed
  <2>3. Greeted'
    BY <1>1, <1>2, <1>4 DEF Greeted
  <2>4. Lanes'
    <3>1. ASSUME NEW d \in Conn, NEW x \in Proc PROVE Lane(d, x)' \in Seq({d} \X Frame)
      <4>1. Lane(d, x)' = Lane(d, x) /\ Lane(d, x) \in Seq({d} \X Frame)
        BY <1>1, <1>4, Zenon DEF Lanes
      <4> QED BY <4>1, Zenon
    <3>2. \A d \in Conn, x \in Proc : ~h'[d][x].crossed
      BY <1>1 DEF Lanes
    <3> QED BY <3>1, <3>2 DEF Lanes
  <2> QED BY <2>1, <2>2, <2>3, <2>4
<1>6. Table'
  BY <1>1, <1>4 DEF Table
<1>7. Fresh'
  <2>1. FreshAt(c, p)'
    BY <1>1, <1>4 DEF Fresh, FreshAt, NewHandle
  <2>2. ASSUME NEW d \in Conn, NEW x \in Proc, d # c \/ x # p PROVE FreshAt(d, x)'
    BY <1>1, <1>4, <2>2 DEF Fresh, FreshAt
  <2> QED BY <2>1, <2>2 DEF Fresh
<1>8. Busy'
  <2>1. BusyAt(q)'
    BY <1>1, <1>2, BusyKept
  <2> QED BY <1>2, <2>1 DEF Busy
<1>9. \A d \in Conn, x \in Proc : d # c \/ x # p => Owners(d, x)' = Owners(d, x)
  <2>1. \A d \in Conn, x \in Proc : d # c \/ x # p => (Managed(d, x)' <=> Managed(d, x))
    BY DEF Managed, Entry
  <2>2. \A d \in Conn, x \in Proc :
          /\ (io'[x].pc = "handshake" /\ io'[x].c = d) <=> (io[x].pc = "handshake" /\ io[x].c = d)
          /\ (At(x, "insert")' /\ main'[x].c = d) <=> (At(x, "insert") /\ main[x].c = d)
    BY <1>4 DEF Inserting, Greeting, At, IoAt
  <2> QED BY <2>1, <2>2 DEF Owners, One
<1>10. /\ Owners(c, p)' <= 1
       /\ ~h[c][p].closed_rd => Owners(c, p)' = Owners(c, p)
  <2>1. /\ Managed(c, p)' => Managed(c, p)
        /\ ~h[c][p].closed_rd => (Managed(c, p)' <=> Managed(c, p))
    BY DEF Managed, Entry
  <2>2. /\ (io'[p].pc = "handshake" /\ io'[p].c = c) <=> (io[p].pc = "handshake" /\ io[p].c = c)
        /\ (At(p, "insert")' /\ main'[p].c = c) <=> (At(p, "insert") /\ main[p].c = c)
    BY <1>4 DEF Inserting, Greeting, At, IoAt
  <2>3. Owners(c, p) <= 1 /\ queue[p][c] \in 0..1 /\ queue'[p][c] = queue[p][c]
        /\ user'[p][c] = user[p][c]
    BY <1>1, Parts DEF Single
  <2> QED BY <2>1, <2>2, <2>3 DEF Owners, One
<1>11. Single' /\ OneOwner'
  <2>1. Single'
    BY <1>1, <1>9, <1>10 DEF Single
  <2>2. \A x \in Proc : Running(x)' => Running(x)
    BY DEF Running
  <2>3. \A d \in Conn, x \in Proc : ~h[d][x].closed_rd => Owners(d, x)' = Owners(d, x)
    BY <1>9, <1>10
  <2>4. OneOwner'
    BY <1>1, <2>2, <2>3 DEF OneOwner
  <2> QED BY <2>1, <2>4
<1>12. Finalizing'
  <2>1. FinalizingAt(q)'
    BY <1>1, <1>2, FinalizingKept
  <2> QED BY <1>2, <2>1 DEF Finalizing
<1> QED BY <1>3, <1>5, <1>6, <1>7, <1>8, <1>11, <1>12 DEF Inv

(* notify_close, at the end of a close.                                    *)
LEMMA NotifyCloseKeeps ==
  ASSUME Inv, NEW p \in Proc, NEW c \in Conn, main[p].c = c, NotifyClose(p)
  PROVE  Inv'
<1>1. TypeOK /\ Busy /\ Finalizing
  BY DEF Inv
<1>2. /\ main[p].pc = "notify" /\ io[p].pc # "handshake" /\ Goto(p, "idle")
      /\ UNCHANGED <<h, net, request, queue, user, io, sent>>
  BY DEF NotifyClose, At, LockFree
<1>3. /\ main' \in [Proc -> Thread] /\ main'[p].pc = "idle"
      /\ \A x \in Proc : x # p => main'[x] = main[x]
  BY <1>1, <1>2, GotoSet DEF PC
<1>4. BusyAt(p)'
  BY <1>1, <1>2, <1>3 DEF Busy, BusyAt, At, IoAt
<1>5. io' \in [Proc -> [pc : {"start", "handshake", "poll", "exited"}, c : Conn]]
  BY <1>1, <1>2 DEF TypeOK
<1>6. CASE h[c][p].closed_rd
  <2>1. connections' = [connections EXCEPT ![p][Tag[c]] = NoEntry]
    BY <1>6 DEF NotifyClose, Erases
  <2>2. /\ connections' \in [Proc -> [Tags -> [c : Conn \union {NoConn}, to_manage : BOOLEAN]]]
        /\ Entry(c, p)'.c = NoConn /\ ~Entry(c, p)'.to_manage
        /\ \A d \in Conn, x \in Proc : d # c \/ x # p => Entry(d, x)' = Entry(d, x)
    BY <1>1, <2>1, EraseSet
  <2>3. FinalizingAt(p)'
    BY <1>1, <1>2, <1>3, <2>2, ConnAssumption DEF Finalizing, FinalizingAt, InTable, At
  <2> QED BY <1>2, <1>3, <1>4, <1>5, <1>6, <2>2, <2>3, ThreadKeeps
<1>7. CASE ~h[c][p].closed_rd
  <2>1. connections' = connections
    BY <1>7 DEF NotifyClose, Erases
  <2>2. /\ connections' \in [Proc -> [Tags -> [c : Conn \union {NoConn}, to_manage : BOOLEAN]]]
        /\ \A d \in Conn, x \in Proc : Entry(d, x)' = Entry(d, x)
    BY <1>1, <2>1 DEF TypeOK, Entry
  <2>3. FinalizingAt(p)'
    BY <1>1, <1>2, <1>3, <1>7, <2>2 DEF Finalizing, FinalizingAt, InTable, At
  <2> QED BY <1>2, <1>3, <1>4, <1>5, <2>2, <2>3, ThreadKeeps
<1> QED BY <1>6, <1>7

(* Manager::finalize.                                                      *)
LEMMA FinalizeKeeps ==
  ASSUME Inv, NEW p \in Proc, Finalize(p)
  PROVE  Inv'
<1>1. TypeOK /\ Busy /\ Finalizing /\ main[p].c \in Conn
  BY Parts DEF Inv
<1>2. /\ main[p].pc = "idle" /\ Goto(p, "join")
      /\ UNCHANGED <<h, connections, net, request, queue, user, io, sent>>
  BY DEF Finalize, Idle, At
<1>3. /\ main' \in [Proc -> Thread] /\ main'[p].pc = "join"
      /\ \A x \in Proc : x # p => main'[x] = main[x]
  BY <1>1, <1>2, GotoSet DEF PC
<1>4. BusyAt(p)'
  <2>1. io[p].c \in Conn
    BY <1>1, Parts
  <2> QED BY <1>1, <1>2, <1>3, <2>1 DEF Busy, BusyAt, At, IoAt
<1>5. /\ io' \in [Proc -> [pc : {"start", "handshake", "poll", "exited"}, c : Conn]]
      /\ connections' \in [Proc -> [Tags -> [c : Conn \union {NoConn}, to_manage : BOOLEAN]]]
      /\ \A d \in Conn, x \in Proc : Entry(d, x)' = Entry(d, x)
  BY <1>1, <1>2 DEF TypeOK, Entry
<1>6. FinalizingAt(p)'
  BY <1>1, <1>2, <1>3, <1>5 DEF Finalizing, FinalizingAt, InTable, At
<1>7. PICK c \in Conn : TRUE
  BY <1>1
<1> QED BY <1>2, <1>3, <1>4, <1>5, <1>6, ThreadKeeps

(* finalize after the IO thread has ended: ConnMPI::end has all the table  *)
(* to close.                                                               *)
LEMMA JoinKeeps ==
  ASSUME Inv, NEW p \in Proc, Join(p)
  PROVE  Inv'
<1>1. TypeOK /\ Table /\ Busy /\ Finalizing /\ main[p].c \in Conn
  BY Parts DEF Inv
<1>2. /\ main[p].pc = "join" /\ io[p].pc = "exited"
      /\ main' = [main EXCEPT ![p].pc = "end", ![p].todo = Entered(p)]
      /\ UNCHANGED <<h, connections, net, request, queue, user, io, sent>>
  BY DEF Join, At
<1>3. Entered(p) = InTable(p) /\ InTable(p) \subseteq Conn
  BY <1>1, EnteredIs DEF InTable
<1> DEFINE r == [main[p] EXCEPT !.pc = "end", !.todo = InTable(p)]
<1>4. main[p] \in Thread
  BY <1>1 DEF TypeOK, Thread, PC
<1>5. r \in Thread /\ r.pc = "end" /\ r.todo = InTable(p)
  BY <1>3, <1>4 DEF Thread, PC
<1>6. main' = [main EXCEPT ![p] = r]
  BY <1>1, <1>2, <1>3, <1>4 DEF Thread, TypeOK
<1> HIDE DEF r
<1>7. /\ main' \in [Proc -> Thread] /\ main'[p].pc = "end" /\ main'[p].todo = InTable(p)
      /\ \A x \in Proc : x # p => main'[x] = main[x]
  BY <1>1, <1>5, <1>6, MainSet
<1>8. BusyAt(p)'
  BY <1>2, <1>7 DEF BusyAt, At, IoAt
<1>9. /\ io' \in [Proc -> [pc : {"start", "handshake", "poll", "exited"}, c : Conn]]
      /\ connections' \in [Proc -> [Tags -> [c : Conn \union {NoConn}, to_manage : BOOLEAN]]]
      /\ \A d \in Conn, x \in Proc : Entry(d, x)' = Entry(d, x)
  BY <1>1, <1>2 DEF TypeOK, Entry
<1>10. FinalizingAt(p)'
  BY <1>1, <1>2, <1>7, <1>9 DEF Finalizing, FinalizingAt, InTable, At
<1> QED BY <1>1, <1>2, <1>7, <1>8, <1>9, <1>10, ThreadKeeps, SMTT(30)

(* The end of ConnMPI::end.                                                *)
LEMMA EndDoneKeeps ==
  ASSUME Inv, NEW p \in Proc, EndDone(p)
  PROVE  Inv'
<1>1. TypeOK /\ Busy /\ Finalizing /\ main[p].c \in Conn
  BY Parts DEF Inv
<1>2. /\ main[p].pc = "end" /\ main[p].todo = {} /\ Goto(p, "done")
      /\ UNCHANGED <<h, connections, net, request, queue, user, io, sent>>
  BY DEF EndDone, At
<1>3. /\ main' \in [Proc -> Thread] /\ main'[p].pc = "done"
      /\ \A x \in Proc : x # p => main'[x] = main[x]
  BY <1>1, <1>2, GotoSet DEF PC
<1>4. BusyAt(p)'
  BY <1>1, <1>2, <1>3 DEF Busy, BusyAt, At, IoAt
<1>5. /\ io' \in [Proc -> [pc : {"start", "handshake", "poll", "exited"}, c : Conn]]
      /\ connections' \in [Proc -> [Tags -> [c : Conn \union {NoConn}, to_manage : BOOLEAN]]]
      /\ \A d \in Conn, x \in Proc : Entry(d, x)' = Entry(d, x)
  BY <1>1, <1>2 DEF TypeOK, Entry
<1>6. FinalizingAt(p)'
  <2>1. InTable(p)' = InTable(p)
    BY <1>5 DEF InTable
  <2>2. InTable(p) = {}
    BY <1>1, <1>2 DEF Finalizing, FinalizingAt, At
  <2> QED BY <1>3, <2>1, <2>2 DEF FinalizingAt, At
<1> QED BY <1>1, <1>2, <1>3, <1>4, <1>5, <1>6, ThreadKeeps

(* The IO thread ends.                                                     *)
LEMMA IoExitKeeps ==
  ASSUME Inv, NEW p \in Proc, IoExit(p)
  PROVE  Inv'
<1>1. TypeOK /\ Busy /\ Finalizing /\ main[p].c \in Conn
  BY Parts DEF Inv
<1>2. /\ io[p].pc = "start" /\ main[p].pc = "join" /\ IoGoto(p, "exited")
      /\ UNCHANGED <<h, connections, net, request, queue, user, main, sent>>
  BY DEF IoExit, IoAt, At
<1>3. /\ io' \in [Proc -> [pc : {"start", "handshake", "poll", "exited"}, c : Conn]]
      /\ io'[p].pc = "exited" /\ io'[p].c = io[p].c
      /\ \A x \in Proc : x # p => io'[x] = io[x]
  BY <1>1, <1>2, IoGotoSet
<1>4. BusyAt(p)'
  BY <1>1, <1>2, <1>3 DEF Busy, BusyAt, At, IoAt
<1>5. /\ main' \in [Proc -> Thread]
      /\ connections' \in [Proc -> [Tags -> [c : Conn \union {NoConn}, to_manage : BOOLEAN]]]
      /\ \A d \in Conn, x \in Proc : Entry(d, x)' = Entry(d, x)
  BY <1>1, <1>2 DEF TypeOK, Entry, Thread, PC
<1>6. FinalizingAt(p)'
  BY <1>1, <1>2, <1>5 DEF Finalizing, FinalizingAt, InTable, At
<1> QED BY <1>1, <1>2, <1>3, <1>4, <1>5, <1>6, ThreadKeeps

(* A write side is closed: EOS is on its way, or was before, and the       *)
(* program's thread goes on with the connection.                           *)
LEMMA CloseWriteKeeps ==
  ASSUME Inv, NEW p \in Proc, NEW c \in Conn, h[c][p].made,
         h' = [h EXCEPT ![c][p] = [h[c][p] EXCEPT !.closed_wr = TRUE]],
         IF EOSDue(c, p) THEN MPI_Send(c, p, <<"eos">>) ELSE UNCHANGED net,
         UNCHANGED <<connections, request, queue, user, io, sent>>,
         main' \in [Proc -> Thread], \A x \in Proc : x # p => main'[x] = main[x],
         main[p].pc # "insert", main'[p].pc # "insert",
         main'[p].pc = "notify" => main'[p].c = c,
         main'[p].pc \in {"end", "drain", "done"} <=> main[p].pc \in {"end", "drain", "done"},
         main'[p].pc = "join" <=> main[p].pc = "join",
         h'[c][p].closed_wr => FinalizingAt(p)'
  PROVE  Inv'
<1> DEFINE q == Other(p)
           r == [h[c][p] EXCEPT !.closed_wr = TRUE]
<1>1. TypeOK /\ Lanes /\ Table /\ Fresh /\ Busy /\ Requests /\ Single /\ OneOwner
      /\ Framed /\ Greeted /\ Finalizing
  BY DEF Inv
<1>2. /\ q \in Proc /\ q # p /\ Other(q) = p /\ \A x \in Proc : x = p \/ x = q
  BY TwoProcs
<1>P. \A x \in Proc : main[x].c \in Conn /\ io[x].c \in Conn
  BY <1>1, Parts
<1>3. /\ r \in HandleMPI /\ (r.made <=> h[c][p].made) /\ r.closed_wr
      /\ r.probed = h[c][p].probed /\ (r.closed_rd <=> h[c][p].closed_rd)
      /\ (r.crossed <=> h[c][p].crossed)
  <2>1. h[c][p] \in HandleMPI
    BY <1>1, Parts
  <2> QED BY <2>1 DEF HandleMPI
<1> HIDE DEF r
<1>4. /\ h' \in [Conn -> [Proc -> HandleMPI]] /\ h'[c][p] = r
      /\ \A d \in Conn, x \in Proc : d # c \/ x # p => h'[d][x] = h[d][x]
  BY <1>1, <1>3 DEF TypeOK, r
<1>5. \A d \in Conn, x \in Proc :
         /\ (h'[d][x].made <=> h[d][x].made) /\ h'[d][x].probed = h[d][x].probed
         /\ (h'[d][x].closed_rd <=> h[d][x].closed_rd)
         /\ (h'[d][x].crossed <=> h[d][x].crossed)
  BY <1>3, <1>4
<1>6. \A d \in Conn, x \in Proc :
         /\ (Inserting(d, x)' <=> Inserting(d, x)) /\ (Greeting(d, x)' <=> Greeting(d, x))
         /\ (Asked(d, x)' <=> Asked(d, x)) /\ Entry(d, x)' = Entry(d, x)
  BY <1>2 DEF Inserting, Greeting, Asked, Entry, At, IoAt
<1>l. Lane(c, q) \in Seq({c} \X Frame) /\ Len(Lane(c, q)) \in Nat
  BY <1>1, <1>2, LenProperties DEF Lanes
<1>7. /\ net' \in [Proc -> [Tags -> Seq(Conn \X Frame)]]
      /\ Lane(c, q)' \in Seq({c} \X Frame) /\ Len(Lane(c, q)') >= Len(Lane(c, q))
      /\ \A d \in Conn, x \in Proc : d # c \/ x # q => Lane(d, x)' = Lane(d, x)
      /\ FramedAt(c, q)'
  <2>1. CASE h[c][p].closed_wr
    <3>1. net' = net
      BY <2>1 DEF EOSDue
    <3>2. \A d \in Conn, x \in Proc : Lane(d, x)' = Lane(d, x)
      BY <3>1 DEF Lane
    <3>3. FramedAt(c, q)'
      <4>1. Lane(c, q)' = Lane(c, q) /\ h'[c][q] = h[c][q]
        BY <1>2, <1>4, <3>2
      <4>2. h'[c][Other(q)].closed_wr <=> h[c][Other(q)].closed_wr
        BY <1>2, <1>3, <1>4, <2>1
      <4> QED BY <1>1, <1>2, <4>1, <4>2, FramedKept
    <3>4. Lane(c, q)' \in Seq({c} \X Frame) /\ Len(Lane(c, q)') >= Len(Lane(c, q))
      <4>1. Lane(c, q)' = Lane(c, q)
        BY <1>2, <3>2
      <4> QED BY <1>l, <4>1
    <3>5. net' \in [Proc -> [Tags -> Seq(Conn \X Frame)]]
      BY <1>1, <3>1 DEF TypeOK
    <3> QED BY <3>2, <3>3, <3>4, <3>5
  <2>2. CASE ~h[c][p].closed_wr
    <3>1. MPI_Send(c, p, <<"eos">>)
      BY <2>2 DEF EOSDue
    <3>2. /\ net' \in [Proc -> [Tags -> Seq(Conn \X Frame)]]
          /\ Lane(c, q)' \in Seq({c} \X Frame) /\ Len(Lane(c, q)') = Len(Lane(c, q)) + 1
          /\ WellFramed(Lane(c, q)', 1, Probed(c, q)) /\ ~h[c][q].closed_rd
          /\ \A d \in Conn, x \in Proc : d # c \/ x # q => Lane(d, x)' = Lane(d, x)
      BY <1>1, <2>2, <3>1, EOSSent
    <3>3. EOSComes(c, q)' = 1 /\ Probed(c, q)' = Probed(c, q)
      BY <1>2, <1>3, <1>4, <3>2 DEF EOSComes, Probed, One
    <3>4. h[c][q].probed \in {"none", "hdr"}
      BY <1>1, <1>2, <3>2 DEF Framed, FramedAt
    <3>5. FramedAt(c, q)'
      BY <1>2, <1>5, <3>2, <3>3, <3>4 DEF FramedAt
    <3> QED BY <1>l, <3>2, <3>5
  <2> QED BY <2>1, <2>2
<1>8. TypeOK'
  BY <1>1, <1>4, <1>7 DEF TypeOK, Thread, PC
<1>9. Lanes'
  <2>1. \A d \in Conn, x \in Proc : Lane(d, x)' \in Seq({d} \X Frame)
    BY <1>1, <1>7, ZenonT(60) DEF Lanes
  <2>2. \A d \in Conn, x \in Proc : ~h'[d][x].crossed
    BY <1>1, <1>5 DEF Lanes
  <2> QED BY <2>1, <2>2 DEF Lanes
<1>10. Table'
  BY <1>1, <1>5, <1>6 DEF Table
<1>11. Fresh'
  <2>1. FreshAt(c, p)'
    BY <1>5 DEF FreshAt
  <2>2. ASSUME NEW d \in Conn, NEW x \in Proc, d # c \/ x # p PROVE FreshAt(d, x)'
    BY <1>1, <1>4, <1>6, <2>2 DEF Fresh, FreshAt
  <2> QED BY <2>1, <2>2 DEF Fresh
<1>12. Busy'
  <2>1. BusyAt(p)'
    BY <1>1, <1>5, <1>P DEF Busy, BusyAt, At, IoAt
  <2>2. BusyAt(q)'
    BY <1>1, <1>2, <1>4, <1>6, BusyKept
  <2> QED BY <1>2, <2>1, <2>2 DEF Busy
<1>13. Requests'
  BY <1>1, <1>2, <1>5, <1>6 DEF Requests
<1>14. \A d \in Conn, x \in Proc : Owners(d, x)' = Owners(d, x)
  <2>1. \A d \in Conn, x \in Proc : (At(x, "insert")' /\ main'[x].c = d) <=> Inserting(d, x)
    BY <1>6 DEF Inserting, At
  <2> QED BY <2>1 DEF Owners, Managed, Inserting, One
<1>15. Single' /\ OneOwner'
  BY <1>1, <1>5, <1>14 DEF Single, OneOwner, Running
<1>16. Framed'
  <2>1. ASSUME NEW d \in Conn, NEW x \in Proc, d # c \/ x # q PROVE FramedAt(d, x)'
    <3>1. Lane(d, x)' = Lane(d, x) /\ Other(x) \in Proc
      BY <1>7, <2>1, TwoProcs
    <3>2. d # c \/ Other(x) # p
      BY <1>2, <2>1
    <3>3. h'[d][Other(x)].closed_wr <=> h[d][Other(x)].closed_wr
      BY <1>4, <3>1, <3>2
    <3> QED BY <1>1, <1>5, <3>1, <3>3, FramedKept
  <2> QED BY <1>7, <2>1 DEF Framed
<1>17. Greeted'
  <2> SUFFICES ASSUME NEW d \in Conn, NEW x \in Proc, Greeting(d, x)' \/ Asked(d, x)'
               PROVE  Inserting(d, Other(x))' \/ Len(Lane(d, x))' >= 2
    BY DEF Greeted
  <2>1. Inserting(d, Other(x)) \/ Len(Lane(d, x)) >= 2
    BY <1>1, <1>6 DEF Greeted
  <2>2. Inserting(d, Other(x))' <=> Inserting(d, Other(x))
    BY <1>6, TwoProcs
  <2>3. CASE d = c /\ x = q
    <3>1. Len(Lane(c, q)') \in Nat
      BY <1>7, LenProperties
    <3> QED BY <1>7, <1>l, <2>1, <2>2, <2>3, <3>1
  <2>4. CASE d # c \/ x # q
    BY <1>7, <2>1, <2>2, <2>4
  <2> QED BY <2>3, <2>4
<1>18. Finalizing'
  <2>1. FinalizingAt(p)'
    BY <1>3, <1>4
  <2>2. FinalizingAt(q)'
    BY <1>1, <1>2, <1>4, <1>6, FinalizingKept
  <2> QED BY <1>2, <2>1, <2>2 DEF Finalizing
<1> QED BY <1>8, <1>9, <1>10, <1>11, <1>12, <1>13, <1>15, <1>16, <1>17, <1>18 DEF Inv

(* Handle::close of the write side.                                        *)
LEMMA CloseKeeps ==
  ASSUME Inv, NEW p \in Proc, NEW c \in Conn, Close(p, c)
  PROVE  Inv'
<1>1. TypeOK /\ Fresh /\ Busy /\ Finalizing
  BY DEF Inv
<1>2. /\ main[p].pc = "idle" /\ user[p][c] # "none" /\ ~h[c][p].closed_wr
      /\ MPI_Send(c, p, <<"eos">>) /\ Call(p, "notify", c)
      /\ UNCHANGED <<connections, request, queue, user, io, sent>>
  BY DEF Close, Idle, At
<1>3. h[c][p].made
  BY <1>1, <1>2 DEF Fresh, FreshAt
<1>4. h' = [h EXCEPT ![c][p] = [h[c][p] EXCEPT !.closed_wr = TRUE]]
  BY <1>1 DEF Close, TypeOK
<1>5. /\ main' \in [Proc -> Thread] /\ main'[p].pc = "notify" /\ main'[p].c = c
      /\ \A x \in Proc : x # p => main'[x] = main[x]
  BY <1>1, <1>2, CallSet DEF PC
<1>6. FinalizingAt(p)'
  <2>1. h[c][p] \in HandleMPI /\ InTable(p)' = InTable(p) /\ InTable(p) \subseteq Conn
    BY <1>1, <1>2, Parts DEF InTable, Entry
  <2>2. \A d \in Conn : h'[d][p].closed_rd <=> h[d][p].closed_rd
    BY <1>1, <1>4, <2>1 DEF TypeOK, HandleMPI
  <2>3. \A d \in InTable(p) : ~h[d][p].closed_rd
    BY <1>1, <1>2 DEF Finalizing, FinalizingAt, At
  <2> QED BY <1>5, <2>1, <2>2, <2>3 DEF FinalizingAt, At
<1>7. IF EOSDue(c, p) THEN MPI_Send(c, p, <<"eos">>) ELSE UNCHANGED net
  BY <1>2 DEF EOSDue
<1> QED BY <1>2, <1>3, <1>4, <1>5, <1>6, <1>7, CloseWriteKeeps

(* One turn of ConnMPI::end: the next connection, in the order of tags.    *)
LEMMA EndNextKeeps ==
  ASSUME Inv, NEW p \in Proc, EndNext(p)
  PROVE  Inv'
<1>1. TypeOK /\ Fresh /\ Busy /\ Finalizing
  BY DEF Inv
<1>2. PICK c \in FirstToClose(p) :
        /\ main[p].pc = "end"
        /\ h' = [h EXCEPT ![c][p].closed_wr = TRUE]
        /\ IF EOSDue(c, p) THEN MPI_Send(c, p, <<"eos">>) ELSE UNCHANGED net
        /\ main' = [main EXCEPT ![p].pc = "drain", ![p].c = c, ![p].todo = @ \ {c}]
        /\ UNCHANGED <<connections, request, queue, user, io, sent>>
  BY DEF EndNext, At
<1>3. main[p].todo = InTable(p) /\ InTable(p) \subseteq Conn
  BY <1>1, <1>2 DEF Finalizing, FinalizingAt, At, InTable
<1>4. c \in Conn /\ c \in InTable(p) /\ \A d \in InTable(p) : Tag[c] <= Tag[d]
  BY <1>3 DEF FirstToClose
<1>5. h[c][p].made
  BY <1>1, <1>4, ConnAssumption DEF Fresh, FreshAt, InTable
<1>6. h' = [h EXCEPT ![c][p] = [h[c][p] EXCEPT !.closed_wr = TRUE]]
  BY <1>1, <1>2 DEF TypeOK
<1> DEFINE r == [main[p] EXCEPT !.pc = "drain", !.c = c, !.todo = InTable(p) \ {c}]
<1>7. main[p] \in Thread
  BY <1>1 DEF TypeOK, Thread, PC
<1>8. r \in Thread /\ r.pc = "drain" /\ r.c = c /\ r.todo = InTable(p) \ {c}
  BY <1>3, <1>4, <1>7 DEF Thread, PC
<1>9. main' = [main EXCEPT ![p] = r]
  BY <1>1, <1>2, <1>3, <1>7 DEF Thread, TypeOK
<1> HIDE DEF r
<1>10. /\ main' \in [Proc -> Thread] /\ main'[p] = r
       /\ \A x \in Proc : x # p => main'[x] = main[x]
  BY <1>1, <1>8, <1>9, MainSet
<1>11. ASSUME h'[c][p].closed_wr PROVE FinalizingAt(p)'
  <2>1. h[c][p] \in HandleMPI /\ InTable(p)' = InTable(p)
    BY <1>1, <1>2, <1>4, Parts DEF InTable, Entry
  <2>2. \A d \in Conn : h'[d][p].closed_rd <=> h[d][p].closed_rd
    BY <1>1, <1>4, <1>6, <2>1 DEF TypeOK, HandleMPI
  <2>3. \A d \in InTable(p) : ~h[d][p].closed_rd
    BY <1>1, <1>2 DEF Finalizing, FinalizingAt, At
  <2>4. \A d \in InTable(p) \ {c} : Tag[c] < Tag[d]
    BY <1>3, <1>4, TagAssumption
  <2> QED BY <1>3, <1>4, <1>8, <1>10, <1>11, <2>1, <2>2, <2>3, <2>4 DEF FinalizingAt, At
<1>12. main[p].pc = "end" /\ main'[p].pc = "drain" /\ main'[p].c = c
  BY <1>2, <1>8, <1>10
<1>13. /\ IF EOSDue(c, p) THEN MPI_Send(c, p, <<"eos">>) ELSE UNCHANGED net
       /\ UNCHANGED <<connections, request, queue, user, io, sent>>
  BY <1>2
<1> QED BY <1>4, <1>5, <1>6, <1>10, <1>11, <1>12, <1>13, CloseWriteKeeps

(* HandleUser::yield: the table polls the connection.                      *)
LEMMA YieldKeeps ==
  ASSUME Inv, NEW p \in Proc, NEW c \in Conn, Yield(p, c)
  PROVE  Inv'
<1> DEFINE q == Other(p)
<1>1. TypeOK /\ Lanes /\ Table /\ Fresh /\ Busy /\ Requests /\ Single /\ OneOwner
      /\ Framed /\ Greeted /\ Finalizing
  BY DEF Inv
<1>2. /\ q \in Proc /\ q # p /\ Other(q) = p /\ \A x \in Proc : x = p \/ x = q
  BY TwoProcs
<1>3. /\ user[p][c] = "held" /\ ~h[c][p].closed_rd /\ main[p].pc = "idle"
      /\ user' = [user EXCEPT ![p][c] = "given"]
      /\ UNCHANGED <<h, net, request, queue, main, io, sent>>
  BY DEF Yield, MayRead, Idle, At
<1>4. h[c][p].made /\ ~Greeting(c, p) /\ ~Inserting(c, p) /\ queue[p][c] = 0 /\ ~Managed(c, p)
  BY <1>1, <1>3, Exclusive DEF Fresh, FreshAt
<1>5. Entry(c, p).c = c /\ ~Entry(c, p).to_manage
  BY <1>1, <1>3, <1>4 DEF Table, Managed, Entry
<1>6. /\ connections' \in [Proc -> [Tags -> [c : Conn \union {NoConn}, to_manage : BOOLEAN]]]
      /\ Entry(c, p)'.c = c /\ Entry(c, p)'.to_manage
      /\ \A d \in Conn, x \in Proc : d # c \/ x # p => Entry(d, x)' = Entry(d, x)
  <2>1. Entry(c, p) \in [c : Conn \union {NoConn}, to_manage : BOOLEAN]
    BY <1>1, Parts
  <2>2. PICK r : r = [Entry(c, p) EXCEPT !.to_manage = TRUE]
    OBVIOUS
  <2>3. r \in [c : Conn \union {NoConn}, to_manage : BOOLEAN] /\ r.c = c /\ r.to_manage
    BY <1>5, <2>1, <2>2
  <2>4. connections[p][Tag[c]] # NoEntry
    BY <1>5, ConnAssumption DEF NoEntry, Entry
  <2>5. connections' = [connections EXCEPT ![p][Tag[c]].to_manage = TRUE]
    BY <2>4 DEF Yield
  <2>6. connections' = [connections EXCEPT ![p][Tag[c]] = r]
    BY <2>2, <2>5 DEF Entry
  <2>7. Entry(c, p)' = r
        /\ connections' \in [Proc -> [Tags -> [c : Conn \union {NoConn}, to_manage : BOOLEAN]]]
        /\ \A d \in Conn, x \in Proc : d # c \/ x # p => Entry(d, x)' = Entry(d, x)
    BY <1>1, <2>3, <2>6, EntrySet
  <2> QED BY <2>3, <2>7
<1>7. /\ user' \in [Proc -> [Conn -> {"none", "held", "given"}]] /\ user'[p][c] = "given"
      /\ \A d \in Conn, x \in Proc : d # c \/ x # p => user'[x][d] = user[x][d]
  BY <1>1, <1>3 DEF TypeOK
<1>8. TypeOK'
  BY <1>1, <1>3, <1>6, <1>7 DEF TypeOK
<1>9. \A d \in Conn, x \in Proc :
         /\ (Inserting(d, x)' <=> Inserting(d, x)) /\ (Greeting(d, x)' <=> Greeting(d, x))
         /\ (Asked(d, x)' <=> Asked(d, x)) /\ Lane(d, x)' = Lane(d, x)
         /\ Entry(d, x)'.c = Entry(d, x).c
  BY <1>3, <1>5, <1>6 DEF Inserting, Greeting, Asked, Lane, At, IoAt
<1>10. Lanes' /\ Requests' /\ Framed' /\ Greeted'
  <2>1. Lanes' /\ Framed'
    BY <1>1, <1>3 DEF Lanes, Framed, FramedAt, Lane, EOSComes, Probed
  <2>2. Requests'
    BY <1>1, <1>3 DEF Requests, Asked
  <2>3. Greeted'
    BY <1>1, <1>2, <1>9 DEF Greeted
  <2> QED BY <2>1, <2>2, <2>3
<1>11. Table'
  BY <1>1, <1>3, <1>5, <1>6, <1>9, ConnAssumption DEF Table
<1>12. Fresh'
  <2>1. FreshAt(c, p)'
    BY <1>3, <1>4 DEF FreshAt
  <2>2. ASSUME NEW d \in Conn, NEW x \in Proc, d # c \/ x # p PROVE FreshAt(d, x)'
    BY <1>1, <1>3, <1>7, <1>9, <2>2 DEF Fresh, FreshAt
  <2> QED BY <2>1, <2>2 DEF Fresh
<1>13. Busy'
  <2>1. \A x \in Proc : main[x].c \in Conn
    BY <1>1, Parts
  <2> QED BY <1>1, <1>3, <1>9, <2>1 DEF Busy, BusyAt, At, IoAt
<1>14. \A d \in Conn, x \in Proc : d # c \/ x # p => Owners(d, x)' = Owners(d, x)
  BY <1>3, <1>6, <1>7 DEF Owners, Managed, Entry, At
<1>15. Owners(c, p)' = 1
  <2>1. /\ Managed(c, p)' /\ user'[p][c] # "held" /\ queue'[p][c] = 0
        /\ ~(io'[p].pc = "handshake" /\ io'[p].c = c) /\ ~At(p, "insert")'
    BY <1>3, <1>4, <1>6, <1>7 DEF Managed, Entry, Greeting, IoAt, At
  <2> QED BY <2>1 DEF Owners, One
<1>16. Single' /\ OneOwner'
  BY <1>1, <1>3, <1>14, <1>15 DEF Single, OneOwner, Running
<1>17. Finalizing'
  <2>1. \A x \in Proc : InTable(x)' = InTable(x)
    BY <1>9 DEF InTable
  <2> QED BY <1>1, <1>3, <2>1 DEF Finalizing, FinalizingAt, At
<1> QED BY <1>8, <1>10, <1>11, <1>12, <1>13, <1>16, <1>17 DEF Inv

(* ConnMPI::update takes a request and enters the new handle.              *)
LEMMA AcceptKeeps ==
  ASSUME Inv, NEW p \in Proc, NEW c \in Conn, request[p] # <<>>, Head(request[p]) = c,
         Accept(p)
  PROVE  Inv'
<1> DEFINE q == Other(p)
           r == [h[c][p] EXCEPT !.made = TRUE]
<1>1. TypeOK /\ Lanes /\ Table /\ Fresh /\ Busy /\ Requests /\ Single /\ OneOwner
      /\ Framed /\ Greeted /\ Finalizing
  BY DEF Inv
<1>2. /\ q \in Proc /\ q # p /\ Other(q) = p /\ \A x \in Proc : x = p \/ x = q
  BY TwoProcs
<1>P. \A x \in Proc : main[x].c \in Conn /\ io[x].c \in Conn
  BY <1>1, Parts
<1>3. /\ io[p].pc = "start" /\ main[p].pc # "join" /\ Insert(c, p)
      /\ request' = [request EXCEPT ![p] = Tail(@)]
      /\ io' = [io EXCEPT ![p].pc = "handshake", ![p].c = c]
      /\ UNCHANGED <<net, queue, user, main, sent>>
  BY DEF Accept, IoAt, At
<1>a. /\ request[p] \in Seq(Conn) /\ Len(request[p]) \in Nat /\ Len(request[p]) >= 1
      /\ DOMAIN request[p] = 1..Len(request[p]) /\ request[p][1] = c
      /\ request' \in [Proc -> Seq(Conn)] /\ DOMAIN request'[p] = 1..(Len(request[p]) - 1)
      /\ \A i \in 1..(Len(request[p]) - 1) : request'[p][i] = request[p][i + 1]
      /\ request'[q] = request[q]
  <2>1. request[p] \in Seq(Conn) /\ Len(request[p]) \in Nat /\ Len(request[p]) >= 1
    BY <1>1, EmptySeq, LenProperties DEF TypeOK
  <2>2. request'[p] = Tail(request[p]) /\ request'[q] = request[q]
    BY <1>1, <1>2, <1>3 DEF TypeOK
  <2>3. /\ Tail(request[p]) \in Seq(Conn)
        /\ Len(Tail(request[p])) = Len(request[p]) - 1
        /\ \A i \in 1..(Len(request[p]) - 1) : Tail(request[p])[i] = request[p][i + 1]
    BY <2>1, HeadTailProperties
  <2>4. request' \in [Proc -> Seq(Conn)]
    BY <1>1, <1>3, <2>3 DEF TypeOK
  <2>5. DOMAIN request'[p] = 1..(Len(request[p]) - 1)
    BY <2>2, <2>3, LenProperties
  <2> QED BY <2>1, <2>2, <2>3, <2>4, <2>5, LenProperties
<1>b. Asked(c, p)
  BY <1>a, SMTT(30) DEF Asked
<1>4. /\ ~h[c][p].made /\ h[c][q].made /\ Caller[c] = q
  BY <1>1, <1>b DEF Requests
<1>5. /\ h[c][p] = NewHandle /\ Entry(c, p).c = NoConn
      /\ user[p][c] = "none" /\ queue[p][c] = 0 /\ ~Greeting(c, p) /\ ~Inserting(c, p)
  BY <1>1, <1>4 DEF Fresh, FreshAt
<1>6. /\ r \in HandleMPI /\ r.made /\ ~r.crossed /\ ~r.closed_rd /\ ~r.closed_wr
      /\ r.probed = "none"
  <2>1. h[c][p] \in HandleMPI
    BY <1>1, Parts
  <2>2. /\ r \in HandleMPI /\ r.made /\ (r.crossed <=> h[c][p].crossed)
        /\ (r.closed_rd <=> h[c][p].closed_rd) /\ (r.closed_wr <=> h[c][p].closed_wr)
        /\ r.probed = h[c][p].probed
    BY <2>1 DEF HandleMPI
  <2>3. /\ ~h[c][p].crossed /\ ~h[c][p].closed_rd /\ ~h[c][p].closed_wr
        /\ h[c][p].probed = "none"
    BY <1>5 DEF NewHandle
  <2> QED BY <2>2, <2>3
<1>7. h' = [h EXCEPT ![c][p] = r]
  BY <1>1 DEF Accept
<1> HIDE DEF r
<1>8. /\ h' \in [Conn -> [Proc -> HandleMPI]] /\ h'[c][p] = r
      /\ \A d \in Conn, x \in Proc : d # c \/ x # p => h'[d][x] = h[d][x]
  BY <1>1, <1>6, <1>7 DEF TypeOK
<1>9. \A d \in Conn, x \in Proc :
         /\ (h'[d][x].closed_wr <=> h[d][x].closed_wr) /\ h'[d][x].probed = h[d][x].probed
         /\ (h'[d][x].closed_rd <=> h[d][x].closed_rd) /\ ~h'[d][x].crossed
  <2>1. \A d \in Conn, x \in Proc : ~h[d][x].crossed
    BY <1>1 DEF Lanes
  <2> QED BY <1>5, <1>6, <1>8, <2>1 DEF NewHandle
<1>10. /\ connections' \in [Proc -> [Tags -> [c : Conn \union {NoConn}, to_manage : BOOLEAN]]]
       /\ Entry(c, p)'.c = c /\ ~Entry(c, p)'.to_manage
       /\ \A d \in Conn, x \in Proc : d # c \/ x # p => Entry(d, x)' = Entry(d, x)
  BY <1>1, <1>3, <1>5, InsertSet
<1>11. /\ io' \in [Proc -> [pc : {"start", "handshake", "poll", "exited"}, c : Conn]]
       /\ io'[p].pc = "handshake" /\ io'[p].c = c
       /\ \A x \in Proc : x # p => io'[x] = io[x]
  BY <1>1, <1>3 DEF TypeOK
<1>12. TypeOK'
  BY <1>1, <1>3, <1>8, <1>10, <1>11, <1>a DEF TypeOK
<1>13. \A d \in Conn, x \in Proc :
         /\ (Inserting(d, x)' <=> Inserting(d, x)) /\ Lane(d, x)' = Lane(d, x)
         /\ (d # c \/ x # p => (Greeting(d, x)' => Greeting(d, x)))
  BY <1>3, <1>11 DEF Inserting, Greeting, Lane, At, IoAt
<1>14. /\ \A d \in Conn, x \in Proc : Asked(d, x)' => Asked(d, x)
       /\ ~Asked(c, p)'
  <2>1. \A d \in Conn : Asked(d, p)' => Asked(d, p) /\ d # c
    <3> SUFFICES ASSUME NEW d \in Conn, NEW i \in DOMAIN request'[p], request'[p][i] = d
                 PROVE  Asked(d, p) /\ d # c
      BY DEF Asked
    <3>1. i + 1 \in DOMAIN request[p] /\ request[p][i + 1] = d /\ 1 \in DOMAIN request[p]
          /\ i + 1 # 1
      BY <1>a
    <3> QED BY <1>1, <1>a, <3>1 DEF Asked, Requests
  <2>2. \A d \in Conn : Asked(d, q)' => Asked(d, q)
    BY <1>a DEF Asked
  <2> QED BY <1>2, <2>1, <2>2
<1>15. Lanes'
  <2>1. \A d \in Conn, x \in Proc : Lane(d, x)' \in Seq({d} \X Frame)
    BY <1>1, <1>13 DEF Lanes
  <2> QED BY <1>9, <2>1 DEF Lanes
<1>16. Table'
  <2> SUFFICES ASSUME NEW d \in Conn, NEW x \in Proc
               PROVE  (/\ Entry(d, x).c \in {d, NoConn}
                       /\ Entry(d, x).c = NoConn => ~Entry(d, x).to_manage
                       /\ h[d][x].made /\ ~h[d][x].closed_rd =>
                            Entry(d, x).c = d \/ Inserting(d, x))'
    BY DEF Table
  <2>1. CASE d = c /\ x = p
    BY <1>10, <2>1
  <2>2. CASE d # c \/ x # p
    <3>1. h'[d][x] = h[d][x] /\ Entry(d, x)' = Entry(d, x) /\ (Inserting(d, x)' <=> Inserting(d, x))
      BY <1>8, <1>10, <1>13, <2>2
    <3> QED BY <1>1, <3>1 DEF Table
  <2> QED BY <2>1, <2>2
<1>17. Fresh'
  <2>1. FreshAt(c, p)'
    BY <1>6, <1>8 DEF FreshAt
  <2>2. ASSUME NEW d \in Conn, NEW x \in Proc, d # c \/ x # p PROVE FreshAt(d, x)'
    <3>1. /\ h'[d][x] = h[d][x] /\ Entry(d, x)' = Entry(d, x) /\ user'[x][d] = user[x][d]
          /\ queue'[x][d] = queue[x][d] /\ (Greeting(d, x)' => Greeting(d, x))
          /\ (Inserting(d, x)' => Inserting(d, x))
      BY <1>3, <1>8, <1>10, <1>13, <2>2
    <3>2. FreshAt(d, x)
      BY <1>1 DEF Fresh
    <3> QED BY <3>1, <3>2 DEF FreshAt
  <2> QED BY <2>1, <2>2 DEF Fresh
<1>18. Busy'
  <2>1. BusyAt(p)'
    <3>1. At(p, "insert") => main[p].c # c
      BY <1>5 DEF Inserting
    <3>2. At(p, "notify") => main[p].c # c
      BY <1>1, <1>4 DEF Busy, BusyAt
    <3>3. /\ At(p, "insert") => /\ h[main[p].c][p].made /\ Entry(main[p].c, p).c = NoConn
                                /\ ~h[main[p].c][p].closed_wr /\ ~h[main[p].c][p].closed_rd
                                /\ Caller[main[p].c] = p
          /\ At(p, "notify") => h[main[p].c][p].made
          /\ main[p].pc \notin {"end", "drain", "done"}
      BY <1>1, <1>3 DEF Busy, BusyAt, At, IoAt
    <3> QED BY <1>3, <1>4, <1>6, <1>8, <1>10, <1>11, <1>P, <3>1, <3>2, <3>3 DEF BusyAt, At, IoAt
  <2>2. BusyAt(q)'
    BY <1>1, <1>2, <1>3, <1>8, <1>10, <1>11, BusyKept
  <2> QED BY <1>2, <2>1, <2>2 DEF Busy
<1>19. Requests'
  <2>1. /\ h'[c][p].made
        /\ \A d \in Conn, x \in Proc : d # c \/ x # p => (h'[d][x].made <=> h[d][x].made)
    BY <1>6, <1>8
  <2>2. ASSUME NEW d \in Conn, NEW x \in Proc
        PROVE  /\ Asked(d, x)' => /\ ~h'[d][x].made /\ h'[d][Other(x)].made
                                  /\ Caller[d] = Other(x)
               /\ Caller[d] = x /\ h'[d][Other(x)].made => h'[d][x].made
    <3>1. CASE d # c
      BY <1>1, <1>2, <1>14, <2>1, <3>1 DEF Requests
    <3>2. CASE d = c
      BY <1>1, <1>2, <1>4, <1>14, <2>1, <3>2 DEF Requests
    <3> QED BY <3>1, <3>2
  <2>3. \A i, j \in DOMAIN request'[p] : request'[p][i] = request'[p][j] => i = j
    <3> SUFFICES ASSUME NEW i \in DOMAIN request'[p], NEW j \in DOMAIN request'[p],
                        request'[p][i] = request'[p][j]
                 PROVE  i = j
      OBVIOUS
    <3>a. i \in 1..(Len(request[p]) - 1) /\ j \in 1..(Len(request[p]) - 1)
      BY <1>a
    <3>b. request'[p][i] = request[p][i + 1] /\ request'[p][j] = request[p][j + 1]
      BY <1>a, <3>a
    <3>c. /\ i + 1 \in 1..Len(request[p]) /\ j + 1 \in 1..Len(request[p])
          /\ i \in Nat /\ j \in Nat
      BY <1>a, <3>a
    <3>1. /\ i + 1 \in DOMAIN request[p] /\ j + 1 \in DOMAIN request[p]
          /\ request[p][i + 1] = request[p][j + 1] /\ i \in Nat /\ j \in Nat
      BY <1>a, <3>b, <3>c
    <3>2. i + 1 = j + 1
      BY <1>1, <3>1 DEF Requests
    <3> QED BY <3>1, <3>2
  <2>4. \A i, j \in DOMAIN request'[q] : request'[q][i] = request'[q][j] => i = j
    BY <1>1, <1>2, <1>a DEF Requests
  <2>5. \A x \in Proc :
          \A i, j \in DOMAIN request'[x] : request'[x][i] = request'[x][j] => i = j
    BY <1>2, <2>3, <2>4
  <2> QED BY <2>2, <2>5 DEF Requests
<1>20. \A d \in Conn, x \in Proc : d # c \/ x # p => Owners(d, x)' = Owners(d, x)
  BY <1>3, <1>10, <1>11 DEF Owners, Managed, Entry, At
<1>21. Owners(c, p)' = 1
  <2>1. /\ ~Managed(c, p)' /\ user'[p][c] # "held" /\ queue'[p][c] = 0
        /\ (io'[p].pc = "handshake" /\ io'[p].c = c) /\ ~(At(p, "insert")' /\ main'[p].c = c)
    BY <1>3, <1>5, <1>10, <1>11 DEF Managed, Entry, Inserting, At
  <2> QED BY <2>1 DEF Owners, One
<1>22. Single' /\ OneOwner'
  <2>1. \A x \in Proc : Running(x)' => Running(x)
    BY <1>3, <1>11 DEF Running
  <2>2. Single'
    BY <1>1, <1>20, <1>21 DEF Single
  <2>3. ASSUME NEW d \in Conn, NEW x \in Proc, d # c \/ x # p
        PROVE  (Running(x) /\ h[d][x].made /\ ~h[d][x].closed_rd => Owners(d, x) = 1)'
    BY <1>1, <1>8, <1>20, <2>1, <2>3 DEF OneOwner
  <2> QED BY <1>21, <2>2, <2>3 DEF OneOwner
<1>23. Framed'
  <2>1. ASSUME NEW d \in Conn, NEW x \in Proc PROVE FramedAt(d, x)'
    <3>1. Lane(d, x)' = Lane(d, x) /\ (h'[d][Other(x)].closed_wr <=> h[d][Other(x)].closed_wr)
      BY <1>9, <1>13, TwoProcs
    <3> QED BY <1>1, <1>9, <3>1, FramedKept
  <2> QED BY <2>1 DEF Framed
<1>24. Greeted'
  <2> SUFFICES ASSUME NEW d \in Conn, NEW x \in Proc, Greeting(d, x)' \/ Asked(d, x)'
               PROVE  Inserting(d, Other(x))' \/ Len(Lane(d, x))' >= 2
    BY DEF Greeted
  <2>1. Greeting(d, x) \/ Asked(d, x)
    BY <1>13, <1>14, <1>b
  <2>2. Inserting(d, Other(x)) \/ Len(Lane(d, x)) >= 2
    BY <1>1, <2>1 DEF Greeted
  <2> QED BY <1>13, <2>2, TwoProcs
<1>25. Finalizing'
  <2>1. InTable(p)' = InTable(p) \union {c} /\ main[p].pc \notin {"end", "drain", "done"}
    BY <1>1, <1>3, <1>10 DEF InTable, Busy, BusyAt, IoAt
  <2>2. FinalizingAt(p)'
    BY <1>1, <1>3, <1>6, <1>8, <2>1 DEF Finalizing, FinalizingAt, At, InTable
  <2>3. FinalizingAt(q)'
    BY <1>1, <1>2, <1>3, <1>8, <1>10, FinalizingKept
  <2> QED BY <1>2, <2>2, <2>3 DEF Finalizing
<1> QED BY <1>12, <1>15, <1>16, <1>17, <1>18, <1>19, <1>22, <1>23, <1>24, <1>25 DEF Inv

(* connectionHandshake: the new handle is ready.                           *)
LEMMA HandshakeKeeps ==
  ASSUME Inv, NEW p \in Proc, NEW c \in Conn, io[p].c = c, Handshake(p)
  PROVE  Inv'
<1> DEFINE q == Other(p)
           r == [h[c][p] EXCEPT !.crossed = FALSE]
<1>1. TypeOK /\ Lanes /\ Table /\ Fresh /\ Busy /\ Requests /\ Single /\ OneOwner
      /\ Framed /\ Greeted /\ Finalizing
  BY DEF Inv
<1>2. /\ q \in Proc /\ q # p /\ Other(q) = p /\ \A x \in Proc : x = p \/ x = q
  BY TwoProcs
<1>P. \A x \in Proc : main[x].c \in Conn /\ io[x].c \in Conn
  BY <1>1, Parts
<1>3. /\ io[p].pc = "handshake" /\ Len(Inbox(c, p)) >= 2 /\ MPI_Recv(c, p, 2)
      /\ queue' = [queue EXCEPT ![p][c] = @ + 1] /\ IoGoto(p, "poll")
      /\ UNCHANGED <<connections, request, user, main, sent>>
  BY DEF Handshake, IoAt
<1>4. /\ Greeting(c, p) /\ h[c][p].made /\ h[c][p].probed = "none" /\ ~h[c][p].closed_rd
  BY <1>1, <1>3 DEF Greeting, Busy, BusyAt, IoAt
<1>5. /\ user[p][c] # "held" /\ queue[p][c] = 0 /\ ~Managed(c, p) /\ ~Inserting(c, p)
  BY <1>1, <1>4, Exclusive, Parts
<1>x. Crossed(c, p, 2) = FALSE
  BY <1>1, <1>3, <1>4, PairRead
<1>6. /\ net' \in [Proc -> [Tags -> Seq(Conn \X Frame)]]
      /\ Lane(c, p)' \in Seq({c} \X Frame)
      /\ \A d \in Conn, x \in Proc : d # c \/ x # p => Lane(d, x)' = Lane(d, x)
      /\ WellFramed(Lane(c, p)', EOSComes(c, p), 0)
  BY <1>1, <1>3, <1>4, PairRead
<1>7. h' = [h EXCEPT ![c][p] = r]
  BY <1>1, <1>x DEF Handshake, TypeOK
<1>8. /\ r \in HandleMPI /\ (r.made <=> h[c][p].made) /\ (r.closed_wr <=> h[c][p].closed_wr)
      /\ (r.closed_rd <=> h[c][p].closed_rd) /\ r.probed = h[c][p].probed /\ ~r.crossed
  <2>1. h[c][p] \in HandleMPI
    BY <1>1, Parts
  <2> QED BY <2>1 DEF HandleMPI
<1> HIDE DEF r
<1>9. /\ h' \in [Conn -> [Proc -> HandleMPI]] /\ h'[c][p] = r
      /\ \A d \in Conn, x \in Proc : d # c \/ x # p => h'[d][x] = h[d][x]
  BY <1>1, <1>7, <1>8 DEF TypeOK
<1>10. \A d \in Conn, x \in Proc :
         /\ (h'[d][x].made <=> h[d][x].made) /\ h'[d][x].probed = h[d][x].probed
         /\ (h'[d][x].closed_rd <=> h[d][x].closed_rd)
         /\ (h'[d][x].closed_wr <=> h[d][x].closed_wr)
  BY <1>8, <1>9
<1>11. /\ io' \in [Proc -> [pc : {"start", "handshake", "poll", "exited"}, c : Conn]]
       /\ io'[p].pc = "poll" /\ \A x \in Proc : x # p => io'[x] = io[x]
  BY <1>1, <1>3, IoGotoSet
<1>12. /\ queue' \in [Proc -> [Conn -> 0..1]] /\ queue'[p][c] = 1
       /\ \A d \in Conn, x \in Proc : d # c \/ x # p => queue'[x][d] = queue[x][d]
  BY <1>1, <1>3, <1>5 DEF TypeOK
<1>13. TypeOK'
  BY <1>1, <1>3, <1>6, <1>9, <1>11, <1>12 DEF TypeOK
<1>14. \A d \in Conn, x \in Proc :
         /\ (Inserting(d, x)' <=> Inserting(d, x)) /\ Entry(d, x)' = Entry(d, x)
         /\ (Asked(d, x)' <=> Asked(d, x)) /\ (Greeting(d, x)' => Greeting(d, x))
  BY <1>3, <1>11 DEF Inserting, Entry, Asked, Greeting, At, IoAt
<1>15. Lanes'
  <2>1. \A d \in Conn, x \in Proc : Lane(d, x)' \in Seq({d} \X Frame)
    BY <1>1, <1>6 DEF Lanes
  <2>2. \A d \in Conn, x \in Proc : ~h'[d][x].crossed
    BY <1>1, <1>8, <1>9 DEF Lanes
  <2> QED BY <2>1, <2>2 DEF Lanes
<1>16. Table'
  BY <1>1, <1>10, <1>14 DEF Table
<1>17. Fresh'
  <2>1. FreshAt(c, p)'
    BY <1>4, <1>10 DEF FreshAt
  <2>2. ASSUME NEW d \in Conn, NEW x \in Proc, d # c \/ x # p PROVE FreshAt(d, x)'
    <3>1. /\ h'[d][x] = h[d][x] /\ Entry(d, x)' = Entry(d, x) /\ user'[x][d] = user[x][d]
          /\ queue'[x][d] = queue[x][d] /\ (Greeting(d, x)' => Greeting(d, x))
          /\ (Inserting(d, x)' => Inserting(d, x))
      BY <1>3, <1>9, <1>12, <1>14, <2>2
    <3>2. FreshAt(d, x)
      BY <1>1 DEF Fresh
    <3> QED BY <3>1, <3>2 DEF FreshAt
  <2> QED BY <2>1, <2>2 DEF Fresh
<1>18. Busy'
  <2>1. BusyAt(p)'
    BY <1>1, <1>3, <1>10, <1>11, <1>14, <1>P DEF Busy, BusyAt, At, IoAt
  <2>2. BusyAt(q)'
    BY <1>1, <1>2, <1>3, <1>9, <1>11, <1>14, BusyKept
  <2> QED BY <1>2, <2>1, <2>2 DEF Busy
<1>19. Requests'
  BY <1>1, <1>2, <1>3, <1>10, <1>14 DEF Requests
<1>20. \A d \in Conn, x \in Proc : d # c \/ x # p => Owners(d, x)' = Owners(d, x)
  <2>1. \A d \in Conn, x \in Proc : d # c \/ x # p =>
          ((io'[x].pc = "handshake" /\ io'[x].c = d) <=> (io[x].pc = "handshake" /\ io[x].c = d))
    BY <1>3, <1>11
  <2> QED BY <1>3, <1>12, <2>1 DEF Owners, Managed, At, One
<1>21. Owners(c, p)' = 1
  <2>1. /\ ~Managed(c, p)' /\ user'[p][c] # "held" /\ queue'[p][c] = 1
        /\ io'[p].pc # "handshake" /\ ~(At(p, "insert")' /\ main'[p].c = c)
    BY <1>3, <1>5, <1>11, <1>12 DEF Managed, Inserting, At
  <2> QED BY <2>1 DEF Owners, One
<1>22. Single' /\ OneOwner'
  <2>1. \A x \in Proc : Running(x)' => Running(x)
    BY <1>3, <1>11 DEF Running
  <2>2. Single'
    BY <1>1, <1>20, <1>21 DEF Single
  <2>3. OneOwner'
    BY <1>1, <1>10, <1>20, <1>21, <2>1 DEF OneOwner
  <2> QED BY <2>2, <2>3
<1>23. Framed'
  <2>1. FramedAt(c, p)'
    <3>1. EOSComes(c, p)' = EOSComes(c, p) /\ Probed(c, p)' = 0
      BY <1>2, <1>4, <1>10 DEF EOSComes, Probed, One
    <3> QED BY <1>4, <1>6, <1>10, <3>1 DEF FramedAt
  <2>2. ASSUME NEW d \in Conn, NEW x \in Proc, d # c \/ x # p PROVE FramedAt(d, x)'
    <3>1. Lane(d, x)' = Lane(d, x) /\ h'[d][x] = h[d][x]
      BY <1>6, <1>9, <2>2
    <3>2. h'[d][Other(x)].closed_wr <=> h[d][Other(x)].closed_wr
      BY <1>10, TwoProcs
    <3> QED BY <1>1, <3>1, <3>2, FramedKept
  <2> QED BY <2>1, <2>2 DEF Framed
<1>24. Greeted'
  <2>1. ~Greeting(c, p)' /\ ~Asked(c, p)'
    BY <1>1, <1>4, <1>11, <1>14 DEF Requests, Greeting, IoAt
  <2> SUFFICES ASSUME NEW d \in Conn, NEW x \in Proc, Greeting(d, x)' \/ Asked(d, x)'
               PROVE  Inserting(d, Other(x))' \/ Len(Lane(d, x))' >= 2
    BY DEF Greeted
  <2>2. Lane(d, x)' = Lane(d, x)
    BY <1>6, <2>1
  <2>3. Inserting(d, Other(x)) \/ Len(Lane(d, x)) >= 2
    BY <1>1, <1>14 DEF Greeted
  <2> QED BY <1>2, <1>14, <2>2, <2>3
<1>25. Finalizing'
  <2>1. \A x \in Proc : InTable(x)' = InTable(x) /\ InTable(x) \subseteq Conn
    BY <1>14 DEF InTable
  <2> QED BY <1>1, <1>3, <1>10, <1>P, <2>1 DEF Finalizing, FinalizingAt, At
<1> QED BY <1>13, <1>15, <1>16, <1>17, <1>18, <1>19, <1>22, <1>23, <1>24, <1>25 DEF Inv

(* The loop of ConnMPI::update over the table: what has a message is in    *)
(* the ready queue and is no longer polled.                                *)
LEMMA PollKeeps ==
  ASSUME Inv, NEW p \in Proc, Poll(p)
  PROVE  Inv'
<1> DEFINE q == Other(p)
           Out(d) == Tag[d] \in Polled(p)
<1>1. TypeOK /\ Lanes /\ Table /\ Fresh /\ Busy /\ Requests /\ Single /\ OneOwner
      /\ Framed /\ Greeted /\ Finalizing
  BY DEF Inv
<1>2. /\ q \in Proc /\ q # p /\ Other(q) = p /\ \A x \in Proc : x = p \/ x = q
  BY TwoProcs
<1>P. \A x \in Proc : main[x].c \in Conn /\ io[x].c \in Conn
  BY <1>1, Parts
<1>3. /\ io[p].pc \in {"start", "poll"} /\ IoGoto(p, "start")
      /\ UNCHANGED <<h, net, request, user, main, sent>>
  BY DEF Poll, IoAt
<1>4. \A d \in Conn : Tag[d] \in Tags
  BY <1>1, Parts
<1>5. \A d \in Conn : Out(d) => Managed(d, p)
  <2>1. \A d \in Conn : /\ Entry(d, p).c \in {d, NoConn}
                        /\ Entry(d, p).c = NoConn => ~Entry(d, p).to_manage
    BY <1>1 DEF Table
  <2> QED BY <2>1 DEF Polled, Managed, Entry
<1>6. \A d \in Conn : (\E t \in Polled(p) : connections[p][t].c = d) <=> Out(d)
  <2>1. \A t \in Polled(p) : \E d \in Conn : t = Tag[d] /\ connections[p][t].c = d
    <3>1. \A t \in Polled(p) : \E d \in Conn : t = Tag[d]
      BY DEF Polled, Tags
    <3> QED BY <1>5, <3>1 DEF Managed
  <2>2. \A d \in Conn : Out(d) => connections[p][Tag[d]].c = d
    BY <1>5 DEF Managed
  <2> QED BY <2>1, <2>2
<1>7. /\ connections' \in [Proc -> [Tags -> [c : Conn \union {NoConn}, to_manage : BOOLEAN]]]
      /\ \A d \in Conn : /\ Entry(d, q)' = Entry(d, q) /\ Entry(d, p)'.c = Entry(d, p).c
                         /\ Out(d) => ~Entry(d, p)'.to_manage
                         /\ ~Out(d) => Entry(d, p)' = Entry(d, p)
  <2> DEFINE f == [t \in Tags |-> IF t \in Polled(p)
                                  THEN [connections[p][t] EXCEPT !.to_manage = FALSE]
                                  ELSE connections[p][t]]
  <2>1. connections' = [connections EXCEPT ![p] = f]
    BY DEF Poll
  <2>2. \A t \in Tags : connections[p][t] \in [c : Conn \union {NoConn}, to_manage : BOOLEAN]
    BY <1>1 DEF TypeOK
  <2>3. /\ f \in [Tags -> [c : Conn \union {NoConn}, to_manage : BOOLEAN]]
        /\ \A t \in Tags : /\ f[t].c = connections[p][t].c
                           /\ t \in Polled(p) => ~f[t].to_manage
                           /\ t \notin Polled(p) => f[t] = connections[p][t]
    BY <2>2
  <2> HIDE DEF f
  <2>4. connections'[p] = f /\ connections'[q] = connections[q]
        /\ connections' \in [Proc -> [Tags -> [c : Conn \union {NoConn}, to_manage : BOOLEAN]]]
    BY <1>1, <1>2, <2>1, <2>3 DEF TypeOK
  <2> QED BY <1>4, <2>3, <2>4 DEF Entry
<1>8. /\ queue' \in [Proc -> [Conn -> 0..1]]
      /\ \A d \in Conn : /\ queue'[q][d] = queue[q][d]
                         /\ Out(d) => queue'[p][d] = 1
                         /\ ~Out(d) => queue'[p][d] = queue[p][d]
  <2> DEFINE g == [d \in Conn |-> IF \E t \in Polled(p) : connections[p][t].c = d
                                  THEN queue[p][d] + 1 ELSE queue[p][d]]
  <2>1. queue' = [queue EXCEPT ![p] = g]
    BY DEF Poll
  <2>2. ASSUME NEW d \in Conn
        PROVE  queue[p][d] \in 0..1 /\ (Out(d) => queue[p][d] = 0)
    <3>1. queue[p][d] \in 0..1
      BY <1>1, Parts
    <3>2. ~(queue[p][d] > 0 /\ Managed(d, p))
      BY <1>1, Exclusive
    <3> QED BY <1>5, <3>1, <3>2
  <2>3. ASSUME NEW d \in Conn
        PROVE  g[d] \in 0..1 /\ (Out(d) => g[d] = 1) /\ (~Out(d) => g[d] = queue[p][d])
    <3>1. g[d] = IF Out(d) THEN queue[p][d] + 1 ELSE queue[p][d]
      BY <1>6
    <3> QED BY <2>2, <3>1
  <2>4. g \in [Conn -> 0..1]
    BY <2>3
  <2> HIDE DEF g
  <2>5. queue'[p] = g /\ queue'[q] = queue[q] /\ queue' \in [Proc -> [Conn -> 0..1]]
    BY <1>1, <1>2, <2>1, <2>4 DEF TypeOK
  <2> QED BY <2>3, <2>5
<1> HIDE DEF Out
<1>9. /\ io' \in [Proc -> [pc : {"start", "handshake", "poll", "exited"}, c : Conn]]
      /\ io'[p].pc = "start" /\ \A x \in Proc : x # p => io'[x] = io[x]
  BY <1>1, <1>3, IoGotoSet
<1>10. TypeOK'
  BY <1>1, <1>3, <1>7, <1>8, <1>9 DEF TypeOK
<1>11. \A d \in Conn, x \in Proc :
         /\ (Inserting(d, x)' <=> Inserting(d, x)) /\ (Greeting(d, x)' <=> Greeting(d, x))
         /\ (Asked(d, x)' <=> Asked(d, x)) /\ Lane(d, x)' = Lane(d, x)
         /\ Entry(d, x)'.c = Entry(d, x).c
         /\ (Entry(d, x)'.to_manage => Entry(d, x).to_manage)
  <2>1. \A d \in Conn, x \in Proc :
         /\ (Inserting(d, x)' <=> Inserting(d, x)) /\ (Greeting(d, x)' <=> Greeting(d, x))
         /\ (Asked(d, x)' <=> Asked(d, x)) /\ Lane(d, x)' = Lane(d, x)
    BY <1>3, <1>9 DEF Inserting, Greeting, Asked, Lane, At, IoAt
  <2>2. \A d \in Conn, x \in Proc :
         Entry(d, x)'.c = Entry(d, x).c /\ (Entry(d, x)'.to_manage => Entry(d, x).to_manage)
    BY <1>2, <1>7
  <2> QED BY <2>1, <2>2
<1>12. Lanes' /\ Requests' /\ Framed' /\ Greeted'
  <2>1. Lanes' /\ Framed'
    BY <1>1, <1>3 DEF Lanes, Framed, FramedAt, Lane, EOSComes, Probed
  <2>2. Requests'
    BY <1>1, <1>3 DEF Requests, Asked
  <2>3. Greeted'
    BY <1>1, <1>2, <1>11 DEF Greeted
  <2> QED BY <2>1, <2>2, <2>3
<1>13. Table'
  BY <1>1, <1>3, <1>11 DEF Table
<1>14. Fresh'
  <2> SUFFICES ASSUME NEW d \in Conn, NEW x \in Proc, ~h[d][x].made
               PROVE  FreshAt(d, x)'
    BY <1>3 DEF Fresh, FreshAt
  <2>1. /\ h[d][x] = NewHandle /\ Entry(d, x).c = NoConn
        /\ user[x][d] = "none" /\ queue[x][d] = 0 /\ ~Greeting(d, x) /\ ~Inserting(d, x)
    BY <1>1 DEF Fresh, FreshAt
  <2>2. x = p => ~Out(d)
    BY <1>5, <2>1, ConnAssumption DEF Managed, Entry
  <2>3. queue'[x][d] = 0
    BY <1>2, <1>8, <2>1, <2>2
  <2> QED BY <1>3, <1>11, <2>1, <2>3 DEF FreshAt
<1>15. Busy'
  <2>1. BusyAt(p)'
    BY <1>1, <1>3, <1>9, <1>11, <1>P DEF Busy, BusyAt, At, IoAt
  <2>2. BusyAt(q)'
    BY <1>1, <1>2, <1>3, <1>7, <1>9, BusyKept
  <2> QED BY <1>2, <2>1, <2>2 DEF Busy
<1>16. \A d \in Conn, x \in Proc : Owners(d, x)' = Owners(d, x)
  <2> SUFFICES ASSUME NEW d \in Conn, NEW x \in Proc
               PROVE  Owners(d, x)' = Owners(d, x)
    OBVIOUS
  <2>1. /\ (io'[x].pc = "handshake" /\ io'[x].c = d) <=> (io[x].pc = "handshake" /\ io[x].c = d)
        /\ (At(x, "insert")' /\ main'[x].c = d) <=> (At(x, "insert") /\ main[x].c = d)
        /\ user'[x][d] = user[x][d]
    BY <1>3, <1>11 DEF Greeting, IoAt, At
  <2>2. CASE x = p /\ Out(d)
    <3>1. queue[p][d] = 0 /\ queue'[p][d] = 1 /\ Managed(d, p) /\ ~Managed(d, p)'
      BY <1>1, <1>5, <1>7, <1>8, <2>2, Exclusive, Parts DEF Managed, Entry
    <3> QED BY <2>1, <2>2, <3>1 DEF Owners, One
  <2>3. CASE ~(x = p /\ Out(d))
    <3>1. queue'[x][d] = queue[x][d] /\ (Managed(d, x)' <=> Managed(d, x))
      BY <1>2, <1>7, <1>8, <2>3 DEF Managed, Entry
    <3> QED BY <2>1, <3>1 DEF Owners, One
  <2> QED BY <2>2, <2>3
<1>17. Single' /\ OneOwner'
  <2>1. \A x \in Proc : Running(x)' => Running(x)
    BY <1>3, <1>9 DEF Running
  <2> QED BY <1>1, <1>3, <1>16, <2>1 DEF Single, OneOwner
<1>18. Finalizing'
  <2>1. \A x \in Proc : InTable(x)' = InTable(x)
    BY <1>11 DEF InTable
  <2> QED BY <1>1, <1>3, <2>1 DEF Finalizing, FinalizingAt, At
<1> QED BY <1>10, <1>12, <1>13, <1>14, <1>15, <1>17, <1>18 DEF Inv

-----------------------------------------------------------------------------
(***************************************************************************)
(* The invariant holds.                                                    *)
(***************************************************************************)
(* After Manager::init.                                                    *)
LEMMA InitInv == Init => Inv
<1> SUFFICES ASSUME Init PROVE Inv
  OBVIOUS
<1>1. /\ h = [c \in Conn |-> [p \in Proc |-> NewHandle]]
      /\ connections = [p \in Proc |-> [t \in Tags |-> NoEntry]]
      /\ net = [p \in Proc |-> [t \in Tags |-> <<>>]]
      /\ request = [p \in Proc |-> <<>>]
      /\ queue = [p \in Proc |-> [c \in Conn |-> 0]]
      /\ user = [p \in Proc |-> [c \in Conn |-> "none"]]
      /\ main = [p \in Proc |-> Idling]
      /\ io = [p \in Proc |-> [pc |-> "start", c |-> Idling.c]]
      /\ sent = [p \in Proc |-> 0]
  BY DEF Init
<1>2. Idling.c \in Conn /\ Idling.pc = "idle" /\ Idling.todo = {}
      /\ Idling \in [pc : PC, c : Conn, todo : SUBSET Conn]
  BY ConnAssumption DEF Idling, PC
<1>3. NewHandle \in HandleMPI /\ ~NewHandle.made /\ NewHandle.probed = "none"
      /\ ~NewHandle.closed_rd /\ ~NewHandle.closed_wr /\ ~NewHandle.crossed
  BY DEF NewHandle, HandleMPI
<1>4. NoEntry \in [c : Conn \union {NoConn}, to_manage : BOOLEAN]
      /\ NoEntry.c = NoConn /\ ~NoEntry.to_manage
  BY DEF NoEntry
<1>5. \A c \in Conn : Tag[c] \in Tags
  BY DEF Tags
<1>6. \A c \in Conn, p \in Proc :
         /\ h[c][p] = NewHandle /\ Entry(c, p) = NoEntry /\ Lane(c, p) = <<>>
         /\ user[p][c] = "none" /\ queue[p][c] = 0
         /\ ~Greeting(c, p) /\ ~Inserting(c, p) /\ ~Asked(c, p) /\ ~Managed(c, p)
  <2>1. \A c \in Conn, p \in Proc :
         /\ h[c][p] = NewHandle /\ Entry(c, p) = NoEntry /\ Lane(c, p) = <<>>
         /\ user[p][c] = "none" /\ queue[p][c] = 0
    BY <1>1, <1>5 DEF Entry, Lane
  <2>2. \A c \in Conn, p \in Proc : ~Greeting(c, p) /\ ~Inserting(c, p) /\ ~Asked(c, p)
    BY <1>1, <1>2 DEF Greeting, Inserting, Asked, At, IoAt
  <2>3. \A c \in Conn, p \in Proc : ~Managed(c, p)
    BY <1>4, <2>1, ConnAssumption DEF Managed, Entry
  <2> QED BY <2>1, <2>2, <2>3
<1>7. TypeOK
  <2>1. /\ h \in [Conn -> [Proc -> HandleMPI]]
        /\ connections \in [Proc -> [Tags -> [c : Conn \union {NoConn}, to_manage : BOOLEAN]]]
    BY <1>1, <1>3, <1>4
  <2>2. /\ net \in [Proc -> [Tags -> Seq(Conn \X Frame)]]
        /\ request \in [Proc -> Seq(Conn)]
    <3>1. <<>> \in Seq(Conn \X Frame) /\ <<>> \in Seq(Conn)
      BY EmptySeq
    <3> QED BY <1>1, <3>1
  <2>3. /\ queue \in [Proc -> [Conn -> 0..1]]
        /\ user \in [Proc -> [Conn -> {"none", "held", "given"}]]
        /\ main \in [Proc -> [pc : PC, c : Conn, todo : SUBSET Conn]]
        /\ io \in [Proc -> [pc : {"start", "handshake", "poll", "exited"}, c : Conn]]
        /\ \A p \in Proc : sent[p] \in 0..MaxSend[p]
    BY <1>1, <1>2, BoundAssumption
  <2> QED BY <2>1, <2>2, <2>3 DEF TypeOK, PC
<1>8. Lanes
  <2>1. \A c \in Conn : <<>> \in Seq({c} \X Frame)
    BY EmptySeq
  <2> QED BY <1>3, <1>6, <2>1 DEF Lanes
<1>9. Table
  BY <1>3, <1>4, <1>6 DEF Table
<1>10. Fresh
  BY <1>4, <1>6 DEF Fresh, FreshAt
<1>11. Busy
  BY <1>1, <1>2 DEF Busy, BusyAt, At, IoAt
<1>12. Requests
  <2>1. \A p \in Proc : request[p] = <<>>
    BY <1>1
  <2>2. \A p \in Proc : \A i, j \in DOMAIN request[p] : i = j
    BY <2>1
  <2> QED BY <1>3, <1>6, <2>2, TwoProcs DEF Requests
<1>13. \A c \in Conn, p \in Proc : Owners(c, p) = 0
  BY <1>6 DEF Owners, Greeting, Inserting, IoAt, One
<1>14. Single /\ OneOwner
  BY <1>3, <1>6, <1>13 DEF Single, OneOwner
<1>15. Framed
  <2>1. WellFramed(<<>>, 0, 0)
    BY DEF WellFramed
  <2>2. \A c \in Conn, p \in Proc : EOSComes(c, p) = 0 /\ Probed(c, p) = 0
    BY <1>3, <1>6, TwoProcs DEF EOSComes, Probed, One
  <2> QED BY <1>3, <1>6, <2>1, <2>2 DEF Framed, FramedAt
<1>16. Greeted
  BY <1>6 DEF Greeted
<1>17. Finalizing
  <2>1. \A p \in Proc : InTable(p) = {}
    BY <1>4, <1>6, ConnAssumption DEF InTable
  <2>2. \A p \in Proc : main[p].pc = "idle"
    BY <1>1, <1>2
  <2> QED BY <2>1, <2>2 DEF Finalizing, FinalizingAt, At
<1> QED BY <1>7, <1>8, <1>9, <1>10, <1>11, <1>12, <1>14, <1>15, <1>16, <1>17 DEF Inv

(* Every step keeps it.                                                    *)
LEMMA NextInv == Inv /\ [Next]_vars => Inv'
<1> SUFFICES ASSUME Inv, [Next]_vars PROVE Inv'
  OBVIOUS
<1>1. CASE UNCHANGED vars
  <2>1. /\ h' = h /\ connections' = connections /\ net' = net /\ request' = request
        /\ queue' = queue /\ user' = user /\ main' = main /\ io' = io /\ sent' = sent
    BY <1>1 DEF vars
  <2>2. TypeOK' /\ Lanes'
    <3>1. TypeOK'
      BY <2>1 DEF Inv, TypeOK
    <3>2. Lanes'
      BY <2>1 DEF Inv, Lanes, Lane
    <3> QED BY <3>1, <3>2
  <2>6. Table' /\ Fresh'
    BY <2>1 DEF Inv, Table, Fresh, FreshAt, Entry, Inserting, Greeting, At, IoAt
  <2>3. Busy' /\ Requests' /\ Greeted' /\ Finalizing'
    BY <2>1 DEF Inv, Busy, BusyAt, Requests, Greeted, Finalizing, FinalizingAt, Lane, Entry,
       Inserting, InTable, Greeting, Asked, At, IoAt
  <2>4. Single' /\ OneOwner'
    BY <2>1 DEF Inv, Single, OneOwner, Owners, Managed, Running, At
  <2>5. Framed'
    BY <2>1 DEF Inv, Framed, FramedAt, EOSComes, Probed, Lane
  <2> QED BY <2>2, <2>3, <2>4, <2>5, <2>6 DEF Inv
<1>2. CASE Next
  <2>1. PICK p \in Proc : Operation(p) \/ Step(p) \/ IoThread(p)
    BY <1>2 DEF Next
  <2>2. TypeOK /\ main[p].c \in Conn /\ io[p].c \in Conn /\ request[p] \in Seq(Conn)
    BY Parts DEF Inv
  <2>3. CASE Operation(p)
    <3>1. CASE Finalize(p)
      BY <3>1, FinalizeKeeps
    <3>2. ASSUME NEW c \in Conn,
                 \/ Connect(p, c) \/ GetNext(p, c) \/ Send(p, c)
                 \/ Probe(p, c) \/ Receive(p, c) \/ Close(p, c) \/ Yield(p, c)
          PROVE  Inv'
      <4>1. CASE Probe(p, c)
        <5>1. Head(Inbox(c, p))[2] \in {"hdr", "eos"}
          BY <4>1, HeadRead DEF Probe, MayRead, Inv
        <5> QED BY <4>1, <5>1, ProbeHeaderKeeps, ProbeEOSKeeps
      <4> QED BY <3>2, <4>1, ConnectKeeps, GetNextKeeps, SendKeeps, ReceiveKeeps,
                 CloseKeeps, YieldKeeps
    <3> QED BY <2>3, <3>1, <3>2 DEF Operation
  <2>4. CASE Step(p)
    <3>1. PICK c \in Conn : main[p].c = c
      BY <2>2
    <3> QED BY <2>4, <3>1, ConnectInsertKeeps, NotifyCloseKeeps, JoinKeeps, EndNextKeeps,
               DrainKeeps, CloseReadKeeps, EndDoneKeeps DEF Step
  <2>5. CASE IoThread(p)
    <3>1. CASE Accept(p)
      <4>1. request[p] # <<>>
        BY <3>1 DEF Accept
      <4>2. PICK c \in Conn : Head(request[p]) = c
        BY <2>2, <4>1, HeadTailProperties
      <4> QED BY <3>1, <4>1, <4>2, AcceptKeeps
    <3>2. CASE Handshake(p)
      <4>1. PICK c \in Conn : io[p].c = c
        BY <2>2
      <4> QED BY <3>2, <4>1, HandshakeKeeps
    <3> QED BY <2>5, <3>1, <3>2, IoExitKeeps, PollKeeps DEF IoThread
  <2> QED BY <2>1, <2>3, <2>4, <2>5
<1> QED BY <1>1, <1>2

(* Every reachable state is as the invariant says.                         *)
THEOREM Invariant == Spec => []Inv
BY InitInv, NextInv, PTL DEF Spec

-----------------------------------------------------------------------------
(***************************************************************************)
(* The properties.                                                         *)
(***************************************************************************)
(* No handle ever receives what was sent on another connection, and each   *)
(* end that is open for reading has exactly one owner while the Manager    *)
(* runs, for any number of connections with tags of their own.             *)
THEOREM TagsKeepApart == Spec => []NotCrossed
<1>1. Inv => NotCrossed
  BY DEF Inv, NotCrossed, Lanes
<1> QED BY <1>1, Invariant, PTL

(* The handshake that the IO thread waits for inside the mutex comes, if   *)
(* one process makes all the connections: the caller that still has to     *)
(* send it never waits for a handshake of its own.                         *)
THEOREM OneCallerIsAnswered ==
  (\A c, d \in Conn : Caller[c] = Caller[d]) => (Spec => []HandshakeComes)
<1> SUFFICES ASSUME \A c, d \in Conn : Caller[c] = Caller[d]
             PROVE  Spec => []HandshakeComes
  OBVIOUS
<1>1. Inv => HandshakeComes
  <2> SUFFICES ASSUME Inv, NEW p \in Proc, NEW c \in Conn, io[p].c = c,
                      IoAt(p, "handshake"), Inbox(c, p) = <<>>
               PROVE  At(Other(p), "insert") /\ main[Other(p)].c = c /\ LockFree(Other(p))
    <3>1. Inv => \A p \in Proc : io[p].c \in Conn
      BY Parts DEF Inv
    <3> QED BY <3>1 DEF HandshakeComes
  <2>1. Other(p) \in Proc /\ Other(Other(p)) = p /\ Other(p) # p
    BY TwoProcs
  <2>2. Inserting(c, Other(p))
    <3>1. Greeting(c, p)
      BY DEF Greeting
    <3>2. Inserting(c, Other(p)) \/ Len(Lane(c, p)) >= 2
      BY <3>1 DEF Inv, Greeted
    <3>3. Len(Lane(c, p)) = 0
      BY DEF Inbox, Matched, Lane
    <3> QED BY <3>2, <3>3
  <2>3. io[Other(p)].c \in Conn
    BY <2>1, Parts DEF Inv
  <2>4. Caller[c] = Other(p)
    BY DEF Inv, Busy, BusyAt
  <2>5. ~IoAt(Other(p), "handshake")
    BY <2>1, <2>3, <2>4 DEF Inv, Busy, BusyAt
  <2> QED BY <2>2, <2>5 DEF Inserting, LockFree, IoAt
<1> QED BY <1>1, Invariant, PTL

(* What a process that waits in ConnMPI::end waits for: the other has not  *)
(* sent EOS and so, if it closes the connection at all, has it in its      *)
(* table.                                                                  *)
LEMMA WaitsForEntry ==
  ASSUME Inv, NEW p \in Proc, Waits(p), \A c \in Entered(p) : Closes(c, Other(p))
  PROVE  /\ main[p].c \in Conn /\ main[p].c \in InTable(Other(p))
         /\ ~h[main[p].c][Other(p)].closed_wr
<1>1. main[p].c \in InTable(p) /\ main[p].c \in Conn /\ ~h[main[p].c][p].closed_rd
  BY DEF Inv, Finalizing, FinalizingAt, Waits, At, InTable
<1>2. PICK c \in Conn : c = main[p].c
  BY <1>1
<1>3. ~h[c][Other(p)].closed_wr
  <2>1. Lane(c, p) = <<>>
    BY <1>2 DEF Waits, Inbox, Matched, Lane
  <2>2. Len(Lane(c, p)) >= EOSComes(c, p)
    BY DEF Inv, Framed, FramedAt, WellFramed
  <2>3. ~(EOSComes(c, p) = 1)
    BY <2>1, <2>2
  <2> QED BY <1>1, <1>2, <2>3 DEF EOSComes, One
<1>4. Other(p) \in Proc
  BY TwoProcs
<1>5. Entered(p) = InTable(p) /\ Entered(Other(p)) = InTable(Other(p))
  BY <1>4, EnteredIs DEF Inv
<1> QED BY <1>1, <1>2, <1>3, <1>5 DEF Closes

(* Two processes in ConnMPI::end never wait for each other, and none waits *)
(* for one that is done, if each closes what the other waits for: both go  *)
(* through their tables in the order of the tags, and send EOS before they *)
(* wait for it.                                                            *)
THEOREM EndsTogether == Spec => []NoMutualWait
<1>1. Inv => NoMutualWait
  <2> SUFFICES ASSUME Inv, NEW p \in Proc, Waits(p),
                      \A x \in Proc : \A c \in Entered(x) : Closes(c, Other(x))
               PROVE  ~Waits(Other(p)) /\ ~At(Other(p), "done")
    BY DEF NoMutualWait
  <2> DEFINE q == Other(p)
  <2>1. q \in Proc /\ Other(q) = p
    BY TwoProcs
  <2>2. main[p].c \in Conn /\ main[p].c \in InTable(q) /\ ~h[main[p].c][q].closed_wr
    BY WaitsForEntry
  <2>3. ~At(q, "done")
    BY <2>1, <2>2 DEF Inv, Finalizing, FinalizingAt
  <2>4. ASSUME Waits(q) PROVE FALSE
    <3>1. main[q].c \in Conn /\ main[q].c \in InTable(p) /\ ~h[main[q].c][p].closed_wr
      BY <2>1, <2>4, WaitsForEntry
    <3>2. \A x \in Proc : At(x, "drain") =>
            /\ main[x].todo = InTable(x) \ {main[x].c}
            /\ \A d \in main[x].todo : Tag[main[x].c] < Tag[d]
            /\ h[main[x].c][x].closed_wr
      BY DEF Inv, Finalizing, FinalizingAt
    <3>3. At(p, "drain") /\ At(q, "drain")
      BY <2>4 DEF Waits
    <3>4. main[p].c # main[q].c
      BY <2>1, <2>2, <3>2, <3>3
    <3>5. Tag[main[q].c] < Tag[main[p].c]
      BY <2>1, <2>2, <3>2, <3>3, <3>4
    <3>6. Tag[main[p].c] < Tag[main[q].c]
      BY <3>1, <3>2, <3>3, <3>4
    <3>7. Tag[main[p].c] \in Nat /\ Tag[main[q].c] \in Nat
      BY <2>2, <3>1, TagAssumption
    <3> QED BY <3>5, <3>6, <3>7
  <2> QED BY <2>3, <2>4
<1> QED BY <1>1, Invariant, PTL
=============================================================================
