----------------------------- MODULE MqttProofs -----------------------------
(***************************************************************************)
(* Mqtt, for any number of connections in either direction and any number  *)
(* of messages: an end that is open for reading has exactly one owner      *)
(* (OneOwner), headers and payloads are where they are looked for          *)
(* (Framed), and nothing is published to a topic that nobody subscribes to *)
(* and somebody may still read (NothingMissed).                            *)
(***************************************************************************)
EXTENDS Mqtt, SequenceTheorems, TLAPS

(***************************************************************************)
(* The inductive invariant, in parts.                                      *)
(***************************************************************************)
(* What the threads of a process do with a connection.                     *)
Calling(c, p) == main[p].pc \in {"dial", "insert"} /\ main[p].c = c
Dialling(c, p) == At(p, "dial") /\ main[p].c = c
Halfway(c, p) == At(p, "payload") /\ main[p].c = c
Acking(c, p) == IoAt(p, "ack") /\ io[p].c = c
Greeting(c, p) == IoAt(p, "handshake") /\ io[p].c = c

(* Nobody has used the handle, or read anything with it.                   *)
Untouched(c, p) ==
    /\ ~h[c][p].to_manage /\ ~h[c][p].is_probed
    /\ h[c][p].messages = <<>> /\ h[c][p].probed = "none"
    /\ ~h[c][p].closed_rd /\ ~h[c][p].closed_wr
    /\ user[p][c] = "none" /\ queue[p][c] = 0
Blank(c, p) == Untouched(c, p) /\ ~h[c][p].reg

(* A connection from its request to the handshake: the topics are empty    *)
(* but for the ack, which the caller waits for and the callee sends when   *)
(* both subscribe, and the callee waits for a handshake that comes.        *)
OpeningAt(c) ==
    LET p == Caller[c]
        q == Callee(c)
    IN
    /\ request[c] = "none" => Blank(c, p)
    /\ request[c] # "taken" => /\ Blank(c, q) /\ ~Acking(c, q) /\ ~Greeting(c, q)
                               /\ topic[c][p] = <<>> /\ topic[c][q] = <<>>
    /\ Calling(c, p) <=> request[c] # "none" /\ user[p][c] = "none"
    /\ Calling(c, p) => Blank(c, p) /\ topic[c][q] = <<>>
    /\ Calling(c, p) /\ ~Dialling(c, p) => Greeting(c, q) /\ topic[c][p] = <<>>
    /\ Dialling(c, p) /\ request[c] = "taken" =>
         \/ Acking(c, q) /\ topic[c][p] = <<>>
         \/ Greeting(c, q) /\ topic[c][p] = <<"ack">>
    /\ Acking(c, q) => Dialling(c, p) /\ Blank(c, q)
    /\ Greeting(c, q) => Untouched(c, q) /\ h[c][q].reg
    /\ ~Calling(c, q) /\ ~Acking(c, p) /\ ~Greeting(c, p)

(* An end of a connection: it never has two owners and has none once its   *)
(* read side is closed, it is in the table while anybody may read with it, *)
(* and it subscribes from then on when its peer may publish.               *)
EndAt(c, p) ==
    /\ Owners(c, p) <= 1
    /\ h[c][p].closed_rd => Owners(c, p) = 0
    /\ Running(p) /\ h[c][p].reg /\ ~h[c][p].closed_rd => Owners(c, p) = 1
    /\ h[c][p].to_manage /\ Running(p) => ~h[c][p].is_probed
    /\ user[p][c] # "none" \/ queue[p][c] > 0 \/ h[c][p].to_manage =>
         h[c][p].closed_rd \/ h[c][p].reg
    /\ user[p][c] # "none" \/ h[c][p].reg \/ queue[p][c] > 0 => request[c] = "taken"
    /\ request[c] # "none" /\ (p = Caller[c] \/ request[c] = "taken") =>
         h[c][p].subscribed \/ h[c][p].closed_rd
    /\ <<c, p>> \in dropped => h[c][p].closed_rd

(* A stream is headers and payloads in turn, from a payload where the      *)
(* reader has the header already (k = 1), up to a header where the writer  *)
(* has still to send the payload (j = 1), with EOS at the end where the    *)
(* writer has closed it (e = 1).                                           *)
WellFramed(s, e, k, j) ==
    /\ Len(s) >= e /\ (Len(s) + k + e + j) % 2 = 0
    /\ \A i \in 1..Len(s) :
         s[i] = IF e = 1 /\ i = Len(s) THEN "eos"
                ELSE IF (i + k) % 2 = 1 THEN "hdr" ELSE "body"

(* The IO thread has read EOS ahead; EOS is still to come; the reader has  *)
(* the header of what comes next; the writer is between two publishes.     *)
Ended(c, p) == h[c][p].messages = <<"eos">>
EOSComes(c, p) == One(h[c][Other(p)].closed_wr /\ ~Ended(c, p))
Headed(c, p) == One(h[c][p].is_probed /\ ~Ended(c, p))
Owed(c, p) == One(Halfway(c, Other(p)))

(* The caches of a header, and what is still with the broker.              *)
StreamAt(c, p) ==
    LET e == h[c][p] IN
    Running(p) /\ e.reg /\ ~e.closed_rd =>
      /\ e.messages \in {<<>>, <<"hdr">>, <<"eos">>} /\ e.probed \in {"none", "hdr"}
      /\ e.probed = "hdr" => e.is_probed /\ e.messages = <<>>
      /\ ~e.is_probed => e.messages = <<>> /\ e.probed = "none"
      /\ e.is_probed /\ e.probed = "none" => e.messages # <<>>
      /\ e.messages = <<"eos">> => h[c][Other(p)].closed_wr
      /\ WellFramed(topic[c][p], EOSComes(c, p), Headed(c, p), Owed(c, p))

(* What a process is in the middle of.  ConnMQTT::end closes what nobody   *)
(* else has.                                                               *)
ThreadAt(p) ==
    /\ At(p, "payload") => /\ user[p][main[p].c] # "none"
                           /\ ~h[main[p].c][p].closed_wr
    /\ At(p, "notify") => user[p][main[p].c] # "none"
    /\ ~Running(p) => main[p].pc \in {"join", "end", "drain", "done"}
    /\ main[p].pc \in {"end", "drain", "done"} => ~Running(p)
    /\ main[p].todo # {} => main[p].pc \in {"end", "drain"}
    /\ \A c \in main[p].todo : h[c][p].to_manage
    /\ At(p, "drain") => h[main[p].c][p].to_manage /\ main[p].c \notin main[p].todo

Openings == \A c \in Conn : OpeningAt(c)
Ends == \A c \in Conn, p \in Proc : EndAt(c, p)
Streams == \A c \in Conn, p \in Proc : StreamAt(c, p)
Threads == \A p \in Proc : ThreadAt(p)

Inv == TypeOK /\ Openings /\ Ends /\ Streams /\ Threads

-----------------------------------------------------------------------------
(***************************************************************************)
(* Lemmas about processes and streams.                                     *)
(***************************************************************************)
(* There are two processes, and each is the other of the other.            *)
LEMMA TwoProcs ==
  ASSUME NEW p \in Proc
  PROVE  /\ Other(p) \in Proc /\ Other(p) # p /\ Other(Other(p)) = p
         /\ \A q \in Proc : q = p \/ q = Other(p)
<1>1. PICK a, b \in Proc : a # b /\ Proc = {a, b}
  BY ProcAssumption
<1>2. \A r \in Proc : \E q \in Proc : q # r
  BY <1>1
<1>3. \A r \in Proc : Other(r) \in Proc /\ Other(r) # r
  BY <1>2 DEF Other
<1> QED BY <1>1, <1>3

(* What a publish leaves in a topic.                                       *)
LEMMA Appended ==
  ASSUME NEW S, NEW s \in Seq(S), NEW f \in S, NEW t, t = Append(s, f)
  PROVE  /\ t \in Seq(S) /\ Len(s) \in Nat /\ Len(t) = Len(s) + 1 /\ Len(t) \in Nat
         /\ \A i \in 1..Len(s) : t[i] = s[i]
         /\ t[Len(s) + 1] = f /\ t # <<>>
<1>1. /\ t \in Seq(S) /\ Len(t) = Len(s) + 1
      /\ \A i \in 1..Len(s) : t[i] = s[i]
      /\ t[Len(s) + 1] = f
  BY AppendProperties
<1>2. Len(s) \in Nat /\ Len(t) \in Nat
  BY <1>1, LenProperties
<1>3. t # <<>>
  BY <1>1, <1>2, EmptySeq
<1> QED BY <1>1, <1>2, <1>3

(* What a read leaves.                                                     *)
LEMMA Tailed ==
  ASSUME NEW S, NEW s \in Seq(S), s # <<>>, NEW t, t = Tail(s)
  PROVE  /\ t \in Seq(S) /\ Len(s) \in Nat /\ Len(s) >= 1
         /\ Len(t) \in Nat /\ Len(t) = Len(s) - 1
         /\ \A i \in 1..Len(t) : t[i] = s[i + 1]
         /\ Head(s) = s[1] /\ Head(s) \in S
<1>1. /\ t \in Seq(S) /\ Len(t) = Len(s) - 1 /\ Head(s) = s[1] /\ Head(s) \in S
      /\ \A i \in 1..Len(t) : t[i] = s[i + 1]
  BY HeadTailProperties
<1>2. Len(s) \in Nat /\ Len(t) \in Nat
  BY <1>1, LenProperties
<1>3. Len(s) >= 1
  BY <1>2, EmptySeq
<1> QED BY <1>1, <1>2, <1>3

(* What the handshake leaves.                                              *)
LEMMA PairRead ==
  ASSUME NEW S, NEW s \in Seq(S), Len(s) >= 2, NEW t, t = SubSeq(s, 3, Len(s))
  PROVE  /\ t \in Seq(S) /\ Len(s) \in Nat /\ Len(t) \in Nat /\ Len(t) = Len(s) - 2
         /\ \A i \in 1..Len(t) : t[i] = s[i + 2]
<1>1. Len(s) \in Nat /\ \A i \in 1..Len(s) : s[i] \in S
  BY LenProperties, ElementOfSeq
<1>2. \A i \in 3..Len(s) : s[i] \in S
  BY <1>1
<1>3. /\ t \in Seq(S)
      /\ Len(t) = IF 3 <= Len(s) THEN Len(s) - 3 + 1 ELSE 0
      /\ \A i \in 1..(Len(s) - 3 + 1) : t[i] = s[3 + i - 1]
  BY <1>1, <1>2, SubSeqProperties
<1>4. Len(t) = Len(s) - 2 /\ Len(t) \in Nat
  <2>1. Len(t) \in Nat
    BY <1>3, LenProperties
  <2>2. CASE 3 <= Len(s)
    BY <1>1, <1>3, <2>1, <2>2
  <2>3. CASE Len(s) = 2
    BY <1>1, <1>3, <2>1, <2>3
  <2>4. PICK n \in Nat : n = Len(s) /\ n >= 2
    BY <1>1
  <2>5. 3 <= n \/ n = 2
    BY <2>4
  <2> QED BY <2>2, <2>3, <2>4, <2>5
<1>5. \A i \in 1..Len(t) : t[i] = s[i + 2]
  BY <1>1, <1>3, <1>4
<1> QED BY <1>1, <1>3, <1>4, <1>5

Bit == {0, 1}

(* How the length of a stream tells where it begins and ends.              *)
LEMMA Parity ==
  ASSUME NEW n \in Nat, NEW e \in Bit, NEW k \in Bit, NEW j \in Bit
  PROVE  /\ (n + k + 0 + 0) % 2 = 0 =>
              (n + 1 + k) % 2 = 1 /\ (n + 1 + k + 0 + 1) % 2 = 0 /\ (n + 1 + k + 1 + 0) % 2 = 0
         /\ (n + k + 0 + 1) % 2 = 0 =>
              (n + 1 + k) % 2 = 0 /\ (n + 1 + k + 0 + 0) % 2 = 0
         /\ n >= 1 /\ (n + 0 + e + j) % 2 = 0 => (n - 1 + 1 + e + j) % 2 = 0
         /\ n >= 1 /\ (n + 1 + e + j) % 2 = 0 => (n - 1 + 0 + e + j) % 2 = 0
         /\ n >= 2 /\ (n + 0 + e + j) % 2 = 0 => (n - 2 + 0 + e + j) % 2 = 0
         /\ (n + 0 + 1 + j) % 2 = 0 /\ n = 1 => j = 0
         /\ (n + 1 + 1 + j) % 2 = 0 /\ n = 1 => j = 1
         /\ (n + 0 + 1 + j) % 2 = 0 /\ n = 2 => j = 1
BY DEF Bit

(* A frame that is due in a stream which ends with j, and then with i and  *)
(* e.                                                                      *)
Due(f, j, i, e) ==
    \/ f = "hdr" /\ j = 0 /\ i = 1 /\ e = 0
    \/ f = "body" /\ j = 1 /\ i = 0 /\ e = 0
    \/ f = "eos" /\ j = 0 /\ i = 0 /\ e = 1

(* A stream with one more frame.                                           *)
LEMMA FramedAppend ==
  ASSUME NEW s \in Seq(Frame), NEW k \in Bit, NEW j \in Bit, NEW i \in Bit,
         NEW e \in Bit, WellFramed(s, 0, k, j), NEW f \in Frame,
         Due(f, j, i, e), NEW t, t = Append(s, f)
  PROVE  WellFramed(t, e, k, i) /\ t \in Seq(Frame)
<1> USE DEF Due, Bit
<1>1. /\ t \in Seq(Frame) /\ Len(s) \in Nat /\ Len(t) = Len(s) + 1
      /\ \A n \in 1..Len(s) : t[n] = s[n]
      /\ t[Len(s) + 1] = f
  BY Appended
<1>2. PICK n \in Nat : n = Len(s)
  BY <1>1
<1>3. (n + k + 0 + j) % 2 = 0
  BY <1>2 DEF WellFramed
<1>4. (n + 1 + k + e + i) % 2 = 0
  <2>1. CASE f = "hdr"
    BY <1>3, <2>1
  <2>2. CASE f = "body"
    BY <1>3, <2>2
  <2>3. CASE f = "eos"
    BY <1>3, <2>3
  <2> QED BY <2>1, <2>2, <2>3
<1>5. f = "hdr" => (n + 1 + k) % 2 = 1
  BY <1>3, Parity
<1>6. f = "body" => (n + 1 + k) % 2 = 0
  BY <1>3, Parity
<1>7. \A m \in 1..n : s[m] = IF (m + k) % 2 = 1 THEN "hdr" ELSE "body"
  BY <1>2 DEF WellFramed
<1>8. ASSUME NEW m \in 1..(n + 1)
      PROVE  t[m] = IF e = 1 /\ m = n + 1 THEN "eos"
                    ELSE IF (m + k) % 2 = 1 THEN "hdr" ELSE "body"
  <2>1. CASE m = n + 1
    <3>1. t[m] = f
      BY <1>1, <1>2, <2>1
    <3> QED BY <1>5, <1>6, <2>1, <3>1
  <2>2. CASE m # n + 1
    <3>1. m \in 1..n
      BY <2>2
    <3> QED BY <1>1, <1>2, <1>7, <2>2, <3>1
  <2> QED BY <2>1, <2>2
<1>9. Len(t) = n + 1 /\ Len(t) >= e
  BY <1>1, <1>2
<1> QED BY <1>1, <1>4, <1>8, <1>9 DEF WellFramed

(* A header is read, and its payload is next; or EOS, and nothing is.      *)
LEMMA FramedProbe ==
  ASSUME NEW s \in Seq(Frame), NEW e \in Bit, NEW j \in Bit,
         WellFramed(s, e, 0, j), s # <<>>, NEW t, t = Tail(s)
  PROVE  /\ t \in Seq(Frame) /\ Head(s) \in {"hdr", "eos"}
         /\ Head(s) = "hdr" => WellFramed(t, e, 1, j)
         /\ Head(s) = "eos" => e = 1 /\ t = <<>> /\ WellFramed(t, 0, 0, j)
<1> USE DEF Bit
<1>1. /\ t \in Seq(Frame) /\ Len(s) \in Nat /\ Len(s) >= 1
      /\ Len(t) \in Nat /\ Len(t) = Len(s) - 1
      /\ \A i \in 1..Len(t) : t[i] = s[i + 1]
      /\ Head(s) = s[1]
  BY Tailed, ZenonT(60)
<1>2. PICK n \in Nat : n = Len(s) /\ n >= 1
  BY <1>1
<1>3. (n + 0 + e + j) % 2 = 0 /\ n >= e
  BY <1>2 DEF WellFramed
<1>4. \A m \in 1..n : s[m] = IF e = 1 /\ m = n THEN "eos"
                             ELSE IF (m + 0) % 2 = 1 THEN "hdr" ELSE "body"
  BY <1>2 DEF WellFramed
<1>5. Head(s) = IF e = 1 /\ n = 1 THEN "eos" ELSE "hdr"
  <2>1. 1 \in 1..n /\ (1 + 0) % 2 = 1
    BY <1>2
  <2> QED BY <1>1, <1>4, <2>1
<1>6. ASSUME Head(s) = "hdr" PROVE WellFramed(t, e, 1, j)
  <2>1. (n - 1 + 1 + e + j) % 2 = 0
    BY <1>2, <1>3, Parity
  <2>2. Len(t) = n - 1 /\ Len(t) >= e
    BY <1>1, <1>2, <1>3, <1>5, <1>6
  <2>3. ASSUME NEW m \in 1..(n - 1)
        PROVE  t[m] = IF e = 1 /\ m = n - 1 THEN "eos"
                      ELSE IF (m + 1) % 2 = 1 THEN "hdr" ELSE "body"
    <3>1. m + 1 \in 1..n /\ t[m] = s[m + 1]
      BY <1>1, <2>2
    <3>2. s[m + 1] = IF e = 1 /\ m + 1 = n THEN "eos"
                     ELSE IF (m + 1 + 0) % 2 = 1 THEN "hdr" ELSE "body"
      BY <1>4, <3>1
    <3>3. m + 1 + 0 = m + 1 /\ (m + 1 = n <=> m = n - 1)
      OBVIOUS
    <3> QED BY <3>1, <3>2, <3>3
  <2> QED BY <2>1, <2>2, <2>3 DEF WellFramed
<1>7. ASSUME Head(s) = "eos" PROVE e = 1 /\ t = <<>> /\ WellFramed(t, 0, 0, j)
  <2>1. e = 1 /\ n = 1
    BY <1>5, <1>7
  <2>2. j = 0
    BY <1>3, <2>1, Parity
  <2>3. Len(t) = 0
    BY <1>1, <1>2, <2>1
  <2>4. t = <<>>
    BY <1>1, <2>3, EmptySeq
  <2> QED BY <2>1, <2>2, <2>3, <2>4 DEF WellFramed
<1> QED BY <1>1, <1>5, <1>6, <1>7

(* A payload is read, and a header or EOS is next.                         *)
LEMMA FramedReceive ==
  ASSUME NEW s \in Seq(Frame), NEW e \in Bit, NEW j \in Bit, ~(e = 1 /\ j = 1),
         WellFramed(s, e, 1, j), s # <<>>, NEW t, t = Tail(s)
  PROVE  t \in Seq(Frame) /\ Head(s) = "body" /\ WellFramed(t, e, 0, j)
<1> USE DEF Bit
<1>1. /\ t \in Seq(Frame) /\ Len(s) \in Nat /\ Len(s) >= 1
      /\ Len(t) \in Nat /\ Len(t) = Len(s) - 1
      /\ \A i \in 1..Len(t) : t[i] = s[i + 1]
      /\ Head(s) = s[1]
  BY Tailed, ZenonT(60)
<1>2. PICK n \in Nat : n = Len(s) /\ n >= 1
  BY <1>1
<1>3. (n + 1 + e + j) % 2 = 0 /\ n >= e
  BY <1>2 DEF WellFramed
<1>4. \A m \in 1..n : s[m] = IF e = 1 /\ m = n THEN "eos"
                             ELSE IF (m + 1) % 2 = 1 THEN "hdr" ELSE "body"
  BY <1>2 DEF WellFramed
<1>5. ~(e = 1 /\ n = 1)
  BY <1>3, Parity
<1>6. Head(s) = "body"
  <2>1. 1 \in 1..n /\ (1 + 1) % 2 # 1 /\ ~(e = 1 /\ 1 = n)
    BY <1>2, <1>5
  <2> QED BY <1>1, <1>4, <2>1
<1>7. (n - 1 + 0 + e + j) % 2 = 0
  BY <1>2, <1>3, Parity
<1>8. Len(t) = n - 1 /\ Len(t) >= e
  BY <1>1, <1>2, <1>3, <1>5
<1>9. ASSUME NEW m \in 1..(n - 1)
      PROVE  t[m] = IF e = 1 /\ m = n - 1 THEN "eos"
                    ELSE IF (m + 0) % 2 = 1 THEN "hdr" ELSE "body"
  <2>1. m + 1 \in 1..n /\ t[m] = s[m + 1]
    BY <1>1, <1>8
  <2>2. s[m + 1] = IF e = 1 /\ m + 1 = n THEN "eos"
                   ELSE IF (m + 1 + 1) % 2 = 1 THEN "hdr" ELSE "body"
    BY <1>4, <2>1
  <2>3. (m + 1 + 1) % 2 = (m + 0) % 2 /\ (m + 1 = n <=> m = n - 1)
    OBVIOUS
  <2> QED BY <2>1, <2>2, <2>3
<1> QED BY <1>1, <1>6, <1>7, <1>8, <1>9 DEF WellFramed

(* A header and its payload are read.                                      *)
LEMMA FramedPair ==
  ASSUME NEW s \in Seq(Frame), NEW e \in Bit, NEW j \in Bit, ~(e = 1 /\ j = 1),
         WellFramed(s, e, 0, j), Len(s) >= 2, NEW t, t = SubSeq(s, 3, Len(s))
  PROVE  t \in Seq(Frame) /\ WellFramed(t, e, 0, j)
<1> USE DEF Bit
<1>1. /\ t \in Seq(Frame) /\ Len(s) \in Nat /\ Len(t) \in Nat /\ Len(t) = Len(s) - 2
      /\ \A i \in 1..Len(t) : t[i] = s[i + 2]
  BY PairRead, Zenon
<1>2. PICK n \in Nat : n = Len(s) /\ n >= 2
  BY <1>1
<1>3. (n + 0 + e + j) % 2 = 0
  BY <1>2 DEF WellFramed
<1>4. \A m \in 1..n : s[m] = IF e = 1 /\ m = n THEN "eos"
                             ELSE IF (m + 0) % 2 = 1 THEN "hdr" ELSE "body"
  BY <1>2 DEF WellFramed
<1>5. ~(e = 1 /\ n = 2)
  BY <1>3, Parity
<1>7. (n - 2 + 0 + e + j) % 2 = 0
  BY <1>2, <1>3, Parity
<1>8. Len(t) = n - 2 /\ Len(t) >= e
  BY <1>1, <1>2, <1>5
<1>9. ASSUME NEW m \in 1..(n - 2)
      PROVE  t[m] = IF e = 1 /\ m = n - 2 THEN "eos"
                    ELSE IF (m + 0) % 2 = 1 THEN "hdr" ELSE "body"
  <2>1. m + 2 \in 1..n /\ t[m] = s[m + 2]
    BY <1>1, <1>8
  <2>2. s[m + 2] = IF e = 1 /\ m + 2 = n THEN "eos"
                   ELSE IF (m + 2 + 0) % 2 = 1 THEN "hdr" ELSE "body"
    BY <1>4, <2>1
  <2>3. (m + 2 + 0) % 2 = (m + 0) % 2 /\ (m + 2 = n <=> m = n - 2)
    OBVIOUS
  <2> QED BY <2>1, <2>2, <2>3
<1> QED BY <1>1, <1>7, <1>8, <1>9 DEF WellFramed

-----------------------------------------------------------------------------
(***************************************************************************)
(* Lemmas about the state and what the operators of the model change.      *)
(***************************************************************************)
PC == {"idle", "dial", "insert", "payload", "notify", "join", "end", "drain", "done"}
Thread == [pc : PC, c : Conn, todo : SUBSET Conn]
IoPC == {"start", "ack", "handshake", "poll", "exited"}
IoState == [pc : IoPC, c : Conn, listening : BOOLEAN]
Has == {"none", "held", "given"}
Count == 0..1

(* The parts of a well-typed state.                                        *)
LEMMA Parts ==
  ASSUME TypeOK
  PROVE  /\ \A c \in Conn, p \in Proc :
              /\ h[c][p] \in HandleMQTT
              /\ h[c][p].subscribed \in BOOLEAN /\ h[c][p].reg \in BOOLEAN
              /\ h[c][p].to_manage \in BOOLEAN /\ h[c][p].is_probed \in BOOLEAN
              /\ h[c][p].messages \in Seq(Frame)
              /\ h[c][p].probed \in Frame \union {"none"}
              /\ h[c][p].closed_rd \in BOOLEAN /\ h[c][p].closed_wr \in BOOLEAN
              /\ topic[c][p] \in Seq(Frame) /\ queue[p][c] \in 0..1
              /\ user[p][c] \in Has
         /\ \A c \in Conn : request[c] \in {"none", "sent", "lost", "taken"}
         /\ \A p \in Proc : /\ main[p] \in Thread /\ main[p].pc \in PC
                            /\ main[p].c \in Conn /\ main[p].todo \subseteq Conn
                            /\ io[p] \in IoState /\ io[p].pc \in IoPC /\ io[p].c \in Conn
<1>1. \A c \in Conn, p \in Proc : /\ h[c][p] \in HandleMQTT /\ topic[c][p] \in Seq(Frame)
                                  /\ queue[p][c] \in 0..1 /\ user[p][c] \in Has
  BY DEF TypeOK, Has
<1>2. \A c \in Conn, p \in Proc :
        /\ h[c][p].subscribed \in BOOLEAN /\ h[c][p].reg \in BOOLEAN
        /\ h[c][p].to_manage \in BOOLEAN /\ h[c][p].is_probed \in BOOLEAN
        /\ h[c][p].messages \in Seq(Frame)
        /\ h[c][p].probed \in Frame \union {"none"}
        /\ h[c][p].closed_rd \in BOOLEAN /\ h[c][p].closed_wr \in BOOLEAN
  BY <1>1 DEF HandleMQTT
<1>3. \A c \in Conn : request[c] \in {"none", "sent", "lost", "taken"}
  BY DEF TypeOK
<1>4. \A p \in Proc : main[p] \in Thread /\ io[p] \in IoState
  BY DEF TypeOK, Thread, PC, IoState, IoPC
<1>5. \A p \in Proc : /\ main[p].pc \in PC /\ main[p].c \in Conn /\ main[p].todo \subseteq Conn
                      /\ io[p].pc \in IoPC /\ io[p].c \in Conn
  BY <1>4 DEF Thread, IoState
<1> QED BY <1>1, <1>2, <1>3, <1>4, <1>5

(* Of the two processes of a connection one called and one is called.      *)
LEMMA TwoEnds ==
  ASSUME NEW c \in Conn, NEW p \in Proc
  PROVE  /\ Caller[c] \in Proc /\ Callee(c) \in Proc /\ Caller[c] # Callee(c)
         /\ p = Caller[c] => Callee(c) = Other(p)
         /\ p # Caller[c] => p = Callee(c) /\ Caller[c] = Other(p)
<1>1. Caller[c] \in Proc
  BY CallerAssumption
<1> QED BY <1>1, TwoProcs DEF Callee

(* What a change of the program's thread does.                             *)
LEMMA MainSet ==
  ASSUME TypeOK, NEW p \in Proc, NEW r \in Thread, main' = [main EXCEPT ![p] = r]
  PROVE  /\ main' \in [Proc -> Thread] /\ main'[p] = r
         /\ \A x \in Proc : x # p => main'[x] = main[x]
BY DEF TypeOK, Thread, PC

(* What Goto does.                                                         *)
LEMMA GotoSet ==
  ASSUME TypeOK, NEW p \in Proc, NEW l \in PC, Goto(p, l)
  PROVE  /\ main' \in [Proc -> Thread] /\ main'[p].pc = l
         /\ main'[p].c = main[p].c /\ main'[p].todo = main[p].todo
         /\ \A x \in Proc : x # p => main'[x] = main[x]
<1>1. PICK r : r = [main[p] EXCEPT !.pc = l]
  OBVIOUS
<1>2. main[p] \in Thread
  BY Parts
<1>3. r \in Thread /\ r.pc = l /\ r.c = main[p].c /\ r.todo = main[p].todo
  BY <1>1, <1>2 DEF Thread
<1>4. main' = [main EXCEPT ![p] = r]
  BY <1>1 DEF Goto
<1> QED BY <1>3, <1>4, MainSet

(* What Call does.                                                         *)
LEMMA CallSet ==
  ASSUME TypeOK, NEW p \in Proc, NEW l \in PC, NEW c \in Conn, Call(p, l, c)
  PROVE  /\ main' \in [Proc -> Thread] /\ main'[p].pc = l
         /\ main'[p].c = c /\ main'[p].todo = main[p].todo
         /\ \A x \in Proc : x # p => main'[x] = main[x]
<1>1. PICK r : r = [main[p] EXCEPT !.pc = l, !.c = c]
  OBVIOUS
<1>2. main[p] \in Thread
  BY Parts
<1>3. r \in Thread /\ r.pc = l /\ r.c = c /\ r.todo = main[p].todo
  BY <1>1, <1>2 DEF Thread
<1>4. main' = [main EXCEPT ![p] = r]
  BY <1>1, <1>2 DEF Call, TypeOK, Thread
<1> QED BY <1>3, <1>4, MainSet

(* What IoGoto does.                                                       *)
LEMMA IoGotoSet ==
  ASSUME TypeOK, NEW p \in Proc, NEW l \in IoPC, IoGoto(p, l)
  PROVE  /\ io' \in [Proc -> IoState] /\ io'[p].pc = l /\ io'[p].c = io[p].c
         /\ \A x \in Proc : x # p => io'[x] = io[x]
<1>1. PICK r : r = [io[p] EXCEPT !.pc = l]
  OBVIOUS
<1>2. io[p] \in IoState
  BY Parts
<1>3. r \in IoState /\ r.pc = l /\ r.c = io[p].c
  BY <1>1, <1>2 DEF IoState
<1>4. io' = [io EXCEPT ![p] = r]
  BY <1>1 DEF IoGoto
<1> QED BY <1>3, <1>4 DEF TypeOK, IoState, IoPC

(* The variables that a step leaves alone keep their types.                *)
LEMMA Typed ==
  ASSUME TypeOK, h' \in [Conn -> [Proc -> HandleMQTT]],
         topic' \in [Conn -> [Proc -> Seq(Frame)]], dropped' \subseteq Conn \X Proc,
         request' \in [Conn -> {"none", "sent", "lost", "taken"}],
         queue' \in [Proc -> [Conn -> Count]], user' \in [Proc -> [Conn -> Has]],
         main' \in [Proc -> Thread], io' \in [Proc -> IoState],
         sent' \in [Conn -> [Proc -> Nat]],
         \A c \in Conn, p \in Proc : sent'[c][p] <= MaxSend[p]
  PROVE  TypeOK'
BY DEF TypeOK, Has, Count, Thread, PC, IoState, IoPC

(* What Publish does: the peer's topic has one more message, or nobody     *)
(* subscribes to it.                                                       *)
LEMMA PublishSet ==
  ASSUME TypeOK, NEW c \in Conn, NEW p \in Proc, NEW f \in Frame, Publish(c, p, f)
  PROVE  /\ topic' \in [Conn -> [Proc -> Seq(Frame)]] /\ dropped' \subseteq Conn \X Proc
         /\ \A d \in Conn, x \in Proc : d # c \/ x # Other(p) =>
              topic'[d][x] = topic[d][x] /\ (<<d, x>> \in dropped' <=> <<d, x>> \in dropped)
         /\ h[c][Other(p)].subscribed =>
              topic'[c][Other(p)] = Append(topic[c][Other(p)], f) /\ dropped' = dropped
         /\ ~h[c][Other(p)].subscribed => topic'[c][Other(p)] = topic[c][Other(p)]
<1>1. PICK q \in Proc : q = Other(p)
  BY TwoProcs
<1>2. topic[c][q] \in Seq(Frame)
  BY Parts
<1>3. CASE h[c][q].subscribed
  <2>1. topic' = [topic EXCEPT ![c][q] = Append(@, f)] /\ dropped' = dropped
    BY <1>1, <1>3 DEF Publish
  <2>2. PICK t : t = Append(topic[c][q], f)
    OBVIOUS
  <2>3. t \in Seq(Frame)
    BY <1>2, <2>2, Appended
  <2>4. topic' = [topic EXCEPT ![c][q] = t]
    BY <2>1, <2>2 DEF TypeOK
  <2>5. /\ topic' \in [Conn -> [Proc -> Seq(Frame)]] /\ topic'[c][q] = t
        /\ \A d \in Conn, x \in Proc : d # c \/ x # q => topic'[d][x] = topic[d][x]
    BY <2>3, <2>4 DEF TypeOK
  <2>6. dropped' \subseteq Conn \X Proc
    BY <2>1 DEF TypeOK
  <2> QED BY <1>1, <1>3, <2>1, <2>2, <2>5, <2>6
<1>4. CASE ~h[c][q].subscribed
  <2>1. topic' = topic /\ dropped' = dropped \union {<<c, q>>}
    BY <1>1, <1>4 DEF Publish
  <2>2. dropped \subseteq Conn \X Proc /\ topic \in [Conn -> [Proc -> Seq(Frame)]]
    BY DEF TypeOK
  <2> QED BY <1>1, <1>4, <2>1, <2>2
<1> QED BY <1>3, <1>4

(* What each owner of an end excludes.                                     *)
LEMMA Exclusive ==
  ASSUME Inv, NEW c \in Conn, NEW p \in Proc
  PROVE  /\ user[p][c] = "held" => queue[p][c] = 0 /\ ~h[c][p].to_manage /\ ~Greeting(c, p)
         /\ queue[p][c] # 0 => queue[p][c] = 1 /\ user[p][c] # "held"
                               /\ ~h[c][p].to_manage /\ ~Greeting(c, p)
         /\ h[c][p].to_manage => user[p][c] # "held" /\ queue[p][c] = 0 /\ ~Greeting(c, p)
         /\ h[c][p].closed_rd => user[p][c] # "held" /\ queue[p][c] = 0
                                 /\ ~h[c][p].to_manage /\ ~Greeting(c, p)
         /\ Owners(c, p) = One(user[p][c] = "held") + queue[p][c] + One(h[c][p].to_manage)
                           + One(Greeting(c, p))
<1>1. queue[p][c] \in 0..1
  BY Parts DEF Inv
<1>2. Owners(c, p) <= 1 /\ (h[c][p].closed_rd => Owners(c, p) = 0)
  BY DEF Inv, Ends, EndAt
<1>3. Owners(c, p) = One(user[p][c] = "held") + queue[p][c] + One(h[c][p].to_manage)
                     + One(Greeting(c, p))
  BY DEF Owners, Greeting, IoAt
<1> QED BY <1>1, <1>2, <1>3 DEF One

-----------------------------------------------------------------------------
(***************************************************************************)
(* What a step of one process with one connection cannot disturb.          *)
(***************************************************************************)
(* The process is in the middle of the same with the connection.           *)
SameRoles(d, x) ==
    /\ (Calling(d, x)' <=> Calling(d, x)) /\ (Dialling(d, x)' <=> Dialling(d, x))
    /\ (Halfway(d, x)' <=> Halfway(d, x)) /\ (Acking(d, x)' <=> Acking(d, x))
    /\ (Greeting(d, x)' <=> Greeting(d, x))

(* Nobody does anything with the connection.                               *)
LEMMA OpeningKept ==
  ASSUME NEW c \in Conn, OpeningAt(c), request'[c] = request[c],
         \A x \in Proc :
           /\ h'[c][x] = h[c][x] /\ user'[x][c] = user[x][c] /\ queue'[x][c] = queue[x][c]
           /\ topic'[c][x] = topic[c][x] /\ SameRoles(c, x)
  PROVE  OpeningAt(c)'
<1>1. Caller[c] \in Proc /\ Callee(c) \in Proc
  BY CallerAssumption, TwoEnds
<1>2. \A x \in Proc : (Untouched(c, x)' <=> Untouched(c, x)) /\ (Blank(c, x)' <=> Blank(c, x))
  BY DEF Untouched, Blank
<1>3. Callee(c)' = Callee(c) /\ Caller' = Caller
  BY DEF Callee, Other
<1> QED BY <1>1, <1>2, <1>3 DEF OpeningAt, SameRoles

(* The end is not used.                                                    *)
LEMMA EndKept ==
  ASSUME NEW c \in Conn, NEW x \in Proc, EndAt(c, x), request'[c] = request[c],
         h'[c][x] = h[c][x], user'[x][c] = user[x][c], queue'[x][c] = queue[x][c],
         <<c, x>> \in dropped' => <<c, x>> \in dropped \/ h[c][x].closed_rd,
         Greeting(c, x)' <=> Greeting(c, x), Running(x)' => Running(x)
  PROVE  EndAt(c, x)'
<1>1. Owners(c, x)' = Owners(c, x)
  BY DEF Owners, Greeting, IoAt
<1> QED BY <1>1 DEF EndAt

(* The stream is neither written nor read.                                 *)
LEMMA StreamKept ==
  ASSUME NEW c \in Conn, NEW x \in Proc, StreamAt(c, x),
         h'[c][x] = h[c][x], topic'[c][x] = topic[c][x],
         h'[c][Other(x)].closed_wr <=> h[c][Other(x)].closed_wr,
         Halfway(c, Other(x))' <=> Halfway(c, Other(x)), Running(x)' => Running(x)
  PROVE  StreamAt(c, x)'
<1>1. /\ EOSComes(c, x)' = EOSComes(c, x) /\ Headed(c, x)' = Headed(c, x)
      /\ Owed(c, x)' = Owed(c, x)
  BY DEF EOSComes, Headed, Owed, Ended, One
<1>2. WellFramed(topic[c][x], EOSComes(c, x), Headed(c, x), Owed(c, x)) =>
        WellFramed(topic[c][x], EOSComes(c, x), Headed(c, x), Owed(c, x))'
  BY <1>1 DEF WellFramed
<1> QED BY <1>1, <1>2 DEF StreamAt

(* The process takes no step.                                              *)
LEMMA ThreadKept ==
  ASSUME TypeOK, NEW x \in Proc, ThreadAt(x), main'[x] = main[x], io'[x] = io[x],
         \A d \in Conn : user'[x][d] = user[x][d] /\ h'[d][x] = h[d][x]
  PROVE  ThreadAt(x)'
<1>1. main[x].c \in Conn /\ main[x].todo \subseteq Conn
  BY Parts
<1>2. \A d \in main[x].todo : h'[d][x] = h[d][x]
  BY <1>1
<1> QED BY <1>1, <1>2 DEF ThreadAt, At, Running

(* A step of p touches c only.                                             *)
Elsewhere(c, p) ==
    /\ \A d \in Conn : d # c => request'[d] = request[d] /\ SameRoles(d, p)
    /\ \A d \in Conn, x \in Proc : d # c \/ x # p =>
         h'[d][x] = h[d][x] /\ user'[x][d] = user[x][d] /\ queue'[x][d] = queue[x][d]
    /\ \A d \in Conn, x \in Proc : d # c =>
         topic'[d][x] = topic[d][x] /\ (<<d, x>> \in dropped' <=> <<d, x>> \in dropped)
    /\ \A x \in Proc : x # p => main'[x] = main[x] /\ io'[x] = io[x]
    /\ Running(p)' => Running(p)

(* What is left to show of such a step is about p and c.                   *)
LEMMA LocalKeeps ==
  ASSUME Inv, NEW c \in Conn, NEW p \in Proc, TypeOK', Elsewhere(c, p),
         OpeningAt(c)', EndAt(c, p)', EndAt(c, Other(p))', StreamAt(c, p)',
         StreamAt(c, Other(p))', ThreadAt(p)'
  PROVE  Inv'
<1> USE DEF Elsewhere
<1>1. TypeOK /\ Openings /\ Ends /\ Streams /\ Threads
  BY DEF Inv
<1>2. \A d \in Conn, x \in Proc : d # c => SameRoles(d, x)
  BY DEF SameRoles, Calling, Dialling, Halfway, Acking, Greeting, At, IoAt
<1>3. \A x \in Proc : Running(x)' => Running(x)
  BY DEF Running
<1>4. Openings'
  <2> SUFFICES ASSUME NEW d \in Conn PROVE OpeningAt(d)'
    BY DEF Openings
  <2>1. CASE d # c
    <3>1. OpeningAt(d)
      BY <1>1 DEF Openings
    <3> QED BY <1>2, <2>1, <3>1, OpeningKept, ZenonT(60)
  <2> QED BY <2>1
<1>5. Ends'
  <2> SUFFICES ASSUME NEW d \in Conn, NEW x \in Proc PROVE EndAt(d, x)'
    BY DEF Ends
  <2>1. CASE d # c
    <3>1. EndAt(d, x)
      BY <1>1 DEF Ends
    <3> QED BY <1>2, <1>3, <2>1, <3>1, EndKept DEF SameRoles
  <2>2. CASE d = c
    BY <2>2, TwoProcs
  <2> QED BY <2>1, <2>2
<1>6. Streams'
  <2> SUFFICES ASSUME NEW d \in Conn, NEW x \in Proc PROVE StreamAt(d, x)'
    BY DEF Streams
  <2>1. CASE d # c
    <3>1. StreamAt(d, x) /\ Other(x) \in Proc
      BY <1>1, TwoProcs DEF Streams
    <3>2. h'[d][Other(x)] = h[d][Other(x)] /\ (Halfway(d, Other(x))' <=> Halfway(d, Other(x)))
      BY <1>2, <2>1, <3>1 DEF SameRoles
    <3> QED BY <1>3, <2>1, <3>1, <3>2, StreamKept
  <2>2. CASE d = c
    BY <2>2, TwoProcs
  <2> QED BY <2>1, <2>2
<1>7. Threads'
  <2> SUFFICES ASSUME NEW x \in Proc PROVE ThreadAt(x)'
    BY DEF Threads
  <2>1. CASE x # p
    <3>1. ThreadAt(x)
      BY <1>1 DEF Threads
    <3> QED BY <1>1, <2>1, <3>1, ThreadKept
  <2> QED BY <2>1
<1> QED BY <1>4, <1>5, <1>6, <1>7 DEF Inv

(* A step of p that only moves its threads, and with no connection.        *)
LEMMA QuietKeeps ==
  ASSUME Inv, NEW p \in Proc, TypeOK', UNCHANGED <<h, topic, dropped, request, queue, user>>,
         \A x \in Proc : x # p => main'[x] = main[x] /\ io'[x] = io[x],
         \A d \in Conn : SameRoles(d, p),
         Running(p)' => Running(p), ThreadAt(p)'
  PROVE  Inv'
<1>1. PICK c \in Conn : TRUE
  BY ConnAssumption
<1>2. TypeOK /\ Openings /\ Ends /\ Streams /\ Other(p) \in Proc /\ Other(Other(p)) = p
  BY TwoProcs DEF Inv
<1>3. \A x \in Proc : SameRoles(c, x) /\ (Running(x)' => Running(x))
  BY DEF SameRoles, Calling, Dialling, Halfway, Acking, Greeting, At, IoAt, Running
<1>4. OpeningAt(c)'
  BY <1>2, <1>3, OpeningKept DEF Openings
<1>5. EndAt(c, p)' /\ EndAt(c, Other(p))'
  BY <1>2, <1>3, EndKept DEF Ends, SameRoles
<1>6. StreamAt(c, p)' /\ StreamAt(c, Other(p))'
  BY <1>2, <1>3, StreamKept DEF Streams, SameRoles
<1>7. Elsewhere(c, p)
  BY DEF Elsewhere
<1> QED BY <1>4, <1>5, <1>6, <1>7, LocalKeeps

(* The end is beyond its opening.                                          *)
Used(c, p) == user[p][c] # "none" \/ queue[p][c] # 0 \/ h[c][p].to_manage

(* A connection that one end uses is taken, and neither of its processes   *)
(* is opening this end.                                                    *)
LEMMA UsedIs ==
  ASSUME Inv, NEW c \in Conn, NEW p \in Proc, Used(c, p)
  PROVE  /\ request[c] = "taken" /\ ~Calling(c, p) /\ ~Acking(c, p) /\ ~Greeting(c, p)
         /\ p = Caller[c] => user[p][c] # "none" /\ ~Acking(c, Other(p))
         /\ p # Caller[c] => ~Calling(c, Other(p))
<1>1. TypeOK /\ OpeningAt(c) /\ EndAt(c, p)
  BY DEF Inv, Openings, Ends
<1>2. ~Untouched(c, p) /\ ~Blank(c, p)
  BY DEF Used, Untouched, Blank
<1>3. request[c] = "taken"
  <2>1. h[c][p].to_manage => h[c][p].reg
    BY <1>1, Exclusive DEF EndAt
  <2>2. queue[p][c] \in 0..1
    BY <1>1, Parts
  <2> QED BY <1>1, <2>1, <2>2 DEF EndAt, Used
<1>4. CASE p = Caller[c]
  <2>1. Callee(c) = Other(p)
    BY <1>4, TwoEnds
  <2>2. ~Calling(c, p) /\ ~Acking(c, p) /\ ~Greeting(c, p) /\ ~Dialling(c, p)
    BY <1>1, <1>2, <1>4, <2>1 DEF OpeningAt, Calling, Dialling, At
  <2> QED BY <1>1, <1>3, <1>4, <2>1, <2>2 DEF OpeningAt
<1>5. CASE p # Caller[c]
  <2>1. Callee(c) = p /\ Caller[c] = Other(p)
    BY <1>5, TwoEnds
  <2>2. ~Calling(c, p) /\ ~Acking(c, p) /\ ~Greeting(c, p)
    BY <1>1, <1>2, <2>1 DEF OpeningAt
  <2>3. ~Calling(c, Other(p))
    BY <1>1, <1>3, <2>1, <2>2 DEF OpeningAt
  <2> QED BY <1>3, <1>5, <2>2, <2>3
<1> QED BY <1>4, <1>5

(* What is done with an end in use does not concern its opening.           *)
LEMMA UsedKeepsOpening ==
  ASSUME Inv, NEW c \in Conn, NEW p \in Proc, Used(c, p), request'[c] = request[c],
         h'[c][Other(p)] = h[c][Other(p)], user'[Other(p)][c] = user[Other(p)][c],
         queue'[Other(p)][c] = queue[Other(p)][c],
         main'[Other(p)] = main[Other(p)], io'[Other(p)] = io[Other(p)],
         ~Calling(c, p)', ~Acking(c, p)', ~Greeting(c, p)',
         user'[p][c] = user[p][c] \/ user'[p][c] # "none"
  PROVE  OpeningAt(c)'
<1>1. OpeningAt(c) /\ TypeOK
  BY DEF Inv, Openings
<1>2. /\ request[c] = "taken" /\ ~Calling(c, p) /\ ~Acking(c, p) /\ ~Greeting(c, p)
      /\ (p = Caller[c] => user[p][c] # "none" /\ ~Acking(c, Other(p)))
      /\ (p # Caller[c] => ~Calling(c, Other(p)))
  BY UsedIs
<1>3. PICK q \in Proc : q = Other(p) /\ p # q
  BY TwoProcs
<1>4. /\ (Untouched(c, q)' <=> Untouched(c, q)) /\ (Blank(c, q)' <=> Blank(c, q))
      /\ (Calling(c, q)' <=> Calling(c, q)) /\ (Dialling(c, q)' <=> Dialling(c, q))
      /\ (Acking(c, q)' <=> Acking(c, q)) /\ (Greeting(c, q)' <=> Greeting(c, q))
  BY <1>3 DEF Untouched, Blank, Calling, Dialling, Acking, Greeting, At, IoAt
<1>5. ~Dialling(c, p)' /\ ~Dialling(c, p)
  BY <1>2 DEF Dialling, Calling, At
<1>6. CASE p = Caller[c]
  <2>1. Callee(c) = q /\ Callee(c)' = q
    BY <1>3, <1>6, TwoEnds DEF Callee
  <2> QED BY <1>1, <1>2, <1>3, <1>4, <1>5, <1>6, <2>1 DEF OpeningAt
<1>7. CASE p # Caller[c]
  <2>1. Callee(c) = p /\ Callee(c)' = p /\ Caller[c] = q
    BY <1>3, <1>7, TwoEnds DEF Callee
  <2>2. user[q][c] # "none"
    BY <1>1, <1>2, <1>3, <1>7, <2>1 DEF OpeningAt
  <2>3. ~Dialling(c, q)
    BY <1>2, <1>3, <1>7 DEF Dialling, Calling, At
  <2> QED BY <1>1, <1>2, <1>3, <1>4, <1>5, <1>7, <2>1, <2>2, <2>3 DEF OpeningAt
<1> QED BY <1>6, <1>7

(* Publishing what is due keeps the peer's end and stream.                 *)
LEMMA Published ==
  ASSUME Inv, NEW c \in Conn, NEW p \in Proc, NEW f \in Frame, Publish(c, p, f),
         request[c] = "taken", request'[c] = request[c],
         h'[c][Other(p)] = h[c][Other(p)], user'[Other(p)][c] = user[Other(p)][c],
         queue'[Other(p)][c] = queue[Other(p)][c],
         main'[Other(p)] = main[Other(p)], io'[Other(p)] = io[Other(p)],
         ~h[c][p].closed_wr,
         \/ f = "hdr" /\ ~Halfway(c, p) /\ Halfway(c, p)' /\ ~h'[c][p].closed_wr
         \/ f = "body" /\ Halfway(c, p) /\ ~Halfway(c, p)' /\ ~h'[c][p].closed_wr
         \/ f = "eos" /\ ~Halfway(c, p) /\ ~Halfway(c, p)' /\ h'[c][p].closed_wr
  PROVE  EndAt(c, Other(p))' /\ StreamAt(c, Other(p))'
<1>1. PICK q \in Proc : q = Other(p) /\ Other(q) = p
  BY TwoProcs
<1>2. TypeOK /\ EndAt(c, q) /\ StreamAt(c, q)
  BY <1>1 DEF Inv, Ends, Streams
<1>3. h[c][q].subscribed \/ h[c][q].closed_rd
  BY <1>2 DEF EndAt
<1>4. Running(q)' <=> Running(q)
  BY <1>1 DEF Running
<1>5. /\ h[c][q].subscribed => topic'[c][q] = Append(topic[c][q], f) /\ dropped' = dropped
      /\ ~h[c][q].subscribed => topic'[c][q] = topic[c][q]
  BY <1>1, <1>2, PublishSet
<1>6. EndAt(c, q)'
  <2>1. Greeting(c, q)' <=> Greeting(c, q)
    BY <1>1 DEF Greeting, IoAt
  <2>2. <<c, q>> \in dropped' => <<c, q>> \in dropped \/ h[c][q].closed_rd
    BY <1>3, <1>5
  <2> QED BY <1>1, <1>2, <1>4, <2>1, <2>2, EndKept
<1>7. StreamAt(c, q)'
  <2> SUFFICES ASSUME Running(q)', h'[c][q].reg, ~h'[c][q].closed_rd PROVE StreamAt(c, q)'
    BY DEF StreamAt
  <2>1. /\ Running(q) /\ h[c][q].reg /\ ~h[c][q].closed_rd
        /\ h[c][q].subscribed /\ topic'[c][q] = Append(topic[c][q], f)
    BY <1>1, <1>3, <1>4, <1>5
  <2>2. /\ h[c][q].messages # <<"eos">>
        /\ WellFramed(topic[c][q], EOSComes(c, q), Headed(c, q), Owed(c, q))
    BY <1>1, <1>2, <2>1 DEF StreamAt
  <2>a. /\ topic[c][q] \in Seq(Frame) /\ Headed(c, q) \in Bit /\ Owed(c, q) \in Bit
        /\ Owed(c, q)' \in Bit /\ EOSComes(c, q)' \in Bit
    BY <1>2, Parts DEF Bit, Headed, Owed, EOSComes, One
  <2>b. PICK s \in Seq(Frame) : s = topic[c][q]
    BY <2>a
  <2>e. PICK t : t = topic'[c][q]
    OBVIOUS
  <2>c. PICK k \in Bit, j \in Bit : k = Headed(c, q) /\ j = Owed(c, q)
    BY <2>a
  <2>d. PICK i \in Bit, e \in Bit : i = Owed(c, q)' /\ e = EOSComes(c, q)'
    BY <2>a
  <2>3. /\ s = topic[c][q] /\ t = topic'[c][q] /\ k = Headed(c, q)
        /\ j = Owed(c, q) /\ i = Owed(c, q)' /\ e = EOSComes(c, q)'
    BY <2>b, <2>c, <2>d, <2>e
  <2>4. /\ EOSComes(c, q) = 0 /\ Headed(c, q)' = k
    BY <1>1, <2>2, <2>3 DEF EOSComes, Headed, Ended, One
  <2>5. Due(f, j, i, e)
    BY <1>1, <2>2, <2>3 DEF Due, Owed, EOSComes, Ended, One
  <2>6. WellFramed(s, 0, k, j) /\ t = Append(s, f)
    BY <2>1, <2>2, <2>3, <2>4
  <2>7. WellFramed(t, e, k, i)
    BY <2>5, <2>6, FramedAppend
  <2>8. WellFramed(topic[c][q], EOSComes(c, q), Headed(c, q), Owed(c, q))'
    BY <2>3, <2>4, <2>7 DEF WellFramed
  <2> QED BY <1>1, <1>2, <2>1, <2>2, <2>8 DEF StreamAt
<1> QED BY <1>1, <1>6, <1>7

-----------------------------------------------------------------------------
(***************************************************************************)
(* Every action keeps the invariant.  Those that only move a thread.       *)
(***************************************************************************)
(* The types of sent and of what a step leaves alone.                      *)
LEMMA OwnTypes ==
  ASSUME TypeOK
  PROVE  /\ h \in [Conn -> [Proc -> HandleMQTT]] /\ topic \in [Conn -> [Proc -> Seq(Frame)]]
         /\ dropped \subseteq Conn \X Proc
         /\ request \in [Conn -> {"none", "sent", "lost", "taken"}]
         /\ queue \in [Proc -> [Conn -> Count]] /\ user \in [Proc -> [Conn -> Has]]
         /\ main \in [Proc -> Thread] /\ io \in [Proc -> IoState]
         /\ sent \in [Conn -> [Proc -> Nat]]
         /\ \A c \in Conn, p \in Proc : sent[c][p] <= MaxSend[p]
BY DEF TypeOK, Has, Count, Thread, PC, IoState, IoPC

(* Manager::listen.                                                        *)
LEMMA ListenKeeps ==
  ASSUME Inv, NEW p \in Proc, Listen(p)
  PROVE  Inv'
<1>1. TypeOK /\ ThreadAt(p)
  BY DEF Inv, Threads
<1>2. UNCHANGED <<h, topic, dropped, request, queue, user, main, sent>>
  BY DEF Listen
<1>3. /\ io' \in [Proc -> IoState] /\ io'[p].pc = io[p].pc /\ io'[p].c = io[p].c
      /\ \A x \in Proc : x # p => io'[x] = io[x]
  <2>1. PICK r : r = [io[p] EXCEPT !.listening = TRUE]
    OBVIOUS
  <2>2. io[p] \in IoState
    BY <1>1, Parts
  <2>3. r \in IoState /\ r.pc = io[p].pc /\ r.c = io[p].c
    BY <2>1, <2>2 DEF IoState
  <2>4. io' = [io EXCEPT ![p] = r]
    BY <2>1 DEF Listen
  <2> QED BY <1>1, <2>3, <2>4, OwnTypes
<1>4. TypeOK'
  BY <1>1, <1>2, <1>3, OwnTypes, Typed
<1>5. Running(p)' => Running(p)
  BY <1>3 DEF Running
<1>6. ThreadAt(p)'
  BY <1>1, <1>2, <1>3 DEF ThreadAt, At, Running
<1>7. \A d \in Conn : SameRoles(d, p)
  BY <1>2, <1>3 DEF SameRoles, Calling, Dialling, Halfway, Acking, Greeting, At, IoAt
<1> QED BY <1>2, <1>3, <1>4, <1>5, <1>6, <1>7, QuietKeeps

(* Manager::finalize, up to the join.                                      *)
LEMMA FinalizeKeeps ==
  ASSUME Inv, NEW p \in Proc, Finalize(p)
  PROVE  Inv'
<1>1. TypeOK /\ ThreadAt(p) /\ At(p, "idle")
  BY DEF Inv, Threads, Finalize, Idle
<1>2. UNCHANGED <<h, topic, dropped, request, queue, user, io, sent>>
  BY DEF Finalize
<1>3. /\ main' \in [Proc -> Thread] /\ main'[p].pc = "join" /\ main'[p].todo = main[p].todo
      /\ \A x \in Proc : x # p => main'[x] = main[x]
  BY <1>1, GotoSet DEF Finalize, PC
<1>4. TypeOK'
  BY <1>1, <1>2, <1>3, OwnTypes, Typed
<1>5. Running(p)' => Running(p)
  BY <1>2 DEF Running
<1>6. ThreadAt(p)'
  BY <1>1, <1>2, <1>3 DEF ThreadAt, At, Running
<1>7. \A d \in Conn : SameRoles(d, p)
  BY <1>1, <1>2, <1>3 DEF SameRoles, Calling, Dialling, Halfway, Acking, Greeting, At, IoAt
<1> QED BY <1>2, <1>3, <1>4, <1>5, <1>6, <1>7, QuietKeeps

(* The IO thread is joined: ConnMQTT::end begins.                          *)
LEMMA JoinKeeps ==
  ASSUME Inv, NEW p \in Proc, Join(p)
  PROVE  Inv'
<1>1. TypeOK /\ ThreadAt(p) /\ At(p, "join") /\ ~Running(p)
  BY DEF Inv, Threads, Join, Running
<1>2. UNCHANGED <<h, topic, dropped, request, queue, user, io, sent>>
  BY DEF Join
<1>3. /\ main' \in [Proc -> Thread] /\ main'[p].pc = "end" /\ main'[p].todo = ToClose(p)
      /\ \A x \in Proc : x # p => main'[x] = main[x]
  <2>1. PICK r : r = [main[p] EXCEPT !.pc = "end", !.todo = ToClose(p)]
    OBVIOUS
  <2>2. main[p] \in Thread /\ ToClose(p) \subseteq Conn
    BY <1>1, Parts DEF ToClose
  <2>3. r \in Thread /\ r.pc = "end" /\ r.todo = ToClose(p)
    BY <2>1, <2>2 DEF Thread, PC
  <2>4. main' = [main EXCEPT ![p] = r]
    BY <1>1, <2>1 DEF Join, TypeOK
  <2> QED BY <1>1, <2>3, <2>4, MainSet
<1>4. TypeOK'
  BY <1>1, <1>2, <1>3, OwnTypes, Typed
<1>5. Running(p)' => Running(p)
  BY <1>2 DEF Running
<1>6. ThreadAt(p)'
  <2>1. \A c \in main'[p].todo : h'[c][p].to_manage
    BY <1>2, <1>3 DEF ToClose
  <2> QED BY <1>1, <1>2, <1>3, <2>1 DEF ThreadAt, At, Running
<1>7. \A d \in Conn : SameRoles(d, p)
  BY <1>1, <1>2, <1>3 DEF SameRoles, Calling, Dialling, Halfway, Acking, Greeting, At, IoAt
<1> QED BY <1>2, <1>3, <1>4, <1>5, <1>6, <1>7, QuietKeeps

(* ConnMQTT::end has closed everything.                                    *)
LEMMA EndDoneKeeps ==
  ASSUME Inv, NEW p \in Proc, EndDone(p)
  PROVE  Inv'
<1>1. TypeOK /\ ThreadAt(p) /\ At(p, "end") /\ main[p].todo = {}
  BY DEF Inv, Threads, EndDone
<1>2. UNCHANGED <<h, topic, dropped, request, queue, user, io, sent>>
  BY DEF EndDone
<1>3. /\ main' \in [Proc -> Thread] /\ main'[p].pc = "done" /\ main'[p].todo = main[p].todo
      /\ \A x \in Proc : x # p => main'[x] = main[x]
  BY <1>1, GotoSet DEF EndDone, PC
<1>4. TypeOK'
  BY <1>1, <1>2, <1>3, OwnTypes, Typed
<1>5. Running(p)' => Running(p)
  BY <1>2 DEF Running
<1>6. ThreadAt(p)'
  BY <1>1, <1>2, <1>3 DEF ThreadAt, At, Running
<1>7. \A d \in Conn : SameRoles(d, p)
  BY <1>1, <1>2, <1>3 DEF SameRoles, Calling, Dialling, Halfway, Acking, Greeting, At, IoAt
<1> QED BY <1>2, <1>3, <1>4, <1>5, <1>6, <1>7, QuietKeeps

(* The IO thread ends.                                                     *)
LEMMA IoExitKeeps ==
  ASSUME Inv, NEW p \in Proc, IoExit(p)
  PROVE  Inv'
<1>1. TypeOK /\ ThreadAt(p) /\ At(p, "join") /\ IoAt(p, "start")
  BY DEF Inv, Threads, IoExit
<1>2. UNCHANGED <<h, topic, dropped, request, queue, user, main, sent>>
  BY DEF IoExit
<1>3. /\ io' \in [Proc -> IoState] /\ io'[p].pc = "exited"
      /\ \A x \in Proc : x # p => io'[x] = io[x]
  BY <1>1, IoGotoSet DEF IoExit, IoPC
<1>4. TypeOK'
  BY <1>1, <1>2, <1>3, OwnTypes, Typed
<1>5. Running(p)' => Running(p)
  BY <1>3 DEF Running
<1>6. ThreadAt(p)'
  BY <1>1, <1>2, <1>3 DEF ThreadAt, At, Running
<1>7. \A d \in Conn : SameRoles(d, p)
  BY <1>1, <1>2, <1>3 DEF SameRoles, Calling, Dialling, Halfway, Acking, Greeting, At, IoAt
<1> QED BY <1>2, <1>3, <1>4, <1>5, <1>6, <1>7, QuietKeeps

(***************************************************************************)
(* The actions that open a connection.                                     *)
(***************************************************************************)
(* ConnMQTT::connect up to the request.                                    *)
LEMMA ConnectKeeps ==
  ASSUME Inv, NEW p \in Proc, NEW c \in Conn, Connect(p, c)
  PROVE  Inv'
<1>1. /\ TypeOK /\ ThreadAt(p) /\ At(p, "idle") /\ Caller[c] = p /\ request[c] = "none"
      /\ OpeningAt(c) /\ EndAt(c, p)
  BY DEF Inv, Threads, Openings, Ends, Connect, Idle
<1>2. UNCHANGED <<topic, dropped, queue, user, io, sent>>
  BY DEF Connect
<1>3. PICK q \in Proc : q = Other(p) /\ q # p /\ Callee(c) = q /\ Other(q) = p
  BY <1>1, TwoEnds, TwoProcs
<1>4. EndAt(c, q) /\ ThreadAt(q)
  BY DEF Inv, Ends, Threads
<1>5. PICK r : r = [h[c][p] EXCEPT !.subscribed = TRUE]
  OBVIOUS
<1>6. h[c][p] \in HandleMQTT
  BY <1>1, Parts
<1>7. /\ r \in HandleMQTT /\ r.subscribed /\ (r.reg <=> h[c][p].reg)
      /\ (r.to_manage <=> h[c][p].to_manage) /\ (r.is_probed <=> h[c][p].is_probed)
      /\ r.messages = h[c][p].messages /\ r.probed = h[c][p].probed
      /\ (r.closed_rd <=> h[c][p].closed_rd) /\ (r.closed_wr <=> h[c][p].closed_wr)
  BY <1>5, <1>6 DEF HandleMQTT
<1>8. h' = [h EXCEPT ![c][p] = r]
  BY <1>1, <1>5 DEF Connect, TypeOK
<1>9. /\ h' \in [Conn -> [Proc -> HandleMQTT]] /\ h'[c][p] = r
      /\ \A d \in Conn, x \in Proc : d # c \/ x # p => h'[d][x] = h[d][x]
  BY <1>1, <1>7, <1>8 DEF TypeOK
<1>10. /\ request' \in [Conn -> {"none", "sent", "lost", "taken"}]
       /\ request'[c] \in {"sent", "lost"}
       /\ \A d \in Conn : d # c => request'[d] = request[d]
  BY <1>1 DEF Connect, TypeOK
<1>11. /\ main' \in [Proc -> Thread] /\ main'[p].pc = "dial" /\ main'[p].c = c
       /\ main'[p].todo = main[p].todo
       /\ \A x \in Proc : x # p => main'[x] = main[x]
  BY <1>1, CallSet DEF Connect, PC
<1>12. TypeOK'
  BY <1>1, <1>2, <1>9, <1>10, <1>11, OwnTypes, Typed
<1>13. Blank(c, p) /\ Blank(c, q) /\ topic[c][p] = <<>> /\ topic[c][q] = <<>>
       /\ ~Acking(c, q) /\ ~Greeting(c, q) /\ ~Calling(c, q) /\ ~Acking(c, p) /\ ~Greeting(c, p)
  BY <1>1, <1>3 DEF OpeningAt
<1>14. Blank(c, p)' /\ Blank(c, q)'
  BY <1>2, <1>3, <1>7, <1>9, <1>13 DEF Blank, Untouched
<1>15. /\ Calling(c, p)' /\ Dialling(c, p)' /\ ~Acking(c, p)' /\ ~Greeting(c, p)'
       /\ ~Acking(c, q)' /\ ~Greeting(c, q)' /\ ~Calling(c, q)'
  BY <1>2, <1>3, <1>11, <1>13 DEF Calling, Dialling, Acking, Greeting, At, IoAt
<1>16. OpeningAt(c)'
  <2>1. Callee(c)' = q /\ user'[p][c] = "none" /\ topic' = topic
    BY <1>2, <1>3, <1>13 DEF Callee, Blank, Untouched
  <2> QED BY <1>1, <1>10, <1>13, <1>14, <1>15, <2>1 DEF OpeningAt
<1>17. EndAt(c, p)'
  <2>1. Owners(c, p)' = 0
    BY <1>14, <1>15 DEF Owners, One, Blank, Untouched, Greeting, IoAt
  <2>2. <<c, p>> \notin dropped
    BY <1>1, <1>13 DEF EndAt, Blank, Untouched
  <2> QED BY <1>2, <1>7, <1>9, <1>14, <2>1, <2>2 DEF EndAt, Blank, Untouched
<1>18. EndAt(c, q)'
  <2>1. Owners(c, q)' = 0
    BY <1>14, <1>15 DEF Owners, One, Blank, Untouched, Greeting, IoAt
  <2>2. <<c, q>> \notin dropped
    BY <1>4, <1>13 DEF EndAt, Blank, Untouched
  <2> QED BY <1>1, <1>2, <1>3, <1>10, <1>14, <2>1, <2>2 DEF EndAt, Blank, Untouched
<1>19. StreamAt(c, p)' /\ StreamAt(c, q)'
  BY <1>14 DEF StreamAt, Blank
<1>20. ThreadAt(p)'
  BY <1>1, <1>2, <1>11 DEF ThreadAt, At, Running
<1>21. \A d \in Conn : d # c => SameRoles(d, p)
  BY <1>1, <1>2, <1>11 DEF SameRoles, Calling, Dialling, Halfway, Acking, Greeting, At, IoAt
<1>22. Running(p)' => Running(p)
  BY <1>2 DEF Running
<1>23. Elsewhere(c, p)
  BY <1>2, <1>9, <1>10, <1>11, <1>21, <1>22 DEF Elsewhere
<1> QED BY <1>3, <1>12, <1>16, <1>17, <1>18, <1>19, <1>20, <1>23, LocalKeeps

(* The ack comes.                                                          *)
LEMMA ConnectAckedKeeps ==
  ASSUME Inv, NEW p \in Proc, NEW c \in Conn, main[p].c = c, ConnectAcked(p)
  PROVE  Inv'
<1>1. /\ TypeOK /\ ThreadAt(p) /\ At(p, "dial") /\ topic[c][p] # <<>>
      /\ OpeningAt(c) /\ EndAt(c, p)
  BY DEF Inv, Threads, Openings, Ends, ConnectAcked
<1>2. UNCHANGED <<h, dropped, request, queue, user, io, sent>>
  BY DEF ConnectAcked
<1>3. Calling(c, p) /\ Dialling(c, p)
  BY <1>1 DEF Calling, Dialling, At
<1>4. Caller[c] = p
  BY <1>1, <1>3, TwoEnds DEF OpeningAt
<1>5. PICK q \in Proc : q = Other(p) /\ q # p /\ Callee(c) = q /\ Other(q) = p
  BY <1>4, TwoEnds, TwoProcs
<1>6. /\ request[c] = "taken" /\ Greeting(c, q) /\ topic[c][p] = <<"ack">>
      /\ ~Acking(c, p) /\ ~Greeting(c, p) /\ ~Calling(c, q)
      /\ Blank(c, p) /\ topic[c][q] = <<>> /\ Untouched(c, q) /\ h[c][q].reg
  BY <1>1, <1>3, <1>4, <1>5 DEF OpeningAt
<1>7. /\ topic' \in [Conn -> [Proc -> Seq(Frame)]] /\ topic'[c][p] = <<>>
      /\ \A d \in Conn, x \in Proc : d # c \/ x # p => topic'[d][x] = topic[d][x]
  <2>1. PICK t : t = Tail(topic[c][p])
    OBVIOUS
  <2>2. t = <<>> /\ t \in Seq(Frame)
    BY <1>6, <2>1
  <2>3. topic' = [topic EXCEPT ![c][p] = Tail(@)]
    BY DEF ConnectAcked
  <2>4. topic' = [topic EXCEPT ![c][p] = t]
    BY <1>1, <2>1, <2>3 DEF TypeOK
  <2> QED BY <1>1, <2>2, <2>4 DEF TypeOK
<1>8. /\ main' \in [Proc -> Thread] /\ main'[p].pc = "insert" /\ main'[p].c = c
      /\ main'[p].todo = main[p].todo
      /\ \A x \in Proc : x # p => main'[x] = main[x]
  BY <1>1, GotoSet DEF ConnectAcked, PC
<1>9. TypeOK'
  BY <1>1, <1>2, <1>7, <1>8, OwnTypes, Typed
<1>10. /\ Calling(c, p)' /\ ~Dialling(c, p)' /\ ~Halfway(c, p)' /\ ~Halfway(c, p)
       /\ ~Acking(c, p)' /\ ~Greeting(c, p)'
       /\ Greeting(c, q)' /\ ~Acking(c, q)' /\ ~Calling(c, q)' /\ ~Acking(c, q)
  BY <1>1, <1>2, <1>5, <1>6, <1>8
     DEF Calling, Dialling, Halfway, Acking, Greeting, At, IoAt
<1>11. Blank(c, p)' /\ Untouched(c, q)' /\ h'[c][q].reg
  BY <1>2, <1>6 DEF Blank, Untouched
<1>12. OpeningAt(c)'
  <2>1. Callee(c)' = q /\ user'[p][c] = "none" /\ topic'[c][q] = <<>>
    BY <1>2, <1>5, <1>6, <1>7 DEF Callee, Blank, Untouched
  <2> QED BY <1>2, <1>4, <1>6, <1>7, <1>10, <1>11, <2>1 DEF OpeningAt
<1>13. Running(p)' => Running(p)
  BY <1>2 DEF Running
<1>14. EndAt(c, p)' /\ EndAt(c, q)'
  BY <1>1, <1>2, <1>6, <1>10, EndKept DEF Inv, Ends, Running
<1>15. StreamAt(c, p)'
  BY <1>11 DEF StreamAt, Blank
<1>16. StreamAt(c, q)'
  <2>1. StreamAt(c, q) /\ (Running(q)' => Running(q))
    BY <1>2 DEF Inv, Streams, Running
  <2>2. Halfway(c, Other(q))' <=> Halfway(c, Other(q))
    BY <1>5, <1>10
  <2>3. topic'[c][q] = topic[c][q]
    BY <1>5, <1>7
  <2> QED BY <1>2, <2>1, <2>2, <2>3, StreamKept
<1>17. ThreadAt(p)'
  BY <1>1, <1>2, <1>8 DEF ThreadAt, At, Running
<1>18. \A d \in Conn : d # c => SameRoles(d, p)
  BY <1>2, <1>8 DEF SameRoles, Calling, Dialling, Halfway, Acking, Greeting, At, IoAt
<1>19. Elsewhere(c, p)
  BY <1>2, <1>7, <1>8, <1>13, <1>18 DEF Elsewhere
<1>20. EndAt(c, Other(p))' /\ StreamAt(c, Other(p))'
  BY <1>5, <1>14, <1>16
<1> QED BY <1>9, <1>12, <1>14, <1>15, <1>17, <1>19, <1>20, LocalKeeps

(* The entry in the table and the header of the handshake.                 *)
LEMMA ConnectInsertKeeps ==
  ASSUME Inv, NEW p \in Proc, NEW c \in Conn, main[p].c = c, ConnectInsert(p)
  PROVE  Inv'
<1>1. /\ TypeOK /\ ThreadAt(p) /\ At(p, "insert") /\ OpeningAt(c) /\ EndAt(c, p)
  BY DEF Inv, Threads, Openings, Ends, ConnectInsert
<1>2. UNCHANGED <<request, queue, io, sent>> /\ Publish(c, p, "hdr")
  BY DEF ConnectInsert
<1>3. Calling(c, p) /\ ~Dialling(c, p)
  BY <1>1 DEF Calling, Dialling, At
<1>4. Caller[c] = p
  BY <1>1, <1>3, TwoEnds DEF OpeningAt
<1>5. PICK q \in Proc : q = Other(p) /\ q # p /\ Callee(c) = q /\ Other(q) = p
  BY <1>4, TwoEnds, TwoProcs
<1>6. /\ request[c] = "taken" /\ Greeting(c, q) /\ topic[c][p] = <<>>
      /\ ~Acking(c, p) /\ ~Greeting(c, p) /\ ~Calling(c, q) /\ ~Acking(c, q)
      /\ Blank(c, p) /\ Untouched(c, q) /\ h[c][q].reg
  BY <1>1, <1>3, <1>4, <1>5 DEF OpeningAt
<1>7. PICK r : r = [h[c][p] EXCEPT !.reg = TRUE]
  OBVIOUS
<1>8. h[c][p] \in HandleMQTT
  BY <1>1, Parts
<1>9. /\ r \in HandleMQTT /\ r.reg /\ (r.subscribed <=> h[c][p].subscribed)
      /\ (r.to_manage <=> h[c][p].to_manage) /\ (r.is_probed <=> h[c][p].is_probed)
      /\ r.messages = h[c][p].messages /\ r.probed = h[c][p].probed
      /\ (r.closed_rd <=> h[c][p].closed_rd) /\ (r.closed_wr <=> h[c][p].closed_wr)
  BY <1>7, <1>8 DEF HandleMQTT
<1>10. h' = [h EXCEPT ![c][p] = r]
  BY <1>1, <1>7 DEF ConnectInsert, TypeOK
<1>11. /\ h' \in [Conn -> [Proc -> HandleMQTT]] /\ h'[c][p] = r
       /\ \A d \in Conn, x \in Proc : d # c \/ x # p => h'[d][x] = h[d][x]
  BY <1>1, <1>9, <1>10 DEF TypeOK
<1>12. /\ user' \in [Proc -> [Conn -> Has]] /\ user'[p][c] = "held"
       /\ \A d \in Conn, x \in Proc : d # c \/ x # p => user'[x][d] = user[x][d]
  BY <1>1, OwnTypes DEF ConnectInsert, Has
<1>13. /\ main' \in [Proc -> Thread] /\ main'[p].pc = "payload" /\ main'[p].c = c
       /\ main'[p].todo = main[p].todo
       /\ \A x \in Proc : x # p => main'[x] = main[x]
  BY <1>1, GotoSet DEF ConnectInsert, PC
<1>14. /\ topic' \in [Conn -> [Proc -> Seq(Frame)]] /\ dropped' \subseteq Conn \X Proc
       /\ \A d \in Conn, x \in Proc : d # c \/ x # q =>
            topic'[d][x] = topic[d][x] /\ (<<d, x>> \in dropped' <=> <<d, x>> \in dropped)
  BY <1>1, <1>2, <1>5, PublishSet DEF Frame
<1>15. TypeOK'
  BY <1>1, <1>2, <1>11, <1>12, <1>13, <1>14, OwnTypes, Typed
<1>16. /\ ~Calling(c, p)' /\ ~Dialling(c, p)' /\ Halfway(c, p)' /\ ~Halfway(c, p)
       /\ ~Acking(c, p)' /\ ~Greeting(c, p)'
       /\ Greeting(c, q)' /\ ~Acking(c, q)' /\ ~Calling(c, q)'
  BY <1>1, <1>2, <1>5, <1>6, <1>13
     DEF Calling, Dialling, Halfway, Acking, Greeting, At, IoAt
<1>17. Untouched(c, q)' /\ h'[c][q].reg
  BY <1>2, <1>5, <1>6, <1>11, <1>12 DEF Untouched
<1>18. OpeningAt(c)'
  <2>1. Callee(c)' = q
    BY <1>5 DEF Callee
  <2> QED BY <1>2, <1>4, <1>6, <1>12, <1>16, <1>17, <2>1 DEF OpeningAt
<1>19. EndAt(c, p)'
  <2>1. Owners(c, p)' = 1
    BY <1>2, <1>6, <1>9, <1>11, <1>12, <1>16 DEF Owners, One, Blank, Untouched, Greeting, IoAt
  <2>2. <<c, p>> \notin dropped'
    BY <1>1, <1>5, <1>6, <1>14 DEF EndAt, Blank, Untouched
  <2>3. h[c][p].subscribed
    BY <1>1, <1>4, <1>6 DEF EndAt, Blank, Untouched
  <2> QED BY <1>2, <1>6, <1>9, <1>11, <1>12, <2>1, <2>2, <2>3 DEF EndAt, Blank, Untouched
<1>20. EndAt(c, Other(p))' /\ StreamAt(c, Other(p))'
  <2>1. /\ h'[c][Other(p)] = h[c][Other(p)] /\ user'[Other(p)][c] = user[Other(p)][c]
        /\ queue'[Other(p)][c] = queue[Other(p)][c]
        /\ main'[Other(p)] = main[Other(p)] /\ io'[Other(p)] = io[Other(p)]
    BY <1>2, <1>5, <1>11, <1>12, <1>13
  <2>2. ~h[c][p].closed_wr /\ ~h'[c][p].closed_wr /\ request'[c] = request[c]
    BY <1>2, <1>6, <1>9, <1>11 DEF Blank, Untouched
  <2>3. "hdr" \in Frame
    BY DEF Frame
  <2> QED BY <1>2, <1>6, <1>16, <2>1, <2>2, <2>3, Published
<1>21. StreamAt(c, p)'
  <2>1. ~Halfway(c, q)'
    <3>1. ThreadAt(q) /\ user[q][c] = "none"
      BY <1>6 DEF Inv, Threads, Untouched
    <3> QED BY <1>5, <1>13, <3>1 DEF ThreadAt, Halfway, At
  <2>2. ~h'[c][q].closed_wr
    BY <1>17 DEF Untouched
  <2>3. EOSComes(c, p)' = 0 /\ Headed(c, p)' = 0 /\ Owed(c, p)' = 0
    BY <1>5, <1>6, <1>9, <1>11, <2>1, <2>2
       DEF EOSComes, Headed, Owed, One, Blank, Untouched
  <2>4. topic'[c][p] = <<>>
    BY <1>5, <1>6, <1>14
  <2>5. WellFramed(topic[c][p], EOSComes(c, p), Headed(c, p), Owed(c, p))'
    BY <2>3, <2>4 DEF WellFramed
  <2>6. ~h'[c][p].is_probed /\ h'[c][p].messages = <<>> /\ h'[c][p].probed = "none"
    BY <1>6, <1>9, <1>11 DEF Blank, Untouched
  <2> QED BY <2>5, <2>6 DEF StreamAt
<1>22. ThreadAt(p)'
  BY <1>1, <1>2, <1>6, <1>9, <1>11, <1>12, <1>13 DEF ThreadAt, At, Running, Blank, Untouched
<1>23. \A d \in Conn : d # c => SameRoles(d, p)
  BY <1>2, <1>13 DEF SameRoles, Calling, Dialling, Halfway, Acking, Greeting, At, IoAt
<1>24. Running(p)' => Running(p)
  BY <1>2 DEF Running
<1>25. Elsewhere(c, p)
  BY <1>2, <1>11, <1>12, <1>13, <1>14, <1>23, <1>24 DEF Elsewhere
<1> QED BY <1>15, <1>18, <1>19, <1>20, <1>21, <1>22, <1>25, LocalKeeps

(* Accept, for one request.                                                *)
AcceptOne(p, c) ==
    /\ c \in Requests(p) /\ IoAt(p, "start") /\ ~At(p, "join")
    /\ request' = [request EXCEPT ![c] = "taken"] /\ h' = Subscribed(c, p)
    /\ io' = [io EXCEPT ![p].pc = "ack", ![p].c = c]
    /\ UNCHANGED <<topic, dropped, queue, user, main, sent>>

(* The IO thread takes a request and subscribes.                           *)
LEMMA AcceptKeeps ==
  ASSUME Inv, NEW p \in Proc, NEW c \in Conn, AcceptOne(p, c)
  PROVE  Inv'
<1>1. /\ TypeOK /\ ThreadAt(p) /\ Callee(c) = p /\ request[c] = "sent" /\ IoAt(p, "start")
      /\ UNCHANGED <<topic, dropped, queue, user, main, sent>>
  BY DEF Inv, Threads, Requests, AcceptOne
<1>2. OpeningAt(c) /\ EndAt(c, p)
  BY <1>1 DEF Inv, Openings, Ends
<1>3. PICK q \in Proc : q = Other(p) /\ q # p /\ Caller[c] = q /\ Other(q) = p
  BY <1>1, TwoEnds, TwoProcs
<1>4. EndAt(c, q)
  BY <1>1 DEF Inv, Ends
<1>5. user[q][c] = "none"
  BY <1>1, <1>4 DEF EndAt
<1>6. /\ Calling(c, q) /\ Blank(c, p) /\ Blank(c, q) /\ topic[c][p] = <<>> /\ topic[c][q] = <<>>
      /\ ~Acking(c, p) /\ ~Greeting(c, p) /\ Dialling(c, q)
      /\ ~Calling(c, p) /\ ~Acking(c, q) /\ ~Greeting(c, q)
  BY <1>1, <1>2, <1>3, <1>5 DEF OpeningAt
<1>7. PICK r : r = [h[c][p] EXCEPT !.subscribed = TRUE]
  OBVIOUS
<1>8. h[c][p] \in HandleMQTT
  BY <1>1, Parts
<1>9. /\ r \in HandleMQTT /\ r.subscribed /\ (r.reg <=> h[c][p].reg)
      /\ (r.to_manage <=> h[c][p].to_manage) /\ (r.is_probed <=> h[c][p].is_probed)
      /\ r.messages = h[c][p].messages /\ r.probed = h[c][p].probed
      /\ (r.closed_rd <=> h[c][p].closed_rd) /\ (r.closed_wr <=> h[c][p].closed_wr)
  BY <1>7, <1>8 DEF HandleMQTT
<1>10. h' = [h EXCEPT ![c][p] = r]
  BY <1>1, <1>7 DEF AcceptOne, Subscribed, TypeOK
<1>11. /\ h' \in [Conn -> [Proc -> HandleMQTT]] /\ h'[c][p] = r
       /\ \A d \in Conn, x \in Proc : d # c \/ x # p => h'[d][x] = h[d][x]
  BY <1>1, <1>9, <1>10 DEF TypeOK
<1>12. /\ request' \in [Conn -> {"none", "sent", "lost", "taken"}] /\ request'[c] = "taken"
       /\ \A d \in Conn : d # c => request'[d] = request[d]
  BY <1>1 DEF AcceptOne, TypeOK
<1>13. /\ io' \in [Proc -> IoState] /\ io'[p].pc = "ack" /\ io'[p].c = c
       /\ \A x \in Proc : x # p => io'[x] = io[x]
  <2>1. PICK o : o = [io[p] EXCEPT !.pc = "ack", !.c = c]
    OBVIOUS
  <2>2. io[p] \in IoState
    BY <1>1, Parts
  <2>3. o \in IoState /\ o.pc = "ack" /\ o.c = c
    BY <1>1, <2>1, <2>2 DEF IoState, IoPC
  <2>4. io' = [io EXCEPT ![p] = o]
    BY <1>1, <2>1 DEF AcceptOne, TypeOK
  <2> QED BY <1>1, <2>3, <2>4, OwnTypes
<1>14. TypeOK'
  BY <1>1, <1>11, <1>12, <1>13, OwnTypes, Typed
<1>15. /\ Calling(c, q)' /\ Dialling(c, q)' /\ Acking(c, p)' /\ ~Greeting(c, p)'
       /\ ~Calling(c, p)' /\ ~Acking(c, q)' /\ ~Greeting(c, q)'
  BY <1>1, <1>3, <1>6, <1>13 DEF Calling, Dialling, Acking, Greeting, At, IoAt
<1>16. Blank(c, p)' /\ Blank(c, q)'
  BY <1>1, <1>3, <1>6, <1>9, <1>11 DEF Blank, Untouched
<1>17. OpeningAt(c)'
  <2>1. Callee(c)' = p /\ user'[q][c] = "none"
    BY <1>1, <1>5 DEF Callee
  <2> QED BY <1>1, <1>3, <1>6, <1>12, <1>15, <1>16, <2>1 DEF OpeningAt
<1>18. EndAt(c, p)'
  <2>1. Owners(c, p)' = 0
    BY <1>15, <1>16 DEF Owners, One, Blank, Untouched, Greeting, IoAt
  <2>2. <<c, p>> \notin dropped
    BY <1>2, <1>6 DEF EndAt, Blank, Untouched
  <2> QED BY <1>1, <1>9, <1>11, <1>16, <2>1, <2>2 DEF EndAt, Blank, Untouched
<1>19. EndAt(c, q)'
  <2>1. Owners(c, q)' = 0
    BY <1>15, <1>16 DEF Owners, One, Blank, Untouched, Greeting, IoAt
  <2>2. <<c, q>> \notin dropped
    BY <1>4, <1>6 DEF EndAt, Blank, Untouched
  <2>3. h'[c][q].subscribed
    BY <1>1, <1>3, <1>4, <1>6, <1>11 DEF EndAt, Blank, Untouched
  <2> QED BY <1>1, <1>16, <2>1, <2>2, <2>3 DEF EndAt, Blank, Untouched
<1>20. StreamAt(c, p)' /\ StreamAt(c, q)'
  BY <1>16 DEF StreamAt, Blank
<1>21. ThreadAt(p)'
  <2>1. Running(p)
    BY <1>1 DEF Running, IoAt
  <2>2. Running(p)' /\ main[p].todo = {}
    BY <1>1, <1>13, <2>1 DEF ThreadAt, Running
  <2>3. main[p].c \in Conn /\ (h'[main[p].c][p].closed_wr <=> h[main[p].c][p].closed_wr)
    <3>1. main[p].c \in Conn
      BY <1>1, Parts
    <3>2. CASE main[p].c = c
      BY <1>9, <1>11, <3>2
    <3>3. CASE main[p].c # c
      BY <1>11, <3>1, <3>3
    <3> QED BY <3>1, <3>2, <3>3
  <2> QED BY <1>1, <2>1, <2>2, <2>3 DEF ThreadAt, At
<1>22. \A d \in Conn : d # c => SameRoles(d, p)
  BY <1>1, <1>13 DEF SameRoles, Calling, Dialling, Halfway, Acking, Greeting, At, IoAt
<1>23. Running(p)' => Running(p)
  BY <1>1 DEF Running, IoAt
<1>24. Elsewhere(c, p)
  BY <1>1, <1>11, <1>12, <1>13, <1>22, <1>23 DEF Elsewhere
<1> QED BY <1>1, <1>3, <1>14, <1>17, <1>18, <1>19, <1>20, <1>21, <1>24, LocalKeeps

(* The ack, and the entry in the table.                                    *)
LEMMA AckKeeps ==
  ASSUME Inv, NEW p \in Proc, NEW c \in Conn, io[p].c = c, Ack(p)
  PROVE  Inv'
<1>1. TypeOK /\ ThreadAt(p) /\ IoAt(p, "ack") /\ OpeningAt(c) /\ EndAt(c, p)
  BY DEF Inv, Threads, Openings, Ends, Ack
<1>2. UNCHANGED <<request, queue, user, main, sent>> /\ Publish(c, p, "ack")
  BY DEF Ack, SendAck
<1>3. Acking(c, p) /\ ~Greeting(c, p)
  BY <1>1 DEF Acking, Greeting, IoAt
<1>4. Callee(c) = p
  BY <1>1, <1>3, TwoEnds DEF OpeningAt
<1>5. PICK q \in Proc : q = Other(p) /\ q # p /\ Caller[c] = q /\ Other(q) = p
  BY <1>4, TwoEnds, TwoProcs
<1>6. Dialling(c, q) /\ Calling(c, q)
  BY <1>1, <1>3, <1>4, <1>5 DEF OpeningAt, Dialling, Calling, At
<1>7. /\ request[c] = "taken" /\ topic[c][q] = <<>> /\ topic[c][p] = <<>>
      /\ Blank(c, p) /\ Blank(c, q)
      /\ ~Calling(c, p) /\ ~Acking(c, q) /\ ~Greeting(c, q)
  BY <1>1, <1>3, <1>4, <1>5, <1>6 DEF OpeningAt
<1>8. EndAt(c, q) /\ h[c][q].subscribed
  BY <1>5, <1>7 DEF Inv, Ends, EndAt, Blank, Untouched
<1>9. PICK r : r = [h[c][p] EXCEPT !.reg = TRUE]
  OBVIOUS
<1>10. h[c][p] \in HandleMQTT
  BY <1>1, Parts
<1>11. /\ r \in HandleMQTT /\ r.reg /\ (r.subscribed <=> h[c][p].subscribed)
       /\ (r.to_manage <=> h[c][p].to_manage) /\ (r.is_probed <=> h[c][p].is_probed)
       /\ r.messages = h[c][p].messages /\ r.probed = h[c][p].probed
       /\ (r.closed_rd <=> h[c][p].closed_rd) /\ (r.closed_wr <=> h[c][p].closed_wr)
  BY <1>9, <1>10 DEF HandleMQTT
<1>12. h' = [h EXCEPT ![c][p] = r]
  BY <1>1, <1>9 DEF Ack, TypeOK
<1>13. /\ h' \in [Conn -> [Proc -> HandleMQTT]] /\ h'[c][p] = r
       /\ \A d \in Conn, x \in Proc : d # c \/ x # p => h'[d][x] = h[d][x]
  BY <1>1, <1>11, <1>12 DEF TypeOK
<1>14. /\ io' \in [Proc -> IoState] /\ io'[p].pc = "handshake" /\ io'[p].c = c
       /\ \A x \in Proc : x # p => io'[x] = io[x]
  BY <1>1, IoGotoSet DEF Ack, IoPC
<1>15. /\ topic' \in [Conn -> [Proc -> Seq(Frame)]] /\ dropped' \subseteq Conn \X Proc
       /\ \A d \in Conn, x \in Proc : d # c \/ x # q =>
            topic'[d][x] = topic[d][x] /\ (<<d, x>> \in dropped' <=> <<d, x>> \in dropped)
       /\ topic'[c][q] = Append(topic[c][q], "ack") /\ dropped' = dropped
  BY <1>1, <1>2, <1>5, <1>8, PublishSet DEF Frame
<1>16. topic'[c][q] = <<"ack">> /\ topic'[c][p] = <<>>
  BY <1>5, <1>7, <1>15
<1>17. TypeOK'
  BY <1>1, <1>2, <1>13, <1>14, <1>15, OwnTypes, Typed
<1>18. /\ Calling(c, q)' /\ Dialling(c, q)' /\ ~Acking(c, p)' /\ Greeting(c, p)'
       /\ ~Calling(c, p)' /\ ~Acking(c, q)' /\ ~Greeting(c, q)'
  BY <1>2, <1>5, <1>6, <1>7, <1>14 DEF Calling, Dialling, Acking, Greeting, At, IoAt
<1>19. Blank(c, q)' /\ Untouched(c, p)' /\ h'[c][p].reg
  BY <1>2, <1>5, <1>7, <1>11, <1>13 DEF Blank, Untouched
<1>20. OpeningAt(c)'
  <2>1. Callee(c)' = p /\ user'[q][c] = "none"
    BY <1>4, <1>19 DEF Callee, Blank, Untouched
  <2> QED BY <1>2, <1>5, <1>7, <1>16, <1>18, <1>19, <2>1 DEF OpeningAt
<1>21. EndAt(c, p)'
  <2>1. Owners(c, p)' = 1
    BY <1>18, <1>19 DEF Owners, One, Untouched, Greeting, IoAt
  <2>2. <<c, p>> \notin dropped' /\ h'[c][p].subscribed
    BY <1>1, <1>7, <1>11, <1>13, <1>15 DEF EndAt, Blank, Untouched
  <2> QED BY <1>2, <1>7, <1>19, <2>1, <2>2 DEF EndAt, Untouched
<1>22. EndAt(c, q)'
  <2>1. (Greeting(c, q)' <=> Greeting(c, q)) /\ (Running(q)' => Running(q))
    BY <1>5, <1>7, <1>14, <1>18 DEF Running
  <2> QED BY <1>2, <1>5, <1>8, <1>13, <1>15, <2>1, EndKept, ZenonT(60)
<1>23. StreamAt(c, q)'
  BY <1>19 DEF StreamAt, Blank
<1>24. StreamAt(c, p)'
  <2>1. ~Halfway(c, q)' /\ ~h'[c][q].closed_wr
    BY <1>18, <1>19 DEF Halfway, Dialling, At, Blank, Untouched
  <2>2. EOSComes(c, p)' = 0 /\ Headed(c, p)' = 0 /\ Owed(c, p)' = 0
    BY <1>5, <1>19, <2>1 DEF EOSComes, Headed, Owed, One, Untouched
  <2>3. WellFramed(topic[c][p], EOSComes(c, p), Headed(c, p), Owed(c, p))'
    BY <1>16, <2>2 DEF WellFramed
  <2>4. ~h'[c][p].is_probed /\ h'[c][p].messages = <<>> /\ h'[c][p].probed = "none"
    BY <1>19 DEF Untouched
  <2> QED BY <2>3, <2>4 DEF StreamAt
<1>25. ThreadAt(p)'
  <2>1. Running(p) /\ Running(p)'
    BY <1>1, <1>14 DEF Running, IoAt
  <2>2. main[p].todo = {}
    BY <1>1, <2>1 DEF ThreadAt
  <2>3. main[p].c \in Conn /\ (h'[main[p].c][p].closed_wr <=> h[main[p].c][p].closed_wr)
    <3>1. main[p].c \in Conn
      BY <1>1, Parts
    <3>2. CASE main[p].c = c
      BY <1>11, <1>13, <3>2
    <3>3. CASE main[p].c # c
      BY <1>13, <3>1, <3>3
    <3> QED BY <3>1, <3>2, <3>3
  <2> QED BY <1>1, <1>2, <2>1, <2>2, <2>3 DEF ThreadAt, At
<1>26. \A d \in Conn : d # c => SameRoles(d, p)
  BY <1>2, <1>14 DEF SameRoles, Calling, Dialling, Halfway, Acking, Greeting, At, IoAt
<1>27. Elsewhere(c, p)
  BY <1>1, <1>2, <1>13, <1>14, <1>15, <1>26 DEF Elsewhere, Running, IoAt
<1> QED BY <1>5, <1>17, <1>20, <1>21, <1>22, <1>23, <1>24, <1>25, <1>27, LocalKeeps

(* The handshake is received, and the handle queued.                       *)
LEMMA HandshakeKeeps ==
  ASSUME Inv, NEW p \in Proc, NEW c \in Conn, io[p].c = c, Handshake(p)
  PROVE  Inv'
<1>1. /\ TypeOK /\ ThreadAt(p) /\ IoAt(p, "handshake") /\ OpeningAt(c) /\ EndAt(c, p)
      /\ StreamAt(c, p) /\ Len(topic[c][p]) >= 2
  BY DEF Inv, Threads, Openings, Ends, Streams, Handshake
<1>2. UNCHANGED <<h, dropped, request, user, main, sent>>
  BY DEF Handshake
<1>3. Greeting(c, p) /\ ~Acking(c, p)
  BY <1>1 DEF Acking, Greeting, IoAt
<1>4. Callee(c) = p
  BY <1>1, <1>3, TwoEnds DEF OpeningAt
<1>5. PICK q \in Proc : q = Other(p) /\ q # p /\ Caller[c] = q /\ Other(q) = p
  BY <1>4, TwoEnds, TwoProcs
<1>6. topic[c][p] # <<>>
  BY <1>1
<1>7. /\ request[c] = "taken" /\ Untouched(c, p) /\ h[c][p].reg /\ ~Calling(c, q)
      /\ user[q][c] # "none" /\ ~Calling(c, p) /\ ~Acking(c, q) /\ ~Greeting(c, q)
  BY <1>1, <1>3, <1>4, <1>5, <1>6 DEF OpeningAt
<1>8. PICK t : t = SubSeq(topic[c][p], 3, Len(topic[c][p]))
  OBVIOUS
<1>9. t \in Seq(Frame) /\ WellFramed(t, EOSComes(c, p), 0, Owed(c, p))
  <2>1. Running(p) /\ ~h[c][p].closed_rd
    BY <1>1, <1>7 DEF Running, IoAt, Untouched
  <2>2. /\ WellFramed(topic[c][p], EOSComes(c, p), Headed(c, p), Owed(c, p))
        /\ Headed(c, p) = 0
    BY <1>1, <1>7, <2>1 DEF StreamAt, Headed, Untouched, One
  <2>3. EOSComes(c, p) \in Bit /\ Owed(c, p) \in Bit /\ topic[c][p] \in Seq(Frame)
    BY <1>1, Parts DEF EOSComes, Owed, One, Bit
  <2>4. ~(EOSComes(c, p) = 1 /\ Owed(c, p) = 1)
    <3>1. ThreadAt(q)
      BY DEF Inv, Threads
    <3> QED BY <1>5, <3>1 DEF ThreadAt, EOSComes, Owed, Halfway, One, At
  <2>5. PICK s \in Seq(Frame), e \in Bit, j \in Bit :
          s = topic[c][p] /\ e = EOSComes(c, p) /\ j = Owed(c, p)
    BY <2>3
  <2>6. /\ ~(e = 1 /\ j = 1) /\ WellFramed(s, e, 0, j) /\ Len(s) >= 2
        /\ t = SubSeq(s, 3, Len(s))
    BY <1>1, <1>8, <2>2, <2>4, <2>5
  <2>7. t \in Seq(Frame) /\ WellFramed(t, e, 0, j)
    BY <2>6, FramedPair
  <2> QED BY <2>5, <2>7
<1>10. /\ topic' \in [Conn -> [Proc -> Seq(Frame)]] /\ topic'[c][p] = t
       /\ \A d \in Conn, x \in Proc : d # c \/ x # p => topic'[d][x] = topic[d][x]
  <2>1. topic' = [topic EXCEPT ![c][p] = SubSeq(@, 3, Len(@))]
    BY DEF Handshake
  <2>2. topic' = [topic EXCEPT ![c][p] = t]
    BY <1>1, <1>8, <2>1 DEF TypeOK
  <2>3. t \in Seq(Frame)
    BY <1>9
  <2> QED BY <1>1, <2>2, <2>3 DEF TypeOK
<1>11. /\ queue' \in [Proc -> [Conn -> Count]] /\ queue'[p][c] = 1
       /\ \A d \in Conn, x \in Proc : d # c \/ x # p => queue'[x][d] = queue[x][d]
  <2>1. queue[p][c] = 0
    BY <1>7 DEF Untouched
  <2>a. queue' = [queue EXCEPT ![p][c] = @ + 1]
    BY DEF Handshake
  <2>c. queue \in [Proc -> [Conn -> Count]]
    BY <1>1, OwnTypes
  <2>b. PICK n \in Count : n = queue[p][c] + 1
    BY <2>1 DEF Count
  <2>2. queue' = [queue EXCEPT ![p][c] = n]
    BY <1>1, <2>a, <2>b DEF TypeOK
  <2>3. /\ queue' \in [Proc -> [Conn -> Count]] /\ queue'[p][c] = n
        /\ \A d \in Conn, x \in Proc : d # c \/ x # p => queue'[x][d] = queue[x][d]
    BY <2>c, <2>2
  <2> QED BY <2>1, <2>b, <2>3
<1>12. /\ io' \in [Proc -> IoState] /\ io'[p].pc = "poll" /\ io'[p].c = c
       /\ \A x \in Proc : x # p => io'[x] = io[x]
  BY <1>1, IoGotoSet DEF Handshake, IoPC
<1>13. TypeOK'
  BY <1>1, <1>2, <1>10, <1>11, <1>12, OwnTypes, Typed
<1>14. /\ ~Calling(c, q)' /\ ~Acking(c, p)' /\ ~Greeting(c, p)' /\ ~Dialling(c, q)'
       /\ ~Calling(c, p)' /\ ~Acking(c, q)' /\ ~Greeting(c, q)'
  BY <1>2, <1>5, <1>7, <1>12 DEF Calling, Dialling, Acking, Greeting, At, IoAt
<1>15. OpeningAt(c)'
  <2>1. Callee(c)' = p
    BY <1>4 DEF Callee
  <2> QED BY <1>2, <1>5, <1>7, <1>14, <2>1 DEF OpeningAt
<1>16. EndAt(c, p)'
  <2>1. Owners(c, p)' = 1
    BY <1>2, <1>7, <1>11, <1>14 DEF Owners, One, Untouched, Greeting, IoAt
  <2> QED BY <1>1, <1>2, <1>7, <1>11, <2>1 DEF EndAt, Untouched
<1>17. EndAt(c, q)'
  <2>1. (Greeting(c, q)' <=> Greeting(c, q)) /\ (Running(q)' => Running(q)) /\ EndAt(c, q)
    BY <1>5, <1>7, <1>12, <1>14 DEF Running, Inv, Ends
  <2> QED BY <1>2, <1>5, <1>11, <2>1, EndKept
<1>18. StreamAt(c, q)'
  <2>1. /\ StreamAt(c, q) /\ (Running(q)' => Running(q))
        /\ (Halfway(c, Other(q))' <=> Halfway(c, Other(q)))
    BY <1>2, <1>5, <1>12 DEF Running, Inv, Streams, Halfway, At
  <2>2. topic'[c][q] = topic[c][q]
    BY <1>5, <1>10
  <2> QED BY <1>2, <2>1, <2>2, StreamKept
<1>19. StreamAt(c, p)'
  <2>1. /\ EOSComes(c, p)' = EOSComes(c, p) /\ Headed(c, p)' = 0 /\ Owed(c, p)' = Owed(c, p)
    BY <1>2, <1>7 DEF EOSComes, Headed, Owed, Ended, Halfway, At, One, Untouched
  <2>2. WellFramed(topic[c][p], EOSComes(c, p), Headed(c, p), Owed(c, p))'
    BY <1>9, <1>10, <2>1 DEF WellFramed
  <2>3. ~h'[c][p].is_probed /\ h'[c][p].messages = <<>> /\ h'[c][p].probed = "none"
    BY <1>2, <1>7 DEF Untouched
  <2> QED BY <2>2, <2>3 DEF StreamAt
<1>20. ThreadAt(p)'
  BY <1>1, <1>2, <1>12 DEF ThreadAt, At, Running, IoAt
<1>21. \A d \in Conn : d # c => SameRoles(d, p)
  BY <1>2, <1>12 DEF SameRoles, Calling, Dialling, Halfway, Acking, Greeting, At, IoAt
<1>22. Elsewhere(c, p)
  BY <1>1, <1>2, <1>10, <1>11, <1>12, <1>21 DEF Elsewhere, Running, IoAt
<1> QED BY <1>5, <1>13, <1>15, <1>16, <1>17, <1>18, <1>19, <1>20, <1>22, LocalKeeps

(***************************************************************************)
(* The actions on an open connection.                                      *)
(***************************************************************************)
(* The peer's end when p neither publishes nor closes.                     *)
LEMMA PeerKept ==
  ASSUME Inv, NEW c \in Conn, NEW p \in Proc, request'[c] = request[c],
         h'[c][Other(p)] = h[c][Other(p)], user'[Other(p)][c] = user[Other(p)][c],
         queue'[Other(p)][c] = queue[Other(p)][c], topic'[c][Other(p)] = topic[c][Other(p)],
         <<c, Other(p)>> \in dropped' => <<c, Other(p)>> \in dropped,
         io'[Other(p)] = io[Other(p)],
         h'[c][p].closed_wr <=> h[c][p].closed_wr, Halfway(c, p)' <=> Halfway(c, p)
  PROVE  EndAt(c, Other(p))' /\ StreamAt(c, Other(p))'
<1>1. PICK q \in Proc : q = Other(p) /\ Other(q) = p
  BY TwoProcs
<1>2. EndAt(c, q) /\ StreamAt(c, q)
  BY DEF Inv, Ends, Streams
<1>3. (Greeting(c, q)' <=> Greeting(c, q)) /\ (Running(q)' => Running(q))
  BY <1>1 DEF Greeting, IoAt, Running
<1>4. EndAt(c, q)'
  BY <1>1, <1>2, <1>3, EndKept
<1>5. StreamAt(c, q)'
  BY <1>1, <1>2, <1>3, StreamKept
<1> QED BY <1>1, <1>4, <1>5

(* Manager::getNext.                                                       *)
LEMMA GetNextKeeps ==
  ASSUME Inv, NEW p \in Proc, NEW c \in Conn, GetNext(p, c)
  PROVE  Inv'
<1>1. TypeOK /\ ThreadAt(p) /\ EndAt(c, p) /\ StreamAt(c, p) /\ At(p, "idle") /\ queue[p][c] > 0
  BY DEF Inv, Threads, Ends, Streams, GetNext, Idle
<1>2. UNCHANGED <<h, topic, dropped, request, main, io, sent>>
  BY DEF GetNext
<1>3. PICK q \in Proc : q = Other(p) /\ q # p /\ Other(q) = p
  BY TwoProcs
<1>4. /\ queue[p][c] = 1 /\ user[p][c] # "held" /\ ~h[c][p].to_manage /\ ~Greeting(c, p)
      /\ ~h[c][p].closed_rd
  BY <1>1, Exclusive
<1>5. Used(c, p)
  BY <1>4 DEF Used
<1>6. request[c] = "taken" /\ ~Calling(c, p) /\ ~Acking(c, p)
  BY <1>5, UsedIs
<1>7. /\ queue' \in [Proc -> [Conn -> Count]] /\ queue'[p][c] = 0
      /\ \A d \in Conn, x \in Proc : d # c \/ x # p => queue'[x][d] = queue[x][d]
  <2>1. PICK n \in Count : n = queue[p][c] - 1
    BY <1>4 DEF Count
  <2>2. queue \in [Proc -> [Conn -> Count]]
    BY <1>1, OwnTypes
  <2>3. queue' = [queue EXCEPT ![p][c] = @ - 1]
    BY DEF GetNext
  <2>4. queue' = [queue EXCEPT ![p][c] = n]
    BY <2>1, <2>2, <2>3
  <2>5. /\ queue' \in [Proc -> [Conn -> Count]] /\ queue'[p][c] = n
        /\ \A d \in Conn, x \in Proc : d # c \/ x # p => queue'[x][d] = queue[x][d]
    BY <2>2, <2>4
  <2> QED BY <1>4, <2>1, <2>5
<1>8. /\ user' \in [Proc -> [Conn -> Has]] /\ user'[p][c] = "held"
      /\ \A d \in Conn, x \in Proc : d # c \/ x # p => user'[x][d] = user[x][d]
  BY <1>1, OwnTypes DEF GetNext, Has
<1>9. TypeOK'
  BY <1>1, <1>2, <1>7, <1>8, OwnTypes, Typed
<1>10. \A d \in Conn, x \in Proc : SameRoles(d, x)
  BY <1>2 DEF SameRoles, Calling, Dialling, Halfway, Acking, Greeting, At, IoAt
<1>11. Elsewhere(c, p)
  BY <1>2, <1>7, <1>8, <1>10 DEF Elsewhere, Running
<1>12. OpeningAt(c)'
  <2>1. ~Calling(c, p)' /\ ~Acking(c, p)' /\ ~Greeting(c, p)'
    BY <1>4, <1>6, <1>10 DEF SameRoles
  <2> QED BY <1>2, <1>3, <1>5, <1>7, <1>8, <2>1, UsedKeepsOpening
<1>13. EndAt(c, p)'
  <2>1. Owners(c, p)' = 1
    BY <1>2, <1>4, <1>7, <1>8, <1>10 DEF Owners, One, Greeting, IoAt, SameRoles
  <2> QED BY <1>1, <1>2, <1>4, <1>6, <1>7, <1>8, <2>1 DEF EndAt, Running
<1>14. StreamAt(c, p)'
  BY <1>1, <1>2, <1>3, <1>10, StreamKept DEF SameRoles, Running
<1>15. EndAt(c, Other(p))' /\ StreamAt(c, Other(p))'
  BY <1>2, <1>3, <1>7, <1>8, <1>10, PeerKept DEF SameRoles
<1>16. ThreadAt(p)'
  BY <1>1, <1>2 DEF ThreadAt, At, Running
<1> QED BY <1>9, <1>11, <1>12, <1>13, <1>14, <1>15, <1>16, LocalKeeps

(* HandleMQTT::send: the header.                                           *)
LEMMA SendKeeps ==
  ASSUME Inv, NEW p \in Proc, NEW c \in Conn, Send(p, c)
  PROVE  Inv'
<1>1. /\ TypeOK /\ ThreadAt(p) /\ EndAt(c, p) /\ StreamAt(c, p) /\ At(p, "idle")
      /\ user[p][c] # "none" /\ ~h[c][p].closed_wr
  BY DEF Inv, Threads, Ends, Streams, Send, Idle
<1>2. UNCHANGED <<h, request, queue, user, io>> /\ Publish(c, p, "hdr")
  BY DEF Send
<1>3. PICK q \in Proc : q = Other(p) /\ q # p /\ Other(q) = p
  BY TwoProcs
<1>4. Used(c, p)
  BY <1>1 DEF Used
<1>5. request[c] = "taken" /\ ~Calling(c, p) /\ ~Acking(c, p) /\ ~Greeting(c, p)
  BY <1>4, UsedIs
<1>6. /\ main' \in [Proc -> Thread] /\ main'[p].pc = "payload" /\ main'[p].c = c
      /\ main'[p].todo = main[p].todo
      /\ \A x \in Proc : x # p => main'[x] = main[x]
  BY <1>1, CallSet DEF Send, PC
<1>7. /\ topic' \in [Conn -> [Proc -> Seq(Frame)]] /\ dropped' \subseteq Conn \X Proc
      /\ \A d \in Conn, x \in Proc : d # c \/ x # q =>
           topic'[d][x] = topic[d][x] /\ (<<d, x>> \in dropped' <=> <<d, x>> \in dropped)
  BY <1>1, <1>2, <1>3, PublishSet DEF Frame
<1>8. /\ sent' \in [Conn -> [Proc -> Nat]]
      /\ \A d \in Conn, x \in Proc : sent'[d][x] <= MaxSend[x]
  <2>1. PICK n \in Nat : n = sent[c][p] + 1
    BY <1>1 DEF TypeOK
  <2>2. n <= MaxSend[p]
    BY <1>1, <2>1, BoundAssumption DEF Send, TypeOK
  <2>3. sent' = [sent EXCEPT ![c][p] = n]
    BY <1>1, <2>1 DEF Send, TypeOK
  <2>4. /\ sent' \in [Conn -> [Proc -> Nat]] /\ sent'[c][p] = n
        /\ \A d \in Conn, x \in Proc : d # c \/ x # p => sent'[d][x] = sent[d][x]
    BY <1>1, <2>3 DEF TypeOK
  <2>5. \A d \in Conn, x \in Proc : sent[d][x] <= MaxSend[x]
    BY <1>1 DEF TypeOK
  <2> QED BY <2>2, <2>4, <2>5
<1>9. TypeOK'
  BY <1>1, <1>2, <1>6, <1>7, <1>8, OwnTypes, Typed
<1>10. /\ ~Calling(c, p)' /\ ~Acking(c, p)' /\ ~Greeting(c, p)'
       /\ ~Halfway(c, p) /\ Halfway(c, p)'
  BY <1>1, <1>2, <1>5, <1>6 DEF Calling, Halfway, Acking, Greeting, At, IoAt
<1>11. \A d \in Conn : d # c => SameRoles(d, p)
  BY <1>1, <1>2, <1>6 DEF SameRoles, Calling, Dialling, Halfway, Acking, Greeting, At, IoAt
<1>12. Elsewhere(c, p)
  BY <1>2, <1>6, <1>7, <1>11 DEF Elsewhere, Running
<1>13. OpeningAt(c)'
  BY <1>2, <1>3, <1>4, <1>6, <1>10, UsedKeepsOpening
<1>14. EndAt(c, p)'
  BY <1>1, <1>2, <1>3, <1>5, <1>7, <1>10, EndKept DEF Running
<1>15. StreamAt(c, p)'
  <2>1. (Halfway(c, q)' <=> Halfway(c, q)) /\ topic'[c][p] = topic[c][p]
    BY <1>3, <1>6, <1>7 DEF Halfway, At
  <2> QED BY <1>1, <1>2, <1>3, <2>1, StreamKept DEF Running
<1>16. EndAt(c, Other(p))' /\ StreamAt(c, Other(p))'
  <2>1. /\ main'[Other(p)] = main[Other(p)] /\ ~h'[c][p].closed_wr /\ "hdr" \in Frame
    BY <1>1, <1>2, <1>3, <1>6 DEF Frame
  <2> QED BY <1>1, <1>2, <1>5, <1>10, <2>1, Published
<1>17. ThreadAt(p)'
  BY <1>1, <1>2, <1>6 DEF ThreadAt, At, Running
<1> QED BY <1>9, <1>12, <1>13, <1>14, <1>15, <1>16, <1>17, LocalKeeps

(* The payload.                                                            *)
LEMMA SendPayloadKeeps ==
  ASSUME Inv, NEW p \in Proc, NEW c \in Conn, main[p].c = c, SendPayload(p)
  PROVE  Inv'
<1>1. /\ TypeOK /\ ThreadAt(p) /\ EndAt(c, p) /\ StreamAt(c, p) /\ At(p, "payload")
  BY DEF Inv, Threads, Ends, Streams, SendPayload
<1>a. user[p][c] # "none" /\ ~h[c][p].closed_wr
  BY <1>1 DEF ThreadAt
<1>2. UNCHANGED <<h, request, queue, user, io, sent>> /\ Publish(c, p, "body")
  BY DEF SendPayload
<1>3. PICK q \in Proc : q = Other(p) /\ q # p /\ Other(q) = p
  BY TwoProcs
<1>4. Used(c, p)
  BY <1>a DEF Used
<1>5. request[c] = "taken" /\ ~Calling(c, p) /\ ~Acking(c, p) /\ ~Greeting(c, p)
  BY <1>4, UsedIs
<1>6. /\ main' \in [Proc -> Thread] /\ main'[p].pc = "idle" /\ main'[p].c = c
      /\ main'[p].todo = main[p].todo
      /\ \A x \in Proc : x # p => main'[x] = main[x]
  BY <1>1, GotoSet DEF SendPayload, PC
<1>7. /\ topic' \in [Conn -> [Proc -> Seq(Frame)]] /\ dropped' \subseteq Conn \X Proc
      /\ \A d \in Conn, x \in Proc : d # c \/ x # q =>
           topic'[d][x] = topic[d][x] /\ (<<d, x>> \in dropped' <=> <<d, x>> \in dropped)
  BY <1>1, <1>2, <1>3, PublishSet DEF Frame
<1>9. TypeOK'
  BY <1>1, <1>2, <1>6, <1>7, OwnTypes, Typed
<1>10. /\ ~Calling(c, p)' /\ ~Acking(c, p)' /\ ~Greeting(c, p)'
       /\ Halfway(c, p) /\ ~Halfway(c, p)'
  BY <1>1, <1>2, <1>5, <1>6 DEF Calling, Halfway, Acking, Greeting, At, IoAt
<1>11. \A d \in Conn : d # c => SameRoles(d, p)
  BY <1>1, <1>2, <1>6 DEF SameRoles, Calling, Dialling, Halfway, Acking, Greeting, At, IoAt
<1>12. Elsewhere(c, p)
  BY <1>2, <1>6, <1>7, <1>11 DEF Elsewhere, Running
<1>13. OpeningAt(c)'
  BY <1>2, <1>3, <1>4, <1>6, <1>10, UsedKeepsOpening
<1>14. EndAt(c, p)'
  BY <1>1, <1>2, <1>3, <1>5, <1>7, <1>10, EndKept DEF Running
<1>15. StreamAt(c, p)'
  <2>1. (Halfway(c, q)' <=> Halfway(c, q)) /\ topic'[c][p] = topic[c][p]
    BY <1>3, <1>6, <1>7 DEF Halfway, At
  <2> QED BY <1>1, <1>2, <1>3, <2>1, StreamKept DEF Running
<1>16. EndAt(c, Other(p))' /\ StreamAt(c, Other(p))'
  <2>1. /\ main'[Other(p)] = main[Other(p)] /\ ~h'[c][p].closed_wr /\ "body" \in Frame
    BY <1>a, <1>2, <1>3, <1>6 DEF Frame
  <2> QED BY <1>a, <1>2, <1>5, <1>10, <2>1, Published
<1>17. ThreadAt(p)'
  BY <1>1, <1>2, <1>6 DEF ThreadAt, At, Running
<1> QED BY <1>9, <1>12, <1>13, <1>14, <1>15, <1>16, <1>17, LocalKeeps

(* The stream of a handle of which other fields change.                    *)
LEMMA StreamSame ==
  ASSUME NEW c \in Conn, NEW x \in Proc, StreamAt(c, x),
         h'[c][x].reg => h[c][x].reg, ~h'[c][x].closed_rd => ~h[c][x].closed_rd,
         h'[c][x].is_probed <=> h[c][x].is_probed, h'[c][x].messages = h[c][x].messages,
         h'[c][x].probed = h[c][x].probed, topic'[c][x] = topic[c][x],
         h'[c][Other(x)].closed_wr <=> h[c][Other(x)].closed_wr,
         Halfway(c, Other(x))' <=> Halfway(c, Other(x)), Running(x)' => Running(x)
  PROVE  StreamAt(c, x)'
<1>1. /\ EOSComes(c, x)' = EOSComes(c, x) /\ Headed(c, x)' = Headed(c, x)
      /\ Owed(c, x)' = Owed(c, x)
  BY DEF EOSComes, Headed, Owed, Ended, One
<1>2. WellFramed(topic[c][x], EOSComes(c, x), Headed(c, x), Owed(c, x)) =>
        WellFramed(topic[c][x], EOSComes(c, x), Headed(c, x), Owed(c, x))'
  BY <1>1 DEF WellFramed
<1> QED BY <1>1, <1>2 DEF StreamAt

(* Handle::close up to notify_close.                                       *)
LEMMA CloseKeeps ==
  ASSUME Inv, NEW p \in Proc, NEW c \in Conn, Close(p, c)
  PROVE  Inv'
<1>1. /\ TypeOK /\ ThreadAt(p) /\ EndAt(c, p) /\ StreamAt(c, p) /\ At(p, "idle")
      /\ user[p][c] # "none" /\ ~h[c][p].closed_wr
  BY DEF Inv, Threads, Ends, Streams, Close, Idle
<1>2. UNCHANGED <<request, queue, user, io, sent>> /\ Publish(c, p, "eos")
  BY DEF Close
<1>3. PICK q \in Proc : q = Other(p) /\ q # p /\ Other(q) = p
  BY TwoProcs
<1>4. Used(c, p)
  BY <1>1 DEF Used
<1>5. request[c] = "taken" /\ ~Calling(c, p) /\ ~Acking(c, p) /\ ~Greeting(c, p)
  BY <1>4, UsedIs
<1>6. PICK r : r = [h[c][p] EXCEPT !.closed_wr = TRUE]
  OBVIOUS
<1>7. h[c][p] \in HandleMQTT
  BY <1>1, Parts
<1>8. /\ r \in HandleMQTT /\ r.closed_wr /\ (r.subscribed <=> h[c][p].subscribed)
      /\ (r.reg <=> h[c][p].reg) /\ (r.to_manage <=> h[c][p].to_manage)
      /\ (r.is_probed <=> h[c][p].is_probed)
      /\ r.messages = h[c][p].messages /\ r.probed = h[c][p].probed
      /\ (r.closed_rd <=> h[c][p].closed_rd)
  BY <1>6, <1>7 DEF HandleMQTT
<1>9. h' = [h EXCEPT ![c][p] = r]
  BY <1>1, <1>6 DEF Close, TypeOK
<1>10. /\ h' \in [Conn -> [Proc -> HandleMQTT]] /\ h'[c][p] = r
       /\ \A d \in Conn, x \in Proc : d # c \/ x # p => h'[d][x] = h[d][x]
  BY <1>1, <1>8, <1>9 DEF TypeOK
<1>11. /\ main' \in [Proc -> Thread] /\ main'[p].pc = "notify" /\ main'[p].c = c
       /\ main'[p].todo = main[p].todo
       /\ \A x \in Proc : x # p => main'[x] = main[x]
  BY <1>1, CallSet DEF Close, PC
<1>12. /\ topic' \in [Conn -> [Proc -> Seq(Frame)]] /\ dropped' \subseteq Conn \X Proc
       /\ \A d \in Conn, x \in Proc : d # c \/ x # q =>
            topic'[d][x] = topic[d][x] /\ (<<d, x>> \in dropped' <=> <<d, x>> \in dropped)
  BY <1>1, <1>2, <1>3, PublishSet DEF Frame
<1>13. TypeOK'
  BY <1>1, <1>2, <1>10, <1>11, <1>12, OwnTypes, Typed
<1>14. /\ ~Calling(c, p)' /\ ~Acking(c, p)' /\ ~Greeting(c, p)'
       /\ ~Halfway(c, p) /\ ~Halfway(c, p)'
  BY <1>1, <1>2, <1>5, <1>11 DEF Calling, Halfway, Acking, Greeting, At, IoAt
<1>15. \A d \in Conn : d # c => SameRoles(d, p)
  BY <1>1, <1>2, <1>11 DEF SameRoles, Calling, Dialling, Halfway, Acking, Greeting, At, IoAt
<1>16. Elsewhere(c, p)
  BY <1>2, <1>10, <1>11, <1>12, <1>15 DEF Elsewhere, Running
<1>17. OpeningAt(c)'
  BY <1>2, <1>3, <1>4, <1>10, <1>11, <1>14, UsedKeepsOpening
<1>18. EndAt(c, p)'
  <2>1. Owners(c, p)' = Owners(c, p)
    BY <1>2, <1>8, <1>10 DEF Owners, One
  <2>2. <<c, p>> \in dropped' <=> <<c, p>> \in dropped
    BY <1>3, <1>12
  <2> QED BY <1>1, <1>2, <1>8, <1>10, <2>1, <2>2 DEF EndAt, Running
<1>19. StreamAt(c, p)'
  <2>1. /\ (Halfway(c, q)' <=> Halfway(c, q)) /\ topic'[c][p] = topic[c][p]
        /\ h'[c][q] = h[c][q] /\ (Running(p)' => Running(p))
    BY <1>2, <1>3, <1>10, <1>11, <1>12 DEF Halfway, At, Running
  <2> QED BY <1>1, <1>3, <1>8, <1>10, <2>1, StreamSame
<1>20. EndAt(c, Other(p))' /\ StreamAt(c, Other(p))'
  <2>1. /\ main'[Other(p)] = main[Other(p)] /\ h'[c][p].closed_wr /\ "eos" \in Frame
        /\ h'[c][Other(p)] = h[c][Other(p)]
    BY <1>3, <1>8, <1>10, <1>11 DEF Frame
  <2> QED BY <1>1, <1>2, <1>5, <1>14, <2>1, Published
<1>21. ThreadAt(p)'
  BY <1>1, <1>2, <1>11 DEF ThreadAt, At, Running
<1> QED BY <1>13, <1>16, <1>17, <1>18, <1>19, <1>20, <1>21, LocalKeeps

(* notify_close: an end whose read side is closed leaves the table.        *)
LEMMA NotifyCloseKeeps ==
  ASSUME Inv, NEW p \in Proc, NEW c \in Conn, main[p].c = c, NotifyClose(p)
  PROVE  Inv'
<1>1. TypeOK /\ ThreadAt(p) /\ EndAt(c, p) /\ StreamAt(c, p) /\ At(p, "notify")
  BY DEF Inv, Threads, Ends, Streams, NotifyClose
<1>2. UNCHANGED <<topic, dropped, request, queue, user, io, sent>>
  BY DEF NotifyClose
<1>3. PICK q \in Proc : q = Other(p) /\ q # p /\ Other(q) = p
  BY TwoProcs
<1>4. Used(c, p)
  BY <1>1 DEF Used, ThreadAt
<1>5. request[c] = "taken" /\ ~Calling(c, p) /\ ~Acking(c, p) /\ ~Greeting(c, p)
  BY <1>4, UsedIs
<1>6. PICK r : r = IF h[c][p].closed_rd
                   THEN [h[c][p] EXCEPT !.reg = FALSE, !.to_manage = FALSE] ELSE h[c][p]
  OBVIOUS
<1>7. h[c][p] \in HandleMQTT /\ (h[c][p].closed_rd => ~h[c][p].to_manage)
  BY <1>1, Parts, Exclusive
<1>8. /\ r \in HandleMQTT /\ (r.closed_wr <=> h[c][p].closed_wr)
      /\ (r.subscribed <=> h[c][p].subscribed) /\ (r.to_manage <=> h[c][p].to_manage)
      /\ (r.is_probed <=> h[c][p].is_probed)
      /\ r.messages = h[c][p].messages /\ r.probed = h[c][p].probed
      /\ (r.closed_rd <=> h[c][p].closed_rd)
      /\ (r.reg => h[c][p].reg) /\ (~r.closed_rd => (r.reg <=> h[c][p].reg))
  BY <1>6, <1>7 DEF HandleMQTT
<1>9. /\ h' \in [Conn -> [Proc -> HandleMQTT]] /\ h'[c][p] = r
      /\ \A d \in Conn, x \in Proc : d # c \/ x # p => h'[d][x] = h[d][x]
  <2>1. CASE h[c][p].closed_rd
    <3>1. h' = [h EXCEPT ![c][p].reg = FALSE, ![c][p].to_manage = FALSE]
      BY <2>1 DEF NotifyClose
    <3>2. h' = [h EXCEPT ![c][p] = r]
      BY <1>1, <1>6, <2>1, <3>1 DEF TypeOK
    <3> QED BY <1>1, <1>8, <3>2 DEF TypeOK
  <2>2. CASE ~h[c][p].closed_rd
    <3>1. h' = h /\ r = h[c][p]
      BY <1>6, <2>2 DEF NotifyClose
    <3> QED BY <1>1, <3>1 DEF TypeOK
  <2> QED BY <2>1, <2>2
<1>10. /\ main' \in [Proc -> Thread] /\ main'[p].pc = "idle" /\ main'[p].c = c
       /\ main'[p].todo = main[p].todo
       /\ \A x \in Proc : x # p => main'[x] = main[x]
  BY <1>1, GotoSet DEF NotifyClose, PC
<1>11. TypeOK'
  BY <1>1, <1>2, <1>9, <1>10, OwnTypes, Typed
<1>12. /\ ~Calling(c, p)' /\ ~Acking(c, p)' /\ ~Greeting(c, p)'
       /\ ~Halfway(c, p) /\ ~Halfway(c, p)'
  BY <1>1, <1>2, <1>5, <1>10 DEF Calling, Halfway, Acking, Greeting, At, IoAt
<1>13. \A d \in Conn : d # c => SameRoles(d, p)
  BY <1>1, <1>2, <1>10 DEF SameRoles, Calling, Dialling, Halfway, Acking, Greeting, At, IoAt
<1>14. Elsewhere(c, p)
  BY <1>2, <1>9, <1>10, <1>13 DEF Elsewhere, Running
<1>15. OpeningAt(c)'
  BY <1>2, <1>3, <1>4, <1>9, <1>10, <1>12, UsedKeepsOpening
<1>16. EndAt(c, p)'
  <2>1. Owners(c, p)' = Owners(c, p)
    BY <1>2, <1>8, <1>9 DEF Owners, One
  <2> QED BY <1>1, <1>2, <1>8, <1>9, <2>1 DEF EndAt, Running
<1>17. StreamAt(c, p)'
  <2>1. /\ (Halfway(c, q)' <=> Halfway(c, q)) /\ topic'[c][p] = topic[c][p]
        /\ h'[c][q] = h[c][q] /\ (Running(p)' => Running(p))
    BY <1>2, <1>3, <1>9, <1>10 DEF Halfway, At, Running
  <2> QED BY <1>1, <1>3, <1>8, <1>9, <2>1, StreamSame
<1>18. EndAt(c, Other(p))' /\ StreamAt(c, Other(p))'
  BY <1>2, <1>3, <1>8, <1>9, <1>12, PeerKept
<1>19. ThreadAt(p)'
  BY <1>1, <1>2, <1>10 DEF ThreadAt, At, Running
<1> QED BY <1>11, <1>14, <1>15, <1>16, <1>17, <1>18, <1>19, LocalKeeps

(* HandleUser::yield: back to the table, or to the queue.                  *)
LEMMA YieldKeeps ==
  ASSUME Inv, NEW p \in Proc, NEW c \in Conn, Yield(p, c)
  PROVE  Inv'
<1>1. /\ TypeOK /\ ThreadAt(p) /\ EndAt(c, p) /\ StreamAt(c, p) /\ At(p, "idle")
      /\ user[p][c] = "held" /\ ~h[c][p].closed_rd
  BY DEF Inv, Threads, Ends, Streams, Yield, Idle, MayRead
<1>2. UNCHANGED <<topic, dropped, request, main, io, sent>>
  BY DEF Yield
<1>3. PICK q \in Proc : q = Other(p) /\ q # p /\ Other(q) = p
  BY TwoProcs
<1>4. Used(c, p)
  BY <1>1 DEF Used
<1>5. /\ request[c] = "taken" /\ ~Calling(c, p) /\ ~Acking(c, p) /\ ~Greeting(c, p)
      /\ queue[p][c] = 0 /\ ~h[c][p].to_manage
  BY <1>1, <1>4, UsedIs, Exclusive
<1>6. PICK r : r = IF h[c][p].is_probed THEN h[c][p] ELSE [h[c][p] EXCEPT !.to_manage = TRUE]
  OBVIOUS
<1>7. h[c][p] \in HandleMQTT
  BY <1>1, Parts
<1>8. /\ r \in HandleMQTT /\ (r.closed_wr <=> h[c][p].closed_wr)
      /\ (r.subscribed <=> h[c][p].subscribed) /\ (r.to_manage <=> ~h[c][p].is_probed)
      /\ (r.is_probed <=> h[c][p].is_probed)
      /\ r.messages = h[c][p].messages /\ r.probed = h[c][p].probed
      /\ (r.closed_rd <=> h[c][p].closed_rd) /\ (r.reg <=> h[c][p].reg)
  BY <1>5, <1>6, <1>7 DEF HandleMQTT
<1>9. /\ h' \in [Conn -> [Proc -> HandleMQTT]] /\ h'[c][p] = r
      /\ \A d \in Conn, x \in Proc : d # c \/ x # p => h'[d][x] = h[d][x]
  <2>1. CASE ~h[c][p].is_probed
    <3>1. h' = [h EXCEPT ![c][p].to_manage = TRUE]
      BY <2>1 DEF Yield, GoesToQueue
    <3>2. h' = [h EXCEPT ![c][p] = r]
      BY <1>1, <1>6, <2>1, <3>1 DEF TypeOK
    <3> QED BY <1>1, <1>8, <3>2 DEF TypeOK
  <2>2. CASE h[c][p].is_probed
    <3>1. h' = h /\ r = h[c][p]
      BY <1>6, <2>2 DEF Yield, GoesToQueue
    <3> QED BY <1>1, <3>1 DEF TypeOK
  <2> QED BY <2>1, <2>2
<1>10. /\ queue' \in [Proc -> [Conn -> Count]]
       /\ queue'[p][c] = IF h[c][p].is_probed THEN 1 ELSE 0
       /\ \A d \in Conn, x \in Proc : d # c \/ x # p => queue'[x][d] = queue[x][d]
  <2>a. queue \in [Proc -> [Conn -> Count]]
    BY <1>1, OwnTypes
  <2>1. CASE h[c][p].is_probed
    <3>1. queue' = [queue EXCEPT ![p][c] = @ + 1]
      BY <2>1 DEF Yield, GoesToQueue
    <3>2. PICK n \in Count : n = queue[p][c] + 1
      BY <1>5 DEF Count
    <3>3. queue' = [queue EXCEPT ![p][c] = n]
      BY <2>a, <3>1, <3>2
    <3>4. /\ queue' \in [Proc -> [Conn -> Count]] /\ queue'[p][c] = n
          /\ \A d \in Conn, x \in Proc : d # c \/ x # p => queue'[x][d] = queue[x][d]
      BY <2>a, <3>3
    <3> QED BY <1>5, <2>1, <3>2, <3>4
  <2>2. CASE ~h[c][p].is_probed
    <3>1. queue' = queue
      BY <2>2 DEF Yield, GoesToQueue
    <3> QED BY <1>5, <2>a, <2>2, <3>1
  <2> QED BY <2>1, <2>2
<1>11. /\ user' \in [Proc -> [Conn -> Has]] /\ user'[p][c] = "given"
       /\ \A d \in Conn, x \in Proc : d # c \/ x # p => user'[x][d] = user[x][d]
  BY <1>1, OwnTypes DEF Yield, Has
<1>12. TypeOK'
  BY <1>1, <1>2, <1>9, <1>10, <1>11, OwnTypes, Typed
<1>13. \A d \in Conn, x \in Proc : SameRoles(d, x)
  BY <1>2 DEF SameRoles, Calling, Dialling, Halfway, Acking, Greeting, At, IoAt
<1>14. Elsewhere(c, p)
  BY <1>2, <1>9, <1>10, <1>11, <1>13 DEF Elsewhere, Running
<1>15. OpeningAt(c)'
  <2>1. ~Calling(c, p)' /\ ~Acking(c, p)' /\ ~Greeting(c, p)'
    BY <1>5, <1>13 DEF SameRoles
  <2> QED BY <1>2, <1>3, <1>4, <1>9, <1>10, <1>11, <2>1, UsedKeepsOpening
<1>16. EndAt(c, p)'
  <2>1. ~Greeting(c, p)'
    BY <1>5, <1>13 DEF SameRoles
  <2>2. Owners(c, p)' = 1
    BY <1>8, <1>9, <1>10, <1>11, <2>1 DEF Owners, One, Greeting, IoAt
  <2> QED BY <1>1, <1>2, <1>5, <1>8, <1>9, <1>11, <2>2 DEF EndAt, Running
<1>17. StreamAt(c, p)'
  <2>1. /\ (Halfway(c, q)' <=> Halfway(c, q)) /\ topic'[c][p] = topic[c][p]
        /\ h'[c][q] = h[c][q] /\ (Running(p)' => Running(p))
    BY <1>2, <1>3, <1>9, <1>13 DEF SameRoles, Running
  <2> QED BY <1>1, <1>3, <1>8, <1>9, <2>1, StreamSame
<1>18. EndAt(c, Other(p))' /\ StreamAt(c, Other(p))'
  BY <1>2, <1>3, <1>8, <1>9, <1>10, <1>11, <1>13, PeerKept DEF SameRoles
<1>19. ThreadAt(p)'
  <2>1. main[p].c \in Conn /\ main[p].todo = {}
    BY <1>1, Parts DEF ThreadAt, At
  <2> QED BY <1>1, <1>2, <2>1 DEF ThreadAt, At, Running
<1> QED BY <1>12, <1>14, <1>15, <1>16, <1>17, <1>18, <1>19, LocalKeeps

(***************************************************************************)
(* The actions that read.                                                  *)
(***************************************************************************)
(* What comes next: a message read ahead, or the broker's.                 *)
LEMMA PendingIs ==
  ASSUME TypeOK, NEW c \in Conn, NEW p \in Proc
  PROVE  /\ h[c][p].messages = <<>> => Pending(c, p) = topic[c][p]
         /\ h[c][p].messages # <<>> => /\ Pending(c, p) # <<>>
                                       /\ Head(Pending(c, p)) = Head(h[c][p].messages)
         /\ Pending(c, p) # <<>> => Head(Pending(c, p)) \in Frame
<1>1. PICK s \in Seq(Frame), t \in Seq(Frame) : s = h[c][p].messages /\ t = topic[c][p]
  BY Parts
<1>2. Pending(c, p) = s \o t
  BY <1>1 DEF Pending
<1>3. <<>> \o t = t
  BY ConcatEmptySeq
<1>4. /\ s \o t \in Seq(Frame) /\ Len(s \o t) = Len(s) + Len(t)
      /\ \A i \in 1..(Len(s) + Len(t)) :
           (s \o t)[i] = IF i <= Len(s) THEN s[i] ELSE t[i - Len(s)]
  BY ConcatProperties
<1>5. Len(s) \in Nat /\ Len(t) \in Nat
  BY LenProperties
<1>6. ASSUME s # <<>> PROVE s \o t # <<>> /\ Head(s \o t) = Head(s)
  <2>1. Len(s) >= 1
    BY <1>5, <1>6, EmptySeq
  <2>2. Len(s \o t) >= 1
    BY <1>4, <1>5, <2>1
  <2>3. s \o t # <<>>
    BY <2>2, EmptySeq
  <2>4. (s \o t)[1] = s[1]
    BY <1>4, <1>5, <2>1
  <2> QED BY <1>4, <1>6, <2>3, <2>4, HeadTailProperties
<1>7. s \o t # <<>> => Head(s \o t) \in Frame
  BY <1>4, HeadTailProperties
<1> QED BY <1>1, <1>2, <1>3, <1>6, <1>7

(* What Take does: the message read ahead goes, or the broker's.           *)
LEMMA TakeSet ==
  ASSUME TypeOK, NEW c \in Conn, NEW p \in Proc, NEW g \in HandleMQTT,
         g.messages = h[c][p].messages, Pending(c, p) # <<>>,
         NEW hs, hs = [h EXCEPT ![c][p] = g], Take(c, p, hs)
  PROVE  /\ h' \in [Conn -> [Proc -> HandleMQTT]]
         /\ \A d \in Conn, x \in Proc : d # c \/ x # p => h'[d][x] = h[d][x]
         /\ (h'[c][p].subscribed <=> g.subscribed) /\ (h'[c][p].reg <=> g.reg)
         /\ (h'[c][p].to_manage <=> g.to_manage) /\ (h'[c][p].is_probed <=> g.is_probed)
         /\ (h'[c][p].closed_rd <=> g.closed_rd) /\ (h'[c][p].closed_wr <=> g.closed_wr)
         /\ h'[c][p].probed = g.probed
         /\ h[c][p].messages = <<>> =>
              h'[c][p].messages = <<>> /\ topic'[c][p] = Tail(topic[c][p])
         /\ h[c][p].messages # <<>> =>
              h'[c][p].messages = Tail(h[c][p].messages) /\ topic'[c][p] = topic[c][p]
         /\ topic' \in [Conn -> [Proc -> Seq(Frame)]]
         /\ \A d \in Conn, x \in Proc : d # c \/ x # p => topic'[d][x] = topic[d][x]
<1>1. PICK m : m = IF h[c][p].messages = <<>> THEN <<>> ELSE Tail(h[c][p].messages)
  OBVIOUS
<1>2. m \in Seq(Frame)
  <2>1. h[c][p].messages \in Seq(Frame)
    BY Parts
  <2>2. h[c][p].messages # <<>> => Tail(h[c][p].messages) \in Seq(Frame)
    BY <2>1, Tailed
  <2> QED BY <1>1, <2>2
<1>3. PICK r : r = [g EXCEPT !.messages = m]
  OBVIOUS
<1>4. /\ r \in HandleMQTT /\ (r.subscribed <=> g.subscribed) /\ (r.reg <=> g.reg)
      /\ (r.to_manage <=> g.to_manage) /\ (r.is_probed <=> g.is_probed)
      /\ (r.closed_rd <=> g.closed_rd) /\ (r.closed_wr <=> g.closed_wr)
      /\ r.probed = g.probed /\ r.messages = m
  BY <1>2, <1>3 DEF HandleMQTT
<1>5. hs \in [Conn -> [Proc -> HandleMQTT]] /\ hs[c][p] = g
  BY DEF TypeOK
<1>6. h' = [hs EXCEPT ![c][p].messages = IF @ = <<>> THEN @ ELSE Tail(@)]
  BY DEF Take
<1>7. h' = [hs EXCEPT ![c][p] = r]
  <2>1. g.messages = <<>> => m = g.messages
    BY <1>1
  <2>2. g.messages # <<>> => m = Tail(g.messages)
    BY <1>1
  <2>3. h' = [hs EXCEPT ![c][p].messages = m]
    BY <1>5, <1>6, <2>1, <2>2
  <2> QED BY <1>3, <1>5, <2>3
<1>8. h' = [h EXCEPT ![c][p] = r]
  BY <1>7 DEF TypeOK
<1>9. /\ h' \in [Conn -> [Proc -> HandleMQTT]] /\ h'[c][p] = r
      /\ \A d \in Conn, x \in Proc : d # c \/ x # p => h'[d][x] = h[d][x]
  BY <1>4, <1>8 DEF TypeOK
<1>10. /\ h[c][p].messages = <<>> => topic'[c][p] = Tail(topic[c][p])
       /\ h[c][p].messages # <<>> => topic'[c][p] = topic[c][p]
       /\ topic' \in [Conn -> [Proc -> Seq(Frame)]]
       /\ \A d \in Conn, x \in Proc : d # c \/ x # p => topic'[d][x] = topic[d][x]
  <2>1. CASE h[c][p].messages = <<>>
    <3>1. topic[c][p] # <<>> /\ topic[c][p] \in Seq(Frame)
      BY <2>1, PendingIs, Parts
    <3>2. PICK t : t = Tail(topic[c][p])
      OBVIOUS
    <3>3. t \in Seq(Frame)
      BY <3>1, <3>2, Tailed
    <3>4. topic' = [topic EXCEPT ![c][p] = Tail(@)]
      BY <2>1 DEF Take
    <3>5. topic' = [topic EXCEPT ![c][p] = t]
      BY <3>2, <3>4 DEF TypeOK
    <3>6. /\ topic'[c][p] = t /\ topic' \in [Conn -> [Proc -> Seq(Frame)]]
          /\ \A d \in Conn, x \in Proc : d # c \/ x # p => topic'[d][x] = topic[d][x]
      BY <3>3, <3>5 DEF TypeOK
    <3> QED BY <2>1, <3>2, <3>6
  <2>2. CASE h[c][p].messages # <<>>
    <3>1. topic' = topic
      BY <2>2 DEF Take
    <3> QED BY <2>2, <3>1 DEF TypeOK
  <2> QED BY <2>1, <2>2
<1> QED BY <1>1, <1>4, <1>9, <1>10

(* The parts of the stream of an end that is read.                         *)
LEMMA Reads ==
  ASSUME Inv, NEW c \in Conn, NEW p \in Proc
  PROVE  /\ topic[c][p] \in Seq(Frame) /\ EOSComes(c, p) \in Bit /\ Headed(c, p) \in Bit
         /\ Owed(c, p) \in Bit /\ ~(EOSComes(c, p) = 1 /\ Owed(c, p) = 1)
<1>1. PICK q \in Proc : q = Other(p)
  BY TwoProcs
<1>2. TypeOK /\ ThreadAt(q)
  BY DEF Inv, Threads
<1>3. topic[c][p] \in Seq(Frame)
  BY <1>2, Parts
<1>4. EOSComes(c, p) \in Bit /\ Headed(c, p) \in Bit /\ Owed(c, p) \in Bit
  BY DEF EOSComes, Headed, Owed, One, Bit
<1>5. ~(EOSComes(c, p) = 1 /\ Owed(c, p) = 1)
  BY <1>1, <1>2 DEF ThreadAt, EOSComes, Owed, Halfway, One, At
<1> QED BY <1>3, <1>4, <1>5

(* HandleUser::receive.                                                    *)
LEMMA ReceiveKeeps ==
  ASSUME Inv, NEW p \in Proc, NEW c \in Conn, Receive(p, c)
  PROVE  Inv'
<1>1. /\ TypeOK /\ ThreadAt(p) /\ EndAt(c, p) /\ StreamAt(c, p) /\ At(p, "idle")
      /\ user[p][c] = "held" /\ ~h[c][p].closed_rd /\ h[c][p].probed = "hdr"
      /\ Pending(c, p) # <<>>
  BY DEF Inv, Threads, Ends, Streams, Receive, Idle, MayRead
<1>2. UNCHANGED <<dropped, request, queue, user, main, io, sent>>
  BY DEF Receive
<1>3. PICK q \in Proc : q = Other(p) /\ q # p /\ Other(q) = p
  BY TwoProcs
<1>4. Used(c, p)
  BY <1>1 DEF Used
<1>5. /\ request[c] = "taken" /\ ~Calling(c, p) /\ ~Acking(c, p) /\ ~Greeting(c, p)
      /\ queue[p][c] = 0 /\ ~h[c][p].to_manage
  BY <1>1, <1>4, UsedIs, Exclusive
<1>6. Running(p) /\ h[c][p].reg
  BY <1>1 DEF ThreadAt, At, EndAt
<1>7. /\ h[c][p].is_probed /\ h[c][p].messages = <<>>
      /\ WellFramed(topic[c][p], EOSComes(c, p), 1, Owed(c, p))
  <2>1. h[c][p].is_probed /\ h[c][p].messages = <<>>
    BY <1>1, <1>6 DEF StreamAt
  <2>2. Headed(c, p) = 1
    BY <2>1 DEF Headed, Ended, One
  <2> QED BY <1>1, <1>6, <2>1, <2>2 DEF StreamAt
<1>8. PICK g : g = [h[c][p] EXCEPT !.is_probed = FALSE, !.probed = "none"]
  OBVIOUS
<1>9. h[c][p] \in HandleMQTT
  BY <1>1, Parts
<1>10. /\ g \in HandleMQTT /\ (g.closed_wr <=> h[c][p].closed_wr)
       /\ (g.subscribed <=> h[c][p].subscribed) /\ (g.to_manage <=> h[c][p].to_manage)
       /\ ~g.is_probed /\ g.messages = h[c][p].messages /\ g.probed = "none"
       /\ (g.closed_rd <=> h[c][p].closed_rd) /\ (g.reg <=> h[c][p].reg)
  BY <1>8, <1>9 DEF HandleMQTT
<1>11. PICK hs : hs = [Received(c, p) EXCEPT ![c][p].probed = "none"]
  OBVIOUS
<1>12. hs = [h EXCEPT ![c][p] = g] /\ Take(c, p, hs)
  BY <1>1, <1>8, <1>11 DEF Received, Receive, TypeOK
<1>13. /\ h' \in [Conn -> [Proc -> HandleMQTT]]
       /\ \A d \in Conn, x \in Proc : d # c \/ x # p => h'[d][x] = h[d][x]
       /\ (h'[c][p].subscribed <=> g.subscribed) /\ (h'[c][p].reg <=> g.reg)
       /\ (h'[c][p].to_manage <=> g.to_manage) /\ (h'[c][p].is_probed <=> g.is_probed)
       /\ (h'[c][p].closed_rd <=> g.closed_rd) /\ (h'[c][p].closed_wr <=> g.closed_wr)
       /\ h'[c][p].probed = g.probed /\ h'[c][p].messages = <<>>
       /\ topic' \in [Conn -> [Proc -> Seq(Frame)]] /\ topic'[c][p] = Tail(topic[c][p])
       /\ \A d \in Conn, x \in Proc : d # c \/ x # p => topic'[d][x] = topic[d][x]
  BY <1>1, <1>7, <1>10, <1>12, TakeSet
<1>14. TypeOK'
  BY <1>1, <1>2, <1>13, OwnTypes, Typed
<1>15. \A d \in Conn, x \in Proc : SameRoles(d, x)
  BY <1>2 DEF SameRoles, Calling, Dialling, Halfway, Acking, Greeting, At, IoAt
<1>16. Elsewhere(c, p)
  BY <1>2, <1>13, <1>15 DEF Elsewhere, Running
<1>17. OpeningAt(c)'
  <2>1. ~Calling(c, p)' /\ ~Acking(c, p)' /\ ~Greeting(c, p)'
    BY <1>5, <1>15 DEF SameRoles
  <2> QED BY <1>2, <1>3, <1>4, <1>13, <2>1, UsedKeepsOpening
<1>18. EndAt(c, p)'
  <2>1. Owners(c, p)' = Owners(c, p)
    BY <1>2, <1>10, <1>13 DEF Owners, One
  <2> QED BY <1>1, <1>2, <1>5, <1>10, <1>13, <2>1 DEF EndAt, Running
<1>19. StreamAt(c, p)'
  <2>1. /\ EOSComes(c, p)' = EOSComes(c, p) /\ Headed(c, p)' = 0 /\ Owed(c, p)' = Owed(c, p)
    BY <1>3, <1>7, <1>10, <1>13, <1>15 DEF EOSComes, Headed, Owed, Ended, One, SameRoles
  <2>2. PICK s \in Seq(Frame), e \in Bit, j \in Bit :
          s = topic[c][p] /\ e = EOSComes(c, p) /\ j = Owed(c, p)
    BY Reads
  <2>3. PICK t : t = Tail(s)
    OBVIOUS
  <2>4. ~(e = 1 /\ j = 1) /\ WellFramed(s, e, 1, j) /\ s # <<>>
    BY <1>1, <1>7, <2>2, Reads, PendingIs
  <2>5. WellFramed(t, e, 0, j)
    BY <2>3, <2>4, FramedReceive
  <2>6. WellFramed(topic[c][p], EOSComes(c, p), Headed(c, p), Owed(c, p))'
    BY <1>13, <2>1, <2>2, <2>3, <2>5 DEF WellFramed
  <2> QED BY <1>10, <1>13, <2>6 DEF StreamAt
<1>20. EndAt(c, Other(p))' /\ StreamAt(c, Other(p))'
  BY <1>2, <1>3, <1>10, <1>13, <1>15, PeerKept DEF SameRoles
<1>21. ThreadAt(p)'
  <2>1. main[p].c \in Conn /\ main[p].todo = {}
    BY <1>1, Parts DEF ThreadAt, At
  <2> QED BY <1>1, <1>2, <2>1 DEF ThreadAt, At, Running
<1> QED BY <1>14, <1>16, <1>17, <1>18, <1>19, <1>20, <1>21, LocalKeeps

(* HandleUser::probe, which closes the read side at EOS.                   *)
LEMMA ProbeKeeps ==
  ASSUME Inv, NEW p \in Proc, NEW c \in Conn, Probe(p, c)
  PROVE  Inv'
<1>1. /\ TypeOK /\ ThreadAt(p) /\ EndAt(c, p) /\ StreamAt(c, p) /\ At(p, "idle")
      /\ user[p][c] = "held" /\ ~h[c][p].closed_rd /\ h[c][p].probed = "none"
      /\ HeaderThere(c, p)
  BY DEF Inv, Threads, Ends, Streams, Probe, Idle, MayRead
<1>2. UNCHANGED <<dropped, request, queue, io, sent>>
  BY DEF Probe
<1>3. PICK q \in Proc : q = Other(p) /\ q # p /\ Other(q) = p
  BY TwoProcs
<1>4. Used(c, p)
  BY <1>1 DEF Used
<1>5. /\ request[c] = "taken" /\ ~Calling(c, p) /\ ~Acking(c, p) /\ ~Greeting(c, p)
      /\ queue[p][c] = 0 /\ ~h[c][p].to_manage
  BY <1>1, <1>4, UsedIs, Exclusive
<1>6. Running(p) /\ h[c][p].reg
  BY <1>1 DEF ThreadAt, At, EndAt
<1>7. Pending(c, p) # <<>>
  BY <1>1, PendingIs DEF HeaderThere
<1>8. PICK f \in Frame : f = Head(Pending(c, p))
  BY <1>1, <1>7, PendingIs
<1>9. PICK b \in BOOLEAN : b <=> f = "eos"
  OBVIOUS
<1>10. PICK g : g = [h[c][p] EXCEPT !.is_probed = TRUE, !.closed_rd = b, !.probed = f]
  OBVIOUS
<1>11. h[c][p] \in HandleMQTT
  BY <1>1, Parts
<1>12. /\ g \in HandleMQTT /\ (g.closed_wr <=> h[c][p].closed_wr)
       /\ (g.subscribed <=> h[c][p].subscribed) /\ (g.to_manage <=> h[c][p].to_manage)
       /\ g.is_probed /\ g.messages = h[c][p].messages /\ g.probed = f
       /\ (g.closed_rd <=> f = "eos") /\ (g.reg <=> h[c][p].reg)
  BY <1>9, <1>10, <1>11 DEF HandleMQTT
<1>13. PICK hs : hs = [h EXCEPT ![c][p].is_probed = TRUE, ![c][p].closed_rd = b,
                                ![c][p].probed = f]
  OBVIOUS
<1>14. hs = [h EXCEPT ![c][p] = g] /\ Take(c, p, hs)
  <2>1. hs = [h EXCEPT ![c][p] = g]
    BY <1>1, <1>10, <1>13 DEF TypeOK
  <2>2. b = (Head(Pending(c, p)) = "eos")
    BY <1>8, <1>9
  <2>3. Take(c, p, hs)
    BY <1>8, <1>13, <2>2 DEF Probe
  <2> QED BY <2>1, <2>3
<1>15. /\ h' \in [Conn -> [Proc -> HandleMQTT]]
       /\ \A d \in Conn, x \in Proc : d # c \/ x # p => h'[d][x] = h[d][x]
       /\ (h'[c][p].subscribed <=> g.subscribed) /\ (h'[c][p].reg <=> g.reg)
       /\ (h'[c][p].to_manage <=> g.to_manage) /\ (h'[c][p].is_probed <=> g.is_probed)
       /\ (h'[c][p].closed_rd <=> g.closed_rd) /\ (h'[c][p].closed_wr <=> g.closed_wr)
       /\ h'[c][p].probed = g.probed
       /\ (h[c][p].messages = <<>> =>
             h'[c][p].messages = <<>> /\ topic'[c][p] = Tail(topic[c][p]))
       /\ (h[c][p].messages # <<>> =>
             h'[c][p].messages = Tail(h[c][p].messages) /\ topic'[c][p] = topic[c][p])
       /\ topic' \in [Conn -> [Proc -> Seq(Frame)]]
       /\ \A d \in Conn, x \in Proc : d # c \/ x # p => topic'[d][x] = topic[d][x]
  BY <1>1, <1>7, <1>12, <1>14, TakeSet
<1>16. /\ user' \in [Proc -> [Conn -> Has]]
       /\ user'[p][c] = IF f = "eos" THEN "given" ELSE "held"
       /\ \A d \in Conn, x \in Proc : d # c \/ x # p => user'[x][d] = user[x][d]
  <2>a. user \in [Proc -> [Conn -> Has]]
    BY <1>1, OwnTypes
  <2>1. CASE f = "eos"
    <3>1. user' = [user EXCEPT ![p][c] = "given"]
      BY <1>8, <2>1 DEF Probe
    <3> QED BY <2>a, <2>1, <3>1 DEF Has
  <2>2. CASE f # "eos"
    <3>1. user' = user
      BY <1>8, <2>2 DEF Probe
    <3> QED BY <1>1, <2>a, <2>2, <3>1
  <2> QED BY <2>1, <2>2
<1>17. /\ main' \in [Proc -> Thread] /\ main'[p].pc \in {"idle", "notify"}
       /\ main'[p].todo = main[p].todo
       /\ (main'[p].pc = "notify" => main'[p].c = c)
       /\ \A x \in Proc : x # p => main'[x] = main[x]
  <2>1. CASE f = "eos"
    <3>1. Call(p, "notify", c)
      BY <1>8, <2>1 DEF Probe
    <3> QED BY <1>1, <3>1, CallSet DEF PC
  <2>2. CASE f # "eos"
    <3>1. main' = main
      BY <1>8, <2>2 DEF Probe
    <3> QED BY <1>1, <3>1, OwnTypes DEF At
  <2> QED BY <2>1, <2>2
<1>18. TypeOK'
  BY <1>1, <1>2, <1>15, <1>16, <1>17, OwnTypes, Typed
<1>19. /\ ~Calling(c, p)' /\ ~Acking(c, p)' /\ ~Greeting(c, p)'
       /\ ~Halfway(c, p) /\ ~Halfway(c, p)' /\ (Halfway(c, q)' <=> Halfway(c, q))
  BY <1>1, <1>2, <1>3, <1>5, <1>17 DEF Calling, Halfway, Acking, Greeting, At, IoAt
<1>20. \A d \in Conn : d # c => SameRoles(d, p)
  BY <1>1, <1>2, <1>17 DEF SameRoles, Calling, Dialling, Halfway, Acking, Greeting, At, IoAt
<1>21. Elsewhere(c, p)
  BY <1>2, <1>15, <1>16, <1>17, <1>20 DEF Elsewhere, Running
<1>22. OpeningAt(c)'
  <2>1. user'[p][c] = user[p][c] \/ user'[p][c] # "none"
    BY <1>16
  <2> QED BY <1>2, <1>3, <1>4, <1>15, <1>16, <1>17, <1>19, <2>1, UsedKeepsOpening, ZenonT(60)
<1>23. EndAt(c, p)'
  <2>1. Owners(c, p)' = IF f = "eos" THEN 0 ELSE 1
    BY <1>2, <1>5, <1>12, <1>15, <1>16, <1>19 DEF Owners, One, Greeting, IoAt
  <2> QED BY <1>1, <1>2, <1>5, <1>6, <1>12, <1>15, <1>16, <2>1 DEF EndAt, Running
<1>24. StreamAt(c, p)'
  <2> SUFFICES ASSUME f # "eos" PROVE StreamAt(c, p)'
    BY <1>12, <1>15 DEF StreamAt
  <2>1. /\ h[c][p].messages \in {<<>>, <<"hdr">>, <<"eos">>}
        /\ (~h[c][p].is_probed => h[c][p].messages = <<>>)
        /\ WellFramed(topic[c][p], EOSComes(c, p), Headed(c, p), Owed(c, p))
    BY <1>1, <1>6 DEF StreamAt
  <2>2. h'[c][p].messages = <<>> /\ h[c][p].messages # <<"eos">>
    <3>1. CASE h[c][p].messages = <<>>
      BY <1>15, <3>1
    <3>2. CASE h[c][p].messages # <<>>
      <4>1. f = Head(h[c][p].messages)
        BY <1>1, <1>8, <3>2, PendingIs
      <4>2. h[c][p].messages = <<"hdr">>
        BY <2>1, <3>2, <4>1
      <4> QED BY <1>15, <3>2, <4>2
    <3> QED BY <3>1, <3>2
  <2>3. /\ EOSComes(c, p)' = EOSComes(c, p) /\ Headed(c, p)' = 1 /\ Owed(c, p)' = Owed(c, p)
    BY <1>3, <1>12, <1>15, <1>19, <2>2 DEF EOSComes, Headed, Owed, Ended, One
  <2>4. PICK s \in Seq(Frame), e \in Bit, j \in Bit :
          s = topic[c][p] /\ e = EOSComes(c, p) /\ j = Owed(c, p)
    BY Reads
  <2>5. f = "hdr" /\ WellFramed(topic'[c][p], e, 1, j)
    <3>1. CASE h[c][p].messages = <<>>
      <4>1. ~h[c][p].is_probed /\ topic[c][p] # <<>> /\ f = Head(s)
        BY <1>1, <1>8, <2>4, <3>1, PendingIs DEF HeaderThere
      <4>2. Headed(c, p) = 0
        BY <4>1 DEF Headed, One
      <4>3. WellFramed(s, e, 0, j) /\ s # <<>>
        BY <2>1, <2>4, <4>1, <4>2
      <4>4. PICK t : t = Tail(s)
        OBVIOUS
      <4>5. Head(s) = "hdr" /\ WellFramed(t, e, 1, j)
        BY <4>1, <4>3, <4>4, FramedProbe
      <4> QED BY <1>15, <2>4, <3>1, <4>1, <4>4, <4>5
    <3>2. CASE h[c][p].messages # <<>>
      <4>1. f = Head(h[c][p].messages) /\ h[c][p].messages = <<"hdr">> /\ h[c][p].is_probed
        BY <1>1, <1>8, <2>1, <2>2, <3>2, PendingIs
      <4>2. Headed(c, p) = 1
        BY <2>2, <4>1 DEF Headed, Ended, One
      <4> QED BY <1>15, <2>1, <2>4, <3>2, <4>1, <4>2
    <3> QED BY <3>1, <3>2
  <2>6. WellFramed(topic[c][p], EOSComes(c, p), Headed(c, p), Owed(c, p))'
    BY <2>3, <2>4, <2>5 DEF WellFramed
  <2> QED BY <1>12, <1>15, <2>2, <2>5, <2>6 DEF StreamAt
<1>25. EndAt(c, Other(p))' /\ StreamAt(c, Other(p))'
  BY <1>2, <1>3, <1>12, <1>15, <1>16, <1>19, PeerKept
<1>26. ThreadAt(p)'
  <2>1. main[p].todo = {} /\ Running(p)'
    BY <1>1, <1>2, <1>6 DEF ThreadAt, At, Running
  <2>2. main'[p].pc = "notify" => user'[p][c] # "none"
    BY <1>16
  <2> QED BY <1>17, <2>1, <2>2 DEF ThreadAt, At
<1> QED BY <1>18, <1>21, <1>22, <1>23, <1>24, <1>25, <1>26, LocalKeeps

(***************************************************************************)
(* The actions of ConnMQTT::end.                                           *)
(***************************************************************************)
(* What ConnMQTT::end has still to close is its own, and the IO thread has *)
(* gone.                                                                   *)
LEMMA Ending ==
  ASSUME Inv, NEW p \in Proc, NEW c \in Conn,
         c \in main[p].todo \/ (At(p, "drain") /\ main[p].c = c)
  PROVE  /\ TypeOK /\ ThreadAt(p) /\ EndAt(c, p) /\ h[c][p].to_manage /\ ~Running(p)
         /\ Used(c, p) /\ request[c] = "taken"
         /\ ~Calling(c, p) /\ ~Acking(c, p) /\ ~Greeting(c, p) /\ ~h[c][p].closed_rd
         /\ user[p][c] # "held" /\ queue[p][c] = 0
<1>1. TypeOK /\ ThreadAt(p) /\ EndAt(c, p)
  BY DEF Inv, Threads, Ends
<1>2. h[c][p].to_manage /\ ~Running(p)
  BY <1>1 DEF ThreadAt, At
<1>3. Used(c, p)
  BY <1>2 DEF Used
<1> QED BY <1>1, <1>2, <1>3, UsedIs, Exclusive

(* EndNext for one connection.                                             *)
EndNextOne(p, c) ==
    /\ At(p, "end")
    /\ h' = [h EXCEPT ![c][p].closed_wr = TRUE]
    /\ IF h[c][p].closed_wr THEN UNCHANGED <<topic, dropped>> ELSE Publish(c, p, "eos")
    /\ main' = [main EXCEPT ![p].pc = "drain", ![p].c = c, ![p].todo = @ \ {c}]
    /\ UNCHANGED <<request, queue, user, io, sent>>

(* ConnMQTT::end closes the write side of the next one.                    *)
LEMMA EndNextKeeps ==
  ASSUME Inv, NEW p \in Proc, NEW c \in Conn, c \in main[p].todo, EndNextOne(p, c)
  PROVE  Inv'
<1>1. /\ TypeOK /\ ThreadAt(p) /\ EndAt(c, p) /\ h[c][p].to_manage /\ ~Running(p)
      /\ Used(c, p) /\ request[c] = "taken"
      /\ ~Calling(c, p) /\ ~Acking(c, p) /\ ~Greeting(c, p) /\ ~h[c][p].closed_rd
  BY Ending
<1>2. UNCHANGED <<request, queue, user, io, sent>> /\ At(p, "end")
  BY DEF EndNextOne
<1>3. PICK q \in Proc : q = Other(p) /\ q # p /\ Other(q) = p
  BY TwoProcs
<1>4. PICK r : r = [h[c][p] EXCEPT !.closed_wr = TRUE]
  OBVIOUS
<1>5. h[c][p] \in HandleMQTT
  BY <1>1, Parts
<1>6. /\ r \in HandleMQTT /\ r.closed_wr /\ (r.subscribed <=> h[c][p].subscribed)
      /\ (r.reg <=> h[c][p].reg) /\ (r.to_manage <=> h[c][p].to_manage)
      /\ (r.is_probed <=> h[c][p].is_probed)
      /\ (r.closed_rd <=> h[c][p].closed_rd)
  BY <1>4, <1>5 DEF HandleMQTT
<1>7. h' = [h EXCEPT ![c][p] = r]
  BY <1>1, <1>4 DEF EndNextOne, TypeOK
<1>8. /\ h' \in [Conn -> [Proc -> HandleMQTT]] /\ h'[c][p] = r
      /\ \A d \in Conn, x \in Proc : d # c \/ x # p => h'[d][x] = h[d][x]
  BY <1>1, <1>6, <1>7 DEF TypeOK
<1>9. /\ main' \in [Proc -> Thread] /\ main'[p].pc = "drain" /\ main'[p].c = c
      /\ main'[p].todo = main[p].todo \ {c}
      /\ \A x \in Proc : x # p => main'[x] = main[x]
  <2>1. PICK m : m = [main[p] EXCEPT !.pc = "drain", !.c = c, !.todo = @ \ {c}]
    OBVIOUS
  <2>2. main[p] \in Thread
    BY <1>1, Parts
  <2>3. m \in Thread /\ m.pc = "drain" /\ m.c = c /\ m.todo = main[p].todo \ {c}
    BY <2>1, <2>2 DEF Thread, PC
  <2>4. main' = [main EXCEPT ![p] = m]
    BY <1>1, <2>1 DEF EndNextOne, TypeOK
  <2> QED BY <1>1, <2>3, <2>4, MainSet
<1>10. /\ topic' \in [Conn -> [Proc -> Seq(Frame)]] /\ dropped' \subseteq Conn \X Proc
       /\ \A d \in Conn, x \in Proc : d # c \/ x # q =>
            topic'[d][x] = topic[d][x] /\ (<<d, x>> \in dropped' <=> <<d, x>> \in dropped)
  <2>1. CASE h[c][p].closed_wr
    <3>1. topic' = topic /\ dropped' = dropped
      BY <2>1 DEF EndNextOne
    <3> QED BY <1>1, <3>1, OwnTypes
  <2>2. CASE ~h[c][p].closed_wr
    <3>1. Publish(c, p, "eos") /\ "eos" \in Frame
      BY <2>2 DEF EndNextOne, Frame
    <3> QED BY <1>1, <1>3, <3>1, PublishSet
  <2> QED BY <2>1, <2>2
<1>11. TypeOK'
  BY <1>1, <1>2, <1>8, <1>9, <1>10, OwnTypes, Typed
<1>12. /\ ~Calling(c, p)' /\ ~Acking(c, p)' /\ ~Greeting(c, p)' /\ ~Running(p)'
       /\ ~Halfway(c, p) /\ ~Halfway(c, p)'
  BY <1>1, <1>2, <1>9 DEF Calling, Halfway, Acking, Greeting, At, IoAt, Running
<1>13. \A d \in Conn : d # c => SameRoles(d, p)
  BY <1>2, <1>9 DEF SameRoles, Calling, Dialling, Halfway, Acking, Greeting, At, IoAt
<1>14. Elsewhere(c, p)
  BY <1>2, <1>3, <1>8, <1>9, <1>10, <1>12, <1>13 DEF Elsewhere
<1>15. OpeningAt(c)'
  BY <1>1, <1>2, <1>3, <1>8, <1>9, <1>12, UsedKeepsOpening
<1>16. EndAt(c, p)'
  <2>1. Owners(c, p)' = Owners(c, p)
    BY <1>2, <1>6, <1>8 DEF Owners, One
  <2>2. <<c, p>> \in dropped' <=> <<c, p>> \in dropped
    BY <1>3, <1>10
  <2> QED BY <1>1, <1>2, <1>6, <1>8, <1>12, <2>1, <2>2 DEF EndAt
<1>17. StreamAt(c, p)'
  BY <1>12 DEF StreamAt
<1>18. EndAt(c, Other(p))' /\ StreamAt(c, Other(p))'
  <2>1. /\ main'[Other(p)] = main[Other(p)] /\ h'[c][p].closed_wr
        /\ h'[c][Other(p)] = h[c][Other(p)]
    BY <1>3, <1>6, <1>8, <1>9
  <2>2. CASE h[c][p].closed_wr
    <3>1. topic' = topic /\ dropped' = dropped
      BY <2>2 DEF EndNextOne
    <3> QED BY <1>2, <1>12, <2>1, <2>2, <3>1, PeerKept
  <2>3. CASE ~h[c][p].closed_wr
    <3>1. Publish(c, p, "eos") /\ "eos" \in Frame
      BY <2>3 DEF EndNextOne, Frame
    <3> QED BY <1>1, <1>2, <1>12, <2>1, <2>3, <3>1, Published
  <2> QED BY <2>2, <2>3
<1>19. ThreadAt(p)'
  <2>1. \A d \in main'[p].todo : h'[d][p].to_manage
    <3>1. main[p].todo \subseteq Conn
      BY <1>1, Parts
    <3>2. \A d \in main[p].todo : h[d][p].to_manage
      BY <1>1 DEF ThreadAt
    <3> QED BY <1>8, <1>9, <3>1, <3>2
  <2>2. h'[c][p].to_manage /\ c \notin main'[p].todo
    BY <1>1, <1>6, <1>8, <1>9
  <2> QED BY <1>9, <1>12, <2>1, <2>2 DEF ThreadAt, At
<1> QED BY <1>11, <1>14, <1>15, <1>16, <1>17, <1>18, <1>19, LocalKeeps

(* It reads what comes before EOS.                                         *)
LEMMA DrainKeeps ==
  ASSUME Inv, NEW p \in Proc, NEW c \in Conn, main[p].c = c, Drain(p)
  PROVE  Inv'
<1>0. At(p, "drain") /\ Pending(c, p) # <<>>
  BY DEF Drain
<1>1. /\ TypeOK /\ ThreadAt(p) /\ EndAt(c, p) /\ h[c][p].to_manage /\ ~Running(p)
      /\ Used(c, p) /\ request[c] = "taken"
      /\ ~Calling(c, p) /\ ~Acking(c, p) /\ ~Greeting(c, p) /\ ~h[c][p].closed_rd
  BY <1>0, Ending
<1>2. UNCHANGED <<dropped, request, queue, user, main, io, sent>>
  BY DEF Drain
<1>3. PICK q \in Proc : q = Other(p) /\ q # p /\ Other(q) = p
  BY TwoProcs
<1>4. PICK b \in BOOLEAN : Take(c, p, [h EXCEPT ![c][p].is_probed = b])
  BY DEF Drain, Received
<1>5. PICK g : g = [h[c][p] EXCEPT !.is_probed = b]
  OBVIOUS
<1>6. h[c][p] \in HandleMQTT
  BY <1>1, Parts
<1>7. /\ g \in HandleMQTT /\ (g.closed_wr <=> h[c][p].closed_wr)
      /\ (g.subscribed <=> h[c][p].subscribed) /\ (g.to_manage <=> h[c][p].to_manage)
      /\ g.messages = h[c][p].messages
      /\ (g.closed_rd <=> h[c][p].closed_rd) /\ (g.reg <=> h[c][p].reg)
  BY <1>5, <1>6 DEF HandleMQTT
<1>8. PICK hs : hs = [h EXCEPT ![c][p].is_probed = b]
  OBVIOUS
<1>9. hs = [h EXCEPT ![c][p] = g] /\ Take(c, p, hs)
  BY <1>1, <1>4, <1>5, <1>8 DEF TypeOK
<1>10. /\ h' \in [Conn -> [Proc -> HandleMQTT]]
       /\ \A d \in Conn, x \in Proc : d # c \/ x # p => h'[d][x] = h[d][x]
       /\ (h'[c][p].subscribed <=> g.subscribed) /\ (h'[c][p].reg <=> g.reg)
       /\ (h'[c][p].to_manage <=> g.to_manage) /\ (h'[c][p].is_probed <=> g.is_probed)
       /\ (h'[c][p].closed_rd <=> g.closed_rd) /\ (h'[c][p].closed_wr <=> g.closed_wr)
       /\ h'[c][p].probed = g.probed
       /\ (h[c][p].messages = <<>> =>
             h'[c][p].messages = <<>> /\ topic'[c][p] = Tail(topic[c][p]))
       /\ (h[c][p].messages # <<>> =>
             h'[c][p].messages = Tail(h[c][p].messages) /\ topic'[c][p] = topic[c][p])
       /\ topic' \in [Conn -> [Proc -> Seq(Frame)]]
       /\ \A d \in Conn, x \in Proc : d # c \/ x # p => topic'[d][x] = topic[d][x]
  <2>1. /\ TypeOK /\ Pending(c, p) # <<>> /\ g \in HandleMQTT
        /\ g.messages = h[c][p].messages
    BY <1>0, <1>1, <1>7
  <2> QED BY <1>9, <2>1, TakeSet
<1>11. TypeOK'
  BY <1>1, <1>2, <1>10, OwnTypes, Typed
<1>12. (\A d \in Conn, x \in Proc : SameRoles(d, x)) /\ ~Running(p)'
  BY <1>1, <1>2 DEF SameRoles, Calling, Dialling, Halfway, Acking, Greeting, At, IoAt, Running
<1>13. Elsewhere(c, p)
  BY <1>2, <1>10, <1>12 DEF Elsewhere
<1>14. OpeningAt(c)'
  <2>1. ~Calling(c, p)' /\ ~Acking(c, p)' /\ ~Greeting(c, p)'
    BY <1>1, <1>12 DEF SameRoles
  <2> QED BY <1>1, <1>2, <1>3, <1>10, <2>1, UsedKeepsOpening
<1>15. EndAt(c, p)'
  <2>1. Owners(c, p)' = Owners(c, p)
    BY <1>2, <1>7, <1>10 DEF Owners, One
  <2> QED BY <1>1, <1>2, <1>7, <1>10, <1>12, <2>1 DEF EndAt
<1>16. StreamAt(c, p)'
  BY <1>12 DEF StreamAt
<1>17. EndAt(c, Other(p))' /\ StreamAt(c, Other(p))'
  BY <1>2, <1>3, <1>7, <1>10, <1>12, PeerKept DEF SameRoles
<1>18. ThreadAt(p)'
  <2>1. \A d \in main[p].todo : h'[d][p].to_manage
    <3>1. main[p].todo \subseteq Conn
      BY <1>1, Parts
    <3>2. \A d \in main[p].todo : h[d][p].to_manage
      BY <1>1 DEF ThreadAt
    <3> QED BY <1>1, <1>7, <1>10, <3>1, <3>2, ZenonT(60)
  <2>2. h'[c][p].to_manage
    BY <1>1, <1>7, <1>10
  <2> QED BY <1>0, <1>1, <1>2, <1>12, <2>1, <2>2 DEF ThreadAt, At
<1> QED BY <1>11, <1>13, <1>14, <1>15, <1>16, <1>17, <1>18, LocalKeeps

(* It closes the read side, and the end is nobody's.                       *)
LEMMA CloseReadKeeps ==
  ASSUME Inv, NEW p \in Proc, NEW c \in Conn, main[p].c = c, CloseRead(p)
  PROVE  Inv'
<1>0. At(p, "drain")
  BY DEF CloseRead
<1>1. /\ TypeOK /\ ThreadAt(p) /\ EndAt(c, p) /\ h[c][p].to_manage /\ ~Running(p)
      /\ Used(c, p) /\ request[c] = "taken"
      /\ ~Calling(c, p) /\ ~Acking(c, p) /\ ~Greeting(c, p)
      /\ user[p][c] # "held" /\ queue[p][c] = 0
  BY <1>0, Ending
<1>2. UNCHANGED <<topic, dropped, request, queue, user, io, sent>>
  BY DEF CloseRead
<1>3. PICK q \in Proc : q = Other(p) /\ q # p /\ Other(q) = p
  BY TwoProcs
<1>a. PICK b \in BOOLEAN : b = (user[p][c] # "none")
  OBVIOUS
<1>4. PICK r : r = [h[c][p] EXCEPT !.closed_rd = TRUE, !.reg = FALSE, !.to_manage = FALSE,
                                   !.subscribed = b]
  OBVIOUS
<1>5. h[c][p] \in HandleMQTT
  BY <1>1, Parts
<1>6. /\ r \in HandleMQTT /\ (r.closed_wr <=> h[c][p].closed_wr)
      /\ r.closed_rd /\ ~r.reg /\ ~r.to_manage
  BY <1>4, <1>5 DEF HandleMQTT
<1>7. h' = [h EXCEPT ![c][p] = r]
  <2>1. h' = [h EXCEPT ![c][p].closed_rd = TRUE, ![c][p].reg = FALSE,
                       ![c][p].to_manage = FALSE, ![c][p].subscribed = b]
    BY <1>a DEF CloseRead
  <2>2. PICK r1 : r1 = [h[c][p] EXCEPT !.closed_rd = TRUE, !.reg = FALSE]
    OBVIOUS
  <2>3. PICK r2 : r2 = [r1 EXCEPT !.to_manage = FALSE, !.subscribed = b]
    OBVIOUS
  <2>4. PICK h1 : h1 = [h EXCEPT ![c][p].closed_rd = TRUE, ![c][p].reg = FALSE]
    OBVIOUS
  <2>5. h' = [h1 EXCEPT ![c][p].to_manage = FALSE, ![c][p].subscribed = b]
    BY <2>1, <2>4
  <2>6. h1 = [h EXCEPT ![c][p] = r1]
    BY <1>1, <2>2, <2>4 DEF TypeOK
  <2>7. h' = [h EXCEPT ![c][p] = r2]
    BY <1>1, <2>3, <2>6, <2>5 DEF TypeOK
  <2>8. r = r2
    BY <1>4, <2>2, <2>3
  <2> QED BY <2>7, <2>8
<1>8. /\ h' \in [Conn -> [Proc -> HandleMQTT]] /\ h'[c][p] = r
      /\ \A d \in Conn, x \in Proc : d # c \/ x # p => h'[d][x] = h[d][x]
  BY <1>1, <1>6, <1>7 DEF TypeOK
<1>9. /\ main' \in [Proc -> Thread] /\ main'[p].pc = "end" /\ main'[p].c = c
      /\ main'[p].todo = main[p].todo
      /\ \A x \in Proc : x # p => main'[x] = main[x]
  BY <1>1, GotoSet DEF CloseRead, PC
<1>10. TypeOK'
  BY <1>1, <1>2, <1>8, <1>9, OwnTypes, Typed
<1>11. /\ ~Calling(c, p)' /\ ~Acking(c, p)' /\ ~Greeting(c, p)' /\ ~Running(p)'
       /\ ~Halfway(c, p) /\ ~Halfway(c, p)'
  BY <1>0, <1>1, <1>2, <1>9 DEF Calling, Halfway, Acking, Greeting, At, IoAt, Running
<1>12. \A d \in Conn : d # c => SameRoles(d, p)
  BY <1>0, <1>2, <1>9 DEF SameRoles, Calling, Dialling, Halfway, Acking, Greeting, At, IoAt
<1>13. Elsewhere(c, p)
  BY <1>2, <1>8, <1>9, <1>11, <1>12 DEF Elsewhere
<1>14. OpeningAt(c)'
  BY <1>1, <1>2, <1>3, <1>8, <1>9, <1>11, UsedKeepsOpening
<1>15. EndAt(c, p)'
  <2>1. Owners(c, p)' = 0
    BY <1>1, <1>2, <1>6, <1>8, <1>11 DEF Owners, One, Greeting, IoAt
  <2> QED BY <1>1, <1>2, <1>6, <1>8, <1>11, <2>1 DEF EndAt
<1>16. StreamAt(c, p)'
  BY <1>11 DEF StreamAt
<1>17. EndAt(c, Other(p))' /\ StreamAt(c, Other(p))'
  BY <1>2, <1>3, <1>6, <1>8, <1>11, PeerKept
<1>18. ThreadAt(p)'
  <2>1. \A d \in main'[p].todo : h'[d][p].to_manage
    <3>1. main[p].todo \subseteq Conn /\ c \notin main[p].todo
      BY <1>0, <1>1, Parts DEF ThreadAt
    <3>2. \A d \in main[p].todo : h[d][p].to_manage
      BY <1>1 DEF ThreadAt
    <3> QED BY <1>8, <1>9, <3>1, <3>2
  <2> QED BY <1>9, <1>11, <2>1 DEF ThreadAt, At
<1> QED BY <1>10, <1>13, <1>14, <1>15, <1>16, <1>17, <1>18, LocalKeeps

(***************************************************************************)
(* The IO thread reads ahead for every end in the table that has a header. *)
(***************************************************************************)
(* Such an end has been used, and nothing has been read ahead for it.      *)
LEMMA PolledIs ==
  ASSUME Inv, NEW p \in Proc, Running(p), NEW c \in Conn, c \in Polled(p)
  PROVE  /\ h[c][p].reg /\ h[c][p].to_manage /\ topic[c][p] # <<>> /\ ~h[c][p].closed_rd
         /\ ~h[c][p].is_probed /\ h[c][p].messages = <<>> /\ h[c][p].probed = "none"
         /\ user[p][c] # "held" /\ queue[p][c] = 0 /\ Used(c, p)
         /\ request[c] = "taken" /\ ~Calling(c, p) /\ ~Acking(c, p) /\ ~Greeting(c, p)
         /\ WellFramed(topic[c][p], EOSComes(c, p), 0, Owed(c, p))
<1>1. h[c][p].reg /\ h[c][p].to_manage /\ topic[c][p] # <<>>
  BY DEF Polled
<1>2. TypeOK /\ EndAt(c, p) /\ StreamAt(c, p)
  BY DEF Inv, Ends, Streams
<1>3. Used(c, p)
  BY <1>1 DEF Used
<1>4. user[p][c] # "held" /\ queue[p][c] = 0 /\ ~h[c][p].closed_rd
  BY <1>1, Exclusive
<1>5. request[c] = "taken" /\ ~Calling(c, p) /\ ~Acking(c, p) /\ ~Greeting(c, p)
  BY <1>3, UsedIs
<1>6. ~h[c][p].is_probed
  BY <1>1, <1>2 DEF EndAt
<1>7. Headed(c, p) = 0
  BY <1>6 DEF Headed, One
<1>8. /\ h[c][p].messages = <<>> /\ h[c][p].probed = "none"
      /\ WellFramed(topic[c][p], EOSComes(c, p), 0, Owed(c, p))
  BY <1>1, <1>2, <1>4, <1>6, <1>7 DEF StreamAt
<1> QED BY <1>1, <1>3, <1>4, <1>5, <1>6, <1>8

(* What is read ahead for it: its header is cached, and it is queued.      *)
ReadAhead(c, p) ==
    /\ h'[c] \in [Proc -> HandleMQTT] /\ topic'[c] \in [Proc -> Seq(Frame)]
    /\ queue'[p][c] = 1 /\ topic'[c][p] = Tail(topic[c][p])
    /\ h'[c][p].is_probed /\ ~h'[c][p].to_manage
    /\ h'[c][p].messages = <<Head(topic[c][p])>> /\ h'[c][p].probed = h[c][p].probed
    /\ (h'[c][p].reg <=> h[c][p].reg) /\ (h'[c][p].subscribed <=> h[c][p].subscribed)
    /\ (h'[c][p].closed_rd <=> h[c][p].closed_rd)
    /\ (h'[c][p].closed_wr <=> h[c][p].closed_wr)
    /\ \A x \in Proc : x # p => h'[c][x] = h[c][x] /\ topic'[c][x] = topic[c][x]

(* The loop over the table, handle by handle.                              *)
LEMMA PollSet ==
  ASSUME Inv, NEW p \in Proc, Running(p), Poll(p)
  PROVE  /\ \A c \in Conn : c \in Polled(p) => ReadAhead(c, p)
         /\ \A c \in Conn : c \notin Polled(p) =>
              h'[c] = h[c] /\ topic'[c] = topic[c] /\ queue'[p][c] = queue[p][c]
         /\ \A x \in Proc : x # p => queue'[x] = queue[x]
         /\ queue' \in [Proc -> [Conn -> Count]]
         /\ h' \in [Conn -> [Proc -> HandleMQTT]]
         /\ topic' \in [Conn -> [Proc -> Seq(Frame)]]
<1>1. TypeOK
  BY DEF Inv
<1>2. /\ h' = [c \in Conn |-> IF c \in Polled(p)
                THEN [h[c] EXCEPT ![p].is_probed = TRUE, ![p].to_manage = FALSE,
                                  ![p].messages = Append(@, Head(topic[c][p]))]
                ELSE h[c]]
      /\ topic' = [c \in Conn |-> IF c \in Polled(p)
                                  THEN [topic[c] EXCEPT ![p] = Tail(@)] ELSE topic[c]]
      /\ queue' = [queue EXCEPT ![p] = [c \in Conn |->
                     IF c \in Polled(p) THEN @[c] + 1 ELSE @[c]]]
  BY DEF Poll
<1>3. /\ h \in [Conn -> [Proc -> HandleMQTT]] /\ topic \in [Conn -> [Proc -> Seq(Frame)]]
      /\ queue \in [Proc -> [Conn -> Count]]
  BY <1>1, OwnTypes
<1>4. /\ \A c \in Conn : c \in Polled(p) => queue'[p][c] = 1
      /\ \A c \in Conn : c \notin Polled(p) => queue'[p][c] = queue[p][c]
      /\ \A x \in Proc : x # p => queue'[x] = queue[x]
      /\ queue' \in [Proc -> [Conn -> Count]]
  <2>1. PICK f : f = [c \in Conn |-> IF c \in Polled(p) THEN queue[p][c] + 1 ELSE queue[p][c]]
    OBVIOUS
  <2>2. queue' = [queue EXCEPT ![p] = f]
    BY <1>2, <1>3, <2>1
  <2>3. \A c \in Conn : c \in Polled(p) => f[c] = 1 /\ f[c] \in Count
    BY <2>1, PolledIs DEF Count
  <2>4. \A c \in Conn : c \notin Polled(p) => f[c] = queue[p][c] /\ f[c] \in Count
    BY <1>3, <2>1
  <2>5. f \in [Conn -> Count]
    BY <2>1, <2>3, <2>4
  <2>6. queue' \in [Proc -> [Conn -> Count]] /\ queue'[p] = f
    BY <1>3, <2>2, <2>5
  <2>7. \A x \in Proc : x # p => queue'[x] = queue[x]
    BY <1>3, <2>2
  <2> QED BY <2>3, <2>4, <2>6, <2>7
<1>5. \A c \in Conn : c \notin Polled(p) => h'[c] = h[c] /\ topic'[c] = topic[c]
  BY <1>2
<1>6. ASSUME NEW c \in Conn, c \in Polled(p) PROVE ReadAhead(c, p)
  <2>a. PICK s \in Seq(Frame) : s = topic[c][p] /\ s # <<>>
    <3>1. topic[c][p] \in Seq(Frame) /\ topic[c][p] # <<>>
      BY <1>1, <1>6, Parts, PolledIs
    <3> QED BY <3>1
  <2>b. PICK t : t = Tail(s)
    OBVIOUS
  <2>1. s = topic[c][p] /\ s # <<>> /\ t = Tail(s)
    BY <2>a, <2>b
  <2>2. t \in Seq(Frame) /\ Head(s) \in Frame
    BY <2>1, Tailed
  <2>3. h[c][p].messages = <<>>
    BY <1>6, PolledIs
  <2>4. PICK m : m = <<Head(s)>>
    OBVIOUS
  <2>5. m \in Seq(Frame) /\ m = Append(h[c][p].messages, Head(topic[c][p]))
    BY <2>1, <2>2, <2>3, <2>4
  <2>6. PICK r : r = [h[c][p] EXCEPT !.is_probed = TRUE, !.to_manage = FALSE, !.messages = m]
    OBVIOUS
  <2>7. h[c][p] \in HandleMQTT
    BY <1>1, Parts
  <2>8. /\ r \in HandleMQTT /\ r.is_probed /\ ~r.to_manage /\ r.messages = m
        /\ r.probed = h[c][p].probed
        /\ (r.reg <=> h[c][p].reg) /\ (r.subscribed <=> h[c][p].subscribed)
        /\ (r.closed_rd <=> h[c][p].closed_rd) /\ (r.closed_wr <=> h[c][p].closed_wr)
    BY <2>5, <2>6, <2>7 DEF HandleMQTT
  <2>9. PICK g : g = h[c]
    OBVIOUS
  <2>10. g \in [Proc -> HandleMQTT]
    BY <1>3, <2>9
  <2>11. h'[c] = [g EXCEPT ![p].is_probed = TRUE, ![p].to_manage = FALSE,
                           ![p].messages = Append(@, Head(topic[c][p]))]
    BY <1>2, <1>6, <2>9
  <2>12. h'[c] = [g EXCEPT ![p] = r]
    BY <2>5, <2>6, <2>9, <2>10, <2>11
  <2>13. /\ h'[c] \in [Proc -> HandleMQTT] /\ h'[c][p] = r
         /\ \A x \in Proc : x # p => h'[c][x] = h[c][x]
    BY <2>8, <2>9, <2>10, <2>12
  <2>14. PICK k : k = topic[c]
    OBVIOUS
  <2>15. k \in [Proc -> Seq(Frame)] /\ topic'[c] = [k EXCEPT ![p] = t]
    BY <1>2, <1>3, <1>6, <2>1, <2>14
  <2>16. /\ topic'[c] \in [Proc -> Seq(Frame)] /\ topic'[c][p] = t
         /\ \A x \in Proc : x # p => topic'[c][x] = topic[c][x]
    BY <2>2, <2>14, <2>15
  <2> QED BY <1>4, <1>6, <2>1, <2>4, <2>8, <2>13, <2>16 DEF ReadAhead
<1>7. /\ h' \in [Conn -> [Proc -> HandleMQTT]]
      /\ topic' \in [Conn -> [Proc -> Seq(Frame)]]
  <2>1. \A c \in Conn : h'[c] \in [Proc -> HandleMQTT] /\ topic'[c] \in [Proc -> Seq(Frame)]
    BY <1>3, <1>5, <1>6 DEF ReadAhead
  <2>2. DOMAIN h' = Conn /\ DOMAIN topic' = Conn /\ h' = [c \in Conn |-> h'[c]]
        /\ topic' = [c \in Conn |-> topic'[c]]
    BY <1>2
  <2> QED BY <2>1, <2>2
<1> QED BY <1>4, <1>5, <1>6, <1>7

(* ConnMQTT::update's loop over the table.                                 *)
LEMMA PollKeeps ==
  ASSUME Inv, NEW p \in Proc, Poll(p)
  PROVE  Inv'
<1>1. /\ TypeOK /\ Openings /\ Ends /\ Streams /\ Threads
      /\ (IoAt(p, "poll") \/ IoAt(p, "start"))
  BY DEF Inv, Poll
<1>2. UNCHANGED <<dropped, request, user, main, sent>>
  BY DEF Poll
<1>3. PICK q \in Proc : q = Other(p) /\ q # p /\ Other(q) = p
  BY TwoProcs
<1>4. Running(p)
  BY <1>1 DEF Running, IoAt
<1>5. /\ io' \in [Proc -> IoState] /\ io'[p].pc = "start" /\ io'[p].c = io[p].c
      /\ \A x \in Proc : x # p => io'[x] = io[x]
  BY <1>1, IoGotoSet DEF Poll, IoPC
<1>6. /\ \A c \in Conn : c \in Polled(p) => ReadAhead(c, p)
      /\ \A c \in Conn : c \notin Polled(p) =>
           h'[c] = h[c] /\ topic'[c] = topic[c] /\ queue'[p][c] = queue[p][c]
      /\ \A x \in Proc : x # p => queue'[x] = queue[x]
      /\ queue' \in [Proc -> [Conn -> Count]]
      /\ h' \in [Conn -> [Proc -> HandleMQTT]]
      /\ topic' \in [Conn -> [Proc -> Seq(Frame)]]
  BY <1>4, PollSet
<1>7. TypeOK'
  BY <1>1, <1>2, <1>5, <1>6, OwnTypes, Typed
<1>8. \A d \in Conn, x \in Proc : SameRoles(d, x)
  BY <1>1, <1>2, <1>5 DEF SameRoles, Calling, Dialling, Halfway, Acking, Greeting, At, IoAt
<1>9. \A x \in Proc : Running(x)' => Running(x)
  BY <1>4, <1>5 DEF Running
<1>10. \A d \in Conn, x \in Proc : d \notin Polled(p) \/ x # p =>
         /\ h'[d][x] = h[d][x] /\ topic'[d][x] = topic[d][x] /\ queue'[x][d] = queue[x][d]
  BY <1>6 DEF ReadAhead
<1>11. \A d \in Conn, x \in Proc : h'[d][x].closed_wr <=> h[d][x].closed_wr
  <2> SUFFICES ASSUME NEW d \in Conn, NEW x \in Proc
               PROVE  h'[d][x].closed_wr <=> h[d][x].closed_wr
    OBVIOUS
  <2>1. CASE d \in Polled(p) /\ x = p
    BY <1>6, <2>1 DEF ReadAhead
  <2>2. CASE d \notin Polled(p) \/ x # p
    BY <1>10, <2>2
  <2> QED BY <2>1, <2>2
<1>12. Openings'
  <2> SUFFICES ASSUME NEW d \in Conn PROVE OpeningAt(d)'
    BY DEF Openings
  <2>1. CASE d \notin Polled(p)
    <3>1. OpeningAt(d)
      BY <1>1 DEF Openings
    <3> QED BY <1>2, <1>8, <1>10, <2>1, <3>1, OpeningKept
  <2>2. CASE d \in Polled(p)
    <3>1. Used(d, p) /\ ~Calling(d, p) /\ ~Acking(d, p) /\ ~Greeting(d, p)
      BY <1>4, <2>2, PolledIs
    <3>2. ~Calling(d, p)' /\ ~Acking(d, p)' /\ ~Greeting(d, p)'
      BY <1>8, <3>1 DEF SameRoles
    <3>3. /\ h'[d][q] = h[d][q] /\ queue'[q][d] = queue[q][d] /\ io'[q] = io[q]
      BY <1>3, <1>5, <1>10
    <3> QED BY <1>2, <1>3, <3>1, <3>2, <3>3, UsedKeepsOpening
  <2> QED BY <2>1, <2>2
<1>13. Ends'
  <2> SUFFICES ASSUME NEW d \in Conn, NEW x \in Proc PROVE EndAt(d, x)'
    BY DEF Ends
  <2>1. EndAt(d, x)
    BY <1>1 DEF Ends
  <2>2. CASE d \notin Polled(p) \/ x # p
    <3>1. /\ h'[d][x] = h[d][x] /\ queue'[x][d] = queue[x][d]
          /\ (Greeting(d, x)' <=> Greeting(d, x)) /\ (Running(x)' => Running(x))
      BY <1>8, <1>9, <1>10, <2>2 DEF SameRoles
    <3> QED BY <1>2, <2>1, <3>1, EndKept
  <2>3. CASE d \in Polled(p) /\ x = p
    <3>1. /\ user[p][d] # "held" /\ ~Greeting(d, p) /\ h[d][p].reg /\ ~h[d][p].closed_rd
          /\ request[d] = "taken"
      BY <1>4, <2>3, PolledIs
    <3>2. /\ queue'[p][d] = 1 /\ ~h'[d][p].to_manage /\ h'[d][p].reg /\ ~h'[d][p].closed_rd
          /\ (h'[d][p].subscribed <=> h[d][p].subscribed)
      BY <1>6, <2>3, <3>1 DEF ReadAhead
    <3>3. ~Greeting(d, p)'
      BY <1>8, <3>1 DEF SameRoles
    <3>4. Owners(d, p)' = 1
      BY <1>2, <3>1, <3>2, <3>3 DEF Owners, One, Greeting, IoAt
    <3> QED BY <1>2, <2>1, <2>3, <3>1, <3>2, <3>4 DEF EndAt
  <2> QED BY <2>2, <2>3
<1>14. Streams'
  <2> SUFFICES ASSUME NEW d \in Conn, NEW x \in Proc PROVE StreamAt(d, x)'
    BY DEF Streams
  <2>1. StreamAt(d, x) /\ Other(x) \in Proc
    BY <1>1, TwoProcs DEF Streams
  <2>2. (Halfway(d, Other(x))' <=> Halfway(d, Other(x))) /\ (Running(x)' => Running(x))
    BY <1>8, <1>9, <2>1 DEF SameRoles
  <2>3. CASE d \notin Polled(p) \/ x # p
    <3>1. /\ h'[d][x] = h[d][x] /\ topic'[d][x] = topic[d][x]
          /\ (h'[d][Other(x)].closed_wr <=> h[d][Other(x)].closed_wr)
      BY <1>10, <1>11, <2>1, <2>3
    <3> QED BY <2>1, <2>2, <3>1, StreamKept
  <2>4. CASE d \in Polled(p) /\ x = p
    <3>1. /\ WellFramed(topic[d][p], EOSComes(d, p), 0, Owed(d, p)) /\ topic[d][p] # <<>>
          /\ h[d][p].probed = "none" /\ h[d][p].messages = <<>>
      BY <1>4, <2>4, PolledIs
    <3>2. /\ topic'[d][p] = Tail(topic[d][p]) /\ h'[d][p].is_probed
          /\ h'[d][p].messages = <<Head(topic[d][p])>> /\ h'[d][p].probed = "none"
      BY <1>6, <2>4, <3>1 DEF ReadAhead
    <3>3. PICK s \in Seq(Frame), e \in Bit, j \in Bit :
            s = topic[d][p] /\ e = EOSComes(d, p) /\ j = Owed(d, p)
      BY Reads
    <3>4. PICK t : t = Tail(s)
      OBVIOUS
    <3>5. WellFramed(s, e, 0, j) /\ s # <<>>
      BY <3>1, <3>3
    <3>6. /\ Head(s) \in {"hdr", "eos"}
          /\ (Head(s) = "hdr" => WellFramed(t, e, 1, j))
          /\ (Head(s) = "eos" => e = 1 /\ WellFramed(t, 0, 0, j))
      BY <3>4, <3>5, FramedProbe
    <3>7. topic'[d][p] = t /\ h'[d][p].messages = <<Head(s)>>
      BY <3>2, <3>3, <3>4
    <3>8. Owed(d, p)' = j /\ (h'[d][q].closed_wr <=> h[d][q].closed_wr)
      BY <1>3, <1>11, <2>2, <2>4, <3>3 DEF Owed, One
    <3>9. CASE Head(s) = "hdr"
      <4>1. h'[d][p].messages = <<"hdr">> /\ ~Ended(d, p)' /\ ~Ended(d, p)
        BY <3>1, <3>7, <3>9 DEF Ended
      <4>2. EOSComes(d, p)' = e /\ Headed(d, p)' = 1
        BY <1>3, <3>2, <3>3, <3>8, <4>1 DEF EOSComes, Headed, One
      <4>3. WellFramed(topic[d][p], EOSComes(d, p), Headed(d, p), Owed(d, p))'
        BY <3>6, <3>7, <3>8, <3>9, <4>2 DEF WellFramed
      <4> QED BY <2>4, <3>2, <4>1, <4>3 DEF StreamAt
    <3>10. CASE Head(s) = "eos"
      <4>1. h'[d][p].messages = <<"eos">> /\ Ended(d, p)' /\ e = 1
        BY <3>6, <3>7, <3>10 DEF Ended
      <4>2. EOSComes(d, p)' = 0 /\ Headed(d, p)' = 0
        BY <4>1 DEF EOSComes, Headed, One
      <4>3. h'[d][q].closed_wr
        BY <1>3, <3>3, <3>8, <4>1 DEF EOSComes, One
      <4>4. WellFramed(topic[d][p], EOSComes(d, p), Headed(d, p), Owed(d, p))'
        BY <3>6, <3>7, <3>8, <3>10, <4>2 DEF WellFramed
      <4> QED BY <1>3, <2>4, <3>2, <4>1, <4>3, <4>4 DEF StreamAt
    <3> QED BY <3>6, <3>9, <3>10
  <2> QED BY <2>3, <2>4
<1>15. Threads'
  <2>1. ThreadAt(p)'
    <3>1. ThreadAt(p) /\ main[p].c \in Conn
      BY <1>1, Parts DEF Threads
    <3>2. Running(p)' /\ main[p].todo = {} /\ main[p].pc # "drain"
      BY <1>4, <1>5, <3>1 DEF ThreadAt, Running
    <3>3. h'[main[p].c][p].closed_wr <=> h[main[p].c][p].closed_wr
      BY <1>11, <3>1
    <3> QED BY <1>2, <1>4, <3>1, <3>2, <3>3 DEF ThreadAt, At
  <2>2. ThreadAt(q)'
    <3>1. ThreadAt(q) /\ (\A d \in Conn : h'[d][q] = h[d][q]) /\ io'[q] = io[q]
      BY <1>1, <1>3, <1>5, <1>10 DEF Threads
    <3> QED BY <1>1, <1>2, <3>1, ThreadKept
  <2> QED BY <1>3, <2>1, <2>2, TwoProcs DEF Threads
<1> QED BY <1>7, <1>12, <1>13, <1>14, <1>15 DEF Inv

-----------------------------------------------------------------------------
(***************************************************************************)
(* The theorems.                                                           *)
(***************************************************************************)
(* After Manager::init nobody has done anything.                           *)
LEMMA InitInv == Init => Inv
<1> SUFFICES ASSUME Init PROVE Inv
  OBVIOUS
<1>1. Idling.c \in Conn /\ Idling \in Thread /\ Idling.pc = "idle" /\ Idling.todo = {}
  BY ConnAssumption DEF Idling, Thread, PC
<1>2. PICK n \in HandleMQTT : n = NewHandle
  <2>1. <<>> \in Seq(Frame)
    BY EmptySeq
  <2>2. NewHandle \in HandleMQTT
    BY <2>1 DEF NewHandle, HandleMQTT
  <2> QED BY <2>2
<1>3. /\ ~n.subscribed /\ ~n.reg /\ ~n.to_manage /\ ~n.is_probed /\ n.messages = <<>>
      /\ n.probed = "none" /\ ~n.closed_rd /\ ~n.closed_wr
  BY <1>2 DEF NewHandle
<1>4. /\ h = [c \in Conn |-> [p \in Proc |-> n]]
      /\ topic = [c \in Conn |-> [p \in Proc |-> <<>>]] /\ dropped = {}
      /\ request = [c \in Conn |-> "none"]
      /\ queue = [p \in Proc |-> [c \in Conn |-> 0]]
      /\ user = [p \in Proc |-> [c \in Conn |-> "none"]]
      /\ main = [p \in Proc |-> Idling]
      /\ sent = [c \in Conn |-> [p \in Proc |-> 0]]
  BY <1>2 DEF Init
<1>5. io \in [Proc -> IoState] /\ \A p \in Proc : io[p].pc = "start"
  BY <1>1 DEF Init, IoState, IoPC
<1>6. TypeOK
  <2>1. h \in [Conn -> [Proc -> HandleMQTT]]
    BY <1>4
  <2>2. topic \in [Conn -> [Proc -> Seq(Frame)]]
    BY <1>4
  <2>3. \A c \in Conn, p \in Proc : sent[c][p] <= MaxSend[p]
    BY <1>4, BoundAssumption
  <2>4. main \in [Proc -> Thread] /\ queue \in [Proc -> [Conn -> 0..1]]
    BY <1>1, <1>4
  <2> QED BY <1>4, <1>5, <2>1, <2>2, <2>3, <2>4 DEF TypeOK, Thread, PC, IoState, IoPC
<1>7. \A c \in Conn, p \in Proc :
        /\ h[c][p] = n /\ topic[c][p] = <<>> /\ request[c] = "none"
        /\ queue[p][c] = 0 /\ user[p][c] = "none"
  BY <1>4
<1>8. \A p \in Proc : main[p].pc = "idle" /\ main[p].todo = {}
  BY <1>1, <1>4
<1>9. \A c \in Conn, p \in Proc : /\ ~Calling(c, p) /\ ~Dialling(c, p) /\ ~Halfway(c, p)
                                  /\ ~Acking(c, p) /\ ~Greeting(c, p) /\ Blank(c, p)
  BY <1>3, <1>5, <1>7, <1>8
  DEF Calling, Dialling, Halfway, Acking, Greeting, At, IoAt, Blank, Untouched
<1>10. Openings
  <2> SUFFICES ASSUME NEW c \in Conn PROVE OpeningAt(c)
    BY DEF Openings
  <2>1. Caller[c] \in Proc /\ Callee(c) \in Proc
    BY CallerAssumption, TwoProcs DEF Callee
  <2> QED BY <1>7, <1>9, <2>1 DEF OpeningAt
<1>11. Ends
  <2> SUFFICES ASSUME NEW c \in Conn, NEW p \in Proc PROVE EndAt(c, p)
    BY DEF Ends
  <2>1. Owners(c, p) = 0
    BY <1>3, <1>5, <1>7 DEF Owners, One
  <2> QED BY <1>3, <1>4, <1>7, <2>1 DEF EndAt
<1>12. Streams
  BY <1>3, <1>7 DEF Streams, StreamAt
<1>13. Threads
  BY <1>5, <1>8 DEF Threads, ThreadAt, At, Running
<1> QED BY <1>6, <1>10, <1>11, <1>12, <1>13 DEF Inv

(* Every step keeps the invariant, the stuttering ones too.                *)
LEMMA NextInv == Inv /\ [Next]_vars => Inv'
<1> SUFFICES ASSUME Inv, [Next]_vars PROVE Inv'
  OBVIOUS
<1>1. CASE UNCHANGED vars
  <2>1. PICK p \in Proc : TRUE
    BY ProcAssumption
  <2>2. UNCHANGED <<h, topic, dropped, request, queue, user, main, io, sent>>
    BY <1>1 DEF vars
  <2>3. TypeOK /\ ThreadAt(p)
    BY DEF Inv, Threads
  <2>4. TypeOK'
    BY <2>2, <2>3 DEF TypeOK
  <2>5. \A d \in Conn : SameRoles(d, p)
    BY <2>2 DEF SameRoles, Calling, Dialling, Halfway, Acking, Greeting, At, IoAt
  <2>6. ThreadAt(p)' /\ (Running(p)' => Running(p))
    BY <2>2, <2>3, ThreadKept DEF Running
  <2> QED BY <2>2, <2>4, <2>5, <2>6, QuietKeeps
<1>2. ASSUME NEW p \in Proc, Operation(p) PROVE Inv'
  <2>1. CASE Listen(p)
    BY <2>1, ListenKeeps
  <2>2. CASE Finalize(p)
    BY <2>2, FinalizeKeeps
  <2>3. ASSUME NEW c \in Conn,
               \/ Connect(p, c) \/ GetNext(p, c) \/ Send(p, c) \/ Probe(p, c)
               \/ Receive(p, c) \/ Close(p, c) \/ Yield(p, c)
        PROVE  Inv'
    BY <2>3, ConnectKeeps, GetNextKeeps, SendKeeps, ProbeKeeps, ReceiveKeeps, CloseKeeps,
       YieldKeeps
  <2> QED BY <1>2, <2>1, <2>2, <2>3 DEF Operation
<1>3. ASSUME NEW p \in Proc, Step(p) PROVE Inv'
  <2>1. PICK c \in Conn : main[p].c = c
    BY Parts DEF Inv
  <2>2. CASE ConnectAcked(p)
    BY <2>1, <2>2, ConnectAckedKeeps
  <2>3. CASE ConnectInsert(p)
    BY <2>1, <2>3, ConnectInsertKeeps
  <2>4. CASE SendPayload(p)
    BY <2>1, <2>4, SendPayloadKeeps
  <2>5. CASE NotifyClose(p)
    BY <2>1, <2>5, NotifyCloseKeeps
  <2>6. CASE Join(p)
    BY <2>6, JoinKeeps
  <2>7. CASE EndNext(p)
    <3>1. PICK d \in main[p].todo : EndNextOne(p, d)
      BY <2>7 DEF EndNext, EndNextOne
    <3>2. d \in Conn
      BY <3>1, Parts DEF Inv
    <3> QED BY <3>1, <3>2, EndNextKeeps
  <2>8. CASE Drain(p)
    BY <2>1, <2>8, DrainKeeps
  <2>9. CASE CloseRead(p)
    BY <2>1, <2>9, CloseReadKeeps
  <2>10. CASE EndDone(p)
    BY <2>10, EndDoneKeeps
  <2> QED BY <1>3, <2>2, <2>3, <2>4, <2>5, <2>6, <2>7, <2>8, <2>9, <2>10 DEF Step
<1>4. ASSUME NEW p \in Proc, IoThread(p) PROVE Inv'
  <2>1. PICK c \in Conn : io[p].c = c
    BY Parts DEF Inv
  <2>2. CASE IoExit(p)
    BY <2>2, IoExitKeeps
  <2>3. CASE Accept(p)
    <3>1. PICK d \in Requests(p) : AcceptOne(p, d)
      BY <2>3 DEF Accept, AcceptOne
    <3>2. d \in Conn
      BY DEF Requests
    <3> QED BY <3>1, <3>2, AcceptKeeps
  <2>4. CASE Ack(p)
    BY <2>1, <2>4, AckKeeps
  <2>5. CASE Handshake(p)
    BY <2>1, <2>5, HandshakeKeeps
  <2>6. CASE Poll(p)
    BY <2>6, PollKeeps
  <2> QED BY <1>4, <2>2, <2>3, <2>4, <2>5, <2>6 DEF IoThread
<1> QED BY <1>1, <1>2, <1>3, <1>4 DEF Next

(* The invariant holds in every reachable state.                           *)
LEMMA Invariance == Spec => []Inv
BY InitInv, NextInv, PTL DEF Spec

(* Until finalize has joined the IO thread, an end that is open for        *)
(* reading belongs to exactly one of the program, the ready queue, the     *)
(* table and the handshake, although notify_yield gives it back to the     *)
(* table or to the queue and the IO thread moves it from the one to the    *)
(* other by itself.                                                        *)
THEOREM EachEndHasOneOwner == Spec => []OneOwner
<1>1. Inv => OneOwner
  BY DEF Inv, Ends, EndAt, OneOwner
<1> QED BY <1>1, Invariance, PTL

(* The header that ConnMQTT::update reads ahead and the one that probe     *)
(* caches are where probe and receive look for them, and neither takes a   *)
(* payload for a header, however many messages are on the way.             *)
THEOREM HeadersAreHeaders == Spec => []Framed
<1>1. Inv => Framed
  <2> SUFFICES ASSUME Inv PROVE Framed
    OBVIOUS
  <2> DEFINE next(c, p) == IF Pending(c, p) = <<>> THEN {} ELSE {Head(Pending(c, p))}
  <2> SUFFICES ASSUME NEW c \in Conn, NEW p \in Proc, Running(p), ~h[c][p].closed_rd,
                      h[c][p].reg
               PROVE  /\ h[c][p].is_probed /\ h[c][p].probed = "none" =>
                           h[c][p].messages \in {<<"hdr">>, <<"eos">>}
                      /\ h[c][p].probed = "hdr" => next(c, p) \subseteq {"body"}
                      /\ ~h[c][p].is_probed => h[c][p].messages = <<>>
                                               /\ next(c, p) \subseteq {"hdr", "eos"}
                      /\ h[c][p].to_manage => ~h[c][p].is_probed
    BY DEF Framed
  <2>1. TypeOK /\ StreamAt(c, p) /\ EndAt(c, p)
    BY DEF Inv, Streams, Ends
  <2>2. h[c][p].to_manage => ~h[c][p].is_probed
    BY <2>1 DEF EndAt
  <2>3. /\ h[c][p].messages \in {<<>>, <<"hdr">>, <<"eos">>}
        /\ (h[c][p].probed = "hdr" => h[c][p].is_probed /\ h[c][p].messages = <<>>)
        /\ (~h[c][p].is_probed => h[c][p].messages = <<>> /\ h[c][p].probed = "none")
        /\ (h[c][p].is_probed /\ h[c][p].probed = "none" => h[c][p].messages # <<>>)
        /\ WellFramed(topic[c][p], EOSComes(c, p), Headed(c, p), Owed(c, p))
    BY <2>1 DEF StreamAt
  <2>4. PICK s \in Seq(Frame), e \in Bit, j \in Bit :
          s = topic[c][p] /\ e = EOSComes(c, p) /\ j = Owed(c, p)
    BY Reads
  <2>5. ~(e = 1 /\ j = 1)
    BY <2>4, Reads
  <2>6. ASSUME h[c][p].probed = "hdr", Pending(c, p) # <<>>
        PROVE  Head(Pending(c, p)) = "body"
    <3>1. h[c][p].is_probed /\ h[c][p].messages = <<>>
      BY <2>3, <2>6
    <3>2. Headed(c, p) = 1 /\ Pending(c, p) = s
      BY <2>1, <2>4, <3>1, PendingIs DEF Headed, Ended, One
    <3>3. WellFramed(s, e, 1, j) /\ s # <<>>
      BY <2>3, <2>4, <2>6, <3>2
    <3> QED BY <2>5, <3>2, <3>3, FramedReceive
  <2>7. ASSUME ~h[c][p].is_probed, Pending(c, p) # <<>>
        PROVE  Head(Pending(c, p)) \in {"hdr", "eos"}
    <3>1. Headed(c, p) = 0 /\ Pending(c, p) = s
      BY <2>1, <2>3, <2>4, <2>7, PendingIs DEF Headed, One
    <3>2. WellFramed(s, e, 0, j) /\ s # <<>>
      BY <2>3, <2>4, <2>7, <3>1
    <3> QED BY <3>1, <3>2, FramedProbe
  <2> QED BY <2>2, <2>3, <2>6, <2>7
<1> QED BY <1>1, Invariance, PTL

(* No message is published to a topic that nobody subscribes to while its  *)
(* reader may still read: the ack that the callee sends after it has       *)
(* subscribed comes before everything the caller publishes.                *)
THEOREM NothingIsMissed == Spec => []NothingMissed
<1>1. Inv => NothingMissed
  BY DEF Inv, Ends, EndAt, NothingMissed
<1> QED BY <1>1, Invariance, PTL
=============================================================================
