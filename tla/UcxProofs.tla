----------------------------- MODULE UcxProofs -----------------------------
(***************************************************************************)
(* Ucx, for any number of connections in either direction and any number   *)
(* of messages: an end that is open for reading has exactly one owner      *)
(* (OneOwner), headers and payloads are where they are looked for (Framed), *)
(* a completed request leaves something for the poll to report (WakesPoll), *)
(* and an endpoint closed before finalize has had all that its peer ever   *)
(* sends (ClosedIsComplete).                                               *)
(***************************************************************************)
EXTENDS Ucx, SequenceTheorems, TLAPS

(***************************************************************************)
(* The inductive invariant, in parts.                                      *)
(***************************************************************************)
(* What the threads of a process do with a connection.                     *)
Dialling(c, p) == At(p, "dial") /\ main[p].c = c
Inserting(c, p) == At(p, "insert") /\ main[p].c = c
Moving(c, p) == main[p].pc \in {"insert", "mark"} /\ main[p].c = c
Greeting(c, p) == IoAt(p, "handshake") /\ io[p].c = c

(* Nobody has used the handle, or read anything with it.                   *)
Untouched(c, p) ==
    /\ user[p][c] = "none" /\ ~h[c][p].closed_rd /\ ~h[c][p].closed_wr
    /\ h[c][p].request = "none" /\ h[c][p].last_probe = "none" /\ h[c][p].probed = "none"

(* An end of a connection: while the IO thread runs it has one owner from  *)
(* the creation of its endpoint to the close of its read side, and nobody  *)
(* uses it before the handshake.  Its read side closes at EOS, and data is *)
(* lost for a closed endpoint only.                                        *)
EndAt(c, p) ==
    /\ Running(p) => Owners(c, p) = One(h[c][p].ep # "none" /\ ~h[c][p].closed_rd)
    /\ h[c][p].ep = "closed" => h[c][p].closed_rd
    /\ h[c][p].ep = "none" => ~h[c][p].reg
    /\ h[c][p].ep = "none" \/ Inserting(c, p) \/ Greeting(c, p) => Untouched(c, p)
    /\ Running(p) /\ h[c][p].closed_rd => h[c][p].last_probe = "eos"
    /\ h[c][p].lost => h[c][p].ep = "closed" \/ h[c][Other(p)].ep = "closed"

(* The exchange of addresses: no endpoint before it.                       *)
OpeningAt(c) ==
    /\ oob[c] = "none" \/ Dialling(c, Caller[c]) => h[c][Caller[c]].ep = "none"
    /\ oob[c] # "answered" => h[c][Callee(c)].ep = "none"

(* What follows each frame in a stream: whole messages, and EOS with its   *)
(* bytes at the end.                                                       *)
Chain(s) ==
    \A i \in 1..Len(s) :
      /\ s[i] = "hdr" => i + 1 <= Len(s) /\ s[i + 1] = "body"
      /\ s[i] = "body" => i = Len(s) \/ s[i + 1] \in {"hdr", "eos"}
      /\ s[i] = "eos" => i + 1 = Len(s) /\ s[i + 1] = "pad"
      /\ s[i] = "pad" => i = Len(s)
Starts(s, fs) == s # <<>> /\ s[1] \in fs
HasEOS(s) == \E i \in 1..Len(s) : s[i] \in {"eos", "pad"}

(* The reader e of a stream s whose writer has closed it, with nothing     *)
(* lost (w), or not: where the header that e has read, or its request has, *)
(* leaves the stream.                                                      *)
StreamOf(e, s, w) ==
    /\ Chain(s)
    /\ e.last_probe \in {"none", "hdr", "eos"} /\ e.test_probe \in {"hdr", "eos"}
    /\ e.last_probe = "none" /\ e.request # "done" => s = <<>> \/ Starts(s, {"hdr", "eos"})
    /\ e.request = "posted" => e.last_probe = "none" /\ s = <<>>
    /\ e.request = "done" =>
         /\ e.last_probe = "none"
         /\ Starts(s, {IF e.test_probe = "hdr" THEN "body" ELSE "pad"})
    /\ e.last_probe = "hdr" => Starts(s, {"body"})
    /\ e.last_probe = "eos" => s = <<>>
    /\ e.probed # "none" => e.probed = e.last_probe
    /\ HasEOS(s) \/ e.last_probe = "eos" \/ (e.request = "done" /\ e.test_probe = "eos") => w
Whole(e) == e.closed_wr /\ ~e.lost
StreamAt(c, p) == StreamOf(h[c][p], rx[c][p], Whole(h[c][Other(p)]))

(* What a process is in the middle of: ConnUCX::end begins when the IO     *)
(* thread has ended.                                                       *)
Closing(m) == m.pc \in {"end", "drain", "done"} \/ (m.pc = "notify" /\ m.then # "idle")
Leaving(m) == m.pc = "drain" \/ (m.pc = "notify" /\ m.then # "idle")
ThreadAt(p) ==
    /\ main[p].pc \in {"dial", "insert"} => Caller[main[p].c] = p
    /\ IoAt(p, "handshake") => Callee(io[p].c) = p
    /\ Closing(main[p]) => ~Running(p)
    /\ ~Running(p) => Closing(main[p]) \/ At(p, "join")
    /\ main[p].todo # {} => Closing(main[p])
    /\ \A c \in main[p].todo : h[c][p].ep # "none"
    /\ Leaving(main[p]) => h[main[p].c][p].ep # "none"

Openings == \A c \in Conn : OpeningAt(c)
Ends == \A c \in Conn, p \in Proc : EndAt(c, p)
Streams == \A c \in Conn, p \in Proc : StreamAt(c, p)
Threads == \A p \in Proc : ThreadAt(p)

Inv == TypeOK /\ Openings /\ Ends /\ Streams /\ Threads

-----------------------------------------------------------------------------
(***************************************************************************)
(* Lemmas about processes and streams.                                     *)
(***************************************************************************)
(* There are two processes, and each is the other of the other.            *)
LEMMA TwoProcs ==
  ASSUME NEW p \in Proc
  PROVE  /\ Other(p) \in Proc /\ Other(p) # p /\ Other(Other(p)) = p
         /\ \A q \in Proc : q = p \/ q = Other(p)
<1>1. PICK a, b \in Proc : a # b /\ Proc = {a, b}
  BY ProcAssumption
<1>2. \A r \in Proc : \E q \in Proc : q # r
  BY <1>1
<1>3. \A r \in Proc : Other(r) \in Proc /\ Other(r) # r
  BY <1>2 DEF Other
<1> QED BY <1>1, <1>3

(* Of the two processes of a connection one called and one is called.      *)
LEMMA TwoEnds ==
  ASSUME NEW c \in Conn, NEW p \in Proc
  PROVE  /\ Caller[c] \in Proc /\ Callee(c) \in Proc /\ Caller[c] # Callee(c)
         /\ p = Caller[c] => Callee(c) = Other(p)
         /\ p # Caller[c] => p = Callee(c) /\ Caller[c] = Other(p)
<1>1. Caller[c] \in Proc
  BY CallerAssumption
<1> QED BY <1>1, TwoProcs DEF Callee

(* What a read leaves.                                                     *)
LEMMA Tailed ==
  ASSUME NEW S, NEW s \in Seq(S), s # <<>>, NEW t, t = Tail(s)
  PROVE  /\ t \in Seq(S) /\ Len(s) \in Nat /\ Len(s) >= 1
         /\ Len(t) \in Nat /\ Len(t) = Len(s) - 1
         /\ \A i \in 1..Len(t) : t[i] = s[i + 1]
         /\ Head(s) = s[1] /\ Head(s) \in S
<1>1. /\ t \in Seq(S) /\ Len(t) = Len(s) - 1 /\ Head(s) = s[1] /\ Head(s) \in S
      /\ \A i \in 1..Len(t) : t[i] = s[i + 1]
  BY HeadTailProperties
<1>2. Len(s) \in Nat /\ Len(t) \in Nat
  BY <1>1, LenProperties
<1>3. Len(s) >= 1
  BY <1>2, EmptySeq
<1> QED BY <1>1, <1>2, <1>3

(* What the handshake leaves.                                              *)
LEMMA PairRead ==
  ASSUME NEW S, NEW s \in Seq(S), Len(s) >= 2, NEW t, t = SubSeq(s, 3, Len(s))
  PROVE  /\ t \in Seq(S) /\ Len(s) \in Nat /\ Len(t) \in Nat /\ Len(t) = Len(s) - 2
         /\ \A i \in 1..Len(t) : t[i] = s[i + 2]
<1>1. Len(s) \in Nat /\ \A i \in 1..Len(s) : s[i] \in S
  BY LenProperties, ElementOfSeq
<1>2. \A i \in 3..Len(s) : s[i] \in S
  BY <1>1
<1>3. /\ t \in Seq(S)
      /\ Len(t) = IF 3 <= Len(s) THEN Len(s) - 3 + 1 ELSE 0
      /\ \A i \in 1..(Len(s) - 3 + 1) : t[i] = s[3 + i - 1]
  BY <1>1, <1>2, SubSeqProperties
<1>4. Len(t) = Len(s) - 2 /\ Len(t) \in Nat
  <2>1. Len(t) \in Nat
    BY <1>3, LenProperties
  <2>2. CASE 3 <= Len(s)
    BY <1>1, <1>3, <2>1, <2>2
  <2>3. CASE Len(s) = 2
    BY <1>1, <1>3, <2>1, <2>3
  <2>4. PICK n \in Nat : n = Len(s) /\ n >= 2
    BY <1>1
  <2>5. 3 <= n \/ n = 2
    BY <2>4
  <2> QED BY <2>2, <2>3, <2>4, <2>5
<1>5. \A i \in 1..Len(t) : t[i] = s[i + 2]
  BY <1>1, <1>3, <1>4
<1> QED BY <1>1, <1>3, <1>4, <1>5

(* The two frames of a message, or of EOS, at the end of a stream.         *)
LEMMA Joined ==
  ASSUME NEW s \in Seq(Frame), NEW f \in Frame, NEW g \in Frame, NEW t, t = s \o <<f, g>>
  PROVE  /\ t \in Seq(Frame) /\ Len(s) \in Nat /\ Len(t) = Len(s) + 2
         /\ \A i \in 1..Len(s) : t[i] = s[i]
         /\ t[Len(s) + 1] = f /\ t[Len(s) + 2] = g /\ t # <<>>
<1>1. PICK u : u = <<f, g>>
  OBVIOUS
<1>2. u \in Seq(Frame) /\ Len(u) = 2 /\ u[1] = f /\ u[2] = g
  BY <1>1
<1>3. t = s \o u
  BY <1>1
<1>4. /\ t \in Seq(Frame) /\ Len(t) = Len(s) + Len(u)
      /\ \A i \in 1..(Len(s) + Len(u)) : t[i] = IF i <= Len(s) THEN s[i] ELSE u[i - Len(s)]
  BY <1>2, <1>3, ConcatProperties
<1>5. Len(s) \in Nat /\ Len(t) \in Nat
  BY <1>4, LenProperties
<1>6. t # <<>>
  BY <1>2, <1>4, <1>5, EmptySeq
<1>7. t[Len(s) + 1] = f /\ t[Len(s) + 2] = g
  BY <1>2, <1>4, <1>5
<1> QED BY <1>2, <1>4, <1>5, <1>6, <1>7

(* The one frame a posted request leaves.                                  *)
LEMMA Remains ==
  ASSUME NEW f \in Frame, NEW g \in Frame, NEW t, t = <<>> \o Tail(<<f, g>>)
  PROVE  t \in Seq(Frame) /\ Len(t) = 1 /\ t[1] = g /\ t # <<>>
<1>1. PICK u : u = Tail(<<f, g>>)
  OBVIOUS
<1>2. u = <<g>>
  BY <1>1
<1>3. u \in Seq(Frame) /\ Len(u) = 1 /\ u[1] = g
  BY <1>2
<1>4. t = u
  BY <1>1, <1>3, ConcatEmptySeq
<1>5. t # <<>>
  BY <1>3, <1>4, EmptySeq
<1> QED BY <1>3, <1>4, <1>5

(* The rest of a stream.                                                   *)
LEMMA ChainTail ==
  ASSUME NEW s \in Seq(Frame), Chain(s), s # <<>>, NEW t, t = Tail(s)
  PROVE  /\ t \in Seq(Frame) /\ Chain(t) /\ (HasEOS(t) => HasEOS(s))
         /\ s[1] \in Frame /\ Head(s) = s[1]
         /\ s[1] = "hdr" => Starts(t, {"body"})
         /\ s[1] = "body" => t = <<>> \/ Starts(t, {"hdr", "eos"})
         /\ s[1] = "eos" => Starts(t, {"pad"}) /\ Len(t) = 1
         /\ s[1] = "pad" => t = <<>>
         /\ s[1] \in {"eos", "pad"} => HasEOS(s)
<1>1. /\ t \in Seq(Frame) /\ Len(s) \in Nat /\ Len(s) >= 1
      /\ Len(t) \in Nat /\ Len(t) = Len(s) - 1
      /\ \A i \in 1..Len(t) : t[i] = s[i + 1]
      /\ Head(s) = s[1] /\ Head(s) \in Frame
  BY Tailed, ZenonT(60)
<1>2. PICK n \in Nat : n = Len(s) /\ n >= 1
  BY <1>1
<1>3. Len(t) = n - 1 /\ (t = <<>> <=> n = 1)
  <2>1. Len(t) = 0 <=> t = <<>>
    BY <1>1, EmptySeq
  <2> QED BY <1>1, <1>2, <2>1
<1>4. \A i \in 1..n :
        /\ s[i] = "hdr" => i + 1 <= n /\ s[i + 1] = "body"
        /\ s[i] = "body" => i = n \/ s[i + 1] \in {"hdr", "eos"}
        /\ s[i] = "eos" => i + 1 = n /\ s[i + 1] = "pad"
        /\ s[i] = "pad" => i = n
  BY <1>2 DEF Chain
<1>5. ASSUME NEW i \in 1..(n - 1)
      PROVE  /\ i + 1 \in 1..n /\ t[i] = s[i + 1]
             /\ i + 1 <= n - 1 => t[i + 1] = s[i + 2]
  BY <1>1, <1>3
<1>6. Chain(t)
  BY <1>3, <1>4, <1>5 DEF Chain
<1>7. HasEOS(t) => HasEOS(s)
  BY <1>2, <1>3, <1>5 DEF HasEOS
<1>8. n # 1 => t[1] = s[2]
  <2>1. n # 1 => 1 \in 1..Len(t)
    BY <1>2, <1>3
  <2>2. 1 \in 1..Len(t) => t[1] = s[1 + 1]
    BY <1>1
  <2> QED BY <2>1, <2>2
<1>9. /\ s[1] = "hdr" => 2 <= n /\ s[2] = "body"
      /\ s[1] = "body" => n = 1 \/ s[2] \in {"hdr", "eos"}
      /\ s[1] = "eos" => n = 2 /\ s[2] = "pad"
      /\ s[1] = "pad" => n = 1
      /\ s[1] \in {"eos", "pad"} => HasEOS(s)
  <2>1. 1 \in 1..n /\ 1 + 1 = 2
    BY <1>2
  <2> QED BY <1>2, <1>4, <2>1 DEF HasEOS
<1> QED BY <1>1, <1>2, <1>3, <1>6, <1>7, <1>8, <1>9 DEF Starts

(* A message, or EOS, at the end of a stream that is still open.           *)
Pair(f, g) == (f = "hdr" /\ g = "body") \/ (f = "eos" /\ g = "pad")

LEMMA ChainJoin ==
  ASSUME NEW s \in Seq(Frame), Chain(s), ~HasEOS(s), NEW f \in Frame, NEW g \in Frame,
         Pair(f, g), NEW t, t = s \o <<f, g>>
  PROVE  /\ t \in Seq(Frame) /\ Chain(t) /\ (HasEOS(t) => f = "eos")
         /\ Starts(t, {IF s = <<>> THEN f ELSE s[1]})
<1>1. /\ t \in Seq(Frame) /\ Len(s) \in Nat /\ Len(t) = Len(s) + 2
      /\ \A i \in 1..Len(s) : t[i] = s[i]
      /\ t[Len(s) + 1] = f /\ t[Len(s) + 2] = g /\ t # <<>>
  BY Joined
<1>2. PICK n \in Nat : n = Len(s)
  BY <1>1
<1>3. \A i \in 1..n : s[i] \in {"hdr", "body"}
  <2>1. \A i \in 1..n : s[i] \in Frame
    BY <1>2, ElementOfSeq
  <2> QED BY <1>2, <2>1 DEF HasEOS, Frame
<1>4. \A i \in 1..n : /\ s[i] = "hdr" => i + 1 <= n /\ s[i + 1] = "body"
                      /\ s[i] = "body" => i = n \/ s[i + 1] \in {"hdr", "eos"}
  BY <1>2 DEF Chain
<1>5. /\ Len(t) = n + 2 /\ t[n + 1] = f /\ t[n + 2] = g
      /\ \A i \in 1..n : t[i] = s[i]
  BY <1>1, <1>2
<1>6. ASSUME NEW i \in 1..(n + 2)
      PROVE  /\ t[i] = "hdr" => i + 1 <= n + 2 /\ t[i + 1] = "body"
             /\ t[i] = "body" => i = n + 2 \/ t[i + 1] \in {"hdr", "eos"}
             /\ t[i] = "eos" => i + 1 = n + 2 /\ t[i + 1] = "pad"
             /\ t[i] = "pad" => i = n + 2
             /\ t[i] \in {"eos", "pad"} => f = "eos"
  <2>1. CASE i \in 1..n
    <3>1. t[i] = s[i] /\ s[i] \in {"hdr", "body"}
      BY <1>3, <1>5, <2>1
    <3>2. CASE i = n
      <4>1. s[i] = "body" /\ t[i + 1] = f
        BY <1>4, <1>5, <2>1, <3>1, <3>2
      <4> QED BY <3>1, <4>1 DEF Pair
    <3>3. CASE i # n
      <4>1. i + 1 \in 1..n
        BY <2>1, <3>3
      <4>2. t[i + 1] = s[i + 1]
        BY <1>5, <4>1
      <4>3. /\ s[i] = "hdr" => s[i + 1] = "body"
            /\ s[i] = "body" => s[i + 1] \in {"hdr", "eos"}
        BY <1>4, <2>1, <3>3
      <4>4. i + 1 <= n + 2
        BY <2>1
      <4> QED BY <3>1, <4>2, <4>3, <4>4
    <3> QED BY <3>2, <3>3
  <2>2. CASE i = n + 1
    <3>1. i + 1 = n + 2 /\ i + 1 <= n + 2
      BY <2>2
    <3>2. t[i] = f /\ t[i + 1] = g
      BY <1>5, <2>2, <3>1
    <3>3. (f = "hdr" /\ g = "body") \/ (f = "eos" /\ g = "pad")
      BY DEF Pair
    <3> QED BY <3>1, <3>2, <3>3
  <2>3. CASE i = n + 2
    BY <1>5, <2>3 DEF Pair
  <2>4. i \in 1..n \/ i = n + 1 \/ i = n + 2
    OBVIOUS
  <2> QED BY <2>1, <2>2, <2>3, <2>4
<1>7. Chain(t) /\ (HasEOS(t) => f = "eos")
  BY <1>5, <1>6 DEF Chain, HasEOS
<1>8. t[1] = IF s = <<>> THEN f ELSE s[1]
  <2>1. s = <<>> <=> n = 0
    BY <1>2, EmptySeq
  <2>2. n # 0 => 1 \in 1..n
    BY <1>2
  <2>3. n = 0 => n + 1 = 1
    OBVIOUS
  <2> QED BY <1>5, <2>1, <2>2, <2>3
<1> QED BY <1>1, <1>7, <1>8 DEF Starts

(* What the handshake leaves.                                              *)
LEMMA ChainPair ==
  ASSUME NEW s \in Seq(Frame), Chain(s), Starts(s, {"hdr", "eos"}),
         NEW t, t = SubSeq(s, 3, Len(s))
  PROVE  /\ t \in Seq(Frame) /\ Chain(t) /\ (HasEOS(t) => HasEOS(s))
         /\ t = <<>> \/ Starts(t, {"hdr", "eos"})
<1>1. PICK n \in Nat : n = Len(s)
  BY LenProperties
<1>2. \A i \in 1..n :
        /\ s[i] = "hdr" => i + 1 <= n /\ s[i + 1] = "body"
        /\ s[i] = "body" => i = n \/ s[i + 1] \in {"hdr", "eos"}
        /\ s[i] = "eos" => i + 1 = n /\ s[i + 1] = "pad"
        /\ s[i] = "pad" => i = n
  BY <1>1 DEF Chain
<1>3. n >= 2 /\ s[2] \in {"body", "pad"}
  <2>1. n # 0 /\ s[1] \in {"hdr", "eos"}
    BY <1>1, EmptySeq DEF Starts
  <2>2. 1 \in 1..n /\ 1 + 1 = 2
    BY <2>1
  <2>3. s[1] = "hdr" => 2 <= n /\ s[2] = "body"
    BY <1>2, <2>2
  <2>4. s[1] = "eos" => 2 = n /\ s[2] = "pad"
    BY <1>2, <2>2
  <2> QED BY <2>1, <2>3, <2>4
<1>4. /\ t \in Seq(Frame) /\ Len(t) \in Nat /\ Len(t) = n - 2
      /\ \A i \in 1..Len(t) : t[i] = s[i + 2]
  <2>1. Len(s) >= 2
    BY <1>1, <1>3
  <2>2. /\ t \in Seq(Frame) /\ Len(t) \in Nat /\ Len(t) = Len(s) - 2
        /\ \A i \in 1..Len(t) : t[i] = s[i + 2]
    BY <2>1, PairRead, Zenon
  <2> QED BY <1>1, <2>2
<1>5. ASSUME NEW i \in 1..(n - 2)
      PROVE  /\ i + 2 \in 1..n /\ t[i] = s[i + 2]
             /\ i + 1 <= n - 2 => t[i + 1] = s[i + 3]
  BY <1>3, <1>4
<1>6. Chain(t)
  BY <1>2, <1>4, <1>5 DEF Chain
<1>7. HasEOS(t) => HasEOS(s)
  BY <1>1, <1>4, <1>5 DEF HasEOS
<1>8. t = <<>> \/ Starts(t, {"hdr", "eos"})
  <2>1. CASE n = 2
    <3>1. Len(t) = 0
      BY <1>4, <2>1
    <3> QED BY <1>4, <3>1, EmptySeq
  <2>2. CASE n # 2
    <3>1. 1 \in 1..Len(t) /\ 1 + 2 = 3 /\ 2 \in 1..n /\ 2 + 1 = 3 /\ 2 # n
      BY <1>3, <1>4, <2>2
    <3>2. t[1] = s[1 + 2]
      BY <1>4, <3>1
    <3>3. s[2] = "body" /\ s[2 + 1] \in {"hdr", "eos"}
      BY <1>2, <1>3, <3>1
    <3>4. t # <<>>
      <4>1. Len(t) # 0
        BY <1>4, <3>1
      <4> QED BY <1>4, <4>1, EmptySeq
    <3> QED BY <3>1, <3>2, <3>3, <3>4 DEF Starts
  <2> QED BY <2>1, <2>2
<1> QED BY <1>4, <1>6, <1>7, <1>8

(* What a reader depends on.                                               *)
SameReader(r, e) == /\ r.request = e.request /\ r.last_probe = e.last_probe
                    /\ r.test_probe = e.test_probe /\ r.probed = e.probed

LEMMA SameStream ==
  ASSUME NEW e, NEW s, NEW w, NEW v, w => v, StreamOf(e, s, w), NEW r, SameReader(r, e)
  PROVE  StreamOf(r, s, v)
BY DEF StreamOf, SameReader

(* A reader that finds nothing leaves its request behind.                  *)
LEMMA PostStream ==
  ASSUME NEW e, NEW s, NEW w, StreamOf(e, s, w), e.last_probe = "none", s = <<>>,
         e.request # "done", NEW r, r.request = "posted", r.last_probe = e.last_probe,
         r.test_probe = e.test_probe, r.probed = e.probed
  PROVE  StreamOf(r, s, w)
BY DEF StreamOf

(* A message, or EOS, arrives.                                             *)
LEMMA ArriveStream ==
  ASSUME NEW e, NEW s \in Seq(Frame), StreamOf(e, s, FALSE), e.request # "posted",
         NEW f \in Frame, NEW g \in Frame, Pair(f, g), NEW t, t = s \o <<f, g>>,
         NEW w \in BOOLEAN, f = "eos" => w
  PROVE  StreamOf(e, t, w) /\ t \in Seq(Frame)
<1>1. /\ Chain(s) /\ ~HasEOS(s) /\ e.last_probe # "eos"
      /\ ~(e.request = "done" /\ e.test_probe = "eos")
  BY DEF StreamOf
<1>2. /\ t \in Seq(Frame) /\ Chain(t) /\ (HasEOS(t) => f = "eos")
      /\ Starts(t, {IF s = <<>> THEN f ELSE s[1]})
  BY <1>1, ChainJoin
<1>3. t # <<>> /\ t[1] = IF s = <<>> THEN f ELSE s[1]
  BY <1>2 DEF Starts
<1>4. f \in {"hdr", "eos"}
  BY DEF Pair
<1> QED BY <1>1, <1>2, <1>3, <1>4 DEF StreamOf, Starts

(* The header completes a posted request, and the rest wakes the poll.     *)
LEMMA CompleteStream ==
  ASSUME NEW e, NEW s, StreamOf(e, s, FALSE), e.request = "posted",
         NEW f \in Frame, NEW g \in Frame, Pair(f, g), NEW t, t = s \o Tail(<<f, g>>),
         NEW w \in BOOLEAN, f = "eos" => w,
         NEW r, r.request = "done", r.test_probe = f, r.last_probe = e.last_probe,
         r.probed = e.probed
  PROVE  StreamOf(r, t, w) /\ t \in Seq(Frame) /\ t # <<>>
<1>1. s = <<>> /\ e.last_probe = "none" /\ e.probed = "none"
  BY DEF StreamOf
<1>2. t \in Seq(Frame) /\ Len(t) = 1 /\ t[1] = g /\ t # <<>>
  BY <1>1, Remains
<1>3. (f = "hdr" /\ g = "body") \/ (f = "eos" /\ g = "pad")
  BY DEF Pair
<1>4. Chain(t) /\ (HasEOS(t) => f = "eos")
  <2>1. \A i \in 1..Len(t) : i = 1 /\ i = Len(t)
    BY <1>2
  <2> QED BY <1>2, <1>3, <2>1 DEF Chain, HasEOS
<1> QED BY <1>1, <1>2, <1>3, <1>4 DEF StreamOf, Starts

(* A payload is read, and its header forgotten.                            *)
LEMMA BodyStream ==
  ASSUME NEW e, NEW s \in Seq(Frame), NEW w, StreamOf(e, s, w), e.last_probe = "hdr",
         NEW t, t = Tail(s), NEW r, r.request = e.request, r.test_probe = e.test_probe,
         r.last_probe = "none", r.probed = "none"
  PROVE  StreamOf(r, t, w) /\ t \in Seq(Frame)
<1>1. s # <<>> /\ s[1] = "body" /\ Chain(s)
  BY DEF StreamOf, Starts
<1>2. /\ t \in Seq(Frame) /\ Chain(t) /\ (HasEOS(t) => HasEOS(s))
      /\ t = <<>> \/ Starts(t, {"hdr", "eos"})
  BY <1>1, ChainTail
<1> QED BY <1>2 DEF StreamOf

(* The handshake is read.                                                  *)
LEMMA GreetStream ==
  ASSUME NEW e, NEW s \in Seq(Frame), NEW w, StreamOf(e, s, w), e.last_probe = "none",
         e.request = "none", e.probed = "none", s # <<>>, NEW t, t = SubSeq(s, 3, Len(s))
  PROVE  StreamOf(e, t, w) /\ t \in Seq(Frame)
<1>1. Chain(s) /\ Starts(s, {"hdr", "eos"})
  BY DEF StreamOf
<1>2. /\ t \in Seq(Frame) /\ Chain(t) /\ (HasEOS(t) => HasEOS(s))
      /\ t = <<>> \/ Starts(t, {"hdr", "eos"})
  BY <1>1, ChainPair
<1> QED BY <1>2 DEF StreamOf

-----------------------------------------------------------------------------
(***************************************************************************)
(* Lemmas about the state and what the operators of the model change.      *)
(***************************************************************************)
PC == {"idle", "dial", "insert", "notify", "mark", "join", "end", "drain", "done"}
Thread == [pc : PC, c : Conn, then : {"idle", "drain", "end"}, todo : SUBSET Conn]
IoPC == {"start", "handshake", "poll", "dispatch", "exited"}
IoState == [pc : IoPC, c : Conn, polled : SUBSET Conn, listening : BOOLEAN]
Has == {"none", "held", "given"}
Count == 0..1

(* The parts of a well-typed state.                                        *)
LEMMA Parts ==
  ASSUME TypeOK
  PROVE  /\ \A c \in Conn, p \in Proc :
              /\ h[c][p] \in HandleUCX
              /\ h[c][p].ep \in {"none", "open", "closed"} /\ h[c][p].reg \in BOOLEAN
              /\ h[c][p].to_manage \in BOOLEAN
              /\ h[c][p].request \in {"none", "posted", "done"}
              /\ h[c][p].test_probe \in Frame /\ h[c][p].last_probe \in Frame \union {"none"}
              /\ h[c][p].probed \in Frame \union {"none"}
              /\ h[c][p].closed_rd \in BOOLEAN /\ h[c][p].closed_wr \in BOOLEAN
              /\ h[c][p].lost \in BOOLEAN
              /\ rx[c][p] \in Seq(Frame) /\ queue[p][c] \in 0..1 /\ user[p][c] \in Has
         /\ \A c \in Conn : oob[c] \in {"none", "called", "answered", "failed"}
         /\ \A p \in Proc : /\ main[p] \in Thread /\ main[p].pc \in PC
                            /\ main[p].c \in Conn /\ main[p].todo \subseteq Conn
                            /\ main[p].then \in {"idle", "drain", "end"}
                            /\ io[p] \in IoState /\ io[p].pc \in IoPC /\ io[p].c \in Conn
                            /\ io[p].polled \subseteq Conn /\ ready[p] \subseteq Conn
<1>1. \A c \in Conn, p \in Proc : /\ h[c][p] \in HandleUCX /\ rx[c][p] \in Seq(Frame)
                                  /\ queue[p][c] \in 0..1 /\ user[p][c] \in Has
  BY DEF TypeOK, Has
<1>2. \A c \in Conn, p \in Proc :
        /\ h[c][p].ep \in {"none", "open", "closed"} /\ h[c][p].reg \in BOOLEAN
        /\ h[c][p].to_manage \in BOOLEAN
        /\ h[c][p].request \in {"none", "posted", "done"}
        /\ h[c][p].test_probe \in Frame /\ h[c][p].last_probe \in Frame \union {"none"}
        /\ h[c][p].probed \in Frame \union {"none"}
        /\ h[c][p].closed_rd \in BOOLEAN /\ h[c][p].closed_wr \in BOOLEAN
        /\ h[c][p].lost \in BOOLEAN
  BY <1>1 DEF HandleUCX
<1>3. \A c \in Conn : oob[c] \in {"none", "called", "answered", "failed"}
  BY DEF TypeOK
<1>4. \A p \in Proc : main[p] \in Thread /\ io[p] \in IoState /\ ready[p] \subseteq Conn
  BY DEF TypeOK, Thread, PC, IoState, IoPC
<1>5. \A p \in Proc : /\ main[p].pc \in PC /\ main[p].c \in Conn /\ main[p].todo \subseteq Conn
                      /\ main[p].then \in {"idle", "drain", "end"}
                      /\ io[p].pc \in IoPC /\ io[p].c \in Conn /\ io[p].polled \subseteq Conn
  BY <1>4 DEF Thread, IoState
<1> QED BY <1>1, <1>2, <1>3, <1>4, <1>5

(* The types of what a step leaves alone.                                  *)
LEMMA OwnTypes ==
  ASSUME TypeOK
  PROVE  /\ h \in [Conn -> [Proc -> HandleUCX]] /\ rx \in [Conn -> [Proc -> Seq(Frame)]]
         /\ ready \in [Proc -> SUBSET Conn]
         /\ oob \in [Conn -> {"none", "called", "answered", "failed"}]
         /\ queue \in [Proc -> [Conn -> Count]] /\ user \in [Proc -> [Conn -> Has]]
         /\ main \in [Proc -> Thread] /\ io \in [Proc -> IoState]
         /\ \A c \in Conn, p \in Proc : sent[c][p] \in 0..MaxSend[p]
BY DEF TypeOK, Has, Count, Thread, PC, IoState, IoPC

(* And the other way round.                                                *)
LEMMA Typed ==
  ASSUME h' \in [Conn -> [Proc -> HandleUCX]], rx' \in [Conn -> [Proc -> Seq(Frame)]],
         ready' \in [Proc -> SUBSET Conn],
         oob' \in [Conn -> {"none", "called", "answered", "failed"}],
         queue' \in [Proc -> [Conn -> Count]], user' \in [Proc -> [Conn -> Has]],
         main' \in [Proc -> Thread], io' \in [Proc -> IoState],
         \A c \in Conn, p \in Proc : sent'[c][p] \in 0..MaxSend[p]
  PROVE  TypeOK'
BY DEF TypeOK, Has, Count, Thread, PC, IoState, IoPC

(* What a change of the program's thread does.                             *)
LEMMA MainSet ==
  ASSUME TypeOK, NEW p \in Proc, NEW r \in Thread, main' = [main EXCEPT ![p] = r]
  PROVE  /\ main' \in [Proc -> Thread] /\ main'[p] = r
         /\ \A x \in Proc : x # p => main'[x] = main[x]
BY DEF TypeOK, Thread, PC

(* What Goto does.                                                         *)
LEMMA GotoSet ==
  ASSUME TypeOK, NEW p \in Proc, NEW l \in PC, Goto(p, l)
  PROVE  /\ main' \in [Proc -> Thread] /\ main'[p].pc = l /\ main'[p].then = main[p].then
         /\ main'[p].c = main[p].c /\ main'[p].todo = main[p].todo
         /\ \A x \in Proc : x # p => main'[x] = main[x]
<1>1. PICK r : r = [main[p] EXCEPT !.pc = l]
  OBVIOUS
<1>2. main[p] \in Thread
  BY Parts
<1>3. /\ r \in Thread /\ r.pc = l /\ r.c = main[p].c /\ r.todo = main[p].todo
      /\ r.then = main[p].then
  BY <1>1, <1>2 DEF Thread
<1>4. main' = [main EXCEPT ![p] = r]
  BY <1>1 DEF Goto
<1> QED BY <1>3, <1>4, MainSet

(* What Call does.                                                         *)
LEMMA CallSet ==
  ASSUME TypeOK, NEW p \in Proc, NEW l \in PC, NEW c \in Conn,
         NEW k \in {"idle", "drain", "end"}, Call(p, l, c, k)
  PROVE  /\ main' \in [Proc -> Thread] /\ main'[p].pc = l /\ main'[p].then = k
         /\ main'[p].c = c /\ main'[p].todo = main[p].todo
         /\ \A x \in Proc : x # p => main'[x] = main[x]
<1>1. PICK r : r = [main[p] EXCEPT !.pc = l, !.c = c, !.then = k]
  OBVIOUS
<1>2. main[p] \in Thread
  BY Parts
<1>3. r \in Thread /\ r.pc = l /\ r.c = c /\ r.todo = main[p].todo /\ r.then = k
  BY <1>1, <1>2 DEF Thread
<1>4. main' = [main EXCEPT ![p] = r]
  BY <1>1, <1>2 DEF Call, TypeOK, Thread
<1> QED BY <1>3, <1>4, MainSet

(* What IoGoto does.                                                       *)
LEMMA IoGotoSet ==
  ASSUME TypeOK, NEW p \in Proc, NEW l \in IoPC, IoGoto(p, l)
  PROVE  /\ io' \in [Proc -> IoState] /\ io'[p].pc = l /\ io'[p].c = io[p].c
         /\ \A x \in Proc : x # p => io'[x] = io[x]
<1>1. PICK r : r = [io[p] EXCEPT !.pc = l]
  OBVIOUS
<1>2. io[p] \in IoState
  BY Parts
<1>3. r \in IoState /\ r.pc = l /\ r.c = io[p].c
  BY <1>1, <1>2 DEF IoState
<1>4. io' = [io EXCEPT ![p] = r]
  BY <1>1 DEF IoGoto
<1> QED BY <1>3, <1>4 DEF TypeOK, IoState, IoPC

(* What a change of one handle, or of one stream, does.                    *)
LEMMA HandleSet ==
  ASSUME TypeOK, NEW c \in Conn, NEW p \in Proc, NEW r \in HandleUCX,
         h' = [h EXCEPT ![c][p] = r]
  PROVE  /\ h' \in [Conn -> [Proc -> HandleUCX]] /\ h'[c][p] = r
         /\ \A d \in Conn, x \in Proc : d # c \/ x # p => h'[d][x] = h[d][x]
BY DEF TypeOK

LEMMA DrainedSet ==
  ASSUME TypeOK, NEW c \in Conn, NEW p \in Proc, NEW t \in Seq(Frame), Drained(c, p, t)
  PROVE  /\ rx' \in [Conn -> [Proc -> Seq(Frame)]] /\ rx'[c][p] = t
         /\ \A d \in Conn, x \in Proc : d # c \/ x # p => rx'[d][x] = rx[d][x]
         /\ ready' \in [Proc -> SUBSET Conn]
<1>1. rx' = [rx EXCEPT ![c][p] = t]
  BY DEF Drained
<1>2. ready' \in [Proc -> SUBSET Conn]
  <2>1. PICK S : S = ready[p] \ {c}
    OBVIOUS
  <2>2. S \subseteq Conn
    BY <2>1, Parts
  <2>3. ready' = [ready EXCEPT ![p] = S] \/ ready' = ready
    BY <2>1 DEF Drained
  <2> QED BY <2>2, <2>3 DEF TypeOK
<1>3. rx \in [Conn -> [Proc -> Seq(Frame)]]
  BY DEF TypeOK
<1> QED BY <1>1, <1>2, <1>3

(* What writing on a connection does: to the handle of the writer, which   *)
(* goes on from g, to the stream of the peer, and to the peer's request.   *)
SameEnd(r, e) ==
    /\ r.ep = e.ep /\ (r.reg <=> e.reg) /\ (r.to_manage <=> e.to_manage)
    /\ (r.closed_rd <=> e.closed_rd) /\ (r.closed_wr <=> e.closed_wr)
    /\ (r.lost <=> e.lost) /\ r.last_probe = e.last_probe /\ r.probed = e.probed
    /\ (r.request = "none" <=> e.request = "none")
Writes(c, p, g, f, b) ==
    /\ h' = Transmitted([h EXCEPT ![c][p] = g], c, p, <<f, b>>)
    /\ Transmit(c, p, <<f, b>>)

LEMMA WritesHandles ==
  ASSUME TypeOK, NEW c \in Conn, NEW p \in Proc, NEW g \in HandleUCX,
         NEW f \in Frame, NEW b \in Frame, Writes(c, p, g, f, b)
  PROVE  /\ h' \in [Conn -> [Proc -> HandleUCX]]
         /\ \A d \in Conn, x \in Proc : d # c => h'[d][x] = h[d][x]
         /\ h'[c][p].ep = g.ep /\ (h'[c][p].reg <=> g.reg)
         /\ (h'[c][p].to_manage <=> g.to_manage) /\ SameReader(h'[c][p], g)
         /\ (h'[c][p].closed_rd <=> g.closed_rd) /\ (h'[c][p].closed_wr <=> g.closed_wr)
         /\ Reaches(c, p) => (h'[c][p].lost <=> g.lost)
         /\ SameEnd(h'[c][Other(p)], h[c][Other(p)])
         /\ IF Reaches(c, p) /\ Posted(c, Other(p))
            THEN /\ h'[c][Other(p)].request = "done"
                 /\ h'[c][Other(p)].test_probe = f
            ELSE h'[c][Other(p)] = h[c][Other(p)]
<1>1. PICK q \in Proc : q = Other(p) /\ q # p
  BY TwoProcs
<1>2. PICK hs : hs = [h EXCEPT ![c][p] = g]
  OBVIOUS
<1>3. /\ hs \in [Conn -> [Proc -> HandleUCX]] /\ hs[c][p] = g /\ hs[c][q] = h[c][q]
      /\ \A d \in Conn, x \in Proc : d # c => hs[d][x] = h[d][x]
  BY <1>1, <1>2 DEF TypeOK
<1>4. h' = Transmitted(hs, c, p, <<f, b>>)
  BY <1>2 DEF Writes
<1>5. /\ g.ep = g.ep /\ SameReader(g, g) /\ h[c][q] \in HandleUCX /\ SameEnd(h[c][q], h[c][q])
  BY Parts DEF SameReader, SameEnd
<1>6. CASE ~Reaches(c, p)
  <2>1. h' = [hs EXCEPT ![c][p].lost = TRUE]
    BY <1>4, <1>6 DEF Transmitted
  <2>2. PICK r : r = [g EXCEPT !.lost = TRUE]
    OBVIOUS
  <2>3. /\ r \in HandleUCX /\ r.ep = g.ep /\ (r.reg <=> g.reg)
        /\ (r.to_manage <=> g.to_manage) /\ SameReader(r, g)
        /\ (r.closed_rd <=> g.closed_rd) /\ (r.closed_wr <=> g.closed_wr)
    BY <2>2 DEF HandleUCX, SameReader
  <2>4. h' = [hs EXCEPT ![c][p] = r]
    BY <1>3, <2>1, <2>2
  <2>5. /\ h' \in [Conn -> [Proc -> HandleUCX]] /\ h'[c][p] = r
        /\ \A d \in Conn, x \in Proc : d # c \/ x # p => h'[d][x] = hs[d][x]
    BY <1>3, <2>3, <2>4
  <2> QED BY <1>1, <1>3, <1>5, <1>6, <2>3, <2>5
<1>7. CASE Reaches(c, p) /\ ~Posted(c, q)
  <2>1. h' = hs
    BY <1>1, <1>4, <1>7 DEF Transmitted
  <2> QED BY <1>1, <1>3, <1>5, <1>7, <2>1
<1>8. CASE Reaches(c, p) /\ Posted(c, q)
  <2>1. h' = [hs EXCEPT ![c][q].request = "done", ![c][q].test_probe = f]
    BY <1>1, <1>4, <1>8 DEF Transmitted
  <2>2. PICK r : r = [h[c][q] EXCEPT !.request = "done", !.test_probe = f]
    OBVIOUS
  <2>3. /\ r \in HandleUCX /\ SameEnd(r, h[c][q]) /\ r.request = "done" /\ r.test_probe = f
    BY <1>5, <1>8, <2>2 DEF HandleUCX, SameEnd, Posted
  <2>4. h' = [hs EXCEPT ![c][q] = r]
    BY <1>3, <2>1, <2>2
  <2>5. /\ h' \in [Conn -> [Proc -> HandleUCX]] /\ h'[c][q] = r
        /\ \A d \in Conn, x \in Proc : d # c \/ x # q => h'[d][x] = hs[d][x]
    BY <1>3, <2>3, <2>4
  <2> QED BY <1>1, <1>3, <1>5, <1>8, <2>3, <2>5
<1> QED BY <1>1, <1>6, <1>7, <1>8

LEMMA WritesStreams ==
  ASSUME TypeOK, NEW c \in Conn, NEW p \in Proc, NEW g \in HandleUCX,
         NEW f \in Frame, NEW b \in Frame, Pair(f, b), Writes(c, p, g, f, b),
         StreamAt(c, p), StreamAt(c, Other(p)),
         ~h[c][p].closed_wr, f = "eos" => g.closed_wr, SameReader(g, h[c][p]),
         Reaches(c, p) => ~g.lost
  PROVE  /\ rx' \in [Conn -> [Proc -> Seq(Frame)]] /\ ready' \in [Proc -> SUBSET Conn]
         /\ \A d \in Conn, x \in Proc : d # c => rx'[d][x] = rx[d][x]
         /\ StreamAt(c, p)' /\ StreamAt(c, Other(p))'
<1>1. PICK q \in Proc : q = Other(p) /\ q # p /\ Other(q) = p
  BY TwoProcs
<1>2. /\ (h'[c][p].closed_wr <=> g.closed_wr) /\ SameReader(h'[c][p], g)
      /\ Reaches(c, p) => (Whole(h'[c][p]) <=> g.closed_wr)
      /\ SameEnd(h'[c][q], h[c][q])
      /\ IF Reaches(c, p) /\ Posted(c, q)
         THEN h'[c][q].request = "done" /\ h'[c][q].test_probe = f
         ELSE h'[c][q] = h[c][q]
  BY <1>1, WritesHandles DEF Whole
<1>3. /\ StreamOf(h[c][p], rx[c][p], Whole(h[c][q]))
      /\ StreamOf(h[c][q], rx[c][q], FALSE)
  <2>1. /\ StreamOf(h[c][p], rx[c][p], Whole(h[c][q]))
        /\ StreamOf(h[c][q], rx[c][q], Whole(h[c][p]))
    BY <1>1 DEF StreamAt
  <2>2. ~Whole(h[c][p])
    BY DEF Whole
  <2> QED BY <2>1, <2>2 DEF StreamOf
<1>4. PICK e, s, t : e = h[c][q] /\ s = rx[c][q] /\ t = rx[c][q] \o Left(c, q, <<f, b>>)
  OBVIOUS
<1>5. s \in Seq(Frame) /\ g.closed_wr \in BOOLEAN
  BY <1>4, Parts DEF HandleUCX
<1>6. IF Posted(c, q) THEN t = s \o Tail(<<f, b>>) ELSE t = s \o <<f, b>>
  BY <1>4 DEF Left
<1>7. CASE ~Reaches(c, p)
  <2>1. rx' = rx /\ ready' = ready
    BY <1>7 DEF Writes, Transmit
  <2>2. h'[c][q] = h[c][q]
    BY <1>2, <1>7
  <2>3. StreamOf(h'[c][p], rx'[c][p], Whole(h'[c][q]))
    <3>1. SameReader(h'[c][p], h[c][p])
      BY <1>2 DEF SameReader
    <3>2. h'[c][q] = h[c][q] /\ rx'[c][p] = rx[c][p]
      BY <2>1, <2>2
    <3> QED BY <1>3, <3>1, <3>2 DEF SameReader, StreamOf
  <2>4. StreamOf(h'[c][q], rx'[c][q], Whole(h'[c][p]))
    <3>1. SameReader(h'[c][q], h[c][q])
      BY <2>2 DEF SameReader
    <3> QED BY <1>3, <2>1, <3>1, SameStream
  <2>5. rx \in [Conn -> [Proc -> Seq(Frame)]] /\ ready \in [Proc -> SUBSET Conn]
    BY DEF TypeOK
  <2> QED BY <1>1, <2>1, <2>3, <2>4, <2>5 DEF StreamAt
<1>8. CASE Reaches(c, p)
  <2>1. /\ t \in Seq(Frame)
        /\ StreamOf(h'[c][q], t, g.closed_wr)
    <3>1. CASE Posted(c, q)
      <4>1. /\ e.request = "posted" /\ StreamOf(e, s, FALSE) /\ t = s \o Tail(<<f, b>>)
        BY <1>3, <1>4, <1>6, <3>1 DEF Posted
      <4>2. PICK r : r = h'[c][q]
        OBVIOUS
      <4>3. /\ r.request = "done" /\ r.test_probe = f /\ r.last_probe = e.last_probe
            /\ r.probed = e.probed
        BY <1>2, <1>4, <1>8, <3>1, <4>2 DEF SameEnd
      <4> QED BY <1>5, <4>1, <4>2, <4>3, CompleteStream, ZenonT(60)
    <3>2. CASE ~Posted(c, q)
      <4>1. /\ e.request # "posted" /\ StreamOf(e, s, FALSE) /\ t = s \o <<f, b>>
            /\ h'[c][q] = e
        BY <1>2, <1>3, <1>4, <1>6, <3>2 DEF Posted
      <4> QED BY <1>5, <4>1, ArriveStream
    <3> QED BY <3>1, <3>2
  <2>2. rx' = [rx EXCEPT ![c][q] = @ \o Left(c, q, <<f, b>>)]
    BY <1>1, <1>8 DEF Writes, Transmit
  <2>3. rx \in [Conn -> [Proc -> Seq(Frame)]] /\ ready \in [Proc -> SUBSET Conn]
    BY DEF TypeOK
  <2>4. rx' = [rx EXCEPT ![c][q] = t]
    BY <1>4, <2>2, <2>3
  <2>5. /\ rx' \in [Conn -> [Proc -> Seq(Frame)]] /\ rx'[c][q] = t
        /\ \A d \in Conn, x \in Proc : d # c \/ x # q => rx'[d][x] = rx[d][x]
    BY <2>1, <2>3, <2>4
  <2>6. ready' \in [Proc -> SUBSET Conn]
    <3>1. PICK S : S = ready[q] \union {c}
      OBVIOUS
    <3>2. S \subseteq Conn
      BY <3>1, Parts
    <3>3. ready' = [ready EXCEPT ![q] = IF Left(c, q, <<f, b>>) = <<>> THEN @
                                        ELSE @ \union {c}]
      BY <1>1, <1>8 DEF Writes, Transmit
    <3>4. ready' = [ready EXCEPT ![q] = S] \/ ready' = ready
      BY <2>3, <3>1, <3>3
    <3> QED BY <2>3, <3>2, <3>4
  <2>7. StreamOf(h'[c][p], rx'[c][p], Whole(h'[c][q]))
    <3>1. SameReader(h'[c][p], h[c][p])
      BY <1>2 DEF SameReader
    <3>2. (Whole(h'[c][q]) <=> Whole(h[c][q])) /\ rx'[c][p] = rx[c][p]
      BY <1>1, <1>2, <2>5 DEF SameEnd, Whole
    <3> QED BY <1>3, <3>1, <3>2, SameStream, SMTT(30)
  <2>8. StreamOf(h'[c][q], rx'[c][q], Whole(h'[c][p]))
    <3>1. SameReader(h'[c][q], h'[c][q])
      BY DEF SameReader
    <3> QED BY <1>2, <1>8, <2>1, <2>5, <3>1, SameStream
  <2> QED BY <1>1, <2>5, <2>6, <2>7, <2>8 DEF StreamAt
<1> QED BY <1>7, <1>8

-----------------------------------------------------------------------------
(***************************************************************************)
(* What a step of one process with one connection cannot disturb.          *)
(***************************************************************************)
(* The process is in the middle of the same with the connection.           *)
SameRoles(d, x) ==
    /\ (Dialling(d, x)' <=> Dialling(d, x)) /\ (Inserting(d, x)' <=> Inserting(d, x))
    /\ (Moving(d, x)' <=> Moving(d, x)) /\ (Greeting(d, x)' <=> Greeting(d, x))

(* The end is not used by its process.                                     *)
LEMMA EndKept ==
  ASSUME NEW c \in Conn, NEW x \in Proc, EndAt(c, x), SameEnd(h'[c][x], h[c][x]),
         user'[x][c] = user[x][c], queue'[x][c] = queue[x][c],
         Inserting(c, x)' <=> Inserting(c, x), Moving(c, x)' <=> Moving(c, x),
         Greeting(c, x)' <=> Greeting(c, x), Running(x)' => Running(x),
         h[c][Other(x)].ep = "closed" => h'[c][Other(x)].ep = "closed"
  PROVE  EndAt(c, x)'
<1>1. Owners(c, x)' = Owners(c, x)
  BY DEF Owners, Greeting, IoAt, SameEnd, Moving, One
<1>2. Untouched(c, x) => Untouched(c, x)'
  BY DEF Untouched, SameEnd
<1>3. One(h[c][x].ep # "none" /\ ~h[c][x].closed_rd)' = One(h[c][x].ep # "none" /\ ~h[c][x].closed_rd)
  BY DEF One, SameEnd
<1> QED BY <1>1, <1>2, <1>3 DEF EndAt, SameEnd

(* No endpoint appears.                                                    *)
LEMMA OpeningKept ==
  ASSUME NEW c \in Conn, OpeningAt(c), oob'[c] = oob[c],
         Dialling(c, Caller[c])' => Dialling(c, Caller[c]),
         \A x \in Proc : h[c][x].ep = "none" => h'[c][x].ep = "none"
  PROVE  OpeningAt(c)'
<1>1. Caller[c] \in Proc /\ Callee(c) \in Proc
  BY TwoEnds, ProcAssumption
<1>2. Callee(c)' = Callee(c)
  BY DEF Callee, Other
<1> QED BY <1>1, <1>2 DEF OpeningAt

(* The process takes no step.                                              *)
LEMMA ThreadKept ==
  ASSUME TypeOK, NEW x \in Proc, ThreadAt(x), main'[x] = main[x], io'[x] = io[x],
         \A d \in Conn : h'[d][x].ep = h[d][x].ep
  PROVE  ThreadAt(x)'
<1>1. main[x].c \in Conn /\ main[x].todo \subseteq Conn
  BY Parts
<1>2. Callee(io[x].c)' = Callee(io'[x].c)
  BY DEF Callee, Other
<1>3. \A d \in main[x].todo : h'[d][x].ep = h[d][x].ep
  BY <1>1
<1>4. Callee(io[x].c)' = Callee(io[x].c)
  BY DEF Callee, Other
<1> QED BY <1>1, <1>3, <1>4 DEF ThreadAt, Leaving, At, IoAt, Running, Closing

(* A step of p touches c only, and at the other end only the request.      *)
Elsewhere(c, p) ==
    /\ \A d \in Conn : d # c => oob'[d] = oob[d] /\ SameRoles(d, p)
    /\ \A d \in Conn, x \in Proc : d # c => h'[d][x] = h[d][x] /\ rx'[d][x] = rx[d][x]
    /\ \A d \in Conn, x \in Proc : d # c \/ x # p =>
         user'[x][d] = user[x][d] /\ queue'[x][d] = queue[x][d]
    /\ \A x \in Proc : x # p => /\ main'[x] = main[x] /\ io'[x] = io[x]
                                /\ SameEnd(h'[c][x], h[c][x])
    /\ Running(p)' => Running(p)
    /\ h[c][p].ep = "closed" => h'[c][p].ep = "closed"

(* What is left to show of such a step is about p and c.                   *)
LEMMA LocalKeeps ==
  ASSUME Inv, NEW c \in Conn, NEW p \in Proc, TypeOK', Elsewhere(c, p),
         OpeningAt(c)', EndAt(c, p)', StreamAt(c, p)', StreamAt(c, Other(p))', ThreadAt(p)'
  PROVE  Inv'
<1>1. TypeOK /\ Openings /\ Ends /\ Streams /\ Threads
  BY DEF Inv
<1>2. /\ \A d \in Conn : d # c => oob'[d] = oob[d] /\ SameRoles(d, p)
      /\ \A d \in Conn, x \in Proc : d # c => h'[d][x] = h[d][x] /\ rx'[d][x] = rx[d][x]
      /\ \A d \in Conn, x \in Proc : d # c \/ x # p =>
           user'[x][d] = user[x][d] /\ queue'[x][d] = queue[x][d]
      /\ \A x \in Proc : x # p => /\ main'[x] = main[x] /\ io'[x] = io[x]
                                  /\ SameEnd(h'[c][x], h[c][x])
      /\ Running(p)' => Running(p)
      /\ h[c][p].ep = "closed" => h'[c][p].ep = "closed"
  BY DEF Elsewhere
<1>3. \A d \in Conn, x \in Proc : d # c \/ x # p => SameRoles(d, x)
  BY <1>2 DEF SameRoles, Dialling, Inserting, Moving, Greeting, At, IoAt
<1>4. \A x \in Proc : Running(x)' => Running(x)
  BY <1>2 DEF Running
<1>5. \A d \in Conn, x \in Proc : d # c \/ x # p => SameEnd(h'[d][x], h[d][x])
  BY <1>2 DEF SameEnd
<1>6. Openings'
  <2> SUFFICES ASSUME NEW d \in Conn PROVE OpeningAt(d)'
    BY DEF Openings
  <2>1. CASE d # c
    <3>1. OpeningAt(d) /\ Caller[d] \in Proc
      BY <1>1, CallerAssumption DEF Openings
    <3>2. Dialling(d, Caller[d])' => Dialling(d, Caller[d])
      BY <1>3, <2>1, <3>1 DEF SameRoles
    <3>3. \A x \in Proc : h'[d][x] = h[d][x]
      BY <1>2, <2>1
    <3> QED BY <1>2, <2>1, <3>1, <3>2, <3>3, OpeningKept
  <2> QED BY <2>1
<1>7. Ends'
  <2> SUFFICES ASSUME NEW d \in Conn, NEW x \in Proc PROVE EndAt(d, x)'
    BY DEF Ends
  <2>1. CASE d # c \/ x # p
    <3>1. EndAt(d, x) /\ Other(x) \in Proc /\ (x # p => Other(x) = p)
      BY <1>1, TwoProcs DEF Ends
    <3>2. h[d][Other(x)].ep = "closed" => h'[d][Other(x)].ep = "closed"
      BY <1>2, <2>1, <3>1
    <3>3. user'[x][d] = user[x][d] /\ queue'[x][d] = queue[x][d]
      BY <1>2, <2>1
    <3>4. SameRoles(d, x) /\ SameEnd(h'[d][x], h[d][x]) /\ (Running(x)' => Running(x))
      BY <1>3, <1>4, <1>5, <2>1
    <3> QED BY <3>1, <3>2, <3>3, <3>4, EndKept DEF SameRoles
  <2> QED BY <2>1
<1>8. Streams'
  <2> SUFFICES ASSUME NEW d \in Conn, NEW x \in Proc PROVE StreamAt(d, x)'
    BY DEF Streams
  <2>1. CASE d # c
    <3>1. StreamAt(d, x) /\ Other(x) \in Proc
      BY <1>1, TwoProcs DEF Streams
    <3>2. h'[d][Other(x)] = h[d][Other(x)] /\ h'[d][x] = h[d][x] /\ rx'[d][x] = rx[d][x]
      BY <1>2, <2>1, <3>1
    <3> QED BY <3>1, <3>2 DEF StreamAt
  <2>2. CASE d = c
    BY <2>2, TwoProcs
  <2> QED BY <2>1, <2>2
<1>9. Threads'
  <2> SUFFICES ASSUME NEW x \in Proc PROVE ThreadAt(x)'
    BY DEF Threads
  <2>1. CASE x # p
    <3>1. ThreadAt(x)
      BY <1>1 DEF Threads
    <3>2. \A d \in Conn : h'[d][x].ep = h[d][x].ep
      BY <1>5, <2>1 DEF SameEnd
    <3> QED BY <1>1, <1>2, <2>1, <3>1, <3>2, ThreadKept
  <2> QED BY <2>1
<1> QED BY <1>6, <1>7, <1>8, <1>9 DEF Inv

(* A step of p that only moves its threads, and with no connection.        *)
LEMMA QuietKeeps ==
  ASSUME Inv, NEW p \in Proc, TypeOK', UNCHANGED <<h, rx, oob, queue, user>>,
         \A x \in Proc : x # p => main'[x] = main[x] /\ io'[x] = io[x],
         \A d \in Conn : SameRoles(d, p),
         Running(p)' => Running(p), ThreadAt(p)'
  PROVE  Inv'
<1>1. PICK c \in Conn : TRUE
  BY ConnAssumption
<1>2. TypeOK /\ Openings /\ Ends /\ Streams /\ Other(p) \in Proc /\ Other(Other(p)) = p
  BY TwoProcs DEF Inv
<1>3. \A x \in Proc : SameRoles(c, x)
  BY DEF SameRoles, Dialling, Inserting, Moving, Greeting, At, IoAt
<1>4. \A x \in Proc : SameEnd(h'[c][x], h[c][x])
  BY DEF SameEnd
<1>5. OpeningAt(c)'
  <2>1. Dialling(c, Caller[c])' => Dialling(c, Caller[c])
    BY <1>3, CallerAssumption DEF SameRoles
  <2> QED BY <1>2, <2>1, OpeningKept DEF Openings
<1>6. EndAt(c, p)'
  BY <1>2, <1>3, <1>4, EndKept DEF Ends, SameRoles
<1>7. StreamAt(c, p)' /\ StreamAt(c, Other(p))'
  BY <1>2 DEF Streams, StreamAt
<1>8. Elsewhere(c, p)
  BY <1>4 DEF Elsewhere
<1> QED BY <1>5, <1>6, <1>7, <1>8, LocalKeeps

(* What each owner of an end excludes while the IO thread runs.            *)
LEMMA Exclusive ==
  ASSUME Inv, NEW c \in Conn, NEW p \in Proc, Running(p)
  PROVE  /\ user[p][c] = "held" => /\ queue[p][c] = 0 /\ ~h[c][p].to_manage
                                   /\ ~Moving(c, p) /\ ~Greeting(c, p)
         /\ queue[p][c] # 0 => /\ queue[p][c] = 1 /\ user[p][c] # "held"
                               /\ ~h[c][p].to_manage /\ ~Moving(c, p) /\ ~Greeting(c, p)
         /\ h[c][p].to_manage => /\ user[p][c] # "held" /\ queue[p][c] = 0
                                 /\ ~Moving(c, p) /\ ~Greeting(c, p)
         /\ Moving(c, p) => /\ user[p][c] # "held" /\ queue[p][c] = 0
                            /\ ~h[c][p].to_manage /\ ~Greeting(c, p)
         /\ Greeting(c, p) => /\ user[p][c] # "held" /\ queue[p][c] = 0
                              /\ ~h[c][p].to_manage /\ ~Moving(c, p)
         /\ h[c][p].closed_rd \/ h[c][p].ep = "none" =>
              /\ user[p][c] # "held" /\ queue[p][c] = 0 /\ ~h[c][p].to_manage
              /\ ~Moving(c, p) /\ ~Greeting(c, p)
<1>1. queue[p][c] \in 0..1
  BY Parts DEF Inv
<1>2. Owners(c, p) = One(h[c][p].ep # "none" /\ ~h[c][p].closed_rd)
  BY DEF Inv, Ends, EndAt
<1>3. Owners(c, p) = One(user[p][c] = "held") + queue[p][c] + One(h[c][p].to_manage)
                     + One(Moving(c, p)) + One(Greeting(c, p))
  BY DEF Owners, Moving, Greeting, IoAt
<1>4. PICK n \in 0..1 : n = queue[p][c]
  BY <1>1
<1>5. /\ Owners(c, p) \in {0, 1}
      /\ h[c][p].closed_rd \/ h[c][p].ep = "none" => Owners(c, p) = 0
  BY <1>2 DEF One
<1>6. PICK u, t, m, g \in {0, 1} :
        /\ u = One(user[p][c] = "held") /\ t = One(h[c][p].to_manage)
        /\ m = One(Moving(c, p)) /\ g = One(Greeting(c, p))
  BY DEF One
<1>7. /\ user[p][c] = "held" <=> u = 1
      /\ h[c][p].to_manage <=> t = 1
      /\ Moving(c, p) <=> m = 1
      /\ Greeting(c, p) <=> g = 1
  BY <1>6 DEF One
<1>8. Owners(c, p) = u + n + t + m + g
  BY <1>3, <1>4, <1>6
<1>9. /\ u + n + t + m + g <= 1
      /\ h[c][p].closed_rd \/ h[c][p].ep = "none" => u + n + t + m + g = 0
  BY <1>5, <1>8
<1>10. /\ u = 1 => n = 0 /\ t = 0 /\ m = 0 /\ g = 0
       /\ n # 0 => n = 1 /\ u = 0 /\ t = 0 /\ m = 0 /\ g = 0
       /\ t = 1 => u = 0 /\ n = 0 /\ m = 0 /\ g = 0
       /\ m = 1 => u = 0 /\ n = 0 /\ t = 0 /\ g = 0
       /\ g = 1 => u = 0 /\ n = 0 /\ t = 0 /\ m = 0
       /\ h[c][p].closed_rd \/ h[c][p].ep = "none" =>
            u = 0 /\ n = 0 /\ t = 0 /\ m = 0 /\ g = 0
  BY <1>9
<1> QED BY <1>4, <1>7, <1>10

-----------------------------------------------------------------------------
(***************************************************************************)
(* Every action keeps the invariant.  Those that only move a thread.       *)
(***************************************************************************)
(* Manager::listen.                                                        *)
LEMMA ListenKeeps ==
  ASSUME Inv, NEW p \in Proc, Listen(p)
  PROVE  Inv'
<1>1. TypeOK /\ ThreadAt(p)
  BY DEF Inv, Threads
<1>2. UNCHANGED <<h, rx, ready, oob, queue, user, main, sent>>
  BY DEF Listen
<1>3. /\ io' \in [Proc -> IoState] /\ io'[p].pc = io[p].pc /\ io'[p].c = io[p].c
      /\ \A x \in Proc : x # p => io'[x] = io[x]
  <2>1. PICK r : r = [io[p] EXCEPT !.listening = TRUE]
    OBVIOUS
  <2>2. io[p] \in IoState
    BY <1>1, Parts
  <2>3. r \in IoState /\ r.pc = io[p].pc /\ r.c = io[p].c
    BY <2>1, <2>2 DEF IoState
  <2>4. io' = [io EXCEPT ![p] = r]
    BY <2>1 DEF Listen
  <2> QED BY <1>1, <2>3, <2>4, OwnTypes
<1>4. TypeOK'
  BY <1>1, <1>2, <1>3, OwnTypes, Typed
<1>5. Running(p)' => Running(p)
  BY <1>3 DEF Running
<1>6. ThreadAt(p)'
  BY <1>1, <1>2, <1>3 DEF ThreadAt, Leaving, At, IoAt, Running, Closing, Callee, Other
<1>7. \A d \in Conn : SameRoles(d, p)
  BY <1>2, <1>3 DEF SameRoles, Dialling, Inserting, Moving, Greeting, At, IoAt
<1> QED BY <1>2, <1>3, <1>4, <1>5, <1>6, <1>7, QuietKeeps

(* Manager::finalize, up to the join.                                      *)
LEMMA FinalizeKeeps ==
  ASSUME Inv, NEW p \in Proc, Finalize(p)
  PROVE  Inv'
<1>1. TypeOK /\ ThreadAt(p) /\ At(p, "idle")
  BY DEF Inv, Threads, Finalize, Idle
<1>2. UNCHANGED <<h, rx, ready, oob, queue, user, io, sent>>
  BY DEF Finalize
<1>3. /\ main' \in [Proc -> Thread] /\ main'[p].pc = "join" /\ main'[p].todo = main[p].todo
      /\ main'[p].c = main[p].c
      /\ \A x \in Proc : x # p => main'[x] = main[x]
  BY <1>1, GotoSet DEF Finalize, PC
<1>4. TypeOK'
  BY <1>1, <1>2, <1>3, OwnTypes, Typed
<1>5. Running(p)' => Running(p)
  BY <1>2 DEF Running
<1>6. ThreadAt(p)'
  BY <1>1, <1>2, <1>3 DEF ThreadAt, Leaving, At, IoAt, Running, Closing, Callee, Other
<1>7. \A d \in Conn : SameRoles(d, p)
  BY <1>1, <1>2, <1>3 DEF SameRoles, Dialling, Inserting, Moving, Greeting, At, IoAt
<1> QED BY <1>2, <1>3, <1>4, <1>5, <1>6, <1>7, QuietKeeps

(* The IO thread is joined: ConnUCX::end begins.                           *)
LEMMA JoinKeeps ==
  ASSUME Inv, NEW p \in Proc, Join(p)
  PROVE  Inv'
<1>1. TypeOK /\ ThreadAt(p) /\ At(p, "join") /\ ~Running(p)
  BY DEF Inv, Threads, Join, Running
<1>2. UNCHANGED <<h, rx, ready, oob, queue, user, io, sent>>
  BY DEF Join
<1>3. PICK T : T = {c \in Conn : h[c][p].reg}
  OBVIOUS
<1>4. T \subseteq Conn /\ \A c \in T : h[c][p].ep # "none"
  BY <1>3 DEF Inv, Ends, EndAt
<1>5. /\ main' \in [Proc -> Thread] /\ main'[p].pc = "end" /\ main'[p].todo = T
      /\ \A x \in Proc : x # p => main'[x] = main[x]
  <2>1. PICK r : r = [main[p] EXCEPT !.pc = "end", !.todo = T]
    OBVIOUS
  <2>2. main[p] \in Thread
    BY <1>1, Parts
  <2>3. r \in Thread /\ r.pc = "end" /\ r.todo = T
    BY <1>4, <2>1, <2>2 DEF Thread, PC
  <2>4. main' = [main EXCEPT ![p] = r]
    BY <1>1, <1>3, <2>1 DEF Join, TypeOK
  <2> QED BY <1>1, <2>3, <2>4, MainSet
<1>6. TypeOK'
  BY <1>1, <1>2, <1>5, OwnTypes, Typed
<1>7. Running(p)' => Running(p)
  BY <1>2 DEF Running
<1>8. ThreadAt(p)'
  BY <1>1, <1>2, <1>4, <1>5 DEF ThreadAt, Leaving, At, IoAt, Running, Closing, Callee, Other
<1>9. \A d \in Conn : SameRoles(d, p)
  BY <1>1, <1>2, <1>5 DEF SameRoles, Dialling, Inserting, Moving, Greeting, At, IoAt
<1> QED BY <1>2, <1>5, <1>6, <1>7, <1>8, <1>9, QuietKeeps

(* ConnUCX::end has closed everything.                                     *)
LEMMA EndDoneKeeps ==
  ASSUME Inv, NEW p \in Proc, EndDone(p)
  PROVE  Inv'
<1>1. TypeOK /\ ThreadAt(p) /\ At(p, "end") /\ main[p].todo = {}
  BY DEF Inv, Threads, EndDone
<1>2. UNCHANGED <<h, rx, ready, oob, queue, user, io, sent>>
  BY DEF EndDone
<1>3. /\ main' \in [Proc -> Thread] /\ main'[p].pc = "done" /\ main'[p].todo = main[p].todo
      /\ \A x \in Proc : x # p => main'[x] = main[x]
  BY <1>1, GotoSet DEF EndDone, PC
<1>4. TypeOK'
  BY <1>1, <1>2, <1>3, OwnTypes, Typed
<1>5. Running(p)' => Running(p)
  BY <1>2 DEF Running
<1>6. ThreadAt(p)'
  BY <1>1, <1>2, <1>3 DEF ThreadAt, Leaving, At, IoAt, Running, Closing, Callee, Other
<1>7. \A d \in Conn : SameRoles(d, p)
  BY <1>1, <1>2, <1>3 DEF SameRoles, Dialling, Inserting, Moving, Greeting, At, IoAt
<1> QED BY <1>2, <1>3, <1>4, <1>5, <1>6, <1>7, QuietKeeps

(* The IO thread ends.                                                     *)
LEMMA IoExitKeeps ==
  ASSUME Inv, NEW p \in Proc, IoExit(p)
  PROVE  Inv'
<1>1. TypeOK /\ ThreadAt(p) /\ At(p, "join") /\ IoAt(p, "start")
  BY DEF Inv, Threads, IoExit
<1>2. UNCHANGED <<h, rx, ready, oob, queue, user, main, sent>>
  BY DEF IoExit
<1>3. /\ io' \in [Proc -> IoState] /\ io'[p].pc = "exited"
      /\ \A x \in Proc : x # p => io'[x] = io[x]
  BY <1>1, IoGotoSet DEF IoExit, IoPC
<1>4. TypeOK'
  BY <1>1, <1>2, <1>3, OwnTypes, Typed
<1>5. Running(p)' => Running(p)
  BY <1>3 DEF Running
<1>6. ThreadAt(p)'
  BY <1>1, <1>2, <1>3 DEF ThreadAt, Leaving, At, IoAt, Running, Closing
<1>7. \A d \in Conn : SameRoles(d, p)
  BY <1>1, <1>2, <1>3 DEF SameRoles, Dialling, Inserting, Moving, Greeting, At, IoAt
<1> QED BY <1>2, <1>3, <1>4, <1>5, <1>6, <1>7, QuietKeeps

(* The poll.                                                               *)
LEMMA PollKeeps ==
  ASSUME Inv, NEW p \in Proc, Poll(p)
  PROVE  Inv'
<1>1. TypeOK /\ ThreadAt(p) /\ (IoAt(p, "poll") \/ IoAt(p, "start"))
  BY DEF Inv, Threads, Poll
<1>2. UNCHANGED <<h, rx, oob, queue, user, main, sent>>
  BY DEF Poll
<1>3. PICK T \in Reported(p, PollSize(p)) :
        /\ ready' = [ready EXCEPT ![p] = @ \ T]
        /\ io' = [io EXCEPT ![p].pc = IF T = {} THEN "start" ELSE "dispatch",
                            ![p].polled = T]
  BY DEF Poll
<1>4. T \subseteq Conn /\ ready[p] \subseteq Conn
  BY <1>1, Parts DEF Reported
<1>5. ready' \in [Proc -> SUBSET Conn]
  BY <1>1, <1>3, <1>4 DEF TypeOK
<1>6. /\ io' \in [Proc -> IoState] /\ io'[p].pc \in {"start", "dispatch"}
      /\ \A x \in Proc : x # p => io'[x] = io[x]
  <2>1. PICK l \in {"start", "dispatch"} : l = IF T = {} THEN "start" ELSE "dispatch"
    OBVIOUS
  <2>2. PICK r : r = [io[p] EXCEPT !.pc = l, !.polled = T]
    OBVIOUS
  <2>3. io[p] \in IoState
    BY <1>1, Parts
  <2>4. r \in IoState /\ r.pc = l
    BY <1>4, <2>2, <2>3 DEF IoState, IoPC
  <2>5. io' = [io EXCEPT ![p] = r]
    BY <1>1, <1>3, <2>1, <2>2 DEF TypeOK
  <2> QED BY <1>1, <2>4, <2>5, OwnTypes
<1>7. TypeOK'
  BY <1>1, <1>2, <1>5, <1>6, OwnTypes, Typed
<1>8. Running(p)' /\ Running(p)
  BY <1>1, <1>6 DEF Running, IoAt
<1>9. ThreadAt(p)'
  BY <1>1, <1>2, <1>6, <1>8 DEF ThreadAt, Leaving, At, IoAt, Closing
<1>10. \A d \in Conn : SameRoles(d, p)
  BY <1>1, <1>2, <1>6 DEF SameRoles, Dialling, Inserting, Moving, Greeting, At, IoAt
<1> QED BY <1>2, <1>6, <1>7, <1>8, <1>9, <1>10, QuietKeeps

(***************************************************************************)
(* The actions that change one end of a connection.                        *)
(***************************************************************************)
(* The process reads from it, moves it, or opens or closes it.             *)
LEMMA OwnKeeps ==
  ASSUME Inv, NEW c \in Conn, NEW p \in Proc, NEW r \in HandleUCX, NEW t \in Seq(Frame),
         h' = [h EXCEPT ![c][p] = r], rx' = [rx EXCEPT ![c][p] = t],
         r.closed_wr <=> h[c][p].closed_wr, r.lost <=> h[c][p].lost,
         h[c][p].ep = "closed" => r.ep = "closed",
         StreamOf(r, t, Whole(h[c][Other(p)])),
         ready' \in [Proc -> SUBSET Conn],
         oob' \in [Conn -> {"none", "called", "answered", "failed"}],
         \A d \in Conn : d # c => oob'[d] = oob[d] /\ SameRoles(d, p),
         queue' \in [Proc -> [Conn -> Count]], user' \in [Proc -> [Conn -> Has]],
         \A d \in Conn, x \in Proc : d # c \/ x # p =>
           user'[x][d] = user[x][d] /\ queue'[x][d] = queue[x][d],
         main' \in [Proc -> Thread], io' \in [Proc -> IoState], sent' = sent,
         \A x \in Proc : x # p => main'[x] = main[x] /\ io'[x] = io[x],
         Running(p)' => Running(p), OpeningAt(c)', EndAt(c, p)', ThreadAt(p)'
  PROVE  Inv'
<1>1. TypeOK /\ Streams
  BY DEF Inv
<1>2. PICK q \in Proc : q = Other(p) /\ q # p /\ Other(q) = p
  BY TwoProcs
<1>3. /\ h' \in [Conn -> [Proc -> HandleUCX]] /\ h'[c][p] = r
      /\ \A d \in Conn, x \in Proc : d # c \/ x # p => h'[d][x] = h[d][x]
  <2>1. h \in [Conn -> [Proc -> HandleUCX]]
    BY <1>1, OwnTypes
  <2> QED BY <2>1
<1>4. /\ rx' \in [Conn -> [Proc -> Seq(Frame)]] /\ rx'[c][p] = t
      /\ \A d \in Conn, x \in Proc : d # c \/ x # p => rx'[d][x] = rx[d][x]
  BY <1>1, OwnTypes
<1>5. \A d \in Conn, x \in Proc : sent'[d][x] \in 0..MaxSend[x]
  BY <1>1, OwnTypes
<1>6. TypeOK'
  BY <1>3, <1>4, <1>5, Typed
<1>7. StreamAt(c, p)'
  BY <1>2, <1>3, <1>4 DEF StreamAt
<1>8. StreamAt(c, q)'
  <2>1. StreamOf(h[c][q], rx[c][q], Whole(h[c][p]))
    BY <1>1, <1>2 DEF Streams, StreamAt
  <2>2. /\ h'[c][q] = h[c][q] /\ rx'[c][q] = rx[c][q]
        /\ (Whole(h'[c][p]) <=> Whole(h[c][p]))
    BY <1>2, <1>3, <1>4 DEF Whole
  <2>3. StreamOf(h'[c][q], rx'[c][q], Whole(h'[c][p]))
    BY <2>1, <2>2 DEF StreamOf
  <2> QED BY <1>2, <2>3 DEF StreamAt
<1>9. \A x \in Proc : x # p => SameEnd(h'[c][x], h[c][x])
  BY <1>3 DEF SameEnd
<1>10. Elsewhere(c, p)
  BY <1>3, <1>4, <1>9 DEF Elsewhere
<1> QED BY <1>2, <1>6, <1>7, <1>8, <1>10, LocalKeeps

(* The process writes on it.                                               *)
LEMMA WriteKeeps ==
  ASSUME Inv, NEW c \in Conn, NEW p \in Proc, NEW g \in HandleUCX,
         NEW f \in Frame, NEW b \in Frame, Pair(f, b), Writes(c, p, g, f, b),
         g.ep = h[c][p].ep, g.to_manage <=> h[c][p].to_manage,
         g.closed_rd <=> h[c][p].closed_rd, g.lost <=> h[c][p].lost,
         SameReader(g, h[c][p]), ~h[c][p].closed_wr, f = "eos" => g.closed_wr,
         h[c][p].ep # "none", UNCHANGED <<oob, queue, io>>,
         main' \in [Proc -> Thread], \A x \in Proc : x # p => main'[x] = main[x],
         user' \in [Proc -> [Conn -> Has]],
         \A d \in Conn, x \in Proc : d # c \/ x # p => user'[x][d] = user[x][d],
         One(user'[p][c] = "held") + One(Moving(c, p)') =
           One(user[p][c] = "held") + One(Moving(c, p)),
         \A d \in Conn, x \in Proc : sent'[d][x] \in 0..MaxSend[x],
         \A d \in Conn : d # c => SameRoles(d, p),
         ~Inserting(c, p)', ~Dialling(c, p)', ~Greeting(c, p),
         main[p].pc \notin {"dial", "insert"} \/ main'[p].pc = "idle",
         main'[p].pc \notin {"dial", "insert", "join"}, main'[p].todo \subseteq main[p].todo,
         Closing(main'[p]) <=> Closing(main[p]), ~At(p, "join"),
         Leaving(main'[p]) => main'[p].c = c
  PROVE  Inv'
<1>1. TypeOK /\ Streams /\ EndAt(c, p) /\ OpeningAt(c) /\ ThreadAt(p) /\ StreamAt(c, p)
  BY DEF Inv, Streams, Ends, Openings, Threads
<1>2. PICK q \in Proc : q = Other(p) /\ q # p /\ Other(q) = p
  BY TwoProcs
<1>3. StreamAt(c, q) /\ EndAt(c, q)
  BY DEF Inv, Streams, Ends
<1>4. /\ h' \in [Conn -> [Proc -> HandleUCX]]
      /\ \A d \in Conn, x \in Proc : d # c => h'[d][x] = h[d][x]
      /\ h'[c][p].ep = h[c][p].ep /\ (h'[c][p].to_manage <=> h[c][p].to_manage)
      /\ (h'[c][p].closed_rd <=> h[c][p].closed_rd)
      /\ Reaches(c, p) => (h'[c][p].lost <=> h[c][p].lost)
      /\ h'[c][p].last_probe = h[c][p].last_probe /\ SameEnd(h'[c][q], h[c][q])
  BY <1>1, <1>2, WritesHandles DEF SameReader
<1>5. /\ rx' \in [Conn -> [Proc -> Seq(Frame)]] /\ ready' \in [Proc -> SUBSET Conn]
      /\ \A d \in Conn, x \in Proc : d # c => rx'[d][x] = rx[d][x]
      /\ StreamAt(c, p)' /\ StreamAt(c, q)'
  <2>1. Reaches(c, p) => ~g.lost
    BY <1>1, <1>2 DEF EndAt, Reaches
  <2> QED BY <1>1, <1>2, <1>3, <2>1, WritesStreams
<1>6. TypeOK'
  <2>1. /\ oob' \in [Conn -> {"none", "called", "answered", "failed"}]
        /\ queue' \in [Proc -> [Conn -> Count]] /\ io' \in [Proc -> IoState]
    BY <1>1, OwnTypes
  <2> QED BY <1>4, <1>5, <2>1, Typed
<1>7. OpeningAt(c)'
  <2>1. \A x \in Proc : h'[c][x].ep = h[c][x].ep
    <3>1. h'[c][q].ep = h[c][q].ep
      BY <1>4 DEF SameEnd
    <3>2. \A x \in Proc : x = p \/ x = q
      BY <1>2, TwoProcs
    <3> QED BY <1>4, <3>1, <3>2
  <2>2. Dialling(c, Caller[c])' => Dialling(c, Caller[c])
    BY CallerAssumption DEF Dialling, At
  <2> QED BY <1>1, <2>1, <2>2, OpeningKept
<1>8. EndAt(c, p)'
  <2>1. (Running(p)' <=> Running(p)) /\ ~Greeting(c, p)'
    BY DEF Running, Greeting, IoAt
  <2>2. Owners(c, p) = One(user[p][c] = "held") + queue[p][c] + One(h[c][p].to_manage)
                       + One(Moving(c, p)) + One(Greeting(c, p))
    BY DEF Owners, Moving, Greeting, IoAt
  <2>3. Owners(c, p)' = One(user'[p][c] = "held") + queue[p][c] + One(h'[c][p].to_manage)
                        + One(Moving(c, p)') + One(Greeting(c, p)')
    BY DEF Owners, Moving, Greeting, IoAt
  <2>4. One(Greeting(c, p)') = 0 /\ One(Greeting(c, p)) = 0
    BY <2>1 DEF One
  <2>5. One(h'[c][p].to_manage) = One(h[c][p].to_manage)
    BY <1>4 DEF One
  <2>6. PICK n \in 0..1 : n = queue[p][c]
    BY <1>1, Parts
  <2>7. PICK a1 \in 0..1, a2 \in 0..1, b1 \in 0..1, b2 \in 0..1, k \in 0..1 :
          /\ a1 = One(user[p][c] = "held") /\ a2 = One(user'[p][c] = "held")
          /\ b1 = One(Moving(c, p)) /\ b2 = One(Moving(c, p)')
          /\ k = One(h[c][p].to_manage)
    BY DEF One
  <2>8. Owners(c, p)' = a2 + n + k + b2 + 0 /\ Owners(c, p) = a1 + n + k + b1 + 0
    BY <2>2, <2>3, <2>4, <2>5, <2>6, <2>7
  <2>9. a2 + b2 = a1 + b1
    BY <2>7
  <2>10. Owners(c, p)' = Owners(c, p)
    BY <2>8, <2>9
  <2>11. h'[c][p].lost => h'[c][p].ep = "closed" \/ h'[c][Other(p)].ep = "closed"
    <3>1. CASE Reaches(c, p)
      BY <1>1, <1>2, <1>4, <3>1 DEF EndAt, SameEnd
    <3>2. CASE ~Reaches(c, p)
      <4>1. h[c][p].ep = "closed" \/ h[c][q].ep = "closed"
        BY <1>1, <1>2, <3>2, Parts DEF Reaches
      <4> QED BY <1>1, <1>2, <1>3, <1>4, <4>1 DEF EndAt, SameEnd
    <3> QED BY <3>1, <3>2
  <2>12. One(h[c][p].ep # "none" /\ ~h[c][p].closed_rd)'
           = One(h[c][p].ep # "none" /\ ~h[c][p].closed_rd)
    BY <1>4 DEF One
  <2> QED BY <1>1, <1>4, <2>1, <2>10, <2>11, <2>12 DEF EndAt
<1>9. ThreadAt(p)'
  <2>1. \A d \in Conn : h'[d][p].ep = h[d][p].ep
    BY <1>4
  <2>2. main[p].todo \subseteq Conn
    BY <1>1, Parts
  <2>3. Callee(io[p].c)' = Callee(io[p].c)
    BY DEF Callee, Other
  <2>4. \A d \in main'[p].todo : h'[d][p].ep # "none"
    BY <1>1, <2>1, <2>2 DEF ThreadAt, Leaving
  <2>5. ~Running(p)' => Closing(main'[p])
    BY <1>1 DEF ThreadAt, Leaving, Running
  <2>6. Closing(main'[p]) => ~Running(p)'
    BY <1>1 DEF ThreadAt, Leaving, Running
  <2>7. Leaving(main'[p]) => h'[main'[p].c][p].ep # "none"
    BY <2>1
  <2> QED BY <1>1, <2>3, <2>4, <2>5, <2>6, <2>7 DEF ThreadAt, IoAt, At
<1>10. Elsewhere(c, p)
  <2>1. \A x \in Proc : x # p => SameEnd(h'[c][x], h[c][x])
    BY <1>2, <1>4, TwoProcs
  <2> QED BY <1>4, <1>5, <2>1 DEF Elsewhere, Running
<1> QED BY <1>2, <1>5, <1>6, <1>7, <1>8, <1>9, <1>10, LocalKeeps

(* A thread that is about to make a call does nothing else.                *)
LEMMA IdleIs ==
  ASSUME Inv, NEW p \in Proc, Idle(p)
  PROVE  /\ TypeOK /\ ThreadAt(p) /\ Running(p) /\ main[p].pc = "idle" /\ main[p].todo = {}
         /\ \A d \in Conn : ~Dialling(d, p) /\ ~Inserting(d, p) /\ ~Moving(d, p)
<1>1. TypeOK /\ ThreadAt(p) /\ main[p].pc = "idle"
  BY DEF Inv, Threads, Idle, At
<1> QED BY <1>1 DEF ThreadAt, Leaving, Closing, At, Dialling, Inserting, Moving

(* A handle that the program has or has had is open, and greeted.          *)
LEMMA UserIs ==
  ASSUME Inv, NEW c \in Conn, NEW p \in Proc, user[p][c] # "none"
  PROVE  h[c][p].ep # "none" /\ ~Inserting(c, p) /\ ~Greeting(c, p) /\ EndAt(c, p)
<1>1. EndAt(c, p)
  BY DEF Inv, Ends
<1> QED BY <1>1 DEF EndAt, Untouched

(* A call that leaves ThreadAt true: it starts on an idle thread, or ends. *)
LEMMA CalmThread ==
  ASSUME TypeOK, NEW p \in Proc, ThreadAt(p), ~Closing(main[p]), main[p].pc # "join",
         ~Closing(main'[p]), main'[p].pc \notin {"dial", "insert"},
         main'[p].todo = main[p].todo, io'[p] = io[p]
  PROVE  ThreadAt(p)' /\ Running(p) /\ Running(p)'
<1>1. Running(p) /\ main[p].todo = {} /\ (IoAt(p, "handshake") => Callee(io[p].c) = p)
  BY DEF ThreadAt, Leaving, At
<1>2. Callee(io[p].c)' = Callee(io[p].c)
  BY DEF Callee, Other
<1>3. ~Leaving(main'[p])
  BY DEF Leaving, Closing
<1> QED BY <1>1, <1>2, <1>3 DEF ThreadAt, IoAt, Running

(* HandleUser::send.                                                       *)
LEMMA SendKeeps ==
  ASSUME Inv, NEW p \in Proc, NEW c \in Conn, Send(p, c)
  PROVE  Inv'
<1>1. /\ Idle(p) /\ user[p][c] # "none" /\ ~h[c][p].closed_wr /\ sent[c][p] < MaxSend[p]
      /\ UNCHANGED <<oob, queue, user, main, io>>
  BY DEF Send
<1>2. /\ TypeOK /\ ThreadAt(p) /\ Running(p) /\ main[p].pc = "idle"
      /\ \A d \in Conn : ~Dialling(d, p) /\ ~Inserting(d, p) /\ ~Moving(d, p)
  BY <1>1, IdleIs
<1>3. h[c][p].ep # "none" /\ ~Greeting(c, p)
  BY <1>1, UserIs
<1>4. PICK g \in HandleUCX : g = h[c][p]
  BY <1>2, Parts
<1>5. Writes(c, p, g, "hdr", "body")
  <2>1. [h EXCEPT ![c][p] = g] = h
    BY <1>2, <1>4 DEF TypeOK
  <2> QED BY <2>1 DEF Send, Message, Writes
<1>6. \A d \in Conn, x \in Proc : sent'[d][x] \in 0..MaxSend[x]
  <2>1. sent' = [sent EXCEPT ![c][p] = @ + 1]
    BY DEF Send
  <2>2. \A d \in Conn, x \in Proc : sent[d][x] \in 0..MaxSend[x] /\ MaxSend[x] \in Nat
    BY <1>2, OwnTypes, BoundAssumption
  <2>3. sent[c][p] + 1 \in 0..MaxSend[p]
    BY <1>1, <2>2
  <2>4. \A d \in Conn, x \in Proc :
          sent'[d][x] = sent[d][x] \/ (d = c /\ x = p /\ sent'[d][x] = sent[c][p] + 1)
    BY <2>1
  <2> QED BY <2>2, <2>3, <2>4
<1>7. user' \in [Proc -> [Conn -> Has]] /\ main' \in [Proc -> Thread]
  BY <1>1, <1>2, OwnTypes
<1>8. \A d \in Conn : SameRoles(d, p)
  BY <1>1 DEF SameRoles, Dialling, Inserting, Moving, Greeting, At, IoAt
<1>9. "hdr" \in Frame /\ "body" \in Frame /\ Pair("hdr", "body") /\ SameReader(g, h[c][p])
  BY <1>4 DEF Frame, Pair, SameReader
<1>10. One(user'[p][c] = "held") + One(Moving(c, p)') = One(user[p][c] = "held") + One(Moving(c, p))
  BY <1>1, <1>8 DEF SameRoles, One
<1>11. ~Inserting(c, p)' /\ ~Dialling(c, p)'
  BY <1>2, <1>8 DEF SameRoles
<1>12. ~Leaving(main'[p])
  BY <1>1, <1>2 DEF Leaving
<1> QED BY <1>1, <1>2, <1>3, <1>4, <1>5, <1>6, <1>7, <1>8, <1>9, <1>10, <1>11, <1>12, WriteKeeps
        DEF At

(* HandleUser::close up to notify_close.                                   *)
LEMMA CloseKeeps ==
  ASSUME Inv, NEW p \in Proc, NEW c \in Conn, Close(p, c)
  PROVE  Inv'
<1>1. /\ Idle(p) /\ user[p][c] # "none" /\ ~h[c][p].closed_wr
      /\ UNCHANGED <<oob, queue, user, io, sent>> /\ Call(p, "notify", c, "idle")
  BY DEF Close
<1>2. /\ TypeOK /\ ThreadAt(p) /\ Running(p) /\ main[p].pc = "idle" /\ main[p].todo = {}
      /\ \A d \in Conn : ~Dialling(d, p) /\ ~Inserting(d, p) /\ ~Moving(d, p)
  BY <1>1, IdleIs
<1>3. h[c][p].ep # "none" /\ ~Greeting(c, p)
  BY <1>1, UserIs
<1>4. PICK g : g = [h[c][p] EXCEPT !.closed_wr = TRUE]
  OBVIOUS
<1>5. /\ g \in HandleUCX /\ g.closed_wr /\ g.ep = h[c][p].ep
      /\ (g.to_manage <=> h[c][p].to_manage) /\ (g.closed_rd <=> h[c][p].closed_rd)
      /\ (g.lost <=> h[c][p].lost) /\ SameReader(g, h[c][p])
  <2>1. h[c][p] \in HandleUCX
    BY <1>2, Parts
  <2> QED BY <1>4, <2>1 DEF HandleUCX, SameReader
<1>6. Writes(c, p, g, "eos", "pad")
  <2>1. [h EXCEPT ![c][p] = g] = [h EXCEPT ![c][p].closed_wr = TRUE]
    BY <1>2, <1>4 DEF TypeOK
  <2> QED BY <2>1 DEF Close, EOS, Writes
<1>7. /\ user' \in [Proc -> [Conn -> Has]]
      /\ \A d \in Conn, x \in Proc : sent'[d][x] \in 0..MaxSend[x]
  BY <1>1, <1>2, OwnTypes
<1>8. /\ main' \in [Proc -> Thread] /\ main'[p].pc = "notify" /\ main'[p].then = "idle"
      /\ main'[p].todo = main[p].todo /\ \A x \in Proc : x # p => main'[x] = main[x]
  BY <1>1, <1>2, CallSet DEF PC
<1>9. \A d \in Conn : SameRoles(d, p) /\ ~Inserting(d, p)' /\ ~Dialling(d, p)' /\ ~Moving(d, p)'
  BY <1>1, <1>2, <1>8 DEF SameRoles, Dialling, Inserting, Moving, Greeting, At, IoAt
<1>10. "eos" \in Frame /\ "pad" \in Frame /\ Pair("eos", "pad")
  BY DEF Frame, Pair
<1>11. One(user'[p][c] = "held") + One(Moving(c, p)') = One(user[p][c] = "held") + One(Moving(c, p))
  BY <1>1, <1>2, <1>9 DEF One
<1>12. (Closing(main'[p]) <=> Closing(main[p])) /\ ~Leaving(main'[p])
  BY <1>2, <1>8 DEF Closing, Leaving
<1> QED BY <1>1, <1>2, <1>3, <1>5, <1>6, <1>7, <1>8, <1>9, <1>10, <1>11, <1>12, WriteKeeps DEF At

(* ConnUCX::end closes the write side of the next connection.              *)
LEMMA EndNextKeeps ==
  ASSUME Inv, NEW p \in Proc, EndNext(p)
  PROVE  Inv'
<1>1. TypeOK /\ ThreadAt(p) /\ main[p].pc = "end" /\ UNCHANGED <<oob, queue, user, io, sent>>
  BY DEF Inv, Threads, EndNext, At
<1>2. PICK c : /\ c \in main[p].todo
               /\ h' = IF h[c][p].closed_wr THEN h
                       ELSE Transmitted([h EXCEPT ![c][p].closed_wr = TRUE], c, p, EOS)
               /\ IF h[c][p].closed_wr THEN UNCHANGED <<rx, ready>> ELSE Transmit(c, p, EOS)
               /\ main' = [main EXCEPT ![p].pc = "notify", ![p].c = c, ![p].then = "drain",
                                       ![p].todo = @ \ {c}]
  BY DEF EndNext
<1>3. c \in Conn /\ h[c][p].ep # "none" /\ ~Running(p)
  BY <1>1, <1>2, Parts DEF ThreadAt, Leaving, Closing
<1>4. /\ main' \in [Proc -> Thread] /\ main'[p].pc = "notify" /\ main'[p].then = "drain"
      /\ main'[p].c = c /\ main'[p].todo \subseteq main[p].todo
      /\ \A x \in Proc : x # p => main'[x] = main[x]
  <2>1. PICK r : r = [main[p] EXCEPT !.pc = "notify", !.c = c, !.then = "drain", !.todo = @ \ {c}]
    OBVIOUS
  <2>2. main[p] \in Thread
    BY <1>1, Parts
  <2>3. /\ r \in Thread /\ r.pc = "notify" /\ r.then = "drain" /\ r.c = c
        /\ r.todo \subseteq main[p].todo
    BY <1>3, <2>1, <2>2 DEF Thread, PC
  <2>4. main' = [main EXCEPT ![p] = r]
    BY <1>1, <1>2, <2>1 DEF TypeOK
  <2> QED BY <1>1, <2>3, <2>4, MainSet
<1>5. /\ \A d \in Conn : SameRoles(d, p) /\ ~Inserting(d, p)' /\ ~Dialling(d, p)'
                         /\ ~Moving(d, p)' /\ ~Moving(d, p) /\ ~Greeting(d, p)
      /\ (Closing(main'[p]) <=> Closing(main[p])) /\ Closing(main[p])
  BY <1>1, <1>3, <1>4 DEF SameRoles, Dialling, Inserting, Moving, Greeting, At, IoAt, Closing, Running
<1>6. user' \in [Proc -> [Conn -> Has]] /\ \A d \in Conn, x \in Proc : sent'[d][x] \in 0..MaxSend[x]
  BY <1>1, OwnTypes
<1>7. CASE h[c][p].closed_wr
  <2>1. UNCHANGED <<h, rx, ready>>
    BY <1>2, <1>7
  <2>2. TypeOK'
    BY <1>1, <1>4, <1>6, <2>1, OwnTypes, Typed
  <2>3. ThreadAt(p)'
    <3>1. Callee(io[p].c)' = Callee(io[p].c)
      BY <1>1 DEF Callee, Other
    <3> QED BY <1>1, <1>3, <1>4, <1>5, <2>1, <3>1 DEF ThreadAt, Leaving, At, IoAt, Running
  <2>4. Running(p)' => Running(p)
    BY <1>1 DEF Running
  <2> QED BY <1>1, <1>4, <1>5, <2>1, <2>2, <2>3, <2>4, QuietKeeps
<1>8. CASE ~h[c][p].closed_wr
  <2>1. PICK g : g = [h[c][p] EXCEPT !.closed_wr = TRUE]
    OBVIOUS
  <2>2. /\ g \in HandleUCX /\ g.closed_wr /\ g.ep = h[c][p].ep
        /\ (g.to_manage <=> h[c][p].to_manage) /\ (g.closed_rd <=> h[c][p].closed_rd)
        /\ (g.lost <=> h[c][p].lost) /\ SameReader(g, h[c][p])
    <3>1. h[c][p] \in HandleUCX
      BY <1>1, <1>3, Parts
    <3> QED BY <2>1, <3>1 DEF HandleUCX, SameReader
  <2>3. Writes(c, p, g, "eos", "pad")
    <3>1. [h EXCEPT ![c][p] = g] = [h EXCEPT ![c][p].closed_wr = TRUE]
      BY <1>1, <2>1 DEF TypeOK
    <3> QED BY <1>2, <1>8, <3>1 DEF EOS, Writes
  <2>4. "eos" \in Frame /\ "pad" \in Frame /\ Pair("eos", "pad")
    BY DEF Frame, Pair
  <2>5. One(user'[p][c] = "held") + One(Moving(c, p)') = One(user[p][c] = "held") + One(Moving(c, p))
    BY <1>1, <1>3, <1>5 DEF One
  <2> QED BY <1>1, <1>3, <1>4, <1>5, <1>6, <1>8, <2>2, <2>3, <2>4, <2>5, WriteKeeps DEF At
<1> QED BY <1>7, <1>8

(* A step that does not open or close the endpoint, and that keeps the     *)
(* threads out of it, keeps the end if it keeps the number of owners.      *)
LEMMA EndHeld ==
  ASSUME Inv, NEW c \in Conn, NEW p \in Proc, h[c][p].ep # "none",
         h'[c][p].ep = h[c][p].ep, h'[c][p].lost <=> h[c][p].lost,
         h[c][p].closed_rd => h'[c][p].closed_rd,
         Running(p)' /\ h'[c][p].closed_rd => h'[c][p].last_probe = "eos",
         h[c][Other(p)].ep = "closed" => h'[c][Other(p)].ep = "closed",
         ~Inserting(c, p)', ~Greeting(c, p)',
         Running(p)' => Owners(c, p)' = One(~h'[c][p].closed_rd)
  PROVE  EndAt(c, p)'
<1>1. EndAt(c, p)
  BY DEF Inv, Ends
<1> QED BY <1>1 DEF EndAt, One

(* The parts of Owners, after the step.                                    *)
LEMMA OwnersThen ==
  ASSUME NEW c, NEW p
  PROVE  Owners(c, p)' = One(user'[p][c] = "held") + queue'[p][c] + One(h'[c][p].to_manage)
                         + One(Moving(c, p)') + One(Greeting(c, p)')
BY DEF Owners, Moving, Greeting, IoAt

(* Manager::getNext.                                                       *)
LEMMA GetNextKeeps ==
  ASSUME Inv, NEW p \in Proc, NEW c \in Conn, GetNext(p, c)
  PROVE  Inv'
<1>1. /\ Idle(p) /\ queue[p][c] > 0 /\ UNCHANGED <<h, rx, ready, oob, main, io, sent>>
  BY DEF GetNext
<1>2. /\ TypeOK /\ ThreadAt(p) /\ Running(p) /\ main[p].pc = "idle" /\ main[p].todo = {}
      /\ \A d \in Conn : ~Dialling(d, p) /\ ~Inserting(d, p) /\ ~Moving(d, p)
  BY <1>1, IdleIs
<1>3. /\ queue[p][c] = 1 /\ user[p][c] # "held" /\ ~h[c][p].to_manage /\ ~Greeting(c, p)
      /\ h[c][p].ep # "none" /\ ~h[c][p].closed_rd
  <2>1. queue[p][c] # 0
    BY <1>1
  <2> QED BY <1>2, <2>1, Exclusive
<1>4. PICK r \in HandleUCX, t \in Seq(Frame) : r = h[c][p] /\ t = rx[c][p]
  BY <1>2, Parts
<1>5. h' = [h EXCEPT ![c][p] = r] /\ rx' = [rx EXCEPT ![c][p] = t]
  BY <1>1, <1>2, <1>4 DEF TypeOK
<1>6. StreamOf(r, t, Whole(h[c][Other(p)])) /\ OpeningAt(c)
  BY <1>4 DEF Inv, Streams, StreamAt, Openings
<1>7. /\ queue' \in [Proc -> [Conn -> Count]] /\ user' \in [Proc -> [Conn -> Has]]
      /\ queue'[p][c] = 0 /\ user'[p][c] = "held"
      /\ \A d \in Conn, x \in Proc : d # c \/ x # p =>
           user'[x][d] = user[x][d] /\ queue'[x][d] = queue[x][d]
  <2>1. queue \in [Proc -> [Conn -> Count]] /\ user \in [Proc -> [Conn -> Has]]
    BY <1>2, OwnTypes
  <2>2. queue' = [queue EXCEPT ![p][c] = 0]
    BY <1>3, <2>1 DEF GetNext
  <2>3. user' = [user EXCEPT ![p][c] = "held"]
    BY DEF GetNext
  <2> QED BY <2>1, <2>2, <2>3 DEF Count, Has
<1>8. \A d \in Conn : SameRoles(d, p) /\ ~Inserting(d, p)' /\ ~Moving(d, p)'
  BY <1>1, <1>2 DEF SameRoles, Dialling, Inserting, Moving, Greeting, At, IoAt
<1>9. EndAt(c, p)'
  <2>1. ~Greeting(c, p)'
    BY <1>3, <1>8 DEF SameRoles
  <2>2. Owners(c, p)' = 1
    BY <1>1, <1>3, <1>7, <1>8, <2>1, OwnersThen DEF One
  <2> QED BY <1>1, <1>3, <1>8, <2>1, <2>2, EndHeld DEF One
<1>10. ThreadAt(p)' /\ (Running(p)' => Running(p))
  BY <1>1, <1>2, CalmThread DEF Closing
<1>11. OpeningAt(c)'
  BY <1>1, <1>6, OpeningKept DEF Dialling, At
<1>12. \A d \in Conn : d # c => oob'[d] = oob[d] /\ SameRoles(d, p)
  BY <1>1, <1>8
<1>13. \A x \in Proc : x # p => main'[x] = main[x] /\ io'[x] = io[x]
  BY <1>1
<1>14. /\ ready' \in [Proc -> SUBSET Conn] /\ main' \in [Proc -> Thread] /\ io' \in [Proc -> IoState]
       /\ oob' \in [Conn -> {"none", "called", "answered", "failed"}] /\ sent' = sent
  BY <1>1, <1>2, OwnTypes
<1> QED BY <1>4, <1>5, <1>6, <1>7, <1>9, <1>10, <1>11, <1>12, <1>13, <1>14, OwnKeeps

(* ConnUCX::connect up to the wait for the peer's address.                 *)
LEMMA ConnectKeeps ==
  ASSUME Inv, NEW p \in Proc, NEW c \in Conn, Connect(p, c)
  PROVE  Inv'
<1>1. /\ Idle(p) /\ Caller[c] = p /\ oob[c] = "none" /\ oob' = [oob EXCEPT ![c] = "called"]
      /\ Call(p, "dial", c, "idle") /\ UNCHANGED <<h, rx, ready, queue, user, io, sent>>
  BY DEF Connect
<1>2. /\ TypeOK /\ ThreadAt(p) /\ Running(p) /\ main[p].pc = "idle" /\ main[p].todo = {}
      /\ \A d \in Conn : ~Dialling(d, p) /\ ~Inserting(d, p) /\ ~Moving(d, p)
  BY <1>1, IdleIs
<1>3. PICK r \in HandleUCX, t \in Seq(Frame) : r = h[c][p] /\ t = rx[c][p]
  BY <1>2, Parts
<1>4. h' = [h EXCEPT ![c][p] = r] /\ rx' = [rx EXCEPT ![c][p] = t]
  BY <1>1, <1>2, <1>3 DEF TypeOK
<1>5. StreamOf(r, t, Whole(h[c][Other(p)])) /\ OpeningAt(c) /\ EndAt(c, p)
  BY <1>3 DEF Inv, Streams, StreamAt, Openings, Ends
<1>6. /\ oob' \in [Conn -> {"none", "called", "answered", "failed"}] /\ oob'[c] = "called"
      /\ \A d \in Conn : d # c => oob'[d] = oob[d]
  <2>1. oob \in [Conn -> {"none", "called", "answered", "failed"}]
    BY <1>2, OwnTypes
  <2> QED BY <1>1, <2>1
<1>7. /\ main' \in [Proc -> Thread] /\ main'[p].pc = "dial" /\ main'[p].then = "idle"
      /\ main'[p].c = c /\ main'[p].todo = {} /\ \A x \in Proc : x # p => main'[x] = main[x]
  BY <1>1, <1>2, CallSet DEF PC
<1>8. /\ \A d \in Conn : ~Inserting(d, p)' /\ ~Moving(d, p)' /\ (Greeting(d, p)' <=> Greeting(d, p))
      /\ \A d \in Conn : d # c => SameRoles(d, p)
  BY <1>1, <1>2, <1>7 DEF SameRoles, Dialling, Inserting, Moving, Greeting, At, IoAt
<1>9. Running(p)' => Running(p)
  BY <1>1 DEF Running
<1>10. EndAt(c, p)'
  <2>1. SameEnd(h'[c][p], h[c][p]) /\ user'[p][c] = user[p][c] /\ queue'[p][c] = queue[p][c]
    BY <1>1 DEF SameEnd
  <2>2. h[c][Other(p)].ep = "closed" => h'[c][Other(p)].ep = "closed"
    BY <1>1
  <2> QED BY <1>2, <1>5, <1>8, <1>9, <2>1, <2>2, EndKept
<1>11. OpeningAt(c)'
  <2>1. Callee(c)' = Callee(c)
    BY DEF Callee, Other
  <2> QED BY <1>1, <1>5, <1>6, <2>1 DEF OpeningAt
<1>12. ThreadAt(p)'
  <2>1. Callee(io[p].c)' = Callee(io[p].c)
    BY <1>1 DEF Callee, Other
  <2> QED BY <1>1, <1>2, <1>7, <2>1 DEF ThreadAt, Leaving, IoAt, At, Running, Closing
<1>13. \A x \in Proc : x # p => main'[x] = main[x] /\ io'[x] = io[x]
  BY <1>1, <1>7
<1>14. /\ ready' \in [Proc -> SUBSET Conn] /\ io' \in [Proc -> IoState]
       /\ queue' \in [Proc -> [Conn -> Count]] /\ user' \in [Proc -> [Conn -> Has]]
       /\ sent' = sent /\ user' = user /\ queue' = queue
  BY <1>1, <1>2, OwnTypes
<1> QED BY <1>3, <1>4, <1>5, <1>6, <1>7, <1>8, <1>9, <1>10, <1>11, <1>12, <1>13, <1>14, OwnKeeps

(* Its answer, and the endpoint; or the peer has ended.                    *)
LEMMA ConnectAnsweredKeeps ==
  ASSUME Inv, NEW p \in Proc, ConnectAnswered(p)
  PROVE  Inv'
<1>1. /\ TypeOK /\ ThreadAt(p) /\ main[p].pc = "dial"
      /\ UNCHANGED <<rx, ready, queue, user, io, sent>>
  BY DEF Inv, Threads, ConnectAnswered, At
<1>2. PICK c \in Conn : c = main[p].c
  BY <1>1, Parts
<1>3. \/ oob[c] = "answered" /\ Goto(p, "insert")
         /\ h' = [h EXCEPT ![c][p].ep = "open"] /\ UNCHANGED oob
      \/ oob[c] = "called" /\ Goto(p, "idle")
         /\ oob' = [oob EXCEPT ![c] = "failed"] /\ UNCHANGED h
  BY <1>2 DEF ConnectAnswered
<1>4. /\ p = Caller[c] /\ Dialling(c, p) /\ Running(p) /\ main[p].todo = {}
  BY <1>1, <1>2 DEF ThreadAt, Leaving, Dialling, At, Closing
<1>5. OpeningAt(c) /\ EndAt(c, p) /\ StreamAt(c, p)
  BY DEF Inv, Openings, Ends, Streams
<1>6. h[c][p].ep = "none" /\ Untouched(c, p)
  BY <1>4, <1>5 DEF OpeningAt, EndAt
<1>7. /\ user[p][c] # "held" /\ queue[p][c] = 0 /\ ~h[c][p].to_manage /\ ~Greeting(c, p)
  BY <1>4, <1>6, Exclusive
<1>8. PICK t \in Seq(Frame) : t = rx[c][p] /\ rx' = [rx EXCEPT ![c][p] = t]
  BY <1>1, Parts DEF TypeOK
<1>9. \A x \in Proc : x # p => main'[x] = main[x] /\ io'[x] = io[x]
  BY <1>1, <1>3, GotoSet DEF PC
<1>10. /\ ready' \in [Proc -> SUBSET Conn] /\ io' \in [Proc -> IoState]
       /\ queue' \in [Proc -> [Conn -> Count]] /\ user' \in [Proc -> [Conn -> Has]]
       /\ sent' = sent /\ user' = user /\ queue' = queue
  BY <1>1, OwnTypes
<1>11. (Running(p)' <=> Running(p)) /\ Callee(c)' = Callee(c) /\ Callee(io[p].c)' = Callee(io[p].c)
  BY <1>1 DEF Running, Callee, Other
<1>12. CASE oob[c] = "answered" /\ Goto(p, "insert")
            /\ h' = [h EXCEPT ![c][p].ep = "open"] /\ UNCHANGED oob
  <2>1. PICK r : r = [h[c][p] EXCEPT !.ep = "open"]
    OBVIOUS
  <2>2. h[c][p] \in HandleUCX
    BY <1>1, Parts
  <2>3. /\ r \in HandleUCX /\ r.ep = "open" /\ (r.reg <=> h[c][p].reg)
        /\ (r.to_manage <=> h[c][p].to_manage) /\ SameReader(r, h[c][p])
        /\ (r.closed_rd <=> h[c][p].closed_rd) /\ (r.closed_wr <=> h[c][p].closed_wr)
        /\ (r.lost <=> h[c][p].lost)
    BY <2>1, <2>2 DEF HandleUCX, SameReader
  <2>4. h' = [h EXCEPT ![c][p] = r]
    BY <1>1, <1>12, <2>1 DEF TypeOK
  <2>5. /\ h'[c][p] = r /\ \A d \in Conn, x \in Proc : d # c \/ x # p => h'[d][x] = h[d][x]
    <3>1. h \in [Conn -> [Proc -> HandleUCX]]
      BY <1>1, OwnTypes
    <3> QED BY <2>3, <2>4, <3>1
  <2>6. /\ main' \in [Proc -> Thread] /\ main'[p].pc = "insert" /\ main'[p].c = c
        /\ main'[p].todo = {}
    BY <1>1, <1>2, <1>4, <1>12, GotoSet DEF PC
  <2>7. /\ \A d \in Conn : d # c => oob'[d] = oob[d] /\ SameRoles(d, p)
        /\ Moving(c, p)' /\ ~Greeting(c, p)' /\ ~Dialling(c, p)'
    BY <1>1, <1>2, <1>7, <1>12, <2>6 DEF SameRoles, Dialling, Inserting, Moving, Greeting, At, IoAt
  <2>8. StreamOf(r, t, Whole(h[c][Other(p)]))
    BY <1>5, <1>8, <2>3, SameStream DEF StreamAt
  <2>9. OpeningAt(c)'
    <3>1. Callee(c) # p /\ Callee(c) \in Proc
      BY <1>4, TwoEnds
    <3> QED BY <1>4, <1>11, <1>12, <2>7, <3>1 DEF OpeningAt
  <2>10. EndAt(c, p)'
    <3>1. Owners(c, p)' = 1
      BY <1>7, <1>10, <2>3, <2>5, <2>7, OwnersThen DEF One
    <3>2. Untouched(c, p)'
      BY <1>6, <1>10, <2>3, <2>5 DEF Untouched, SameReader
    <3>3. ~h'[c][p].lost \/ h'[c][Other(p)].ep = "closed"
      <4>1. h[c][p].lost => h[c][Other(p)].ep = "closed"
        BY <1>5, <1>6 DEF EndAt, Untouched
      <4>2. h'[c][Other(p)] = h[c][Other(p)]
        BY <2>5, TwoProcs
      <4> QED BY <2>3, <2>5, <4>1, <4>2
    <3> QED BY <1>6, <2>3, <2>5, <3>1, <3>2, <3>3 DEF EndAt, One, Untouched
  <2>11. ThreadAt(p)'
    BY <1>1, <1>4, <1>11, <2>6 DEF ThreadAt, Leaving, IoAt, At, Running, Closing
  <2>12. oob' \in [Conn -> {"none", "called", "answered", "failed"}]
    BY <1>1, <1>12, OwnTypes
  <2>13. h[c][p].ep # "closed"
    BY <1>6
  <2> QED BY <1>8, <1>9, <1>10, <1>11, <2>3, <2>4, <2>6, <2>7, <2>8, <2>9, <2>10, <2>11, <2>12,
             <2>13, OwnKeeps
<1>13. CASE oob[c] = "called" /\ Goto(p, "idle")
            /\ oob' = [oob EXCEPT ![c] = "failed"] /\ UNCHANGED h
  <2>1. PICK r \in HandleUCX : r = h[c][p] /\ h' = [h EXCEPT ![c][p] = r]
    BY <1>1, <1>13, Parts DEF TypeOK
  <2>2. /\ main' \in [Proc -> Thread] /\ main'[p].pc = "idle" /\ main'[p].todo = {}
    BY <1>1, <1>4, <1>13, GotoSet DEF PC
  <2>3. /\ oob' \in [Conn -> {"none", "called", "answered", "failed"}] /\ oob'[c] = "failed"
        /\ \A d \in Conn : d # c => oob'[d] = oob[d]
    <3>1. oob \in [Conn -> {"none", "called", "answered", "failed"}]
      BY <1>1, OwnTypes
    <3> QED BY <1>13, <3>1
  <2>4. /\ \A d \in Conn : d # c => SameRoles(d, p)
        /\ ~Moving(c, p)' /\ ~Inserting(c, p)' /\ ~Greeting(c, p)' /\ ~Dialling(c, p)'
        /\ ~Moving(c, p) /\ ~Inserting(c, p)
    BY <1>1, <1>2, <1>7, <2>2 DEF SameRoles, Dialling, Inserting, Moving, Greeting, At, IoAt
  <2>5. EndAt(c, p)'
    <3>1. SameEnd(h'[c][p], h[c][p]) /\ user'[p][c] = user[p][c] /\ queue'[p][c] = queue[p][c]
      BY <1>10, <1>13 DEF SameEnd
    <3>2. h[c][Other(p)].ep = "closed" => h'[c][Other(p)].ep = "closed"
      BY <1>13
    <3> QED BY <1>5, <1>7, <1>11, <2>4, <3>1, <3>2, EndKept
  <2>6. OpeningAt(c)'
    BY <1>4, <1>5, <1>11, <1>13, <2>3, <2>4 DEF OpeningAt
  <2>7. ThreadAt(p)'
    BY <1>1, <1>4, <1>11, <2>2 DEF ThreadAt, Leaving, IoAt, At, Running, Closing
  <2>8. StreamOf(r, t, Whole(h[c][Other(p)]))
    BY <1>5, <1>8, <2>1 DEF StreamAt
  <2> QED BY <1>8, <1>9, <1>10, <1>11, <2>1, <2>2, <2>3, <2>4, <2>5, <2>6, <2>7, <2>8, OwnKeeps
<1> QED BY <1>3, <1>12, <1>13

(* The table entry and the handshake; connect returns.                     *)
LEMMA ConnectInsertKeeps ==
  ASSUME Inv, NEW p \in Proc, ConnectInsert(p)
  PROVE  Inv'
<1>1. /\ TypeOK /\ ThreadAt(p) /\ main[p].pc = "insert" /\ Goto(p, "idle")
      /\ UNCHANGED <<oob, queue, io, sent>>
  BY DEF Inv, Threads, ConnectInsert, At
<1>2. PICK c \in Conn : c = main[p].c
  BY <1>1, Parts
<1>3. /\ h' = Transmitted([h EXCEPT ![c][p].reg = TRUE], c, p, Message)
      /\ Transmit(c, p, Message) /\ user' = [user EXCEPT ![p][c] = "held"]
  BY <1>2 DEF ConnectInsert
<1>4. Inserting(c, p) /\ Moving(c, p) /\ Running(p) /\ EndAt(c, p)
  BY <1>1, <1>2 DEF Inserting, Moving, ThreadAt, Leaving, At, Closing, Inv, Ends
<1>5. h[c][p].ep # "none" /\ user[p][c] # "held" /\ ~Greeting(c, p) /\ ~h[c][p].closed_wr
  BY <1>4, Exclusive DEF EndAt, Untouched
<1>6. PICK g : g = [h[c][p] EXCEPT !.reg = TRUE]
  OBVIOUS
<1>7. /\ g \in HandleUCX /\ g.ep = h[c][p].ep
      /\ (g.to_manage <=> h[c][p].to_manage) /\ (g.closed_rd <=> h[c][p].closed_rd)
      /\ (g.lost <=> h[c][p].lost) /\ SameReader(g, h[c][p])
  <2>1. h[c][p] \in HandleUCX
    BY <1>1, Parts
  <2> QED BY <1>6, <2>1 DEF HandleUCX, SameReader
<1>8. Writes(c, p, g, "hdr", "body")
  <2>1. [h EXCEPT ![c][p] = g] = [h EXCEPT ![c][p].reg = TRUE]
    BY <1>1, <1>6 DEF TypeOK
  <2> QED BY <1>3, <2>1 DEF Message, Writes
<1>9. /\ user' \in [Proc -> [Conn -> Has]] /\ user'[p][c] = "held"
      /\ \A d \in Conn, x \in Proc : d # c \/ x # p => user'[x][d] = user[x][d]
      /\ \A d \in Conn, x \in Proc : sent'[d][x] \in 0..MaxSend[x]
  BY <1>1, <1>3, OwnTypes DEF Has
<1>10. /\ main' \in [Proc -> Thread] /\ main'[p].pc = "idle"
       /\ main'[p].todo = main[p].todo /\ \A x \in Proc : x # p => main'[x] = main[x]
  BY <1>1, GotoSet DEF PC
<1>11. /\ \A d \in Conn : d # c => SameRoles(d, p)
       /\ ~Inserting(c, p)' /\ ~Dialling(c, p)' /\ ~Moving(c, p)'
  BY <1>1, <1>2, <1>10 DEF SameRoles, Dialling, Inserting, Moving, Greeting, At, IoAt
<1>12. "hdr" \in Frame /\ "body" \in Frame /\ Pair("hdr", "body")
  BY DEF Frame, Pair
<1>13. One(user'[p][c] = "held") + One(Moving(c, p)') = One(user[p][c] = "held") + One(Moving(c, p))
  BY <1>4, <1>5, <1>9, <1>11 DEF One
<1>14. (Closing(main'[p]) <=> Closing(main[p])) /\ ~Leaving(main'[p])
  BY <1>1, <1>10 DEF Closing, Leaving
<1> QED BY <1>1, <1>5, <1>7, <1>8, <1>9, <1>10, <1>11, <1>12, <1>13, <1>14, WriteKeeps DEF At

(* A header that has been read is forgotten with its payload, and returned *)
(* until then; EOS takes the bytes that go with it.                        *)
Leaves(f, t, w) ==
    /\ Chain(t) /\ (HasEOS(t) => w) /\ (f = "hdr" => Starts(t, {"body"}))
    /\ f = "eos" => t = <<>> /\ w

LEMMA HeaderRead ==
  ASSUME TypeOK, NEW c \in Conn, NEW p \in Proc, StreamAt(c, p), HeaderThere(c, p),
         NEW t, t = AfterHeader(c, p), NEW w, w <=> Whole(h[c][Other(p)])
  PROVE  /\ Header(c, p) \in {"hdr", "eos"} /\ t \in Seq(Frame)
         /\ Leaves(Header(c, p), t, w) /\ h[c][p].test_probe \in {"hdr", "eos"}
         /\ Probed(c, p)[c][p].request = "none"
<1>1. PICK e, s : e = h[c][p] /\ s = rx[c][p]
  OBVIOUS
<1>2. StreamOf(e, s, w) /\ s \in Seq(Frame) /\ Chain(s) /\ h[c][p].test_probe \in {"hdr", "eos"}
  BY <1>1, Parts DEF StreamAt, StreamOf
<1>3. e.request \in {"none", "posted", "done"} /\ e.last_probe \in {"none", "hdr", "eos"}
  BY <1>1, <1>2, Parts DEF StreamOf, Leaves
<1>4. Probed(c, p)[c][p].request = IF e.last_probe # "none" THEN e.request ELSE "none"
  <2>1. h[c][p] \in HandleUCX /\ h \in [Conn -> [Proc -> HandleUCX]]
    BY Parts, OwnTypes
  <2>2. PICK a, b : a = (IF h[c][p].last_probe # "none" THEN h[c][p].request ELSE "none")
                    /\ b = Header(c, p)
    OBVIOUS
  <2>3. Probed(c, p) = [h EXCEPT ![c][p].request = a, ![c][p].last_probe = b]
    BY <2>1, <2>2 DEF Probed
  <2> QED BY <1>1, <2>1, <2>2, <2>3 DEF HandleUCX
<1>5. Probed(c, p)[c][p].request = "none"
  BY <1>2, <1>3, <1>4 DEF StreamOf, Leaves
<1>6. CASE e.last_probe # "none"
  <2>1. Header(c, p) = e.last_probe /\ t = s
    BY <1>1, <1>6 DEF Header, AfterHeader
  <2> QED BY <1>2, <1>3, <1>5, <1>6, <2>1 DEF StreamOf, Leaves
<1>7. CASE e.last_probe = "none" /\ e.request = "done" /\ e.test_probe = "hdr"
  <2>1. Header(c, p) = "hdr" /\ t = s
    BY <1>1, <1>7 DEF Header, AfterHeader
  <2> QED BY <1>2, <1>5, <1>7, <2>1 DEF StreamOf, Leaves
<1>8. CASE e.last_probe = "none" /\ e.request = "done" /\ e.test_probe # "hdr"
  <2>1. e.test_probe = "eos" /\ Starts(s, {"pad"}) /\ w
    BY <1>2, <1>8 DEF StreamOf, Leaves
  <2>2. s # <<>> /\ s[1] = "pad"
    BY <2>1 DEF Starts
  <2>3. Header(c, p) = "eos" /\ t = Tail(s)
    BY <1>1, <1>8, <2>1, <2>2 DEF Header, AfterHeader
  <2>4. t \in Seq(Frame) /\ Chain(t) /\ t = <<>>
    BY <1>2, <2>2, <2>3, ChainTail
  <2> QED BY <1>2, <1>5, <2>1, <2>3, <2>4 DEF StreamOf, Leaves
<1>9. CASE e.last_probe = "none" /\ e.request # "done"
  <2>1. e.request = "none" /\ s # <<>>
    BY <1>1, <1>9 DEF HeaderThere
  <2>2. s[1] \in {"hdr", "eos"}
    BY <1>2, <1>9, <2>1 DEF StreamOf, Starts
  <2>3. PICK u : u = Tail(s)
    OBVIOUS
  <2>4. /\ u \in Seq(Frame) /\ Chain(u) /\ (HasEOS(u) => HasEOS(s)) /\ Head(s) = s[1]
        /\ s[1] = "hdr" => Starts(u, {"body"})
        /\ s[1] = "eos" => Starts(u, {"pad"}) /\ HasEOS(s)
    BY <1>2, <2>1, <2>3, ChainTail
  <2>5. Header(c, p) = s[1] /\ t = IF s[1] = "eos" /\ u # <<>> THEN Tail(u) ELSE u
    BY <1>1, <1>9, <2>1, <2>3, <2>4 DEF Header, AfterHeader
  <2>6. CASE s[1] = "hdr"
    BY <1>2, <1>5, <2>4, <2>5, <2>6 DEF StreamOf, Leaves
  <2>7. CASE s[1] = "eos"
    <3>1. u # <<>> /\ u[1] = "pad" /\ w
      BY <1>2, <2>4, <2>7 DEF StreamOf, Starts
    <3>2. PICK v : v = Tail(u)
      OBVIOUS
    <3>3. v \in Seq(Frame) /\ Chain(v) /\ v = <<>>
      BY <2>4, <3>1, <3>2, ChainTail
    <3>4. t = v
      BY <2>5, <2>7, <3>1, <3>2
    <3> QED BY <1>2, <1>5, <2>5, <2>7, <3>1, <3>3, <3>4 DEF StreamOf, Leaves
  <2> QED BY <2>2, <2>6, <2>7
<1> QED BY <1>3, <1>6, <1>7, <1>8, <1>9

LEMMA ReadStream ==
  ASSUME NEW f \in {"hdr", "eos"}, NEW t, NEW w, Leaves(f, t, w), NEW r, r.request = "none",
         r.last_probe = f, r.test_probe \in {"hdr", "eos"}, r.probed \in {"none", f}
  PROVE  StreamOf(r, t, w)
BY DEF StreamOf, Leaves

(* With nothing to read, no request has been completed either.             *)
LEMMA NoHeader ==
  ASSUME TypeOK, NEW c \in Conn, NEW p \in Proc, StreamAt(c, p), ~HeaderThere(c, p)
  PROVE  h[c][p].last_probe = "none" /\ h[c][p].request # "done" /\ rx[c][p] = <<>>
<1>1. h[c][p].request \in {"none", "posted", "done"}
  BY Parts
<1> QED BY <1>1 DEF HeaderThere, StreamAt, StreamOf

(***************************************************************************)
(* The actions of a process with a handle that it has.                     *)
(***************************************************************************)
LEMMA UseKeeps ==
  ASSUME Inv, NEW c \in Conn, NEW p \in Proc, NEW r \in HandleUCX, NEW t \in Seq(Frame),
         h' = [h EXCEPT ![c][p] = r], rx' = [rx EXCEPT ![c][p] = t],
         r.closed_wr <=> h[c][p].closed_wr, h[c][p].ep = "closed" => r.ep = "closed",
         Running(p) /\ r.closed_rd => r.last_probe = "eos",
         r.lost <=> h[c][p].lost, h[c][p].ep # "none", r.ep # "none",
         r.ep = "closed" => r.closed_rd, StreamOf(r, t, Whole(h[c][Other(p)])),
         ready' \in [Proc -> SUBSET Conn], UNCHANGED <<oob, io, sent>>,
         queue' \in [Proc -> [Conn -> Count]], user' \in [Proc -> [Conn -> Has]],
         \A d \in Conn, x \in Proc : d # c \/ x # p =>
           user'[x][d] = user[x][d] /\ queue'[x][d] = queue[x][d],
         main' \in [Proc -> Thread], \A x \in Proc : x # p => main'[x] = main[x],
         \A d \in Conn : d # c => SameRoles(d, p), ~Greeting(c, p),
         main'[p].pc \notin {"dial", "insert", "join"}, main'[p].todo = main[p].todo,
         Closing(main'[p]) <=> Closing(main[p]), ~At(p, "join"),
         Leaving(main'[p]) => main'[p].c = c,
         Running(p) => Owners(c, p)' = One(~r.closed_rd)
  PROVE  Inv'
<1>1. TypeOK /\ EndAt(c, p) /\ OpeningAt(c) /\ ThreadAt(p)
  BY DEF Inv, Ends, Openings, Threads
<1>2. /\ h'[c][p] = r /\ \A d \in Conn, x \in Proc : d # c \/ x # p => h'[d][x] = h[d][x]
  <2>1. h \in [Conn -> [Proc -> HandleUCX]]
    BY <1>1, OwnTypes
  <2> QED BY <2>1
<1>3. /\ (Running(p)' <=> Running(p)) /\ ~Greeting(c, p)' /\ ~Inserting(c, p)'
      /\ (IoAt(p, "handshake")' <=> IoAt(p, "handshake"))
      /\ Callee(io[p].c)' = Callee(io[p].c)
  BY DEF Running, Greeting, IoAt, Inserting, At, Callee, Other
<1>4. h'[c][Other(p)] = h[c][Other(p)]
  BY <1>2, TwoProcs
<1>5. EndAt(c, p)'
  BY <1>1, <1>2, <1>3, <1>4 DEF EndAt, One
<1>6. OpeningAt(c)'
  <2>1. Dialling(c, Caller[c])' => Dialling(c, Caller[c])
    BY CallerAssumption DEF Dialling, At
  <2>2. \A x \in Proc : h[c][x].ep = "none" => h'[c][x].ep = "none"
    BY <1>2
  <2> QED BY <1>1, <2>1, <2>2, OpeningKept
<1>7. ThreadAt(p)'
  <2>1. \A d \in Conn : h[d][p].ep # "none" => h'[d][p].ep # "none"
    BY <1>2
  <2>2. main[p].todo \subseteq Conn
    BY <1>1, Parts
  <2>3. \A d \in main'[p].todo : h'[d][p].ep # "none"
    BY <1>1, <2>1, <2>2 DEF ThreadAt
  <2>4. Leaving(main'[p]) => h'[main'[p].c][p].ep # "none"
    BY <2>1
  <2>5. (~Running(p)' => Closing(main'[p])) /\ (Closing(main'[p]) => ~Running(p)')
    BY <1>1, <1>3 DEF ThreadAt
  <2>6. main'[p].todo # {} => Closing(main'[p])
    BY <1>1 DEF ThreadAt
  <2>7. IoAt(p, "handshake")' => Callee(io[p].c)' = p
    BY <1>1, <1>3 DEF ThreadAt
  <2> QED BY <2>3, <2>4, <2>5, <2>6, <2>7 DEF ThreadAt
<1>8. /\ \A d \in Conn : d # c => oob'[d] = oob[d] /\ SameRoles(d, p)
      /\ \A x \in Proc : x # p => main'[x] = main[x] /\ io'[x] = io[x]
      /\ oob' \in [Conn -> {"none", "called", "answered", "failed"}] /\ io' \in [Proc -> IoState]
  BY <1>1, OwnTypes
<1> QED BY <1>3, <1>5, <1>6, <1>7, <1>8, OwnKeeps

(* What a probe does to the handle.                                        *)
SameKeep(r, e) ==
    /\ r.ep = e.ep /\ (r.reg <=> e.reg) /\ (r.to_manage <=> e.to_manage)
    /\ r.test_probe = e.test_probe /\ (r.closed_wr <=> e.closed_wr) /\ (r.lost <=> e.lost)

LEMMA ProbedSet ==
  ASSUME TypeOK, NEW c \in Conn, NEW p \in Proc, StreamAt(c, p), HeaderThere(c, p)
  PROVE  \E g \in HandleUCX :
           /\ Probed(c, p) = [h EXCEPT ![c][p] = g] /\ SameKeep(g, h[c][p])
           /\ g.request = "none" /\ g.last_probe = Header(c, p) /\ g.probed = h[c][p].probed
           /\ (g.closed_rd <=> h[c][p].closed_rd)
<1>1. /\ Header(c, p) \in {"hdr", "eos"} /\ Probed(c, p)[c][p].request = "none"
  BY HeaderRead
<1>2. h[c][p] \in HandleUCX /\ h \in [Conn -> [Proc -> HandleUCX]]
  BY Parts, OwnTypes
<1>3. PICK a, b : a = (IF h[c][p].last_probe # "none" THEN h[c][p].request ELSE "none")
                  /\ b = Header(c, p)
  OBVIOUS
<1>4. Probed(c, p) = [h EXCEPT ![c][p].request = a, ![c][p].last_probe = b]
  BY <1>2, <1>3 DEF Probed
<1>5. PICK g : g = [h[c][p] EXCEPT !.request = a, !.last_probe = b]
  OBVIOUS
<1>6. Probed(c, p) = [h EXCEPT ![c][p] = g]
  BY <1>2, <1>4, <1>5, ZenonT(60)
<1>7. a = "none"
  BY <1>1, <1>2, <1>4 DEF HandleUCX
<1>8. /\ g \in HandleUCX /\ g.request = "none" /\ g.last_probe = Header(c, p)
      /\ g.probed = h[c][p].probed /\ (g.closed_rd <=> h[c][p].closed_rd)
      /\ SameKeep(g, h[c][p])
  BY <1>1, <1>2, <1>3, <1>5, <1>7, ZenonT(60) DEF HandleUCX, Frame, SameKeep
<1> QED BY <1>6, <1>8

(* A handle that the program has, on an idle thread.                       *)
LEMMA HeldIs ==
  ASSUME Inv, NEW p \in Proc, NEW c \in Conn, Idle(p), user[p][c] = "held"
  PROVE  /\ TypeOK /\ ThreadAt(p) /\ Running(p) /\ main[p].pc = "idle" /\ main[p].todo = {}
         /\ queue[p][c] = 0 /\ ~h[c][p].to_manage /\ ~Greeting(c, p)
         /\ h[c][p].ep # "none" /\ ~h[c][p].closed_rd /\ h[c][p].ep = "open"
         /\ EndAt(c, p) /\ StreamAt(c, p)
         /\ \A d \in Conn : ~Dialling(d, p) /\ ~Inserting(d, p) /\ ~Moving(d, p)
<1>1. /\ TypeOK /\ ThreadAt(p) /\ Running(p) /\ main[p].pc = "idle" /\ main[p].todo = {}
      /\ \A d \in Conn : ~Dialling(d, p) /\ ~Inserting(d, p) /\ ~Moving(d, p)
  BY IdleIs
<1>2. EndAt(c, p) /\ StreamAt(c, p)
  BY DEF Inv, Ends, Streams
<1>3. /\ queue[p][c] = 0 /\ ~h[c][p].to_manage /\ ~Greeting(c, p)
      /\ h[c][p].ep # "none" /\ ~h[c][p].closed_rd
  BY <1>1, Exclusive
<1>4. h[c][p].ep = "open"
  BY <1>1, <1>2, <1>3, Parts DEF EndAt
<1> QED BY <1>1, <1>2, <1>3, <1>4

(* HandleUser::probe with nothing to read.                                 *)
LEMMA ProbeNothingKeeps ==
  ASSUME Inv, NEW p \in Proc, NEW c \in Conn, ProbeNothing(p, c)
  PROVE  Inv'
<1>1. /\ Idle(p) /\ user[p][c] = "held" /\ ~HeaderThere(c, p)
      /\ h' = [h EXCEPT ![c][p].request = "posted"]
      /\ UNCHANGED <<rx, ready, oob, queue, user, main, io, sent>>
  BY DEF ProbeNothing, MayRead, Post
<1>2. /\ TypeOK /\ ThreadAt(p) /\ Running(p) /\ main[p].pc = "idle" /\ main[p].todo = {}
      /\ queue[p][c] = 0 /\ ~h[c][p].to_manage /\ ~Greeting(c, p)
      /\ h[c][p].ep # "none" /\ ~h[c][p].closed_rd /\ h[c][p].ep = "open"
      /\ EndAt(c, p) /\ StreamAt(c, p)
      /\ \A d \in Conn : ~Dialling(d, p) /\ ~Inserting(d, p) /\ ~Moving(d, p)
  BY <1>1, HeldIs
<1>3. PICK r : r = [h[c][p] EXCEPT !.request = "posted"]
  OBVIOUS
<1>4. /\ r \in HandleUCX /\ SameKeep(r, h[c][p]) /\ r.request = "posted"
      /\ r.last_probe = h[c][p].last_probe /\ r.probed = h[c][p].probed
      /\ (r.closed_rd <=> h[c][p].closed_rd)
  <2>1. h[c][p] \in HandleUCX
    BY <1>2, Parts
  <2> QED BY <1>3, <2>1 DEF HandleUCX, SameKeep
<1>5. PICK t \in Seq(Frame) : t = rx[c][p]
  BY <1>2, Parts
<1>6. h' = [h EXCEPT ![c][p] = r] /\ rx' = [rx EXCEPT ![c][p] = t]
  BY <1>1, <1>2, <1>3, <1>5 DEF TypeOK
<1>7. StreamOf(r, t, Whole(h[c][Other(p)]))
  <2>1. h[c][p].last_probe = "none" /\ h[c][p].request # "done" /\ rx[c][p] = <<>>
    BY <1>1, <1>2, NoHeader
  <2>2. StreamOf(h[c][p], t, Whole(h[c][Other(p)]))
    BY <1>2, <1>5 DEF StreamAt
  <2>3. r.test_probe = h[c][p].test_probe
    BY <1>4 DEF SameKeep
  <2> QED BY <1>4, <1>5, <2>1, <2>2, <2>3 DEF StreamOf
<1>8. \A d \in Conn : SameRoles(d, p) /\ ~Moving(d, p)' /\ ~Greeting(c, p)'
  BY <1>1, <1>2 DEF SameRoles, Dialling, Inserting, Moving, Greeting, At, IoAt
<1>9. Owners(c, p)' = One(~r.closed_rd)
  <2>1. ~h'[c][p].to_manage /\ queue'[p][c] = 0 /\ user'[p][c] = "held" /\ ~r.closed_rd
    BY <1>1, <1>2, <1>4, <1>6 DEF SameKeep, TypeOK
  <2> QED BY <1>8, <2>1, OwnersThen DEF One
<1>10. /\ ready' \in [Proc -> SUBSET Conn] /\ queue' \in [Proc -> [Conn -> Count]]
       /\ user' \in [Proc -> [Conn -> Has]] /\ main' \in [Proc -> Thread]
  BY <1>1, <1>2, OwnTypes
<1>11. ~Leaving(main'[p]) /\ (Closing(main'[p]) <=> Closing(main[p]))
  BY <1>1, <1>2 DEF Leaving, Closing
<1>12. /\ r.ep = "open" /\ (r.closed_wr <=> h[c][p].closed_wr) /\ (r.lost <=> h[c][p].lost)
  BY <1>2, <1>4 DEF SameKeep
<1> QED BY <1>1, <1>2, <1>4, <1>6, <1>7, <1>8, <1>9, <1>10, <1>11, <1>12, UseKeeps DEF At

(* HandleUser::receive.                                                    *)
LEMMA ReceiveKeeps ==
  ASSUME Inv, NEW p \in Proc, NEW c \in Conn, Receive(p, c)
  PROVE  Inv'
<1>1. /\ Idle(p) /\ user[p][c] = "held" /\ h[c][p].probed = "hdr" /\ rx[c][p] # <<>>
      /\ h' = [h EXCEPT ![c][p].probed = "none", ![c][p].last_probe = "none"]
      /\ Drained(c, p, Tail(rx[c][p])) /\ UNCHANGED <<oob, queue, user, main, io, sent>>
  BY DEF Receive, MayRead, Received
<1>2. /\ TypeOK /\ ThreadAt(p) /\ Running(p) /\ main[p].pc = "idle" /\ main[p].todo = {}
      /\ queue[p][c] = 0 /\ ~h[c][p].to_manage /\ ~Greeting(c, p)
      /\ h[c][p].ep # "none" /\ ~h[c][p].closed_rd /\ h[c][p].ep = "open"
      /\ EndAt(c, p) /\ StreamAt(c, p)
      /\ \A d \in Conn : ~Dialling(d, p) /\ ~Inserting(d, p) /\ ~Moving(d, p)
  BY <1>1, HeldIs
<1>3. PICK r : r = [h[c][p] EXCEPT !.probed = "none", !.last_probe = "none"]
  OBVIOUS
<1>4. /\ r \in HandleUCX /\ SameKeep(r, h[c][p]) /\ r.request = h[c][p].request
      /\ r.last_probe = "none" /\ r.probed = "none" /\ (r.closed_rd <=> h[c][p].closed_rd)
  <2>1. h[c][p] \in HandleUCX
    BY <1>2, Parts
  <2> QED BY <1>3, <2>1 DEF HandleUCX, SameKeep
<1>5. PICK e, s, t : e = h[c][p] /\ s = rx[c][p] /\ t = Tail(s)
  OBVIOUS
<1>6. t \in Seq(Frame) /\ StreamOf(r, t, Whole(h[c][Other(p)]))
  <2>1. s \in Seq(Frame) /\ StreamOf(e, s, Whole(h[c][Other(p)]))
    BY <1>2, <1>5, Parts DEF StreamAt
  <2>2. e.last_probe = "hdr"
    BY <1>1, <1>5, <2>1 DEF StreamOf
  <2>3. r.request = e.request /\ r.test_probe = e.test_probe
    BY <1>4, <1>5 DEF SameKeep
  <2> QED BY <1>4, <1>5, <2>1, <2>2, <2>3, BodyStream
<1>7. h' = [h EXCEPT ![c][p] = r] /\ rx' = [rx EXCEPT ![c][p] = t]
  BY <1>1, <1>2, <1>3, <1>5, ZenonT(60) DEF TypeOK, Drained
<1>8. \A d \in Conn : SameRoles(d, p) /\ ~Moving(d, p)' /\ ~Greeting(c, p)'
  BY <1>1, <1>2 DEF SameRoles, Dialling, Inserting, Moving, Greeting, At, IoAt
<1>9. Owners(c, p)' = One(~r.closed_rd)
  <2>1. ~h'[c][p].to_manage /\ queue'[p][c] = 0 /\ user'[p][c] = "held" /\ ~r.closed_rd
    BY <1>1, <1>2, <1>4, <1>7 DEF SameKeep, TypeOK
  <2> QED BY <1>8, <2>1, OwnersThen DEF One
<1>10. /\ ready' \in [Proc -> SUBSET Conn] /\ queue' \in [Proc -> [Conn -> Count]]
       /\ user' \in [Proc -> [Conn -> Has]] /\ main' \in [Proc -> Thread]
  BY <1>1, <1>2, <1>5, <1>6, OwnTypes, DrainedSet
<1>11. ~Leaving(main'[p]) /\ (Closing(main'[p]) <=> Closing(main[p]))
  BY <1>1, <1>2 DEF Leaving, Closing
<1>12. /\ r.ep = "open" /\ (r.closed_wr <=> h[c][p].closed_wr) /\ (r.lost <=> h[c][p].lost)
  BY <1>2, <1>4 DEF SameKeep
<1> QED BY <1>1, <1>2, <1>4, <1>6, <1>7, <1>8, <1>9, <1>10, <1>11, <1>12, UseKeeps DEF At

(* HandleUser::probe that returns a header.                                *)
LEMMA ProbeKeeps ==
  ASSUME Inv, NEW p \in Proc, NEW c \in Conn, Probe(p, c)
  PROVE  Inv'
<1>1. PICK eos : eos = (Header(c, p) = "eos")
  OBVIOUS
<1>2. /\ Idle(p) /\ user[p][c] = "held" /\ HeaderThere(c, p)
      /\ Drained(c, p, AfterHeader(c, p)) /\ UNCHANGED <<oob, queue, io, sent>>
      /\ IF eos THEN user' = [user EXCEPT ![p][c] = "given"] /\ Call(p, "notify", c, "idle")
                ELSE UNCHANGED <<user, main>>
  BY <1>1 DEF Probe, MayRead
<1>3. /\ TypeOK /\ ThreadAt(p) /\ Running(p) /\ main[p].pc = "idle" /\ main[p].todo = {}
      /\ queue[p][c] = 0 /\ ~h[c][p].to_manage /\ ~Greeting(c, p)
      /\ h[c][p].ep # "none" /\ ~h[c][p].closed_rd /\ h[c][p].ep = "open"
      /\ EndAt(c, p) /\ StreamAt(c, p)
      /\ \A d \in Conn : ~Dialling(d, p) /\ ~Inserting(d, p) /\ ~Moving(d, p)
  BY <1>2, HeldIs
<1>4. PICK t, f : t = AfterHeader(c, p) /\ f = Header(c, p)
  OBVIOUS
<1>5. /\ f \in {"hdr", "eos"} /\ t \in Seq(Frame) /\ Leaves(f, t, Whole(h[c][Other(p)]))
      /\ h[c][p].test_probe \in {"hdr", "eos"}
  BY <1>2, <1>3, <1>4, HeaderRead
<1>6. PICK g \in HandleUCX :
        /\ Probed(c, p) = [h EXCEPT ![c][p] = g] /\ SameKeep(g, h[c][p])
        /\ g.request = "none" /\ g.last_probe = f
  BY <1>2, <1>3, <1>4, ProbedSet
<1>7. PICK r : r = [g EXCEPT !.probed = f, !.closed_rd = eos]
  OBVIOUS
<1>8. /\ r \in HandleUCX /\ SameKeep(r, h[c][p]) /\ r.request = "none" /\ r.last_probe = f
      /\ r.probed = f /\ (r.closed_rd <=> f = "eos")
  BY <1>1, <1>4, <1>5, <1>6, <1>7 DEF HandleUCX, Frame, SameKeep
<1>9. h' = [h EXCEPT ![c][p] = r] /\ rx' = [rx EXCEPT ![c][p] = t]
  <2>1. h' = [Probed(c, p) EXCEPT ![c][p].probed = f, ![c][p].closed_rd = eos]
    BY <1>1, <1>4 DEF Probe
  <2>2. h \in [Conn -> [Proc -> HandleUCX]]
    BY <1>3, OwnTypes
  <2> QED BY <1>2, <1>4, <1>6, <1>7, <2>1, <2>2 DEF Drained
<1>10. StreamOf(r, t, Whole(h[c][Other(p)]))
  <2>1. r.test_probe \in {"hdr", "eos"}
    BY <1>5, <1>8 DEF SameKeep
  <2> QED BY <1>5, <1>8, <2>1, ReadStream
<1>11. /\ user' \in [Proc -> [Conn -> Has]] /\ main' \in [Proc -> Thread]
       /\ user'[p][c] = (IF f = "eos" THEN "given" ELSE "held")
       /\ \A d \in Conn, x \in Proc : d # c \/ x # p => user'[x][d] = user[x][d]
       /\ main'[p].pc \in {"idle", "notify"} /\ main'[p].todo = {}
       /\ main'[p].pc = "notify" => main'[p].then = "idle"
       /\ \A x \in Proc : x # p => main'[x] = main[x]
  <2>1. user \in [Proc -> [Conn -> Has]] /\ main \in [Proc -> Thread] /\ "given" \in Has
    BY <1>3, OwnTypes DEF Has
  <2>2. CASE f = "eos"
    <3>1. user' = [user EXCEPT ![p][c] = "given"] /\ Call(p, "notify", c, "idle")
      BY <1>1, <1>2, <1>4, <2>2
    <3> QED BY <1>3, <2>1, <2>2, <3>1, CallSet DEF PC
  <2>3. CASE f # "eos"
    BY <1>1, <1>2, <1>3, <1>4, <2>1, <2>3
  <2> QED BY <2>2, <2>3
<1>12. \A d \in Conn : SameRoles(d, p) /\ ~Moving(d, p)' /\ ~Greeting(c, p)'
  BY <1>2, <1>3, <1>11 DEF SameRoles, Dialling, Inserting, Moving, Greeting, At, IoAt
<1>13. Owners(c, p)' = One(~r.closed_rd)
  <2>1. /\ ~h'[c][p].to_manage /\ queue'[p][c] = 0 /\ (user'[p][c] = "held" <=> ~r.closed_rd)
    BY <1>2, <1>3, <1>8, <1>9, <1>11 DEF SameKeep, TypeOK
  <2> QED BY <1>12, <2>1, OwnersThen DEF One
<1>14. ready' \in [Proc -> SUBSET Conn] /\ queue' \in [Proc -> [Conn -> Count]]
  BY <1>2, <1>3, <1>4, <1>5, OwnTypes, DrainedSet
<1>15. ~Leaving(main'[p]) /\ (Closing(main'[p]) <=> Closing(main[p]))
  BY <1>3, <1>11 DEF Leaving, Closing
<1>16. /\ r.ep = "open" /\ (r.closed_wr <=> h[c][p].closed_wr) /\ (r.lost <=> h[c][p].lost)
       /\ \A d \in Conn, x \in Proc : d # c \/ x # p => queue'[x][d] = queue[x][d]
  BY <1>2, <1>3, <1>8 DEF SameKeep
<1>17. UNCHANGED <<oob, io, sent>> /\ ~At(p, "join") /\ main'[p].todo = main[p].todo
       /\ main'[p].pc \notin {"dial", "insert", "join"} /\ h[c][p].ep # "none" /\ ~Greeting(c, p)
       /\ ~h[c][p].closed_rd
  BY <1>2, <1>3, <1>11 DEF At
<1>18. /\ h[c][p].ep = "closed" => r.ep = "closed"
       /\ Running(p) /\ r.closed_rd => r.last_probe = "eos"
       /\ r.ep # "none" /\ (r.ep = "closed" => r.closed_rd)
  BY <1>3, <1>8, <1>16
<1> QED BY <1>5, <1>8, <1>9, <1>10, <1>11, <1>12, <1>13, <1>14, <1>15, <1>16, <1>17, <1>18,
     UseKeeps, ZenonT(60)

(* HandleUser::yield.                                                      *)
LEMMA YieldKeeps ==
  ASSUME Inv, NEW p \in Proc, NEW c \in Conn, Yield(p, c)
  PROVE  Inv'
<1>1. /\ Idle(p) /\ user[p][c] = "held" /\ user' = [user EXCEPT ![p][c] = "given"]
      /\ UNCHANGED <<oob, io, sent>>
      /\ \/ /\ HeaderThere(c, p) /\ h' = Probed(c, p) /\ Drained(c, p, AfterHeader(c, p))
            /\ queue' = [queue EXCEPT ![p][c] = @ + 1] /\ UNCHANGED main
         \/ /\ ~HeaderThere(c, p) /\ h' = [h EXCEPT ![c][p].request = "posted"]
            /\ Call(p, "mark", c, "idle") /\ UNCHANGED <<rx, ready, queue>>
  BY DEF Yield, MayRead, Post
<1>2. /\ TypeOK /\ ThreadAt(p) /\ Running(p) /\ main[p].pc = "idle" /\ main[p].todo = {}
      /\ queue[p][c] = 0 /\ ~h[c][p].to_manage /\ ~Greeting(c, p)
      /\ h[c][p].ep # "none" /\ ~h[c][p].closed_rd /\ h[c][p].ep = "open"
      /\ EndAt(c, p) /\ StreamAt(c, p)
      /\ \A d \in Conn : ~Dialling(d, p) /\ ~Inserting(d, p) /\ ~Moving(d, p)
  BY <1>1, HeldIs
<1>3. /\ user' \in [Proc -> [Conn -> Has]] /\ user'[p][c] = "given"
      /\ \A d \in Conn, x \in Proc : d # c \/ x # p => user'[x][d] = user[x][d]
  <2>1. user \in [Proc -> [Conn -> Has]] /\ "given" \in Has
    BY <1>2, OwnTypes DEF Has
  <2> QED BY <1>1, <2>1
<1>4. UNCHANGED <<oob, io, sent>> /\ ~At(p, "join") /\ h[c][p].ep # "none" /\ ~Greeting(c, p)
      /\ ~h[c][p].closed_rd
  BY <1>1, <1>2 DEF At
<1>5. CASE HeaderThere(c, p) /\ h' = Probed(c, p) /\ Drained(c, p, AfterHeader(c, p))
           /\ queue' = [queue EXCEPT ![p][c] = @ + 1] /\ UNCHANGED main
  <2>1. PICK t, f : t = AfterHeader(c, p) /\ f = Header(c, p)
    OBVIOUS
  <2>2. /\ f \in {"hdr", "eos"} /\ t \in Seq(Frame) /\ Leaves(f, t, Whole(h[c][Other(p)]))
        /\ h[c][p].test_probe \in {"hdr", "eos"}
    BY <1>2, <1>5, <2>1, HeaderRead
  <2>3. PICK r \in HandleUCX :
          /\ h' = [h EXCEPT ![c][p] = r] /\ SameKeep(r, h[c][p])
          /\ r.request = "none" /\ r.last_probe = f /\ r.probed = h[c][p].probed
          /\ (r.closed_rd <=> h[c][p].closed_rd)
    BY <1>2, <1>5, <2>1, ProbedSet
  <2>4. rx' = [rx EXCEPT ![c][p] = t]
    BY <1>5, <2>1 DEF Drained
  <2>5. StreamOf(r, t, Whole(h[c][Other(p)]))
    <3>1. r.test_probe \in {"hdr", "eos"}
      BY <2>2, <2>3 DEF SameKeep
    <3>2. h[c][p].probed \in {"none", f}
      <4>1. StreamOf(h[c][p], rx[c][p], Whole(h[c][Other(p)]))
        BY <1>2 DEF StreamAt
      <4>2. h[c][p].probed # "none" => h[c][p].probed = f
        BY <2>1, <4>1 DEF StreamOf, Header
      <4> QED BY <4>2
    <3> QED BY <2>2, <2>3, <3>1, <3>2, ReadStream
  <2>6. /\ queue' \in [Proc -> [Conn -> Count]] /\ queue'[p][c] = 1
        /\ \A d \in Conn, x \in Proc : d # c \/ x # p => queue'[x][d] = queue[x][d]
    <3>1. queue \in [Proc -> [Conn -> Count]]
      BY <1>2, OwnTypes
    <3>2. queue' = [queue EXCEPT ![p][c] = 1]
      BY <1>2, <1>5, <3>1
    <3> QED BY <3>1, <3>2 DEF Count
  <2>7. \A d \in Conn : SameRoles(d, p) /\ ~Moving(d, p)' /\ ~Greeting(c, p)'
    BY <1>1, <1>2, <1>5 DEF SameRoles, Dialling, Inserting, Moving, Greeting, At, IoAt
  <2>8. Owners(c, p)' = One(~r.closed_rd)
    <3>1. ~h'[c][p].to_manage /\ user'[p][c] # "held" /\ ~r.closed_rd
      BY <1>2, <1>3, <2>3 DEF SameKeep, TypeOK
    <3> QED BY <2>6, <2>7, <3>1, OwnersThen DEF One
  <2>9. ready' \in [Proc -> SUBSET Conn]
    BY <1>2, <1>5, <2>1, <2>2, DrainedSet
  <2>10. ~Leaving(main'[p]) /\ (Closing(main'[p]) <=> Closing(main[p]))
    BY <1>2, <1>5 DEF Leaving, Closing
  <2>11. r.ep = "open" /\ (r.closed_wr <=> h[c][p].closed_wr) /\ (r.lost <=> h[c][p].lost)
    BY <1>2, <2>3 DEF SameKeep
  <2>12. /\ main' \in [Proc -> Thread] /\ \A x \in Proc : x # p => main'[x] = main[x]
         /\ main'[p].pc \notin {"dial", "insert", "join"} /\ main'[p].todo = main[p].todo
    BY <1>2, <1>5, OwnTypes
  <2>13. /\ h[c][p].ep = "closed" => r.ep = "closed"
         /\ Running(p) /\ r.closed_rd => r.last_probe = "eos"
         /\ r.ep # "none" /\ (r.ep = "closed" => r.closed_rd)
    BY <1>2, <2>3, <2>11
  <2> QED BY <1>3, <1>4, <2>2, <2>3, <2>4, <2>5, <2>6, <2>7, <2>8, <2>9, <2>10, <2>11, <2>12,
     <2>13, UseKeeps, ZenonT(60)
<1>6. CASE ~HeaderThere(c, p) /\ h' = [h EXCEPT ![c][p].request = "posted"]
           /\ Call(p, "mark", c, "idle") /\ UNCHANGED <<rx, ready, queue>>
  <2>1. PICK r : r = [h[c][p] EXCEPT !.request = "posted"]
    OBVIOUS
  <2>2. /\ r \in HandleUCX /\ SameKeep(r, h[c][p]) /\ r.request = "posted"
        /\ r.last_probe = h[c][p].last_probe /\ r.probed = h[c][p].probed
        /\ (r.closed_rd <=> h[c][p].closed_rd)
    <3>1. h[c][p] \in HandleUCX
      BY <1>2, Parts
    <3> QED BY <2>1, <3>1 DEF HandleUCX, SameKeep
  <2>3. PICK t \in Seq(Frame) : t = rx[c][p]
    BY <1>2, Parts
  <2>4. h' = [h EXCEPT ![c][p] = r] /\ rx' = [rx EXCEPT ![c][p] = t]
    BY <1>2, <1>6, <2>1, <2>3 DEF TypeOK
  <2>5. StreamOf(r, t, Whole(h[c][Other(p)]))
    <3>1. h[c][p].last_probe = "none" /\ h[c][p].request # "done" /\ rx[c][p] = <<>>
      BY <1>2, <1>6, NoHeader
    <3>2. StreamOf(h[c][p], t, Whole(h[c][Other(p)]))
      BY <1>2, <2>3 DEF StreamAt
    <3>3. r.test_probe = h[c][p].test_probe
      BY <2>2 DEF SameKeep
    <3> QED BY <2>2, <2>3, <3>1, <3>2, <3>3 DEF StreamOf
  <2>6. /\ main' \in [Proc -> Thread] /\ main'[p].pc = "mark" /\ main'[p].then = "idle"
        /\ main'[p].c = c /\ main'[p].todo = main[p].todo
        /\ \A x \in Proc : x # p => main'[x] = main[x]
    BY <1>2, <1>6, CallSet DEF PC
  <2>7. /\ \A d \in Conn : d # c => SameRoles(d, p)
        /\ Moving(c, p)' /\ ~Greeting(c, p)'
    BY <1>1, <1>2, <2>6 DEF SameRoles, Dialling, Inserting, Moving, Greeting, At, IoAt
  <2>8. Owners(c, p)' = One(~r.closed_rd)
    <3>1. ~h'[c][p].to_manage /\ user'[p][c] # "held" /\ queue'[p][c] = 0 /\ ~r.closed_rd
      BY <1>2, <1>3, <1>6, <2>2, <2>4 DEF SameKeep, TypeOK
    <3> QED BY <2>7, <3>1, OwnersThen DEF One
  <2>9. ~Leaving(main'[p]) /\ (Closing(main'[p]) <=> Closing(main[p]))
    BY <1>2, <2>6 DEF Leaving, Closing
  <2>10. r.ep = "open" /\ (r.closed_wr <=> h[c][p].closed_wr) /\ (r.lost <=> h[c][p].lost)
    BY <1>2, <2>2 DEF SameKeep
  <2>11. /\ ready' \in [Proc -> SUBSET Conn] /\ queue' \in [Proc -> [Conn -> Count]]
         /\ queue' = queue
    BY <1>2, <1>6, OwnTypes
  <2>12. /\ h[c][p].ep = "closed" => r.ep = "closed"
         /\ Running(p) /\ r.closed_rd => r.last_probe = "eos"
         /\ r.ep # "none" /\ (r.ep = "closed" => r.closed_rd)
    BY <1>2, <2>2, <2>10
  <2> QED BY <1>3, <1>4, <2>2, <2>4, <2>5, <2>6, <2>7, <2>8, <2>9, <2>10, <2>11, <2>12,
     UseKeeps, ZenonT(60)
<1> QED BY <1>1, <1>5, <1>6

(* Its second step, when there was nothing to read.                        *)
LEMMA MarkManagedKeeps ==
  ASSUME Inv, NEW p \in Proc, MarkManaged(p)
  PROVE  Inv'
<1>1. /\ TypeOK /\ ThreadAt(p) /\ main[p].pc = "mark" /\ Goto(p, "idle")
      /\ UNCHANGED <<rx, ready, oob, queue, user, io, sent>>
  BY DEF Inv, Threads, MarkManaged, At
<1>2. PICK c \in Conn : c = main[p].c
  BY <1>1, Parts
<1>3. h' = [h EXCEPT ![c][p].to_manage = TRUE]
  BY <1>2 DEF MarkManaged
<1>4. Moving(c, p) /\ Running(p)
  BY <1>1, <1>2 DEF Moving, ThreadAt, At, Closing
<1>5. /\ user[p][c] # "held" /\ queue[p][c] = 0 /\ ~Greeting(c, p)
      /\ h[c][p].ep # "none" /\ ~h[c][p].closed_rd
  BY <1>4, Exclusive
<1>6. EndAt(c, p) /\ StreamAt(c, p)
  BY DEF Inv, Ends, Streams
<1>7. PICK r : r = [h[c][p] EXCEPT !.to_manage = TRUE]
  OBVIOUS
<1>8. /\ r \in HandleUCX /\ SameReader(r, h[c][p]) /\ r.to_manage /\ r.ep = h[c][p].ep
      /\ (r.closed_rd <=> h[c][p].closed_rd) /\ (r.closed_wr <=> h[c][p].closed_wr)
      /\ (r.lost <=> h[c][p].lost)
  <2>1. h[c][p] \in HandleUCX
    BY <1>1, Parts
  <2> QED BY <1>7, <2>1 DEF HandleUCX, SameReader
<1>9. PICK t \in Seq(Frame) : t = rx[c][p]
  BY <1>1, Parts
<1>10. h' = [h EXCEPT ![c][p] = r] /\ rx' = [rx EXCEPT ![c][p] = t]
  BY <1>1, <1>3, <1>7, <1>9 DEF TypeOK
<1>11. StreamOf(r, t, Whole(h[c][Other(p)]))
  BY <1>6, <1>8, <1>9, SameStream DEF StreamAt
<1>12. /\ main' \in [Proc -> Thread] /\ main'[p].pc = "idle" /\ main'[p].todo = main[p].todo
       /\ \A x \in Proc : x # p => main'[x] = main[x]
  BY <1>1, GotoSet DEF PC
<1>13. /\ \A d \in Conn : d # c => SameRoles(d, p)
       /\ ~Moving(c, p)' /\ ~Greeting(c, p)'
  BY <1>1, <1>2, <1>5, <1>12 DEF SameRoles, Dialling, Inserting, Moving, Greeting, At, IoAt
<1>14. Owners(c, p)' = One(~r.closed_rd)
  <2>1. h'[c][p].to_manage /\ user'[p][c] # "held" /\ queue'[p][c] = 0 /\ ~r.closed_rd
    BY <1>1, <1>5, <1>8, <1>10 DEF TypeOK
  <2> QED BY <1>13, <2>1, OwnersThen DEF One
<1>15. ~Leaving(main'[p]) /\ (Closing(main'[p]) <=> Closing(main[p])) /\ ~At(p, "join")
  BY <1>1, <1>12 DEF Leaving, Closing, At
<1>16. /\ ready' \in [Proc -> SUBSET Conn] /\ queue' \in [Proc -> [Conn -> Count]]
       /\ user' \in [Proc -> [Conn -> Has]] /\ user' = user /\ queue' = queue
       /\ UNCHANGED <<oob, io, sent>>
  BY <1>1, OwnTypes
<1>17. r.ep = "closed" => r.closed_rd
  BY <1>6, <1>8 DEF EndAt
<1> QED BY <1>5, <1>8, <1>10, <1>11, <1>12, <1>13, <1>14, <1>15, <1>16, <1>17, UseKeeps

(* notify_close.                                                           *)
LEMMA NotifyCloseKeeps ==
  ASSUME Inv, NEW p \in Proc, NotifyClose(p)
  PROVE  Inv'
<1>1. /\ TypeOK /\ ThreadAt(p) /\ main[p].pc = "notify" /\ LockFree(p)
      /\ UNCHANGED <<rx, oob, queue, user, io, sent>>
  BY DEF Inv, Threads, NotifyClose, At
<1>2. PICK c \in Conn, k \in {"idle", "drain", "end"} : c = main[p].c /\ k = main[p].then
  BY <1>1, Parts
<1>3. /\ h' = IF ClosesEndpoint(c, p)
              THEN [h EXCEPT ![c][p].reg = FALSE, ![c][p].to_manage = FALSE,
                             ![c][p].ep = "closed"]
              ELSE h
      /\ ready' = IF ClosesEndpoint(c, p) THEN [ready EXCEPT ![p] = @ \ {c}] ELSE ready
      /\ Goto(p, k)
  BY <1>2 DEF NotifyClose
<1>4. /\ main' \in [Proc -> Thread] /\ main'[p].pc = k /\ main'[p].todo = main[p].todo
      /\ main'[p].c = c /\ \A x \in Proc : x # p => main'[x] = main[x]
  BY <1>1, <1>2, <1>3, GotoSet DEF PC
<1>5. \A d \in Conn : SameRoles(d, p) /\ ~Moving(d, p)' /\ ~Greeting(d, p) /\ ~Greeting(d, p)'
  BY <1>1, <1>2, <1>4 DEF SameRoles, Dialling, Inserting, Moving, Greeting, At, IoAt, LockFree
<1>6. (Closing(main'[p]) <=> Closing(main[p])) /\ (Leaving(main'[p]) => Leaving(main[p]))
  BY <1>1, <1>2, <1>4 DEF Closing, Leaving
<1>7. /\ UNCHANGED <<oob, io, sent>> /\ ~At(p, "join")
      /\ main'[p].pc \notin {"dial", "insert", "join"} /\ (Running(p)' <=> Running(p))
      /\ queue' \in [Proc -> [Conn -> Count]] /\ user' \in [Proc -> [Conn -> Has]]
      /\ queue' = queue /\ user' = user
  BY <1>1, <1>2, <1>4, OwnTypes DEF At, Running
<1>8. CASE ~ClosesEndpoint(c, p)
  <2>1. UNCHANGED <<h, ready>>
    BY <1>3, <1>8
  <2>2. TypeOK'
    BY <1>1, <1>4, <2>1, OwnTypes, Typed
  <2>3. ThreadAt(p)'
    <3>1. Callee(io[p].c)' = Callee(io[p].c) /\ (IoAt(p, "handshake")' <=> IoAt(p, "handshake"))
      BY <1>1 DEF Callee, Other, IoAt
    <3>2. \A d \in main'[p].todo : h'[d][p].ep # "none"
      BY <1>1, <1>4, <2>1 DEF ThreadAt
    <3>3. Leaving(main'[p]) => h'[main'[p].c][p].ep # "none"
      BY <1>1, <1>2, <1>4, <1>6, <2>1 DEF ThreadAt
    <3>4. /\ Closing(main'[p]) => ~Running(p)' 
          /\ ~Running(p)' => Closing(main'[p])
          /\ main'[p].todo # {} => Closing(main'[p])
      BY <1>1, <1>4, <1>6, <1>7 DEF ThreadAt, At
    <3>5. IoAt(p, "handshake")' => Callee(io[p].c)' = p
      BY <1>1, <3>1 DEF ThreadAt
    <3> QED BY <1>7, <3>2, <3>3, <3>4, <3>5 DEF ThreadAt
  <2>4. \A x \in Proc : x # p => main'[x] = main[x] /\ io'[x] = io[x]
    BY <1>1, <1>4
  <2>5. UNCHANGED <<h, rx, oob, queue, user>>
    BY <1>1, <2>1
  <2> QED BY <1>5, <1>7, <2>2, <2>3, <2>4, <2>5, QuietKeeps
<1>9. CASE ClosesEndpoint(c, p)
  <2>1. h[c][p].reg /\ h[c][p].closed_rd /\ EndAt(c, p) /\ StreamAt(c, p)
    BY <1>9 DEF ClosesEndpoint, Inv, Ends, Streams
  <2>2. h[c][p].ep # "none"
    BY <2>1 DEF EndAt
  <2>3. PICK r : r = [h[c][p] EXCEPT !.reg = FALSE, !.to_manage = FALSE, !.ep = "closed"]
    OBVIOUS
  <2>4. /\ r \in HandleUCX /\ SameReader(r, h[c][p]) /\ ~r.to_manage /\ r.ep = "closed"
        /\ r.closed_rd /\ (r.closed_wr <=> h[c][p].closed_wr) /\ (r.lost <=> h[c][p].lost)
    <3>1. h[c][p] \in HandleUCX
      BY <1>1, Parts
    <3> QED BY <2>1, <2>3, <3>1 DEF HandleUCX, SameReader
  <2>5. PICK t \in Seq(Frame) : t = rx[c][p]
    BY <1>1, Parts
  <2>6. h' = [h EXCEPT ![c][p] = r] /\ rx' = [rx EXCEPT ![c][p] = t]
    BY <1>1, <1>3, <1>9, <2>3, <2>5, ZenonT(60) DEF TypeOK
  <2>7. StreamOf(r, t, Whole(h[c][Other(p)]))
    BY <2>1, <2>4, <2>5 DEF StreamAt, StreamOf, SameReader
  <2>8. Running(p) => Owners(c, p)' = One(~r.closed_rd)
    <3>1. Running(p) => user[p][c] # "held" /\ queue[p][c] = 0
      BY <2>1, Exclusive
    <3>2. ~h'[c][p].to_manage
      BY <1>1, <2>4, <2>6 DEF TypeOK
    <3> QED BY <1>5, <1>7, <2>4, <3>1, <3>2, OwnersThen DEF One
  <2>9. ready' \in [Proc -> SUBSET Conn]
    <3>1. PICK S : S = ready[p] \ {c}
      OBVIOUS
    <3>2. S \subseteq Conn /\ ready \in [Proc -> SUBSET Conn]
      BY <1>1, <3>1, Parts, OwnTypes
    <3>3. ready' = [ready EXCEPT ![p] = S]
      BY <1>3, <1>9, <3>1
    <3> QED BY <3>2, <3>3
  <2>10. Running(p) => r.last_probe = "eos"
    BY <2>1, <2>4 DEF EndAt, SameReader
  <2> QED BY <1>4, <1>5, <1>6, <1>7, <2>1, <2>2, <2>4, <2>6, <2>7, <2>8, <2>9, <2>10, UseKeeps
<1> QED BY <1>8, <1>9

(* setAsClosed drops a message that comes before EOS.                      *)
LEMMA DrainKeeps ==
  ASSUME Inv, NEW p \in Proc, Drain(p)
  PROVE  Inv'
<1>1. /\ TypeOK /\ ThreadAt(p) /\ main[p].pc = "drain"
      /\ UNCHANGED <<oob, queue, user, main, io, sent>>
  BY DEF Inv, Threads, Drain, At
<1>2. PICK c \in Conn : c = main[p].c
  BY <1>1, Parts
<1>3. PICK f, s, t : f = Header(c, p) /\ s = AfterHeader(c, p) /\ t = Tail(s)
  OBVIOUS
<1>4. /\ HeaderThere(c, p) /\ f # "eos" /\ Drained(c, p, t)
      /\ h' = [Probed(c, p) EXCEPT ![c][p].probed = "none", ![c][p].last_probe = "none"]
  BY <1>2, <1>3 DEF Drain
<1>5. EndAt(c, p) /\ StreamAt(c, p)
  BY DEF Inv, Ends, Streams
<1>6. ~Running(p) /\ h[c][p].ep # "none" /\ Closing(main[p]) /\ ~Greeting(c, p)
  BY <1>1, <1>2 DEF ThreadAt, Closing, Leaving, Running, Greeting, IoAt
<1>7. f = "hdr" /\ s \in Seq(Frame) /\ Leaves(f, s, Whole(h[c][Other(p)]))
      /\ h[c][p].test_probe \in {"hdr", "eos"}
  BY <1>1, <1>4, <1>5, <1>3, HeaderRead
<1>8. PICK g \in HandleUCX :
        /\ Probed(c, p) = [h EXCEPT ![c][p] = g] /\ SameKeep(g, h[c][p])
        /\ g.request = "none" /\ g.last_probe = f /\ g.probed = h[c][p].probed
        /\ (g.closed_rd <=> h[c][p].closed_rd)
  BY <1>1, <1>4, <1>5, <1>3, ProbedSet
<1>9. PICK r : r = [g EXCEPT !.probed = "none", !.last_probe = "none"]
  OBVIOUS
<1>10. /\ r \in HandleUCX /\ SameKeep(r, h[c][p]) /\ r.request = "none"
      /\ r.last_probe = "none" /\ r.probed = "none" /\ (r.closed_rd <=> h[c][p].closed_rd)
  BY <1>8, <1>9 DEF HandleUCX, SameKeep
<1>11. h' = [h EXCEPT ![c][p] = r] /\ rx' = [rx EXCEPT ![c][p] = t]
  <2>1. h \in [Conn -> [Proc -> HandleUCX]]
    BY <1>1, OwnTypes
  <2> QED BY <1>4, <1>8, <1>9, <2>1, ZenonT(60) DEF Drained
<1>12. t \in Seq(Frame) /\ StreamOf(r, t, Whole(h[c][Other(p)]))
  <2>1. g.test_probe \in {"hdr", "eos"} /\ r.test_probe = g.test_probe
    BY <1>7, <1>8, <1>10 DEF SameKeep
  <2>2. g.probed \in {"none", f}
    <3>1. StreamOf(h[c][p], rx[c][p], Whole(h[c][Other(p)]))
      BY <1>5 DEF StreamAt
    <3>2. h[c][p].probed # "none" => h[c][p].probed = f
      BY <1>3, <3>1 DEF StreamOf, Header
    <3> QED BY <1>8, <3>2
  <2>3. StreamOf(g, s, Whole(h[c][Other(p)]))
    BY <1>7, <1>8, <2>1, <2>2, ReadStream
  <2>4. g.last_probe = "hdr" /\ r.request = g.request
    BY <1>7, <1>8, <1>10
  <2>5. s \in Seq(Frame) /\ t = Tail(s) /\ r.last_probe = "none" /\ r.probed = "none"
    BY <1>3, <1>7, <1>10
  <2> QED BY <2>1, <2>3, <2>4, <2>5, BodyStream, ZenonT(60)
<1>13. \A d \in Conn : SameRoles(d, p)
  BY <1>1 DEF SameRoles, Dialling, Inserting, Moving, Greeting, At, IoAt
<1>14. /\ ready' \in [Proc -> SUBSET Conn] /\ queue' \in [Proc -> [Conn -> Count]]
       /\ user' \in [Proc -> [Conn -> Has]] /\ main' \in [Proc -> Thread]
       /\ UNCHANGED <<oob, io, sent>> /\ user' = user /\ queue' = queue /\ main' = main
  BY <1>1, <1>4, <1>12, OwnTypes, DrainedSet
<1>15. (r.ep # "none") /\ (r.ep = "closed" => r.closed_rd)
       /\ (r.closed_wr <=> h[c][p].closed_wr) /\ (r.lost <=> h[c][p].lost)
       /\ (h[c][p].ep = "closed" => r.ep = "closed") /\ ~Running(p)
  BY <1>5, <1>6, <1>10 DEF SameKeep, EndAt
<1>16. main'[p].pc \notin {"dial", "insert", "join"} /\ ~At(p, "join") /\ main'[p].c = c
  BY <1>1, <1>2, <1>14 DEF At
<1> QED BY <1>6, <1>10, <1>11, <1>12, <1>13, <1>14, <1>15, <1>16, UseKeeps

(* setAsClosed closes the read side: at EOS, or without waiting for it.    *)
LEMMA CloseReadKeeps ==
  ASSUME Inv, NEW p \in Proc, CloseRead(p)
  PROVE  Inv'
<1>1. /\ TypeOK /\ ThreadAt(p) /\ main[p].pc = "drain"
      /\ UNCHANGED <<rx, ready, oob, queue, user, io, sent>>
  BY DEF Inv, Threads, CloseRead, At
<1>2. PICK c \in Conn : c = main[p].c
  BY <1>1, Parts
<1>3. h' = [h EXCEPT ![c][p].closed_rd = TRUE] /\ Call(p, "notify", c, "end")
  BY <1>2 DEF CloseRead
<1>4. EndAt(c, p) /\ StreamAt(c, p)
  BY DEF Inv, Ends, Streams
<1>5. ~Running(p) /\ h[c][p].ep # "none" /\ Closing(main[p])
  BY <1>1, <1>2 DEF ThreadAt, Closing, Leaving
<1>6. PICK r : r = [h[c][p] EXCEPT !.closed_rd = TRUE]
  OBVIOUS
<1>7. /\ r \in HandleUCX /\ SameReader(r, h[c][p]) /\ r.closed_rd /\ r.ep = h[c][p].ep
      /\ (r.closed_wr <=> h[c][p].closed_wr) /\ (r.lost <=> h[c][p].lost)
  <2>1. h[c][p] \in HandleUCX
    BY <1>1, Parts
  <2> QED BY <1>6, <2>1 DEF HandleUCX, SameReader
<1>8. PICK t \in Seq(Frame) : t = rx[c][p]
  BY <1>1, Parts
<1>9. h' = [h EXCEPT ![c][p] = r] /\ rx' = [rx EXCEPT ![c][p] = t]
  BY <1>1, <1>3, <1>6, <1>8 DEF TypeOK
<1>10. StreamOf(r, t, Whole(h[c][Other(p)]))
  BY <1>4, <1>7, <1>8 DEF StreamAt, StreamOf, SameReader
<1>11. /\ main' \in [Proc -> Thread] /\ main'[p].pc = "notify" /\ main'[p].then = "end"
       /\ main'[p].c = c /\ main'[p].todo = main[p].todo
       /\ \A x \in Proc : x # p => main'[x] = main[x]
  BY <1>1, <1>3, CallSet DEF PC
<1>12. /\ \A d \in Conn : SameRoles(d, p)
       /\ ~Greeting(c, p) /\ ~At(p, "join") /\ Closing(main'[p])
  BY <1>1, <1>5, <1>11
  DEF SameRoles, Dialling, Inserting, Moving, Greeting, At, IoAt, Running, Closing
<1>13. /\ ready' \in [Proc -> SUBSET Conn] /\ queue' \in [Proc -> [Conn -> Count]]
       /\ user' \in [Proc -> [Conn -> Has]]
       /\ UNCHANGED <<oob, io, sent>> /\ user' = user /\ queue' = queue
  BY <1>1, OwnTypes
<1> QED BY <1>5, <1>7, <1>9, <1>10, <1>11, <1>12, <1>13, UseKeeps

(***************************************************************************)
(* The actions of the IO thread.                                           *)
(***************************************************************************)
(* It answers a call and enters the handle in the table.                   *)
LEMMA AnswerKeeps ==
  ASSUME Inv, NEW p \in Proc, Answer(p)
  PROVE  Inv'
<1>1. TypeOK /\ ThreadAt(p) /\ IoAt(p, "start") /\ UNCHANGED <<rx, ready, queue, user, main, sent>>
  BY DEF Inv, Threads, Answer
<1>2. PICK c \in Calls(p) : /\ oob' = [oob EXCEPT ![c] = "answered"]
                            /\ h' = [h EXCEPT ![c][p].ep = "open", ![c][p].reg = TRUE]
                            /\ io' = [io EXCEPT ![p].pc = "handshake", ![p].c = c]
  BY DEF Answer
<1>3. c \in Conn /\ Callee(c) = p /\ oob[c] = "called" /\ Caller[c] # p
  <2>1. c \in Conn /\ Callee(c) = p /\ oob[c] = "called"
    BY <1>2 DEF Calls
  <2> QED BY <2>1, TwoEnds
<1>4. EndAt(c, p) /\ StreamAt(c, p) /\ OpeningAt(c)
  BY <1>3 DEF Inv, Ends, Streams, Openings
<1>5. h[c][p].ep = "none" /\ Untouched(c, p) /\ Running(p)
  BY <1>1, <1>3, <1>4 DEF OpeningAt, EndAt, Running, IoAt
<1>6. user[p][c] # "held" /\ queue[p][c] = 0 /\ ~h[c][p].to_manage /\ ~Moving(c, p)
  BY <1>3, <1>5, Exclusive
<1>7. PICK r : r = [h[c][p] EXCEPT !.ep = "open", !.reg = TRUE]
  OBVIOUS
<1>8. /\ r \in HandleUCX /\ SameReader(r, h[c][p]) /\ r.ep = "open"
      /\ (r.to_manage <=> h[c][p].to_manage) /\ (r.closed_rd <=> h[c][p].closed_rd)
      /\ (r.closed_wr <=> h[c][p].closed_wr) /\ (r.lost <=> h[c][p].lost)
  <2>1. h[c][p] \in HandleUCX
    BY <1>1, <1>3, Parts
  <2> QED BY <1>7, <2>1 DEF HandleUCX, SameReader
<1>9. PICK t \in Seq(Frame) : t = rx[c][p]
  BY <1>1, <1>3, Parts
<1>10. h' = [h EXCEPT ![c][p] = r] /\ rx' = [rx EXCEPT ![c][p] = t]
  BY <1>1, <1>2, <1>3, <1>7, <1>9, ZenonT(60) DEF TypeOK
<1>11. /\ h'[c][p] = r /\ \A d \in Conn, x \in Proc : d # c \/ x # p => h'[d][x] = h[d][x]
  <2>1. h \in [Conn -> [Proc -> HandleUCX]]
    BY <1>1, OwnTypes
  <2> QED BY <1>3, <1>10, <2>1
<1>12. StreamOf(r, t, Whole(h[c][Other(p)]))
  BY <1>4, <1>8, <1>9 DEF StreamAt, StreamOf, SameReader
<1>13. /\ io' \in [Proc -> IoState] /\ io'[p].pc = "handshake" /\ io'[p].c = c
       /\ \A x \in Proc : x # p => io'[x] = io[x]
  <2>1. PICK i : i = [io[p] EXCEPT !.pc = "handshake", !.c = c]
    OBVIOUS
  <2>2. io[p] \in IoState
    BY <1>1, Parts
  <2>3. i \in IoState /\ i.pc = "handshake" /\ i.c = c
    BY <1>3, <2>1, <2>2 DEF IoState, IoPC
  <2>4. io' = [io EXCEPT ![p] = i]
    BY <1>1, <1>2, <2>1 DEF TypeOK
  <2> QED BY <1>1, <2>3, <2>4, OwnTypes
<1>14. /\ oob' \in [Conn -> {"none", "called", "answered", "failed"}] /\ oob'[c] = "answered"
       /\ \A d \in Conn : d # c => oob'[d] = oob[d]
  <2>1. oob \in [Conn -> {"none", "called", "answered", "failed"}]
    BY <1>1, OwnTypes
  <2> QED BY <1>2, <1>3, <2>1
<1>15. /\ \A d \in Conn : d # c => SameRoles(d, p)
       /\ ~Moving(c, p)' /\ Greeting(c, p)'
  BY <1>1, <1>6, <1>13 DEF SameRoles, Dialling, Inserting, Moving, Greeting, At, IoAt
<1>16. /\ ready' \in [Proc -> SUBSET Conn] /\ queue' \in [Proc -> [Conn -> Count]]
       /\ user' \in [Proc -> [Conn -> Has]] /\ user' = user /\ queue' = queue
       /\ main' \in [Proc -> Thread] /\ main' = main /\ sent' = sent
  BY <1>1, OwnTypes
<1>17. EndAt(c, p)'
  <2>1. Owners(c, p)' = 1
    BY <1>6, <1>8, <1>11, <1>15, <1>16, OwnersThen DEF One
  <2>2. Untouched(c, p)'
    BY <1>5, <1>8, <1>11, <1>16 DEF Untouched, SameReader
  <2>3. ~h'[c][p].lost \/ h'[c][Other(p)].ep = "closed"
    <3>1. h[c][p].lost => h[c][Other(p)].ep = "closed"
      BY <1>4, <1>5 DEF EndAt, Untouched
    <3>2. h'[c][Other(p)] = h[c][Other(p)]
      BY <1>3, <1>11, TwoProcs
    <3> QED BY <1>8, <1>11, <3>1, <3>2
  <2> QED BY <1>8, <1>11, <2>1, <2>2, <2>3 DEF EndAt, One, Untouched
<1>18. OpeningAt(c)'
  <2>1. Caller[c] \in Proc
    BY <1>3, TwoEnds
  <2>2. h'[c][Caller[c]] = h[c][Caller[c]]
    BY <1>3, <1>11, <2>1
  <2>3. Dialling(c, Caller[c])' <=> Dialling(c, Caller[c])
    BY <1>16 DEF Dialling, At
  <2> QED BY <1>4, <1>14, <2>2, <2>3 DEF OpeningAt
<1>19. ThreadAt(p)' /\ Running(p)'
  <2>1. \A d \in Conn : h[d][p].ep # "none" => h'[d][p].ep # "none"
    BY <1>3, <1>8, <1>11
  <2>2. main[p].todo \subseteq Conn /\ main[p].c \in Conn
    BY <1>1, Parts
  <2>3. Running(p)' /\ (IoAt(p, "handshake")' => Callee(io[p].c)' = p)
    BY <1>3, <1>13 DEF Running, IoAt, Callee, Other
  <2>4. \A d \in main[p].todo : h'[d][p].ep # "none"
    BY <1>1, <2>1, <2>2 DEF ThreadAt
  <2>5. Leaving(main[p]) => h'[main[p].c][p].ep # "none"
    BY <1>1, <2>1, <2>2 DEF ThreadAt
  <2> QED BY <1>1, <1>5, <1>16, <2>3, <2>4, <2>5 DEF ThreadAt
<1>20. /\ \A d \in Conn, x \in Proc : d # c \/ x # p =>
            user'[x][d] = user[x][d] /\ queue'[x][d] = queue[x][d]
       /\ \A x \in Proc : x # p => main'[x] = main[x] /\ io'[x] = io[x]
  BY <1>13, <1>16
<1> QED BY <1>3, <1>5, <1>8, <1>9, <1>10, <1>12, <1>13, <1>14, <1>15, <1>16, <1>17, <1>18, <1>19,
        <1>20, OwnKeeps, ZenonT(60)

(* The handshake has come: the handle goes to the ready queue.             *)
LEMMA HandshakeKeeps ==
  ASSUME Inv, NEW p \in Proc, Handshake(p)
  PROVE  Inv'
<1>1. /\ TypeOK /\ ThreadAt(p) /\ IoAt(p, "handshake") /\ IoGoto(p, "poll")
      /\ UNCHANGED <<h, oob, user, main, sent>>
  BY DEF Inv, Threads, Handshake
<1>2. PICK c \in Conn : c = io[p].c
  BY <1>1, Parts
<1>3. PICK s, t : s = rx[c][p] /\ t = SubSeq(s, 3, Len(s))
  OBVIOUS
<1>4. s # <<>> /\ Drained(c, p, t) /\ queue' = [queue EXCEPT ![p][c] = @ + 1]
  BY <1>2, <1>3 DEF Handshake
<1>5. EndAt(c, p) /\ StreamAt(c, p) /\ OpeningAt(c)
  BY DEF Inv, Ends, Streams, Openings
<1>6. Greeting(c, p) /\ Running(p)
  BY <1>1, <1>2 DEF Greeting, Running, IoAt
<1>7. /\ Untouched(c, p) /\ user[p][c] # "held" /\ queue[p][c] = 0 /\ ~h[c][p].to_manage
      /\ ~Moving(c, p) /\ h[c][p].ep # "none"
  BY <1>5, <1>6, Exclusive DEF EndAt
<1>8. PICK r \in HandleUCX : r = h[c][p] /\ h' = [h EXCEPT ![c][p] = r]
  BY <1>1, Parts DEF TypeOK
<1>9. t \in Seq(Frame) /\ StreamOf(r, t, Whole(h[c][Other(p)]))
  <2>1. s \in Seq(Frame) /\ StreamOf(r, s, Whole(h[c][Other(p)]))
    BY <1>1, <1>3, <1>5, <1>8, Parts DEF StreamAt
  <2>2. r.last_probe = "none" /\ r.request = "none" /\ r.probed = "none"
    BY <1>7, <1>8 DEF Untouched
  <2> QED BY <1>3, <1>4, <2>1, <2>2, GreetStream
<1>10. rx' = [rx EXCEPT ![c][p] = t]
  BY <1>4 DEF Drained
<1>11. /\ queue' \in [Proc -> [Conn -> Count]] /\ queue'[p][c] = 1
       /\ \A d \in Conn, x \in Proc : d # c \/ x # p => queue'[x][d] = queue[x][d]
  <2>1. queue \in [Proc -> [Conn -> Count]]
    BY <1>1, OwnTypes
  <2>2. queue' = [queue EXCEPT ![p][c] = 1]
    BY <1>4, <1>7, <2>1
  <2> QED BY <2>1, <2>2 DEF Count
<1>12. /\ io' \in [Proc -> IoState] /\ io'[p].pc = "poll" /\ io'[p].c = io[p].c
       /\ \A x \in Proc : x # p => io'[x] = io[x]
  BY <1>1, IoGotoSet DEF IoPC
<1>13. /\ \A d \in Conn : d # c => SameRoles(d, p)
       /\ ~Moving(c, p)' /\ ~Inserting(c, p)' /\ ~Greeting(c, p)' /\ Running(p)'
  BY <1>1, <1>2, <1>7, <1>12
  DEF SameRoles, Dialling, Inserting, Moving, Greeting, At, IoAt, Running
<1>14. /\ ready' \in [Proc -> SUBSET Conn] /\ user' \in [Proc -> [Conn -> Has]] /\ user' = user
       /\ main' \in [Proc -> Thread] /\ main' = main /\ sent' = sent /\ oob' = oob
       /\ oob' \in [Conn -> {"none", "called", "answered", "failed"}]
  BY <1>1, <1>4, <1>9, OwnTypes, DrainedSet
<1>15. EndAt(c, p)'
  <2>1. Owners(c, p)' = 1
    BY <1>1, <1>7, <1>11, <1>13, <1>14, OwnersThen DEF One
  <2>2. ~h[c][p].closed_rd
    BY <1>7 DEF Untouched
  <2> QED BY <1>1, <1>7, <1>13, <2>1, <2>2, EndHeld DEF One
<1>16. OpeningAt(c)'
  BY <1>1, <1>5, <1>14, OpeningKept DEF Dialling, At
<1>17. ThreadAt(p)'
  <2>1. ~IoAt(p, "handshake")'
    BY <1>12 DEF IoAt
  <2> QED BY <1>1, <1>6, <1>13, <2>1 DEF ThreadAt, At
<1>18. /\ \A d \in Conn : d # c => oob'[d] = oob[d] /\ SameRoles(d, p)
       /\ \A d \in Conn, x \in Proc : d # c \/ x # p =>
            user'[x][d] = user[x][d] /\ queue'[x][d] = queue[x][d]
       /\ \A x \in Proc : x # p => main'[x] = main[x] /\ io'[x] = io[x]
  BY <1>11, <1>12, <1>13, <1>14
<1> QED BY <1>6, <1>8, <1>9, <1>10, <1>11, <1>12, <1>14, <1>15, <1>16, <1>17, <1>18, OwnKeeps

(* The loop over the endpoints that the poll has reported.                 *)
LEMMA DispatchKeeps ==
  ASSUME Inv, NEW p \in Proc, Dispatch(p)
  PROVE  Inv'
<1>1. /\ TypeOK /\ Openings /\ Ends /\ Streams /\ Threads /\ ThreadAt(p) /\ Running(p)
      /\ UNCHANGED <<rx, ready, oob, user, main, sent>>
  BY DEF Inv, Threads, Dispatch, Running, IoAt
<1>2. PICK D : D = Dispatched(p)
  OBVIOUS
<1>3. \A d \in D : d \in Conn /\ h[d][p].to_manage
  BY <1>1, <1>2, Parts DEF Dispatched
<1>4. \A d \in D : /\ user[p][d] # "held" /\ queue[p][d] = 0 /\ ~h[d][p].closed_rd
                   /\ h[d][p].ep # "none" /\ ~Moving(d, p) /\ ~Greeting(d, p)
  BY <1>1, <1>3, Exclusive
<1>5. /\ io' \in [Proc -> IoState] /\ io'[p].pc = "start" /\ \A x \in Proc : x # p => io'[x] = io[x]
  <2>1. PICK i : i = [io[p] EXCEPT !.pc = "start", !.polled = {}]
    OBVIOUS
  <2>2. io[p] \in IoState
    BY <1>1, Parts
  <2>3. i \in IoState /\ i.pc = "start"
    BY <2>1, <2>2 DEF IoState, IoPC
  <2>4. io' = [io EXCEPT ![p] = i]
    BY <1>1, <2>1 DEF Dispatch, TypeOK
  <2> QED BY <1>1, <2>3, <2>4, OwnTypes
<1>6. /\ queue' \in [Proc -> [Conn -> Count]]
      /\ \A d \in Conn, x \in Proc :
           queue'[x][d] = IF x = p /\ d \in D THEN 1 ELSE queue[x][d]
  <2>1. queue \in [Proc -> [Conn -> Count]]
    BY <1>1, OwnTypes
  <2>2. PICK f : f = [d \in Conn |-> IF d \in D THEN 1 ELSE queue[p][d]]
    OBVIOUS
  <2>3. f \in [Conn -> Count] /\ \A d \in Conn : f[d] = IF d \in D THEN 1 ELSE queue[p][d]
    BY <2>1, <2>2 DEF Count
  <2>4. \A d \in Conn : (IF d \in D THEN queue[p][d] + 1 ELSE queue[p][d])
                        = (IF d \in D THEN 1 ELSE queue[p][d])
    BY <1>4
  <2>5. f = [d \in Conn |-> IF d \in D THEN queue[p][d] + 1 ELSE queue[p][d]]
    BY <2>2, <2>4
  <2>6. queue' = [queue EXCEPT ![p] = f]
    BY <1>2, <2>1, <2>5 DEF Dispatch
  <2> QED BY <2>1, <2>3, <2>6
<1>7. /\ h' \in [Conn -> [Proc -> HandleUCX]]
      /\ \A d \in Conn, x \in Proc :
           IF x = p /\ d \in D THEN h'[d][x] = [h[d][x] EXCEPT !.to_manage = FALSE]
                               ELSE h'[d][x] = h[d][x]
  <2>1. h \in [Conn -> [Proc -> HandleUCX]]
    BY <1>1, OwnTypes
  <2>2. h' = [d \in Conn |-> IF d \in D THEN [h[d] EXCEPT ![p].to_manage = FALSE] ELSE h[d]]
    BY <1>2 DEF Dispatch
  <2>3. ASSUME NEW d \in Conn
        PROVE  /\ h'[d] \in [Proc -> HandleUCX]
               /\ \A x \in Proc :
                    IF x = p /\ d \in D THEN h'[d][x] = [h[d][x] EXCEPT !.to_manage = FALSE]
                                        ELSE h'[d][x] = h[d][x]
    <3>1. PICK g : g = [h[d][p] EXCEPT !.to_manage = FALSE]
      OBVIOUS
    <3>2. h[d][p] \in HandleUCX /\ h[d] \in [Proc -> HandleUCX]
      BY <2>1
    <3>3. g \in HandleUCX
      BY <3>1, <3>2 DEF HandleUCX
    <3>4. CASE d \in D
      <4>1. h'[d] = [h[d] EXCEPT ![p] = g]
        BY <2>2, <3>1, <3>2, <3>4
      <4> QED BY <3>1, <3>2, <3>3, <3>4, <4>1
    <3>5. CASE d \notin D
      BY <2>2, <3>2, <3>5
    <3> QED BY <3>4, <3>5
  <2> QED BY <2>2, <2>3
<1>8. ASSUME NEW d \in Conn, NEW x \in Proc
      PROVE  /\ h'[d][x].ep = h[d][x].ep /\ SameReader(h'[d][x], h[d][x])
             /\ (h'[d][x].closed_rd <=> h[d][x].closed_rd)
             /\ (h'[d][x].closed_wr <=> h[d][x].closed_wr) /\ (h'[d][x].lost <=> h[d][x].lost)
             /\ IF x = p /\ d \in D THEN ~h'[d][x].to_manage ELSE SameEnd(h'[d][x], h[d][x])
  <2>1. h[d][x] \in HandleUCX
    BY <1>1, Parts
  <2>2. CASE x = p /\ d \in D
    <3>1. h'[d][x] = [h[d][x] EXCEPT !.to_manage = FALSE]
      BY <1>7, <2>2
    <3> QED BY <2>1, <2>2, <3>1 DEF HandleUCX, SameReader
  <2>3. CASE ~(x = p /\ d \in D)
    <3>1. h'[d][x] = h[d][x]
      BY <1>7, <2>3
    <3> QED BY <2>3, <3>1 DEF SameReader, SameEnd
  <2> QED BY <2>2, <2>3
<1>9. TypeOK'
  BY <1>1, <1>5, <1>6, <1>7, OwnTypes, Typed
<1>10. \A d \in Conn, x \in Proc : SameRoles(d, x)
  <2>1. ~IoAt(p, "handshake") /\ ~IoAt(p, "handshake")'
    BY <1>5 DEF Dispatch, IoAt
  <2> QED BY <1>1, <1>5, <2>1 DEF SameRoles, Dialling, Inserting, Moving, Greeting, At, IoAt
<1>11. \A x \in Proc : Running(x)' <=> Running(x)
  BY <1>1, <1>5 DEF Running
<1>12. Openings'
  <2> SUFFICES ASSUME NEW d \in Conn PROVE OpeningAt(d)'
    BY DEF Openings
  <2>1. Dialling(d, Caller[d])' => Dialling(d, Caller[d])
    BY <1>10, CallerAssumption DEF SameRoles
  <2>2. \A x \in Proc : h[d][x].ep = "none" => h'[d][x].ep = "none"
    BY <1>8
  <2>3. OpeningAt(d) /\ oob'[d] = oob[d]
    BY <1>1 DEF Openings
  <2> QED BY <2>1, <2>2, <2>3, OpeningKept
<1>13. Ends'
  <2> SUFFICES ASSUME NEW d \in Conn, NEW x \in Proc PROVE EndAt(d, x)'
    BY DEF Ends
  <2>1. EndAt(d, x) /\ Other(x) \in Proc
    BY <1>1, TwoProcs DEF Ends
  <2>2. h[d][Other(x)].ep = "closed" => h'[d][Other(x)].ep = "closed"
    BY <1>8, <2>1
  <2>3. CASE x = p /\ d \in D
    <3>1. ~h'[d][x].to_manage /\ user'[x][d] # "held" /\ queue'[x][d] = 1
      BY <1>1, <1>4, <1>6, <1>8, <2>3
    <3>2. ~Moving(d, x)' /\ ~Greeting(d, x)' /\ ~Inserting(d, x)'
      BY <1>4, <1>10, <2>3 DEF SameRoles, Moving, Inserting, At
    <3>3. Owners(d, x)' = 1
      BY <3>1, <3>2, OwnersThen DEF One
    <3>4. ~h'[d][x].closed_rd /\ h'[d][x].ep # "none" /\ h[d][x].ep # "none"
      BY <1>4, <1>8, <2>3
    <3>5. Running(x)' => Owners(d, x)' = One(~h'[d][x].closed_rd)
      BY <3>3, <3>4 DEF One
    <3> QED BY <1>8, <2>2, <3>2, <3>4, <3>5, EndHeld
  <2>4. CASE ~(x = p /\ d \in D)
    <3>1. SameEnd(h'[d][x], h[d][x])
      BY <1>8, <2>4
    <3>2. user'[x][d] = user[x][d] /\ queue'[x][d] = queue[x][d]
      BY <1>1, <1>6, <2>4
    <3>3. SameRoles(d, x) /\ (Running(x)' => Running(x))
      BY <1>10, <1>11
    <3> QED BY <2>1, <2>2, <3>1, <3>2, <3>3, EndKept DEF SameRoles
  <2> QED BY <2>3, <2>4
<1>14. Streams'
  <2> SUFFICES ASSUME NEW d \in Conn, NEW x \in Proc PROVE StreamAt(d, x)'
    BY DEF Streams
  <2>1. StreamOf(h[d][x], rx[d][x], Whole(h[d][Other(x)])) /\ Other(x) \in Proc
    BY <1>1, TwoProcs DEF Streams, StreamAt
  <2>2. Whole(h'[d][Other(x)]) <=> Whole(h[d][Other(x)])
    BY <1>8, <2>1 DEF Whole
  <2>3. SameReader(h'[d][x], h[d][x]) /\ rx'[d][x] = rx[d][x]
    BY <1>1, <1>8
  <2> QED BY <2>1, <2>2, <2>3 DEF StreamAt, StreamOf, SameReader
<1>15. Threads'
  <2> SUFFICES ASSUME NEW x \in Proc PROVE ThreadAt(x)'
    BY DEF Threads
  <2>1. ThreadAt(x) /\ \A d \in Conn : h'[d][x].ep = h[d][x].ep
    BY <1>1, <1>8 DEF Threads
  <2>2. CASE x # p
    BY <1>1, <1>5, <2>1, <2>2, ThreadKept
  <2>3. CASE x = p
    <3>1. main[x].todo \subseteq Conn /\ main[x].c \in Conn
      BY <1>1, Parts
    <3>2. ~IoAt(x, "handshake")' /\ Running(x)' /\ Running(x)
      BY <1>1, <1>5, <1>11, <2>3 DEF IoAt
    <3>3. \A d \in main[x].todo : h'[d][x].ep # "none"
      BY <2>1, <3>1 DEF ThreadAt
    <3>4. Leaving(main[x]) => h'[main[x].c][x].ep # "none"
      BY <2>1, <3>1 DEF ThreadAt
    <3> QED BY <1>1, <2>1, <3>2, <3>3, <3>4 DEF ThreadAt
  <2> QED BY <2>2, <2>3
<1> QED BY <1>9, <1>12, <1>13, <1>14, <1>15 DEF Inv

-----------------------------------------------------------------------------
(***************************************************************************)
(* The invariant, and the properties that follow from it.                  *)
(***************************************************************************)
LEMMA InitInv == Init => Inv
<1> SUFFICES ASSUME Init PROVE Inv
  OBVIOUS
<1>1. PICK k : k \in Conn /\ k = CHOOSE c \in Conn : TRUE
  BY ConnAssumption
<1>2. /\ h = [c \in Conn |-> [p \in Proc |-> NewHandle]]
      /\ rx = [c \in Conn |-> [p \in Proc |-> <<>>]]
      /\ ready = [p \in Proc |-> {}]
      /\ oob = [c \in Conn |-> "none"]
      /\ queue = [p \in Proc |-> [c \in Conn |-> 0]]
      /\ user = [p \in Proc |-> [c \in Conn |-> "none"]]
      /\ main = [p \in Proc |-> [pc |-> "idle", c |-> k, then |-> "idle", todo |-> {}]]
      /\ io = [p \in Proc |-> [pc |-> "start", c |-> k, polled |-> {}, listening |-> FALSE]]
      /\ sent = [c \in Conn |-> [p \in Proc |-> 0]]
  BY <1>1 DEF Init, Idling
<1>3. /\ NewHandle \in HandleUCX /\ NewHandle.ep = "none" /\ ~NewHandle.reg /\ ~NewHandle.lost
      /\ ~NewHandle.to_manage /\ ~NewHandle.closed_rd /\ ~NewHandle.closed_wr
      /\ NewHandle.request = "none" /\ NewHandle.last_probe = "none"
      /\ NewHandle.probed = "none" /\ NewHandle.test_probe = "hdr"
  BY DEF NewHandle, HandleUCX, Frame
<1>4. TypeOK
  <2>1. <<>> \in Seq(Frame)
    OBVIOUS
  <2>2. /\ h \in [Conn -> [Proc -> HandleUCX]] /\ rx \in [Conn -> [Proc -> Seq(Frame)]]
        /\ ready \in [Proc -> SUBSET Conn]
    BY <1>2, <1>3, <2>1
  <2>3. /\ oob \in [Conn -> {"none", "called", "answered", "failed"}]
        /\ queue \in [Proc -> [Conn -> 0..1]]
        /\ user \in [Proc -> [Conn -> {"none", "held", "given"}]]
    BY <1>2
  <2>4. main \in [Proc -> Thread] /\ io \in [Proc -> IoState]
    BY <1>1, <1>2 DEF Thread, PC, IoState, IoPC
  <2>5. \A c \in Conn, p \in Proc : sent[c][p] \in 0..MaxSend[p]
    BY <1>2, BoundAssumption
  <2> QED BY <2>2, <2>3, <2>4, <2>5 DEF TypeOK, Thread, PC, IoState, IoPC
<1>5. /\ \A c \in Conn, p \in Proc : /\ h[c][p] = NewHandle /\ rx[c][p] = <<>>
                                     /\ queue[p][c] = 0 /\ user[p][c] = "none"
      /\ \A c \in Conn : oob[c] = "none"
      /\ \A p \in Proc : /\ main[p].pc = "idle" /\ main[p].todo = {}
                         /\ io[p].pc = "start"
  BY <1>2
<1>6. Openings
  <2> SUFFICES ASSUME NEW c \in Conn PROVE OpeningAt(c)
    BY DEF Openings
  <2>1. Caller[c] \in Proc /\ Callee(c) \in Proc
    BY CallerAssumption, TwoProcs DEF Callee
  <2>2. h[c][Caller[c]].ep = "none" /\ h[c][Callee(c)].ep = "none"
    BY <1>3, <1>5, <2>1
  <2> QED BY <2>2 DEF OpeningAt
<1>7. Ends
  <2> SUFFICES ASSUME NEW c \in Conn, NEW p \in Proc PROVE EndAt(c, p)
    BY DEF Ends
  <2>1. Owners(c, p) = 0
    BY <1>3, <1>5 DEF Owners, One
  <2> QED BY <1>3, <1>5, <2>1 DEF EndAt, One, Untouched
<1>8. Streams
  <2> SUFFICES ASSUME NEW c \in Conn, NEW p \in Proc PROVE StreamAt(c, p)
    BY DEF Streams
  <2>1. Chain(<<>>) /\ ~HasEOS(<<>>)
    BY DEF Chain, HasEOS
  <2>2. PICK s : s = <<>> /\ s = rx[c][p]
    BY <1>5
  <2>3. Chain(s) /\ ~HasEOS(s)
    BY <2>1, <2>2
  <2> QED BY <1>3, <1>5, <2>2, <2>3 DEF StreamAt, StreamOf
<1>9. Threads
  BY <1>5 DEF Threads, ThreadAt, Closing, Leaving, Running, IoAt, At
<1> QED BY <1>4, <1>6, <1>7, <1>8, <1>9 DEF Inv

LEMMA NextInv == Inv /\ [Next]_vars => Inv'
<1> SUFFICES ASSUME Inv, [Next]_vars PROVE Inv'
  OBVIOUS
<1>1. CASE UNCHANGED vars
  <2>1. UNCHANGED <<h, rx, ready, oob, queue, user, main, io, sent>>
    BY <1>1 DEF vars
  <2>2. TypeOK'
    BY <2>1, OwnTypes, Typed DEF Inv
  <2>3. PICK p \in Proc : TRUE
    BY ProcAssumption
  <2>4. ThreadAt(p)'
    BY <2>1, ThreadKept DEF Inv, Threads
  <2>5. \A d \in Conn : SameRoles(d, p)
    BY <2>1 DEF SameRoles, Dialling, Inserting, Moving, Greeting, At, IoAt
  <2>6. Running(p)' => Running(p)
    BY <2>1 DEF Running
  <2> QED BY <2>1, <2>2, <2>4, <2>5, <2>6, QuietKeeps
<1>2. CASE Next
  <2>1. PICK p \in Proc : Operation(p) \/ Step(p) \/ IoThread(p)
    BY <1>2 DEF Next
  <2>2. CASE Operation(p)
    BY <2>2, ListenKeeps, FinalizeKeeps, ConnectKeeps, GetNextKeeps, SendKeeps, ProbeKeeps,
       ProbeNothingKeeps, ReceiveKeeps, CloseKeeps, YieldKeeps DEF Operation
  <2>3. CASE Step(p)
    BY <2>3, ConnectAnsweredKeeps, ConnectInsertKeeps, NotifyCloseKeeps, MarkManagedKeeps,
       JoinKeeps, EndNextKeeps, DrainKeeps, CloseReadKeeps, EndDoneKeeps DEF Step, Finalization
  <2>4. CASE IoThread(p)
    BY <2>4, IoExitKeeps, AnswerKeeps, HandshakeKeeps, PollKeeps, DispatchKeeps DEF IoThread
  <2> QED BY <2>1, <2>2, <2>3, <2>4
<1> QED BY <1>1, <1>2

(* In every behaviour: the exchange of addresses, the owners of the ends,  *)
(* the frames of the streams and the threads agree with each other, after  *)
(* every critical section of ConnUCX and every call of HandleUCX.          *)
THEOREM InvCorrect == Spec => []Inv
<1>1. Init => Inv
  BY InitInv
<1>2. Inv /\ [Next]_vars => Inv'
  BY NextInv
<1> QED BY <1>1, <1>2, PTL DEF Spec

(* Every variable keeps its type, an end that is open for reading has one  *)
(* owner while the IO thread runs: notify_yield, which decides without the *)
(* mutex, and update, which decides with it, never both hand it out.       *)
THEOREM OneOwnerCorrect == Spec => []OneOwner
<1>1. Inv => OneOwner
  <2> SUFFICES ASSUME Inv PROVE OneOwner
    OBVIOUS
  <2>1. TypeOK
    BY DEF Inv
  <2>2. ASSUME NEW c \in Conn, NEW p \in Proc, Running(p), h[c][p].ep = "open",
               ~h[c][p].closed_rd
        PROVE  Owners(c, p) = 1
    <3>1. EndAt(c, p)
      BY DEF Inv, Ends
    <3> QED BY <2>2, <3>1 DEF EndAt, One
  <2> QED BY <2>1, <2>2 DEF OneOwner
<1> QED BY <1>1, InvCorrect, PTL

(* A header is read where a header is and a payload where its payload is,  *)
(* whichever of the program's probe, the request it has left behind and    *)
(* notify_yield has read the header; nothing comes after EOS.              *)
THEOREM FramedCorrect == Spec => []Framed
<1>1. Inv => Framed
  <2> SUFFICES ASSUME Inv, NEW c \in Conn, NEW p \in Proc, NEW e, e = h[c][p]
               PROVE  /\ e.last_probe \in {"none", "hdr", "eos"} /\ e.test_probe \in {"hdr", "eos"}
                      /\ e.last_probe = "hdr" => rx[c][p] # <<>> /\ Head(rx[c][p]) = "body"
                      /\ e.last_probe = "eos" => rx[c][p] = <<>>
    BY DEF Framed
  <2>1. StreamOf(e, rx[c][p], Whole(h[c][Other(p)])) /\ rx[c][p] \in Seq(Frame)
    BY Parts DEF Inv, Streams, StreamAt
  <2>2. rx[c][p] # <<>> => Head(rx[c][p]) = rx[c][p][1]
    BY <2>1, HeadTailProperties
  <2> QED BY <2>1, <2>2 DEF StreamOf, Starts
<1> QED BY <1>1, InvCorrect, PTL

(* When data completes the request that a probe has left behind, something *)
(* is left for ucp_stream_worker_poll to report: of EOS, its extra bytes.  *)
THEOREM WakesPollCorrect == Spec => []WakesPoll
<1>1. Inv => WakesPoll
  <2> SUFFICES ASSUME Inv, NEW c \in Conn, NEW p \in Proc, h[c][p].request = "done"
               PROVE  rx[c][p] # <<>>
    BY DEF WakesPoll
  <2>1. StreamOf(h[c][p], rx[c][p], Whole(h[c][Other(p)]))
    BY DEF Inv, Streams, StreamAt
  <2> QED BY <2>1 DEF StreamOf, Starts
<1> QED BY <1>1, InvCorrect, PTL

(* notify_close closes an endpoint before finalize only when its peer has  *)
(* closed the connection and all that it sent has been read.               *)
THEOREM ClosedIsCompleteCorrect == Spec => []ClosedIsComplete
<1>1. ASSUME Inv PROVE ClosedIsComplete
  <2> SUFFICES ASSUME NEW c \in Conn, NEW p \in Proc, Running(p), h[c][p].ep = "closed"
               PROVE  /\ h[c][Other(p)].closed_wr /\ ~h[c][Other(p)].lost
                      /\ rx[c][p] = <<>>
    BY DEF ClosedIsComplete
  <2>1. EndAt(c, p) /\ StreamAt(c, p)
    BY <1>1 DEF Inv, Ends, Streams
  <2>2. h[c][p].last_probe = "eos"
    BY <2>1 DEF EndAt
  <2> QED BY <2>1, <2>2 DEF StreamAt, StreamOf, Whole
<1> QED BY <1>1, InvCorrect, PTL
=============================================================================
