-------------------------- MODULE ShmBufferProofs --------------------------
(***************************************************************************)
(* The shared-memory buffer delivers whole messages in order, for any      *)
(* chunk size, any number of writers and all message sizes that a float    *)
(* represents exactly.                                                     *)
(***************************************************************************)
EXTENDS ShmBuffer, SequenceTheorems, TLAPS

(* The message in progress, if there is one, and the writer that has put   *)
(* some of its chunks and not the last.                                    *)
Last == sent[Len(sent)]
Mid(w) == put[w].pc = "put" /\ put[w].p > 0
Busy == Len(sent) = Len(rcvd) + 1

(* Where the next chunk that get copies begins.                            *)
Read == IF rd.pc = "get" THEN rd.p ELSE 0

(* One writer at a time is inside a message: they share the mutex, or have *)
(* messages of one chunk.                                                  *)
Writers ==
    \A w \in Writer :
      /\ put[w].pc = "put" => Lock[w] \in held /\ put[w].size \in Size /\ put[w].p <= put[w].size
      /\ Mid(w) => /\ Busy /\ put[w].p >= Chunk /\ put[w].p < put[w].size
                   /\ put[w].size = Last /\ put[w].id = Len(sent)
      /\ \A v \in Writer : put[v].pc = "put" /\ put[w].pc = "put" /\ v # w => Lock[v] # Lock[w]

(* No message is in progress, or the slot holds the chunk the reader wants *)
(* next and the writer is right behind it, or the slot is empty and the    *)
(* writer has not put that chunk yet.                                      *)
Slot ==
    /\ Busy \/ Len(sent) = Len(rcvd)
    /\ ~Busy => ~seg.guard /\ rd.pc = "idle"
    /\ seg.guard => /\ seg.id = Len(sent) /\ seg.size = Last /\ seg.off = Read
                    /\ \A w \in Writer : Mid(w) => put[w].p = Read + Chunk
                    /\ Last - Read > Chunk => \E w \in Writer : Mid(w)
    /\ Busy /\ ~seg.guard => /\ rd.pc = "get"
                             /\ \E w \in Writer : Mid(w) /\ put[w].p = rd.p

Pieces(buf, i, n) ==
    \A k \in DOMAIN buf :
      buf[k] = [id |-> i, off |-> (k - 1) * Chunk, len |-> Smaller(n - (k - 1) * Chunk, Chunk)]

(* nmsgs is the number of chunks still to come.                            *)
Reader ==
    /\ rd.pc = "idle" => rd = Waiting
    /\ rd.pc = "probed" => seg.guard /\ rd.size = Last
    /\ rd.pc = "get" => /\ rd.size = Last /\ rd.p = Len(rd.buf) * Chunk /\ rd.p < Last
                        /\ rd.nmsgs >= 1 /\ Last - rd.p <= rd.nmsgs * Chunk
                        /\ (rd.nmsgs - 1) * Chunk < Last - rd.p
                        /\ Pieces(rd.buf, Len(sent), Last)

IInv == TypeOK /\ Writers /\ Slot /\ Reader /\ Intact

-----------------------------------------------------------------------------
(* Ceiling division, and the number of chunks get expects.                 *)
LEMMA Ceiling ==
  ASSUME NEW x \in Nat, x > 0, NEW c \in Nat, c > 0,
         NEW q \in Int, q = (x + c - 1) \div c
  PROVE  q >= 1 /\ x <= q * c /\ (q - 1) * c < x
<1>1. /\ x + c - 1 = c * q + ((x + c - 1) % c)
      /\ (x + c - 1) % c \in 0..(c - 1)
  OBVIOUS
<1> DEFINE r == (x + c - 1) % c
<1>2. r \in Int /\ 0 <= r /\ r < c /\ x + c - 1 = c * q + r
  BY <1>1
<1> HIDE DEF r
<1>3. c * q = q * c /\ (q - 1) * c = q * c - c
  OBVIOUS
<1>4. x <= q * c /\ (q - 1) * c < x
  BY <1>2, <1>3
<1>5. q >= 1
  <2>1. SUFFICES ASSUME q <= 0 PROVE FALSE
    OBVIOUS
  <2>2. q * c <= 0
    BY <2>1
  <2> QED BY <1>4, <2>2
<1> QED BY <1>4, <1>5

(* nmsgs is the ceiling of size / SHM_SMALL_MSG_SIZE when (float) is exact.*)
LEMMA NMsgsExact ==
  ASSUME NEW n \in Nat, n > 0, Float(n) = n
  PROVE  /\ NMsgs(n) \in Nat /\ NMsgs(n) >= 1
         /\ n <= NMsgs(n) * Chunk /\ (NMsgs(n) - 1) * Chunk < n
<1>2. NMsgs(n) = (n + Chunk - 1) \div Chunk
  BY DEF NMsgs
<1>3. Chunk \in Nat /\ Chunk > 0
  BY SizeAssumption
<1>4. (n + Chunk - 1) \div Chunk \in Int
  BY <1>3
<1> QED BY <1>2, <1>3, <1>4, Ceiling

(* The chunks that are left after one has been copied.                     *)
LEMMA Countdown ==
  ASSUME NEW k \in Nat, NEW d \in Int, k >= 1, d <= k * Chunk, (k - 1) * Chunk < d
  PROVE  /\ k = 1 => d <= Chunk
         /\ k # 1 => /\ d > Chunk
                     /\ d - Chunk <= (k - 1) * Chunk
                     /\ (k - 1 - 1) * Chunk < d - Chunk
<1>1. Chunk \in Nat /\ Chunk > 0
  BY SizeAssumption
<1>2. (k - 1) * Chunk = k * Chunk - Chunk /\ (k - 1 - 1) * Chunk = (k - 1) * Chunk - Chunk
  BY <1>1
<1>3. k # 1 => (k - 1 - 1) * Chunk >= 0
  BY <1>1
<1>4. k = 1 => k * Chunk = Chunk
  BY <1>1
<1>5. k * Chunk \in Int /\ (k - 1) * Chunk \in Int /\ (k - 1 - 1) * Chunk \in Int
  BY <1>1
<1> QED BY <1>1, <1>2, <1>3, <1>4, <1>5

(* No size is rounded by its conversion to float.                          *)
FloatIsExact == \A n \in Size : Float(n) = n

(* Only one writer is inside a message.                                    *)
LEMMA OneMid ==
  ASSUME TypeOK, Writers, NEW v \in Writer, NEW w \in Writer, Mid(v), put[w].pc = "put"
  PROVE  v = w
<1> SUFFICES ASSUME v # w PROVE FALSE
  OBVIOUS
<1>1. Lock[v] # Lock[w]
  BY DEF Writers, Mid
<1>2. \A n \in Size : n <= Chunk
  BY <1>1, LockAssumption
<1>3. put[v].size \in Size /\ put[v].p >= Chunk /\ put[v].p < put[v].size
  BY DEF Writers, Mid
<1>4. put[v] \in Putting
  BY DEF TypeOK
<1>5. put[v].p \in Nat /\ put[v].size \in Nat
  BY <1>4 DEF Putting
<1>6. Chunk \in Nat
  BY SizeAssumption
<1> QED BY <1>2, <1>3, <1>5, <1>6

-----------------------------------------------------------------------------
(* The types of the state after the last chunk of a message.               *)
LEMMA LastType ==
  ASSUME TypeOK, Busy
  PROVE  Last \in Size /\ Last \in Nat
<1>1. sent \in Seq(Size) /\ Len(sent) = Len(rcvd) + 1 /\ Len(rcvd) \in Nat
  BY DEF TypeOK, Busy
<1>2. Len(sent) \in 1..Len(sent)
  BY <1>1
<1>3. \A i \in 1..Len(sent) : sent[i] \in Size
  BY <1>1
<1>4. sent[Len(sent)] \in Size
  BY <1>2, <1>3
<1> QED BY <1>4, SizeAssumption DEF Last

(* Taking the mutex at the start of put keeps the invariant.               *)
LEMMA PutStartStep ==
  ASSUME IInv, NEW w \in Writer, NEW n \in Size, PutStart(w, n)
  PROVE  IInv'
<1> DEFINE r == [pc |-> "put", size |-> n, id |-> 0, p |-> 0]
<1>1. put \in [Writer -> Putting] /\ n \in Nat /\ Chunk \in Nat
  BY SizeAssumption DEF IInv, TypeOK
<1>2. r \in Putting
  BY <1>1 DEF Putting
<1>3. put' = [put EXCEPT ![w] = r] /\ held' = held \union {Lock[w]} /\ Lock[w] \notin held
  BY DEF PutStart, MutexFree
<1>4. UNCHANGED <<seg, rd, sent, rcvd>> /\ put[w].pc = "idle"
  BY DEF PutStart
<1>5. TypeOK'
  BY <1>1, <1>2, <1>3, <1>4 DEF IInv, TypeOK
<1>6. \A v \in Writer : /\ v # w => put'[v] = put[v]
                        /\ Mid(v)' <=> Mid(v)
  BY <1>1, <1>3, <1>4 DEF Mid
<1>7. put'[w].pc = "put" /\ put'[w].size = n /\ put'[w].p = 0 /\ ~Mid(w)'
  BY <1>1, <1>3 DEF Mid
<1>8. Writers'
  <2>1. ASSUME NEW v \in Writer
        PROVE  put'[v].pc = "put" => Lock[v] \in held' /\ put'[v].size \in Size /\ put'[v].p <= put'[v].size
    BY <1>1, <1>3, <1>6, <1>7 DEF IInv, Writers
  <2>2. ASSUME NEW v \in Writer, Mid(v)'
        PROVE  /\ Busy' /\ put'[v].p >= Chunk /\ put'[v].p < put'[v].size
               /\ put'[v].size = Last' /\ put'[v].id = Len(sent)'
    BY <1>4, <1>6, <1>7, <2>2 DEF IInv, Writers, Busy, Last
  <2>3. ASSUME NEW u \in Writer, NEW v \in Writer, put'[v].pc = "put", put'[u].pc = "put", v # u
        PROVE  Lock[v] # Lock[u]
    BY <1>3, <1>6, <2>3 DEF IInv, Writers
  <2> QED BY <2>1, <2>2, <2>3 DEF Writers
<1>9. Slot' /\ Reader'
  BY <1>4, <1>6, <1>7 DEF IInv, Slot, Reader, Busy, Last, Read, Pieces
<1>10. Intact'
  BY <1>4 DEF IInv, Intact, Whole
<1> QED BY <1>5, <1>8, <1>9, <1>10 DEF IInv

(* A probe keeps the invariant.                                            *)
LEMMA GetSizeStep ==
  ASSUME IInv, GetSize
  PROVE  IInv'
<1>1. rd.pc = "idle" /\ seg.guard /\ rd \in Getting /\ seg \in Segment
  BY DEF GetSize, IInv, TypeOK
<1>2. rd' = [rd EXCEPT !.pc = "probed", !.size = seg.size] /\ seg.size \in Nat
  BY <1>1 DEF GetSize, Segment
<1>3. rd' \in Getting /\ rd'.pc = "probed" /\ rd'.size = seg.size
  BY <1>1, <1>2 DEF Getting
<1>4. UNCHANGED <<seg, put, held, sent, rcvd>>
  BY DEF GetSize
<1>5. TypeOK'
  BY <1>3, <1>4 DEF IInv, TypeOK
<1>6. Read = 0 /\ Read' = 0
  BY <1>1, <1>3 DEF Read
<1>7. Writers' /\ Intact'
  BY <1>4 DEF IInv, Writers, Intact, Whole, Mid, Busy, Last
<1>8. Slot'
  BY <1>1, <1>4, <1>6 DEF IInv, Slot, Mid, Busy, Last
<1>9. Reader'
  BY <1>1, <1>3, <1>4 DEF IInv, Slot, Reader, Last
<1> QED BY <1>5, <1>7, <1>8, <1>9 DEF IInv

(* A message taken in full: what was received is still intact.             *)
LEMMA TakeStep ==
  ASSUME IInv, Busy, NEW buf \in Seq(Piece), Whole(buf, Len(sent), Last),
         \A w \in Writer : ~Mid(w),
         seg' = [seg EXCEPT !.guard = FALSE], rd' = Waiting,
         rcvd' = Append(rcvd, [size |-> Last, buf |-> buf]),
         UNCHANGED <<put, held, sent>>
  PROVE  IInv'
<1> DEFINE m == [size |-> Last, buf |-> buf]
           T == [size : Nat, buf : Seq(Piece)]
<1>1. sent \in Seq(Size) /\ rcvd \in Seq(T) /\ seg \in Segment /\ Size \subseteq Nat
  BY SizeAssumption DEF IInv, TypeOK
<1>2. Len(sent) \in Nat /\ Len(rcvd) \in Nat /\ Len(sent) = Len(rcvd) + 1
  BY <1>1 DEF Busy
<1>3. Last \in Nat
  BY <1>1, <1>2 DEF Last
<1>4. m \in T
  BY <1>3
<1> HIDE DEF T
<1>5. rcvd' \in Seq(T) /\ Len(rcvd') = Len(sent)
  BY <1>1, <1>2, <1>4
<1>6. /\ \A i \in DOMAIN rcvd' : i \in DOMAIN rcvd \/ i = Len(sent)
      /\ \A i \in DOMAIN rcvd : i \in DOMAIN rcvd' /\ rcvd'[i] = rcvd[i]
      /\ rcvd'[Len(sent)] = m
  BY <1>1, <1>2, <1>4
<1>7. seg' \in Segment /\ ~seg'.guard
  BY <1>1 DEF Segment
<1>8. Waiting \in Getting /\ Waiting.pc = "idle"
  BY DEF Waiting, Getting
<1>9. TypeOK'
  BY <1>5, <1>7, <1>8 DEF IInv, TypeOK, T
<1>10. Writers'
  BY DEF IInv, Writers, Mid
<1>11. ~Busy'
  BY <1>2, <1>5 DEF Busy
<1>12. Slot' /\ Reader'
  BY <1>5, <1>7, <1>8, <1>11 DEF Slot, Reader, Busy
<1>13. Intact'
  <2> SUFFICES ASSUME NEW i \in DOMAIN rcvd'
               PROVE  i <= Len(sent) /\ rcvd'[i].size = sent[i] /\ Whole(rcvd'[i].buf, i, sent[i])
    BY DEF Intact, Whole
  <2>1. CASE i \in DOMAIN rcvd
    BY <1>6, <2>1 DEF IInv, Intact
  <2>2. CASE i = Len(sent)
    BY <1>2, <1>6, <2>2 DEF Last
  <2> QED BY <1>6, <2>1, <2>2
<1> QED BY <1>9, <1>10, <1>12, <1>13 DEF IInv

(* Taking an EOS keeps the invariant.                                      *)
LEMMA GetEOSStep ==
  ASSUME IInv, GetEOS
  PROVE  IInv'
<1>1. rd.pc = "probed" /\ seg.guard /\ seg.size = 0
  BY DEF GetEOS
<1>2. Busy /\ Last = 0
  BY <1>1 DEF IInv, Slot
<1>3. \A w \in Writer : ~Mid(w)
  <2> SUFFICES ASSUME NEW w \in Writer, Mid(w) PROVE FALSE
    OBVIOUS
  <2>1. put[w].p < put[w].size /\ put[w].size = 0 /\ put[w].p > 0 /\ put[w] \in Putting
    BY <1>2 DEF IInv, Writers, Mid, TypeOK
  <2> QED BY <2>1 DEF Putting
<1>4. Whole(<<>>, Len(sent), Last)
  <2>1. Chunk \in Nat /\ Chunk > 0 /\ (0 - 1) * Chunk < 0 /\ 0 <= 0 * Chunk
    BY SizeAssumption
  <2> QED BY <1>2, <2>1 DEF Whole
<1>5. <<>> \in Seq(Piece)
  OBVIOUS
<1> QED BY <1>2, <1>3, <1>4, <1>5, TakeStep DEF GetEOS

(* Copying the chunk the reader waits for keeps the invariant.             *)
LEMMA CopyStep ==
  ASSUME IInv, seg.guard, Busy, NEW k \in Nat, NEW p \in Nat, NEW buf \in Seq(Piece),
         p = Read, p < Last, p = Len(buf) * Chunk, k >= 1, Last - p <= k * Chunk,
         (k - 1) * Chunk < Last - p, Pieces(buf, Len(sent), Last), Copy(Last, k, p, buf)
  PROVE  IInv'
<1> DEFINE s == Smaller(Last - p, Chunk)
           x == [id |-> Len(sent), off |-> p, len |-> s]
           now == Append(buf, x)
           r == [pc |-> "get", size |-> Last, nmsgs |-> k - 1, p |-> p + s, buf |-> now]
<1>1. sent \in Seq(Size) /\ seg \in Segment /\ Size \subseteq Nat /\ Chunk \in Nat /\ Chunk > 0
  BY SizeAssumption DEF IInv, TypeOK
<1>2. Len(sent) \in Nat /\ Len(rcvd) \in Nat /\ Len(sent) = Len(rcvd) + 1
  BY DEF Busy, IInv, TypeOK
<1>3. Last \in Nat
  BY LastType DEF IInv
<1>4. s \in Nat /\ (Last - p <= Chunk => s = Last - p) /\ (Last - p > Chunk => s = Chunk)
  <2>1. Last - p \in Nat
    BY <1>3
  <2>2. \A a, b \in Nat : Smaller(a, b) \in Nat /\ (a <= b => Smaller(a, b) = a)
                                             /\ (a > b => Smaller(a, b) = b)
    BY DEF Smaller
  <2> QED BY <1>1, <2>1, <2>2
<1>5. seg.id = Len(sent) /\ seg.off = p
  BY DEF IInv, Slot
<1>6. x \in Piece
  BY <1>2, <1>4 DEF Piece
<1>7. now \in Seq(Piece) /\ Len(now) = Len(buf) + 1 /\ Len(buf) \in Nat
  BY <1>6
<1>8. Pieces(now, Len(sent), Last)
  <2> SUFFICES ASSUME NEW i \in DOMAIN now
               PROVE  now[i] = [id |-> Len(sent), off |-> (i - 1) * Chunk,
                                len |-> Smaller(Last - (i - 1) * Chunk, Chunk)]
    BY DEF Pieces
  <2>1. CASE i \in DOMAIN buf
    BY <2>1 DEF Pieces
  <2>2. CASE i = Len(buf) + 1
    <3>1. now[i] = x /\ i - 1 = Len(buf)
      BY <1>6, <1>7, <2>2
    <3> QED BY <3>1
  <2> QED BY <1>7, <2>1, <2>2
<1>9. seg' = [seg EXCEPT !.guard = FALSE] /\ UNCHANGED <<put, held, sent>>
  BY DEF Copy
<1>10. (Len(buf) + 1) * Chunk = p + Chunk
  BY <1>1, <1>7
<1>11. CASE k = 1
  <2>1. Last - p <= Chunk
    BY <1>3, <1>11, Countdown
  <2>2. \A w \in Writer : ~Mid(w)
    <3> SUFFICES ASSUME NEW w \in Writer, Mid(w) PROVE FALSE
      OBVIOUS
    <3>1. put[w].p = p + Chunk /\ put[w].p < Last
      BY DEF IInv, Slot, Writers
    <3> QED BY <1>1, <1>3, <2>1, <3>1
  <2>3. Whole(now, Len(sent), Last)
    <3> HIDE DEF now
    <3>1. (Len(now) - 1) * Chunk = p /\ Len(now) * Chunk = p + Chunk
      BY <1>7, <1>10
    <3>2. Last <= p + Chunk
      BY <1>1, <1>3, <2>1
    <3> QED BY <1>8, <3>1, <3>2 DEF Whole, Pieces
  <2>4. rd' = Waiting /\ rcvd' = Append(rcvd, [size |-> Last, buf |-> now])
    BY <1>5, <1>11 DEF Copy
  <2> QED BY <1>7, <1>9, <2>2, <2>3, <2>4, TakeStep
<1>12. CASE k # 1
  <2>1. /\ Last - p > Chunk /\ Last - p - Chunk <= (k - 1) * Chunk
        /\ (k - 1 - 1) * Chunk < Last - p - Chunk
    BY <1>3, <1>12, Countdown
  <2>2. s = Chunk /\ p + s \in Nat /\ k - 1 \in Nat
    BY <1>1, <1>4, <1>12, <2>1
  <2>3. rd' = r /\ rcvd' = rcvd
    BY <1>5, <1>12 DEF Copy
  <2> HIDE DEF now, s
  <2>4. r \in Getting
    BY <1>3, <1>7, <2>2 DEF Getting
  <2>5. /\ rd'.pc = "get" /\ rd'.size = Last /\ rd'.nmsgs = k - 1 /\ rd'.p = p + Chunk
        /\ rd'.buf = now
    BY <2>2, <2>3
  <2>6. seg' \in Segment /\ ~seg'.guard
    BY <1>1, <1>9 DEF Segment
  <2>7. TypeOK'
    BY <1>9, <2>3, <2>4, <2>6 DEF IInv, TypeOK
  <2>8. Writers' /\ Intact'
    BY <1>9, <2>3 DEF IInv, Writers, Intact, Whole, Mid, Busy, Last
  <2>9. PICK w \in Writer : Mid(w)
    BY <2>1 DEF IInv, Slot
  <2>10. put[w].p = p + Chunk
    BY <2>9 DEF IInv, Slot
  <2>11. Slot'
    BY <1>9, <2>3, <2>5, <2>6, <2>9, <2>10 DEF Slot, Busy, Mid
  <2>12. Reader'
    <3>1. Last' = Last /\ p + Chunk = Len(now) * Chunk /\ p + Chunk < Last
      BY <1>1, <1>3, <1>7, <1>9, <1>10, <2>1 DEF Last
    <3>2. k - 1 >= 1
      BY <1>12
    <3>3. Last - (p + Chunk) = Last - p - Chunk
      BY <1>1, <1>3
    <3>4. Pieces(now, Len(sent)', Last')
      BY <1>8, <1>9, <3>1
    <3>5. /\ rd'.size = Last' /\ rd'.p = Len(rd'.buf) * Chunk /\ rd'.p < Last'
          /\ rd'.nmsgs >= 1 /\ Last' - rd'.p <= rd'.nmsgs * Chunk
          /\ (rd'.nmsgs - 1) * Chunk < Last' - rd'.p
      BY <2>1, <2>5, <3>1, <3>2, <3>3
    <3>6. Pieces(rd.buf, Len(sent), Last)'
      BY <2>5, <3>4 DEF Pieces
    <3> QED BY <2>5, <3>5, <3>6 DEF Reader
  <2> QED BY <2>7, <2>8, <2>11, <2>12 DEF IInv
<1> QED BY <1>11, <1>12

(* Every turn of the loop of get keeps the invariant.                      *)
LEMMA GetStep ==
  ASSUME IInv, FloatIsExact, GetFirst \/ GetNext
  PROVE  IInv'
<1>1. sent \in Seq(Size) /\ rcvd \in Seq([size : Nat, buf : Seq(Piece)]) /\ rd \in Getting
  BY DEF IInv, TypeOK
<1>2. Busy /\ seg.guard /\ seg.size = Last
  BY DEF GetFirst, GetNext, IInv, Slot
<1>3. Last \in Nat /\ Float(Last) = Last
  BY <1>2, LastType DEF IInv, FloatIsExact
<1>4. CASE GetFirst
  <2>1. rd.pc = "probed" /\ Last > 0 /\ Read = 0
    BY <1>2, <1>3, <1>4 DEF GetFirst, Read
  <2>2. Copy(Last, NMsgs(Last), 0, <<>>)
    BY <1>2, <1>4 DEF GetFirst
  <2>3. /\ NMsgs(Last) \in Nat /\ NMsgs(Last) >= 1
        /\ Last <= NMsgs(Last) * Chunk /\ (NMsgs(Last) - 1) * Chunk < Last
    BY <1>3, <2>1, NMsgsExact
  <2>4. <<>> \in Seq(Piece) /\ Len(<<>>) * Chunk = 0 /\ Pieces(<<>>, Len(sent), Last)
    BY SizeAssumption DEF Pieces
  <2>5. Last - 0 = Last
    BY <1>3
  <2> HIDE DEF NMsgs
  <2>6. 0 \in Nat /\ 0 < Last /\ 0 = Read /\ 0 = Len(<<>>) * Chunk
    BY <2>1, <2>4
  <2>7. Last - 0 <= NMsgs(Last) * Chunk /\ (NMsgs(Last) - 1) * Chunk < Last - 0
    BY <2>3, <2>5
  <2> QED BY <1>2, <2>2, <2>3, <2>4, <2>6, <2>7, CopyStep
<1>5. CASE GetNext
  <2>1. rd.pc = "get" /\ Copy(rd.size, rd.nmsgs, rd.p, rd.buf)
    BY <1>5 DEF GetNext
  <2>2. rd.nmsgs \in Nat /\ rd.p \in Nat /\ rd.buf \in Seq(Piece) /\ rd.p = Read
    BY <1>1, <2>1 DEF Getting, Read
  <2>3. /\ rd.size = Last /\ rd.p = Len(rd.buf) * Chunk /\ rd.p < Last
        /\ rd.nmsgs >= 1 /\ Last - rd.p <= rd.nmsgs * Chunk
        /\ (rd.nmsgs - 1) * Chunk < Last - rd.p
        /\ Pieces(rd.buf, Len(sent), Last)
    BY <2>1 DEF IInv, Reader
  <2> QED BY <1>2, <2>1, <2>2, <2>3, CopyStep
<1> QED BY <1>4, <1>5

(* Where put goes on after the chunk at offset p.                          *)
After(n, p) == p + Smaller(n - p, Chunk)

(* A chunk goes into the empty slot at offset p of message Last', which    *)
(* the reader wants next.                                                  *)
LEMMA FillStep ==
  ASSUME IInv, NEW w \in Writer, NEW p \in Nat, NEW n \in Size,
         put[w].pc = "put", put[w].size = n, ~seg.guard,
         p < n \/ (p = 0 /\ n = 0),
         \A v \in Writer : Mid(v) => v = w,
         seg' = [guard |-> TRUE, size |-> n, id |-> Len(sent'), off |-> p],
         put' = [put EXCEPT ![w] = IF After(n, p) = n THEN Resting
                                   ELSE [@ EXCEPT !.id = Len(sent'), !.p = After(n, p)]],
         held' = IF After(n, p) = n THEN held \ {Lock[w]} ELSE held,
         UNCHANGED <<rd, rcvd>>, Busy', Last' = n, p = Read,
         sent' \in Seq(Size), Reader', Intact'
  PROVE  IInv'
<1> DEFINE next == After(n, p)
           r == [put[w] EXCEPT !.id = Len(sent'), !.p = next]
<1>1. /\ put \in [Writer -> Putting] /\ put[w] \in Putting /\ n \in Nat
      /\ Chunk \in Nat /\ Chunk > 0 /\ Len(sent') \in Nat
  BY SizeAssumption DEF IInv, TypeOK
<1>2. /\ n - p \in Nat
      /\ \/ next = n /\ n - p <= Chunk
         \/ next = p + Chunk /\ next < n /\ n - p > Chunk
  BY <1>1 DEF After, Smaller
<1>3. next \in Nat /\ next <= n
  BY <1>1, <1>2
<1> HIDE DEF next
<1>4. Resting \in Putting /\ Resting.pc = "idle"
  BY DEF Resting, Putting
<1>5. /\ r \in Putting /\ r.pc = "put" /\ r.size = n /\ r.p = next /\ r.id = Len(sent')
  BY <1>1, <1>3 DEF Putting
<1> HIDE DEF r
<1>6. /\ next = n => put'[w] = Resting
      /\ next # n => put'[w] = r
      /\ \A v \in Writer : v # w => put'[v] = put[v]
      /\ put' \in [Writer -> Putting]
  BY <1>1, <1>4, <1>5 DEF r, next
<1>7. seg' \in Segment
  BY <1>1 DEF Segment
<1>8. TypeOK'
  BY <1>6, <1>7 DEF IInv, TypeOK
<1>9. \A v \in Writer : Mid(v)' <=> v = w /\ next # n
  <2>1. ASSUME NEW v \in Writer, v # w PROVE ~Mid(v)'
    BY <1>6, <2>1 DEF Mid
  <2>2. next = n => ~Mid(w)'
    BY <1>4, <1>6 DEF Mid
  <2>3. next # n => Mid(w)'
    <3>1. next # n => next > 0
      BY <1>1, <1>2
    <3>2. next # n => put'[w].pc = "put" /\ put'[w].p = next
      BY <1>5, <1>6
    <3> QED BY <3>1, <3>2 DEF Mid
  <2> QED BY <2>1, <2>2, <2>3
<1>10. Writers'
  <2>1. ASSUME NEW v \in Writer, put'[v].pc = "put"
        PROVE  Lock[v] \in held' /\ put'[v].size \in Size /\ put'[v].p <= put'[v].size
    <3>1. CASE v = w
      <4>1. next # n /\ put'[v] = r
        BY <1>4, <1>6, <2>1, <3>1
      <4>2. held' = held
        BY <4>1 DEF next
      <4> QED BY <1>3, <1>5, <3>1, <4>1, <4>2 DEF IInv, Writers
    <3>2. CASE v # w
      <4>1. put'[v] = put[v] /\ Lock[v] # Lock[w]
        BY <1>6, <2>1, <3>2 DEF IInv, Writers
      <4> QED BY <2>1, <4>1 DEF IInv, Writers
    <3> QED BY <3>1, <3>2
  <2>2. ASSUME NEW v \in Writer, Mid(v)'
        PROVE  /\ Busy' /\ put'[v].p >= Chunk /\ put'[v].p < put'[v].size
               /\ put'[v].size = Last' /\ put'[v].id = Len(sent)'
    <3>1. v = w /\ put'[v] = r /\ next = p + Chunk /\ next < n
      BY <1>2, <1>6, <1>9, <2>2
    <3>2. next >= Chunk
      BY <1>1, <3>1
    <3>3. put'[v].p = next /\ put'[v].size = n /\ put'[v].id = Len(sent')
      BY <1>5, <3>1
    <3> QED BY <3>1, <3>2, <3>3
  <2>3. ASSUME NEW u \in Writer, NEW v \in Writer, put'[v].pc = "put", put'[u].pc = "put", v # u
        PROVE  Lock[v] # Lock[u]
    <3>1. \A x \in Writer : put'[x].pc = "put" => put[x].pc = "put"
      BY <1>6
    <3> QED BY <2>3, <3>1 DEF IInv, Writers
  <2> QED BY <2>1, <2>2, <2>3 DEF Writers
<1>11. Slot'
  <2>1. Read' = p
    BY DEF Read
  <2>2. /\ seg'.guard /\ seg'.id = Len(sent') /\ seg'.size = Last' /\ seg'.off = Read'
    BY <2>1
  <2>3. \A v \in Writer : Mid(v)' => put'[v].p = Read' + Chunk
    BY <1>2, <1>5, <1>6, <1>9, <2>1
  <2>4. Last' - Read' > Chunk => \E v \in Writer : Mid(v)'
    BY <1>1, <1>2, <1>9, <2>1
  <2> QED BY <2>2, <2>3, <2>4 DEF Slot
<1> QED BY <1>8, <1>10, <1>11 DEF IInv

(* Every turn of the loop of put keeps the invariant.                      *)
LEMMA PutChunkStep ==
  ASSUME IInv, NEW w \in Writer, PutChunk(w)
  PROVE  IInv'
<1> DEFINE n == put[w].size
           p == put[w].p
<1>1. /\ put[w].pc = "put" /\ ~seg.guard /\ put[w] \in Putting
      /\ n \in Size /\ p <= n /\ Chunk \in Nat /\ sent \in Seq(Size)
  BY SizeAssumption DEF PutChunk, SlotFree, IInv, TypeOK, Writers
<1>2. n \in Nat /\ p \in Nat
  BY <1>1 DEF Putting
<1>3. \A v \in Writer : Mid(v) => v = w
  BY <1>1, OneMid DEF IInv
<1>4. CASE p = 0
  <2>1. ~Mid(w)
    BY <1>4 DEF Mid
  <2>2. ~Busy
    BY <1>1, <1>3, <2>1 DEF IInv, Slot
  <2>3. Len(sent) = Len(rcvd) /\ rd.pc = "idle"
    BY <2>2 DEF IInv, Slot
  <2>4. sent' = Append(sent, n) /\ UNCHANGED <<rd, rcvd>>
    BY <1>4 DEF PutChunk
  <2>5. /\ Len(sent) \in Nat /\ Len(sent') = Len(sent) + 1 /\ sent' \in Seq(Size)
        /\ \A i \in 1..Len(sent) : sent'[i] = sent[i]
        /\ sent'[Len(sent) + 1] = n
    BY <1>1, <2>4
  <2>6. Busy' /\ Last' = n /\ Read = 0
    BY <2>3, <2>4, <2>5 DEF Busy, Last, Read
  <2>7. Reader'
    BY <2>3, <2>4 DEF IInv, Reader
  <2>8. Intact'
    <3>1. \A i \in DOMAIN rcvd : i \in 1..Len(sent)
      BY <2>3 DEF IInv, TypeOK
    <3>2. \A i \in DOMAIN rcvd : i <= Len(sent') /\ sent'[i] = sent[i]
      BY <2>5, <3>1
    <3>3. ASSUME NEW i \in DOMAIN rcvd'
          PROVE  i <= Len(sent') /\ rcvd'[i].size = sent'[i] /\ Whole(rcvd'[i].buf, i, sent'[i])
      BY <2>4, <3>2 DEF IInv, Intact
    <3> QED BY <3>3 DEF Intact, Whole
  <2>9. /\ seg' = [guard |-> TRUE, size |-> n, id |-> Len(sent'), off |-> p]
        /\ put' = [put EXCEPT ![w] = IF After(n, p) = n THEN Resting
                                     ELSE [@ EXCEPT !.id = Len(sent'), !.p = After(n, p)]]
        /\ held' = IF After(n, p) = n THEN held \ {Lock[w]} ELSE held
    BY <1>4, <2>5 DEF PutChunk, After
  <2>10. p < n \/ (p = 0 /\ n = 0)
    BY <1>1, <1>2, <1>4
  <2>11. put[w].size = n /\ p = Read
    BY <1>4, <2>6
  <2> HIDE DEF n, p
  <2> QED BY <1>1, <1>2, <1>3, <2>4, <2>5, <2>6, <2>7, <2>8, <2>9, <2>10, <2>11, FillStep
<1>5. CASE p # 0
  <2>1. Mid(w)
    BY <1>1, <1>2, <1>5 DEF Mid
  <2>2. Busy /\ n = Last /\ p < n /\ put[w].id = Len(sent)
    BY <2>1 DEF IInv, Writers
  <2>3. rd.pc = "get" /\ \E v \in Writer : Mid(v) /\ put[v].p = rd.p
    BY <1>1, <2>2 DEF IInv, Slot
  <2>4. p = rd.p /\ Read = p
    BY <1>3, <2>3 DEF Read
  <2>5. UNCHANGED <<rd, rcvd, sent>>
    BY <1>5 DEF PutChunk
  <2>6. Busy' /\ Last' = n /\ Len(sent') = Len(sent) /\ sent' \in Seq(Size)
    BY <1>1, <2>2, <2>5 DEF Busy, Last
  <2>7. Reader'
    BY <2>3, <2>5 DEF IInv, Reader, Last, Pieces
  <2>8. Intact'
    BY <2>5 DEF IInv, Intact, Whole
  <2>9. /\ seg' = [guard |-> TRUE, size |-> n, id |-> Len(sent'), off |-> p]
        /\ put' = [put EXCEPT ![w] = IF After(n, p) = n THEN Resting
                                     ELSE [@ EXCEPT !.id = Len(sent'), !.p = After(n, p)]]
        /\ held' = IF After(n, p) = n THEN held \ {Lock[w]} ELSE held
    BY <1>5, <2>2, <2>5 DEF PutChunk, After
  <2>10. put[w].size = n
    OBVIOUS
  <2> HIDE DEF n, p
  <2> QED BY <1>1, <1>2, <1>3, <2>2, <2>4, <2>5, <2>6, <2>7, <2>8, <2>9, <2>10, FillStep
<1> QED BY <1>4, <1>5

-----------------------------------------------------------------------------
(* The invariant holds of the segment createBuffer makes.                  *)
LEMMA InitInv == Init => IInv
<1> SUFFICES ASSUME Init PROVE IInv
  OBVIOUS
<1>1. TypeOK
  BY DEF Init, TypeOK, Segment, Putting, Getting, Resting, Waiting
<1>2. Writers
  BY DEF Init, Writers, Mid, Resting
<1>3. Slot /\ Reader
  BY DEF Init, Slot, Reader, Busy, Waiting
<1>4. Intact
  BY DEF Init, Intact
<1> QED BY <1>1, <1>2, <1>3, <1>4 DEF IInv

(* Every step keeps the invariant.                                         *)
LEMMA NextInv ==
  ASSUME FloatIsExact
  PROVE  IInv /\ [Next]_vars => IInv'
<1> SUFFICES ASSUME IInv, [Next]_vars PROVE IInv'
  OBVIOUS
<1>1. CASE UNCHANGED vars
  BY <1>1 DEF vars, IInv, TypeOK, Writers, Slot, Reader, Intact, Whole, Mid, Busy, Last,
     Read, Pieces
<1>2. CASE Terminated
  BY <1>1, <1>2 DEF Terminated
<1> QED BY <1>1, <1>2, PutStartStep, PutChunkStep, GetSizeStep, GetEOSStep, GetStep DEF Next

(* The invariant holds at all times.                                       *)
LEMMA Invariance ==
  ASSUME FloatIsExact
  PROVE  Spec => []IInv
<1>1. Init => IInv
  BY InitInv
<1>2. IInv /\ [Next]_vars => IInv'
  BY NextInv
<1> QED BY <1>1, <1>2, PTL DEF Spec

(* For any chunk size, any writers and any sizes that float represents     *)
(* exactly, get returns the messages that put was given, whole and in      *)
(* order, and the segment and both loops stay within their types.          *)
THEOREM MessagesIntact ==
  ASSUME FloatIsExact
  PROVE  Spec => [](TypeOK /\ Intact)
<1>1. IInv => TypeOK /\ Intact
  BY DEF IInv
<1> QED BY <1>1, Invariance, PTL

(* Under the same hypothesis the size that getsize returned is the size of *)
(* the message the following get copies.                                   *)
THEOREM ProbeIsExact ==
  ASSUME FloatIsExact
  PROVE  Spec => []ProbeHolds
<1>1. IInv => ProbeHolds
  <2> SUFFICES ASSUME IInv, rd.pc = "probed" PROVE ProbeHolds
    BY DEF ProbeHolds
  <2>1. seg.guard /\ rd.size = Last /\ Busy /\ Read = 0
    BY DEF IInv, Reader, Slot, Read
  <2> QED BY <2>1 DEF IInv, Slot, ProbeHolds, Busy
<1> QED BY <1>1, Invariance, PTL

-----------------------------------------------------------------------------
(* The place of the abstract channel holds the message in progress.        *)
LEMMA PlaceIs ==
  ASSUME IInv
  PROVE  OnTheWay = IF Busy THEN <<Last>> ELSE <<>>
<1>1. /\ sent \in Seq(Size) /\ Len(sent) \in Nat /\ Len(rcvd) \in Nat
      /\ Busy \/ Len(sent) = Len(rcvd)
  BY DEF IInv, TypeOK, Slot
<1>2. CASE Busy
  <2>1. Len(rcvd) + 1 = Len(sent) /\ Len(sent) \in 1..Len(sent)
    BY <1>1, <1>2 DEF Busy
  <2>2. SubSeq(sent, Len(sent), Len(sent)) = <<sent[Len(sent)]>>
    <3> DEFINE L == Len(sent)
               q == SubSeq(sent, L, L)
    <3>1. L \in Int /\ \A i \in L..L : sent[i] \in Size
      BY <1>1, <2>1
    <3> HIDE DEF L
    <3>2. q \in Seq(Size) /\ Len(q) = 1 /\ q[1] = sent[L]
      BY <3>1, SubSeqProperties
    <3>3. sent[L] \in Size
      BY <3>1
    <3> HIDE DEF q
    <3>4. q = <<sent[L]>>
      BY <3>2, <3>3
    <3> QED BY <3>4 DEF q, L
  <2> QED BY <1>2, <2>1, <2>2 DEF OnTheWay, Last
<1>3. CASE ~Busy
  <2>1. Len(sent) = Len(rcvd)
    BY <1>1, <1>3
  <2>2. SubSeq(sent, Len(sent) + 1, Len(sent)) = <<>>
    BY <1>1
  <2> QED BY <1>3, <2>1, <2>2 DEF OnTheWay
<1> QED BY <1>2, <1>3

(* Receiving a message of size n.                                          *)
LEMMA ReturnedAppend ==
  ASSUME TypeOK, NEW n \in Nat, NEW buf \in Seq(Piece),
         rcvd' = Append(rcvd, [size |-> n, buf |-> buf])
  PROVE  Returned' = Append(Returned, n)
<1> DEFINE T == [size : Nat, buf : Seq(Piece)]
           m == [size |-> n, buf |-> buf]
<1>1. rcvd \in Seq(T) /\ m \in T
  BY DEF TypeOK
<1> HIDE DEF T
<1>2. /\ Len(rcvd) \in Nat /\ DOMAIN rcvd = 1..Len(rcvd) /\ DOMAIN rcvd' = 1..(Len(rcvd) + 1)
      /\ \A i \in 1..Len(rcvd) : rcvd'[i] = rcvd[i]
      /\ rcvd'[Len(rcvd) + 1] = m
  BY <1>1
<1>3. Returned = [i \in 1..Len(rcvd) |-> rcvd[i].size]
  BY <1>2 DEF Returned
<1>4. Append(Returned, n) = [i \in 1..(Len(rcvd) + 1) |->
                               IF i = Len(rcvd) + 1 THEN n ELSE rcvd[i].size]
  BY <1>2, <1>3
<1>5. Returned' = [i \in 1..(Len(rcvd) + 1) |-> rcvd'[i].size]
  BY <1>2 DEF Returned
<1>6. \A i \in 1..(Len(rcvd) + 1) :
        rcvd'[i].size = IF i = Len(rcvd) + 1 THEN n ELSE rcvd[i].size
  BY <1>2
<1> QED BY <1>4, <1>5, <1>6

(* Every step is a step of the abstract channel, or changes nothing there. *)
LEMMA Refines ==
  ASSUME IInv, IInv', Next
  PROVE  [Channel!Next]_(Channel!vars)
<1>1. /\ OnTheWay = (IF Busy THEN <<Last>> ELSE <<>>)
      /\ OnTheWay' = (IF Busy' THEN <<Last'>> ELSE <<>>)
  <2>1. OnTheWay = IF Busy THEN <<Last>> ELSE <<>>
    BY PlaceIs
  <2>2. (OnTheWay = IF Busy THEN <<Last>> ELSE <<>>)'
    BY PlaceIs, PTL
  <2> QED BY <2>1, <2>2
<1>2. CASE UNCHANGED <<sent, rcvd>>
  BY <1>2 DEF OnTheWay, Returned, Channel!vars
<1>3. ASSUME NEW w \in Writer, PutChunk(w), UNCHANGED rcvd, ~UNCHANGED sent
      PROVE  Channel!Next
  <2>1. put[w].p = 0 /\ sent' = Append(sent, put[w].size) /\ UNCHANGED rcvd
    BY <1>3 DEF PutChunk
  <2>2. /\ put[w].size \in Size /\ sent \in Seq(Size) /\ Len(sent) \in Nat /\ Len(rcvd) \in Nat
        /\ Busy \/ Len(sent) = Len(rcvd)
    BY <1>3 DEF PutChunk, IInv, Writers, TypeOK, Slot
  <2>3. Len(sent') = Len(sent) + 1 /\ sent'[Len(sent) + 1] = put[w].size
    BY <2>1, <2>2
  <2>4. Busy' \/ Len(sent') = Len(rcvd')
    BY DEF IInv, Slot
  <2>5. Busy' /\ ~Busy /\ Last' = put[w].size
    BY <2>1, <2>2, <2>3, <2>4 DEF Busy, Last
  <2>6. OnTheWay = <<>> /\ OnTheWay' = <<put[w].size>>
    BY <1>1, <2>5
  <2>7. Returned' = Returned
    BY <2>1 DEF Returned
  <2> QED BY <2>2, <2>6, <2>7 DEF Channel!Next, Channel!Put
<1>4. ASSUME NEW buf \in Seq(Piece), Busy, rcvd' = Append(rcvd, [size |-> Last, buf |-> buf]),
             UNCHANGED sent
      PROVE  Channel!Next
  <2>1. Last \in Nat
    BY <1>4, LastType DEF IInv
  <2>2. Returned' = Append(Returned, Last)
    BY <1>4, <2>1, ReturnedAppend DEF IInv
  <2>3. ~Busy'
    <3>1. rcvd \in Seq([size : Nat, buf : Seq(Piece)]) /\ Len(sent) = Len(rcvd) + 1
      BY <1>4 DEF IInv, TypeOK, Busy
    <3>2. Len(rcvd') = Len(rcvd) + 1 /\ Len(rcvd) \in Nat
      BY <1>4, <3>1
    <3> QED BY <1>4, <3>1, <3>2 DEF Busy
  <2>4. OnTheWay = <<Last>> /\ OnTheWay' = <<>>
    BY <1>1, <1>4, <2>3
  <2>5. OnTheWay # <<>> /\ OnTheWay[1] = Last
    BY <2>4
  <2> QED BY <2>2, <2>4, <2>5 DEF Channel!Next, Channel!Get
<1>5. CASE GetEOS
  <2>1. Busy /\ Last = 0 /\ <<>> \in Seq(Piece)
    BY <1>5 DEF GetEOS, IInv, Slot
  <2> QED BY <1>4, <1>5, <2>1 DEF GetEOS
<1>6. ASSUME NEW k, NEW p, NEW buf \in Seq(Piece), seg.guard, p \in Nat, p < Last,
             Copy(Last, k, p, buf)
      PROVE  Channel!Next \/ UNCHANGED <<sent, rcvd>>
  <2> DEFINE x == [id |-> seg.id, off |-> seg.off, len |-> Smaller(Last - p, Chunk)]
  <2>1. Busy /\ UNCHANGED sent
    BY <1>6 DEF Copy, IInv, Slot
  <2>2. rcvd' = rcvd \/ rcvd' = Append(rcvd, [size |-> Last, buf |-> Append(buf, x)])
    BY <1>6 DEF Copy
  <2>3. CASE rcvd' = rcvd
    BY <2>1, <2>3
  <2>4. CASE rcvd' # rcvd
    <3>1. rcvd' = Append(rcvd, [size |-> Last, buf |-> Append(buf, x)])
      BY <2>2, <2>4
    <3>2. Append(buf, x) \in Seq(Piece)
      <4>1. seg.id \in Nat /\ seg.off \in Nat /\ Chunk \in Nat /\ Last \in Nat
        BY <2>1, LastType, SizeAssumption DEF IInv, TypeOK, Segment
      <4>2. Smaller(Last - p, Chunk) \in Nat
        BY <1>6, <4>1 DEF Smaller
      <4>3. x \in Piece
        BY <4>1, <4>2 DEF Piece
      <4> QED BY <4>3
    <3> QED BY <1>4, <2>1, <3>1, <3>2
  <2> QED BY <2>3, <2>4
<1>7. CASE GetFirst
  <2>1. /\ Copy(Last, NMsgs(Last), 0, <<>>) /\ seg.guard /\ Last # 0 /\ Busy
        /\ <<>> \in Seq(Piece) /\ 0 \in Nat
    BY <1>7 DEF GetFirst, IInv, Slot
  <2>2. 0 < Last
    BY <2>1, LastType DEF IInv
  <2> QED BY <1>2, <1>6, <2>1, <2>2
<1>8. CASE GetNext
  <2>1. /\ Copy(Last, rd.nmsgs, rd.p, rd.buf) /\ seg.guard /\ rd.p < Last
        /\ rd.buf \in Seq(Piece) /\ rd.p \in Nat
    BY <1>8 DEF GetNext, IInv, Reader, TypeOK, Getting
  <2> QED BY <1>2, <1>6, <2>1
<1>9. ASSUME NEW w \in Writer, PutChunk(w)
      PROVE  [Channel!Next]_(Channel!vars)
  BY <1>2, <1>3, <1>9 DEF PutChunk
<1>10. GetSize \/ Terminated \/ (\E w \in Writer, n \in Size : PutStart(w, n)) =>
         UNCHANGED <<sent, rcvd>>
  BY DEF GetSize, Terminated, vars, PutStart
<1> QED BY <1>2, <1>5, <1>7, <1>8, <1>9, <1>10 DEF Next

(* Under the same hypothesis the buffer implements the one-place channel   *)
(* of whole messages.                                                      *)
THEOREM ImplementsChannel ==
  ASSUME FloatIsExact
  PROVE  Spec => IsChannel
<1>1. Init => Channel!Init
  <2> SUFFICES ASSUME Init PROVE OnTheWay = <<>> /\ Returned = <<>>
    BY DEF Channel!Init
  <2>1. IInv /\ ~Busy
    BY InitInv DEF Init, Busy
  <2>2. OnTheWay = <<>>
    BY <2>1, PlaceIs
  <2>3. Returned = <<>>
    BY DEF Init, Returned
  <2> QED BY <2>2, <2>3
<1>2. IInv /\ IInv' /\ [Next]_vars => [Channel!Next]_(Channel!vars)
  <2>1. UNCHANGED vars => UNCHANGED (Channel!vars)
    BY DEF vars, Channel!vars, OnTheWay, Returned
  <2> QED BY <2>1, Refines
<1> QED BY <1>1, <1>2, Invariance, PTL DEF Spec, IsChannel, Channel!Spec
=============================================================================
