--------------------------- MODULE ShmConnProofs ----------------------------
(***************************************************************************)
(* ShmConn, for any number of connections, callers and messages: update    *)
(* looks into mapped buffers only (PeekIsMapped), a connection that both   *)
(* ends have closed leaves no name (NoneLeft), and with a number of its    *)
(* own every connection is opened by both ends (OpensItsOwn).              *)
(***************************************************************************)
EXTENDS ShmConn, FiniteSetTheorems, TLAPS

(***************************************************************************)
(* The inductive invariant, in parts.                                      *)
(***************************************************************************)
(* Nobody has this end of the connection yet.                              *)
Unmade(c, p) == h[c][p] = NewHandle /\ user[p][c] = "none" /\ queue[p][c] = 0

(* Every connection has a number of its own.                               *)
Roomy == limit >= Cardinality(Conn)

(* A name is that of the connection it was made for, and a process counts  *)
(* the connections it makes.                                               *)
MadeBy(p) == {c \in Conn : Caller[c] = p /\ id[c] # NoId}

Numbers ==
    /\ \A p \in Proc, d \in Dir, i \in Ids :
         names[p][d][i] # NoConn => Caller[names[p][d][i]] = p /\ id[names[p][d][i]] = i
    /\ \A p \in Proc : shmconnid[p] = Cardinality(MadeBy(p))
    /\ Roomy => /\ \A c \in Conn : id[c] # NoId => id[c] < shmconnid[Caller[c]]
                /\ \A c, d \in Conn : /\ Caller[c] = Caller[d] /\ id[c] = id[d]
                                      /\ id[c] # NoId
                                      => c = d

(* A buffer that is not mapped was closed, and before that the table       *)
(* forgot the handle.                                                      *)
EndAt(c, p) ==
    /\ h[c][p].reg => h[c][p].in # NoConn
    /\ h[c][p].to_manage => h[c][p].reg
    /\ h[c][p].in = NoConn => h[c][p].closed_rd \/ Unmade(c, p)
    /\ h[c][p].out = NoConn => h[c][p].closed_wr \/ Unmade(c, p)
    /\ h[c][p].reg /\ h[c][p].closed_rd => At(p, "notify") /\ main[p].c = c
    /\ id[c] = NoId => Unmade(c, p)

Ends == \A c \in Conn, p \in Proc : EndAt(c, p)

(* What the program's thread is in the middle of.                          *)
Asking(p) == main[p].pc \in {"request", "insert"}
Closing(p) == main[p].pc \in {"put", "notify", "unmap", "drain"}

MainAt(p) ==
    /\ main[p].c # NoConn <=> Asking(p) \/ Closing(p)
    /\ Asking(p) => /\ Caller[main[p].c] = p /\ id[main[p].c] # NoId
                    /\ h[main[p].c][p] = [NewHandle EXCEPT !.in = main[p].c, !.out = main[p].c]
    /\ ~Closing(p) => main[p].then = "idle"
    /\ main[p].pc \notin {"end", "drain"} /\ main[p].then = "idle" => main[p].todo = {}
    /\ Closing(p) => ~Unmade(main[p].c, p)
    /\ At(p, "put") => /\ main[p].then \in {"idle", "drain"}
                       /\ main[p].what = "msg" => main[p].then = "idle"
                       /\ main[p].then = "drain" => h[main[p].c][p].reg
    /\ At(p, "notify") => /\ h[main[p].c][p].closed_rd \/ h[main[p].c][p].closed_wr
                          /\ main[p].then = "drain" => /\ h[main[p].c][p].reg
                                                       /\ ~h[main[p].c][p].closed_rd
    /\ At(p, "unmap") => /\ h[main[p].c][p].closed_rd /\ ~h[main[p].c][p].reg
                         /\ main[p].then # "drain"
    /\ At(p, "drain") => h[main[p].c][p].closed_wr /\ h[main[p].c][p].reg
    /\ \A c \in main[p].todo : h[c][p].reg /\ ~h[c][p].closed_rd /\ main[p].c # c

(* What the IO thread is in the middle of.                                 *)
IoThreadAt(p) ==
    /\ io[p].c # NoConn <=> IoAt(p, "handshake")
    /\ IoAt(p, "handshake") => /\ Callee(io[p].c) = p /\ main[p].c # io[p].c
                               /\ h[io[p].c][p].reg /\ ~h[io[p].c][p].closed_rd
                               /\ user[p][io[p].c] = "none" /\ queue[p][io[p].c] = 0
    /\ main[p].pc \in {"end", "drain", "done"} \/ main[p].then # "idle" => IoAt(p, "exited")

Threads == \A p \in Proc : MainAt(p) /\ IoThreadAt(p)

(* A request is sent once, to a process that has no handle of it yet.      *)
Pending(c) == \/ At(Caller[c], "request") /\ main[Caller[c]].c = c
              \/ connbuff[Callee(c)] = c

Requests ==
    /\ \A p \in Proc : Requested(p) => /\ Callee(connbuff[p]) = p /\ id[connbuff[p]] # NoId
                                       /\ connbuff[p] \in Conn
    /\ \A p \in Proc : At(p, "request") => connbuff[Callee(main[p].c)] # main[p].c
    /\ \A c \in Conn : Pending(c) => Unmade(c, Callee(c))

(* Who made a segment removes its name when it closes it.                  *)
LeftAt(c) ==
    /\ h[c][Caller[c]].in = NoConn /\ h[c][Caller[c]].closed_rd =>
         names[Caller[c]]["in"][id[c]] # c
    /\ h[c][Caller[c]].out = NoConn /\ h[c][Caller[c]].closed_wr =>
         names[Caller[c]]["out"][id[c]] # c

Left == \A c \in Conn : LeftAt(c)

(* Until the listener takes a request, the handshake is in the segment or  *)
(* about to be put there, and so the caller can neither close nor read.    *)
Greets(c) == main[Caller[c]].c = c /\ (Asking(Caller[c]) \/ (At(Caller[c], "put")
                                                              /\ main[Caller[c]].what = "msg"))

WaitingAt(c) ==
    /\ \A d \in Dir : names[Caller[c]][d][id[c]] = c
    /\ h[c][Caller[c]].in = c /\ h[c][Caller[c]].out = c
    /\ ~h[c][Caller[c]].closed_rd /\ ~h[c][Caller[c]].closed_wr
    /\ h[c][Caller[c]].probed = "none"
    /\ slot[c]["in"] = "empty"
    /\ slot[c]["out"] = "msg" \/ Greets(c)

Own ==
    Roomy =>
      /\ \A c \in Conn, p \in Proc : {h[c][p].in, h[c][p].out} \subseteq {c, NoConn}
      /\ \A c \in Conn : id[c] = NoId => \A d \in Dir : slot[c][d] = "empty"
      /\ \A c \in Conn : Pending(c) => WaitingAt(c)
      /\ missing = {}

Inv == TypeOK /\ Numbers /\ Ends /\ Threads /\ Requests /\ Left /\ Own

(***************************************************************************)
(* A step of process p that is about connection c: no other end changes,   *)
(* no request comes or goes, and at most the names of c are removed.       *)
(***************************************************************************)
Local(c, p) ==
    /\ UNCHANGED <<limit, shmconnid, id, connbuff, missing>>
    /\ \A d \in Conn, x \in Proc : d # c \/ x # p => h'[d][x] = h[d][x]
    /\ \A d \in Conn, x \in Proc : Unmade(d, x)' <=> Unmade(d, x)
    /\ \A x \in Proc : x # p => /\ main'[x] = main[x] /\ io'[x] = io[x]
                                /\ user'[x] = user[x] /\ queue'[x] = queue[x]
    /\ \A x \in Proc, d \in Dir, i \in Ids :
         names'[x][d][i] = names[x][d][i] \/ (names'[x][d][i] = NoConn /\ x = Caller[c]
                                              /\ i = id[c])
    /\ \/ main'[p] = main[p]
       \/ main[p].pc # "request" /\ main'[p].pc # "request" /\ main[p].c \in {c, NoConn}
    /\ h'[c][p].in \in {h[c][p].in, NoConn} /\ h'[c][p].out \in {h[c][p].out, NoConn}
    /\ Roomy => \A d \in Conn : slot'[d] = slot[d] \/ (d = c /\ id[c] # NoId)

-----------------------------------------------------------------------------
(***************************************************************************)
(* Lemmas about the state.                                                 *)
(***************************************************************************)
(* There are two processes, and each is the other of the other.            *)
LEMMA TwoProcs ==
  ASSUME NEW p \in Proc
  PROVE  /\ Other(p) \in Proc /\ Other(p) # p /\ Other(Other(p)) = p
         /\ \A q \in Proc : q = p \/ q = Other(p)
<1>1. PICK a, b \in Proc : a # b /\ Proc = {a, b}
  BY ProcAssumption
<1>2. \A r \in Proc : \E q \in Proc : q # r
  BY <1>1
<1>3. \A r \in Proc : Other(r) \in Proc /\ Other(r) # r
  BY <1>2 DEF Other
<1> QED BY <1>1, <1>3

(* The two ends of a connection are in different processes.                *)
LEMMA TwoEnds ==
  ASSUME NEW c \in Conn
  PROVE  /\ Caller[c] \in Proc /\ Callee(c) \in Proc /\ Callee(c) # Caller[c]
         /\ \A p \in Proc : p = Caller[c] \/ p = Callee(c)
<1>1. Caller[c] \in Proc
  BY CallerAssumption
<1> QED BY <1>1, TwoProcs DEF Callee

(* The numbers of connections.                                             *)
LEMMA Cards ==
  /\ Cardinality(Conn) \in Nat /\ NoId \in Nat /\ NoId = Cardinality(Conn)
  /\ Ids \subseteq Nat /\ NoId \notin Ids
<1>1. Cardinality(Conn) \in Nat
  BY ConnAssumption, FS_CardinalityType
<1> QED BY <1>1 DEF NoId, Ids

PC == {"idle", "request", "insert", "put", "notify", "unmap", "join", "end", "drain", "done"}
Thread == [pc : PC, c : Segment, then : {"idle", "drain", "end"}, what : {"msg", "eos"},
           todo : SUBSET Conn]
IoState == [pc : {"start", "handshake", "poll", "exited"}, c : Segment]

(* The parts of a well-typed state.                                        *)
LEMMA Parts ==
  ASSUME TypeOK
  PROVE  /\ \A c \in Conn, p \in Proc :
              /\ h[c][p] \in HandleSHM
              /\ h[c][p].in \in Segment /\ h[c][p].out \in Segment
              /\ h[c][p].reg \in BOOLEAN /\ h[c][p].to_manage \in BOOLEAN
              /\ h[c][p].probed \in {"none", "msg", "eos"}
              /\ h[c][p].closed_rd \in BOOLEAN /\ h[c][p].closed_wr \in BOOLEAN
              /\ queue[p][c] \in 0..MaxQueue /\ user[p][c] \in {"none", "held", "given"}
         /\ \A p \in Proc : main[p] \in Thread /\ io[p] \in IoState
         /\ \A p \in Proc :
              /\ main[p].pc \in PC /\ main[p].c \in Segment /\ main[p].todo \subseteq Conn
              /\ main[p].then \in {"idle", "drain", "end"} /\ main[p].what \in {"msg", "eos"}
              /\ io[p].pc \in {"start", "handshake", "poll", "exited"} /\ io[p].c \in Segment
         /\ \A c \in Conn : id[c] \in Ids \union {NoId}
         /\ \A p \in Proc, d \in Dir, i \in Ids : names[p][d][i] \in Segment
         /\ \A c \in Conn, d \in Dir : slot[c][d] \in {"empty", "msg", "eos"}
<1>1. \A c \in Conn, p \in Proc : h[c][p] \in HandleSHM
  BY DEF TypeOK
<1>2. \A c \in Conn, p \in Proc :
        /\ h[c][p].in \in Segment /\ h[c][p].out \in Segment
        /\ h[c][p].reg \in BOOLEAN /\ h[c][p].to_manage \in BOOLEAN
        /\ h[c][p].probed \in {"none", "msg", "eos"}
        /\ h[c][p].closed_rd \in BOOLEAN /\ h[c][p].closed_wr \in BOOLEAN
  BY <1>1 DEF HandleSHM
<1>3. \A c \in Conn, p \in Proc :
        queue[p][c] \in 0..MaxQueue /\ user[p][c] \in {"none", "held", "given"}
  BY DEF TypeOK
<1>4. \A p \in Proc : main[p] \in Thread /\ io[p] \in IoState
  BY DEF TypeOK, Thread, PC, IoState
<1>5. \A p \in Proc :
        /\ main[p].pc \in PC /\ main[p].c \in Segment /\ main[p].todo \subseteq Conn
        /\ main[p].then \in {"idle", "drain", "end"} /\ main[p].what \in {"msg", "eos"}
        /\ io[p].pc \in {"start", "handshake", "poll", "exited"} /\ io[p].c \in Segment
  BY <1>4 DEF Thread, IoState
<1>6. \A c \in Conn : id[c] \in Ids \union {NoId}
  BY DEF TypeOK
<1>7. \A p \in Proc, d \in Dir, i \in Ids : names[p][d][i] \in Segment
  BY DEF TypeOK
<1>8. \A c \in Conn, d \in Dir : slot[c][d] \in {"empty", "msg", "eos"}
  BY DEF TypeOK
<1> QED BY <1>1, <1>2, <1>3, <1>4, <1>5, <1>6, <1>7, <1>8

(* A change of what the program's thread of one process does.              *)
LEMMA MainSet ==
  ASSUME TypeOK, NEW p \in Proc, NEW r \in Thread, main' = [main EXCEPT ![p] = r]
  PROVE  /\ main' \in [Proc -> Thread] /\ main'[p] = r
         /\ \A x \in Proc : x # p => main'[x] = main[x]
BY DEF TypeOK, Thread, PC

(* What Goto does.                                                         *)
LEMMA GotoSet ==
  ASSUME TypeOK, NEW p \in Proc, NEW l \in PC, Goto(p, l)
  PROVE  /\ main' \in [Proc -> Thread] /\ main'[p].pc = l
         /\ main'[p].c = main[p].c /\ main'[p].then = main[p].then
         /\ main'[p].what = main[p].what /\ main'[p].todo = main[p].todo
         /\ \A x \in Proc : x # p => main'[x] = main[x]
<1> DEFINE r == [main[p] EXCEPT !.pc = l]
<1>1. main[p] \in Thread
  BY Parts
<1>2. /\ r \in Thread /\ r.pc = l /\ r.c = main[p].c /\ r.todo = main[p].todo
      /\ r.then = main[p].then /\ r.what = main[p].what
  BY <1>1 DEF Thread
<1>3. main' = [main EXCEPT ![p] = r]
  BY DEF Goto
<1> HIDE DEF r
<1> QED BY <1>2, <1>3, MainSet

(* What Return does.                                                       *)
LEMMA ReturnSet ==
  ASSUME TypeOK, NEW p \in Proc, Return(p)
  PROVE  /\ main' \in [Proc -> Thread] /\ main'[p].pc = main[p].then
         /\ main'[p].c = NoConn /\ main'[p].then = "idle" /\ main'[p].todo = main[p].todo
         /\ \A x \in Proc : x # p => main'[x] = main[x]
<1> DEFINE r == [Idling EXCEPT !.pc = main[p].then, !.todo = main[p].todo]
<1>1. main[p].then \in {"idle", "drain", "end"} /\ main[p].todo \subseteq Conn
  BY Parts
<1>2. /\ r \in Thread /\ r.pc = main[p].then /\ r.c = NoConn /\ r.then = "idle"
      /\ r.todo = main[p].todo
  BY <1>1 DEF Thread, PC, Idling, Segment
<1>3. main' = [main EXCEPT ![p] = r]
  BY DEF Return
<1> HIDE DEF r
<1> QED BY <1>2, <1>3, MainSet

(* What Call does.                                                         *)
LEMMA CallSet ==
  ASSUME TypeOK, NEW p \in Proc, NEW l \in PC, NEW c \in Conn,
         NEW k \in {"idle", "drain", "end"}, Call(p, l, c, k)
  PROVE  /\ main' \in [Proc -> Thread] /\ main'[p].pc = l /\ main'[p].c = c
         /\ main'[p].then = k /\ main'[p].todo = main[p].todo
         /\ \A x \in Proc : x # p => main'[x] = main[x]
<1> DEFINE r == [main[p] EXCEPT !.pc = l, !.c = c, !.then = k]
<1>1. main[p] \in Thread
  BY Parts
<1>2. r \in Thread /\ r.pc = l /\ r.c = c /\ r.then = k /\ r.todo = main[p].todo
  BY <1>1 DEF Thread, Segment
<1>3. main' = [main EXCEPT ![p] = r]
  BY <1>1 DEF Call, Thread, TypeOK
<1> HIDE DEF r
<1> QED BY <1>2, <1>3, MainSet

(* What CallPut does.                                                      *)
LEMMA CallPutSet ==
  ASSUME TypeOK, NEW p \in Proc, NEW c \in Conn, NEW f \in {"msg", "eos"},
         NEW k \in {"idle", "drain", "end"}, CallPut(p, c, f, k)
  PROVE  /\ main' \in [Proc -> Thread] /\ main'[p].pc = "put" /\ main'[p].c = c
         /\ main'[p].what = f /\ main'[p].then = k /\ main'[p].todo = main[p].todo
         /\ \A x \in Proc : x # p => main'[x] = main[x]
<1> DEFINE r == [main[p] EXCEPT !.pc = "put", !.c = c, !.what = f, !.then = k]
<1>1. main[p] \in Thread
  BY Parts
<1>2. /\ r \in Thread /\ r.pc = "put" /\ r.c = c /\ r.what = f /\ r.then = k
      /\ r.todo = main[p].todo
  BY <1>1 DEF Thread, PC, Segment
<1>3. main' = [main EXCEPT ![p] = r]
  BY <1>1 DEF CallPut, Thread, TypeOK
<1> HIDE DEF r
<1> QED BY <1>2, <1>3, MainSet

(* What IoGoto does.                                                       *)
LEMMA IoGotoSet ==
  ASSUME TypeOK, NEW p \in Proc, NEW l \in {"start", "handshake", "poll", "exited"},
         IoGoto(p, l)
  PROVE  /\ io' \in [Proc -> IoState] /\ io'[p].pc = l /\ io'[p].c = NoConn
         /\ \A x \in Proc : x # p => io'[x] = io[x]
BY DEF TypeOK, IoGoto, IoState, Segment

(* The state of a process that takes no step.                              *)
LEMMA ThreadKept ==
  ASSUME Inv, NEW q \in Proc, main'[q] = main[q], io'[q] = io[q],
         user'[q] = user[q], queue'[q] = queue[q],
         \A d \in Conn : /\ h'[d][q] = h[d][q]
                         /\ id[d] # NoId => id'[d] # NoId
  PROVE  MainAt(q)' /\ IoThreadAt(q)'
<1>1. TypeOK /\ MainAt(q) /\ IoThreadAt(q)
  BY DEF Inv, Threads
<1>2. main[q].c \in Segment /\ io[q].c \in Segment /\ main[q].todo \subseteq Conn
  BY <1>1, Parts
<1>3. \A d \in Conn : Unmade(d, q)' <=> Unmade(d, q)
  BY DEF Unmade
<1>4. MainAt(q)'
  <2>1. CASE main[q].c = NoConn
    BY <1>1, <1>2, <2>1 DEF MainAt, Asking, Closing, At
  <2>2. CASE main[q].c \in Conn
    BY <1>1, <1>2, <1>3, <2>2 DEF MainAt, Asking, Closing, At
  <2> QED BY <1>2, <2>1, <2>2 DEF Segment
<1>5. IoThreadAt(q)'
  <2>1. CASE io[q].c = NoConn
    BY <1>1, <2>1 DEF IoThreadAt, IoAt
  <2>2. CASE io[q].c \in Conn
    BY <1>1, <2>2 DEF IoThreadAt, IoAt
  <2> QED BY <1>2, <2>1, <2>2 DEF Segment
<1> QED BY <1>4, <1>5
(* A connection that is waited for has a number.                           *)
LEMMA PendingHasId ==
  ASSUME Inv, NEW d \in Conn, Pending(d)
  PROVE  id[d] # NoId
<1>1. Threads /\ Requests
  BY DEF Inv
<1>2. CASE At(Caller[d], "request") /\ main[Caller[d]].c = d
  <2>1. Asking(Caller[d])
    BY <1>2 DEF Asking, At
  <2>2. MainAt(Caller[d])
    BY <1>1, TwoEnds DEF Threads
  <2> QED BY <1>2, <2>1, <2>2 DEF MainAt
<1>3. CASE connbuff[Callee(d)] = d
  <2>1. d # "closed" /\ d # "empty"
    BY ConnAssumption
  <2>2. Requested(Callee(d))
    BY <1>3, <2>1 DEF Requested
  <2> QED BY <1>1, <1>3, <2>2, TwoEnds DEF Requests
<1> QED BY <1>2, <1>3 DEF Pending


(* A step that is about one end keeps the invariant if it keeps what is    *)
(* said of that end and of the threads of its process.                     *)
LEMMA LocalKeeps ==
  ASSUME Inv, NEW p \in Proc, NEW c \in Conn, TypeOK', Local(c, p),
         EndAt(c, p)', MainAt(p)', IoThreadAt(p)', LeftAt(c)',
         Roomy /\ Pending(c) => WaitingAt(c)'
  PROVE  Inv'
<1> DEFINE q == Other(p)
<1>1. TypeOK /\ Numbers /\ Ends /\ Threads /\ Requests /\ Left /\ Own
  BY DEF Inv
<1>2. q \in Proc /\ q # p /\ Other(q) = p /\ \A x \in Proc : x = p \/ x = q
  BY TwoProcs
<1>3. /\ limit' = limit /\ shmconnid' = shmconnid /\ id' = id /\ connbuff' = connbuff
      /\ missing' = missing
      /\ \A d \in Conn, x \in Proc : d # c \/ x # p => h'[d][x] = h[d][x]
      /\ \A d \in Conn, x \in Proc : Unmade(d, x)' <=> Unmade(d, x)
      /\ main'[q] = main[q] /\ io'[q] = io[q] /\ user'[q] = user[q] /\ queue'[q] = queue[q]
      /\ \/ main'[p] = main[p]
         \/ main[p].pc # "request" /\ main'[p].pc # "request" /\ main[p].c \in {c, NoConn}
      /\ h'[c][p].in \in {h[c][p].in, NoConn} /\ h'[c][p].out \in {h[c][p].out, NoConn}
  BY <1>2 DEF Local
<1>4. \A x \in Proc, d \in Dir, i \in Ids :
         names'[x][d][i] = names[x][d][i] \/ (names'[x][d][i] = NoConn /\ x = Caller[c]
                                              /\ i = id[c])
  BY DEF Local
<1>5. Roomy => \A d \in Conn : slot'[d] = slot[d] \/ (d = c /\ id[c] # NoId)
  BY DEF Local
<1>6. Roomy' <=> Roomy
  BY <1>3 DEF Roomy
<1>7. Numbers'
  <2>1. \A x \in Proc : MadeBy(x)' = MadeBy(x)
    BY <1>3 DEF MadeBy
  <2>2. \A x \in Proc, d \in Dir, i \in Ids :
         names'[x][d][i] # NoConn => Caller[names'[x][d][i]] = x /\ id'[names'[x][d][i]] = i
    BY <1>1, <1>3, <1>4 DEF Numbers
  <2>3. Roomy => /\ \A d \in Conn : id[d] # NoId => id[d] < shmconnid[Caller[d]]
                 /\ \A d, e \in Conn : /\ Caller[d] = Caller[e] /\ id[d] = id[e]
                                       /\ id[d] # NoId
                                       => d = e
    BY <1>1 DEF Numbers
  <2>4. \A x \in Proc : shmconnid[x] = Cardinality(MadeBy(x))
    BY <1>1 DEF Numbers
  <2> QED BY <1>3, <1>6, <2>1, <2>2, <2>3, <2>4 DEF Numbers
<1>8. Ends'
  <2> SUFFICES ASSUME NEW d \in Conn, NEW x \in Proc, d # c \/ x # p
               PROVE  EndAt(d, x)'
    BY DEF Ends
  <2>1. h'[d][x] = h[d][x] /\ (Unmade(d, x)' <=> Unmade(d, x)) /\ id'[d] = id[d]
    BY <1>3
  <2>2. EndAt(d, x)
    BY <1>1 DEF Ends
  <2>3. h[d][x].reg /\ h[d][x].closed_rd => (At(x, "notify") /\ main[x].c = d)'
    <3>1. CASE x = q
      BY <1>3, <2>2, <3>1 DEF EndAt, At
    <3>2. CASE x = p
      BY <1>3, <2>2, <3>2, ConnAssumption DEF EndAt, At
    <3> QED BY <1>2, <3>1, <3>2
  <2> QED BY <2>1, <2>2, <2>3 DEF EndAt
<1>9. Threads'
  <2>1. MainAt(q)' /\ IoThreadAt(q)'
    BY <1>2, <1>3, ThreadKept
  <2> QED BY <1>2, <2>1 DEF Threads
<1>10. \A d \in Conn : Pending(d)' <=> Pending(d)
  <2> SUFFICES ASSUME NEW d \in Conn PROVE Pending(d)' <=> Pending(d)
    OBVIOUS
  <2>1. At(Caller[d], "request")' /\ main'[Caller[d]].c = d
        <=> At(Caller[d], "request") /\ main[Caller[d]].c = d
    BY <1>2, <1>3, TwoEnds DEF At
  <2> QED BY <1>3, <2>1 DEF Pending
<1>11. Requests'
  <2>1. \A x \in Proc : Requested(x)' => /\ Callee(connbuff'[x]) = x /\ id'[connbuff'[x]] # NoId
                                         /\ connbuff'[x] \in Conn
    BY <1>1, <1>3 DEF Requests, Requested
  <2>2. \A x \in Proc : At(x, "request")' => connbuff'[Callee(main'[x].c)] # main'[x].c
    BY <1>1, <1>2, <1>3 DEF Requests, At
  <2>3. \A d \in Conn : Pending(d)' => Unmade(d, Callee(d))'
    BY <1>1, <1>3, <1>10, TwoEnds DEF Requests
  <2> QED BY <2>1, <2>2, <2>3 DEF Requests, Callee
<1>12. Left'
  <2> SUFFICES ASSUME NEW d \in Conn, d # c PROVE LeftAt(d)'
    BY DEF Left
  <2>1. LeftAt(d) /\ h'[d][Caller[d]] = h[d][Caller[d]] /\ id'[d] = id[d]
    BY <1>1, <1>3, TwoEnds DEF Left
  <2>2. CASE id[d] = NoId
    <3>1. Unmade(d, Caller[d])
      BY <1>1, <2>2, TwoEnds DEF Ends, EndAt
    <3> QED BY <2>1, <3>1 DEF Unmade, NewHandle, LeftAt
  <2>3. CASE id[d] \in Ids
    <3>1. \A k \in Dir : names'[Caller[d]][k][id[d]] \in {names[Caller[d]][k][id[d]], NoConn}
      BY <1>4, <2>3, TwoEnds
    <3> QED BY <2>1, <3>1, ConnAssumption DEF LeftAt, Dir
  <2> QED BY <1>1, <2>2, <2>3, Parts
<1>13. Own'
  <2> SUFFICES ASSUME Roomy PROVE Own'
    BY <1>6 DEF Own
  <2>1. \A d \in Conn, x \in Proc : {h'[d][x].in, h'[d][x].out} \subseteq {d, NoConn}
    BY <1>1, <1>3 DEF Own
  <2>2. \A d \in Conn : id'[d] = NoId => \A k \in Dir : slot'[d][k] = "empty"
    BY <1>1, <1>3, <1>5 DEF Own
  <2>3. ASSUME NEW d \in Conn, Pending(d)' PROVE WaitingAt(d)'
    <3>1. CASE d = c
      BY <1>10, <2>3, <3>1
    <3>2. CASE d # c
      <4>1. WaitingAt(d) /\ id[d] # NoId
        <5>1. Pending(d)
          BY <1>10, <2>3
        <5>2. id[d] # NoId
          BY <5>1, PendingHasId
        <5> QED BY <1>1, <5>1, <5>2 DEF Own
      <4>2. h'[d][Caller[d]] = h[d][Caller[d]] /\ slot'[d] = slot[d] /\ id'[d] = id[d]
        BY <1>3, <1>5, <3>2, TwoEnds
      <4>3. \A k \in Dir : names'[Caller[d]][k][id[d]] = names[Caller[d]][k][id[d]]
        <5>1. id[d] \in Ids /\ Caller[d] \in Proc
          BY <1>1, <4>1, Parts, TwoEnds
        <5>2. ~(Caller[d] = Caller[c] /\ id[d] = id[c])
          BY <1>1, <3>2, <4>1 DEF Numbers
        <5> QED BY <1>4, <5>1, <5>2
      <4>4. Greets(d) => Greets(d)'
        BY <1>2, <1>3, <3>2, TwoEnds, ConnAssumption DEF Greets, Asking, At
      <4> QED BY <4>1, <4>2, <4>3, <4>4 DEF WaitingAt
    <3> QED BY <3>1, <3>2
  <2>4. missing' = {}
    BY <1>1, <1>3 DEF Own
  <2> QED BY <2>1, <2>2, <2>3, <2>4 DEF Own
<1> QED BY <1>7, <1>8, <1>9, <1>11, <1>12, <1>13 DEF Inv

-----------------------------------------------------------------------------
(***************************************************************************)
(* Steps that change what the program's thread does, and no handle.        *)
(***************************************************************************)
(* A program that is in no call starts one, or goes on to another.         *)
LEMMA MainKeeps ==
  ASSUME Inv, NEW p \in Proc, main[p].c = NoConn, ~At(p, "request"), ~At(p, "notify"),
         UNCHANGED <<segments, slot, connbuff, h, queue, user, io, missing>>,
         sent' \in [Proc -> Nat],
         main' \in [Proc -> Thread], \A x \in Proc : x # p => main'[x] = main[x],
         ~At(p, "request")', MainAt(p)', IoThreadAt(p)'
  PROVE  Inv'
<1>1. TypeOK /\ Ends /\ Left /\ Own
  BY DEF Inv
<1>2. PICK c \in Conn : TRUE
  BY ConnAssumption
<1>3. TypeOK'
  BY <1>1 DEF TypeOK, segments, Thread, PC
<1>4. h' = h /\ user' = user /\ queue' = queue /\ names' = names /\ io' = io /\ slot' = slot
      /\ id' = id /\ connbuff' = connbuff
  BY DEF segments
<1>5. \A d \in Conn, x \in Proc : Unmade(d, x)' <=> Unmade(d, x)
  BY <1>4 DEF Unmade
<1>6. Local(c, p)
  BY <1>4, <1>5 DEF Local, segments, At
<1>7. EndAt(c, p)'
  BY <1>1, <1>4, <1>5 DEF Ends, EndAt, At
<1>8. LeftAt(c)'
  BY <1>1, <1>4 DEF Left, LeftAt
<1>9. Roomy /\ Pending(c) => WaitingAt(c)'
  <2> SUFFICES ASSUME Roomy, Pending(c) PROVE WaitingAt(c)'
    OBVIOUS
  <2>1. WaitingAt(c)
    BY <1>1 DEF Own
  <2>2. Greets(c) => Greets(c)'
    BY TwoEnds, ConnAssumption DEF Greets, Asking, At
  <2> QED BY <1>4, <2>1, <2>2 DEF WaitingAt
<1> QED BY <1>3, <1>6, <1>7, <1>8, <1>9, LocalKeeps

(* What is known of a program that is in no call on a connection.          *)
LEMMA NoCall ==
  ASSUME Inv, NEW p \in Proc, main[p].pc \in {"idle", "join", "end"}
  PROVE  /\ main[p].c = NoConn /\ main[p].then = "idle"
         /\ main[p].pc # "end" => main[p].todo = {}
         /\ ~At(p, "request") /\ ~At(p, "notify")
         /\ \A d \in Conn : ~(h[d][p].reg /\ h[d][p].closed_rd)
<1>1. MainAt(p) /\ Ends
  BY DEF Inv, Threads
<1>2. ~Asking(p) /\ ~Closing(p) /\ ~At(p, "request") /\ ~At(p, "notify")
  BY DEF Asking, Closing, At
<1>3. main[p].c = NoConn /\ main[p].then = "idle" /\ (main[p].pc # "end" => main[p].todo = {})
  BY <1>1, <1>2 DEF MainAt
<1>4. \A d \in Conn : ~(h[d][p].reg /\ h[d][p].closed_rd)
  BY <1>1, <1>2 DEF Ends, EndAt
<1> QED BY <1>2, <1>3, <1>4

(* The program calls finalize while it is in no other call.                *)
LEMMA FinalizeKeeps ==
  ASSUME Inv, NEW p \in Proc, Finalize(p)
  PROVE  Inv'
<1>1. TypeOK /\ MainAt(p) /\ IoThreadAt(p)
  BY DEF Inv, Threads
<1>2. /\ main[p].c = NoConn /\ main[p].then = "idle" /\ main[p].todo = {}
      /\ ~At(p, "request") /\ ~At(p, "notify")
  BY NoCall DEF Finalize, Idle, At
<1>3. /\ main' \in [Proc -> Thread] /\ main'[p].pc = "join"
      /\ main'[p].c = main[p].c /\ main'[p].then = main[p].then
      /\ main'[p].todo = main[p].todo
      /\ \A x \in Proc : x # p => main'[x] = main[x]
  BY <1>1, GotoSet DEF Finalize, PC
<1>4. /\ UNCHANGED <<segments, slot, connbuff, h, queue, user, io, missing>>
      /\ sent' \in [Proc -> Nat]
  BY <1>1 DEF Finalize, TypeOK
<1>5. MainAt(p)'
  BY <1>2, <1>3 DEF MainAt, Asking, Closing, At
<1>6. IoThreadAt(p)'
  BY <1>1, <1>2, <1>3, <1>4 DEF IoThreadAt, IoAt
<1>7. ~At(p, "request")'
  BY <1>3 DEF At
<1> QED BY <1>2, <1>3, <1>4, <1>5, <1>6, <1>7, MainKeeps

(* end finds the handles of the table, none of which is closed.            *)
LEMMA JoinKeeps ==
  ASSUME Inv, NEW p \in Proc, Join(p)
  PROVE  Inv'
<1>1. TypeOK /\ MainAt(p) /\ IoThreadAt(p) /\ Ends
  BY DEF Inv, Threads
<1>2. /\ main[p].c = NoConn /\ main[p].then = "idle" /\ ~At(p, "request") /\ ~At(p, "notify")
      /\ \A d \in Conn : ~(h[d][p].reg /\ h[d][p].closed_rd)
  BY NoCall DEF Join, At
<1>3. PICK r : r = [main[p] EXCEPT !.pc = "end", !.todo = {c \in Conn : h[c][p].reg}]
  OBVIOUS
<1>4. main[p] \in Thread
  BY <1>1, Parts
<1>5. /\ r \in Thread /\ r.pc = "end" /\ r.c = NoConn /\ r.then = "idle"
      /\ r.todo = {c \in Conn : h[c][p].reg}
  BY <1>2, <1>3, <1>4 DEF Thread, PC
<1>6. main' = [main EXCEPT ![p] = r]
  BY <1>1, <1>3, <1>4 DEF Join, Thread, TypeOK
<1>7. /\ main' \in [Proc -> Thread] /\ main'[p] = r
      /\ \A x \in Proc : x # p => main'[x] = main[x]
  BY <1>1, <1>5, <1>6, MainSet
<1>8. /\ UNCHANGED <<segments, slot, connbuff, h, queue, user, io, missing>>
      /\ sent' \in [Proc -> Nat]
  BY <1>1 DEF Join, TypeOK
<1>9. MainAt(p)'
  BY <1>2, <1>5, <1>7, <1>8, ConnAssumption DEF MainAt, Asking, Closing, At
<1>10. IoThreadAt(p)'
  BY <1>1, <1>2, <1>5, <1>7, <1>8 DEF IoThreadAt, IoAt, Join
<1>11. ~At(p, "request")'
  BY <1>5, <1>7 DEF At
<1> QED BY <1>2, <1>7, <1>8, <1>9, <1>10, <1>11, MainKeeps

(* end has closed all it found.                                            *)
LEMMA EndDoneKeeps ==
  ASSUME Inv, NEW p \in Proc, EndDone(p)
  PROVE  Inv'
<1>1. TypeOK /\ MainAt(p) /\ IoThreadAt(p)
  BY DEF Inv, Threads
<1>2. /\ main[p].c = NoConn /\ main[p].then = "idle" /\ main[p].todo = {}
      /\ ~At(p, "request") /\ ~At(p, "notify")
  BY NoCall DEF EndDone, At
<1>3. /\ main' \in [Proc -> Thread] /\ main'[p].pc = "done"
      /\ main'[p].c = main[p].c /\ main'[p].then = main[p].then
      /\ main'[p].todo = main[p].todo
      /\ \A x \in Proc : x # p => main'[x] = main[x]
  BY <1>1, GotoSet DEF EndDone, PC
<1>4. /\ UNCHANGED <<segments, slot, connbuff, h, queue, user, io, missing>>
      /\ sent' \in [Proc -> Nat]
  BY <1>1 DEF EndDone, TypeOK
<1>5. MainAt(p)'
  BY <1>2, <1>3 DEF MainAt, Asking, Closing, At
<1>6. IoThreadAt(p)'
  BY <1>1, <1>2, <1>3, <1>4 DEF IoThreadAt, IoAt, EndDone, At
<1>7. ~At(p, "request")'
  BY <1>3 DEF At
<1> QED BY <1>2, <1>3, <1>4, <1>5, <1>6, <1>7, MainKeeps

(* end turns to the next handle, with the IO thread gone.                  *)
LEMMA EndNextKeeps ==
  ASSUME Inv, NEW p \in Proc, EndNext(p)
  PROVE  Inv'
<1>1. TypeOK /\ MainAt(p) /\ IoThreadAt(p) /\ Ends
  BY DEF Inv, Threads
<1>2. /\ main[p].c = NoConn /\ main[p].then = "idle" /\ ~At(p, "request") /\ ~At(p, "notify")
      /\ At(p, "end")
  BY NoCall DEF EndNext, At
<1>3. PICK c \in main[p].todo :
        /\ main' = [main EXCEPT ![p].pc = IF h[c][p].closed_wr THEN "drain" ELSE "put",
                                ![p].c = c, ![p].what = "eos", ![p].then = "drain",
                                ![p].todo = @ \ {c}]
        /\ UNCHANGED <<segments, slot, connbuff, h, queue, user, io, sent, missing>>
  BY DEF EndNext
<1>4. main[p] \in Thread /\ main[p].todo \subseteq Conn /\ c \in Conn
  BY <1>1, Parts
<1>5. PICK l \in {"drain", "put"} : l = IF h[c][p].closed_wr THEN "drain" ELSE "put"
  OBVIOUS
<1>6. PICK r : r = [main[p] EXCEPT !.pc = l, !.c = c, !.what = "eos", !.then = "drain",
                                   !.todo = @ \ {c}]
  OBVIOUS
<1>7. /\ r \in Thread /\ r.pc = l /\ r.c = c /\ r.then = "drain" /\ r.what = "eos"
      /\ r.todo = main[p].todo \ {c}
  BY <1>4, <1>5, <1>6 DEF Thread, PC, Segment
<1>8. main' = [main EXCEPT ![p] = r]
  BY <1>1, <1>3, <1>4, <1>5, <1>6 DEF Thread, TypeOK
<1>9. /\ main' \in [Proc -> Thread] /\ main'[p] = r
      /\ \A x \in Proc : x # p => main'[x] = main[x]
  BY <1>1, <1>7, <1>8, MainSet
<1>10. /\ UNCHANGED <<segments, slot, connbuff, h, queue, user, io, missing>>
       /\ sent' \in [Proc -> Nat]
  BY <1>1, <1>3 DEF TypeOK
<1>11. \A d \in main[p].todo : h[d][p].reg /\ ~h[d][p].closed_rd
  BY <1>1 DEF MainAt
<1>12. ~Unmade(c, p)' /\ h'[c][p].reg /\ (l = "drain" => h'[c][p].closed_wr)
  BY <1>5, <1>10, <1>11 DEF Unmade, NewHandle
<1>13. MainAt(p)'
  <2>1. \A d \in main'[p].todo : h'[d][p].reg /\ ~h'[d][p].closed_rd /\ main'[p].c # d
    BY <1>7, <1>9, <1>10, <1>11
  <2>2. c # NoConn
    BY <1>4, ConnAssumption
  <2> QED BY <1>5, <1>7, <1>9, <1>12, <2>1, <2>2 DEF MainAt, Asking, Closing, At
<1>14. IoAt(p, "exited")
  BY <1>1, <1>2 DEF IoThreadAt, At
<1>15. IoThreadAt(p)'
  BY <1>1, <1>9, <1>10, <1>14 DEF IoThreadAt, IoAt
<1>16. ~At(p, "request")'
  BY <1>5, <1>7, <1>9 DEF At
<1> QED BY <1>2, <1>9, <1>10, <1>13, <1>15, <1>16, MainKeeps

(* A put to a handle of the program: the handshake was taken long ago.     *)
LEMMA CallPutKeeps ==
  ASSUME Inv, NEW p \in Proc, NEW c \in Conn, NEW f \in {"msg", "eos"}, Idle(p),
         user[p][c] # "none", CallPut(p, c, f, "idle"),
         UNCHANGED <<segments, slot, connbuff, h, queue, user, io, missing>>,
         sent' \in [Proc -> Nat]
  PROVE  Inv'
<1>1. TypeOK /\ MainAt(p) /\ IoThreadAt(p)
  BY DEF Inv, Threads
<1>2. /\ main[p].c = NoConn /\ main[p].then = "idle" /\ main[p].todo = {}
      /\ ~At(p, "request") /\ ~At(p, "notify")
  BY NoCall DEF Idle, At
<1>3. /\ main' \in [Proc -> Thread] /\ main'[p].pc = "put" /\ main'[p].c = c
      /\ main'[p].what = f /\ main'[p].then = "idle" /\ main'[p].todo = main[p].todo
      /\ \A x \in Proc : x # p => main'[x] = main[x]
  BY <1>1, CallPutSet
<1>4. ~Unmade(c, p)' /\ c # NoConn
  BY ConnAssumption DEF Unmade
<1>5. MainAt(p)'
  BY <1>2, <1>3, <1>4 DEF MainAt, Asking, Closing, At
<1>6. IoThreadAt(p)'
  BY <1>1, <1>3 DEF IoThreadAt, IoAt
<1>7. ~At(p, "request")'
  BY <1>3 DEF At
<1> QED BY <1>2, <1>3, <1>5, <1>6, <1>7, MainKeeps

(* A send on a handle that the program has.                                *)
LEMMA SendKeeps ==
  ASSUME Inv, NEW p \in Proc, NEW c \in Conn, Send(p, c)
  PROVE  Inv'
<1>1. sent' \in [Proc -> Nat]
  BY DEF Inv, TypeOK, Send
<1>2. Idle(p) /\ user[p][c] # "none" /\ CallPut(p, c, "msg", "idle")
      /\ UNCHANGED <<segments, slot, connbuff, h, queue, user, io, missing>>
  BY DEF Send
<1> QED BY <1>1, <1>2, CallPutKeeps

(* A close of a handle that the program has.                               *)
LEMMA CloseKeeps ==
  ASSUME Inv, NEW p \in Proc, NEW c \in Conn, Close(p, c)
  PROVE  Inv'
<1>1. sent' \in [Proc -> Nat]
  BY DEF Inv, TypeOK, Close
<1>2. Idle(p) /\ user[p][c] # "none" /\ CallPut(p, c, "eos", "idle")
      /\ UNCHANGED <<segments, slot, connbuff, h, queue, user, io, missing>>
  BY DEF Close
<1> QED BY <1>1, <1>2, CallPutKeeps

-----------------------------------------------------------------------------
(***************************************************************************)
(* Steps that change one end of a connection.                              *)
(***************************************************************************)
(* A step of a program on a handle that it has.                            *)
LEMMA EndKeeps ==
  ASSUME Inv, NEW p \in Proc, NEW c \in Conn, NEW r \in HandleSHM,
         h' = [h EXCEPT ![c][p] = r], ~Unmade(c, p), ~Unmade(c, p)',
         UNCHANGED <<limit, shmconnid, id, connbuff, queue, io, sent, missing>>,
         names' \in [Proc -> [Dir -> [Ids -> Segment]]],
         \A x \in Proc, d \in Dir, i \in Ids :
           names'[x][d][i] = names[x][d][i] \/ (names'[x][d][i] = NoConn /\ x = Caller[c]
                                                /\ i = id[c]),
         slot' \in [Conn -> [Dir -> {"empty", "msg", "eos"}]],
         Roomy => \A d \in Conn : d # c => slot'[d] = slot[d],
         user' \in [Proc -> [Conn -> {"none", "held", "given"}]],
         \A d \in Conn, x \in Proc : d # c \/ x # p => user'[x][d] = user[x][d],
         main' \in [Proc -> Thread], \A x \in Proc : x # p => main'[x] = main[x],
         \/ main'[p] = main[p]
         \/ main[p].pc # "request" /\ main'[p].pc # "request" /\ main[p].c \in {c, NoConn},
         r.in \in {h[c][p].in, NoConn}, r.out \in {h[c][p].out, NoConn},
         EndAt(c, p)', MainAt(p)', IoThreadAt(p)', LeftAt(c)',
         Roomy /\ Pending(c) => WaitingAt(c)'
  PROVE  Inv'
<1>1. TypeOK /\ Ends
  BY DEF Inv
<1>2. /\ h' \in [Conn -> [Proc -> HandleSHM]] /\ h'[c][p] = r
      /\ \A d \in Conn, q \in Proc : d # c \/ q # p => h'[d][q] = h[d][q]
  BY <1>1 DEF TypeOK
<1>3. TypeOK'
  BY <1>1, <1>2 DEF TypeOK, Thread, PC
<1>4. \A d \in Conn, x \in Proc : Unmade(d, x)' <=> Unmade(d, x)
  BY <1>2 DEF Unmade
<1>5. id[c] # NoId
  BY <1>1 DEF Ends, EndAt
<1>6. \A x \in Proc : x # p => user'[x] = user[x]
  BY <1>1 DEF TypeOK
<1>7. Roomy => \A d \in Conn : slot'[d] = slot[d] \/ (d = c /\ id[c] # NoId)
  BY <1>5
<1>8. Local(c, p)
  BY <1>2, <1>4, <1>6, <1>7 DEF Local
<1> QED BY <1>3, <1>8, LocalKeeps

(* The handle of a new connection enters the table, with the handshake     *)
(* next.                                                                   *)
LEMMA ConnectInsertKeeps ==
  ASSUME Inv, NEW p \in Proc, NEW c \in Conn, main[p].c = c, ConnectInsert(p)
  PROVE  Inv'
<1>1. TypeOK /\ Ends /\ MainAt(p) /\ IoThreadAt(p) /\ EndAt(c, p) /\ Own /\ c # NoConn
  BY ConnAssumption DEF Inv, Threads, Ends
<1>2. Asking(p) /\ ~Closing(p) /\ At(p, "insert")
  BY DEF ConnectInsert, Asking, Closing, At
<1>3. /\ Caller[c] = p /\ id[c] # NoId /\ main[p].todo = {}
      /\ h[c][p] = [NewHandle EXCEPT !.in = c, !.out = c]
  BY <1>1, <1>2 DEF MainAt, At
<1>4. PICK r : r = [h[c][p] EXCEPT !.reg = TRUE]
  OBVIOUS
<1>5. h[c][p] \in HandleSHM
  BY <1>1, Parts
<1>6. /\ r \in HandleSHM /\ r.in = c /\ r.out = c /\ r.reg /\ ~r.to_manage /\ r.probed = "none"
      /\ ~r.closed_rd /\ ~r.closed_wr /\ h[c][p].in = c /\ h[c][p].out = c
      /\ r.in \in {h[c][p].in, NoConn} /\ r.out \in {h[c][p].out, NoConn}
  BY <1>3, <1>4, <1>5 DEF HandleSHM, NewHandle
<1>7. h' = [h EXCEPT ![c][p] = r]
  BY <1>1, <1>4 DEF ConnectInsert, TypeOK
<1>8. /\ h'[c][p] = r
      /\ \A d \in Conn, q \in Proc : d # c \/ q # p => h'[d][q] = h[d][q]
  BY <1>1, <1>6, <1>7 DEF TypeOK
<1>9. /\ main' \in [Proc -> Thread] /\ main'[p].pc = "put" /\ main'[p].c = c
      /\ main'[p].what = "msg" /\ main'[p].then = "idle" /\ main'[p].todo = main[p].todo
      /\ \A x \in Proc : x # p => main'[x] = main[x]
  BY <1>1, CallPutSet DEF ConnectInsert
<1>10. /\ user' \in [Proc -> [Conn -> {"none", "held", "given"}]]
       /\ \A d \in Conn, x \in Proc : d # c \/ x # p => user'[x][d] = user[x][d]
       /\ user'[p][c] = "held"
  BY <1>1 DEF ConnectInsert, TypeOK
<1>11. /\ UNCHANGED <<limit, shmconnid, id, connbuff, queue, io, sent, missing>>
       /\ names' = names /\ slot' = slot
       /\ names' \in [Proc -> [Dir -> [Ids -> Segment]]]
       /\ slot' \in [Conn -> [Dir -> {"empty", "msg", "eos"}]]
  BY <1>1 DEF ConnectInsert, segments, TypeOK
<1>12. ~Unmade(c, p) /\ ~Unmade(c, p)'
  BY <1>1, <1>6, <1>10 DEF Unmade, NewHandle
<1>13. EndAt(c, p)'
  BY <1>1, <1>3, <1>6, <1>8, <1>11 DEF EndAt
<1>14. MainAt(p)'
  BY <1>1, <1>3, <1>9, <1>12 DEF MainAt, Asking, Closing, At
<1>15. IoThreadAt(p)'
  <2>1. CASE io[p].c = NoConn
    BY <1>1, <1>9, <1>11, <2>1 DEF IoThreadAt, IoAt
  <2>2. CASE io[p].c \in Conn
    BY <1>1, <1>8, <1>9, <1>10, <1>11, <2>2 DEF IoThreadAt, IoAt
  <2> QED BY <1>1, <2>1, <2>2, Parts DEF Segment
<1>16. LeftAt(c)'
  BY <1>1, <1>3, <1>6, <1>8 DEF LeftAt
<1>17. Roomy /\ Pending(c) => WaitingAt(c)'
  <2> SUFFICES ASSUME Roomy, Pending(c) PROVE WaitingAt(c)'
    OBVIOUS
  <2>1. WaitingAt(c)
    BY <1>1 DEF Own
  <2>2. Greets(c)'
    BY <1>3, <1>9 DEF Greets, Asking, At
  <2> QED BY <1>3, <1>6, <1>8, <1>11, <2>1, <2>2 DEF WaitingAt
<1>18. main[p].pc # "request" /\ main'[p].pc # "request"
  BY <1>2, <1>9 DEF At
<1> QED BY <1>6, <1>7, <1>9, <1>10, <1>11, <1>12, <1>13, <1>14, <1>15, <1>16, <1>17, <1>18,
           EndKeeps

(* An end that the program has, or that its thread is closing, is not yet  *)
(* waited for by the other; that of the caller is mapped until it closes.  *)
LEMMA PendingEnd ==
  ASSUME Inv, NEW p \in Proc, NEW c \in Conn, ~Unmade(c, p), Roomy, Pending(c)
  PROVE  p = Caller[c] /\ WaitingAt(c)
<1>1. Unmade(c, Callee(c))
  BY DEF Inv, Requests
<1>2. WaitingAt(c)
  BY DEF Inv, Own
<1> QED BY <1>1, <1>2, TwoEnds

(* What is kept by a step that changes no name and leaves the caller's     *)
(* buffers mapped.                                                         *)
LEMMA LeftKept ==
  ASSUME Inv, NEW p \in Proc, NEW c \in Conn, NEW r, names' = names, id' = id,
         h'[c][p] = r, \A q \in Proc : q # p => h'[c][q] = h[c][q],
         r.in = h[c][p].in, r.out = h[c][p].out,
         r.in = NoConn => (r.closed_rd <=> h[c][p].closed_rd),
         r.out = NoConn => (r.closed_wr <=> h[c][p].closed_wr)
  PROVE  LeftAt(c)'
<1>1. LeftAt(c)
  BY DEF Inv, Left
<1>2. CASE p = Caller[c]
  BY <1>1, <1>2 DEF LeftAt
<1>3. CASE p # Caller[c]
  BY <1>1, <1>3, TwoEnds DEF LeftAt
<1> QED BY <1>2, <1>3

(* A handle that is given back is mapped, and so may be looked into.       *)
LEMMA YieldKeeps ==
  ASSUME Inv, NEW p \in Proc, NEW c \in Conn, Yield(p, c)
  PROVE  Inv'
<1>1. TypeOK /\ Ends /\ MainAt(p) /\ IoThreadAt(p) /\ EndAt(c, p)
  BY DEF Inv, Threads, Ends
<1>2. main[p].c = NoConn /\ main[p].then = "idle" /\ main[p].todo = {}
      /\ \A d \in Conn : ~(h[d][p].reg /\ h[d][p].closed_rd)
  BY NoCall DEF Yield, Idle, At
<1>3. PICK r : r = [h[c][p] EXCEPT !.to_manage = h[c][p].reg]
  OBVIOUS
<1>4. h[c][p] \in HandleSHM
  BY <1>1, Parts
<1>5. /\ r \in HandleSHM /\ r.in = h[c][p].in /\ r.out = h[c][p].out
      /\ (r.reg <=> h[c][p].reg) /\ (r.to_manage <=> h[c][p].reg)
      /\ r.probed = h[c][p].probed
      /\ (r.closed_rd <=> h[c][p].closed_rd) /\ (r.closed_wr <=> h[c][p].closed_wr)
  BY <1>3, <1>4 DEF HandleSHM
<1>6. h' = [h EXCEPT ![c][p] = r]
  BY <1>1, <1>3 DEF Yield, TypeOK
<1>7. /\ h'[c][p] = r
      /\ \A d \in Conn, q \in Proc : d # c \/ q # p => h'[d][q] = h[d][q]
  <2>1. TypeOK /\ r \in HandleSHM
    BY <1>1, <1>5
  <2> QED BY <1>6, <2>1 DEF TypeOK
<1>8. /\ user' \in [Proc -> [Conn -> {"none", "held", "given"}]]
      /\ \A d \in Conn, x \in Proc : d # c \/ x # p => user'[x][d] = user[x][d]
      /\ user'[p][c] = "given" /\ user[p][c] = "held"
  BY <1>1 DEF Yield, TypeOK, MayRead
<1>9. /\ UNCHANGED <<limit, shmconnid, id, connbuff, queue, io, sent, missing>>
      /\ names' = names /\ slot' = slot /\ main' = main
      /\ names' \in [Proc -> [Dir -> [Ids -> Segment]]]
      /\ slot' \in [Conn -> [Dir -> {"empty", "msg", "eos"}]]
      /\ main' \in [Proc -> Thread]
  BY <1>1 DEF Yield, segments, TypeOK, Thread, PC
<1>10. ~Unmade(c, p) /\ ~Unmade(c, p)'
  BY <1>8 DEF Unmade
<1>11. EndAt(c, p)'
  BY <1>1, <1>2, <1>5, <1>7, <1>9, <1>10 DEF EndAt
<1>12. MainAt(p)'
  BY <1>1, <1>2, <1>9 DEF MainAt, Asking, Closing, At
<1>13. IoThreadAt(p)'
  <2>1. CASE io[p].c = NoConn
    BY <1>1, <1>9, <2>1 DEF IoThreadAt, IoAt
  <2>2. CASE io[p].c \in Conn
    BY <1>1, <1>7, <1>8, <1>9, <2>2 DEF IoThreadAt, IoAt
  <2> QED BY <1>1, <2>1, <2>2, Parts DEF Segment
<1>14. LeftAt(c)'
  BY <1>5, <1>7, <1>9, LeftKept
<1>15. Roomy /\ Pending(c) => WaitingAt(c)'
  <2> SUFFICES ASSUME Roomy, Pending(c) PROVE WaitingAt(c)'
    OBVIOUS
  <2>1. p = Caller[c] /\ WaitingAt(c)
    BY <1>10, PendingEnd
  <2>2. Greets(c) => Greets(c)'
    BY <1>9 DEF Greets, Asking, At
  <2> QED BY <1>5, <1>7, <1>9, <2>1, <2>2 DEF WaitingAt
<1> QED BY <1>5, <1>6, <1>8, <1>9, <1>10, <1>11, <1>12, <1>13, <1>14, <1>15, EndKeeps

(* What the IO thread is doing is not touched by a step of the program on  *)
(* another connection.                                                     *)
LEMMA IoKept ==
  ASSUME Inv, NEW p \in Proc, NEW c \in Conn, user[p][c] # "none" \/ main[p].c = c,
         io' = io, queue' = queue,
         \A d \in Conn : d # c => h'[d][p] = h[d][p] /\ user'[p][d] = user[p][d],
         main'[p].c \in {c, NoConn},
         main'[p].pc \in {"end", "drain", "done"} \/ main'[p].then # "idle" => IoAt(p, "exited")
  PROVE  IoThreadAt(p)'
<1>1. TypeOK /\ IoThreadAt(p)
  BY DEF Inv, Threads
<1>2. CASE io[p].c = NoConn
  BY <1>1, <1>2 DEF IoThreadAt, IoAt
<1>3. CASE io[p].c \in Conn
  <2>1. IoAt(p, "handshake") /\ io[p].c # c /\ io[p].c # NoConn
    BY <1>1, <1>3, ConnAssumption DEF IoThreadAt
  <2> QED BY <1>1, <1>3, <2>1 DEF IoThreadAt, IoAt
<1> QED BY <1>1, <1>2, <1>3, Parts DEF Segment

(* What is written to or taken from a buffer of an end.                    *)
LEMMA SlotSet ==
  ASSUME Inv, NEW p \in Proc, NEW c \in Conn, NEW s \in {h[c][p].in, h[c][p].out},
         NEW d \in Dir, NEW v \in {"empty", "msg", "eos"},
         slot' = [slot EXCEPT ![s][d] = v]
  PROVE  /\ slot' \in [Conn -> [Dir -> {"empty", "msg", "eos"}]]
         /\ Roomy => \A e \in Conn : e # c => slot'[e] = slot[e]
         /\ s = c => slot'[c][d] = v /\ \A k \in Dir : k # d => slot'[c][k] = slot[c][k]
<1>1. slot \in [Conn -> [Dir -> {"empty", "msg", "eos"}]]
  BY DEF Inv, TypeOK
<1>2. Roomy => s \in {c, NoConn}
  BY DEF Inv, Own
<1> QED BY <1>1, <1>2, ConnAssumption

(* The segment that an end reads is one, and what it holds.                *)
LEMMA ReadsOf ==
  ASSUME Inv, NEW p \in Proc, NEW c \in Conn
  PROVE  /\ Reads(c, p) \in Dir /\ Writes(c, p) \in Dir /\ Reads(c, p) # Writes(c, p)
         /\ p = Caller[c] => Reads(c, p) = "in" /\ Writes(c, p) = "out"
         /\ h[c][p].in \in Conn => InSlot(c, p) \in {"empty", "msg", "eos"}
<1>1. TypeOK
  BY DEF Inv
<1>2. Reads(c, p) \in Dir /\ Writes(c, p) \in Dir /\ Reads(c, p) # Writes(c, p)
  BY DEF Reads, Writes, Dir
<1>3. p = Caller[c] => Reads(c, p) = "in" /\ Writes(c, p) = "out"
  BY DEF Reads, Writes
<1>4. h[c][p].in \in Conn => InSlot(c, p) \in {"empty", "msg", "eos"}
  BY <1>1, <1>2, Parts DEF InSlot
<1> QED BY <1>2, <1>3, <1>4

(* A probe finds something only after the listener has taken the request.  *)
LEMMA ProbeKeeps ==
  ASSUME Inv, NEW p \in Proc, NEW c \in Conn, Probe(p, c)
  PROVE  Inv'
<1>1. TypeOK /\ Ends /\ MainAt(p) /\ IoThreadAt(p) /\ EndAt(c, p)
  BY DEF Inv, Threads, Ends
<1>2. /\ main[p].c = NoConn /\ main[p].then = "idle" /\ main[p].todo = {} /\ Idle(p)
      /\ ~At(p, "request")
  BY NoCall DEF Probe, Idle, At
<1>3. user[p][c] = "held" /\ ~h[c][p].closed_rd /\ InSlot(c, p) # "empty"
  BY DEF Probe, MayRead
<1>4. ~Unmade(c, p)
  BY <1>3 DEF Unmade
<1>5. h[c][p].in \in Conn /\ h[c][p].in # NoConn
  BY <1>1, <1>3, <1>4, Parts DEF EndAt, Segment
<1>6. InSlot(c, p) \in {"msg", "eos"}
  BY <1>3, <1>5, ReadsOf
<1>7. PICK eos \in BOOLEAN : eos <=> InSlot(c, p) = "eos"
  OBVIOUS
<1>8. PICK r : r = [h[c][p] EXCEPT !.probed = InSlot(c, p), !.closed_rd = eos]
  OBVIOUS
<1>9. h[c][p] \in HandleSHM
  BY <1>1, Parts
<1>10. /\ r \in HandleSHM /\ r.in = h[c][p].in /\ r.out = h[c][p].out
       /\ (r.reg <=> h[c][p].reg) /\ (r.to_manage <=> h[c][p].to_manage)
       /\ (r.closed_rd <=> eos) /\ (r.closed_wr <=> h[c][p].closed_wr)
  BY <1>6, <1>8, <1>9 DEF HandleSHM
<1>11. h' = [h EXCEPT ![c][p] = r]
  <2>1. h' = [h EXCEPT ![c][p].probed = InSlot(c, p), ![c][p].closed_rd = (InSlot(c, p) = "eos")]
    BY DEF Probe
  <2>2. eos = (InSlot(c, p) = "eos")
    BY <1>7
  <2> QED BY <1>1, <1>8, <2>1, <2>2 DEF TypeOK
<1>12. /\ h'[c][p] = r
       /\ \A d \in Conn, q \in Proc : d # c \/ q # p => h'[d][q] = h[d][q]
  <2>1. TypeOK /\ r \in HandleSHM
    BY <1>1, <1>10
  <2> QED BY <1>11, <2>1 DEF TypeOK
<1>13. /\ user' \in [Proc -> [Conn -> {"none", "held", "given"}]]
       /\ \A d \in Conn, x \in Proc : d # c \/ x # p => user'[x][d] = user[x][d]
       /\ user'[p][c] # "none"
  BY <1>1, <1>3 DEF Probe, TypeOK
<1>14. /\ UNCHANGED <<limit, shmconnid, id, connbuff, queue, io, sent, missing>>
       /\ names' = names /\ slot' = slot
       /\ names' \in [Proc -> [Dir -> [Ids -> Segment]]]
       /\ slot' \in [Conn -> [Dir -> {"empty", "msg", "eos"}]]
  BY <1>1 DEF Probe, segments, TypeOK
<1>15. /\ main' \in [Proc -> Thread] /\ \A x \in Proc : x # p => main'[x] = main[x]
       /\ main'[p].then = "idle" /\ main'[p].todo = {}
       /\ eos => main'[p].pc = "notify" /\ main'[p].c = c
       /\ ~eos => main' = main
  <2>1. CASE eos
    <3>1. Call(p, "notify", c, "idle")
      BY <1>7, <2>1 DEF Probe
    <3> QED BY <1>1, <1>2, <2>1, <3>1, CallSet DEF PC
  <2>2. CASE ~eos
    <3>1. main' = main
      BY <1>7, <2>2 DEF Probe
    <3> QED BY <1>1, <1>2, <2>2, <3>1 DEF TypeOK, Thread, PC
  <2> QED BY <2>1, <2>2
<1>16. ~Unmade(c, p)' /\ c # NoConn
  BY <1>13, ConnAssumption DEF Unmade
<1>17. EndAt(c, p)'
  BY <1>1, <1>4, <1>5, <1>10, <1>12, <1>14, <1>15, <1>16 DEF EndAt, At
<1>18. MainAt(p)'
  <2>1. CASE eos
    BY <1>10, <1>12, <1>15, <1>16, <2>1 DEF MainAt, Asking, Closing, At
  <2>2. CASE ~eos
    BY <1>1, <1>2, <1>15, <2>2 DEF MainAt, Asking, Closing, At, Idle
  <2> QED BY <2>1, <2>2
<1>19. IoThreadAt(p)'
  <2>1. main'[p].c \in {c, NoConn} /\ main'[p].pc \notin {"end", "drain", "done"}
    BY <1>2, <1>15 DEF Idle, At
  <2> QED BY <1>3, <1>12, <1>13, <1>14, <1>15, <2>1, IoKept
<1>20. LeftAt(c)'
  <2>1. r.in # NoConn
    BY <1>5, <1>10, ConnAssumption
  <2> QED BY <1>10, <1>12, <1>14, <2>1, LeftKept
<1>21. Roomy /\ Pending(c) => WaitingAt(c)'
  <2> SUFFICES ASSUME Roomy, Pending(c) PROVE FALSE
    OBVIOUS
  <2>1. p = Caller[c] /\ WaitingAt(c)
    BY <1>4, PendingEnd
  <2> QED BY <1>3, <2>1, ReadsOf DEF WaitingAt, InSlot
<1>22. \/ main'[p] = main[p]
       \/ main[p].pc # "request" /\ main'[p].pc # "request" /\ main[p].c \in {c, NoConn}
  BY <1>2, <1>15 DEF At
<1>23. r.in \in {h[c][p].in, NoConn} /\ r.out \in {h[c][p].out, NoConn}
  BY <1>10
<1> QED BY <1>4, <1>10, <1>11, <1>13, <1>14, <1>15, <1>16, <1>17, <1>18, <1>19, <1>20, <1>21,
           <1>22, <1>23, EndKeeps

(* So does a receive, which empties the slot.                              *)
LEMMA ReceiveKeeps ==
  ASSUME Inv, NEW p \in Proc, NEW c \in Conn, Receive(p, c)
  PROVE  Inv'
<1>1. TypeOK /\ Ends /\ MainAt(p) /\ IoThreadAt(p) /\ EndAt(c, p)
  BY DEF Inv, Threads, Ends
<1>2. /\ main[p].c = NoConn /\ main[p].then = "idle" /\ main[p].todo = {} /\ Idle(p)
      /\ \A d \in Conn : ~(h[d][p].reg /\ h[d][p].closed_rd)
  BY NoCall DEF Receive, Idle, At
<1>3. user[p][c] = "held" /\ h[c][p].probed = "msg"
  BY DEF Receive, MayRead
<1>4. ~Unmade(c, p)
  BY <1>3 DEF Unmade
<1>5. PICK r : r = [h[c][p] EXCEPT !.probed = "none"]
  OBVIOUS
<1>6. h[c][p] \in HandleSHM
  BY <1>1, Parts
<1>7. /\ r \in HandleSHM /\ r.in = h[c][p].in /\ r.out = h[c][p].out
      /\ (r.reg <=> h[c][p].reg) /\ (r.to_manage <=> h[c][p].to_manage)
      /\ (r.closed_rd <=> h[c][p].closed_rd) /\ (r.closed_wr <=> h[c][p].closed_wr)
  BY <1>5, <1>6 DEF HandleSHM
<1>8. h' = [h EXCEPT ![c][p] = r]
  BY <1>1, <1>5 DEF Receive, TypeOK
<1>9. /\ h'[c][p] = r
      /\ \A d \in Conn, q \in Proc : d # c \/ q # p => h'[d][q] = h[d][q]
  <2>1. TypeOK /\ r \in HandleSHM
    BY <1>1, <1>7
  <2> QED BY <1>8, <2>1 DEF TypeOK
<1>10. /\ UNCHANGED <<limit, shmconnid, id, connbuff, queue, io, sent, missing>>
       /\ names' = names /\ user' = user /\ main' = main
       /\ names' \in [Proc -> [Dir -> [Ids -> Segment]]]
       /\ user' \in [Proc -> [Conn -> {"none", "held", "given"}]]
       /\ main' \in [Proc -> Thread]
  BY <1>1 DEF Receive, segments, TypeOK, Thread, PC
<1>11. /\ slot' \in [Conn -> [Dir -> {"empty", "msg", "eos"}]]
       /\ Roomy => \A e \in Conn : e # c => slot'[e] = slot[e]
  BY ReadsOf, SlotSet, ZenonT(60) DEF Receive
<1>12. ~Unmade(c, p)'
  BY <1>3, <1>10 DEF Unmade
<1>13. EndAt(c, p)'
  BY <1>1, <1>2, <1>4, <1>7, <1>9, <1>10, <1>12 DEF EndAt
<1>14. MainAt(p)'
  BY <1>1, <1>2, <1>10 DEF MainAt, Asking, Closing, At, Idle
<1>15. IoThreadAt(p)'
  <2>1. main'[p].c \in {c, NoConn} /\ main'[p].pc \notin {"end", "drain", "done"}
        /\ main'[p].then = "idle"
    BY <1>2, <1>10 DEF Idle, At
  <2> QED BY <1>3, <1>9, <1>10, <2>1, IoKept
<1>16. LeftAt(c)'
  BY <1>7, <1>9, <1>10, LeftKept
<1>17. Roomy /\ Pending(c) => WaitingAt(c)'
  <2> SUFFICES ASSUME Roomy, Pending(c) PROVE FALSE
    OBVIOUS
  <2>1. p = Caller[c] /\ WaitingAt(c)
    BY <1>4, PendingEnd
  <2> QED BY <1>3, <2>1 DEF WaitingAt
<1>18. r.in \in {h[c][p].in, NoConn} /\ r.out \in {h[c][p].out, NoConn}
  BY <1>7
<1> QED BY <1>4, <1>7, <1>8, <1>10, <1>11, <1>12, <1>13, <1>14, <1>15, <1>16, <1>17, <1>18,
           EndKeeps

(* A put finds room: EOS only when the handshake has been taken.           *)
LEMMA PutKeeps ==
  ASSUME Inv, NEW p \in Proc, NEW c \in Conn, main[p].c = c, Put(p)
  PROVE  Inv'
<1>1. TypeOK /\ Ends /\ MainAt(p) /\ IoThreadAt(p) /\ EndAt(c, p) /\ LeftAt(c) /\ c # NoConn
  BY ConnAssumption DEF Inv, Threads, Ends, Left
<1>2. Closing(p) /\ ~Asking(p) /\ At(p, "put") /\ ~At(p, "notify")
  BY DEF Put, Closing, Asking, At
<1>3. /\ ~Unmade(c, p) /\ main[p].then \in {"idle", "drain"}
      /\ main[p].what = "msg" => main[p].then = "idle"
      /\ main[p].then = "drain" => h[c][p].reg
      /\ main[p].then = "idle" => main[p].todo = {}
      /\ \A d \in main[p].todo : h[d][p].reg /\ ~h[d][p].closed_rd /\ d # c
      /\ ~(h[c][p].reg /\ h[c][p].closed_rd)
  BY <1>1, <1>2 DEF MainAt, At, EndAt
<1>4. PICK eos \in BOOLEAN : eos <=> main[p].what = "eos"
  OBVIOUS
<1>5. main[p].what = IF eos THEN "eos" ELSE "msg"
  BY <1>1, <1>4, Parts
<1>6. PICK r : r = IF eos THEN [h[c][p] EXCEPT !.closed_wr = TRUE] ELSE h[c][p]
  OBVIOUS
<1>7. h[c][p] \in HandleSHM
  BY <1>1, Parts
<1>8. /\ r \in HandleSHM /\ r.in = h[c][p].in /\ r.out = h[c][p].out
      /\ (r.reg <=> h[c][p].reg) /\ (r.to_manage <=> h[c][p].to_manage)
      /\ (r.closed_rd <=> h[c][p].closed_rd) /\ (r.closed_wr <=> h[c][p].closed_wr \/ eos)
      /\ r.probed = h[c][p].probed
  <2>1. CASE eos
    BY <1>6, <1>7, <2>1 DEF HandleSHM
  <2>2. CASE ~eos
    BY <1>6, <1>7, <2>2
  <2> QED BY <2>1, <2>2
<1>9. h' = [h EXCEPT ![c][p] = r]
  <2>1. CASE eos
    BY <1>1, <1>4, <1>6, <2>1 DEF Put, TypeOK
  <2>2. CASE ~eos
    BY <1>1, <1>4, <1>6, <2>2 DEF Put, TypeOK
  <2> QED BY <2>1, <2>2
<1>10. /\ h'[c][p] = r
       /\ \A d \in Conn, q \in Proc : d # c \/ q # p => h'[d][q] = h[d][q]
  <2>1. TypeOK /\ r \in HandleSHM
    BY <1>1, <1>8
  <2> QED BY <1>9, <2>1 DEF TypeOK
<1>11. /\ UNCHANGED <<limit, shmconnid, id, connbuff, queue, io, sent, missing>>
       /\ names' = names /\ user' = user
       /\ names' \in [Proc -> [Dir -> [Ids -> Segment]]]
       /\ user' \in [Proc -> [Conn -> {"none", "held", "given"}]]
  BY <1>1 DEF Put, segments, TypeOK
<1>12. slot' = [slot EXCEPT ![h[c][p].out][Writes(c, p)] = main[p].what]
  BY DEF Put
<1>13. /\ slot' \in [Conn -> [Dir -> {"empty", "msg", "eos"}]]
       /\ Roomy => \A e \in Conn : e # c => slot'[e] = slot[e]
  <2>1. Writes(c, p) \in Dir /\ main[p].what \in {"empty", "msg", "eos"}
    BY <1>5, ReadsOf
  <2> QED BY <1>12, <2>1, SlotSet
<1>14. /\ main' \in [Proc -> Thread] /\ \A x \in Proc : x # p => main'[x] = main[x]
       /\ main'[p].todo = main[p].todo
       /\ eos => main'[p].pc = "notify" /\ main'[p].c = c /\ main'[p].then = main[p].then
       /\ ~eos => main'[p].pc = "idle" /\ main'[p].c = NoConn /\ main'[p].then = "idle"
  <2>1. CASE eos
    <3>1. Goto(p, "notify")
      BY <1>4, <2>1 DEF Put
    <3> QED BY <1>1, <2>1, <3>1, GotoSet DEF PC
  <2>2. CASE ~eos
    <3>1. Return(p) /\ main[p].then = "idle"
      BY <1>3, <1>4, <1>5, <2>2 DEF Put
    <3> QED BY <1>1, <2>2, <3>1, ReturnSet
  <2> QED BY <2>1, <2>2
<1>15. ~Unmade(c, p)'
  <2>1. CASE eos
    BY <1>8, <1>10, <2>1 DEF Unmade, NewHandle
  <2>2. CASE ~eos
    BY <1>3, <1>6, <1>10, <1>11, <2>2 DEF Unmade
  <2> QED BY <2>1, <2>2
<1>16. EndAt(c, p)'
  BY <1>1, <1>3, <1>8, <1>10, <1>11, <1>15 DEF EndAt
<1>17. MainAt(p)'
  <2>1. \A d \in main'[p].todo : h'[d][p].reg /\ ~h'[d][p].closed_rd /\ main'[p].c # d
    <3>1. main[p].todo \subseteq Conn
      BY <1>1, Parts
    <3> QED BY <1>3, <1>10, <1>14, <3>1, ConnAssumption
  <2>2. CASE eos
    BY <1>1, <1>3, <1>8, <1>10, <1>14, <1>15, <2>1, <2>2 DEF MainAt, Asking, Closing, At
  <2>3. CASE ~eos
    BY <1>3, <1>4, <1>5, <1>14, <2>1, <2>3 DEF MainAt, Asking, Closing, At
  <2> QED BY <2>2, <2>3
<1>18. IoThreadAt(p)'
  <2>1. main'[p].c \in {c, NoConn} /\ main'[p].pc \notin {"end", "drain", "done"}
        /\ (main'[p].then # "idle" => IoAt(p, "exited"))
    BY <1>1, <1>14 DEF IoThreadAt
  <2> QED BY <1>10, <1>11, <2>1, IoKept
<1>19. LeftAt(c)'
  <2>1. h[c][p].out = NoConn => h[c][p].closed_wr
    BY <1>1, <1>3 DEF EndAt
  <2> QED BY <1>8, <1>10, <1>11, <2>1, LeftKept, SMTT(30)
<1>20. Roomy /\ Pending(c) => WaitingAt(c)'
  <2> SUFFICES ASSUME Roomy, Pending(c) PROVE WaitingAt(c)'
    OBVIOUS
  <2>1. p = Caller[c] /\ WaitingAt(c)
    BY <1>3, PendingEnd
  <2>2. Writes(c, p) = "out" /\ h[c][p].out = c /\ slot[c]["out"] = "empty"
    BY <2>1, ReadsOf DEF WaitingAt, Put, SlotFree, OutSlot
  <2>3. Greets(c) /\ ~eos
    BY <1>2, <1>4, <2>1, <2>2 DEF WaitingAt, Greets, Asking, At
  <2>4. slot'[c]["out"] = "msg" /\ slot'[c]["in"] = slot[c]["in"]
    <3>1. slot' = [slot EXCEPT ![c]["out"] = "msg"]
      BY <1>5, <1>12, <2>2, <2>3
    <3> QED BY <1>1, <3>1 DEF TypeOK, Dir
  <2> QED BY <1>8, <1>10, <1>11, <2>1, <2>3, <2>4 DEF WaitingAt
<1>21. main[p].pc # "request" /\ main'[p].pc # "request" /\ main[p].c \in {c, NoConn}
  BY <1>2, <1>14 DEF At
<1>22. r.in \in {h[c][p].in, NoConn} /\ r.out \in {h[c][p].out, NoConn}
  BY <1>8
<1> QED BY <1>3, <1>8, <1>9, <1>11, <1>13, <1>14, <1>15, <1>16, <1>17, <1>18, <1>19, <1>20,
           <1>21, <1>22, EndKeeps

(* end drops a message of a handle that is still in the table.             *)
LEMMA DrainKeeps ==
  ASSUME Inv, NEW p \in Proc, NEW c \in Conn, main[p].c = c, Drain(p)
  PROVE  Inv'
<1>1. TypeOK /\ Ends /\ MainAt(p) /\ IoThreadAt(p) /\ EndAt(c, p) /\ c # NoConn
  BY ConnAssumption DEF Inv, Threads, Ends
<1>2. Closing(p) /\ ~Asking(p) /\ At(p, "drain") /\ ~At(p, "notify")
  BY DEF Drain, Closing, Asking, At
<1>3. /\ ~Unmade(c, p) /\ h[c][p].closed_wr /\ h[c][p].reg /\ ~h[c][p].closed_rd
      /\ \A d \in main[p].todo : d # c
  BY <1>1, <1>2 DEF MainAt, At, EndAt
<1>4. PICK r : r = [h[c][p] EXCEPT !.probed = "none"]
  OBVIOUS
<1>5. h[c][p] \in HandleSHM
  BY <1>1, Parts
<1>6. /\ r \in HandleSHM /\ r.in = h[c][p].in /\ r.out = h[c][p].out
      /\ (r.reg <=> h[c][p].reg) /\ (r.to_manage <=> h[c][p].to_manage)
      /\ (r.closed_rd <=> h[c][p].closed_rd) /\ (r.closed_wr <=> h[c][p].closed_wr)
  BY <1>4, <1>5 DEF HandleSHM
<1>7. h' = [h EXCEPT ![c][p] = r]
  BY <1>1, <1>4 DEF Drain, TypeOK
<1>8. /\ h'[c][p] = r
      /\ \A d \in Conn, q \in Proc : d # c \/ q # p => h'[d][q] = h[d][q]
  <2>1. TypeOK /\ r \in HandleSHM
    BY <1>1, <1>6
  <2> QED BY <1>7, <2>1 DEF TypeOK
<1>9. /\ UNCHANGED <<limit, shmconnid, id, connbuff, queue, io, sent, missing>>
      /\ names' = names /\ user' = user /\ main' = main
      /\ names' \in [Proc -> [Dir -> [Ids -> Segment]]]
      /\ user' \in [Proc -> [Conn -> {"none", "held", "given"}]]
      /\ main' \in [Proc -> Thread]
  BY <1>1 DEF Drain, segments, TypeOK, Thread, PC
<1>10. /\ slot' \in [Conn -> [Dir -> {"empty", "msg", "eos"}]]
       /\ Roomy => \A e \in Conn : e # c => slot'[e] = slot[e]
  <2>1. Reads(c, p) \in Dir
    BY ReadsOf
  <2>2. slot' = [slot EXCEPT ![h[c][p].in][Reads(c, p)] = "empty"]
    BY DEF Drain
  <2> QED BY <2>1, <2>2, SlotSet, ZenonT(60)
<1>11. ~Unmade(c, p)'
  BY <1>3, <1>6, <1>8 DEF Unmade, NewHandle
<1>12. EndAt(c, p)'
  BY <1>1, <1>3, <1>6, <1>8, <1>9, <1>11 DEF EndAt
<1>13. MainAt(p)'
  <2>1. \A d \in main'[p].todo : h'[d][p].reg /\ ~h'[d][p].closed_rd /\ main'[p].c # d
    <3>1. main[p].todo \subseteq Conn
      BY <1>1, Parts
    <3> QED BY <1>1, <1>3, <1>8, <1>9, <3>1 DEF MainAt
  <2> QED BY <1>1, <1>2, <1>3, <1>6, <1>8, <1>9, <1>11, <2>1 DEF MainAt, Asking, Closing, At
<1>14. IoThreadAt(p)'
  <2>1. main'[p].c \in {c, NoConn} /\ IoAt(p, "exited")
    BY <1>1, <1>2, <1>9 DEF IoThreadAt, At
  <2> QED BY <1>8, <1>9, <2>1, IoKept
<1>15. LeftAt(c)'
  BY <1>6, <1>8, <1>9, LeftKept
<1>16. Roomy /\ Pending(c) => WaitingAt(c)'
  <2> SUFFICES ASSUME Roomy, Pending(c) PROVE FALSE
    OBVIOUS
  <2>1. p = Caller[c] /\ WaitingAt(c)
    BY <1>3, PendingEnd
  <2> QED BY <1>3, <2>1 DEF WaitingAt
<1>17. r.in \in {h[c][p].in, NoConn} /\ r.out \in {h[c][p].out, NoConn}
  BY <1>6
<1> QED BY <1>3, <1>6, <1>7, <1>9, <1>10, <1>11, <1>12, <1>13, <1>14, <1>15, <1>16, <1>17,
           EndKeeps

(* end closes the read side of a handle that it then takes out of the      *)
(* table.                                                                  *)
LEMMA CloseReadKeeps ==
  ASSUME Inv, NEW p \in Proc, NEW c \in Conn, main[p].c = c, CloseRead(p)
  PROVE  Inv'
<1>1. TypeOK /\ Ends /\ MainAt(p) /\ IoThreadAt(p) /\ EndAt(c, p) /\ c # NoConn
  BY ConnAssumption DEF Inv, Threads, Ends
<1>2. Closing(p) /\ ~Asking(p) /\ At(p, "drain") /\ ~At(p, "notify")
  BY DEF CloseRead, Closing, Asking, At
<1>3. /\ ~Unmade(c, p) /\ h[c][p].closed_wr /\ h[c][p].reg /\ ~h[c][p].closed_rd
      /\ h[c][p].in # NoConn /\ \A d \in main[p].todo : d # c
  BY <1>1, <1>2 DEF MainAt, At, EndAt
<1>4. PICK r : r = [h[c][p] EXCEPT !.closed_rd = TRUE]
  OBVIOUS
<1>5. h[c][p] \in HandleSHM
  BY <1>1, Parts
<1>6. /\ r \in HandleSHM /\ r.in = h[c][p].in /\ r.out = h[c][p].out
      /\ (r.reg <=> h[c][p].reg) /\ (r.to_manage <=> h[c][p].to_manage)
      /\ r.closed_rd /\ (r.closed_wr <=> h[c][p].closed_wr)
  BY <1>4, <1>5 DEF HandleSHM
<1>7. h' = [h EXCEPT ![c][p] = r]
  BY <1>1, <1>4 DEF CloseRead, TypeOK
<1>8. /\ h'[c][p] = r
      /\ \A d \in Conn, q \in Proc : d # c \/ q # p => h'[d][q] = h[d][q]
  <2>1. TypeOK /\ r \in HandleSHM
    BY <1>1, <1>6
  <2> QED BY <1>7, <2>1 DEF TypeOK
<1>9. /\ UNCHANGED <<limit, shmconnid, id, connbuff, queue, io, sent, missing>>
      /\ names' = names /\ user' = user /\ slot' = slot
      /\ names' \in [Proc -> [Dir -> [Ids -> Segment]]]
      /\ user' \in [Proc -> [Conn -> {"none", "held", "given"}]]
      /\ slot' \in [Conn -> [Dir -> {"empty", "msg", "eos"}]]
  BY <1>1 DEF CloseRead, segments, TypeOK
<1>10. /\ main' \in [Proc -> Thread] /\ main'[p].pc = "notify" /\ main'[p].c = c
       /\ main'[p].then = "end" /\ main'[p].todo = main[p].todo
       /\ \A x \in Proc : x # p => main'[x] = main[x]
  <2>1. Call(p, "notify", c, "end")
    BY DEF CloseRead
  <2> QED BY <1>1, <2>1, CallSet DEF PC
<1>11. ~Unmade(c, p)'
  BY <1>6, <1>8 DEF Unmade, NewHandle
<1>12. EndAt(c, p)'
  BY <1>1, <1>3, <1>6, <1>8, <1>9, <1>10, <1>11 DEF EndAt, At
<1>13. MainAt(p)'
  <2>1. \A d \in main'[p].todo : h'[d][p].reg /\ ~h'[d][p].closed_rd /\ main'[p].c # d
    <3>1. main[p].todo \subseteq Conn
      BY <1>1, Parts
    <3> QED BY <1>1, <1>3, <1>8, <1>10, <3>1 DEF MainAt
  <2> QED BY <1>1, <1>6, <1>8, <1>10, <1>11, <2>1 DEF MainAt, Asking, Closing, At
<1>14. IoThreadAt(p)'
  <2>1. main'[p].c \in {c, NoConn} /\ IoAt(p, "exited")
    BY <1>1, <1>2, <1>10 DEF IoThreadAt, At
  <2> QED BY <1>8, <1>9, <2>1, IoKept
<1>15. LeftAt(c)'
  BY <1>3, <1>6, <1>8, <1>9, LeftKept, SMTT(30)
<1>16. Roomy /\ Pending(c) => WaitingAt(c)'
  <2> SUFFICES ASSUME Roomy, Pending(c) PROVE FALSE
    OBVIOUS
  <2>1. p = Caller[c] /\ WaitingAt(c)
    BY <1>3, PendingEnd
  <2> QED BY <1>3, <2>1 DEF WaitingAt
<1>17. main[p].pc # "request" /\ main'[p].pc # "request" /\ main[p].c \in {c, NoConn}
  BY <1>2, <1>10 DEF At
<1>18. r.in \in {h[c][p].in, NoConn} /\ r.out \in {h[c][p].out, NoConn}
  BY <1>6
<1> QED BY <1>3, <1>6, <1>7, <1>9, <1>10, <1>11, <1>12, <1>13, <1>14, <1>15, <1>16, <1>17,
           <1>18, EndKeeps

(* What an unlink does to the names, and to those of other connections.    *)
LEMMA UnlinkSet ==
  ASSUME Inv, NEW p \in Proc, NEW c \in Conn, NEW d \in Dir, ~Unmade(c, p),
         names' = Unlinked(c, p, d, names)
  PROVE  /\ names' \in [Proc -> [Dir -> [Ids -> Segment]]]
         /\ \A x \in Proc, k \in Dir, i \in Ids :
              names'[x][k][i] = names[x][k][i] \/ (names'[x][k][i] = NoConn /\ x = Caller[c]
                                                   /\ i = id[c])
         /\ \A k \in Dir : names'[Caller[c]][k][id[c]] \in {names[Caller[c]][k][id[c]], NoConn}
         /\ (IF d = Reads(c, p) THEN h[c][p].in ELSE h[c][p].out) # NoConn
              => names'[Caller[c]][d][id[c]] = NoConn
<1>1. TypeOK /\ EndAt(c, p)
  BY DEF Inv, Ends
<1>2. id[c] \in Ids /\ Caller[c] \in Proc
  BY <1>1, Parts, TwoEnds DEF EndAt
<1>3. NoConn \in Segment /\ NoConn # c
  BY ConnAssumption DEF Segment
<1>4. CASE names' = names /\ ~((IF d = Reads(c, p) THEN h[c][p].in ELSE h[c][p].out) # NoConn)
  BY <1>1, <1>4 DEF TypeOK
<1>5. CASE names' = [names EXCEPT ![Caller[c]][d][id[c]] = NoConn]
  BY <1>1, <1>2, <1>3, <1>5 DEF TypeOK
<1> QED BY <1>4, <1>5 DEF Unlinked

(* What an end leaves behind when it unlinks one of its buffers.           *)
LEMMA LeftUnlinked ==
  ASSUME Inv, NEW p \in Proc, NEW c \in Conn, NEW d \in Dir, NEW r, ~Unmade(c, p),
         names' = Unlinked(c, p, d, names), id' = id,
         h'[c][p] = r, \A q \in Proc : q # p => h'[c][q] = h[c][q],
         r.closed_rd <=> h[c][p].closed_rd, r.closed_wr <=> h[c][p].closed_wr,
         d # Reads(c, p) => r.in = h[c][p].in,
         d # Writes(c, p) => r.out = h[c][p].out
  PROVE  LeftAt(c)'
<1>1. TypeOK /\ LeftAt(c)
  BY DEF Inv, Left
<1>2. /\ Reads(c, p) \in Dir /\ Writes(c, p) \in Dir /\ Reads(c, p) # Writes(c, p)
      /\ p = Caller[c] => Reads(c, p) = "in" /\ Writes(c, p) = "out"
  BY ReadsOf
<1>3. /\ \A k \in Dir : names'[Caller[c]][k][id[c]] \in {names[Caller[c]][k][id[c]], NoConn}
      /\ (IF d = Reads(c, p) THEN h[c][p].in ELSE h[c][p].out) # NoConn
              => names'[Caller[c]][d][id[c]] = NoConn
  BY UnlinkSet
<1>4. CASE p = Caller[c]
  <2>1. CASE d = "in"
    BY <1>1, <1>2, <1>3, <1>4, <2>1, ConnAssumption DEF LeftAt, Dir
  <2>2. CASE d = "out"
    BY <1>1, <1>2, <1>3, <1>4, <2>2, ConnAssumption DEF LeftAt, Dir
  <2> QED BY <2>1, <2>2 DEF Dir
<1>5. CASE p # Caller[c]
  BY <1>1, <1>3, <1>5, TwoEnds, ConnAssumption DEF LeftAt, Dir
<1> QED BY <1>4, <1>5

(* The in buffer is unmapped after the table has forgotten the handle.     *)
LEMMA CloseInKeeps ==
  ASSUME Inv, NEW p \in Proc, NEW c \in Conn, main[p].c = c, CloseIn(p)
  PROVE  Inv'
<1>1. TypeOK /\ Ends /\ MainAt(p) /\ IoThreadAt(p) /\ EndAt(c, p) /\ c # NoConn
  BY ConnAssumption DEF Inv, Threads, Ends
<1>2. Closing(p) /\ ~Asking(p) /\ At(p, "unmap")
  BY DEF CloseIn, Closing, Asking, At
<1>3. /\ ~Unmade(c, p) /\ h[c][p].closed_rd /\ ~h[c][p].reg /\ ~h[c][p].to_manage
      /\ main[p].then # "drain" /\ (main[p].then = "idle" => main[p].todo = {})
      /\ \A d \in main[p].todo : d # c
  BY <1>1, <1>2 DEF MainAt, At, EndAt
<1>4. PICK r : r = [h[c][p] EXCEPT !.in = NoConn]
  OBVIOUS
<1>5. h[c][p] \in HandleSHM
  BY <1>1, Parts
<1>6. /\ r \in HandleSHM /\ r.in = NoConn /\ r.out = h[c][p].out
      /\ (r.reg <=> h[c][p].reg) /\ (r.to_manage <=> h[c][p].to_manage)
      /\ (r.closed_rd <=> h[c][p].closed_rd) /\ (r.closed_wr <=> h[c][p].closed_wr)
  BY <1>4, <1>5 DEF HandleSHM, Segment
<1>7. h' = [h EXCEPT ![c][p] = r]
  BY <1>1, <1>4 DEF CloseIn, TypeOK
<1>8. /\ h'[c][p] = r
      /\ \A d \in Conn, q \in Proc : d # c \/ q # p => h'[d][q] = h[d][q]
  <2>1. TypeOK /\ r \in HandleSHM
    BY <1>1, <1>6
  <2> QED BY <1>7, <2>1 DEF TypeOK
<1>9. /\ UNCHANGED <<limit, shmconnid, id, connbuff, queue, io, sent, missing>>
      /\ user' = user /\ slot' = slot /\ names' = Unlinked(c, p, Reads(c, p), names)
      /\ user' \in [Proc -> [Conn -> {"none", "held", "given"}]]
      /\ slot' \in [Conn -> [Dir -> {"empty", "msg", "eos"}]]
  BY <1>1 DEF CloseIn, TypeOK
<1>10. /\ names' \in [Proc -> [Dir -> [Ids -> Segment]]]
       /\ \A x \in Proc, k \in Dir, i \in Ids :
            names'[x][k][i] = names[x][k][i] \/ (names'[x][k][i] = NoConn /\ x = Caller[c]
                                                 /\ i = id[c])
  BY <1>3, <1>9, ReadsOf, UnlinkSet
<1>11. /\ main' \in [Proc -> Thread] /\ main'[p].pc = main[p].then
       /\ main'[p].c = NoConn /\ main'[p].then = "idle" /\ main'[p].todo = main[p].todo
       /\ \A x \in Proc : x # p => main'[x] = main[x]
  BY <1>1, ReturnSet DEF CloseIn
<1>12. main[p].then \in {"idle", "end"} /\ main[p].todo \subseteq Conn
  BY <1>1, <1>3, Parts
<1>13. ~Unmade(c, p)'
  BY <1>3, <1>6, <1>8 DEF Unmade, NewHandle
<1>14. EndAt(c, p)'
  BY <1>1, <1>3, <1>6, <1>8, <1>9, <1>13 DEF EndAt
<1>15. MainAt(p)'
  <2>1. \A d \in main'[p].todo : h'[d][p].reg /\ ~h'[d][p].closed_rd /\ main'[p].c # d
    BY <1>1, <1>3, <1>8, <1>11, <1>12, ConnAssumption DEF MainAt
  <2> QED BY <1>3, <1>11, <1>12, <2>1 DEF MainAt, Asking, Closing, At
<1>16. IoThreadAt(p)'
  <2>1. /\ main'[p].c \in {c, NoConn}
        /\ main'[p].pc \in {"end", "drain", "done"} => IoAt(p, "exited")
    BY <1>1, <1>11, <1>12 DEF IoThreadAt
  <2> QED BY <1>8, <1>9, <1>11, <2>1, IoKept
<1>17. LeftAt(c)'
  <2>1. Reads(c, p) \in Dir
    BY ReadsOf
  <2> QED BY <1>3, <1>6, <1>8, <1>9, <2>1, LeftUnlinked
<1>18. Roomy /\ Pending(c) => WaitingAt(c)'
  <2> SUFFICES ASSUME Roomy, Pending(c) PROVE FALSE
    OBVIOUS
  <2>1. p = Caller[c] /\ WaitingAt(c)
    BY <1>3, PendingEnd
  <2> QED BY <1>3, <2>1 DEF WaitingAt
<1>19. main[p].pc # "request" /\ main'[p].pc # "request" /\ main[p].c \in {c, NoConn}
  BY <1>2, <1>11, <1>12 DEF At
<1>20. r.in \in {h[c][p].in, NoConn} /\ r.out \in {h[c][p].out, NoConn}
  BY <1>6
<1> QED BY <1>3, <1>6, <1>7, <1>9, <1>10, <1>11, <1>13, <1>14, <1>15, <1>16, <1>17, <1>18,
           <1>19, <1>20, EndKeeps

(* The out buffer is unmapped, and the table forgets a closed handle.      *)
LEMMA NotifyCloseKeeps ==
  ASSUME Inv, NEW p \in Proc, NEW c \in Conn, main[p].c = c, NotifyClose(p)
  PROVE  Inv'
<1>1. TypeOK /\ Ends /\ MainAt(p) /\ IoThreadAt(p) /\ EndAt(c, p) /\ c # NoConn
  BY ConnAssumption DEF Inv, Threads, Ends
<1>2. Closing(p) /\ ~Asking(p) /\ At(p, "notify")
  BY DEF NotifyClose, Closing, Asking, At
<1>3. /\ ~Unmade(c, p) /\ (h[c][p].closed_rd \/ h[c][p].closed_wr)
      /\ (main[p].then = "drain" => h[c][p].reg /\ ~h[c][p].closed_rd)
      /\ (main[p].then = "idle" => main[p].todo = {})
      /\ \A d \in main[p].todo : d # c
  BY <1>1, <1>2 DEF MainAt, At
<1>4. h[c][p] \in HandleSHM
  BY <1>1, Parts
<1>5. \E r \in HandleSHM :
        /\ h' = [h EXCEPT ![c][p] = r] /\ r.in = h[c][p].in
        /\ r.out = IF h[c][p].closed_wr THEN NoConn ELSE h[c][p].out
        /\ r.reg <=> h[c][p].reg /\ ~h[c][p].closed_rd
        /\ r.to_manage <=> h[c][p].to_manage /\ ~h[c][p].closed_rd
        /\ r.closed_rd <=> h[c][p].closed_rd
        /\ r.closed_wr <=> h[c][p].closed_wr
  <2>1. CASE h[c][p].closed_rd /\ h[c][p].closed_wr
    <3>1. PICK r : r = [h[c][p] EXCEPT !.out = NoConn, !.reg = FALSE, !.to_manage = FALSE]
      OBVIOUS
    <3>2. /\ r \in HandleSHM /\ r.in = h[c][p].in /\ r.out = NoConn /\ ~r.reg /\ ~r.to_manage
          /\ (r.closed_rd <=> h[c][p].closed_rd) /\ (r.closed_wr <=> h[c][p].closed_wr)
      BY <1>4, <3>1 DEF HandleSHM, Segment
    <3>3. h' = [h EXCEPT ![c][p] = r]
      BY <1>1, <2>1, <3>1, ZenonT(60) DEF NotifyClose, Erased, TypeOK
    <3> QED BY <2>1, <3>2, <3>3
  <2>2. CASE h[c][p].closed_rd /\ ~h[c][p].closed_wr
    <3>1. PICK r : r = [h[c][p] EXCEPT !.reg = FALSE, !.to_manage = FALSE]
      OBVIOUS
    <3>2. /\ r \in HandleSHM /\ r.in = h[c][p].in /\ r.out = h[c][p].out
          /\ ~r.reg /\ ~r.to_manage
          /\ (r.closed_rd <=> h[c][p].closed_rd) /\ (r.closed_wr <=> h[c][p].closed_wr)
      BY <1>4, <3>1 DEF HandleSHM
    <3>3. [[h[c][p] EXCEPT !.out = NoConn, !.reg = FALSE, !.to_manage = FALSE]
             EXCEPT !.out = h[c][p].out] = r
      BY <1>4, <3>1 DEF HandleSHM
    <3>4. h' = [h EXCEPT ![c][p] = r]
      <4>1. PICK o : o = h[c][p].out
        OBVIOUS
      <4>2. PICK e : e = [h[c][p] EXCEPT !.out = NoConn, !.reg = FALSE, !.to_manage = FALSE]
        OBVIOUS
      <4>3. h' = [Erased(c, p) EXCEPT ![c][p].out = o]
        BY <2>2, <4>1 DEF NotifyClose
      <4>4. PICK g : g = Erased(c, p)
        OBVIOUS
      <4>5. g = [h EXCEPT ![c][p] = e]
        BY <1>1, <4>2, <4>4, ZenonT(60) DEF Erased, TypeOK
      <4>6. e \in HandleSHM /\ r = [e EXCEPT !.out = o]
        BY <1>4, <3>3, <4>1, <4>2 DEF HandleSHM, Segment
      <4>7. g \in [Conn -> [Proc -> HandleSHM]] /\ g[c][p] = e
        BY <1>1, <4>5, <4>6 DEF TypeOK
      <4>8. h' = [g EXCEPT ![c][p] = r]
        BY <4>3, <4>4, <4>6, <4>7
      <4> QED BY <1>1, <4>5, <4>8 DEF TypeOK
    <3> QED BY <2>2, <3>2, <3>4
  <2>3. CASE ~h[c][p].closed_rd
    <3>1. PICK r : r = [h[c][p] EXCEPT !.out = NoConn]
      OBVIOUS
    <3>2. /\ r \in HandleSHM /\ r.in = h[c][p].in /\ r.out = NoConn
          /\ (r.reg <=> h[c][p].reg) /\ (r.to_manage <=> h[c][p].to_manage)
          /\ (r.closed_rd <=> h[c][p].closed_rd) /\ (r.closed_wr <=> h[c][p].closed_wr)
      BY <1>4, <3>1 DEF HandleSHM, Segment
    <3>3. h' = [h EXCEPT ![c][p] = r]
      BY <1>1, <2>3, <3>1 DEF NotifyClose, TypeOK
    <3> QED BY <1>3, <2>3, <3>2, <3>3
  <2> QED BY <2>1, <2>2, <2>3
<1>6. PICK r \in HandleSHM :
        /\ h' = [h EXCEPT ![c][p] = r] /\ r.in = h[c][p].in
        /\ r.out = IF h[c][p].closed_wr THEN NoConn ELSE h[c][p].out
        /\ r.reg <=> h[c][p].reg /\ ~h[c][p].closed_rd
        /\ r.to_manage <=> h[c][p].to_manage /\ ~h[c][p].closed_rd
        /\ r.closed_rd <=> h[c][p].closed_rd
        /\ r.closed_wr <=> h[c][p].closed_wr
  BY <1>5
<1>7. /\ h'[c][p] = r
      /\ \A d \in Conn, q \in Proc : d # c \/ q # p => h'[d][q] = h[d][q]
  <2>1. h' = [h EXCEPT ![c][p] = r]
    BY <1>6
  <2> QED BY <1>1, <2>1 DEF TypeOK
<1>8. /\ UNCHANGED <<limit, shmconnid, id, connbuff, queue, io, sent, missing>>
      /\ user' = user /\ slot' = slot
      /\ user' \in [Proc -> [Conn -> {"none", "held", "given"}]]
      /\ slot' \in [Conn -> [Dir -> {"empty", "msg", "eos"}]]
      /\ names' = IF h[c][p].closed_wr THEN Unlinked(c, p, Writes(c, p), names) ELSE names
  BY <1>1 DEF NotifyClose, TypeOK
<1>9. /\ Reads(c, p) \in Dir /\ Writes(c, p) \in Dir /\ Reads(c, p) # Writes(c, p)
  BY ReadsOf
<1>10. /\ names' \in [Proc -> [Dir -> [Ids -> Segment]]]
       /\ \A x \in Proc, k \in Dir, i \in Ids :
            names'[x][k][i] = names[x][k][i] \/ (names'[x][k][i] = NoConn /\ x = Caller[c]
                                                 /\ i = id[c])
  <2>1. CASE h[c][p].closed_wr
    BY <1>3, <1>8, <1>9, <2>1, UnlinkSet
  <2>2. CASE ~h[c][p].closed_wr
    BY <1>1, <1>8, <2>2 DEF TypeOK
  <2> QED BY <2>1, <2>2
<1>11. \/ h[c][p].closed_rd /\ Goto(p, "unmap")
       \/ ~h[c][p].closed_rd /\ main[p].then = "drain" /\ Goto(p, "drain")
       \/ ~h[c][p].closed_rd /\ main[p].then # "drain" /\ Return(p)
  BY DEF NotifyClose
<1>12. /\ main' \in [Proc -> Thread] /\ main'[p].todo = main[p].todo
       /\ \A x \in Proc : x # p => main'[x] = main[x]
       /\ \/ /\ h[c][p].closed_rd /\ main'[p].pc = "unmap" /\ main'[p].c = c
             /\ main'[p].then = main[p].then
          \/ /\ ~h[c][p].closed_rd /\ main[p].then = "drain" /\ main'[p].pc = "drain"
             /\ main'[p].c = c /\ main'[p].then = main[p].then
          \/ /\ ~h[c][p].closed_rd /\ main[p].then # "drain" /\ main'[p].pc = main[p].then
             /\ main'[p].c = NoConn /\ main'[p].then = "idle"
  <2>1. CASE h[c][p].closed_rd /\ Goto(p, "unmap")
    BY <1>1, <2>1, GotoSet DEF PC
  <2>2. CASE ~h[c][p].closed_rd /\ main[p].then = "drain" /\ Goto(p, "drain")
    BY <1>1, <2>2, GotoSet DEF PC
  <2>3. CASE ~h[c][p].closed_rd /\ main[p].then # "drain" /\ Return(p)
    BY <1>1, <2>3, ReturnSet
  <2> QED BY <1>11, <2>1, <2>2, <2>3
<1>13. main[p].then \in {"idle", "drain", "end"} /\ main[p].todo \subseteq Conn
  BY <1>1, Parts
<1>14. ~Unmade(c, p)'
  BY <1>3, <1>6, <1>7 DEF Unmade, NewHandle
<1>15. EndAt(c, p)'
  BY <1>1, <1>3, <1>6, <1>7, <1>8, <1>14 DEF EndAt
<1>16. MainAt(p)'
  <2>1. \A d \in main'[p].todo : h'[d][p].reg /\ ~h'[d][p].closed_rd /\ main'[p].c # d
    BY <1>1, <1>3, <1>7, <1>12, <1>13, ConnAssumption DEF MainAt
  <2>2. CASE main'[p].c = NoConn
    BY <1>1, <1>3, <1>12, <1>13, <2>1, <2>2 DEF MainAt, Asking, Closing, At
  <2>3. CASE main'[p].c = c /\ main'[p].pc = "unmap"
    BY <1>1, <1>3, <1>6, <1>7, <1>12, <1>14, <2>1, <2>3 DEF MainAt, Asking, Closing, At
  <2>4. CASE main'[p].c = c /\ main'[p].pc = "drain"
    BY <1>1, <1>3, <1>6, <1>7, <1>12, <1>14, <2>1, <2>4 DEF MainAt, Asking, Closing, At
  <2> QED BY <1>12, <2>2, <2>3, <2>4
<1>17. IoThreadAt(p)'
  <2>1. /\ main'[p].c \in {c, NoConn}
        /\ main'[p].pc \in {"end", "drain", "done"} \/ main'[p].then # "idle"
             => IoAt(p, "exited")
    BY <1>1, <1>12, <1>13 DEF IoThreadAt
  <2> QED BY <1>7, <1>8, <2>1, IoKept
<1>18. LeftAt(c)'
  <2>1. CASE h[c][p].closed_wr
    <3>1. names' = Unlinked(c, p, Writes(c, p), names)
      BY <1>8, <2>1
    <3> QED BY <1>3, <1>6, <1>7, <1>8, <1>9, <3>1, LeftUnlinked
  <2>2. CASE ~h[c][p].closed_wr
    <3>1. names' = names /\ id' = id /\ r.in = h[c][p].in /\ r.out = h[c][p].out
          /\ (r.closed_rd <=> h[c][p].closed_rd) /\ (r.closed_wr <=> h[c][p].closed_wr)
      BY <1>6, <1>8, <2>2
    <3> QED BY <1>7, <3>1, LeftKept
  <2> QED BY <2>1, <2>2
<1>19. Roomy /\ Pending(c) => WaitingAt(c)'
  <2> SUFFICES ASSUME Roomy, Pending(c) PROVE FALSE
    OBVIOUS
  <2>1. p = Caller[c] /\ WaitingAt(c)
    BY <1>3, PendingEnd
  <2> QED BY <1>3, <2>1 DEF WaitingAt
<1>20. main[p].pc # "request" /\ main'[p].pc # "request" /\ main[p].c \in {c, NoConn}
  BY <1>2, <1>12, <1>13 DEF At
<1>21. /\ h' = [h EXCEPT ![c][p] = r]
       /\ r.in \in {h[c][p].in, NoConn} /\ r.out \in {h[c][p].out, NoConn}
  BY <1>6
<1> QED BY <1>3, <1>8, <1>10, <1>12, <1>14, <1>15, <1>16, <1>17, <1>18, <1>19, <1>20, <1>21,
           EndKeeps

-----------------------------------------------------------------------------
(***************************************************************************)
(* Steps of the queue and of the IO thread.                                *)
(***************************************************************************)
(* A step that changes no handle and not what the program is doing.        *)
LEMMA QueueKeeps ==
  ASSUME Inv, NEW p \in Proc, NEW c \in Conn,
         UNCHANGED <<segments, connbuff, h, main, sent, missing>>,
         slot' \in [Conn -> [Dir -> {"empty", "msg", "eos"}]],
         slot' = slot \/ ~Unmade(c, p),
         Roomy => \A d \in Conn : d # c => slot'[d] = slot[d],
         Roomy /\ Pending(c) => slot'[c] = slot[c],
         user' \in [Proc -> [Conn -> {"none", "held", "given"}]],
         queue' \in [Proc -> [Conn -> 0..MaxQueue]], io' \in [Proc -> IoState],
         \A x \in Proc : x # p => user'[x] = user[x] /\ queue'[x] = queue[x] /\ io'[x] = io[x],
         \A d \in Conn : Unmade(d, p)' <=> Unmade(d, p),
         IoThreadAt(p)'
  PROVE  Inv'
<1>1. TypeOK /\ Ends /\ Left /\ Own /\ MainAt(p)
  BY DEF Inv, Threads
<1>2. h' = h /\ main' = main /\ id' = id /\ names' = names /\ limit' = limit
      /\ shmconnid' = shmconnid /\ connbuff' = connbuff /\ missing' = missing
  BY DEF segments
<1>3. TypeOK'
  BY <1>1, <1>2 DEF TypeOK, IoState
<1>4. \A d \in Conn, x \in Proc : Unmade(d, x)' <=> Unmade(d, x)
  <2> SUFFICES ASSUME NEW d \in Conn, NEW x \in Proc, x # p
               PROVE  Unmade(d, x)' <=> Unmade(d, x)
    OBVIOUS
  <2> QED BY <1>2 DEF Unmade
<1>5. slot' = slot \/ id[c] # NoId
  BY <1>1 DEF Ends, EndAt
<1>6. Roomy => \A d \in Conn : slot'[d] = slot[d] \/ (d = c /\ id[c] # NoId)
  BY <1>5
<1>7. Local(c, p)
  BY <1>2, <1>4, <1>6 DEF Local
<1>8. EndAt(c, p)'
  BY <1>1, <1>2, <1>4 DEF Ends, EndAt, At
<1>9. MainAt(p)'
  <2>1. main[p].c \in Segment
    BY <1>1, Parts
  <2>2. CASE main[p].c = NoConn
    BY <1>1, <1>2, <2>2 DEF MainAt, Asking, Closing, At
  <2>3. CASE main[p].c \in Conn
    BY <1>1, <1>2, <1>4, <2>3 DEF MainAt, Asking, Closing, At
  <2> QED BY <2>1, <2>2, <2>3 DEF Segment
<1>10. LeftAt(c)'
  BY <1>1, <1>2 DEF Left, LeftAt
<1>11. Roomy /\ Pending(c) => WaitingAt(c)'
  <2> SUFFICES ASSUME Roomy, Pending(c) PROVE WaitingAt(c)'
    OBVIOUS
  <2>1. WaitingAt(c)
    BY <1>1 DEF Own
  <2>2. Greets(c) => Greets(c)'
    BY <1>2 DEF Greets, Asking, At
  <2> QED BY <1>2, <2>1, <2>2 DEF WaitingAt
<1> QED BY <1>3, <1>7, <1>8, <1>9, <1>10, <1>11, LocalKeeps

(* A queued handle becomes the program's.                                  *)
LEMMA GetNextKeeps ==
  ASSUME Inv, NEW p \in Proc, NEW c \in Conn, GetNext(p, c)
  PROVE  Inv'
<1>1. TypeOK /\ MainAt(p) /\ IoThreadAt(p)
  BY DEF Inv, Threads
<1>2. queue[p][c] \in 0..MaxQueue /\ queue[p][c] > 0 /\ MaxQueue \in Nat
  BY <1>1, Parts, BoundAssumption DEF GetNext
<1>3. /\ UNCHANGED <<segments, connbuff, h, main, sent, missing>> /\ slot' = slot /\ io' = io
      /\ slot' \in [Conn -> [Dir -> {"empty", "msg", "eos"}]]
      /\ io' \in [Proc -> IoState]
  BY <1>1 DEF GetNext, TypeOK, IoState
<1>4. /\ queue' \in [Proc -> [Conn -> 0..MaxQueue]]
      /\ \A x \in Proc : x # p => queue'[x] = queue[x]
      /\ \A d \in Conn : d # c => queue'[p][d] = queue[p][d]
  BY <1>1, <1>2 DEF GetNext, TypeOK
<1>5. /\ user' \in [Proc -> [Conn -> {"none", "held", "given"}]]
      /\ \A x \in Proc : x # p => user'[x] = user[x]
      /\ \A d \in Conn : d # c => user'[p][d] = user[p][d]
      /\ user'[p][c] = "held"
  BY <1>1 DEF GetNext, TypeOK
<1>6. \A d \in Conn : Unmade(d, p)' <=> Unmade(d, p)
  BY <1>2, <1>3, <1>4, <1>5, SMTT(30) DEF Unmade
<1>7. IoThreadAt(p)'
  <2>1. CASE io[p].c = NoConn
    BY <1>1, <1>3, <2>1 DEF IoThreadAt, IoAt
  <2>2. CASE io[p].c \in Conn
    <3>1. io[p].c # c
      BY <1>1, <1>2, <2>2, ConnAssumption DEF IoThreadAt
    <3> QED BY <1>1, <1>3, <1>4, <1>5, <2>2, <3>1 DEF IoThreadAt, IoAt
  <2> QED BY <1>1, <2>1, <2>2, Parts DEF Segment
<1> QED BY <1>3, <1>4, <1>5, <1>6, <1>7, QueueKeeps

(* The IO thread ends between two turns.                                   *)
LEMMA IoExitKeeps ==
  ASSUME Inv, NEW p \in Proc, IoExit(p)
  PROVE  Inv'
<1>1. TypeOK /\ IoThreadAt(p)
  BY DEF Inv, Threads
<1>2. PICK c \in Conn : TRUE
  BY ConnAssumption
<1>3. /\ io' \in [Proc -> IoState] /\ io'[p].pc = "exited" /\ io'[p].c = NoConn
      /\ \A x \in Proc : x # p => io'[x] = io[x]
  BY <1>1, IoGotoSet DEF IoExit
<1>4. /\ UNCHANGED <<segments, connbuff, h, main, sent, missing>>
      /\ slot' = slot /\ user' = user /\ queue' = queue
      /\ slot' \in [Conn -> [Dir -> {"empty", "msg", "eos"}]]
      /\ user' \in [Proc -> [Conn -> {"none", "held", "given"}]]
      /\ queue' \in [Proc -> [Conn -> 0..MaxQueue]]
  BY <1>1 DEF IoExit, TypeOK
<1>5. \A d \in Conn : Unmade(d, p)' <=> Unmade(d, p)
  BY <1>4 DEF Unmade
<1>6. IoThreadAt(p)'
  BY <1>3 DEF IoThreadAt, IoAt
<1> QED BY <1>3, <1>4, <1>5, <1>6, QueueKeeps

(* Handles that were given back are queued.                                *)
LEMMA PollKeeps ==
  ASSUME Inv, NEW p \in Proc, Poll(p)
  PROVE  Inv'
<1>1. TypeOK /\ IoThreadAt(p)
  BY DEF Inv, Threads
<1>2. PICK c \in Conn : TRUE
  BY ConnAssumption
<1>3. /\ io' \in [Proc -> IoState] /\ io'[p].pc = "start" /\ io'[p].c = NoConn
      /\ \A x \in Proc : x # p => io'[x] = io[x]
  BY <1>1, IoGotoSet DEF Poll
<1>4. /\ UNCHANGED <<segments, connbuff, h, main, sent, missing>>
      /\ h' = h /\ main' = main /\ slot' = slot /\ user' = user
      /\ slot' \in [Conn -> [Dir -> {"empty", "msg", "eos"}]]
      /\ user' \in [Proc -> [Conn -> {"none", "held", "given"}]]
  BY <1>1 DEF Poll, TypeOK
<1>5. MaxQueue \in Nat
  BY BoundAssumption
<1>6. /\ queue' \in [Proc -> [Conn -> 0..MaxQueue]]
      /\ \A x \in Proc : x # p => queue'[x] = queue[x]
      /\ \A d \in Conn : d \notin Polled(p) => queue'[p][d] = queue[p][d]
  BY <1>1, <1>5 DEF Poll, TypeOK
<1>7. \A d \in Polled(p) : ~Unmade(d, p) /\ ~Unmade(d, p)'
  BY <1>4 DEF Polled, Unmade, NewHandle
<1>8. \A d \in Conn : Unmade(d, p)' <=> Unmade(d, p)
  <2> SUFFICES ASSUME NEW d \in Conn, d \notin Polled(p)
               PROVE  Unmade(d, p)' <=> Unmade(d, p)
    BY <1>7
  <2> QED BY <1>4, <1>6 DEF Unmade
<1>9. IoThreadAt(p)'
  BY <1>1, <1>3, <1>4 DEF IoThreadAt, IoAt, Poll
<1> QED BY <1>3, <1>4, <1>6, <1>8, <1>9, QueueKeeps

(* The handshake is taken out of the segment the listener has mapped.      *)
LEMMA HandshakeKeeps ==
  ASSUME Inv, NEW p \in Proc, NEW c \in Conn, io[p].c = c, Handshake(p)
  PROVE  Inv'
<1>1. TypeOK /\ IoThreadAt(p) /\ Requests
  BY DEF Inv, Threads
<1>2. /\ IoAt(p, "handshake") /\ Callee(c) = p /\ h[c][p].reg
      /\ user[p][c] = "none" /\ queue[p][c] = 0
  BY <1>1 DEF IoThreadAt, Handshake
<1>3. /\ io' \in [Proc -> IoState] /\ io'[p].pc = "poll" /\ io'[p].c = NoConn
      /\ \A x \in Proc : x # p => io'[x] = io[x]
  BY <1>1, IoGotoSet DEF Handshake
<1>4. /\ UNCHANGED <<segments, connbuff, h, main, sent, missing>>
      /\ h' = h /\ main' = main /\ user' = user
      /\ user' \in [Proc -> [Conn -> {"none", "held", "given"}]]
  BY <1>1 DEF Handshake, TypeOK
<1>5. /\ queue' \in [Proc -> [Conn -> 0..MaxQueue]]
      /\ \A x \in Proc : x # p => queue'[x] = queue[x]
      /\ \A d \in Conn : d # c => queue'[p][d] = queue[p][d]
  <2>1. MaxQueue \in Nat \ {0}
    BY BoundAssumption
  <2>2. queue' = [queue EXCEPT ![p][c] = 1]
    BY <1>1, <1>2 DEF Handshake, TypeOK
  <2> QED BY <1>1, <2>1, <2>2 DEF TypeOK
<1>6. ~Unmade(c, p) /\ ~Unmade(c, p)'
  BY <1>2, <1>4 DEF Unmade, NewHandle
<1>7. \A d \in Conn : Unmade(d, p)' <=> Unmade(d, p)
  <2> SUFFICES ASSUME NEW d \in Conn, d # c
               PROVE  Unmade(d, p)' <=> Unmade(d, p)
    BY <1>6
  <2> QED BY <1>4, <1>5 DEF Unmade
<1>8. /\ slot' \in [Conn -> [Dir -> {"empty", "msg", "eos"}]]
      /\ Roomy => \A e \in Conn : e # c => slot'[e] = slot[e]
  <2>1. Reads(c, p) \in Dir
    BY ReadsOf
  <2>2. slot' = [slot EXCEPT ![h[c][p].in][Reads(c, p)] = "empty"]
    BY DEF Handshake
  <2> QED BY <2>1, <2>2, SlotSet, ZenonT(60)
<1>9. ~Pending(c)
  BY <1>1, <1>2, <1>6 DEF Requests
<1>10. IoThreadAt(p)'
  BY <1>1, <1>2, <1>3, <1>4 DEF IoThreadAt, IoAt
<1> QED BY <1>3, <1>4, <1>5, <1>6, <1>7, <1>8, <1>9, <1>10, QueueKeeps

-----------------------------------------------------------------------------
(***************************************************************************)
(* Steps by which connections come about.                                  *)
(***************************************************************************)
(* A step that changes the listeners' buffers, and no handle or name.      *)
LEMMA RequestKeeps ==
  ASSUME Inv, NEW p \in Proc,
         UNCHANGED <<segments, slot, h, queue, user, io, sent, missing>>,
         connbuff' \in [Proc -> Conn \union {"closed", "empty"}],
         main' \in [Proc -> Thread], \A x \in Proc : x # p => main'[x] = main[x],
         ~At(p, "notify"), MainAt(p)', IoThreadAt(p)', Requests',
         \A d \in Conn : Pending(d)' => Pending(d),
         \A d \in Conn : Greets(d) => Greets(d)'
  PROVE  Inv'
<1>1. TypeOK /\ Numbers /\ Ends /\ Left /\ Own
  BY DEF Inv
<1>2. /\ h' = h /\ user' = user /\ queue' = queue /\ names' = names /\ io' = io /\ slot' = slot
      /\ id' = id /\ limit' = limit /\ shmconnid' = shmconnid /\ missing' = missing
  BY DEF segments
<1>3. TypeOK'
  BY <1>1, <1>2 DEF TypeOK, Thread, PC
<1>4. Numbers'
  <2>1. \A x \in Proc : MadeBy(x)' = MadeBy(x)
    BY <1>2 DEF MadeBy
  <2>2. Roomy' <=> Roomy
    BY <1>2 DEF Roomy
  <2> QED BY <1>1, <1>2, <2>1, <2>2 DEF Numbers
<1>5. Ends'
  <2> SUFFICES ASSUME NEW d \in Conn, NEW x \in Proc PROVE EndAt(d, x)'
    BY DEF Ends
  <2>1. EndAt(d, x) /\ (Unmade(d, x)' <=> Unmade(d, x))
    BY <1>1, <1>2 DEF Ends, Unmade
  <2>2. At(x, "notify") /\ main[x].c = d => (At(x, "notify") /\ main[x].c = d)'
    BY DEF At
  <2> QED BY <1>2, <2>1, <2>2 DEF EndAt
<1>6. Threads'
  <2>1. ASSUME NEW x \in Proc, x # p PROVE MainAt(x)' /\ IoThreadAt(x)'
    BY <1>2, <2>1, ThreadKept
  <2> QED BY <2>1 DEF Threads
<1>7. Left'
  BY <1>1, <1>2 DEF Left, LeftAt
<1>8. Own'
  <2> SUFFICES ASSUME Roomy PROVE Own'
    BY <1>2 DEF Own, Roomy
  <2>1. ASSUME NEW d \in Conn, Pending(d)' PROVE WaitingAt(d)'
    <3>1. WaitingAt(d)
      BY <1>1, <2>1 DEF Own
    <3>2. Greets(d) => Greets(d)'
      OBVIOUS
    <3> QED BY <1>2, <3>1, <3>2 DEF WaitingAt
  <2> QED BY <1>1, <1>2, <2>1 DEF Own
<1> QED BY <1>3, <1>4, <1>5, <1>6, <1>7, <1>8 DEF Inv

(* A listener opens its buffer, which holds no request.                    *)
LEMMA ListenKeeps ==
  ASSUME Inv, NEW p \in Proc, Listen(p)
  PROVE  Inv'
<1>1. TypeOK /\ Requests /\ MainAt(p) /\ IoThreadAt(p)
  BY DEF Inv, Threads
<1>2. /\ UNCHANGED <<segments, slot, h, queue, user, io, sent, missing>>
      /\ h' = h /\ id' = id /\ user' = user /\ queue' = queue /\ io' = io /\ main' = main
      /\ main' \in [Proc -> Thread]
  BY <1>1 DEF Listen, segments, TypeOK, Thread, PC
<1>3. ~At(p, "notify")
  BY DEF Listen, Idle, At
<1>4. /\ connbuff' \in [Proc -> Conn \union {"closed", "empty"}]
      /\ connbuff[p] = "closed" /\ connbuff'[p] = "empty"
      /\ \A x \in Proc : x # p => connbuff'[x] = connbuff[x]
  BY <1>1 DEF Listen, TypeOK
<1>5. MainAt(p)' /\ IoThreadAt(p)'
  BY <1>2, ThreadKept
<1>6. \A d \in Conn : connbuff'[Callee(d)] = d <=> connbuff[Callee(d)] = d
  BY <1>4, TwoEnds, ConnAssumption
<1>7. \A d \in Conn : Pending(d)' <=> Pending(d)
  BY <1>2, <1>6 DEF Pending, At
<1>8. Requests'
  <2>1. \A x \in Proc : Requested(x)' => /\ Callee(connbuff'[x]) = x /\ id'[connbuff'[x]] # NoId
                                         /\ connbuff'[x] \in Conn
    BY <1>1, <1>2, <1>4 DEF Requests, Requested
  <2>2. ASSUME NEW x \in Proc, At(x, "request")'
        PROVE  connbuff'[Callee(main'[x].c)] # main'[x].c
    <3>1. At(x, "request") /\ Asking(x)
      BY <1>2, <2>2 DEF At, Asking
    <3>2. MainAt(x) /\ main[x].c \in Segment
      BY <1>1, Parts DEF Inv, Threads
    <3>3. main[x].c \in Conn
      BY <3>1, <3>2 DEF MainAt, Segment
    <3> QED BY <1>1, <1>2, <1>6, <3>1, <3>3 DEF Requests
  <2>3. \A d \in Conn : Pending(d)' => Unmade(d, Callee(d))'
    BY <1>1, <1>2, <1>7 DEF Requests, Unmade
  <2> QED BY <2>1, <2>2, <2>3 DEF Requests, Callee
<1>9. \A d \in Conn : Greets(d) => Greets(d)'
  BY <1>2 DEF Greets, Asking, At
<1> QED BY <1>2, <1>3, <1>4, <1>5, <1>7, <1>8, <1>9, RequestKeeps

(* A request moves from the caller's hands to the listener's buffer.       *)
LEMMA PutRequestKeeps ==
  ASSUME Inv, NEW p \in Proc, NEW c \in Conn, main[p].c = c, PutRequest(p)
  PROVE  Inv'
<1>1. TypeOK /\ Requests /\ MainAt(p) /\ IoThreadAt(p) /\ c # NoConn
  BY ConnAssumption DEF Inv, Threads
<1>2. At(p, "request") /\ Asking(p) /\ ~Closing(p)
  BY DEF PutRequest, Asking, Closing, At
<1>3. /\ Caller[c] = p /\ id[c] # NoId /\ main[p].then = "idle" /\ main[p].todo = {}
      /\ h[c][p] = [NewHandle EXCEPT !.in = c, !.out = c]
  BY <1>1, <1>2 DEF MainAt, At
<1>4. /\ UNCHANGED <<segments, slot, h, queue, user, io, sent, missing>>
      /\ h' = h /\ id' = id /\ user' = user /\ queue' = queue /\ io' = io
  BY <1>1 DEF PutRequest, segments
<1>5. /\ main' \in [Proc -> Thread] /\ main'[p].pc = "insert"
      /\ main'[p].c = c /\ main'[p].then = "idle" /\ main'[p].todo = {}
      /\ \A x \in Proc : x # p => main'[x] = main[x]
  BY <1>1, <1>3, GotoSet DEF PutRequest, PC
<1>6. /\ connbuff' \in [Proc -> Conn \union {"closed", "empty"}]
      /\ connbuff[Callee(c)] = "empty" /\ connbuff'[Callee(c)] = c
      /\ \A x \in Proc : x # Callee(c) => connbuff'[x] = connbuff[x]
  BY <1>1, TwoEnds DEF PutRequest, TypeOK
<1>7. MainAt(p)'
  BY <1>3, <1>4, <1>5, <1>1 DEF MainAt, Asking, Closing, At
<1>8. IoThreadAt(p)'
  <2>1. CASE io[p].c = NoConn
    BY <1>1, <1>4, <1>5, <2>1 DEF IoThreadAt, IoAt
  <2>2. CASE io[p].c \in Conn
    BY <1>1, <1>4, <1>5, <2>2 DEF IoThreadAt, IoAt
  <2> QED BY <1>1, <2>1, <2>2, Parts DEF Segment
<1>9. ASSUME NEW d \in Conn PROVE Pending(d)' <=> Pending(d)
  <2>1. CASE d = c
    BY <1>2, <1>3, <1>6, <2>1 DEF Pending
  <2>2. CASE d # c
    <3>1. connbuff'[Callee(d)] = d <=> connbuff[Callee(d)] = d
      BY <1>6, <2>2, TwoEnds, ConnAssumption
    <3>2. (At(Caller[d], "request") /\ main[Caller[d]].c = d)'
          <=> At(Caller[d], "request") /\ main[Caller[d]].c = d
      BY <1>5, <2>2, TwoEnds DEF At
    <3> QED BY <3>1, <3>2 DEF Pending
  <2> QED BY <2>1, <2>2
<1>10. Requests'
  <2>1. \A x \in Proc : Requested(x)' => /\ Callee(connbuff'[x]) = x /\ id'[connbuff'[x]] # NoId
                                         /\ connbuff'[x] \in Conn
    BY <1>1, <1>3, <1>4, <1>6 DEF Requests, Requested
  <2>2. ASSUME NEW x \in Proc, At(x, "request")'
        PROVE  connbuff'[Callee(main'[x].c)] # main'[x].c
    <3>1. x # p /\ At(x, "request") /\ Asking(x) /\ main'[x] = main[x]
      BY <1>5, <2>2 DEF At, Asking
    <3>2. MainAt(x) /\ main[x].c \in Segment
      BY <1>1, Parts DEF Inv, Threads
    <3>3. main[x].c \in Conn /\ Caller[main[x].c] = x
      BY <3>1, <3>2 DEF MainAt, Segment
    <3>4. Callee(main[x].c) # Callee(c)
      BY <1>3, <3>1, <3>3, TwoEnds
    <3> QED BY <1>1, <1>6, <3>1, <3>3, <3>4, TwoEnds DEF Requests
  <2>3. \A d \in Conn : Pending(d)' => Unmade(d, Callee(d))'
    BY <1>1, <1>4, <1>9 DEF Requests, Unmade
  <2> QED BY <2>1, <2>2, <2>3 DEF Requests, Callee
<1>11. \A d \in Conn : Greets(d) => Greets(d)'
  BY <1>2, <1>5, TwoEnds DEF Greets, Asking, At
<1>12. ~At(p, "notify")
  BY <1>2 DEF At
<1> QED BY <1>4, <1>5, <1>6, <1>7, <1>8, <1>9, <1>10, <1>11, <1>12, RequestKeeps

(* A request that the listener takes.  If a segment is missing, some other *)
(* connection has had the same number.                                     *)
LEMMA AcceptKeeps ==
  ASSUME Inv, NEW p \in Proc, NEW c, connbuff[p] = c, Accept(p)
  PROVE  Inv'
<1>1. /\ TypeOK /\ Numbers /\ Ends /\ Threads /\ Requests /\ Left /\ Own
      /\ MainAt(p) /\ IoThreadAt(p)
  BY DEF Inv, Threads
<1>2. c \in Conn /\ Callee(c) = p /\ id[c] # NoId /\ c # NoConn
  BY <1>1, ConnAssumption DEF Accept, Requests
<1>3. id[c] \in Ids /\ Caller[c] \in Proc /\ Caller[c] # p
  BY <1>1, <1>2, Parts, TwoEnds
<1>4. Pending(c) /\ Unmade(c, p)
  BY <1>1, <1>2 DEF Pending, Requests
<1>5. PICK in, out : in = names[Caller[c]]["out"][id[c]] /\ out = names[Caller[c]]["in"][id[c]]
  OBVIOUS
<1>6. in \in Segment /\ out \in Segment
  BY <1>1, <1>3, <1>5, Parts DEF Dir
<1>7. Roomy => in = c /\ out = c
  BY <1>1, <1>2, <1>4, <1>5 DEF Own, WaitingAt, Dir
<1>8. /\ UNCHANGED <<segments, slot, queue, user, main, sent>>
      /\ names' = names /\ id' = id /\ limit' = limit /\ shmconnid' = shmconnid
      /\ slot' = slot /\ queue' = queue /\ user' = user /\ main' = main
  BY DEF Accept, segments
<1>9. /\ connbuff' \in [Proc -> Conn \union {"closed", "empty"}] /\ connbuff'[p] = "empty"
      /\ \A x \in Proc : x # p => connbuff'[x] = connbuff[x]
  BY <1>1 DEF Accept, Taken, TypeOK
<1>10. \E r \in HandleSHM :
         /\ h' = [h EXCEPT ![c][p] = r]
         /\ \/ /\ h' = h /\ ~Roomy /\ IoGoto(p, "poll") /\ missing' = missing \union {c}
            \/ /\ r.in = in /\ r.out = out /\ in # NoConn /\ out # NoConn
               /\ r.reg /\ ~r.to_manage /\ ~r.closed_rd /\ ~r.closed_wr
               /\ io' = [io EXCEPT ![p].pc = "handshake", ![p].c = c] /\ missing' = missing
  <2>1. h[c][p] \in HandleSHM /\ h[c][p] = NewHandle
    BY <1>1, <1>2, <1>4, Parts DEF Unmade
  <2>2. CASE NoConn \in {in, out}
    <3>1. h' = h /\ IoGoto(p, "poll") /\ missing' = missing \union {c}
      BY <1>5, <2>2 DEF Accept
    <3>2. h' = [h EXCEPT ![c][p] = h[c][p]]
      BY <1>1, <1>2, <3>1 DEF TypeOK
    <3> QED BY <1>2, <1>7, <2>1, <2>2, <3>1, <3>2
  <2>3. CASE NoConn \notin {in, out}
    <3>1. PICK r : r = [h[c][p] EXCEPT !.in = in, !.out = out, !.reg = TRUE]
      OBVIOUS
    <3>2. /\ r \in HandleSHM /\ r.in = in /\ r.out = out
          /\ r.reg /\ ~r.to_manage /\ ~r.closed_rd /\ ~r.closed_wr
      <4>1. ~h[c][p].to_manage /\ ~h[c][p].closed_rd /\ ~h[c][p].closed_wr
        BY <2>1 DEF NewHandle
      <4>2. h[c][p] \in HandleSHM
        BY <2>1
      <4> QED BY <1>6, <3>1, <4>1, <4>2 DEF HandleSHM
    <3>3. /\ h' = [h EXCEPT ![c][p].in = in, ![c][p].out = out, ![c][p].reg = TRUE]
          /\ io' = [io EXCEPT ![p].pc = "handshake", ![p].c = c] /\ missing' = missing
      BY <1>5, <2>3 DEF Accept
    <3>4. h' = [h EXCEPT ![c][p] = r]
      BY <1>1, <1>2, <3>1, <3>3, ZenonT(60) DEF TypeOK
    <3> QED BY <2>3, <3>2, <3>3, <3>4
  <2> QED BY <2>2, <2>3
<1>11. PICK r \in HandleSHM :
         /\ h' = [h EXCEPT ![c][p] = r]
         /\ \/ /\ h' = h /\ ~Roomy /\ IoGoto(p, "poll") /\ missing' = missing \union {c}
            \/ /\ r.in = in /\ r.out = out /\ in # NoConn /\ out # NoConn
               /\ r.reg /\ ~r.to_manage /\ ~r.closed_rd /\ ~r.closed_wr
               /\ io' = [io EXCEPT ![p].pc = "handshake", ![p].c = c] /\ missing' = missing
  BY <1>10
<1>12. /\ h' \in [Conn -> [Proc -> HandleSHM]] /\ h'[c][p] = r
       /\ \A d \in Conn, q \in Proc : d # c \/ q # p => h'[d][q] = h[d][q]
  <2>1. h' = [h EXCEPT ![c][p] = r]
    BY <1>11
  <2> QED BY <1>1, <1>2, <2>1 DEF TypeOK
<1>13. /\ io' \in [Proc -> IoState] /\ \A x \in Proc : x # p => io'[x] = io[x]
       /\ \/ /\ h' = h /\ ~Roomy /\ io'[p].pc = "poll" /\ io'[p].c = NoConn
          \/ /\ r.in = in /\ r.out = out /\ in # NoConn /\ out # NoConn
             /\ r.reg /\ ~r.to_manage /\ ~r.closed_rd /\ ~r.closed_wr
             /\ io'[p].pc = "handshake" /\ io'[p].c = c
  <2>1. CASE h' = h /\ ~Roomy /\ IoGoto(p, "poll")
    BY <1>1, <2>1, IoGotoSet
  <2>2. CASE io' = [io EXCEPT ![p].pc = "handshake", ![p].c = c]
    <3>1. io'[p].pc = "handshake" /\ io'[p].c = c /\ \A x \in Proc : x # p => io'[x] = io[x]
      BY <1>1, <2>2 DEF TypeOK
    <3>2. io' \in [Proc -> IoState]
      BY <1>1, <1>2, <2>2, ZenonT(60) DEF TypeOK, IoState, Segment
    <3> QED BY <1>1, <1>11, <3>1, <3>2, IoGotoSet
  <2> QED BY <1>11, <2>1, <2>2
<1>14. missing' \subseteq Conn /\ (Roomy => missing' = missing)
  BY <1>1, <1>2, <1>11 DEF TypeOK
<1>15. TypeOK'
  BY <1>1, <1>8, <1>9, <1>12, <1>13, <1>14 DEF TypeOK, IoState
<1>16. Numbers'
  <2>1. \A x \in Proc : MadeBy(x)' = MadeBy(x)
    BY <1>8 DEF MadeBy
  <2>2. Roomy' <=> Roomy
    BY <1>8 DEF Roomy
  <2> QED BY <1>1, <1>8, <2>1, <2>2 DEF Numbers
<1>17. \A d \in Conn, x \in Proc : d # c \/ x # p => (Unmade(d, x)' <=> Unmade(d, x))
  BY <1>8, <1>12 DEF Unmade
<1>18. Ends'
  <2> SUFFICES ASSUME NEW d \in Conn, NEW x \in Proc PROVE EndAt(d, x)'
    BY DEF Ends
  <2>1. EndAt(d, x)
    BY <1>1 DEF Ends
  <2>2. CASE d # c \/ x # p
    BY <1>8, <1>12, <1>17, <2>1, <2>2 DEF EndAt, At
  <2>3. CASE d = c /\ x = p /\ h' = h
    <3>1. Unmade(d, x)' <=> Unmade(d, x)
      BY <1>8, <2>3 DEF Unmade
    <3> QED BY <1>8, <2>1, <2>3, <3>1 DEF EndAt, At
  <2>4. CASE d = c /\ x = p /\ h' # h
    BY <1>2, <1>8, <1>12, <1>13, <2>4 DEF EndAt
  <2> QED BY <2>2, <2>3, <2>4
<1>19. main[p].c # c /\ c \notin main[p].todo
  <2>1. Asking(p) => main[p].c # c
    BY <1>1, <1>3 DEF MainAt
  <2>2. Closing(p) => main[p].c # c
    BY <1>1, <1>4 DEF MainAt
  <2>3. ~h[c][p].reg
    BY <1>4 DEF Unmade, NewHandle
  <2> QED BY <1>1, <1>2, <2>1, <2>2, <2>3 DEF MainAt
<1>20. Threads'
  <2>1. ASSUME NEW x \in Proc, x # p PROVE MainAt(x)' /\ IoThreadAt(x)'
    BY <1>8, <1>12, <1>13, <2>1, ThreadKept
  <2>2. MainAt(p)'
    <3>1. main[p].c \in Segment /\ main[p].todo \subseteq Conn
      BY <1>1, Parts
    <3>2. \A d \in main'[p].todo : h'[d][p].reg /\ ~h'[d][p].closed_rd /\ main'[p].c # d
      BY <1>1, <1>8, <1>12, <1>19, <3>1 DEF MainAt
    <3>3. CASE main[p].c = NoConn
      BY <1>1, <1>8, <3>2, <3>3 DEF MainAt, Asking, Closing, At
    <3>4. CASE main[p].c \in Conn
      BY <1>1, <1>8, <1>12, <1>17, <1>19, <3>2, <3>4, SMTT(30) DEF MainAt, Asking, Closing, At
    <3> QED BY <3>1, <3>3, <3>4 DEF Segment
  <2>3. IoThreadAt(p)'
    <3>1. ~(main[p].pc \in {"end", "drain", "done"} \/ main[p].then # "idle")
      BY <1>1 DEF IoThreadAt, Accept, IoAt
    <3>2. CASE io'[p].c = NoConn
      BY <1>2, <1>8, <1>13, <3>1, <3>2 DEF IoThreadAt, IoAt
    <3>3. CASE io'[p].c = c
      BY <1>2, <1>4, <1>8, <1>12, <1>13, <1>19, <3>1, <3>3 DEF IoThreadAt, IoAt, Unmade
    <3> QED BY <1>13, <3>2, <3>3
  <2> QED BY <2>1, <2>2, <2>3 DEF Threads
<1>21. \A d \in Conn : Pending(d)' => Pending(d) /\ d # c
  <2> SUFFICES ASSUME NEW d \in Conn, Pending(d)' PROVE Pending(d) /\ d # c
    OBVIOUS
  <2>1. CASE (At(Caller[d], "request") /\ main[Caller[d]].c = d)'
    <3>1. At(Caller[d], "request") /\ main[Caller[d]].c = d
      BY <1>8, <2>1 DEF At
    <3>2. connbuff[Callee(d)] # d
      BY <1>1, <3>1, TwoEnds DEF Requests
    <3> QED BY <1>2, <3>1, <3>2 DEF Pending
  <2>2. CASE connbuff'[Callee(d)] = d
    BY <1>2, <1>9, <2>2, TwoEnds, ConnAssumption DEF Pending
  <2> QED BY <2>1, <2>2 DEF Pending, Callee
<1>22. Requests'
  <2>1. \A x \in Proc : Requested(x)' => /\ Callee(connbuff'[x]) = x /\ id'[connbuff'[x]] # NoId
                                         /\ connbuff'[x] \in Conn
    BY <1>1, <1>8, <1>9 DEF Requests, Requested
  <2>2. ASSUME NEW x \in Proc, At(x, "request")'
        PROVE  connbuff'[Callee(main'[x].c)] # main'[x].c
    <3>1. At(x, "request") /\ Asking(x)
      BY <1>8, <2>2 DEF At, Asking
    <3>2. MainAt(x) /\ main[x].c \in Segment
      BY <1>1, Parts DEF Threads
    <3>3. main[x].c \in Conn
      BY <3>1, <3>2 DEF MainAt, Segment
    <3> QED BY <1>1, <1>8, <1>9, <3>1, <3>3, TwoEnds, ConnAssumption DEF Requests
  <2>3. \A d \in Conn : Pending(d)' => Unmade(d, Callee(d))'
    BY <1>1, <1>17, <1>21, TwoEnds DEF Requests
  <2> QED BY <2>1, <2>2, <2>3 DEF Requests, Callee
<1>23. Left'
  <2> SUFFICES ASSUME NEW d \in Conn PROVE LeftAt(d)'
    BY DEF Left
  <2>1. h'[d][Caller[d]] = h[d][Caller[d]]
    BY <1>3, <1>12, TwoEnds
  <2> QED BY <1>1, <1>8, <2>1 DEF Left, LeftAt
<1>24. Own'
  <2> SUFFICES ASSUME Roomy PROVE Own'
    BY <1>8 DEF Own, Roomy
  <2>1. ASSUME NEW d \in Conn, NEW x \in Proc
        PROVE  {h'[d][x].in, h'[d][x].out} \subseteq {d, NoConn}
    <3>1. CASE d # c \/ x # p
      BY <1>1, <1>12, <3>1 DEF Own
    <3>2. CASE d = c /\ x = p
      BY <1>7, <1>12, <1>13, <3>2
    <3> QED BY <3>1, <3>2
  <2>2. ASSUME NEW d \in Conn, Pending(d)' PROVE WaitingAt(d)'
    <3>1. WaitingAt(d) /\ d # c
      BY <1>1, <1>21, <2>2 DEF Own
    <3>2. Greets(d) => Greets(d)'
      BY <1>8 DEF Greets, Asking, At
    <3>3. h'[d][Caller[d]] = h[d][Caller[d]]
      BY <1>12, <3>1, TwoEnds
    <3> QED BY <1>8, <3>1, <3>2, <3>3 DEF WaitingAt
  <2>3. \A d \in Conn : id'[d] = NoId => \A k \in Dir : slot'[d][k] = "empty"
    BY <1>1, <1>8 DEF Own
  <2>4. missing' = {}
    BY <1>1, <1>14 DEF Own
  <2> QED BY <2>1, <2>2, <2>3, <2>4 DEF Own
<1> QED BY <1>15, <1>16, <1>18, <1>20, <1>22, <1>23, <1>24 DEF Inv

(* The numbers go round.                                                   *)
LEMMA ModFacts ==
  ASSUME NEW a \in Nat, NEW b \in Nat \ {0}
  PROVE  a % b \in Nat /\ a % b <= a /\ (a < b => a % b = a)
<1>1. CASE a < b
  BY <1>1
<1>2. CASE b <= a
  BY <1>2
<1> QED BY <1>1, <1>2

(* A connection that is not made yet leaves room for its number.           *)
LEMMA Countable ==
  ASSUME Inv, NEW c \in Conn, id[c] = NoId
  PROVE  LET p == Caller[c] IN
         /\ shmconnid[p] \in Nat /\ shmconnid[p] + 1 <= Cardinality(Conn)
         /\ Cardinality(MadeBy(p) \union {c}) = shmconnid[p] + 1
<1> DEFINE p == Caller[c]
<1>1. shmconnid[p] = Cardinality(MadeBy(p))
  BY TwoEnds DEF Inv, Numbers
<1>2. IsFiniteSet(MadeBy(p)) /\ Cardinality(MadeBy(p)) \in Nat
  <2>1. MadeBy(p) \subseteq Conn
    BY DEF MadeBy
  <2> QED BY <2>1, ConnAssumption, FS_Subset, FS_CardinalityType
<1>3. c \notin MadeBy(p)
  BY DEF MadeBy
<1>4. Cardinality(MadeBy(p) \union {c}) = Cardinality(MadeBy(p)) + 1
  BY <1>2, <1>3, FS_AddElement
<1>5. MadeBy(p) \union {c} \subseteq Conn
  BY DEF MadeBy
<1>6. Cardinality(MadeBy(p) \union {c}) <= Cardinality(Conn)
  BY <1>5, ConnAssumption, FS_Subset
<1> QED BY <1>1, <1>2, <1>4, <1>6

(* A connection is made, or refused because a name is in use.              *)
LEMMA ConnectKeeps ==
  ASSUME Inv, NEW p \in Proc, NEW c \in Conn, Connect(p, c)
  PROVE  Inv'
<1>1. /\ TypeOK /\ Numbers /\ Ends /\ Threads /\ Requests /\ Left /\ Own
      /\ MainAt(p) /\ IoThreadAt(p) /\ c # NoConn
  BY ConnAssumption DEF Inv, Threads
<1>2. /\ main[p].c = NoConn /\ main[p].then = "idle" /\ main[p].todo = {} /\ Idle(p)
      /\ ~At(p, "request") /\ ~At(p, "notify")
  BY NoCall DEF Connect, Idle, At
<1>3. Caller[c] = p /\ id[c] = NoId
  BY DEF Connect
<1>4. /\ shmconnid[p] \in Nat /\ shmconnid[p] + 1 <= Cardinality(Conn)
      /\ Cardinality(MadeBy(p) \union {c}) = shmconnid[p] + 1
  BY <1>3, Countable
<1>5. PICK n : n = shmconnid[p] % limit
  OBVIOUS
<1>6. n \in Nat /\ n <= shmconnid[p] /\ n \in Ids /\ n # NoId /\ (Roomy => n = shmconnid[p])
  <2>1. limit \in Nat \ {0}
    BY <1>1, ConcurrentAssumption DEF TypeOK
  <2>2. n \in Nat /\ n <= shmconnid[p] /\ (shmconnid[p] < limit => n = shmconnid[p])
    BY <1>4, <1>5, <2>1, ModFacts
  <2> QED BY <1>4, <2>1, <2>2, Cards DEF Ids, Roomy
<1>7. /\ shmconnid' = [shmconnid EXCEPT ![p] = @ + 1] /\ id' = [id EXCEPT ![c] = n]
      /\ limit' = limit /\ slot' = slot /\ connbuff' = connbuff /\ queue' = queue
      /\ user' = user /\ io' = io /\ sent' = sent /\ missing' = missing
  BY <1>5 DEF Connect
<1>8. \A x \in Proc : Unmade(c, x)
  BY <1>1, <1>3 DEF Ends, EndAt
<1>9. PICK ok \in BOOLEAN : ok <=> Free(p, "in", n) /\ Free(p, "out", n)
  OBVIOUS
<1>10. /\ ok => /\ Call(p, "request", c, "idle")
                /\ names' = [names EXCEPT ![p]["in"][n] = c, ![p]["out"][n] = c]
                /\ h' = [h EXCEPT ![c][p].in = c, ![c][p].out = c]
       /\ ~ok => /\ h' = h /\ main' = main
                 /\ names' = names \/ (Free(p, "in", n) /\ names' = [names EXCEPT ![p]["in"][n] = c])
  BY <1>5, <1>9 DEF Connect
<1>11. /\ names' \in [Proc -> [Dir -> [Ids -> Segment]]]
       /\ \A x \in Proc, k \in Dir, i \in Ids :
            \/ names'[x][k][i] = names[x][k][i]
            \/ x = p /\ i = n /\ names[x][k][i] = NoConn /\ names'[x][k][i] = c
       /\ ok => \A k \in Dir : names'[p][k][n] = c
  <2>1. CASE ok
    <3>1. names' = [names EXCEPT ![p]["in"][n] = c, ![p]["out"][n] = c]
      BY <1>10, <2>1
    <3>2. names[p]["in"][n] = NoConn /\ names[p]["out"][n] = NoConn
      BY <1>9, <2>1 DEF Free
    <3>3. names \in [Proc -> [Dir -> [Ids -> Segment]]] /\ "in" \in Dir /\ "out" \in Dir
          /\ Dir = {"in", "out"} /\ c \in Segment
      BY <1>1 DEF TypeOK, Dir, Segment
    <3>4. names' \in [Proc -> [Dir -> [Ids -> Segment]]]
      BY <1>6, <3>1, <3>3
    <3>5. \A x \in Proc, i \in Ids : x # p \/ i # n =>
            names'[x]["in"][i] = names[x]["in"][i] /\ names'[x]["out"][i] = names[x]["out"][i]
      BY <1>6, <3>1, <3>3
    <3>6. names'[p]["in"][n] = c /\ names'[p]["out"][n] = c
      BY <1>6, <3>1, <3>3
    <3> QED BY <2>1, <3>2, <3>3, <3>4, <3>5, <3>6
  <2>2. CASE ~ok /\ names' = names
    BY <1>1, <2>2 DEF TypeOK
  <2>3. CASE ~ok /\ Free(p, "in", n) /\ names' = [names EXCEPT ![p]["in"][n] = c]
    BY <1>1, <1>6, <2>3 DEF TypeOK, Free, Dir, Segment
  <2> QED BY <1>10, <2>1, <2>2, <2>3
<1>12. /\ h' \in [Conn -> [Proc -> HandleSHM]]
       /\ \A d \in Conn, x \in Proc : d # c \/ x # p => h'[d][x] = h[d][x]
       /\ ~ok => h' = h
       /\ ok => h'[c][p] = [NewHandle EXCEPT !.in = c, !.out = c]
  <2>1. h[c][p] = NewHandle /\ h[c][p] \in HandleSHM
    BY <1>1, <1>8, Parts DEF Unmade
  <2>2. PICK r : r = [h[c][p] EXCEPT !.in = c, !.out = c]
    OBVIOUS
  <2>3. r \in HandleSHM /\ r = [NewHandle EXCEPT !.in = c, !.out = c]
    <3>1. r \in HandleSHM
      BY <2>1, <2>2 DEF HandleSHM, Segment
    <3> QED BY <2>1, <2>2, <3>1
  <2>4. CASE ok
    <3>1. h' = [h EXCEPT ![c][p] = r]
      <4>1. h' = [h EXCEPT ![c][p].in = c, ![c][p].out = c]
        BY <1>10, <2>4
      <4> QED BY <1>1, <2>2, <4>1 DEF TypeOK
    <3>2. TypeOK /\ r \in HandleSHM
      BY <1>1, <2>3
    <3>3. /\ h' \in [Conn -> [Proc -> HandleSHM]] /\ h'[c][p] = r
          /\ \A d \in Conn, x \in Proc : d # c \/ x # p => h'[d][x] = h[d][x]
      BY <3>1, <3>2 DEF TypeOK
    <3> QED BY <2>3, <2>4, <3>3
  <2>5. CASE ~ok
    BY <1>1, <1>10, <2>5 DEF TypeOK
  <2> QED BY <2>4, <2>5
<1>13. /\ main' \in [Proc -> Thread] /\ \A x \in Proc : x # p => main'[x] = main[x]
       /\ ok => /\ main'[p].pc = "request" /\ main'[p].c = c /\ main'[p].then = "idle"
                /\ main'[p].todo = {}
       /\ ~ok => main' = main
  <2>1. CASE ok
    BY <1>1, <1>2, <1>10, <2>1, CallSet DEF PC
  <2>2. CASE ~ok
    BY <1>1, <1>10, <2>2 DEF TypeOK, Thread, PC
  <2> QED BY <2>1, <2>2
<1>14. /\ id'[c] = n /\ \A d \in Conn : d # c => id'[d] = id[d]
       /\ id' \in [Conn -> Ids \union {NoId}]
       /\ shmconnid'[p] = shmconnid[p] + 1
       /\ \A x \in Proc : x # p => shmconnid'[x] = shmconnid[x]
  BY <1>1, <1>6, <1>7 DEF TypeOK
<1>15. shmconnid' \in [Proc -> 0..Cardinality(Conn)]
  BY <1>1, <1>4, <1>7, Cards DEF TypeOK
<1>16. TypeOK'
  BY <1>1, <1>7, <1>11, <1>12, <1>13, <1>14, <1>15 DEF TypeOK, Thread, PC
<1>17. Numbers'
  <2>1. \A x \in Proc, k \in Dir, i \in Ids : names'[x][k][i] # NoConn =>
          Caller[names'[x][k][i]] = x /\ id'[names'[x][k][i]] = i
    <3> SUFFICES ASSUME NEW x \in Proc, NEW k \in Dir, NEW i \in Ids, names'[x][k][i] # NoConn
                 PROVE  Caller[names'[x][k][i]] = x /\ id'[names'[x][k][i]] = i
      OBVIOUS
    <3>1. CASE names'[x][k][i] = names[x][k][i]
      <4>1. PICK d \in Conn : d = names[x][k][i]
        BY <1>1, <3>1, Parts DEF Segment
      <4>2. Caller[d] = x /\ id[d] = i
        BY <1>1, <3>1, <4>1 DEF Numbers
      <4>3. d # c
        BY <1>3, <4>2, Cards
      <4> QED BY <1>14, <3>1, <4>1, <4>2, <4>3
    <3>2. CASE x = p /\ i = n /\ names'[x][k][i] = c
      BY <1>3, <1>14, <3>2
    <3> QED BY <1>11, <3>1, <3>2
  <2>2. MadeBy(p)' = MadeBy(p) \union {c}
    BY <1>3, <1>6, <1>14 DEF MadeBy
  <2>3. \A x \in Proc : x # p => MadeBy(x)' = MadeBy(x)
    BY <1>3, <1>14 DEF MadeBy
  <2>4. \A x \in Proc : shmconnid'[x] = Cardinality(MadeBy(x)')
    BY <1>1, <1>4, <1>14, <2>2, <2>3 DEF Numbers
  <2>5. Roomy' <=> Roomy
    BY <1>7 DEF Roomy
  <2>6. ASSUME Roomy, NEW d \in Conn, id'[d] # NoId
        PROVE  /\ id'[d] < shmconnid'[Caller[d]]
               /\ \A e \in Conn : Caller[d] = Caller[e] /\ id'[d] = id'[e] => d = e
    <3>1. \A e \in Conn : id[e] # NoId => id[e] < shmconnid[Caller[e]]
      BY <1>1, <2>6 DEF Numbers
    <3>2. \A e \in Conn : Caller[d] = Caller[e] /\ id[d] = id[e] /\ id[d] # NoId => d = e
      BY <1>1, <2>6 DEF Numbers
    <3>3. n = shmconnid[p]
      BY <1>6, <2>6
    <3>4. CASE d = c
      <4>1. id'[d] < shmconnid'[Caller[d]]
        BY <1>3, <1>4, <1>14, <3>3, <3>4
      <4>2. ASSUME NEW e \in Conn, Caller[e] = p, id'[e] = n, e # c PROVE FALSE
        <5>1. id[e] = n /\ id[e] # NoId
          BY <1>6, <1>14, <4>2
        <5> QED BY <1>4, <3>1, <3>3, <4>2, <5>1
      <4> QED BY <1>3, <1>14, <3>4, <4>1, <4>2
    <3>5. CASE d # c
      <4>1. id[d] = id'[d] /\ id[d] # NoId /\ id[d] \in Nat
        BY <1>1, <1>14, <2>6, <3>5, Parts, Cards, ZenonT(60)
      <4>2. id'[d] < shmconnid'[Caller[d]]
        <5>1. CASE Caller[d] = p
          BY <1>4, <1>14, <3>1, <4>1, <5>1
        <5>2. CASE Caller[d] # p
          BY <1>14, <3>1, <4>1, <5>2, TwoEnds
        <5> QED BY <5>1, <5>2
      <4>3. ASSUME NEW e \in Conn, Caller[d] = Caller[e], id'[d] = id'[e] PROVE d = e
        <5>1. CASE e = c
          <6>1. id[d] = n /\ Caller[d] = p
            BY <1>3, <1>14, <4>1, <4>3, <5>1
          <6> QED BY <1>4, <3>1, <3>3, <4>1, <6>1
        <5>2. CASE e # c
          BY <1>14, <3>2, <4>1, <4>3, <5>2
        <5> QED BY <5>1, <5>2
      <4> QED BY <4>2, <4>3
    <3> QED BY <3>4, <3>5
  <2> QED BY <2>1, <2>4, <2>5, <2>6 DEF Numbers
<1>18. /\ \A d \in Conn, x \in Proc : d # c \/ x # p => (Unmade(d, x)' <=> Unmade(d, x))
       /\ ~ok => Unmade(c, p)'
  BY <1>7, <1>8, <1>12 DEF Unmade
<1>19. ok => /\ h'[c][p].in = c /\ h'[c][p].out = c /\ ~h'[c][p].reg /\ ~h'[c][p].to_manage
             /\ ~h'[c][p].closed_rd /\ ~h'[c][p].closed_wr /\ h'[c][p].probed = "none"
             /\ ~Unmade(c, p)'
  <2> SUFFICES ASSUME ok
               PROVE  /\ h'[c][p].in = c /\ h'[c][p].out = c /\ ~h'[c][p].reg
                      /\ ~h'[c][p].to_manage /\ ~h'[c][p].closed_rd /\ ~h'[c][p].closed_wr
                      /\ h'[c][p].probed = "none" /\ ~Unmade(c, p)'
    OBVIOUS
  <2>1. PICK r : r = [NewHandle EXCEPT !.in = c, !.out = c]
    OBVIOUS
  <2>2. /\ r.in = c /\ r.out = c /\ ~r.reg /\ ~r.to_manage /\ ~r.closed_rd /\ ~r.closed_wr
        /\ r.probed = "none"
    BY <2>1 DEF NewHandle
  <2>3. h'[c][p] = r
    BY <1>12, <2>1
  <2>4. ~Unmade(c, p)'
    BY <1>1, <2>2, <2>3 DEF Unmade, NewHandle
  <2> QED BY <2>2, <2>3, <2>4
<1>20. Ends'
  <2> SUFFICES ASSUME NEW d \in Conn, NEW x \in Proc PROVE EndAt(d, x)'
    BY DEF Ends
  <2>1. EndAt(d, x)
    BY <1>1 DEF Ends
  <2>2. CASE (d # c \/ x # p) /\ d # c
    <3>1. At(x, "notify") /\ main[x].c = d => (At(x, "notify") /\ main[x].c = d)'
      BY <1>2, <1>13 DEF At
    <3>2. h'[d][x] = h[d][x] /\ (Unmade(d, x)' <=> Unmade(d, x)) /\ id'[d] = id[d]
      BY <1>12, <1>14, <1>18, <2>2
    <3> QED BY <2>1, <3>1, <3>2 DEF EndAt
  <2>3. CASE d = c /\ Unmade(d, x)'
    BY <1>6, <1>14, <2>3 DEF EndAt, Unmade, NewHandle
  <2>4. CASE d = c /\ x = p /\ ok
    BY <1>1, <1>6, <1>14, <1>19, <2>4 DEF EndAt
  <2> QED BY <1>8, <1>18, <2>2, <2>3, <2>4
<1>21. Threads'
  <2>1. ASSUME NEW x \in Proc, x # p PROVE MainAt(x)' /\ IoThreadAt(x)'
    <3>1. \A d \in Conn : h'[d][x] = h[d][x] /\ (id[d] # NoId => id'[d] # NoId)
      BY <1>3, <1>12, <1>14, <2>1
    <3> QED BY <1>7, <1>13, <2>1, <3>1, ThreadKept
  <2>2. CASE ok
    <3>1. MainAt(p)'
      BY <1>1, <1>3, <1>6, <1>12, <1>13, <1>14, <2>2, ZenonT(60) DEF MainAt, Asking, Closing, At
    <3>2. IoThreadAt(p)'
      <4>1. CASE io[p].c = NoConn
        BY <1>1, <1>7, <1>13, <2>2, <4>1 DEF IoThreadAt, IoAt
      <4>2. CASE io[p].c \in Conn
        <5>1. io[p].c # c
          BY <1>1, <1>8, <4>2, ConnAssumption DEF IoThreadAt, Unmade, NewHandle
        <5> QED BY <1>1, <1>7, <1>12, <1>13, <2>2, <4>2, <5>1 DEF IoThreadAt, IoAt
      <4> QED BY <1>1, <4>1, <4>2, Parts DEF Segment
    <3> QED BY <2>1, <3>1, <3>2 DEF Threads
  <2>3. CASE ~ok
    <3>1. \A d \in Conn : h'[d][p] = h[d][p] /\ (id[d] # NoId => id'[d] # NoId)
      BY <1>3, <1>12, <1>14, <2>3
    <3>2. main'[p] = main[p]
      BY <1>13, <2>3
    <3> QED BY <1>7, <2>1, <3>1, <3>2, ThreadKept DEF Threads
  <2> QED BY <2>2, <2>3
<1>22. connbuff[Callee(c)] # c
  BY <1>1, <1>3, TwoEnds, ConnAssumption DEF Requests, Requested
<1>23. /\ \A d \in Conn : d # c => (Pending(d)' => Pending(d))
       /\ Pending(c)' => ok
  <2>1. ASSUME NEW d \in Conn, d # c, Pending(d)' PROVE Pending(d)
    BY <1>2, <1>7, <1>13, <2>1, TwoEnds DEF Pending, At
  <2>2. ASSUME Pending(c)' PROVE ok
    BY <1>2, <1>3, <1>7, <1>13, <1>22, <2>2 DEF Pending, At
  <2> QED BY <2>1, <2>2
<1>24. Requests'
  <2>1. \A x \in Proc : Requested(x)' => /\ Callee(connbuff'[x]) = x /\ id'[connbuff'[x]] # NoId
                                         /\ connbuff'[x] \in Conn
    BY <1>1, <1>6, <1>7, <1>14 DEF Requests, Requested
  <2>2. ASSUME NEW x \in Proc, At(x, "request")'
        PROVE  connbuff'[Callee(main'[x].c)] # main'[x].c
    <3>1. CASE x = p
      BY <1>2, <1>7, <1>13, <1>22, <2>2, <3>1 DEF At
    <3>2. CASE x # p
      BY <1>1, <1>7, <1>13, <2>2, <3>2 DEF Requests, At
    <3> QED BY <3>1, <3>2
  <2>3. \A d \in Conn : Pending(d)' => Unmade(d, Callee(d))'
    <3>1. Unmade(c, Callee(c))'
      BY <1>3, <1>8, <1>18, TwoEnds
    <3> QED BY <1>1, <1>18, <1>23, <3>1, TwoEnds DEF Requests
  <2> QED BY <2>1, <2>2, <2>3 DEF Requests, Callee
<1>25. Left'
  <2> SUFFICES ASSUME NEW d \in Conn PROVE LeftAt(d)'
    BY DEF Left
  <2>1. CASE d = c
    <3>1. CASE ok
      BY <1>1, <1>3, <1>19, <2>1, <3>1 DEF LeftAt
    <3>2. CASE ~ok
      BY <1>3, <1>18, <2>1, <3>2 DEF LeftAt, Unmade, NewHandle
    <3> QED BY <3>1, <3>2
  <2>2. CASE d # c
    <3>1. LeftAt(d) /\ h'[d][Caller[d]] = h[d][Caller[d]] /\ id'[d] = id[d]
      BY <1>1, <1>12, <1>14, <2>2, TwoEnds DEF Left
    <3>2. CASE id[d] = NoId
      <4>1. Unmade(d, Caller[d])
        BY <1>1, <3>2, TwoEnds DEF Ends, EndAt
      <4> QED BY <3>1, <4>1 DEF Unmade, NewHandle, LeftAt
    <3>3. CASE id[d] \in Ids
      <4>1. \A k \in Dir : names'[Caller[d]][k][id[d]] \in {names[Caller[d]][k][id[d]], c}
        BY <1>11, <3>3, TwoEnds
      <4> QED BY <2>2, <3>1, <4>1 DEF LeftAt, Dir
    <3> QED BY <1>1, <3>2, <3>3, Parts
  <2> QED BY <2>1, <2>2
<1>26. Own'
  <2> SUFFICES ASSUME Roomy PROVE Own'
    BY <1>7 DEF Own, Roomy
  <2>1. ASSUME NEW d \in Conn, NEW x \in Proc
        PROVE  {h'[d][x].in, h'[d][x].out} \subseteq {d, NoConn}
    <3>1. CASE h'[d][x] = h[d][x]
      BY <1>1, <3>1 DEF Own
    <3>2. CASE d = c /\ x = p /\ ok
      BY <1>19, <3>2
    <3> QED BY <1>12, <3>1, <3>2
  <2>2. \A k \in Dir : slot[c][k] = "empty"
    BY <1>1, <1>3 DEF Own
  <2>3. ASSUME NEW d \in Conn, Pending(d)' PROVE WaitingAt(d)'
    <3>1. CASE d = c
      <4>1. ok
        BY <1>23, <2>3, <3>1
      <4>2. Greets(c)'
        BY <1>3, <1>13, <4>1 DEF Greets, Asking, At
      <4> QED BY <1>3, <1>7, <1>11, <1>14, <1>19, <2>2, <3>1, <4>1, <4>2 DEF WaitingAt, Dir
    <3>2. CASE d # c
      <4>1. Pending(d) /\ WaitingAt(d) /\ id[d] # NoId
        BY <1>1, <1>23, <2>3, <3>2, PendingHasId DEF Own
      <4>2. Greets(d) => Greets(d)'
        BY <1>2, <1>13, TwoEnds, ConnAssumption DEF Greets, Asking, At
      <4>3. h'[d][Caller[d]] = h[d][Caller[d]] /\ id'[d] = id[d]
        BY <1>12, <1>14, <3>2, TwoEnds
      <4>4. \A k \in Dir : names'[Caller[d]][k][id[d]] = d
        <5>1. id[d] \in Ids /\ Caller[d] \in Proc /\ d # NoConn
          BY <1>1, <4>1, Parts, TwoEnds, ConnAssumption
        <5>2. \A k \in Dir : names[Caller[d]][k][id[d]] = d
          BY <4>1 DEF WaitingAt
        <5>3. ASSUME NEW k \in Dir PROVE names'[Caller[d]][k][id[d]] = d
          <6>1. names[Caller[d]][k][id[d]] = d
            BY <5>2
          <6>2. \/ names'[Caller[d]][k][id[d]] = names[Caller[d]][k][id[d]]
                \/ names[Caller[d]][k][id[d]] = NoConn
            BY <1>11, <5>1
          <6> QED BY <5>1, <6>1, <6>2
        <5> QED BY <5>3
      <4> QED BY <1>7, <4>1, <4>2, <4>3, <4>4 DEF WaitingAt
    <3> QED BY <3>1, <3>2
  <2>4. \A d \in Conn : id'[d] = NoId => \A k \in Dir : slot'[d][k] = "empty"
    BY <1>1, <1>6, <1>7, <1>14 DEF Own
  <2>5. missing' = {}
    BY <1>1, <1>7 DEF Own
  <2> QED BY <2>1, <2>3, <2>4, <2>5 DEF Own
<1> QED BY <1>16, <1>17, <1>20, <1>21, <1>24, <1>25, <1>26 DEF Inv

-----------------------------------------------------------------------------
(***************************************************************************)
(* The theorems.                                                           *)
(***************************************************************************)
(* After Manager::init no connection is made.                              *)
LEMMA InitInv == Init => Inv
<1> SUFFICES ASSUME Init PROVE Inv
  OBVIOUS
<1>1. Cardinality(Conn) \in Nat /\ NoId = Cardinality(Conn) /\ NoId \notin Ids
  BY Cards
<1>2. NewHandle \in HandleSHM
  BY DEF NewHandle, HandleSHM, Segment
<1>3. Idling \in Thread /\ [pc |-> "start", c |-> NoConn] \in IoState
  BY DEF Idling, Thread, PC, IoState, Segment
<1>4. TypeOK
  <2>1. shmconnid \in [Proc -> 0..Cardinality(Conn)] /\ id \in [Conn -> Ids \union {NoId}]
    BY <1>1 DEF Init
  <2>2. names \in [Proc -> [Dir -> [Ids -> Segment]]]
    BY DEF Init, Segment
  <2>3. slot \in [Conn -> [Dir -> {"empty", "msg", "eos"}]]
        /\ connbuff \in [Proc -> Conn \union {"closed", "empty"}]
        /\ h \in [Conn -> [Proc -> HandleSHM]]
    BY <1>2 DEF Init
  <2>4. queue \in [Proc -> [Conn -> 0..MaxQueue]]
    BY BoundAssumption DEF Init
  <2>5. main \in [Proc -> Thread] /\ io \in [Proc -> IoState]
    BY <1>3 DEF Init
  <2>6. /\ limit \in Concurrent /\ sent \in [Proc -> Nat] /\ missing \subseteq Conn
        /\ user \in [Proc -> [Conn -> {"none", "held", "given"}]]
    BY DEF Init
  <2> QED BY <2>1, <2>2, <2>3, <2>4, <2>5, <2>6 DEF TypeOK, Thread, PC, IoState
<1>5. \A c \in Conn, p \in Proc : /\ Unmade(c, p) /\ ~h[c][p].reg /\ ~h[c][p].to_manage
                                  /\ ~h[c][p].closed_rd /\ ~h[c][p].closed_wr
                                  /\ h[c][p].in = NoConn /\ h[c][p].out = NoConn
  BY DEF Init, Unmade, NewHandle
<1>6. Numbers
  <2>1. \A p \in Proc : MadeBy(p) = {}
    BY DEF Init, MadeBy
  <2>2. \A p \in Proc : shmconnid[p] = Cardinality(MadeBy(p))
    BY <2>1, FS_EmptySet DEF Init
  <2>3. \A p \in Proc, d \in Dir, i \in Ids : names[p][d][i] = NoConn
    BY DEF Init
  <2>4. \A c \in Conn : id[c] = NoId
    BY DEF Init
  <2> QED BY <2>2, <2>3, <2>4 DEF Numbers
<1>7. Ends
  BY <1>5 DEF Ends, EndAt
<1>8. \A p \in Proc : /\ main[p].pc = "idle" /\ main[p].c = NoConn /\ main[p].then = "idle"
                      /\ main[p].todo = {} /\ io[p].pc = "start" /\ io[p].c = NoConn
                      /\ connbuff[p] = "closed"
  BY DEF Init, Idling
<1>9. Threads
  BY <1>8 DEF Threads, MainAt, IoThreadAt, Asking, Closing, At, IoAt
<1>10. \A c \in Conn : ~Pending(c)
  BY <1>8, TwoEnds, ConnAssumption DEF Pending, At
<1>11. Requests
  BY <1>8, <1>10 DEF Requests, Requested, At
<1>12. Left
  BY <1>5, TwoEnds DEF Left, LeftAt
<1>13. Own
  BY <1>5, <1>10 DEF Own, Init
<1> QED BY <1>4, <1>6, <1>7, <1>9, <1>11, <1>12, <1>13 DEF Inv

(* A step that changes nothing.                                            *)
LEMMA StutterInv ==
  ASSUME Inv, UNCHANGED vars
  PROVE  Inv'
<1>1. /\ UNCHANGED <<segments, connbuff, h, main, sent, missing>>
      /\ slot' = slot /\ user' = user /\ queue' = queue /\ io' = io /\ main' = main /\ h' = h
      /\ id' = id
  BY DEF vars, segments
<1>2. TypeOK /\ Threads
  BY DEF Inv
<1>3. PICK c \in Conn : TRUE
  BY ConnAssumption
<1>4. PICK p \in Proc : TRUE
  BY ProcAssumption
<1>5. /\ slot' \in [Conn -> [Dir -> {"empty", "msg", "eos"}]]
      /\ user' \in [Proc -> [Conn -> {"none", "held", "given"}]]
      /\ queue' \in [Proc -> [Conn -> 0..MaxQueue]] /\ io' \in [Proc -> IoState]
  BY <1>1, <1>2 DEF TypeOK, IoState
<1>6. \A d \in Conn : Unmade(d, p)' <=> Unmade(d, p)
  BY <1>1 DEF Unmade
<1>7. IoThreadAt(p)'
  BY <1>1, ThreadKept
<1> QED BY <1>1, <1>5, <1>6, <1>7, QueueKeeps

(* A thread that is in the middle of a call knows the connection.          *)
LEMMA InCall ==
  ASSUME Inv, NEW p \in Proc
  PROVE  /\ Asking(p) \/ Closing(p) => main[p].c \in Conn
         /\ IoAt(p, "handshake") => io[p].c \in Conn
<1>1. TypeOK /\ MainAt(p) /\ IoThreadAt(p)
  BY DEF Inv, Threads
<1> QED BY <1>1, Parts DEF MainAt, IoThreadAt, Segment

(* Every step keeps the invariant.                                         *)
LEMMA NextInv == Inv /\ [Next]_vars => Inv'
<1> SUFFICES ASSUME Inv, [Next]_vars PROVE Inv'
  OBVIOUS
<1>1. CASE UNCHANGED vars
  BY <1>1, StutterInv
<1>2. ASSUME NEW p \in Proc, Operation(p) PROVE Inv'
  <2>1. ASSUME NEW c \in Conn, \/ Connect(p, c) \/ GetNext(p, c) \/ Send(p, c) \/ Probe(p, c)
                               \/ Receive(p, c) \/ Close(p, c) \/ Yield(p, c)
        PROVE  Inv'
    BY <2>1, ConnectKeeps, GetNextKeeps, SendKeeps, ProbeKeeps, ReceiveKeeps, CloseKeeps,
       YieldKeeps
  <2> QED BY <1>2, <2>1, ListenKeeps, FinalizeKeeps DEF Operation
<1>3. ASSUME NEW p \in Proc, Step(p) PROVE Inv'
  <2>1. CASE Join(p) \/ EndNext(p) \/ EndDone(p)
    BY <2>1, JoinKeeps, EndNextKeeps, EndDoneKeeps
  <2>2. CASE PutRequest(p) \/ ConnectInsert(p) \/ Put(p) \/ NotifyClose(p) \/ CloseIn(p)
             \/ Drain(p) \/ CloseRead(p)
    <3>1. Asking(p) \/ Closing(p)
      BY <2>2 DEF PutRequest, ConnectInsert, Put, NotifyClose, CloseIn, Drain, CloseRead,
                  Asking, Closing, At
    <3>2. PICK c \in Conn : main[p].c = c
      BY <3>1, InCall
    <3> QED BY <2>2, <3>2, PutRequestKeeps, ConnectInsertKeeps, PutKeeps, NotifyCloseKeeps,
               CloseInKeeps, DrainKeeps, CloseReadKeeps
  <2> QED BY <1>3, <2>1, <2>2 DEF Step
<1>4. ASSUME NEW p \in Proc, IoThread(p) PROVE Inv'
  <2>1. CASE IoExit(p) \/ Poll(p)
    BY <2>1, IoExitKeeps, PollKeeps
  <2>2. CASE Accept(p)
    <3>1. PICK c : connbuff[p] = c
      OBVIOUS
    <3> QED BY <2>2, <3>1, AcceptKeeps
  <2>3. CASE Handshake(p)
    <3>1. PICK c \in Conn : io[p].c = c
      BY <2>3, InCall DEF Handshake
    <3> QED BY <2>3, <3>1, HandshakeKeeps
  <2> QED BY <1>4, <2>1, <2>2, <2>3 DEF IoThread
<1> QED BY <1>1, <1>2, <1>3, <1>4 DEF Next

(* The inductive invariant holds in every state that the two processes     *)
(* reach, whatever SHM_MAX_CONCURRENT_CONN is.                             *)
THEOREM Invariant == Spec => []Inv
BY InitInv, NextInv, PTL DEF Spec

(* ConnSHM::update and addinQ only look into buffers that are mapped,      *)
(* although notify_close unmaps them without the mutex.                    *)
THEOREM LooksIntoMapped == Spec => []PeekIsMapped
<1>1. Inv => PeekIsMapped
  <2> SUFFICES ASSUME Inv PROVE PeekIsMapped
    OBVIOUS
  <2>1. TypeOK /\ Ends /\ Threads
    BY DEF Inv
  <2>2. ASSUME NEW c \in Conn, NEW p \in Proc
        PROVE  /\ h[c][p].reg /\ h[c][p].to_manage => h[c][p].in # NoConn
               /\ io[p].c = c => h[c][p].in # NoConn
    <3>1. EndAt(c, p) /\ IoThreadAt(p)
      BY <2>1 DEF Ends, Threads
    <3> QED BY <3>1, ConnAssumption DEF EndAt, IoThreadAt
  <2> QED BY <2>1, <2>2 DEF PeekIsMapped
<1> QED BY <1>1, Invariant, PTL

(* With a number for every connection, both ends of each open the segments *)
(* that were made for it, and the listener finds both.                     *)
THEOREM NumbersSuffice == Spec => []OpensItsOwn
<1>1. Inv => OpensItsOwn
  BY DEF Inv, Own, Roomy, OpensItsOwn
<1> QED BY <1>1, Invariant, PTL

(* A connection that both ends have closed leaves no name in the system,   *)
(* also when its number was used before or is used again.                  *)
THEOREM NamesAreRemoved == Spec => []NoneLeft
<1>1. Inv => NoneLeft
  <2> SUFFICES ASSUME Inv, NEW c \in Conn, \A p \in Proc : Ended(c, p), NEW d \in Dir
               PROVE  names[Caller[c]][d][id[c]] # c
    BY DEF NoneLeft
  <2>1. Ended(c, Caller[c]) /\ LeftAt(c)
    BY TwoEnds DEF Inv, Left
  <2> QED BY <2>1 DEF Ended, LeftAt, Dir
<1> QED BY <1>1, Invariant, PTL
=============================================================================
