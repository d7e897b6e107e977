--------------------------- MODULE TcpNodeProofs ---------------------------
(***************************************************************************)
(* TcpNode, for any number of connections, descriptors and wrappers.       *)
(* First, with any threads: type correctness and the exactness of fdmax.   *)
(* Then, for a program of one thread (two may delete a Handle one of them  *)
(* is using): who owns a connection, what counts its references, and the   *)
(* invariants the runs check, all from one inductive invariant, OwnerInv,  *)
(* and the refinement of HandleContract.                                   *)
(***************************************************************************)
EXTENDS TcpNode, SequenceTheorems, FiniteSetTheorems, WellFoundedInduction, TLAPS

(* A set of naturals that is not empty has a least element, and Lowest     *)
(* finds it: the descriptor the kernel hands out, and the next one update  *)
(* looks at.                                                               *)
LEMMA LowestIsLeast ==
  ASSUME NEW S, S \subseteq Nat, S # {}
  PROVE  Lowest(S) \in S /\ \A g \in S : Lowest(S) <= g
<1> DEFINE R == OpToRel(<, Nat)
<1>1. \E x \in S : \A y \in S : ~(<<y, x>> \in R)
  BY NatLessThanWellFounded, WFMin
<1>2. \A x, y \in Nat : <<y, x>> \in R <=> y < x
  BY DEF OpToRel
<1> HIDE DEF R
<1>3. PICK x \in S : \A y \in S : ~(<<y, x>> \in R)
  BY <1>1
<1>4. \A y \in S : ~(y < x)
  BY <1>2, <1>3
<1>5. \A y \in S : x <= y
  BY <1>4
<1> QED BY <1>5 DEF Lowest

(* The same for the greatest element of a set of descriptors, which the    *)
(* downward scans of update and notify_close find.                         *)
LEMMA HighestIsGreatest ==
  ASSUME NEW S, S \subseteq FD, S # {}
  PROVE  Highest(S) \in S /\ \A g \in S : g <= Highest(S)
<1> DEFINE D == {n \in Nat : MaxFd - n \in S}
<1>1. \A f \in S : f \in Nat /\ f <= MaxFd /\ MaxFd - f \in Nat /\ MaxFd - (MaxFd - f) = f
  BY FdAssumption DEF FD
<1>2. D \subseteq Nat /\ \A f \in S : MaxFd - f \in D
  BY <1>1
<1>3. D # {}
  BY <1>2
<1> DEFINE m == Lowest(D)
<1>4. m \in D /\ \A d \in D : m <= d
  BY <1>2, <1>3, LowestIsLeast
<1> HIDE DEF m
<1>5. m \in Nat /\ MaxFd - m \in S
  BY <1>4
<1>6. \A g \in S : m <= MaxFd - g
  BY <1>2, <1>4
<1>7. \A g \in S : g <= MaxFd - m
  BY <1>1, <1>5, <1>6, FdAssumption
<1> QED BY <1>5, <1>7 DEF Highest

-----------------------------------------------------------------------------
(* Reading a frame, or writing one, keeps the streams well typed.          *)
LEMMA ConsumeType ==
  ASSUME TypeOK, NEW h \in Handle, wire[h].in # <<>>
  PROVE  Consume(h) \in [Handle -> Stream]
<1> DEFINE v == IF Head(wire[h].in) \in {"fin", "rst"} THEN <<"fin">> ELSE Tail(wire[h].in)
<1>1. wire \in [Handle -> Stream] /\ wire[h] \in Stream
  BY DEF TypeOK, Types
<1>2. wire[h].in \in Seq(Frame)
  BY <1>1 DEF Stream
<1>3. Tail(wire[h].in) \in Seq(Frame) /\ <<"fin">> \in Seq(Frame)
  BY <1>2 DEF Frame
<1>4. v \in Seq(Frame)
  BY <1>3
<1> HIDE DEF v
<1>5. [wire[h] EXCEPT !.in = v] \in Stream
  BY <1>1, <1>4 DEF Stream
<1>6. Consume(h) = [wire EXCEPT ![h] = [wire[h] EXCEPT !.in = v]]
  BY DEF Consume, v
<1> QED BY <1>1, <1>5, <1>6

(* Taking the error from a stream changes a reset into its end, and nothing *)
(* else.                                                                   *)
LEMMA ErrorTakenIs ==
  ASSUME NEW s \in Seq(Frame)
  PROVE  /\ ErrorTaken(s) \in Seq(Frame)
         /\ Len(ErrorTaken(s)) = Len(s)
         /\ ErrorTaken(s) = <<>> <=> s = <<>>
         /\ \A i \in 1..Len(s) :
               ErrorTaken(s)[i] = IF s[i] = "rst" THEN "fin" ELSE s[i]
<1> DEFINE g(i) == IF s[i] = "rst" THEN "fin" ELSE s[i]
           t == [i \in 1..Len(s) |-> g(i)]
<1>1. Len(s) \in Nat /\ DOMAIN s = 1..Len(s)
  OBVIOUS
<1>2. \A i \in 1..Len(s) : g(i) \in Frame
  BY DEF Frame
<1>3. ErrorTaken(s) = t
  BY <1>1 DEF ErrorTaken
<1> HIDE DEF g
<1>4. t \in Seq(Frame) /\ Len(t) = Len(s)
  BY <1>1, <1>2, IsASeq, LenProperties
<1>5. t = <<>> <=> s = <<>>
  BY <1>4, EmptySeq
<1>6. \A i \in 1..Len(s) : t[i] = g(i)
  OBVIOUS
<1> HIDE DEF t
<1> QED BY <1>3, <1>4, <1>5, <1>6 DEF g

(* Writing keeps the streams well typed.                                   *)
LEMMA WriteType ==
  ASSUME TypeOK, NEW h \in Handle, NEW b \in BOOLEAN
  PROVE  Write(h, b) \in [Handle -> Stream]
<1> DEFINE in == ErrorTaken(wire[h].in)
           out == IF wire[h].out # "open" THEN "late" ELSE IF b THEN "eos" ELSE "open"
<1>1. wire \in [Handle -> Stream] /\ wire[h] \in Stream /\ wire[h].in \in Seq(Frame)
  BY DEF TypeOK, Types, Stream
<1>2. in \in Seq(Frame) /\ out \in {"open", "eos", "late"}
  BY <1>1, ErrorTakenIs
<1>3. Write(h, b) = [wire EXCEPT ![h] = [wire[h] EXCEPT !.in = in, !.out = out]]
  BY <1>1 DEF Write, Stream
<1> HIDE DEF in, out
<1>4. [wire[h] EXCEPT !.in = in, !.out = out] \in Stream
  BY <1>1, <1>2 DEF Stream
<1> QED BY <1>1, <1>3, <1>4

(* The kernel gives a new socket a descriptor that is free.                *)
LEMMA LowestFree ==
  ASSUME TypeOK, FreeFd # {}
  PROVE  Lowest(FreeFd) \in FD
BY LowestIsLeast, FdAssumption DEF FreeFd, FD

(* FD_CLR and the scan that follows keep the type of ConnTcp.              *)
LEMMA FdClrType ==
  ASSUME TypeOK, NEW f
  PROVE  FdClr(f) \in TcpState /\ FdClr(f).listen_sck = tcp.listen_sck
<1> DEFINE below == {g \in tcp.set \ {f} : g < tcp.fdmax}
<1>1. tcp \in TcpState /\ tcp.set \subseteq FD
  BY DEF TypeOK, Types, TcpState
<1>2. below \subseteq FD
  BY <1>1
<1>3. below # {} => Highest(below) \in FD
  BY <1>2, HighestIsGreatest
<1> QED BY <1>1, <1>3 DEF FdClr, TcpState, MaybeFd

-----------------------------------------------------------------------------
(* What BusyThreads asks of the activity r of one thread.                  *)
Good(r) == /\ r \in Activity
           /\ r.pc \notin {"idle", "next"} => r.h \in Handle
           /\ r.pc \in {"yield", "forget", "closefd"} => r.fd \in FD

(* A change of what one thread is doing.                                   *)
LEMMA OpSet ==
  ASSUME TypeOK, NEW t \in Thread, NEW r, Good(r), op' = [op EXCEPT ![t] = r]
  PROVE  op' \in [Thread -> Activity] /\ BusyThreads'
BY DEF TypeOK, Types, BusyThreads, Good

(* What every thread is doing is well formed.                              *)
LEMMA OpGood ==
  ASSUME TypeOK, NEW t \in Thread
  PROVE  Good(op[t])
BY DEF TypeOK, Types, BusyThreads, Good

(* A thread outside the library is well formed.                            *)
LEMMA IdlingGood == Good(Idling)
BY DEF Good, Idling, Activity, PC, MaybeHandle, MaybeFd

(* A change of one Handle object.                                          *)
LEMMA ObjSet ==
  ASSUME TypeOK, NEW h \in Handle, NEW r \in HandleObject,
         obj' = [obj EXCEPT ![h] = r]
  PROVE  obj' \in [Handle -> HandleObject]
BY DEF TypeOK, Types

(* A change of one field of a Handle object.                               *)
LEMMA ObjField ==
  ASSUME TypeOK, NEW h \in Handle
  PROVE  /\ obj[h] \in HandleObject
         /\ obj[h].fd \in MaybeFd /\ obj[h].counter \in Int
         /\ obj[h].closed_rd \in BOOLEAN /\ obj[h].closed_wr \in BOOLEAN
         /\ obj[h].probed \in {"no", "msg", "eos"} /\ obj[h].life \in Life
<1>1. obj[h] \in HandleObject
  BY DEF TypeOK, Types
<1> QED BY <1>1 DEF HandleObject

(* A change of the flags, counter or descriptor of a Handle.               *)
LEMMA ObjWith ==
  ASSUME TypeOK, NEW h \in Handle
  PROVE  /\ \A x \in MaybeFd : [obj[h] EXCEPT !.fd = x] \in HandleObject
         /\ \A x \in Int : [obj[h] EXCEPT !.counter = x] \in HandleObject
         /\ \A x \in Life : [obj[h] EXCEPT !.life = x] \in HandleObject
         /\ \A x \in {"no", "msg", "eos"} : [obj[h] EXCEPT !.probed = x] \in HandleObject
         /\ \A x, y \in BOOLEAN :
              [obj[h] EXCEPT !.closed_wr = x, !.closed_rd = y] \in HandleObject
<1>1. obj[h] \in HandleObject
  BY DEF TypeOK, Types
<1> QED BY <1>1 DEF HandleObject

(* A step that leaves the IO thread's view and the backlog alone keeps     *)
(* BusyIo.                                                                 *)
LEMMA IoKept ==
  ASSUME TypeOK, io' = io, tcp'.listen_sck = tcp.listen_sck, backlog' = backlog
  PROVE  BusyIo'
BY DEF TypeOK, BusyIo

(* The steps of a thread inside a call keep the types.                     *)
LEMMA StepType ==
  ASSUME TypeOK, NEW t \in Thread, Step(t)
  PROVE  TypeOK'
<1> DEFINE h == op[t].h
<1>0. Good(op[t])
  BY OpGood
<1>1. CASE SendEOS(t)
  <2>1. h \in Handle
    BY <1>0, <1>1 DEF SendEOS, At, Good
  <2>2. Write(h, TRUE) \in [Handle -> Stream]
    BY <2>1, WriteType
  <2>3. Good([op[t] EXCEPT !.pc = "mark"])
    BY <1>0, <2>1 DEF Good, Activity, PC
  <2>4. op' \in [Thread -> Activity] /\ BusyThreads'
    BY <1>1, <2>3, OpSet DEF SendEOS, Goto
  <2> QED BY <1>1, <2>2, <2>4, IoKept DEF SendEOS, TypeOK, Types
<1>2. CASE MarkClosed(t)
  <2>1. h \in Handle
    BY <1>0, <1>2 DEF MarkClosed, At, Good
  <2>2. obj' \in [Handle -> HandleObject]
    <3> DEFINE w == obj[h].closed_wr \/ op[t].wr
               d == obj[h].closed_rd \/ op[t].rd
    <3>1. [obj[h] EXCEPT !.closed_wr = w, !.closed_rd = d] \in HandleObject
      BY <1>0, <2>1, ObjWith
    <3>2. obj' = [obj EXCEPT ![h] = [obj[h] EXCEPT !.closed_wr = w, !.closed_rd = d]]
      BY <1>2, <2>1, ObjField DEF MarkClosed, HandleObject, TypeOK, Types
    <3> QED BY <2>1, <3>1, <3>2, ObjSet
  <2>3. Good([op[t] EXCEPT !.pc = "notify"])
    BY <1>0, <2>1 DEF Good, Activity, PC
  <2>4. op' \in [Thread -> Activity] /\ BusyThreads'
    BY <1>2, <2>3, OpSet DEF MarkClosed, Goto
  <2> QED BY <1>2, <2>2, <2>4, IoKept DEF MarkClosed, TypeOK, Types
<1>3. CASE ReadFlags(t)
  <2> DEFINE r == [op[t] EXCEPT !.pc = "notify_close", !.wr = obj[h].closed_wr,
                                !.rd = obj[h].closed_rd]
  <2>1. h \in Handle
    BY <1>0, <1>3 DEF ReadFlags, At, Good
  <2>2. Good(r)
    BY <1>0, <2>1, ObjField DEF Good, Activity, PC
  <2>3. op' = [op EXCEPT ![t] = r]
    BY <1>0, <1>3 DEF ReadFlags, TypeOK, Types
  <2>4. op' \in [Thread -> Activity] /\ BusyThreads'
    BY <2>2, <2>3, OpSet
  <2> QED BY <1>3, <2>4, IoKept DEF ReadFlags, TypeOK, Types
<1>4. CASE NotifyClose(t)
  <2> DEFINE f == obj[h].fd
             r == [op[t] EXCEPT !.fd = f,
                     !.pc = IF f # NoFd /\ op[t].rd THEN "forget" ELSE "reap"]
  <2>1. h \in Handle /\ f \in MaybeFd
    BY <1>0, <1>4, ObjField DEF NotifyClose, At, Good
  <2>2. Good(r)
    BY <1>0, <2>1 DEF Good, Activity, PC, MaybeFd
  <2>3. op' = [op EXCEPT ![t] = r]
    BY <1>4 DEF NotifyClose, TypeOK, Types
  <2>4. op' \in [Thread -> Activity] /\ BusyThreads'
    BY <2>2, <2>3, OpSet
  <2>5. obj' \in [Handle -> HandleObject]
    <3>1. [obj[h] EXCEPT !.fd = NoFd] \in HandleObject
      BY <2>1, ObjWith DEF MaybeFd
    <3> QED BY <1>4, <2>1, <3>1, ObjSet DEF NotifyClose, DropFd, TypeOK, Types
  <2>6. sock' \in [FD -> MaybeHandle]
    BY <1>4 DEF NotifyClose, TypeOK, Types, MaybeHandle
  <2> QED BY <1>4, <2>4, <2>5, <2>6, IoKept DEF NotifyClose, TypeOK, Types
<1>5. CASE Forget(t)
  <2>1. h \in Handle /\ op[t].fd \in FD
    BY <1>0, <1>5 DEF Forget, At, Good
  <2>2. FdClr(op[t].fd) \in TcpState /\ FdClr(op[t].fd).listen_sck = tcp.listen_sck
    BY FdClrType
  <2>3. tcp' \in TcpState /\ tcp'.listen_sck = tcp.listen_sck
    BY <1>5, <2>2 DEF Forget, TcpState, MaybeHandle
  <2>4. \A l \in {"closefd", "reap"} : Good([op[t] EXCEPT !.pc = l])
    BY <1>0, <2>1 DEF Good, Activity, PC
  <2>5. op' \in [Thread -> Activity] /\ BusyThreads'
    BY <1>5, <2>4, OpSet DEF Forget, Goto
  <2> QED BY <1>5, <2>3, <2>5, IoKept DEF Forget, TypeOK, Types
<1>6. CASE CloseFd(t)
  <2>1. h \in Handle
    BY <1>0, <1>6 DEF CloseFd, At, Good
  <2>2. obj' \in [Handle -> HandleObject]
    BY ZenonT(60), <1>6, <2>1, ObjField DEF CloseFd, DropFd, HandleObject, MaybeFd, TypeOK, Types
  <2>3. Good([op[t] EXCEPT !.pc = "reap"])
    BY <1>0, <2>1 DEF Good, Activity, PC
  <2>4. op' \in [Thread -> Activity] /\ BusyThreads'
    BY <1>6, <2>3, OpSet DEF CloseFd, Goto
  <2>5. sock' \in [FD -> MaybeHandle]
    BY <1>6 DEF CloseFd, TypeOK, Types, MaybeHandle
  <2> QED BY <1>6, <2>2, <2>4, <2>5, IoKept DEF CloseFd, TypeOK, Types
<1>7. CASE Reap(t)
  <2>1. h \in Handle
    BY <1>0, <1>7 DEF Reap, At, Good
  <2>2. obj' \in [Handle -> HandleObject]
    <3>1. \A l \in {"freed", "double"} : [obj[h] EXCEPT !.life = l] \in HandleObject
      BY <2>1, ObjWith DEF Life
    <3> QED BY <1>7, <2>1, <3>1, ObjSet DEF Reap, TypeOK, Types
  <2>3. \A l \in {"decr", "next", "drain"} : Good([op[t] EXCEPT !.pc = l])
    BY <1>0, <2>1 DEF Good, Activity, PC
  <2>4. op[t].then \in {"idle", "decr", "next", "drain"}
    BY <1>0 DEF Good, Activity
  <2>5. op' \in [Thread -> Activity] /\ BusyThreads'
    BY <1>7, <2>3, <2>4, OpSet, IdlingGood DEF Reap, Return
  <2> QED BY <1>7, <2>2, <2>5, IoKept DEF Reap, TypeOK, Types
<1>8. CASE NotifyYield(t)
  <2>1. h \in Handle /\ op[t].fd \in FD
    BY <1>0, <1>8 DEF NotifyYield, At, Good
  <2>2. tcp' \in TcpState /\ tcp'.listen_sck = tcp.listen_sck
    BY <1>8, <2>1 DEF NotifyYield, TcpState, MaybeFd, TypeOK, Types
  <2>3. \A l \in {"decr", "next", "drain"} : Good([op[t] EXCEPT !.pc = l])
    BY <1>0, <2>1 DEF Good, Activity, PC
  <2>4. op[t].then \in {"idle", "decr", "next", "drain"}
    BY <1>0 DEF Good, Activity
  <2>5. op' \in [Thread -> Activity] /\ BusyThreads'
    BY <1>8, <2>3, <2>4, OpSet, IdlingGood DEF NotifyYield, Return
  <2> QED BY <1>8, <2>2, <2>5, IoKept DEF NotifyYield, TypeOK, Types
<1>9. CASE Decrement(t)
  <2>1. h \in Handle
    BY <1>0, <1>9 DEF Decrement, At, Good
  <2>2. obj' \in [Handle -> HandleObject]
    <3>1. obj[h].counter - 1 \in Int
      BY <2>1, ObjField
    <3>2. [obj[h] EXCEPT !.counter = obj[h].counter - 1] \in HandleObject
      BY <2>1, <3>1, ObjWith
    <3> QED BY <1>9, <2>1, <3>2, ObjSet DEF Decrement, ReleaseReference, TypeOK, Types
  <2>3. Good([op[t] EXCEPT !.pc = "drop"])
    BY <1>0, <2>1 DEF Good, Activity, PC
  <2>4. op' \in [Thread -> Activity] /\ BusyThreads'
    BY <1>9, <2>3, OpSet DEF Decrement, Goto
  <2> QED BY <1>9, <2>2, <2>4, IoKept DEF Decrement, TypeOK, Types
<1> QED BY <1>1, <1>2, <1>3, <1>4, <1>5, <1>6, <1>7, <1>8, <1>9 DEF Step

-----------------------------------------------------------------------------
(* A call starts with a well-typed activity.                               *)
LEMMA CallGood ==
  ASSUME TypeOK, NEW t \in Thread, NEW h \in Handle, NEW wr \in BOOLEAN,
         NEW rd \in BOOLEAN, NEW l \in {"eos", "drain", "decr", "yield"},
         l = "yield" => obj[h].fd # NoFd,
         NEW k \in {"idle", "decr", "next", "drain"}, Call(t, l, h, wr, rd, k)
  PROVE  op' \in [Thread -> Activity] /\ BusyThreads'
<1> DEFINE r == [pc |-> l, h |-> h, wr |-> wr, rd |-> rd, fd |-> obj[h].fd, then |-> k]
<1>1. obj[h].fd \in MaybeFd
  BY ObjField
<1>2. Good(r)
  BY <1>1 DEF Good, Activity, PC, MaybeHandle, MaybeFd
<1> QED BY <1>2, OpSet DEF Call

(* A change of one wrapper.                                                *)
LEMMA SlotSet ==
  ASSUME TypeOK, NEW t \in Thread, NEW s \in Slot, NEW w \in Wrapper,
         slot' = [slot EXCEPT ![t][s] = w]
  PROVE  slot' \in [Thread -> [Slot -> Wrapper]]
BY DEF TypeOK, Types

(* Giving up the right to read keeps the wrappers well typed.              *)
LEMMA ReleaseType ==
  ASSUME TypeOK, NEW t \in Thread, NEW s \in Slot, Release(t, s)
  PROVE  slot' \in [Thread -> [Slot -> Wrapper]]
<1>1. slot[t][s] \in Wrapper
  BY DEF TypeOK, Types
<1>2. [slot[t][s] EXCEPT !.readable = FALSE] \in Wrapper
  BY <1>1 DEF Wrapper
<1> QED BY <1>2, SlotSet DEF Release

(* What the program may call keeps the types.                              *)
LEMMA OperationType ==
  ASSUME TypeOK, NEW t \in Thread, Operation(t)
  PROVE  TypeOK'
<1>1. CASE Listen(t)
  <2> DEFINE f == Lowest(FreeFd)
  <2>1. f \in FD
    BY <1>1, LowestFree DEF Listen, ListenAnyTime
  <2>2. tcp' \in TcpState /\ io' \in IoState
    BY <1>1, <2>1 DEF Listen, ListenAnyTime, TcpState, IoState, MaybeFd, TypeOK, Types
  <2>3. BusyIo'
    BY <1>1 DEF Listen, ListenAnyTime, BusyIo, TypeOK, Types, IoState
  <2> QED BY <1>1, <2>2, <2>3 DEF Listen, ListenAnyTime, TypeOK, Types, BusyThreads
<1>2. ASSUME NEW s \in Slot, GetNext(t, s)
      PROVE  TypeOK'
  <2>1. mgr.handleReady \in Seq(Handle) /\ mgr.handleReady # <<>>
    BY <1>2 DEF GetNext, TypeOK, Types, MgrState
  <2>2. Head(mgr.handleReady) \in Handle /\ Tail(mgr.handleReady) \in Seq(Handle)
    BY <2>1
  <2>3. mgr' \in MgrState
    BY <1>2, <2>2 DEF GetNext, TypeOK, Types, MgrState
  <2>4. [real |-> Head(mgr.handleReady), readable |-> TRUE] \in Wrapper
    BY <2>2 DEF Wrapper, MaybeHandle
  <2>5. slot' \in [Thread -> [Slot -> Wrapper]]
    BY <1>2, <2>4, SlotSet DEF GetNext
  <2> QED BY <1>2, <2>3, <2>5, IoKept DEF GetNext, TypeOK, Types, BusyThreads
<1>3. ASSUME NEW s \in Slot, Send(t, s)
      PROVE  TypeOK'
  <2>1. PICK h \in Handle : wire' = Write(h, FALSE)
    BY <1>3 DEF Send
  <2>2. wire' \in [Handle -> Stream]
    BY <2>1, WriteType
  <2> QED BY <1>3, <2>2, IoKept DEF Send, TypeOK, Types, BusyThreads
<1>4. ASSUME NEW s \in Slot, Probe(t, s)
      PROVE  TypeOK'
  <2> DEFINE frame(h) == Head(wire[h].in)
             P(h) == IF frame(h) \in {"msg", "eos"} THEN frame(h) ELSE obj[h].probed
  <2>1. PICK h \in Handle :
          /\ wire[h].in # <<>> /\ wire' = Consume(h)
          /\ obj' = [obj EXCEPT ![h].probed = P(h)]
          /\ IF frame(h) \in {"fin", "eos"} THEN Release(t, s) ELSE UNCHANGED slot
          /\ IF frame(h) \in {"fin", "rst", "eos"}
             THEN Call(t, "eos", h, frame(h) # "eos", TRUE, "idle") ELSE UNCHANGED op
    BY <1>4 DEF Probe
  <2>2. wire' \in [Handle -> Stream]
    BY <2>1, ConsumeType
  <2>3. P(h) \in {"no", "msg", "eos"}
    BY ObjField
  <2>4. obj' \in [Handle -> HandleObject]
    BY <2>1, <2>3, ObjWith, ObjSet
  <2>5. slot' \in [Thread -> [Slot -> Wrapper]]
    BY <2>1, ReleaseType DEF TypeOK, Types
  <2>6. op' \in [Thread -> Activity] /\ BusyThreads'
    BY <2>1, CallGood DEF TypeOK, Types, BusyThreads
  <2> QED BY <1>4, <2>2, <2>4, <2>5, <2>6, IoKept DEF Probe, TypeOK, Types
<1>5. ASSUME NEW s \in Slot, Receive(t, s)
      PROVE  TypeOK'
  <2>1. PICK h \in Handle : /\ wire[h].in # <<>> /\ wire' = Consume(h)
                            /\ obj' = [obj EXCEPT ![h].probed = "no"]
    BY <1>5 DEF Receive
  <2>2. wire' \in [Handle -> Stream]
    BY <2>1, ConsumeType
  <2>3. obj' \in [Handle -> HandleObject]
    BY <2>1, ObjWith, ObjSet
  <2> QED BY <1>5, <2>2, <2>3, IoKept DEF Receive, TypeOK, Types, BusyThreads
<1>6. ASSUME NEW s \in Slot, Close(t, s)
      PROVE  TypeOK'
  <2>1. op' \in [Thread -> Activity] /\ BusyThreads'
    BY <1>6, CallGood DEF Close
  <2> QED BY <1>6, <2>1, IoKept DEF Close, TypeOK, Types
<1>7. ASSUME NEW s \in Slot, Yield(t, s)
      PROVE  TypeOK'
  <2>1. op' \in [Thread -> Activity] /\ BusyThreads'
    BY <1>7, CallGood DEF Yield, YieldAnyTime, Managed, TypeOK, Types, BusyThreads
  <2>2. slot' \in [Thread -> [Slot -> Wrapper]]
    BY <1>7, ReleaseType DEF Yield, YieldAnyTime
  <2> QED BY <1>7, <2>1, <2>2, IoKept DEF Yield, YieldAnyTime, TypeOK, Types
<1>8. ASSUME NEW s \in Slot, Destroy(t, s)
      PROVE  TypeOK'
  <2>1. op' \in [Thread -> Activity] /\ BusyThreads'
    BY <1>8, CallGood DEF Destroy, Managed
  <2>2. Empty \in Wrapper
    BY DEF Empty, Wrapper, MaybeHandle
  <2>3. slot' \in [Thread -> [Slot -> Wrapper]]
    BY <1>8, <2>2, SlotSet DEF Destroy
  <2> QED BY <1>8, <2>1, <2>3, IoKept DEF Destroy, TypeOK, Types
<1>9. ASSUME NEW s \in Slot, NEW h \in Handle, NEW ok \in BOOLEAN, Connect(t, s, h, ok)
      PROVE  TypeOK'
  <2> DEFINE f == Lowest(FreeFd)
             r == [obj[h] EXCEPT !.fd = f, !.life = "live",
                                 !.counter = IF ok THEN 1 ELSE 0]
  <2>1. f \in FD
    BY <1>9, LowestFree DEF Connect
  <2>2. sock' \in [FD -> MaybeHandle]
    BY <1>9, <2>1 DEF Connect, Register, TypeOK, Types, MaybeHandle
  <2>3. tcp' \in TcpState /\ tcp'.listen_sck = tcp.listen_sck
    BY <1>9, <2>1 DEF Connect, Register, TypeOK, Types, TcpState, MaybeHandle
  <2>4. r \in HandleObject
    <3>1. obj[h] \in HandleObject
      BY ObjField
    <3>2. f \in MaybeFd /\ "live" \in Life /\ (IF ok THEN 1 ELSE 0) \in Int
      BY <2>1 DEF MaybeFd, Life
    <3> HIDE DEF f
    <3> QED BY <3>1, <3>2 DEF HandleObject
  <2>5. obj' = [obj EXCEPT ![h] = r]
    <3>1. obj \in [Handle -> HandleObject] /\ obj[h] \in HandleObject
      BY DEF TypeOK, Types
    <3> QED BY <1>9, <3>1 DEF Connect, HandleObject
  <2>6. obj' \in [Handle -> HandleObject]
    BY <2>4, <2>5, ObjSet
  <2>7. wire' \in [Handle -> Stream]
    <3>1. wire[h] \in Stream /\ <<"fin">> \in Seq(Frame)
      BY DEF TypeOK, Types, Frame
    <3>2. /\ [wire[h] EXCEPT !.peer = "open"] \in Stream
          /\ [wire[h] EXCEPT !.peer = "reset", !.in = <<"fin">>] \in Stream
      BY <3>1 DEF Stream
    <3>3. \/ wire' = [wire EXCEPT ![h] = [wire[h] EXCEPT !.peer = "open"]]
          \/ wire' = [wire EXCEPT ![h] = [wire[h] EXCEPT !.peer = "reset", !.in = <<"fin">>]]
      BY <1>9, <3>1 DEF Connect, TypeOK, Types, Stream
    <3> QED BY <3>2, <3>3 DEF TypeOK, Types
  <2>8. [real |-> h, readable |-> TRUE] \in Wrapper
    BY DEF Wrapper, MaybeHandle
  <2>9. slot' \in [Thread -> [Slot -> Wrapper]]
    BY <1>9, <2>8, SlotSet DEF Connect, TypeOK, Types
  <2> QED BY <1>9, <2>2, <2>3, <2>6, <2>7, <2>9, IoKept
          DEF Connect, TypeOK, Types, BusyThreads
<1> QED BY <1>1, <1>2, <1>3, <1>4, <1>5, <1>6, <1>7, <1>8, <1>9 DEF Operation

-----------------------------------------------------------------------------
(* The steps of Manager::finalize keep the types.                          *)
LEMMA FinalizationType ==
  ASSUME TypeOK, Finalization
  PROVE  TypeOK'
<1> USE ThreadAssumption
<1> DEFINE h == op[Main].h
<1>0. Good(op[Main])
  BY OpGood
<1>1. CASE Finalize
  <2>1. mgr' \in MgrState
    BY <1>1 DEF Finalize, TypeOK, Types, MgrState
  <2> QED BY <1>1, <2>1, IoKept DEF Finalize, TypeOK, Types, BusyThreads
<1>2. CASE Join
  <2> DEFINE T == {<<f, tcp.connections[f]>> : f \in
                     {g \in FD : tcp.connections[g] # NoHandle}}
  <2>1. tcp.connections \in [FD -> MaybeHandle]
    BY DEF TypeOK, Types, TcpState
  <2>2. T \subseteq FD \X Handle
    BY <2>1 DEF MaybeHandle
  <2>3. mgr' \in MgrState
    <3> HIDE DEF T
    <3>1. mgr \in MgrState /\ mgr' = [mgr EXCEPT !.phase = "end", !.todo = T]
      BY <1>2 DEF Join, TypeOK, Types, T
    <3> QED BY <2>2, <3>1 DEF MgrState
  <2>4. Good([op[Main] EXCEPT !.pc = "next"])
    BY <1>0 DEF Good, Activity, PC
  <2>5. op' \in [Thread -> Activity] /\ BusyThreads'
    BY <1>2, <2>4, OpSet DEF Join, Goto
  <2> QED BY <1>2, <2>3, <2>5, IoKept DEF Join, TypeOK, Types
<1>3. CASE EndNext
  <2>1. PICK e \in mgr.todo :
          /\ mgr' = [mgr EXCEPT !.todo = @ \ {e}]
          /\ Call(Main, IF obj[e[2]].closed_wr THEN "drain" ELSE "eos", e[2], TRUE,
                  FALSE, "drain")
    BY <1>3 DEF EndNext
  <2>2. mgr \in MgrState /\ mgr.todo \subseteq FD \X Handle
    BY DEF TypeOK, Types, MgrState
  <2>3. e[2] \in Handle
    BY <2>1, <2>2
  <2>4. mgr' \in MgrState
    BY <2>1, <2>2 DEF MgrState
  <2>5. op' \in [Thread -> Activity] /\ BusyThreads'
    BY <2>1, <2>3, CallGood
  <2> QED BY <1>3, <2>4, <2>5, IoKept DEF EndNext, TypeOK, Types
<1>4. CASE EndDone
  <2>1. mgr' \in MgrState
    BY <1>4 DEF EndDone, TypeOK, Types, MgrState
  <2>2. op' \in [Thread -> Activity] /\ BusyThreads'
    BY <1>4, OpSet, IdlingGood DEF EndDone, Return
  <2> QED BY <1>4, <2>1, <2>2, IoKept DEF EndDone, TypeOK, Types
<1>5. CASE DrainSkip
  <2>1. h \in Handle
    BY <1>0, <1>5 DEF DrainSkip, At, Good
  <2>2. op' \in [Thread -> Activity] /\ BusyThreads'
    BY <1>5, <2>1, CallGood DEF DrainSkip, CloseRead
  <2> QED BY <1>5, <2>2, IoKept DEF DrainSkip, TypeOK, Types
<1>6. CASE Drain
  <2> DEFINE frame == Head(wire[h].in)
             p == IF frame = "rst" THEN obj[h].probed
                  ELSE IF frame = "msg" THEN "msg" ELSE "no"
  <2>1. h \in Handle
    BY <1>0, <1>6 DEF Drain, At, Good
  <2>2. wire' \in [Handle -> Stream]
    BY <1>6, <2>1, ConsumeType DEF Drain
  <2>3. p \in {"no", "msg", "eos"}
    BY <2>1, ObjField
  <2>4. obj' = [obj EXCEPT ![h] = [obj[h] EXCEPT !.probed = p]]
    BY <1>6 DEF Drain
  <2>5. obj' \in [Handle -> HandleObject]
    BY <2>1, <2>3, <2>4, ObjWith, ObjSet
  <2>6. Good([op[Main] EXCEPT !.pc = "next"])
    BY <1>0 DEF Good, Activity, PC
  <2>7. CASE frame = "eos"
    <3>1. Call(Main, "eos", h, FALSE, TRUE, "next")
      BY <1>6, <2>7 DEF Drain, CloseRead
    <3>2. op' \in [Thread -> Activity] /\ BusyThreads'
      BY <2>1, <3>1, CallGood
    <3> QED BY <1>6, <2>2, <2>5, <3>2, IoKept DEF Drain, TypeOK, Types
  <2>8. CASE frame = "rst"
    <3>1. Goto(Main, "next")
      BY <1>6, <2>8 DEF Drain
    <3>2. op' \in [Thread -> Activity] /\ BusyThreads'
      BY <2>6, <3>1, OpSet DEF Goto
    <3> QED BY <1>6, <2>2, <2>5, <3>2, IoKept DEF Drain, TypeOK, Types
  <2>9. CASE frame # "eos" /\ frame # "rst"
    <3>1. UNCHANGED op
      BY <1>6, <2>9 DEF Drain
    <3> QED BY <1>6, <2>2, <2>5, <3>1, IoKept DEF Drain, TypeOK, Types, BusyThreads
  <2> QED BY <2>7, <2>8, <2>9
<1> QED BY <1>1, <1>2, <1>3, <1>4, <1>5, <1>6 DEF Finalization

-----------------------------------------------------------------------------
(* A handle added to the ready queue, or to a team.                        *)
LEMMA EnqueueType ==
  ASSUME TypeOK, NEW h \in Handle
  PROVE  /\ [mgr EXCEPT !.handleReady = Append(@, h)] \in MgrState
         /\ [mgr EXCEPT !.groupsReady = @ \union {h}] \in MgrState
<1>1. mgr \in MgrState
  BY DEF TypeOK, Types
<1>2. mgr.handleReady \in Seq(Handle) /\ mgr.groupsReady \subseteq Handle
  BY <1>1 DEF MgrState
<1>3. Append(mgr.handleReady, h) \in Seq(Handle) /\ mgr.groupsReady \union {h} \subseteq Handle
  BY <1>2
<1>4. \A q \in Seq(Handle) : [mgr EXCEPT !.handleReady = q] \in MgrState
  BY <1>1 DEF MgrState
<1>5. \A g \in SUBSET Handle : [mgr EXCEPT !.groupsReady = g] \in MgrState
  BY <1>1 DEF MgrState
<1> QED BY <1>3, <1>4, <1>5

(* The steps of the IO thread keep the types.                              *)
LEMMA IoThreadType ==
  ASSUME TypeOK, IoThread
  PROVE  TypeOK'
<1>0. io \in IoState /\ io.tmpset \subseteq FD /\ tcp \in TcpState
  BY DEF TypeOK, Types, IoState
<1>1. CASE IoExit
  <2>1. io' \in IoState
    BY <1>0, <1>1 DEF IoExit, IoGoto, IoState
  <2>2. BusyIo'
    BY <1>0, <1>1 DEF IoExit, IoGoto, BusyIo, IoState
  <2> QED BY <1>1, <2>1, <2>2 DEF IoExit, TypeOK, Types, BusyThreads
<1>2. CASE Snapshot
  <2>1. io' \in IoState
    BY <1>0, <1>2 DEF Snapshot, IoState, TcpState
  <2>2. BusyIo'
    BY <1>0, <1>2 DEF Snapshot, BusyIo, IoState
  <2> QED BY <1>2, <2>1, <2>2 DEF Snapshot, TypeOK, Types, BusyThreads
<1>3. CASE Select
  <2> DEFINE polled == {f \in io.tmpset : f <= tcp.fdmax}
             ready == IF polled \subseteq OpenFd
                      THEN {f \in polled : ReadyToRead(f)} ELSE {}
  <2>1. /\ ready \subseteq FD
        /\ tcp.listen_sck \in ready => backlog # <<>>
    BY <1>0 DEF ReadyToRead
  <2> HIDE DEF ready
  <2>2. io' = [io EXCEPT !.tmpset = ready,
                         !.pc = IF ready = {} THEN "snapshot" ELSE "scan"]
    BY <1>3 DEF Select, ready
  <2>3. io' \in IoState
    BY <1>0, <2>1, <2>2 DEF IoState
  <2>4. BusyIo'
    BY <1>0, <1>3, <2>1, <2>2 DEF Select, BusyIo, IoState
  <2> QED BY <1>3, <2>3, <2>4 DEF Select, TypeOK, Types, BusyThreads
<1>4. CASE ScanDone
  <2>1. io' \in IoState
    BY <1>0, <1>4 DEF ScanDone, IoGoto, IoState
  <2>2. BusyIo'
    BY <1>0, <1>4 DEF ScanDone, IoGoto, BusyIo, IoState
  <2> QED BY <1>4, <2>1, <2>2 DEF ScanDone, TypeOK, Types, BusyThreads
<1>5. CASE Accept
  <2> DEFINE f == Lowest(FreeFd)
             h == Head(backlog)
             r == [obj[h] EXCEPT !.fd = f, !.life = "live"]
  <2>1. f \in FD
    BY <1>5, LowestFree DEF Accept
  <2>2. tcp.listen_sck \in io.tmpset
    <3>1. Scanning \subseteq Nat /\ Scanning # {}
      BY <1>0, <1>5, FdAssumption DEF Accept, Scanning, FD
    <3>2. Lowest(Scanning) \in Scanning
      BY <3>1, LowestIsLeast
    <3> QED BY <1>5, <3>2 DEF Accept, Scanning
  <2>3. backlog \in Seq(Handle) /\ backlog # <<>>
    BY <1>5, <2>2 DEF Accept, TypeOK, Types, BusyIo
  <2>4. h \in Handle /\ Tail(backlog) \in Seq(Handle)
    BY <2>3
  <2>5. sock' \in [FD -> MaybeHandle]
    BY <1>5, <2>1, <2>4 DEF Accept, Register, TypeOK, Types, MaybeHandle
  <2>6. tcp' \in TcpState /\ tcp'.listen_sck = tcp.listen_sck
    BY <1>0, <1>5, <2>1, <2>4 DEF Accept, Register, TcpState, MaybeHandle
  <2>7. r \in HandleObject
    <3>1. obj[h] \in HandleObject /\ f \in MaybeFd /\ "live" \in Life
      BY <2>1, <2>4, ObjField DEF MaybeFd, Life
    <3> HIDE DEF f, h
    <3> QED BY <3>1 DEF HandleObject
  <2>8. obj' = [obj EXCEPT ![h] = r]
    <3>1. obj \in [Handle -> HandleObject] /\ obj[h] \in HandleObject
      BY <2>4 DEF TypeOK, Types
    <3> QED BY <1>5, <2>4, <3>1 DEF Accept, HandleObject
  <2>9. obj' \in [Handle -> HandleObject]
    BY <2>4, <2>7, <2>8, ObjSet
  <2>10. io' \in IoState /\ BusyIo'
    BY <1>0, <1>5, <2>4, <2>6 DEF Accept, IoState, MaybeHandle, BusyIo
  <2> QED BY <1>5, <2>4, <2>5, <2>6, <2>9, <2>10
          DEF Accept, TypeOK, Types, BusyThreads
<1>6. CASE Handshake
  <2> DEFINE h == io.h
             frame == Head(wire[h].in)
  <2>1. h \in Handle /\ tcp.listen_sck \notin io.tmpset
    BY <1>6 DEF Handshake, TypeOK, BusyIo
  <2>2. wire' \in [Handle -> Stream]
    BY <1>6, <2>1, ConsumeType DEF Handshake
  <2>3. mgr' \in MgrState
    <3>1. mgr \in MgrState
      BY DEF TypeOK, Types
    <3>2. /\ [mgr EXCEPT !.handleReady = Append(@, h)] \in MgrState
          /\ [mgr EXCEPT !.groupsReady = @ \union {h}] \in MgrState
      BY <2>1, EnqueueType
    <3>3. frame = "p2p" => Enqueue(h)
      BY <1>6 DEF Handshake
    <3>4. CASE frame = "p2p"
      BY <3>2, <3>3, <3>4 DEF Enqueue
    <3>5. CASE frame # "p2p"
      BY <1>6, <3>1, <3>2, <3>5 DEF Handshake
    <3> QED BY <3>4, <3>5
  <2>4. obj' \in [Handle -> HandleObject]
    <3>1. obj[h].counter + 1 \in Int
      BY <2>1, ObjField
    <3>2. [obj[h] EXCEPT !.counter = obj[h].counter + 1] \in HandleObject
      BY <2>1, <3>1, ObjWith
    <3>3. frame = "p2p" => Enqueue(h)
      BY <1>6 DEF Handshake
    <3>4. CASE frame = "p2p"
      BY <2>1, <3>2, <3>3, <3>4, ObjSet DEF Enqueue
    <3>5. CASE frame # "p2p"
      BY <1>6, <3>5 DEF Handshake, TypeOK, Types
    <3> QED BY <3>4, <3>5
  <2>5. io' \in IoState /\ BusyIo'
    <3>1. io' = io \/ io' = [io EXCEPT !.pc = "scan", !.h = NoHandle]
      BY <1>6 DEF Handshake
    <3>2. tcp' = tcp /\ backlog' = backlog
      BY <1>6 DEF Handshake
    <3> QED BY <1>0, <2>1, <3>1, <3>2 DEF IoState, MaybeHandle, BusyIo, TypeOK
  <2> QED BY <1>6, <2>2, <2>3, <2>4, <2>5 DEF Handshake, TypeOK, Types, BusyThreads
<1>7. CASE Deliver
  <2> DEFINE f == Lowest(Scanning)
             h == tcp.connections[f]
  <2>1. f \in FD
    <3>1. Scanning \subseteq Nat /\ Scanning # {}
      BY <1>0, <1>7, FdAssumption DEF Deliver, Scanning, FD
    <3>2. f \in Scanning
      BY <3>1, LowestIsLeast
    <3> QED BY <1>0, <3>2 DEF Scanning
  <2>2. tcp' \in TcpState /\ tcp'.listen_sck = tcp.listen_sck
    BY <1>7, FdClrType DEF Deliver
  <2>3. h \in MaybeHandle
    BY <1>0, <2>1 DEF TcpState
  <2>4. mgr' \in MgrState
    <3>1. mgr \in MgrState
      BY DEF TypeOK, Types
    <3>2. h # NoHandle => [mgr EXCEPT !.handleReady = Append(@, h)] \in MgrState
      BY <2>3, EnqueueType DEF MaybeHandle
    <3> QED BY <1>7, <3>1, <3>2 DEF Deliver, Enqueue
  <2>5. obj' \in [Handle -> HandleObject]
    <3>1. CASE h = NoHandle
      BY <1>7, <3>1 DEF Deliver, TypeOK, Types
    <3>2. CASE h # NoHandle
      <4>1. h \in Handle
        BY <2>3, <3>2 DEF MaybeHandle
      <4>2. obj[h].counter + 1 \in Int
        BY <4>1, ObjField
      <4>3. [obj[h] EXCEPT !.counter = obj[h].counter + 1] \in HandleObject
        BY <4>1, <4>2, ObjWith
      <4> QED BY <1>7, <3>2, <4>1, <4>3, ObjSet DEF Deliver, Enqueue
    <3> QED BY <3>1, <3>2
  <2>6. io' = [io EXCEPT !.tmpset = @ \ {f}]
    BY <1>7 DEF Deliver
  <2>7. io' \in IoState
    BY <1>0, <2>6 DEF IoState
  <2>8. BusyIo'
    BY <1>0, <1>7, <2>2, <2>6 DEF Deliver, BusyIo, IoState, TypeOK
  <2> QED BY <1>7, <2>2, <2>4, <2>5, <2>7, <2>8 DEF Deliver, TypeOK, Types, BusyThreads
<1> QED BY <1>1, <1>2, <1>3, <1>4, <1>5, <1>6, <1>7 DEF IoThread

-----------------------------------------------------------------------------
(* The peers keep the types: they touch streams and backlog only.          *)
LEMMA PeerType ==
  ASSUME TypeOK, NEW h \in Handle, Peer(h)
  PROVE  TypeOK'
<1>0. wire \in [Handle -> Stream] /\ wire[h] \in Stream /\ wire[h].in \in Seq(Frame)
  BY DEF TypeOK, Types, Stream
<1>1. CASE PeerConnect(h)
  <2>1. wire' \in [Handle -> Stream]
    BY <1>0, <1>1 DEF PeerConnect, Stream
  <2>2. backlog' \in Seq(Handle) /\ backlog' # <<>>
    BY <1>1 DEF PeerConnect, TypeOK, Types
  <2>3. BusyIo'
    BY <1>1, <2>2 DEF PeerConnect, TypeOK, BusyIo
  <2> QED BY <1>1, <2>1, <2>2, <2>3 DEF PeerConnect, TypeOK, Types, BusyThreads
<1>2. ASSUME NEW from, NEW frames \in Seq(Frame), NEW to \in {"named", "open", "shut", "reset"},
             PeerStep(h, from, frames, to)
      PROVE  TypeOK'
  <2>1. [wire[h] EXCEPT !.peer = to, !.in = frames] \in Stream
    BY <1>0 DEF Stream
  <2>2. wire' = [wire EXCEPT ![h] = [wire[h] EXCEPT !.peer = to, !.in = frames]]
    BY <1>0, <1>2 DEF PeerStep, Stream
  <2>3. wire' \in [Handle -> Stream]
    BY <1>0, <2>1, <2>2
  <2> QED BY <1>2, <2>3, IoKept DEF PeerStep, TypeOK, Types, BusyThreads
<1>3. /\ <<"p2p">> \in Seq(Frame) /\ <<"team">> \in Seq(Frame) /\ <<"rst">> \in Seq(Frame)
      /\ <<"id">> \in Seq(Frame) /\ <<"fin">> \in Seq(Frame)
      /\ <<"msg", "body">> \in Seq(Frame) /\ <<"eos", "fin">> \in Seq(Frame)
  BY DEF Frame
<1>4. \A s \in Seq(Frame) : wire[h].in \o s \in Seq(Frame)
  BY <1>0
<1>5. CASE PeerHello(h)
  BY <1>2, <1>3, <1>4, <1>5 DEF PeerHello
<1>6. CASE PeerSend(h) \/ PeerClose(h)
  BY <1>2, <1>3, <1>4, <1>6 DEF PeerSend, PeerClose
<1>7. CASE PeerCrash(h)
  <2>1. <<"msg">> \in Seq(Frame)
    BY DEF Frame
  <2>2. ASSUME NEW frames \in {wire[h].in, wire[h].in \o <<"msg">>}
        PROVE  frames \o <<"fin">> \in Seq(Frame) /\ frames \o <<"rst">> \in Seq(Frame)
    BY <1>0, <1>3, <2>1
  <2> QED BY <1>2, <1>3, <1>7, <2>2 DEF PeerCrash
<1> QED BY <1>1, <1>5, <1>6, <1>7 DEF Peer

(* The state after Manager::init is well typed.                            *)
LEMMA InitType == Init => TypeOK
<1> SUFFICES ASSUME Init PROVE TypeOK
  OBVIOUS
<1>1. obj \in [Handle -> HandleObject]
  BY DEF Init, HandleObject, MaybeFd, Life
<1>2. tcp \in TcpState
  BY DEF Init, TcpState, MaybeFd, MaybeHandle
<1>3. io \in IoState /\ mgr \in MgrState
  BY DEF Init, IoState, MgrState, MaybeHandle
<1>4. slot \in [Thread -> [Slot -> Wrapper]]
  BY DEF Init, Empty, Wrapper, MaybeHandle
<1>5. op \in [Thread -> Activity] /\ BusyThreads
  BY IdlingGood DEF Init, BusyThreads, Good
<1>6. sock \in [FD -> MaybeHandle] /\ backlog \in Seq(Handle)
  BY DEF Init, MaybeHandle
<1>7. wire \in [Handle -> Stream]
  BY DEF Init, Stream, Frame
<1>8. BusyIo
  BY DEF Init, BusyIo
<1> QED BY <1>1, <1>2, <1>3, <1>4, <1>5, <1>6, <1>7, <1>8 DEF TypeOK, Types

(* Every step keeps the types.                                             *)
LEMMA NextType == TypeOK /\ [Next]_vars => TypeOK'
<1> SUFFICES ASSUME TypeOK, [Next]_vars PROVE TypeOK'
  OBVIOUS
<1>1. CASE UNCHANGED vars
  BY <1>1 DEF vars, TypeOK, Types, BusyThreads, BusyIo
<1>2. CASE Terminated
  BY <1>1, <1>2 DEF Terminated
<1> QED BY <1>1, <1>2, StepType, OperationType, FinalizationType, IoThreadType, PeerType
        DEF Next

(* TypeOK holds for any number of connections, descriptors, threads and    *)
(* wrappers: a thread inside close or yield always has a Handle and, when  *)
(* it updates set, table or kernel, a valid descriptor, and update calls   *)
(* accept only when a connection is waiting.                               *)
THEOREM TypeCorrect == Spec => []TypeOK
<1>1. Init => TypeOK
  BY InitType
<1>2. TypeOK /\ [Next]_vars => TypeOK'
  BY NextType
<1> QED BY <1>1, <1>2, PTL DEF Spec

-----------------------------------------------------------------------------
(* FdmaxIsMax of a state c of ConnTcp.                                     *)
MaxOf(c) == IF c.set = {} THEN c.fdmax = NoFd
                          ELSE c.fdmax \in c.set /\ \A f \in c.set : f <= c.fdmax

(* FD_CLR followed by the scan for the new fdmax keeps fdmax exact.        *)
LEMMA FdClrMax ==
  ASSUME TypeOK, FdmaxIsMax, NEW f \in FD
  PROVE  MaxOf(FdClr(f))
<1> DEFINE rest == tcp.set \ {f}
           below == {g \in rest : g < tcp.fdmax}
           m == IF f # tcp.fdmax THEN tcp.fdmax
                ELSE IF below = {} THEN NoFd ELSE Highest(below)
<1>1. tcp \in TcpState /\ tcp.set \subseteq FD /\ FD \subseteq Int
  BY FdAssumption DEF TypeOK, Types, TcpState, FD
<1>2. FdClr(f).set = rest /\ FdClr(f).fdmax = m
  BY <1>1 DEF FdClr, TcpState
<1>3. NoFd \notin FD
  BY DEF FD, NoFd
<1>4. CASE f # tcp.fdmax
  BY <1>1, <1>2, <1>4 DEF MaxOf, FdmaxIsMax
<1>5. CASE f = tcp.fdmax
  <2>1. tcp.set # {} /\ f \in tcp.set /\ \A g \in tcp.set : g <= f
    BY <1>3, <1>5 DEF FdmaxIsMax
  <2>2. below = rest
    BY <1>1, <1>5, <2>1
  <2>3. rest # {} => Highest(rest) \in rest /\ \A g \in rest : g <= Highest(rest)
    BY <1>1, HighestIsGreatest
  <2>4. m = IF rest = {} THEN NoFd ELSE Highest(rest)
    BY <1>5, <2>2
  <2> HIDE DEF rest, m
  <2> QED BY <1>2, <2>3, <2>4 DEF MaxOf
<1> QED BY <1>4, <1>5

(* fdmax depends on nothing but set and fdmax.                             *)
LEMMA MaxOfKept ==
  ASSUME FdmaxIsMax, tcp'.set = tcp.set, tcp'.fdmax = tcp.fdmax
  PROVE  FdmaxIsMax'
BY DEF FdmaxIsMax

(* Registering a Handle leaves set and fdmax alone.                        *)
LEMMA RegisterMax ==
  ASSUME TypeOK, FdmaxIsMax, NEW h, NEW f, Register(h, f)
  PROVE  FdmaxIsMax'
<1>1. tcp \in TcpState
  BY DEF TypeOK, Types
<1> QED BY <1>1, MaxOfKept DEF Register, TcpState

(* Every step keeps fdmax the largest member of the set.                   *)
LEMMA NextMax == TypeOK /\ FdmaxIsMax /\ [Next]_vars => FdmaxIsMax'
<1> SUFFICES ASSUME TypeOK, FdmaxIsMax, [Next]_vars PROVE FdmaxIsMax'
  OBVIOUS
<1>0. tcp \in TcpState /\ tcp.set \subseteq FD
  BY DEF TypeOK, Types, TcpState
<1>1. CASE UNCHANGED tcp
  BY <1>1 DEF FdmaxIsMax
<1>2. ASSUME NEW t \in Thread, Forget(t)
      PROVE  FdmaxIsMax'
  <2>1. op[t].fd \in FD
    BY <1>2, OpGood DEF Forget, At, Good
  <2>2. FdClr(op[t].fd) \in TcpState /\ MaxOf(FdClr(op[t].fd))
    BY <2>1, FdClrMax, FdClrType
  <2>3. tcp'.set = FdClr(op[t].fd).set /\ tcp'.fdmax = FdClr(op[t].fd).fdmax
    BY <1>2, <2>2 DEF Forget, TcpState
  <2> QED BY <2>2, <2>3 DEF MaxOf, FdmaxIsMax
<1>3. ASSUME NEW t \in Thread, NotifyYield(t)
      PROVE  FdmaxIsMax'
  <2> DEFINE f == op[t].fd
  <2>1. f \in FD /\ FD \subseteq Int /\ \A g \in FD : NoFd < g
    BY <1>3, OpGood, FdAssumption DEF NotifyYield, At, Good, FD, NoFd
  <2>2. CASE tcp' = tcp
    BY <2>2 DEF FdmaxIsMax
  <2>3. CASE tcp' # tcp
    <3>1. tcp' = [tcp EXCEPT !.set = @ \union {f}, !.fdmax = IF f > @ THEN f ELSE @]
      BY <1>3, <2>3 DEF NotifyYield
    <3>2. /\ tcp'.set = tcp.set \union {f}
          /\ tcp'.fdmax = IF f > tcp.fdmax THEN f ELSE tcp.fdmax
      BY <1>0, <3>1 DEF TcpState
    <3> HIDE DEF f
    <3>3. CASE tcp.set = {}
      <4>1. tcp'.set = {f} /\ tcp'.fdmax = f
        BY <2>1, <3>2, <3>3 DEF FdmaxIsMax
      <4> QED BY <2>1, <4>1 DEF FdmaxIsMax
    <3>4. CASE tcp.set # {}
      <4>1. tcp.fdmax \in tcp.set /\ \A g \in tcp.set : g <= tcp.fdmax /\ g \in Int
        BY <1>0, <2>1, <3>4 DEF FdmaxIsMax
      <4>2. tcp'.fdmax \in tcp'.set /\ \A g \in tcp'.set : g <= tcp'.fdmax
        BY <2>1, <3>2, <4>1
      <4> QED BY <3>2, <4>2 DEF FdmaxIsMax
    <3> QED BY <3>3, <3>4
  <2> QED BY <2>2, <2>3
<1>4. ASSUME NEW t \in Thread, Listen(t)
      PROVE  FdmaxIsMax'
  <2> DEFINE f == Lowest(FreeFd)
  <2>1. f \in FD
    BY <1>4, LowestFree DEF Listen, ListenAnyTime
  <2> HIDE DEF f
  <2>2. tcp'.set = {f} /\ tcp'.fdmax = f
    BY <1>0, <1>4 DEF Listen, ListenAnyTime, TcpState, f
  <2> QED BY <2>1, <2>2, FdAssumption DEF FdmaxIsMax, FD
<1>5. CASE Deliver
  <2> DEFINE f == Lowest(Scanning)
  <2>1. f \in FD
    <3>1. Scanning \subseteq FD /\ Scanning # {}
      BY <1>5 DEF Deliver, Scanning, TypeOK, Types, IoState
    <3>2. Scanning \subseteq Nat
      BY <3>1, FdAssumption DEF FD
    <3>3. f \in Scanning
      BY <3>1, <3>2, LowestIsLeast
    <3> QED BY <3>1, <3>3
  <2>2. tcp' = FdClr(f)
    BY <1>5 DEF Deliver
  <2> QED BY <2>1, <2>2, FdClrMax DEF MaxOf, FdmaxIsMax
<1>6. CASE Accept
  BY <1>6, RegisterMax DEF Accept
<1>7. ASSUME NEW t \in Thread, NEW s \in Slot, NEW h \in Handle, NEW ok \in BOOLEAN,
             Connect(t, s, h, ok)
      PROVE  FdmaxIsMax'
  BY <1>7, RegisterMax DEF Connect
<1>8. ASSUME NEW t \in Thread, Step(t)
      PROVE  Forget(t) \/ NotifyYield(t) \/ UNCHANGED tcp
  BY <1>8 DEF Step, SendEOS, MarkClosed, ReadFlags, NotifyClose, CloseFd, Reap, Decrement
<1>9. ASSUME NEW t \in Thread, Operation(t)
      PROVE  \/ Listen(t) \/ UNCHANGED tcp
             \/ \E s \in Slot, h \in Handle, ok \in BOOLEAN : Connect(t, s, h, ok)
  BY <1>9 DEF Operation, GetNext, Send, Probe, Receive, Close, Yield, YieldAnyTime, Destroy
<1>10. IoThread => Deliver \/ Accept \/ UNCHANGED tcp
  BY DEF IoThread, IoExit, Snapshot, Select, ScanDone, Handshake
<1>11. Finalization => UNCHANGED tcp
  BY DEF Finalization, Finalize, Join, EndNext, EndDone, DrainSkip, Drain
<1>12. ASSUME NEW h \in Handle, Peer(h)
       PROVE  UNCHANGED tcp
  BY <1>12 DEF Peer, PeerConnect, PeerHello, PeerSend, PeerClose, PeerCrash, PeerStep
<1>13. Terminated \/ UNCHANGED vars => UNCHANGED tcp
  BY DEF Terminated, vars
<1> QED BY <1>1, <1>2, <1>3, <1>4, <1>5, <1>6, <1>7, <1>8, <1>9, <1>10, <1>11, <1>12,
           <1>13 DEF Next

(* The fdmax that update, notify_close, notify_yield and listen keep by    *)
(* hand is exact, for any number of connections, descriptors and threads:  *)
(* select never overlooks a descriptor of the set.                         *)
THEOREM FdmaxCorrect == Spec => []FdmaxIsMax
<1>1. Init => FdmaxIsMax
  BY DEF Init, FdmaxIsMax
<1>2. TypeOK /\ FdmaxIsMax /\ [Next]_vars => FdmaxIsMax'
  BY NextMax
<1> QED BY <1>1, <1>2, TypeCorrect, PTL DEF Spec

-----------------------------------------------------------------------------
(***************************************************************************)
(* A program of one thread: who owns a connection, what counts its         *)
(* references, and what the connection table, the descriptors and the      *)
(* phases of close agree on.                                               *)
(***************************************************************************)
OneThread == Thread = {Main}

(* What the thread is doing, and with which connection.                    *)
Does(h, ls) == op[Main].h = h /\ op[Main].pc \in ls
Busy(h) == op[Main].h = h /\ op[Main].pc \notin {"idle", "next"}
Finishing == {"notify", "notify_close", "forget", "closefd"}
Ending == Finishing \union {"eos", "mark", "reap"}
ClosingRead(h) == Does(h, {"eos", "mark"}) /\ op[Main].rd
Dropping(h) == Does(h, {"yield", "decr"}) /\ op[Main].then = "decr"

InSeq(q, h) == \E i \in DOMAIN q : q[i] = h
Distinct(q) == \A i, j \in DOMAIN q : q[i] = q[j] => i = j
InQueue(h) == InSeq(mgr.handleReady, h)
InBacklog(h) == InSeq(backlog, h)
Registered(h) == obj[h].fd # NoFd /\ tcp.connections[obj[h].fd] = h
Broken(h) == wire[h].peer \in {"shut", "reset"}

(* A Handle that is not there yet, or no more, is out of everybody's reach;*)
(* one that nobody refers to and that is closed is about to be deleted.    *)
UnusedAt(h) ==
    /\ ~obj[h].closed_rd /\ ~obj[h].closed_wr /\ obj[h].counter = 0
    /\ wire[h].out = "open"
Unreachable(h) ==
    /\ Wrappers(h) = {} /\ ~InQueue(h) /\ io.h # h /\ ~Busy(h)
    /\ obj[h].fd = NoFd /\ (Running => h \notin mgr.groupsReady)
LifeAt(h) ==
    /\ obj[h].life = "none" => UnusedAt(h) /\ Unreachable(h)
    /\ obj[h].life = "freed" => /\ obj[h].closed_rd /\ obj[h].closed_wr
                                /\ Unreachable(h)
    /\ obj[h].life # "double"
    /\ obj[h].closed_rd => obj[h].closed_wr \/ obj[h].probed = "eos"
    /\ obj[h].closed_rd /\ obj[h].closed_wr /\ obj[h].life = "live"
         /\ obj[h].counter = 0 => Does(h, Finishing \union {"reap", "drop"})
    /\ wire[h].out # "late"
    /\ wire[h].out = "eos" <=> obj[h].closed_wr \/ (Does(h, {"mark"}) /\ op[Main].wr)

(* A connection is in the table under its own descriptor until its read    *)
(* side is closed, and has the descriptor until both sides are.            *)
TableAt(h) ==
    /\ obj[h].fd # NoFd => obj[h].life = "live" /\ sock[obj[h].fd] = h
    /\ \A f \in FD : sock[f] = h \/ tcp.connections[f] = h => obj[h].fd = f
    /\ obj[h].life = "live" /\ ~obj[h].closed_rd => Registered(h)
    /\ obj[h].closed_rd /\ Registered(h) =>
         Does(h, {"notify", "notify_close", "forget"})
    /\ obj[h].closed_rd /\ obj[h].closed_wr /\ obj[h].fd # NoFd => Does(h, Finishing)
    /\ ~Running /\ Registered(h) => \/ <<obj[h].fd, h>> \in mgr.todo
                                    \/ Does(h, Ending \union {"drain"})
                                    \/ BlockFlag /\ wire[h].peer = "reset"

CountAt(h) ==
    /\ IsFiniteSet(Wrappers(h))
    /\ obj[h].counter = Cardinality(Wrappers(h)) + One(InQueue(h)) + One(Dropping(h))

(* Who may read from a connection, apart from a readable HandleUser: never *)
(* two, none beside a HandleUser or once the read side is being closed,    *)
(* and somebody unless the connection died before anybody had it.          *)
Away(h) == One(Does(h, {"yield"})) + One(InQueue(h)) + One(obj[h].fd \in tcp.set)
           + One(io.h = h) + One(h \in mgr.groupsReady)
OwnerAt(h) ==
    Running =>
      /\ \A v, w \in Readers(h) : v = w
      /\ Away(h) <= 1
      /\ Readers(h) # {} \/ ClosingRead(h) \/ obj[h].closed_rd => Away(h) = 0
      /\ obj[h].life = "live" /\ ~obj[h].closed_rd /\ Away(h) = 0 =>
           Readers(h) # {} \/ ClosingRead(h) \/ (Broken(h) /\ obj[h].counter = 0)

(* A stream whose handshake update has still to read; no connection that   *)
(* has lost its peer goes on.                                              *)
Greets(w) ==
    /\ w.peer = "new" => w.in = <<>>
    /\ w.peer = "named" => w.in \in {<<>>, <<"team">>}
    /\ w.peer \notin {"new", "named"} =>
         /\ w.in # <<>> /\ w.in[1] \in {"p2p", "team", "id", "fin", "rst"}
         /\ w.in[1] = "team" => Len(w.in) >= 2 /\ w.in[2] \in {"id", "fin", "rst"}
PeerAt(h) ==
    /\ wire[h].peer = "none" => /\ obj[h].life = "none" /\ ~InBacklog(h)
                                /\ wire[h].in = <<>>
    /\ InBacklog(h) => obj[h].life = "none"
    /\ io.h = h => obj[h].counter = 0
    /\ InBacklog(h) \/ io.h = h => Greets(wire[h])
    /\ InSeq(wire[h].in, "fin") => Broken(h)
    /\ InSeq(wire[h].in, "rst") => wire[h].peer = "reset"

(* The call in progress, and finalize.                                     *)
CallAt(o, e) ==
    /\ e.life = "live"
    /\ o.pc \in {"yield", "forget", "closefd"} => o.fd = e.fd
    /\ o.pc = "yield" => ~e.closed_rd
    /\ o.pc \in {"notify_close", "forget"} => o.wr = e.closed_wr /\ o.rd = e.closed_rd
    /\ o.pc \in {"forget", "closefd"} => e.closed_rd
    /\ o.pc = "closefd" => e.closed_wr /\ tcp.connections[e.fd] # o.h
    /\ o.pc \in {"eos", "mark"} /\ o.rd => o.wr \/ e.closed_wr \/ e.probed = "eos"
    /\ o.pc = "yield" => o.then \in {"idle", "decr"}
    /\ o.pc \in {"decr", "drop"} => o.then = "decr"
    /\ o.pc \in Ending => IF Running THEN o.then = "idle" ELSE o.then \in {"next", "drain"}
    /\ o.pc = "drain" \/ (o.pc \in Ending /\ o.then = "drain") =>
         /\ ~e.closed_rd
         /\ e.closed_wr \/ (o.pc \in {"eos", "mark"} /\ o.wr)
         /\ o.pc \in {"eos", "mark"} => ~o.rd
    /\ o.pc \in Ending /\ o.then = "next" => e.closed_rd \/ (o.pc \in {"eos", "mark"} /\ o.rd)
    /\ \A g \in mgr.todo : g[2] # o.h
PhaseAt(pc) ==
    /\ mgr.phase = "run" => pc \notin {"next", "drain"}
    /\ mgr.phase = "join" => pc = "idle"
    /\ mgr.phase = "end" => pc \in Ending \union {"next", "drain"}
    /\ mgr.phase = "done" => pc \in {"idle", "yield", "decr", "drop"}
    /\ mgr.phase # "end" => mgr.todo = {}
    /\ \A g \in mgr.todo : tcp.connections[g[1]] = g[2]
ThreadAt ==
    /\ op[Main].pc = "idle" => op[Main].h = NoHandle
    /\ op[Main].pc \notin {"idle", "next"} => CallAt(op[Main], obj[op[Main].h])
    /\ PhaseAt(op[Main].pc)

(* The queues hold a connection once; what the IO thread has taken from    *)
(* the set is still in it, and the set has descriptors that are in use.    *)
PlacesOK ==
    /\ Distinct(mgr.handleReady) /\ Distinct(backlog)
    /\ io.pc # "handshake" => io.h = NoHandle
    /\ ~Running => io.pc = "exited"
    /\ tcp.listen_sck # NoFd => sock[tcp.listen_sck] = NoHandle
    /\ Running => /\ io.tmpset \subseteq tcp.set
                  /\ \A f \in tcp.set : f = tcp.listen_sck \/ sock[f] # NoHandle

HandleAt(h) == LifeAt(h) /\ TableAt(h) /\ CountAt(h) /\ OwnerAt(h) /\ PeerAt(h)
Handles == \A h \in Handle : HandleAt(h)
OwnerInv == TypeOK /\ ThreadAt /\ PlacesOK /\ Handles

-----------------------------------------------------------------------------
(***************************************************************************)
(* Lemmas about the queues.                                                *)
(***************************************************************************)
(* One connection more at the end of a queue.                              *)
LEMMA AppendIn ==
  ASSUME NEW S, NEW q \in Seq(S), NEW h \in S, NEW r, r = Append(q, h)
  PROVE  /\ \A k : InSeq(r, k) <=> InSeq(q, k) \/ k = h
         /\ Distinct(q) /\ ~InSeq(q, h) => Distinct(r)
<1>1. /\ r \in Seq(S) /\ Len(r) = Len(q) + 1 /\ r[Len(q) + 1] = h
      /\ \A i \in 1..Len(q) : r[i] = q[i]
  BY AppendProperties
<1>2. DOMAIN q = 1..Len(q) /\ DOMAIN r = 1..Len(r) /\ Len(q) \in Nat
  BY <1>1, LenProperties
<1>3. PICK n \in Nat : n = Len(q) /\ DOMAIN q = 1..n /\ DOMAIN r = 1..(n + 1)
  BY <1>1, <1>2
<1>4. r[n + 1] = h /\ \A i \in 1..n : r[i] = q[i]
  BY <1>1, <1>3
<1>5. \A i \in 1..(n + 1) : i \in 1..n \/ i = n + 1
  OBVIOUS
<1>6. \A i \in 1..n : i \in 1..(n + 1)
  OBVIOUS
<1>7. n + 1 \in 1..(n + 1)
  OBVIOUS
<1> QED BY <1>3, <1>4, <1>5, <1>6, <1>7 DEF InSeq, Distinct

(* The first connection leaves a queue.                                    *)
LEMMA TailIn ==
  ASSUME NEW S, NEW q \in Seq(S), q # <<>>, NEW r, r = Tail(q)
  PROVE  /\ Head(q) \in S /\ Head(q) = q[1] /\ InSeq(q, Head(q)) /\ r \in Seq(S)
         /\ \A k : InSeq(r, k) => InSeq(q, k)
         /\ \A k : InSeq(q, k) => InSeq(r, k) \/ k = Head(q)
         /\ Distinct(q) => Distinct(r) /\ ~InSeq(r, Head(q))
<1>1. /\ r \in Seq(S) /\ Len(r) = Len(q) - 1 /\ Head(q) \in S /\ Head(q) = q[1]
      /\ \A i \in 1..Len(r) : r[i] = q[i + 1]
  BY HeadTailProperties
<1>2. DOMAIN q = 1..Len(q) /\ DOMAIN r = 1..Len(r) /\ Len(q) \in Nat \ {0}
  BY <1>1, LenProperties, EmptySeq
<1>3. PICK n \in Nat : n = Len(r) /\ n + 1 = Len(q) /\ DOMAIN q = 1..(n + 1) /\ DOMAIN r = 1..n
  <2>1. Len(r) \in Nat /\ Len(r) + 1 = Len(q)
    BY <1>1, <1>2, LenProperties
  <2> QED BY <1>2, <2>1
<1>4. \A i \in 1..n : i + 1 \in 1..(n + 1) /\ r[i] = q[i + 1]
  BY <1>1, <1>3
<1>5. \A i \in 1..(n + 1) : i = 1 \/ (i - 1 \in 1..n /\ (i - 1) + 1 = i)
  OBVIOUS
<1>6. 1 \in 1..(n + 1)
  OBVIOUS
<1>7. InSeq(q, Head(q))
  BY <1>1, <1>3, <1>6 DEF InSeq
<1>8. \A k : InSeq(r, k) => InSeq(q, k)
  BY <1>3, <1>4 DEF InSeq
<1>9. ASSUME NEW k, InSeq(q, k) PROVE InSeq(r, k) \/ k = Head(q)
  <2>1. PICK i \in 1..(n + 1) : q[i] = k
    BY <1>3, <1>9 DEF InSeq
  <2>2. CASE i = 1
    BY <1>1, <2>1, <2>2
  <2>3. CASE i # 1
    <3>1. i - 1 \in 1..n /\ r[i - 1] = q[i]
      BY <1>4, <1>5, <2>3
    <3> QED BY <1>3, <2>1, <3>1 DEF InSeq
  <2> QED BY <2>2, <2>3
<1>10. ASSUME Distinct(q) PROVE Distinct(r) /\ ~InSeq(r, Head(q))
  <2>1. \A i, j \in 1..(n + 1) : q[i] = q[j] => i = j
    BY <1>3, <1>10 DEF Distinct
  <2>2. \A i \in 1..n : i \in Int /\ i + 1 # 1
    OBVIOUS
  <2>3. \A i, j \in 1..n : i + 1 = j + 1 => i = j
    OBVIOUS
  <2>4. Distinct(r)
    BY <1>3, <1>4, <2>1, <2>3 DEF Distinct
  <2>5. ASSUME NEW i \in 1..n PROVE r[i] # Head(q)
    <3>1. i + 1 \in 1..(n + 1) /\ r[i] = q[i + 1] /\ i + 1 # 1
      BY <1>4, <2>2
    <3>2. q[i + 1] # q[1]
      BY <1>6, <2>1, <3>1
    <3> QED BY <1>1, <3>1, <3>2
  <2> QED BY <1>3, <2>4, <2>5 DEF InSeq
<1> QED BY <1>1, <1>7, <1>8, <1>9, <1>10

(* A connection that is in a queue of distinct ones is there once.         *)
LEMMA OncePlace ==
  ASSUME Distinct(mgr.handleReady), NEW h
  PROVE  IsFiniteSet(Queued(h)) /\ Cardinality(Queued(h)) = One(InQueue(h))
<1>1. CASE InQueue(h)
  <2>1. PICK i : i \in Queued(h)
    BY <1>1 DEF InQueue, InSeq, Queued
  <2>2. Queued(h) = {i}
    BY <2>1 DEF Queued, Distinct
  <2> QED BY <1>1, <2>2, FS_Singleton DEF One
<1>2. CASE ~InQueue(h)
  <2>1. Queued(h) = {}
    BY <1>2 DEF InQueue, InSeq, Queued
  <2> QED BY <1>2, <2>1, FS_EmptySet DEF One
<1> QED BY <1>1, <1>2

-----------------------------------------------------------------------------
(***************************************************************************)
(* Lemmas about what the thread, the wrappers and the descriptors become.  *)
(***************************************************************************)
(* The fields of the state.                                                *)
LEMMA Fields ==
  ASSUME TypeOK
  PROVE  /\ tcp \in TcpState /\ tcp.connections \in [FD -> MaybeHandle]
         /\ tcp.set \subseteq FD /\ tcp.listen_sck \in MaybeFd
         /\ io \in IoState /\ io.tmpset \subseteq FD /\ io.h \in MaybeHandle
         /\ mgr \in MgrState /\ mgr.handleReady \in Seq(Handle)
         /\ mgr.groupsReady \subseteq Handle /\ mgr.todo \subseteq FD \X Handle
         /\ mgr.phase \in {"run", "join", "end", "done"}
         /\ op[Main] \in Activity /\ op \in [Thread -> Activity]
         /\ backlog \in Seq(Handle) /\ sock \in [FD -> MaybeHandle]
         /\ NoFd \notin FD
<1>1. NoFd \notin FD
  BY DEF NoFd, FD
<1> QED BY <1>1, ThreadAssumption
        DEF TypeOK, Types, TcpState, IoState, MgrState

LEMMA OpFields ==
  ASSUME TypeOK
  PROVE  /\ op[Main].pc \in PC /\ op[Main].h \in MaybeHandle
         /\ op[Main].wr \in BOOLEAN /\ op[Main].rd \in BOOLEAN
         /\ op[Main].fd \in MaybeFd /\ op[Main].then \in {"idle", "decr", "next", "drain"}
         /\ op[Main].pc \notin {"idle", "next"} => op[Main].h \in Handle
         /\ op[Main].pc \in {"yield", "forget", "closefd"} => op[Main].fd \in FD
BY ThreadAssumption, OpGood DEF Good, Activity

(* Only the program counter of the thread changes.                         *)
Moved(l) == /\ op'[Main].pc = l /\ op'[Main].h = op[Main].h
            /\ op'[Main].wr = op[Main].wr /\ op'[Main].rd = op[Main].rd
            /\ op'[Main].fd = op[Main].fd /\ op'[Main].then = op[Main].then
Idled == op'[Main].pc = "idle" /\ op'[Main].h = NoHandle
Called(l, h, wr, rd, k) ==
    /\ op'[Main].pc = l /\ op'[Main].h = h /\ op'[Main].wr = wr /\ op'[Main].rd = rd
    /\ op'[Main].fd = obj[h].fd /\ op'[Main].then = k

LEMMA OpMoves ==
  ASSUME TypeOK
  PROVE  /\ \A l : Goto(Main, l) => Moved(l)
         /\ \A l : Return(Main, l) => IF l = "idle" THEN Idled ELSE Moved(l)
         /\ \A l, h, wr, rd, k : Call(Main, l, h, wr, rd, k) => Called(l, h, wr, rd, k)
<1>1. op \in [Thread -> Activity] /\ op[Main] \in Activity /\ Main \in Thread
  BY Fields, ThreadAssumption
<1>2. ASSUME NEW l, Goto(Main, l) PROVE Moved(l)
  <2>1. op'[Main] = [op[Main] EXCEPT !.pc = l]
    BY <1>1, <1>2 DEF Goto
  <2> QED BY <1>1, <2>1 DEF Moved, Activity
<1>3. ASSUME NEW l, Return(Main, l) PROVE IF l = "idle" THEN Idled ELSE Moved(l)
  <2>1. op'[Main] = IF l = "idle" THEN Idling ELSE [op[Main] EXCEPT !.pc = l]
    BY <1>1, <1>3 DEF Return
  <2> QED BY <1>1, <2>1 DEF Moved, Activity, Idled, Idling
<1>4. ASSUME NEW l, NEW h, NEW wr, NEW rd, NEW k, Call(Main, l, h, wr, rd, k)
      PROVE  Called(l, h, wr, rd, k)
  <2>1. op'[Main] = [pc |-> l, h |-> h, wr |-> wr, rd |-> rd, fd |-> obj[h].fd, then |-> k]
    BY <1>1, <1>4 DEF Call
  <2> QED BY <2>1 DEF Called
<1> QED BY <1>2, <1>3, <1>4

(* A wrapper is an element of Wrappers, and of Readers, by what is in its  *)
(* slot.                                                                   *)
LEMMA WrapperIs ==
  ASSUME OneThread, NEW k
  PROVE  /\ \A w \in Wrappers(k) : \E s \in Slot : w = <<Main, s>> /\ slot[Main][s].real = k
         /\ \A s \in Slot : <<Main, s>> \in Wrappers(k) <=> slot[Main][s].real = k
         /\ \A s \in Slot : <<Main, s>> \in Readers(k) <=>
                              slot[Main][s].real = k /\ slot[Main][s].readable
         /\ Readers(k) \subseteq Wrappers(k)
BY DEF OneThread, Wrappers, Readers

LEMMA WrapperIsNext ==
  ASSUME OneThread, NEW k
  PROVE  /\ \A w \in Wrappers(k)' : \E s \in Slot : w = <<Main, s>> /\ slot'[Main][s].real = k
         /\ \A s \in Slot : <<Main, s>> \in Wrappers(k)' <=> slot'[Main][s].real = k
         /\ \A s \in Slot : <<Main, s>> \in Readers(k)' <=>
                              slot'[Main][s].real = k /\ slot'[Main][s].readable
         /\ Readers(k)' \subseteq Wrappers(k)'
BY DEF OneThread, Wrappers, Readers

LEMMA SlotsSame ==
  ASSUME UNCHANGED slot, NEW k
  PROVE  Wrappers(k)' = Wrappers(k) /\ Readers(k)' = Readers(k)
BY DEF Wrappers, Readers

(* A connection whose wrappers all stay as they are.                       *)
LEMMA SlotsKept ==
  ASSUME OneThread, NEW k,
         \A s \in Slot : /\ slot'[Main][s].real = k <=> slot[Main][s].real = k
                         /\ slot[Main][s].real = k => slot'[Main][s] = slot[Main][s]
  PROVE  Wrappers(k)' = Wrappers(k) /\ Readers(k)' = Readers(k)
<1>1. \A w : w \in Wrappers(k)' <=> w \in Wrappers(k)
  BY WrapperIs, WrapperIsNext
<1>2. \A w : w \in Readers(k)' <=> w \in Readers(k)
  <2>1. ASSUME NEW w \in Readers(k)' PROVE w \in Readers(k)
    <3>1. PICK s \in Slot : w = <<Main, s>> /\ slot'[Main][s].real = k
      BY <2>1, WrapperIsNext
    <3>2. slot'[Main][s].readable /\ slot[Main][s].real = k /\ slot'[Main][s] = slot[Main][s]
      BY <2>1, <3>1, WrapperIsNext
    <3> QED BY <3>1, <3>2, WrapperIs
  <2>2. ASSUME NEW w \in Readers(k) PROVE w \in Readers(k)'
    <3>1. PICK s \in Slot : w = <<Main, s>> /\ slot[Main][s].real = k
      BY <2>2, WrapperIs
    <3>2. slot[Main][s].readable /\ slot'[Main][s].real = k /\ slot'[Main][s] = slot[Main][s]
      BY <2>2, <3>1, WrapperIs
    <3> QED BY <3>1, <3>2, WrapperIsNext
  <2> QED BY <2>1, <2>2
<1> QED BY <1>1, <1>2

(* One slot of the thread changes.                                         *)
LEMMA SlotChanges ==
  ASSUME TypeOK, NEW s \in Slot, NEW v, slot' = [slot EXCEPT ![Main][s] = v]
  PROVE  slot'[Main][s] = v /\ \A x \in Slot : x # s => slot'[Main][x] = slot[Main][x]
BY ThreadAssumption DEF TypeOK, Types

(* The program gives up the right to read.                                 *)
LEMMA SlotReleased ==
  ASSUME TypeOK, OneThread, NEW s \in Slot, NEW h \in Handle, Holds(Main, s, h),
         Release(Main, s)
  PROVE  /\ Wrappers(h)' = Wrappers(h) /\ Readers(h)' = Readers(h) \ {<<Main, s>>}
         /\ \A k \in Handle : k # h =>
              Wrappers(k)' = Wrappers(k) /\ Readers(k)' = Readers(k)
<1>1. slot[Main][s] \in Wrapper /\ slot[Main][s].real = h
  BY ThreadAssumption DEF TypeOK, Types, Holds
<1>2. PICK v : v = [slot[Main][s] EXCEPT !.readable = FALSE]
  OBVIOUS
<1>3. v.real = h /\ ~v.readable
  BY <1>1, <1>2 DEF Wrapper
<1>4. slot' = [slot EXCEPT ![Main][s] = v]
  BY <1>2 DEF Release
<1>5. slot'[Main][s] = v /\ \A x \in Slot : x # s => slot'[Main][x] = slot[Main][x]
  BY <1>4, SlotChanges
<1>6. \A w : w \in Wrappers(h)' <=> w \in Wrappers(h)
  BY <1>1, <1>3, <1>5, WrapperIs, WrapperIsNext
<1>7. \A w : w \in Readers(h)' <=> w \in Readers(h) \ {<<Main, s>>}
  <2>1. ASSUME NEW w \in Readers(h)' PROVE w \in Readers(h) \ {<<Main, s>>}
    <3>1. PICK x \in Slot : w = <<Main, x>> /\ slot'[Main][x].real = h
      BY <2>1, WrapperIsNext
    <3>2. slot'[Main][x].readable
      BY <2>1, <3>1, WrapperIsNext
    <3>3. x # s
      BY <1>3, <1>5, <3>2
    <3> QED BY <1>5, <3>1, <3>2, <3>3, WrapperIs
  <2>2. ASSUME NEW w \in Readers(h), w # <<Main, s>> PROVE w \in Readers(h)'
    <3>1. PICK x \in Slot : w = <<Main, x>> /\ slot[Main][x].real = h
      BY <2>2, WrapperIs
    <3>2. slot[Main][x].readable /\ x # s
      BY <2>2, <3>1, WrapperIs
    <3> QED BY <1>5, <3>1, <3>2, WrapperIsNext
  <2> QED BY <2>1, <2>2
<1>8. ASSUME NEW k \in Handle, k # h
      PROVE  Wrappers(k)' = Wrappers(k) /\ Readers(k)' = Readers(k)
  <2>1. \A x \in Slot : /\ slot'[Main][x].real = k <=> slot[Main][x].real = k
                        /\ slot[Main][x].real = k => slot'[Main][x] = slot[Main][x]
    BY <1>1, <1>3, <1>5, <1>8
  <2> QED BY <2>1, SlotsKept
<1> QED BY <1>6, <1>7, <1>8

(* The program gets a connection.                                          *)
LEMMA SlotTaken ==
  ASSUME TypeOK, OneThread, NEW s \in Slot, NEW h \in Handle, slot[Main][s] = Empty,
         slot' = [slot EXCEPT ![Main][s] = [real |-> h, readable |-> TRUE]]
  PROVE  /\ <<Main, s>> \notin Wrappers(h)
         /\ Wrappers(h)' = Wrappers(h) \union {<<Main, s>>}
         /\ Readers(h)' = Readers(h) \union {<<Main, s>>}
         /\ \A k \in Handle : k # h =>
              Wrappers(k)' = Wrappers(k) /\ Readers(k)' = Readers(k)
<1>1. slot[Main][s].real = NoHandle /\ \A k \in Handle : k # NoHandle
  BY HandleAssumption DEF Empty
<1>2. PICK v : v = [real |-> h, readable |-> TRUE]
  OBVIOUS
<1>3. v.real = h /\ v.readable
  BY <1>2
<1>5. slot'[Main][s] = v /\ \A x \in Slot : x # s => slot'[Main][x] = slot[Main][x]
  BY <1>2, SlotChanges
<1>6. \A w : w \in Wrappers(h)' <=> w \in Wrappers(h) \union {<<Main, s>>}
  BY <1>1, <1>3, <1>5, WrapperIs, WrapperIsNext
<1>7. \A w : w \in Readers(h)' <=> w \in Readers(h) \union {<<Main, s>>}
  <2>1. ASSUME NEW w \in Readers(h)', w # <<Main, s>> PROVE w \in Readers(h)
    <3>1. PICK x \in Slot : w = <<Main, x>> /\ slot'[Main][x].real = h
      BY <2>1, WrapperIsNext
    <3>2. slot'[Main][x].readable /\ x # s
      BY <2>1, <3>1, WrapperIsNext
    <3> QED BY <1>5, <3>1, <3>2, WrapperIs
  <2>2. ASSUME NEW w \in Readers(h) PROVE w \in Readers(h)'
    <3>1. PICK x \in Slot : w = <<Main, x>> /\ slot[Main][x].real = h
      BY <2>2, WrapperIs
    <3>2. slot[Main][x].readable /\ x # s
      BY <1>1, <2>2, <3>1, WrapperIs
    <3> QED BY <1>5, <3>1, <3>2, WrapperIsNext
  <2>3. <<Main, s>> \in Readers(h)'
    BY <1>3, <1>5, WrapperIsNext
  <2> QED BY <2>1, <2>2, <2>3
<1>8. ASSUME NEW k \in Handle, k # h
      PROVE  Wrappers(k)' = Wrappers(k) /\ Readers(k)' = Readers(k)
  <2>1. \A x \in Slot : /\ slot'[Main][x].real = k <=> slot[Main][x].real = k
                        /\ slot[Main][x].real = k => slot'[Main][x] = slot[Main][x]
    BY <1>1, <1>3, <1>5, <1>8
  <2> QED BY <2>1, SlotsKept
<1>9. <<Main, s>> \notin Wrappers(h)
  BY <1>1, WrapperIs
<1> QED BY <1>6, <1>7, <1>8, <1>9

(* The program destroys a HandleUser.                                      *)
LEMMA SlotDropped ==
  ASSUME TypeOK, OneThread, NEW s \in Slot, NEW h \in Handle, Holds(Main, s, h),
         slot' = [slot EXCEPT ![Main][s] = Empty]
  PROVE  /\ <<Main, s>> \in Wrappers(h)
         /\ <<Main, s>> \in Readers(h) <=> slot[Main][s].readable
         /\ Wrappers(h)' = Wrappers(h) \ {<<Main, s>>}
         /\ Readers(h)' = Readers(h) \ {<<Main, s>>}
         /\ \A k \in Handle : k # h =>
              Wrappers(k)' = Wrappers(k) /\ Readers(k)' = Readers(k)
<1>1. slot[Main][s].real = h /\ Empty.real = NoHandle /\ \A k \in Handle : k # NoHandle
  BY HandleAssumption DEF Holds, Empty
<1>5. slot'[Main][s] = Empty /\ \A x \in Slot : x # s => slot'[Main][x] = slot[Main][x]
  BY SlotChanges
<1>6. \A w : w \in Wrappers(h)' <=> w \in Wrappers(h) \ {<<Main, s>>}
  BY <1>1, <1>5, WrapperIs, WrapperIsNext
<1>7. \A w : w \in Readers(h)' <=> w \in Readers(h) \ {<<Main, s>>}
  <2>1. ASSUME NEW w \in Readers(h)' PROVE w \in Readers(h) \ {<<Main, s>>}
    <3>1. PICK x \in Slot : w = <<Main, x>> /\ slot'[Main][x].real = h
      BY <2>1, WrapperIsNext
    <3>2. slot'[Main][x].readable /\ x # s
      BY <1>1, <1>5, <2>1, <3>1, WrapperIsNext
    <3> QED BY <1>5, <3>1, <3>2, WrapperIs
  <2>2. ASSUME NEW w \in Readers(h), w # <<Main, s>> PROVE w \in Readers(h)'
    <3>1. PICK x \in Slot : w = <<Main, x>> /\ slot[Main][x].real = h
      BY <2>2, WrapperIs
    <3>2. slot[Main][x].readable /\ x # s
      BY <2>2, <3>1, WrapperIs
    <3> QED BY <1>5, <3>1, <3>2, WrapperIsNext
  <2> QED BY <2>1, <2>2
<1>8. ASSUME NEW k \in Handle, k # h
      PROVE  Wrappers(k)' = Wrappers(k) /\ Readers(k)' = Readers(k)
  <2>1. \A x \in Slot : /\ slot'[Main][x].real = k <=> slot[Main][x].real = k
                        /\ slot[Main][x].real = k => slot'[Main][x] = slot[Main][x]
    BY <1>1, <1>5, <1>8
  <2> QED BY <2>1, SlotsKept
<1>9. /\ <<Main, s>> \in Wrappers(h)
      /\ <<Main, s>> \in Readers(h) <=> slot[Main][s].readable
  BY <1>1, WrapperIs
<1> QED BY <1>6, <1>7, <1>8, <1>9

-----------------------------------------------------------------------------
(***************************************************************************)
(* What each part of the invariant of a connection depends on.             *)
(***************************************************************************)
(* The thread does with k what it did before, if anything.                 *)
OpKept(k) == op'[Main] = op[Main] \/ (~Busy(k) /\ ~Busy(k)')
DoesSame(k) ==
    /\ Busy(k)' <=> Busy(k)
    /\ Does(k, {"yield"})' <=> Does(k, {"yield"})
    /\ Does(k, {"notify", "notify_close", "forget"})' <=>
         Does(k, {"notify", "notify_close", "forget"})
    /\ Does(k, Finishing)' <=> Does(k, Finishing)
    /\ Does(k, Finishing \union {"reap", "drop"})' <=>
         Does(k, Finishing \union {"reap", "drop"})
    /\ Does(k, Ending \union {"drain"})' <=> Does(k, Ending \union {"drain"})
    /\ (Does(k, {"mark"}) /\ op[Main].wr)' <=> (Does(k, {"mark"}) /\ op[Main].wr)
    /\ ClosingRead(k)' <=> ClosingRead(k)
    /\ Dropping(k)' <=> Dropping(k)

LEMMA DoesKept ==
  ASSUME NEW k, OpKept(k)
  PROVE  DoesSame(k)
<1>1. CASE op'[Main] = op[Main]
  BY <1>1 DEF DoesSame, Busy, Does, ClosingRead, Dropping, Finishing, Ending
<1>2. CASE ~Busy(k) /\ ~Busy(k)'
  BY <1>2 DEF DoesSame, Busy, Does, ClosingRead, Dropping, Finishing, Ending
<1> QED BY <1>1, <1>2 DEF OpKept

LEMMA LifeKept ==
  ASSUME NEW k, LifeAt(k), DoesSame(k), obj'[k] = obj[k], wire'[k].out = wire[k].out,
         Wrappers(k)' = Wrappers(k), InQueue(k)' <=> InQueue(k),
         io'.h = k => io.h = k, Running' => Running,
         k \in mgr'.groupsReady => k \in mgr.groupsReady
  PROVE  LifeAt(k)'
BY DEF LifeAt, DoesSame, UnusedAt, Unreachable

LEMMA TableKept ==
  ASSUME NEW k, TableAt(k), DoesSame(k), obj'[k].life = obj[k].life,
         obj'[k].fd = obj[k].fd, obj'[k].closed_rd = obj[k].closed_rd,
         obj'[k].closed_wr = obj[k].closed_wr, obj[k].fd \in MaybeFd,
         \A f \in FD : sock'[f] = k <=> sock[f] = k,
         \A f \in FD : tcp'.connections[f] = k <=> tcp.connections[f] = k,
         Running' <=> Running, wire[k].peer = "reset" => wire'[k].peer = "reset",
         <<obj[k].fd, k>> \in mgr.todo => <<obj[k].fd, k>> \in mgr'.todo
  PROVE  TableAt(k)'
BY DEF TableAt, DoesSame, Registered, MaybeFd

LEMMA CountKept ==
  ASSUME NEW k, CountAt(k), DoesSame(k), obj'[k].counter = obj[k].counter,
         Wrappers(k)' = Wrappers(k), InQueue(k)' <=> InQueue(k)
  PROVE  CountAt(k)'
BY DEF CountAt, DoesSame, One

LEMMA OwnerKept ==
  ASSUME NEW k, OwnerAt(k), DoesSame(k), obj'[k].life = obj[k].life,
         obj'[k].closed_rd = obj[k].closed_rd, obj'[k].counter = obj[k].counter,
         Readers(k)' = Readers(k), InQueue(k)' <=> InQueue(k), Running' => Running,
         obj'[k].fd \in tcp'.set <=> obj[k].fd \in tcp.set,
         io'.h = k <=> io.h = k, k \in mgr'.groupsReady <=> k \in mgr.groupsReady,
         Broken(k) => Broken(k)'
  PROVE  OwnerAt(k)'
BY DEF OwnerAt, DoesSame, Away, One

LEMMA PeerKept ==
  ASSUME NEW k, PeerAt(k), wire'[k].in = wire[k].in, wire'[k].peer = wire[k].peer,
         obj'[k].life = obj[k].life, obj'[k].counter = obj[k].counter,
         InBacklog(k)' <=> InBacklog(k), io'.h = k => io.h = k
  PROVE  PeerAt(k)'
<1>1. wire[k].in = wire[k].in /\ Greets(wire[k]) => Greets(wire'[k])
  BY DEF Greets
<1>2. Greets(wire[k])' <=> Greets(wire'[k])
  BY DEF Greets
<1> QED BY <1>1, <1>2 DEF PeerAt, Broken

(* The same when a write may have taken the error of a reset from the      *)
(* stream.                                                                 *)
LEMMA PeerWritten ==
  ASSUME NEW k, PeerAt(k), wire[k].in \in Seq(Frame),
         wire'[k].in \in {wire[k].in, ErrorTaken(wire[k].in)},
         wire'[k].peer = wire[k].peer,
         obj'[k].life = obj[k].life, obj'[k].counter = obj[k].counter,
         InBacklog(k)' <=> InBacklog(k), io'.h = k => io.h = k
  PROVE  PeerAt(k)'
<1> DEFINE s == wire[k].in
           t == ErrorTaken(s)
<1>1. CASE wire'[k].in = s
  BY <1>1, PeerKept
<1>2. CASE wire'[k].in = t /\ ~InSeq(s, "rst")
  <2>1. DOMAIN s = 1..Len(s) /\ s = [i \in DOMAIN s |-> s[i]]
    OBVIOUS
  <2>2. \A i \in DOMAIN s : s[i] # "rst"
    BY <1>2 DEF InSeq
  <2>3. t = s
    BY <2>1, <2>2 DEF ErrorTaken
  <2> QED BY <1>2, <2>3, PeerKept
<1>3. CASE wire'[k].in = t /\ InSeq(s, "rst")
  <2>1. wire[k].peer = "reset" /\ Broken(k)'
    BY <1>3 DEF PeerAt, Broken
  <2>2. /\ Len(t) = Len(s) /\ Len(s) \in Nat /\ (t = <<>> <=> s = <<>>) /\ t \in Seq(Frame)
        /\ DOMAIN s = 1..Len(s) /\ DOMAIN t = 1..Len(s)
        /\ \A i \in 1..Len(s) : t[i] = IF s[i] = "rst" THEN "fin" ELSE s[i]
    BY ErrorTakenIs, LenProperties
  <2>3. s # <<>> => 1 \in 1..Len(s)
    BY <2>2, EmptySeq
  <2> HIDE DEF t
  <2>4. ~InSeq(t, "rst")
    BY <2>2 DEF InSeq
  <2>5. ASSUME Greets(wire[k]) PROVE Greets(wire'[k])
    <3>1. /\ s # <<>> /\ s[1] \in {"p2p", "team", "id", "fin", "rst"}
          /\ s[1] = "team" => Len(s) >= 2 /\ s[2] \in {"id", "fin", "rst"}
      BY <2>1, <2>5 DEF Greets
    <3>2. t # <<>> /\ t[1] \in {"p2p", "team", "id", "fin"}
      BY <2>2, <2>3, <3>1
    <3>3. t[1] = "team" => Len(t) >= 2 /\ t[2] \in {"id", "fin"}
      <4> SUFFICES ASSUME t[1] = "team" PROVE Len(t) >= 2 /\ t[2] \in {"id", "fin"}
        OBVIOUS
      <4>1. s[1] = "team"
        BY <2>2, <2>3, <3>1
      <4>2. 2 \in 1..Len(s) /\ Len(t) >= 2
        BY <2>2, <3>1, <4>1
      <4> QED BY <2>2, <3>1, <4>1, <4>2
    <3> QED BY <1>3, <2>1, <3>2, <3>3 DEF Greets
  <2>6. Greets(wire[k])' <=> Greets(wire'[k])
    BY DEF Greets
  <2> QED BY <1>3, <2>1, <2>4, <2>5, <2>6 DEF PeerAt
<1> QED BY <1>1, <1>2, <1>3

(* A connection that a step does not touch.                                *)
Kept(k) ==
    /\ OpKept(k) /\ obj'[k] = obj[k] /\ wire'[k] = wire[k]
    /\ Wrappers(k)' = Wrappers(k) /\ Readers(k)' = Readers(k)
    /\ InQueue(k)' <=> InQueue(k)
    /\ InBacklog(k)' <=> InBacklog(k)
    /\ \A f \in FD : sock'[f] = k <=> sock[f] = k
    /\ \A f \in FD : tcp'.connections[f] = k <=> tcp.connections[f] = k
    /\ obj[k].fd \in tcp'.set <=> obj[k].fd \in tcp.set
    /\ io'.h = k <=> io.h = k
    /\ k \in mgr'.groupsReady <=> k \in mgr.groupsReady
    /\ Running' <=> Running
    /\ <<obj[k].fd, k>> \in mgr.todo => <<obj[k].fd, k>> \in mgr'.todo

LEMMA HandleKept ==
  ASSUME TypeOK, NEW k \in Handle, HandleAt(k), Kept(k)
  PROVE  HandleAt(k)'
<1>0. obj[k].fd \in MaybeFd /\ (Broken(k) => Broken(k)')
  BY ObjField DEF Kept, Broken
<1>1. DoesSame(k)
  BY DoesKept DEF Kept
<1>2. LifeAt(k)'
  BY <1>1, LifeKept DEF Kept, HandleAt
<1>3. TableAt(k)'
  BY <1>0, <1>1, TableKept DEF Kept, HandleAt
<1>4. CountAt(k)'
  BY <1>1, CountKept DEF Kept, HandleAt
<1>5. OwnerAt(k)'
  BY <1>0, <1>1, OwnerKept DEF Kept, HandleAt
<1>6. PeerAt(k)'
  BY PeerKept DEF Kept, HandleAt
<1> QED BY <1>2, <1>3, <1>4, <1>5, <1>6 DEF HandleAt

-----------------------------------------------------------------------------
(***************************************************************************)
(* The steps of the thread inside a call.                                  *)
(***************************************************************************)
(* What a step leaves of the queues, the table and the phases.             *)
LEMMA SameMgr ==
  ASSUME UNCHANGED mgr, NEW k
  PROVE  /\ InQueue(k)' <=> InQueue(k)
         /\ Running' <=> Running
         /\ k \in mgr'.groupsReady <=> k \in mgr.groupsReady
         /\ mgr'.todo = mgr.todo
BY DEF InQueue, Running

LEMMA SameBacklog ==
  ASSUME UNCHANGED backlog, NEW k
  PROVE  InBacklog(k)' <=> InBacklog(k)
BY DEF InBacklog

LEMMA PlacesKept ==
  ASSUME PlacesOK, UNCHANGED <<mgr, backlog, io, sock>>,
         tcp'.set = tcp.set, tcp'.listen_sck = tcp.listen_sck
  PROVE  PlacesOK'
BY DEF PlacesOK, Running

(* A connection that is neither before nor after a step the thread's.      *)
LEMMA OpOther ==
  ASSUME NEW k, op[Main].h # k \/ op[Main].pc \in {"idle", "next"},
         op'[Main].h # k \/ op'[Main].pc \in {"idle", "next"}
  PROVE  OpKept(k)
BY DEF OpKept, Busy

(* The connection of the call in progress.                                 *)
LEMMA InCall ==
  ASSUME OwnerInv, op[Main].pc \notin {"idle", "next"}
  PROVE  /\ op[Main].h \in Handle /\ CallAt(op[Main], obj[op[Main].h])
         /\ HandleAt(op[Main].h) /\ Busy(op[Main].h) /\ PhaseAt(op[Main].pc)
         /\ op[Main].h # NoHandle
BY OpFields, HandleAssumption DEF OwnerInv, ThreadAt, Handles, Busy

(* What a step with a connection has to show.                              *)
LEMMA StepWith ==
  ASSUME OwnerInv, NEW h \in Handle, HandleAt(h)',
         \A k \in Handle : k # h => Kept(k)
  PROVE  Handles'
<1>1. ASSUME NEW k \in Handle, k # h PROVE HandleAt(k)'
  <2>1. Kept(k) /\ HandleAt(k) /\ TypeOK
    BY <1>1 DEF OwnerInv, Handles
  <2> QED BY <2>1, HandleKept
<1>2. ASSUME NEW k \in Handle PROVE HandleAt(k)'
  BY <1>1
<1> QED BY <1>2 DEF Handles

(* Writing on a connection.                                                *)
LEMMA Written ==
  ASSUME TypeOK, NEW h \in Handle, NEW b \in BOOLEAN, wire' = Write(h, b)
  PROVE  /\ wire'[h].in = ErrorTaken(wire[h].in)
         /\ wire'[h].in = <<>> <=> wire[h].in = <<>>
         /\ wire'[h].peer = wire[h].peer
         /\ wire'[h].out = IF wire[h].out # "open" THEN "late"
                           ELSE IF b THEN "eos" ELSE "open"
         /\ \A k \in Handle : k # h => wire'[k] = wire[k]
<1>1. wire \in [Handle -> Stream] /\ wire[h] \in Stream /\ wire[h].in \in Seq(Frame)
  BY DEF TypeOK, Types, Stream
<1>2. PICK x : x = IF wire[h].out # "open" THEN "late" ELSE IF b THEN "eos" ELSE "open"
  OBVIOUS
<1>3. PICK y : y = ErrorTaken(wire[h].in)
  OBVIOUS
<1>4. wire' = [wire EXCEPT ![h] = [wire[h] EXCEPT !.in = y, !.out = x]]
  BY <1>1, <1>2, <1>3 DEF Write, Stream
<1>5. wire'[h] = [wire[h] EXCEPT !.in = y, !.out = x] /\ \A k \in Handle : k # h => wire'[k] = wire[k]
  BY <1>1, <1>4
<1>6. y = <<>> <=> wire[h].in = <<>>
  BY <1>1, <1>3, ErrorTakenIs
<1> QED BY <1>1, <1>2, <1>3, <1>5, <1>6 DEF Stream

LEMMA SendEOSKeeps ==
  ASSUME OneThread, OwnerInv, SendEOS(Main)
  PROVE  ThreadAt' /\ PlacesOK' /\ Handles'
<1>1. PICK h : h = op[Main].h
  OBVIOUS
<1>2. op[Main].pc = "eos" /\ UNCHANGED <<obj, tcp, io, mgr, slot, sock, backlog>> /\ TypeOK
  BY DEF SendEOS, At, OwnerInv
<1>3. h \in Handle /\ CallAt(op[Main], obj[h]) /\ HandleAt(h) /\ PhaseAt("eos")
  BY <1>1, <1>2, InCall
<1>4. Moved("mark")
  BY <1>2, OpMoves DEF SendEOS
<1>5. /\ wire'[h].in \in {wire[h].in, ErrorTaken(wire[h].in)}
      /\ wire'[h].peer = wire[h].peer
      /\ \A k \in Handle : k # h => wire'[k] = wire[k]
      /\ wire'[h].out = IF op[Main].wr /\ ~obj[h].closed_wr
                        THEN IF wire[h].out # "open" THEN "late" ELSE "eos"
                        ELSE wire[h].out
  <2>1. CASE EOSDue(Main)
    <3>1. wire' = Write(h, TRUE)
      BY <1>1, <2>1 DEF SendEOS
    <3> QED BY <1>1, <1>2, <1>3, <2>1, <3>1, Written DEF EOSDue
  <2>2. CASE ~EOSDue(Main)
    <3>1. wire' = wire
      BY <2>2 DEF SendEOS
    <3> QED BY <1>1, <2>2, <3>1 DEF EOSDue
  <2> QED BY <2>1, <2>2
<1>6. ASSUME NEW k \in Handle, k # h PROVE Kept(k)
  <2>1. OpKept(k)
    BY <1>1, <1>4, <1>6, OpOther DEF Moved
  <2> QED BY <1>2, <1>5, <1>6, <2>1, SlotsSame, SameMgr, SameBacklog DEF Kept
<1>7. /\ Wrappers(h)' = Wrappers(h) /\ Readers(h)' = Readers(h)
      /\ InQueue(h)' <=> InQueue(h)
      /\ InBacklog(h)' <=> InBacklog(h)
      /\ Running' <=> Running
  BY <1>2, SlotsSame, SameMgr, SameBacklog
<1>8. /\ Busy(h) /\ Busy(h)' /\ (ClosingRead(h)' <=> ClosingRead(h))
      /\ ~Dropping(h) /\ ~Dropping(h)' /\ ~Does(h, {"yield"}) /\ ~Does(h, {"yield"})'
      /\ ~Does(h, Finishing \union {"reap", "drop"}) /\ ~Does(h, Finishing)
      /\ ~Does(h, {"notify", "notify_close", "forget"}) /\ Does(h, Ending \union {"drain"})'
      /\ ~Does(h, {"mark"}) /\ ((Does(h, {"mark"}) /\ op[Main].wr)' <=> op[Main].wr)
  BY <1>1, <1>2, <1>4 DEF Moved, Busy, Does, ClosingRead, Dropping, Finishing, Ending
<1>9. LifeAt(h)'
  <2>1. LifeAt(h) /\ obj[h].life = "live" /\ op[Main].wr \in BOOLEAN
    BY <1>2, <1>3, OpFields DEF HandleAt, CallAt
  <2>2. wire[h].out \in {"open", "eos", "late"} /\ obj[h].closed_wr \in BOOLEAN
    BY <1>2, <1>3, ObjField DEF TypeOK, Types, Stream
  <2> QED BY <1>2, <1>5, <1>7, <1>8, <2>1, <2>2 DEF LifeAt
<1>10. TableAt(h)'
  BY <1>2, <1>3, <1>5, <1>7, <1>8 DEF TableAt, HandleAt, Registered
<1>11. CountAt(h)'
  BY <1>2, <1>3, <1>7, <1>8 DEF CountAt, HandleAt, One
<1>12. OwnerAt(h)'
  BY <1>2, <1>3, <1>5, <1>7, <1>8 DEF OwnerAt, HandleAt, Away, One, Broken
<1>13. PeerAt(h)'
  <2>1. wire[h].in \in Seq(Frame)
    BY <1>2, <1>3 DEF TypeOK, Types, Stream
  <2> QED BY <1>2, <1>3, <1>5, <1>7, <2>1, PeerWritten DEF HandleAt
<1>14. ThreadAt'
  <2>1. CallAt(op[Main], obj[h])'
    BY <1>1, <1>2, <1>3, <1>4, <1>7 DEF CallAt, Moved, Ending, Finishing
  <2>2. PhaseAt("mark")'
    BY <1>2, <1>3 DEF PhaseAt, Ending, Finishing
  <2> QED BY <1>1, <1>4, <2>1, <2>2 DEF ThreadAt, Moved
<1> QED BY <1>2, <1>3, <1>6, <1>9, <1>10, <1>11, <1>12, <1>13, <1>14, StepWith, PlacesKept
        DEF HandleAt, OwnerInv

(* Changing a Handle object.                                               *)
LEMMA ObjUpdate ==
  ASSUME TypeOK, NEW h \in Handle, NEW r, obj' = [obj EXCEPT ![h] = r]
  PROVE  obj'[h] = r /\ \A k \in Handle : k # h => obj'[k] = obj[k]
BY DEF TypeOK, Types

LEMMA MarkClosedKeeps ==
  ASSUME OneThread, OwnerInv, MarkClosed(Main)
  PROVE  ThreadAt' /\ PlacesOK' /\ Handles'
<1>1. PICK h : h = op[Main].h
  OBVIOUS
<1>2. op[Main].pc = "mark" /\ UNCHANGED <<tcp, io, mgr, slot, sock, wire, backlog>> /\ TypeOK
  BY DEF MarkClosed, At, OwnerInv
<1>3. h \in Handle /\ CallAt(op[Main], obj[h]) /\ HandleAt(h) /\ PhaseAt("mark")
  BY <1>1, <1>2, InCall
<1>4. Moved("notify")
  BY <1>2, OpMoves DEF MarkClosed
<1>5. /\ obj'[h].fd = obj[h].fd /\ obj'[h].life = obj[h].life
      /\ obj'[h].counter = obj[h].counter /\ obj'[h].probed = obj[h].probed
      /\ obj'[h].closed_wr <=> obj[h].closed_wr \/ op[Main].wr
      /\ obj'[h].closed_rd <=> obj[h].closed_rd \/ op[Main].rd
      /\ \A k \in Handle : k # h => obj'[k] = obj[k]
  <2>1. PICK a, b : a = (obj[h].closed_wr \/ op[Main].wr) /\ b = (obj[h].closed_rd \/ op[Main].rd)
    OBVIOUS
  <2>2. obj[h] \in HandleObject
    BY <1>2, <1>3, ObjField
  <2>3. PICK r : r = [obj[h] EXCEPT !.closed_wr = a, !.closed_rd = b]
    OBVIOUS
  <2>4. obj' = [obj EXCEPT ![h] = r]
    BY <1>1, <1>2, <1>3, <2>1, <2>2, <2>3 DEF MarkClosed, TypeOK, Types, HandleObject
  <2>5. obj'[h] = r /\ \A k \in Handle : k # h => obj'[k] = obj[k]
    BY <1>2, <1>3, <2>4, ObjUpdate
  <2>6. /\ r.fd = obj[h].fd /\ r.life = obj[h].life /\ r.counter = obj[h].counter
        /\ r.probed = obj[h].probed /\ r.closed_wr = a /\ r.closed_rd = b
    BY <2>2, <2>3 DEF HandleObject
  <2> QED BY <2>1, <2>5, <2>6
<1>6. ASSUME NEW k \in Handle, k # h PROVE Kept(k)
  <2>1. OpKept(k)
    BY <1>1, <1>4, <1>6, OpOther DEF Moved
  <2> QED BY <1>2, <1>5, <1>6, <2>1, SlotsSame, SameMgr, SameBacklog DEF Kept
<1>7. /\ Wrappers(h)' = Wrappers(h) /\ Readers(h)' = Readers(h)
      /\ InQueue(h)' <=> InQueue(h)
      /\ InBacklog(h)' <=> InBacklog(h)
      /\ Running' <=> Running
  BY <1>2, SlotsSame, SameMgr, SameBacklog
<1>8. /\ Busy(h) /\ Busy(h)' /\ ~ClosingRead(h)' /\ (ClosingRead(h) <=> op[Main].rd)
      /\ ~Dropping(h) /\ ~Dropping(h)' /\ ~Does(h, {"yield"}) /\ ~Does(h, {"yield"})'
      /\ Does(h, Finishing \union {"reap", "drop"})' /\ Does(h, Finishing)'
      /\ Does(h, {"notify", "notify_close", "forget"})' /\ Does(h, Ending \union {"drain"})'
      /\ ~Does(h, {"mark"})' /\ ((Does(h, {"mark"}) /\ op[Main].wr) <=> op[Main].wr)
  BY <1>1, <1>2, <1>4 DEF Moved, Busy, Does, ClosingRead, Dropping, Finishing, Ending
<1>c. /\ obj[h].life = "live"
      /\ op[Main].rd => op[Main].wr \/ obj[h].closed_wr \/ obj[h].probed = "eos"
  BY <1>2, <1>3 DEF CallAt
<1>9. LifeAt(h)'
  <2>1. LifeAt(h)
    BY <1>3 DEF HandleAt
  <2> QED BY <1>2, <1>5, <1>7, <1>8, <1>c, <2>1 DEF LifeAt
<1>10. TableAt(h)'
  BY <1>2, <1>3, <1>5, <1>7, <1>8 DEF TableAt, HandleAt, Registered
<1>11. CountAt(h)'
  BY <1>2, <1>3, <1>5, <1>7, <1>8 DEF CountAt, HandleAt, One
<1>12. OwnerAt(h)'
  BY <1>2, <1>3, <1>5, <1>7, <1>8 DEF OwnerAt, HandleAt, Away, One, Broken
<1>13. PeerAt(h)'
  BY <1>2, <1>3, <1>5, <1>7, PeerKept DEF HandleAt
<1>14. ThreadAt'
  <2>1. CallAt(op[Main], obj[h])'
    BY <1>1, <1>2, <1>3, <1>4, <1>5, <1>7 DEF CallAt, Moved, Ending, Finishing
  <2>2. PhaseAt("notify")'
    BY <1>2, <1>3 DEF PhaseAt, Ending, Finishing
  <2> QED BY <1>1, <1>4, <2>1, <2>2 DEF ThreadAt, Moved
<1> QED BY <1>2, <1>3, <1>6, <1>9, <1>10, <1>11, <1>12, <1>13, <1>14, StepWith, PlacesKept
        DEF HandleAt, OwnerInv

LEMMA ReadFlagsKeeps ==
  ASSUME OneThread, OwnerInv, ReadFlags(Main)
  PROVE  ThreadAt' /\ PlacesOK' /\ Handles'
<1>1. PICK h : h = op[Main].h
  OBVIOUS
<1>2. op[Main].pc = "notify" /\ UNCHANGED <<obj, tcp, io, mgr, slot, sock, wire, backlog>> /\ TypeOK
  BY DEF ReadFlags, At, OwnerInv
<1>3. h \in Handle /\ CallAt(op[Main], obj[h]) /\ HandleAt(h) /\ PhaseAt("notify")
  BY <1>1, <1>2, InCall
<1>4. /\ op'[Main].pc = "notify_close" /\ op'[Main].h = h /\ op'[Main].then = op[Main].then
      /\ op'[Main].wr = obj[h].closed_wr /\ op'[Main].rd = obj[h].closed_rd
  <2>1. PICK r : r = [op[Main] EXCEPT !.pc = "notify_close", !.wr = obj[h].closed_wr,
                                      !.rd = obj[h].closed_rd]
    OBVIOUS
  <2>2. op[Main] \in Activity /\ op \in [Thread -> Activity] /\ Main \in Thread
    BY <1>2, Fields, ThreadAssumption
  <2>3. op' = [op EXCEPT ![Main] = r]
    BY <1>1, <2>1, <2>2 DEF ReadFlags
  <2>4. op'[Main] = r
    BY <2>2, <2>3
  <2> QED BY <1>1, <2>1, <2>2, <2>4 DEF Activity
<1>6. ASSUME NEW k \in Handle, k # h PROVE Kept(k)
  <2>1. OpKept(k)
    BY <1>1, <1>4, <1>6, OpOther
  <2> QED BY <1>2, <1>6, <2>1, SlotsSame, SameMgr, SameBacklog DEF Kept
<1>7. /\ Wrappers(h)' = Wrappers(h) /\ Readers(h)' = Readers(h)
      /\ InQueue(h)' <=> InQueue(h)
      /\ InBacklog(h)' <=> InBacklog(h)
      /\ Running' <=> Running
  BY <1>2, SlotsSame, SameMgr, SameBacklog
<1>8. DoesSame(h)
  BY <1>1, <1>2, <1>4 DEF DoesSame, Busy, Does, ClosingRead, Dropping, Finishing, Ending
<1>9. LifeAt(h)' /\ CountAt(h)' /\ OwnerAt(h)' /\ PeerAt(h)'
  BY <1>2, <1>3, <1>7, <1>8, LifeKept, CountKept, OwnerKept, PeerKept DEF HandleAt, Broken
<1>10. TableAt(h)'
  BY <1>2, <1>3, <1>7, <1>8, ObjField, TableKept DEF HandleAt
<1>14. ThreadAt'
  <2>1. CallAt(op[Main], obj[h])'
    BY <1>1, <1>2, <1>3, <1>4, <1>7 DEF CallAt, Ending, Finishing
  <2>2. PhaseAt("notify_close")'
    BY <1>2, <1>3 DEF PhaseAt, Ending, Finishing
  <2> QED BY <1>4, <2>1, <2>2 DEF ThreadAt
<1> QED BY <1>2, <1>3, <1>6, <1>9, <1>10, <1>14, StepWith, PlacesKept DEF HandleAt, OwnerInv

(* notify_close never finds a connection gone from the table whose read    *)
(* side is open.                                                           *)
LEMMA NotifyCloseKeeps ==
  ASSUME OneThread, OwnerInv, NotifyClose(Main)
  PROVE  ThreadAt' /\ PlacesOK' /\ Handles'
<1>1. PICK h : h = op[Main].h
  OBVIOUS
<1>2. op[Main].pc = "notify_close" /\ UNCHANGED <<tcp, io, mgr, slot, wire, backlog>> /\ TypeOK
  BY DEF NotifyClose, At, OwnerInv
<1>3. h \in Handle /\ CallAt(op[Main], obj[h]) /\ HandleAt(h) /\ PhaseAt("notify_close")
  BY <1>1, <1>2, InCall
<1>c. /\ obj[h].life = "live" /\ op[Main].wr = obj[h].closed_wr /\ op[Main].rd = obj[h].closed_rd
      /\ h # NoHandle
  BY <1>2, <1>3, HandleAssumption DEF CallAt
<1>s. UNCHANGED <<obj, sock>>
  <2>1. ~(obj[h].fd # NoFd /\ ~op[Main].rd /\ tcp.connections[obj[h].fd] = NoHandle)
    BY <1>3, <1>c DEF HandleAt, TableAt, Registered
  <2> QED BY <1>1, <2>1 DEF NotifyClose
<1>4. PICK l : l = IF obj[h].fd # NoFd /\ op[Main].rd THEN "forget" ELSE "reap"
  OBVIOUS
<1>5. /\ op'[Main].pc = l /\ op'[Main].h = h /\ op'[Main].then = op[Main].then
      /\ op'[Main].wr = op[Main].wr /\ op'[Main].rd = op[Main].rd
      /\ op'[Main].fd = obj[h].fd
  <2>1. PICK r : r = [op[Main] EXCEPT !.fd = obj[h].fd, !.pc = l]
    OBVIOUS
  <2>2. op[Main] \in Activity /\ op \in [Thread -> Activity] /\ Main \in Thread
    BY <1>2, Fields, ThreadAssumption
  <2>3. op' = [op EXCEPT ![Main] = r]
    BY <1>1, <1>4, <2>1, <2>2 DEF NotifyClose
  <2>4. op'[Main] = r
    BY <2>2, <2>3
  <2> QED BY <1>1, <2>1, <2>2, <2>4 DEF Activity
<1>6. ASSUME NEW k \in Handle, k # h PROVE Kept(k)
  <2>1. OpKept(k)
    BY <1>1, <1>5, <1>6, OpOther
  <2> QED BY <1>2, <1>s, <1>6, <2>1, SlotsSame, SameMgr, SameBacklog DEF Kept
<1>7. /\ Wrappers(h)' = Wrappers(h) /\ Readers(h)' = Readers(h)
      /\ InQueue(h)' <=> InQueue(h)
      /\ InBacklog(h)' <=> InBacklog(h)
      /\ Running' <=> Running
  BY <1>2, SlotsSame, SameMgr, SameBacklog
<1>8. /\ Busy(h) /\ Busy(h)' /\ ~ClosingRead(h) /\ ~ClosingRead(h)'
      /\ ~Dropping(h) /\ ~Dropping(h)' /\ ~Does(h, {"yield"}) /\ ~Does(h, {"yield"})'
      /\ Does(h, Finishing \union {"reap", "drop"})' /\ (Does(h, Finishing)' <=> l = "forget")
      /\ (Does(h, {"notify", "notify_close", "forget"})' <=> l = "forget")
      /\ Does(h, Ending \union {"drain"})' /\ ~Does(h, {"mark"})' /\ ~Does(h, {"mark"})
  BY <1>1, <1>2, <1>4, <1>5 DEF Busy, Does, ClosingRead, Dropping, Finishing, Ending
<1>9. LifeAt(h)'
  BY <1>2, <1>3, <1>s, <1>7, <1>8, <1>c DEF LifeAt, HandleAt
<1>10. TableAt(h)'
  BY <1>2, <1>3, <1>4, <1>s, <1>7, <1>8, <1>c DEF TableAt, HandleAt, Registered
<1>11. CountAt(h)'
  BY <1>2, <1>3, <1>s, <1>7, <1>8 DEF CountAt, HandleAt, One
<1>12. OwnerAt(h)'
  BY <1>2, <1>3, <1>s, <1>7, <1>8 DEF OwnerAt, HandleAt, Away, One, Broken
<1>13. PeerAt(h)'
  BY <1>2, <1>3, <1>s, <1>7, PeerKept DEF HandleAt
<1>14. ThreadAt'
  <2>1. CallAt(op[Main], obj[h])'
    BY <1>1, <1>2, <1>3, <1>4, <1>s, <1>5, <1>7 DEF CallAt, Ending, Finishing
  <2>2. PhaseAt(l)'
    BY <1>2, <1>3, <1>4 DEF PhaseAt, Ending, Finishing
  <2>3. l # "idle"
    BY <1>4
  <2> QED BY <1>5, <2>1, <2>2, <2>3 DEF ThreadAt
<1> QED BY <1>2, <1>3, <1>s, <1>6, <1>9, <1>10, <1>11, <1>12, <1>13, <1>14, StepWith, PlacesKept
        DEF HandleAt, OwnerInv

(* Taking a descriptor out of the set leaves the rest of the table.        *)
LEMMA Cleared ==
  ASSUME TypeOK, NEW f, NEW c, c = FdClr(f)
  PROVE  /\ c.connections = tcp.connections /\ c.set = tcp.set \ {f}
         /\ c.listen_sck = tcp.listen_sck
<1>1. PICK a, b : c = [tcp EXCEPT !.set = a, !.fdmax = b] /\ a = tcp.set \ {f}
  BY DEF FdClr
<1> QED BY <1>1, Fields DEF TcpState

(* A connection that is being closed is not in the set.                    *)
LEMMA ForgetKeeps ==
  ASSUME OneThread, OwnerInv, Forget(Main)
  PROVE  ThreadAt' /\ PlacesOK' /\ Handles'
<1>1. PICK h : h = op[Main].h
  OBVIOUS
<1>2. op[Main].pc = "forget" /\ UNCHANGED <<obj, io, mgr, slot, sock, wire, backlog>> /\ TypeOK
  BY DEF Forget, At, OwnerInv
<1>3. h \in Handle /\ CallAt(op[Main], obj[h]) /\ HandleAt(h) /\ PhaseAt("forget") /\ h # NoHandle
  BY <1>1, <1>2, InCall
<1>c. PICK f \in FD : /\ f = op[Main].fd /\ f = obj[h].fd /\ f # NoFd /\ sock[f] = h
                      /\ obj[h].closed_rd /\ op[Main].wr = obj[h].closed_wr
                      /\ obj[h].life = "live"
  BY <1>2, <1>3, OpFields, Fields DEF CallAt, HandleAt, TableAt
<1>4. PICK l : l = IF obj[h].closed_wr THEN "closefd" ELSE "reap"
  OBVIOUS
<1>5. Moved(l)
  BY <1>2, <1>4, <1>c, OpMoves DEF Forget
<1>t. /\ tcp'.set = tcp.set \ {f} /\ tcp'.listen_sck = tcp.listen_sck
      /\ tcp'.connections[f] = NoHandle
      /\ \A g \in FD : g # f => tcp'.connections[g] = tcp.connections[g]
  <2>1. PICK c : c = FdClr(f)
    OBVIOUS
  <2>2. /\ c.connections = tcp.connections /\ c.set = tcp.set \ {f}
        /\ c.listen_sck = tcp.listen_sck /\ c \in TcpState
    BY <1>2, <2>1, Cleared, FdClrType, FdAssumption DEF TypeOK, Types
  <2>3. tcp' = [c EXCEPT !.connections[f] = NoHandle]
    BY <1>c, <2>1 DEF Forget
  <2> QED BY <2>2, <2>3, <1>2, Fields DEF TcpState
<1>o. \A k \in Handle : k # h => obj[k].fd # f /\ tcp.connections[f] # k
  <2>1. ASSUME NEW k \in Handle, k # h PROVE obj[k].fd # f /\ tcp.connections[f] # k
    <3>1. TableAt(k)
      BY DEF OwnerInv, Handles, HandleAt
    <3> QED BY <1>c, <2>1, <3>1 DEF TableAt
  <2> QED BY <2>1
<1>s. Running => f \notin tcp.set
  BY <1>3, <1>c DEF HandleAt, OwnerAt, Away, One
<1>6. ASSUME NEW k \in Handle, k # h PROVE Kept(k)
  <2>1. OpKept(k)
    BY <1>1, <1>5, <1>6, OpOther DEF Moved
  <2>2. \A g \in FD : tcp'.connections[g] = k <=> tcp.connections[g] = k
    BY <1>t, <1>o, <1>6, HandleAssumption
  <2>3. obj[k].fd \in tcp'.set <=> obj[k].fd \in tcp.set
    BY <1>t, <1>o, <1>6
  <2> QED BY <1>2, <1>6, <2>1, <2>2, <2>3, SlotsSame, SameMgr, SameBacklog DEF Kept
<1>7. /\ Wrappers(h)' = Wrappers(h) /\ Readers(h)' = Readers(h)
      /\ InQueue(h)' <=> InQueue(h)
      /\ InBacklog(h)' <=> InBacklog(h)
      /\ Running' <=> Running
  BY <1>2, SlotsSame, SameMgr, SameBacklog
<1>8. /\ Busy(h) /\ Busy(h)' /\ ~ClosingRead(h) /\ ~ClosingRead(h)'
      /\ ~Dropping(h) /\ ~Dropping(h)' /\ ~Does(h, {"yield"}) /\ ~Does(h, {"yield"})'
      /\ Does(h, Finishing \union {"reap", "drop"})' /\ (Does(h, Finishing)' <=> l = "closefd")
      /\ Does(h, Ending \union {"drain"})' /\ ~Does(h, {"mark"})' /\ ~Does(h, {"mark"})
  BY <1>1, <1>2, <1>4, <1>5 DEF Moved, Busy, Does, ClosingRead, Dropping, Finishing, Ending
<1>9. LifeAt(h)'
  BY <1>2, <1>3, <1>7, <1>8, <1>c DEF LifeAt, HandleAt
<1>10. TableAt(h)'
  <2>1. ~Registered(h)'
    BY <1>2, <1>3, <1>c, <1>t DEF Registered
  <2> QED BY <1>2, <1>3, <1>4, <1>7, <1>8, <1>c, <1>t, <2>1 DEF TableAt, HandleAt
<1>11. CountAt(h)'
  BY <1>2, <1>3, <1>7, <1>8 DEF CountAt, HandleAt, One
<1>12. OwnerAt(h)'
  BY <1>2, <1>3, <1>7, <1>8, <1>t, <1>s, <1>c DEF OwnerAt, HandleAt, Away, One, Broken
<1>13. PeerAt(h)'
  BY <1>2, <1>3, <1>7, PeerKept DEF HandleAt
<1>14. ThreadAt'
  <2>1. CallAt(op[Main], obj[h])'
    BY <1>1, <1>2, <1>3, <1>4, <1>5, <1>7, <1>c, <1>t DEF CallAt, Moved, Ending, Finishing
  <2>2. ASSUME NEW g \in mgr.todo PROVE tcp'.connections[g[1]] = g[2]
    <3>1. g[1] \in FD /\ g[2] \in Handle /\ tcp.connections[g[1]] = g[2] /\ g[2] # h
      BY <1>1, <1>2, <1>3, Fields DEF PhaseAt, CallAt
    <3>2. g[1] # f
      BY <1>o, <3>1
    <3> QED BY <1>t, <3>1, <3>2
  <2>3. PhaseAt(l)'
    BY <1>2, <1>3, <1>4, <2>2 DEF PhaseAt, Ending, Finishing
  <2>4. l # "idle"
    BY <1>4
  <2>5. PhaseAt(op[Main].pc)'
    BY <1>5, <2>3 DEF Moved, PhaseAt
  <2> QED BY <1>1, <1>5, <2>1, <2>4, <2>5 DEF ThreadAt, Moved
<1>15. PlacesOK'
  BY <1>2, <1>7, <1>t, <1>s DEF PlacesOK, OwnerInv
<1> QED BY <1>3, <1>6, <1>9, <1>10, <1>11, <1>12, <1>13, <1>14, <1>15, StepWith
        DEF HandleAt, OwnerInv

LEMMA CloseFdKeeps ==
  ASSUME OneThread, OwnerInv, CloseFd(Main)
  PROVE  ThreadAt' /\ PlacesOK' /\ Handles'
<1>1. PICK h : h = op[Main].h
  OBVIOUS
<1>2. op[Main].pc = "closefd" /\ UNCHANGED <<tcp, io, mgr, slot, wire, backlog>> /\ TypeOK
  BY DEF CloseFd, At, OwnerInv
<1>3. h \in Handle /\ CallAt(op[Main], obj[h]) /\ HandleAt(h) /\ PhaseAt("closefd") /\ h # NoHandle
  BY <1>1, <1>2, InCall
<1>c. PICK f \in FD : /\ f = op[Main].fd /\ f = obj[h].fd /\ f # NoFd /\ sock[f] = h
                      /\ obj[h].closed_rd /\ obj[h].closed_wr /\ tcp.connections[f] # h
                      /\ obj[h].life = "live"
  BY <1>1, <1>2, <1>3, OpFields, Fields DEF CallAt, HandleAt, TableAt
<1>4. Moved("reap")
  BY <1>2, OpMoves DEF CloseFd
<1>5. /\ obj'[h].fd = NoFd /\ obj'[h].life = obj[h].life
      /\ obj'[h].counter = obj[h].counter /\ obj'[h].probed = obj[h].probed
      /\ obj'[h].closed_wr = obj[h].closed_wr /\ obj'[h].closed_rd = obj[h].closed_rd
      /\ \A k \in Handle : k # h => obj'[k] = obj[k]
  <2>1. obj[h] \in HandleObject
    BY <1>2, <1>3, ObjField
  <2>2. PICK r : r = [obj[h] EXCEPT !.fd = NoFd]
    OBVIOUS
  <2>3. obj' = [obj EXCEPT ![h] = r]
    BY <1>1, <1>2, <1>3, <2>1, <2>2 DEF CloseFd, DropFd, TypeOK, Types
  <2>4. obj'[h] = r /\ \A k \in Handle : k # h => obj'[k] = obj[k]
    BY <1>2, <1>3, <2>3, ObjUpdate
  <2> QED BY <2>1, <2>2, <2>4 DEF HandleObject
<1>t. sock'[f] = NoHandle /\ \A g \in FD : g # f => sock'[g] = sock[g]
  BY <1>2, <1>c, Fields DEF CloseFd
<1>s. Running => f \notin tcp.set
  BY <1>3, <1>c DEF HandleAt, OwnerAt, Away, One
<1>6. ASSUME NEW k \in Handle, k # h PROVE Kept(k)
  <2>1. OpKept(k)
    BY <1>1, <1>4, <1>6, OpOther DEF Moved
  <2>2. \A g \in FD : sock'[g] = k <=> sock[g] = k
    BY <1>t, <1>c, <1>6, HandleAssumption
  <2> QED BY <1>2, <1>5, <1>6, <2>1, <2>2, SlotsSame, SameMgr, SameBacklog DEF Kept
<1>7. /\ Wrappers(h)' = Wrappers(h) /\ Readers(h)' = Readers(h)
      /\ InQueue(h)' <=> InQueue(h)
      /\ InBacklog(h)' <=> InBacklog(h)
      /\ Running' <=> Running
  BY <1>2, SlotsSame, SameMgr, SameBacklog
<1>8. /\ Busy(h) /\ Busy(h)' /\ ~ClosingRead(h) /\ ~ClosingRead(h)'
      /\ ~Dropping(h) /\ ~Dropping(h)' /\ ~Does(h, {"yield"}) /\ ~Does(h, {"yield"})'
      /\ Does(h, Finishing \union {"reap", "drop"})'
      /\ ~Does(h, {"mark"})' /\ ~Does(h, {"mark"})
  BY <1>1, <1>2, <1>4 DEF Moved, Busy, Does, ClosingRead, Dropping, Finishing, Ending
<1>9. LifeAt(h)'
  BY <1>2, <1>3, <1>5, <1>7, <1>8, <1>c DEF LifeAt, HandleAt
<1>10. TableAt(h)'
  <2>1. \A g \in FD : ~(sock'[g] = h \/ tcp'.connections[g] = h)
    BY <1>2, <1>3, <1>c, <1>t DEF HandleAt, TableAt
  <2> QED BY <1>5, <1>c, <2>1 DEF TableAt, Registered
<1>11. CountAt(h)'
  BY <1>2, <1>3, <1>5, <1>7, <1>8 DEF CountAt, HandleAt, One
<1>12. OwnerAt(h)'
  BY <1>2, <1>3, <1>5, <1>7, <1>8, <1>s, <1>c, Fields DEF OwnerAt, HandleAt, Away, One, Broken
<1>13. PeerAt(h)'
  BY <1>2, <1>3, <1>5, <1>7, PeerKept DEF HandleAt
<1>14. ThreadAt'
  <2>1. CallAt(op[Main], obj[h])'
    BY <1>1, <1>2, <1>3, <1>4, <1>5, <1>7, <1>c DEF CallAt, Moved, Ending, Finishing
  <2>2. PhaseAt("reap")'
    BY <1>2, <1>3 DEF PhaseAt, Ending, Finishing
  <2> QED BY <1>1, <1>4, <2>1, <2>2 DEF ThreadAt, Moved
<1>15. PlacesOK'
  <2>1. PlacesOK /\ tcp.set \subseteq FD /\ (tcp.listen_sck # NoFd => tcp.listen_sck \in FD)
    BY <1>2, Fields DEF OwnerInv, MaybeFd
  <2> QED BY <1>2, <1>7, <1>t, <1>s, <2>1 DEF PlacesOK
<1> QED BY <1>3, <1>6, <1>9, <1>10, <1>11, <1>12, <1>13, <1>14, <1>15, StepWith
        DEF HandleAt, OwnerInv

(* A Handle is deleted when nothing can refer to it any more.              *)
LEMMA ReapKeeps ==
  ASSUME OneThread, OwnerInv, Reap(Main)
  PROVE  ThreadAt' /\ PlacesOK' /\ Handles'
<1>1. PICK h : h = op[Main].h
  OBVIOUS
<1>2. /\ op[Main].pc \in {"reap", "drop"}
      /\ UNCHANGED <<tcp, io, mgr, slot, sock, wire, backlog>> /\ TypeOK
  BY DEF Reap, At, OwnerInv
<1>3. /\ h \in Handle /\ CallAt(op[Main], obj[h]) /\ HandleAt(h) /\ PhaseAt(op[Main].pc)
      /\ h # NoHandle
  BY <1>1, <1>2, InCall
<1>4. PICK l : l = IF op[Main].pc = "drop" THEN "idle" ELSE op[Main].then
  OBVIOUS
<1>5. /\ op'[Main].pc = l /\ (l = "idle" => op'[Main].h = NoHandle)
      /\ l # "idle" => Moved(l)
  BY <1>2, <1>4, OpMoves DEF Reap, At, Idled, Moved
<1>l. /\ Running => l = "idle"
      /\ ~Running => l \in {"next", "drain", "idle"}
      /\ l = "drain" => ~obj[h].closed_rd /\ ~Unreferenced(h)
      /\ l # "idle" => op[Main].pc = "reap" /\ l = op[Main].then
  BY <1>2, <1>3, <1>4 DEF CallAt, Ending, Unreferenced
<1>o. /\ obj'[h].fd = obj[h].fd /\ obj'[h].counter = obj[h].counter
      /\ obj'[h].probed = obj[h].probed
      /\ obj'[h].closed_wr = obj[h].closed_wr /\ obj'[h].closed_rd = obj[h].closed_rd
      /\ obj'[h].life = IF Unreferenced(h) THEN "freed" ELSE "live"
      /\ \A k \in Handle : k # h => obj'[k] = obj[k]
  <2>1. obj[h].life = "live" /\ obj[h] \in HandleObject
    BY <1>2, <1>3, ObjField DEF CallAt
  <2>2. CASE ~Unreferenced(h)
    <3>1. obj' = obj
      BY <1>1, <2>2 DEF Reap
    <3> QED BY <2>1, <2>2, <3>1
  <2>3. CASE Unreferenced(h)
    <3>1. PICK r : r = [obj[h] EXCEPT !.life = "freed"]
      OBVIOUS
    <3>2. obj' = [obj EXCEPT ![h] = r]
      BY <1>1, <1>2, <1>3, <2>1, <2>3, <3>1 DEF Reap, TypeOK, Types
    <3>3. obj'[h] = r /\ \A k \in Handle : k # h => obj'[k] = obj[k]
      BY <1>2, <1>3, <3>2, ObjUpdate
    <3> QED BY <2>1, <2>3, <3>1, <3>3 DEF HandleObject
  <2> QED BY <2>2, <2>3
<1>u. Unreferenced(h) <=> obj[h].counter = 0 /\ obj[h].closed_rd /\ obj[h].closed_wr
  BY DEF Unreferenced
<1>6. ASSUME NEW k \in Handle, k # h PROVE Kept(k)
  <2>1. OpKept(k)
    BY <1>1, <1>5, <1>6, OpOther DEF Moved
  <2> QED BY <1>2, <1>o, <1>6, <2>1, SlotsSame, SameMgr, SameBacklog DEF Kept
<1>7. /\ Wrappers(h)' = Wrappers(h) /\ Readers(h)' = Readers(h)
      /\ InQueue(h)' <=> InQueue(h)
      /\ InBacklog(h)' <=> InBacklog(h)
      /\ Running' <=> Running
  BY <1>2, SlotsSame, SameMgr, SameBacklog
<1>8. /\ Busy(h) /\ (Busy(h)' <=> l = "drain") /\ ~ClosingRead(h) /\ ~ClosingRead(h)'
      /\ ~Dropping(h) /\ ~Dropping(h)' /\ ~Does(h, {"yield"}) /\ ~Does(h, {"yield"})'
      /\ ~Does(h, Finishing) /\ (l = "drain" => Does(h, Ending \union {"drain"})')
      /\ ~Does(h, {"mark"})' /\ ~Does(h, {"mark"})
      /\ ~Does(h, {"notify", "notify_close", "forget"})
  <2>1. l \in {"idle", "next", "drain"}
    BY <1>l
  <2> QED BY <1>1, <1>2, <1>3, <1>4, <1>5, <2>1
        DEF Moved, Busy, Does, ClosingRead, Dropping, Finishing, Ending
<1>c. /\ obj[h].life = "live" /\ (obj[h].closed_rd /\ obj[h].closed_wr => obj[h].fd = NoFd)
      /\ obj[h].closed_rd => ~Registered(h)
  BY <1>3, <1>8 DEF CallAt, HandleAt, TableAt
<1>w. Unreferenced(h) => Wrappers(h) = {} /\ ~InQueue(h)
  <2>1. ASSUME Unreferenced(h) PROVE Cardinality(Wrappers(h)) = 0 /\ ~InQueue(h)
    <3>1. /\ IsFiniteSet(Wrappers(h)) /\ obj[h].counter = 0
          /\ obj[h].counter = Cardinality(Wrappers(h)) + One(InQueue(h)) + One(Dropping(h))
      BY <1>3, <2>1 DEF Unreferenced, HandleAt, CountAt
    <3>2. Cardinality(Wrappers(h)) \in Nat
      BY <3>1, FS_CardinalityType
    <3> QED BY <3>1, <3>2 DEF One
  <2>2. IsFiniteSet(Wrappers(h))
    BY <1>3 DEF HandleAt, CountAt
  <2> QED BY <2>1, <2>2, FS_EmptySet
<1>x. Unreferenced(h) => io.h # h /\ (Running => h \notin mgr.groupsReady)
  <2>1. Unreferenced(h) /\ Running => Away(h) = 0
    BY <1>3 DEF HandleAt, OwnerAt, Unreferenced
  <2>2. ~Running => io.h # h
    BY <1>3 DEF OwnerInv, PlacesOK
  <2> QED BY <2>1, <2>2 DEF Away, One
<1>9. LifeAt(h)'
  BY <1>2, <1>3, <1>o, <1>u, <1>7, <1>8, <1>c, <1>w, <1>x, <1>l DEF LifeAt, HandleAt, Unreachable
<1>10. TableAt(h)'
  <2>1. Registered(h) => ~obj[h].closed_rd
    BY <1>c
  <2>2. Registered(h) /\ Does(h, Ending \union {"drain"}) => l = "drain" \/ Running
    BY <1>1, <1>2, <1>3, <1>4, <1>c DEF CallAt, Does, Ending, Finishing
  <2> QED BY <1>2, <1>3, <1>o, <1>u, <1>7, <1>8, <1>c, <2>1, <2>2 DEF TableAt, HandleAt, Registered
<1>11. CountAt(h)'
  BY <1>2, <1>3, <1>o, <1>7, <1>8 DEF CountAt, HandleAt, One
<1>12. OwnerAt(h)'
  BY <1>2, <1>3, <1>o, <1>u, <1>7, <1>8, <1>c DEF OwnerAt, HandleAt, Away, One, Broken
<1>13. PeerAt(h)'
  BY <1>2, <1>3, <1>o, <1>u, <1>7, <1>c DEF HandleAt, PeerAt, Greets, Broken
<1>14. ThreadAt'
  <2>1. l = "drain" => CallAt(op[Main], obj[h])'
    BY <1>1, <1>2, <1>3, <1>5, <1>7, <1>l, <1>o, <1>c DEF CallAt, Moved, Ending, Finishing
  <2>2. PhaseAt(l)'
    BY <1>2, <1>3, <1>4, <1>l DEF PhaseAt, Ending, Finishing, CallAt, Running
  <2>3. PhaseAt(op[Main].pc)'
    BY <1>5, <2>2 DEF PhaseAt
  <2>4. l \in {"idle", "next", "drain"}
    BY <1>l
  <2> QED BY <1>1, <1>5, <2>1, <2>3, <2>4 DEF ThreadAt, Moved
<1>15. PlacesOK'
  BY <1>2, PlacesKept DEF OwnerInv
<1> QED BY <1>3, <1>6, <1>9, <1>10, <1>11, <1>12, <1>13, <1>14, <1>15, StepWith
        DEF HandleAt, OwnerInv

(* A connection on its way back is in the set when the yield is done.      *)
LEMMA NotifyYieldKeeps ==
  ASSUME OneThread, OwnerInv, NotifyYield(Main)
  PROVE  ThreadAt' /\ PlacesOK' /\ Handles'
<1>1. PICK h : h = op[Main].h
  OBVIOUS
<1>2. /\ op[Main].pc = "yield" /\ UNCHANGED <<obj, io, mgr, slot, sock, wire, backlog>>
      /\ TypeOK
  BY DEF NotifyYield, At, OwnerInv
<1>3. h \in Handle /\ CallAt(op[Main], obj[h]) /\ HandleAt(h) /\ PhaseAt("yield") /\ h # NoHandle
  BY <1>1, <1>2, InCall
<1>c. PICK f \in FD : /\ f = op[Main].fd /\ f = obj[h].fd /\ f # NoFd /\ sock[f] = h
                      /\ ~obj[h].closed_rd /\ obj[h].life = "live"
  BY <1>1, <1>2, <1>3, OpFields, Fields DEF CallAt, HandleAt, TableAt
<1>4. PICK l : l = op[Main].then
  OBVIOUS
<1>l. l \in {"idle", "decr"}
  BY <1>2, <1>3, <1>4 DEF CallAt
<1>5. op'[Main].pc = l /\ (l = "idle" => op'[Main].h = NoHandle) /\ (l # "idle" => Moved(l))
  BY <1>2, <1>4, OpMoves DEF NotifyYield, Idled, Moved
<1>t. /\ tcp'.set = tcp.set \union {f} /\ tcp'.listen_sck = tcp.listen_sck
      /\ tcp'.connections = tcp.connections
  <2>1. PICK a, b : tcp' = [tcp EXCEPT !.set = a, !.fdmax = b] /\ a = tcp.set \union {f}
    BY <1>1, <1>c DEF NotifyYield
  <2> QED BY <1>2, <2>1, Fields DEF TcpState
<1>6. ASSUME NEW k \in Handle, k # h PROVE Kept(k)
  <2>1. OpKept(k)
    BY <1>1, <1>5, <1>6, OpOther DEF Moved
  <2>2. TableAt(k)
    BY DEF OwnerInv, Handles, HandleAt
  <2>3. obj[k].fd # f
    BY <1>c, <1>6, <2>2 DEF TableAt
  <2>4. obj[k].fd \in tcp'.set <=> obj[k].fd \in tcp.set
    BY <1>t, <2>3
  <2> QED BY <1>2, <1>t, <1>6, <2>1, <2>4, SlotsSame, SameMgr, SameBacklog DEF Kept
<1>7. /\ Wrappers(h)' = Wrappers(h) /\ Readers(h)' = Readers(h)
      /\ InQueue(h)' <=> InQueue(h)
      /\ InBacklog(h)' <=> InBacklog(h)
      /\ Running' <=> Running
  BY <1>2, SlotsSame, SameMgr, SameBacklog
<1>8. /\ Busy(h) /\ (Busy(h)' => l = "decr") /\ ~ClosingRead(h) /\ ~ClosingRead(h)'
      /\ (Dropping(h)' <=> Dropping(h)) /\ Does(h, {"yield"}) /\ ~Does(h, {"yield"})'
      /\ ~Does(h, Ending \union {"drain"}) /\ ~Does(h, {"mark"})' /\ ~Does(h, {"mark"})
  BY <1>1, <1>2, <1>3, <1>4, <1>5, <1>l
     DEF Moved, Busy, Does, ClosingRead, Dropping, Finishing, Ending
<1>9. LifeAt(h)'
  BY <1>2, <1>3, <1>7, <1>8, <1>c DEF LifeAt, HandleAt
<1>10. TableAt(h)'
  BY <1>2, <1>3, <1>7, <1>8, <1>c, <1>t DEF TableAt, HandleAt, Registered
<1>11. CountAt(h)'
  BY <1>2, <1>3, <1>7, <1>8 DEF CountAt, HandleAt, One
<1>12. OwnerAt(h)'
  BY <1>2, <1>3, <1>7, <1>8, <1>t, <1>c DEF OwnerAt, HandleAt, Away, One
<1>13. PeerAt(h)'
  BY <1>2, <1>3, <1>7, PeerKept DEF HandleAt
<1>14. ThreadAt'
  <2>1. l = "decr" => CallAt(op[Main], obj[h])'
    BY <1>1, <1>2, <1>3, <1>4, <1>5, <1>7 DEF CallAt, Moved, Ending, Finishing
  <2>2. PhaseAt(l)'
    BY <1>2, <1>3, <1>l, <1>t, <1>7 DEF PhaseAt, Ending, Finishing, CallAt, Running
  <2>3. PhaseAt(op[Main].pc)'
    BY <1>5, <2>2 DEF PhaseAt
  <2> QED BY <1>1, <1>5, <1>l, <2>1, <2>3 DEF ThreadAt, Moved
<1>15. PlacesOK'
  BY <1>2, <1>3, <1>7, <1>t, <1>c DEF PlacesOK, OwnerInv
<1> QED BY <1>3, <1>6, <1>9, <1>10, <1>11, <1>12, <1>13, <1>14, <1>15, StepWith
        DEF HandleAt, OwnerInv

(* The reference that is given up was counted.                             *)
LEMMA DecrementKeeps ==
  ASSUME OneThread, OwnerInv, Decrement(Main)
  PROVE  ThreadAt' /\ PlacesOK' /\ Handles'
<1>1. PICK h : h = op[Main].h
  OBVIOUS
<1>2. op[Main].pc = "decr" /\ UNCHANGED <<tcp, io, mgr, slot, sock, wire, backlog>> /\ TypeOK
  BY DEF Decrement, At, OwnerInv
<1>3. h \in Handle /\ CallAt(op[Main], obj[h]) /\ HandleAt(h) /\ PhaseAt("decr")
  BY <1>1, <1>2, InCall
<1>4. Moved("drop")
  BY <1>2, OpMoves DEF Decrement
<1>c. obj[h].life = "live" /\ op[Main].then = "decr"
  BY <1>2, <1>3 DEF CallAt
<1>5. /\ obj'[h].counter = obj[h].counter - 1 /\ obj'[h].fd = obj[h].fd
      /\ obj'[h].life = obj[h].life /\ obj'[h].probed = obj[h].probed
      /\ obj'[h].closed_wr = obj[h].closed_wr /\ obj'[h].closed_rd = obj[h].closed_rd
      /\ \A k \in Handle : k # h => obj'[k] = obj[k]
  <2>1. obj[h] \in HandleObject
    BY <1>2, <1>3, ObjField
  <2>2. PICK r : r = [obj[h] EXCEPT !.counter = obj[h].counter - 1]
    OBVIOUS
  <2>3. obj' = [obj EXCEPT ![h] = r]
    BY <1>1, <1>2, <1>3, <2>1, <2>2 DEF Decrement, ReleaseReference, TypeOK, Types
  <2>4. obj'[h] = r /\ \A k \in Handle : k # h => obj'[k] = obj[k]
    BY <1>2, <1>3, <2>3, ObjUpdate
  <2> QED BY <2>1, <2>2, <2>4 DEF HandleObject
<1>6. ASSUME NEW k \in Handle, k # h PROVE Kept(k)
  <2>1. OpKept(k)
    BY <1>1, <1>4, <1>6, OpOther DEF Moved
  <2> QED BY <1>2, <1>5, <1>6, <2>1, SlotsSame, SameMgr, SameBacklog DEF Kept
<1>7. /\ Wrappers(h)' = Wrappers(h) /\ Readers(h)' = Readers(h)
      /\ InQueue(h)' <=> InQueue(h)
      /\ InBacklog(h)' <=> InBacklog(h)
      /\ Running' <=> Running
  BY <1>2, SlotsSame, SameMgr, SameBacklog
<1>8. /\ Busy(h) /\ Busy(h)' /\ ~ClosingRead(h) /\ ~ClosingRead(h)'
      /\ Dropping(h) /\ ~Dropping(h)' /\ ~Does(h, {"yield"}) /\ ~Does(h, {"yield"})'
      /\ Does(h, Finishing \union {"reap", "drop"})' /\ ~Does(h, Ending \union {"drain"})
      /\ ~Does(h, Finishing) /\ ~Does(h, {"notify", "notify_close", "forget"})
      /\ ~Does(h, {"mark"})' /\ ~Does(h, {"mark"})
  BY <1>1, <1>2, <1>4, <1>c DEF Moved, Busy, Does, ClosingRead, Dropping, Finishing, Ending
<1>r. obj[h].counter \in Nat /\ obj[h].counter # 0
      /\ obj[h].counter = Cardinality(Wrappers(h)) + One(InQueue(h)) + 1
  <2>1. /\ IsFiniteSet(Wrappers(h))
        /\ obj[h].counter = Cardinality(Wrappers(h)) + One(InQueue(h)) + One(Dropping(h))
    BY <1>3 DEF HandleAt, CountAt
  <2>2. Cardinality(Wrappers(h)) \in Nat
    BY <2>1, FS_CardinalityType
  <2> QED BY <1>8, <2>1, <2>2 DEF One
<1>9. LifeAt(h)'
  BY <1>2, <1>3, <1>5, <1>7, <1>8, <1>c DEF LifeAt, HandleAt
<1>10. TableAt(h)'
  BY <1>2, <1>3, <1>5, <1>7, <1>8, <1>c DEF TableAt, HandleAt, Registered
<1>11. CountAt(h)'
  <2>1. IsFiniteSet(Wrappers(h)) /\ Cardinality(Wrappers(h)) \in Nat
    BY <1>3, FS_CardinalityType DEF HandleAt, CountAt
  <2> QED BY <1>5, <1>7, <1>8, <1>r, <2>1 DEF CountAt, One
<1>12. OwnerAt(h)'
  BY <1>2, <1>3, <1>5, <1>7, <1>8, <1>r DEF OwnerAt, HandleAt, Away, One
<1>13. PeerAt(h)'
  BY <1>2, <1>3, <1>5, <1>7, <1>r DEF HandleAt, PeerAt, Greets, Broken
<1>14. ThreadAt'
  <2>1. CallAt(op[Main], obj[h])'
    BY <1>1, <1>2, <1>3, <1>4, <1>5, <1>7 DEF CallAt, Moved, Ending, Finishing
  <2>2. PhaseAt("drop")'
    BY <1>2, <1>3 DEF PhaseAt, Ending, Finishing
  <2> QED BY <1>1, <1>4, <2>1, <2>2 DEF ThreadAt, Moved
<1> QED BY <1>2, <1>3, <1>6, <1>9, <1>10, <1>11, <1>12, <1>13, <1>14, StepWith, PlacesKept
        DEF HandleAt, OwnerInv

-----------------------------------------------------------------------------
(***************************************************************************)
(* The calls of the program.                                               *)
(***************************************************************************)
(* An idle thread is busy with no connection.                              *)
LEMMA AtRest ==
  ASSUME OwnerInv, op[Main].pc = "idle"
  PROVE  /\ PhaseAt("idle") /\ \A k \in Handle : op[Main].h # k
         /\ TypeOK /\ PlacesOK
         /\ \A k \in Handle : HandleAt(k)
BY HandleAssumption DEF OwnerInv, ThreadAt, Handles

(* The connection of a HandleUser is live, and one that may be read from   *)
(* is nowhere else.                                                        *)
LEMMA Held ==
  ASSUME OneThread, OwnerInv, NEW s \in Slot, NEW h \in Handle, Holds(Main, s, h)
  PROVE  /\ <<Main, s>> \in Wrappers(h) /\ obj[h].life = "live" /\ ~InBacklog(h)
         /\ obj[h].counter \in Int
         /\ <<Main, s>> \in Readers(h) <=> slot[Main][s].readable
         /\ Running /\ slot[Main][s].readable =>
              Away(h) = 0 /\ \A w \in Readers(h) : w = <<Main, s>>
<1>1. HandleAt(h) /\ obj[h] \in HandleObject
  BY ObjField DEF OwnerInv, Handles
<1>2. /\ <<Main, s>> \in Wrappers(h)
      /\ <<Main, s>> \in Readers(h) <=> slot[Main][s].readable
  BY WrapperIs DEF Holds
<1>3. obj[h].life = "live"
  BY <1>1, <1>2 DEF HandleAt, LifeAt, Unreachable, HandleObject, Life
<1>4. ~InBacklog(h)
  BY <1>1, <1>3 DEF HandleAt, PeerAt
<1>5. Running /\ slot[Main][s].readable =>
        Away(h) = 0 /\ \A w \in Readers(h) : w = <<Main, s>>
  BY <1>1, <1>2 DEF HandleAt, OwnerAt
<1> QED BY <1>1, <1>2, <1>3, <1>4, <1>5 DEF HandleObject

(* A frame is read: what stays in the stream was there, or is the end.     *)
LEMMA Consumed ==
  ASSUME TypeOK, NEW h \in Handle, wire[h].in # <<>>, wire' = Consume(h)
  PROVE  /\ wire'[h].peer = wire[h].peer /\ wire'[h].out = wire[h].out
         /\ wire'[h].in = IF Head(wire[h].in) \in {"fin", "rst"} THEN <<"fin">>
                          ELSE Tail(wire[h].in)
         /\ InSeq(wire[h].in, Head(wire[h].in)) /\ Head(wire[h].in) = wire[h].in[1]
         /\ InSeq(wire'[h].in, "fin") => InSeq(wire[h].in, "fin") \/ InSeq(wire[h].in, "rst")
         /\ InSeq(wire'[h].in, "rst") => InSeq(wire[h].in, "rst")
         /\ \A k \in Handle : k # h => wire'[k] = wire[k]
<1>1. wire[h] \in Stream /\ wire \in [Handle -> Stream] /\ wire[h].in \in Seq(Frame)
  BY DEF TypeOK, Types, Stream
<1>2. PICK q : q = IF Head(wire[h].in) \in {"fin", "rst"} THEN <<"fin">> ELSE Tail(wire[h].in)
  OBVIOUS
<1>3. wire' = [wire EXCEPT ![h] = [wire[h] EXCEPT !.in = q]]
  BY <1>1, <1>2 DEF Consume
<1>4. wire'[h] = [wire[h] EXCEPT !.in = q] /\ \A k \in Handle : k # h => wire'[k] = wire[k]
  BY <1>1, <1>3
<1>5. wire'[h].in = q /\ wire'[h].peer = wire[h].peer /\ wire'[h].out = wire[h].out
  BY <1>1, <1>4 DEF Stream
<1>6. InSeq(wire[h].in, Head(wire[h].in)) /\ Head(wire[h].in) = wire[h].in[1]
  BY <1>1, TailIn
<1>7. CASE Head(wire[h].in) \in {"fin", "rst"}
  <2>1. \A x : InSeq(q, x) => x = "fin"
    BY <1>2, <1>7 DEF InSeq
  <2>2. InSeq(wire[h].in, "fin") \/ InSeq(wire[h].in, "rst")
    BY <1>6, <1>7
  <2> QED BY <1>2, <1>4, <1>5, <1>6, <2>1, <2>2
<1>8. CASE Head(wire[h].in) \notin {"fin", "rst"}
  <2>1. PICK i : i = wire[h].in
    OBVIOUS
  <2>2. i \in Seq(Frame) /\ i # <<>> /\ q = Tail(i)
    BY <1>1, <1>2, <1>8, <2>1
  <2>3. \A x : InSeq(q, x) => InSeq(i, x)
    BY <2>2, TailIn
  <2> QED BY <1>2, <1>4, <1>5, <1>6, <2>1, <2>3
<1> QED BY <1>7, <1>8

LEMMA UnchangedKeeps ==
  ASSUME OwnerInv, UNCHANGED vars
  PROVE  ThreadAt' /\ PlacesOK' /\ Handles'
<1>1. UNCHANGED <<obj, tcp, io, mgr, slot, op, sock, wire, backlog>>
  BY DEF vars
<1>2. ASSUME NEW k \in Handle PROVE HandleAt(k)'
  <2>1. OpKept(k)
    BY <1>1 DEF OpKept
  <2>2. Kept(k)
    BY <1>1, <2>1, SlotsSame, SameMgr, SameBacklog DEF Kept
  <2> QED BY <2>2, HandleKept DEF OwnerInv, Handles
<1>3. ThreadAt'
  BY <1>1 DEF OwnerInv, ThreadAt, CallAt, PhaseAt, Running
<1> QED BY <1>1, <1>2, <1>3, PlacesKept DEF Handles, OwnerInv

(* Nothing is written after EOS.                                           *)
LEMMA SendKeeps ==
  ASSUME OneThread, OwnerInv, NEW s \in Slot, Send(Main, s)
  PROVE  ThreadAt' /\ PlacesOK' /\ Handles'
<1>1. PICK h \in Handle : /\ Idle(Main) /\ Holds(Main, s, h) /\ ~obj[h].closed_wr
                          /\ wire' = Write(h, FALSE)
                          /\ UNCHANGED <<obj, tcp, io, mgr, slot, op, sock, backlog>>
  BY DEF Send
<1>2. /\ op[Main].pc = "idle" /\ PhaseAt("idle") /\ HandleAt(h)
      /\ TypeOK /\ PlacesOK /\ \A k \in Handle : op[Main].h # k
  BY <1>1, AtRest DEF Idle, At
<1>3. wire[h].out = "open" /\ wire[h].in \in Seq(Frame)
  <2>1. wire[h] \in Stream /\ wire[h].out # "late"
    BY <1>2 DEF TypeOK, Types, HandleAt, LifeAt
  <2>2. wire[h].out # "eos"
    BY <1>1, <1>2 DEF HandleAt, LifeAt, Does
  <2> QED BY <2>1, <2>2 DEF Stream
<1>w. /\ wire'[h].peer = wire[h].peer /\ wire'[h].out = wire[h].out
      /\ wire'[h].in = ErrorTaken(wire[h].in)
      /\ \A k \in Handle : k # h => wire'[k] = wire[k]
  BY <1>1, <1>2, <1>3, Written
<1>6. ASSUME NEW k \in Handle, k # h PROVE Kept(k)
  <2>1. OpKept(k)
    BY <1>1, <1>2, OpOther
  <2> QED BY <1>1, <1>w, <1>6, <2>1, SlotsSame, SameMgr, SameBacklog DEF Kept
<1>7. /\ Wrappers(h)' = Wrappers(h) /\ Readers(h)' = Readers(h)
      /\ InQueue(h)' <=> InQueue(h)
      /\ InBacklog(h)' <=> InBacklog(h)
      /\ Running' <=> Running
  BY <1>1, SlotsSame, SameMgr, SameBacklog
<1>8. DoesSame(h)
  BY <1>1, <1>2, OpOther, DoesKept
<1>9. LifeAt(h)'
  <2>1. (Does(h, {"mark"}) /\ op[Main].wr)' <=> (Does(h, {"mark"}) /\ op[Main].wr)
    BY <1>8 DEF DoesSame
  <2> QED BY <1>1, <1>2, <1>7, <1>8, <1>w, <2>1, LifeKept DEF LifeAt, HandleAt, DoesSame, OpKept
<1>10. TableAt(h)'
  BY <1>1, <1>2, <1>w, <1>7, <1>8, ObjField, TableKept DEF HandleAt
<1>11. CountAt(h)' /\ OwnerAt(h)'
  BY <1>1, <1>2, <1>w, <1>7, <1>8, CountKept, OwnerKept DEF HandleAt, Broken
<1>13. PeerAt(h)'
  BY <1>1, <1>2, <1>3, <1>w, <1>7, PeerWritten DEF HandleAt
<1>14. ThreadAt'
  BY <1>1, <1>2 DEF ThreadAt, PhaseAt, OwnerInv
<1> QED BY <1>1, <1>2, <1>6, <1>9, <1>10, <1>11, <1>13, <1>14, StepWith, PlacesKept
        DEF HandleAt

LEMMA ReceiveKeeps ==
  ASSUME OneThread, OwnerInv, NEW s \in Slot, Receive(Main, s)
  PROVE  ThreadAt' /\ PlacesOK' /\ Handles'
<1>1. PICK h \in Handle : /\ Idle(Main) /\ Holds(Main, s, h) /\ slot[Main][s].readable
                          /\ ~obj[h].closed_rd /\ wire[h].in # <<>>
                          /\ obj' = [obj EXCEPT ![h].probed = "no"]
                          /\ wire' = Consume(h)
                          /\ UNCHANGED <<tcp, io, mgr, slot, op, sock, backlog>>
  BY DEF Receive
<1>2. /\ op[Main].pc = "idle" /\ PhaseAt("idle") /\ HandleAt(h)
      /\ TypeOK /\ PlacesOK /\ \A k \in Handle : op[Main].h # k
  BY <1>1, AtRest DEF Idle, At
<1>r. Running
  BY <1>1 DEF Idle, Running
<1>3. obj[h].life = "live" /\ ~InBacklog(h) /\ Away(h) = 0
  BY <1>1, <1>r, Held
<1>4. io.h # h
  BY <1>3 DEF Away, One
<1>5. /\ obj'[h].fd = obj[h].fd /\ obj'[h].life = obj[h].life
      /\ obj'[h].counter = obj[h].counter
      /\ obj'[h].closed_wr = obj[h].closed_wr /\ obj'[h].closed_rd = obj[h].closed_rd
      /\ \A k \in Handle : k # h => obj'[k] = obj[k]
  <2>1. obj[h] \in HandleObject
    BY <1>2, ObjField
  <2>2. PICK r : r = [obj[h] EXCEPT !.probed = "no"]
    OBVIOUS
  <2>3. obj' = [obj EXCEPT ![h] = r]
    BY <1>1, <1>2, <2>2 DEF TypeOK, Types
  <2>4. obj'[h] = r /\ \A k \in Handle : k # h => obj'[k] = obj[k]
    BY <1>2, <2>3, ObjUpdate
  <2> QED BY <2>1, <2>2, <2>4 DEF HandleObject
<1>w. /\ wire'[h].peer = wire[h].peer /\ wire'[h].out = wire[h].out
      /\ InSeq(wire'[h].in, "fin") => InSeq(wire[h].in, "fin") \/ InSeq(wire[h].in, "rst")
      /\ InSeq(wire'[h].in, "rst") => InSeq(wire[h].in, "rst")
      /\ \A k \in Handle : k # h => wire'[k] = wire[k]
  BY <1>1, <1>2, Consumed
<1>6. ASSUME NEW k \in Handle, k # h PROVE Kept(k)
  <2>1. OpKept(k)
    BY <1>1, <1>2, OpOther
  <2> QED BY <1>1, <1>5, <1>w, <1>6, <2>1, SlotsSame, SameMgr, SameBacklog DEF Kept
<1>7. /\ Wrappers(h)' = Wrappers(h) /\ Readers(h)' = Readers(h)
      /\ InQueue(h)' <=> InQueue(h)
      /\ InBacklog(h)' <=> InBacklog(h)
      /\ Running' <=> Running
  BY <1>1, SlotsSame, SameMgr, SameBacklog
<1>8. DoesSame(h)
  BY <1>1, <1>2, OpOther, DoesKept
<1>9. LifeAt(h)'
  <2>1. (Does(h, {"mark"}) /\ op[Main].wr)' <=> (Does(h, {"mark"}) /\ op[Main].wr)
    BY <1>8 DEF DoesSame
  <2> QED BY <1>1, <1>2, <1>3, <1>5, <1>w, <2>1 DEF LifeAt, HandleAt
<1>10. TableAt(h)'
  BY <1>1, <1>2, <1>5, <1>w, <1>7, <1>8, ObjField, TableKept DEF HandleAt
<1>11. CountAt(h)' /\ OwnerAt(h)'
  BY <1>1, <1>2, <1>5, <1>w, <1>7, <1>8, CountKept, OwnerKept DEF HandleAt, Broken
<1>13. PeerAt(h)'
  BY <1>1, <1>2, <1>3, <1>4, <1>5, <1>w, <1>7 DEF HandleAt, PeerAt, Broken
<1>14. ThreadAt'
  BY <1>1, <1>2 DEF ThreadAt, PhaseAt, OwnerInv
<1> QED BY <1>1, <1>2, <1>6, <1>9, <1>10, <1>11, <1>13, <1>14, StepWith, PlacesKept
        DEF HandleAt

(* What probe reads decides whether the thread goes on to close the read   *)
(* side of a connection that nobody else can read from.                    *)
LEMMA ProbeKeeps ==
  ASSUME OneThread, OwnerInv, NEW s \in Slot, Probe(Main, s)
  PROVE  ThreadAt' /\ PlacesOK' /\ Handles'
<1>1. PICK h, frame :
        /\ h \in Handle /\ frame = Head(wire[h].in)
        /\ Idle(Main) /\ Holds(Main, s, h) /\ slot[Main][s].readable
        /\ ~obj[h].closed_rd /\ wire[h].in # <<>>
        /\ wire' = Consume(h)
        /\ obj' = [obj EXCEPT ![h].probed = IF frame \in {"msg", "eos"} THEN frame ELSE @]
        /\ IF frame \in {"fin", "eos"} THEN Release(Main, s) ELSE UNCHANGED slot
        /\ IF frame \in {"fin", "rst", "eos"}
           THEN Call(Main, "eos", h, frame # "eos", TRUE, "idle") ELSE UNCHANGED op
        /\ UNCHANGED <<tcp, io, mgr, sock, backlog>>
  BY DEF Probe
<1>2. /\ op[Main].pc = "idle" /\ PhaseAt("idle") /\ HandleAt(h)
      /\ TypeOK /\ PlacesOK /\ \A k \in Handle : op[Main].h # k
  BY <1>1, AtRest DEF Idle, At
<1>r. Running /\ UNCHANGED <<tcp, io, mgr, sock, backlog>> /\ h # NoHandle
  BY <1>1, HandleAssumption DEF Idle, Running
<1>3. /\ obj[h].life = "live" /\ ~InBacklog(h) /\ Away(h) = 0
      /\ <<Main, s>> \in Readers(h) /\ \A w \in Readers(h) : w = <<Main, s>>
  BY <1>1, <1>r, Held
<1>4. io.h # h
  BY <1>3 DEF Away, One
<1>p. PICK b, e, r \in BOOLEAN : /\ b = (frame # "eos")
                          /\ (e <=> frame \in {"fin", "rst", "eos"})
                          /\ (r <=> frame \in {"fin", "eos"})
  OBVIOUS
<1>5. /\ obj'[h].fd = obj[h].fd /\ obj'[h].life = obj[h].life
      /\ obj'[h].counter = obj[h].counter
      /\ obj'[h].closed_wr = obj[h].closed_wr /\ obj'[h].closed_rd = obj[h].closed_rd
      /\ e => b \/ obj'[h].probed = "eos"
      /\ \A k \in Handle : k # h => obj'[k] = obj[k]
  <2>1. obj[h] \in HandleObject
    BY <1>1, <1>2, ObjField
  <2>2. PICK x : x = IF frame \in {"msg", "eos"} THEN frame ELSE obj[h].probed
    OBVIOUS
  <2>3. PICK o : o = [obj[h] EXCEPT !.probed = x]
    OBVIOUS
  <2>4. obj' = [obj EXCEPT ![h] = o]
    BY <1>1, <1>2, <2>2, <2>3 DEF TypeOK, Types
  <2>5. obj'[h] = o /\ \A k \in Handle : k # h => obj'[k] = obj[k]
    BY <1>1, <1>2, <2>4, ObjUpdate
  <2>6. /\ o.fd = obj[h].fd /\ o.life = obj[h].life /\ o.counter = obj[h].counter
        /\ o.closed_wr = obj[h].closed_wr /\ o.closed_rd = obj[h].closed_rd /\ o.probed = x
    BY <2>1, <2>3 DEF HandleObject
  <2> QED BY <1>p, <2>2, <2>5, <2>6
<1>w. /\ wire'[h].peer = wire[h].peer /\ wire'[h].out = wire[h].out
      /\ InSeq(wire'[h].in, "fin") => InSeq(wire[h].in, "fin") \/ InSeq(wire[h].in, "rst")
      /\ InSeq(wire'[h].in, "rst") => InSeq(wire[h].in, "rst")
      /\ \A k \in Handle : k # h => wire'[k] = wire[k]
  BY <1>1, <1>2, Consumed
<1>s. /\ Wrappers(h)' = Wrappers(h) /\ Readers(h)' \subseteq Readers(h)
      /\ ~r => Readers(h)' = Readers(h)
      /\ \A k \in Handle : k # h => Wrappers(k)' = Wrappers(k) /\ Readers(k)' = Readers(k)
  <2>1. CASE r
    <3>1. Release(Main, s)
      BY <1>1, <1>p, <2>1
    <3> QED BY <1>1, <1>2, <2>1, <3>1, SlotReleased
  <2>2. CASE ~r
    <3>1. UNCHANGED slot
      BY <1>1, <1>p, <2>2
    <3> QED BY <3>1, SlotsSame
  <2> QED BY <2>1, <2>2
<1>o. IF e THEN Called("eos", h, b, TRUE, "idle") ELSE op' = op
  <2>1. CASE e
    <3>1. Call(Main, "eos", h, b, TRUE, "idle")
      BY <1>1, <1>p, <2>1
    <3> QED BY <1>2, <2>1, <3>1, OpMoves
  <2>2. CASE ~e
    BY <1>1, <1>p, <2>2
  <2> QED BY <2>1, <2>2
<1>6. ASSUME NEW k \in Handle, k # h PROVE Kept(k)
  <2>1. OpKept(k)
    BY <1>2, <1>6, <1>o, OpOther DEF Called, OpKept
  <2> QED BY <1>r, <1>5, <1>w, <1>s, <1>6, <2>1, SameMgr, SameBacklog DEF Kept
<1>7. /\ InQueue(h)' <=> InQueue(h)
      /\ InBacklog(h)' <=> InBacklog(h)
      /\ Running' <=> Running
  BY <1>r, SameMgr, SameBacklog
<1>8. /\ ~Busy(h) /\ ~ClosingRead(h) /\ (ClosingRead(h)' <=> e)
      /\ ~Dropping(h) /\ ~Dropping(h)' /\ ~Does(h, {"yield"}) /\ ~Does(h, {"yield"})'
      /\ ~Does(h, Finishing \union {"reap", "drop"}) /\ ~Does(h, Finishing)
      /\ ~Does(h, {"notify", "notify_close", "forget"})
      /\ ~Does(h, {"mark"})' /\ ~Does(h, {"mark"})
  BY <1>2, <1>o DEF Called, Busy, Does, ClosingRead, Dropping, Finishing, Ending
<1>9. LifeAt(h)'
  BY <1>2, <1>3, <1>5, <1>w, <1>8, <1>1 DEF LifeAt, HandleAt
<1>10. TableAt(h)'
  BY <1>1, <1>2, <1>r, <1>5, <1>7, <1>8 DEF TableAt, HandleAt, Registered
<1>11. CountAt(h)'
  BY <1>2, <1>5, <1>s, <1>7, <1>8 DEF CountAt, HandleAt, One
<1>12. OwnerAt(h)'
  <2>1. Away(h)' = 0
    BY <1>3, <1>r, <1>5, <1>7, <1>8 DEF Away, One
  <2>2. \A v, w \in Readers(h)' : v = w
    BY <1>3, <1>s
  <2>3. Readers(h)' # {} \/ ClosingRead(h)'
    BY <1>3, <1>p, <1>s, <1>8
  <2> QED BY <2>1, <2>2, <2>3 DEF OwnerAt
<1>13. PeerAt(h)'
  BY <1>r, <1>2, <1>3, <1>4, <1>5, <1>w, <1>7 DEF HandleAt, PeerAt, Broken
<1>14. ThreadAt'
  <2>1. CASE e
    <3>1. CallAt(op[Main], obj[h])'
      BY <1>1, <1>2, <1>3, <1>5, <1>o, <1>r, <1>7, <2>1 DEF CallAt, Called, Ending, Finishing, PhaseAt, Running, Idle
    <3>2. PhaseAt("eos")'
      BY <1>1, <1>2, <1>r DEF PhaseAt, Idle
    <3> QED BY <1>o, <2>1, <3>1, <3>2 DEF ThreadAt, Called
  <2>2. CASE ~e
    BY <1>2, <1>r, <1>o, <2>2 DEF ThreadAt, PhaseAt, OwnerInv
  <2> QED BY <2>1, <2>2
<1>h. h \in Handle
  BY <1>1
<1> QED BY <1>h, <1>r, <1>2, <1>6, <1>9, <1>10, <1>11, <1>12, <1>13, <1>14, StepWith, PlacesKept
        DEF HandleAt

LEMMA CloseKeeps ==
  ASSUME OneThread, OwnerInv, NEW s \in Slot, Close(Main, s)
  PROVE  ThreadAt' /\ PlacesOK' /\ Handles'
<1>1. PICK h \in Handle : /\ Idle(Main) /\ Holds(Main, s, h)
                          /\ Call(Main, "eos", h, TRUE, FALSE, "idle")
                          /\ UNCHANGED <<obj, tcp, io, mgr, slot, sock, wire, backlog>>
  BY DEF Close
<1>2. /\ op[Main].pc = "idle" /\ PhaseAt("idle") /\ HandleAt(h)
      /\ TypeOK /\ PlacesOK /\ \A k \in Handle : op[Main].h # k
  BY <1>1, AtRest DEF Idle, At
<1>r. Running /\ UNCHANGED <<obj, tcp, io, mgr, slot, sock, wire, backlog>> /\ mgr.phase = "run"
  BY <1>1 DEF Idle, Running
<1>3. obj[h].life = "live"
  BY <1>1, Held
<1>o. Called("eos", h, TRUE, FALSE, "idle")
  BY <1>1, <1>2, OpMoves
<1>6. ASSUME NEW k \in Handle, k # h PROVE Kept(k)
  <2>1. OpKept(k)
    BY <1>2, <1>6, <1>o, OpOther DEF Called
  <2> QED BY <1>r, <1>6, <2>1, SlotsSame, SameMgr, SameBacklog DEF Kept
<1>7. /\ Wrappers(h)' = Wrappers(h) /\ Readers(h)' = Readers(h)
      /\ InQueue(h)' <=> InQueue(h)
      /\ InBacklog(h)' <=> InBacklog(h)
      /\ Running' <=> Running
  BY <1>r, SlotsSame, SameMgr, SameBacklog
<1>8. /\ ~ClosingRead(h) /\ ~ClosingRead(h)'
      /\ ~Dropping(h) /\ ~Dropping(h)' /\ ~Does(h, {"yield"}) /\ ~Does(h, {"yield"})'
      /\ ~Does(h, Finishing \union {"reap", "drop"}) /\ ~Does(h, Finishing)
      /\ ~Does(h, {"notify", "notify_close", "forget"})
      /\ ~Does(h, {"mark"})' /\ ~Does(h, {"mark"})
  BY <1>2, <1>o DEF Called, Does, ClosingRead, Dropping, Finishing, Ending
<1>9. LifeAt(h)'
  BY <1>2, <1>3, <1>r, <1>8 DEF LifeAt, HandleAt
<1>10. TableAt(h)'
  BY <1>2, <1>r, <1>7, <1>8 DEF TableAt, HandleAt, Registered
<1>11. CountAt(h)'
  BY <1>2, <1>r, <1>7, <1>8 DEF CountAt, HandleAt, One
<1>12. OwnerAt(h)'
  BY <1>2, <1>r, <1>7, <1>8 DEF OwnerAt, HandleAt, Away, One, Broken
<1>13. PeerAt(h)'
  BY <1>r, <1>2, <1>7, PeerKept DEF HandleAt
<1>14. ThreadAt'
  <2>1. CallAt(op[Main], obj[h])'
    BY <1>2, <1>3, <1>o, <1>r, <1>7 DEF CallAt, Called, Ending, Finishing, PhaseAt
  <2>2. PhaseAt("eos")'
    BY <1>2, <1>r DEF PhaseAt
  <2> QED BY <1>o, <2>1, <2>2 DEF ThreadAt, Called
<1> QED BY <1>r, <1>2, <1>6, <1>9, <1>10, <1>11, <1>12, <1>13, <1>14, StepWith, PlacesKept
        DEF HandleAt

(* Yield moves the right to read from the HandleUser to the call.          *)
LEMMA YieldKeeps ==
  ASSUME OneThread, OwnerInv, NEW s \in Slot, Yield(Main, s)
  PROVE  ThreadAt' /\ PlacesOK' /\ Handles'
<1>1. PICK h \in Handle : /\ Idle(Main) /\ Holds(Main, s, h) /\ slot[Main][s].readable
                          /\ Release(Main, s)
                          /\ IF Managed(h) THEN Call(Main, "yield", h, FALSE, FALSE, "idle")
                                           ELSE UNCHANGED op
                          /\ UNCHANGED <<obj, tcp, io, mgr, sock, wire, backlog>>
  BY DEF Yield, YieldAnyTime
<1>2. /\ op[Main].pc = "idle" /\ PhaseAt("idle") /\ HandleAt(h)
      /\ TypeOK /\ PlacesOK /\ \A k \in Handle : op[Main].h # k
  BY <1>1, AtRest DEF Idle, At
<1>r. Running /\ UNCHANGED <<obj, tcp, io, mgr, sock, wire, backlog>> /\ mgr.phase = "run"
  BY <1>1 DEF Idle, Running
<1>3. /\ obj[h].life = "live" /\ Away(h) = 0
      /\ <<Main, s>> \in Readers(h) /\ \A w \in Readers(h) : w = <<Main, s>>
  BY <1>1, <1>r, Held
<1>m. Managed(h) <=> ~obj[h].closed_rd
  BY <1>2, <1>3 DEF Managed, HandleAt, TableAt, Registered
<1>o. IF ~obj[h].closed_rd THEN Called("yield", h, FALSE, FALSE, "idle") ELSE op' = op
  BY <1>1, <1>2, <1>m, OpMoves
<1>s. /\ Wrappers(h)' = Wrappers(h) /\ Readers(h)' = {}
      /\ \A k \in Handle : k # h => Wrappers(k)' = Wrappers(k) /\ Readers(k)' = Readers(k)
  <2>1. /\ Wrappers(h)' = Wrappers(h) /\ Readers(h)' = Readers(h) \ {<<Main, s>>}
        /\ \A k \in Handle : k # h => Wrappers(k)' = Wrappers(k) /\ Readers(k)' = Readers(k)
    BY <1>1, <1>2, SlotReleased
  <2> QED BY <1>3, <2>1
<1>6. ASSUME NEW k \in Handle, k # h PROVE Kept(k)
  <2>1. OpKept(k)
    BY <1>2, <1>6, <1>o, OpOther DEF Called, OpKept
  <2> QED BY <1>r, <1>s, <1>6, <2>1, SameMgr, SameBacklog DEF Kept
<1>7. /\ InQueue(h)' <=> InQueue(h)
      /\ InBacklog(h)' <=> InBacklog(h)
      /\ Running' <=> Running
  BY <1>r, SameMgr, SameBacklog
<1>8. /\ ~ClosingRead(h) /\ ~ClosingRead(h)'
      /\ ~Dropping(h) /\ ~Dropping(h)' /\ ~Does(h, {"yield"})
      /\ Does(h, {"yield"})' <=> ~obj[h].closed_rd
      /\ ~Does(h, Finishing \union {"reap", "drop"}) /\ ~Does(h, Finishing)
      /\ ~Does(h, {"notify", "notify_close", "forget"})
      /\ ~Does(h, {"mark"})' /\ ~Does(h, {"mark"})
  BY <1>2, <1>o DEF Called, Does, ClosingRead, Dropping, Finishing, Ending
<1>9. LifeAt(h)'
  BY <1>2, <1>3, <1>o, <1>r, <1>8 DEF LifeAt, HandleAt, Does
<1>10. TableAt(h)'
  BY <1>2, <1>r, <1>7, <1>8, <1>o DEF TableAt, HandleAt, Registered, Does
<1>11. CountAt(h)'
  BY <1>2, <1>r, <1>s, <1>7, <1>8 DEF CountAt, HandleAt, One
<1>12. OwnerAt(h)'
  BY <1>3, <1>r, <1>s, <1>7, <1>8 DEF OwnerAt, Away, One
<1>13. PeerAt(h)'
  BY <1>r, <1>2, <1>7, PeerKept DEF HandleAt
<1>14. ThreadAt'
  <2>1. CASE ~obj[h].closed_rd
    <3>1. CallAt(op[Main], obj[h])'
      BY <1>2, <1>3, <1>o, <1>r, <2>1 DEF CallAt, Called, Ending, Finishing, PhaseAt
    <3>2. PhaseAt("yield")'
      BY <1>2, <1>r DEF PhaseAt
    <3> QED BY <1>o, <2>1, <3>1, <3>2 DEF ThreadAt, Called
  <2>2. CASE obj[h].closed_rd
    BY <1>2, <1>r, <1>o, <2>2 DEF ThreadAt, PhaseAt, OwnerInv
  <2> QED BY <2>1, <2>2
<1> QED BY <1>r, <1>2, <1>6, <1>9, <1>10, <1>11, <1>12, <1>13, <1>14, StepWith, PlacesKept
        DEF HandleAt

(* The reference of a destroyed HandleUser stays counted until the         *)
(* destructor gives it up.                                                 *)
LEMMA DestroyKeeps ==
  ASSUME OneThread, OwnerInv, NEW s \in Slot, Destroy(Main, s)
  PROVE  ThreadAt' /\ PlacesOK' /\ Handles'
<1>1. PICK h \in Handle :
        /\ mgr.phase \in {"run", "done"} /\ op[Main].pc = "idle" /\ Holds(Main, s, h)
        /\ slot' = [slot EXCEPT ![Main][s] = Empty]
        /\ Call(Main, IF slot[Main][s].readable /\ Managed(h) THEN "yield" ELSE "decr",
                h, FALSE, FALSE, "decr")
        /\ UNCHANGED <<obj, tcp, io, mgr, sock, wire, backlog>>
  BY DEF Destroy, At
<1>2. /\ PhaseAt("idle") /\ HandleAt(h)
      /\ TypeOK /\ PlacesOK /\ \A k \in Handle : op[Main].h # k
  BY <1>1, AtRest
<1>r. /\ UNCHANGED <<obj, tcp, io, mgr, sock, wire, backlog>> /\ mgr.phase \in {"run", "done"}
      /\ mgr.todo = {}
  BY <1>1, <1>2 DEF PhaseAt
<1>3. /\ obj[h].life = "live" /\ <<Main, s>> \in Wrappers(h)
      /\ <<Main, s>> \in Readers(h) <=> slot[Main][s].readable
      /\ Running /\ slot[Main][s].readable =>
              Away(h) = 0 /\ \A w \in Readers(h) : w = <<Main, s>>
  BY <1>1, Held
<1>m. Managed(h) <=> ~obj[h].closed_rd /\ obj[h].fd # NoFd
  BY DEF Managed
<1>4. PICK y \in BOOLEAN : y <=> slot[Main][s].readable /\ Managed(h)
  OBVIOUS
<1>o. Called(IF y THEN "yield" ELSE "decr", h, FALSE, FALSE, "decr")
  <2>1. CASE y
    <3>1. Call(Main, "yield", h, FALSE, FALSE, "decr")
      BY <1>1, <1>4, <2>1
    <3> QED BY <1>2, <2>1, <3>1, OpMoves
  <2>2. CASE ~y
    <3>1. Call(Main, "decr", h, FALSE, FALSE, "decr")
      BY <1>1, <1>4, <2>2
    <3> QED BY <1>2, <2>2, <3>1, OpMoves
  <2> QED BY <2>1, <2>2
<1>s. /\ Wrappers(h)' = Wrappers(h) \ {<<Main, s>>}
      /\ Readers(h)' = Readers(h) \ {<<Main, s>>}
      /\ \A k \in Handle : k # h => Wrappers(k)' = Wrappers(k) /\ Readers(k)' = Readers(k)
  BY <1>1, <1>2, SlotDropped
<1>6. ASSUME NEW k \in Handle, k # h PROVE Kept(k)
  <2>1. OpKept(k)
    BY <1>2, <1>6, <1>o, OpOther DEF Called
  <2> QED BY <1>r, <1>s, <1>6, <2>1, SameMgr, SameBacklog DEF Kept
<1>7. /\ InQueue(h)' <=> InQueue(h)
      /\ InBacklog(h)' <=> InBacklog(h)
      /\ Running' <=> Running
  BY <1>r, SameMgr, SameBacklog
<1>8. /\ ~ClosingRead(h) /\ ~ClosingRead(h)'
      /\ ~Dropping(h) /\ Dropping(h)' /\ ~Does(h, {"yield"})
      /\ Does(h, {"yield"})' <=> y
      /\ ~Does(h, Finishing \union {"reap", "drop"}) /\ ~Does(h, Finishing)
      /\ ~Does(h, {"notify", "notify_close", "forget"}) /\ ~Does(h, Ending \union {"drain"})
      /\ ~Does(h, {"mark"})' /\ ~Does(h, {"mark"})
  BY <1>2, <1>o DEF Called, Does, ClosingRead, Dropping, Finishing, Ending
<1>f. /\ IsFiniteSet(Wrappers(h)')
      /\ Cardinality(Wrappers(h)) \in Nat /\ Cardinality(Wrappers(h)') \in Nat
      /\ Cardinality(Wrappers(h)') = Cardinality(Wrappers(h)) - 1
  <2>1. IsFiniteSet(Wrappers(h))
    BY <1>2 DEF HandleAt, CountAt
  <2> QED BY <1>3, <1>s, <2>1, FS_RemoveElement, FS_CardinalityType
<1>9. LifeAt(h)'
  BY <1>2, <1>3, <1>r, <1>8 DEF LifeAt, HandleAt
<1>10. TableAt(h)'
  BY <1>2, <1>r, <1>7, <1>8 DEF TableAt, HandleAt, Registered
<1>11. CountAt(h)'
  BY <1>2, <1>r, <1>f, <1>7, <1>8 DEF CountAt, HandleAt, One
<1>12. OwnerAt(h)'
  <2>1. CASE ~Running
    BY <1>7, <2>1 DEF OwnerAt
  <2>2. CASE Running /\ slot[Main][s].readable
    <3>1. Readers(h)' = {} /\ (y <=> ~obj[h].closed_rd)
      BY <1>2, <1>3, <1>4, <1>m, <1>s, <2>2 DEF HandleAt, TableAt, Registered
    <3> QED BY <1>3, <1>r, <1>7, <1>8, <2>2, <3>1 DEF OwnerAt, Away, One
  <2>3. CASE Running /\ ~slot[Main][s].readable
    <3>1. Readers(h)' = Readers(h) /\ ~y
      BY <1>3, <1>4, <1>s, <2>3
    <3> QED BY <1>2, <1>r, <1>7, <1>8, <3>1 DEF OwnerAt, HandleAt, Away, One, Broken
  <2> QED BY <2>1, <2>2, <2>3
<1>13. PeerAt(h)'
  BY <1>r, <1>2, <1>7, PeerKept DEF HandleAt
<1>14. ThreadAt'
  <2>1. CallAt(op[Main], obj[h])'
    BY <1>2, <1>3, <1>4, <1>m, <1>o, <1>r, <1>7 DEF CallAt, Called, Ending, Finishing
  <2>2. PhaseAt("yield")' /\ PhaseAt("decr")'
    BY <1>2, <1>r DEF PhaseAt
  <2>3. op'[Main].h = h /\ op'[Main].pc \in {"yield", "decr"}
    BY <1>o DEF Called
  <2>4. PhaseAt(op[Main].pc)'
    BY <2>2, <2>3 DEF PhaseAt
  <2> QED BY <2>1, <2>3, <2>4 DEF ThreadAt
<1> QED BY <1>r, <1>2, <1>6, <1>9, <1>10, <1>11, <1>12, <1>13, <1>14, StepWith, PlacesKept
        DEF HandleAt

(* The connection at the head of the ready queue has no other owner, and   *)
(* its reference passes to the HandleUser.                                 *)
LEMMA GetNextKeeps ==
  ASSUME OneThread, OwnerInv, NEW s \in Slot, GetNext(Main, s)
  PROVE  ThreadAt' /\ PlacesOK' /\ Handles'
<1>1. PICK h : h = Head(mgr.handleReady)
  OBVIOUS
<1>r. /\ UNCHANGED <<obj, tcp, io, op, sock, wire, backlog>> /\ mgr.phase = "run" /\ Running
      /\ op[Main].pc = "idle" /\ slot[Main][s] = Empty /\ mgr.handleReady # <<>>
  BY DEF GetNext, Idle, At, Running
<1>2. /\ PhaseAt("idle") /\ TypeOK /\ PlacesOK /\ \A k \in Handle : op[Main].h # k
      /\ \A k \in Handle : HandleAt(k)
  BY <1>r, AtRest
<1>m. /\ mgr'.handleReady = Tail(mgr.handleReady) /\ mgr'.groupsReady = mgr.groupsReady
      /\ mgr'.phase = mgr.phase /\ mgr'.todo = mgr.todo
  <2>1. PICK q : q = Tail(mgr.handleReady)
    OBVIOUS
  <2>2. mgr' = [mgr EXCEPT !.handleReady = q]
    BY <2>1 DEF GetNext
  <2> QED BY <1>2, <2>1, <2>2, Fields DEF MgrState
<1>q. /\ h \in Handle /\ InQueue(h) /\ ~InQueue(h)' /\ Distinct(mgr'.handleReady)
      /\ \A k \in Handle : k # h => (InQueue(k)' <=> InQueue(k))
  <2>1. mgr.handleReady \in Seq(Handle) /\ Distinct(mgr.handleReady)
    BY <1>2, Fields DEF PlacesOK
  <2> QED BY <1>1, <1>r, <1>m, <2>1, TailIn DEF InQueue
<1>3. HandleAt(h) /\ Away(h) \in Nat
  BY <1>2, <1>q DEF Away, One
<1>w. Readers(h) = {} /\ ~obj[h].closed_rd /\ Away(h) = 1
  <2>1. Away(h) # 0
    BY <1>q DEF Away, One
  <2> QED BY <1>3, <1>r, <2>1 DEF HandleAt, OwnerAt
<1>l. obj[h].life = "live"
  <2>1. obj[h].life \in Life
    BY <1>2, <1>q, ObjField DEF HandleObject
  <2> QED BY <1>3, <1>q, <2>1 DEF HandleAt, LifeAt, Unreachable, Life
<1>s. /\ <<Main, s>> \notin Wrappers(h)
      /\ Wrappers(h)' = Wrappers(h) \union {<<Main, s>>}
      /\ Readers(h)' = {<<Main, s>>}
      /\ \A k \in Handle : k # h => Wrappers(k)' = Wrappers(k) /\ Readers(k)' = Readers(k)
  <2>1. slot' = [slot EXCEPT ![Main][s] = [real |-> h, readable |-> TRUE]]
    BY <1>1 DEF GetNext
  <2>2. slot[Main][s] = Empty /\ TypeOK /\ h \in Handle
    BY <1>2, <1>q, <1>r
  <2>3. /\ <<Main, s>> \notin Wrappers(h)
        /\ Wrappers(h)' = Wrappers(h) \union {<<Main, s>>}
        /\ Readers(h)' = Readers(h) \union {<<Main, s>>}
        /\ \A k \in Handle : k # h => Wrappers(k)' = Wrappers(k) /\ Readers(k)' = Readers(k)
    BY <2>1, <2>2, SlotTaken
  <2> QED BY <1>w, <2>3
<1>6. ASSUME NEW k \in Handle, k # h PROVE Kept(k)
  <2>1. OpKept(k)
    BY <1>r DEF OpKept
  <2> QED BY <1>r, <1>m, <1>q, <1>s, <1>6, <2>1, SameBacklog DEF Kept, Running
<1>7. /\ InBacklog(h)' <=> InBacklog(h)
      /\ Running'
  BY <1>r, <1>m, SameBacklog DEF Running
<1>8. OpKept(h) /\ DoesSame(h) /\ ~Dropping(h) /\ ~Does(h, {"yield"})
  BY <1>r, <1>2, <1>q, DoesKept DEF OpKept, Dropping, Does
<1>9. LifeAt(h)'
  <2>1. (Does(h, {"mark"}) /\ op[Main].wr)' <=> (Does(h, {"mark"}) /\ op[Main].wr)
    BY <1>8 DEF DoesSame
  <2> QED BY <1>3, <1>r, <1>l, <1>w, <2>1 DEF LifeAt, HandleAt
<1>10. TableAt(h)'
  BY <1>3, <1>q, <1>r, <1>2, <1>m, <1>7, <1>8, ObjField, TableKept DEF HandleAt
<1>f. /\ IsFiniteSet(Wrappers(h)') /\ Cardinality(Wrappers(h)) \in Nat
      /\ Cardinality(Wrappers(h)') = Cardinality(Wrappers(h)) + 1
  <2>1. IsFiniteSet(Wrappers(h))
    BY <1>3 DEF HandleAt, CountAt
  <2> QED BY <1>s, <2>1, FS_AddElement, FS_CardinalityType
<1>11. CountAt(h)'
  BY <1>3, <1>q, <1>r, <1>f, <1>8 DEF CountAt, HandleAt, One, DoesSame
<1>12. OwnerAt(h)'
  <2>1. Away(h)' = 0
    BY <1>w, <1>q, <1>r, <1>m, <1>8 DEF Away, One, DoesSame
  <2> QED BY <1>s, <2>1 DEF OwnerAt
<1>13. PeerAt(h)'
  BY <1>r, <1>3, <1>7, PeerKept DEF HandleAt
<1>14. ThreadAt'
  BY <1>2, <1>r, <1>m DEF ThreadAt, PhaseAt, OwnerInv
<1>15. PlacesOK'
  BY <1>2, <1>r, <1>m, <1>q, <1>7 DEF PlacesOK
<1> QED BY <1>q, <1>6, <1>9, <1>10, <1>11, <1>12, <1>13, <1>14, <1>15, StepWith DEF HandleAt

(* The descriptor the kernel hands out belongs to no connection and is not *)
(* in the set.                                                             *)
LEMMA FreshFd ==
  ASSUME OwnerInv, FreeFd # {}, NEW f, f = Lowest(FreeFd)
  PROVE  /\ f \in FD /\ f # NoFd /\ sock[f] = NoHandle /\ f # tcp.listen_sck
         /\ Running => f \notin tcp.set
         /\ \A k \in Handle : obj[k].fd # f /\ tcp.connections[f] # k
<1>1. f \in FreeFd
  BY LowestIsLeast, FdAssumption DEF FreeFd, FD
<1>2. f \in FD /\ f # NoFd /\ sock[f] = NoHandle /\ f # tcp.listen_sck
  BY <1>1 DEF FreeFd, OpenFd, FD, NoFd
<1>3. Running => f \notin tcp.set
  BY <1>2 DEF OwnerInv, PlacesOK
<1>4. ASSUME NEW k \in Handle PROVE obj[k].fd # f /\ tcp.connections[f] # k
  <2>1. TableAt(k) /\ k # NoHandle
    BY HandleAssumption DEF OwnerInv, Handles, HandleAt
  <2> QED BY <1>2, <2>1 DEF TableAt
<1> QED BY <1>2, <1>3, <1>4

(* Listen takes no connection's descriptor and forgets none.               *)
LEMMA ListenKeeps ==
  ASSUME OneThread, OwnerInv, Listen(Main)
  PROVE  ThreadAt' /\ PlacesOK' /\ Handles'
<1>r. /\ UNCHANGED <<obj, mgr, slot, op, sock, wire, backlog>> /\ op[Main].pc = "idle"
      /\ tcp.set = {} /\ FreeFd # {}
  BY DEF Listen, ListenAnyTime, Idle, At
<1>2. /\ PhaseAt("idle") /\ TypeOK /\ PlacesOK /\ \A k \in Handle : op[Main].h # k
      /\ \A k \in Handle : HandleAt(k)
  BY <1>r, AtRest
<1>3. PICK f : f = Lowest(FreeFd)
  OBVIOUS
<1>4. f \in FD /\ f # NoFd /\ sock[f] = NoHandle /\ \A k \in Handle : obj[k].fd # f
  BY <1>r, <1>3, FreshFd
<1>t. tcp'.set = {f} /\ tcp'.listen_sck = f /\ tcp'.connections = tcp.connections
  <2>1. PICK S : S = {f}
    OBVIOUS
  <2>2. tcp' = [tcp EXCEPT !.listen_sck = f, !.set = S, !.fdmax = f]
    BY <1>3, <2>1 DEF Listen, ListenAnyTime
  <2> QED BY <1>2, <2>1, <2>2, Fields DEF TcpState
<1>i. io'.tmpset = {} /\ io'.pc = io.pc /\ io'.h = io.h
  <2>1. PICK S : S = {}
    OBVIOUS
  <2>2. io' = [io EXCEPT !.tmpset = S]
    BY <2>1 DEF Listen, ListenAnyTime
  <2> QED BY <1>2, <2>1, <2>2, Fields DEF IoState
<1>6. ASSUME NEW k \in Handle PROVE Kept(k)
  <2>1. OpKept(k)
    BY <1>r DEF OpKept
  <2>2. obj[k].fd \in tcp'.set <=> obj[k].fd \in tcp.set
    BY <1>r, <1>t, <1>4
  <2> QED BY <1>r, <1>t, <1>i, <2>1, <2>2, SlotsSame, SameMgr, SameBacklog DEF Kept
<1>7. Handles'
  BY <1>2, <1>6, HandleKept DEF Handles
<1>14. ThreadAt'
  BY <1>2, <1>r, <1>t DEF ThreadAt, PhaseAt, OwnerInv
<1>15. PlacesOK'
  BY <1>2, <1>r, <1>t, <1>i, <1>4 DEF PlacesOK, Running
<1> QED BY <1>7, <1>14, <1>15

(* A connection the program opens is registered before anybody has it.     *)
LEMMA ConnectKeeps ==
  ASSUME OneThread, OwnerInv, NEW s \in Slot, NEW h \in Handle, NEW ok \in BOOLEAN,
         Connect(Main, s, h, ok)
  PROVE  ThreadAt' /\ PlacesOK' /\ Handles'
<1>r. /\ UNCHANGED <<io, mgr, op, backlog>> /\ op[Main].pc = "idle" /\ mgr.phase = "run"
      /\ Running /\ slot[Main][s] = Empty /\ FreeFd # {} /\ wire[h].peer = "none"
      /\ h # NoHandle
  BY HandleAssumption DEF Connect, Idle, At, Running
<1>2. /\ PhaseAt("idle") /\ TypeOK /\ PlacesOK /\ \A k \in Handle : op[Main].h # k
      /\ HandleAt(h)
  BY <1>r, AtRest
<1>3. PICK f : f = Lowest(FreeFd)
  OBVIOUS
<1>4. /\ f \in FD /\ f # NoFd /\ sock[f] = NoHandle /\ f # tcp.listen_sck /\ f \notin tcp.set
      /\ \A k \in Handle : obj[k].fd # f /\ tcp.connections[f] # k
  BY <1>r, <1>3, FreshFd
<1>n. obj[h].life = "none" /\ UnusedAt(h) /\ Unreachable(h) /\ ~InBacklog(h)
  BY <1>r, <1>2 DEF HandleAt, PeerAt, LifeAt
<1>t. /\ tcp'.set = tcp.set /\ tcp'.listen_sck = tcp.listen_sck
      /\ tcp'.connections[f] = h /\ sock'[f] = h
      /\ \A g \in FD : g # f => tcp'.connections[g] = tcp.connections[g] /\ sock'[g] = sock[g]
  <2>1. Register(h, f)
    BY <1>3 DEF Connect
  <2>2. tcp' = [tcp EXCEPT !.connections = [tcp.connections EXCEPT ![f] = h]]
    BY <2>1 DEF Register
  <2>3. sock' = [sock EXCEPT ![f] = h]
    BY <2>1 DEF Register
  <2> QED BY <1>2, <1>4, <2>2, <2>3, Fields DEF TcpState
<1>5. /\ obj'[h].fd = f /\ obj'[h].life = "live" /\ obj'[h].probed = obj[h].probed
      /\ obj'[h].counter = IF ok THEN 1 ELSE 0
      /\ obj'[h].closed_wr = obj[h].closed_wr /\ obj'[h].closed_rd = obj[h].closed_rd
      /\ \A k \in Handle : k # h => obj'[k] = obj[k]
  <2>1. obj[h] \in HandleObject
    BY <1>2, ObjField
  <2>2. PICK n : n = IF ok THEN 1 ELSE 0
    OBVIOUS
  <2>3. PICK r : r = [obj[h] EXCEPT !.fd = f, !.life = "live", !.counter = n]
    OBVIOUS
  <2>4. obj' = [obj EXCEPT ![h] = r]
    BY <1>2, <1>3, <2>1, <2>2, <2>3 DEF Connect, TypeOK, Types
  <2>5. obj'[h] = r /\ \A k \in Handle : k # h => obj'[k] = obj[k]
    BY <1>2, <2>4, ObjUpdate
  <2> QED BY <2>1, <2>2, <2>3, <2>5 DEF HandleObject
<1>w. /\ wire'[h].out = wire[h].out
      /\ wire'[h].peer = IF ok THEN "open" ELSE "reset"
      /\ wire'[h].in = IF ok THEN wire[h].in ELSE <<"fin">>
      /\ \A k \in Handle : k # h => wire'[k] = wire[k]
  <2>1. wire \in [Handle -> Stream] /\ wire[h] \in Stream
    BY <1>2 DEF TypeOK, Types
  <2>2. CASE ok
    <3>1. wire' = [wire EXCEPT ![h] = [wire[h] EXCEPT !.peer = "open"]]
      BY <2>1, <2>2 DEF Connect
    <3>2. wire'[h] = [wire[h] EXCEPT !.peer = "open"]
      BY <2>1, <3>1
    <3> QED BY <2>1, <2>2, <3>1, <3>2 DEF Stream
  <2>3. CASE ~ok
    <3>1. PICK q : q = <<"fin">>
      OBVIOUS
    <3>2. wire' = [wire EXCEPT ![h] = [wire[h] EXCEPT !.peer = "reset", !.in = q]]
      BY <2>1, <2>3, <3>1 DEF Connect
    <3>3. wire'[h] = [wire[h] EXCEPT !.peer = "reset", !.in = q]
      BY <2>1, <3>2
    <3> QED BY <2>1, <2>3, <3>1, <3>2, <3>3 DEF Stream
  <2> QED BY <2>2, <2>3
<1>s. /\ Wrappers(h)' = IF ok THEN {<<Main, s>>} ELSE {}
      /\ Readers(h)' = IF ok THEN {<<Main, s>>} ELSE {}
      /\ \A k \in Handle : k # h => Wrappers(k)' = Wrappers(k) /\ Readers(k)' = Readers(k)
  <2>1. Wrappers(h) = {} /\ Readers(h) = {}
    BY <1>n DEF Unreachable, Readers
  <2>2. CASE ok
    <3>1. slot' = [slot EXCEPT ![Main][s] = [real |-> h, readable |-> TRUE]]
      BY <2>2 DEF Connect
    <3> QED BY ZenonT(60), <1>2, <1>r, <2>1, <2>2, <3>1, SlotTaken
  <2>3. CASE ~ok
    <3>1. UNCHANGED slot
      BY <2>3 DEF Connect
    <3> QED BY <2>1, <2>3, <3>1, SlotsSame
  <2> QED BY <2>2, <2>3
<1>6. ASSUME NEW k \in Handle, k # h PROVE Kept(k)
  <2>1. OpKept(k)
    BY <1>r DEF OpKept
  <2>2. \A g \in FD : /\ tcp'.connections[g] = k <=> tcp.connections[g] = k
                      /\ sock'[g] = k <=> sock[g] = k
    BY <1>t, <1>4, <1>6, HandleAssumption
  <2> QED BY <1>r, <1>t, <1>5, <1>w, <1>s, <1>6, <2>1, <2>2, SameMgr, SameBacklog DEF Kept
<1>7. /\ InQueue(h)' <=> InQueue(h)
      /\ InBacklog(h)' <=> InBacklog(h)
      /\ Running' <=> Running
  BY <1>r, SameMgr, SameBacklog
<1>8. OpKept(h) /\ DoesSame(h) /\ ~Dropping(h) /\ ~Does(h, {"yield"}) /\ ~Does(h, {"mark"})'
  BY <1>r, <1>2, DoesKept DEF OpKept, Dropping, Does
<1>9. LifeAt(h)'
  BY <1>2, <1>n, <1>5, <1>w, <1>8 DEF LifeAt, UnusedAt, HandleAt
<1>10. TableAt(h)'
  <2>1. \A g \in FD : ~(sock[g] = h \/ tcp.connections[g] = h)
    BY <1>2, <1>n, Fields DEF HandleAt, TableAt, Unreachable
  <2>2. Registered(h)' /\ ~obj'[h].closed_rd /\ ~obj'[h].closed_wr
    BY <1>4, <1>5, <1>t, <1>n DEF Registered, UnusedAt
  <2> QED BY <1>r, <1>4, <1>5, <1>t, <1>7, <2>1, <2>2 DEF TableAt
<1>11. CountAt(h)'
  <2>1. /\ IsFiniteSet({<<Main, s>>}) /\ Cardinality({<<Main, s>>}) = 1
        /\ IsFiniteSet({}) /\ Cardinality({}) = 0
    BY FS_Singleton, FS_EmptySet
  <2>2. IsFiniteSet(Wrappers(h)') /\ Cardinality(Wrappers(h)') = IF ok THEN 1 ELSE 0
    BY <1>s, <2>1
  <2> QED BY <1>n, <1>5, <1>7, <1>8, <2>2 DEF CountAt, One, Unreachable, DoesSame
<1>12. OwnerAt(h)'
  <2>1. Away(h)' = 0
    BY <1>4, <1>5, <1>n, <1>r, <1>t, <1>7, <1>8 DEF Away, One, DoesSame, Unreachable
  <2>2. \A v, w \in Readers(h)' : v = w
    BY <1>s
  <2>3. CASE ok
    <3>1. Readers(h)' # {}
      BY <1>s, <2>3
    <3> QED BY <2>1, <2>2, <3>1 DEF OwnerAt
  <2>4. CASE ~ok
    BY <1>5, <1>w, <2>1, <2>2, <2>4 DEF OwnerAt, Broken
  <2> QED BY <2>3, <2>4
<1>13. PeerAt(h)'
  <2>1. ~InSeq(wire[h].in, "fin") /\ ~InSeq(wire[h].in, "rst")
    BY <1>2, <1>r DEF HandleAt, PeerAt, Broken
  <2>2. ~ok => ~InSeq(wire'[h].in, "rst")
    BY <1>w DEF InSeq
  <2>3. io'.h # h
    BY <1>r, <1>n DEF Unreachable
  <2> QED BY <1>5, <1>w, <1>7, <1>n, <2>1, <2>2, <2>3 DEF PeerAt, Broken
<1>14. ThreadAt'
  BY <1>2, <1>r DEF ThreadAt, PhaseAt, OwnerInv
<1>15. PlacesOK'
  <2>1. tcp.set \subseteq FD /\ (tcp.listen_sck # NoFd => tcp.listen_sck \in FD)
    BY <1>2, Fields DEF MaybeFd
  <2> QED BY <1>2, <1>r, <1>t, <1>4, <1>7, <2>1 DEF PlacesOK
<1> QED BY <1>6, <1>9, <1>10, <1>11, <1>12, <1>13, <1>14, <1>15, StepWith DEF HandleAt

-----------------------------------------------------------------------------
(***************************************************************************)
(* Finalization.                                                           *)
(***************************************************************************)
(* A step that touches no connection.                                      *)
LEMMA StepAside ==
  ASSUME OwnerInv, \A k \in Handle : Kept(k)
  PROVE  Handles'
BY HandleKept DEF OwnerInv, Handles

LEMMA FinalizeKeeps ==
  ASSUME OneThread, OwnerInv, Finalize
  PROVE  ThreadAt' /\ PlacesOK' /\ Handles'
<1>r. /\ UNCHANGED <<obj, tcp, io, slot, op, sock, wire, backlog>>
      /\ op[Main].pc = "idle" /\ mgr.phase = "run"
  BY ThreadAssumption DEF Finalize, Idle, At
<1>2. PhaseAt("idle") /\ TypeOK /\ PlacesOK
  BY <1>r, AtRest
<1>m. /\ mgr'.handleReady = mgr.handleReady /\ mgr'.groupsReady = mgr.groupsReady
      /\ mgr'.phase = "join" /\ mgr'.todo = mgr.todo
  BY <1>2, Fields DEF MgrState, Finalize
<1>7. Running /\ Running'
  BY <1>r, <1>m DEF Running
<1>6. ASSUME NEW k \in Handle PROVE Kept(k)
  BY <1>r, <1>m, <1>7, SlotsSame, SameBacklog DEF Kept, OpKept, InQueue
<1>14. ThreadAt'
  BY <1>2, <1>r, <1>m DEF ThreadAt, PhaseAt, OwnerInv
<1>15. PlacesOK'
  BY <1>2, <1>r, <1>m, <1>7 DEF PlacesOK
<1> QED BY <1>6, <1>14, <1>15, StepAside

(* ConnTcp::end starts from every connection that is in the table.         *)
LEMMA JoinKeeps ==
  ASSUME OneThread, OwnerInv, Join
  PROVE  ThreadAt' /\ PlacesOK' /\ Handles'
<1>r. /\ UNCHANGED <<obj, tcp, io, slot, sock, wire, backlog>>
      /\ mgr.phase = "join" /\ io.pc = "exited" /\ TypeOK /\ PlacesOK
  BY DEF Join, OwnerInv
<1>2. op[Main].pc = "idle"
  BY <1>r DEF OwnerInv, ThreadAt, PhaseAt
<1>o. Moved("next")
  BY <1>r, OpMoves DEF Join
<1>m. /\ mgr'.handleReady = mgr.handleReady /\ mgr'.groupsReady = mgr.groupsReady
      /\ mgr'.phase = "end"
      /\ mgr'.todo = {<<f, tcp.connections[f]>> : f \in
                        {g \in FD : tcp.connections[g] # NoHandle}}
  <2>1. PICK T : T = {<<f, tcp.connections[f]>> : f \in
                        {g \in FD : tcp.connections[g] # NoHandle}}
    OBVIOUS
  <2>2. mgr' = [mgr EXCEPT !.phase = "end", !.todo = T]
    BY <2>1 DEF Join
  <2>3. mgr \in MgrState
    BY <1>r, Fields
  <2>4. /\ mgr'.handleReady = mgr.handleReady /\ mgr'.groupsReady = mgr.groupsReady
        /\ mgr'.phase = "end" /\ mgr'.todo = T
    BY <2>2, <2>3 DEF MgrState
  <2> QED BY <2>1, <2>4
<1>7. ~Running'
  BY <1>m DEF Running
<1>6. ASSUME NEW k \in Handle PROVE HandleAt(k)'
  <2>1. DoesSame(k)
    BY <1>2, <1>o, OpOther, DoesKept DEF Moved
  <2>2. /\ Wrappers(k)' = Wrappers(k) /\ (InQueue(k)' <=> InQueue(k))
        /\ (InBacklog(k)' <=> InBacklog(k)) /\ HandleAt(k) /\ k # NoHandle
    BY <1>r, <1>m, SlotsSame, SameBacklog, HandleAssumption DEF InQueue, OwnerInv, Handles
  <2>3. LifeAt(k)' /\ CountAt(k)' /\ PeerAt(k)'
    BY <1>r, <1>m, <1>7, <2>1, <2>2, LifeKept, CountKept, PeerKept DEF HandleAt
  <2>4. OwnerAt(k)'
    BY <1>7 DEF OwnerAt
  <2>5. TableAt(k)'
    <3>1. obj[k].fd \in MaybeFd
      BY <1>r, ObjField
    <3>2. Registered(k)' => <<obj[k].fd, k>> \in mgr'.todo
      BY <1>r, <1>m, <2>2, <3>1 DEF Registered, MaybeFd
    <3> QED BY <1>r, <2>1, <2>2, <3>2 DEF TableAt, HandleAt, Registered, DoesSame
  <2> QED BY <2>3, <2>4, <2>5 DEF HandleAt
<1>14. ThreadAt'
  <2>1. \A g \in mgr'.todo : tcp.connections[g[1]] = g[2]
    BY <1>m
  <2> QED BY <1>r, <1>o, <1>m, <2>1 DEF ThreadAt, PhaseAt, Moved
<1>15. PlacesOK'
  BY <1>r, <1>m, <1>7 DEF PlacesOK
<1> QED BY <1>6, <1>14, <1>15 DEF Handles

(* The connection ConnTcp::end turns to is open for reading and is filed   *)
(* nowhere else.                                                           *)
LEMMA EndNextKeeps ==
  ASSUME OneThread, OwnerInv, EndNext
  PROVE  ThreadAt' /\ PlacesOK' /\ Handles'
<1>1. PICK e \in mgr.todo :
        /\ op[Main].pc = "next"
        /\ mgr' = [mgr EXCEPT !.todo = @ \ {e}]
        /\ Call(Main, IF obj[e[2]].closed_wr THEN "drain" ELSE "eos", e[2], TRUE, FALSE, "drain")
        /\ UNCHANGED <<obj, tcp, io, slot, sock, wire, backlog>>
  BY DEF EndNext, At
<1>r. /\ UNCHANGED <<obj, tcp, io, slot, sock, wire, backlog>> /\ op[Main].pc = "next"
      /\ TypeOK /\ PlacesOK /\ PhaseAt("next")
  BY <1>1 DEF OwnerInv, ThreadAt
<1>2. PICK h \in Handle, f \in FD : e = <<f, h>>
  BY <1>r, Fields
<1>3. HandleAt(h) /\ h # NoHandle
  BY HandleAssumption DEF OwnerInv, Handles
<1>c. /\ mgr.phase = "end" /\ ~Running /\ tcp.connections[f] = h /\ obj[h].fd = f
      /\ Registered(h) /\ obj[h].life = "live" /\ ~obj[h].closed_rd
  <2>1. mgr.phase = "end" /\ tcp.connections[f] = h
    BY <1>r, <1>2 DEF PhaseAt
  <2>2. obj[h].fd = f /\ f # NoFd
    BY <1>r, <1>2, <1>3, <2>1, Fields DEF HandleAt, TableAt
  <2>3. ~obj[h].closed_rd
    BY <1>r, <1>3, <2>1, <2>2 DEF HandleAt, TableAt, Registered, Does
  <2> QED BY <1>3, <2>1, <2>2, <2>3 DEF HandleAt, TableAt, Registered, Running
<1>m. /\ mgr'.handleReady = mgr.handleReady /\ mgr'.groupsReady = mgr.groupsReady
      /\ mgr'.phase = mgr.phase /\ mgr'.todo = mgr.todo \ {e}
  <2>1. PICK T : T = mgr.todo \ {e}
    OBVIOUS
  <2>2. mgr' = [mgr EXCEPT !.todo = T]
    BY <1>1, <2>1
  <2> QED BY <1>r, <2>1, <2>2, Fields DEF MgrState
<1>4. PICK b \in BOOLEAN : b <=> obj[h].closed_wr
  OBVIOUS
<1>o. Called(IF b THEN "drain" ELSE "eos", h, TRUE, FALSE, "drain")
  <2>1. CASE b
    <3>1. Call(Main, "drain", h, TRUE, FALSE, "drain")
      BY <1>1, <1>2, <1>4, <2>1
    <3> QED BY <1>r, <2>1, <3>1, OpMoves
  <2>2. CASE ~b
    <3>1. Call(Main, "eos", h, TRUE, FALSE, "drain")
      BY <1>1, <1>2, <1>4, <2>2
    <3> QED BY <1>r, <2>2, <3>1, OpMoves
  <2> QED BY <2>1, <2>2
<1>7. ~Running' /\ \A k : (InQueue(k)' <=> InQueue(k))
  BY <1>c, <1>m DEF Running, InQueue
<1>6. ASSUME NEW k \in Handle, k # h PROVE Kept(k)
  <2>1. OpKept(k)
    BY <1>r, <1>6, <1>o, OpOther DEF Called
  <2>2. <<obj[k].fd, k>> \in mgr.todo => <<obj[k].fd, k>> \in mgr'.todo
    BY <1>2, <1>m, <1>6
  <2> QED BY <1>r, <1>c, <1>m, <1>7, <2>1, <2>2, SlotsSame, SameBacklog DEF Kept
<1>8. /\ ~Does(h, Ending) /\ ~Does(h, {"mark"}) /\ ~Does(h, {"mark"})'
      /\ Does(h, Ending \union {"drain"})' /\ ~Does(h, Finishing)
      /\ ~Dropping(h) /\ ~Dropping(h)'
  BY <1>r, <1>o DEF Called, Does, Dropping, Finishing, Ending
<1>s. /\ Wrappers(h)' = Wrappers(h) /\ (InBacklog(h)' <=> InBacklog(h))
  BY <1>r, SlotsSame, SameBacklog
<1>9. LifeAt(h)'
  BY <1>3, <1>c, <1>r, <1>8 DEF LifeAt, HandleAt
<1>10. TableAt(h)'
  BY <1>3, <1>c, <1>r, <1>8 DEF TableAt, HandleAt, Registered
<1>11. CountAt(h)'
  BY <1>3, <1>r, <1>7, <1>8, <1>s DEF CountAt, HandleAt, One
<1>12. OwnerAt(h)'
  BY <1>7 DEF OwnerAt
<1>13. PeerAt(h)'
  BY <1>r, <1>3, <1>s, PeerKept DEF HandleAt
<1>14. ThreadAt'
  <2>1. ASSUME NEW g \in mgr'.todo PROVE g[2] # h
    <3>1. g \in mgr.todo /\ g # e
      BY <1>m, <2>1
    <3>2. PICK x \in FD, k \in Handle : g = <<x, k>>
      BY <1>r, <3>1, Fields
    <3>3. k = h => x = f
      BY <1>r, <1>3, <1>c, <3>1, <3>2 DEF PhaseAt, HandleAt, TableAt
    <3> QED BY <1>2, <3>1, <3>2, <3>3
  <2>2. CallAt(op[Main], obj[h])'
    BY <1>c, <1>4, <1>o, <1>r, <1>7, <2>1 DEF CallAt, Called, Ending, Finishing
  <2>3. PhaseAt("eos")' /\ PhaseAt("drain")'
    BY <1>r, <1>c, <1>m DEF PhaseAt, Ending
  <2>4. op'[Main].h = h /\ op'[Main].pc \in {"eos", "drain"}
    BY <1>o DEF Called
  <2>5. PhaseAt(op[Main].pc)'
    BY <2>3, <2>4 DEF PhaseAt
  <2> QED BY <2>2, <2>4, <2>5 DEF ThreadAt
<1>15. PlacesOK'
  BY <1>r, <1>c, <1>m, <1>7 DEF PlacesOK
<1> QED BY <1>2, <1>6, <1>9, <1>10, <1>11, <1>12, <1>13, <1>14, <1>15, StepWith DEF HandleAt

LEMMA EndDoneKeeps ==
  ASSUME OneThread, OwnerInv, EndDone
  PROVE  ThreadAt' /\ PlacesOK' /\ Handles'
<1>r. /\ UNCHANGED <<obj, tcp, io, slot, sock, wire, backlog>> /\ op[Main].pc = "next"
      /\ TypeOK /\ PlacesOK /\ mgr.todo = {}
  BY DEF EndDone, At, OwnerInv
<1>1. PhaseAt("next")
  BY <1>r DEF OwnerInv, ThreadAt
<1>m. /\ mgr'.handleReady = mgr.handleReady /\ mgr'.groupsReady = mgr.groupsReady
      /\ mgr'.phase = "done" /\ mgr'.todo = mgr.todo
  BY <1>r, Fields DEF MgrState, EndDone
<1>2. ~Running /\ ~Running'
  BY <1>r, <1>1, <1>m, Fields DEF PhaseAt, Running, Ending, Finishing
<1>o. Idled
  BY <1>r, OpMoves DEF EndDone
<1>6. ASSUME NEW k \in Handle PROVE Kept(k)
  <2>1. OpKept(k)
    BY <1>r, <1>o, OpOther DEF Idled
  <2> QED BY <1>r, <1>m, <1>2, <2>1, SlotsSame, SameBacklog DEF Kept, InQueue
<1>14. ThreadAt'
  BY <1>1, <1>r, <1>m, <1>o DEF ThreadAt, PhaseAt, Idled
<1>15. PlacesOK'
  BY <1>r, <1>m, <1>2 DEF PlacesOK
<1> QED BY <1>6, <1>14, <1>15, StepAside

(* setAsClosed goes on to close the read side of a connection whose write  *)
(* side is closed.                                                         *)
LEMMA DrainSkipKeeps ==
  ASSUME OneThread, OwnerInv, DrainSkip
  PROVE  ThreadAt' /\ PlacesOK' /\ Handles'
<1>1. PICK h : h = op[Main].h
  OBVIOUS
<1>2. /\ op[Main].pc = "drain" /\ TypeOK /\ PlacesOK
      /\ UNCHANGED <<obj, tcp, io, mgr, slot, sock, wire, backlog>>
  BY DEF DrainSkip, At, OwnerInv
<1>3. h \in Handle /\ CallAt(op[Main], obj[h]) /\ HandleAt(h) /\ PhaseAt("drain")
  BY <1>1, <1>2, InCall
<1>o. Called("eos", h, FALSE, TRUE, "next")
  BY <1>1, <1>2, OpMoves DEF DrainSkip, CloseRead
<1>c. /\ obj[h].life = "live" /\ ~obj[h].closed_rd /\ obj[h].closed_wr /\ ~Running
      /\ mgr.phase = "end"
  BY <1>2, <1>3, Fields DEF CallAt, PhaseAt, Running
<1>6. ASSUME NEW k \in Handle, k # h PROVE Kept(k)
  <2>1. OpKept(k)
    BY <1>1, <1>6, <1>o, OpOther DEF Called
  <2> QED BY <1>2, <1>6, <2>1, SlotsSame, SameMgr, SameBacklog DEF Kept
<1>7. /\ Wrappers(h)' = Wrappers(h) /\ (InQueue(h)' <=> InQueue(h))
      /\ (InBacklog(h)' <=> InBacklog(h)) /\ ~Running'
  BY <1>2, <1>c, SlotsSame, SameMgr, SameBacklog
<1>8. /\ ~Does(h, {"mark"}) /\ ~Does(h, {"mark"})' /\ Does(h, Ending \union {"drain"})'
      /\ ~Dropping(h) /\ ~Dropping(h)'
  BY <1>2, <1>o DEF Called, Does, Dropping, Finishing, Ending
<1>9. LifeAt(h)'
  BY <1>2, <1>3, <1>c, <1>8 DEF LifeAt, HandleAt
<1>10. TableAt(h)'
  BY <1>2, <1>3, <1>c, <1>8 DEF TableAt, HandleAt, Registered
<1>11. CountAt(h)'
  BY <1>2, <1>3, <1>7, <1>8 DEF CountAt, HandleAt, One
<1>12. OwnerAt(h)'
  BY <1>7 DEF OwnerAt
<1>13. PeerAt(h)'
  BY <1>2, <1>3, <1>7, PeerKept DEF HandleAt
<1>14. ThreadAt'
  <2>1. CallAt(op[Main], obj[h])'
    BY <1>1, <1>2, <1>3, <1>c, <1>o, <1>7 DEF CallAt, Called, Ending, Finishing
  <2>2. PhaseAt("eos")'
    BY <1>2, <1>3, <1>c DEF PhaseAt, Ending
  <2> QED BY <1>o, <2>1, <2>2 DEF ThreadAt, Called
<1> QED BY <1>2, <1>3, <1>6, <1>9, <1>10, <1>11, <1>12, <1>13, <1>14, StepWith, PlacesKept
        DEF HandleAt

(* The blocking finalize: an EOS ends the wait, a reset ends setAsClosed.  *)
LEMMA DrainKeeps ==
  ASSUME OneThread, OwnerInv, Drain
  PROVE  ThreadAt' /\ PlacesOK' /\ Handles'
<1>1. PICK h, frame :
        /\ h = op[Main].h /\ frame = Head(wire[h].in)
        /\ wire[h].in # <<>> /\ wire' = Consume(h)
        /\ obj' = [obj EXCEPT ![h].probed = IF frame = "rst" THEN @
                                            ELSE IF frame = "msg" THEN "msg" ELSE "no"]
        /\ CASE frame = "eos" -> CloseRead(h)
             [] frame = "rst" -> Goto(Main, "next")
             [] OTHER         -> UNCHANGED op
  BY DEF Drain
<1>2. /\ op[Main].pc = "drain" /\ TypeOK /\ PlacesOK /\ BlockFlag
      /\ UNCHANGED <<tcp, io, mgr, slot, sock, backlog>>
  BY DEF Drain, At, OwnerInv
<1>3. h \in Handle /\ CallAt(op[Main], obj[h]) /\ HandleAt(h) /\ PhaseAt("drain") /\ h # NoHandle
  BY <1>1, <1>2, InCall
<1>c. /\ obj[h].life = "live" /\ ~obj[h].closed_rd /\ obj[h].closed_wr /\ ~Running
      /\ mgr.phase = "end" /\ ~InBacklog(h) /\ io.h # h
  <2>1. mgr.phase = "end" /\ ~Running
    BY <1>2, <1>3, Fields DEF PhaseAt, Running
  <2>2. io.h = NoHandle
    BY <1>2, <2>1 DEF PlacesOK
  <2> QED BY <1>2, <1>3, <2>1, <2>2 DEF CallAt, HandleAt, PeerAt
<1>5. /\ obj'[h].fd = obj[h].fd /\ obj'[h].life = obj[h].life
      /\ obj'[h].counter = obj[h].counter
      /\ obj'[h].closed_wr = obj[h].closed_wr /\ obj'[h].closed_rd = obj[h].closed_rd
      /\ \A k \in Handle : k # h => obj'[k] = obj[k]
  <2>1. obj[h] \in HandleObject
    BY <1>2, <1>3, ObjField
  <2>2. PICK x : x = IF frame = "rst" THEN obj[h].probed ELSE IF frame = "msg" THEN "msg" ELSE "no"
    OBVIOUS
  <2>3. PICK o : o = [obj[h] EXCEPT !.probed = x]
    OBVIOUS
  <2>4. obj' = [obj EXCEPT ![h] = o]
    BY <1>1, <1>2, <1>3, <2>2, <2>3 DEF TypeOK, Types
  <2>5. obj'[h] = o /\ \A k \in Handle : k # h => obj'[k] = obj[k]
    BY <1>2, <1>3, <2>4, ObjUpdate
  <2> QED BY <2>1, <2>3, <2>5 DEF HandleObject
<1>w. /\ wire'[h].peer = wire[h].peer /\ wire'[h].out = wire[h].out
      /\ InSeq(wire'[h].in, "fin") => InSeq(wire[h].in, "fin") \/ InSeq(wire[h].in, "rst")
      /\ InSeq(wire'[h].in, "rst") => InSeq(wire[h].in, "rst")
      /\ InSeq(wire[h].in, frame)
      /\ \A k \in Handle : k # h => wire'[k] = wire[k]
  BY <1>1, <1>2, <1>3, Consumed
<1>o. \/ Called("eos", h, FALSE, TRUE, "next")
      \/ Moved("next") /\ frame = "rst"
      \/ op' = op
  <2>1. frame = "eos" => Called("eos", h, FALSE, TRUE, "next")
    <3>1. frame = "eos" => Call(Main, "eos", h, FALSE, TRUE, "next")
      BY <1>1 DEF CloseRead
    <3> QED BY <1>2, <3>1, OpMoves
  <2>2. frame = "rst" => Moved("next")
    <3>1. frame = "rst" => Goto(Main, "next")
      BY <1>1
    <3> QED BY <1>2, <3>1, OpMoves
  <2> QED BY <1>1, <2>1, <2>2
<1>6. ASSUME NEW k \in Handle, k # h PROVE Kept(k)
  <2>1. OpKept(k)
    BY <1>1, <1>6, <1>o, OpOther DEF Called, Moved, OpKept
  <2> QED BY <1>2, <1>5, <1>w, <1>6, <2>1, SlotsSame, SameMgr, SameBacklog DEF Kept
<1>7. /\ Wrappers(h)' = Wrappers(h) /\ (InQueue(h)' <=> InQueue(h))
      /\ (InBacklog(h)' <=> InBacklog(h)) /\ ~Running'
  BY <1>2, <1>c, SlotsSame, SameMgr, SameBacklog
<1>8. /\ ~Does(h, {"mark"}) /\ ~Does(h, {"mark"})' /\ ~Dropping(h) /\ ~Dropping(h)'
      /\ Does(h, Ending \union {"drain"})' \/ wire[h].peer = "reset"
  <2>1. frame = "rst" => wire[h].peer = "reset"
    BY <1>3, <1>w DEF HandleAt, PeerAt
  <2> QED BY <1>1, <1>2, <1>o, <2>1 DEF Called, Moved, Does, Dropping, Finishing, Ending
<1>9. LifeAt(h)'
  BY <1>3, <1>c, <1>5, <1>w, <1>8 DEF LifeAt, HandleAt
<1>10. TableAt(h)'
  BY <1>2, <1>3, <1>c, <1>5, <1>w, <1>8 DEF TableAt, HandleAt, Registered
<1>11. CountAt(h)'
  BY <1>3, <1>5, <1>7, <1>8 DEF CountAt, HandleAt, One
<1>12. OwnerAt(h)'
  BY <1>7 DEF OwnerAt
<1>13. PeerAt(h)'
  BY <1>2, <1>3, <1>c, <1>5, <1>w, <1>7 DEF HandleAt, PeerAt, Broken
<1>14. ThreadAt'
  <2>1. CASE Called("eos", h, FALSE, TRUE, "next")
    <3>1. CallAt(op[Main], obj[h])'
      BY <1>1, <1>2, <1>3, <1>c, <1>5, <1>7, <2>1 DEF CallAt, Called, Ending, Finishing
    <3>2. PhaseAt("eos")'
      BY <1>2, <1>3, <1>c DEF PhaseAt, Ending
    <3> QED BY <2>1, <3>1, <3>2 DEF ThreadAt, Called
  <2>2. CASE Moved("next")
    <3>1. PhaseAt("next")'
      BY <1>2, <1>3, <1>c DEF PhaseAt, Ending
    <3> QED BY <2>2, <3>1 DEF ThreadAt, Moved
  <2>3. CASE op' = op
    <3>1. CallAt(op[Main], obj[h])'
      BY <1>1, <1>2, <1>3, <1>c, <1>5, <1>7, <2>3 DEF CallAt, Ending, Finishing
    <3>2. PhaseAt("drain")'
      BY <1>2, <1>3, <1>c DEF PhaseAt, Ending
    <3> QED BY <1>1, <1>2, <2>3, <3>1, <3>2 DEF ThreadAt
  <2> QED BY <1>o, <2>1, <2>2, <2>3
<1> QED BY <1>2, <1>3, <1>6, <1>9, <1>10, <1>11, <1>12, <1>13, <1>14, StepWith, PlacesKept
        DEF HandleAt

-----------------------------------------------------------------------------
(***************************************************************************)
(* The IO thread.                                                          *)
(***************************************************************************)
(* A step of the IO thread between two connections.                        *)
LEMMA IoAside ==
  ASSUME OwnerInv, UNCHANGED <<obj, tcp, mgr, slot, op, sock, wire, backlog>>,
         io'.h = io.h, io.pc # "handshake", io'.pc # "handshake",
         io'.tmpset \subseteq io.tmpset \union tcp.set, io.pc # "exited"
  PROVE  ThreadAt' /\ PlacesOK' /\ Handles'
<1>1. ASSUME NEW k \in Handle PROVE Kept(k)
  BY SlotsSame, SameMgr, SameBacklog DEF Kept, OpKept
<1>2. ThreadAt'
  BY DEF OwnerInv, ThreadAt, CallAt, PhaseAt, Running
<1>3. PlacesOK'
  BY DEF OwnerInv, PlacesOK, Running
<1> QED BY <1>1, <1>2, <1>3, StepAside

LEMMA IoGoes ==
  ASSUME TypeOK, NEW l, NEW T, io' = [io EXCEPT !.pc = l, !.tmpset = T]
  PROVE  io'.pc = l /\ io'.tmpset = T /\ io'.h = io.h
BY Fields DEF IoState

LEMMA IoIdleKeeps ==
  ASSUME OneThread, OwnerInv, IoExit \/ Snapshot \/ Select \/ ScanDone
  PROVE  ThreadAt' /\ PlacesOK' /\ Handles'
<1>1. UNCHANGED <<obj, tcp, mgr, slot, op, sock, wire, backlog>> /\ TypeOK /\ PlacesOK
  BY DEF IoExit, Snapshot, Select, ScanDone, OwnerInv
<1>2. io.pc # "handshake" /\ io.pc # "exited" /\ Running
  BY <1>1 DEF IoExit, Snapshot, Select, ScanDone, PlacesOK
<1>3. /\ io'.h = io.h /\ io'.pc # "handshake"
      /\ io'.tmpset \subseteq io.tmpset \union tcp.set
  <2>1. CASE IoExit \/ ScanDone
    <3>1. io \in IoState
      BY <1>1, Fields
    <3> QED BY <2>1, <3>1 DEF IoExit, ScanDone, IoGoto, IoState
  <2>2. CASE Snapshot
    <3>1. PICK T, l : T = tcp.set /\ l = "select"
      OBVIOUS
    <3>2. io' = [io EXCEPT !.pc = l, !.tmpset = T]
      BY <2>2, <3>1 DEF Snapshot
    <3>3. io'.pc = l /\ io'.tmpset = T /\ io'.h = io.h
      BY <1>1, <3>2, IoGoes
    <3> QED BY <3>1, <3>3
  <2>3. CASE Select
    <3>1. PICK T, l : /\ io' = [io EXCEPT !.pc = l, !.tmpset = T]
                      /\ T \subseteq io.tmpset /\ l \in {"snapshot", "scan"}
      <4>1. PICK T : /\ T = IF {f \in io.tmpset : f <= tcp.fdmax} \subseteq OpenFd
                            THEN {f \in {f \in io.tmpset : f <= tcp.fdmax} : ReadyToRead(f)}
                            ELSE {}
        OBVIOUS
      <4>2. io' = [io EXCEPT !.tmpset = T, !.pc = IF T = {} THEN "snapshot" ELSE "scan"]
        BY <2>3, <4>1 DEF Select
      <4>3. T \subseteq io.tmpset
        BY <4>1
      <4>4. PICK l : l = IF T = {} THEN "snapshot" ELSE "scan"
        OBVIOUS
      <4>5. io' = [io EXCEPT !.pc = l, !.tmpset = T]
        BY <4>2, <4>4
      <4> QED BY <4>3, <4>4, <4>5
    <3> QED BY <1>1, <3>1, IoGoes
  <2> QED BY <2>1, <2>2, <2>3
<1> QED BY <1>1, <1>2, <1>3, IoAside

(* A connection in the hands of the IO thread, in the queue or in the set  *)
(* has no other owner.                                                     *)
LEMMA OneAway ==
  ASSUME OwnerInv, Running, NEW h \in Handle,
         io.h = h \/ InQueue(h) \/ (obj[h].fd # NoFd /\ obj[h].fd \in tcp.set)
  PROVE  /\ Away(h) = 1 /\ Readers(h) = {} /\ ~obj[h].closed_rd /\ ~ClosingRead(h)
         /\ obj[h].life = "live" /\ ~InBacklog(h) /\ HandleAt(h) /\ Registered(h)
<1>1. HandleAt(h) /\ obj[h].life \in Life
  BY ObjField DEF OwnerInv, Handles, HandleObject
<1>2. Away(h) \in Nat /\ Away(h) # 0
  BY DEF Away, One
<1>3. Away(h) = 1 /\ Readers(h) = {} /\ ~obj[h].closed_rd /\ ~ClosingRead(h)
  BY <1>1, <1>2 DEF HandleAt, OwnerAt
<1>4. obj[h].life = "live"
  BY <1>1 DEF HandleAt, LifeAt, Unreachable, Life
<1> QED BY <1>1, <1>3, <1>4 DEF HandleAt, PeerAt, TableAt

(* An accepted connection is registered and in the IO thread's hands.      *)
LEMMA AcceptKeeps ==
  ASSUME OneThread, OwnerInv, Accept
  PROVE  ThreadAt' /\ PlacesOK' /\ Handles'
<1>1. PICK h : h = Head(backlog)
  OBVIOUS
<1>r. /\ UNCHANGED <<mgr, slot, op, wire>> /\ io.pc = "scan" /\ FreeFd # {} /\ TypeOK
      /\ PlacesOK
  BY DEF Accept, OwnerInv
<1>b. backlog # <<>> /\ Running /\ io.h = NoHandle
  <2>1. Scanning # {} /\ Scanning \subseteq FD /\ Lowest(Scanning) = tcp.listen_sck
    BY <1>r, Fields DEF Accept, Scanning
  <2>0. Scanning \subseteq Nat
    BY <2>1, FdAssumption DEF FD
  <2>2. Lowest(Scanning) \in Scanning
    BY <2>0, <2>1, LowestIsLeast
  <2>3. tcp.listen_sck \in io.tmpset
    BY <2>1, <2>2 DEF Scanning
  <2> QED BY <1>r, <2>3 DEF TypeOK, BusyIo, PlacesOK
<1>q. /\ h \in Handle /\ InBacklog(h) /\ ~InBacklog(h)' /\ Distinct(backlog')
      /\ \A k \in Handle : k # h => (InBacklog(k)' <=> InBacklog(k))
  <2>1. backlog \in Seq(Handle) /\ Distinct(backlog) /\ backlog' = Tail(backlog)
    BY <1>r, Fields DEF PlacesOK, Accept
  <2> QED BY <1>1, <1>b, <2>1, TailIn DEF InBacklog
<1>2. HandleAt(h) /\ h # NoHandle
  BY <1>q, HandleAssumption DEF OwnerInv, Handles
<1>n. /\ obj[h].life = "none" /\ UnusedAt(h) /\ Unreachable(h) /\ Greets(wire[h])
      /\ wire[h].peer # "none"
  BY <1>q, <1>2 DEF HandleAt, PeerAt, LifeAt
<1>3. PICK f : f = Lowest(FreeFd)
  OBVIOUS
<1>4. /\ f \in FD /\ f # NoFd /\ sock[f] = NoHandle /\ f # tcp.listen_sck /\ f \notin tcp.set
      /\ \A k \in Handle : obj[k].fd # f /\ tcp.connections[f] # k
  BY <1>r, <1>b, <1>3, FreshFd
<1>t. /\ tcp'.set = tcp.set /\ tcp'.listen_sck = tcp.listen_sck
      /\ tcp'.connections[f] = h /\ sock'[f] = h
      /\ \A g \in FD : g # f => tcp'.connections[g] = tcp.connections[g] /\ sock'[g] = sock[g]
  <2>1. Register(h, f)
    BY <1>1, <1>3 DEF Accept
  <2>2. tcp' = [tcp EXCEPT !.connections = [tcp.connections EXCEPT ![f] = h]]
    BY <2>1 DEF Register
  <2>3. sock' = [sock EXCEPT ![f] = h]
    BY <2>1 DEF Register
  <2> QED BY <1>r, <1>4, <2>2, <2>3, Fields DEF TcpState
<1>i. io'.pc = "handshake" /\ io'.h = h /\ io'.tmpset = io.tmpset \ {tcp.listen_sck}
  BY <1>1 DEF Accept
<1>5. /\ obj'[h].fd = f /\ obj'[h].life = "live" /\ obj'[h].counter = obj[h].counter
      /\ obj'[h].closed_wr = obj[h].closed_wr /\ obj'[h].closed_rd = obj[h].closed_rd
      /\ \A k \in Handle : k # h => obj'[k] = obj[k]
  <2>1. obj[h] \in HandleObject
    BY <1>r, <1>q, ObjField
  <2>3. PICK r : r = [obj[h] EXCEPT !.fd = f, !.life = "live"]
    OBVIOUS
  <2>4. obj' = [obj EXCEPT ![h] = r]
    BY <1>1, <1>q, <1>r, <1>3, <2>1, <2>3 DEF Accept, TypeOK, Types
  <2>5. obj'[h] = r /\ \A k \in Handle : k # h => obj'[k] = obj[k]
    BY <1>r, <1>q, <2>4, ObjUpdate
  <2> QED BY <2>1, <2>3, <2>5 DEF HandleObject
<1>6. ASSUME NEW k \in Handle, k # h PROVE Kept(k)
  <2>1. OpKept(k)
    BY <1>r DEF OpKept
  <2>2. \A g \in FD : /\ tcp'.connections[g] = k <=> tcp.connections[g] = k
                      /\ sock'[g] = k <=> sock[g] = k
    BY <1>t, <1>4, <1>6, HandleAssumption
  <2>3. k # NoHandle
    BY HandleAssumption
  <2> QED BY <1>r, <1>b, <1>i, <1>q, <1>t, <1>5, <1>6, <2>1, <2>2, <2>3, SlotsSame, SameMgr
          DEF Kept
<1>7. /\ InQueue(h)' <=> InQueue(h)
      /\ Running' <=> Running
      /\ Wrappers(h)' = {} /\ Readers(h)' = {} /\ Wrappers(h) = {}
  BY <1>r, <1>n, SameMgr, SlotsSame DEF Unreachable, Readers
<1>8. OpKept(h) /\ DoesSame(h) /\ ~Busy(h) /\ ~Dropping(h) /\ ~Does(h, {"yield"}) /\ ~Does(h, {"mark"})'
  BY <1>r, <1>n, DoesKept DEF OpKept, Dropping, Does, Unreachable, Busy
<1>9. LifeAt(h)'
  BY <1>2, <1>n, <1>5, <1>r, <1>8 DEF LifeAt, UnusedAt, HandleAt
<1>10. TableAt(h)'
  <2>1. \A g \in FD : ~(sock[g] = h \/ tcp.connections[g] = h)
    BY <1>r, <1>2, <1>n, Fields DEF HandleAt, TableAt, Unreachable
  <2>2. Registered(h)' /\ ~obj'[h].closed_rd /\ ~obj'[h].closed_wr
    BY <1>4, <1>5, <1>t, <1>n DEF Registered, UnusedAt
  <2> QED BY <1>b, <1>4, <1>5, <1>t, <1>7, <2>1, <2>2 DEF TableAt
<1>11. CountAt(h)'
  BY <1>2, <1>5, <1>7, <1>8 DEF CountAt, HandleAt, One, DoesSame
<1>12. OwnerAt(h)'
  <2>1. Away(h)' = 1
    BY <1>4, <1>5, <1>n, <1>r, <1>b, <1>i, <1>t, <1>7, <1>8 DEF Away, One, DoesSame, Unreachable
  <2>2. ~ClosingRead(h)' /\ ~obj'[h].closed_rd
    BY <1>5, <1>8, <1>n DEF DoesSame, ClosingRead, Busy, Does, UnusedAt
  <2> QED BY <1>7, <2>1, <2>2 DEF OwnerAt
<1>13. PeerAt(h)'
  <2>1. Greets(wire[h])'
    BY <1>n, <1>r DEF Greets
  <2> QED BY <1>2, <1>r, <1>n, <1>5, <1>q, <2>1 DEF PeerAt, HandleAt, Broken, UnusedAt
<1>14. ThreadAt'
  <2>1. ASSUME op[Main].pc \notin {"idle", "next"} PROVE CallAt(op[Main], obj[op[Main].h])'
    <3>1. /\ op[Main].h \in Handle /\ CallAt(op[Main], obj[op[Main].h]) /\ op[Main].h # h
      BY <2>1, <1>n, <1>q, InCall DEF Unreachable, Busy
    <3>2. obj'[op[Main].h] = obj[op[Main].h]
      BY <1>5, <3>1
    <3>3. op[Main].pc = "closefd" => tcp'.connections[obj[op[Main].h].fd] # op[Main].h
      BY <3>1, <1>r, <1>t, <1>4, OpFields DEF CallAt
    <3> QED BY <1>r, <1>7, <3>1, <3>2, <3>3 DEF CallAt
  <2>2. PhaseAt(op[Main].pc)'
    BY <1>b, <1>r DEF OwnerInv, ThreadAt, PhaseAt, Running
  <2> QED BY <1>r, <2>1, <2>2 DEF ThreadAt, OwnerInv
<1>15. PlacesOK'
  <2>1. tcp.set \subseteq FD /\ (tcp.listen_sck # NoFd => tcp.listen_sck \in FD)
    BY <1>r, Fields DEF MaybeFd
  <2> QED BY <1>r, <1>b, <1>i, <1>t, <1>4, <1>7, <1>q, <1>2, <2>1 DEF PlacesOK
<1> QED BY <1>q, <1>6, <1>9, <1>10, <1>11, <1>12, <1>13, <1>14, <1>15, StepWith DEF HandleAt

(* A step beside the thread that changes no more than reference counts.    *)
LEMMA ThreadSame ==
  ASSUME OwnerInv, op' = op, tcp'.connections = tcp.connections,
         mgr'.phase = mgr.phase, mgr'.todo = mgr.todo,
         \A k \in Handle : /\ obj'[k].fd = obj[k].fd /\ obj'[k].life = obj[k].life
                           /\ obj'[k].probed = obj[k].probed
                           /\ obj'[k].closed_rd = obj[k].closed_rd
                           /\ obj'[k].closed_wr = obj[k].closed_wr
  PROVE  ThreadAt'
<1>1. ASSUME op[Main].pc \notin {"idle", "next"} PROVE CallAt(op[Main], obj[op[Main].h])'
  <2>1. op[Main].h \in Handle /\ CallAt(op[Main], obj[op[Main].h])
    BY <1>1, InCall
  <2> QED BY <2>1 DEF CallAt, Running
<1>2. PhaseAt(op[Main].pc)'
  BY DEF OwnerInv, ThreadAt, PhaseAt
<1> QED BY <1>1, <1>2 DEF OwnerInv, ThreadAt

(* addinQ: the queue holds the connection, and counts it.                  *)
LEMMA Enqueued ==
  ASSUME OwnerInv, NEW h \in Handle, Enqueue(h), ~InQueue(h)
  PROVE  /\ obj'[h].fd = obj[h].fd /\ obj'[h].life = obj[h].life
         /\ obj'[h].counter = obj[h].counter + 1 /\ obj'[h].probed = obj[h].probed
         /\ obj'[h].closed_wr = obj[h].closed_wr /\ obj'[h].closed_rd = obj[h].closed_rd
         /\ \A k \in Handle : k # h => obj'[k] = obj[k]
         /\ mgr'.phase = mgr.phase /\ mgr'.todo = mgr.todo
         /\ mgr'.groupsReady = mgr.groupsReady
         /\ InQueue(h)' /\ Distinct(mgr'.handleReady)
         /\ \A k \in Handle : k # h => (InQueue(k)' <=> InQueue(k))
<1>1. TypeOK /\ PlacesOK /\ mgr.handleReady \in Seq(Handle) /\ mgr \in MgrState
  BY Fields DEF OwnerInv
<1>2. PICK q : q = Append(mgr.handleReady, h)
  OBVIOUS
<1>3. mgr' = [mgr EXCEPT !.handleReady = q]
  BY <1>2 DEF Enqueue
<1>4. /\ mgr'.handleReady = q /\ mgr'.phase = mgr.phase /\ mgr'.todo = mgr.todo
      /\ mgr'.groupsReady = mgr.groupsReady
  BY <1>1, <1>3 DEF MgrState
<1>5. /\ InQueue(h)' /\ Distinct(mgr'.handleReady)
      /\ \A k \in Handle : k # h => (InQueue(k)' <=> InQueue(k))
  <2>1. /\ \A k : InSeq(q, k) <=> InSeq(mgr.handleReady, k) \/ k = h
        /\ Distinct(mgr.handleReady) /\ ~InSeq(mgr.handleReady, h) => Distinct(q)
    <3>1. PICK a : a = mgr.handleReady
      OBVIOUS
    <3>2. a \in Seq(Handle) /\ q = Append(a, h)
      BY <1>1, <1>2, <3>1
    <3> QED BY <3>1, <3>2, AppendIn
  <2> QED BY <1>1, <1>4, <2>1 DEF InQueue, PlacesOK
<1>6. obj[h] \in HandleObject
  BY <1>1, ObjField
<1>7. PICK r : r = [obj[h] EXCEPT !.counter = obj[h].counter + 1]
  OBVIOUS
<1>8. obj' = [obj EXCEPT ![h] = r]
  BY <1>1, <1>6, <1>7 DEF Enqueue, TypeOK, Types
<1>9. obj'[h] = r /\ \A k \in Handle : k # h => obj'[k] = obj[k]
  BY <1>1, <1>8, ObjUpdate
<1> QED BY <1>4, <1>5, <1>6, <1>7, <1>9 DEF HandleObject

(* What update takes from the set goes to the queue, and nowhere else.     *)
LEMMA DeliverKeeps ==
  ASSUME OneThread, OwnerInv, Deliver
  PROVE  ThreadAt' /\ PlacesOK' /\ Handles'
<1>r. /\ UNCHANGED <<slot, op, sock, wire, backlog>> /\ io.pc = "scan"
      /\ Scanning # {} /\ TypeOK /\ PlacesOK /\ Running /\ io.h = NoHandle
  BY DEF Deliver, OwnerInv, PlacesOK
<1>1. PICK f : f = Lowest(Scanning)
  OBVIOUS
<1>2. f \in FD /\ f \in io.tmpset /\ f \in tcp.set /\ sock[f] \in Handle /\ f # NoFd
  <2>1. Scanning \subseteq FD /\ Scanning \subseteq io.tmpset
    BY <1>r, Fields DEF Scanning
  <2>0. Scanning \subseteq Nat
    BY <2>1, FdAssumption DEF FD
  <2>2. f \in Scanning
    BY <1>r, <1>1, <2>0, LowestIsLeast
  <2>3. f # tcp.listen_sck
    BY <1>1 DEF Deliver
  <2> QED BY <1>r, <2>1, <2>2, <2>3, Fields DEF PlacesOK, MaybeHandle
<1>3. PICK h \in Handle : h = sock[f] /\ h # NoHandle
  BY <1>2, HandleAssumption
<1>4. HandleAt(h) /\ obj[h].fd = f
  BY <1>2, <1>3 DEF OwnerInv, Handles, HandleAt, TableAt
<1>5. /\ Away(h) = 1 /\ Readers(h) = {} /\ ~obj[h].closed_rd /\ ~ClosingRead(h)
      /\ obj[h].life = "live" /\ ~InBacklog(h) /\ Registered(h)
  BY <1>r, <1>2, <1>4, OneAway
<1>6. ~InQueue(h) /\ ~Does(h, {"yield"}) /\ h \notin mgr.groupsReady
  BY <1>2, <1>4, <1>5 DEF Away, One
<1>e. Enqueue(h)
  BY <1>1, <1>3, <1>4, <1>5 DEF Deliver, Registered
<1>o. /\ obj'[h].fd = obj[h].fd /\ obj'[h].life = obj[h].life
      /\ obj'[h].counter = obj[h].counter + 1 /\ obj'[h].probed = obj[h].probed
      /\ obj'[h].closed_wr = obj[h].closed_wr /\ obj'[h].closed_rd = obj[h].closed_rd
      /\ \A k \in Handle : k # h => obj'[k] = obj[k]
      /\ mgr'.phase = mgr.phase /\ mgr'.todo = mgr.todo
      /\ mgr'.groupsReady = mgr.groupsReady
      /\ InQueue(h)' /\ Distinct(mgr'.handleReady)
      /\ \A k \in Handle : k # h => (InQueue(k)' <=> InQueue(k))
  BY <1>e, <1>6, Enqueued
<1>t. /\ tcp'.connections = tcp.connections /\ tcp'.set = tcp.set \ {f}
      /\ tcp'.listen_sck = tcp.listen_sck
  BY <1>r, <1>1, Cleared DEF Deliver
<1>i. io'.pc = io.pc /\ io'.h = io.h /\ io'.tmpset = io.tmpset \ {f}
  <2>1. PICK T : T = io.tmpset \ {f}
    OBVIOUS
  <2>2. io' = [io EXCEPT !.tmpset = T]
    BY <1>1, <2>1 DEF Deliver
  <2> QED BY <1>r, <2>1, <2>2, Fields DEF IoState
<1>7. Running' /\ \A k : (InBacklog(k)' <=> InBacklog(k))
  BY <1>r, <1>o, SameBacklog DEF Running
<1>8. ASSUME NEW k \in Handle, k # h PROVE Kept(k)
  <2>1. OpKept(k)
    BY <1>r DEF OpKept
  <2>2. obj[k].fd # f
    BY <1>2, <1>3, <1>8 DEF OwnerInv, Handles, HandleAt, TableAt
  <2> QED BY <1>r, <1>7, <1>i, <1>o, <1>t, <1>8, <2>1, <2>2, SlotsSame DEF Kept
<1>9. /\ Wrappers(h)' = Wrappers(h) /\ Readers(h)' = {} /\ DoesSame(h)
  BY <1>r, <1>5, SlotsSame, DoesKept DEF OpKept
<1>10. LifeAt(h)'
  <2>1. (Does(h, {"mark"}) /\ op[Main].wr)' <=> (Does(h, {"mark"}) /\ op[Main].wr)
    BY <1>9 DEF DoesSame
  <2> QED BY <1>4, <1>5, <1>o, <1>r, <2>1 DEF LifeAt, HandleAt
<1>11. TableAt(h)'
  <2>1. obj[h].fd \in MaybeFd /\ TableAt(h) /\ (Running' <=> Running)
    BY <1>4, <1>r, <1>7, ObjField DEF HandleAt
  <2> QED BY <1>r, <1>o, <1>t, <1>9, <2>1, TableKept
<1>12. CountAt(h)'
  <2>1. IsFiniteSet(Wrappers(h)) /\ Cardinality(Wrappers(h)) \in Nat
    BY <1>4, FS_CardinalityType DEF HandleAt, CountAt
  <2> QED BY <1>4, <1>6, <1>o, <1>9, <2>1 DEF CountAt, HandleAt, One, DoesSame
<1>13. OwnerAt(h)'
  <2>1. Away(h)' = 1
    BY <1>4, <1>6, <1>o, <1>t, <1>i, <1>r, <1>3, <1>9 DEF Away, One, DoesSame
  <2> QED BY <1>5, <1>o, <1>9, <2>1 DEF OwnerAt, DoesSame
<1>14. PeerAt(h)'
  BY <1>4, <1>5, <1>3, <1>7, <1>i, <1>r, <1>o DEF PeerAt, HandleAt, Broken
<1>15. ThreadAt'
  BY <1>r, <1>t, <1>o, ThreadSame
<1>16. PlacesOK'
  BY <1>r, <1>7, <1>i, <1>t, <1>o DEF PlacesOK
<1> QED BY <1>8, <1>10, <1>11, <1>12, <1>13, <1>14, <1>15, <1>16, StepWith DEF HandleAt

(* Of a team's handshake two frames are read, of any other one; what is    *)
(* neither a connection nor a team has lost its peer.                      *)
LEMMA Greeted ==
  ASSUME TypeOK, NEW h \in Handle, Greets(wire[h]), wire[h].in # <<>>, wire' = Consume(h)
  PROVE  /\ wire[h].in[1] \in {"p2p", "team", "id", "fin", "rst"}
         /\ wire[h].in[1] = "team" => Greets(wire'[h])
<1>1. wire[h] \in Stream /\ wire[h].in \in Seq(Frame)
  BY DEF TypeOK, Types, Stream
<1>2. PICK q : q = wire[h].in
  OBVIOUS
<1>3. CASE wire[h].peer = "named"
  <2>1. q = <<"team">>
    BY <1>2, <1>3 DEF Greets
  <2>2. q[1] = "team" /\ Head(q) = "team" /\ Tail(q) = <<>>
    BY <2>1
  <2>3. wire'[h].in = <<>> /\ wire'[h].peer = "named"
    BY <1>2, <1>3, <2>2, Consumed
  <2> QED BY <1>2, <2>2, <2>3 DEF Greets
<1>4. CASE wire[h].peer \notin {"new", "named"}
  <2>1. q[1] \in {"p2p", "team", "id", "fin", "rst"}
    BY <1>2, <1>4 DEF Greets
  <2>2. ASSUME q[1] = "team" PROVE Greets(wire'[h])
    <3>1. Len(q) >= 2 /\ q[2] \in {"id", "fin", "rst"} /\ Len(q) \in Nat
      BY <1>1, <1>2, <1>4, <2>2, LenProperties DEF Greets
    <3>2. Head(q) = "team" /\ Len(Tail(q)) = Len(q) - 1 /\ Tail(q)[1] = q[2]
      BY <1>1, <1>2, <2>2, <3>1, HeadTailProperties
    <3>3. wire'[h].in = Tail(q) /\ wire'[h].peer = wire[h].peer
      BY <1>2, <3>2, Consumed
    <3>4. Tail(q) # <<>>
      <4>1. PICK r : r = Tail(q)
        OBVIOUS
      <4>2. Len(r) >= 1 /\ Len(q) \in Nat
        BY <3>1, <3>2, <4>1
      <4>3. r # <<>>
        BY <4>2, EmptySeq
      <4> QED BY <4>1, <4>3
    <3> QED BY <1>4, <3>1, <3>2, <3>3, <3>4 DEF Greets
  <2> QED BY <1>2, <2>1, <2>2
<1>5. wire[h].peer # "new"
  BY DEF Greets
<1> QED BY <1>3, <1>4, <1>5

LEMMA HandshakeKeeps ==
  ASSUME OneThread, OwnerInv, Handshake
  PROVE  ThreadAt' /\ PlacesOK' /\ Handles'
<1>1. PICK h, frame :
        /\ h = io.h /\ frame = Head(wire[h].in)
        /\ wire[h].in # <<>> /\ wire' = Consume(h)
        /\ CASE frame = "p2p" -> Enqueue(h)
             [] frame = "id"  -> /\ mgr' = [mgr EXCEPT !.groupsReady = @ \union {h}]
                                 /\ UNCHANGED obj
             [] OTHER         -> UNCHANGED <<mgr, obj>>
        /\ io' = IF frame = "team" THEN io ELSE [io EXCEPT !.pc = "scan", !.h = NoHandle]
  BY DEF Handshake
<1>r. /\ UNCHANGED <<tcp, slot, op, sock, backlog>> /\ io.pc = "handshake"
      /\ TypeOK /\ PlacesOK /\ Running
  BY DEF Handshake, OwnerInv, PlacesOK
<1>2. h \in Handle /\ h # NoHandle
  BY <1>1, <1>r, HandleAssumption DEF TypeOK, BusyIo
<1>3. /\ Away(h) = 1 /\ Readers(h) = {} /\ ~obj[h].closed_rd /\ ~ClosingRead(h)
      /\ obj[h].life = "live" /\ ~InBacklog(h) /\ HandleAt(h) /\ Registered(h)
  BY <1>1, <1>2, <1>r, OneAway
<1>4. /\ ~InQueue(h) /\ ~Does(h, {"yield"}) /\ h \notin mgr.groupsReady
      /\ obj[h].fd \notin tcp.set
  BY <1>1, <1>3 DEF Away, One
<1>c. obj[h].counter = 0 /\ Greets(wire[h])
  BY <1>1, <1>3 DEF HandleAt, PeerAt
<1>w. /\ wire'[h].peer = wire[h].peer /\ wire'[h].out = wire[h].out
      /\ InSeq(wire'[h].in, "fin") => InSeq(wire[h].in, "fin") \/ InSeq(wire[h].in, "rst")
      /\ InSeq(wire'[h].in, "rst") => InSeq(wire[h].in, "rst")
      /\ InSeq(wire[h].in, frame) /\ frame = wire[h].in[1]
      /\ \A k \in Handle : k # h => wire'[k] = wire[k]
  BY <1>1, <1>2, <1>r, Consumed
<1>g. /\ frame \in {"p2p", "team", "id", "fin", "rst"}
      /\ frame = "team" => Greets(wire'[h])
      /\ frame \in {"fin", "rst"} => Broken(h)'
  <2>1. frame \in {"fin", "rst"} => Broken(h)
    BY <1>3, <1>w DEF HandleAt, PeerAt, Broken
  <2> QED BY <1>1, <1>2, <1>c, <1>r, <1>w, <2>1, Greeted DEF Broken
<1>i. /\ io'.tmpset = io.tmpset
      /\ frame = "team" => io'.pc = "handshake" /\ io'.h = h
      /\ frame # "team" => io'.pc = "scan" /\ io'.h = NoHandle
  BY <1>1, <1>r, Fields DEF IoState
<1>o. /\ obj'[h].fd = obj[h].fd /\ obj'[h].life = obj[h].life
      /\ obj'[h].probed = obj[h].probed
      /\ obj'[h].counter = IF frame = "p2p" THEN 1 ELSE 0
      /\ obj'[h].closed_wr = obj[h].closed_wr /\ obj'[h].closed_rd = obj[h].closed_rd
      /\ \A k \in Handle : k # h => obj'[k] = obj[k]
      /\ mgr'.phase = mgr.phase /\ mgr'.todo = mgr.todo
      /\ Distinct(mgr'.handleReady)
      /\ InQueue(h)' <=> frame = "p2p"
      /\ h \in mgr'.groupsReady <=> frame = "id"
      /\ \A k \in Handle : k # h => /\ InQueue(k)' <=> InQueue(k)
                                    /\ k \in mgr'.groupsReady <=> k \in mgr.groupsReady
  <2>1. CASE frame = "p2p"
    <3>1. Enqueue(h)
      BY <1>1, <2>1
    <3> QED BY <1>2, <1>4, <1>c, <2>1, <3>1, Enqueued
  <2>2. CASE frame = "id"
    <3>1. PICK G : G = mgr.groupsReady \union {h}
      OBVIOUS
    <3>2. obj' = obj /\ mgr' = [mgr EXCEPT !.groupsReady = G]
      BY <1>1, <2>2, <3>1
    <3>3. /\ mgr'.handleReady = mgr.handleReady /\ mgr'.groupsReady = G
          /\ mgr'.phase = mgr.phase /\ mgr'.todo = mgr.todo
      BY <1>r, <3>2, Fields DEF MgrState
    <3> QED BY <1>4, <1>c, <1>r, <2>2, <3>1, <3>2, <3>3 DEF InQueue, PlacesOK
  <2>3. CASE frame \notin {"p2p", "id"}
    <3>1. UNCHANGED <<mgr, obj>>
      BY <1>1, <2>3
    <3> QED BY <1>4, <1>c, <1>r, <2>3, <3>1 DEF InQueue, PlacesOK
  <2> QED BY <2>1, <2>2, <2>3
<1>7. Running' /\ \A k : (InBacklog(k)' <=> InBacklog(k))
  BY <1>r, <1>o, SameBacklog DEF Running
<1>8. ASSUME NEW k \in Handle, k # h PROVE Kept(k)
  <2>1. OpKept(k) /\ k # NoHandle
    BY <1>r, HandleAssumption DEF OpKept
  <2>2. io'.h # k /\ io.h # k
    BY <1>1, <1>i, <1>8, <2>1
  <2> QED BY <1>r, <1>7, <1>o, <1>w, <1>8, <2>1, <2>2, SlotsSame DEF Kept
<1>9. /\ Wrappers(h)' = Wrappers(h) /\ Readers(h)' = {} /\ DoesSame(h)
  BY <1>r, <1>3, SlotsSame, DoesKept DEF OpKept
<1>10. LifeAt(h)'
  <2>1. (Does(h, {"mark"}) /\ op[Main].wr)' <=> (Does(h, {"mark"}) /\ op[Main].wr)
    BY <1>9 DEF DoesSame
  <2> QED BY <1>3, <1>o, <1>w, <2>1 DEF LifeAt, HandleAt
<1>11. TableAt(h)'
  <2>1. obj[h].fd \in MaybeFd /\ TableAt(h) /\ (Running' <=> Running)
    BY <1>2, <1>3, <1>r, <1>7, ObjField DEF HandleAt
  <2> QED BY <1>r, <1>o, <1>w, <1>9, <2>1, TableKept
<1>12. CountAt(h)'
  <2>1. IsFiniteSet(Wrappers(h)) /\ Cardinality(Wrappers(h)) \in Nat
    BY <1>3, FS_CardinalityType DEF HandleAt, CountAt
  <2> QED BY <1>3, <1>4, <1>c, <1>o, <1>9, <2>1 DEF CountAt, HandleAt, One, DoesSame
<1>13. OwnerAt(h)'
  <2>1. Away(h)' = IF frame \in {"fin", "rst"} THEN 0 ELSE 1
    BY <1>2, <1>4, <1>g, <1>o, <1>i, <1>r, <1>9 DEF Away, One, DoesSame
  <2> QED BY <1>3, <1>g, <1>o, <1>9, <2>1 DEF OwnerAt, DoesSame
<1>14. PeerAt(h)'
  <2>1. InBacklog(h)' \/ io'.h = h => Greets(wire[h])' /\ obj'[h].counter = 0
    BY <1>2, <1>3, <1>7, <1>i, <1>o, <1>g DEF Greets
  <2> QED BY <1>3, <1>7, <1>w, <1>o, <2>1 DEF PeerAt, HandleAt, Broken
<1>15. ThreadAt'
  <2>1. \A k \in Handle : /\ obj'[k].fd = obj[k].fd /\ obj'[k].life = obj[k].life
                          /\ obj'[k].probed = obj[k].probed
                          /\ obj'[k].closed_rd = obj[k].closed_rd
                          /\ obj'[k].closed_wr = obj[k].closed_wr
    BY <1>o
  <2> QED BY <1>r, <1>o, <2>1, ThreadSame
<1>16. PlacesOK'
  BY <1>r, <1>7, <1>i, <1>o DEF PlacesOK
<1> QED BY <1>2, <1>8, <1>10, <1>11, <1>12, <1>13, <1>14, <1>15, <1>16, StepWith DEF HandleAt

-----------------------------------------------------------------------------
(***************************************************************************)
(* The peers.                                                              *)
(***************************************************************************)
LEMMA PeerConnectKeeps ==
  ASSUME OneThread, OwnerInv, NEW h \in Handle, PeerConnect(h)
  PROVE  ThreadAt' /\ PlacesOK' /\ Handles'
<1>r. /\ UNCHANGED <<obj, tcp, io, mgr, slot, op, sock>> /\ TypeOK /\ PlacesOK
      /\ wire[h].peer = "none" /\ HandleAt(h)
  BY DEF PeerConnect, OwnerInv, Handles
<1>2. /\ obj[h].life = "none" /\ ~InBacklog(h) /\ wire[h].in = <<>> /\ io.h # h
      /\ obj[h].counter = 0
  BY <1>r DEF HandleAt, PeerAt, LifeAt, UnusedAt, Unreachable
<1>w. /\ wire'[h].peer = "new" /\ wire'[h].in = <<>> /\ wire'[h].out = wire[h].out
      /\ \A k \in Handle : k # h => wire'[k] = wire[k]
  <2>1. wire \in [Handle -> Stream] /\ wire[h] \in Stream
    BY <1>r DEF TypeOK, Types
  <2>2. wire' = [wire EXCEPT ![h] = [wire[h] EXCEPT !.peer = "new"]]
    BY <2>1 DEF PeerConnect
  <2>3. wire'[h] = [wire[h] EXCEPT !.peer = "new"]
    BY <2>1, <2>2
  <2> QED BY <1>2, <2>1, <2>2, <2>3 DEF Stream
<1>q. /\ InBacklog(h)' /\ Distinct(backlog')
      /\ \A k \in Handle : k # h => (InBacklog(k)' <=> InBacklog(k))
  <2>1. /\ \A k : InSeq(backlog', k) <=> InSeq(backlog, k) \/ k = h
        /\ Distinct(backlog) /\ ~InSeq(backlog, h) => Distinct(backlog')
    <3>1. PICK a, b : a = backlog /\ b = backlog'
      OBVIOUS
    <3>2. a \in Seq(Handle) /\ b = Append(a, h)
      BY <1>r, <3>1, Fields DEF PeerConnect
    <3> QED BY <3>1, <3>2, AppendIn
  <2> QED BY <1>r, <1>2, <2>1 DEF InBacklog, PlacesOK
<1>7. /\ Wrappers(h)' = Wrappers(h) /\ Readers(h)' = Readers(h)
      /\ InQueue(h)' <=> InQueue(h)
      /\ Running' <=> Running
      /\ DoesSame(h) /\ OpKept(h)
  BY <1>r, SlotsSame, SameMgr, DoesKept DEF OpKept
<1>6. ASSUME NEW k \in Handle, k # h PROVE Kept(k)
  <2>1. OpKept(k)
    BY <1>r DEF OpKept
  <2> QED BY <1>r, <1>w, <1>q, <1>6, <2>1, SlotsSame, SameMgr DEF Kept
<1>9. LifeAt(h)' /\ CountAt(h)'
  BY <1>r, <1>w, <1>7, LifeKept, CountKept DEF HandleAt
<1>10. TableAt(h)'
  BY <1>r, <1>w, <1>7, ObjField, TableKept DEF HandleAt
<1>12. OwnerAt(h)'
  BY <1>r, <1>w, <1>7, OwnerKept DEF HandleAt, Broken
<1>13. PeerAt(h)'
  <2>1. Greets(wire[h])' /\ \A x : ~InSeq(wire'[h].in, x)
    BY <1>w DEF Greets, InSeq
  <2> QED BY <1>r, <1>2, <1>w, <2>1 DEF PeerAt
<1>15. ThreadAt'
  BY <1>r, ThreadSame
<1>16. PlacesOK'
  BY <1>r, <1>q, <1>7 DEF PlacesOK
<1> QED BY <1>6, <1>9, <1>10, <1>12, <1>13, <1>15, <1>16, StepWith DEF HandleAt

(* More frames at the end of a stream.                                     *)
LEMMA Extended ==
  ASSUME NEW q \in Seq(Frame), NEW r \in Seq(Frame), NEW c, c = q \o r
  PROVE  /\ \A x : InSeq(c, x) => InSeq(q, x) \/ InSeq(r, x)
         /\ q # <<>> => c # <<>> /\ c[1] = q[1]
         /\ Len(q) >= 2 => Len(c) >= 2 /\ c[2] = q[2]
         /\ Len(q) = 1 /\ Len(r) >= 1 => Len(c) >= 2 /\ c[2] = r[1]
         /\ q = <<>> => c = r
<1>1. PICK m \in Nat, n \in Nat :
        /\ m = Len(q) /\ n = Len(r) /\ DOMAIN q = 1..m /\ DOMAIN r = 1..n
  BY LenProperties
<1>2. /\ c \in Seq(Frame) /\ Len(c) = m + n
      /\ \A i \in 1..(m + n) : c[i] = IF i <= m THEN q[i] ELSE r[i - m]
  BY <1>1, ConcatProperties
<1>3. DOMAIN c = 1..(m + n)
  BY <1>2, LenProperties
<1>4. ASSUME NEW x, InSeq(c, x) PROVE InSeq(q, x) \/ InSeq(r, x)
  <2>1. PICK i \in 1..(m + n) : c[i] = x
    BY <1>3, <1>4 DEF InSeq
  <2>2. CASE i <= m
    <3>1. i \in 1..m /\ q[i] = x
      BY <1>1, <1>2, <2>1, <2>2
    <3> QED BY <1>1, <3>1 DEF InSeq
  <2>3. CASE ~(i <= m)
    <3>1. i - m \in 1..n /\ r[i - m] = x
      BY <1>1, <1>2, <2>1, <2>3
    <3> QED BY <1>1, <3>1 DEF InSeq
  <2> QED BY <2>2, <2>3
<1>5. ASSUME q # <<>> PROVE c # <<>> /\ c[1] = q[1]
  <2>1. m >= 1
    BY <1>1, <1>5, EmptySeq
  <2>2. 1 \in 1..(m + n) /\ 1 <= m /\ m + n # 0
    BY <1>1, <2>1
  <2>3. c # <<>>
    BY <1>2, <2>2, EmptySeq
  <2> QED BY <1>2, <2>2, <2>3
<1>6. ASSUME Len(q) >= 2 PROVE Len(c) >= 2 /\ c[2] = q[2]
  <2>1. 2 \in 1..(m + n) /\ 2 <= m /\ m + n >= 2
    BY <1>1, <1>6
  <2> QED BY <1>2, <2>1
<1>7. ASSUME Len(q) = 1, Len(r) >= 1 PROVE Len(c) >= 2 /\ c[2] = r[1]
  <2>1. 2 \in 1..(m + n) /\ ~(2 <= m) /\ m + n >= 2 /\ 2 - m = 1
    BY <1>1, <1>7
  <2> QED BY <1>2, <2>1
<1>8. q = <<>> => c = r
  BY ConcatEmptySeq
<1> QED BY <1>4, <1>5, <1>6, <1>7, <1>8

(* The end of a team's handshake, or of its stream.                        *)
LEMMA Named ==
  ASSUME NEW q, q \in {<<>>, <<"team">>}, NEW x \in {"id", "fin", "rst"},
         NEW c, c = q \o <<x>>, NEW to, to \notin {"new", "named"}
  PROVE  Greets([in |-> c, peer |-> to])
<1>1. PICK r : r = <<x>>
  OBVIOUS
<1>2. /\ q \in Seq(Frame) /\ r \in Seq(Frame) /\ c = q \o r /\ r[1] = x
      /\ r # <<>> /\ Len(r) >= 1
  <2>1. <<>> \in Seq(Frame) /\ <<"team">> \in Seq(Frame)
    BY DEF Frame
  <2>2. x \in Frame
    BY DEF Frame
  <2>3. r \in Seq(Frame) /\ Len(r) = 1 /\ r[1] = x
    BY <1>1, <2>2
  <2>4. r # <<>>
    BY <2>3, EmptySeq
  <2>5. q \in Seq(Frame) /\ c = q \o r
    BY <1>1, <2>1
  <2> QED BY <2>3, <2>4, <2>5
<1>3. CASE q = <<>>
  <2>1. c = r
    BY <1>2, <1>3, Extended
  <2> QED BY <1>2, <2>1 DEF Greets
<1>4. CASE q = <<"team">>
  <2>1. q # <<>> /\ q[1] = "team" /\ Len(q) = 1
    BY <1>4
  <2>2. c # <<>> /\ c[1] = q[1] /\ Len(c) >= 2 /\ c[2] = r[1]
    BY <1>2, <2>1, Extended
  <2> QED BY <1>2, <2>1, <2>2 DEF Greets
<1> QED BY <1>3, <1>4

(* A peer's step from one state of the connection to another, with what it *)
(* leaves in the stream.                                                   *)
LEMMA PeerStepKeeps ==
  ASSUME OneThread, OwnerInv, NEW h \in Handle, NEW from, NEW q, NEW to,
         PeerStep(h, from, q, to), from \in {"new", "named", "open"}, to # "none",
         Greets(wire[h]) => Greets([in |-> q, peer |-> to]),
         InSeq(q, "fin") => to \in {"shut", "reset"},
         InSeq(q, "rst") => to = "reset"
  PROVE  ThreadAt' /\ PlacesOK' /\ Handles'
<1>r. /\ UNCHANGED <<obj, tcp, io, mgr, slot, op, sock, backlog>> /\ TypeOK /\ PlacesOK
      /\ wire[h].peer = from /\ HandleAt(h)
  BY DEF PeerStep, OwnerInv, Handles
<1>w. /\ wire'[h].peer = to /\ wire'[h].in = q /\ wire'[h].out = wire[h].out
      /\ \A k \in Handle : k # h => wire'[k] = wire[k]
  <2>1. wire \in [Handle -> Stream] /\ wire[h] \in Stream
    BY <1>r DEF TypeOK, Types
  <2>2. wire' = [wire EXCEPT ![h] = [wire[h] EXCEPT !.peer = to, !.in = q]]
    BY <2>1 DEF PeerStep
  <2>3. wire'[h] = [wire[h] EXCEPT !.peer = to, !.in = q]
    BY <2>1, <2>2
  <2> QED BY <2>1, <2>2, <2>3 DEF Stream
<1>7. /\ Wrappers(h)' = Wrappers(h) /\ Readers(h)' = Readers(h)
      /\ InQueue(h)' <=> InQueue(h)
      /\ InBacklog(h)' <=> InBacklog(h)
      /\ Running' <=> Running
      /\ DoesSame(h) /\ OpKept(h)
  BY <1>r, SlotsSame, SameMgr, SameBacklog, DoesKept DEF OpKept
<1>6. ASSUME NEW k \in Handle, k # h PROVE Kept(k)
  <2>1. OpKept(k)
    BY <1>r DEF OpKept
  <2> QED BY <1>r, <1>w, <1>6, <2>1, SlotsSame, SameMgr, SameBacklog DEF Kept
<1>9. LifeAt(h)' /\ CountAt(h)'
  BY <1>r, <1>w, <1>7, LifeKept, CountKept DEF HandleAt
<1>10. TableAt(h)'
  BY <1>r, <1>w, <1>7, ObjField, TableKept DEF HandleAt
<1>12. OwnerAt(h)'
  BY <1>r, <1>w, <1>7, OwnerKept DEF HandleAt, Broken
<1>13. PeerAt(h)'
  <2>1. Greets(wire[h]) => Greets(wire[h])'
    BY <1>w DEF Greets
  <2> QED BY <1>r, <1>7, <1>w, <2>1 DEF PeerAt, HandleAt, Broken
<1>15. ThreadAt'
  BY <1>r, ThreadSame
<1> QED BY <1>r, <1>6, <1>9, <1>10, <1>12, <1>13, <1>15, StepWith, PlacesKept DEF HandleAt

LEMMA PeerKeeps ==
  ASSUME OneThread, OwnerInv, NEW h \in Handle, Peer(h)
  PROVE  ThreadAt' /\ PlacesOK' /\ Handles'
<1>1. wire[h].in \in Seq(Frame) /\ PeerAt(h)
  BY DEF OwnerInv, Handles, HandleAt, TypeOK, Types, Stream
<1>2. PICK q : q = wire[h].in
  OBVIOUS
<1>q. q \in Seq(Frame)
  BY <1>1, <1>2
<1>3. CASE PeerConnect(h)
  BY <1>3, PeerConnectKeeps
<1>4. CASE PeerStep(h, "new", <<"p2p">>, "open")
  <2>1. PICK r : r = <<"p2p">>
    OBVIOUS
  <2>2. Greets([in |-> r, peer |-> "open"]) /\ ~InSeq(r, "fin") /\ ~InSeq(r, "rst")
    BY <2>1 DEF Greets, InSeq
  <2> QED BY <1>4, <2>1, <2>2, PeerStepKeeps
<1>5. CASE PeerStep(h, "new", <<"team">>, "named")
  <2>1. PICK r : r = <<"team">>
    OBVIOUS
  <2>2. Greets([in |-> r, peer |-> "named"]) /\ ~InSeq(r, "fin") /\ ~InSeq(r, "rst")
    BY <2>1 DEF Greets, InSeq
  <2> QED BY <1>5, <2>1, <2>2, PeerStepKeeps
<1>6. CASE PeerStep(h, "named", q \o <<"id">>, "open")
  <2>1. PICK r, c : r = <<"id">> /\ c = q \o r
    OBVIOUS
  <2>2. r \in Seq(Frame) /\ ~InSeq(r, "fin") /\ ~InSeq(r, "rst")
    BY <2>1 DEF Frame, InSeq
  <2>3. wire[h].peer = "named" /\ ~InSeq(q, "fin") /\ ~InSeq(q, "rst")
    BY <1>1, <1>2, <1>6 DEF PeerStep, PeerAt, Broken
  <2>4. ~InSeq(c, "fin") /\ ~InSeq(c, "rst")
    <3>1. r \in Seq(Frame) /\ c = q \o r
      BY <2>1, <2>2
    <3>2. \A x : InSeq(c, x) => InSeq(q, x) \/ InSeq(r, x)
      BY <1>q, <3>1, Extended
    <3> QED BY <2>2, <2>3, <3>2
  <2>5. ASSUME Greets(wire[h]) PROVE Greets([in |-> c, peer |-> "open"])
    <3>1. q \in {<<>>, <<"team">>}
      BY <1>2, <2>3, <2>5 DEF Greets
    <3> QED BY <2>1, <3>1, Named
  <2> QED BY <1>6, <2>1, <2>4, <2>5, PeerStepKeeps
<1>7. ASSUME NEW r \in Seq(Frame), NEW c, c = q \o r, wire[h].peer = "open", Greets(wire[h]), NEW to, to \notin {"new", "named"}
      PROVE  Greets([in |-> c, peer |-> to])
  <2>1. q # <<>> /\ q[1] \in {"p2p", "team", "id", "fin", "rst"}
    BY <1>2, <1>7 DEF Greets
  <2>2. q[1] = "team" => Len(q) >= 2 /\ q[2] \in {"id", "fin", "rst"}
    BY <1>2, <1>7 DEF Greets
  <2> QED BY <1>q, <1>7, <2>1, <2>2, Extended DEF Greets
<1>8. CASE PeerSend(h)
  <2>1. PICK r, c : r = <<"msg", "body">> /\ c = q \o r
    OBVIOUS
  <2>2. r \in Seq(Frame) /\ ~InSeq(r, "fin") /\ ~InSeq(r, "rst")
    BY <2>1 DEF Frame, InSeq
  <2>3. PeerStep(h, "open", c, "open") /\ wire[h].peer = "open" 
    BY <1>2, <1>8, <2>1 DEF PeerSend, PeerStep
  <2>4. ~InSeq(c, "fin") /\ ~InSeq(c, "rst")
    BY <1>1, <1>2, <1>q, <2>1, <2>2, <2>3, Extended DEF PeerAt, Broken
  <2> QED BY <1>7, <2>1, <2>2, <2>3, <2>4, PeerStepKeeps
<1>9. CASE PeerClose(h)
  <2>1. PICK r, c : r = <<"eos", "fin">> /\ c = q \o r
    OBVIOUS
  <2>2. r \in Seq(Frame) /\ ~InSeq(r, "rst")
    BY <2>1 DEF Frame, InSeq
  <2>3. PeerStep(h, "open", c, "shut") /\ wire[h].peer = "open" 
    BY <1>2, <1>9, <2>1 DEF PeerClose, PeerStep
  <2>4. ~InSeq(c, "rst")
    BY <1>1, <1>2, <1>q, <2>1, <2>2, <2>3, Extended DEF PeerAt
  <2> QED BY <1>7, <2>1, <2>2, <2>3, <2>4, PeerStepKeeps
<1>10. ASSUME NEW from \in {"new", "named", "open"}, NEW x \in {"fin", "rst"}, NEW c,
              NEW to, to = IF x = "fin" THEN "shut" ELSE "reset",
              c = q \o <<x>> \/ (from = "open" /\ c = (q \o <<"msg">>) \o <<x>>),
              PeerStep(h, from, c, to)
       PROVE  ThreadAt' /\ PlacesOK' /\ Handles'
  <2>1. PICK r \in Seq(Frame) : /\ c = q \o r
                                /\ r = <<x>> \/ (from = "open" /\ r = <<"msg">> \o <<x>>)
    <3>1. <<"msg">> \in Seq(Frame) /\ <<x>> \in Seq(Frame)
      BY DEF Frame
    <3>2. (q \o <<"msg">>) \o <<x>> = q \o (<<"msg">> \o <<x>>)
      BY <1>q, <3>1, ConcatAssociative
    <3>3. <<"msg">> \o <<x>> \in Seq(Frame)
      BY <3>1
    <3> QED BY <1>10, <3>1, <3>2, <3>3
  <2>2. \A y : InSeq(r, y) => y \in {"msg", x}
    <3>1. \A i \in DOMAIN r : r[i] \in {"msg", x}
      <4>1. CASE r = <<x>>
        BY <4>1
      <4>2. CASE r = <<"msg">> \o <<x>>
        <5>1. <<"msg">> \in Seq({"msg", x}) /\ <<x>> \in Seq({"msg", x})
          OBVIOUS
        <5>2. r \in Seq({"msg", x})
          BY <4>2, <5>1, ConcatProperties
        <5> QED BY <5>2
      <4> QED BY <2>1, <4>1, <4>2
    <3> QED BY <3>1 DEF InSeq
  <2>3. wire[h].peer = from /\ ~InSeq(q, "fin") /\ ~InSeq(q, "rst")
    BY <1>1, <1>2, <1>10 DEF PeerStep, PeerAt, Broken
  <2>4. InSeq(c, "rst") => to = "reset"
    <3>1. \A y : InSeq(c, y) => InSeq(q, y) \/ InSeq(r, y)
      BY <1>q, <2>1, Extended
    <3> QED BY <1>10, <2>2, <2>3, <3>1
  <2>5. ASSUME Greets(wire[h]) PROVE Greets([in |-> c, peer |-> to])
    <3>1. CASE from = "open"
      BY <1>7, <1>10, <2>1, <2>3, <2>5, <3>1
    <3>2. CASE from # "open"
      <4>1. q \in {<<>>, <<"team">>}
        BY <1>2, <1>10, <2>3, <2>5, <3>2 DEF Greets
      <4> QED BY <1>10, <3>2, <4>1, Named
    <3> QED BY <3>1, <3>2
  <2> QED BY <1>10, <2>4, <2>5, PeerStepKeeps
<1>11. ASSUME NEW from \in {"new", "named", "open"}, PeerStep(h, from, <<"rst">>, "reset")
       PROVE  ThreadAt' /\ PlacesOK' /\ Handles'
  <2>1. PICK r : r = <<"rst">>
    OBVIOUS
  <2>2. Greets([in |-> r, peer |-> "reset"]) /\ ~InSeq(r, "fin")
    BY <2>1 DEF Greets, InSeq
  <2> QED BY <1>11, <2>1, <2>2, PeerStepKeeps
<1>12. CASE PeerCrash(h)
  <2>1. PICK from \in {"new", "named", "open"} :
          \E frames \in {q} \union IF "torn" \in Crash /\ from = "open" THEN {q \o <<"msg">>} ELSE {} :
            \/ PeerStep(h, from, frames \o <<"fin">>, "shut")
            \/ PeerStep(h, from, frames \o <<"rst">>, "reset")
            \/ PeerStep(h, from, <<"rst">>, "reset")
    BY <1>2, <1>12 DEF PeerCrash
  <2>2. PICK frames : /\ frames = q \/ (from = "open" /\ frames = q \o <<"msg">>)
                      /\ \/ PeerStep(h, from, frames \o <<"fin">>, "shut")
                         \/ PeerStep(h, from, frames \o <<"rst">>, "reset")
                         \/ PeerStep(h, from, <<"rst">>, "reset")
    BY <2>1
  <2>3. ASSUME NEW x \in {"fin", "rst"}, NEW to, to = IF x = "fin" THEN "shut" ELSE "reset",
               PeerStep(h, from, frames \o <<x>>, to)
        PROVE  ThreadAt' /\ PlacesOK' /\ Handles'
    <3>1. PICK c : c = frames \o <<x>>
      OBVIOUS
    <3>2. c = q \o <<x>> \/ (from = "open" /\ c = (q \o <<"msg">>) \o <<x>>)
      BY <2>2, <3>1
    <3>3. PeerStep(h, from, c, to)
      BY <2>3, <3>1
    <3> QED BY <1>10, <2>1, <2>3, <3>2, <3>3
  <2>4. CASE PeerStep(h, from, <<"rst">>, "reset")
    BY <1>11, <2>1, <2>4
  <2>5. "fin" \in {"fin", "rst"} /\ "rst" \in {"fin", "rst"}
    OBVIOUS
  <2> QED BY <2>2, <2>3, <2>4, <2>5
<1>13. CASE PeerHello(h)
  BY <1>2, <1>4, <1>5, <1>6, <1>13 DEF PeerHello
<1> QED BY <1>3, <1>8, <1>9, <1>12, <1>13 DEF Peer

-----------------------------------------------------------------------------
(***************************************************************************)
(* The invariant of a program of one thread.                               *)
(***************************************************************************)
LEMMA InitOwner == ASSUME OneThread, Init PROVE OwnerInv
<1>1. TypeOK
  BY InitType
<1>2. op[Main] = Idling /\ slot \in [Thread -> [Slot -> {Empty}]]
  BY ThreadAssumption DEF Init
<1>3. op[Main].pc = "idle" /\ op[Main].h = NoHandle
  BY <1>2 DEF Idling
<1>e. \A x : ~InSeq(<<>>, x)
  BY DEF InSeq
<1>m. /\ mgr.handleReady = <<>> /\ mgr.groupsReady = {} /\ mgr.phase = "run"
      /\ mgr.todo = {} /\ backlog = <<>> /\ io.h = NoHandle /\ io.pc = "snapshot"
      /\ io.tmpset = {} /\ tcp.set = {} /\ tcp.listen_sck = NoFd
  BY DEF Init
<1>4. ThreadAt
  BY <1>3, <1>m DEF ThreadAt, PhaseAt
<1>5. PlacesOK
  BY <1>m DEF PlacesOK, Distinct, Running
<1>6. ASSUME NEW h \in Handle PROVE HandleAt(h)
  <2>1. /\ obj[h].fd = NoFd /\ ~obj[h].closed_rd /\ ~obj[h].closed_wr /\ obj[h].counter = 0
        /\ obj[h].life = "none" /\ wire[h].in = <<>> /\ wire[h].peer = "none"
        /\ wire[h].out = "open" /\ h # NoHandle
        /\ \A f \in FD : tcp.connections[f] = NoHandle /\ sock[f] = NoHandle
    BY HandleAssumption DEF Init
  <2>2. Wrappers(h) = {} /\ Readers(h) = {}
    <3>1. \A t \in Thread, s \in Slot : slot[t][s].real # h
      BY <1>2, <2>1 DEF Empty
    <3> QED BY <3>1 DEF Wrappers, Readers
  <2>3. ~InQueue(h) /\ ~InBacklog(h) /\ ~Busy(h) /\ \A ls : ~Does(h, ls)
    BY <1>3, <1>e, <1>m, <2>1 DEF InQueue, InBacklog, Busy, Does
  <2>4. LifeAt(h)
    BY <1>m, <2>1, <2>2, <2>3 DEF LifeAt, UnusedAt, Unreachable
  <2>5. TableAt(h)
    BY <2>1 DEF TableAt, Registered, NoFd, FD
  <2>6. CountAt(h)
    BY <2>1, <2>2, <2>3, FS_EmptySet DEF CountAt, One, Dropping
  <2>7. OwnerAt(h)
    BY <1>m, <2>1, <2>2, <2>3 DEF OwnerAt, Away, One, ClosingRead
  <2>8. PeerAt(h)
    BY <1>e, <1>m, <2>1, <2>3 DEF PeerAt
  <2> QED BY <2>4, <2>5, <2>6, <2>7, <2>8 DEF HandleAt
<1> QED BY <1>1, <1>4, <1>5, <1>6 DEF OwnerInv, Handles

LEMMA NextOwner == ASSUME OneThread, OwnerInv, [Next]_vars PROVE OwnerInv'
<1>1. TypeOK'
  BY NextType DEF OwnerInv
<1>2. \A t \in Thread : t = Main
  BY DEF OneThread
<1>3. CASE IoThread
  BY <1>3, IoIdleKeeps, AcceptKeeps, HandshakeKeeps, DeliverKeeps, <1>1 DEF IoThread, OwnerInv
<1>4. CASE Operation(Main)
  BY <1>4, <1>1, ListenKeeps, GetNextKeeps, SendKeeps, ProbeKeeps, ReceiveKeeps, CloseKeeps,
     YieldKeeps, DestroyKeeps, ConnectKeeps DEF Operation, OwnerInv
<1>5. CASE Step(Main)
  BY <1>5, <1>1, SendEOSKeeps, MarkClosedKeeps, ReadFlagsKeeps, NotifyCloseKeeps, ForgetKeeps,
     CloseFdKeeps, ReapKeeps, NotifyYieldKeeps, DecrementKeeps DEF Step, OwnerInv
<1>6. CASE Finalization
  BY <1>6, <1>1, FinalizeKeeps, JoinKeeps, EndNextKeeps, EndDoneKeeps, DrainSkipKeeps, DrainKeeps
     DEF Finalization, OwnerInv
<1>7. CASE \E h \in Handle : Peer(h)
  BY <1>7, <1>1, PeerKeeps DEF OwnerInv
<1>8. CASE Terminated \/ UNCHANGED vars
  BY <1>8, <1>1, UnchangedKeeps DEF Terminated, OwnerInv
<1> QED BY <1>2, <1>3, <1>4, <1>5, <1>6, <1>7, <1>8 DEF Next

(* The invariant holds for any number of connections, descriptors and      *)
(* wrappers, in both modes of finalize and whatever the peers do.          *)
THEOREM OwnerCorrect == ASSUME OneThread PROVE Spec => []OwnerInv
<1>1. Init => OwnerInv
  BY InitOwner
<1>2. OwnerInv /\ [Next]_vars => OwnerInv'
  BY NextOwner
<1> QED BY <1>1, <1>2, PTL DEF Spec

(* Who is doing something with a connection, when there is one thread.     *)
LEMMA DoingIs ==
  ASSUME OneThread, NEW h, NEW ls
  PROVE  /\ Doing(h, ls) = IF Does(h, ls) THEN {Main} ELSE {}
         /\ IsFiniteSet(Doing(h, ls)) /\ Cardinality(Doing(h, ls)) = One(Does(h, ls))
<1>1. Doing(h, ls) = IF Does(h, ls) THEN {Main} ELSE {}
  BY DEF Doing, Does, OneThread
<1>2. CASE Does(h, ls)
  BY <1>1, <1>2, FS_Singleton DEF One
<1>3. CASE ~Does(h, ls)
  BY <1>1, <1>3, FS_EmptySet DEF One
<1> QED BY <1>1, <1>2, <1>3

(* EOSIsLast, in a program of one thread: EOS is written once, by close or *)
(* by finalize, and nothing after it.                                      *)
THEOREM EOSLastCorrect == ASSUME OneThread PROVE Spec => []EOSIsLast
<1>1. OwnerInv => EOSIsLast
  BY DEF OwnerInv, Handles, HandleAt, LifeAt, EOSIsLast
<1> QED BY <1>1, OwnerCorrect, PTL

(* TableExact, in a program of one thread: the connection table, the       *)
(* Handles and the descriptors agree, and until finalize select polls only *)
(* registered connections that are open for reading.                       *)
THEOREM TableCorrect == ASSUME OneThread PROVE Spec => []TableExact
<1>1. ASSUME OwnerInv PROVE TableExact
  <2>1. TypeOK /\ PlacesOK /\ \A h \in Handle : TableAt(h) /\ h # NoHandle
    BY <1>1, HandleAssumption DEF OwnerInv, Handles, HandleAt
  <2>2. ASSUME Running, NEW f \in tcp.set, f # tcp.listen_sck
        PROVE  /\ tcp.connections[f] # NoHandle
               /\ ~obj[tcp.connections[f]].closed_rd
    <3>1. PICK h \in Handle : sock[f] = h /\ f \in FD /\ f # NoFd
      BY <2>1, <2>2, Fields DEF PlacesOK, MaybeHandle
    <3>2. obj[h].fd = f
      BY <2>1, <3>1 DEF TableAt
    <3>3. ~obj[h].closed_rd /\ Registered(h)
      BY <1>1, <2>2, <3>1, <3>2, OneAway
    <3> QED BY <2>1, <3>2, <3>3 DEF Registered
  <2>3. ASSUME NEW f \in FD, tcp.connections[f] # NoHandle
        PROVE  /\ obj[tcp.connections[f]].life = "live" /\ obj[tcp.connections[f]].fd = f
               /\ sock[f] = tcp.connections[f]
    <3>1. tcp.connections[f] \in Handle /\ f # NoFd
      BY <2>1, <2>3, Fields DEF MaybeHandle
    <3> QED BY ZenonT(60), <2>1, <3>1 DEF TableAt
  <2> QED BY <2>1, <2>2, <2>3 DEF TableExact, SetIsOpen, TableAt, Registered
<1> QED BY <1>1, OwnerCorrect, PTL

(* ClosesOwnSocket, in a program of one thread: notify_close erases and    *)
(* closes the connection's own descriptor.                                 *)
THEOREM OwnSocketCorrect == ASSUME OneThread PROVE Spec => []ClosesOwnSocket
<1>1. ASSUME OwnerInv PROVE ClosesOwnSocket
  <2>1. ASSUME op[Main].pc \in {"forget", "closefd"} PROVE sock[op[Main].fd] = op[Main].h
    <3>1. PICK h : h = op[Main].h
      OBVIOUS
    <3>2. CallAt(op[Main], obj[h]) /\ HandleAt(h) /\ op[Main].fd \in FD /\ NoFd \notin FD
      BY <1>1, <2>1, <3>1, InCall, OpFields, Fields DEF OwnerInv
    <3> QED BY <2>1, <3>1, <3>2 DEF CallAt, HandleAt, TableAt
  <2> QED BY <2>1 DEF ClosesOwnSocket, OneThread
<1> QED BY <1>1, OwnerCorrect, PTL

(* RefCountExact, in a program of one thread: the counter of a Handle is   *)
(* the number of its HandleUser objects, wherever they are.                *)
THEOREM RefCountCorrect == ASSUME OneThread PROVE Spec => []RefCountExact
<1>1. ASSUME OwnerInv PROVE RefCountExact
  <2>1. ASSUME NEW h \in Handle
        PROVE  obj[h].counter = Cardinality(Wrappers(h)) + Cardinality(Queued(h))
                 + Cardinality({t \in Doing(h, {"yield", "decr"}) : op[t].then = "decr"})
    <3>1. CountAt(h) /\ Cardinality(Queued(h)) = One(InQueue(h))
      BY <1>1, OncePlace DEF OwnerInv, Handles, HandleAt, PlacesOK
    <3>2. PICK D : D = {t \in Doing(h, {"yield", "decr"}) : op[t].then = "decr"}
      OBVIOUS
    <3>3. D = IF Dropping(h) THEN {Main} ELSE {}
      BY <3>2, DoingIs DEF Dropping
    <3>4. Cardinality(D) = One(Dropping(h))
      BY <3>3, FS_Singleton, FS_EmptySet DEF One
    <3> QED BY <3>1, <3>2, <3>4 DEF CountAt
  <2> QED BY <2>1 DEF RefCountExact
<1> QED BY <1>1, OwnerCorrect, PTL

(* The thread inside a call is busy with its connection.                   *)
LEMMA BusyIs ==
  ASSUME OneThread, OwnerInv, NEW h \in Handle
  PROVE  Doing(h, PC \ {"next"}) = {} <=> ~Busy(h)
<1>1. Doing(h, PC \ {"next"}) = {} <=> ~Does(h, PC \ {"next"})
  BY DoingIs
<1>2. op[Main].pc \in PC /\ (op[Main].pc = "idle" => op[Main].h # h)
  BY OpFields, HandleAssumption DEF OwnerInv, ThreadAt
<1> QED BY <1>1, <1>2 DEF Does, Busy

(* NoDangling, in a program of one thread: a Handle is deleted once, when  *)
(* nothing refers to it any more.                                          *)
THEOREM NoDanglingCorrect == ASSUME OneThread PROVE Spec => []NoDangling
<1>1. ASSUME OwnerInv PROVE NoDangling
  <2>1. ASSUME NEW h \in Handle
        PROVE  /\ obj[h].life # "double"
               /\ obj[h].life = "freed" =>
                    /\ Wrappers(h) = {} /\ Queued(h) = {} /\ Doing(h, PC \ {"next"}) = {}
                    /\ \A f \in FD : tcp.connections[f] # h
                    /\ Running => h \notin mgr.groupsReady
    <3>1. LifeAt(h) /\ TableAt(h) /\ NoFd \notin FD
      BY <1>1, Fields DEF OwnerInv, Handles, HandleAt
    <3>2. ~InQueue(h) => Queued(h) = {}
      BY DEF InQueue, InSeq, Queued
    <3> QED BY <1>1, <3>1, <3>2, BusyIs DEF LifeAt, TableAt, Unreachable
  <2> QED BY <2>1 DEF NoDangling
<1> QED BY <1>1, OwnerCorrect, PTL

(* OneOwner, in a program of one thread: a connection that is open for     *)
(* reading has one owner among program, queue, select set, IO thread and   *)
(* teams.                                                                  *)
THEOREM OneOwnerCorrect == ASSUME OneThread PROVE Spec => []OneOwner
<1>1. ASSUME OwnerInv PROVE OneOwner
  <2>1. ASSUME Running, NEW h \in Handle, obj[h].life = "live", ~obj[h].closed_rd
        PROVE  Owners(h) = 1 \/ (Owners(h) = 0 /\ DiedInHandshake(h))
    <3>1. OwnerAt(h) /\ Cardinality(Queued(h)) = One(InQueue(h))
      BY <1>1, OncePlace DEF OwnerInv, Handles, HandleAt, PlacesOK
    <3>2. Cardinality(Doing(h, {"yield"})) = One(Does(h, {"yield"}))
      BY DoingIs
    <3>3. Cardinality(Closers(h)) = One(ClosingRead(h))
      <4>1. Closers(h) = IF ClosingRead(h) THEN {Main} ELSE {}
        BY DoingIs DEF Closers, ClosingRead
      <4> QED BY <4>1, FS_Singleton, FS_EmptySet DEF One
    <3>4. Readers(h) # {} => Cardinality(Readers(h)) = 1
      <4>1. ASSUME NEW w \in Readers(h) PROVE Readers(h) = {w}
        BY <2>1, <3>1 DEF OwnerAt
      <4> QED BY <4>1, FS_Singleton
    <3>5. PICK r : r = IF Readers(h) # {} THEN 1 ELSE One(ClosingRead(h))
      OBVIOUS
    <3>6. Owners(h) = r + Away(h)
      <4>1. Owners(h) = r + One(Does(h, {"yield"})) + One(InQueue(h))
              + One(obj[h].fd \in tcp.set) + One(io.h = h) + One(h \in mgr.groupsReady)
        BY <3>1, <3>2, <3>3, <3>4, <3>5 DEF Owners
      <4> QED BY <3>5, <4>1 DEF Away, One
    <3>7. Away(h) \in Nat /\ r \in Nat
      BY <3>5 DEF Away, One
    <3>8. Away(h) <= 1 /\ (r # 0 => r = 1 /\ Away(h) = 0)
      BY <2>1, <3>1, <3>5 DEF OwnerAt, One
    <3>9. Away(h) = 0 /\ r = 0 => DiedInHandshake(h)
      BY <2>1, <3>1, <3>5 DEF OwnerAt, One, Broken, DiedInHandshake
    <3> QED BY <3>6, <3>7, <3>8, <3>9
  <2> QED BY <2>1 DEF OneOwner
<1> QED BY <1>1, OwnerCorrect, PTL

(* Reclaimed, in a program of one thread: a connection closed on both      *)
(* sides gives up its descriptor and, after its last HandleUser, its       *)
(* Handle.                                                                 *)
THEOREM ReclaimedCorrect == ASSUME OneThread PROVE Spec => []Reclaimed
<1>1. ASSUME OwnerInv PROVE Reclaimed
  <2>1. ASSUME NEW h \in Handle, obj[h].closed_rd, obj[h].closed_wr,
               Doing(h, PC \ {"next"}) = {}
        PROVE  /\ obj[h].fd = NoFd
               /\ Wrappers(h) = {} /\ Queued(h) = {} => obj[h].life = "freed"
    <3>1. /\ LifeAt(h) /\ TableAt(h) /\ CountAt(h) /\ ~Busy(h) /\ obj[h].life \in Life
          /\ Cardinality(Queued(h)) = One(InQueue(h))
      BY <1>1, <2>1, BusyIs, ObjField, OncePlace
         DEF OwnerInv, Handles, HandleAt, HandleObject, PlacesOK
    <3>2. ~Does(h, Finishing \union {"reap", "drop"}) /\ ~Does(h, Finishing) /\ ~Dropping(h)
      BY <3>1 DEF Does, Busy, Finishing, Dropping
    <3>3. ASSUME Wrappers(h) = {}, Queued(h) = {} PROVE obj[h].counter = 0
      <4>1. Cardinality(Wrappers(h)) = 0 /\ Cardinality(Queued(h)) = 0
        BY <3>3, FS_EmptySet
      <4> QED BY <3>1, <3>2, <4>1 DEF CountAt, One
    <3> QED BY <2>1, <3>1, <3>2, <3>3 DEF LifeAt, TableAt, UnusedAt, Life
  <2> QED BY <2>1 DEF Reclaimed
<1> QED BY <1>1, OwnerCorrect, PTL

(* FinalizeClosesRegistered, in a program of one thread: finalize leaves   *)
(* no connection open but those it does not find in the table.             *)
THEOREM FinalizeCorrect == ASSUME OneThread PROVE Spec => []FinalizeClosesRegistered
<1>1. ASSUME OwnerInv PROVE FinalizeClosesRegistered
  <2>1. ASSUME mgr.phase = "done", NEW h \in Handle, obj[h].life = "live"
        PROVE  \/ obj[h].closed_rd /\ obj[h].probed = "eos"
               \/ obj[h].closed_rd /\ obj[h].closed_wr /\ obj[h].fd = NoFd
               \/ BlockFlag /\ wire[h].peer = "reset"
    <3>1. LifeAt(h) /\ TableAt(h) /\ PhaseAt(op[Main].pc)
      BY <1>1 DEF OwnerInv, Handles, HandleAt, ThreadAt
    <3>2. ~Running /\ mgr.todo = {} /\ ~Does(h, Ending \union {"drain"}) /\ ~Does(h, Finishing)
      BY <2>1, <3>1 DEF PhaseAt, Running, Does, Ending, Finishing
    <3> QED BY <2>1, <3>1, <3>2 DEF LifeAt, TableAt
  <2> QED BY <2>1 DEF FinalizeClosesRegistered
<1> QED BY <1>1, OwnerCorrect, PTL

-----------------------------------------------------------------------------
(***************************************************************************)
(* A program of one thread keeps HandleContract: the owners that OwnerOf   *)
(* names in this order exclude each other, so a step moves a connection    *)
(* from one owner to the next; and what update hands out can be read.      *)
(***************************************************************************)
Shut(h) == obj[h].life # "live" \/ obj[h].closed_rd
Taking(o) == o.pc \in {"eos", "mark"} /\ o.rd
InHands(h) == \/ Readers(h) # {} \/ Does(h, {"yield"})
              \/ Running /\ op[Main].h = h /\ Taking(op[Main])
Own(h) == IF obj[h].life = "none" THEN "none"
          ELSE IF Shut(h) THEN "closed"
          ELSE IF io.h = h THEN "handshake"
          ELSE IF h \in mgr.groupsReady THEN "team"
          ELSE IF InQueue(h) THEN "ready"
          ELSE IF obj[h].fd \in tcp.set THEN "managed"
          ELSE IF InHands(h) THEN "user" ELSE "lost"
CanRead(h) == wire[h].in # <<>>
OwnerMap == [h \in Handle |-> OwnerOf(h)]
AvailMap == [h \in Handle |-> wire[h].in # <<>>]
Conforms == [Contract!Next]_(Contract!vars)

(* A step that leaves a connection with its owner, and others alone.       *)
Rests(h) ==
    /\ obj'[h].life = "none" <=> obj[h].life = "none"
    /\ Shut(h)' <=> Shut(h)
    /\ ~Shut(h) => /\ io'.h = h <=> io.h = h
                   /\ h \in mgr'.groupsReady <=> h \in mgr.groupsReady
                   /\ InQueue(h)' <=> InQueue(h)
                   /\ obj'[h].fd \in tcp'.set <=> obj[h].fd \in tcp.set
                   /\ InHands(h)' <=> InHands(h)
Others(h) == /\ Running' <=> Running
             /\ \A k \in Handle : k # h => Rests(k) /\ (CanRead(k)' <=> CanRead(k))

LEMMA Mapped ==
  ASSUME OneThread
  PROVE  /\ OwnerMap = [h \in Handle |-> Own(h)] /\ OwnerMap' = [h \in Handle |-> Own(h)']
         /\ AvailMap = [h \in Handle |-> CanRead(h)] /\ AvailMap' = [h \in Handle |-> CanRead(h)']
<1>1. ASSUME NEW h PROVE OwnerOf(h) = Own(h) /\ OwnerOf(h)' = Own(h)'
  <2>1. /\ Queued(h) # {} <=> InQueue(h)
        /\ Doing(h, {"yield"}) # {} <=> Does(h, {"yield"})
        /\ Closers(h) # {} <=> op[Main].h = h /\ Taking(op[Main])
    BY DEF OneThread, Queued, InQueue, InSeq, Doing, Does, Closers, Taking
  <2>2. /\ (Queued(h) # {})' <=> InQueue(h)'
        /\ (Doing(h, {"yield"}) # {})' <=> Does(h, {"yield"})'
        /\ (Closers(h) # {})' <=> op'[Main].h = h /\ Taking(op'[Main])
    BY DEF OneThread, Queued, InQueue, InSeq, Doing, Does, Closers, Taking
  <2> QED BY <2>1, <2>2 DEF OwnerOf, Own, Shut, InHands
<1> QED BY <1>1 DEF OwnerMap, AvailMap, CanRead

LEMMA RestsOwner == ASSUME NEW h, Rests(h) PROVE Own(h)' = Own(h)
BY DEF Rests, Own, Shut

(* A step that only one connection takes part in.                          *)
LEMMA OneMoves ==
  ASSUME OneThread, NEW h \in Handle, Others(h), NEW o, Own(h)' = o,
         NEW b \in BOOLEAN, CanRead(h)' <=> b
  PROVE  /\ OwnerMap' = [OwnerMap EXCEPT ![h] = o] /\ AvailMap' = [AvailMap EXCEPT ![h] = b]
         /\ OwnerMap[h] = Own(h) /\ (AvailMap[h] <=> CanRead(h))
         /\ o = Own(h) => OwnerMap' = OwnerMap
         /\ (b <=> CanRead(h)) => AvailMap' = AvailMap
         /\ UNCHANGED (~Running)
<1>1. \A k \in Handle : k # h => Own(k)' = Own(k) /\ (CanRead(k)' <=> CanRead(k))
  BY RestsOwner DEF Others
<1>2. OwnerMap = [k \in Handle |-> Own(k)] /\ OwnerMap' = [k \in Handle |-> Own(k)']
  BY Mapped
<1>3. AvailMap = [k \in Handle |-> CanRead(k)] /\ AvailMap' = [k \in Handle |-> CanRead(k)']
  BY Mapped
<1>4. \A k \in Handle : CanRead(k) \in BOOLEAN /\ CanRead(k)' \in BOOLEAN
  BY DEF CanRead
<1>5. /\ OwnerMap' = [OwnerMap EXCEPT ![h] = o] /\ OwnerMap[h] = Own(h)
      /\ o = Own(h) => OwnerMap' = OwnerMap
  BY <1>1, <1>2
<1>6. /\ AvailMap' = [AvailMap EXCEPT ![h] = b] /\ (AvailMap[h] <=> CanRead(h))
      /\ (b <=> CanRead(h)) => AvailMap' = AvailMap
  BY <1>1, <1>3, <1>4
<1> QED BY <1>5, <1>6 DEF Others, Running

(* What the contract allows one connection to do.                          *)
LEMMA Moves ==
  ASSUME OneThread, NEW h \in Handle, Others(h), NEW from, NEW to, Own(h) = from,
         Own(h)' = to,
         \/ from = "none" /\ to \in {"user", "lost"}
         \/ from = "handshake" /\ to \in {"ready", "team", "lost"} /\ CanRead(h)
         \/ from = to /\ CanRead(h) /\ (from \in {"user", "handshake"} \/ ~Running)
         \/ from = to /\ CanRead(h)'
         \/ /\ CanRead(h)' <=> CanRead(h)
            /\ \/ from = "none" /\ to = "handshake"
               \/ from = "managed" /\ to = "ready" /\ CanRead(h)
               \/ from = "ready" /\ to = "user"
               \/ from = "user" /\ to = "managed"
               \/ (from = "user" \/ ~Running) /\ to = "closed"
               \/ from = to
  PROVE  Conforms
<1>1. PICK b \in BOOLEAN : CanRead(h)' <=> b
  BY DEF CanRead
<1>2. /\ OwnerMap' = [OwnerMap EXCEPT ![h] = to] /\ AvailMap' = [AvailMap EXCEPT ![h] = b]
      /\ OwnerMap[h] = from /\ (AvailMap[h] <=> CanRead(h))
      /\ from = to => OwnerMap' = OwnerMap
      /\ (CanRead(h)' <=> CanRead(h)) => AvailMap' = AvailMap
      /\ UNCHANGED (~Running)
  BY <1>1, OneMoves
<1>3. Contract!Move(h, from, to) /\ Contract!Reads(h)
  BY <1>2 DEF Contract!Move, Contract!Reads, OwnerMap, AvailMap
<1>4. CASE from = "none" /\ to \in {"user", "lost"}
  <2>1. Contract!Connect(h)
    BY <1>2, <1>3, <1>4 DEF Contract!Connect
  <2> QED BY <2>1 DEF Conforms, Contract!Next
<1>5. CASE from = "handshake" /\ to \in {"ready", "team", "lost"} /\ CanRead(h)
  <2>1. Contract!Settle(h)
    BY <1>2, <1>3, <1>5 DEF Contract!Settle, AvailMap
  <2> QED BY <2>1 DEF Conforms, Contract!Next
<1>6. CASE from = to /\ CanRead(h) /\ (from \in {"user", "handshake"} \/ ~Running)
  <2>1. Contract!Read(h)
    BY <1>2, <1>3, <1>6 DEF Contract!Read, OwnerMap, AvailMap
  <2> QED BY <2>1 DEF Conforms, Contract!Next
<1>7. CASE from = to /\ CanRead(h)'
  <2>1. AvailMap' = [AvailMap EXCEPT ![h] = TRUE] /\ OwnerMap' = OwnerMap
    BY <1>1, <1>2, <1>7
  <2>2. Contract!Arrive(h)
    BY <1>2, <2>1 DEF Contract!Arrive, OwnerMap, AvailMap
  <2> QED BY <2>2 DEF Conforms, Contract!Next
<1>8. ASSUME CanRead(h)' <=> CanRead(h) PROVE AvailMap' = AvailMap
  BY <1>2, <1>8
<1>9. CASE (CanRead(h)' <=> CanRead(h)) /\ from = "none" /\ to = "handshake"
  <2>1. Contract!Accept(h)
    BY <1>2, <1>3, <1>8, <1>9 DEF Contract!Accept, AvailMap
  <2> QED BY <2>1 DEF Conforms, Contract!Next
<1>10. CASE (CanRead(h)' <=> CanRead(h)) /\ from = "managed" /\ to = "ready" /\ CanRead(h)
  <2>1. PICK S : S = {h}
    OBVIOUS
  <2>2. S \in SUBSET {k \in Handle : AvailMap[k] /\ OwnerMap[k] = "managed"}
    BY <1>2, <1>10, <2>1
  <2>3. OwnerMap' = [k \in Handle |-> IF k \in S THEN "ready" ELSE OwnerMap[k]]
    <3>1. OwnerMap = [k \in Handle |-> Own(k)]
      BY Mapped
    <3> QED BY <1>2, <1>10, <2>1, <3>1
  <2>4. Contract!Wake
    BY <1>2, <1>8, <1>10, <2>2, <2>3 DEF Contract!Wake, OwnerMap, AvailMap
  <2> QED BY <2>4 DEF Conforms, Contract!Next
<1>11. CASE (CanRead(h)' <=> CanRead(h)) /\ from = "ready" /\ to = "user"
  <2>1. Contract!GetNext(h)
    BY <1>2, <1>3, <1>8, <1>11 DEF Contract!GetNext, AvailMap
  <2> QED BY <2>1 DEF Conforms, Contract!Next
<1>12. CASE (CanRead(h)' <=> CanRead(h)) /\ from = "user" /\ to = "managed"
  <2>1. Contract!Yield(h)
    BY <1>2, <1>3, <1>8, <1>12 DEF Contract!Yield, AvailMap
  <2> QED BY <2>1 DEF Conforms, Contract!Next
<1>13. CASE (CanRead(h)' <=> CanRead(h)) /\ (from = "user" \/ ~Running) /\ to = "closed"
  <2>1. Contract!CloseRead(h)
    BY <1>2, <1>3, <1>8, <1>13 DEF Contract!CloseRead, Contract!Move, OwnerMap, AvailMap
  <2> QED BY <2>1 DEF Conforms, Contract!Next
<1>14. CASE (CanRead(h)' <=> CanRead(h)) /\ from = to
  BY <1>2, <1>8, <1>14 DEF Conforms, Contract!vars, OwnerMap, AvailMap
<1> QED BY <1>4, <1>5, <1>6, <1>7, <1>9, <1>10, <1>11, <1>12, <1>13, <1>14

(* A step in which every connection stays where it is.                     *)
LEMMA Calm ==
  ASSUME OneThread, Running' <=> Running,
         \A k \in Handle : Rests(k) /\ (CanRead(k)' <=> CanRead(k))
  PROVE  Conforms
<1>1. OwnerMap = [k \in Handle |-> Own(k)] /\ OwnerMap' = [k \in Handle |-> Own(k)']
  BY Mapped
<1>2. AvailMap = [k \in Handle |-> CanRead(k)] /\ AvailMap' = [k \in Handle |-> CanRead(k)']
  BY Mapped
<1>3. \A k \in Handle : Own(k)' = Own(k)
  BY RestsOwner
<1>4. \A k \in Handle : CanRead(k) \in BOOLEAN /\ CanRead(k)' \in BOOLEAN
  BY DEF CanRead
<1>5. OwnerMap' = OwnerMap
  BY <1>1, <1>3
<1>6. AvailMap' = AvailMap
  BY <1>2, <1>4
<1> QED BY <1>5, <1>6 DEF Conforms, Contract!vars, OwnerMap, AvailMap, Running

-----------------------------------------------------------------------------
(* What the thread does with a connection counts while it yields it, or    *)
(* closes its read side.                                                   *)
LEMMA HandsSame ==
  ASSUME UNCHANGED slot, Running' <=> Running, op[Main].pc # "yield", op'[Main].pc # "yield",
         \/ ~Running
         \/ ~Taking(op[Main]) /\ ~Taking(op'[Main])
         \/ op'[Main].h = op[Main].h /\ (Taking(op'[Main]) <=> Taking(op[Main]))
  PROVE  \A k : InHands(k)' <=> InHands(k)
<1>1. ASSUME NEW k PROVE InHands(k)' <=> InHands(k)
  <2>1. Readers(k)' = Readers(k) /\ ~Does(k, {"yield"}) /\ ~Does(k, {"yield"})'
    BY SlotsSame DEF Does
  <2> QED BY <2>1 DEF InHands, Taking
<1> QED BY <1>1

LEMMA HandsKept ==
  ASSUME UNCHANGED <<slot, op>>, Running' <=> Running
  PROVE  \A k : InHands(k)' <=> InHands(k)
<1>1. ASSUME NEW k PROVE InHands(k)' <=> InHands(k)
  BY SlotsSame DEF InHands, Taking, Does
<1> QED BY <1>1


(* A step of the thread that leaves the rest as it is.                     *)
LEMMA Unmoved ==
  ASSUME OneThread, Running' <=> Running, io'.h = io.h, mgr'.groupsReady = mgr.groupsReady,
         mgr'.handleReady = mgr.handleReady, \A k : InHands(k)' <=> InHands(k),
         \A k \in Handle : /\ Shut(k)' <=> Shut(k)
                           /\ obj'[k].life = "none" <=> obj[k].life = "none"
                           /\ ~Shut(k) => (obj'[k].fd \in tcp'.set <=> obj[k].fd \in tcp.set)
                           /\ wire'[k].in = <<>> <=> wire[k].in = <<>>
  PROVE  Conforms
BY Calm DEF Rests, InQueue, CanRead

(* Writing EOS, reading the flags and counting references.                 *)
LEMMA QuietCalls ==
  ASSUME OneThread, OwnerInv, SendEOS(Main) \/ ReadFlags(Main) \/ Decrement(Main)
  PROVE  Conforms
<1>1. TypeOK /\ op[Main].h \in Handle /\ op[Main] \in Activity /\ op \in [Thread -> Activity]
      /\ Main \in Thread
  BY InCall, Fields, ThreadAssumption DEF OwnerInv, SendEOS, ReadFlags, Decrement, At
<1>2. UNCHANGED <<tcp, io, mgr, slot>> /\ (Running' <=> Running)
  BY DEF SendEOS, ReadFlags, Decrement, Running
<1>3. \A k : InHands(k)' <=> InHands(k)
  <2>1. CASE SendEOS(Main)
    <3>1. op[Main].pc = "eos" /\ Moved("mark")
      BY <1>1, <2>1, OpMoves DEF SendEOS, At
    <3> QED BY <1>2, <3>1, HandsSame DEF Moved, Taking
  <2>2. CASE ReadFlags(Main)
    <3>1. op[Main].pc = "notify" /\ op'[Main].pc = "notify_close"
      <4>1. PICK a, b : op' = [op EXCEPT ![Main] = [op[Main] EXCEPT !.pc = "notify_close",
                                                     !.wr = a, !.rd = b]]
        BY <1>1, <2>2 DEF ReadFlags
      <4> QED BY <1>1, <2>2, <4>1 DEF ReadFlags, At, Activity
    <3> QED BY <1>2, <3>1, HandsSame DEF Taking
  <2>3. CASE Decrement(Main)
    <3>1. op[Main].pc = "decr" /\ Moved("drop")
      BY <1>1, <2>3, OpMoves DEF Decrement, At
    <3> QED BY <1>2, <3>1, HandsSame DEF Moved, Taking
  <2> QED BY <2>1, <2>2, <2>3
<1>4. ASSUME NEW k \in Handle PROVE wire'[k].in = <<>> <=> wire[k].in = <<>>
  <2>1. CASE wire' = Write(op[Main].h, TRUE)
    BY <1>1, <2>1, Written
  <2>2. CASE wire' = wire
    BY <2>2
  <2> QED BY <2>1, <2>2 DEF SendEOS, ReadFlags, Decrement
<1>5. ASSUME NEW k \in Handle
      PROVE  /\ obj'[k].life = obj[k].life /\ obj'[k].closed_rd = obj[k].closed_rd
             /\ obj'[k].fd = obj[k].fd
  <2>1. CASE obj' = ReleaseReference(op[Main].h)
    <3>1. PICK h, r : h = op[Main].h /\ r = [obj[h] EXCEPT !.counter = obj[h].counter - 1]
      OBVIOUS
    <3>2. h \in Handle /\ obj[h] \in HandleObject /\ obj' = [obj EXCEPT ![h] = r]
      BY <1>1, <2>1, <3>1, ObjField DEF ReleaseReference, TypeOK, Types
    <3>3. obj'[h] = r /\ \A x \in Handle : x # h => obj'[x] = obj[x]
      BY <1>1, <3>2, ObjUpdate
    <3>4. r.life = obj[h].life /\ r.closed_rd = obj[h].closed_rd /\ r.fd = obj[h].fd
      BY <3>1, <3>2 DEF HandleObject
    <3> QED BY <3>3, <3>4
  <2>2. CASE obj' = obj
    BY <2>2
  <2> QED BY <2>1, <2>2 DEF SendEOS, ReadFlags, Decrement
<1> QED BY <1>2, <1>3, <1>4, <1>5, Unmoved DEF Shut

(* notify_close before its critical section: the descriptor of a           *)
(* connection that is open for reading is in the table.                    *)
LEMMA NotifyCloseCalm ==
  ASSUME OneThread, OwnerInv, NotifyClose(Main)
  PROVE  Conforms
<1>1. PICK h : h = op[Main].h
  OBVIOUS
<1>2. /\ TypeOK /\ h \in Handle /\ CallAt(op[Main], obj[h]) /\ HandleAt(h)
      /\ op[Main].pc = "notify_close" /\ UNCHANGED <<tcp, io, mgr, slot, wire>>
      /\ (Running' <=> Running) /\ h # NoHandle
  BY <1>1, InCall DEF OwnerInv, NotifyClose, At, Running
<1>3. ~op[Main].rd => ~obj[h].closed_rd /\ tcp.connections[obj[h].fd] = h
  BY <1>2 DEF CallAt, HandleAt, TableAt, Registered
<1>4. obj' = obj
  BY <1>1, <1>2, <1>3 DEF NotifyClose
<1>5. op'[Main].pc \notin {"yield", "eos", "mark"}
  <2>1. op \in [Thread -> Activity] /\ op[Main] \in Activity /\ Main \in Thread
    BY <1>2, Fields, ThreadAssumption
  <2>2. PICK f, l : /\ op' = [op EXCEPT ![Main] = [op[Main] EXCEPT !.fd = f, !.pc = l]]
                    /\ l \in {"forget", "reap"}
    <3>1. PICK f, l : /\ f = obj[h].fd
                      /\ l = IF f # NoFd /\ op[Main].rd THEN "forget" ELSE "reap"
      OBVIOUS
    <3> QED BY <1>1, <2>1, <3>1 DEF NotifyClose
  <2> QED BY <2>1, <2>2 DEF Activity
<1>6. \A k : InHands(k)' <=> InHands(k)
  BY <1>2, <1>5, HandsSame DEF Taking
<1> QED BY <1>2, <1>4, <1>6, Unmoved DEF Shut

(* The critical section of notify_close, and what follows it, concern a    *)
(* connection whose read side is closed.                                   *)
LEMMA ForgetCalm ==
  ASSUME OneThread, OwnerInv, Forget(Main)
  PROVE  Conforms
<1>1. PICK h : h = op[Main].h
  OBVIOUS
<1>2. /\ TypeOK /\ h \in Handle /\ CallAt(op[Main], obj[h]) /\ HandleAt(h)
      /\ op[Main].pc = "forget" /\ UNCHANGED <<obj, io, mgr, slot, wire>>
      /\ (Running' <=> Running)
  BY <1>1, InCall DEF OwnerInv, Forget, At, Running
<1>c. PICK f \in FD : f = op[Main].fd /\ sock[f] = h /\ obj[h].closed_rd
  BY <1>2, OpFields, Fields DEF CallAt, HandleAt, TableAt
<1>t. tcp'.set = tcp.set \ {f}
  <2>1. PICK c : c = FdClr(f)
    OBVIOUS
  <2>2. c.set = tcp.set \ {f} /\ c \in TcpState
    BY <1>2, <2>1, Cleared, FdClrType, FdAssumption DEF TypeOK, Types
  <2>3. tcp' = [c EXCEPT !.connections[f] = NoHandle]
    BY <1>c, <2>1 DEF Forget
  <2> QED BY <2>2, <2>3 DEF TcpState
<1>3. op'[Main].pc \in {"closefd", "reap"}
  <2>1. PICK l : l = (IF op[Main].wr THEN "closefd" ELSE "reap") /\ Goto(Main, l)
    BY DEF Forget
  <2> QED BY <1>2, <2>1, OpMoves DEF Moved
<1>4. \A k : InHands(k)' <=> InHands(k)
  BY <1>2, <1>3, HandsSame DEF Taking
<1>5. ASSUME NEW k \in Handle, ~Shut(k) PROVE obj[k].fd # f
  <2>1. TableAt(k)
    BY DEF OwnerInv, Handles, HandleAt
  <2> QED BY <1>c, <1>5, <2>1 DEF TableAt, Shut, NoFd, FD
<1> QED BY <1>2, <1>4, <1>5, <1>t, Unmoved DEF Shut

LEMMA CloseFdCalm ==
  ASSUME OneThread, OwnerInv, CloseFd(Main)
  PROVE  Conforms
<1>1. PICK h : h = op[Main].h
  OBVIOUS
<1>2. /\ TypeOK /\ h \in Handle /\ CallAt(op[Main], obj[h])
      /\ op[Main].pc = "closefd" /\ UNCHANGED <<tcp, io, mgr, slot, wire>>
      /\ (Running' <=> Running) /\ obj[h] \in HandleObject
  BY <1>1, InCall, ObjField DEF OwnerInv, CloseFd, At, Running
<1>3. Moved("reap")
  BY <1>2, OpMoves DEF CloseFd
<1>4. \A k : InHands(k)' <=> InHands(k)
  BY <1>2, <1>3, HandsSame DEF Moved, Taking
<1>5. /\ obj'[h].life = obj[h].life /\ obj'[h].closed_rd = obj[h].closed_rd
      /\ \A k \in Handle : k # h => obj'[k] = obj[k]
  <2>1. PICK r : r = [obj[h] EXCEPT !.fd = NoFd]
    OBVIOUS
  <2>2. obj' = [obj EXCEPT ![h] = r]
    BY <1>1, <1>2, <2>1 DEF CloseFd, DropFd, TypeOK, Types
  <2> QED BY <1>2, <2>1, <2>2, ObjUpdate DEF HandleObject
<1> QED BY <1>2, <1>4, <1>5, Unmoved DEF Shut, CallAt

LEMMA ReapCalm ==
  ASSUME OneThread, OwnerInv, Reap(Main)
  PROVE  Conforms
<1>1. PICK h : h = op[Main].h
  OBVIOUS
<1>2. /\ TypeOK /\ h \in Handle /\ op[Main].pc \in {"reap", "drop"} /\ obj[h].life # "none"
      /\ UNCHANGED <<tcp, io, mgr, slot, wire>> /\ (Running' <=> Running)
      /\ obj[h] \in HandleObject
  BY <1>1, InCall, ObjField DEF OwnerInv, Reap, At, Running, CallAt
<1>3. op'[Main].pc \notin {"yield", "eos", "mark"}
  <2>1. PICK l : /\ l = (IF op[Main].pc = "drop" THEN "idle" ELSE op[Main].then)
                 /\ Return(Main, l)
    BY DEF Reap, At
  <2>2. l \in {"idle", "decr", "next", "drain"}
    BY <1>2, <2>1, OpFields
  <2> QED BY <1>2, <2>1, <2>2, OpMoves DEF Moved, Idled
<1>4. \A k : InHands(k)' <=> InHands(k)
  BY <1>2, <1>3, HandsSame DEF Taking
<1>5. /\ Shut(h)' <=> Shut(h)
      /\ obj'[h].life # "none" /\ obj'[h].fd = obj[h].fd
      /\ \A k \in Handle : k # h => obj'[k] = obj[k]
  <2>1. CASE Unreferenced(h)
    <3>1. PICK x, r : /\ x = (IF obj[h].life = "live" THEN "freed" ELSE "double")
                      /\ r = [obj[h] EXCEPT !.life = x]
      OBVIOUS
    <3>2. obj' = [obj EXCEPT ![h] = r]
      BY <1>1, <1>2, <2>1, <3>1 DEF Reap, TypeOK, Types
    <3> QED BY <1>2, <2>1, <3>1, <3>2, ObjUpdate DEF HandleObject, Unreferenced, Shut
  <2>2. CASE ~Unreferenced(h)
    BY <1>1, <1>2, <2>2 DEF Reap, Shut
  <2> QED BY <2>1, <2>2
<1> QED BY <1>2, <1>4, <1>5, Unmoved DEF Shut

(* Setting the flags: a read side is closed by who may read, or by         *)
(* finalize.                                                               *)
LEMMA MarkClosedMoves ==
  ASSUME OneThread, OwnerInv, MarkClosed(Main)
  PROVE  Conforms
<1>1. PICK h : h = op[Main].h
  OBVIOUS
<1>2. /\ TypeOK /\ h \in Handle /\ CallAt(op[Main], obj[h]) /\ HandleAt(h)
      /\ op[Main].pc = "mark" /\ UNCHANGED <<tcp, io, mgr, slot, wire>>
      /\ (Running' <=> Running) /\ obj[h] \in HandleObject /\ op[Main].rd \in BOOLEAN
      /\ Moved("notify")
  BY <1>1, InCall, ObjField, OpFields, OpMoves DEF OwnerInv, MarkClosed, At, Running
<1>3. /\ obj'[h].life = obj[h].life /\ obj'[h].fd = obj[h].fd
      /\ obj'[h].closed_rd <=> obj[h].closed_rd \/ op[Main].rd
      /\ \A k \in Handle : k # h => obj'[k] = obj[k]
  <2>1. PICK a, b : a = (obj[h].closed_wr \/ op[Main].wr) /\ b = (obj[h].closed_rd \/ op[Main].rd)
    OBVIOUS
  <2>2. PICK r : r = [obj[h] EXCEPT !.closed_wr = a, !.closed_rd = b]
    OBVIOUS
  <2>3. obj' = [obj EXCEPT ![h] = r]
    BY <1>1, <1>2, <2>1, <2>2 DEF MarkClosed, TypeOK, Types
  <2>4. obj'[h] = r /\ \A k \in Handle : k # h => obj'[k] = obj[k]
    BY <1>2, <2>3, ObjUpdate
  <2>5. /\ r.life = obj[h].life /\ r.fd = obj[h].fd /\ r.closed_rd = b
    BY <1>2, <2>1, <2>2 DEF HandleObject
  <2> QED BY <2>1, <2>4, <2>5
<1>4. \A k : Readers(k)' = Readers(k) /\ ~Does(k, {"yield"}) /\ ~Does(k, {"yield"})'
  BY <1>2, SlotsSame DEF Does, Moved
<1>5. \A k : InQueue(k)' <=> InQueue(k)
  BY <1>2 DEF InQueue
<1>6. CASE ~op[Main].rd \/ obj[h].closed_rd
  <2>1. ASSUME NEW k \in Handle PROVE Rests(k)
    <3>1. CASE k = h /\ obj[h].closed_rd
      BY <1>2, <1>3, <3>1 DEF Rests, Shut
    <3>2. CASE k # h \/ ~op[Main].rd
      BY <1>1, <1>2, <1>3, <1>4, <1>5, <3>2 DEF Rests, Shut, InHands, Taking, Moved
    <3> QED BY <1>6, <3>1, <3>2
  <2> QED BY <1>2, <2>1, Calm DEF CanRead
<1>7. CASE op[Main].rd /\ ~obj[h].closed_rd
  <2>1. Own(h)' = "closed"
    BY <1>2, <1>3, <1>7 DEF Own, Shut, CallAt
  <2>2. ASSUME Running PROVE Own(h) = "user"
    <3>1. ClosingRead(h)
      BY <1>1, <1>2, <1>7 DEF ClosingRead, Does
    <3>2. Away(h) = 0
      BY <1>2, <2>2, <3>1 DEF HandleAt, OwnerAt
    <3>3. ~InQueue(h) /\ obj[h].fd \notin tcp.set /\ io.h # h /\ h \notin mgr.groupsReady
      BY <3>2 DEF Away, One
    <3> QED BY <1>1, <1>2, <1>7, <2>2, <3>3 DEF Own, Shut, InHands, Taking, CallAt
  <2>3. Others(h)
    <3>1. ASSUME NEW k \in Handle, k # h PROVE Rests(k)
      BY <1>1, <1>2, <1>3, <1>4, <1>5, <3>1 DEF Rests, Shut, InHands, Taking, Moved
    <3> QED BY <1>2, <3>1 DEF Others, CanRead
  <2> QED BY <1>2, <2>1, <2>2, <2>3, Moves DEF CanRead
<1> QED BY <1>6, <1>7

(* notify_yield: the connection goes from the program to the set.          *)
LEMMA NotifyYieldMoves ==
  ASSUME OneThread, OwnerInv, NotifyYield(Main)
  PROVE  Conforms
<1>1. PICK h : h = op[Main].h
  OBVIOUS
<1>2. /\ TypeOK /\ h \in Handle /\ CallAt(op[Main], obj[h]) /\ HandleAt(h)
      /\ op[Main].pc = "yield" /\ UNCHANGED <<obj, io, mgr, slot, wire>>
      /\ (Running' <=> Running) /\ h # NoHandle
  BY <1>1, InCall DEF OwnerInv, NotifyYield, At, Running
<1>c. PICK f \in FD : /\ f = op[Main].fd /\ f = obj[h].fd /\ f # NoFd /\ sock[f] = h
                      /\ ~obj[h].closed_rd /\ obj[h].life = "live"
  BY <1>1, <1>2, OpFields, Fields DEF CallAt, HandleAt, TableAt
<1>3. op'[Main].pc \in {"idle", "decr"}
  <2>1. op[Main].then \in {"idle", "decr"} /\ Return(Main, op[Main].then)
    BY <1>2 DEF CallAt, NotifyYield
  <2> QED BY <1>2, <2>1, OpMoves DEF Idled, Moved
<1>t. tcp'.set = tcp.set \union {f}
  <2>1. PICK a, b : tcp' = [tcp EXCEPT !.set = a, !.fdmax = b] /\ a = tcp.set \union {f}
    BY <1>1, <1>c DEF NotifyYield
  <2> QED BY <1>2, <2>1, Fields DEF TcpState
<1>4. Others(h)
  <2>1. ASSUME NEW k \in Handle, k # h PROVE Rests(k)
    <3>1. obj[k].fd # f
      BY <1>c, <2>1 DEF OwnerInv, Handles, HandleAt, TableAt
    <3>2. Readers(k)' = Readers(k) /\ (InQueue(k)' <=> InQueue(k))
      BY <1>2, SlotsSame, SameMgr
    <3> QED BY <1>1, <1>2, <1>3, <1>t, <2>1, <3>1, <3>2 DEF Rests, Shut, InHands, Does, Taking
  <2> QED BY <1>2, <2>1 DEF Others, CanRead
<1>5. CASE Running
  <2>1. Does(h, {"yield"}) /\ Away(h) <= 1
    BY <1>1, <1>2, <1>5 DEF Does, HandleAt, OwnerAt
  <2>2. ~InQueue(h) /\ obj[h].fd \notin tcp.set /\ io.h # h /\ h \notin mgr.groupsReady
    BY <2>1 DEF Away, One
  <2>3. Own(h) = "user"
    BY <1>c, <2>1, <2>2 DEF Own, Shut, InHands
  <2>4. Own(h)' = "managed"
    BY <1>2, <1>c, <1>t, <2>2, SameMgr DEF Own, Shut
  <2> QED BY <1>2, <1>4, <2>3, <2>4, Moves DEF CanRead
<1>6. CASE ~Running
  <2>1. Does(h, {"yield"}) /\ (InQueue(h)' <=> InQueue(h))
    BY <1>1, <1>2, SameMgr DEF Does
  <2>2. CASE Own(h) \in {"handshake", "team", "ready", "managed"}
    <3>1. Own(h)' = Own(h)
      BY <1>2, <1>c, <1>t, <2>1, <2>2 DEF Own, Shut
    <3> QED BY <1>2, <1>4, <3>1, Moves DEF CanRead
  <2>3. CASE Own(h) \notin {"handshake", "team", "ready", "managed"}
    <3>1. Own(h) = "user" /\ Own(h)' = "managed"
      BY <1>2, <1>c, <1>t, <2>1, <2>3 DEF Own, Shut, InHands
    <3> QED BY <1>2, <1>4, <3>1, Moves DEF CanRead
  <2> QED BY <2>2, <2>3
<1> QED BY <1>5, <1>6

-----------------------------------------------------------------------------
(* Calls that read nothing and give no connection away: send, close, and   *)
(* yield and the destructor up to notify_yield.                            *)
LEMMA ListenCalm ==
  ASSUME OneThread, OwnerInv, Listen(Main)
  PROVE  Conforms
<1>1. /\ UNCHANGED <<obj, mgr, slot, op, wire>> /\ FreeFd # {} /\ tcp.set = {}
      /\ (Running' <=> Running) /\ TypeOK
  BY DEF Listen, ListenAnyTime, Running, OwnerInv
<1>2. PICK f : f = Lowest(FreeFd)
  OBVIOUS
<1>3. tcp'.set = {f} /\ io'.h = io.h
  <2>1. PICK S, T : S = {f} /\ T = {}
    OBVIOUS
  <2>2. tcp' = [tcp EXCEPT !.listen_sck = f, !.set = S, !.fdmax = f]
        /\ io' = [io EXCEPT !.tmpset = T]
    BY <1>2, <2>1 DEF Listen, ListenAnyTime
  <2> QED BY <1>1, <2>1, <2>2, Fields DEF TcpState, IoState
<1>4. \A k \in Handle : obj[k].fd # f
  BY <1>1, <1>2, FreshFd
<1> QED BY <1>1, <1>3, <1>4, HandsKept, Unmoved DEF Shut

LEMMA SendCalm ==
  ASSUME OneThread, OwnerInv, NEW s \in Slot, Send(Main, s)
  PROVE  Conforms
<1>1. PICK h \in Handle : wire' = Write(h, FALSE)
  BY DEF Send
<1>2. UNCHANGED <<obj, tcp, io, mgr, slot, op>> /\ (Running' <=> Running) /\ TypeOK
  BY DEF Send, Running, OwnerInv
<1>3. \A k \in Handle : wire'[k].in = <<>> <=> wire[k].in = <<>>
  BY <1>1, <1>2, Written
<1> QED BY <1>2, <1>3, HandsKept, Unmoved DEF Shut

LEMMA CloseCalm ==
  ASSUME OneThread, OwnerInv, NEW s \in Slot, Close(Main, s)
  PROVE  Conforms
<1>1. PICK h \in Handle : Call(Main, "eos", h, TRUE, FALSE, "idle")
  BY DEF Close
<1>2. /\ UNCHANGED <<obj, tcp, io, mgr, slot, wire>> /\ (Running' <=> Running) /\ TypeOK
      /\ op[Main].pc = "idle"
  BY DEF Close, Running, OwnerInv, Idle, At
<1>3. Called("eos", h, TRUE, FALSE, "idle")
  BY <1>1, <1>2, OpMoves
<1>4. \A k : InHands(k)' <=> InHands(k)
  BY <1>2, <1>3, HandsSame DEF Called, Taking
<1> QED BY <1>2, <1>4, Unmoved DEF Shut

(* A wrapper gives up a connection: the thread has it until notify_yield.  *)
LEMMA GivenUp ==
  ASSUME OneThread, OwnerInv, NEW s \in Slot, NEW h \in Handle, Holds(Main, s, h),
         UNCHANGED <<obj, tcp, io, mgr, wire>>, op[Main].pc = "idle",
         Readers(h)' = Readers(h) \ {<<Main, s>>},
         \A k \in Handle : k # h => Readers(k)' = Readers(k),
         op'[Main].pc \notin {"eos", "mark"},
         op'[Main].pc = "yield" <=> slot[Main][s].readable /\ Managed(h),
         op'[Main].pc = "yield" => op'[Main].h = h
  PROVE  Conforms
<1>1. /\ Running' <=> Running
      /\ \A k : ~Does(k, {"yield"}) /\ (InQueue(k)' <=> InQueue(k))
      /\ <<Main, s>> \in Readers(h) <=> slot[Main][s].readable
      /\ TypeOK
  BY Held DEF Running, Does, InQueue, OwnerInv
<1>2. ASSUME NEW k \in Handle, k # h PROVE Rests(k)
  BY <1>1, <1>2 DEF Rests, Shut, InHands, Does, Taking
<1>3. Rests(h)
  <2>1. CASE Shut(h)
    BY <2>1 DEF Rests, Shut
  <2>2. CASE ~Shut(h)
    <3>1. Managed(h)
      BY <2>2 DEF Managed, Shut, OwnerInv, Handles, HandleAt, TableAt, Registered
    <3>2. InHands(h)' <=> InHands(h)
      <4>1. CASE slot[Main][s].readable
        BY <1>1, <3>1, <4>1 DEF InHands, Does
      <4>2. CASE ~slot[Main][s].readable
        BY <1>1, <3>1, <4>2 DEF InHands, Does, Taking
      <4> QED BY <4>1, <4>2
    <3> QED BY <1>1, <3>2 DEF Rests, Shut
  <2> QED BY <2>1, <2>2
<1> QED BY <1>1, <1>2, <1>3, Calm DEF CanRead

LEMMA YieldCalm ==
  ASSUME OneThread, OwnerInv, NEW s \in Slot, Yield(Main, s)
  PROVE  Conforms
<1>1. PICK h \in Handle :
        /\ Holds(Main, s, h) /\ Release(Main, s)
        /\ IF Managed(h) THEN Call(Main, "yield", h, FALSE, FALSE, "idle") ELSE UNCHANGED op
  BY DEF Yield, YieldAnyTime
<1>2. /\ UNCHANGED <<obj, tcp, io, mgr, wire>> /\ op[Main].pc = "idle" /\ TypeOK
      /\ slot[Main][s].readable
  BY DEF Yield, YieldAnyTime, Idle, At, OwnerInv
<1>3. /\ Readers(h)' = Readers(h) \ {<<Main, s>>}
      /\ \A k \in Handle : k # h => Readers(k)' = Readers(k)
  BY <1>1, <1>2, SlotReleased
<1>4. /\ op'[Main].pc = (IF Managed(h) THEN "yield" ELSE "idle")
      /\ Managed(h) => op'[Main].h = h
  BY <1>1, <1>2, OpMoves DEF Called
<1> QED BY <1>1, <1>2, <1>3, <1>4, GivenUp

LEMMA DestroyCalm ==
  ASSUME OneThread, OwnerInv, NEW s \in Slot, Destroy(Main, s)
  PROVE  Conforms
<1>1. PICK h, l :
        /\ h \in Handle /\ Holds(Main, s, h) /\ slot' = [slot EXCEPT ![Main][s] = Empty]
        /\ l = (IF slot[Main][s].readable /\ Managed(h) THEN "yield" ELSE "decr")
        /\ Call(Main, l, h, FALSE, FALSE, "decr")
  BY DEF Destroy
<1>2. /\ UNCHANGED <<obj, tcp, io, mgr, wire>> /\ op[Main].pc = "idle" /\ TypeOK
  BY DEF Destroy, At, OwnerInv
<1>3. /\ Readers(h)' = Readers(h) \ {<<Main, s>>}
      /\ \A k \in Handle : k # h => Readers(k)' = Readers(k)
  BY <1>1, <1>2, SlotDropped
<1>4. op'[Main].pc = l /\ op'[Main].h = h
  BY <1>1, <1>2, OpMoves DEF Called
<1> QED BY <1>1, <1>2, <1>3, <1>4, GivenUp

(* The next connection of the queue goes to the program.                   *)
LEMMA GetNextMoves ==
  ASSUME OneThread, OwnerInv, NEW s \in Slot, GetNext(Main, s)
  PROVE  Conforms
<1>1. PICK h : h = Head(mgr.handleReady)
  OBVIOUS
<1>2. /\ UNCHANGED <<obj, tcp, io, op, sock, wire, backlog>> /\ mgr.phase = "run" /\ Running
      /\ slot[Main][s] = Empty /\ mgr.handleReady # <<>> /\ TypeOK /\ op[Main].pc = "idle"
      /\ slot' = [slot EXCEPT ![Main][s] = [real |-> h, readable |-> TRUE]]
  BY <1>1 DEF GetNext, Idle, At, Running, OwnerInv
<1>m. mgr'.handleReady = Tail(mgr.handleReady) /\ mgr'.groupsReady = mgr.groupsReady /\ Running'
  <2>1. PICK q : q = Tail(mgr.handleReady)
    OBVIOUS
  <2>2. mgr' = [mgr EXCEPT !.handleReady = q]
    BY <2>1 DEF GetNext
  <2> QED BY <1>2, <2>1, <2>2, Fields DEF MgrState, Running
<1>q. /\ h \in Handle /\ InQueue(h) /\ ~InQueue(h)'
      /\ \A k \in Handle : k # h => (InQueue(k)' <=> InQueue(k))
  <2>1. mgr.handleReady \in Seq(Handle) /\ Distinct(mgr.handleReady)
    BY <1>2, Fields DEF OwnerInv, PlacesOK
  <2> QED BY <1>1, <1>2, <1>m, <2>1, TailIn DEF InQueue
<1>3. Away(h) = 1 /\ ~obj[h].closed_rd /\ obj[h].life = "live"
  BY <1>2, <1>q, OneAway
<1>4. obj[h].fd \notin tcp.set /\ io.h # h /\ h \notin mgr.groupsReady
  BY <1>q, <1>3 DEF Away, One
<1>5. /\ Readers(h)' # {}
      /\ \A k \in Handle : k # h => Readers(k)' = Readers(k)
  <2>1. /\ Readers(h)' = Readers(h) \union {<<Main, s>>}
        /\ \A k \in Handle : k # h => Readers(k)' = Readers(k)
    BY <1>2, <1>q, SlotTaken
  <2> QED BY <2>1
<1>6. Own(h) = "ready" /\ Own(h)' = "user"
  BY <1>2, <1>3, <1>4, <1>5, <1>m, <1>q DEF Own, Shut, InHands
<1>7. Others(h)
  BY <1>2, <1>5, <1>m, <1>q DEF Others, Rests, Shut, InHands, Does, Taking, CanRead
<1> QED BY <1>2, <1>6, <1>7, <1>q, Moves DEF CanRead

(* A new connection goes to the program that opens it, or is lost.         *)
LEMMA ConnectMoves ==
  ASSUME OneThread, OwnerInv, NEW s \in Slot, NEW h \in Handle, NEW ok \in BOOLEAN,
         Connect(Main, s, h, ok)
  PROVE  Conforms
<1>r. /\ UNCHANGED <<io, mgr, op>> /\ op[Main].pc = "idle"
      /\ Running /\ Running' /\ slot[Main][s] = Empty /\ FreeFd # {} /\ wire[h].peer = "none"
      /\ h # NoHandle /\ TypeOK
  BY HandleAssumption DEF Connect, Idle, At, Running, OwnerInv
<1>2. HandleAt(h) /\ \A k \in Handle : op[Main].h # k
  BY <1>r, AtRest
<1>3. PICK f : f = Lowest(FreeFd)
  OBVIOUS
<1>4. f # NoFd /\ f \notin tcp.set
  BY <1>r, <1>3, FreshFd
<1>n. obj[h].life = "none" /\ ~obj[h].closed_rd /\ Unreachable(h)
  BY <1>r, <1>2 DEF HandleAt, PeerAt, LifeAt, UnusedAt
<1>t. tcp'.set = tcp.set
  <2>1. PICK c : tcp' = [tcp EXCEPT !.connections = c]
    BY <1>3 DEF Connect, Register
  <2> QED BY <1>r, <2>1, Fields DEF TcpState
<1>5. /\ obj'[h].fd = f /\ obj'[h].life = "live" /\ ~obj'[h].closed_rd
      /\ \A k \in Handle : k # h => obj'[k] = obj[k]
  <2>1. obj[h] \in HandleObject
    BY <1>r, ObjField
  <2>2. PICK n : n = IF ok THEN 1 ELSE 0
    OBVIOUS
  <2>3. PICK r : r = [obj[h] EXCEPT !.fd = f, !.life = "live", !.counter = n]
    OBVIOUS
  <2>4. obj' = [obj EXCEPT ![h] = r]
    BY <1>r, <1>3, <2>1, <2>2, <2>3 DEF Connect, TypeOK, Types
  <2>5. obj'[h] = r /\ \A k \in Handle : k # h => obj'[k] = obj[k]
    BY <1>r, <2>4, ObjUpdate
  <2> QED BY <1>n, <2>1, <2>2, <2>3, <2>5 DEF HandleObject
<1>w. \A k \in Handle : k # h => wire'[k] = wire[k]
  <2>1. wire \in [Handle -> Stream]
    BY <1>r DEF TypeOK, Types
  <2> QED BY <2>1 DEF Connect
<1>s. \A k \in Handle : k # h => Readers(k)' = Readers(k)
  <2>2. CASE ok
    <3>1. slot' = [slot EXCEPT ![Main][s] = [real |-> h, readable |-> TRUE]]
      BY <2>2 DEF Connect
    <3> QED BY <1>r, <3>1, SlotTaken
  <2>3. CASE ~ok
    BY <2>3, SlotsSame DEF Connect
  <2> QED BY <2>2, <2>3
<1>7. Others(h)
  BY <1>r, <1>5, <1>s, <1>t, <1>w, SameMgr DEF Others, Rests, Shut, InHands, Does, Taking, CanRead
<1>8. Own(h) = "none"
  BY <1>n DEF Own
<1>9. Own(h)' \in {"user", "lost"}
  BY <1>r, <1>4, <1>5, <1>n, <1>t, SameMgr DEF Own, Shut, Unreachable
<1> QED BY <1>7, <1>8, <1>9, Moves

(* Reading: by the program from a HandleUser that may be read from.        *)
LEMMA ReadMoves ==
  ASSUME OneThread, OwnerInv, NEW s \in Slot, Probe(Main, s) \/ Receive(Main, s)
  PROVE  Conforms
<1>1. PICK h, x :
        /\ h \in Handle /\ Idle(Main) /\ Holds(Main, s, h) /\ slot[Main][s].readable
        /\ ~obj[h].closed_rd /\ wire[h].in # <<>> /\ wire' = Consume(h)
        /\ obj' = [obj EXCEPT ![h].probed = x]
        /\ \/ Release(Main, s) /\ \E b : Call(Main, "eos", h, b, TRUE, "idle")
           \/ UNCHANGED slot /\ \E b : Call(Main, "eos", h, b, TRUE, "idle")
           \/ UNCHANGED <<slot, op>>
        /\ UNCHANGED <<tcp, io, mgr>>
  <2>1. CASE Probe(Main, s)
    <3>1. PICK h, frame :
        /\ h \in Handle /\ frame = Head(wire[h].in)
        /\ Idle(Main) /\ Holds(Main, s, h) /\ slot[Main][s].readable
        /\ ~obj[h].closed_rd /\ wire[h].in # <<>> /\ wire' = Consume(h)
        /\ obj' = [obj EXCEPT ![h].probed = IF frame \in {"msg", "eos"} THEN frame ELSE @]
        /\ IF frame \in {"fin", "eos"} THEN Release(Main, s) ELSE UNCHANGED slot
        /\ IF frame \in {"fin", "rst", "eos"}
           THEN Call(Main, "eos", h, frame # "eos", TRUE, "idle") ELSE UNCHANGED op
        /\ UNCHANGED <<tcp, io, mgr>>
      BY <2>1 DEF Probe
    <3>2. PICK x : x = IF frame \in {"msg", "eos"} THEN frame ELSE obj[h].probed
      OBVIOUS
    <3>3. TypeOK /\ obj' = [obj EXCEPT ![h].probed = x]
      BY <3>1, <3>2 DEF OwnerInv, TypeOK, Types
    <3> QED BY <3>1, <3>3
  <2>2. CASE Receive(Main, s)
    BY <2>2 DEF Receive
  <2> QED BY <2>1, <2>2
<1>2. /\ op[Main].pc = "idle" /\ TypeOK /\ Running /\ (\A k \in Handle : op[Main].h # k)
      /\ h # NoHandle /\ Running'
  BY <1>1, AtRest, HandleAssumption DEF Idle, At, Running
<1>3. /\ obj[h].life = "live" /\ Away(h) = 0 /\ <<Main, s>> \in Readers(h)
  BY <1>1, <1>2, Held
<1>4. io.h # h /\ ~InQueue(h) /\ obj[h].fd \notin tcp.set /\ h \notin mgr.groupsReady
  BY <1>3 DEF Away, One
<1>5. /\ obj'[h].fd = obj[h].fd /\ obj'[h].life = obj[h].life
      /\ obj'[h].closed_rd = obj[h].closed_rd
      /\ \A k \in Handle : k # h => obj'[k] = obj[k]
  <2>1. obj[h] \in HandleObject
    BY <1>1, <1>2, ObjField
  <2>2. PICK r : r = [obj[h] EXCEPT !.probed = x]
    OBVIOUS
  <2>3. obj' = [obj EXCEPT ![h] = r]
    BY <1>1, <1>2, <2>2 DEF TypeOK, Types
  <2>4. obj'[h] = r /\ \A k \in Handle : k # h => obj'[k] = obj[k]
    BY <1>1, <1>2, <2>3, ObjUpdate
  <2> QED BY <2>1, <2>2, <2>4 DEF HandleObject
<1>w. \A k \in Handle : k # h => wire'[k] = wire[k]
  BY <1>1, <1>2, Consumed
<1>s. \A k \in Handle : k # h => Readers(k)' = Readers(k)
  <2>1. CASE Release(Main, s)
    BY <1>1, <1>2, <2>1, SlotReleased
  <2>2. CASE UNCHANGED slot
    BY <2>2, SlotsSame
  <2> QED BY <1>1, <2>1, <2>2
<1>o. \/ \E b : Called("eos", h, b, TRUE, "idle")
      \/ UNCHANGED <<slot, op>>
  BY <1>1, <1>2, OpMoves
<1>6. Others(h)
  <2>1. ASSUME NEW k \in Handle, k # h PROVE Rests(k)
    BY <1>1, <1>2, <1>5, <1>o, <1>s, <2>1, SameMgr
       DEF Rests, Shut, InHands, Does, Taking, Called
  <2> QED BY <1>2, <1>w, <2>1 DEF Others, CanRead
<1>7. Own(h) = "user"
  BY <1>1, <1>2, <1>3, <1>4 DEF Own, Shut, InHands
<1>8. InHands(h)'
  <2>1. CASE UNCHANGED <<slot, op>>
    BY <1>3, <2>1, SlotsSame DEF InHands
  <2>2. CASE \E b : Called("eos", h, b, TRUE, "idle")
    BY <1>2, <2>2 DEF InHands, Called, Taking
  <2> QED BY <1>o, <2>1, <2>2
<1>9. Own(h)' = "user"
  BY <1>1, <1>3, <1>4, <1>5, <1>8, SameMgr DEF Own, Shut
<1> QED BY <1>1, <1>6, <1>7, <1>9, Moves DEF CanRead

-----------------------------------------------------------------------------
(* finalize: from Join on everything may be read and closed.               *)
LEMMA FinalizationMoves ==
  ASSUME OneThread, OwnerInv, Finalization
  PROVE  Conforms
<1>0. TypeOK /\ op[Main] \in Activity /\ op \in [Thread -> Activity] /\ mgr \in MgrState
  BY Fields DEF OwnerInv
<1>1. CASE Finalize
  <2>1. /\ UNCHANGED <<obj, tcp, io, slot, op, wire>> /\ mgr.phase = "run"
        /\ mgr'.handleReady = mgr.handleReady /\ mgr'.groupsReady = mgr.groupsReady
        /\ mgr'.phase = "join"
    BY <1>0, <1>1, ThreadAssumption DEF Finalize, Idle, MgrState
  <2>2. Running /\ Running'
    BY <2>1 DEF Running
  <2> QED BY <2>1, <2>2, HandsKept, Unmoved DEF Shut
<1>2. CASE Join
  <2>1. PICK T : mgr' = [mgr EXCEPT !.phase = "end", !.todo = T]
    BY <1>2 DEF Join
  <2>2. /\ UNCHANGED <<obj, tcp, io, slot, wire>> /\ mgr.phase = "join"
        /\ mgr'.handleReady = mgr.handleReady /\ mgr'.groupsReady = mgr.groupsReady
        /\ mgr'.phase = "end"
    BY <1>0, <1>2, <2>1 DEF Join, MgrState
  <2>3. Running /\ ~Running'
    BY <2>2 DEF Running
  <2>4. op[Main].pc = "idle"
    BY <2>2 DEF OwnerInv, ThreadAt, PhaseAt
  <2>5. Moved("next")
    BY <1>0, <1>2, OpMoves DEF Join
  <2>6. ASSUME NEW k \in Handle PROVE Own(k)' = Own(k) /\ (CanRead(k)' <=> CanRead(k))
    <3>1. Readers(k)' = Readers(k)
      BY <2>2, SlotsSame
    <3> QED BY <2>2, <2>3, <2>4, <2>5, <3>1
            DEF Own, Shut, InQueue, InHands, Does, Taking, Moved, CanRead
  <2>7. OwnerMap' = OwnerMap /\ AvailMap' = AvailMap
    <3>1. /\ OwnerMap = [k \in Handle |-> Own(k)] /\ OwnerMap' = [k \in Handle |-> Own(k)']
          /\ AvailMap = [k \in Handle |-> CanRead(k)] /\ AvailMap' = [k \in Handle |-> CanRead(k)']
      BY Mapped
    <3>2. \A k \in Handle : CanRead(k) \in BOOLEAN /\ CanRead(k)' \in BOOLEAN
      BY DEF CanRead
    <3>3. OwnerMap' = OwnerMap
      BY <2>6, <3>1
    <3>4. AvailMap' = AvailMap
      BY <2>6, <3>1, <3>2
    <3> QED BY <3>3, <3>4
  <2>8. Contract!End
    BY <2>3, <2>7 DEF Contract!End, OwnerMap, AvailMap
  <2> QED BY <2>8 DEF Conforms, Contract!Next
<1>3. CASE EndNext \/ EndDone \/ DrainSkip
  <2>1. /\ UNCHANGED <<obj, tcp, io, slot, wire>>
        /\ mgr'.handleReady = mgr.handleReady /\ mgr'.groupsReady = mgr.groupsReady
        /\ (mgr'.phase = mgr.phase \/ mgr'.phase = "done")
        /\ op[Main].pc \in {"next", "drain"}
    BY <1>0, <1>3 DEF EndNext, EndDone, DrainSkip, MgrState, At
  <2>2. ~Running /\ ~Running'
    BY <1>0, <2>1, Fields DEF OwnerInv, ThreadAt, PhaseAt, Running
  <2>3. op'[Main].pc # "yield"
    <3>1. CASE EndNext
      <4>1. PICK e, l : l \in {"drain", "eos"} /\ Call(Main, l, e[2], TRUE, FALSE, "drain")
        BY <3>1 DEF EndNext
      <4> QED BY <1>0, <4>1, OpMoves DEF Called
    <3>2. CASE EndDone
      BY <1>0, <3>2, OpMoves DEF EndDone, Idled
    <3>3. CASE DrainSkip
      <4>1. PICK h : Call(Main, "eos", h, FALSE, TRUE, "next")
        BY <3>3 DEF DrainSkip, CloseRead
      <4> QED BY <1>0, <4>1, OpMoves DEF Called
    <3> QED BY <1>3, <3>1, <3>2, <3>3
  <2>4. \A k : InHands(k)' <=> InHands(k)
    BY <2>1, <2>2, <2>3, HandsSame
  <2> QED BY <2>1, <2>2, <2>4, Unmoved DEF Shut
<1>4. CASE Drain
  <2>1. PICK h, x : /\ h = op[Main].h /\ wire[h].in # <<>> /\ wire' = Consume(h)
                    /\ obj' = [obj EXCEPT ![h].probed = x]
                    /\ CloseRead(h) \/ Goto(Main, "next") \/ UNCHANGED op
    <3>1. PICK h, frame :
        /\ h = op[Main].h /\ frame = Head(wire[h].in)
        /\ wire[h].in # <<>> /\ wire' = Consume(h)
        /\ obj' = [obj EXCEPT ![h].probed = IF frame = "rst" THEN @
                                            ELSE IF frame = "msg" THEN "msg" ELSE "no"]
        /\ CASE frame = "eos" -> CloseRead(h)
             [] frame = "rst" -> Goto(Main, "next")
             [] OTHER         -> UNCHANGED op
      BY <1>4 DEF Drain
    <3>2. PICK x : x = IF frame = "rst" THEN obj[h].probed ELSE IF frame = "msg" THEN "msg" ELSE "no"
      OBVIOUS
    <3>3. obj' = [obj EXCEPT ![h].probed = x]
      BY <1>0, <3>1, <3>2 DEF TypeOK, Types
    <3>4. CloseRead(h) \/ Goto(Main, "next") \/ UNCHANGED op
      BY <3>1
    <3> QED BY <3>1, <3>3, <3>4
  <2>2. /\ op[Main].pc = "drain" /\ UNCHANGED <<tcp, io, mgr, slot>>
    BY <1>4 DEF Drain, At
  <2>3. h \in Handle /\ ~Running /\ ~Running' /\ obj[h] \in HandleObject
    <3>1. mgr.phase \notin {"run", "join"}
      BY <2>2 DEF OwnerInv, ThreadAt, PhaseAt
    <3> QED BY <1>0, <2>1, <2>2, <3>1, OpFields, ObjField DEF Running
  <2>4. op'[Main].pc # "yield"
    <3>1. CASE CloseRead(h)
      <4>1. Call(Main, "eos", h, FALSE, TRUE, "next")
        BY <3>1 DEF CloseRead
      <4> QED BY <1>0, <4>1, OpMoves DEF Called
    <3>2. CASE Goto(Main, "next")
      BY <1>0, <3>2, OpMoves DEF Moved
    <3> QED BY <2>1, <2>2, <3>1, <3>2
  <2>5. \A k : InHands(k)' <=> InHands(k)
    BY <2>2, <2>3, <2>4, HandsSame
  <2>6. /\ obj'[h].fd = obj[h].fd /\ obj'[h].life = obj[h].life
        /\ obj'[h].closed_rd = obj[h].closed_rd
        /\ \A k \in Handle : k # h => obj'[k] = obj[k]
    <3>1. PICK r : r = [obj[h] EXCEPT !.probed = x]
      OBVIOUS
    <3>2. obj' = [obj EXCEPT ![h] = r]
      BY <1>0, <2>1, <2>3, <3>1 DEF TypeOK, Types
    <3>3. obj'[h] = r /\ \A k \in Handle : k # h => obj'[k] = obj[k]
      BY <1>0, <2>3, <3>2, ObjUpdate
    <3> QED BY <2>3, <3>1, <3>3 DEF HandleObject
  <2>7. \A k \in Handle : k # h => wire'[k] = wire[k]
    BY <1>0, <2>1, <2>3, Consumed
  <2>8. \A k \in Handle : Rests(k)
    BY <2>2, <2>3, <2>5, <2>6 DEF Rests, Shut, InQueue
  <2>9. Others(h)
    BY <2>3, <2>7, <2>8 DEF Others, CanRead
  <2>10. Own(h)' = Own(h)
    BY <2>3, <2>8, RestsOwner
  <2> QED BY <2>1, <2>3, <2>9, <2>10, Moves DEF CanRead
<1> QED BY <1>1, <1>2, <1>3, <1>4 DEF Finalization

-----------------------------------------------------------------------------
(* What select has found to read is still there when update gets to it.    *)
Scans == io.pc \in {"scan", "handshake"}
Found == \A h \in Handle : Scans /\ obj[h].fd \in io.tmpset => CanRead(h)

LEMMA IoIdleCalm ==
  ASSUME OneThread, OwnerInv, IoExit \/ Snapshot \/ Select \/ ScanDone
  PROVE  Conforms
<1>1. UNCHANGED <<obj, tcp, mgr, slot, op, wire>> /\ TypeOK /\ io \in IoState
  BY Fields DEF IoExit, Snapshot, Select, ScanDone, OwnerInv
<1>2. io'.h = io.h
  <2>1. PICK l, T : io' = [io EXCEPT !.pc = l] \/ io' = [io EXCEPT !.pc = l, !.tmpset = T]
    <3>1. CASE IoExit \/ ScanDone
      BY <3>1 DEF IoExit, ScanDone, IoGoto
    <3>2. CASE Snapshot
      BY <1>1, <3>2 DEF Snapshot, IoState
    <3>3. CASE Select
      <4>1. PICK T : /\ T = IF {f \in io.tmpset : f <= tcp.fdmax} \subseteq OpenFd
                            THEN {f \in {f \in io.tmpset : f <= tcp.fdmax} : ReadyToRead(f)}
                            ELSE {}
        OBVIOUS
      <4>2. PICK l : l = IF T = {} THEN "snapshot" ELSE "scan"
        OBVIOUS
      <4>3. io' = [io EXCEPT !.pc = l, !.tmpset = T]
        BY <1>1, <3>3, <4>1, <4>2 DEF Select, IoState
      <4> QED BY <4>3
    <3> QED BY <3>1, <3>2, <3>3
  <2> QED BY <1>1, <2>1 DEF IoState
<1> QED BY <1>1, <1>2, HandsKept, SameMgr, Unmoved DEF Shut

(* A connection that is accepted is the IO thread's.                       *)
LEMMA AcceptMoves ==
  ASSUME OneThread, OwnerInv, Accept
  PROVE  Conforms
<1>1. PICK h : h = Head(backlog)
  OBVIOUS
<1>r. /\ UNCHANGED <<mgr, slot, op, wire>> /\ io.pc = "scan" /\ FreeFd # {} /\ TypeOK
      /\ PlacesOK
  BY DEF Accept, OwnerInv
<1>b. backlog # <<>> /\ Running /\ Running' /\ io.h = NoHandle
  <2>1. Scanning # {} /\ Scanning \subseteq FD /\ Lowest(Scanning) = tcp.listen_sck
    BY <1>r, Fields DEF Accept, Scanning
  <2>0. Scanning \subseteq Nat
    BY <2>1, FdAssumption DEF FD
  <2>2. Lowest(Scanning) \in Scanning
    BY <2>0, <2>1, LowestIsLeast
  <2>3. tcp.listen_sck \in io.tmpset
    BY <2>1, <2>2 DEF Scanning
  <2> QED BY <1>r, <2>3 DEF TypeOK, BusyIo, PlacesOK, Running
<1>q. h \in Handle /\ InBacklog(h)
  <2>1. backlog \in Seq(Handle)
    BY <1>r, Fields
  <2> QED BY <1>1, <1>b, <2>1, TailIn DEF InBacklog
<1>n. /\ obj[h].life = "none" /\ ~obj[h].closed_rd /\ h # NoHandle
      /\ \A k \in Handle : k # NoHandle
  BY <1>q, HandleAssumption DEF OwnerInv, Handles, HandleAt, PeerAt, LifeAt, UnusedAt
<1>t. tcp'.set = tcp.set
  <2>1. PICK c : tcp' = [tcp EXCEPT !.connections = c]
    BY DEF Accept, Register
  <2> QED BY <1>r, <2>1, Fields DEF TcpState
<1>i. io'.h = h
  BY <1>1 DEF Accept
<1>5. /\ obj'[h].life = "live" /\ ~obj'[h].closed_rd
      /\ \A k \in Handle : k # h => obj'[k] = obj[k]
  <2>1. obj[h] \in HandleObject
    BY <1>r, <1>q, ObjField
  <2>2. PICK f : f = Lowest(FreeFd)
    OBVIOUS
  <2>3. PICK r : r = [obj[h] EXCEPT !.fd = f, !.life = "live"]
    OBVIOUS
  <2>4. obj' = [obj EXCEPT ![h] = r]
    BY <1>1, <1>q, <1>r, <2>1, <2>2, <2>3 DEF Accept, TypeOK, Types
  <2>5. obj'[h] = r /\ \A k \in Handle : k # h => obj'[k] = obj[k]
    BY <1>r, <1>q, <2>4, ObjUpdate
  <2> QED BY <1>n, <2>1, <2>3, <2>5 DEF HandleObject
<1>6. Others(h)
  <2>1. ASSUME NEW k \in Handle, k # h PROVE Rests(k)
    <3>1. InHands(k)' <=> InHands(k)
      BY <1>r, <1>b, HandsKept
    <3> QED BY <1>r, <1>b, <1>n, <1>t, <1>i, <1>5, <2>1, <3>1, SameMgr DEF Rests, Shut
  <2> QED BY <1>r, <1>b, <2>1 DEF Others, CanRead
<1>7. Own(h) = "none" /\ Own(h)' = "handshake"
  BY <1>n, <1>i, <1>5 DEF Own, Shut
<1> QED BY <1>q, <1>r, <1>6, <1>7, Moves DEF CanRead

(* The handshake ends with a connection in the queue or a team's, or with  *)
(* one that nobody gets.                                                   *)
LEMMA HandshakeMoves ==
  ASSUME OneThread, OwnerInv, Handshake
  PROVE  Conforms
<1>1. PICK h, frame :
        /\ h = io.h /\ frame = Head(wire[h].in)
        /\ wire[h].in # <<>> /\ wire' = Consume(h)
        /\ CASE frame = "p2p" -> Enqueue(h)
             [] frame = "id"  -> /\ mgr' = [mgr EXCEPT !.groupsReady = @ \union {h}]
                                 /\ UNCHANGED obj
             [] OTHER         -> UNCHANGED <<mgr, obj>>
        /\ io' = IF frame = "team" THEN io ELSE [io EXCEPT !.pc = "scan", !.h = NoHandle]
  BY DEF Handshake
<1>r. /\ UNCHANGED <<tcp, slot, op>> /\ io.pc = "handshake" /\ TypeOK /\ Running
  BY DEF Handshake, OwnerInv, PlacesOK
<1>2. h \in Handle /\ h # NoHandle /\ \A k \in Handle : k # NoHandle
  BY <1>1, <1>r, HandleAssumption DEF TypeOK, BusyIo
<1>3. /\ Away(h) = 1 /\ Readers(h) = {} /\ ~obj[h].closed_rd /\ ~ClosingRead(h)
      /\ obj[h].life = "live"
  BY <1>1, <1>2, <1>r, OneAway
<1>4. /\ ~InQueue(h) /\ ~Does(h, {"yield"}) /\ h \notin mgr.groupsReady
      /\ obj[h].fd \notin tcp.set
  BY <1>1, <1>3 DEF Away, One
<1>w. \A k \in Handle : k # h => wire'[k] = wire[k]
  BY <1>1, <1>2, <1>r, Consumed
<1>i. io'.h = IF frame = "team" THEN h ELSE NoHandle
  BY <1>1, <1>r, Fields DEF IoState
<1>o. /\ \A k \in Handle : /\ obj'[k].fd = obj[k].fd /\ obj'[k].life = obj[k].life
                           /\ obj'[k].closed_rd = obj[k].closed_rd
      /\ mgr'.phase = mgr.phase
      /\ InQueue(h)' <=> frame = "p2p"
      /\ h \in mgr'.groupsReady <=> frame = "id"
      /\ \A k \in Handle : k # h => /\ InQueue(k)' <=> InQueue(k)
                                    /\ k \in mgr'.groupsReady <=> k \in mgr.groupsReady
  <2>1. CASE frame = "p2p"
    <3>1. Enqueue(h)
      BY <1>1, <2>1
    <3> QED BY <1>2, <1>4, <2>1, <3>1, Enqueued
  <2>2. CASE frame = "id"
    <3>1. PICK G : G = mgr.groupsReady \union {h}
      OBVIOUS
    <3>2. obj' = obj /\ mgr' = [mgr EXCEPT !.groupsReady = G]
      BY <1>1, <2>2, <3>1
    <3>3. /\ mgr'.handleReady = mgr.handleReady /\ mgr'.groupsReady = G
          /\ mgr'.phase = mgr.phase
      BY <1>r, <3>2, Fields DEF MgrState
    <3> QED BY <1>4, <2>2, <3>1, <3>2, <3>3 DEF InQueue
  <2>3. CASE frame \notin {"p2p", "id"}
    <3>1. UNCHANGED <<mgr, obj>>
      BY <1>1, <2>3
    <3> QED BY <1>4, <2>3, <3>1 DEF InQueue
  <2> QED BY <2>1, <2>2, <2>3
<1>5. Running' /\ \A k : InHands(k)' <=> InHands(k)
  BY <1>r, <1>o, HandsKept DEF Running
<1>6. Others(h)
  <2>1. ASSUME NEW k \in Handle, k # h PROVE Rests(k)
    BY <1>1, <1>2, <1>r, <1>i, <1>o, <1>5, <2>1 DEF Rests, Shut
  <2> QED BY <1>r, <1>w, <1>5, <2>1 DEF Others, CanRead
<1>7. Own(h) = "handshake"
  BY <1>1, <1>3 DEF Own, Shut
<1>8. ~InHands(h)
  BY <1>3, <1>4 DEF InHands, ClosingRead, Does, Taking
<1>9. Own(h)' = IF frame = "team" THEN "handshake" ELSE IF frame = "id" THEN "team"
                ELSE IF frame = "p2p" THEN "ready" ELSE "lost"
  BY <1>2, <1>3, <1>4, <1>i, <1>o, <1>r, <1>5, <1>8 DEF Own, Shut
<1> QED BY <1>1, <1>2, <1>6, <1>7, <1>9, Moves DEF CanRead

(* update takes out of the set only what has something to read.            *)
LEMMA DeliverMoves ==
  ASSUME OneThread, OwnerInv, Found, Deliver
  PROVE  Conforms
<1>r. /\ UNCHANGED <<slot, op, sock, wire>> /\ io.pc = "scan"
      /\ Scanning # {} /\ TypeOK /\ PlacesOK /\ Running /\ io.h = NoHandle
  BY DEF Deliver, OwnerInv, PlacesOK
<1>1. PICK f : f = Lowest(Scanning)
  OBVIOUS
<1>2. f \in FD /\ f \in io.tmpset /\ f \in tcp.set /\ sock[f] \in Handle /\ f # NoFd
  <2>1. Scanning \subseteq FD /\ Scanning \subseteq io.tmpset
    BY <1>r, Fields DEF Scanning
  <2>0. Scanning \subseteq Nat
    BY <2>1, FdAssumption DEF FD
  <2>2. f \in Scanning
    BY <1>r, <1>1, <2>0, LowestIsLeast
  <2>3. f # tcp.listen_sck
    BY <1>1 DEF Deliver
  <2> QED BY <1>r, <2>1, <2>2, <2>3, Fields DEF PlacesOK, MaybeHandle
<1>3. PICK h \in Handle : h = sock[f]
  BY <1>2
<1>k. h # NoHandle /\ \A k \in Handle : k # NoHandle
  BY HandleAssumption
<1>4. obj[h].fd = f
  BY <1>2, <1>3 DEF OwnerInv, Handles, HandleAt, TableAt
<1>5. /\ Away(h) = 1 /\ ~obj[h].closed_rd /\ obj[h].life = "live" /\ Registered(h)
  BY <1>r, <1>2, <1>4, OneAway
<1>6. ~InQueue(h) /\ h \notin mgr.groupsReady /\ CanRead(h)
  BY <1>r, <1>2, <1>4, <1>5 DEF Away, One, Found, Scans
<1>e. Enqueue(h)
  BY <1>1, <1>k, <1>4, <1>5 DEF Deliver, Registered
<1>o. /\ \A k \in Handle : /\ obj'[k].fd = obj[k].fd /\ obj'[k].life = obj[k].life
                           /\ obj'[k].closed_rd = obj[k].closed_rd
      /\ mgr'.phase = mgr.phase /\ mgr'.groupsReady = mgr.groupsReady
      /\ InQueue(h)'
      /\ \A k \in Handle : k # h => (InQueue(k)' <=> InQueue(k))
  BY <1>e, <1>6, Enqueued
<1>t. tcp'.set = tcp.set \ {f}
  BY <1>r, <1>1, Cleared DEF Deliver
<1>i. io'.h = io.h
  <2>1. PICK T : T = io.tmpset \ {f}
    OBVIOUS
  <2>2. io' = [io EXCEPT !.tmpset = T]
    BY <1>1, <2>1 DEF Deliver
  <2> QED BY <1>r, <2>2, Fields DEF IoState
<1>7. Running' /\ \A k : InHands(k)' <=> InHands(k)
  BY <1>r, <1>o, HandsKept DEF Running
<1>8. Others(h)
  <2>1. ASSUME NEW k \in Handle, k # h PROVE Rests(k)
    <3>1. obj[k].fd # f
      BY <1>2, <1>3, <2>1 DEF OwnerInv, Handles, HandleAt, TableAt
    <3> QED BY <1>i, <1>o, <1>t, <1>7, <2>1, <3>1 DEF Rests, Shut
  <2> QED BY <1>r, <1>7, <2>1 DEF Others, CanRead
<1>9. Own(h) = "managed" /\ Own(h)' = "ready"
  BY <1>r, <1>k, <1>2, <1>4, <1>5, <1>6, <1>i, <1>o DEF Own, Shut
<1> QED BY <1>r, <1>6, <1>8, <1>9, Moves DEF CanRead

(* What arrives can be read, and belongs to who has the connection.        *)
LEMMA PeerArrives ==
  ASSUME TypeOK, NEW h \in Handle, Peer(h)
  PROVE  /\ UNCHANGED <<obj, tcp, io, mgr, slot, op, sock>>
         /\ CanRead(h)' \/ wire'[h].in = wire[h].in
         /\ \A k \in Handle : k # h => wire'[k] = wire[k]
<1>0. wire \in [Handle -> Stream] /\ wire[h] \in Stream /\ wire[h].in \in Seq(Frame)
  BY DEF TypeOK, Types, Stream
<1>1. CASE PeerConnect(h)
  <2>1. wire' = [wire EXCEPT ![h] = [wire[h] EXCEPT !.peer = "new"]]
    BY <1>0, <1>1 DEF PeerConnect
  <2>2. wire'[h] = [wire[h] EXCEPT !.peer = "new"] /\ \A k \in Handle : k # h => wire'[k] = wire[k]
    BY <1>0, <2>1
  <2> QED BY <1>0, <1>1, <2>2 DEF PeerConnect, Stream
<1>2. ASSUME NEW from, NEW q, NEW to, PeerStep(h, from, q, to), q # <<>>
      PROVE  /\ UNCHANGED <<obj, tcp, io, mgr, slot, op, sock>> /\ CanRead(h)'
             /\ \A k \in Handle : k # h => wire'[k] = wire[k]
  <2>1. wire' = [wire EXCEPT ![h] = [wire[h] EXCEPT !.peer = to, !.in = q]]
    BY <1>0, <1>2 DEF PeerStep
  <2>2. /\ wire'[h] = [wire[h] EXCEPT !.peer = to, !.in = q]
        /\ \A k \in Handle : k # h => wire'[k] = wire[k]
    BY <1>0, <2>1
  <2>3. wire'[h].in = q
    BY <1>0, <2>2 DEF Stream
  <2> QED BY <1>2, <2>2, <2>3 DEF PeerStep, CanRead
<1>3. ASSUME NEW q \in Seq(Frame), NEW r \in Seq(Frame), r # <<>> PROVE q \o r # <<>>
  <2>1. PICK c : c = q \o r
    OBVIOUS
  <2>3. q # <<>> => c # <<>>
    BY <2>1, Extended
  <2>4. q = <<>> => c = r
    BY <2>1, Extended
  <2> QED BY <1>3, <2>1, <2>3, <2>4
<1>4. /\ <<"id">> \in Seq(Frame) /\ <<"msg", "body">> \in Seq(Frame)
      /\ <<"eos", "fin">> \in Seq(Frame) /\ <<"fin">> \in Seq(Frame)
      /\ <<"rst">> \in Seq(Frame) /\ <<"msg">> \in Seq(Frame)
  BY DEF Frame
<1>5. <<"id">> # <<>> /\ <<"msg", "body">> # <<>> /\ <<"eos", "fin">> # <<>> /\ <<"fin">> # <<>>
      /\ <<"rst">> # <<>> /\ <<"p2p">> # <<>> /\ <<"team">> # <<>>
  OBVIOUS
<1>6. /\ wire[h].in \o <<"id">> # <<>> /\ wire[h].in \o <<"msg", "body">> # <<>>
      /\ wire[h].in \o <<"eos", "fin">> # <<>>
  BY <1>0, <1>3, <1>4, <1>5
<1>7. CASE PeerHello(h) \/ PeerSend(h) \/ PeerClose(h)
  <2>1. \E from, q, to : PeerStep(h, from, q, to) /\ q # <<>>
    BY <1>5, <1>6, <1>7 DEF PeerHello, PeerSend, PeerClose
  <2> QED BY <1>2, <2>1
<1>8. CASE PeerCrash(h)
  <2>1. wire[h].in \o <<"msg">> \in Seq(Frame)
    BY <1>0, <1>4
  <2>2. \A q \in {wire[h].in, wire[h].in \o <<"msg">>} :
          q \o <<"fin">> # <<>> /\ q \o <<"rst">> # <<>>
    BY <1>0, <1>3, <1>4, <1>5, <2>1
  <2>3. \E from, q, to : PeerStep(h, from, q, to) /\ q # <<>>
    BY <1>5, <1>8, <2>2 DEF PeerCrash
  <2> QED BY <1>2, <2>3
<1> QED BY <1>1, <1>7, <1>8 DEF Peer

LEMMA PeerMoves ==
  ASSUME OneThread, OwnerInv, NEW h \in Handle, Peer(h)
  PROVE  Conforms
<1>1. /\ UNCHANGED <<obj, tcp, io, mgr, slot, op>>
      /\ CanRead(h)' \/ wire'[h].in = wire[h].in
      /\ \A k \in Handle : k # h => wire'[k] = wire[k]
  BY PeerArrives DEF OwnerInv
<1>2. (\A k : InHands(k)' <=> InHands(k)) /\ (Running' <=> Running)
  BY <1>1, HandsKept DEF Running
<1>3. \A k \in Handle : Rests(k)
  BY <1>1, <1>2, SameMgr DEF Rests, Shut
<1>4. Others(h) /\ Own(h)' = Own(h)
  BY <1>1, <1>2, <1>3, RestsOwner DEF Others, CanRead
<1> QED BY <1>1, <1>4, Moves DEF CanRead

(* A step that only reads what select has not found, and gives connections *)
(* only descriptors it has not looked at.                                  *)
LEMMA FoundKept ==
  ASSUME Found,
         Scans' => /\ Scans /\ io'.tmpset \subseteq io.tmpset
                   /\ \A k \in Handle : obj'[k].fd \in io'.tmpset =>
                        obj'[k].fd = obj[k].fd /\ (CanRead(k) => CanRead(k)')
  PROVE  Found'
<1>1. ASSUME NEW k \in Handle, Scans', obj'[k].fd \in io'.tmpset PROVE CanRead(k)'
  <2>1. Scans /\ obj[k].fd \in io.tmpset
    BY <1>1
  <2> QED BY <1>1, <2>1 DEF Found
<1> QED BY <1>1 DEF Found

LEMMA StepFound ==
  ASSUME OneThread, OwnerInv, Found, Step(Main)
  PROVE  Found'
<1>0. TypeOK /\ NoFd \notin FD /\ io.tmpset \subseteq FD
  BY Fields DEF OwnerInv
<1>h. PICK h \in Handle : h = op[Main].h
  <2>1. op[Main].pc \notin {"idle", "next"}
    BY DEF Step, At, SendEOS, MarkClosed, ReadFlags, NotifyClose, Forget, CloseFd, Reap,
           NotifyYield, Decrement
  <2> QED BY <1>0, <2>1, OpFields
<1>1. UNCHANGED io
  BY DEF Step, SendEOS, MarkClosed, ReadFlags, NotifyClose, Forget, CloseFd, Reap,
         NotifyYield, Decrement
<1>2. ASSUME NEW k \in Handle PROVE wire'[k].in = <<>> <=> wire[k].in = <<>>
  <2>1. wire' = wire \/ wire' = Write(h, TRUE)
    BY <1>h DEF Step, SendEOS, MarkClosed, ReadFlags, NotifyClose, Forget, CloseFd, Reap,
                NotifyYield, Decrement
  <2> QED BY <1>0, <2>1, Written
<1>3. PICK r : /\ obj' = obj \/ obj' = [obj EXCEPT ![h] = r]
               /\ r.fd \in {obj[h].fd, NoFd}
  <2>0. obj[h] \in HandleObject /\ obj \in [Handle -> HandleObject]
    BY <1>0, ObjField DEF TypeOK, Types
  <2>1. CASE SendEOS(Main) \/ ReadFlags(Main) \/ Forget(Main) \/ NotifyYield(Main)
    <3>1. obj' = obj
      BY <2>1 DEF SendEOS, ReadFlags, Forget, NotifyYield
    <3> QED BY <3>1
  <2>2. CASE MarkClosed(Main)
    <3>1. PICK a, b : a = (obj[h].closed_wr \/ op[Main].wr) /\ b = (obj[h].closed_rd \/ op[Main].rd)
      OBVIOUS
    <3>2. PICK r : r = [obj[h] EXCEPT !.closed_wr = a, !.closed_rd = b]
      OBVIOUS
    <3>3. obj' = [obj EXCEPT ![h] = r]
      BY <1>h, <2>0, <2>2, <3>1, <3>2 DEF MarkClosed
    <3>4. r.fd = obj[h].fd
      BY <2>0, <3>2 DEF HandleObject
    <3> QED BY <3>3, <3>4
  <2>3. CASE NotifyClose(Main) \/ CloseFd(Main)
    <3>1. obj' = obj \/ obj' = DropFd(h)
      BY <1>h, <2>3 DEF NotifyClose, CloseFd
    <3>2. PICK r : r = [obj[h] EXCEPT !.fd = NoFd]
      OBVIOUS
    <3>3. r.fd = NoFd /\ DropFd(h) = [obj EXCEPT ![h] = r]
      BY <2>0, <3>2 DEF DropFd, HandleObject
    <3> QED BY <3>1, <3>3
  <2>4. CASE Reap(Main)
    <3>1. PICK x : x = IF obj[h].life = "live" THEN "freed" ELSE "double"
      OBVIOUS
    <3>2. PICK r : r = [obj[h] EXCEPT !.life = x]
      OBVIOUS
    <3>3. obj' = obj \/ obj' = [obj EXCEPT ![h] = r]
      BY <1>h, <2>0, <2>4, <3>1, <3>2 DEF Reap
    <3>4. r.fd = obj[h].fd
      BY <2>0, <3>2 DEF HandleObject
    <3> QED BY <3>3, <3>4
  <2>5. CASE Decrement(Main)
    <3>1. PICK r : r = [obj[h] EXCEPT !.counter = obj[h].counter - 1]
      OBVIOUS
    <3>2. obj' = [obj EXCEPT ![h] = r]
      BY <1>h, <2>0, <2>5, <3>1 DEF Decrement, ReleaseReference
    <3>3. r.fd = obj[h].fd
      BY <2>0, <3>1 DEF HandleObject
    <3> QED BY <3>2, <3>3
  <2> QED BY <2>1, <2>2, <2>3, <2>4, <2>5 DEF Step
<1>4. \A k \in Handle : obj'[k].fd = obj[k].fd \/ obj'[k].fd = NoFd
  BY <1>0, <1>3, ObjUpdate
<1> QED BY <1>0, <1>1, <1>2, <1>4, FoundKept DEF Scans, CanRead

LEMMA OperationFound ==
  ASSUME OneThread, OwnerInv, Found, Operation(Main)
  PROVE  Found'
<1>0. /\ TypeOK /\ \A k \in Handle : obj[k] \in HandleObject
      /\ (Running => io.tmpset \subseteq tcp.set) /\ io \in IoState
  BY ObjField, Fields DEF OwnerInv, PlacesOK
<1>1. CASE Listen(Main)
  <2>1. PICK S : S = {} /\ io' = [io EXCEPT !.tmpset = S]
    BY <1>1 DEF Listen, ListenAnyTime
  <2>2. io'.tmpset = {}
    BY <1>0, <2>1 DEF IoState
  <2> QED BY <2>2 DEF Found
<1>2. ASSUME NEW s \in Slot, Send(Main, s) \/ GetNext(Main, s) \/ Close(Main, s)
                             \/ Yield(Main, s) \/ Destroy(Main, s)
      PROVE  Found'
  <2>1. /\ UNCHANGED <<obj, io>>
        /\ wire' = wire \/ \E h \in Handle : wire' = Write(h, FALSE)
    BY <1>2 DEF Send, GetNext, Close, Yield, YieldAnyTime, Destroy
  <2>2. \A k \in Handle : wire'[k].in = <<>> <=> wire[k].in = <<>>
    BY <1>0, <2>1, Written
  <2> QED BY <2>1, <2>2, FoundKept DEF Scans, CanRead
<1>3. ASSUME NEW s \in Slot, Probe(Main, s) \/ Receive(Main, s) PROVE Found'
  <2>1. PICK h, x : /\ h \in Handle /\ Idle(Main) /\ Holds(Main, s, h) /\ slot[Main][s].readable
                    /\ wire[h].in # <<>> /\ wire' = Consume(h)
                    /\ obj' = [obj EXCEPT ![h].probed = x] /\ UNCHANGED io
    <3>1. CASE Probe(Main, s)
      <4>1. PICK h, frame :
          /\ h \in Handle /\ Idle(Main) /\ Holds(Main, s, h) /\ slot[Main][s].readable
          /\ wire[h].in # <<>> /\ wire' = Consume(h)
          /\ obj' = [obj EXCEPT ![h].probed = IF frame \in {"msg", "eos"} THEN frame ELSE @]
          /\ UNCHANGED io
        BY <3>1 DEF Probe
      <4>2. PICK x : x = IF frame \in {"msg", "eos"} THEN frame ELSE obj[h].probed
        OBVIOUS
      <4>3. obj' = [obj EXCEPT ![h].probed = x]
        BY <1>0, <4>1, <4>2 DEF TypeOK, Types
      <4> QED BY <4>1, <4>3
    <3>2. CASE Receive(Main, s)
      BY <3>2 DEF Receive
    <3> QED BY <1>3, <3>1, <3>2
  <2>2. Away(h) = 0 /\ Running
    BY <2>1, Held DEF Idle, Running
  <2>3. obj[h].fd \notin io.tmpset
    BY <1>0, <2>2 DEF Away, One
  <2>4. \A k \in Handle : obj'[k].fd = obj[k].fd
    <3>1. PICK r : r = [obj[h] EXCEPT !.probed = x]
      OBVIOUS
    <3>2. obj' = [obj EXCEPT ![h] = r]
      BY <1>0, <2>1, <3>1 DEF TypeOK, Types
    <3>3. obj'[h] = r /\ \A k \in Handle : k # h => obj'[k] = obj[k]
      BY <1>0, <2>1, <3>2, ObjUpdate
    <3> QED BY <1>0, <2>1, <3>1, <3>3 DEF HandleObject
  <2>5. \A k \in Handle : k # h => wire'[k] = wire[k]
    BY <1>0, <2>1, Consumed
  <2> QED BY <2>1, <2>3, <2>4, <2>5, FoundKept DEF Scans, CanRead
<1>4. ASSUME NEW s \in Slot, NEW h \in Handle, NEW ok \in BOOLEAN, Connect(Main, s, h, ok)
      PROVE  Found'
  <2>1. PICK f : f = Lowest(FreeFd)
    OBVIOUS
  <2>2. UNCHANGED io /\ FreeFd # {} /\ Running
    BY <1>4 DEF Connect, Idle, Running
  <2>3. f \notin io.tmpset
    BY <1>0, <2>1, <2>2, FreshFd
  <2>4. obj'[h].fd = f /\ \A k \in Handle : k # h => obj'[k] = obj[k]
    <3>1. PICK n : n = IF ok THEN 1 ELSE 0
      OBVIOUS
    <3>2. PICK r : r = [obj[h] EXCEPT !.fd = f, !.life = "live", !.counter = n]
      OBVIOUS
    <3>3. obj' = [obj EXCEPT ![h] = r]
      BY <1>0, <1>4, <2>1, <3>1, <3>2 DEF Connect, TypeOK, Types
    <3>4. obj'[h] = r /\ \A k \in Handle : k # h => obj'[k] = obj[k]
      BY <1>0, <3>3, ObjUpdate
    <3> QED BY <1>0, <3>2, <3>4 DEF HandleObject
  <2>5. \A k \in Handle : k # h => wire'[k] = wire[k]
    <3>1. wire \in [Handle -> Stream]
      BY <1>0 DEF TypeOK, Types
    <3> QED BY <1>4, <3>1 DEF Connect
  <2> QED BY <2>2, <2>3, <2>4, <2>5, FoundKept DEF Scans, CanRead
<1> QED BY <1>1, <1>2, <1>3, <1>4 DEF Operation

(* Select: what it reports is not the listening socket is a connection's.  *)
LEMMA IoThreadFound ==
  ASSUME OneThread, OwnerInv, Found, IoThread
  PROVE  Found'
<1>0. TypeOK /\ PlacesOK /\ io \in IoState /\ io.tmpset \subseteq FD /\ NoFd \notin FD
  BY Fields DEF OwnerInv
<1>1. CASE IoExit \/ Snapshot \/ ScanDone
  <2>1. ~Scans'
    BY <1>0, <1>1 DEF IoExit, Snapshot, ScanDone, IoGoto, Scans, IoState
  <2> QED BY <2>1 DEF Found
<1>2. CASE Select
  <2>1. PICK P : P = {f \in io.tmpset : f <= tcp.fdmax}
    OBVIOUS
  <2>2. PICK T : T = IF P \subseteq OpenFd THEN {f \in P : ReadyToRead(f)} ELSE {}
    OBVIOUS
  <2>3. PICK l : l = IF T = {} THEN "snapshot" ELSE "scan"
    OBVIOUS
  <2>4. io' = [io EXCEPT !.pc = l, !.tmpset = T]
    BY <1>0, <1>2, <2>1, <2>2, <2>3 DEF Select, IoState
  <2>5. io'.tmpset = T /\ UNCHANGED <<obj, wire>>
    BY <1>0, <1>2, <2>4, IoGoes DEF Select
  <2>6. ASSUME NEW k \in Handle, obj[k].fd \in T PROVE CanRead(k)
    <3>1. PICK f : f = obj[k].fd
      OBVIOUS
    <3>2. ReadyToRead(f) /\ f \in FD
      BY <1>0, <2>1, <2>2, <2>6, <3>1
    <3>3. sock[f] = k /\ k # NoHandle /\ f # NoFd
      BY <1>0, <3>1, <3>2, HandleAssumption DEF OwnerInv, Handles, HandleAt, TableAt
    <3>4. f # tcp.listen_sck
      BY <1>0, <3>3 DEF PlacesOK
    <3> QED BY <3>2, <3>3, <3>4 DEF ReadyToRead, CanRead
  <2> QED BY <2>5, <2>6 DEF Found, CanRead
<1>3. CASE Accept
  <2>1. PICK h, f : h = Head(backlog) /\ f = Lowest(FreeFd)
    OBVIOUS
  <2>2. io'.tmpset \subseteq io.tmpset /\ io.pc = "scan" /\ UNCHANGED wire /\ FreeFd # {}
    BY <1>3 DEF Accept
  <2>3. Running /\ f \notin io.tmpset
    <3>1. Running
      BY <1>0, <2>2 DEF PlacesOK
    <3> QED BY <1>0, <2>1, <2>2, <3>1, FreshFd DEF PlacesOK
  <2>4. obj'[h] = [obj[h] EXCEPT !.fd = f, !.life = "live"] \/ h \notin Handle
    BY <1>0, <1>3, <2>1 DEF Accept, TypeOK, Types
  <2>5. \A k \in Handle : k # h => obj'[k] = obj[k]
    BY <1>0, <1>3, <2>1 DEF Accept, TypeOK, Types
  <2>6. \A k \in Handle : obj'[k].fd = f \/ obj'[k].fd = obj[k].fd
    BY <1>0, <2>4, <2>5, ObjField DEF HandleObject
  <2> QED BY <2>2, <2>3, <2>6, FoundKept DEF Scans, CanRead
<1>o. ASSUME NEW h, Enqueue(h) PROVE \A k \in Handle : obj'[k].fd = obj[k].fd
  <2>1. PICK x : obj' = [obj EXCEPT ![h].counter = x]
    BY <1>o DEF Enqueue
  <2>2. \A k \in Handle : obj'[k] = obj[k] \/ obj'[k] = [obj[k] EXCEPT !.counter = x]
    BY <1>0, <2>1 DEF TypeOK, Types
  <2> QED BY <1>0, <2>2, ObjField DEF HandleObject
<1>4. CASE Handshake
  <2>1. PICK h : h = io.h
    OBVIOUS
  <2>2. /\ h \in Handle /\ wire[h].in # <<>> /\ wire' = Consume(h) /\ Running /\ Scans
        /\ Enqueue(h) \/ UNCHANGED obj
    <3>1. io.pc = "handshake"
      BY <1>4 DEF Handshake
    <3>2. h \in Handle /\ Running
      BY <1>0, <2>1, <3>1 DEF TypeOK, BusyIo, PlacesOK
    <3>3. wire[h].in # <<>> /\ wire' = Consume(h)
      BY <1>4, <2>1 DEF Handshake
    <3>4. Enqueue(h) \/ UNCHANGED obj
      BY <1>4, <2>1 DEF Handshake
    <3> QED BY <3>1, <3>2, <3>3, <3>4 DEF Scans
  <2>3. Away(h) = 1
    BY <2>1, <2>2, OneAway
  <2>4. ~InQueue(h) /\ obj[h].fd \notin io.tmpset
    BY <1>0, <2>1, <2>2, <2>3 DEF Away, One, PlacesOK
  <2>5. \A k \in Handle : obj'[k].fd = obj[k].fd
    BY <1>o, <2>2, <2>4
  <2>6. \A k \in Handle : k # h => wire'[k] = wire[k]
    BY <1>0, <2>2, Consumed
  <2>7. io'.tmpset = io.tmpset
    BY <1>0, <1>4 DEF Handshake, IoState
  <2> QED BY <2>2, <2>4, <2>5, <2>6, <2>7, FoundKept DEF CanRead
<1>5. CASE Deliver
  <2>1. PICK f : f = Lowest(Scanning)
    OBVIOUS
  <2>2. PICK h : h = tcp.connections[f]
    OBVIOUS
  <2>3. /\ io.pc = "scan" /\ UNCHANGED wire
        /\ IF h = NoHandle THEN UNCHANGED <<mgr, obj>> ELSE Enqueue(h)
    BY <1>5, <2>1, <2>2 DEF Deliver
  <2>4. io'.tmpset \subseteq io.tmpset
    <3>1. PICK T : T = io.tmpset \ {f} /\ io' = [io EXCEPT !.tmpset = T]
      BY <1>5, <2>1 DEF Deliver
    <3> QED BY <1>0, <3>1 DEF IoState
  <2>5. \A k \in Handle : obj'[k].fd = obj[k].fd
    BY <1>o, <2>3
  <2> QED BY <2>3, <2>4, <2>5, FoundKept DEF Scans, CanRead
<1> QED BY <1>1, <1>2, <1>3, <1>4, <1>5 DEF IoThread

-----------------------------------------------------------------------------
(* Every step keeps the contract, and what select has found.               *)
LEMMA NextConforms ==
  ASSUME OneThread, OwnerInv, Found, [Next]_vars
  PROVE  Conforms /\ Found'
<1>1. \A t \in Thread : t = Main
  BY DEF OneThread
<1>2. CASE IoThread
  BY <1>2, IoIdleCalm, AcceptMoves, HandshakeMoves, DeliverMoves, IoThreadFound DEF IoThread
<1>3. CASE Operation(Main)
  <2>1. Conforms
    BY <1>3, ListenCalm, GetNextMoves, SendCalm, ReadMoves, CloseCalm, YieldCalm, DestroyCalm,
       ConnectMoves DEF Operation
  <2> QED BY <1>3, <2>1, OperationFound
<1>4. CASE Step(Main)
  <2>1. Conforms
    BY <1>4, QuietCalls, MarkClosedMoves, NotifyCloseCalm, ForgetCalm, CloseFdCalm, ReapCalm,
       NotifyYieldMoves DEF Step
  <2> QED BY <1>4, <2>1, StepFound
<1>5. CASE Finalization
  <2>1. Conforms
    BY <1>5, FinalizationMoves
  <2>2. io' = io /\ (~Running => io.pc = "exited")
    BY <1>5 DEF Finalization, Finalize, Join, EndNext, EndDone, DrainSkip, Drain, OwnerInv,
                PlacesOK
  <2>3. UNCHANGED <<obj, wire>> \/ ~Scans'
    <3>1. CASE Drain
      <4>1. mgr.phase \notin {"run", "join"}
        BY <3>1 DEF Drain, At, OwnerInv, ThreadAt, PhaseAt
      <4> QED BY <2>2, <4>1 DEF Running, Scans
    <3> QED BY <1>5, <3>1 DEF Finalization, Finalize, Join, EndNext, EndDone, DrainSkip
  <2> QED BY <2>1, <2>2, <2>3, FoundKept DEF Scans, CanRead
<1>6. CASE \E h \in Handle : Peer(h)
  <2>1. PICK h \in Handle : Peer(h)
    BY <1>6
  <2>2. /\ UNCHANGED <<obj, io>>
        /\ CanRead(h)' \/ wire'[h].in = wire[h].in
        /\ \A k \in Handle : k # h => wire'[k] = wire[k]
    BY <2>1, PeerArrives DEF OwnerInv
  <2> QED BY <2>1, <2>2, PeerMoves, FoundKept DEF Scans, CanRead
<1>7. CASE Terminated \/ UNCHANGED vars
  <2>1. UNCHANGED <<obj, tcp, io, mgr, slot, op, wire>>
    BY <1>7 DEF Terminated, vars
  <2> QED BY <2>1, HandsKept, SameMgr, Unmoved, FoundKept DEF Shut, Scans, CanRead
<1> QED BY <1>1, <1>2, <1>3, <1>4, <1>5, <1>6, <1>7 DEF Next

LEMMA InitConforms == ASSUME OneThread, Init PROVE Contract!Init /\ Found
<1>1. \A h \in Handle : Own(h) = "none" /\ ~CanRead(h)
  BY DEF Init, Own, CanRead
<1>2. OwnerMap = [h \in Handle |-> "none"] /\ AvailMap = [h \in Handle |-> FALSE]
  <2>1. OwnerMap = [h \in Handle |-> Own(h)] /\ AvailMap = [h \in Handle |-> CanRead(h)]
    BY Mapped
  <2>2. \A h \in Handle : CanRead(h) = FALSE
    BY <1>1 DEF CanRead
  <2> QED BY <1>1, <2>1, <2>2
<1>3. Running /\ ~Scans
  BY DEF Init, Running, Scans
<1> QED BY <1>2, <1>3 DEF Contract!Init, OwnerMap, AvailMap, Found

(* KeepsContract: in a program of one thread the Manager, the queue, the   *)
(* select set and the HandleUsers pass a connection on as HandleContract   *)
(* allows: update queues it only when there is something to read, only its *)
(* owner reads, and it is not handed out after its EOS.                    *)
THEOREM KeepsItsContract == ASSUME OneThread PROVE Spec => KeepsContract
<1>1. Init => Contract!Init /\ Found
  BY InitConforms
<1>2. OwnerInv /\ Found /\ [Next]_vars => [Contract!Next]_(Contract!vars) /\ Found'
  BY NextConforms DEF Conforms
<1>3. Spec => []OwnerInv
  BY OwnerCorrect
<1> QED BY <1>1, <1>2, <1>3, PTL DEF Spec, KeepsContract, Contract!Spec
=============================================================================
