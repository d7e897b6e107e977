------------------------- MODULE MpiContractProofs --------------------------
(***************************************************************************)
(* Each process of Mpi implements HandleContract, for any number of        *)
(* connections, any tags and any number of messages.  A step of a process  *)
(* moves one connection of its own along the contract (update moves        *)
(* several), and is at most an arrival on one connection to the other.     *)
(***************************************************************************)
EXTENDS MpiProofs

(* The owner of one connection, and whether it can be read.                *)
OwnerOf(c, p) ==
    IF h[c][p].closed_rd THEN "closed"
    ELSE IF queue[p][c] > 0 THEN "ready"
    ELSE IF user[p][c] = "held" THEN "user"
    ELSE IF Managed(c, p) THEN "managed"
    ELSE IF Greeting(c, p) THEN "handshake"
    ELSE "none"
ReadableOf(c, p) == Lane(c, p) # <<>> \/ h[c][p].closed_rd

(* A step of the contract of p, or none.                                   *)
Kept(p) == [Contract(p)!Next]_(Contract(p)!vars)

(* What the step does not change for one connection of a process: all that *)
(* its owner depends on.                                                   *)
Rests(c, p) ==
    /\ h'[c][p].closed_rd <=> h[c][p].closed_rd
    /\ queue'[p][c] = queue[p][c]
    /\ user'[p][c] = "held" <=> user[p][c] = "held"
    /\ Managed(c, p)' <=> Managed(c, p)
    /\ Greeting(c, p)' <=> Greeting(c, p)

(* The mapped variables, one connection at a time.                         *)
LEMMA Mapped ==
  ASSUME NEW p \in Proc
  PROVE  /\ Owner(p) = [c \in Conn |-> Owner(p)[c]]
         /\ Owner(p)' = [c \in Conn |-> Owner(p)'[c]]
         /\ Readable(p) = [c \in Conn |-> Readable(p)[c]]
         /\ Readable(p)' = [c \in Conn |-> Readable(p)'[c]]
         /\ \A c \in Conn : /\ Owner(p)[c] = OwnerOf(c, p) /\ Owner(p)'[c] = OwnerOf(c, p)'
                            /\ Readable(p)[c] = ReadableOf(c, p)
                            /\ Readable(p)'[c] = ReadableOf(c, p)'
                            /\ ReadableOf(c, p) \in BOOLEAN /\ ReadableOf(c, p)' \in BOOLEAN
<1>1. Owner(p) = [c \in Conn |-> Owner(p)[c]] /\ Owner(p)' = [c \in Conn |-> Owner(p)'[c]]
  BY DEF Owner
<1>2. /\ Readable(p) = [c \in Conn |-> Readable(p)[c]]
      /\ Readable(p)' = [c \in Conn |-> Readable(p)'[c]]
  BY DEF Readable
<1>3. ASSUME NEW c \in Conn
      PROVE  Owner(p)[c] = OwnerOf(c, p) /\ Owner(p)'[c] = OwnerOf(c, p)'
  BY DEF Owner, OwnerOf, Greeting, IoAt
<1>4. ASSUME NEW c \in Conn
      PROVE  /\ Readable(p)[c] = ReadableOf(c, p) /\ Readable(p)'[c] = ReadableOf(c, p)'
             /\ ReadableOf(c, p) \in BOOLEAN /\ ReadableOf(c, p)' \in BOOLEAN
  BY DEF Readable, ReadableOf, Inbox, Matched, Lane
<1> QED BY <1>1, <1>2, <1>3, <1>4

(* A connection whose owner does not change.                               *)
LEMMA RestsOwner ==
  ASSUME NEW c \in Conn, NEW p \in Proc, Rests(c, p)
  PROVE  OwnerOf(c, p)' = OwnerOf(c, p)
BY DEF Rests, OwnerOf

(* The steps that concern one connection: all others keep their owner and  *)
(* what there is to read.                                                  *)
Only(c, p) == /\ \A d \in Conn : d # c => Rests(d, p) /\ Lane(d, p)' = Lane(d, p)
              /\ Running(p)' <=> Running(p)

LEMMA OnlyOne ==
  ASSUME NEW c \in Conn, NEW p \in Proc, Only(c, p), NEW o, OwnerOf(c, p)' = o,
         NEW b \in BOOLEAN, ReadableOf(c, p)' <=> b
  PROVE  /\ Owner(p)' = [Owner(p) EXCEPT ![c] = o]
         /\ Readable(p)' = [Readable(p) EXCEPT ![c] = b]
         /\ Owner(p)[c] = OwnerOf(c, p) /\ Readable(p)[c] = ReadableOf(c, p)
         /\ UNCHANGED (~Running(p))
         /\ o = OwnerOf(c, p) => Owner(p)' = Owner(p)
         /\ (b <=> ReadableOf(c, p)) => Readable(p)' = Readable(p)
<1>1. \A d \in Conn : d # c => OwnerOf(d, p)' = OwnerOf(d, p)
  BY RestsOwner DEF Only
<1>2. \A d \in Conn : d # c => (ReadableOf(d, p)' <=> ReadableOf(d, p))
  BY DEF Only, Rests, ReadableOf
<1>3. /\ Owner(p) = [d \in Conn |-> Owner(p)[d]]
      /\ Owner(p)' = [d \in Conn |-> Owner(p)'[d]]
      /\ Readable(p) = [d \in Conn |-> Readable(p)[d]]
      /\ Readable(p)' = [d \in Conn |-> Readable(p)'[d]]
  BY Mapped
<1>4. \A d \in Conn : Owner(p)'[d] = IF d = c THEN o ELSE Owner(p)[d]
  BY <1>1, Mapped
<1>5. \A d \in Conn : Readable(p)'[d] = IF d = c THEN b ELSE Readable(p)[d]
  BY <1>2, Mapped
<1>6. Owner(p)[c] = OwnerOf(c, p) /\ Readable(p)[c] = ReadableOf(c, p)
  BY Mapped
<1>7. Readable(p)[c] \in BOOLEAN
  BY Mapped
<1>8. /\ Owner(p)' = [Owner(p) EXCEPT ![c] = o] /\ (o = Owner(p)[c] => Owner(p)' = Owner(p))
  BY <1>3, <1>4
<1>10. /\ Readable(p)' = [Readable(p) EXCEPT ![c] = b]
       /\ (b = Readable(p)[c] => Readable(p)' = Readable(p))
  BY <1>3, <1>5
<1>9. UNCHANGED (~Running(p))
  BY DEF Only, Running
<1> QED BY <1>6, <1>7, <1>8, <1>9, <1>10

(* Nothing that the contract sees changes.                                 *)
LEMMA SameMap ==
  ASSUME NEW p \in Proc, \A d \in Conn : OwnerOf(d, p)' = OwnerOf(d, p),
         \A d \in Conn : ReadableOf(d, p)' <=> ReadableOf(d, p)
  PROVE  Owner(p)' = Owner(p) /\ Readable(p)' = Readable(p)
<1>1. Owner(p)' = Owner(p)
  <2>1. /\ Owner(p) = [d \in Conn |-> Owner(p)[d]]
        /\ Owner(p)' = [d \in Conn |-> Owner(p)'[d]]
    BY Mapped
  <2>2. \A d \in Conn : Owner(p)'[d] = Owner(p)[d]
    BY Mapped
  <2> QED BY <2>1, <2>2
<1>2. Readable(p)' = Readable(p)
  <2>1. /\ Readable(p) = [d \in Conn |-> Readable(p)[d]]
        /\ Readable(p)' = [d \in Conn |-> Readable(p)'[d]]
    BY Mapped
  <2>2. \A d \in Conn : Readable(p)'[d] = Readable(p)[d]
    BY Mapped
  <2> QED BY <2>1, <2>2
<1> QED BY <1>1, <1>2

(* A step that concerns no connection.                                     *)
LEMMA Stays ==
  ASSUME NEW p \in Proc, \A d \in Conn : Rests(d, p) /\ Lane(d, p)' = Lane(d, p),
         Running(p)' <=> Running(p)
  PROVE  Kept(p)
<1>1. \A d \in Conn : OwnerOf(d, p)' = OwnerOf(d, p)
  BY RestsOwner
<1>2. \A d \in Conn : ReadableOf(d, p)' <=> ReadableOf(d, p)
  BY DEF Rests, ReadableOf
<1>3. Owner(p)' = Owner(p) /\ Readable(p)' = Readable(p)
  BY <1>1, <1>2, SameMap
<1>4. UNCHANGED (~Running(p))
  BY DEF Running
<1> QED BY <1>3, <1>4 DEF Kept, Contract!vars

(* Something comes on a connection.                                        *)
LEMMA Arrives ==
  ASSUME NEW c \in Conn, NEW p \in Proc, Only(c, p), Rests(c, p), Lane(c, p)' # <<>>
  PROVE  Kept(p)
<1>1. OwnerOf(c, p)' = OwnerOf(c, p) /\ (ReadableOf(c, p)' <=> TRUE)
  BY RestsOwner DEF ReadableOf
<1>2. /\ Owner(p)' = Owner(p) /\ Readable(p)' = [Readable(p) EXCEPT ![c] = TRUE]
      /\ UNCHANGED (~Running(p))
  BY <1>1, OnlyOne
<1>3. Contract(p)!Arrive(c)
  BY <1>2 DEF Contract!Arrive
<1> QED BY <1>3 DEF Kept, Contract!Next

(* The owner of a connection, or finalize, reads from it.                  *)
LEMMA Reads ==
  ASSUME NEW c \in Conn, NEW p \in Proc, Only(c, p), Rests(c, p), Lane(c, p) # <<>>,
         OwnerOf(c, p) = "user" \/ ~Running(p)
  PROVE  Kept(p)
<1>1. OwnerOf(c, p)' = OwnerOf(c, p)
  BY RestsOwner
<1>2. PICK b \in BOOLEAN : ReadableOf(c, p)' <=> b
  BY Mapped
<1>3. /\ Owner(p)' = Owner(p) /\ Readable(p)' = [Readable(p) EXCEPT ![c] = b]
      /\ UNCHANGED (~Running(p))
      /\ Owner(p)[c] = OwnerOf(c, p) /\ Readable(p)[c] = ReadableOf(c, p)
  BY <1>1, <1>2, OnlyOne
<1>4. Readable(p)[c]
  BY <1>3 DEF ReadableOf
<1>5. Contract(p)!Reads(c)
  BY <1>3 DEF Contract!Reads
<1>6. Contract(p)!Read(c)
  BY <1>3, <1>4, <1>5 DEF Contract!Read
<1> QED BY <1>6 DEF Kept, Contract!Next

(* A connection goes to another owner or stays where it is, and there is   *)
(* as much to read as there was.                                           *)
LEMMA Moves ==
  ASSUME NEW c \in Conn, NEW p \in Proc, Only(c, p),
         ReadableOf(c, p)' <=> ReadableOf(c, p),
         NEW from, NEW to, OwnerOf(c, p) = from, OwnerOf(c, p)' = to,
         \/ from = "none" /\ to = "handshake"
         \/ from = "none" /\ to = "user"
         \/ from = "ready" /\ to = "user"
         \/ from = "user" /\ to = "managed"
         \/ (from = "user" \/ ~Running(p)) /\ to = "closed"
         \/ from = to
  PROVE  Kept(p)
<1>1. PICK b \in BOOLEAN : b <=> ReadableOf(c, p)
  BY Mapped
<1>2. /\ Owner(p)' = [Owner(p) EXCEPT ![c] = to] /\ Readable(p)' = Readable(p)
      /\ Readable(p)' = [Readable(p) EXCEPT ![c] = b]
      /\ UNCHANGED (~Running(p)) /\ Owner(p)[c] = from
      /\ from = to => Owner(p)' = Owner(p)
  BY <1>1, OnlyOne
<1>3. Contract(p)!Move(c, from, to)
  BY <1>2 DEF Contract!Move
<1>4. Contract(p)!Reads(c)
  BY <1>2 DEF Contract!Reads
<1>5. CASE from = "none" /\ to = "handshake"
  <2>1. Contract(p)!Accept(c)
    BY <1>2, <1>3, <1>5 DEF Contract!Accept
  <2> QED BY <2>1 DEF Kept, Contract!Next
<1>6. CASE from = "none" /\ to = "user"
  <2>1. Contract(p)!Connect(c)
    BY <1>2, <1>3, <1>4, <1>6 DEF Contract!Connect
  <2> QED BY <2>1 DEF Kept, Contract!Next
<1>7. CASE from = "ready" /\ to = "user"
  <2>1. Contract(p)!GetNext(c)
    BY <1>2, <1>3, <1>7 DEF Contract!GetNext
  <2> QED BY <2>1 DEF Kept, Contract!Next
<1>8. CASE from = "user" /\ to = "managed"
  <2>1. Contract(p)!Yield(c)
    BY <1>2, <1>3, <1>8 DEF Contract!Yield
  <2> QED BY <2>1 DEF Kept, Contract!Next
<1>9. CASE (from = "user" \/ ~Running(p)) /\ to = "closed"
  <2>1. Contract(p)!CloseRead(c)
    BY <1>2, <1>3, <1>9 DEF Contract!CloseRead
  <2> QED BY <2>1 DEF Kept, Contract!Next
<1>10. CASE from = to
  BY <1>2, <1>10 DEF Kept, Contract!vars
<1> QED BY <1>5, <1>6, <1>7, <1>8, <1>9, <1>10

(* The handshake is read, and the connection is queued.                    *)
LEMMA Settles ==
  ASSUME NEW c \in Conn, NEW p \in Proc, Only(c, p), Lane(c, p) # <<>>,
         OwnerOf(c, p) = "handshake", OwnerOf(c, p)' = "ready"
  PROVE  Kept(p)
<1>1. PICK b \in BOOLEAN : ReadableOf(c, p)' <=> b
  BY Mapped
<1>2. /\ Owner(p)' = [Owner(p) EXCEPT ![c] = "ready"]
      /\ Readable(p)' = [Readable(p) EXCEPT ![c] = b]
      /\ UNCHANGED (~Running(p)) /\ Owner(p)[c] = "handshake"
      /\ Readable(p)[c] = ReadableOf(c, p)
  BY <1>1, OnlyOne
<1>3. Contract(p)!Move(c, "handshake", "ready")
  BY <1>2 DEF Contract!Move
<1>4. Contract(p)!Reads(c) /\ Readable(p)[c]
  BY <1>2 DEF Contract!Reads, ReadableOf
<1>5. Contract(p)!Settle(c)
  BY <1>2, <1>3, <1>4 DEF Contract!Settle
<1> QED BY <1>5 DEF Kept, Contract!Next

(* A step of the other process: at most an arrival on one connection.      *)
LEMMA Elsewhere ==
  ASSUME NEW c \in Conn, NEW p \in Proc,
         \A d \in Conn : /\ h'[d][p] = h[d][p] /\ Entry(d, p)' = Entry(d, p)
                         /\ queue'[p][d] = queue[p][d] /\ user'[p][d] = user[p][d]
                         /\ d # c => Lane(d, p)' = Lane(d, p),
         io'[p] = io[p],
         Lane(c, p)' = Lane(c, p) \/ Lane(c, p)' # <<>>
  PROVE  Kept(p)
<1>1. \A d \in Conn : Rests(d, p)
  BY DEF Rests, Managed, Greeting, IoAt, Entry
<1>2. Running(p)' <=> Running(p)
  BY DEF Running
<1>3. CASE Lane(c, p)' = Lane(c, p)
  <2>1. \A d \in Conn : Rests(d, p) /\ Lane(d, p)' = Lane(d, p)
    BY <1>1, <1>3
  <2> QED BY <1>2, <2>1, Stays
<1>4. CASE Lane(c, p)' # <<>>
  <2>1. Only(c, p)
    BY <1>1, <1>2 DEF Only
  <2> QED BY <1>1, <1>4, <2>1, Arrives
<1> QED BY <1>3, <1>4

-----------------------------------------------------------------------------
(***************************************************************************)
(* The actions of a process p, for p and for the other process.            *)
(***************************************************************************)
(* ConnMPI::connect up to the table: nobody can read from the new handle.  *)
LEMMA ConnectSteps ==
  ASSUME Inv, NEW p \in Proc, NEW c \in Conn, Connect(p, c)
  PROVE  Kept(p) /\ Kept(Other(p))
<1> DEFINE q == Other(p)
<1>1. TypeOK
  BY DEF Inv
<1>2. q \in Proc /\ q # p
  BY TwoProcs
<1>3. PICK r : r = [h[c][p] EXCEPT !.made = TRUE]
  OBVIOUS
<1>4. h' = [h EXCEPT ![c][p] = r] /\ UNCHANGED <<connections, net, queue, user, io>>
  BY <1>3 DEF Connect
<1>5. r.closed_rd <=> h[c][p].closed_rd
  BY <1>1, <1>3, Parts DEF HandleMPI
<1>6. /\ h'[c][p] = r
      /\ \A d \in Conn, x \in Proc : d # c \/ x # p => h'[d][x] = h[d][x]
  BY <1>1, <1>4 DEF TypeOK
<1>7. \A d \in Conn : Rests(d, p) /\ Lane(d, p)' = Lane(d, p)
  BY <1>4, <1>5, <1>6 DEF Rests, Lane, Managed, Greeting, IoAt
<1>8. Kept(p)
  <2>1. Running(p)' <=> Running(p)
    BY <1>4 DEF Running
  <2> QED BY <1>7, <2>1, Stays
<1>9. Kept(q)
  <2>1. /\ \A d \in Conn : /\ h'[d][q] = h[d][q] /\ Entry(d, q)' = Entry(d, q)
                           /\ queue'[q][d] = queue[q][d] /\ user'[q][d] = user[q][d]
                           /\ Lane(d, q)' = Lane(d, q)
        /\ io'[q] = io[q]
    BY <1>2, <1>4, <1>6 DEF Entry, Lane
  <2> QED BY <1>2, <2>1, Elsewhere
<1> QED BY <1>8, <1>9

(* The table entry and the handshake: the program has the connection.      *)
LEMMA ConnectInsertSteps ==
  ASSUME Inv, NEW p \in Proc, NEW c \in Conn, main[p].c = c, ConnectInsert(p)
  PROVE  Kept(p) /\ Kept(Other(p))
<1> DEFINE q == Other(p)
<1>1. TypeOK /\ Lanes /\ Table /\ Busy /\ Single /\ Framed
  BY DEF Inv
<1>2. q \in Proc /\ q # p
  BY TwoProcs
<1>3. /\ main[p].pc = "insert" /\ Inserting(c, p)
      /\ Insert(c, p) /\ MPI_Send(c, p, Message)
      /\ user' = [user EXCEPT ![p][c] = "held"] /\ UNCHANGED <<h, queue, io>>
  BY DEF ConnectInsert, At, Inserting, Hello, Message
<1>4. Entry(c, p).c = NoConn /\ ~h[c][p].closed_wr /\ ~h[c][p].closed_rd
  BY <1>1, <1>3 DEF Busy, BusyAt, At
<1>5. user[p][c] # "held" /\ ~(queue[p][c] > 0) /\ ~Managed(c, p) /\ ~Greeting(c, p)
  BY <1>1, <1>3, Exclusive
<1>6. \A d \in Conn, x \in Proc : d # c \/ x # p => Entry(d, x)' = Entry(d, x)
  BY <1>1, <1>3, <1>4, InsertSet
<1>7. /\ Lane(c, q)' \in Seq({c} \X Frame) /\ Len(Lane(c, q)') = Len(Lane(c, q)) + 2
      /\ \A d \in Conn, x \in Proc : d # c \/ x # q => Lane(d, x)' = Lane(d, x)
  BY <1>1, <1>3, <1>4, MessageSent
<1>8. /\ user'[p][c] = "held"
      /\ \A d \in Conn, x \in Proc : d # c \/ x # p => user'[x][d] = user[x][d]
  BY <1>1, <1>3 DEF TypeOK
<1>9. Kept(p)
  <2>1. \A d \in Conn : d # c => Rests(d, p) /\ Lane(d, p)' = Lane(d, p)
    BY <1>3, <1>6, <1>7, <1>8 DEF Rests, Managed, Greeting, IoAt, Entry
  <2>2. Only(c, p)
    BY <1>3, <2>1 DEF Only, Running
  <2>3. OwnerOf(c, p) = "none" /\ OwnerOf(c, p)' = "user"
    BY <1>3, <1>4, <1>5, <1>8 DEF OwnerOf
  <2>4. ReadableOf(c, p)' <=> ReadableOf(c, p)
    BY <1>2, <1>3, <1>7 DEF ReadableOf
  <2> QED BY <2>2, <2>3, <2>4, Moves
<1>10. Kept(q)
  <2>1. Len(Lane(c, q)) \in Nat
    BY <1>1, <1>2, LenProperties DEF Lanes
  <2>2. Lane(c, q)' # <<>>
    BY <1>7, <2>1
  <2>3. /\ \A d \in Conn : /\ h'[d][q] = h[d][q] /\ Entry(d, q)' = Entry(d, q)
                           /\ queue'[q][d] = queue[q][d] /\ user'[q][d] = user[q][d]
                           /\ d # c => Lane(d, q)' = Lane(d, q)
        /\ io'[q] = io[q]
    BY <1>2, <1>3, <1>6, <1>7, <1>8
  <2> QED BY <1>2, <2>2, <2>3, Elsewhere
<1> QED BY <1>9, <1>10

(* Manager::getNext: the program has what was queued, unless it is closed. *)
LEMMA GetNextSteps ==
  ASSUME Inv, NEW p \in Proc, NEW c \in Conn, GetNext(p, c)
  PROVE  Kept(p) /\ Kept(Other(p))
<1> DEFINE q == Other(p)
<1>1. TypeOK /\ Single
  BY DEF Inv
<1>2. q \in Proc /\ q # p
  BY TwoProcs
<1>3. /\ queue[p][c] > 0 /\ queue' = [queue EXCEPT ![p][c] = @ - 1]
      /\ user' = [user EXCEPT ![p][c] = "held"]
      /\ UNCHANGED <<h, connections, net, io>>
  BY DEF GetNext
<1>4. queue[p][c] = 1
  BY <1>1, <1>3, Exclusive
<1>5. /\ user'[p][c] = "held"
      /\ \A d \in Conn, x \in Proc : d # c \/ x # p => user'[x][d] = user[x][d]
  BY <1>1, <1>3 DEF TypeOK
<1>6. /\ queue'[p][c] = 0
      /\ \A d \in Conn, x \in Proc : d # c \/ x # p => queue'[x][d] = queue[x][d]
  BY <1>1, <1>3, <1>4 DEF TypeOK
<1>7. Kept(p)
  <2>1. \A d \in Conn : d # c => Rests(d, p) /\ Lane(d, p)' = Lane(d, p)
    BY <1>3, <1>5, <1>6 DEF Rests, Managed, Greeting, IoAt, Lane
  <2>2. Only(c, p)
    BY <1>3, <2>1 DEF Only, Running
  <2>3. ReadableOf(c, p)' <=> ReadableOf(c, p)
    BY <1>3 DEF ReadableOf, Lane
  <2>4. CASE h[c][p].closed_rd
    <3>1. OwnerOf(c, p) = "closed" /\ OwnerOf(c, p)' = "closed"
      BY <1>3, <2>4 DEF OwnerOf
    <3> QED BY <2>2, <2>3, <3>1, Moves
  <2>5. CASE ~h[c][p].closed_rd
    <3>1. OwnerOf(c, p) = "ready" /\ OwnerOf(c, p)' = "user"
      BY <1>3, <1>5, <1>6, <2>5 DEF OwnerOf
    <3> QED BY <2>2, <2>3, <3>1, Moves
  <2> QED BY <2>4, <2>5
<1>8. Kept(q)
  <2>1. /\ \A d \in Conn : /\ h'[d][q] = h[d][q] /\ Entry(d, q)' = Entry(d, q)
                           /\ queue'[q][d] = queue[q][d] /\ user'[q][d] = user[q][d]
                           /\ Lane(d, q)' = Lane(d, q)
        /\ io'[q] = io[q]
    BY <1>2, <1>3, <1>5, <1>6 DEF Entry, Lane
  <2> QED BY <1>2, <2>1, Elsewhere
<1> QED BY <1>7, <1>8

(* Handle::send: a message for the other process.                          *)
LEMMA SendSteps ==
  ASSUME Inv, NEW p \in Proc, NEW c \in Conn, Send(p, c)
  PROVE  Kept(p) /\ Kept(Other(p))
<1> DEFINE q == Other(p)
<1>1. TypeOK /\ Lanes /\ Framed
  BY DEF Inv
<1>2. q \in Proc /\ q # p
  BY TwoProcs
<1>3. /\ ~h[c][p].closed_wr /\ MPI_Send(c, p, Message)
      /\ UNCHANGED <<h, connections, queue, user, io>>
  BY DEF Send, Message
<1>4. /\ Lane(c, q)' \in Seq({c} \X Frame) /\ Len(Lane(c, q)') = Len(Lane(c, q)) + 2
      /\ \A d \in Conn, x \in Proc : d # c \/ x # q => Lane(d, x)' = Lane(d, x)
  BY <1>1, <1>3, MessageSent
<1>5. Kept(p)
  <2>1. \A d \in Conn : Rests(d, p) /\ Lane(d, p)' = Lane(d, p)
    BY <1>2, <1>3, <1>4 DEF Rests, Managed, Greeting, IoAt
  <2>2. Running(p)' <=> Running(p)
    BY <1>3 DEF Running
  <2> QED BY <2>1, <2>2, Stays
<1>6. Kept(q)
  <2>1. Len(Lane(c, q)) \in Nat
    BY <1>1, <1>2, LenProperties DEF Lanes
  <2>2. Lane(c, q)' # <<>>
    BY <1>4, <2>1
  <2>3. /\ \A d \in Conn : /\ h'[d][q] = h[d][q] /\ Entry(d, q)' = Entry(d, q)
                           /\ queue'[q][d] = queue[q][d] /\ user'[q][d] = user[q][d]
                           /\ d # c => Lane(d, q)' = Lane(d, q)
        /\ io'[q] = io[q]
    BY <1>2, <1>3, <1>4 DEF Entry
  <2> QED BY <1>2, <2>2, <2>3, Elsewhere
<1> QED BY <1>5, <1>6

(* HandleUser::probe that reads a header.                                  *)
LEMMA ProbeHeaderSteps ==
  ASSUME Inv, NEW p \in Proc, NEW c \in Conn, Probe(p, c), Head(Inbox(c, p))[2] # "eos"
  PROVE  Kept(p) /\ Kept(Other(p))
<1> DEFINE q == Other(p)
<1>1. TypeOK /\ Lanes /\ Framed /\ Single
  BY DEF Inv
<1>2. q \in Proc /\ q # p
  BY TwoProcs
<1>3. /\ user[p][c] = "held" /\ ~h[c][p].closed_rd /\ h[c][p].probed = "none"
      /\ Inbox(c, p) # <<>> /\ MPI_Recv(c, p, 1)
      /\ UNCHANGED <<connections, queue, user, io>>
  BY DEF Probe, MayRead
<1>4. /\ \A d \in Conn, x \in Proc : d # c \/ x # p => Lane(d, x)' = Lane(d, x)
      /\ Head(Inbox(c, p))[2] = "hdr" /\ Crossed(c, p, 1) = FALSE
  BY <1>1, <1>3, HeadRead
<1>5. PICK r : r = [h[c][p] EXCEPT !.probed = "hdr", !.closed_rd = FALSE, !.crossed = FALSE]
  OBVIOUS
<1>6. ~r.closed_rd
  BY <1>1, <1>5, Parts DEF HandleMPI
<1>7. h' = [h EXCEPT ![c][p] = r]
  BY <1>1, <1>4, <1>5 DEF Probe, TypeOK
<1>8. /\ h'[c][p] = r
      /\ \A d \in Conn, x \in Proc : d # c \/ x # p => h'[d][x] = h[d][x]
  BY <1>1, <1>7 DEF TypeOK
<1>9. Kept(p)
  <2>1. \A d \in Conn : Rests(d, p)
    BY <1>3, <1>6, <1>8 DEF Rests, Managed, Greeting, IoAt
  <2>2. Only(c, p)
    BY <1>3, <1>4, <2>1 DEF Only, Running
  <2>3. OwnerOf(c, p) = "user" /\ Lane(c, p) # <<>>
    BY <1>1, <1>3, Exclusive DEF OwnerOf, Inbox, Matched, Lane
  <2> QED BY <2>1, <2>2, <2>3, Reads
<1>10. Kept(q)
  <2>1. /\ \A d \in Conn : /\ h'[d][q] = h[d][q] /\ Entry(d, q)' = Entry(d, q)
                           /\ queue'[q][d] = queue[q][d] /\ user'[q][d] = user[q][d]
                           /\ Lane(d, q)' = Lane(d, q)
        /\ io'[q] = io[q]
    BY <1>2, <1>3, <1>4, <1>8 DEF Entry
  <2> QED BY <1>2, <2>1, Elsewhere
<1> QED BY <1>9, <1>10

(* HandleUser::receive reads a payload.                                    *)
LEMMA ReceiveSteps ==
  ASSUME Inv, NEW p \in Proc, NEW c \in Conn, Receive(p, c)
  PROVE  Kept(p) /\ Kept(Other(p))
<1> DEFINE q == Other(p)
<1>1. TypeOK /\ Lanes /\ Framed /\ Single
  BY DEF Inv
<1>2. q \in Proc /\ q # p
  BY TwoProcs
<1>3. /\ user[p][c] = "held" /\ ~h[c][p].closed_rd /\ h[c][p].probed = "hdr"
      /\ Inbox(c, p) # <<>> /\ MPI_Recv(c, p, 1)
      /\ UNCHANGED <<connections, queue, user, io>>
  BY DEF Receive, MayRead
<1>4. /\ \A d \in Conn, x \in Proc : d # c \/ x # p => Lane(d, x)' = Lane(d, x)
      /\ Crossed(c, p, 1) = FALSE
  BY <1>1, <1>3, BodyRead
<1>5. PICK r : r = [h[c][p] EXCEPT !.probed = "none", !.crossed = FALSE]
  OBVIOUS
<1>6. r.closed_rd <=> h[c][p].closed_rd
  BY <1>1, <1>5, Parts DEF HandleMPI
<1>7. h' = [h EXCEPT ![c][p] = r]
  BY <1>1, <1>4, <1>5 DEF Receive, TypeOK
<1>8. /\ h'[c][p] = r
      /\ \A d \in Conn, x \in Proc : d # c \/ x # p => h'[d][x] = h[d][x]
  BY <1>1, <1>7 DEF TypeOK
<1>9. Kept(p)
  <2>1. \A d \in Conn : Rests(d, p)
    BY <1>3, <1>6, <1>8 DEF Rests, Managed, Greeting, IoAt
  <2>2. Only(c, p)
    BY <1>3, <1>4, <2>1 DEF Only, Running
  <2>3. OwnerOf(c, p) = "user" /\ Lane(c, p) # <<>>
    BY <1>1, <1>3, Exclusive DEF OwnerOf, Inbox, Matched, Lane
  <2> QED BY <2>1, <2>2, <2>3, Reads
<1>10. Kept(q)
  <2>1. /\ \A d \in Conn : /\ h'[d][q] = h[d][q] /\ Entry(d, q)' = Entry(d, q)
                           /\ queue'[q][d] = queue[q][d] /\ user'[q][d] = user[q][d]
                           /\ Lane(d, q)' = Lane(d, q)
        /\ io'[q] = io[q]
    BY <1>2, <1>3, <1>4, <1>8 DEF Entry
  <2> QED BY <1>2, <2>1, Elsewhere
<1> QED BY <1>9, <1>10

(* HandleUser::probe that reads EOS: the program gives up the read side.   *)
LEMMA ProbeEOSSteps ==
  ASSUME Inv, NEW p \in Proc, NEW c \in Conn, Probe(p, c), Head(Inbox(c, p))[2] = "eos"
  PROVE  Kept(p) /\ Kept(Other(p))
<1> DEFINE q == Other(p)
<1>1. TypeOK /\ Lanes /\ Framed /\ Single
  BY DEF Inv
<1>2. q \in Proc /\ q # p
  BY TwoProcs
<1>3. /\ user[p][c] = "held" /\ ~h[c][p].closed_rd /\ h[c][p].probed = "none"
      /\ Inbox(c, p) # <<>> /\ MPI_Recv(c, p, 1)
      /\ user' = [user EXCEPT ![p][c] = "given"]
      /\ UNCHANGED <<connections, queue, io>>
  BY DEF Probe, MayRead
<1>4. /\ \A d \in Conn, x \in Proc : d # c \/ x # p => Lane(d, x)' = Lane(d, x)
      /\ Crossed(c, p, 1) = FALSE
  BY <1>1, <1>3, HeadRead
<1>5. PICK r : r = [h[c][p] EXCEPT !.probed = "eos", !.closed_rd = TRUE, !.crossed = FALSE]
  OBVIOUS
<1>6. r.closed_rd
  BY <1>1, <1>5, Parts DEF HandleMPI
<1>7. h' = [h EXCEPT ![c][p] = r]
  BY <1>1, <1>4, <1>5 DEF Probe, TypeOK
<1>8. /\ h'[c][p] = r
      /\ \A d \in Conn, x \in Proc : d # c \/ x # p => h'[d][x] = h[d][x]
  BY <1>1, <1>7 DEF TypeOK
<1>9. \A d \in Conn, x \in Proc : d # c \/ x # p => user'[x][d] = user[x][d]
  BY <1>1, <1>3 DEF TypeOK
<1>10. Kept(p)
  <2>1. \A d \in Conn : d # c => Rests(d, p)
    BY <1>3, <1>8, <1>9 DEF Rests, Managed, Greeting, IoAt
  <2>2. Only(c, p)
    BY <1>3, <1>4, <2>1 DEF Only, Running
  <2>3. OwnerOf(c, p) = "user" /\ OwnerOf(c, p)' = "closed"
    BY <1>1, <1>3, <1>6, <1>8, Exclusive DEF OwnerOf
  <2>4. ReadableOf(c, p)' <=> ReadableOf(c, p)
    BY <1>3, <1>6, <1>8 DEF ReadableOf, Inbox, Matched, Lane
  <2> QED BY <2>2, <2>3, <2>4, Moves
<1>11. Kept(q)
  <2>1. /\ \A d \in Conn : /\ h'[d][q] = h[d][q] /\ Entry(d, q)' = Entry(d, q)
                           /\ queue'[q][d] = queue[q][d] /\ user'[q][d] = user[q][d]
                           /\ Lane(d, q)' = Lane(d, q)
        /\ io'[q] = io[q]
    BY <1>2, <1>3, <1>4, <1>8, <1>9 DEF Entry
  <2> QED BY <1>2, <2>1, Elsewhere
<1> QED BY <1>10, <1>11

(* EOS is sent and the write side closed: by Handle::close and ConnMPI::end.*)
LEMMA CloseWriteSteps ==
  ASSUME Inv, NEW p \in Proc, NEW c \in Conn,
         h' = [h EXCEPT ![c][p].closed_wr = TRUE],
         IF EOSDue(c, p) THEN MPI_Send(c, p, <<"eos">>) ELSE UNCHANGED net,
         UNCHANGED <<connections, queue, user, io>>
  PROVE  Kept(p) /\ Kept(Other(p))
<1> DEFINE q == Other(p)
<1>1. TypeOK /\ Lanes /\ Framed
  BY DEF Inv
<1>2. q \in Proc /\ q # p
  BY TwoProcs
<1>3. PICK r : r = [h[c][p] EXCEPT !.closed_wr = TRUE]
  OBVIOUS
<1>4. r.closed_rd <=> h[c][p].closed_rd
  BY <1>1, <1>3, Parts DEF HandleMPI
<1>5. h' = [h EXCEPT ![c][p] = r]
  BY <1>3
<1>6. /\ h'[c][p] = r
      /\ \A d \in Conn, x \in Proc : d # c \/ x # p => h'[d][x] = h[d][x]
  BY <1>1, <1>5 DEF TypeOK
<1>7. Lane(c, q)' = Lane(c, q) \/ Lane(c, q)' # <<>>
  <2>1. CASE EOSDue(c, p)
    <3>1. ~h[c][p].closed_wr /\ MPI_Send(c, p, <<"eos">>)
      BY <2>1 DEF EOSDue
    <3>2. Len(Lane(c, q)') = Len(Lane(c, q)) + 1 /\ Lane(c, q)' \in Seq({c} \X Frame)
      BY <1>1, <3>1, EOSSent
    <3>3. Len(Lane(c, q)) \in Nat
      BY <1>1, <1>2, LenProperties DEF Lanes
    <3> QED BY <3>2, <3>3
  <2>2. CASE ~EOSDue(c, p)
    BY <2>2 DEF Lane
  <2> QED BY <2>1, <2>2
<1>8. \A d \in Conn, x \in Proc : d # c \/ x # q => Lane(d, x)' = Lane(d, x)
  <2>1. CASE EOSDue(c, p)
    <3>1. ~h[c][p].closed_wr /\ MPI_Send(c, p, <<"eos">>)
      BY <2>1 DEF EOSDue
    <3> QED BY <1>1, <3>1, EOSSent
  <2>2. CASE ~EOSDue(c, p)
    BY <2>2 DEF Lane
  <2> QED BY <2>1, <2>2
<1>9. Kept(p)
  <2>1. \A d \in Conn : Rests(d, p) /\ Lane(d, p)' = Lane(d, p)
    BY <1>2, <1>4, <1>6, <1>8 DEF Rests, Managed, Greeting, IoAt
  <2>2. Running(p)' <=> Running(p)
    BY DEF Running
  <2> QED BY <2>1, <2>2, Stays
<1>10. Kept(q)
  <2>1. /\ \A d \in Conn : /\ h'[d][q] = h[d][q] /\ Entry(d, q)' = Entry(d, q)
                           /\ queue'[q][d] = queue[q][d] /\ user'[q][d] = user[q][d]
                           /\ d # c => Lane(d, q)' = Lane(d, q)
        /\ io'[q] = io[q]
    BY <1>2, <1>6, <1>8 DEF Entry
  <2> QED BY <1>2, <1>7, <2>1, Elsewhere
<1> QED BY <1>9, <1>10

(* Handle::close(true, false).                                             *)
LEMMA CloseSteps ==
  ASSUME Inv, NEW p \in Proc, NEW c \in Conn, Close(p, c)
  PROVE  Kept(p) /\ Kept(Other(p))
<1>1. /\ h' = [h EXCEPT ![c][p].closed_wr = TRUE]
      /\ MPI_Send(c, p, <<"eos">>) /\ EOSDue(c, p)
      /\ UNCHANGED <<connections, queue, user, io>>
  BY DEF Close, EOSDue
<1> QED BY <1>1, CloseWriteSteps

(* ConnMPI::end sends EOS on the next connection of the table.             *)
LEMMA EndNextSteps ==
  ASSUME Inv, NEW p \in Proc, EndNext(p)
  PROVE  Kept(p) /\ Kept(Other(p))
<1>1. PICK c \in FirstToClose(p) :
        /\ h' = [h EXCEPT ![c][p].closed_wr = TRUE]
        /\ IF EOSDue(c, p) THEN MPI_Send(c, p, <<"eos">>) ELSE UNCHANGED net
        /\ UNCHANGED <<connections, queue, user, io>>
  BY DEF EndNext
<1>2. c \in Conn
  BY Parts DEF FirstToClose, Inv
<1> QED BY <1>1, <1>2, CloseWriteSteps

(* notify_close takes the entry of a handle that is closed already.        *)
LEMMA NotifyCloseSteps ==
  ASSUME Inv, NEW p \in Proc, NEW c \in Conn, main[p].c = c, NotifyClose(p)
  PROVE  Kept(p) /\ Kept(Other(p))
<1> DEFINE q == Other(p)
<1>1. TypeOK
  BY DEF Inv
<1>2. q \in Proc /\ q # p
  BY TwoProcs
<1>3. /\ connections' = IF Erases(c, p) THEN [connections EXCEPT ![p][Tag[c]] = NoEntry]
                        ELSE connections
      /\ UNCHANGED <<h, net, queue, user, io>>
  BY DEF NotifyClose
<1>4. \A d \in Conn, x \in Proc : d # c \/ x # p => Entry(d, x)' = Entry(d, x)
  <2>1. CASE Erases(c, p)
    BY <1>1, <1>3, <2>1, EraseSet
  <2>2. CASE ~Erases(c, p)
    BY <1>3, <2>2 DEF Entry
  <2> QED BY <2>1, <2>2
<1>5. Kept(p)
  <2>1. \A d \in Conn : d # c => Rests(d, p) /\ Lane(d, p)' = Lane(d, p)
    BY <1>3, <1>4 DEF Rests, Managed, Greeting, IoAt, Lane, Entry
  <2>2. Only(c, p)
    BY <1>3, <2>1 DEF Only, Running
  <2>3. ReadableOf(c, p)' <=> ReadableOf(c, p)
    BY <1>3 DEF ReadableOf, Lane
  <2>4. OwnerOf(c, p)' = OwnerOf(c, p)
    BY <1>3 DEF OwnerOf, Erases, Managed, Greeting, IoAt
  <2> QED BY <2>2, <2>3, <2>4, Moves
<1>6. Kept(q)
  <2>1. /\ \A d \in Conn : /\ h'[d][q] = h[d][q] /\ Entry(d, q)' = Entry(d, q)
                           /\ queue'[q][d] = queue[q][d] /\ user'[q][d] = user[q][d]
                           /\ Lane(d, q)' = Lane(d, q)
        /\ io'[q] = io[q]
    BY <1>2, <1>3, <1>4 DEF Lane
  <2> QED BY <1>2, <2>1, Elsewhere
<1> QED BY <1>5, <1>6

(* A step that only moves the thread of the program on.                    *)
LEMMA MainSteps ==
  ASSUME Inv, NEW p \in Proc, UNCHANGED <<h, connections, net, queue, user, io>>
  PROVE  Kept(p) /\ Kept(Other(p))
<1> DEFINE q == Other(p)
<1>1. \A d \in Conn, x \in Proc : Rests(d, x) /\ Lane(d, x)' = Lane(d, x)
  BY DEF Rests, Managed, Greeting, IoAt, Lane
<1>2. \A x \in Proc : Running(x)' <=> Running(x)
  BY DEF Running
<1>3. q \in Proc
  BY TwoProcs
<1>4. Kept(p)
  BY <1>1, <1>2, Stays
<1>5. Kept(q)
  BY <1>1, <1>2, <1>3, Stays
<1> QED BY <1>4, <1>5

(* setAsClosed drops a message: finalize reads it.                         *)
LEMMA DrainSteps ==
  ASSUME Inv, NEW p \in Proc, NEW c \in Conn, main[p].c = c, Drain(p)
  PROVE  Kept(p) /\ Kept(Other(p))
<1> DEFINE q == Other(p)
           n == IF h[c][p].probed = "hdr" THEN 1 ELSE 2
<1>1. TypeOK /\ Lanes /\ Busy
  BY DEF Inv
<1>2. q \in Proc /\ q # p
  BY TwoProcs
<1>3. /\ main[p].pc = "drain" /\ Len(Lane(c, p)) >= n /\ MPI_Recv(c, p, n)
      /\ h' = [h EXCEPT ![c][p].probed = "none", ![c][p].crossed = Crossed(c, p, n)]
      /\ UNCHANGED <<connections, queue, user, io>>
  BY DEF Drain, At, Inbox, Matched, Lane
<1>4. ~Running(p)
  BY <1>1, <1>3 DEF Busy, BusyAt, IoAt, Running
<1>5. n \in Nat /\ n >= 1 /\ Len(Lane(c, p)) \in Nat
  BY <1>1, LenProperties DEF Lanes
<1>6. \A d \in Conn, x \in Proc : d # c \/ x # p => Lane(d, x)' = Lane(d, x)
  BY <1>1, <1>3, <1>5, NetRecv
<1>7. Lane(c, p) # <<>>
  BY <1>3, <1>5
<1>8. PICK r : r = [h[c][p] EXCEPT !.probed = "none", !.crossed = Crossed(c, p, n)]
  OBVIOUS
<1>9. r.closed_rd <=> h[c][p].closed_rd
  BY <1>1, <1>8, Parts DEF HandleMPI
<1>10. h' = [h EXCEPT ![c][p] = r]
  BY <1>1, <1>3, <1>8 DEF TypeOK
<1>11. /\ h'[c][p] = r
       /\ \A d \in Conn, x \in Proc : d # c \/ x # p => h'[d][x] = h[d][x]
  BY <1>1, <1>10 DEF TypeOK
<1>12. Kept(p)
  <2>1. \A d \in Conn : Rests(d, p)
    BY <1>3, <1>9, <1>11 DEF Rests, Managed, Greeting, IoAt
  <2>2. Only(c, p)
    BY <1>3, <1>6, <2>1 DEF Only, Running
  <2> QED BY <1>4, <1>7, <2>1, <2>2, Reads
<1>13. Kept(q)
  <2>1. /\ \A d \in Conn : /\ h'[d][q] = h[d][q] /\ Entry(d, q)' = Entry(d, q)
                           /\ queue'[q][d] = queue[q][d] /\ user'[q][d] = user[q][d]
                           /\ Lane(d, q)' = Lane(d, q)
        /\ io'[q] = io[q]
    BY <1>2, <1>3, <1>6, <1>11 DEF Entry
  <2> QED BY <1>2, <2>1, Elsewhere
<1> QED BY <1>12, <1>13

(* setAsClosed reads EOS: finalize closes the read side, whoever owns it.  *)
LEMMA CloseReadSteps ==
  ASSUME Inv, NEW p \in Proc, NEW c \in Conn, main[p].c = c, CloseRead(p)
  PROVE  Kept(p) /\ Kept(Other(p))
<1> DEFINE q == Other(p)
<1>1. TypeOK /\ Lanes /\ Busy
  BY DEF Inv
<1>2. q \in Proc /\ q # p
  BY TwoProcs
<1>3. /\ main[p].pc = "drain" /\ Lane(c, p) # <<>> /\ MPI_Recv(c, p, 1)
      /\ h' = [h EXCEPT ![c][p].closed_rd = TRUE, ![c][p].crossed = Crossed(c, p, 1)]
      /\ connections' = [connections EXCEPT ![p][Tag[c]] = NoEntry]
      /\ UNCHANGED <<queue, user, io>>
  BY DEF CloseRead, At, Inbox, Matched, Lane
<1>4. ~Running(p)
  BY <1>1, <1>3 DEF Busy, BusyAt, IoAt, Running
<1>5. Len(Lane(c, p)) \in Nat /\ Len(Lane(c, p)) >= 1
  BY <1>1, <1>3, LenProperties, EmptySeq DEF Lanes
<1>6. \A d \in Conn, x \in Proc : d # c \/ x # p => Lane(d, x)' = Lane(d, x)
  BY <1>1, <1>3, <1>5, NetRecv
<1>7. \A d \in Conn, x \in Proc : d # c \/ x # p => Entry(d, x)' = Entry(d, x)
  BY <1>1, <1>3, EraseSet
<1>8. PICK r : r = [h[c][p] EXCEPT !.closed_rd = TRUE, !.crossed = Crossed(c, p, 1)]
  OBVIOUS
<1>9. r.closed_rd
  BY <1>1, <1>8, Parts DEF HandleMPI
<1>10. h' = [h EXCEPT ![c][p] = r]
  BY <1>1, <1>3, <1>8 DEF TypeOK
<1>11. /\ h'[c][p] = r
       /\ \A d \in Conn, x \in Proc : d # c \/ x # p => h'[d][x] = h[d][x]
  BY <1>1, <1>10 DEF TypeOK
<1>12. Kept(p)
  <2>1. \A d \in Conn : d # c => Rests(d, p)
    <3>1. UNCHANGED <<queue, user, io>>
      BY <1>3
    <3>2. \A d \in Conn : d # c => Entry(d, p)' = Entry(d, p) /\ h'[d][p] = h[d][p]
      BY <1>7, <1>11
    <3> QED BY <3>1, <3>2 DEF Rests, Managed, Greeting, IoAt, Entry
  <2>2. Only(c, p)
    BY <1>3, <1>6, <2>1 DEF Only, Running
  <2>3. OwnerOf(c, p)' = "closed"
    BY <1>9, <1>11 DEF OwnerOf
  <2>4. ReadableOf(c, p)' <=> ReadableOf(c, p)
    BY <1>3, <1>9, <1>11 DEF ReadableOf
  <2> QED BY <1>4, <2>2, <2>3, <2>4, Moves
<1>13. Kept(q)
  <2>1. /\ \A d \in Conn : /\ h'[d][q] = h[d][q] /\ Entry(d, q)' = Entry(d, q)
                           /\ queue'[q][d] = queue[q][d] /\ user'[q][d] = user[q][d]
                           /\ Lane(d, q)' = Lane(d, q)
        /\ io'[q] = io[q]
    BY <1>2, <1>3, <1>6, <1>7, <1>11 DEF Entry
  <2> QED BY <1>2, <2>1, Elsewhere
<1> QED BY <1>12, <1>13

(* HandleUser::yield gives the connection back to the table.               *)
LEMMA YieldSteps ==
  ASSUME Inv, NEW p \in Proc, NEW c \in Conn, Yield(p, c)
  PROVE  Kept(p) /\ Kept(Other(p))
<1> DEFINE q == Other(p)
<1>1. TypeOK /\ Table /\ Fresh /\ Single
  BY DEF Inv
<1>2. q \in Proc /\ q # p
  BY TwoProcs
<1>3. /\ user[p][c] = "held" /\ ~h[c][p].closed_rd
      /\ user' = [user EXCEPT ![p][c] = "given"]
      /\ UNCHANGED <<h, net, queue, io>>
  BY DEF Yield, MayRead
<1>4. h[c][p].made /\ ~Inserting(c, p) /\ queue[p][c] = 0
  BY <1>1, <1>3, Exclusive, Parts DEF Fresh, FreshAt
<1>5. Entry(c, p).c = c
  BY <1>1, <1>3, <1>4 DEF Table
<1>6. /\ Entry(c, p)'.c = c /\ Entry(c, p)'.to_manage
      /\ \A d \in Conn, x \in Proc : d # c \/ x # p => Entry(d, x)' = Entry(d, x)
  <2>1. Entry(c, p) \in [c : Conn \union {NoConn}, to_manage : BOOLEAN]
    BY <1>1, Parts
  <2>2. PICK r : r = [Entry(c, p) EXCEPT !.to_manage = TRUE]
    OBVIOUS
  <2>3. r \in [c : Conn \union {NoConn}, to_manage : BOOLEAN] /\ r.c = c /\ r.to_manage
    BY <1>5, <2>1, <2>2
  <2>4. connections[p][Tag[c]] # NoEntry
    BY <1>5, ConnAssumption DEF NoEntry, Entry
  <2>5. connections' = [connections EXCEPT ![p][Tag[c]] = r]
    BY <2>2, <2>4 DEF Yield, Entry
  <2>6. Entry(c, p)' = r
        /\ \A d \in Conn, x \in Proc : d # c \/ x # p => Entry(d, x)' = Entry(d, x)
    BY <1>1, <2>3, <2>5, EntrySet
  <2> QED BY <2>3, <2>6
<1>7. /\ user'[p][c] = "given"
      /\ \A d \in Conn, x \in Proc : d # c \/ x # p => user'[x][d] = user[x][d]
  BY <1>1, <1>3 DEF TypeOK
<1>8. Kept(p)
  <2>1. \A d \in Conn : d # c => Rests(d, p) /\ Lane(d, p)' = Lane(d, p)
    BY <1>3, <1>6, <1>7 DEF Rests, Managed, Greeting, IoAt, Entry, Lane
  <2>2. Only(c, p)
    BY <1>3, <2>1 DEF Only, Running
  <2>3. OwnerOf(c, p) = "user"
    BY <1>3, <1>4 DEF OwnerOf
  <2>4. OwnerOf(c, p)' = "managed"
    BY <1>3, <1>4, <1>6, <1>7 DEF OwnerOf, Managed, Entry
  <2>5. ReadableOf(c, p)' <=> ReadableOf(c, p)
    BY <1>3 DEF ReadableOf, Lane
  <2> QED BY <2>2, <2>3, <2>4, <2>5, Moves
<1>9. Kept(q)
  <2>1. /\ \A d \in Conn : /\ h'[d][q] = h[d][q] /\ Entry(d, q)' = Entry(d, q)
                           /\ queue'[q][d] = queue[q][d] /\ user'[q][d] = user[q][d]
                           /\ Lane(d, q)' = Lane(d, q)
        /\ io'[q] = io[q]
    BY <1>2, <1>3, <1>6, <1>7 DEF Lane
  <2> QED BY <1>2, <2>1, Elsewhere
<1> QED BY <1>8, <1>9

(* The IO thread stops: from here on finalize closes what is left.         *)
LEMMA IoExitSteps ==
  ASSUME Inv, NEW p \in Proc, IoExit(p)
  PROVE  Kept(p) /\ Kept(Other(p))
<1> DEFINE q == Other(p)
<1>1. TypeOK
  BY DEF Inv
<1>2. q \in Proc /\ q # p
  BY TwoProcs
<1>3. /\ io[p].pc = "start" /\ IoGoto(p, "exited")
      /\ UNCHANGED <<h, connections, net, queue, user>>
  BY DEF IoExit, IoAt
<1>4. io'[p].pc = "exited" /\ \A x \in Proc : x # p => io'[x] = io[x]
  BY <1>1, <1>3, IoGotoSet
<1>5. Kept(p)
  <2>1. \A d \in Conn : Rests(d, p) /\ Lane(d, p)' = Lane(d, p)
    BY <1>3, <1>4 DEF Rests, Managed, Greeting, IoAt, Lane
  <2>2. \A d \in Conn : OwnerOf(d, p)' = OwnerOf(d, p)
    BY <2>1, RestsOwner
  <2>3. \A d \in Conn : ReadableOf(d, p)' <=> ReadableOf(d, p)
    BY <2>1 DEF Rests, ReadableOf
  <2>4. Owner(p)' = Owner(p) /\ Readable(p)' = Readable(p)
    BY <2>2, <2>3, SameMap
  <2>5. (~Running(p))' = TRUE
    BY <1>4 DEF Running
  <2>6. Contract(p)!End
    BY <2>4, <2>5 DEF Contract!End
  <2> QED BY <2>6 DEF Kept, Contract!Next
<1>6. Kept(q)
  <2>1. \A d \in Conn : Rests(d, q) /\ Lane(d, q)' = Lane(d, q)
    BY <1>2, <1>3, <1>4 DEF Rests, Managed, Greeting, IoAt, Lane
  <2>2. Running(q)' <=> Running(q)
    BY <1>2, <1>4 DEF Running
  <2> QED BY <1>2, <2>1, <2>2, Stays
<1> QED BY <1>5, <1>6

(* update takes a request: the thread in the handshake has the connection. *)
LEMMA AcceptSteps ==
  ASSUME Inv, NEW p \in Proc, NEW c \in Conn, request[p] # <<>>, Head(request[p]) = c,
         Accept(p)
  PROVE  Kept(p) /\ Kept(Other(p))
<1> DEFINE q == Other(p)
<1>1. TypeOK /\ Table /\ Fresh /\ Requests
  BY DEF Inv
<1>2. q \in Proc /\ q # p
  BY TwoProcs
<1>3. /\ io[p].pc = "start" /\ Insert(c, p)
      /\ io' = [io EXCEPT ![p].pc = "handshake", ![p].c = c]
      /\ h' = [h EXCEPT ![c][p].made = TRUE]
      /\ UNCHANGED <<net, queue, user>>
  BY DEF Accept, IoAt
<1>4. Asked(c, p)
  <2>1. request[p] \in Seq(Conn) /\ Len(request[p]) \in Nat /\ Len(request[p]) >= 1
        /\ DOMAIN request[p] = 1..Len(request[p])
    BY <1>1, EmptySeq, LenProperties DEF TypeOK
  <2>2. request[p][1] = c /\ 1 \in DOMAIN request[p]
    BY <2>1
  <2> QED BY <2>2 DEF Asked
<1>5. ~h[c][p].made
  BY <1>1, <1>4 DEF Requests
<1>6. /\ h[c][p] = NewHandle /\ Entry(c, p).c = NoConn
      /\ user[p][c] = "none" /\ queue[p][c] = 0
  BY <1>1, <1>5 DEF Fresh, FreshAt
<1>7. PICK r : r = [h[c][p] EXCEPT !.made = TRUE]
  OBVIOUS
<1>8. ~h[c][p].closed_rd /\ ~r.closed_rd
  BY <1>6, <1>7 DEF NewHandle
<1>9. h' = [h EXCEPT ![c][p] = r]
  BY <1>3, <1>7
<1>10. /\ h'[c][p] = r
       /\ \A d \in Conn, x \in Proc : d # c \/ x # p => h'[d][x] = h[d][x]
  BY <1>1, <1>9 DEF TypeOK
<1>11. /\ Entry(c, p)'.c = c /\ ~Entry(c, p)'.to_manage
       /\ \A d \in Conn, x \in Proc : d # c \/ x # p => Entry(d, x)' = Entry(d, x)
  BY <1>1, <1>3, <1>6, InsertSet
<1>12. /\ io'[p].pc = "handshake" /\ io'[p].c = c
       /\ \A x \in Proc : x # p => io'[x] = io[x]
  BY <1>1, <1>3 DEF TypeOK
<1>13. Kept(p)
  <2>1. \A d \in Conn : d # c => Rests(d, p) /\ Lane(d, p)' = Lane(d, p)
    BY <1>3, <1>10, <1>11, <1>12 DEF Rests, Managed, Greeting, IoAt, Entry, Lane
  <2>2. Only(c, p)
    BY <1>3, <1>12, <2>1 DEF Only, Running
  <2>3. OwnerOf(c, p) = "none"
    <3>1. ~Managed(c, p)
      BY <1>6, ConnAssumption DEF Managed, Entry
    <3> QED BY <1>3, <1>6, <1>8, <3>1 DEF OwnerOf, Greeting, IoAt
  <2>4. OwnerOf(c, p)' = "handshake"
    <3>1. ~Managed(c, p)' /\ Greeting(c, p)'
      BY <1>11, <1>12 DEF Managed, Entry, Greeting, IoAt
    <3> QED BY <1>3, <1>6, <1>8, <1>10, <3>1 DEF OwnerOf
  <2>5. ReadableOf(c, p)' <=> ReadableOf(c, p)
    BY <1>3, <1>8, <1>10 DEF ReadableOf, Lane
  <2> QED BY <2>2, <2>3, <2>4, <2>5, Moves
<1>14. Kept(q)
  <2>1. /\ \A d \in Conn : /\ h'[d][q] = h[d][q] /\ Entry(d, q)' = Entry(d, q)
                           /\ queue'[q][d] = queue[q][d] /\ user'[q][d] = user[q][d]
                           /\ Lane(d, q)' = Lane(d, q)
        /\ io'[q] = io[q]
    BY <1>2, <1>3, <1>10, <1>11, <1>12 DEF Lane
  <2> QED BY <1>2, <2>1, Elsewhere
<1> QED BY <1>13, <1>14

(* The handshake is read and the connection queued.                        *)
LEMMA HandshakeSteps ==
  ASSUME Inv, NEW p \in Proc, NEW c \in Conn, io[p].c = c, Handshake(p)
  PROVE  Kept(p) /\ Kept(Other(p))
<1> DEFINE q == Other(p)
<1>1. TypeOK /\ Lanes /\ Busy /\ Single
  BY DEF Inv
<1>2. q \in Proc /\ q # p
  BY TwoProcs
<1>3. /\ io[p].pc = "handshake" /\ Len(Lane(c, p)) >= 2 /\ MPI_Recv(c, p, 2)
      /\ h' = [h EXCEPT ![c][p].crossed = Crossed(c, p, 2)]
      /\ queue' = [queue EXCEPT ![p][c] = @ + 1] /\ IoGoto(p, "poll")
      /\ UNCHANGED <<connections, user>>
  BY DEF Handshake, IoAt, Inbox, Matched, Lane
<1>4. Greeting(c, p) /\ ~h[c][p].closed_rd
  BY <1>1, <1>3 DEF Greeting, Busy, BusyAt, IoAt
<1>5. user[p][c] # "held" /\ queue[p][c] = 0 /\ ~Managed(c, p)
  BY <1>1, <1>4, Exclusive, Parts
<1>6. Len(Lane(c, p)) \in Nat
  BY <1>1, LenProperties DEF Lanes
<1>7. \A d \in Conn, x \in Proc : d # c \/ x # p => Lane(d, x)' = Lane(d, x)
  BY <1>1, <1>3, <1>6, NetRecv
<1>8. PICK r : r = [h[c][p] EXCEPT !.crossed = Crossed(c, p, 2)]
  OBVIOUS
<1>9. ~r.closed_rd
  BY <1>1, <1>4, <1>8, Parts DEF HandleMPI
<1>10. h' = [h EXCEPT ![c][p] = r]
  BY <1>3, <1>8
<1>11. /\ h'[c][p] = r
       /\ \A d \in Conn, x \in Proc : d # c \/ x # p => h'[d][x] = h[d][x]
  BY <1>1, <1>10 DEF TypeOK
<1>12. /\ queue'[p][c] = 1
       /\ \A d \in Conn, x \in Proc : d # c \/ x # p => queue'[x][d] = queue[x][d]
  BY <1>1, <1>3, <1>5 DEF TypeOK
<1>13. io'[p].pc = "poll" /\ \A x \in Proc : x # p => io'[x] = io[x]
  BY <1>1, <1>3, IoGotoSet
<1>14. Kept(p)
  <2>1. \A d \in Conn : d # c => Rests(d, p)
    BY <1>3, <1>4, <1>11, <1>12, <1>13 DEF Rests, Managed, Greeting, IoAt
  <2>2. Only(c, p)
    BY <1>3, <1>7, <1>13, <2>1 DEF Only, Running
  <2>3. OwnerOf(c, p) = "handshake"
    BY <1>4, <1>5 DEF OwnerOf
  <2>4. OwnerOf(c, p)' = "ready"
    BY <1>9, <1>11, <1>12 DEF OwnerOf
  <2>5. Lane(c, p) # <<>>
    BY <1>3
  <2> QED BY <2>2, <2>3, <2>4, <2>5, Settles
<1>15. Kept(q)
  <2>1. /\ \A d \in Conn : /\ h'[d][q] = h[d][q] /\ Entry(d, q)' = Entry(d, q)
                           /\ queue'[q][d] = queue[q][d] /\ user'[q][d] = user[q][d]
                           /\ Lane(d, q)' = Lane(d, q)
        /\ io'[q] = io[q]
    BY <1>2, <1>3, <1>7, <1>11, <1>12, <1>13 DEF Entry
  <2> QED BY <1>2, <2>1, Elsewhere
<1> QED BY <1>14, <1>15

(* The loop over the table: what update queues is managed, and something   *)
(* has come on it.                                                         *)
LEMMA PollSteps ==
  ASSUME Inv, NEW p \in Proc, Poll(p)
  PROVE  Kept(p) /\ Kept(Other(p))
<1> DEFINE q == Other(p)
           Out(d) == Tag[d] \in Polled(p)
<1>1. TypeOK /\ Table /\ Single /\ Framed
  BY DEF Inv
<1>2. q \in Proc /\ q # p
  BY TwoProcs
<1>3. /\ io[p].pc \in {"start", "poll"} /\ IoGoto(p, "start")
      /\ UNCHANGED <<h, net, user>>
  BY DEF Poll, IoAt
<1>4. \A d \in Conn : Tag[d] \in Tags
  BY <1>1, Parts
<1>5. \A d \in Conn : Out(d) => Managed(d, p) /\ Lane(d, p) # <<>>
  <2>1. \A d \in Conn : /\ Entry(d, p).c \in {d, NoConn}
                        /\ Entry(d, p).c = NoConn => ~Entry(d, p).to_manage
    BY <1>1 DEF Table
  <2> QED BY <2>1 DEF Polled, Managed, Entry, Lane
<1>6. \A d \in Conn : (\E t \in Polled(p) : connections[p][t].c = d) <=> Out(d)
  <2>1. \A t \in Polled(p) : \E d \in Conn : t = Tag[d] /\ connections[p][t].c = d
    <3>1. \A t \in Polled(p) : \E d \in Conn : t = Tag[d]
      BY DEF Polled, Tags
    <3> QED BY <1>5, <3>1 DEF Managed
  <2>2. \A d \in Conn : Out(d) => connections[p][Tag[d]].c = d
    BY <1>5 DEF Managed
  <2> QED BY <2>1, <2>2
<1>7. \A d \in Conn : /\ Entry(d, q)' = Entry(d, q)
                      /\ ~Out(d) => Entry(d, p)' = Entry(d, p)
  <2> DEFINE f == [t \in Tags |-> IF t \in Polled(p)
                                  THEN [connections[p][t] EXCEPT !.to_manage = FALSE]
                                  ELSE connections[p][t]]
  <2>1. connections' = [connections EXCEPT ![p] = f]
    BY DEF Poll
  <2>2. \A t \in Tags : t \notin Polled(p) => f[t] = connections[p][t]
    OBVIOUS
  <2> HIDE DEF f
  <2>3. connections'[p] = f /\ connections'[q] = connections[q]
    BY <1>1, <1>2, <2>1 DEF TypeOK
  <2> QED BY <1>4, <2>2, <2>3 DEF Entry
<1>8. \A d \in Conn : /\ queue'[q][d] = queue[q][d]
                      /\ Out(d) => queue'[p][d] = 1
                      /\ ~Out(d) => queue'[p][d] = queue[p][d]
  <2> DEFINE g == [d \in Conn |-> IF \E t \in Polled(p) : connections[p][t].c = d
                                  THEN queue[p][d] + 1 ELSE queue[p][d]]
  <2>1. queue' = [queue EXCEPT ![p] = g]
    BY DEF Poll
  <2>2. \A d \in Conn : Out(d) => queue[p][d] = 0
    BY <1>1, <1>5, Exclusive, Parts
  <2>3. \A d \in Conn : g[d] = IF Out(d) THEN queue[p][d] + 1 ELSE queue[p][d]
    BY <1>6
  <2> HIDE DEF g, Out
  <2>4. queue'[p] = g /\ queue'[q] = queue[q]
    BY <1>1, <1>2, <2>1 DEF TypeOK
  <2> QED BY <2>2, <2>3, <2>4
<1>9. io'[p].pc = "start" /\ \A x \in Proc : x # p => io'[x] = io[x]
  BY <1>1, <1>3, IoGotoSet
<1>10. \A d \in Conn : Out(d) => /\ ~h[d][p].closed_rd
                                 /\ OwnerOf(d, p) = "managed" /\ OwnerOf(d, p)' = "ready"
  <2> SUFFICES ASSUME NEW d \in Conn, Out(d)
               PROVE  /\ ~h[d][p].closed_rd
                      /\ OwnerOf(d, p) = "managed" /\ OwnerOf(d, p)' = "ready"
    OBVIOUS
  <2>1. ~h[d][p].closed_rd
    BY <1>1, <1>5 DEF Framed, FramedAt
  <2>2. ~(queue[p][d] > 0) /\ user[p][d] # "held" /\ Managed(d, p)
    BY <1>1, <1>5, Exclusive
  <2>3. queue'[p][d] = 1
    BY <1>8
  <2> QED BY <1>3, <2>1, <2>2, <2>3 DEF OwnerOf
<1>11. \A d \in Conn : ~Out(d) => OwnerOf(d, p)' = OwnerOf(d, p)
  <2> HIDE DEF Out
  <2>1. \A d \in Conn : ~Out(d) => Rests(d, p)
    BY <1>3, <1>7, <1>8, <1>9 DEF Rests, Managed, Greeting, IoAt, Entry
  <2> QED BY <2>1, RestsOwner
<1>12. Kept(p)
  <2> DEFINE S == {d \in Conn : Out(d)}
  <2>1. S \in SUBSET {d \in Conn : Readable(p)[d] /\ Owner(p)[d] = "managed"}
    BY <1>5, <1>10, Mapped DEF ReadableOf
  <2>2. Owner(p)' = [d \in Conn |-> IF d \in S THEN "ready" ELSE Owner(p)[d]]
    <3> HIDE DEF Out
    <3>1. Owner(p)' = [d \in Conn |-> Owner(p)'[d]]
      BY Mapped
    <3>2. \A d \in Conn : Owner(p)'[d] = IF d \in S THEN "ready" ELSE Owner(p)[d]
      BY <1>10, <1>11, Mapped
    <3> QED BY <3>1, <3>2
  <2> HIDE DEF S
  <2>3. Readable(p)' = Readable(p)
    BY <1>3 DEF Readable, Inbox, Matched
  <2>4. UNCHANGED (~Running(p))
    BY <1>3, <1>9 DEF Running
  <2>5. Contract(p)!Wake
    BY <2>1, <2>2, <2>3, <2>4 DEF Contract!Wake
  <2> QED BY <2>5 DEF Kept, Contract!Next
<1>13. Kept(q)
  <2>1. \A d \in Conn : Rests(d, q) /\ Lane(d, q)' = Lane(d, q)
    BY <1>2, <1>3, <1>7, <1>8, <1>9 DEF Rests, Managed, Greeting, IoAt, Lane, Entry
  <2>2. Running(q)' <=> Running(q)
    BY <1>2, <1>9 DEF Running
  <2> QED BY <1>2, <2>1, <2>2, Stays
<1> QED BY <1>12, <1>13

-----------------------------------------------------------------------------
(***************************************************************************)
(* The theorem.                                                            *)
(***************************************************************************)
(* At first no process has a connection.                                   *)
LEMMA ContractInit == Init => \A p \in Proc : Contract(p)!Init
<1> SUFFICES ASSUME Init, NEW p \in Proc PROVE Contract(p)!Init
  OBVIOUS
<1>1. \A c \in Conn : Tag[c] \in Tags
  BY DEF Tags
<1>2. \A c \in Conn : /\ ~h[c][p].closed_rd /\ queue[p][c] = 0 /\ user[p][c] = "none"
                      /\ connections[p][Tag[c]].c = NoConn /\ net[p][Tag[c]] = <<>>
  BY <1>1 DEF Init, NewHandle, NoEntry
<1>3. io[p].pc = "start"
  BY DEF Init
<1>4. \A c \in Conn : ~Managed(c, p)
  BY <1>2, ConnAssumption DEF Managed
<1>5. Owner(p) = [c \in Conn |-> "none"]
  BY <1>2, <1>3, <1>4 DEF Owner
<1>6. Readable(p) = [c \in Conn |-> FALSE]
  BY <1>2 DEF Readable, Inbox, Matched
<1>7. (~Running(p)) = FALSE
  BY <1>3 DEF Running
<1> QED BY <1>5, <1>6, <1>7 DEF Contract!Init

(* Every step of a process is a step of its contract and of the other's,   *)
(* or is none of theirs.                                                   *)
LEMMA ActionSteps ==
  ASSUME Inv, NEW p \in Proc, Operation(p) \/ Step(p) \/ IoThread(p)
  PROVE  Kept(p) /\ Kept(Other(p))
<1>1. main[p].c \in Conn /\ io[p].c \in Conn /\ request[p] \in Seq(Conn)
  BY Parts DEF Inv
<1>2. CASE Operation(p)
  <2>1. CASE Finalize(p)
    BY <2>1, MainSteps DEF Finalize
  <2>2. ASSUME NEW c \in Conn,
               Connect(p, c) \/ GetNext(p, c) \/ Send(p, c) \/ Probe(p, c)
                 \/ Receive(p, c) \/ Close(p, c) \/ Yield(p, c)
        PROVE  Kept(p) /\ Kept(Other(p))
    <3>1. CASE Probe(p, c)
      BY <3>1, ProbeHeaderSteps, ProbeEOSSteps
    <3> QED BY <2>2, <3>1, ConnectSteps, GetNextSteps, SendSteps, ReceiveSteps,
               CloseSteps, YieldSteps
  <2> QED BY <1>2, <2>1, <2>2 DEF Operation
<1>3. CASE Step(p)
  <2>1. CASE ConnectInsert(p)
    BY <1>1, <2>1, ConnectInsertSteps
  <2>2. CASE NotifyClose(p)
    BY <1>1, <2>2, NotifyCloseSteps
  <2>3. CASE Join(p)
    BY <2>3, MainSteps DEF Join
  <2>4. CASE EndNext(p)
    BY <2>4, EndNextSteps
  <2>5. CASE Drain(p)
    BY <1>1, <2>5, DrainSteps
  <2>6. CASE CloseRead(p)
    BY <1>1, <2>6, CloseReadSteps
  <2>7. CASE EndDone(p)
    BY <2>7, MainSteps DEF EndDone
  <2> QED BY <1>3, <2>1, <2>2, <2>3, <2>4, <2>5, <2>6, <2>7 DEF Step
<1>4. CASE IoThread(p)
  <2>1. CASE IoExit(p)
    BY <2>1, IoExitSteps
  <2>2. CASE Accept(p)
    <3>1. request[p] # <<>>
      BY <2>2 DEF Accept
    <3>2. Head(request[p]) \in Conn
      BY <1>1, <3>1
    <3> QED BY <2>2, <3>1, <3>2, AcceptSteps
  <2>3. CASE Handshake(p)
    BY <1>1, <2>3, HandshakeSteps
  <2>4. CASE Poll(p)
    BY <2>4, PollSteps
  <2> QED BY <1>4, <2>1, <2>2, <2>3, <2>4 DEF IoThread
<1> QED BY <1>2, <1>3, <1>4

LEMMA ContractNext == Inv /\ [Next]_vars => \A p \in Proc : [Contract(p)!Next]_(Contract(p)!vars)
<1> SUFFICES ASSUME Inv, [Next]_vars, NEW p \in Proc PROVE Kept(p)
  BY DEF Kept
<1>1. CASE UNCHANGED vars
  BY <1>1, MainSteps DEF vars
<1>2. CASE Next
  <2>1. PICK x \in Proc : Operation(x) \/ Step(x) \/ IoThread(x)
    BY <1>2 DEF Next
  <2>2. Kept(x) /\ Kept(Other(x))
    BY <2>1, ActionSteps
  <2> QED BY <2>1, <2>2, TwoProcs
<1> QED BY <1>1, <1>2

(* Each process keeps the contract of its connections: update queues one   *)
(* only when something has come on it, only its owner reads from it, and   *)
(* after EOS nobody is handed it again.                                    *)
THEOREM KeepsItsContract == Spec => KeepsContract
<1>1. Init => \A p \in Proc : Contract(p)!Init
  BY ContractInit
<1>2. Inv /\ [Next]_vars => [\A p \in Proc : [Contract(p)!Next]_(Contract(p)!vars)]_vars
  BY ContractNext
<1>3. Spec => []Inv
  BY Invariant
<1> QED BY <1>1, <1>2, <1>3, PTL DEF Spec, KeepsContract
=============================================================================
