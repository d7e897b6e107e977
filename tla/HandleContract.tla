--------------------------- MODULE HandleContract ---------------------------
(***************************************************************************)
(* What the Manager and a transport promise about a connection, as the     *)
(* comments of protocolInterface.hpp and manager.hpp put it: at any time   *)
(* one party owns it.  getNext gives it to the program, yield gives it     *)
(* back ("the ownership of h is transferred back to the parent ConnType"), *)
(* update moves it to the ready queue only when there is something to read *)
(* ("check whether Handles are ready to receive a message or they received *)
(* a connection close event"), only its owner reads from it, and once its  *)
(* read side is closed it is not handed out again.                         *)
(***************************************************************************)
CONSTANT Handle

VARIABLES
    owner,      \* who may read from each connection
    avail,      \* is there something to read
    ending      \* the Manager is being finalized and closes everything

vars == <<owner, avail, ending>>

Owner == {"none", "handshake", "team", "ready", "managed", "user", "lost", "closed"}

Init == /\ owner = [h \in Handle |-> "none"]
        /\ avail = [h \in Handle |-> FALSE]
        /\ ending = FALSE

Move(h, from, to) == owner[h] = from /\ owner' = [owner EXCEPT ![h] = to]
Reads(h) == \E b \in BOOLEAN : avail' = [avail EXCEPT ![h] = b]

Arrive(h) == avail' = [avail EXCEPT ![h] = TRUE] /\ UNCHANGED <<owner, ending>>
Accept(h) == Move(h, "none", "handshake") /\ UNCHANGED <<avail, ending>>
Connect(h) == /\ Move(h, "none", "user") \/ Move(h, "none", "lost")
              /\ Reads(h) /\ UNCHANGED ending
(* The handshake ends with a p2p connection, a team's, or an error.        *)
Settle(h) == /\ avail[h]
             /\ \E to \in {"ready", "team", "lost"} : Move(h, "handshake", to)
             /\ Reads(h) /\ UNCHANGED ending
(* One turn of update may find several connections ready.                  *)
Wake == /\ \E S \in SUBSET {h \in Handle : avail[h] /\ owner[h] = "managed"} :
             owner' = [h \in Handle |-> IF h \in S THEN "ready" ELSE owner[h]]
        /\ UNCHANGED <<avail, ending>>
GetNext(h) == Move(h, "ready", "user") /\ UNCHANGED <<avail, ending>>
Yield(h) == Move(h, "user", "managed") /\ UNCHANGED <<avail, ending>>
Read(h) == /\ owner[h] \in {"user", "handshake"} \/ ending
           /\ avail[h] /\ Reads(h) /\ UNCHANGED <<owner, ending>>
CloseRead(h) == /\ Move(h, "user", "closed") \/ (ending /\ Move(h, owner[h], "closed"))
                /\ UNCHANGED <<avail, ending>>
End == ending' = TRUE /\ UNCHANGED <<owner, avail>>

Next == \/ \E h \in Handle : \/ Arrive(h) \/ Accept(h) \/ Connect(h) \/ Settle(h)
                             \/ GetNext(h) \/ Yield(h) \/ Read(h)
                             \/ CloseRead(h)
        \/ Wake \/ End

Spec == Init /\ [][Next]_vars
=============================================================================
