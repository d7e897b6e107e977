----------------------------- MODULE MCShmConn ------------------------------
(* TLC instances of ShmConn.                                               *)
EXTENDS ShmConn, TLC

CONSTANTS a, b

Swaps == Permutations(Conn)

(* One process connects, the other listens.                                *)
OneWay == [c \in Conn |-> a]

(* The process that connects sends once.                                   *)
OneSent == [p \in Proc |-> IF p = a THEN 1 ELSE 0]

(* finalize(true) in one, finalize(false) in the other.                    *)
Waits == [p \in Proc |-> p = b]
=============================================================================
