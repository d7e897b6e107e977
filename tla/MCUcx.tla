------------------------------- MODULE MCUcx -------------------------------
(* TLC instances of Ucx.                                                   *)
EXTENDS Ucx

CONSTANTS a, b

(* One process connects, the other accepts.                                *)
OneWay == [c \in Conn |-> a]

(* Messages go from the process that connects to the other.                *)
OneSent == [p \in Proc |-> IF p = a THEN 1 ELSE 0]

(* finalize(true) in one, finalize(false) in the other.                    *)
Waits == [p \in Proc |-> p = b]
=============================================================================
