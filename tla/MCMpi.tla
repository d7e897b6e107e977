-------------------------------- MODULE MCMpi --------------------------------
(* TLC instances of Mpi.                                                   *)
EXTENDS Mpi

CONSTANTS a, b, c1, c2

(* One process connects twice, the other accepts.                          *)
OneWay == [c \in Conn |-> a]

(* Each process connects to the other.                                     *)
BothWays == [c \in Conn |-> IF c = c1 THEN a ELSE b]

TwoTags == [c \in Conn |-> IF c = c1 THEN 1 ELSE 2]

(* The process that accepts answers once.                                  *)
OneSent == [p \in Proc |-> IF p = b THEN 1 ELSE 0]

(* Where one process connects twice, it makes c1 first.                    *)
InOrder == h[c2][a].made => h[c1][a].made
==============================================================================
