------------------------------- MODULE MCMqtt -------------------------------
(* TLC instances of Mqtt.                                                  *)
EXTENDS Mqtt

CONSTANTS a, b

(* One process connects, the other accepts.                                *)
OneWay == [c \in Conn |-> a]

(* Messages go both ways.                                                  *)
EachSends == [p \in Proc |-> 1]

(* finalize(true) in one, finalize(false) in the other.                    *)
Waits == [p \in Proc |-> p = b]
=============================================================================
