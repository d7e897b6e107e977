----------------------------- MODULE MCTcpNode -----------------------------
(* TLC instances of TcpNode, and the variants of its specification that    *)
(* programs outside the supported use would run.                           *)
EXTENDS TcpNode, TLC

Symmetry == Permutations(Handle) \union Permutations(Slot)

(* Every peer sooner or later closes its side, however often it sends.     *)
ClosingSpec == FairSpec /\ \A h \in Handle : SF_vars(PeerClose(h))

(* ConnTcp::update picks up every yielded connection that has something to *)
(* read, however connections come, go and reuse descriptors around it      *)
(* (Served).  Connections are interchangeable, in Init, Next and fairness, *)
(* so it is checked for one of them among the others.                      *)
YieldedIsServed == Served(CHOOSE h \in Handle : TRUE)
=============================================================================
