---------------------------- MODULE MCCollective ----------------------------
(* TLC instances of Collective.                                            *)
EXTENDS Collective

CONSTANTS root, w1, w2

(* The root has neither the first nor the last place in the participants.  *)
RankOfTwo == [p \in Proc |-> CASE p = root -> 1 [] p = w1 -> 2 [] p = w2 -> 0]
=============================================================================
