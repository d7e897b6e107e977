----------------------------- MODULE MsgChannel -----------------------------
(***************************************************************************)
(* What a shmBuffer promises: "shared-memory buffer, one single slot".     *)
(* Whole messages go through one place, one at a time and in order; put    *)
(* waits for the place to be empty, get for it to be taken.                *)
(***************************************************************************)
EXTENDS Naturals, Sequences

CONSTANT Size       \* the sizes of messages; a message of size 0 is EOS

VARIABLES
    place,          \* the message on its way: a sequence of at most one size
    taken           \* the sizes get has returned, in order

vars == <<place, taken>>

Init == place = <<>> /\ taken = <<>>

Put(n) == place = <<>> /\ place' = <<n>> /\ UNCHANGED taken
Get == place # <<>> /\ taken' = Append(taken, place[1]) /\ place' = <<>>

Next == Get \/ \E n \in Size : Put(n)

Spec == Init /\ [][Next]_vars
=============================================================================
