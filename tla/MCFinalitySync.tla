------------------------- MODULE MCFinalitySync -------------------------
(* One chain of 10 blocks (block i has number i - 1), STEP 3, epochs of 4. *)
(*  epoch 0: the entrenchment guard is on, there is no committee;          *)
(*  epoch 1: A and M, members whose nodes are not in the instance;         *)
(*  epoch 2: A and B.  Read too early, at a block before #8, the election  *)
(*           still answers A, B and M.                                     *)
(* B runs a binary whose runtime is enacted at #8; F is a follower.        *)
EXTENDS FinalitySync, TLC

CONSTANTS A, B, F, M

MCChain == [b \in Blocks |-> 1..b]
MCKeyOf == [n \in Nodes |-> IF n = F THEN NoKey ELSE n]
MCElected(e, b) ==
  CASE e = 0 -> {}
    [] e = 1 -> {A, M}
    [] e = 2 -> IF b = 9 THEN {A, B} ELSE {A, B, M}
    [] OTHER -> {}
MCOwner(b, k) == k
MCSkewed == {B} \X (1..8)
MCBallots == {A, M} \X {7, 10}
=============================================================================
