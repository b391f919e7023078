------------------------- MODULE MCFinalityFork -------------------------
(* A fork at the first target height, two nodes and two or three members   *)
(* elsewhere.  Blocks: 1 genesis, 2 common (#1), 3 and 4 at #2, 5 and 6 at  *)
(* #3 on top of them.                                                      *)
EXTENDS FinalityGadget, TLC

CONSTANTS N1, N2, O1, O2, O3

MCChain ==
  [b \in Blocks |-> CASE b = 1 -> {1}          [] b = 2 -> {1, 2}
                     [] b = 3 -> {1, 2, 3}    [] b = 4 -> {1, 2, 4}
                     [] b = 5 -> {1, 2, 3, 5} [] b = 6 -> {1, 2, 4, 6}]
MCKeyOf == [n \in Nodes |-> n]
MCNoBallots == {}
MCBallots2 == {O1, O2} \X {3, 4}
MCBallots3 == {O1, O2, O3} \X {3, 4}
MCElected(e, b) == Accounts
(* With targets at every height: the guard is on at #1, so the target is   *)
(* reached by skipping; after #2 there is no committee yet, and at block 6  *)
(* the runtime is newer than the binaries.                                 *)
MCElectedAtFork(e, b) == IF b \in {3, 4} THEN Accounts ELSE {}
MCSkewed == Nodes \X {6}
MCOwner(b, k) == k
Symmetry == Permutations({N1, N2}) \cup Permutations({O1, O2})
=============================================================================
