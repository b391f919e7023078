------------------------------ MODULE MCEra -----------------------------
(* Two masks: A with its hot key K, B with its hot key L.  A bound key     *)
(* votes for its owner, a released one for nobody.                         *)
EXTENDS Era, Runtime

CONSTANTS A, B, K, L

MCPrecedes(a, b) == a = A /\ b = B
MCGenesisKeys == [a \in Accounts |-> IF a = A THEN K ELSE L]
Vote(key, height) == [signer |-> key, height |-> height, valid |-> TRUE]
Forged(key, height) == [signer |-> key, height |-> height, valid |-> FALSE]
MCBallots == {<< >>,
              <<Vote(K, 1), Vote(K, 1), Vote(L, 2), Vote(L, 1), Vote(K, 2)>>,
              <<Forged(L, 1), Vote(L, 1), Vote(K, 5)>>,
              <<Vote(K, 3), Vote(A, 3), Vote(K, 2)>>}
(* One author has every justification, one misses the second and was sent a *)
(* third that is padded: with votes of a member as long as B has L bound,   *)
(* with those of a stranger once it is released.                            *)
MCStores ==
  LET full == [h \in Periods |-> IF h = 1 THEN <<Vote(L, 1)>>
                                 ELSE IF h < 5 THEN <<Vote(K, h), Vote(L, h)>> ELSE None]
  IN  {full, [full EXCEPT ![2] = None,
         ![3] = <<Vote(K, 3), Forged(L, 3), Forged(L, 3), Forged(L, 3), Vote(B, 3)>>]}
(* Only A sits in the fourth committee, nobody in the sixth: a halt. *)
MCElected == [e \in Periods |-> IF e = 4 THEN {A} ELSE IF e = 6 THEN {} ELSE {A, B}]
=============================================================================
