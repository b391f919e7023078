----------------------------- MODULE MCMultisig -----------------------------
(* Four seats, the last one the custody; 5 may be given a seat.              *)
EXTENDS MultisigUpgrade

MCReps == [a \in {1, 2, 5} |-> IF a = 1 THEN 1 ELSE 2]
MCSocieties == {[reps |-> MCReps, floor |-> 1, halted |-> h] : h \in BOOLEAN}
=============================================================================
