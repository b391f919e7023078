---------------------------- MODULE MCTokens ----------------------------
(* A founder F, a citizen A who holds coin and a mask B without a record.  *)
EXTENDS Tokens

CONSTANTS F, A, B

Holding(h, s) == [hlq |-> h, sov |-> s]
MCGenesis == [a \in Accounts |-> IF a = A THEN Holding(2, 0) ELSE Zero]
MCHlqCurve == [initial |-> 4, decay_num |-> 1, decay_den |-> 2, era_length |-> 1, cap |-> 7]
MCSovCurve == [initial |-> 2, decay_num |-> 1, decay_den |-> 1, era_length |-> 1, cap |-> 3]
Serves(w, weight, streak) == [who |-> w, weight |-> weight, streak |-> streak]
Hosts(w, days) == [who |-> w, days |-> days]
MCServices == {<< >>, <<Serves(F, 1, 2), Serves(B, 5, 1), Serves(A, 0, 0)>>}
MCHostings == {<< >>, <<Hosts(F, 1), Hosts(B, 3)>>}
=============================================================================
