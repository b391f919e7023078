------------------------------ MODULE MCCourt ------------------------------
(* Mask 1 files against mask 2; 3 and 4 may sit; 5 vouched for 2 long ago.   *)
EXTENDS Court

MCGrants == [i \in 1..20 |-> <<((i - 1) \div 4) + 1, SuitAll[((i - 1) % 4) + 1], 16>>]
MCSettled == <<<<>>, <<>>, <<>>, <<>>, <<[target |-> 2, suit |-> "technical", weight |-> 1]>>>>
MCService == [e \in 0..MaxBlock |-> [m \in Masks |-> 0]]
MCOrder == <<2, 4, 3, 5, 1>>
MCTies == {<<1, 3>>, <<3, 2>>, <<5, 2>>}
=============================================================================
