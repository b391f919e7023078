---------------------------- MODULE Snowball ----------------------------
(***************************************************************************)
(* The pure voting rules of consensus-core: the hash-valued round of       *)
(* finality.rs, the binary round of snowball.rs and the two thresholds the *)
(* node derives from the size of the committee.                            *)
(*                                                                         *)
(* A block hash is a positive number: only equality and the total order    *)
(* that breaks ties are used.  NoHash stands for the all-zero hash and for *)
(* Option::None; a vote is never cast for it.  Votes reach a round as a    *)
(* tally, the number of votes received for each hash.                      *)
(***************************************************************************)
EXTENDS Integers, FiniteSets

NoHash == 0

(* alpha: ceil(0.70 k), at least a strict majority of k.  The mutant loses *)
(* the rounding up and the floor.                                          *)
AlphaHalf(k) == k \div 2
Alpha(k) ==
  LET seventy == ((k * 7) + 9) \div 10
  IN  IF seventy >= (k \div 2) + 1 THEN seventy ELSE (k \div 2) + 1

(* The 60% guard, over the votes held for a committee of k. *)
ReachesQuorum(held, k) == held * 10 >= k * 6

-----------------------------------------------------------------------------
(* The hash with the most votes, ties going to the larger one, if it has   *)
(* alpha votes: a set of at most one hash.                                 *)
Leading(tally, alpha) ==
  {h \in DOMAIN tally :
     /\ tally[h] >= alpha
     /\ \A g \in DOMAIN tally : tally[g] < tally[h] \/ (tally[g] = tally[h] /\ g =< h)}

NewRound(initial) == [pref |-> initial, streak |-> 0, decision |-> NoHash]

Reinforce(r, h, beta, quorum) ==
  LET streak == IF h = r.pref THEN r.streak + 1 ELSE 1
  IN  [pref     |-> h,
       streak   |-> streak,
       decision |-> IF streak >= beta /\ quorum THEN h ELSE NoHash]

(* Mutants of ObserveRound: a round without alpha votes leaves the streak  *)
(* alone; a new leading hash inherits the streak of the old one.           *)
ObserveKeepingStreak(r, tally, alpha, beta, quorum) ==
  IF r.decision # NoHash \/ Leading(tally, alpha) = {} THEN r
  ELSE Reinforce(r, CHOOSE h \in Leading(tally, alpha) : TRUE, beta, quorum)
ObserveInheritingStreak(r, tally, alpha, beta, quorum) ==
  LET h == CHOOSE x \in Leading(tally, alpha) : TRUE
  IN  IF r.decision # NoHash THEN r
      ELSE IF Leading(tally, alpha) = {} THEN [r EXCEPT !.streak = 0]
      ELSE Reinforce([r EXCEPT !.pref = h], h, beta, quorum)

(* FinalityRound::observe_round.  A decided round is frozen. *)
ObserveRound(r, tally, alpha, beta, quorum) ==
  IF r.decision # NoHash THEN r
  ELSE IF Leading(tally, alpha) = {} THEN [r EXCEPT !.streak = 0]
  ELSE Reinforce(r, CHOOSE h \in Leading(tally, alpha) : TRUE, beta, quorum)
=============================================================================
