-------------------------- MODULE SnowballNode --------------------------
(***************************************************************************)
(* snowball.rs: the binary voting core.  One node decides between colours  *)
(* 0 and 1 from the responses of each round it observes.                   *)
(***************************************************************************)
EXTENDS Snowball

CONSTANTS
  Beta,       \* confirmations needed to decide
  Sizes       \* committee sizes a round may have

Undecided == -1

VARIABLES
  pref,       \* preferred colour
  streak,     \* consecutive rounds on pref
  decision    \* Undecided, or the colour decided

vars == <<pref, streak, decision>>

Init == pref \in {0, 1} /\ streak = 0 /\ decision = Undecided

Confirm(colour, quorum) ==
  /\ pref' = colour
  /\ streak' = IF colour = pref THEN streak + 1 ELSE 1
  /\ decision' = IF streak' >= Beta /\ quorum THEN colour ELSE Undecided

(* SnowballNode::observe_round on a sample of zeros and ones. *)
ObserveRoundBinary(zeros, ones, alpha, quorum) ==
  LET colour == IF ones >= zeros THEN 1 ELSE 0
      count  == IF ones >= zeros THEN ones ELSE zeros
  IN  /\ decision = Undecided
      /\ IF count >= alpha
         THEN Confirm(colour, quorum)
         ELSE streak' = 0 /\ UNCHANGED <<pref, decision>>

Next ==
  \E k \in Sizes, quorum \in BOOLEAN :
    \E zeros, ones \in 0..k :
      zeros + ones =< k /\ ObserveRoundBinary(zeros, ones, Alpha(k), quorum)

Spec == Init /\ [][Next]_vars
=============================================================================
