-------------------------- MODULE FinalityRound --------------------------
(***************************************************************************)
(* consensus-core/finality.rs: one FinalityRound, fed a tally each tick.   *)
(* The committee, hence alpha, may change between two rounds, and the      *)
(* caller passes the 60% guard.  With two hashes the round implements the  *)
(* binary core, the larger hash playing colour 1.                          *)
(***************************************************************************)
EXTENDS Snowball, Sequences

CONSTANTS
  Hashes,     \* hashes voted for
  Beta,       \* confirmations needed to decide
  Sizes,      \* committee sizes a round may have
  MaxStreak   \* bound: longest streak explored while the quorum guard fails

ASSUME HashesAssumption == Hashes \subseteq Nat \ {NoHash} /\ IsFiniteSet(Hashes)
ASSUME BetaAssumption == Beta \in Nat \ {0}
ASSUME SizesAssumption == Sizes \subseteq Nat \ {0}

VARIABLES
  round,      \* FinalityRound
  led         \* history: the hash that led each of the last Beta rounds
              \* with alpha votes, NoHash when none did

vars == <<round, led>>

(* Hashes with no vote are not in the tally, as in the BTreeMap of leading. *)
Tallies(k) ==
  {[h \in S |-> count[h]] : S \in SUBSET Hashes, count \in [Hashes -> 1..k]}

Received(tally) ==
  LET total[S \in SUBSET DOMAIN tally] ==
        IF S = {} THEN 0
        ELSE LET h == CHOOSE x \in S : TRUE IN tally[h] + total[S \ {h}]
  IN  total[DOMAIN tally]

Remember(h) == LET s == Append(led, h) IN IF Len(s) > Beta THEN Tail(s) ELSE s

(* One call of observe_round; only an undecided round is looked at again,  *)
(* since a decided one is frozen and the call returns None.                *)
Observe(tally, k, quorum) ==
  /\ round' = ObserveRound(round, tally, Alpha(k), Beta, quorum)
  /\ led' = IF round.decision # NoHash THEN led
            ELSE Remember(IF \E h \in DOMAIN tally : tally[h] >= Alpha(k)
                          THEN CHOOSE h \in DOMAIN tally : tally[h] >= Alpha(k)
                          ELSE NoHash)

Init == round \in {NewRound(h) : h \in Hashes} /\ led = << >>

Next ==
  \E k \in Sizes, quorum \in BOOLEAN :
    \E tally \in Tallies(k) :
      Received(tally) =< k /\ Observe(tally, k, quorum) /\ round'.streak =< MaxStreak

Spec == Init /\ [][Next]_vars

-----------------------------------------------------------------------------
TypeOK ==
  /\ round \in [pref : Hashes, streak : Nat, decision : Hashes \cup {NoHash}]
  /\ led \in Seq(Hashes \cup {NoHash}) /\ Len(led) =< Beta

(* A hash is decided only when each of the last Beta rounds gave it alpha  *)
(* of the votes: no gap and no change of colour in between, whatever the   *)
(* committee size and the quorum guard were in those rounds.  A decision,  *)
(* once taken, stays.                                                      *)
DecidesOnUnbrokenStreak ==
  [][/\ round.decision # NoHash => round' = round
     /\ round'.decision # round.decision =>
          Len(led') = Beta /\ \A i \in 1..Beta : led'[i] = round'.decision]_vars

(* On two hashes the round makes exactly the steps of SnowballNode.        *)
Colour(h, none) ==
  IF h = NoHash THEN none ELSE IF \E g \in Hashes : g > h THEN 0 ELSE 1
Binary == INSTANCE SnowballNode WITH
            pref     <- Colour(round.pref, 0),
            streak   <- round.streak,
            decision <- Colour(round.decision, -1)
ImplementsSnowballNode == Binary!Spec
=============================================================================
