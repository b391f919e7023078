--------------------------- MODULE TokensCore ---------------------------
(***************************************************************************)
(* tokens-core: the pure rules of the two coins.  An emission curve is a   *)
(* record [initial, decay_num, decay_den, era_length, cap]; weights and    *)
(* shares are functions of the place in the list of those who are paid,    *)
(* whose entries without weight are skipped.                               *)
(***************************************************************************)
EXTENDS Integers, FiniteSets, FiniteSetsExt

BasisPoints == 10000
MinOf(x, y) == IF x < y THEN x ELSE y

(* burn_amount: floor(fee * bps / 10000), bps clamped, without the product *)
(* that could overflow.                                                    *)
BurnAmount(fee, bps) ==
  LET b == MinOf(bps, BasisPoints)
  IN  (fee \div BasisPoints) * b + ((fee % BasisPoints) * b) \div BasisPoints

(* The tranche of an epoch before the cap: floored at every decay.         *)
ScheduledReward(curve, epoch) ==
  LET reward[e \in Nat] == IF e = 0 THEN curve.initial
                           ELSE (reward[e - 1] * curve.decay_num) \div curve.decay_den
  IN  IF curve.era_length = 0 \/ curve.decay_num >= curve.decay_den THEN curve.initial
      ELSE IF curve.decay_num = 0 \/ curve.decay_den = 0 THEN 0
      ELSE reward[epoch \div curve.era_length]

MintAmount(curve, epoch, minted) ==
  LET room == IF minted < curve.cap THEN curve.cap - minted ELSE 0
  IN  MinOf(ScheduledReward(curve, epoch), room)

Total(amounts) == MapThenSumSet(LAMBDA i : amounts[i], DOMAIN amounts)
FirstLargest(weights) ==
  CHOOSE i \in DOMAIN weights :
    \A j \in DOMAIN weights : weights[j] < weights[i] \/ (weights[j] = weights[i] /\ i =< j)

(* split_service_reward: in proportion, rounded down, what is left going   *)
(* to the first of the largest weights.                                    *)
SplitServiceReward(pool, weights) ==
  LET total  == Total(weights)
      shares == [i \in DOMAIN weights |-> (pool * weights[i]) \div total]
  IN  IF total = 0 \/ pool = 0 THEN [i \in DOMAIN weights |-> 0]
      ELSE [shares EXCEPT ![FirstLargest(weights)] = @ + (pool - Total(shares))]

(* The lower median is the largest weight that has less than half of the   *)
(* others below it.                                                        *)
Median(weights) ==
  LET below(w) == {i \in DOMAIN weights : weights[i] < w}
  IN  Max({w \in {weights[i] : i \in DOMAIN weights} :
             Cardinality(below(w)) =< (Cardinality(DOMAIN weights) - 1) \div 2})
(* cap_weights: no weight above k times the lower median. *)
CapWeights(weights, k) == [i \in DOMAIN weights |-> MinOf(weights[i], Median(weights) * k)]
=============================================================================
