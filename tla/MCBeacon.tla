---------------------------- MODULE MCBeacon ----------------------------
(* Secret 3 is too long: a commitment to it is never opened. *)
EXTENDS Beacon, TLC

CONSTANTS P, Q

MCH == [s \in Secrets |-> 10 + s]
Symmetry == Permutations(Accounts)

(* A round held by one party, commitments and secrets together, draws with   *)
(* the key of each secret that opens its commitment and of no other, and     *)
(* weighs nobody else.  Its seed is the pipeline's when all of them open,    *)
(* and only then: a secret that opens nothing is folded in by this path and  *)
(* refused by the pipeline.                                                  *)
Reveals == [commitment : Digests, secret : Secrets]
Rounds == UNION {[nodes -> Reveals] : nodes \in SUBSET Accounts}
Reputation == [a \in Accounts |-> 1]
Opened(round) == {a \in DOMAIN round : round[a].commitment = H[round[a].secret]}
PipelineSeed(round, prev) ==
  LET openers == SetToSeq(Opened(round))
  IN  State!BeaconSeed(prev, [i \in DOMAIN openers |-> round[openers[i]].secret])

ASSUME CommittedDrawIsPipelined ==
  \A round \in Rounds, prev \in {<< >>, <<1>>} :
    LET draw == State!CommittedDraw(Reputation, round, prev)
    IN  /\ DOMAIN draw.keys = Opened(round)
        /\ DOMAIN draw.reputation = Opened(round)
        /\ \A a \in Opened(round) : draw.keys[a] = round[a].commitment
        /\ draw.seed = PipelineSeed(round, prev) <=> Opened(round) = DOMAIN round

(* The order of the fold is that of slice::sort.                             *)
ASSUME SortedAscends ==
  \A contributions \in UNION {[1..n -> Secrets] : n \in 0..3} :
    State!Sorted(contributions) = SortSeq(contributions, LAMBDA s, t : s < t)
=============================================================================
