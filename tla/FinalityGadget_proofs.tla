--------------------- MODULE FinalityGadget_proofs ---------------------
(***************************************************************************)
(* Theorems about the finality gadget, for any block tree, any number of   *)
(* nodes and members, any committee sizes and any values of the constants. *)
(***************************************************************************)
EXTENDS FinalitySync, Sums, FiniteSetTheorems, TLAPS

-----------------------------------------------------------------------------
(* The thresholds. *)

(* alpha is a strict majority: 2 alpha > k. *)
LEMMA AlphaIsMajority ==
  ASSUME NEW k \in Nat
  PROVE  Alpha(k) \in Nat /\ Alpha(k) >= 1 /\ 2 * Alpha(k) > k
BY DEF Alpha

(* The 60% guard never refuses a decision: alpha votes for one hash are    *)
(* already 70% of the committee, whatever its size.                        *)
THEOREM QuorumGuardRedundant ==
  ASSUME NEW k \in Nat, NEW held \in Nat, held >= Alpha(k)
  PROVE  ReachesQuorum(held, k)
BY DEF Alpha, ReachesQuorum

(* Two sets of at least alpha members of one committee have a common one.  *)
LEMMA QuorumsIntersect ==
  ASSUME NEW M, IsFiniteSet(M), NEW S \in SUBSET M, NEW T \in SUBSET M,
         Cardinality(S) >= Alpha(Cardinality(M)),
         Cardinality(T) >= Alpha(Cardinality(M))
  PROVE  S \cap T # {}
<1>1. Cardinality(M) \in Nat
  BY FS_CardinalityType
<1>2. 2 * Alpha(Cardinality(M)) > Cardinality(M) /\ Alpha(Cardinality(M)) \in Nat
  BY <1>1, AlphaIsMajority
<1>3. Cardinality(S) \in Nat /\ Cardinality(T) \in Nat
  BY FS_Subset, FS_CardinalityType
<1>4. Cardinality(S) + Cardinality(T) > Cardinality(M)
  BY <1>1, <1>2, <1>3
<1> QED
  BY <1>4, FS_MajoritiesIntersect

-----------------------------------------------------------------------------
(* What the operators return. *)

LEMMA NumType == \A b \in Blocks : Num[b] \in Nat
<1> SUFFICES ASSUME NEW b \in Blocks PROVE Num[b] \in Nat
  OBVIOUS
<1>1. IsFiniteSet(Chain[b]) /\ Chain[b] # {}
  BY ChainAssumption
<1>2. Cardinality(Chain[b]) \in Nat /\ Cardinality(Chain[b]) # 0
  BY <1>1, FS_CardinalityType, FS_EmptySet
<1> QED
  BY <1>2 DEF Num

LEMMA HashAtType ==
  ASSUME NEW tip \in Blocks, NEW h \in Nat
  PROVE  /\ HashAt(tip, h) \in Blocks \cup {NoHash}
         /\ HashAt(tip, h) # NoHash =>
              HashAt(tip, h) \in Blocks /\ Num[HashAt(tip, h)] = h
<1>1. Chain[tip] \subseteq Blocks
  BY ChainAssumption
<1>2. CASE \E b \in Chain[tip] : Num[b] = h
  BY <1>1, <1>2 DEF HashAt
<1>3. CASE ~ \E b \in Chain[tip] : Num[b] = h
  BY <1>3 DEF HashAt
<1> QED
  BY <1>2, <1>3

LEMMA PinnedAtType ==
  ASSUME NEW tip \in Blocks, NEW h \in Nat
  PROVE  PinnedAt(tip, h) \in Blocks
<1>1. EpochOf(h) * EpochLength \in Nat
  BY StepAssumption DEF EpochOf
<1> QED
  BY <1>1, HashAtType DEF PinnedAt

LEMMA AimType ==
  ASSUME NEW tip \in Blocks, NEW h \in Nat
  PROVE  Aim(tip, h) \in Workers
BY PinnedAtType, HashAtType DEF Aim, Workers, Rounds, NoVotes, NewRound

LEMMA RefreshedType ==
  ASSUME TypeOK, NEW n \in Nodes, NEW w \in Workers
  PROVE  /\ Refreshed(n, w) \in Workers
         /\ Refreshed(n, w).height = w.height
         /\ Refreshed(n, w).round = w.round
         /\ Refreshed(n, w).deciding = w.deciding
BY PinnedAtType DEF Refreshed, Workers, TypeOK

LEMMA ObserveRoundType ==
  ASSUME NEW r \in Rounds, NEW tally, DOMAIN tally \subseteq Blocks \cup {NoHash},
         NEW alpha, NEW quorum
  PROVE  ObserveRound(r, tally, alpha, Beta, quorum) \in Rounds
BY StepAssumption DEF ObserveRound, Rounds, Reinforce, Leading

LEMMA RoundAfterType ==
  ASSUME NEW w \in Workers
  PROVE  RoundAfter(w) \in Rounds
<1>1. DOMAIN TallyOf(w) \subseteq Blocks \cup {NoHash}
  BY DEF TallyOf, Holding, Workers, Votes, NoVote
<1>2. w.round \in Rounds
  BY DEF Workers
<1> QED
  BY <1>1, <1>2, ObserveRoundType DEF RoundAfter

LEMMA AimedType ==
  ASSUME TypeOK, NEW n \in Nodes
  PROVE  Aimed(n) \in Workers
<1>1. fin[n] \in Blocks /\ best[n] \in Blocks /\ worker[n] \in Workers
  BY DEF TypeOK
<1>2. Num[fin[n]] + Step \in Nat
  BY <1>1, NumType, StepAssumption
<1> QED
  BY <1>1, <1>2, AimType DEF Aimed

-----------------------------------------------------------------------------
(* Type correctness. *)

LEMMA CountType ==
  ASSUME TypeOK, NEW n \in Nodes, NEW w \in Workers, Count(n, w)
  PROVE  worker' \in [Nodes -> Workers]
<1>1. PICK round \in {RoundAfter(w)} :
        worker' = [worker EXCEPT ![n] =
          [w EXCEPT !.round = round, !.deciding = round.decision # NoHash]]
  BY DEF Count
<1>2. round \in Rounds
  BY RoundAfterType
<1>3. [w EXCEPT !.round = round, !.deciding = round.decision # NoHash] \in Workers
  BY <1>2 DEF Workers
<1> QED
  BY <1>1, <1>3 DEF TypeOK

LEMMA OwnVoteType ==
  ASSUME TypeOK, NEW n \in Nodes, NEW w \in Workers, TargetExists(n, w), KeyOf[n] # NoKey
  PROVE  /\ OwnVote(n, w) \in Votes
         /\ OwnVote(n, w).height = w.height
         /\ Num[OwnVote(n, w).hash] = w.height
         /\ WithOwnVote(n, w) \in Workers
<1>1. best[n] \in Blocks /\ w.height \in Nat
  BY DEF TypeOK, Workers
<1>2. HashAt(best[n], w.height) \in Blocks /\ Num[HashAt(best[n], w.height)] = w.height
  BY <1>1, HashAtType DEF TargetExists
<1>3. KeyOf[n] \in Keys
  BY DEF Keys
<1>4. OwnVote(n, w) \in Votes
  BY <1>1, <1>2, <1>3 DEF OwnVote, Votes
<1>5. WithOwnVote(n, w) \in Workers
  BY <1>4 DEF WithOwnVote, Workers
<1> QED
  BY <1>2, <1>4, <1>5 DEF OwnVote

LEMMA VoteAndCountType ==
  ASSUME TypeOK, NEW n \in Nodes, NEW w \in Workers, TargetExists(n, w), VoteAndCount(n, w)
  PROVE  worker' \in [Nodes -> Workers] /\ sent' \subseteq Votes
<1>1. CASE KeyOf[n] = NoKey
  BY <1>1, CountType DEF VoteAndCount, TypeOK
<1>2. CASE KeyOf[n] # NoKey
  BY <1>2, OwnVoteType, CountType DEF VoteAndCount, TypeOK
<1> QED
  BY <1>1, <1>2

LEMMA FinaliseBlockType ==
  ASSUME TypeOK, NEW n \in Nodes, NEW b \in Blocks, NEW signers \in SUBSET Keys,
         FinaliseBlock(n, b, signers)
  PROVE  /\ known' \in [Nodes -> SUBSET Blocks] /\ best' \in [Nodes -> Blocks]
         /\ fin' \in [Nodes -> Blocks]
         /\ stored' \subseteq [node : Nodes, hash : Blocks, signers : SUBSET Keys]
BY DEF FinaliseBlock, TypeOK

LEMMA FollowFinalityType ==
  ASSUME TypeOK, NEW n \in Nodes, FollowFinality(n)
  PROVE  watermark' \in [Nodes -> Nat]
BY NumType DEF FollowFinality, TypeOK

LEMMA ProofSignersType ==
  ASSUME NEW w \in Workers, w.round.decision # NoHash
  PROVE  ProofSigners(w) \in SUBSET Keys
BY DEF ProofSigners, Workers, Votes, NoVote

LEMMA TypeInit == Init => TypeOK
<1> SUFFICES ASSUME Init PROVE TypeOK
  OBVIOUS
<1>1. Chain[Common] \subseteq Blocks /\ Genesis \in Blocks /\ Common \in Blocks
  BY BlocksAssumption, ChainAssumption
<1>2. Aim(Common, Step) \in Workers
  BY <1>1, StepAssumption, AimType
<1> QED
  BY <1>1, <1>2 DEF Init, TypeOK

LEMMA TypeStep == TypeOK /\ [Next]_vars => TypeOK'
<1> SUFFICES ASSUME TypeOK, [Next]_vars PROVE TypeOK'
  OBVIOUS
<1>1. ASSUME NEW n \in Nodes, TickNoTarget(n) PROVE TypeOK'
  BY <1>1, AimedType, FollowFinalityType DEF TickNoTarget, TickUnchanged, TypeOK
<1>2. ASSUME NEW n \in Nodes, TickSkewed(n) PROVE TypeOK'
  BY <1>2, AimedType, FollowFinalityType DEF TickSkewed, TickUnchanged, TypeOK
<1>3. ASSUME NEW n \in Nodes, TickNoCommittee(n) PROVE TypeOK'
  <2>1. Refreshed(n, Aimed(n)) \in Workers
    BY AimedType, RefreshedType
  <2> QED
    BY <1>3, <2>1, FollowFinalityType DEF TickNoCommittee, TickUnchanged, TypeOK
<1>4. ASSUME NEW n \in Nodes, TickVote(n) PROVE TypeOK'
  <2> DEFINE w == Refreshed(n, Aimed(n))
  <2>1. w \in Workers /\ TargetExists(n, w)
    BY <1>4, AimedType, RefreshedType DEF TickVote, Coherent, TargetExists
  <2>2. VoteAndCount(n, w) /\ FollowFinality(n) /\ TickUnchanged
    BY <1>4 DEF TickVote
  <2> QED
    BY <2>1, <2>2, VoteAndCountType, FollowFinalityType DEF TickUnchanged, TypeOK
<1>5. ASSUME NEW n \in Nodes, TickSkip(n) PROVE TypeOK'
  <2>1. PICK healthy \in FirstHealthyBoundary(best[n], Refreshed(n, Aimed(n)).height) :
          TargetExists(n, Aim(best[n], healthy)) /\ VoteAndCount(n, Aim(best[n], healthy))
    BY <1>5 DEF TickSkip
  <2>2. Refreshed(n, Aimed(n)).height \in Nat /\ best[n] \in Blocks
    BY AimedType, RefreshedType DEF Workers, TypeOK
  <2>3. healthy \in Nat
    BY <2>1, <2>2, NumType DEF FirstHealthyBoundary, HealthyBoundaries
  <2>4. Aim(best[n], healthy) \in Workers
    BY <2>2, <2>3, AimType
  <2> QED
    BY <1>5, <2>1, <2>4, VoteAndCountType, FollowFinalityType
    DEF TickSkip, TickUnchanged, TypeOK
<1>6. ASSUME NEW n \in Nodes, Finalise(n) PROVE TypeOK'
  <2> DEFINE w == worker[n]
             b == w.round.decision
  <2>1. w \in Workers /\ w.height \in Nat /\ b \in Blocks \cup {NoHash}
    BY DEF TypeOK, Workers, Rounds
  <2>2. CASE CanFinalise(n, b)
    <3>1. b \in Blocks /\ b # NoHash
      BY <2>2, BlocksAssumption DEF CanFinalise, TypeOK
    <3>2. FinaliseBlock(n, b, ProofSigners(w))
      BY <1>6, <2>2 DEF Finalise
    <3>3. ProofSigners(w) \in SUBSET Keys
      BY <2>1, <3>1, ProofSignersType
    <3>4. best'[n] \in Blocks /\ Num[b] + Step \in Nat
      BY <3>1, <3>2, <3>3, FinaliseBlockType, NumType, StepAssumption
    <3>5. Aim(best'[n], Num[b] + Step) \in Workers
      BY <3>4, AimType
    <3> QED
      BY <1>6, <2>1, <2>2, <3>1, <3>2, <3>3, <3>5, FinaliseBlockType DEF Finalise, TypeOK
  <2>3. CASE ~CanFinalise(n, b)
    <3>1. [w EXCEPT !.deciding = FALSE] \in Workers
      BY <2>1 DEF Workers
    <3>2. worker' = [worker EXCEPT ![n] = [w EXCEPT !.deciding = FALSE]]
      BY <1>6, <2>3 DEF Finalise
    <3> QED
      BY <1>6, <2>3, <3>1, <3>2 DEF Finalise, TypeOK
  <2> QED
    BY <2>2, <2>3
<1>7. ASSUME NEW n \in Nodes, NEW v \in sent, Receive(n, v) PROVE TypeOK'
  <2> DEFINE a == Owner(worker[n].pin, v.key)
  <2>1. [worker[n] EXCEPT !.votes[a] = v] \in Workers
    BY DEF TypeOK, Workers
  <2>2. worker' = [worker EXCEPT ![n] = [worker[n] EXCEPT !.votes[a] = v]]
    BY <1>7 DEF Receive
  <2> QED
    BY <1>7, <2>1, <2>2 DEF Receive, TypeOK
<1>8. ASSUME NEW n \in Nodes, NEW b \in Blocks, ImportBlock(n, b) PROVE TypeOK'
  BY <1>8 DEF ImportBlock, LongestChain, TypeOK
<1>9. ASSUME NEW n \in Nodes, NEW p \in stored, ImportJustification(n, p) PROVE TypeOK'
  <2>1. p.hash \in Blocks /\ p.signers \in SUBSET Keys
    BY DEF TypeOK
  <2> QED
    BY <1>9, <2>1, FinaliseBlockType DEF ImportJustification, TypeOK
<1>10. ASSUME NEW n \in Nodes, Restart(n) PROVE TypeOK'
  <2>1. best[n] \in Blocks /\ Num[fin[n]] + Step \in Nat /\ Num[fin[n]] \in Nat
    BY NumType, StepAssumption DEF TypeOK
  <2>2. Aim(best[n], Num[fin[n]] + Step) \in Workers
    BY <2>1, AimType
  <2> QED
    BY <1>10, <2>1, <2>2 DEF Restart, TypeOK
<1>11. ASSUME NEW x \in Ballots, OutsideVote(x) PROVE TypeOK'
  <2>1. [height |-> Num[x[2]], hash |-> x[2], key |-> x[1]] \in Votes
    BY BallotsAssumption, NumType DEF Votes, Keys
  <2> QED
    BY <1>11, <2>1 DEF OutsideVote, TypeOK
<1>12. CASE UNCHANGED vars
  BY <1>12 DEF vars, TypeOK
<1> QED
  BY <1>1, <1>2, <1>3, <1>4, <1>5, <1>6, <1>7, <1>8, <1>9, <1>10, <1>11, <1>12
  DEF Next, NodeStep, Tick

(* Every reachable state is well typed: targets and watermarks stay        *)
(* natural numbers, a node's last finalised and best blocks are blocks of  *)
(* the tree, and a worker holds only votes for real blocks.                *)
THEOREM TypeCorrect == Spec => []TypeOK
<1>1. Init => TypeOK
  BY TypeInit
<1>2. TypeOK /\ [Next]_vars => TypeOK'
  BY TypeStep
<1> QED
  BY <1>1, <1>2, PTL DEF Spec

-----------------------------------------------------------------------------
(* Safety.  Two inductive invariants:                                       *)
(*  TargetInv  (no assumption): votes and decisions of a worker belong to   *)
(*             the height it is aiming at; the gossip filter stays behind    *)
(*             the finalised block.                                         *)
(*  QuorumInv  (assuming SameView): everything finalised was signed by      *)
(*             alpha members of one committee.                              *)

(* The votes held and the decision taken are for the target; S is the set  *)
(* of signed votes.                                                        *)
OnTarget(w, S) ==
  /\ \A a \in Accounts : w.votes[a] # NoVote =>
       w.votes[a] \in S /\ w.votes[a].height = w.height
  /\ w.round.decision # NoHash => Num[w.round.decision] = w.height

HeightsHonest(S) == \A v \in S : Num[v.hash] = v.height

TargetInv ==
  /\ TypeOK
  /\ HeightsHonest(sent)
  /\ \A n \in Nodes : OnTarget(worker[n], sent)
  /\ WatermarkBehindFinality

LEMMA NumGrows ==
  ASSUME NEW b \in Blocks, NEW c \in Chain[b]
  PROVE  c \in Blocks /\ Num[c] =< Num[b]
<1>1. c \in Blocks /\ IsFiniteSet(Chain[b]) /\ Chain[c] \subseteq Chain[b]
  BY ChainAssumption
<1>2. Cardinality(Chain[c]) =< Cardinality(Chain[b])
  BY <1>1, FS_Subset
<1>3. Cardinality(Chain[c]) \in Nat /\ Cardinality(Chain[b]) \in Nat
  BY <1>1, FS_Subset, FS_CardinalityType
<1> QED
  BY <1>1, <1>2, <1>3 DEF Num

LEMMA OnTargetGrows ==
  ASSUME NEW w, NEW S, NEW T, S \subseteq T, OnTarget(w, S)
  PROVE  OnTarget(w, T)
BY DEF OnTarget

LEMMA AimOnTarget ==
  ASSUME NEW tip, NEW h, NEW S
  PROVE  OnTarget(Aim(tip, h), S)
BY DEF OnTarget, Aim, NoVotes, NewRound

LEMMA RefreshedOnTarget ==
  ASSUME NEW n, NEW w \in Workers, NEW S, OnTarget(w, S)
  PROVE  OnTarget(Refreshed(n, w), S)
BY DEF OnTarget, Refreshed, Workers

LEMMA AimedOnTarget ==
  ASSUME NEW n \in Nodes, NEW S, OnTarget(worker[n], S)
  PROVE  OnTarget(Aimed(n), S)
BY AimOnTarget DEF Aimed

(* What observe_round decides was voted for by alpha of the members.       *)
LEMMA DecisionHasTally ==
  ASSUME NEW w \in Workers, w.round.decision = NoHash, RoundAfter(w).decision # NoHash
  PROVE  LET d == RoundAfter(w).decision
         IN  /\ d \in {w.votes[a].hash : a \in Holding(w)}
             /\ Cardinality({a \in Accounts : w.votes[a].hash = d})
                  >= Alpha(Cardinality(Members(w)))
<1> DEFINE tally == TallyOf(w)
           alpha == Alpha(Cardinality(Members(w)))
           d     == RoundAfter(w).decision
<1>1. Leading(tally, alpha) # {}
  BY DEF RoundAfter, ObserveRound
<1>2. d = CHOOSE h \in Leading(tally, alpha) : TRUE
  BY <1>1 DEF RoundAfter, ObserveRound, Reinforce
<1>3. d \in Leading(tally, alpha)
  BY <1>1, <1>2
<1>4. d \in DOMAIN tally /\ tally[d] >= alpha
  BY <1>3 DEF Leading
<1> HIDE DEF d, alpha
<1>5. d \in {w.votes[a].hash : a \in Holding(w)}
  BY <1>4 DEF TallyOf
<1>6. tally[d] = Cardinality({a \in Accounts : w.votes[a].hash = d})
  BY <1>5 DEF TallyOf
<1> QED
  BY <1>4, <1>5, <1>6 DEF d, alpha

LEMMA RoundKept ==
  ASSUME NEW w \in Workers, w.round.decision # NoHash
  PROVE  RoundAfter(w) = w.round
BY DEF RoundAfter, ObserveRound

Counted(w, round) == [w EXCEPT !.round = round, !.deciding = round.decision # NoHash]

LEMMA CountOnTarget ==
  ASSUME NEW w \in Workers, NEW S, HeightsHonest(S), OnTarget(w, S)
  PROVE  OnTarget(Counted(w, RoundAfter(w)), S)
<1> DEFINE d == RoundAfter(w).decision
           u == Counted(w, RoundAfter(w))
<1>1. u.votes = w.votes /\ u.height = w.height /\ u.round = RoundAfter(w)
  BY DEF Counted, Workers
<1>2. d # NoHash => Num[d] = w.height
  <2>1. CASE w.round.decision # NoHash
    BY <2>1, RoundKept DEF OnTarget
  <2>2. CASE w.round.decision = NoHash /\ d # NoHash
    <3>1. PICK a \in Holding(w) : w.votes[a].hash = d
      BY <2>2, DecisionHasTally
    <3> QED
      BY <3>1 DEF Holding, OnTarget, HeightsHonest
  <2> QED
    BY <2>1, <2>2
<1> QED
  BY <1>1, <1>2 DEF OnTarget

LEMMA CountStep ==
  ASSUME TypeOK, NEW n \in Nodes, NEW w \in Workers, Count(n, w)
  PROVE  worker' = [worker EXCEPT ![n] = Counted(w, RoundAfter(w))]
BY DEF Count, Counted

LEMMA OwnVoteOnTarget ==
  ASSUME TypeOK, NEW n \in Nodes, NEW w \in Workers, OnTarget(w, sent),
         TargetExists(n, w), KeyOf[n] # NoKey
  PROVE  OnTarget(WithOwnVote(n, w), sent \cup {OwnVote(n, w)})
<1> DEFINE v == OwnVote(n, w)
           a == Owner(w.pin, KeyOf[n])
           u == [w EXCEPT !.votes[a] = v]
<1>1. v.height = w.height
  BY DEF OwnVote
<1>2. OnTarget(w, sent \cup {v})
  BY OnTargetGrows
<1>3. CASE WithOwnVote(n, w) = w
  BY <1>2, <1>3
<1>4. CASE WithOwnVote(n, w) = u
  <2>1. u.height = w.height /\ u.round = w.round
    BY DEF Workers
  <2>2. \A x \in Accounts : u.votes[x] = w.votes[x] \/ u.votes[x] = v
    BY DEF Workers
  <2> HIDE DEF u, v
  <2>3. OnTarget(u, sent \cup {v})
    BY <1>1, <1>2, <2>1, <2>2 DEF OnTarget
  <2> QED
    BY <1>4, <2>3 DEF v
<1> QED
  BY <1>3, <1>4 DEF WithOwnVote

LEMMA OwnVoteHonest ==
  ASSUME TypeOK, NEW n \in Nodes, NEW w \in Workers, HeightsHonest(sent),
         TargetExists(n, w), KeyOf[n] # NoKey
  PROVE  HeightsHonest(sent \cup {OwnVote(n, w)})
BY OwnVoteType DEF HeightsHonest

LEMMA VoteAndCountOnTarget ==
  ASSUME TypeOK, NEW n \in Nodes, NEW w \in Workers, HeightsHonest(sent),
         OnTarget(w, sent), TargetExists(n, w), VoteAndCount(n, w)
  PROVE  /\ HeightsHonest(sent') /\ sent \subseteq sent'
         /\ \E u : worker' = [worker EXCEPT ![n] = u] /\ OnTarget(u, sent')
<1>1. CASE KeyOf[n] = NoKey
  BY <1>1, CountOnTarget, CountStep DEF VoteAndCount
<1>2. CASE KeyOf[n] # NoKey
  <2> DEFINE u == WithOwnVote(n, w)
  <2>1. sent' = sent \cup {OwnVote(n, w)} /\ Count(n, u)
    BY <1>2 DEF VoteAndCount
  <2>2. OnTarget(u, sent') /\ HeightsHonest(sent') /\ u \in Workers
    BY <1>2, <2>1, OwnVoteOnTarget, OwnVoteHonest, OwnVoteType
  <2>3. OnTarget(Counted(u, RoundAfter(u)), sent')
    BY <2>2, CountOnTarget
  <2> QED
    BY <2>1, <2>2, <2>3, CountStep
<1> QED
  BY <1>1, <1>2

LEMMA FollowFinalityBehind ==
  ASSUME TypeOK, NEW n \in Nodes, FollowFinality(n), WatermarkBehindFinality, fin' = fin
  PROVE  /\ WatermarkBehindFinality'
         /\ \A m \in Nodes : watermark[m] =< watermark'[m]
BY NumType DEF FollowFinality, WatermarkBehindFinality, TypeOK

(* One step of one worker keeps every worker on target.                    *)
LEMMA WorkersOnTarget ==
  ASSUME TypeOK, \A m \in Nodes : OnTarget(worker[m], sent), sent \subseteq sent',
         NEW n \in Nodes, NEW u, worker' = [worker EXCEPT ![n] = u], OnTarget(u, sent')
  PROVE  \A m \in Nodes : OnTarget(worker'[m], sent')
<1> SUFFICES ASSUME NEW m \in Nodes PROVE OnTarget(worker'[m], sent')
  OBVIOUS
<1>1. worker'[m] = u \/ worker'[m] = worker[m]
  BY DEF TypeOK
<1>2. OnTarget(worker[m], sent')
  BY OnTargetGrows
<1> QED
  BY <1>1, <1>2

LEMMA FinaliseBlockRaises ==
  ASSUME TypeOK, NEW n \in Nodes, NEW b, NEW signers,
         CanFinalise(n, b), FinaliseBlock(n, b, signers)
  PROVE  /\ b \in Blocks /\ fin' = [fin EXCEPT ![n] = b]
         /\ \A m \in Nodes : Num[fin[m]] =< Num[fin'[m]]
<1>1. b \in Blocks /\ fin[n] \in Chain[b]
  BY DEF CanFinalise, TypeOK
<1>2. Num[fin[n]] =< Num[b]
  BY <1>1, NumGrows
<1> QED
  BY <1>1, <1>2, NumType DEF FinaliseBlock, TypeOK

LEMMA TargetInit == Init => TargetInv
<1> SUFFICES ASSUME Init PROVE TargetInv
  OBVIOUS
<1>1. HeightsHonest(sent)
  BY DEF Init, HeightsHonest
<1>2. \A n \in Nodes : OnTarget(worker[n], sent)
  BY AimOnTarget DEF Init
<1>3. WatermarkBehindFinality
  BY NumType, BlocksAssumption DEF Init, WatermarkBehindFinality
<1> QED
  BY <1>1, <1>2, <1>3, TypeInit DEF TargetInv

(* Every step keeps TargetInv and lowers no watermark.                     *)
LEMMA TargetStep ==
  TargetInv /\ [Next]_vars => TargetInv' /\ \A m \in Nodes : watermark[m] =< watermark'[m]
<1> DEFINE Rises == \A m \in Nodes : watermark[m] =< watermark'[m]
<1> SUFFICES ASSUME TargetInv, [Next]_vars PROVE TargetInv' /\ Rises
  OBVIOUS
<1>t. TypeOK' /\ TypeOK
  BY TypeStep DEF TargetInv
<1>w. watermark \in [Nodes -> Nat] /\ \A m \in Nodes : watermark[m] =< watermark[m]
  BY <1>t DEF TypeOK
<1>h. /\ HeightsHonest(sent) /\ WatermarkBehindFinality
      /\ \A m \in Nodes : OnTarget(worker[m], sent)
  BY DEF TargetInv
<1>a. ASSUME NEW n \in Nodes
      PROVE  Aimed(n) \in Workers /\ OnTarget(Aimed(n), sent)
  BY <1>t, <1>h, AimedType, AimedOnTarget
<1>r. ASSUME NEW n \in Nodes
      PROVE  /\ Refreshed(n, Aimed(n)) \in Workers
             /\ OnTarget(Refreshed(n, Aimed(n)), sent)
  BY <1>t, <1>a, RefreshedType, RefreshedOnTarget
(* A tick that neither signs nor counts. *)
<1>q. ASSUME NEW n \in Nodes, NEW u, OnTarget(u, sent), worker' = [worker EXCEPT ![n] = u],
             sent' = sent, FollowFinality(n), TickUnchanged
      PROVE  TargetInv' /\ Rises
  <2>1. HeightsHonest(sent') /\ \A m \in Nodes : OnTarget(worker'[m], sent')
    BY <1>q, <1>t, <1>h, WorkersOnTarget
  <2>2. WatermarkBehindFinality' /\ Rises
    BY <1>q, <1>t, <1>h, FollowFinalityBehind DEF TickUnchanged
  <2> QED
    BY <1>t, <2>1, <2>2 DEF TargetInv
(* A tick that votes and counts. *)
<1>v. ASSUME NEW n \in Nodes, NEW w \in Workers, OnTarget(w, sent), TargetExists(n, w),
             VoteAndCount(n, w), FollowFinality(n), TickUnchanged
      PROVE  TargetInv' /\ Rises
  <2>1. /\ HeightsHonest(sent') /\ sent \subseteq sent'
        /\ \E u : worker' = [worker EXCEPT ![n] = u] /\ OnTarget(u, sent')
    BY <1>v, <1>t, <1>h, VoteAndCountOnTarget
  <2>2. \A m \in Nodes : OnTarget(worker'[m], sent')
    BY <2>1, <1>t, <1>h, WorkersOnTarget
  <2>3. WatermarkBehindFinality' /\ Rises
    BY <1>v, <1>t, <1>h, FollowFinalityBehind DEF TickUnchanged
  <2> QED
    BY <1>t, <2>1, <2>2, <2>3 DEF TargetInv
<1>1. ASSUME NEW n \in Nodes, TickNoTarget(n) PROVE TargetInv' /\ Rises
  BY <1>1, <1>a, <1>q DEF TickNoTarget
<1>2. ASSUME NEW n \in Nodes, TickSkewed(n) PROVE TargetInv' /\ Rises
  BY <1>2, <1>a, <1>q DEF TickSkewed
<1>3. ASSUME NEW n \in Nodes, TickNoCommittee(n) PROVE TargetInv' /\ Rises
  BY <1>3, <1>r, <1>q DEF TickNoCommittee
<1>4. ASSUME NEW n \in Nodes, TickVote(n) PROVE TargetInv' /\ Rises
  <2>1. TargetExists(n, Refreshed(n, Aimed(n)))
    BY <1>4, <1>a, <1>t, RefreshedType DEF TickVote, Coherent, TargetExists
  <2> QED
    BY <1>4, <1>r, <1>v, <2>1 DEF TickVote
<1>5. ASSUME NEW n \in Nodes, TickSkip(n) PROVE TargetInv' /\ Rises
  <2>1. PICK healthy \in FirstHealthyBoundary(best[n], Refreshed(n, Aimed(n)).height) :
          TargetExists(n, Aim(best[n], healthy)) /\ VoteAndCount(n, Aim(best[n], healthy))
    BY <1>5 DEF TickSkip
  <2>2. Refreshed(n, Aimed(n)).height \in Nat /\ best[n] \in Blocks
    BY <1>t, <1>r DEF Workers, TypeOK
  <2>3. healthy \in Nat
    BY <2>1, <2>2, NumType DEF FirstHealthyBoundary, HealthyBoundaries
  <2>4. Aim(best[n], healthy) \in Workers /\ OnTarget(Aim(best[n], healthy), sent)
    BY <2>2, <2>3, AimType, AimOnTarget
  <2> QED
    BY <1>5, <1>v, <2>1, <2>4 DEF TickSkip
<1>6. ASSUME NEW n \in Nodes, Finalise(n) PROVE TargetInv' /\ Rises
  <2> DEFINE w == worker[n]
             b == w.round.decision
  <2>1. w \in Workers /\ OnTarget(w, sent) /\ sent' = sent
    BY <1>6, <1>t, <1>h DEF Finalise, TypeOK
  <2>2. CASE CanFinalise(n, b)
    <3>1. /\ FinaliseBlock(n, b, ProofSigners(w))
          /\ worker' = [worker EXCEPT ![n] = Aim(best'[n], Num[b] + Step)]
          /\ watermark' = [watermark EXCEPT ![n] = w.height]
      BY <1>6, <2>2 DEF Finalise
    <3>2. /\ b \in Blocks /\ fin' = [fin EXCEPT ![n] = b]
          /\ \A m \in Nodes : Num[fin[m]] =< Num[fin'[m]]
      BY <1>t, <2>2, <3>1, FinaliseBlockRaises
    <3>3. Num[b] = w.height /\ w.height \in Nat
      BY <2>1, <3>2, BlocksAssumption DEF OnTarget, Workers
    <3>4. watermark[n] =< w.height
      <4>1. watermark[n] =< Num[fin[n]] /\ Num[fin[n]] =< Num[b]
        BY <1>t, <1>h, <3>2 DEF WatermarkBehindFinality, TypeOK
      <4>2. watermark[n] \in Nat /\ Num[fin[n]] \in Nat
        BY <1>t, NumType DEF TypeOK
      <4> QED
        BY <3>3, <4>1, <4>2
    <3>5. Rises
      BY <1>w, <3>1, <3>4
    <3>6. WatermarkBehindFinality'
      BY <1>t, <1>h, <3>1, <3>2, <3>3 DEF WatermarkBehindFinality, TypeOK
    <3>7. \A m \in Nodes : OnTarget(worker'[m], sent')
      BY <1>t, <1>h, <2>1, <3>1, AimOnTarget, WorkersOnTarget
    <3> QED
      BY <1>t, <1>h, <2>1, <3>5, <3>6, <3>7 DEF TargetInv
  <2>3. CASE ~CanFinalise(n, b)
    <3> DEFINE u == [w EXCEPT !.deciding = FALSE]
    <3>1. worker' = [worker EXCEPT ![n] = u] /\ UNCHANGED <<fin, watermark>>
      BY <1>6, <2>3 DEF Finalise
    <3>2. u.votes = w.votes /\ u.height = w.height /\ u.round = w.round
      BY <2>1 DEF Workers
    <3>3. OnTarget(u, sent')
      BY <2>1, <3>2 DEF OnTarget
    <3>4. \A m \in Nodes : OnTarget(worker'[m], sent')
      BY <1>t, <1>h, <2>1, <3>1, <3>3, WorkersOnTarget
    <3>5. Rises /\ WatermarkBehindFinality'
      BY <1>w, <1>h, <3>1 DEF WatermarkBehindFinality
    <3> QED
      BY <1>t, <1>h, <2>1, <3>4, <3>5 DEF TargetInv
  <2> QED
    BY <2>2, <2>3
<1>7. ASSUME NEW n \in Nodes, NEW v \in sent, Receive(n, v) PROVE TargetInv' /\ Rises
  <2> DEFINE w == worker[n]
             a == Owner(w.pin, v.key)
             u == [w EXCEPT !.votes[a] = v]
  <2>1. w \in Workers /\ OnTarget(w, sent) /\ v.height = w.height
    BY <1>7, <1>t, <1>h DEF Receive, TypeOK
  <2>2. worker' = [worker EXCEPT ![n] = u] /\ UNCHANGED <<fin, sent, watermark>>
    BY <1>7 DEF Receive
  <2>3. /\ u.height = w.height /\ u.round = w.round
        /\ \A x \in Accounts : u.votes[x] = w.votes[x] \/ u.votes[x] = v
    BY <2>1 DEF Workers
  <2>4. OnTarget(u, sent')
    <3> HIDE DEF u
    <3> QED
      BY <2>1, <2>2, <2>3 DEF OnTarget
  <2>5. \A m \in Nodes : OnTarget(worker'[m], sent')
    BY <1>t, <1>h, <2>2, <2>4, WorkersOnTarget
  <2>6. Rises /\ WatermarkBehindFinality'
    BY <1>w, <1>h, <2>2 DEF WatermarkBehindFinality
  <2> QED
    BY <1>t, <1>h, <2>2, <2>5, <2>6 DEF TargetInv
<1>8. ASSUME NEW n \in Nodes, NEW b \in Blocks, ImportBlock(n, b) PROVE TargetInv' /\ Rises
  BY <1>8, <1>t, <1>h, <1>w DEF ImportBlock, TargetInv, WatermarkBehindFinality
<1>9. ASSUME NEW n \in Nodes, NEW p \in stored, ImportJustification(n, p)
      PROVE  TargetInv' /\ Rises
  <2>1. UNCHANGED <<sent, worker, watermark>>
    BY <1>9 DEF ImportJustification
  <2>2. \A m \in Nodes : Num[fin[m]] =< Num[fin'[m]]
    BY <1>9, <1>t, FinaliseBlockRaises DEF ImportJustification
  <2>3. \A m \in Nodes : watermark[m] \in Nat /\ Num[fin[m]] \in Nat /\ Num[fin'[m]] \in Nat
    BY <1>t, NumType DEF TypeOK
  <2>4. WatermarkBehindFinality'
    BY <1>h, <2>1, <2>2, <2>3 DEF WatermarkBehindFinality
  <2> QED
    BY <1>t, <1>h, <1>w, <2>1, <2>4 DEF TargetInv
<1>10. ASSUME NEW n \in Nodes, Restart(n) PROVE TargetInv' /\ Rises
  <2>1. UNCHANGED <<fin, sent>> /\ watermark' = [watermark EXCEPT ![n] = Num[fin[n]]]
    BY <1>10 DEF Restart
  <2>2. Rises /\ WatermarkBehindFinality'
    BY <1>t, <1>h, <1>w, <2>1, NumType DEF WatermarkBehindFinality, TypeOK
  <2>3. \A m \in Nodes : OnTarget(worker'[m], sent')
    BY <1>10, <1>t, <1>h, AimOnTarget, WorkersOnTarget DEF Restart
  <2> QED
    BY <1>t, <1>h, <2>1, <2>2, <2>3 DEF TargetInv
<1>11. ASSUME NEW x \in Ballots, OutsideVote(x) PROVE TargetInv' /\ Rises
  <2>1. HeightsHonest(sent')
    BY <1>11, <1>h DEF OutsideVote, HeightsHonest
  <2>2. \A m \in Nodes : OnTarget(worker'[m], sent')
    BY <1>11, <1>h, OnTargetGrows DEF OutsideVote
  <2> QED
    BY <1>11, <1>t, <1>h, <1>w, <2>1, <2>2
    DEF OutsideVote, TargetInv, WatermarkBehindFinality
<1>12. CASE UNCHANGED vars
  BY <1>12, <1>t, <1>h, <1>w DEF vars, TargetInv, WatermarkBehindFinality
<1> QED
  BY <1>1, <1>2, <1>3, <1>4, <1>5, <1>6, <1>7, <1>8, <1>9, <1>10, <1>11, <1>12
  DEF Next, NodeStep, Tick

(* The gossip filter never outruns finality: follow_local_finality, the    *)
(* store after a decision and the value read at start all keep it at or    *)
(* below the finalised block of the node.                                  *)
THEOREM FilterBehindFinality == Spec => []WatermarkBehindFinality
<1>1. TargetInv => WatermarkBehindFinality
  BY DEF TargetInv
<1>2. TargetInv /\ [Next]_vars => TargetInv'
  BY TargetStep
<1> QED
  BY <1>1, <1>2, TargetInit, PTL DEF Spec

(* The filter is never lowered, across restarts as well.                   *)
THEOREM FilterMonotone == Spec => WatermarkMonotone
<1>1. TargetInv /\ [Next]_vars => TargetInv'
  BY TargetStep
<1>2. TargetInv /\ [Next]_vars => [\A n \in Nodes : watermark[n] =< watermark'[n]]_vars
  BY TargetStep
<1> QED
  BY <1>1, <1>2, TargetInit, PTL DEF Spec, WatermarkMonotone

-----------------------------------------------------------------------------
(* The chain of a block holds exactly one block of every height up to its  *)
(* own, so that what the client answers for a height does not change while *)
(* the best chain only grows.                                              *)

LEMMA HeightsDistinct ==
  ASSUME NEW tip \in Blocks, NEW b \in Chain[tip], NEW c \in Chain[tip], Num[b] = Num[c]
  PROVE  b = c
<1>1. /\ b \in Blocks /\ c \in Blocks
      /\ IsFiniteSet(Chain[b]) /\ IsFiniteSet(Chain[c]) /\ b \in Chain[b] /\ c \in Chain[c]
  BY ChainAssumption
<1>2. Cardinality(Chain[b]) = Cardinality(Chain[c])
  BY <1>1, FS_CardinalityType DEF Num
<1>3. ASSUME NEW x \in Blocks, NEW y \in Chain[x],
             IsFiniteSet(Chain[x]), Cardinality(Chain[x]) = Cardinality(Chain[y]),
             x \in Chain[x]
      PROVE  x = y
  <2>1. Chain[y] \subseteq Chain[x] /\ (x \in Chain[y] => x = y)
    BY ChainAssumption
  <2>2. Chain[y] = Chain[x]
    BY <1>3, <2>1, FS_Subset
  <2> QED
    BY <1>3, <2>1, <2>2
<1>4. b \in Chain[c] \/ c \in Chain[b]
  BY ChainAssumption
<1> QED
  BY <1>1, <1>2, <1>3, <1>4

LEMMA EveryHeightPresent ==
  ASSUME NEW tip \in Blocks, NEW h \in 0..Num[tip]
  PROVE  \E b \in Chain[tip] : Num[b] = h
<1> DEFINE C == Chain[tip]
           f == [b \in C |-> Num[b]]
<1>1. IsFiniteSet(C) /\ C \subseteq Blocks /\ Num[tip] \in Nat
  BY ChainAssumption, NumType
<1>2. f \in [C -> 0..Num[tip]]
  BY <1>1, NumGrows, NumType
<1>3. f \in Injection(C, 0..Num[tip])
  BY <1>2, HeightsDistinct DEF Injection, IsInjective
<1>4. /\ IsFiniteSet(0..Num[tip])
      /\ Cardinality(0..Num[tip]) = Num[tip] + 1
  <2>1. ASSUME NEW m \in Nat
        PROVE  IsFiniteSet(0..m) /\ Cardinality(0..m) = m + 1
    <3>1. /\ IsFiniteSet(0..m)
          /\ Cardinality(0..m) = IF 0 > m THEN 0 ELSE m - 0 + 1
      BY FS_Interval
    <3>2. (IF 0 > m THEN 0 ELSE m - 0 + 1) = m + 1
      OBVIOUS
    <3> QED
      BY <3>1, <3>2
  <2> QED
    BY <1>1, <2>1
<1>5. Cardinality(C) = Num[tip] + 1
  BY <1>1, FS_CardinalityType DEF Num
<1> HIDE DEF f, C
<1>6. f \in Surjection(C, 0..Num[tip])
  BY <1>3, <1>4, <1>5, FS_Injection
<1>7. PICK b \in C : f[b] = h
  BY <1>6 DEF Surjection
<1> QED
  BY <1>7 DEF f, C

LEMMA HashAtKnown ==
  ASSUME NEW tip \in Blocks, NEW b \in Chain[tip]
  PROVE  HashAt(tip, Num[b]) = b
<1>1. \E c \in Chain[tip] : Num[c] = Num[b]
  OBVIOUS
<1>2. HashAt(tip, Num[b]) \in Chain[tip] /\ Num[HashAt(tip, Num[b])] = Num[b]
  BY <1>1 DEF HashAt
<1> QED
  BY <1>2, HeightsDistinct

LEMMA HashAtExists ==
  ASSUME NEW tip \in Blocks, NEW h \in Nat
  PROVE  HashAt(tip, h) # NoHash <=> h =< Num[tip]
<1>1. ASSUME h =< Num[tip] PROVE HashAt(tip, h) # NoHash
  <2>1. PICK b \in Chain[tip] : Num[b] = h
    BY <1>1, NumType, EveryHeightPresent
  <2>2. b \in Blocks /\ HashAt(tip, h) = b
    BY <2>1, NumGrows, HashAtKnown
  <2> QED
    BY <2>2, BlocksAssumption
<1>2. ASSUME HashAt(tip, h) # NoHash PROVE h =< Num[tip]
  <2>1. PICK b \in Chain[tip] : Num[b] = h
    BY <1>2 DEF HashAt
  <2> QED
    BY <2>1, NumGrows
<1> QED
  BY <1>1, <1>2

LEMMA HashAtStable ==
  ASSUME NEW tip \in Blocks, NEW old \in Chain[tip], NEW h \in Nat, HashAt(old, h) # NoHash
  PROVE  HashAt(tip, h) = HashAt(old, h)
<1>1. PICK b \in Chain[old] : Num[b] = h /\ HashAt(old, h) = b
  BY HashAtKnown DEF HashAt
<1>2. b \in Chain[tip]
  BY ChainAssumption
<1> QED
  BY <1>1, <1>2, HashAtKnown

LEMMA EpochStartsBelow ==
  ASSUME NEW h \in Nat
  PROVE  EpochOf(h) * EpochLength \in Nat /\ EpochOf(h) * EpochLength =< h
BY StepAssumption, SMTT(30) DEF EpochOf

(* Once a target height is on the chain, so is the first block of its      *)
(* epoch: the committee is read at that block, and at no other as long as  *)
(* the chain only grows.                                                   *)
LEMMA PinnedAtStable ==
  ASSUME NEW tip \in Blocks, NEW old \in Chain[tip], NEW h \in Nat, HashAt(old, h) # NoHash
  PROVE  PinnedAt(tip, h) = PinnedAt(old, h)
<1> DEFINE start == EpochOf(h) * EpochLength
<1>1. start \in Nat /\ start =< h /\ old \in Blocks /\ Num[old] \in Nat
  BY EpochStartsBelow, NumGrows, NumType
<1>2. HashAt(old, start) # NoHash
  BY <1>1, HashAtExists
<1>3. HashAt(tip, start) = HashAt(old, start)
  BY <1>1, <1>2, HashAtStable
<1> QED
  BY <1>2, <1>3 DEF PinnedAt

LEMMA RefreshedPruned ==
  ASSUME TypeOK, NEW n \in Nodes, NEW w \in Workers
  PROVE  /\ Refreshed(n, w).pin = PinnedAt(best[n], Refreshed(n, w).height)
         /\ Holding(Refreshed(n, w)) \subseteq Members(Refreshed(n, w))
<1> DEFINE at == PinnedAt(best[n], w.height)
           members == CommitteeAt(w.height, at)
           votes == [a \in Accounts |-> IF a \in members THEN w.votes[a] ELSE NoVote]
           r == Refreshed(n, w)
<1>1. r.pin = at /\ r.height = w.height /\ r.votes = votes
  BY DEF Refreshed, Workers
<1>2. \A a \in Accounts : votes[a] # NoVote => a \in members
  OBVIOUS
<1> HIDE DEF r, votes
<1>3. Holding(r) \subseteq Members(r)
  BY <1>1, <1>2 DEF Holding, Members
<1> QED
  BY <1>1, <1>3 DEF r

LEMMA AimCounted ==
  ASSUME NEW tip, NEW h
  PROVE  /\ Aim(tip, h).pin = PinnedAt(tip, Aim(tip, h).height)
         /\ Holding(Aim(tip, h)) = {}
         /\ ~Aim(tip, h).deciding
BY DEF Aim, Holding, NoVotes

LEMMA OwnVoteCounted ==
  ASSUME TypeOK, NEW n \in Nodes, NEW w \in Workers, Holding(w) \subseteq Members(w)
  PROVE  /\ WithOwnVote(n, w).pin = w.pin /\ WithOwnVote(n, w).height = w.height
         /\ Holding(WithOwnVote(n, w)) \subseteq Members(w)
<1> DEFINE a == Owner(w.pin, KeyOf[n])
           v == OwnVote(n, w)
           u == [w EXCEPT !.votes[a] = v]
<1>1. CASE a \notin Members(w)
  BY <1>1 DEF WithOwnVote
<1>2. CASE a \in Members(w)
  <2>1. WithOwnVote(n, w) = u
    BY <1>2 DEF WithOwnVote
  <2>2. u.pin = w.pin /\ u.height = w.height
    BY DEF Workers
  <2>3. \A x \in Accounts : x = a \/ u.votes[x] = w.votes[x]
    BY DEF Workers
  <2> HIDE DEF u, a
  <2>4. Holding(u) \subseteq Members(w)
    BY <1>2, <2>3 DEF Holding
  <2> QED
    BY <2>1, <2>2, <2>4
<1> QED
  BY <1>1, <1>2

-----------------------------------------------------------------------------
(* Where two forks both reach an epoch, their first blocks of it elect the *)
(* same committee, and a session key votes for one account.  The code      *)
(* reads a committee at the first block of its epoch, which two forks may  *)
(* not share: the hypothesis is what it relies on.  Of the other blocks    *)
(* nothing is assumed: a node that reads the committee early, at its best  *)
(* block, may read another one and hold votes of it.                       *)
EpochStart(h) == EpochOf(h) * EpochLength
SameView ==
  /\ \A h \in Nat : \A b, c \in Blocks :
       Num[b] = EpochStart(h) /\ Num[c] = EpochStart(h) => CommitteeAt(h, b) = CommitteeAt(h, c)
  /\ \A b, c \in Blocks : \A k \in Keys : Owner(b, k) = Owner(c, k)

(* The committee that secures a height, empty where no block begins the    *)
(* epoch.                                                                  *)
SecuredBy(h) == UNION {CommitteeAt(h, b) : b \in {c \in Blocks : Num[c] = EpochStart(h)}}

(* alpha members of the committee of its height signed for the block.      *)
Supported(b, S) ==
  \E Q \in SUBSET SecuredBy(Num[b]) :
    /\ Cardinality(Q) >= Alpha(Cardinality(SecuredBy(Num[b])))
    /\ \A a \in Q : \E v \in S : v.hash = b /\ Owner(Genesis, v.key) = a

Backed(w, S) ==
  /\ \A a \in Accounts : w.votes[a] # NoVote => Owner(Genesis, w.votes[a].key) = a
  /\ w.round.decision # NoHash => Supported(w.round.decision, S)

QuorumInv ==
  /\ TargetInv
  /\ \A n \in Nodes : Backed(worker[n], sent)
  /\ \A p \in stored : Supported(p.hash, sent)

LEMMA SupportedGrows ==
  ASSUME NEW b, NEW S, NEW T, S \subseteq T, Supported(b, S)
  PROVE  Supported(b, T)
BY DEF Supported

LEMMA BackedGrows ==
  ASSUME NEW w, NEW S, NEW T, S \subseteq T, Backed(w, S)
  PROVE  Backed(w, T)
BY SupportedGrows DEF Backed

LEMMA AimBacked ==
  ASSUME NEW tip, NEW h, NEW S
  PROVE  Backed(Aim(tip, h), S)
BY DEF Backed, Aim, NoVotes, NewRound

LEMMA RefreshedBacked ==
  ASSUME NEW n, NEW w \in Workers, NEW S, Backed(w, S)
  PROVE  Backed(Refreshed(n, w), S)
BY DEF Backed, Refreshed, Workers

LEMMA AimedBacked ==
  ASSUME NEW n \in Nodes, NEW S, Backed(worker[n], S)
  PROVE  Backed(Aimed(n), S)
BY AimBacked DEF Aimed

LEMMA SameCommittee ==
  ASSUME SameView, NEW at \in Blocks, NEW h \in Nat, Num[at] = EpochStart(h)
  PROVE  CommitteeAt(h, at) = SecuredBy(h)
<1>1. \A b \in {c \in Blocks : Num[c] = EpochStart(h)} : CommitteeAt(h, b) = CommitteeAt(h, at)
  BY DEF SameView
<1>2. at \in {c \in Blocks : Num[c] = EpochStart(h)}
  OBVIOUS
<1> HIDE DEF CommitteeAt
<1> QED
  BY <1>1, <1>2 DEF SecuredBy

(* What a tick counts are votes of members, and the members are those of   *)
(* the first block of the epoch: it counts for no height its chain lacks.  *)
Settled(w) == Num[w.pin] = EpochStart(w.height) /\ Holding(w) \subseteq Members(w)

LEMMA PinnedAtStart ==
  ASSUME NEW tip \in Blocks, NEW h \in Nat, HashAt(tip, h) # NoHash
  PROVE  Num[PinnedAt(tip, h)] = EpochStart(h)
<1> DEFINE start == EpochOf(h) * EpochLength
<1>1. start \in Nat /\ start =< h /\ Num[tip] \in Nat /\ h =< Num[tip]
  BY EpochStartsBelow, NumType, HashAtExists
<1>2. HashAt(tip, start) # NoHash
  BY <1>1, HashAtExists
<1>3. Num[HashAt(tip, start)] = start
  BY <1>1, <1>2, HashAtType
<1> QED
  BY <1>2, <1>3 DEF PinnedAt, EpochStart

LEMMA RefreshedSettled ==
  ASSUME TypeOK, NEW n \in Nodes, NEW w \in Workers, TargetExists(n, w)
  PROVE  Settled(Refreshed(n, w))
<1>1. /\ Refreshed(n, w).pin = PinnedAt(best[n], w.height) /\ Refreshed(n, w).height = w.height
      /\ Holding(Refreshed(n, w)) \subseteq Members(Refreshed(n, w))
  BY RefreshedPruned, RefreshedType
<1>2. Num[PinnedAt(best[n], w.height)] = EpochStart(w.height)
  BY PinnedAtStart DEF TargetExists, TypeOK, Workers
<1> QED
  BY <1>1, <1>2 DEF Settled

LEMMA AimSettled ==
  ASSUME TypeOK, NEW n \in Nodes, NEW h \in Nat, TargetExists(n, Aim(best[n], h))
  PROVE  Settled(Aim(best[n], h))
<1>1. Aim(best[n], h).height = h /\ Aim(best[n], h).pin = PinnedAt(best[n], h)
  BY DEF Aim
<1>2. HashAt(best[n], h) # NoHash
  BY <1>1 DEF TargetExists
<1>3. Num[PinnedAt(best[n], h)] = EpochStart(h)
  BY <1>2, PinnedAtStart DEF TypeOK
<1> QED
  BY <1>1, <1>3, AimCounted DEF Settled

LEMMA OwnVoteSettled ==
  ASSUME TypeOK, NEW n \in Nodes, NEW w \in Workers, Settled(w)
  PROVE  Settled(WithOwnVote(n, w))
BY OwnVoteCounted DEF Settled, Members

LEMMA SameOwner ==
  ASSUME SameView, NEW at \in Blocks, NEW k \in Keys
  PROVE  Owner(at, k) = Owner(Genesis, k)
BY BlocksAssumption DEF SameView

(* A decision is backed by alpha of the members whose votes are held.      *)
LEMMA DecisionSupported ==
  ASSUME SameView, NEW w \in Workers, NEW S, HeightsHonest(S),
         OnTarget(w, S), Backed(w, S), Settled(w), RoundAfter(w).decision # NoHash
  PROVE  Supported(RoundAfter(w).decision, S)
<1> DEFINE d == RoundAfter(w).decision
           Q == {a \in Accounts : w.votes[a].hash = d}
<1>1. CASE w.round.decision # NoHash
  BY <1>1, RoundKept DEF Backed
<1>2. CASE w.round.decision = NoHash
  <2>1. /\ d \in {w.votes[a].hash : a \in Holding(w)}
        /\ Cardinality(Q) >= Alpha(Cardinality(Members(w)))
    BY <1>2, DecisionHasTally
  <2>2. d # NoHash
    OBVIOUS
  <2> HIDE DEF d
  <2>3. \A a \in Q : w.votes[a] # NoVote
    BY <2>2 DEF NoVote
  <2>4. \A a \in Q : /\ w.votes[a] \in S /\ w.votes[a].hash = d
                     /\ Owner(Genesis, w.votes[a].key) = a
                     /\ a \in Members(w)
    BY <2>3 DEF OnTarget, Backed, Settled, Holding
  <2>5. Num[d] = w.height
    BY <2>1 DEF Holding, OnTarget, HeightsHonest
  <2>6. Members(w) = SecuredBy(w.height)
    BY SameCommittee DEF Members, Workers, Settled
  <2>7. Supported(d, S)
    <3> HIDE DEF Q
    <3> QED
      BY <2>1, <2>4, <2>5, <2>6 DEF Supported
  <2> QED
    BY <2>7 DEF d
<1> QED
  BY <1>1, <1>2

LEMMA CountBacked ==
  ASSUME SameView, NEW w \in Workers, NEW S, HeightsHonest(S), OnTarget(w, S), Backed(w, S),
         Settled(w)
  PROVE  Backed(Counted(w, RoundAfter(w)), S)
<1> DEFINE u == Counted(w, RoundAfter(w))
<1>1. u.votes = w.votes /\ u.height = w.height /\ u.round = RoundAfter(w)
  BY DEF Counted, Workers
<1> HIDE DEF u
<1> QED
  BY <1>1, DecisionSupported DEF Backed, u

LEMMA OwnVoteBacked ==
  ASSUME SameView, TypeOK, NEW n \in Nodes, NEW w \in Workers, NEW S,
         Backed(w, S), KeyOf[n] # NoKey
  PROVE  Backed(WithOwnVote(n, w), S)
<1> DEFINE v == OwnVote(n, w)
           a == Owner(w.pin, KeyOf[n])
           u == [w EXCEPT !.votes[a] = v]
<1>1. CASE a \notin Members(w)
  BY <1>1 DEF WithOwnVote
<1>2. CASE a \in Members(w)
  <2>1. WithOwnVote(n, w) = u
    BY <1>2 DEF WithOwnVote
  <2>2. u.height = w.height /\ u.round = w.round
    BY DEF Workers
  <2>3. \A x \in Accounts : u.votes[x] = w.votes[x] \/ (x = a /\ u.votes[x] = v)
    BY DEF Workers
  <2>4. w.pin \in Blocks /\ KeyOf[n] \in Keys
    BY DEF Workers, Keys
  <2>5. v.key = KeyOf[n] /\ Owner(Genesis, v.key) = a
    BY <1>2, <2>4, SameOwner DEF OwnVote
  <2> HIDE DEF u, v
  <2>6. Backed(u, S)
    BY <2>2, <2>3, <2>5 DEF Backed
  <2> QED
    BY <2>1, <2>6
<1> QED
  BY <1>1, <1>2

LEMMA VoteAndCountBacked ==
  ASSUME SameView, TypeOK, NEW n \in Nodes, NEW w \in Workers, HeightsHonest(sent),
         OnTarget(w, sent), Backed(w, sent), Settled(w), TargetExists(n, w), VoteAndCount(n, w)
  PROVE  /\ sent \subseteq sent'
         /\ \E u : worker' = [worker EXCEPT ![n] = u] /\ Backed(u, sent')
<1>1. CASE KeyOf[n] = NoKey
  BY <1>1, CountBacked, CountStep DEF VoteAndCount
<1>2. CASE KeyOf[n] # NoKey
  <2> DEFINE u == WithOwnVote(n, w)
  <2>1. sent' = sent \cup {OwnVote(n, w)} /\ Count(n, u)
    BY <1>2 DEF VoteAndCount
  <2>2. OnTarget(u, sent') /\ HeightsHonest(sent') /\ u \in Workers
    BY <1>2, <2>1, OwnVoteOnTarget, OwnVoteHonest, OwnVoteType
  <2>3. Backed(u, sent')
    BY <1>2, <2>1, BackedGrows, OwnVoteBacked
  <2>4. Backed(Counted(u, RoundAfter(u)), sent')
    BY <2>2, <2>3, CountBacked, OwnVoteSettled
  <2> QED
    BY <2>1, <2>2, <2>4, CountStep
<1> QED
  BY <1>1, <1>2

LEMMA WorkersBacked ==
  ASSUME TypeOK, \A m \in Nodes : Backed(worker[m], sent), sent \subseteq sent',
         NEW n \in Nodes, NEW u, worker' = [worker EXCEPT ![n] = u], Backed(u, sent')
  PROVE  \A m \in Nodes : Backed(worker'[m], sent')
<1> SUFFICES ASSUME NEW m \in Nodes PROVE Backed(worker'[m], sent')
  OBVIOUS
<1>1. worker'[m] = u \/ worker'[m] = worker[m]
  BY DEF TypeOK
<1>2. Backed(worker[m], sent')
  BY BackedGrows
<1> QED
  BY <1>1, <1>2

LEMMA FinaliseBlockStores ==
  ASSUME NEW n, NEW b, NEW signers, FinaliseBlock(n, b, signers), Supported(b, sent),
         \A p \in stored : Supported(p.hash, sent), sent' = sent
  PROVE  \A p \in stored' : Supported(p.hash, sent')
BY DEF FinaliseBlock

LEMMA QuorumInit == Init => QuorumInv
BY TargetInit, AimBacked DEF Init, QuorumInv

LEMMA QuorumStep == SameView /\ QuorumInv /\ [Next]_vars => QuorumInv'
<1> SUFFICES ASSUME SameView, QuorumInv, [Next]_vars PROVE QuorumInv'
  OBVIOUS
<1>t. TargetInv /\ TargetInv' /\ TypeOK
  BY TargetStep DEF QuorumInv, TargetInv
<1>h. /\ HeightsHonest(sent)
      /\ \A m \in Nodes : OnTarget(worker[m], sent) /\ Backed(worker[m], sent)
      /\ \A p \in stored : Supported(p.hash, sent)
  BY DEF QuorumInv, TargetInv
<1>a. ASSUME NEW n \in Nodes
      PROVE  Aimed(n) \in Workers /\ OnTarget(Aimed(n), sent) /\ Backed(Aimed(n), sent)
  BY <1>t, <1>h, AimedType, AimedOnTarget, AimedBacked
<1>r. ASSUME NEW n \in Nodes
      PROVE  /\ Refreshed(n, Aimed(n)) \in Workers
             /\ OnTarget(Refreshed(n, Aimed(n)), sent) /\ Backed(Refreshed(n, Aimed(n)), sent)
  BY <1>t, <1>a, RefreshedType, RefreshedOnTarget, RefreshedBacked
<1>q. ASSUME NEW n \in Nodes, NEW u, Backed(u, sent), worker' = [worker EXCEPT ![n] = u],
             sent' = sent, stored' = stored
      PROVE  QuorumInv'
  <2>1. \A m \in Nodes : Backed(worker'[m], sent')
    BY <1>q, <1>t, <1>h, WorkersBacked
  <2> QED
    BY <1>q, <1>t, <1>h, <2>1 DEF QuorumInv
<1>v. ASSUME NEW n \in Nodes, NEW w \in Workers, OnTarget(w, sent), Backed(w, sent),
             Settled(w), TargetExists(n, w), VoteAndCount(n, w), stored' = stored
      PROVE  QuorumInv'
  <2>1. /\ sent \subseteq sent'
        /\ \E u : worker' = [worker EXCEPT ![n] = u] /\ Backed(u, sent')
    BY <1>v, <1>t, <1>h, VoteAndCountBacked
  <2>2. \A m \in Nodes : Backed(worker'[m], sent')
    BY <2>1, <1>t, <1>h, WorkersBacked
  <2>3. \A p \in stored' : Supported(p.hash, sent')
    BY <1>v, <1>h, <2>1, SupportedGrows
  <2> QED
    BY <1>t, <2>2, <2>3 DEF QuorumInv
<1>1. ASSUME NEW n \in Nodes, TickNoTarget(n) PROVE QuorumInv'
  BY <1>1, <1>a, <1>q DEF TickNoTarget, TickUnchanged
<1>2. ASSUME NEW n \in Nodes, TickSkewed(n) PROVE QuorumInv'
  BY <1>2, <1>a, <1>q DEF TickSkewed, TickUnchanged
<1>3. ASSUME NEW n \in Nodes, TickNoCommittee(n) PROVE QuorumInv'
  BY <1>3, <1>r, <1>q DEF TickNoCommittee, TickUnchanged
<1>4. ASSUME NEW n \in Nodes, TickVote(n) PROVE QuorumInv'
  <2>1. TargetExists(n, Refreshed(n, Aimed(n))) /\ Settled(Refreshed(n, Aimed(n)))
    BY <1>4, <1>a, <1>t, RefreshedType, RefreshedSettled DEF TickVote, Coherent, TargetExists
  <2> QED
    BY <1>4, <1>r, <1>v, <2>1 DEF TickVote, TickUnchanged
<1>5. ASSUME NEW n \in Nodes, TickSkip(n) PROVE QuorumInv'
  <2>1. PICK healthy \in FirstHealthyBoundary(best[n], Refreshed(n, Aimed(n)).height) :
          TargetExists(n, Aim(best[n], healthy)) /\ VoteAndCount(n, Aim(best[n], healthy))
    BY <1>5 DEF TickSkip
  <2>2. Refreshed(n, Aimed(n)).height \in Nat /\ best[n] \in Blocks
    BY <1>t, <1>r DEF Workers, TypeOK
  <2>3. healthy \in Nat
    BY <2>1, <2>2, NumType DEF FirstHealthyBoundary, HealthyBoundaries
  <2>4. /\ Aim(best[n], healthy) \in Workers
        /\ OnTarget(Aim(best[n], healthy), sent) /\ Backed(Aim(best[n], healthy), sent)
        /\ Settled(Aim(best[n], healthy))
    BY <1>t, <2>1, <2>2, <2>3, AimType, AimOnTarget, AimBacked, AimSettled
  <2> QED
    BY <1>5, <1>v, <2>1, <2>4 DEF TickSkip, TickUnchanged
<1>6. ASSUME NEW n \in Nodes, Finalise(n) PROVE QuorumInv'
  <2> DEFINE w == worker[n]
             b == w.round.decision
  <2>1. w \in Workers /\ Backed(w, sent) /\ sent' = sent
    BY <1>6, <1>t, <1>h DEF Finalise, TypeOK
  <2>2. CASE CanFinalise(n, b)
    <3>1. /\ FinaliseBlock(n, b, ProofSigners(w))
          /\ worker' = [worker EXCEPT ![n] = Aim(best'[n], Num[b] + Step)]
      BY <1>6, <2>2 DEF Finalise
    <3>2. b # NoHash
      BY <1>t, <2>2, <3>1, FinaliseBlockRaises, BlocksAssumption
    <3>3. \A p \in stored' : Supported(p.hash, sent')
      BY <1>h, <2>1, <3>1, <3>2, FinaliseBlockStores DEF Backed
    <3>4. \A m \in Nodes : Backed(worker'[m], sent')
      BY <1>t, <1>h, <2>1, <3>1, AimBacked, WorkersBacked
    <3> QED
      BY <1>t, <3>3, <3>4 DEF QuorumInv
  <2>3. CASE ~CanFinalise(n, b)
    <3> DEFINE u == [w EXCEPT !.deciding = FALSE]
    <3>1. worker' = [worker EXCEPT ![n] = u] /\ stored' = stored
      BY <1>6, <2>3 DEF Finalise
    <3>2. u.votes = w.votes /\ u.height = w.height /\ u.round = w.round
      BY <2>1 DEF Workers
    <3>3. Backed(u, sent)
      BY <2>1, <3>2 DEF Backed
    <3> QED
      BY <1>q, <2>1, <3>1, <3>3
  <2> QED
    BY <2>2, <2>3
<1>7. ASSUME NEW n \in Nodes, NEW v \in sent, Receive(n, v) PROVE QuorumInv'
  <2> DEFINE w == worker[n]
             a == Owner(w.pin, v.key)
             u == [w EXCEPT !.votes[a] = v]
  <2>1. w \in Workers /\ Backed(w, sent) /\ w.pin \in Blocks /\ v.key \in Keys
    BY <1>t, <1>h DEF TypeOK, Workers, Votes
  <2>2. worker' = [worker EXCEPT ![n] = u] /\ sent' = sent /\ stored' = stored
    BY <1>7 DEF Receive
  <2>3. /\ u.height = w.height /\ u.round = w.round
        /\ \A x \in Accounts : u.votes[x] = w.votes[x] \/ (x = a /\ u.votes[x] = v)
    BY <2>1 DEF Workers
  <2>4. Owner(Genesis, v.key) = a
    BY <2>1, SameOwner
  <2>5. Backed(u, sent)
    <3> HIDE DEF u
    <3> QED
      BY <2>1, <2>3, <2>4 DEF Backed
  <2> QED
    BY <1>q, <2>2, <2>5
<1>8. ASSUME NEW n \in Nodes, NEW b \in Blocks, ImportBlock(n, b) PROVE QuorumInv'
  BY <1>8, <1>t, <1>h DEF ImportBlock, QuorumInv
<1>9. ASSUME NEW n \in Nodes, NEW p \in stored, ImportJustification(n, p) PROVE QuorumInv'
  <2>1. Supported(p.hash, sent) /\ sent' = sent /\ worker' = worker
    BY <1>9, <1>h DEF ImportJustification
  <2>2. \A q \in stored' : Supported(q.hash, sent')
    BY <1>9, <1>h, <2>1, FinaliseBlockStores DEF ImportJustification
  <2> QED
    BY <1>t, <1>h, <2>1, <2>2 DEF QuorumInv
<1>10. ASSUME NEW n \in Nodes, Restart(n) PROVE QuorumInv'
  BY <1>10, <1>q, AimBacked DEF Restart
<1>11. ASSUME NEW x \in Ballots, OutsideVote(x) PROVE QuorumInv'
  <2>1. sent \subseteq sent' /\ worker' = worker /\ stored' = stored
    BY <1>11 DEF OutsideVote
  <2> QED
    BY <1>t, <1>h, <2>1, BackedGrows, SupportedGrows DEF QuorumInv
<1>12. CASE UNCHANGED vars
  BY <1>12, <1>t, <1>h DEF vars, QuorumInv
<1> QED
  BY <1>1, <1>2, <1>3, <1>4, <1>5, <1>6, <1>7, <1>8, <1>9, <1>10, <1>11, <1>12
  DEF Next, NodeStep, Tick

LEMMA QuorumAlways == SameView => (Spec => []QuorumInv)
<1> SUFFICES ASSUME SameView PROVE Spec => []QuorumInv
  OBVIOUS
<1>1. QuorumInv /\ [Next]_vars => QuorumInv'
  BY QuorumStep
<1> QED
  BY <1>1, QuorumInit, PTL DEF Spec

(* Accountability: when two different blocks of one height are finalised,  *)
(* by any nodes at any times, through votes or through an imported proof,  *)
(* some member of the committee of that height signed for both.            *)
THEOREM Accountability == SameView => (Spec => []ConflictHasDoubleVoter)
<1>1. QuorumInv => ConflictHasDoubleVoter
  <2> SUFFICES ASSUME QuorumInv, NEW p \in stored, NEW q \in stored, Num[p.hash] = Num[q.hash]
               PROVE  \E a \in Accounts : Voted(a, p.hash, Genesis) /\ Voted(a, q.hash, Genesis)
    BY DEF ConflictHasDoubleVoter
  <2> DEFINE M == SecuredBy(Num[p.hash])
  <2>1. p.hash \in Blocks
    BY DEF QuorumInv, TargetInv, TypeOK
  <2>2. M \subseteq Accounts /\ IsFiniteSet(M)
    <3>1. \A b \in Blocks : CommitteeAt(Num[p.hash], b) \subseteq Accounts
      BY <2>1, ElectedAssumption
    <3>2. M \subseteq Accounts
      BY <3>1 DEF SecuredBy
    <3> QED
      BY <3>2, AccountsAssumption, FS_Subset
  <2>3. Supported(p.hash, sent) /\ Supported(q.hash, sent)
    BY DEF QuorumInv
  <2>4. PICK S \in SUBSET M : /\ Cardinality(S) >= Alpha(Cardinality(M))
                              /\ \A a \in S : Voted(a, p.hash, Genesis)
    BY <2>3 DEF Supported, Voted
  <2>5. PICK T \in SUBSET M : /\ Cardinality(T) >= Alpha(Cardinality(M))
                              /\ \A a \in T : Voted(a, q.hash, Genesis)
    BY <2>3 DEF Supported, Voted
  <2>6. S \cap T # {}
    BY <2>2, <2>4, <2>5, QuorumsIntersect
  <2> QED
    BY <2>2, <2>4, <2>5, <2>6
<1> QED
  BY <1>1, QuorumAlways, PTL

(* No vote is counted for a height or an account it was not signed for.    *)
THEOREM HeldVotesAreGenuine == SameView => (Spec => []HeldVotesGenuine)
<1> SUFFICES ASSUME SameView PROVE Spec => []HeldVotesGenuine
  OBVIOUS
<1>1. QuorumInv => HeldVotesGenuine
  <2> SUFFICES ASSUME QuorumInv, NEW n \in Nodes, NEW a \in Holding(worker[n])
               PROVE  LET v == worker[n].votes[a]
                      IN  /\ v \in sent /\ v.height = worker[n].height
                          /\ Owner(worker[n].pin, v.key) = a
    BY DEF HeldVotesGenuine
  <2> DEFINE v == worker[n].votes[a]
  <2>1. /\ a \in Accounts /\ v # NoVote /\ sent \subseteq Votes
        /\ OnTarget(worker[n], sent) /\ Backed(worker[n], sent)
    BY DEF QuorumInv, TargetInv, TypeOK, Holding
  <2>2. v \in sent /\ v.height = worker[n].height /\ Owner(Genesis, v.key) = a
    BY <2>1 DEF OnTarget, Backed
  <2>3. worker[n].pin \in Blocks /\ v.key \in Keys
    BY <2>1, <2>2 DEF QuorumInv, TargetInv, TypeOK, Workers, Votes
  <2> QED
    BY <2>2, <2>3, SameOwner
<1> QED
  BY <1>1, QuorumAlways, PTL

-----------------------------------------------------------------------------
(* What a tick that decides has counted.  Between the tick and the call of *)
(* finalize_block the imports of the same node may run.                    *)

(* A worker that is about to finalise, seen from the best block `tip`.      *)
CountedAt(w, tip) ==
  w.deciding => /\ HashAt(tip, w.height) # NoHash
                /\ Holding(w) \subseteq CommitteeAt(w.height, PinnedAt(tip, w.height))

CountedInv ==
  /\ TypeOK
  /\ \A n \in Nodes : CountedAt(worker[n], best[n])

(* No node's best chain drops a block.                                      *)
ChainsGrow == \A n \in Nodes : best[n] \in Chain[best'[n]]

LEMMA CountedAtStable ==
  ASSUME NEW w \in Workers, NEW tip \in Blocks, NEW old \in Chain[tip], CountedAt(w, old)
  PROVE  CountedAt(w, tip)
<1>1. w.height \in Nat /\ old \in Blocks
  BY NumGrows DEF Workers
<1>2. CASE HashAt(old, w.height) # NoHash
  <2>1. /\ HashAt(tip, w.height) = HashAt(old, w.height)
        /\ PinnedAt(tip, w.height) = PinnedAt(old, w.height)
    BY <1>1, <1>2, HashAtStable, PinnedAtStable
  <2> QED
    BY <1>2, <2>1 DEF CountedAt
<1>3. CASE HashAt(old, w.height) = NoHash
  BY <1>3 DEF CountedAt
<1> QED
  BY <1>2, <1>3

LEMMA NotDecidingCounted ==
  ASSUME NEW w, NEW tip, ~w.deciding
  PROVE  CountedAt(w, tip)
BY DEF CountedAt

(* The votes that a tick counts, its own included, are members' votes.      *)
LEMMA CountCounted ==
  ASSUME TypeOK, NEW n \in Nodes, NEW w \in Workers, NEW round,
         w.pin = PinnedAt(best[n], w.height), TargetExists(n, w), Holding(w) \subseteq Members(w)
  PROVE  CountedAt(Counted(w, round), best[n])
<1> DEFINE u == Counted(w, round)
<1>1. u.votes = w.votes /\ u.height = w.height
  BY DEF Counted, Workers
<1> HIDE DEF u
<1>2. Holding(u) = Holding(w)
  BY <1>1 DEF Holding
<1>3. CountedAt(u, best[n])
  BY <1>1, <1>2 DEF CountedAt, Members, TargetExists
<1> QED
  BY <1>3 DEF u

LEMMA VoteAndCountCounted ==
  ASSUME TypeOK, NEW n \in Nodes, NEW w \in Workers, VoteAndCount(n, w), TargetExists(n, w),
         w.pin = PinnedAt(best[n], w.height), Holding(w) \subseteq Members(w)
  PROVE  CountedAt(worker'[n], best[n])
<1>1. CASE KeyOf[n] = NoKey
  <2>1. worker'[n] = Counted(w, RoundAfter(w))
    BY <1>1, CountStep DEF VoteAndCount, TypeOK
  <2> QED
    BY <2>1, CountCounted
<1>2. CASE KeyOf[n] # NoKey
  <2> DEFINE u == WithOwnVote(n, w)
  <2>1. u \in Workers /\ Count(n, u)
    BY <1>2, OwnVoteType DEF VoteAndCount
  <2>2. u.pin = w.pin /\ u.height = w.height /\ Holding(u) \subseteq Members(w)
    BY OwnVoteCounted
  <2> HIDE DEF u
  <2>3. worker'[n] = Counted(u, RoundAfter(u))
    BY <2>1, CountStep DEF TypeOK
  <2>4. Members(u) = Members(w) /\ TargetExists(n, u)
    BY <2>2 DEF Members, TargetExists
  <2> QED
    BY <2>1, <2>2, <2>3, <2>4, CountCounted
<1> QED
  BY <1>1, <1>2

LEMMA CountedInit == Init => CountedInv
BY TypeInit, AimCounted, NotDecidingCounted DEF Init, CountedInv

LEMMA CountedStep == CountedInv /\ [Next]_vars /\ [ChainsGrow]_vars => CountedInv'
<1> SUFFICES ASSUME CountedInv, [Next]_vars, [ChainsGrow]_vars PROVE CountedInv'
  OBVIOUS
<1>t. TypeOK /\ TypeOK' /\ \A m \in Nodes : CountedAt(worker[m], best[m])
  BY TypeStep DEF CountedInv
<1>g. \A m \in Nodes : best'[m] \in Blocks /\ best[m] \in Chain[best'[m]]
  BY <1>t, ChainAssumption DEF ChainsGrow, vars, TypeOK
<1>k. ASSUME NEW m \in Nodes, worker'[m] = worker[m] PROVE CountedAt(worker'[m], best'[m])
  <2>1. worker[m] \in Workers
    BY <1>t DEF TypeOK
  <2> QED
    BY <1>k, <1>t, <1>g, <2>1, CountedAtStable
(* One node's worker moves and is fine; the others stay. *)
<1>o. ASSUME NEW n \in Nodes, CountedAt(worker'[n], best'[n]),
             \A m \in Nodes \ {n} : worker'[m] = worker[m]
      PROVE  CountedInv'
  BY <1>o, <1>k, <1>t DEF CountedInv
<1>e. ASSUME NEW n \in Nodes, NEW u, worker' = [worker EXCEPT ![n] = u]
      PROVE  worker'[n] = u /\ \A m \in Nodes \ {n} : worker'[m] = worker[m]
  BY <1>e, <1>t DEF TypeOK
<1>n. ASSUME NEW n \in Nodes, NEW u, worker' = [worker EXCEPT ![n] = u], ~u.deciding
      PROVE  CountedInv'
  <2>1. worker'[n] = u /\ \A m \in Nodes \ {n} : worker'[m] = worker[m]
    BY <1>n, <1>e
  <2>2. CountedAt(worker'[n], best'[n])
    BY <1>n, <2>1, NotDecidingCounted
  <2> QED
    BY <2>1, <2>2, <1>o
<1>a. ASSUME NEW n \in Nodes, Ticking(n) PROVE Aimed(n) \in Workers /\ ~Aimed(n).deciding
  BY <1>a, <1>t, AimedType, AimCounted DEF Aimed, Ticking
<1>r. ASSUME NEW n \in Nodes, Ticking(n)
      PROVE  /\ Refreshed(n, Aimed(n)) \in Workers
             /\ ~Refreshed(n, Aimed(n)).deciding
             /\ Refreshed(n, Aimed(n)).height = Aimed(n).height
             /\ Refreshed(n, Aimed(n)).pin = PinnedAt(best[n], Refreshed(n, Aimed(n)).height)
             /\ Holding(Refreshed(n, Aimed(n))) \subseteq Members(Refreshed(n, Aimed(n)))
  BY <1>r, <1>t, <1>a, RefreshedType, RefreshedPruned
<1>v. ASSUME NEW n \in Nodes, NEW w \in Workers, VoteAndCount(n, w), TargetExists(n, w),
             w.pin = PinnedAt(best[n], w.height), Holding(w) \subseteq Members(w), best' = best
      PROVE  CountedInv'
  <2>1. CountedAt(worker'[n], best'[n])
    BY <1>v, <1>t, VoteAndCountCounted
  <2>2. \E u : worker' = [worker EXCEPT ![n] = u]
    BY <1>v DEF VoteAndCount, Count
  <2> QED
    BY <2>1, <2>2, <1>e, <1>o
<1>1. ASSUME NEW n \in Nodes, TickNoTarget(n) PROVE CountedInv'
  BY <1>1, <1>a, <1>n DEF TickNoTarget
<1>2. ASSUME NEW n \in Nodes, TickSkewed(n) PROVE CountedInv'
  BY <1>2, <1>a, <1>n DEF TickSkewed
<1>3. ASSUME NEW n \in Nodes, TickNoCommittee(n) PROVE CountedInv'
  BY <1>3, <1>r, <1>n DEF TickNoCommittee, Coherent
<1>4. ASSUME NEW n \in Nodes, TickVote(n) PROVE CountedInv'
  <2>1. Ticking(n) /\ TargetExists(n, Aimed(n)) /\ best' = best
    BY <1>4 DEF TickVote, Coherent, TickUnchanged
  <2>2. TargetExists(n, Refreshed(n, Aimed(n)))
    BY <2>1, <1>r DEF TargetExists
  <2>3. VoteAndCount(n, Refreshed(n, Aimed(n)))
    BY <1>4 DEF TickVote
  <2> QED
    BY <2>1, <2>2, <2>3, <1>r, <1>v
<1>5. ASSUME NEW n \in Nodes, TickSkip(n) PROVE CountedInv'
  <2>1. PICK healthy \in FirstHealthyBoundary(best[n], Refreshed(n, Aimed(n)).height) :
          TargetExists(n, Aim(best[n], healthy)) /\ VoteAndCount(n, Aim(best[n], healthy))
    BY <1>5 DEF TickSkip
  <2>2. Ticking(n) /\ best' = best
    BY <1>5 DEF TickSkip, Coherent, TickUnchanged
  <2>3. Refreshed(n, Aimed(n)).height \in Nat /\ best[n] \in Blocks
    BY <2>2, <1>t, <1>r DEF Workers, TypeOK
  <2>4. healthy \in Nat
    BY <2>1, <2>3, NumType DEF FirstHealthyBoundary, HealthyBoundaries
  <2>5. Aim(best[n], healthy) \in Workers
    BY <2>3, <2>4, AimType
  <2> QED
    BY <2>1, <2>2, <2>5, <1>v, AimCounted
<1>6. ASSUME NEW n \in Nodes, Finalise(n) PROVE CountedInv'
  <2> DEFINE b == worker[n].round.decision
  <2>1. CASE CanFinalise(n, b)
    <3>1. worker' = [worker EXCEPT ![n] = Aim(best'[n], Num[b] + Step)]
      BY <1>6, <2>1 DEF Finalise
    <3> QED
      BY <3>1, <1>n, AimCounted
  <2>2. CASE ~CanFinalise(n, b)
    <3>1. worker' = [worker EXCEPT ![n] = [worker[n] EXCEPT !.deciding = FALSE]]
      BY <1>6, <2>2 DEF Finalise
    <3>2. ~[worker[n] EXCEPT !.deciding = FALSE].deciding
      BY <1>t DEF TypeOK, Workers
    <3> QED
      BY <3>1, <3>2, <1>n
  <2> QED
    BY <2>1, <2>2
<1>7. ASSUME NEW n \in Nodes, NEW x \in sent, Receive(n, x) PROVE CountedInv'
  <2> DEFINE a == Owner(worker[n].pin, x.key)
             u == [worker[n] EXCEPT !.votes[a] = x]
  <2>1. worker' = [worker EXCEPT ![n] = u] /\ ~worker[n].deciding
    BY <1>7 DEF Receive
  <2>2. ~u.deciding
    BY <2>1, <1>t DEF TypeOK, Workers
  <2> HIDE DEF u
  <2> QED
    BY <2>1, <2>2, <1>n
<1>8. ASSUME worker' = worker PROVE CountedInv'
  BY <1>8, <1>k, <1>t DEF CountedInv
<1>9. ASSUME NEW n \in Nodes, Restart(n) PROVE CountedInv'
  BY <1>9, <1>n, AimCounted DEF Restart
<1> QED
  BY <1>1, <1>2, <1>3, <1>4, <1>5, <1>6, <1>7, <1>8, <1>9
  DEF Next, NodeStep, Tick, ImportBlock, ImportJustification, OutsideVote, vars

(* What is about to be finalised was counted from members of the committee *)
(* that secures its height on the node's own chain, whatever the committees *)
(* of other blocks are, as long as best chains only grow.  A reorganisation *)
(* between the tick and the call can change what the client answers: the   *)
(* worker does not look again.                                             *)
THEOREM CountedInCommittee == Spec /\ [][ChainsGrow]_vars => []CountedVotesInCommittee
<1>1. CountedInv => CountedVotesInCommittee
  BY DEF CountedInv, CountedAt, CountedVotesInCommittee
<1>2. CountedInv /\ [Next]_vars /\ [ChainsGrow]_vars => CountedInv'
  BY CountedStep
<1> QED
  BY <1>1, <1>2, CountedInit, PTL DEF Spec

(* Where the tree has no fork, no best chain ever drops a block.            *)
OneChain == \A b, c \in Blocks : b \in Chain[c] \/ c \in Chain[b]

LEMMA OneChainGrows == OneChain /\ TypeOK /\ [Next]_vars => ChainsGrow
<1> SUFFICES ASSUME OneChain, TypeOK, [Next]_vars PROVE ChainsGrow
  OBVIOUS
<1>t. \A m \in Nodes : best[m] \in Blocks /\ best[m] \in Chain[best[m]]
  BY ChainAssumption DEF TypeOK
<1>f. ASSUME NEW n \in Nodes, NEW b, NEW signers,
             CanFinalise(n, b), FinaliseBlock(n, b, signers)
      PROVE  ChainsGrow
  <2>1. b \in Blocks
    BY <1>f DEF CanFinalise, TypeOK
  <2>2. best[n] \in Chain[IF b \in Chain[best[n]] THEN best[n] ELSE b]
    BY <1>t, <2>1 DEF OneChain
  <2>3. best' = [best EXCEPT ![n] = IF b \in Chain[best[n]] THEN best[n] ELSE b]
    BY <1>f DEF FinaliseBlock
  <2> QED
    BY <1>t, <2>2, <2>3 DEF ChainsGrow, TypeOK
<1>i. ASSUME NEW n \in Nodes, NEW b \in Blocks, ImportBlock(n, b) PROVE ChainsGrow
  <2>1. best[n] \in Chain[LongestChain(best[n], b)]
    BY <1>t, NumGrows, NumType DEF OneChain, LongestChain
  <2>2. best' = [best EXCEPT ![n] = LongestChain(best[n], b)]
    BY <1>i DEF ImportBlock
  <2> QED
    BY <1>t, <2>1, <2>2 DEF ChainsGrow, TypeOK
<1>s. ASSUME best' = best PROVE ChainsGrow
  BY <1>s, <1>t DEF ChainsGrow
<1>1. ASSUME NEW n \in Nodes, Finalise(n) PROVE ChainsGrow
  BY <1>1, <1>f, <1>s DEF Finalise
<1>2. ASSUME NEW n \in Nodes, NEW p \in stored, ImportJustification(n, p) PROVE ChainsGrow
  BY <1>2, <1>f DEF ImportJustification
<1>3. ASSUME NEW n \in Nodes, Tick(n) PROVE best' = best
  BY <1>3 DEF Tick, TickNoTarget, TickSkewed, TickNoCommittee, TickVote, TickSkip, TickUnchanged
<1>4. ASSUME NEW n \in Nodes, NEW v \in sent, Receive(n, v) PROVE best' = best
  BY <1>4 DEF Receive
<1>5. ASSUME NEW n \in Nodes, Restart(n) PROVE best' = best
  BY <1>5 DEF Restart
<1>6. ASSUME NEW x \in Ballots, OutsideVote(x) PROVE best' = best
  BY <1>6 DEF OutsideVote
<1>7. CASE UNCHANGED vars
  BY <1>7, <1>s DEF vars
<1> QED
  BY <1>1, <1>2, <1>3, <1>4, <1>5, <1>6, <1>7, <1>i, <1>s DEF Next, NodeStep

(* On a chain without forks every decision is counted from the committee   *)
(* of its height, even while different nodes elect different committees     *)
(* for it before its first block reaches them.                             *)
THEOREM CountedInCommitteeOnOneChain == OneChain => (Spec => []CountedVotesInCommittee)
<1> SUFFICES ASSUME OneChain PROVE Spec => []CountedVotesInCommittee
  OBVIOUS
<1>1. TypeOK /\ [Next]_vars => [ChainsGrow]_vars
  BY OneChainGrows
<1> QED
  BY <1>1, TypeCorrect, CountedInCommittee, PTL DEF Spec

-----------------------------------------------------------------------------
(* Agreement.  Each finalised block was aimed at from a block finalised    *)
(* before it.  The height aimed at depends on nothing but the height left, *)
(* so the finalised heights form one ladder that every node climbs, and    *)
(* two nodes that disagree disagree about the block of one rung.           *)

(* Forks of one height stand in the same entrenchment band: the guard      *)
(* follows the epochs and the halts, not the branch.                       *)
SameHalts == \A b, c \in Blocks : Num[b] = Num[c] => (b \in Halted <=> c \in Halted)

(* An account votes with one session key: the pallet's map from keys to    *)
(* accounts is the inverse of its map from accounts to keys.               *)
OneKey == \A b \in Blocks : \A k, l \in Keys :
            Owner(b, k) \in Accounts /\ Owner(b, k) = Owner(b, l) => k = l

HaltedAt(h) == \E b \in Blocks : Num[b] = h /\ b \in Halted

Healthy(h, from) ==
  /\ h > from /\ (h - from) % Step = 0
  /\ ~HaltedAt(EpochStart(h))
  /\ SecuredBy(h) # {}

(* The height aimed at from a finalised height, and the one finalised next. *)
FirstHealthy(h, from) == Healthy(h, from) /\ \A g \in Nat : Healthy(g, from) => h =< g

AimsAt(from, h) ==
  \/ h = from + Step
  \/ SecuredBy(from + Step) = {} /\ FirstHealthy(h, from + Step)

NextRung(from, h) == h \in Nat /\ AimsAt(from, h) /\ SecuredBy(h) # {}

Proven(S) == {Genesis} \cup {p.hash : p \in S}
Rests(b, S) == \E c \in Proven(S) \cap Chain[b] : NextRung(Num[c], Num[b])
Reached(b, h, S) == \E c \in Proven(S) \cap Chain[b] : AimsAt(Num[c], h)

LadderInv ==
  /\ QuorumInv
  /\ \A p \in stored : Rests(p.hash, stored)
  /\ \A n \in Nodes : fin[n] \in Proven(stored) /\ Reached(fin[n], worker[n].height, stored)

LEMMA RungsRise ==
  ASSUME NEW from \in Nat, NEW h \in Nat, AimsAt(from, h)
  PROVE  from < h
BY StepAssumption DEF AimsAt, FirstHealthy, Healthy

LEMMA OneNextRung ==
  ASSUME NEW from \in Nat, NEW h \in Nat, NEW g \in Nat, NextRung(from, h), NextRung(from, g)
  PROVE  h = g
BY StepAssumption DEF NextRung, AimsAt, FirstHealthy

(* The first healthy boundary a node finds on its own chain is the first   *)
(* on any chain.                                                           *)
LEMMA HealthyOnChain ==
  ASSUME SameView, SameHalts, NEW tip \in Blocks, NEW h \in Nat, h =< Num[tip]
  PROVE  /\ PinnedAt(tip, h) \in Halted <=> HaltedAt(EpochStart(h))
         /\ CommitteeAt(h, PinnedAt(tip, h)) = SecuredBy(h)
<1> DEFINE start == EpochOf(h) * EpochLength
           at == PinnedAt(tip, h)
<1>1. start \in Nat /\ start =< h /\ Num[tip] \in Nat
  BY EpochStartsBelow, NumType
<1>2. HashAt(tip, start) # NoHash
  BY <1>1, HashAtExists
<1>3. at \in Blocks /\ Num[at] = start
  BY <1>1, <1>2, HashAtType DEF PinnedAt
<1>4. CommitteeAt(h, at) = SecuredBy(h)
  BY <1>3, SameCommittee DEF EpochStart
<1> HIDE DEF at, start
<1>5. at \in Halted <=> HaltedAt(start)
  BY <1>3 DEF SameHalts, HaltedAt
<1> QED
  BY <1>4, <1>5 DEF at, start, EpochStart

LEMMA SkipIsFirstHealthy ==
  ASSUME SameView, SameHalts, NEW tip \in Blocks, NEW from \in Nat,
         NEW h \in FirstHealthyBoundary(tip, from)
  PROVE  h \in Nat /\ FirstHealthy(h, from)
<1>1. /\ h \in Nat /\ h > from /\ h =< Num[tip] /\ (h - from) % Step = 0
      /\ h + Burial =< Num[tip]
      /\ PinnedAt(tip, h) \notin Halted /\ CommitteeAt(h, PinnedAt(tip, h)) # {}
      /\ \A g \in HealthyBoundaries(tip, from) : h =< g
  BY NumType DEF FirstHealthyBoundary, HealthyBoundaries
<1>2. Healthy(h, from)
  BY <1>1, HealthyOnChain DEF Healthy
<1>3. ASSUME NEW g \in Nat, Healthy(g, from), g < h PROVE FALSE
  <2>1. /\ g \in from + 1 .. Num[tip] /\ g =< Num[tip] /\ (g - from) % Step = 0
        /\ g + Burial =< Num[tip]
    BY <1>1, <1>3, NumType, StepAssumption DEF Healthy
  <2>2. PinnedAt(tip, g) \notin Halted /\ CommitteeAt(g, PinnedAt(tip, g)) # {}
    BY <1>3, <2>1, HealthyOnChain DEF Healthy
  <2>3. g \in HealthyBoundaries(tip, from)
    BY <2>1, <2>2 DEF HealthyBoundaries
  <2> QED
    BY <1>1, <1>3, <2>3
<1> QED
  BY <1>1, <1>2, <1>3 DEF FirstHealthy

LEMMA ProvenGrows ==
  ASSUME NEW S, NEW T, S \subseteq T
  PROVE  /\ Proven(S) \subseteq Proven(T)
         /\ \A b : Rests(b, S) => Rests(b, T)
         /\ \A b, h : Reached(b, h, S) => Reached(b, h, T)
BY DEF Proven, Rests, Reached

LEMMA ReachedAbove ==
  ASSUME NEW b \in Blocks, NEW c \in Chain[b], NEW h, NEW S, Reached(c, h, S)
  PROVE  Reached(b, h, S)
BY ChainAssumption DEF Reached

LEMMA NextTarget ==
  ASSUME NEW b \in Blocks, NEW S, b \in Proven(S)
  PROVE  Reached(b, Num[b] + Step, S)
BY ChainAssumption DEF Reached, AimsAt

(* A block that alpha members signed is a rung.                            *)
LEMMA SupportedRests ==
  ASSUME NEW b \in Blocks, NEW f \in Chain[b], NEW S, NEW V,
         Supported(b, V), Reached(f, Num[b], S)
  PROVE  Rests(b, S)
<1> DEFINE M == SecuredBy(Num[b])
<1>1. M # {}
  <2>1. ASSUME M = {} PROVE FALSE
    <3>1. Cardinality({}) = 0
      BY FS_EmptySet
    <3>2. Alpha(0) >= 1
      BY AlphaIsMajority
    <3>3. PICK Q \in SUBSET M : Cardinality(Q) >= Alpha(Cardinality(M))
      BY DEF Supported
    <3>4. Q = {}
      BY <2>1, <3>3
    <3>5. 0 >= Alpha(0) /\ Alpha(0) \in Nat
      BY <2>1, <3>1, <3>3, <3>4, AlphaIsMajority
    <3> QED
      BY <3>2, <3>5
  <2> QED
    BY <2>1
<1>2. Reached(b, Num[b], S)
  BY ReachedAbove
<1> QED
  BY <1>1, <1>2, NumType DEF Rests, Reached, NextRung

LEMMA GenesisLowest == Chain[Genesis] = {Genesis} /\ Num[Genesis] = 0
<1>1. Genesis \in Blocks /\ Genesis \in Chain[Genesis]
  BY BlocksAssumption, ChainAssumption
<1>2. \A c \in Chain[Genesis] : c = Genesis
  BY <1>1, ChainAssumption
<1>3. Chain[Genesis] = {Genesis}
  BY <1>1, <1>2
<1>4. Cardinality({Genesis}) = 1
  BY FS_Singleton
<1> QED
  BY <1>1, <1>3, <1>4 DEF Num

LEMMA LadderInit == Init => LadderInv
<1> SUFFICES ASSUME Init PROVE LadderInv
  OBVIOUS
<1>1. Genesis \in Blocks /\ Genesis \in Chain[Genesis] /\ Num[Genesis] = 0
  BY BlocksAssumption, GenesisLowest
<1>2. Genesis \in Proven({})
  BY DEF Proven
<1>3. \A n \in Nodes : worker[n].height = Step /\ fin[n] = Genesis
  BY DEF Init, Aim
<1>4. Reached(Genesis, Step, {})
  BY <1>1, <1>2, StepAssumption DEF Reached, AimsAt
<1> QED
  BY <1>2, <1>3, <1>4, QuorumInit DEF Init, LadderInv

LEMMA LadderStep == SameView /\ SameHalts /\ LadderInv /\ [Next]_vars => LadderInv'
<1> SUFFICES ASSUME SameView, SameHalts, LadderInv, [Next]_vars PROVE LadderInv'
  OBVIOUS
<1>t. QuorumInv' /\ QuorumInv /\ TypeOK /\ TypeOK'
  BY QuorumStep DEF LadderInv, QuorumInv, TargetInv
<1>h. /\ \A p \in stored : Rests(p.hash, stored)
      /\ \A m \in Nodes : fin[m] \in Proven(stored) /\ Reached(fin[m], worker[m].height, stored)
  BY DEF LadderInv
(* One node's target moves; nothing is finalised. *)
<1>q. ASSUME NEW n \in Nodes, NEW u, worker' = [worker EXCEPT ![n] = u],
             fin' = fin, stored' = stored, Reached(fin[n], u.height, stored)
      PROVE  LadderInv'
  <2>1. \A m \in Nodes : worker'[m] = worker[m] \/ (m = n /\ worker'[m] = u)
    BY <1>q, <1>t DEF TypeOK
  <2>2. \A m \in Nodes : fin'[m] \in Proven(stored') /\ Reached(fin'[m], worker'[m].height, stored')
    BY <1>q, <1>h, <2>1
  <2> QED
    BY <1>q, <1>h, <1>t, <2>2 DEF LadderInv
<1>a. ASSUME NEW n \in Nodes
      PROVE  Aimed(n) \in Workers /\ Reached(fin[n], Aimed(n).height, stored)
  <2>1. Aimed(n) \in Workers /\ fin[n] \in Blocks
    BY <1>t, AimedType DEF TypeOK
  <2>2. Aimed(n) = worker[n] \/ Aimed(n).height = Num[fin[n]] + Step
    BY DEF Aimed, Aim
  <2> QED
    BY <1>h, <2>1, <2>2, NextTarget
<1>r. ASSUME NEW n \in Nodes
      PROVE  /\ Refreshed(n, Aimed(n)) \in Workers
             /\ Refreshed(n, Aimed(n)).height = Aimed(n).height
  BY <1>t, <1>a, RefreshedType
<1>v. ASSUME NEW n \in Nodes, NEW w \in Workers, VoteAndCount(n, w), TargetExists(n, w),
             Reached(fin[n], w.height, stored), fin' = fin, stored' = stored
      PROVE  LadderInv'
  <2>1. PICK u \in Workers : Count(n, u) /\ u.height = w.height
    <3>1. CASE KeyOf[n] = NoKey
      BY <1>v, <3>1 DEF VoteAndCount
    <3>2. CASE KeyOf[n] # NoKey
      <4>1. Count(n, WithOwnVote(n, w)) /\ WithOwnVote(n, w) \in Workers
        BY <1>v, <3>2, <1>t, OwnVoteType DEF VoteAndCount
      <4>2. WithOwnVote(n, w).height = w.height
        BY DEF WithOwnVote, Workers
      <4> QED
        BY <4>1, <4>2
    <3> QED
      BY <3>1, <3>2
  <2>2. worker' = [worker EXCEPT ![n] = Counted(u, RoundAfter(u))]
    BY <2>1, <1>t, CountStep
  <2>3. Counted(u, RoundAfter(u)).height = w.height
    BY <2>1 DEF Counted, Workers
  <2> QED
    BY <1>v, <1>q, <2>2, <2>3
<1>1. ASSUME NEW n \in Nodes, TickNoTarget(n) PROVE LadderInv'
  BY <1>1, <1>a, <1>q DEF TickNoTarget, TickUnchanged
<1>2. ASSUME NEW n \in Nodes, TickSkewed(n) PROVE LadderInv'
  BY <1>2, <1>a, <1>q DEF TickSkewed, TickUnchanged
<1>3. ASSUME NEW n \in Nodes, TickNoCommittee(n) PROVE LadderInv'
  BY <1>3, <1>a, <1>r, <1>q DEF TickNoCommittee, TickUnchanged
<1>4. ASSUME NEW n \in Nodes, TickVote(n) PROVE LadderInv'
  <2>1. TargetExists(n, Refreshed(n, Aimed(n)))
    BY <1>4, <1>r DEF TickVote, Coherent, TargetExists
  <2> QED
    BY <1>4, <1>a, <1>r, <1>v, <2>1 DEF TickVote, TickUnchanged
<1>5. ASSUME NEW n \in Nodes, TickSkip(n) PROVE LadderInv'
  <2> DEFINE w == Refreshed(n, Aimed(n))
  <2>1. PICK healthy \in FirstHealthyBoundary(best[n], w.height) :
          TargetExists(n, Aim(best[n], healthy)) /\ VoteAndCount(n, Aim(best[n], healthy))
    BY <1>5 DEF TickSkip
  <2>2. /\ w.height \in Nat /\ best[n] \in Blocks /\ w.pin \in Blocks
        /\ Reached(fin[n], w.height, stored)
    BY <1>t, <1>a, <1>r DEF Workers, TypeOK
  <2>3. SecuredBy(w.height) = {}
    <3>1. Settled(w) /\ Members(w) = {}
      BY <1>5, <1>t, <1>a, RefreshedSettled DEF TickSkip, Coherent
    <3> HIDE DEF w
    <3> QED
      BY <2>2, <3>1, SameCommittee DEF Members, Settled
  <2>4. healthy \in Nat /\ FirstHealthy(healthy, w.height)
    <3> HIDE DEF w
    <3> QED
      BY <2>1, <2>2, SkipIsFirstHealthy
  <2>5. PICK c \in Proven(stored) \cap Chain[fin[n]] : AimsAt(Num[c], w.height)
    BY <2>2 DEF Reached
  <2>6. w.height = Num[c] + Step
    <3> HIDE DEF w
    <3> QED
      BY <2>3, <2>5 DEF AimsAt, FirstHealthy, Healthy
  <2>7. Reached(fin[n], healthy, stored)
    <3> HIDE DEF w
    <3> QED
      BY <2>3, <2>4, <2>5, <2>6 DEF Reached, AimsAt
  <2>8. Aim(best[n], healthy) \in Workers /\ Aim(best[n], healthy).height = healthy
    BY <2>2, <2>4, AimType DEF Aim
  <2> QED
    BY <1>5, <1>v, <2>1, <2>7, <2>8 DEF TickSkip, TickUnchanged
(* A block that alpha members signed is finalised on node n. *)
<1>f. ASSUME NEW n \in Nodes, NEW b \in Blocks, NEW signers, CanFinalise(n, b),
             FinaliseBlock(n, b, signers), b \in Proven(stored) \/ Rests(b, stored),
             \A m \in Nodes \ {n} : worker'[m] = worker[m],
             worker'[n] = worker[n] \/ worker'[n].height = Num[b] + Step
      PROVE  LadderInv'
  <2>1. /\ fin' = [fin EXCEPT ![n] = b] /\ fin[n] \in Chain[b] /\ fin[n] \in Blocks
        /\ stored \subseteq stored'
        /\ \A p \in stored' : p \in stored \/ p.hash = b
    BY <1>f, <1>t DEF FinaliseBlock, CanFinalise, TypeOK
  <2>2. b \in Proven(stored')
    BY <1>f, <1>h DEF FinaliseBlock, Proven
  <2>3. b # Genesis => Rests(b, stored)
    BY <1>f, <1>h DEF Proven
  <2>4. ASSUME NEW p \in stored' PROVE Rests(p.hash, stored')
    <3>1. CASE p \in stored
      BY <3>1, <1>h, <2>1, ProvenGrows
    <3>2. CASE p.hash = b /\ p \notin stored
      <4>1. b # fin[n]
        BY <1>f, <3>2 DEF FinaliseBlock
      <4>2. b # Genesis
        <5>1. Chain[Genesis] = {Genesis}
          BY GenesisLowest
        <5> QED
          BY <4>1, <2>1, <5>1
      <4> QED
        BY <3>2, <2>1, <2>3, <4>2, ProvenGrows
    <3> QED
      BY <2>1, <3>1, <3>2
  <2>5. ASSUME NEW m \in Nodes
        PROVE  fin'[m] \in Proven(stored') /\ Reached(fin'[m], worker'[m].height, stored')
    <3>1. CASE m # n
      <4>1. fin'[m] = fin[m] /\ worker'[m] = worker[m]
        BY <3>1, <1>f, <1>t, <2>1 DEF TypeOK
      <4> QED
        BY <4>1, <1>h, <2>1, ProvenGrows
    <3>2. CASE m = n
      <4>1. fin'[m] = b
        BY <3>2, <1>t, <2>1 DEF TypeOK
      <4>2. Reached(b, worker[n].height, stored')
        BY <1>h, <2>1, ReachedAbove, ProvenGrows
      <4>3. Reached(b, Num[b] + Step, stored')
        BY <2>2, NextTarget
      <4> QED
        BY <1>f, <3>2, <4>1, <4>2, <4>3, <2>2
    <3> QED
      BY <3>1, <3>2
  <2> QED
    BY <1>t, <2>4, <2>5 DEF LadderInv
<1>6. ASSUME NEW n \in Nodes, Finalise(n) PROVE LadderInv'
  <2> DEFINE w == worker[n]
             b == w.round.decision
  <2>1. CASE CanFinalise(n, b)
    <3>1. /\ FinaliseBlock(n, b, ProofSigners(w))
          /\ worker' = [worker EXCEPT ![n] = Aim(best'[n], Num[b] + Step)]
      BY <1>6, <2>1 DEF Finalise
    <3>2. b \in Blocks /\ b # NoHash /\ fin[n] \in Chain[b]
      BY <1>t, <2>1, BlocksAssumption DEF CanFinalise, TypeOK
    <3>3. Supported(b, sent) /\ Num[b] = w.height
      BY <1>t, <3>2 DEF QuorumInv, TargetInv, Backed, OnTarget
    <3>4. Rests(b, stored)
      BY <1>h, <3>2, <3>3, SupportedRests
    <3>5. worker'[n].height = Num[b] + Step /\ \A m \in Nodes \ {n} : worker'[m] = worker[m]
      BY <1>t, <3>1 DEF TypeOK, Aim
    <3> QED
      BY <2>1, <3>1, <3>2, <3>4, <3>5, <1>f
  <2>2. CASE ~CanFinalise(n, b)
    <3>1. /\ worker' = [worker EXCEPT ![n] = [w EXCEPT !.deciding = FALSE]]
          /\ fin' = fin /\ stored' = stored
      BY <1>6, <2>2 DEF Finalise
    <3>2. [w EXCEPT !.deciding = FALSE].height = w.height
      BY <1>t DEF TypeOK, Workers
    <3> QED
      BY <1>h, <1>q, <3>1, <3>2
  <2> QED
    BY <2>1, <2>2
<1>7. ASSUME NEW n \in Nodes, NEW v \in sent, Receive(n, v) PROVE LadderInv'
  <2> DEFINE u == [worker[n] EXCEPT !.votes[Owner(worker[n].pin, v.key)] = v]
  <2>1. worker' = [worker EXCEPT ![n] = u] /\ fin' = fin /\ stored' = stored
    BY <1>7 DEF Receive
  <2>2. u.height = worker[n].height
    BY <1>t DEF TypeOK, Workers
  <2> HIDE DEF u
  <2> QED
    BY <1>h, <1>q, <2>1, <2>2
<1>s. ASSUME worker' = worker, fin' = fin, stored' = stored PROVE LadderInv'
  BY <1>s, <1>t, <1>h DEF LadderInv
<1>8. ASSUME NEW n \in Nodes, NEW b \in Blocks, ImportBlock(n, b) PROVE LadderInv'
  BY <1>8, <1>s DEF ImportBlock
<1>9. ASSUME NEW n \in Nodes, NEW p \in stored, ImportJustification(n, p) PROVE LadderInv'
  <2>1. p.hash \in Blocks /\ p.hash \in Proven(stored)
    BY <1>t DEF TypeOK, Proven
  <2> QED
    BY <1>9, <1>f, <2>1 DEF ImportJustification
<1>10. ASSUME NEW n \in Nodes, Restart(n) PROVE LadderInv'
  <2>1. Aim(best[n], Num[fin[n]] + Step).height = Num[fin[n]] + Step
    BY DEF Aim
  <2>2. Reached(fin[n], Num[fin[n]] + Step, stored)
    BY <1>t, <1>h, NextTarget DEF TypeOK
  <2> QED
    BY <1>10, <1>q, <2>1, <2>2 DEF Restart
<1>11. ASSUME NEW x \in Ballots, OutsideVote(x) PROVE LadderInv'
  BY <1>11, <1>s DEF OutsideVote
<1>12. CASE UNCHANGED vars
  BY <1>12, <1>s DEF vars
<1> QED
  BY <1>1, <1>2, <1>3, <1>4, <1>5, <1>6, <1>7, <1>8, <1>9, <1>10, <1>11, <1>12
  DEF Next, NodeStep, Tick

LEMMA LadderAlways == SameView /\ SameHalts => (Spec => []LadderInv)
<1> SUFFICES ASSUME SameView, SameHalts PROVE Spec => []LadderInv
  OBVIOUS
<1>1. LadderInv /\ [Next]_vars => LadderInv'
  BY LadderStep
<1> QED
  BY <1>1, LadderInit, PTL DEF Spec

(* No rung is missed: nothing is finalised strictly between a rung and the *)
(* next one.                                                               *)
LEMMA NothingBetween ==
  ASSUME NEW S, Proven(S) \subseteq Blocks, \A p \in S : Rests(p.hash, S),
         NEW q \in Proven(S), NEW c \in Proven(S), NextRung(Num[c], Num[q]),
         NEW p \in Proven(S)
  PROVE  Num[p] =< Num[c] \/ Num[q] =< Num[p]
<1> DEFINE Between(x) == \E r, d \in Proven(S) :
                           NextRung(Num[d], Num[r]) /\ Num[d] < Num[x] /\ Num[x] < Num[r]
           Bad == {Num[x] : x \in {y \in Proven(S) : Between(y)}}
<1>t. \A x \in Proven(S) : Num[x] \in Nat
  BY NumType
<1>1. ASSUME Bad # {} PROVE FALSE
  <2>1. PICK k \in Bad : \A m \in Bad : k =< m
    <3>1. Bad \in SUBSET Nat
      BY <1>t
    <3> HIDE DEF Bad
    <3> QED
      BY <1>1, <3>1, LeastCounterexample
  <2>2. PICK x \in Proven(S) : Num[x] = k /\ Between(x)
    OBVIOUS
  <2>3. \A y \in Proven(S) : Between(y) => Num[x] =< Num[y]
    BY <2>1, <2>2
  <2> HIDE DEF Bad
  <2>4. PICK r \in Proven(S), d \in Proven(S) :
          NextRung(Num[d], Num[r]) /\ Num[d] < Num[x] /\ Num[x] < Num[r]
    BY <2>2
  <2>5. Num[x] \in Nat /\ Num[r] \in Nat /\ Num[d] \in Nat
    BY <1>t
  <2>6. x # Genesis
    BY <2>4, <2>5, GenesisLowest
  <2>7. PICK e \in Proven(S) : NextRung(Num[e], Num[x])
    <3>1. Rests(x, S)
      BY <2>6 DEF Proven
    <3> QED
      BY <3>1 DEF Rests
  <2>8. Num[e] \in Nat /\ Num[e] < Num[x]
    BY <1>t, <2>5, <2>7, RungsRise DEF NextRung
  <2>9. CASE Num[e] = Num[d]
    BY <2>4, <2>5, <2>7, <2>9, OneNextRung
  <2>10. CASE Num[d] < Num[e]
    <3>1. Between(e)
      BY <2>4, <2>5, <2>8, <2>10
    <3> QED
      BY <2>3, <2>5, <2>8, <3>1
  <2>11. CASE Num[e] < Num[d]
    <3>1. Between(d)
      BY <2>4, <2>7, <2>11
    <3> QED
      BY <2>3, <2>4, <2>5, <3>1
  <2> QED
    BY <2>5, <2>8, <2>9, <2>10, <2>11
<1>2. ~Between(p)
  BY <1>1
<1> QED
  BY <1>t, <1>2

(* With one block at each rung, what was finalised is one chain.           *)
LEMMA LadderIsChain ==
  ASSUME NEW S, Proven(S) \subseteq Blocks, \A p \in S : Rests(p.hash, S),
         \A p, q \in Proven(S) : Num[p] = Num[q] => p = q,
         NEW p \in Proven(S), NEW q \in Proven(S), Num[p] =< Num[q]
  PROVE  p \in Chain[q]
<1> DEFINE Strays(x) == \E y \in Proven(S) : Num[y] =< Num[x] /\ y \notin Chain[x]
           Bad == {Num[x] : x \in {y \in Proven(S) : Strays(y)}}
<1>t. \A x \in Proven(S) : Num[x] \in Nat
  BY NumType
<1>1. ASSUME Bad # {} PROVE FALSE
  <2>1. PICK k \in Bad : \A m \in Bad : k =< m
    <3>1. Bad \in SUBSET Nat
      BY <1>t
    <3> HIDE DEF Bad
    <3> QED
      BY <1>1, <3>1, LeastCounterexample
  <2>2. PICK x \in Proven(S) : Num[x] = k /\ Strays(x)
    OBVIOUS
  <2>3. \A y \in Proven(S) : Strays(y) => Num[x] =< Num[y]
    BY <2>1, <2>2
  <2> HIDE DEF Bad
  <2>4. PICK y \in Proven(S) : Num[y] =< Num[x] /\ y \notin Chain[x]
    BY <2>2
  <2>5. Num[x] \in Nat /\ Num[y] \in Nat /\ x \in Blocks /\ x \in Chain[x]
    BY <1>t, ChainAssumption
  <2>6. Num[y] < Num[x]
    BY <2>4, <2>5
  <2>7. x # Genesis
    BY <2>5, <2>6, GenesisLowest
  <2>8. PICK c \in Proven(S) \cap Chain[x] : NextRung(Num[c], Num[x])
    <3>1. Rests(x, S)
      BY <2>7 DEF Proven
    <3> QED
      BY <3>1 DEF Rests
  <2>9. Num[c] \in Nat /\ Num[c] < Num[x]
    BY <1>t, <2>5, <2>8, RungsRise DEF NextRung
  <2>10. Num[y] =< Num[c]
    BY <2>5, <2>6, <2>8, <2>9, NothingBetween
  <2>11. y \in Chain[c]
    BY <2>3, <2>5, <2>9, <2>10
  <2>12. Chain[c] \subseteq Chain[x]
    BY <2>5, ChainAssumption
  <2> QED
    BY <2>4, <2>11, <2>12
<1>2. ~Strays(q)
  BY <1>1
<1> QED
  BY <1>2

(* Where nobody signs twice at a height, a height has one finalised block. *)
LEMMA OneBlockPerRung ==
  ASSUME OneKey, LadderInv, ConflictHasDoubleVoter, ~Revoted
  PROVE  \A p, q \in Proven(stored) : Num[p] = Num[q] => p = q
<1>t. TypeOK /\ HeightsHonest(sent) /\ \A p \in stored : Rests(p.hash, stored)
  BY DEF LadderInv, QuorumInv, TargetInv
<1>g. ASSUME NEW p \in stored PROVE p.hash \in Blocks /\ Num[p.hash] # 0
  <2>1. PICK c \in Proven(stored) : NextRung(Num[c], Num[p.hash])
    BY <1>t DEF Rests
  <2>2. p.hash \in Blocks /\ c \in Blocks
    BY <1>t, BlocksAssumption DEF TypeOK, Proven
  <2> QED
    BY <2>1, <2>2, NumType, RungsRise DEF NextRung
<1>1. ASSUME NEW p \in stored, NEW q \in stored, Num[p.hash] = Num[q.hash], p.hash # q.hash
      PROVE  FALSE
  <2>1. PICK a \in Accounts : Voted(a, p.hash, Genesis) /\ Voted(a, q.hash, Genesis)
    BY <1>1 DEF ConflictHasDoubleVoter
  <2>2. PICK v \in sent : v.hash = p.hash /\ Owner(Genesis, v.key) = a
    BY <2>1 DEF Voted
  <2>3. PICK u \in sent : u.hash = q.hash /\ Owner(Genesis, u.key) = a
    BY <2>1 DEF Voted
  <2>4. v.key \in Keys /\ u.key \in Keys
    BY <1>t DEF TypeOK, Votes
  <2>5. v.key = u.key
    BY <2>2, <2>3, <2>4, BlocksAssumption DEF OneKey
  <2>6. v.height = u.height
    BY <1>1, <1>t, <2>2, <2>3 DEF HeightsHonest
  <2> QED
    BY <1>1, <2>2, <2>3, <2>5, <2>6 DEF Revoted
<1>2. ASSUME NEW p \in stored, Num[p.hash] = Num[Genesis] PROVE FALSE
  BY <1>2, <1>g, GenesisLowest
<1> QED
  BY <1>1, <1>2 DEF Proven

(* As long as no member has signed twice at a height, the blocks finalised *)
(* by all nodes, whenever and through whatever came to them, lie on one    *)
(* chain: a node that skipped an entrenchment band skipped to the height   *)
(* every other node skips to.                                              *)
THEOREM AgreementOfHonest == SameView /\ SameHalts /\ OneKey => (Spec => []AgreementUnlessRevoted)
<1> SUFFICES ASSUME SameView, SameHalts, OneKey PROVE Spec => []AgreementUnlessRevoted
  OBVIOUS
<1>1. LadderInv /\ ConflictHasDoubleVoter => AgreementUnlessRevoted
  <2> SUFFICES ASSUME LadderInv, ConflictHasDoubleVoter, ~Revoted,
                      NEW m \in Nodes, NEW n \in Nodes
               PROVE  fin[m] \in Chain[fin[n]] \/ fin[n] \in Chain[fin[m]]
    BY DEF AgreementUnlessRevoted, Agreement
  <2>1. /\ TypeOK /\ \A p \in stored : Rests(p.hash, stored)
        /\ fin[m] \in Proven(stored) /\ fin[n] \in Proven(stored)
    BY DEF LadderInv, QuorumInv, TargetInv
  <2>2. Proven(stored) \subseteq Blocks
    BY <2>1, BlocksAssumption DEF TypeOK, Proven
  <2>3. \A p, q \in Proven(stored) : Num[p] = Num[q] => p = q
    BY OneBlockPerRung
  <2>4. Num[fin[m]] \in Nat /\ Num[fin[n]] \in Nat
    BY <2>1, <2>2, NumType
  <2>5. Num[fin[m]] =< Num[fin[n]] \/ Num[fin[n]] =< Num[fin[m]]
    BY <2>4
  <2> QED
    BY <2>1, <2>2, <2>3, <2>5, LadderIsChain
<1> QED
  BY <1>1, LadderAlways, Accountability, PTL

-----------------------------------------------------------------------------
(* The distribution of finality proofs.                                     *)

(* A proof that travels was stored with a block that some node finalised,  *)
(* and that node's finality is at or above the block ever since.           *)
Backs(q, p) == q.hash = p.hash /\ q.signers = p.signers
Travelled(p) == \E q \in stored : Backs(q, p)

SyncInv ==
  /\ SyncTypeOK
  /\ \A p \in aired : Travelled(p)
  /\ \A n \in Nodes : pending[n] # NoProof => Travelled(pending[n])
  /\ \A q \in stored : Num[q.hash] =< Num[fin[q.node]]

(* A cached or gossiped proof is applied as a justification stored by       *)
(* another node: this node has not finalised that high, so it is not its   *)
(* own.                                                                    *)
LEMMA AppliedIsImported ==
  ASSUME SyncInv, NEW n \in Nodes, NEW p, Travelled(p), ProofApplies(n, p),
         FinaliseBlock(n, p.hash, p.signers), UNCHANGED <<sent, worker, watermark>>
  PROVE  \E q \in stored : ImportJustification(n, q)
<1>1. PICK q \in stored : Backs(q, p)
  BY DEF Travelled
<1>2. /\ q.node \in Nodes /\ q.hash \in Blocks /\ q.hash = p.hash /\ q.signers = p.signers
      /\ Num[q.hash] =< Num[fin[q.node]] /\ fin[n] \in Blocks
  BY <1>1 DEF Backs, SyncInv, SyncTypeOK, TypeOK
<1>3. ~(Num[q.hash] =< Num[fin[n]])
  BY <1>2 DEF ProofApplies, ProofSettled
<1>4. q.node # n /\ q.hash # fin[n]
  BY <1>2, <1>3, NumType
<1> QED
  BY <1>1, <1>2, <1>4 DEF ProofApplies, ImportJustification

(* Every step of the composed workers is a step of the gadget.              *)
LEMMA TryIsGadgetStep ==
  ASSUME SyncInv, NEW n \in Nodes, NEW p, Travelled(p), NEW mark,
         TryApplyProof(n, p, mark), UNCHANGED <<sent, worker, watermark>>
  PROVE  [Next]_vars
<1>1. CASE ProofApplies(n, p)
  <2>1. \E q \in stored : ImportJustification(n, q)
    BY <1>1, AppliedIsImported DEF TryApplyProof
  <2> QED
    BY <2>1 DEF Next, NodeStep
<1>2. CASE ~ProofApplies(n, p)
  BY <1>2 DEF TryApplyProof, client, vars
<1> QED
  BY <1>1, <1>2

LEMMA SyncIsGadgetStep == SyncInv /\ [SyncNext]_allVars => [Next]_vars
<1> SUFFICES ASSUME SyncInv, [SyncNext]_allVars PROVE [Next]_vars
  OBVIOUS
<1>1. ASSUME NEW n \in Nodes, WorkerStep(n) PROVE [Next]_vars
  BY <1>1 DEF WorkerStep, Next, NodeStep
<1>2. ASSUME NEW n \in Nodes, FinaliseStep(n) PROVE [Next]_vars
  BY <1>2 DEF FinaliseStep, Next, NodeStep
<1>3. ASSUME NEW n \in Nodes, NEW v \in sent, ReceiveStep(n, v) PROVE [Next]_vars
  BY <1>3 DEF ReceiveStep, Next, NodeStep
<1>4. ASSUME NEW n \in Nodes, ImportStep(n) PROVE [Next]_vars
  BY <1>4 DEF ImportStep, Next, NodeStep
<1>5. ASSUME NEW n \in Nodes, ProofTick(n) PROVE [Next]_vars
  <2>1. CASE pending[n] = NoProof
    BY <1>5, <2>1 DEF ProofTick, client, vars
  <2>2. CASE pending[n] # NoProof
    <3>1. TryApplyProof(n, pending[n], Raised(n)) /\ UNCHANGED <<sent, worker, watermark>>
      BY <1>5, <2>2 DEF ProofTick
    <3>2. Travelled(pending[n])
      BY <2>2 DEF SyncInv
    <3> QED
      BY <3>1, <3>2, TryIsGadgetStep
  <2> QED
    BY <2>1, <2>2
<1>6. ASSUME NEW n \in Nodes, NEW p \in aired, ReceiveProof(n, p) PROVE [Next]_vars
  <2>1. TryApplyProof(n, p, proofMark[n]) /\ UNCHANGED <<sent, worker, watermark>>
    BY <1>6 DEF ReceiveProof
  <2>2. Travelled(p)
    BY DEF SyncInv
  <2> QED
    BY <2>1, <2>2, TryIsGadgetStep
<1>7. ASSUME NEW n \in Nodes, NEW p \in stored, DeliverJustification(n, p) PROVE [Next]_vars
  BY <1>7 DEF DeliverJustification, Next, NodeStep
<1>8. ASSUME NEW n \in Nodes, RestartNode(n) PROVE [Next]_vars
  BY <1>8 DEF RestartNode, Next, NodeStep
<1>9. ASSUME OutsideStep PROVE [Next]_vars
  BY <1>9 DEF OutsideStep, Next
<1>10. CASE UNCHANGED allVars
  BY <1>10 DEF allVars, vars
<1> QED
  BY <1>1, <1>2, <1>3, <1>4, <1>5, <1>6, <1>7, <1>8, <1>9, <1>10
  DEF SyncNext, SyncNodeStep

LEMMA SyncInit_Inv == SyncInit => SyncInv
<1> SUFFICES ASSUME SyncInit PROVE SyncInv
  OBVIOUS
<1>1. TypeOK
  BY TypeInit DEF SyncInit
<1>2. CatchupTargets(Common, Genesis) \subseteq Blocks
  BY BlocksAssumption, ChainAssumption DEF CatchupTargets
<1>3. SyncTypeOK
  BY <1>1, <1>2, SyncAssumption DEF SyncInit, SyncTypeOK
<1> QED
  BY <1>3 DEF SyncInit, Init, SyncInv

(* A gadget step loses no stored proof and moves no finality back.          *)
LEMMA StoredBelowFinality ==
  ASSUME TypeOK, [Next]_vars, \A q \in stored : Num[q.hash] =< Num[fin[q.node]]
  PROVE  /\ stored \subseteq stored'
         /\ \A q \in stored' : Num[q.hash] =< Num[fin'[q.node]]
<1> DEFINE Kept == /\ stored \subseteq stored'
                   /\ \A q \in stored' : Num[q.hash] =< Num[fin'[q.node]]
<1>t. \A n \in Nodes : fin[n] \in Blocks /\ Num[fin[n]] \in Nat
  BY NumType DEF TypeOK
<1>f. ASSUME NEW n \in Nodes, NEW b, NEW signers,
             CanFinalise(n, b), FinaliseBlock(n, b, signers)
      PROVE  Kept
  <2>1. /\ b \in Blocks /\ fin' = [fin EXCEPT ![n] = b]
        /\ \A m \in Nodes : Num[fin[m]] =< Num[fin'[m]]
    BY <1>f, FinaliseBlockRaises
  <2>2. \A m \in Nodes : fin'[m] \in Blocks /\ Num[fin'[m]] \in Nat
    BY <2>1, NumType DEF TypeOK
  <2>3. \A q \in stored : q.node \in Nodes /\ q.hash \in Blocks /\ Num[q.hash] \in Nat
    BY NumType DEF TypeOK
  <2>4. \A q \in stored : Num[q.hash] =< Num[fin'[q.node]]
    BY <1>t, <2>1, <2>2, <2>3
  <2>5. \A q \in stored' : q \in stored \/ (q.node = n /\ q.hash = b)
    BY <1>f DEF FinaliseBlock
  <2>6. fin'[n] = b /\ stored \subseteq stored'
    BY <1>f, <2>1 DEF FinaliseBlock, TypeOK
  <2> QED
    BY <2>2, <2>4, <2>5, <2>6
<1>s. ASSUME fin' = fin, stored' = stored PROVE Kept
  BY <1>s
<1>1. ASSUME NEW n \in Nodes, Finalise(n) PROVE Kept
  BY <1>1, <1>f, <1>s DEF Finalise
<1>2. ASSUME NEW n \in Nodes, NEW p \in stored, ImportJustification(n, p) PROVE Kept
  BY <1>2, <1>f DEF ImportJustification
<1>3. ASSUME NEW n \in Nodes, Tick(n) PROVE Kept
  BY <1>3, <1>s DEF Tick, TickNoTarget, TickSkewed, TickNoCommittee, TickVote, TickSkip, TickUnchanged
<1>4. ASSUME NEW n \in Nodes, NEW v \in sent, Receive(n, v) PROVE Kept
  BY <1>4, <1>s DEF Receive
<1>5. ASSUME NEW n \in Nodes, NEW b \in Blocks, ImportBlock(n, b) PROVE Kept
  BY <1>5, <1>s DEF ImportBlock
<1>6. ASSUME NEW n \in Nodes, Restart(n) PROVE Kept
  BY <1>6, <1>s DEF Restart
<1>7. ASSUME NEW x \in Ballots, OutsideVote(x) PROVE Kept
  BY <1>7, <1>s DEF OutsideVote
<1>8. CASE UNCHANGED vars
  BY <1>8, <1>s DEF vars
<1>9. ASSUME NEW n \in Nodes, NodeStep(n) PROVE Kept
  BY <1>9, <1>1, <1>2, <1>3, <1>4, <1>5, <1>6 DEF NodeStep
<1> QED
  BY <1>7, <1>8, <1>9 DEF Next

LEMMA TryMarkType ==
  ASSUME SyncTypeOK, NEW n \in Nodes, NEW p, p.hash \in Blocks, NEW mark \in Nat,
         TryApplyProof(n, p, mark)
  PROVE  proofMark' \in [Nodes -> Nat]
<1>1. fin[n] \in Blocks /\ Num[fin[n]] \in Nat /\ Num[p.hash] \in Nat
  BY NumType DEF SyncTypeOK, TypeOK
<1> QED
  BY <1>1 DEF TryApplyProof, SyncTypeOK

LEMMA SyncStep == SyncInv /\ [SyncNext]_allVars => SyncInv'
<1> SUFFICES ASSUME SyncInv, [SyncNext]_allVars PROVE SyncInv'
  OBVIOUS
<1>n. [Next]_vars
  BY SyncIsGadgetStep
<1>t. TypeOK /\ TypeOK' /\ SyncTypeOK
  BY <1>n, TypeStep DEF SyncInv, SyncTypeOK
<1>g. stored \subseteq stored' /\ \A q \in stored' : Num[q.hash] =< Num[fin'[q.node]]
  BY <1>n, <1>t, StoredBelowFinality DEF SyncInv
<1>p. \A p : Travelled(p) => Travelled(p)'
  BY <1>g DEF Travelled
<1>r. ASSUME NEW n \in Nodes PROVE Raised(n) \in Nat
  BY <1>t, NumType DEF Raised, SyncTypeOK, TypeOK
(* What the proof workers keep beside the client. *)
<1>k. ASSUME aired' = aired, pending' = pending, proofMark' = proofMark,
             requested' = requested, restarts' = restarts
      PROVE  SyncInv'
  BY <1>k, <1>t, <1>g, <1>p DEF SyncInv, SyncTypeOK
<1>5. ASSUME NEW n \in Nodes, ProofTick(n) PROVE SyncInv'
  <2>1. \A p \in aired' : p \in aired \/ \E q \in stored : p = Proof(q.hash, q.signers)
    BY <1>5 DEF ProofTick
  <2>2. \A p \in aired' : Travelled(p)'
    <3>1. ASSUME NEW q \in stored PROVE Travelled(Proof(q.hash, q.signers))
      BY DEF Travelled, Backs, Proof
    <3> QED
      BY <2>1, <3>1, <1>p DEF SyncInv
  <2>3. aired' \subseteq [hash : Blocks, signers : SUBSET Keys]
    BY <2>1, <1>t DEF SyncTypeOK, TypeOK, Proof
  <2>4. pending' \in [Nodes -> [hash : Blocks, signers : SUBSET Keys] \cup {NoProof}]
    BY <1>5, <1>t DEF ProofTick, SyncTypeOK
  <2>5. \A m \in Nodes : pending'[m] = pending[m] \/ pending'[m] = NoProof
    BY <1>5, <1>t DEF ProofTick, SyncTypeOK
  <2>6. proofMark' \in [Nodes -> Nat]
    <3>1. CASE pending[n] = NoProof
      BY <1>5, <3>1, <1>r, <1>t DEF ProofTick, SyncTypeOK
    <3>2. CASE pending[n] # NoProof
      <4>1. pending[n].hash \in Blocks /\ TryApplyProof(n, pending[n], Raised(n))
        BY <1>5, <3>2, <1>t DEF ProofTick, SyncTypeOK
      <4> QED
        BY <4>1, <1>r, <1>t, TryMarkType
    <3> QED
      BY <3>1, <3>2
  <2>7. requested' = requested /\ restarts' = restarts
    BY <1>5 DEF ProofTick
  <2> QED
    BY <2>2, <2>3, <2>4, <2>5, <2>6, <2>7, <1>t, <1>g, <1>p DEF SyncInv, SyncTypeOK
<1>6. ASSUME NEW n \in Nodes, NEW p \in aired, ReceiveProof(n, p) PROVE SyncInv'
  <2>1. /\ TryApplyProof(n, p, proofMark[n])
        /\ aired' = aired /\ requested' = requested /\ restarts' = restarts
    BY <1>6 DEF ReceiveProof
  <2>2. /\ p \in [hash : Blocks, signers : SUBSET Keys] /\ p.hash \in Blocks
        /\ proofMark[n] \in Nat /\ Travelled(p)
    BY <1>t DEF SyncInv, SyncTypeOK
  <2>3. proofMark' \in [Nodes -> Nat]
    BY <2>1, <2>2, <1>t, TryMarkType
  <2>4. pending' \in [Nodes -> [hash : Blocks, signers : SUBSET Keys] \cup {NoProof}]
    BY <1>6, <2>2, <1>t DEF ReceiveProof, SyncTypeOK
  <2>5. \A m \in Nodes : pending'[m] = pending[m] \/ pending'[m] = NoProof \/ pending'[m] = p
    BY <1>6, <1>t DEF ReceiveProof, SyncTypeOK
  <2> QED
    BY <2>1, <2>2, <2>3, <2>4, <2>5, <1>t, <1>g, <1>p DEF SyncInv, SyncTypeOK
<1>8. ASSUME NEW n \in Nodes, RestartNode(n) PROVE SyncInv'
  <2>1. /\ pending' = [pending EXCEPT ![n] = NoProof]
        /\ proofMark' = [proofMark EXCEPT ![n] = Num[fin[n]]]
        /\ requested' = [requested EXCEPT ![n] = CatchupTargets(best[n], fin[n])]
        /\ aired' = aired /\ restarts < MaxRestarts /\ restarts' = restarts + 1
    BY <1>8 DEF RestartNode, StartSync
  <2>2. CatchupTargets(best[n], fin[n]) \subseteq Blocks /\ Num[fin[n]] \in Nat
    BY <1>t, ChainAssumption, NumType DEF CatchupTargets, TypeOK
  <2>3. restarts' \in 0..MaxRestarts
    BY <2>1, <1>t, SyncAssumption DEF SyncTypeOK
  <2>4. \A m \in Nodes : pending'[m] = pending[m] \/ pending'[m] = NoProof
    BY <2>1, <1>t DEF SyncTypeOK
  <2> QED
    BY <2>1, <2>2, <2>3, <2>4, <1>t, <1>g, <1>p DEF SyncInv, SyncTypeOK
<1> QED
  BY <1>5, <1>6, <1>8, <1>k
  DEF SyncNext, SyncNodeStep, WorkerStep, FinaliseStep, ReceiveStep, ImportStep,
      DeliverJustification, OutsideStep, syncVars, allVars

LEMMA SyncAlways == SyncSpec => []SyncInv
BY SyncInit_Inv, SyncStep, PTL DEF SyncSpec

(* The gadget with both proof workers, catch-up requests and restarts      *)
(* implements the gadget alone: what reaches a node beside the votes,      *)
(* however late, repeated or cached, never finalises what a verified       *)
(* justification of another node could not.                                *)
THEOREM SyncImplementsGadget == SyncSpec => ImplementsGadget
<1>1. SyncInit => Init
  BY DEF SyncInit
<1>2. SyncInv /\ [SyncNext]_allVars => [Next]_vars
  BY SyncIsGadgetStep
<1> QED
  BY <1>1, <1>2, SyncAlways, PTL DEF SyncSpec, Spec, ImplementsGadget

(* So what holds of the gadget holds of the composed workers.  What is     *)
(* about to be finalised was counted from the committee of its height.     *)
THEOREM SyncCountsInCommittee == OneChain => (SyncSpec => []CountedVotesInCommittee)
BY SyncImplementsGadget, CountedInCommitteeOnOneChain, PTL DEF ImplementsGadget

(* Two blocks of one height finalised anywhere have a double voter.        *)
THEOREM SyncAccountability == SameView => (SyncSpec => []ConflictHasDoubleVoter)
BY SyncImplementsGadget, Accountability, PTL DEF ImplementsGadget

(* Without a double voter, what nodes finalise through votes, travelling   *)
(* proofs, catch-up and cached proofs after restarts is one chain.         *)
THEOREM SyncAgreement == SameView /\ SameHalts /\ OneKey => (SyncSpec => []AgreementUnlessRevoted)
BY SyncImplementsGadget, AgreementOfHonest, PTL DEF ImplementsGadget
=============================================================================
