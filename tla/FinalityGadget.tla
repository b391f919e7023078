------------------------- MODULE FinalityGadget -------------------------
(***************************************************************************)
(* The finality gadget of the node (chain/node/src/finality.rs): the vote  *)
(* worker of every node, its gossip filter, and the import of a finality   *)
(* proof produced by a peer, over the block tree of the Substrate client.  *)
(*                                                                         *)
(* Simplifications.                                                        *)
(*  - A block is its hash, a positive number.  The tree (Chain) is fixed ; *)
(*    which blocks a node has imported, and when, is not.                  *)
(*  - Signatures cannot be forged: `sent` is the set of votes ever signed. *)
(*    The network may lose, delay, repeat and reorder them: a node receives*)
(*    any element of `sent`, any number of times, or never.                *)
(*  - What the runtime answers at a block (committee, session keys, the    *)
(*    entrenchment guard, its spec version) is a constant of that block.   *)
(*  - Ballots are the votes that committee members whose node is not in    *)
(*    the instance may sign, each when it likes; a member whose best chain *)
(*    reorganises signs several blocks at one height.                      *)
(*  - client.finalize_block runs while the block import and the proof      *)
(*    worker may touch the same client: a tick that decides ends with      *)
(*    deciding = TRUE and the call is the separate action Finalise.        *)
(***************************************************************************)
EXTENDS Snowball

CONSTANTS
  Blocks,            \* every block of the tree
  Genesis,           \* its root
  Chain,             \* [Blocks -> SUBSET Blocks]: a block and its ancestors
  Common,            \* the block every node has at the start
  Accounts,          \* cold accounts that can sit in a committee
  Nodes,             \* nodes of the instance
  KeyOf,             \* [Nodes -> session key, or NoKey for a follower]
  Ballots,           \* <<key, block>>: what members without a node here may sign
  Elected(_, _),     \* elect_finality_committee(epoch) on the state of a block
  NoKey,             \* Option::None for a key
  Owner(_, _),       \* account a session key votes for in the state of a block
  Halted,            \* blocks at which the entrenchment guard is on
  Skewed,            \* <<node, block>>: runtime spec differs from the binary's
  Step,              \* FINALITY_STEP
  EpochLength,       \* EPOCH_LENGTH
  Burial,            \* RECOVERY_BURIAL
  Beta               \* FINALITY_BETA

Keys == ({KeyOf[n] : n \in Nodes} \ {NoKey}) \cup {x[1] : x \in Ballots}

ASSUME BlocksAssumption == Blocks \subseteq Nat \ {NoHash} /\ Genesis \in Blocks /\ Common \in Blocks
ASSUME ChainAssumption ==
  /\ Chain \in [Blocks -> SUBSET Blocks]
  /\ \A b \in Blocks :
       /\ IsFiniteSet(Chain[b]) /\ Genesis \in Chain[b] /\ b \in Chain[b]
       /\ \A c \in Chain[b] :
            /\ Chain[c] \subseteq Chain[b]
            /\ b \in Chain[c] => b = c
            /\ \A d \in Chain[b] : c \in Chain[d] \/ d \in Chain[c]
ASSUME AccountsAssumption == IsFiniteSet(Accounts)
ASSUME BallotsAssumption == \A x \in Ballots : x[2] \in Blocks
ASSUME StepAssumption ==
  Step \in Nat \ {0} /\ EpochLength \in Nat \ {0} /\ Burial \in Nat /\ Beta \in Nat \ {0}

VARIABLES
  known,       \* [Nodes -> SUBSET Blocks]: blocks imported
  best,        \* [Nodes -> Blocks]: best block (longest chain)
  fin,         \* [Nodes -> Blocks]: last finalised block
  stored,      \* justifications in the nodes' databases: [node, hash, signers]
  sent,        \* votes signed so far: [height, hash, key]
  worker,      \* [Nodes -> state of run_worker]
  watermark    \* [Nodes -> Nat]: votes at or below it are dropped

client == <<known, best, fin, stored>>
vars == <<known, best, fin, stored, sent, worker, watermark>>

-----------------------------------------------------------------------------
(* The block tree, as the client answers about it. *)
Num == [b \in Blocks |-> Cardinality(Chain[b]) - 1]

(* client.hash(height): the block of the best chain at that height. *)
HashAt(tip, height) ==
  IF \E b \in Chain[tip] : Num[b] = height
  THEN CHOOSE b \in Chain[tip] : Num[b] = height
  ELSE NoHash

(* client.finalize_block: the block must be known and extend the finalised *)
(* one; a best chain that does not hold it is abandoned for it.  A block   *)
(* already finalised is accepted and changes nothing.                      *)
CanFinalise(n, b) == b \in known[n] /\ fin[n] \in Chain[b]

FinaliseBlock(n, b, signers) ==
  /\ fin' = [fin EXCEPT ![n] = b]
  /\ best' = [best EXCEPT ![n] = IF b \in Chain[best[n]] THEN @ ELSE b]
  /\ stored' = IF b = fin[n] THEN stored
               ELSE stored \cup {[node |-> n, hash |-> b, signers |-> signers]}
  /\ UNCHANGED known

-----------------------------------------------------------------------------
(* Which committee secures a height, and at which state it is read. *)
EpochOf(height) == height \div EpochLength

PinnedAt(tip, height) ==
  LET start == HashAt(tip, EpochOf(height) * EpochLength)
  IN  IF start # NoHash THEN start ELSE tip

CommitteeAt(height, at) == Elected(EpochOf(height), at)

ASSUME ElectedAssumption ==
  \A b, at \in Blocks : CommitteeAt(Num[b], at) \in SUBSET Accounts

(* first_healthy_boundary_after, as a set of at most one height. *)
HealthyBoundaries(tip, from) ==
  {h \in from + 1 .. Num[tip] :
     /\ (h - from) % Step = 0
     /\ h + Burial =< Num[tip]
     /\ PinnedAt(tip, h) \notin Halted
     /\ CommitteeAt(h, PinnedAt(tip, h)) # {}}

FirstHealthyBoundary(tip, from) ==
  {h \in HealthyBoundaries(tip, from) : \A g \in HealthyBoundaries(tip, from) : h =< g}

(* The committee members of a view who signed for a block. *)
SignersOf(members, at, keys) == {a \in members : \E k \in keys : Owner(at, k) = a}

(* A signature binds the chain, the height and the block: it verifies where *)
(* and for what it was made, and nowhere else.                             *)
VerifySig(v) == v \in sent

(* verify_proof, on the view of the verifying node's best chain. *)
VerifyProof(tip, b, signers) ==
  LET at      == PinnedAt(tip, Num[b])
      members == CommitteeAt(Num[b], at)
      valid   == {k \in signers : VerifySig([height |-> Num[b], hash |-> b, key |-> k])}
  IN  /\ members # {}
      /\ Cardinality(SignersOf(members, at, valid)) >= Alpha(Cardinality(members))

-----------------------------------------------------------------------------
(* The worker.  votes holds the latest vote received of each account. *)
NoVote == [height |-> 0, hash |-> NoHash, key |-> NoKey]
NoVotes == [a \in Accounts |-> NoVote]

Aim(tip, height) ==
  [height   |-> height,
   pin      |-> PinnedAt(tip, height),
   votes    |-> NoVotes,
   round    |-> NewRound(HashAt(tip, height)),
   deciding |-> FALSE]

Members(w) == CommitteeAt(w.height, w.pin)

(* The re-aim at the top of every tick.  Mutants: the target moves only    *)
(* when this node finalises by voting; the votes of the old target stay.   *)
AimedByVotingOnly(n) == worker[n]
AimedKeepingVotes(n) ==
  IF worker[n].height =< Num[fin[n]]
  THEN [Aim(best[n], Num[fin[n]] + Step) EXCEPT !.votes = worker[n].votes]
  ELSE worker[n]
Aimed(n) ==
  IF worker[n].height =< Num[fin[n]] THEN Aim(best[n], Num[fin[n]] + Step) ELSE worker[n]

(* Committee and session keys are read again each tick and the votes of    *)
(* accounts that left the committee are dropped; the mutant keeps them.    *)
RefreshedUnpruned(n, w) == [w EXCEPT !.pin = PinnedAt(best[n], w.height)]
Refreshed(n, w) ==
  LET at      == PinnedAt(best[n], w.height)
      members == CommitteeAt(w.height, at)
  IN  [w EXCEPT !.pin = at,
                !.votes = [a \in Accounts |-> IF a \in members THEN @[a] ELSE NoVote]]

Holding(w) == {a \in Accounts : w.votes[a] # NoVote}
TallyOfAll(w) ==
  [h \in {w.votes[a].hash : a \in Holding(w)} |-> Cardinality(Holding(w))]
TallyOf(w) ==
  [h \in {w.votes[a].hash : a \in Holding(w)} |->
     Cardinality({a \in Accounts : w.votes[a].hash = h})]

RoundAfter(w) ==
  LET k == Cardinality(Members(w))
  IN  ObserveRound(w.round, TallyOf(w), Alpha(k), Beta,
                   ReachesQuorum(Cardinality(Holding(w)), k))

(* encode_proof: the keys of the votes held for the decided hash. *)
ProofSigners(w) ==
  {w.votes[a].key : a \in {x \in Accounts : w.votes[x].hash = w.round.decision}}

-----------------------------------------------------------------------------
(* Every tick first lifts the watermark to the node's own finality.        *)
(* Mutants: it follows the best block; it stays one target behind.         *)
FollowBest(n) == watermark' = [watermark EXCEPT ![n] = Num[best[n]]]
FollowOneStepBehind(n) == watermark' = [watermark EXCEPT ![n] = Num[fin[n]] - Step]
FollowFinality(n) ==
  watermark' = [watermark EXCEPT ![n] = IF @ < Num[fin[n]] THEN Num[fin[n]] ELSE @]

TickUnchanged == UNCHANGED <<known, best, fin, stored>>

Ticking(n) == ~worker[n].deciding
TargetExists(n, w) == HashAt(best[n], w.height) # NoHash
IsSkewed(n, w) == <<n, PinnedAt(best[n], w.height)>> \in Skewed

(* The chain has not reached the target height. *)
TickNoTarget(n) ==
  /\ Ticking(n) /\ ~TargetExists(n, Aimed(n))
  /\ worker' = [worker EXCEPT ![n] = Aimed(n)]
  /\ FollowFinality(n) /\ TickUnchanged /\ UNCHANGED sent

(* PASSIVE: the runtime at the committee block is not the binary's. *)
TickSkewed(n) ==
  /\ Ticking(n) /\ TargetExists(n, Aimed(n)) /\ IsSkewed(n, Aimed(n))
  /\ worker' = [worker EXCEPT ![n] = Aimed(n)]
  /\ FollowFinality(n) /\ TickUnchanged /\ UNCHANGED sent

Coherent(n) == Ticking(n) /\ TargetExists(n, Aimed(n)) /\ ~IsSkewed(n, Aimed(n))

CanSkip(n, w) == w.pin \in Halted /\ FirstHealthyBoundary(best[n], w.height) # {}

(* Empty committee and nothing to skip to: wait. *)
TickNoCommittee(n) ==
  \E w \in {Refreshed(n, Aimed(n))} :
      /\ Coherent(n) /\ Members(w) = {} /\ ~CanSkip(n, w)
      /\ worker' = [worker EXCEPT ![n] = w]
      /\ FollowFinality(n) /\ TickUnchanged /\ UNCHANGED sent

(* Sign, gossip and count the node's own vote, then tally the round. *)
OwnVote(n, w) ==
  [height |-> w.height, hash |-> HashAt(best[n], w.height), key |-> KeyOf[n]]

WithOwnVote(n, w) ==
  LET a == Owner(w.pin, KeyOf[n])
  IN  IF a \in Members(w) THEN [w EXCEPT !.votes[a] = OwnVote(n, w)] ELSE w

Count(n, w) ==
  \E round \in {RoundAfter(w)} :
    worker' = [worker EXCEPT ![n] =
      [w EXCEPT !.round = round, !.deciding = round.decision # NoHash]]

VoteAndCount(n, w) ==
  \/ KeyOf[n] = NoKey /\ Count(n, w) /\ UNCHANGED sent
  \/ /\ KeyOf[n] # NoKey
     /\ sent' = sent \cup {OwnVote(n, w)}
     /\ \E voted \in {WithOwnVote(n, w)} : Count(n, voted)

TickVote(n) ==
  \E w \in {Refreshed(n, Aimed(n))} :
      /\ Coherent(n) /\ Members(w) # {}
      /\ VoteAndCount(n, w)
      /\ FollowFinality(n) /\ TickUnchanged

(* An entrenchment band: the target jumps to the first healthy boundary    *)
(* and the vote for it is cast in the same tick.                           *)
TickSkip(n) ==
  \E w \in {Refreshed(n, Aimed(n))} :
      /\ Coherent(n) /\ Members(w) = {} /\ CanSkip(n, w)
      /\ \E healthy \in FirstHealthyBoundary(best[n], w.height) :
           \E skipped \in {Aim(best[n], healthy)} :
             TargetExists(n, skipped) /\ VoteAndCount(n, skipped)
      /\ FollowFinality(n) /\ TickUnchanged

(* client.finalize_block on the decision of the tick; a failure is retried *)
(* by the next tick, since the decision stays in the round.                *)
Finalise(n) ==
  LET w == worker[n]
      b == w.round.decision
  IN  /\ w.deciding
      /\ IF CanFinalise(n, b)
         THEN /\ FinaliseBlock(n, b, ProofSigners(w))
              /\ worker' = [worker EXCEPT ![n] = Aim(best'[n], Num[b] + Step)]
              /\ watermark' = [watermark EXCEPT ![n] = w.height]
         ELSE /\ worker' = [worker EXCEPT ![n].deciding = FALSE]
              /\ UNCHANGED <<known, best, fin, stored, watermark>>
      /\ UNCHANGED sent

(* What the gossip filter lets through to the worker.  The horizon above    *)
(* which a vote is not relayed costs at most its delivery.                 *)
Validated(n, v) == v.height > watermark[n] /\ VerifySig(v)

(* A vote delivered by the gossip engine on the topic of the target. *)
Receive(n, v) ==
  LET w == worker[n]
      a == Owner(w.pin, v.key)
  IN  /\ ~w.deciding
      /\ Validated(n, v) /\ v.height = w.height
      /\ a \in Members(w) /\ w.votes[a] # v
      /\ worker' = [worker EXCEPT ![n].votes[a] = v]
      /\ UNCHANGED <<known, best, fin, stored, sent, watermark>>

-----------------------------------------------------------------------------
(* Block import and everything the worker does not control.  An attached   *)
(* justification is verified and stripped when bad, else kept beside the   *)
(* block, unapplied; which signatures a database holds is all it changes.  *)
LongestChain(tip, b) == IF Num[b] > Num[tip] THEN b ELSE tip

ImportBlock(n, b) ==
  /\ b \notin known[n] /\ Chain[b] \ {b} \subseteq known[n] /\ Num[b] > Num[fin[n]]
  /\ Num[b] > Num[best[n]] => fin[n] \in Chain[b]
  /\ known' = [known EXCEPT ![n] = @ \cup {b}]
  /\ best' = [best EXCEPT ![n] = LongestChain(@, b)]
  /\ UNCHANGED <<fin, stored, sent, worker, watermark>>

(* import_justification: a proof stored by a peer is verified, then        *)
(* finalised on this node with the same proof.                             *)
ImportJustification(n, p) ==
  /\ p \in stored /\ p.node # n /\ p.hash # fin[n]
  /\ VerifyProof(best[n], p.hash, p.signers)
  /\ CanFinalise(n, p.hash)
  /\ FinaliseBlock(n, p.hash, p.signers)
  /\ UNCHANGED <<sent, worker, watermark>>

(* A restart loses the worker and keeps the database.  The mutant starts   *)
(* the watermark from genesis.                                             *)
RestartFromGenesis(n) ==
  /\ worker' = [worker EXCEPT ![n] = Aim(best[n], Num[fin[n]] + Step)]
  /\ watermark' = [watermark EXCEPT ![n] = 0]
  /\ UNCHANGED <<known, best, fin, stored, sent>>
Restart(n) ==
  /\ worker' = [worker EXCEPT ![n] = Aim(best[n], Num[fin[n]] + Step)]
  /\ watermark' = [watermark EXCEPT ![n] = Num[fin[n]]]
  /\ UNCHANGED <<known, best, fin, stored, sent>>

(* A member without a node here signs a block at a target height. *)
OutsideVote(x) ==
  /\ sent' = sent \cup {[height |-> Num[x[2]], hash |-> x[2], key |-> x[1]]}
  /\ UNCHANGED <<known, best, fin, stored, worker, watermark>>

Init ==
  /\ known = [n \in Nodes |-> Chain[Common]]
  /\ best = [n \in Nodes |-> Common]
  /\ fin = [n \in Nodes |-> Genesis]
  /\ stored = {}
  /\ sent = {}
  /\ worker = [n \in Nodes |-> Aim(Common, Step)]
  /\ watermark = [n \in Nodes |-> 0]

Tick(n) == TickNoTarget(n) \/ TickSkewed(n) \/ TickNoCommittee(n) \/ TickVote(n) \/ TickSkip(n)

NodeStep(n) ==
  \/ Tick(n)
  \/ Finalise(n)
  \/ \E v \in sent : Receive(n, v)
  \/ \E b \in Blocks : ImportBlock(n, b)
  \/ \E p \in stored : ImportJustification(n, p)
  \/ Restart(n)

Next == (\E n \in Nodes : NodeStep(n)) \/ (\E x \in Ballots : OutsideVote(x))

Spec == Init /\ [][Next]_vars

-----------------------------------------------------------------------------
Votes == [height : Nat, hash : Blocks, key : Keys]
Rounds == [pref : Blocks \cup {NoHash}, streak : Nat, decision : Blocks \cup {NoHash}]
Workers == [height : Nat, pin : Blocks, votes : [Accounts -> Votes \cup {NoVote}],
            round : Rounds, deciding : BOOLEAN]

TypeOK ==
  /\ known \in [Nodes -> SUBSET Blocks]
  /\ best \in [Nodes -> Blocks] /\ fin \in [Nodes -> Blocks]
  /\ stored \subseteq [node : Nodes, hash : Blocks, signers : SUBSET Keys]
  /\ sent \subseteq Votes
  /\ worker \in [Nodes -> Workers]
  /\ watermark \in [Nodes -> Nat]

(* The account behind the key voted for the block, read at the block `at`. *)
Voted(a, b, at) == \E v \in sent : v.hash = b /\ Owner(at, v.key) = a

(* Every vote a node counts was signed, is for the node's current target   *)
(* and is counted for the account its key votes for: no vote outlives the  *)
(* target it was cast for, however the target moved.                       *)
HeldVotesGenuine ==
  \A n \in Nodes : \A a \in Holding(worker[n]) :
    LET v == worker[n].votes[a]
    IN  v \in sent /\ v.height = worker[n].height /\ Owner(worker[n].pin, v.key) = a

(* Two different blocks of one height are both finalised, by any two nodes *)
(* at any two moments, only if some committee member signed for both: the  *)
(* two quorums of alpha members overlap.  This is the accountability that  *)
(* the threshold of observe_round and verify_proof buys; it holds across   *)
(* reorganisations, stale tallies, retried decisions and imported proofs.  *)
ConflictHasDoubleVoter ==
  \A p, q \in stored :
    Num[p.hash] = Num[q.hash] /\ p.hash # q.hash =>
      \E a \in Accounts : Voted(a, p.hash, Genesis) /\ Voted(a, q.hash, Genesis)

Revoted == \E v, u \in sent : v.key = u.key /\ v.height = u.height /\ v.hash # u.hash
Agreement == \A m, n \in Nodes : fin[m] \in Chain[fin[n]] \/ fin[n] \in Chain[fin[m]]

(* As long as no member has signed twice at a height, the finalised blocks *)
(* of all nodes lie on one chain.                                          *)
AgreementUnlessRevoted == Revoted \/ Agreement

(* What is about to be finalised was counted from members of the committee *)
(* that secures the target height on the node's own chain: no vote slips   *)
(* in through a committee read before the epoch's first block arrived.     *)
CountedVotesInCommittee ==
  \A n \in Nodes : worker[n].deciding =>
    Holding(worker[n]) \subseteq
      CommitteeAt(worker[n].height, PinnedAt(best[n], worker[n].height))

(* The justification packed for a finalised block is one that peers can    *)
(* verify: it carries alpha signatures of the committee of its height.     *)
StoredProofsVerify ==
  \A p \in stored :
    LET at      == PinnedAt(p.hash, Num[p.hash])
        members == CommitteeAt(Num[p.hash], at)
    IN  Cardinality(SignersOf(members, at, p.signers)) >= Alpha(Cardinality(members))

(* The gossip filter never outruns finality: a vote that could still matter*)
(* (above the finalised block) is not dropped, and the watermark only      *)
(* rises, across restarts as well.                                         *)
WatermarkBehindFinality == \A n \in Nodes : watermark[n] =< Num[fin[n]]
WatermarkMonotone == [][\A n \in Nodes : watermark[n] =< watermark'[n]]_vars
=============================================================================
