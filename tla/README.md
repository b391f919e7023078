# Harlequin: specification and verification

Harlequin is a Substrate solochain ("Woven-Trust Consensus"): committees are
drawn from earned reputation, a Snowball-style gadget in the node finalises
blocks, and a set of pallets keeps reputation, justice, two coins (HLQ and SOV),
a market and the upgrade keys. This directory holds TLA+ modules that model the
node's consensus and every pallet that keeps state, TLC runs over small
instances, and TLAPS proofs of the facts that matter most for every instance.

`PROJECT.json` is the machine-readable index: which definition models which
lines, which run checks which property, which mutation of the model each
property refutes, and every hazard known so far with the line where it bites.

Contents: 1 the system; 2 the modules; 3 the runs; 4 fairness; 5 the proofs;
6 what was found; 7 what is left out; 8 what is open; 9 how to run it.

## 1. The system

### 1.1 Components, their state and what makes them correct

| Component (under `src/chain`) | State | Operations | Correct when |
|---|---|---|---|
| **Snowball rounds** `consensus-core/src/{finality,snowball}.rs` | preferred hash, streak, decision | `observe_round` on the tally of a tick | a decision needs an unbroken streak of quorate rounds for one hash, and is final |
| **Vote worker** `node/src/finality.rs` `run_worker` | target height, committee and key map, latest vote per account, round, vote watermark | tick (re-aim, skew guard, prune, skip over a halt, sign, tally, decide, `finalize_block`, retry), vote receipt | no two nodes finalise conflicting blocks unless a member signed both; a vote never outlives its target; stored justifications verify; finality advances |
| **Proof distribution** same file, `run_proof_worker`, `try_apply_proof`, `on_start` | highest pending proof, proof watermark, justifications requested at start | tick, proof receipt, application, catch-up request | every node reaches the last finalised target; no filter discards what is still needed |
| **Slot authoring** `node/src/service.rs` | last slot of each node, best block, blocks ordered | the slot loop, the authorship task, the gate on the runtime's version at start | nodes whose branches part within an epoch still let one mask lead a slot |
| **Record provider** `node/src/participation_inherent.rs` | none; reads the justifications of its node | builds the record of a block | what an author holds is reported whole |
| **Pool screen** `node/src/txguard.rs` | none | judges a transaction by its first byte, answers a batch in place | each transaction gets its own answer |
| **Beacon** `consensus-core/src/beacon.rs`, `pallet-beacon` | seed, commitments of this and the last epoch, revealed secrets, active keys | `commit`, `reveal`, roll at an epoch's first block | a key is fixed a full epoch before the seed it is drawn with is known; storage order does not matter |
| **Sortition** `consensus-core/src/sortition_fp.rs` | none | who may be drawn, seats by reputation, redraws | a committee is of members with standing and a node, and never too small while enough of them exist |
| **Reputation** `pallet-reputation`, `reputation-core` | evidence and its journal, snapshots, vouches, attestations, vote-key maps, entrenchment guard and bands | attest, claim, vouch, revoke, bind a key; the recount of an epoch; slash and cascade; the root's corrections | standing comes from evidence; evidence can be disputed; a pair cannot fabricate it; a slash leaves sponsors half; bands tell when the chain halts |
| **Justice** `pallet-justice` | cases, draw queue, votes, marks | open, draw, vote, close, lapse | a case waits for its jury exactly while queued; parties cannot turn a tally; no record answers for two verdicts |
| **Multisig upgrade** `pallet-multisig-upgrade` | seats, life, pending upgrade, renewal and cession, spent vetoes | propose, approve, veto, apply, burn, renew, co-sign, cede | only the holders of the day count; a life is extended only once it has run out |
| **Tokens and the fee lane** `pallet-tokens`, `tokens-core`, `runtime/src/{lib,check_nonce}.rs` | balances, minted, burned, era; feeless budget per mask and per block; existence references and nonces | `transfer`; fee withdraw, refund, settle; feeless grant; newborn entry and removal; era emission | coin is conserved and never ahead of its curve; references balance; the lane is rationed |
| **Participation** `pallet-participation` | committee of the epoch, who was credited for which height, service per epoch and era, streaks, block author | inherent `note_participation`, fold in `on_initialize` | no height credited twice, no service lost between epoch and era |
| **Hosting** `pallet-hosting` | last day and streak per mask, days and masks per era | `heartbeat`, read and clear of an era | a day is paid once, with its era, after an unbroken streak |
| **Market, pacts** | offers, deals, pacts, open-slot counters | publish, withdraw, propose, confirm, cancel, reap; sign, seal | counters equal what is stored; what closes was called for by everyone |
| **Content pallets** directory, forum, news, manifesto; `forum-core` | handles, threads, news | claim, post, publish, withdraw | handles map one-to-one, threads are trees, slots are counted; a reader gets what was written |
| **Runtime** `runtime/src/lib.rs` | none of its own | wiring, constants, hook order, genesis presets, adapters | clocks, electorates and windows of the pallets fit one another and the node's |
| **Wallet, relay path** `wallet-core`, `sphinx-core/src/route.rs`, the tools beside the node | none | sign, verify, commit, seal; choose relays | a signature serves one use; relays are drawn by reputation |
| **Vendored sync, tools, simulators, web, ops** | — | — | outside the program |

### 1.2 How they interact

* **Node and runtime.** The vote worker asks the runtime, at a *pinned* block (the
  first of the target's epoch on the best chain, or the best block while that
  one is missing), for the committee of an epoch, the account behind a session
  key, the entrenchment guard and the spec version. The slot loop asks at its best
  block for standing, vote keys and the beacon. The answer depends on the
  block, which is why two nodes on two branches may disagree.
* **Workers of one node.** The vote worker, the proof worker and block import
  share one client (imported blocks, best block, finalised block, stored
  justifications) and nothing else. Each keeps a watermark for its own gossip
  filter. `finalize_block` is asynchronous: another worker may move finality
  between the decision and the call. The record provider reads the same stored
  justifications.
* **Nodes.** Votes and proofs are gossiped. Nothing numbers them, so they can be
  lost, repeated and reordered; a vote from long ago is still a valid vote.
* **Pallets.** `on_initialize` runs in the order of the pallet indices
  (reputation 1, justice 7, beacon 8, tokens 9, participation 12, multisig 14,
  hosting 16), `on_finalize` afterwards. The emission runs in tokens' `on_finalize`, to
  find the era already folded by participation. Participation feeds reputation
  (service becomes evidence), participation and hosting feed tokens, reputation feeds
  the electorates of finality, juries and renewals, justice strikes evidence.
* **A signed extrinsic.** `HlqCheckNonce` admits the mask (creating a record for a
  newborn one), `ChargeTransactionPayment` with `HlqTxPayment` grants a feeless
  slot or withdraws the fee, the call runs, then both settle in that order.

### 1.3 The hard behaviours

Stale votes after a reorganisation; finality moved by import under a worker that
holds votes; a decision whose finalisation fails and is retried; committees that
change at epoch boundaries or are read too early; halts and runtime skew that
make a node passive; proofs that expire at the very height they prove; restarts;
slots in which two nodes read different states; a fee that takes the last coin of
the account that is paying it; a newborn mask whose first call fails; rounding of era
pools against a hard cap; service counted in one block, folded in another and paid in
a third, by three pallets that clear behind each other; records of different authors
that repeat a height while keys are bound anew; a slash that climbs through cycles of
vouches; attestations that echo between two masks; interest that changes between the
filing of a case, its draw, the votes and the verdict; two cases over one record;
seats that change hands while approvals are pending, vetoes spent, lives renewed and
keys burnt around them; counters of open deals freed along three paths. The
`hazards` of `PROJECT.json` list them with their lines.

## 2. The modules

| Module | Models | Kind |
|---|---|---|
| `Snowball` | thresholds and `observe_round` as operators | pure rules |
| `SnowballNode` | `snowball.rs`, the two-colour voter | abstract specification |
| `FinalityRound` | `finality.rs` of consensus-core, one round fed any tallies | component, refines `SnowballNode` |
| `Authoring` | the slot loop of `service.rs` | component |
| `FinalityGadget` | vote worker, vote filter, imports, restarts | component |
| `FinalitySync` | extends it with proof worker, proof filter, catch-up at start | composition |
| `BeaconState` | the beacon pipeline of consensus-core | abstract specification |
| `Beacon` | pallet-beacon | component, refines `BeaconState` |
| `TokensCore` | the arithmetic of tokens-core and `cap_weights` | pure rules |
| `Ledger` | the host ledger of tokens-core | abstract specification |
| `Emission` | the emission of one coin, era by era | abstract specification |
| `Tokens` | pallet-tokens under the fee adapter and the nonce check | component, refines `Ledger` and `Emission` (twice) |
| `Participation` | pallet-participation, the node's provider of its record, the two maps of the vote keys in pallet-reputation, and pallet-hosting | components |
| `Era` | the four pallets through which service flows, in hook order | composition |
| `ReputationCore` | trust propagation, aggregate, guard, quota and the host's registry of vouches of reputation-core; `sortition_fp` of consensus-core | pure rules |
| `Reputation` | pallet-reputation without the vote keys | component |
| `ReputationEpochs` | blocks and calls over `Reputation`, the electorate of finality | composition |
| `Justice` | pallet-justice, extends `Reputation` | component |
| `Court` | blocks and calls over `Justice` and `Reputation` | composition |
| `MultisigUpgrade` | pallet-multisig-upgrade | component |
| `Agreements`, `Board` | what deals and pacts, offers and news have in common | abstract specification, shared part |
| `Market`, `Pacts`, `Commons` | pallet-market, pallet-pacts, directory with forum and news | components; the first two refine `Agreements` |
| `Society` | the three on one chain | composition |
| `Runtime` | parameters, hook order and presets of both builds; what keys sign and seal (wallet-core and the tools) | pure rules |
| `Edge` | `txguard.rs`, forum-core, `route.rs` | pure rules |
| `MC*` | instances; `MCConsensus` also composes `Authoring` with `FinalityRound` over one height | model checking |
| `Sums` | finite sums and their folds, least elements, counting | lemmas |
| `FinalityGadget_proofs` | vote workers, proof distribution | theorems |
| `Consensus_proofs` | `FinalityRound`, `Authoring`, `Beacon` with `BeaconState` | theorems |
| `Tokens_proofs`, `Era_proofs` | coins; service, standing evidence, records of votes, hosting, vote keys, emission | theorems |
| `Court_proofs` | `Court`, `ReputationEpochs` | theorems |
| `MultisigUpgrade_proofs`, `Society_proofs` | the module each is named for | theorems |

Operators written to be wrong on purpose stand just before the definition they
mutate (`AimedKeepingVotes` before `Aimed`); no specification uses them.

### 2.1 The round and the slots: `Snowball`, `SnowballNode`, `FinalityRound`, `Authoring`, `MCConsensus`

A hash is a positive number, since the code uses only equality and the order
that breaks ties; a tally is a function from hashes to counts. `ObserveRound`
is the whole of `FinalityRound::observe_round`: a decided round is frozen, a
round in which no hash reaches alpha resets the streak, another leader starts it
at one. `FinalityRound` feeds it every tally of a committee whose size may
change between rounds and keeps the last Beta leaders as history (`led`).

`Authoring` is one slot after another of every node: it wakes once a slot (`handled`
is its `last_slot`, which a restart forgets), reads the state of its own best block
(`View`), draws a committee among `Candidates` and lets one member lead. A draw is a
function of what it is made from, and of nothing else is anything known: the first node that draws
from given inputs picks the outcome, kept in `draws`. The leader orders a block (`Order`, into a channel that
may be full); the authorship task (`Author`) builds it later, on what is the best block of its node by then.

The blocks are a tree (`blocks`, each with its ancestors). A node that is behind, or cut off, seals on its own best
block and goes on from there, for as long as it is elected by what that branch says; `Import` takes it to a higher
branch once it hears of one. The first block of an epoch settles standing, beacon and seed anew (`Settled`), to whatever
its branch has come to: two branches settle one epoch differently. Any block may bind or release a vote key (`Rebound`).
Best blocks move by the longest chain only; that a finalised block can force a node off its branch is in the gadget below.

`MCConsensus` seals a height, buries it, and runs the round of a voter on it.

### 2.2 The gadget: `FinalityGadget`

The tree of blocks is a constant (`Chain`: a block to its ancestors and itself);
`known`, `best`, `fin` and `stored` are the client of each node. `worker[n]` is
the local state of `run_worker`: `height` is `target_height`, `pin` the block at
which committee and keys were last read (the code keeps the committee and the
map; both are functions of that block), `votes`, `round`. `sent` is the set of
votes ever signed, from which any node receives any element at any time: that is
loss, delay, repetition and reordering at once.

One iteration of the loop is one of five tick actions, by the exit it takes:
`TickNoTarget` (the chain is not there yet), `TickSkewed` (PASSIVE), `TickNoCommittee`,
`TickSkip` (an entrenchment band: the target jumps and the vote is cast in the
same tick), `TickVote`. All of them first lift the watermark and re-aim past what
was finalised meanwhile (`Aimed`), as the code does. A tick that decides sets
`deciding`; `Finalise` is the awaited `finalize_block`, with its failure branch.
`Receive` is the vote stream, with the filter and the committee and key checks;
`ImportBlock` is longest-chain import; `ImportJustification` is the verified
import of a peer's proof; `Restart` keeps the client and rebuilds the rest.
Committee members whose node is not part of an instance sign whatever `Ballots`
allows, whenever they like.

### 2.3 Proofs between nodes: `FinalitySync`

It adds the proof worker to each node. `ProofTick` publishes the proof of the
finalised block if the filter lets it out and retries the cached proof;
`ReceiveProof` caches the highest and tries at once; `DeliverJustification` is
the answer to a request made in `on_start`, for at most `MaxCatchupTargets`
targets; `RestartNode` empties cache and marks and asks again.

### 2.4 The beacon: `BeaconState`, `Beacon`

`BeaconState` is the promise: commitments of an epoch are opened in the next and
drawn with in the one after, and the seed folds the sorted secrets. `Beacon` is
the storage, the two calls and `on_initialize`, where the storage map is
iterated in *any* order; `Sorted` puts what is folded in order by rank. SHA-256 is an injective function with digests no secret
opens; a folded seed is the sequence of what was folded. `CommittedDraw` is the
election in one round, for a holder of all commitments and secrets.

### 2.5 Coins: `TokensCore`, `Ledger`, `Emission`, `Tokens`

`Ledger` is the host ledger of tokens-core, `Emission` the emission of one coin era by era;
`Tokens` is the pallet in the runtime, which implements both.

`account[a]` joins the ledger entry of pallet-tokens and the `frame_system` record
(`sufficients`, `nonce`) because the calls of this code change both. An
extrinsic is a record `tx` that goes through *prepared*, *done* or *failed*, and
settlement, so that every property is examined between the three. A rejected
preparation leaves no trace and is no step. `Credited` and `Debited` are `credit`
and `debit` with their existence references; `Entered` and `Leaving` are the two
halves of `HlqCheckNonce`; `PrepareFeeless`, `PreparePaying`, `SettleFeeless`,
`SettlePaid` are the fee adapter. A call of the lane is `Free`: none of the calls
in `feeless_eligible` moves coin, and it may succeed or fail. `NextBlock` is the
`on_finalize` of the block, with `run_epoch` at an era's end, then the
`on_initialize` of the next, whose author the inherent may or may not declare.
Under `Ledger` a fee that is withdrawn and not yet settled still belongs to its payer (`SecuredOf`), since
the host charges it in one step: `Held` is the balance with it. `born` and `granted` are history variables.
The weights of an era's split are functions of a recipient's place in the list, as is the cap of `CapWeights`, k times
their lower `Median`. That both coins refine `Emission` (`ImplementsEmission`) is proved, not run.

### 2.6 Service: `Participation`, `Era`

The component modules hold the storage of their pallet and one operator per hook or
call; `Era` puts them together in the order in which the runtime calls them. A block goes through
`OpenBlock` (the `on_initialize` hooks: reputation reads the ended epoch, *then* participation
folds and clears it), `Note` (the mandatory record, before any extrinsic), beats and
bindings in any order and number, and `CloseBlock` (the `on_finalize` of tokens, which reads
and clears the era that ended). Maps keyed by epoch or era are functions on `Periods`; an absent entry is zero
or `None`.

A record is either honest, built by `ProviderFor` from whatever the author's node has stored (`Stores`), or
anything at all: `valid` says whether the signature verifies, the signer is any key.
`Fresh`, `Checked` and `Genuine` are the successive filters of the loop of
`note_participation`, by position in the record, and `Counted` its set `seen_votes`. The committee each epoch
elects is a constant (`Elected`); what is modelled is when it is cached, read and pruned.
`ColdOf` resolves a key by the forward map, as the committee does, `MaskOf` by the reverse one, as
the heartbeats do.

`ledger` (each credit, with the block that made it), `beatLog`, `paid` and `hostPaid` (what tokens read of an
era) are history variables: the properties compare the pallets' counters with them.
`Evidence` is what reputation admitted for service, before decay.

### 2.7 Standing: `ReputationCore`, `Reputation`, `ReputationEpochs`

`ReputationCore` keeps the fixed point of the code, with a smaller `Scale`, and its truncations:
trust propagated through the vouches of a suit from the evidence as anchor, damped by suspicion of
communities and concentration; the concave aggregate over suits; the entrenchment guard; the quota.
The sortition keeps its Poisson inverse; the value of the VRF is an input.

`Reputation` keeps the storage items of the pallet under their names and has one operator per call and
hook. `Evidence` is the live amount per mask and suit, `EvidenceRecords` its itemised journal,
`ReputationSnapshot` the last recount; `Attestations` wait to be claimed, and `PairAttestCount` wears
the testimony of a pair off; `EntrenchmentBands` are the bands during which the
chain halts. `CascadeSlash` follows the vouches level by level (`CascadeLevel`, `CascadeHit`) as the code does, visiting each sponsor once
and leaving it half. `testified` is a history variable. A record of the journal is worth its amount times whole powers of the
retention, rounded down once; the code rounds the power to a millionth first. `ReputationEpochs` ends an epoch
with every block and lets masks and root
call in between. The electorate of finality is drawn from what the epoch left.

### 2.8 Justice: `Justice`, `Court`

The storage maps of one case are one record. `DrawQueue` is the map from a block to the cases due in
it, bounded per block: `Queue` takes the next block with room within the search, or the case is not
opened; `DrawJuries` draws what is due, and a case nobody can sit on lapses. A jury is the first of a
draw and its redraws that reaches the floor, or the largest. `Counting` is the set of jurors whose vote
counts at the tally, which the code recomputes with the interest of that day. `Court` adds blocks, filings, votes,
closings, and vouches between parties and jurors.

### 2.9 The upgrade key: `MultisigUpgrade`

A code is its hash. `society` is what the pallet reads of the rest of the runtime (standing, the
bar of high standing, the entrenchment halt) and changes with any block. Upgrades, renewals and
cessions are three machines over the same seats; `Upgrading`, `Renewing`, `Ceding` group their calls.
`applied` is a history variable: each code that landed, with the seats and approvals of that moment and whether it had
been vetoed.

### 2.10 Public life: `Agreements`, `Board`, `Market`, `Pacts`, `Commons`, `Society`

`Agreements` is what deals and pacts promise alike: who proposed is a party, one closes with the
consent of the last party and not before, a closed one never changes, an id is not used twice, nobody has more
open ones than allowed. `Market` and `Pacts` implement it under `Agreed`; who consents is
who made the call, in `Market` by the history `SignedBy`, in `Pacts` by the signers it stores. `Board` is the part offers and news
share: entries stay, their author may withdraw them, so many may be listed. `Commons` has handles, threads and news. `Society` runs all three on one chain.

### 2.11 Pure rules: `Runtime`, `Edge`

`Runtime` states the parameters with which each pallet of each build is configured, the presets,
the order of hooks and extensions, and every message a key signs; `RuntimeCoherent` is an assumption TLC
evaluates: `ClocksAgree` (one epoch for reputation, participation, beacon, multisig and budget; eras of whole epochs and
days), `ElectionsAgree`, `WindowsFit` (a beat's block hash, a jury's delay, a record's votes are
still there when they are needed), `HooksOrdered`, `LaunchIsFair`, `SignaturesKeepToTheirUse` (nothing
signed for one use, build, chain or datum passes for another, nor for a transaction), `SealsAreOrderless`.
Messages are a label and fields of fixed width, so that two coincide exactly when the code's bytes would.

`Edge` has the screen of the pool, the bytes of a post and the choice of relays.
The other assumptions of this kind compare an algorithm with a definition of its result over
all small inputs: `SearchIsExact`, `EachSponsorOnce`, `GraduationKeepsLiability` (`MCReputation`: the registry of
vouches, over all graphs of up to four ties), `PathByReputation`, `BatchAnsweredInPlace`,
`PostsReadAsWritten` (`MCSociety`), `SortedAscends` and `CommittedDrawIsPipelined` (`MCBeacon`: the order by rank is
that of a sort; the election in one round draws with the seed the pipeline would).

## 3. The runs

| Run | Instance | Shows |
|---|---|---|
| `round` | two founders with a node each, a session key, three registers, epochs of 2, trees of 4 blocks; then 2 hashes, committees of 1, 2, 4, 5, Beta 4, streak up to 6 | `OneMaskPerSlot`, `DecidesOnUnbrokenStreak`, `ImplementsSnowballNode` |
| `fork_safety` | two validators and two members elsewhere; a fork at #2 after a halted #1; Step 1, Beta 2; restarts | `HeldVotesGenuine`, `ConflictHasDoubleVoter`, `AgreementUnlessRevoted`, `WatermarkBehindFinality` |
| `sync` | 10 blocks, Step 3, epochs of 4; a validator whose runtime lags until #8, a follower, two members elsewhere; one restart | `CountedVotesInCommittee`, `ImplementsGadget`, `EveryNodeFinalises` |
| `beacon` | two accounts, three secrets of which one is too long, epochs of 2, 6 blocks | `ActiveKeysLocked`, `ImplementsBeaconState` |
| `tokens` | a founder, a citizen with 2 HLQ, a mask without record; eras of 1, budget epochs of 2, 3 extrinsics, 3 blocks | `ImplementsLedger`, `ReferencesBalanced`, `FeelessRationed`, `BornMasksKeepNonce`, `FoundersEarnNothing` |
| `era` | two masks with a hot key each; epochs and days of 1, eras of 2; 6 blocks, 3 records, beats or bindings | `CreditedOnce`, `ServiceConserved`, `EvidenceMatchesService`, `StreakIsEndurance`, `HostedDaysEarned`, `HostDaysConserved`, `MapsInverse`, `HonestRecordsWhole` |
| `reputation` | four masks, one above a third of all standing; every block ends an epoch; 3 calls, 5 blocks | `PairFabricationBounded`, `EvidenceIsDisputable`, `BandsTrackHalts`, `CommitteeViable`, `StandingIsEarned`, `SponsorsKeepHalf` |
| `court` | a plaintiff, a defendant with two records, three who may sit, one of them its old sponsor; two cases, one new tie, jury of 2, one draw per block, 6 blocks | `AwaitingIsQueued`, `DocketInOrder`, `RectifiedOnce`, `PartiesCannotTurnTheTally`, `SeatedJurorsCanVote` |
| `multisig` | four seats, the last the custody, and an outsider; thresholds 2, 3, 4; life 3, window 1; 6 calls, 5 blocks | `CodeHasQuorum`, `RenewalAtTheEnd` |
| `society` | three masks, two with colliding handles; one slot of each kind; 5 calls, 3 blocks | `BooksBalance`, `AgreementsKept` |
| `fork_agreement` | two validators, Beta 4 | `Agreement` fails (section 6) |
| `fork_retry` | a validator and three members elsewhere, Beta 2 | `StoredProofsVerify` fails (section 6) |

What they mean, and why the bounds suffice:

* `round`. Sizes 1, 2, 4 and 5 are those at which alpha is one, all, three quarters
  and four fifths of the committee, so both arms of its definition are met; Beta 4 leaves
  room for a streak to break at every position. The bound on the streak matters only
  while the quorum flag is down, where nothing else changes. For the slots, two nodes
  are what a disagreement takes, and four blocks are two branches out of genesis, or out of the first block of an epoch,
  that both cross into the next: there the two registers, and the leaders, differ. The registers have everyone settled, nobody
  reputed, and one founder alone in the beacon under another seed; the session key can be taken over by the other founder.
* `fork_safety`. Four members have alpha 3, so a quorum needs nodes and outsiders, and
  two quorums overlap in two. Targets are at every height: the guard is on at #1, so the
  first target is waited for and then skipped; the fork is at #2, where every order of
  stale vote, reorganisation, decision, failing `finalize_block`, imported proof and
  restart is met; past it the target has no committee, and on the longer branch the runtime is
  newer than the binaries. The state space is complete, 233,299 states. Conflicts between
  different heights of two branches are left to the proofs, which hold for any tree.
  `ConflictHasDoubleVoter` is accountability: whoever finalised conflicting blocks, some
  member signed both. `AgreementUnlessRevoted` is the safety users get from it.
* `sync`. The committee of epoch 2 read before block #8 has an extra member (M), and the
  second target is #9 with #6 the first: so every node can hold votes of the wrong
  committee, can be carried by import across the boundary, and B is PASSIVE until its
  runtime is enacted. Epoch 0 has no committee and is halted, so the first target is
  reached only by skipping. One restart at any moment is enough to lose each cache once.
  `EveryNodeFinalises` is the liveness property: finality ends at the last target on
  every node, the follower included. It is the proof gossip that achieves this:
  nothing is assumed of catch-up at start. `ImplementsGadget` says that the proof worker with its cache,
  its filter and the requests at start adds nothing to the gadget: whatever a node finalises through
  them, it could have taken from a verified justification of another node.
* `beacon`. A commitment needs three epochs from commit to draw; six blocks have the start of
  a fourth, in which a leftover of the first would be seen. Two accounts are what it
  takes for order to matter.
* `tokens`. Fees of 1 and 2 against a balance of 2 let the fee take the last coin and the
  refund bring it back; with the author among the payers, the founder and nobody, every
  arm of the settlement is met. The HLQ curve (4, 2 with cap 7) and SOV curve (2, 2 with cap 3)
  run into their caps in the second era, a founder serves and hosts (its slice is not
  minted), and the service weights 1 and 5 meet the cap of twice the median. The lane is
  exhausted by weight within a block and by budget within a budget epoch. Conservation of coin is
  what `ImplementsLedger` says: coin only moves, burns with a fee, or comes with a tranche.
* `era`. Six blocks are three eras of two epochs, each folded, read by reputation and paid, so that endurance climbs to its
  cap of two, is cut there, and is lost by who misses an era; and six committee epochs, so that cached committees are pruned
  and an empty one (a halt) is met. The bound counts records with content, beats and bindings; three let two records meet a key
  bound in between, and a mask beat on consecutive days, which is what it takes to earn a day, have it
  counted and be refused or gapped. The records of the instance carry a repeated vote, a forged one
  before the genuine one, heights out of order or ahead of the chain, a signer that is not bound, and one vote more than is
  checked; the honest ones come from databases that lack justifications, or hold one that somebody padded: with votes
  of a member, which may cost the genuine one behind them, or with those of a stranger, which may not. One mask per era fills the
  hosting cap.
* `reputation`. With every block an epoch, five blocks are four recounts; the threshold is passed at
  once, so the guard counts, opens a band after two epochs, and closes it when the slash has taken
  the entrenched mask down, within three calls; there is time for a second band after it. `PairFabricationBounded` needs two testimonies of one pair with
  decay between; `SponsorsKeepHalf` needs the chain 3–2–1 of vouches and a cascade of depth 2. The quantities are those at which truncation
  bites (retention of a half, a scale of 1000).
* `court`. Two cases over one record with one draw per block make the second wait; a delay of two lets
  a relation change between filing and draw, and the one tie that may be made or cut, at any
  moment, hits a juror before the draw, between draw and vote, or between vote and tally. The jury of 2 can
  split, and one redraw is granted.
* `multisig`. Six calls are the longest chain that matters here: propose, veto, propose again, the further
  approvals, apply; or a renewal through its proposal, two approvals, co-signature and
  application; with a cession of a seat in between. `CodeHasQuorum` counts approvals of the holders of the day.
* `society`. Five calls take an agreement from proposal through every confirmation to a second proposal that
  needs the slot back, by each of the three ways (confirm, cancel, reap), the last of which waits for a
  deadline. Anybody may try each call; the counterparty alone can confirm.

`CHECK_DEADLOCK FALSE` stands in the runs whose instance ends: a tree with no block left
to import, or the last block of the bound. In `round` deadlock is checked. Several modules define a type
invariant that no run lists; where the prover has it (section 5) it holds for every instance.

## 4. Fairness

Only `sync` assumes fairness (`FairSyncSpec`), weak, per node: the timer of the vote worker
keeps firing and a `finalize_block` call returns; the timer of the proof worker keeps
firing; a block that stays importable is imported; of the proofs, and of the votes, that stay
acceptable one is eventually delivered, since the gossip engine keeps re-sending what the filter
does not call expired. Members elsewhere that can still sign do so. Weak fairness is right
for each: the loops are `select!` over timers that never stop, and nothing in
the program disables them for good. Nothing is assumed of restarts, of answers to the
catch-up requests or of the order of deliveries.

The pallets have no fairness: their calls are up to the members, and their hooks run in
every block by construction of `OpenBlock`.

## 5. The proofs

All theorems are about the modules as they are checked, for every value of the constants
that meets the named assumptions of the module: the tree is a tree (`ChainAssumption`: chains of
ancestors are finite, contain genesis and are linearly ordered), numbers and
thresholds are natural, accounts are a finite set, `None` is no account, key or record of beats, grants,
vouches and services at genesis are of masks and amounts, retention is a fraction and liability less than the
whole, a list of marks or of bands holds at least one, eras are whole epochs and days, a stored justification
names its own height, as `verify_proof` demands of each proof, and may hold any votes beside a quorum (`StoreAssumption`), and the votes of whole
committees over a window fit a record (`WindowAssumption`: 64 heights of at most 64 seats are its 4096 votes). What the
passing runs check is proved, but for the one liveness property.

`FinalityGadget_proofs`
* `TypeCorrect`: `Spec => []TypeOK`.
* `QuorumGuardRedundant`: for every committee size, a tally of alpha votes meets the 60% flag.
  The flag passed to `observe_round` therefore never changes a decision.
* `QuorumsIntersect`: two sets of at least alpha members of one committee share a member;
  from `AlphaIsMajority` and the cardinality of a union.
* `FilterBehindFinality`, `FilterMonotone`: `Spec => []WatermarkBehindFinality` and
  `Spec => WatermarkMonotone`. Neither is inductive: `Finalise` writes the *target* into the
  watermark, so one needs that a deciding worker's decision is a block of the target
  height. The invariant is `TargetInv`: type, the watermark bound, and that every held vote and
  round of a worker is about blocks of its target height.
* `Accountability`, `HeldVotesAreGenuine`: `SameView => (Spec => []ConflictHasDoubleVoter)`,
  and the same for `HeldVotesGenuine`. `SameView` says that where two forks both reach an epoch, its first blocks
  on them elect one committee, and that a key belongs to one account. It is needed: with committees that
  differ by branch two quorums belong to two committees, and the worker re-reads the key map
  without revisiting the votes already held. Nothing is assumed of the committees read
  earlier, at a best block that has not reached the epoch: a worker may hold votes of those, and
  what saves it is that a tick counts only once its chain has the target, hence the epoch's first
  block, after dropping the votes of others (`Settled`). `QuorumInv` strengthens `TargetInv` with: each
  held vote was signed and counted for its owner, a decided worker has alpha distinct members of the committee
  that secures the height (`SecuredBy`) behind its decision, and so has every stored block. Conflict then
  needs two quorums of one committee and `QuorumsIntersect` gives the member. Stored blocks
  are said to be *supported* (alpha members signed at some time), not to carry a valid proof,
  since they may not (section 6).
* `AgreementOfHonest`: `SameView /\ SameHalts /\ OneKey => (Spec => []AgreementUnlessRevoted)`, for any tree and across
  different heights of its branches. The argument is a ladder. The height a worker aims at from a finalised
  height depends on that height alone: the next step, or, where that height has no committee, the first healthy
  boundary after it, which is the first on every chain that is long enough to see it (`SkipIsFirstHealthy`). `LadderInv`
  says that each stored block rests on another, or on genesis, from which its height is the next rung, and that
  the target of each worker is reached from what it finalised. No rung can be missed (`NothingBetween`), so blocks
  finalised off one chain come down to two of one height (`LadderIsChain`), which by `Accountability`
  have a member that signed both. `SameHalts` (forks of a height stand in the same entrenchment band) makes the rungs
  the same on all branches, and `OneKey` (an account votes with one key) makes the double voter a double *signature*.
  All three hold in the instances of `fork_safety`, `sync` and of the two runs of section 6; `fork_agreement`
  shows why *unless revoted* cannot be dropped.
* `CountedInCommittee`: `Spec /\ [][ChainsGrow]_vars => []CountedVotesInCommittee`. A worker counts from
  the committee it read when it aimed at its target, and `finalize_block` asks which block of the chain of the
  day has that height. `ChainsGrow` (a best chain is only ever extended) is needed: a reorganisation between
  the tick and the call leaves a committee read on a branch the node has left. `CountedInv` adds to the types
  that the pinned block of a target, once on the chain, stays what it was (`PinnedAtStable`), and that before that the committee
  is read again at every tick. `CountedInCommitteeOnOneChain` discharges the hypothesis for a tree without forks.
* `SyncImplementsGadget`: `SyncSpec => ImplementsGadget`, the refinement of the vote worker's specification by the
  composition with proof worker, proof cache, catch-up and restarts. `SyncInv` says that every proof in flight, in a cache or in a store is
  backed by a stored justification of some node, and that stored blocks lie at or below their node's
  finality. `SyncAccountability`, `SyncAgreement` and `SyncCountsInCommittee` carry the theorems above over to the composition.

`Consensus_proofs`
* `DecisionNeedsStreak`: `Spec => DecidesOnUnbrokenStreak`, for any hashes, committees and tallies. The invariant
  `StreakLed` says that as many of the last leaders as the streak counts are the preferred hash; that a round has at most one
  leader (`OneLeads`) comes from alpha being a majority and from a sum over the tally.
* `RoundImplementsNode`: on two hashes (`Pair`, the only case the binary voter knows) `Spec => ImplementsSnowballNode`; the
  lower hash is colour 0, which is how the tie-break by hash becomes the one by colour.
* `OneMask`: `SpecAuthoring => []OneMaskPerSlot`, for any number of nodes and keys and any tree of blocks: two nodes
  elected in one slot are elected for one mask if their best blocks have a common ancestor in the epoch both stand in and the same masks have a
  node there. The invariant `IndInv` has four parts: the types; `OneSettlement` (a block has the register of each ancestor of its
  epoch, and no ancestor of a later one); `OneDraw` (a draw is a function of its inputs); `Ruled` (each election follows the draw of the
  block it was made on). Without the two conditions it is false, and section 6 says so.
* `StallIsForever`: once no block that a node is on, or would follow, lets anyone lead, and no order is waiting, no block is ever sealed again.
* `KeysAreLocked`: `SpecBeacon => []ActiveKeysLocked`, for any epoch length (zero, which disables
  the roll, included), accounts and secrets. The invariant `Locked` follows a commitment
  through the pipeline: what is pending was committed in this epoch, what is awaited or
  staged in the last, what is active two epochs ago.
* `PalletIsThePipeline`: `SpecBeacon => ImplementsBeaconState`, again for any epoch length, accounts and secrets. The two specifications
  each pick an order in which to list the staged secrets, and need not pick the same. Both list the same map
  once (`Enumerates`), so below any secret there are as many in one list as in the other (`EnumeratesAll`), and a list sorted by rank
  is determined by those numbers (`SortedAnyOrder`). `Pipelined` is `Locked` with a staged map that stays finite.

`Era_proofs`
* `CreditsAreUnique`: `Spec => []CreditedOnce`. The invariant `CursorCovers` adds that every vote
  credited is at or below the cursor, and that the authorship of the current block is credited only
  once its record is noted. A record counts only what is above the cursor before it and not above the
  cursor after it (`CountedAbove`), so what two records count never meets.
* `HonestRecordsAreWhole`: `Spec => HonestRecordsWhole`, of a record that the author's own node has assembled. Flattening the window
  of justifications neither loses nor adds a vote (`FlattenCarries`); votes of strangers to the committee do not use up the cap; up to a
  height that is not `Crowded` (votes of members, forged and repeated ones included, no more than its committee has seats) the window fits it, so each vote is checked; and
  the cursor goes to a height of the window (`ProvidedWhole`). What is not checked for want of room is passed over for good.
  The node keeps a justification as it came, so whoever gossips a proof may pad it: a crowded height is possible, and of what lies at or
  behind one nothing is claimed.
* `VoteKeysStayInverse`: `Spec => []MapsInverse`, from genesis keys that are not shared (which the genesis build
  asserts) and from the disjointness of `None`.
* `UpgradeInverts`: the migration of the vote keys completes the reverse map, whatever part of
  it was there, and is idempotent, provided no key is shared.
* `ServiceIsNeverLost`, `EvidenceIsService`: `Spec => []ServiceConserved`, `Spec => []EvidenceMatchesService`. The counters are no
  sums the run keeps but what three pallets add and clear behind each other, so `ServiceInv` states each as
  a cardinality over the log of credits: the counters of a live epoch are its credits (`OfEpoch`) and those of an ended one zero; what an era
  has accumulated and what was paid of it are the credits of its ended epochs (`Folded`); evidence is the rate times
  the credits of ended epochs (`Past`). `Clock` ties the epoch of each pallet to the height, with the era of tokens one block behind
  while a block is open, which is the interval in which fold, read and clear must come in the order of the hooks.
* `StreaksAreEarned`: `Spec => []StreakIsEndurance`, from `ServiceInv`, which gives what an era's end reads.
* `HostingIsEarned`, `HostDaysArePaid`: `Spec => []HostedDaysEarned`, `Spec => []HostDaysConserved`. `BeatsStand` says where the log of
  beats leaves each mask: its last day is the last of the log, and its streak started on the first day of the
  gapless run up to it (`Started`, `Gapless`). The beats are numbered, which tells who had
  a day in an era before whom, and so that a day is refused only in a full era. `HostBooks` relates days, masks and payments of each era to the counted
  beats that fall in it.
* `ClosedCurveNeverCut`: of a curve that is `Closed` (its tranches decay to nothing within the cap) no
  tranche is ever cut short and the cap is never passed. The invariant is `RestFits`: what is still to come fits the room that is left.
* `LiveCurvesAreClosed`: both curves of the runtime are such, for any unit of coin.
* `ErasEndEpochs`: in both builds an era boundary is an epoch, a day and a committee boundary.

`Tokens_proofs`
* `TokensTyped`, `ReferencesAlwaysBalanced`: `Spec => []TypeOK`, `Spec => []ReferencesBalanced`. `AccountsInv` adds that a newborn mask in preparation
  has not entered before. The lemmas follow one record through `Credited`, `Debited`, `Released` and `Entered`, then each step through the
  records it touches, of which a settlement has two that may be the same.
* `NonceNeverLost`: `Spec => BornMasksKeepNonce`, and `FoundersNeverEarn`: `Spec => FoundersEarnNothing`, from what each step does to coins and nonces.
* `TokensImplementLedger`: `Spec => ImplementsLedger`, the refinement of the host ledger. Fees taken before the call stutter, settlements
  are charges, an era is a mint. That an era mints no more than the curves allow is `SplitFits`: the capped
  shares of a pool, each rounded down, sum to no more than the pool, whoever is left out (`IncomeFits`).
* `TokensImplementEmission`: `Spec => ImplementsEmission`, for both coins: the tranche of an era is computed by a loop in
  the pallet and by one step an era in `Emission` (`ScheduleIsReward`).
* `LaneRationed`: `Spec => []FeelessRationed`. `BooksOfLane` says that what the budget epoch has granted is on the lane's record, and
  that no record is of an epoch to come.

`Sums` has what these proofs add and count with: that a fold of the community modules over a set is a sum however it
chooses its elements, how a sum changes in one term, that a set of naturals has a least element, and that the recursion of a fold over a
set or a sequence has a solution when its steps stay in a set of values. Induction over data is done by least counterexample.

`MultisigUpgrade_proofs`
* `TypesHold`, and `SeatsAreKept` (`[]KeyKeepsItsSeats`): nobody holds two seats, and the key has as
  many as at genesis until burnt. `KeyInv` adds that the signers are a finite set and that the pending cession gives up a
  seat still held; that the successor holds none is checked when it is applied.
* `RenewedAtTheEnd`: `Spec => RenewalAtTheEnd`. `RenewalInv` says that while a countersigned renewal is pending the life
  ends no later than its objection window: proposals replace each other, disaster renewals intervene, and none of
  it lets a renewal extend a life that has not run out.
* `CodeHadQuorum`: `Spec => []CodeHasQuorum`, for any interleaving of approvals, cessions, vetoes and
  repeated proposals.

`Court_proofs`
* `AwaitedOnce`: `Spec => []AwaitingIsQueued`, for any masks, dials, filings and draws. `Docket` gives a waiting case
  one block to come in which its jury is drawn, and any other case none; it needs that ids have no gap, so that a
  new case is in no queue yet, and that no queue lists an id that is not a case.
* `TallyIsTheJurors`: `Spec => PartiesCannotTurnTheTally`. The jury and the parties of a case are settled at its
  draw (`BenchKept`), and what voids a vote afterwards are vouches that the juror made.
* `JurorsCanVote`: `Spec => SeatedJurorsCanVote`. `JuryFits` follows the draw of a case from the pool to the jury: each winner is in the
  pool (`WinnersHaveSeats`), those ahead of fewer than `MaxJury` are at most `MaxJury` (`TallyFits`), and the best of the redraws is one
  of them (`BestDrawIsADraw`). What a block does to a case is in `CaseStep`: it stays, gets a jury that fits, or is closed.
* `DocketKeptInOrder`: `Spec => []DocketInOrder`. `Register` adds to `Docket` that votes are kept for exactly the cases there are, and that
  a mark is of a case lost for good (`LostForGood`), so that the mark of a new conviction is new even after the oldest was dropped.
* `VerdictsRectifyOnce`: `Spec => []RectifiedOnce`. `StruckForGood`: the records a verdict struck are below the next id and not in the
  journal, and the journal never gives an id again (`JournalGrows`), whatever an epoch credits and sweeps. That no more is taken than
  the records were worth is about the cascade: once the culprit has answered it is among the visited, and no later entry of any level takes from it
  (`Cascading`, kept by `LevelCascades`). `JournalTyped` has the types on which that rests; they hold because each fold of the
  recount and of the cascade stays in a set of values (`CreditedTyped`, `SponsorsTyped`, `LevelTyped`).

and, of reputation on its own (`SpecEpochs`):
* `BandsAlwaysTrack`: `[]BandsTrackHalts`. `BandsInv` says besides that every band started at or before now, and that all but the
  last ended before the next one started; a block moves the guard by one of three steps (`GuardSteps`).
* `CommitteeIsViable`: `[]CommitteeViable`, in every state, from the definition of the electorate: keys of the beacon
  count only once enough of the reputable have one.
* `SponsorsAlwaysKeepHalf`: `SponsorsKeepHalf`. Each level of the cascade leaves every mask but the culprit at least half of
  what it had (`HitSpares`, `LevelSpares`, `CascadeSpares`), since who was hit is visited and not hit again; and a call slashes in one suit.
* `PairsNeverFabricateMore`: `[]PairFabricationBounded`. The invariant is sharper than the bound: after n testimonies of weight, with p
  the n-th power of 2, the sum times p is at most twice the base times p - 1 (`Halving`), which the next testimony, rounded down, keeps (`HalvesAgain`).
* `EvidenceIsAlwaysDisputable`: `[]EvidenceIsDisputable`. Rounding makes the bound itself not inductive: decay rounds the sum and each record is
  rounded on its own. `Disputable` multiplies by the denominators: the evidence, times the denominator once for each epoch so far, is at
  most a sum over all ids ever given (`Terms`), of what a live record is worth unrounded, and of one unit for a removed one. An epoch multiplies
  both sides alike (`TermAges`), admissions and credits add a term (`EnteredAdds`, `CreditedSum`), a slash lowers the left side only (`SlashLowers`), and
  dust that is swept was worth less than its unit.
* `StandingIsAlwaysEarned`: `StandingIsEarned`, the theorem about trust propagation. Fix a set of masks that holds all the evidence of a suit and
  whose vouches stay in it. The trust of everyone else (`Trusts`) is zero at the start, because pre-trust is evidence (`PretrustTyped`), and
  each round keeps it so (`NextTrustKeeps`): what is passed on follows the rows of the matrix, which are zero where there is no vouch
  (`MatrixFollowsVouches`, whatever the damping does), and what leaks goes to pre-trust. `CommunitiesTyped`, `SuspicionTyped`, `InConcentrationTyped`
  and `DampedTyped` show on the way that no step of the damping divides by zero.

`Society_proofs`
* `BooksAlwaysBalance`: `Spec => []BooksBalance`, for any finite set of masks and any limits. `Books` has a part for each of
  market, pacts and commons: each counter is the cardinality of what it counts, every id in a list is stored, an agreement is complete exactly
  when all have signed, a thread is no deeper than allowed. The counters need the cardinality of a set as one element
  comes or goes, along the paths of confirmation, cancellation and reaping.
* `AgreementsAreKept`: `Spec => AgreementsKept`: deals and pacts each implement `Agreements`, step by step. For deals it needs
  `Signatures`: an open deal was called for by its proposer alone, a closed one by both sides, and the two differ.

Only model-checked:
* `EveryNodeFinalises`: liveness; the prover has no reasoning about ENABLED and fairness.
* The `ASSUME`s on algorithms (2.11) are evaluated over small inputs.

## 6. What was found

Two runs refute what a comment of the code says.

* **`fork_agreement`** (doc and code diverge). Nothing ages a vote out of the tally and nothing
  stops a member from signing another block at the same height after a reorganisation.
  N2 signs its side; N1 reorganises to it and signs too, then comes back; each keeps the
  vote the other has withdrawn, both finalise, on different branches, without a faulty
  member. `consensus-core/src/finality.rs:63-65` says the quorum flag makes an isolated side
  stall instead of fork. The flag counts the same old votes and, by `QuorumGuardRedundant`,
  never decides anything.
* **`fork_retry`** (code). When `finalize_block` fails on the tick that decided, the decision
  stays latched and is retried, but `encode_proof` packs the votes held at the
  retry. Signers that have re-voted are gone, and a justification below alpha is stored
  and gossiped, which no peer accepts. `node/src/finality.rs:642-643` describes it as
  carrying at least alpha signatures.

Others were met while modelling. The modules follow the code in each; none has a run of its own.

Coins and service:
* An account that exists only through its coins loses its nonce when it spends the last of
  them, also when the fee takes it and a refund brings the account back. `BornMasksKeepNonce` is
  therefore about masks that entered by an extrinsic of their own.
* The cursor of participation goes to the highest height a record proves, while an author
  reports only what its own node stored (and of a padded justification only what fits the cap): heights below that others hold are never credited,
  whereas `participation_inherent.rs:70-71` says the cursor advances only past what was credited.
  `CreditedOnce` is about *at most* once; `HonestRecordsWhole` about what the author did hold. After an
  entrenchment band longer than the window of 64 heights whose committees were pruned the cursor finds
  nothing it can credit any more.
* The cached committee is cut to 64 in the order of account ids; the node's is not.
* Two cold keys sealed with one hot key before the migration of the vote keys leave the two maps not inverse: `UpgradeInverts` has that precondition.

Standing and justice:
* At the end of an epoch the evidence decays, then the service of the epoch is credited, and only then the number of
  the epoch goes up; the record of the credit carries the old number. By its own formula the record has aged one epoch
  when the evidence it stands for has not aged at all, and it stays one epoch's retention behind. The comment on
  `evidence_record_current` (`pallet-reputation/src/lib.rs:1426-1427`) puts the difference down to rounding, "a few units". A
  verdict over all of a mask's records leaves it that part of its service evidence. `EvidenceIsDisputable` is what does
  hold, with each record at its worth of an epoch ago.
* `rectify_for_verdict` reports what it struck off the journal though the live evidence may hold less.
* The host's `cascade_slashing_fp` says it is bit-identical to the pallet's; the pallet leaves a
  sponsor half and spares one on probation. The pallet's `relation_depth` says it mirrors `nearest_party_distance`,
  which gives 0 for a party itself where the pallet gives 1.
* A recount in which nobody takes part leaves the old snapshot in place while the report of the epoch is all
  zeros. `EpochReport.top_reputation`, "the single highest consensus reputation", is the maximum
  of the *minimum* over suits; the guard uses the concave aggregate. protocol-core and two adapter comments of the runtime still use the minimum.
* With the list of bands full the oldest is dropped, crossed or not.
* An account tied to a party by a fresh vouch is accepted as interested at the door and then excluded from
  the draw irrespective of the cooling period.
* The doc of `BadPossessionProof` says the proof covers the genesis hash; the code and `set_vote_key` sign label and mask.

The upgrade key:
* With a custody seat, a code that was vetoed and is proposed again needs four approvals of the four
  seats that may approve. One dissenting founder then blocks it, the pending upgrade has no
  lifetime and the veto is spent; the comment (`pallet-multisig-upgrade/src/lib.rs:227-233`) and the test `veto_escalates_to_4_of_5_never_blocks_forever` say a single seat cannot block for good.
* Approvals of a seat that was ceded stay in the list, which has five places, and count again when the
  account regains a seat.
* Disaster renewals can follow one another while the metric holds. Approvals of a cession are not
  re-counted against the seats, but no seat can change hands while one is pending.

The node:
* Nothing about the leader is checked on import, and each node draws from the state of its own branch. Past the start of an epoch on
  a private branch (which a leader with peers grows while it lags), or while a key is bound on one branch only, two masks may lead one slot; the fork is left to
  the longest chain and to finality.
* Any non-empty set of committed keys restricts the leadership of slots, without the floor
  the finality committee has: an electorate without standing means that nobody authors, for good (`StallIsForever`, as long as the chain is the highest each node knows).
* The last slot is forgotten on a restart and compared only for equality, so a clock that steps back can
  author a slot twice. A node holding the cold key of a member that delegated acts for the same mask as the
  node with the hot key. On a chain without reputation every node is the lone station.
* An attached good justification is kept beside its block and not applied.

## 7. What is left out, and why

Of what is modelled:

* Signatures are unforgeable and SHA-256 injective. Encodings, logs, telemetry and weights are absent.
* A justification attached to an imported block is stripped or stored without being
  finalised by the code; it is not modelled. Nor is the legacy vote format, accepted
  before a cut-off height, nor the horizon beyond which votes are not gossiped,
  which never concerns the current target.
* The gossip engine, its peers and its caches: replaced by delivery of anything sent.
* Overflow: amounts are `u128` with checked or saturating arithmetic, and caps and
  genesis keep them far from the width; the naturals of the model do not wrap.
* `charge_fee` (used by tests only), `checkpoint_escalation` (used nowhere), `elect_committee_committed`'s handling of
  secrets that do not open their commitment (used by tests only), the pool's delegation methods in `txguard.rs`.
* What participation and hosting report for an era is an input of `Tokens`, and what tokens does
  with it is left out of `Era`: the two meet in the sequence of accounts, weights and streaks.
* The reputation from which the committee of an epoch is elected is an input of `Era`, and the
  feed of service an input of `Reputation`; decay of evidence is left out of the first.
* The value of the VRF is an input wherever there is a draw.
* `EraLength` is a multiple of the epoch and the day, as in both builds (`ErasEndEpochs`).

Not modelled at all: the f64 twins in reputation-core and consensus-core and protocol-core, which no runtime
links; key derivation, addresses, encryption at rest, onion packets and the stubs of call and session
(cryptography without state); content-id and manifesto-core (hashing); start-up, command line, RPC limits; the vendored sync;
simulators, devnet driver, web and operations.

## 8. What is open

* That a case is drawn or lapses follows from its place in the queue (`AwaitingIsQueued`); that an open one is ever
  closed would need an assumption about callers, since nothing in the code closes a case by itself.
* The two feeds that meet outside a module (above) could be one composition on a smaller instance.

## 9. Running it

    tlc -workers 2 -config fork_safety.cfg MCFinalityFork.tla
    tlapm FinalityGadget_proofs.tla

Every run ends in under five minutes on two cores; the largest are `tokens` (1.3 million
states), `era` and `court` (0.6 million each) and `sync` (30,395 states and a liveness graph).
