------------------------------ MODULE Runtime ------------------------------
(***************************************************************************)
(* The parameters with which the runtime composes its pallets, and those the *)
(* node compiles in beside it, for the build that goes live and for the fast *)
(* one.  Each pallet is configured on its own; RuntimeCoherent is what they  *)
(* must have in common for the feeds, clocks and electorates of one to mean  *)
(* to the next what the code says they mean.                                 *)
(***************************************************************************)
EXTENDS Integers, Sequences, FiniteSets, Folds

Builds == {"mainnet", "testnet"}
By(build, live, fast) == IF build = "mainnet" THEN live ELSE fast
Percent(p) == p * 10000                       \* Permill::from_percent
Third == 333333                               \* ENTRENCHMENT_THRESHOLD_FP, in Permill

(* The pallets in the order of their hooks; root is only in the fast build.  *)
Pallets(build) ==
    <<"System", "Reputation", "Timestamp", "Balances">> \o By(build, <<>>, <<"Sudo">>)
    \o <<"TransactionPayment", "Manifesto", "Justice", "Beacon", "Tokens", "Directory", "Forum",
          "Participation", "Market", "MultisigUpgrade", "Pacts", "Hosting">>
(* The extensions of a transaction in the order in which they prepare it.    *)
Extensions ==
    <<"AuthorizeCall", "NonZeroSender", "SpecVersion", "TxVersion", "Genesis", "Era",
      "HlqCheckNonce", "Weight", "ChargePayment", "WeightReclaim">>
Before(order, a, b) == \E i, j \in DOMAIN order : order[i] = a /\ order[j] = b /\ i < j

FrameSystem == [BlockHashCount |-> 2400]
TransactionPayment == [PlanctonPerByte |-> 8000000, PlanctonPerRefTime |-> 1]

ReputationConfig(build) ==
    [EpochLength |-> By(build, 7200, 10), EvidenceRetention |-> By(build, 999052, 900000),
     SponsorLiability |-> Percent(25), AttestFloorMin |-> 1000,
     MaxVouches |-> 128, VouchQuotaK |-> 3, AttestBudget |-> 8, AttestStakeMultiplier |-> 1,
     ServiceEvidenceRate |-> 1, ProbationWindow |-> By(build, 7200, 0)]

MarketConfig == [MaxOpenDeals |-> 4, DealTtl |-> 50400, MaxPerMask |-> 32, Postage |-> 0]
PactsConfig == [MaxParties |-> 8, MaxOpen |-> 4, MaxPactTtl |-> 216000]
ForumConfig == [MaxThreadDepth |-> 16]

(* A unit is 10^12 of the smallest; the fast build counts in the smallest.   *)
HlqCurve(build, unit) ==
    By(build,
       [initial |-> 33750000 * unit, decay_num |-> 15, decay_den |-> 16,
        era_length |-> 1, cap |-> 540000000 * unit],
       [initial |-> 1000, decay_num |-> 1, decay_den |-> 1, era_length |-> 1, cap |-> 1000000])
SovCurve(build, unit) ==
    By(build,
       [initial |-> 13500000 * unit, decay_num |-> 3, decay_den |-> 4,
        era_length |-> 1, cap |-> 54000000 * unit],
       [initial |-> 100, decay_num |-> 1, decay_den |-> 2, era_length |-> 1, cap |-> 10000])

TokensConfig(build) ==
    [EraLength |-> By(build, 1317600, 10), FeelessEpochBlocks |-> By(build, 7200, 10),
     FeeBurnBps |-> 5000, FeelessBlockBps |-> 1500, MaxFeeless |-> 32,
     ServiceCapK |-> 2, HostingShareBps |-> 1000]
HostingConfig(build) ==
    [DayLength |-> By(build, 7200, 2), EraLength |-> By(build, 1317600, 10),
     MinStreakDays |-> By(build, 30, 2), MaxGapDays |-> 3, MaxBeatAge |-> 600,
     MaxHostsPerEra |-> 20000]
ParticipationConfig(build) ==
    [EpochLength |-> By(build, 7200, 10), EraLength |-> By(build, 1317600, 10),
     MaxCommittee |-> 64, MaxStreak |-> By(build, 8, 3)]
CommitteeOnChain(build) == [EpochLength |-> By(build, 300, 10), Tau |-> By(build, 60, 4)]
VotesCheckedPerRecord == 4096
HeightsPerRecord == 64

JuryParameters ==
    [JurySize |-> 12, MaxJury |-> 32, MaxInterested |-> 16, GuiltThreshold |-> Percent(67),
     VoteQuorum |-> Percent(67), Depth2Weight |-> Percent(10)]
JusticeConfig(build) ==
    [MaxCaseEvidence |-> 16, MaxDrawsPerBlock |-> 4,
     VotingWindow |-> By(build, 7200, 5), JuryDrawDelay |-> By(build, 10, 3),
     InterestCooling |-> By(build, 7200, 10)]
MultisigConfig(build) ==
    [InitialLife |-> By(build, 657450, 200), ObjectionWindow |-> By(build, 14400, 5),
     EpochLength |-> By(build, 7200, 10), DisasterEpochs |-> 14]
RenewalElectorateTau(build) == By(build, 60, 4)
BeaconConfig(build) == [EpochLength |-> By(build, 7200, 10), MaxSecretLen |-> 64]

NodeFinality(build) ==
    [Beta |-> By(build, 12, 4), Step |-> By(build, 15, 8), Burial |-> By(build, 32, 15),
     Tau |-> By(build, 60, 4), EpochLength |-> By(build, 300, 10)]

(* The genesis presets, by the place of a founder in the list; 5 is the      *)
(* custody seat.                                                             *)
Seats == 1..5
Custody == 5
LaunchPreset == [reputed |-> 1..4, evidence |-> 10, founders |-> 1..4, endowed |-> {},
                 bound |-> {}, sudo |-> {}]
DevPreset(build) == [reputed |-> 1..6, evidence |-> 1000, founders |-> {}, endowed |-> 1..6,
                     bound |-> 1..6, sudo |-> By(build, {}, {1})]
Share(preset) == 1000000 \div Cardinality(preset.reputed)

-----------------------------------------------------------------------------
(* Clocks: the pallets that hand epochs and eras to one another count the    *)
(* same ones, and an era ends with an epoch, a day and a committee.          *)
ClocksAgree(build) ==
    LET epoch == ReputationConfig(build).EpochLength
        era   == TokensConfig(build).EraLength
    IN  /\ {ParticipationConfig(build).EpochLength, MultisigConfig(build).EpochLength,
            BeaconConfig(build).EpochLength, TokensConfig(build).FeelessEpochBlocks} = {epoch}
        /\ {ParticipationConfig(build).EraLength, HostingConfig(build).EraLength} = {era}
        /\ era % epoch = 0 /\ era % HostingConfig(build).DayLength = 0
        /\ epoch % CommitteeOnChain(build).EpochLength = 0
        /\ HostingConfig(build).MinStreakDays * HostingConfig(build).DayLength < era

(* Elections: node and runtime elect the same committee, and the renewal     *)
(* electorate has its size.                                                  *)
ElectionsAgree(build) ==
    /\ CommitteeOnChain(build) = [EpochLength |-> NodeFinality(build).EpochLength,
                                  Tau |-> NodeFinality(build).Tau]
    /\ RenewalElectorateTau(build) = NodeFinality(build).Tau
    /\ ParticipationConfig(build).MaxCommittee >= NodeFinality(build).Tau

(* Windows: what one part waits for, another still has.                      *)
WindowsFit(build) ==
    /\ HostingConfig(build).MaxBeatAge < FrameSystem.BlockHashCount
    /\ JusticeConfig(build).JuryDrawDelay \in 2..FrameSystem.BlockHashCount
    /\ JusticeConfig(build).InterestCooling = ReputationConfig(build).EpochLength
    /\ JuryParameters.JurySize =< JuryParameters.MaxJury
    /\ HeightsPerRecord * ParticipationConfig(build).MaxCommittee =< VotesCheckedPerRecord
    /\ NodeFinality(build).Step > NodeFinality(build).Beta
    /\ NodeFinality(build).Burial > NodeFinality(build).Step
    /\ MultisigConfig(build).ObjectionWindow < MultisigConfig(build).InitialLife

(* Hooks: the service of an epoch is read before participation clears it,    *)
(* the electorate after standing was renewed; a mask has its account before  *)
(* its budget is charged; and nobody is root on the live chain.              *)
HooksOrdered(build) ==
    /\ Before(Pallets(build), "Reputation", "Participation")
    /\ Before(Pallets(build), "Reputation", "MultisigUpgrade")
    /\ Before(Extensions, "HlqCheckNonce", "ChargePayment")
    /\ build = "mainnet" => \A i \in DOMAIN Pallets(build) : Pallets(build)[i] # "Sudo"

(* The launch: no coin, no root, nobody above the entrenchment threshold,    *)
(* and a custody seat that is neither reputed nor a founder.                 *)
LaunchIsFair ==
    /\ LaunchPreset.endowed = {} /\ LaunchPreset.sudo = {}
    /\ Share(LaunchPreset) < Third
    /\ Custody \in Seats \ (LaunchPreset.reputed \cup LaunchPreset.founders)
    /\ Seats = LaunchPreset.founders \cup {Custody}

-----------------------------------------------------------------------------
(* Everything the keys of a member sign: the wallet's logins, pacts and     *)
(* transactions, the node's votes, beats and proofs.  All is signed in the  *)
(* one context of the chain, so what keeps a signature to its use is the    *)
(* message alone: a label and fields of fixed width one after the other.    *)
(* Signatures cannot be forged; a hash has 32 bytes and no collision.       *)
\* What is signed for one use; letter is its first byte.
LetterH == 104
Field(width, value) == [width |-> width, value |-> value]
Labelled(label, fields) ==
    [letter |-> LetterH, label |-> label, fields |-> fields,
     size |-> MapThenFoldSet(+, Len(label), LAMBDA i : fields[i].width, LAMBDA I : CHOOSE i \in I : TRUE,
                             DOMAIN fields)]

-----------------------------------------------------------------------------
(* The node: a vote as it signs it and as the pallet checks it, in the build *)
(* of either; the authorship of a block; the beat as the tool of the owner   *)
(* signs it and as the pallet checks it.                                     *)
VoteMessage(flavor, genesis, height, hash) ==
    Labelled("hlq-finality:v2:",
             <<Field(1, flavor), Field(32, genesis), Field(8, height), Field(32, hash)>>)
SignMessage(flavor, genesis, height, hash) ==
    Labelled("hlq-finality:v2:",
             <<Field(1, flavor), Field(32, genesis), Field(8, height), Field(32, hash)>>)
AuthorMessage(at_block) == Labelled("harlequin-author:v1:", <<Field(8, at_block)>>)
HeartbeatMessage(hot, at, hash) ==
    Labelled("hlq-heartbeat-v1", <<Field(32, hot), Field(4, at), Field(32, hash)>>)
HeartbeatOfTool(hot, at, hash) ==
    Labelled("hlq-heartbeat-v1", <<Field(32, hot), Field(4, at), Field(32, hash)>>)

(* The proof that a node's key is its owner's: as the tool beside the node   *)
(* signs it, as the wallet checks it first and as the pallet checks it.      *)
BindMessage(mask) == Labelled("hlq-node-bind-v1", <<Field(32, mask)>>)
BindMessageOfTool(mask) == Labelled("hlq-node-bind-v1", <<Field(32, mask)>>)
NodeBindMessage(mask_account_id) == Labelled("hlq-node-bind-v1", <<Field(32, mask_account_id)>>)

(* The wallet.                                                               *)
VillaLoginMessage(nonce, genesis, issued_at) ==
    Labelled("hlq-villa-login-v1", <<Field(32, nonce), Field(32, genesis), Field(8, issued_at)>>)
PactSignMessage(genesis, commitment) ==
    Labelled("hlq-pact-sign-v1", <<Field(32, genesis), Field(32, commitment)>>)

(* A transaction: its bytes as they are, of which the first is the index of  *)
(* a pallet, or their hash when they are many.                               *)
HashedBeyond == 256
SignedPayload(pallet, size) ==
    IF size > HashedBeyond THEN [letter |-> 0..255, size |-> 32]
    ELSE [letter |-> {pallet}, size |-> size]

-----------------------------------------------------------------------------
(* One signature checked against another message: the bytes are the same if  *)
(* they are as many, neither label goes on where the other ends, and the     *)
(* fields agree.                                                             *)
SameStart(label, other) ==
    LET n == IF Len(label) < Len(other) THEN Len(label) ELSE Len(other)
    IN  SubSeq(label, 1, n) = SubSeq(other, 1, n)
MayCoincide(message, other) ==
    /\ message.size = other.size
    /\ SameStart(message.label, other.label)
    /\ message.label = other.label => message.fields = other.fields
MayPass(message, payload) == message.size = payload.size /\ message.letter \in payload.letter

Sign(key, message) == [key |-> key, message |-> message]
Verifies(public, message, signature) ==
    signature.key = public /\ MayCoincide(signature.message, message)

SignVillaLogin(key, nonce, genesis, issued_at) ==
    Sign(key, VillaLoginMessage(nonce, genesis, issued_at))
VerifyVillaLogin(public, nonce, genesis, issued_at, signature) ==
    Verifies(public, VillaLoginMessage(nonce, genesis, issued_at), signature)
SignPact(key, genesis, commitment) == Sign(key, PactSignMessage(genesis, commitment))
VerifyPact(public, genesis, commitment, signature) ==
    Verifies(public, PactSignMessage(genesis, commitment), signature)
VerifyNodePop(sk_pub, mask, pop_sig) == Verifies(sk_pub, NodeBindMessage(mask), pop_sig)

-----------------------------------------------------------------------------
(* Pacts off chain: what the chain stores of a document, and the key that    *)
(* the signatures of all parties make, in whatever order they came.          *)
PactCommitment(salt, document) == [label |-> "hlq-pact-v1", salt |-> salt, document |-> document]
PactSealedKey(commitment, signatures) ==
    [label |-> "hlq-pact-sealed-v1", commitment |-> commitment,
     signatures |-> [s \in {signatures[i] : i \in DOMAIN signatures} |->
                        Cardinality({i \in DOMAIN signatures : signatures[i] = s})]]

-----------------------------------------------------------------------------
(* Signatures: what the node, its owner's tools and the wallet sign is what   *)
(* the runtime of their build checks, and of no other; nothing signed for one *)
(* use, build, chain or datum passes for another, nor for a transaction of    *)
(* whatever length; and a key signs for itself alone.                         *)
Flavor(build) == By(build, 1, 0)
Data == 1..2
Messages ==
    UNION {
      {<<"vote", v, SignMessage(Flavor(v[1]), v[2], v[3], v[4])>> :
          v \in Builds \X Data \X Data \X Data},
      {<<"author", n, AuthorMessage(n)>> : n \in Data},
      {<<"beat", b, HeartbeatOfTool(b[1], b[2], b[3])>> : b \in Data \X Data \X Data},
      {<<"bind", m, BindMessageOfTool(m)>> : m \in Data},
      {<<"login", l, VillaLoginMessage(l[1], l[2], l[3])>> : l \in Data \X Data \X Data},
      {<<"pact", c, PactSignMessage(c[1], c[2])>> : c \in Data \X Data}}
Signed(use) == {m \in Messages : m[1] = use}
\* The tool beats twenty blocks behind the head, as the pallet in its place.
BeatLag == 20
BeatPallet == 16

SignaturesKeepToTheirUse ==
    /\ \A m, n \in Messages :
          MayCoincide(m[3], n[3]) => m[1] = n[1] /\ m[2] = n[2]
    /\ \A m \in Messages, i \in 0..16, size \in 1..300 :
          ~MayPass(m[3], SignedPayload(i, size))
    /\ \A m \in Signed("vote") :
          m[3] = VoteMessage(Flavor(m[2][1]), m[2][2], m[2][3], m[2][4])
    /\ \A m \in Signed("beat") : m[3] = HeartbeatMessage(m[2][1], m[2][2], m[2][3])
    /\ \A m \in Signed("bind") :
          m[3] = BindMessage(m[2]) /\ m[3] = NodeBindMessage(m[2])
    /\ \A m \in Messages, k, w, a, b, c \in Data :
          LET sig == Sign(k, m[3])
          IN  /\ VerifyVillaLogin(w, a, b, c, sig)
                    <=> w = k /\ m[1] = "login" /\ m[2] = <<a, b, c>>
              /\ VerifyPact(w, a, b, sig) <=> w = k /\ m[1] = "pact" /\ m[2] = <<a, b>>
              /\ VerifyNodePop(w, a, sig) <=> w = k /\ m[1] = "bind" /\ m[2] = a
    /\ \A k, a, b, c \in Data :
          /\ VerifyVillaLogin(k, a, b, c, SignVillaLogin(k, a, b, c))
          /\ VerifyPact(k, a, b, SignPact(k, a, b))
    /\ \A build \in Builds : BeatLag < HostingConfig(build).MaxBeatAge
    /\ Pallets("testnet")[BeatPallet + 1] = "Hosting"

(* Pacts: the key that seals one needs all its signatures, each as often as   *)
(* it was given, over one commitment, in any order.                           *)
Permutations3 == {p \in (1..3) \X (1..3) \X (1..3) : {p[1], p[2], p[3]} = 1..3}
SealsAreOrderless ==
    \A x, y, z \in Data, c, d \in Data :
        LET key == PactSealedKey(PactCommitment(c, d), <<x, y, z>>)
        IN  /\ \A u, v, w \in Data :
                  key = PactSealedKey(PactCommitment(c, d), <<u, v, w>>)
                    <=> \E p \in Permutations3 : <<u, v, w>> = <<<<x, y, z>>[p[1]], <<x, y, z>>[p[2]],
                                                               <<x, y, z>>[p[3]]>>
            /\ \A e, f \in Data :
                  key = PactSealedKey(PactCommitment(e, f), <<x, y, z>>)
                    => e = c /\ f = d

ASSUME RuntimeCoherent ==
    /\ \A build \in Builds : ClocksAgree(build) /\ ElectionsAgree(build) /\ WindowsFit(build)
                             /\ HooksOrdered(build)
    /\ SignaturesKeepToTheirUse /\ SealsAreOrderless
    /\ LaunchIsFair
=============================================================================
