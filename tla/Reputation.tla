----------------------------- MODULE Reputation -----------------------------
(***************************************************************************)
(* pallet-reputation without the vote keys (module Participation):          *)
(* evidence and its journal, testimony, vouches and the liability they      *)
(* carry, the epoch that ages and recounts it all, and the entrenchment     *)
(* guard.  The calls of the root origin are actions: no call reaches them   *)
(* on the main network, sudo does on the test network.                      *)
(*                                                                          *)
(* Amounts saturate at 2^128 in the code, which the bounds never reach.     *)
(***************************************************************************)
EXTENDS ReputationCore

CONSTANTS
    Masks,                 \* accounts, as numbers: the recount goes in their order
    StorageOrder,          \* Masks in the order in which storage iterates
    Grants,                \* genesis evidence, a sequence of [who, suit, amount]
    Settled,               \* [Masks -> sequence of edges] vouched before the first block
    Service,               \* [epochs -> [Masks -> Nat]], the measured service
    ServiceEvidenceRate,
    EpochLength,
    RetentionNum, RetentionDen,     \* EvidenceRetention
    SponsorLiability,               \* in percent
    MaxVouches, VouchQuotaK,
    AttestBudget, AttestFloorMinFp, AttestStakeMultiplier,
    DefaultProbationWindow,
    AttestPairDecayMax,             \* 16 in the code
    RequiredEpochs,                 \* ENTRENCHMENT_REQUIRED_EPOCHS, 7 in the code
    MaxBands,                       \* capacity of EntrenchmentBands, 8 in the code
    SweepPerEpoch,                  \* EVIDENCE_SWEEP_PER_EPOCH, 64 in the code
    MaxBlock                        \* bound of the model

SuitAll == <<"commerce", "technical", "judicial", "governance">>
Suits == {"commerce", "technical", "judicial", "governance"}
ThresholdFp == Scale \div 3
ConsensusLambda == Scale \div 2

\* The dials of the pallet.  Retention and liability are fractions; a liability
\* below the whole is what makes the cascade converge.
ReputationConfig ==
    /\ EpochLength \in Nat \ {0} /\ DefaultProbationWindow \in Nat
    /\ RetentionDen \in Nat \ {0} /\ RetentionNum \in 0..RetentionDen
    /\ SponsorLiability \in 0..99 /\ MaxBands \in Nat \ {0}
    /\ {MaxVouches, VouchQuotaK, AttestBudget, AttestFloorMinFp, AttestStakeMultiplier,
        ServiceEvidenceRate} \subseteq Nat
ASSUME ReputationAssumption ==
    /\ Masks \subseteq Nat /\ IsFiniteSet(Masks) /\ None \notin Nat /\ MaxBlock \in Nat
    /\ StorageOrder \in Seq(Masks)
    /\ Grants \in Seq(Masks \X Suits \X Nat)
    /\ Settled \in [Masks -> Seq([target : Masks, suit : Suits, weight : Nat])]
    /\ Service \in [0..MaxBlock -> [Masks -> Nat]]
    /\ ReputationConfig

VARIABLES
    number,
    Evidence,              \* [Masks -> [Suits -> Nat]]
    ReputationSnapshot,    \* [Masks -> [Suits -> Nat]], as of the last epoch
    Epoch, ServiceCreditCursor, BootstrapWindowEnd,
    EvidenceRecords,       \* id -> [who, suit, amount, epoch] of the records not removed
    NextEvidenceRecordId, EvidenceSweepCursor,
    Attestations,          \* <<attester, beneficiary, suit>> -> weight to claim
    AttestsThisEpoch,      \* [Masks -> [epoch, used]]
    PairAttestCount,       \* <<attester, beneficiary, suit>> -> times it admitted weight
    AttestFloorFp,
    Vouches,               \* [Masks -> sequence of [target, suit, weight]]
    VouchedAt,             \* <<voucher, target, suit>> -> block of the first vouch
    ProbationWindow,
    EntrenchmentCounter, EntrenchmentHalted,
    EntrenchmentBands,     \* sequence of [start, cleared], cleared None while it lasts
    ClusterGuardArmed,
    LastReport,            \* [members, active_members, top_reputation] or None
    testified              \* history: pair -> [sum, base], what it admitted in all and
                           \* the largest weight one testimony of it could carry

standing == <<Evidence, ReputationSnapshot, Epoch, ServiceCreditCursor>>
journal == <<EvidenceRecords, NextEvidenceRecordId, EvidenceSweepCursor>>
testimony == <<Attestations, AttestsThisEpoch, PairAttestCount, testified>>
graph == <<Vouches, VouchedAt>>
dials == <<BootstrapWindowEnd, ProbationWindow>>
guard == <<EntrenchmentCounter, EntrenchmentHalted, EntrenchmentBands, ClusterGuardArmed,
           LastReport>>
reputation == <<standing, journal, testimony, AttestFloorFp, graph, dials, guard>>

At(f, k) == IF k \in DOMAIN f THEN f[k] ELSE 0
Put(f, k, v) == [x \in DOMAIN f \union {k} |-> IF x = k THEN v ELSE f[x]]
Saturating(a, b) == Max({a - b, 0})

-----------------------------------------------------------------------------
(* Reads.                                                                    *)
SuitsSnapshotOf(snapshot, m) == [i \in DOMAIN SuitAll |-> snapshot[m][SuitAll[i]]]
ConsensusReputationOf(snapshot, m) ==
    ConcaveAggregate(SuitsSnapshotOf(snapshot, m), ConsensusLambda)
ConsensusReputation(snapshot) ==
    With(Tabulated(LAMBDA m : ConsensusReputationOf(snapshot, m), Masks),
         LAMBDA all : Tabulated(LAMBDA m : all[m], Positive(all)))

VouchQuotaOf(m) == VouchQuota(Min({ReputationSnapshot[m][s] : s \in Suits}), VouchQuotaK)

AttestFloor == Max({AttestFloorFp, AttestFloorMinFp})

Edges(m) == Range(Vouches[m])
VouchesFor(a, b) == \E e \in Edges(a) : e.target = b
VouchesIn(a, b, suit) == \E e \in Edges(a) : e.target = b /\ e.suit = suit
IsRelated(a, b) == a = b \/ VouchesFor(a, b) \/ VouchesFor(b, a)

\* Only ties as old as the cutoff; one without a date counts as old.
VouchedAtOrBefore(a, b, cutoff) ==
    \E e \in Edges(a) :
        /\ e.target = b
        /\ <<a, b, e.suit>> \in DOMAIN VouchedAt => VouchedAt[a, b, e.suit] <= cutoff

\* 1 for a direct tie with one of the parties, 2 for a common neighbour, None
\* beyond.  The budget of the search (512 accounts) is beyond the model.
RelationDepth(who, parties) ==
    LET neighbours == {m \in Masks \ {who} : VouchesFor(who, m) \/ VouchesFor(m, who)}
    IN  IF \E p \in parties : IsRelated(who, p) THEN 1
        ELSE IF \E m \in neighbours, p \in parties : m # p /\ IsRelated(m, p) THEN 2
        ELSE None

\* The first cleared band around a height says where to take its committee from.
RecoveryFor(height) ==
    LET covering == {i \in DOMAIN EntrenchmentBands :
                        /\ EntrenchmentBands[i].cleared # None
                        /\ height \in EntrenchmentBands[i].start..EntrenchmentBands[i].cleared}
    IN  IF covering = {} THEN None ELSE EntrenchmentBands[Min(covering)].cleared

-----------------------------------------------------------------------------
(* The journal.  A record is worth today what retention left of it.          *)
Power(base, n) == FoldLeft(LAMBDA p, i : p * base, 1, [i \in 1..n |-> i])
Retained(amount, epochs) ==
    (amount * Power(RetentionNum, epochs)) \div Power(RetentionDen, epochs)
Record(who, suit, amount) == [who |-> who, suit |-> suit, amount |-> amount, epoch |-> Epoch]
Worth(r) == Retained(r.amount, Epoch - r.epoch)

RecordCurrent(id) == IF id \in DOMAIN EvidenceRecords THEN Worth(EvidenceRecords[id]) ELSE 0
OwnsEvidence(id, who, suit) ==
    /\ RecordCurrent(id) > 0
    /\ EvidenceRecords[id].who = who /\ EvidenceRecords[id].suit = suit

\* Records of admissions <<who, suit, amount>> appended from the next id on.
Journal(records, next, admissions) ==
    [id \in DOMAIN records \union (next..(next + Len(admissions) - 1)) |->
        IF id < next THEN records[id]
        ELSE LET a == admissions[id - next + 1] IN Record(a[1], a[2], a[3])]

\* Mutant for EvidenceIsDisputable: the evidence grows and no record says why.
AdmitUnrecorded(who, suit, amount) ==
    /\ Evidence' = [Evidence EXCEPT ![who][suit] = @ + amount]
    /\ UNCHANGED <<EvidenceRecords, NextEvidenceRecordId>>
Admit(who, suit, amount) ==
    /\ Evidence' = [Evidence EXCEPT ![who][suit] = @ + amount]
    /\ EvidenceRecords' =
         Journal(EvidenceRecords, NextEvidenceRecordId, <<<<who, suit, amount>>>>)
    /\ NextEvidenceRecordId' = NextEvidenceRecordId + 1

\* The ids the sweep of an epoch looks at, from its cursor round to the head.
SweepIds(head) ==
    {(EvidenceSweepCursor + i) % head : i \in 0..(Min({SweepPerEpoch, head}) - 1)}
Swept(records, head) ==
    LET dust == {id \in DOMAIN records \cap SweepIds(head) : Worth(records[id]) = 0}
    IN  [id \in DOMAIN records \ dust |-> records[id]]

-----------------------------------------------------------------------------
(* The recount of an epoch.                                                  *)
Weight(edges, target, suit) ==
    FoldLeft(LAMBDA w, v : IF v.target = target /\ v.suit = suit THEN w + v.weight ELSE w,
             0, edges)
Weights(suit, nodes) ==
    Tabulated(LAMBDA e : Weight(Vouches[e[1]], e[2], suit), nodes \X nodes)

Participants(evidence) ==
    {m \in Masks : \/ \E s \in Suits : evidence[m][s] > 0
                   \/ Vouches[m] # <<>>
                   \/ \E v \in Masks : VouchesFor(v, m)}

\* Without a participant the code keeps the snapshot as it was.
Recomputed(evidence) ==
    LET nodes == Participants(evidence)
        allEv == Tabulated(LAMBDA m : Total(evidence[m], Suits), nodes)
        InSuit(s) ==
            With(Weights(s, nodes), LAMBDA w : With(allEv, LAMBDA all :
                ReputationDimension(w, nodes, Tabulated(LAMBDA m : evidence[m][s], nodes), all)))
    IN  IF nodes = {} THEN ReputationSnapshot
        ELSE With(Tabulated(InSuit, Suits), LAMBDA reputationIn :
                 Tabulated(LAMBDA m : Tabulated(LAMBDA s :
                     IF m \in nodes THEN reputationIn[s][m] ELSE 0, Suits), Masks))

\* The feed of measured service, the epochs of pallet-participation.
EpochService(epoch) == Service[epoch]

\* credit_service_evidence: the epochs that ended and were not credited, eight at most.
ServiceEpochs(n) ==
    IF ServiceEvidenceRate = 0 THEN {}
    ELSE ServiceCreditCursor..Min({n \div EpochLength - 1, ServiceCreditCursor + 7})
Feed(credits, epoch) ==
    FoldLeft(LAMBDA s, m :
                IF EpochService(epoch)[m] = 0 THEN s
                ELSE Append(s, <<m, "technical", ServiceEvidenceRate * EpochService(epoch)[m]>>),
             credits, StorageOrder)
ServiceCredits(n) ==
    FoldLeft(Feed, <<>>, [i \in 1..Cardinality(ServiceEpochs(n)) |-> ServiceCreditCursor + i - 1])

\* What the network publishes about itself: here standing is the least of the suits.
\* Without a participant all is 0, though the snapshot stays as it was.
EpochReport(snapshot, nodes) ==
    LET least(m) == Min({snapshot[m][s] : s \in Suits})
    IN  [members        |-> Cardinality(nodes),
         active_members |-> Cardinality({m \in nodes : least(m) > 0}),
         top_reputation |-> Max({least(m) : m \in nodes} \union {0})]
Decayed ==
    Tabulated(LAMBDA m :
        Tabulated(LAMBDA s : (Evidence[m][s] * RetentionNum) \div RetentionDen, Suits), Masks)
Credited(evidence, admissions) ==
    FoldLeft(LAMBDA e, a : [e EXCEPT ![a[1]][a[2]] = @ + a[3]], evidence, admissions)

\* The 25th percentile of the positive standings.
PercentileFloor(reps) ==
    LET order == SetToSortSeq(DOMAIN reps, LAMBDA a, b : reps[a] < reps[b])
    IN  IF order = <<>> THEN 0 ELSE reps[order[Len(order) \div 4 + 1]]

\* Mutant for BandsTrackHalts: a band goes back to before the epochs that led to it.
OpenBandBackdated(bands, now) ==
    Append(IF Len(bands) = MaxBands THEN Tail(bands) ELSE bands,
           [start |-> now - RequiredEpochs * EpochLength, cleared |-> None])
OpenBand(bands, now) ==
    Append(IF Len(bands) = MaxBands THEN Tail(bands) ELSE bands, [start |-> now, cleared |-> None])
CloseBand(bands, now) ==
    IF bands # <<>> /\ Last(bands).cleared = None
    THEN [bands EXCEPT ![Len(bands)].cleared = now] ELSE bands

Labels(nodes) ==
    Tabulated(LAMBDA s : With(Weights(s, nodes), LAMBDA w : Communities(w, nodes)), Suits)

StepEntrenchmentGuard(consensus, now) ==
    \E reps \in {consensus} : \E labels \in {Labels(DOMAIN reps)} :
    LET cluster == Max({MaxClusterShare(labels[s], reps) : s \in Suits})
        realCluster == \E s \in Suits, a, b \in DOMAIN reps : a # b /\ labels[s][a] = labels[s][b]
        armed == ClusterGuardArmed \/ (realCluster /\ cluster > 0 /\ cluster < ThresholdFp)
        share == Max({MaxSingleEntityShare(reps), IF armed THEN cluster ELSE 0})
    IN  \E step \in {EntrenchmentHaltStep(share, ThresholdFp, EntrenchmentCounter, RequiredEpochs)} :
        /\ ClusterGuardArmed' = armed
        /\ EntrenchmentCounter' = step.counter
        /\ EntrenchmentHalted' = step.halted
        /\ EntrenchmentBands' =
             IF step.halted /\ ~EntrenchmentHalted THEN OpenBand(EntrenchmentBands, now)
             ELSE IF ~step.halted /\ EntrenchmentHalted THEN CloseBand(EntrenchmentBands, now)
             ELSE EntrenchmentBands

RunEpoch(n) ==
    \E credits \in {ServiceCredits(n)} :
    LET head == NextEvidenceRecordId + Len(credits)
    IN  /\ Evidence' = Credited(Decayed, credits)
        /\ ServiceCreditCursor' = ServiceCreditCursor + Cardinality(ServiceEpochs(n))
        /\ NextEvidenceRecordId' = head
        /\ ReputationSnapshot' = Recomputed(Evidence')
        /\ LastReport' = EpochReport(ReputationSnapshot', Participants(Evidence'))
        /\ \E reps \in {ConsensusReputation(ReputationSnapshot')} :
             /\ StepEntrenchmentGuard(reps, n)
             /\ AttestFloorFp' = PercentileFloor(reps)
        /\ EvidenceRecords' =
             Swept(Journal(EvidenceRecords, NextEvidenceRecordId, credits), head)
        /\ EvidenceSweepCursor' =
             IF head = 0 THEN 0 ELSE ((EvidenceSweepCursor + SweepPerEpoch - 1) % head) + 1
        /\ Epoch' = Epoch + 1
        /\ UNCHANGED <<testimony, graph, dials>>

OnInitialize(n) ==
    IF n % EpochLength = 0 THEN RunEpoch(n) ELSE UNCHANGED reputation

-----------------------------------------------------------------------------
(* Liability.  The culprit answers in full, a sponsor with at most half of   *)
(* what it holds in the suit; a quarter of each loss goes one hop up.        *)
Fresh(voucher, who, suit) ==
    /\ ProbationWindow > 0
    /\ <<voucher, who, suit>> \in DOMAIN VouchedAt
    /\ number - VouchedAt[voucher, who, suit] < ProbationWindow

Answers(voucher, who, suit) == VouchesIn(voucher, who, suit) /\ ~Fresh(voucher, who, suit)
\* The level with those who answer for who, each for its share.
Sponsors(level, who, suit, visited, share) ==
    FoldLeft(LAMBDA s, v : IF v \notin visited /\ Answers(v, who, suit)
                           THEN Append(s, <<v, share>>) ELSE s,
             level, StorageOrder)

\* One entry <<who, loss>> of a level; st is [ev, visited, next].
\* Mutant for SponsorsKeepHalf: only who goes on the list is looked up in visited.
LiableTwice(st, entry) == entry[2] > 0
Liable(st, entry) == entry[2] > 0 /\ entry[1] \notin st.visited

CascadeHit(suit, isCulprit, last, st, entry) ==
    LET who == entry[1]
        hit == IF isCulprit THEN entry[2] ELSE Min({entry[2], st.ev[who] \div 2})
        share == (hit * SponsorLiability) \div 100
        visited == st.visited \union {who}
    IN  IF ~Liable(st, entry) THEN st
        ELSE [ev |-> [st.ev EXCEPT ![who] = Saturating(@, hit)],
              visited |-> visited,
              next |-> IF last \/ share = 0 THEN st.next
                       ELSE Sponsors(st.next, who, suit, visited, share)]

CascadeLevel(suit, isCulprit, last, st) ==
    FoldLeft(LAMBDA old, entry :
                With(old, LAMBDA t : CascadeHit(suit, isCulprit, last, t, entry)),
             [ev |-> st.ev, visited |-> st.visited, next |-> <<>>], st.next)

\* What the evidence of a suit is after the loss went up to depth hops up.
CascadeSlash(culprit, suit, loss, depth) ==
    FoldLeft(LAMBDA old, i :
                With(old, LAMBDA st : CascadeLevel(suit, i = 1, i = depth + 1, st)),
             [ev |-> Tabulated(LAMBDA m : Evidence[m][suit], Masks),
              visited |-> {}, next |-> <<<<culprit, loss>>>>],
             [i \in 1..(depth + 1) |-> i]).ev

Slash(culprit, suit, loss, depth) ==
    \E after \in {CascadeSlash(culprit, suit, loss, depth)} :
        Evidence' = [m \in Masks |-> [Evidence[m] EXCEPT ![suit] = after[m]]]

\* A verdict strikes the records it names, and takes no more than they are worth.
Struck(culprit, suit, ids) ==
    {id \in ids \cap DOMAIN EvidenceRecords :
        EvidenceRecords[id].who = culprit /\ EvidenceRecords[id].suit = suit}
Applied(culprit, suit, ids, loss) ==
    Min({loss, MapThenSumSet(RecordCurrent, Struck(culprit, suit, ids))})

\* Mutant for RectifiedOnce: the records stay in the journal.
RectifyUnstruck(culprit, suit, ids, loss, depth) ==
    /\ Slash(culprit, suit, Applied(culprit, suit, ids, loss), depth)
    /\ UNCHANGED EvidenceRecords
RectifyForVerdict(culprit, suit, ids, loss, depth) ==
    /\ Slash(culprit, suit, Applied(culprit, suit, ids, loss), depth)
    /\ EvidenceRecords' =
         [id \in DOMAIN EvidenceRecords \ Struck(culprit, suit, ids) |-> EvidenceRecords[id]]

-----------------------------------------------------------------------------
(* The calls.                                                                *)
SubmitEvidence(who, suit, amount) ==
    /\ BootstrapWindowEnd > 0 => number < BootstrapWindowEnd
    /\ Admit(who, suit, amount)
    /\ UNCHANGED <<number, ReputationSnapshot, Epoch, ServiceCreditCursor, EvidenceSweepCursor,
                   testimony, AttestFloorFp, graph, dials, guard>>

SetBootstrapWindow(end) ==
    /\ BootstrapWindowEnd = 0
    /\ BootstrapWindowEnd' = end
    /\ UNCHANGED <<number, standing, journal, testimony, AttestFloorFp, graph,
                   ProbationWindow, guard>>

SetProbationWindow(blocks) ==
    /\ ProbationWindow' = blocks
    /\ UNCHANGED <<number, standing, journal, testimony, AttestFloorFp, graph,
                   BootstrapWindowEnd, guard>>

\* The weight of a testimony: nothing below the floor or once the pair is spent,
\* else at most the witness's own evidence, halved for each earlier one.
\* Mutant for PairFabricationBounded: the amount is halved before it is capped.
StakeCap(attester, suit) == Evidence[attester][suit] * AttestStakeMultiplier
AdmittedUncapped(attester, beneficiary, suit, amount) ==
    LET n == At(PairAttestCount, <<attester, beneficiary, suit>>)
    IN  IF \/ ConsensusReputationOf(ReputationSnapshot, attester) < AttestFloor
           \/ n >= AttestPairDecayMax THEN 0
        ELSE Min({amount \div Power(2, n), StakeCap(attester, suit)})
Admitted(attester, beneficiary, suit, amount) ==
    LET n == At(PairAttestCount, <<attester, beneficiary, suit>>)
    IN  IF \/ ConsensusReputationOf(ReputationSnapshot, attester) < AttestFloor
           \/ n >= AttestPairDecayMax THEN 0
        ELSE Min({amount, StakeCap(attester, suit)}) \div Power(2, n)

AttestEvidence(attester, beneficiary, suit, amount) ==
    LET pair == <<attester, beneficiary, suit>>
        used == IF AttestsThisEpoch[attester].epoch = Epoch
                THEN AttestsThisEpoch[attester].used ELSE 0
        admitted == Admitted(attester, beneficiary, suit, amount)
        so_far == IF pair \in DOMAIN testified THEN testified[pair] ELSE [sum |-> 0, base |-> 0]
    IN  /\ attester # beneficiary
        /\ used < AttestBudget
        /\ AttestsThisEpoch' =
             [AttestsThisEpoch EXCEPT ![attester] = [epoch |-> Epoch, used |-> used + 1]]
        /\ IF admitted > 0
           THEN /\ Attestations' = Put(Attestations, pair, At(Attestations, pair) + admitted)
                /\ PairAttestCount' = Put(PairAttestCount, pair, At(PairAttestCount, pair) + 1)
                /\ testified' =
                     Put(testified, pair,
                         [sum  |-> so_far.sum + admitted,
                          base |-> Max({so_far.base, Min({amount, StakeCap(attester, suit)})})])
           ELSE UNCHANGED <<Attestations, PairAttestCount, testified>>
        /\ UNCHANGED <<number, standing, journal, AttestFloorFp, graph, dials, guard>>

ClaimAttestedEvidence(beneficiary, attester, suit) ==
    LET pair == <<attester, beneficiary, suit>>
    IN  /\ pair \in DOMAIN Attestations
        /\ Attestations' = [p \in DOMAIN Attestations \ {pair} |-> Attestations[p]]
        /\ Admit(beneficiary, suit, Attestations[pair])
        /\ UNCHANGED <<number, ReputationSnapshot, Epoch, ServiceCreditCursor,
                       EvidenceSweepCursor, AttestsThisEpoch, PairAttestCount, testified,
                       AttestFloorFp, graph, dials, guard>>

Vouch(voucher, target, suit, weight) ==
    /\ voucher # target /\ weight > 0
    /\ Len(Vouches[voucher]) < Min({VouchQuotaOf(voucher), MaxVouches})
    /\ Vouches' = [Vouches EXCEPT ![voucher] =
                     Append(@, [target |-> target, suit |-> suit, weight |-> weight])]
    \* The date of the first vouch stays, whatever is revoked and renewed.
    /\ VouchedAt' = IF <<voucher, target, suit>> \in DOMAIN VouchedAt THEN VouchedAt
                    ELSE Put(VouchedAt, <<voucher, target, suit>>, number)
    /\ UNCHANGED <<number, standing, journal, testimony, AttestFloorFp, dials, guard>>

Without(edges, target, suit) ==
    FoldLeft(LAMBDA kept, e : IF e.target = target /\ e.suit = suit THEN kept
                              ELSE Append(kept, e), <<>>, edges)
RevokeVouch(voucher, target, suit) ==
    /\ Vouches' = [Vouches EXCEPT ![voucher] = Without(@, target, suit)]
    /\ UNCHANGED <<number, standing, journal, testimony, AttestFloorFp, VouchedAt, dials, guard>>

ReportFraud(culprit, suit, loss, depth) ==
    /\ Slash(culprit, suit, loss, depth)
    /\ UNCHANGED <<number, ReputationSnapshot, Epoch, ServiceCreditCursor, journal, testimony,
                   AttestFloorFp, graph, dials, guard>>

-----------------------------------------------------------------------------
(* Genesis: grants of one mask in one suit overwrite each other, each leaves *)
(* a record, and the first snapshot is derived from them.                    *)
GenesisEvidence ==
    [m \in Masks |-> [s \in Suits |->
        LET given == {i \in DOMAIN Grants : Grants[i][1] = m /\ Grants[i][2] = s}
        IN  IF given = {} THEN 0 ELSE Grants[Max(given)][3]]]

InitReputation ==
    /\ number = 0 /\ Epoch = 0 /\ ServiceCreditCursor = 0 /\ BootstrapWindowEnd = 0
    /\ Vouches = Settled
    /\ VouchedAt = [t \in {t \in Masks \X Masks \X Suits :
                              \E e \in Range(Settled[t[1]]) : e.target = t[2] /\ e.suit = t[3]} |-> 0]
    /\ Evidence = GenesisEvidence
    /\ EvidenceRecords = [id \in 0..(Len(Grants) - 1) |->
                            [who |-> Grants[id + 1][1], suit |-> Grants[id + 1][2],
                             amount |-> Grants[id + 1][3], epoch |-> 0]]
    /\ NextEvidenceRecordId = Len(Grants) /\ EvidenceSweepCursor = 0
    /\ LET none == [m \in Masks |-> [s \in Suits |-> 0]] IN
       IF Grants = <<>> THEN ReputationSnapshot = none
       ELSE ReputationSnapshot = Recomputed(Evidence)
    /\ Attestations = <<>> /\ PairAttestCount = <<>> /\ testified = <<>>
    /\ AttestsThisEpoch = [m \in Masks |-> [epoch |-> 0, used |-> 0]]
    /\ AttestFloorFp = 0 /\ ProbationWindow = DefaultProbationWindow
    /\ EntrenchmentCounter = 0 /\ EntrenchmentHalted = FALSE
    /\ EntrenchmentBands = <<>> /\ ClusterGuardArmed = FALSE /\ LastReport = None
=============================================================================
