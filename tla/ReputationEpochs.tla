-------------------------- MODULE ReputationEpochs --------------------------
(***************************************************************************)
(* pallet-reputation on its own: blocks, epochs, and between them the calls *)
(* of the masks and of root.                                                *)
(***************************************************************************)
EXTENDS Reputation

CONSTANTS
    Attesters, Vouchers, Beneficiaries, Culprits,      \* who the calls are by and about
    CallSuits, Amounts, FraudLosses, Depths,
    Windows,               \* ends of the bootstrap window, lengths of the probation window
    MaxCalls               \* bound

ASSUME CallsAssumption ==
    /\ Attesters \union Vouchers \union Beneficiaries \union Culprits \subseteq Masks
    /\ CallSuits \subseteq Suits
    /\ Amounts \union FraudLosses \union Depths \union Windows \subseteq Nat

VARIABLE calls
varsEpochs == <<number, reputation, calls>>

InitEpochs == InitReputation /\ calls = 0

OpenEpochBlock ==
    /\ number < MaxBlock
    /\ number' = number + 1
    /\ OnInitialize(number + 1)
    /\ UNCHANGED calls

Call == number > 0 /\ calls < MaxCalls /\ calls' = calls + 1

Attest(attester, beneficiary, suit) ==
    Call /\ \E amount \in Amounts : AttestEvidence(attester, beneficiary, suit, amount)
Claim(beneficiary, attester, suit) == Call /\ ClaimAttestedEvidence(beneficiary, attester, suit)
PlaceVouch(voucher, target, suit) == Call /\ Vouch(voucher, target, suit, 1)
TakeVouchBack(voucher, target, suit) ==
    Call /\ VouchesIn(voucher, target, suit) /\ RevokeVouch(voucher, target, suit)

\* Root.
Submit(who, suit) == Call /\ \E amount \in Amounts : SubmitEvidence(who, suit, amount)
Report(culprit, suit) ==
    Call /\ \E loss \in FraudLosses, depth \in Depths : ReportFraud(culprit, suit, loss, depth)
SetWindows ==
    \/ Call /\ \E end \in Windows : SetBootstrapWindow(end)
    \/ Call /\ \E blocks \in Windows \ {ProbationWindow} : SetProbationWindow(blocks)

NextEpochs ==
    \/ OpenEpochBlock
    \/ \E suit \in CallSuits :
         \/ \E a \in Attesters, b \in Beneficiaries : Attest(a, b, suit) \/ Claim(b, a, suit)
         \/ \E v \in Vouchers, m \in Masks : PlaceVouch(v, m, suit) \/ TakeVouchBack(v, m, suit)
         \/ \E m \in Beneficiaries : Submit(m, suit)
         \/ \E m \in Culprits : Report(m, suit)
    \/ SetWindows

SpecEpochs == InitEpochs /\ [][NextEpochs]_varsEpochs

\* What the runtime feeds the election of the committee from its pallets: the
\* standing, who has bound a vote key, who committed a key to the beacon, and
\* whether the guard halts.
CommitteeInputs(reps, bound, committed) ==
    [consensus_reputation |-> reps, bound_accounts |-> bound,
     beacon_committed_keys |-> committed, entrenchment_halted |-> EntrenchmentHalted]
ElectorateOf(inputs) ==
    FinalityElectorate(inputs.consensus_reputation, inputs.bound_accounts,
                       inputs.beacon_committed_keys, inputs.entrenchment_halted)

-----------------------------------------------------------------------------
(* A pair of masks never fabricates more than twice what one testimony of it *)
(* could carry, however often the one testifies for the other and whatever   *)
(* amounts it names.                                                         *)
PairFabricationBounded ==
    \A pair \in DOMAIN testified : testified[pair].sum <= 2 * testified[pair].base

(* What a mask holds in a suit is in the journal, where a case can dispute   *)
(* it: it is covered by its records, each for what it was worth an epoch ago *)
(* (a record of service ages an epoch earlier than the evidence does) and    *)
(* less than one unit more; a record that was removed counts for one unit.   *)
LastWorth(id) ==
    LET r == EvidenceRecords[id] IN Retained(r.amount, Saturating(Epoch - r.epoch, 1))
EvidenceIsDisputable ==
    \A m \in Masks, s \in Suits :
        LET live == {id \in DOMAIN EvidenceRecords :
                        EvidenceRecords[id].who = m /\ EvidenceRecords[id].suit = s}
            gone == NextEvidenceRecordId - Cardinality(DOMAIN EvidenceRecords)
        IN  Evidence[m][s] <= MapThenSumSet(LastWorth, live) + Cardinality(live) + gone

(* The bands tell the node which heights finality stood still at: a band is  *)
(* open exactly while the guard halts, it is the last one, and the bands     *)
(* follow each other without overlap, so a height has one anchor.            *)
BandsTrackHalts ==
    /\ EntrenchmentHalted <=>
         EntrenchmentBands # <<>> /\ Last(EntrenchmentBands).cleared = None
    /\ \A i \in 1..(Len(EntrenchmentBands) - 1) :
         /\ EntrenchmentBands[i].cleared # None
         /\ EntrenchmentBands[i].start < EntrenchmentBands[i].cleared
         /\ EntrenchmentBands[i].cleared < EntrenchmentBands[i + 1].start

(* Whoever holds vote keys and whoever committed a key to the beacon, the    *)
(* committee is drawn among masks with standing and a vote key, and among    *)
(* at least four of them when there are four: a lone commitment in the       *)
(* beacon cannot make its author the electorate.                             *)
CommitteeViable ==
    \E reps \in {ConsensusReputation(ReputationSnapshot)} :
    \A bound, committed \in SUBSET Masks :
        LET eligible == ElectorateOf(CommitteeInputs(reps, bound, committed))
            reputable == DOMAIN reps \cap bound
        IN  /\ eligible \subseteq reputable
            /\ ~EntrenchmentHalted =>
                 Cardinality(eligible) >= Min({Floor, Cardinality(reputable)})

(* A recount gives standing in a suit only to those whom trust can reach     *)
(* from evidence: a ring of masks that vouch for each other and did nothing  *)
(* has none.  (With no participant left there is no recount.)                *)
Earned(m, suit) ==
    \A trusted \in SUBSET Masks :
        (/\ {v \in Masks : Evidence[v][suit] > 0} \subseteq trusted
         /\ \A v \in trusted, t \in Masks : VouchesIn(v, t, suit) => t \in trusted)
        => m \in trusted
StandingIsEarned ==
    [][Epoch' # Epoch /\ Participants(Evidence') # {} =>
         \A m \in Masks, s \in Suits : ReputationSnapshot'[m][s] > 0 => Earned(m, s)']_varsEpochs

(* Whatever the graph of vouches, its cycles and its diamonds, one verdict   *)
(* takes more than half of the evidence of no one but the culprit.           *)
SponsorsKeepHalf ==
    [][Epoch' = Epoch =>
         Cardinality({m \in Masks : \E s \in Suits : 2 * Evidence'[m][s] < Evidence[m][s]}) <= 1]_varsEpochs
=============================================================================
