------------------------------ MODULE Justice ------------------------------
(***************************************************************************)
(* pallet-justice as the runtime wires it: cases about the evidence of      *)
(* pallet-reputation, juries drawn some blocks after the filing by the      *)
(* sortition of consensus-core, votes, verdicts.  A tie is a vouch.         *)
(*                                                                          *)
(* The storage maps of one case are one record here.  What the fact is      *)
(* about stays off chain.                                                   *)
(***************************************************************************)
EXTENDS Reputation

CONSTANTS
    JurySize, MaxJury, MaxInterested, MaxCaseEvidence,
    GuiltThreshold, VoteQuorum, Depth2Weight,       \* in percent
    VotingWindow, JuryDrawDelay, InterestCooling, MaxDrawsPerBlock,
    DrawSearch,            \* blocks looked at for a free draw, 64 in the code
    MaxGuiltyMarks,        \* 64 in the code
    Redraws,               \* 32 in the code
    VrfValues              \* the values of the VRF the model tells apart

\* The dials of the pallet.  The draw must come after the block of the filing:
\* the hash it is drawn from does not exist yet.
JusticeConfig ==
    /\ {GuiltThreshold, VoteQuorum, Depth2Weight} \subseteq 0..100
    /\ JuryDrawDelay >= 2 /\ MaxDrawsPerBlock \in Nat \ {0}
    /\ {JurySize, MaxJury, MaxInterested, MaxCaseEvidence, VotingWindow, JuryDrawDelay,
        InterestCooling} \subseteq Nat
ASSUME JusticeAssumption ==
    /\ JusticeConfig /\ DrawSearch \in Nat /\ VrfValues \subseteq 0..(Scale - 1)
    /\ MaxGuiltyMarks \in Nat \ {0} /\ Redraws \in Nat

VARIABLES
    Cases,                 \* id -> record of the case, ids from 0 without a gap
    Votes,                 \* id -> [jurors that voted -> BOOLEAN, TRUE for guilty]
    DrawQueue,             \* block -> sequence of ids whose jury is drawn in it
    GuiltyMarks,           \* [Masks -> sequence of ids]
    verdicts               \* history: [case, struck, worth, loss] of the rectifications

justice == <<Cases, Votes, DrawQueue, GuiltyMarks, verdicts>>

CaseStatus == {"AwaitingJury", "Open", "ResolvedGuilty", "ResolvedNotGuilty", "Lapsed"}
Case == [plaintiff : Masks, defendant : Masks, suit : Suits, loss : Nat,
         evidence : SUBSET Nat, incapacity : BOOLEAN, parties : SUBSET Masks,
         jury : SUBSET Masks, status : CaseStatus, opened_at : 0..MaxBlock]

Suit(dimension) == SuitAll[dimension + 1]
MulCeil(percent, n) == (percent * n + 99) \div 100

InitJustice ==
    /\ Cases = <<>> /\ Votes = <<>> /\ verdicts = {}
    /\ DrawQueue = [b \in 0..(MaxBlock + JuryDrawDelay + DrawSearch) |-> <<>>]
    /\ GuiltyMarks = [m \in Masks |-> <<>>]

-----------------------------------------------------------------------------
(* Interest.  At the door and at the draw a tie counts in both directions,   *)
(* at the draw one that a party made only if it is old; after the draw only  *)
(* one that the juror made.                                                  *)
HasInterest(who, parties) == \E p \in parties : IsRelated(who, p)

JurorDisqualified(who, parties) == \E p \in parties : who = p \/ VouchesFor(who, p)

\* Mutant for SeatedJurorsCanVote: only old ties count, the candidate's own too.
ExcludesOldTies(who, parties, cutoff) ==
    \E p \in parties : \/ who = p
                       \/ VouchedAtOrBefore(who, p, cutoff)
                       \/ VouchedAtOrBefore(p, who, cutoff)
\* Mutant for DocketInOrder: a party is not tied to itself.
ExcludesTiedOnly(who, parties, cutoff) ==
    \E p \in parties : VouchesFor(who, p) \/ VouchedAtOrBefore(p, who, cutoff)
ExcludesAtDraw(who, parties, cutoff) ==
    \E p \in parties : who = p \/ VouchesFor(who, p) \/ VouchedAtOrBefore(p, who, cutoff)

-----------------------------------------------------------------------------
(* Filing.                                                                   *)
FreeDraws ==
    {b \in (number + JuryDrawDelay)..(number + JuryDrawDelay + DrawSearch - 1) :
        Len(DrawQueue[b]) < MaxDrawsPerBlock}

\* Mutant for AwaitingIsQueued: the case takes its slot whether one is free or not.
QueueUnsearched(id) ==
    LET b == number + JuryDrawDelay
    IN  DrawQueue' = IF Len(DrawQueue[b]) < MaxDrawsPerBlock
                     THEN [DrawQueue EXCEPT ![b] = Append(@, id)] ELSE DrawQueue
Queue(id) ==
    /\ FreeDraws # {}
    /\ DrawQueue' = [DrawQueue EXCEPT ![Min(FreeDraws)] = Append(@, id)]

DoOpen(plaintiff, defendant, dimension, loss, evidence, extra, incapacity) ==
    LET id == Cardinality(DOMAIN Cases)
    IN  /\ dimension \in 0..3 /\ plaintiff # defendant
        /\ Cardinality(evidence) <= MaxCaseEvidence
        /\ \A e \in evidence : OwnsEvidence(e, defendant, Suit(dimension))
        /\ \A m \in extra : HasInterest(m, {plaintiff, defendant})
        /\ 2 + Cardinality(extra) <= MaxInterested
        /\ Queue(id)
        /\ Cases' = [i \in DOMAIN Cases \union {id} |->
             IF i # id THEN Cases[i]
             ELSE [plaintiff |-> plaintiff, defendant |-> defendant, suit |-> Suit(dimension),
                   loss |-> loss, evidence |-> evidence, incapacity |-> incapacity,
                   parties |-> {plaintiff, defendant} \union extra, jury |-> {},
                   status |-> "AwaitingJury", opened_at |-> number]]
        /\ Votes' = [i \in DOMAIN Votes \union {id} |-> IF i = id THEN <<>> ELSE Votes[i]]
        /\ UNCHANGED <<number, reputation, GuiltyMarks, verdicts>>

OpenCase(plaintiff, defendant, dimension, loss, evidence, extra) ==
    DoOpen(plaintiff, defendant, dimension, loss, evidence, extra, FALSE)
OpenIncapacityCase(plaintiff, subject, extra) ==
    DoOpen(plaintiff, subject, 2, 0, {}, extra, TRUE)

-----------------------------------------------------------------------------
(* The draw, at the start of a block.  reps is the consensus reputation.     *)
DrawWeights(c, reps) ==
    LET cutoff == Saturating(c.opened_at, InterestCooling)
        weight(m) == IF RelationDepth(m, c.parties) = 2
                     THEN (Depth2Weight * reps[m]) \div 100 ELSE reps[m]
        pool == {m \in DOMAIN reps : ~ExcludesAtDraw(m, c.parties, cutoff) /\ weight(m) > 0}
    IN  Tabulated(weight, pool)

\* The winners with the most seats, the lower mask first, up to MaxJury.
Tally(seats) ==
    {m \in DOMAIN seats :
        Cardinality({k \in DOMAIN seats : seats[k] > seats[m] \/ (seats[k] = seats[m] /\ k < m)})
            < MaxJury}

\* The juries that the draw of a case can seat; empty when nobody can sit.
Juries(c, reps, committed) ==
    With(DrawWeights(c, reps), LAMBDA pool :
        LET eligible == Electorate(DOMAIN pool, committed)
            weights == Tabulated(LAMBDA m : pool[m], eligible)
            draws == {Tally(ElectCommittee(weights, vrf, JurySize)) :
                        vrf \in [eligible -> VrfValues]}
        IN  IF eligible = {} THEN {{}}
            ELSE {BestDraw(seq, DrawFloor(eligible)) : seq \in [1..(Redraws + 1) -> draws]})

Seated(c, jury) ==
    IF jury = {} THEN [c EXCEPT !.status = "Lapsed"]
    ELSE [c EXCEPT !.status = "Open", !.jury = jury, !.opened_at = number']

Due(n) == ToSet(DrawQueue[n])
\* committed: who has a key in the beacon.  Justice runs after reputation.
DrawJuries(n, committed) ==
    \E reps \in {ConsensusReputation(ReputationSnapshot')} :
    \E jury \in [Due(n) -> UNION {Juries(Cases[id], reps, committed) : id \in Due(n)}] :
        /\ \A id \in Due(n) : jury[id] \in Juries(Cases[id], reps, committed)
        /\ Cases' = [id \in DOMAIN Cases |->
                        IF id \in Due(n) /\ Cases[id].status = "AwaitingJury"
                        THEN Seated(Cases[id], jury[id]) ELSE Cases[id]]
        /\ DrawQueue' = [DrawQueue EXCEPT ![n] = <<>>]
        /\ UNCHANGED <<Votes, GuiltyMarks, verdicts>>

-----------------------------------------------------------------------------
(* Votes and verdicts.                                                       *)
CastVote(juror, id, guilty) ==
    /\ Cases[id].status = "Open"
    /\ juror \in Cases[id].jury
    /\ ~JurorDisqualified(juror, Cases[id].parties)
    /\ Votes' = [Votes EXCEPT ![id] = [j \in DOMAIN @ \union {juror} |->
                                           IF j = juror THEN guilty ELSE @[j]]]
    /\ UNCHANGED <<number, reputation, Cases, DrawQueue, GuiltyMarks, verdicts>>

Elapsed(c) == number - c.opened_at
ExtendedOver(c) == Elapsed(c) >= 2 * VotingWindow

\* The jurors whose vote counts now.
\* Mutant for PartiesCannotTurnTheTally: interest counts as at the door.
CountingUntied(id) ==
    {j \in Cases[id].jury \cap DOMAIN Votes[id] : ~HasInterest(j, Cases[id].parties)}
Counting(id) ==
    {j \in Cases[id].jury \cap DOMAIN Votes[id] : ~JurorDisqualified(j, Cases[id].parties)}
VotesCast(id) == Cardinality(Counting(id))
GuiltyVotes(id) == Cardinality({j \in Counting(id) : Votes[id][j]})
HasQuorum(id) == VotesCast(id) >= MulCeil(VoteQuorum, Cardinality(Cases[id].jury))
Guilty(id) ==
    LET needed == MulCeil(GuiltThreshold, Cardinality(Cases[id].jury))
    IN  GuiltyVotes(id) >= needed /\ needed > 0

MayClose(closer, id) ==
    LET c == Cases[id]
    IN  /\ c.status = "Open"
        /\ Elapsed(c) >= VotingWindow
        /\ ~ExtendedOver(c) => closer \notin c.parties

Close(id, status) == Cases' = [Cases EXCEPT ![id].status = status]

Lapse(closer, id) ==
    /\ MayClose(closer, id) /\ ~HasQuorum(id) /\ ExtendedOver(Cases[id])
    /\ Close(id, "Lapsed")
    /\ UNCHANGED <<number, reputation, Votes, DrawQueue, GuiltyMarks, verdicts>>

Acquit(closer, id) ==
    /\ MayClose(closer, id) /\ HasQuorum(id) /\ ~Guilty(id)
    /\ Close(id, "ResolvedNotGuilty")
    /\ UNCHANGED <<number, reputation, Votes, DrawQueue, GuiltyMarks, verdicts>>

\* A verdict of incapacity voids a consent and does nothing else.
Nullify(closer, id) ==
    /\ MayClose(closer, id) /\ HasQuorum(id) /\ Guilty(id) /\ Cases[id].incapacity
    /\ Close(id, "ResolvedGuilty")
    /\ UNCHANGED <<number, reputation, Votes, DrawQueue, GuiltyMarks, verdicts>>

\* The rectifier the runtime gives the court: three hops up the vouches.
OnGuilty(c) == RectifyForVerdict(c.defendant, c.suit, c.evidence, c.loss, 3)

Convict(closer, id) ==
    LET c == Cases[id]
        struck == Struck(c.defendant, c.suit, c.evidence)
        marks == GuiltyMarks[c.defendant]
    IN  /\ MayClose(closer, id) /\ HasQuorum(id) /\ Guilty(id) /\ ~c.incapacity
        /\ Close(id, "ResolvedGuilty")
        /\ OnGuilty(c)
        /\ GuiltyMarks' = [GuiltyMarks EXCEPT ![c.defendant] =
                             Append(IF Len(marks) = MaxGuiltyMarks THEN Tail(marks) ELSE marks, id)]
        /\ verdicts' = verdicts \union
             {[case |-> id, struck |-> struck, worth |-> MapThenSumSet(RecordCurrent, struck),
               loss |-> Evidence[c.defendant][c.suit] - Evidence'[c.defendant][c.suit]]}
        /\ UNCHANGED <<number, ReputationSnapshot, Epoch, ServiceCreditCursor,
                       NextEvidenceRecordId, EvidenceSweepCursor, testimony, AttestFloorFp,
                       graph, dials, guard, Votes, DrawQueue>>
=============================================================================
