------------------------------- MODULE Era ------------------------------
(***************************************************************************)
(* The feed of service through the runtime, block by block: participation  *)
(* and hosting count it, pallet-reputation turns each ended epoch into     *)
(* evidence, pallet-tokens takes each ended era.  The runtime runs the     *)
(* on_initialize of reputation before that of participation, the           *)
(* mandatory record before the extrinsics, and on_finalize of tokens last. *)
(***************************************************************************)
EXTENDS Participation

CONSTANTS
  GenesisKeys,           \* [Accounts -> Keys \cup {None}]
  Elected,               \* [Periods -> SUBSET Accounts]: the committee each epoch elects
  Ballots,               \* votes a record of a node that does not run the provider may carry
  ServiceEvidenceRate,
  MaxCalls               \* bound: records with content, beats and bindings

ASSUME EraAssumption ==
  /\ EraLength % EpochLength = 0 /\ EraLength % DayLength = 0
  /\ GenesisKeys \in [Accounts -> Keys \cup {None}]
  /\ \A a, b \in Accounts : GenesisKeys[a] = GenesisKeys[b] => a = b \/ GenesisKeys[a] = None
  /\ Elected \in [Periods -> SUBSET Accounts] /\ ServiceEvidenceRate \in Nat
  /\ \A votes \in Ballots : votes \in Seq(SignedVote)
  \* bound: no record speaks of a block past the last one explored
  /\ \A votes \in Ballots : \A i \in DOMAIN votes : votes[i].height =< MaxBlock

VARIABLES
  closed,                \* the block ran on_finalize
  Epoch,                 \* pallet-tokens: the era to pay next
  ServiceCreditCursor, Evidence,   \* pallet-reputation; Evidence before decay
  calls,
  ledger,                \* history: [what, height, who, block] of each credit
  beatLog,               \* history: [who, day, counted, nth] of each beat, in their order
  paid, hostPaid         \* history: what tokens read of each era

reputation == <<ServiceCreditCursor, Evidence>>
history == <<ledger, beatLog, paid, hostPaid>>
vars == <<participation, hosting, delegation, closed, Epoch, reputation, calls, history>>

Init ==
  /\ InitParticipation /\ InitHosting
  /\ VoteKeys = GenesisKeys
  /\ VoteKeyOwner = [k \in Keys |-> IF \E a \in Accounts : GenesisKeys[a] = k
                                    THEN CHOOSE a \in Accounts : GenesisKeys[a] = k ELSE None]
  /\ closed = TRUE /\ Epoch = 0 /\ ServiceCreditCursor = 0 /\ Evidence = Nobody
  /\ calls = 0 /\ ledger = {} /\ beatLog = {} /\ paid = Never /\ hostPaid = Never

-----------------------------------------------------------------------------
(* credit_service_evidence: the epochs not credited yet, eight at most.    *)
(* Mutant: up to the epoch that begins.                                    *)
CreditableEarly(n) == ServiceCreditCursor..Min({n \div EpochLength, ServiceCreditCursor + 7})
Creditable(n) == ServiceCreditCursor..Min({EndedEpoch(n), ServiceCreditCursor + 7})
CreditServiceEvidence(n) ==
  /\ Evidence' = [a \in Accounts |-> Evidence[a]
       + ServiceEvidenceRate * MapThenSumSet(LAMBDA e : ServiceWeights(e)[a], Creditable(n))]
  /\ ServiceCreditCursor' = ServiceCreditCursor + Cardinality(Creditable(n))

OpenBlock ==
  /\ closed /\ number < MaxBlock
  /\ closed' = FALSE
  /\ IF EndsEpoch(number + 1) /\ ServiceEvidenceRate > 0 THEN CreditServiceEvidence(number + 1)
     ELSE UNCHANGED reputation
  /\ OnInitialize(number + 1, Elected[(number + 1) \div CommitteeEpochLength])
  /\ UNCHANGED <<hosting, delegation, Epoch, calls, history>>

Votes(record) ==
  {[what |-> "vote", height |-> c[1], who |-> c[2], block |-> number] : c \in Counted(record.votes)}
Authorship(record) ==
  {[what |-> "author", height |-> number, who |-> a, block |-> number] :
     a \in {CreditedAuthor(record)} \ {None}}

Note(record) ==
  /\ ~closed
  /\ calls' = IF record.author = None /\ record.votes = << >> THEN calls ELSE calls + 1
  /\ calls' =< MaxCalls
  /\ NoteParticipation(record)
  /\ ledger' = ledger \cup Votes(record) \cup Authorship(record)
  /\ UNCHANGED <<hosting, delegation, closed, Epoch, reputation, beatLog, paid, hostPaid>>

Call ==
  /\ NotedThisBlock /\ ~closed
  /\ calls < MaxCalls /\ calls' = calls + 1

Beat(hot) ==
  /\ Call
  /\ \E at \in 0..number : Heartbeat(hot, at)
  /\ beatLog' = beatLog \cup
       {[who |-> MaskOf(hot), day |-> Today, counted |-> DayCounts(MaskOf(hot)),
         nth |-> Cardinality(beatLog)]}
  /\ UNCHANGED <<participation, delegation, closed, Epoch, reputation, ledger, paid, hostPaid>>

Bind(who, key) ==
  /\ Call /\ SetVoteKey(who, key)
  /\ UNCHANGED <<participation, hosting, closed, Epoch, reputation, history>>
Unbind(who) ==
  /\ Call /\ ClearVoteKey(who)
  /\ UNCHANGED <<participation, hosting, closed, Epoch, reputation, history>>

(* The two feeds of the rewards: an era is read and cleared in one go.     *)
EraServiceFeed(era) ==
  /\ paid' = [paid EXCEPT ![era] = EraServiceAccumulator[era]]
  /\ CloseEra(era)
HostingFeed(era) ==
  /\ hostPaid' = [hostPaid EXCEPT ![era] = HostDays[era]]
  /\ ClearHosts(era)

(* run_epoch of pallet-tokens, as far as the sources of service go.        *)
PayEra ==
  /\ EraServiceFeed(Epoch) /\ HostingFeed(Epoch)
  /\ Epoch' = Epoch + 1

CloseBlock ==
  /\ NotedThisBlock /\ ~closed
  /\ closed' = TRUE
  /\ IF number % EraLength = 0
     THEN PayEra
     ELSE UNCHANGED <<paid, hostPaid, eras, HostDays, HostCount, Epoch>>
  /\ UNCHANGED <<number, CurrentEpoch, service, noted, CommitteeForEpoch, Beats, delegation,
                 reputation, calls, ledger, beatLog>>

\* What the provider of an author can build: its parent is the head.
Honest == {ProviderFor(store, finalized, key) :
             store \in Stores, finalized \in 0..(number - 1), key \in Keys \cup {None}}
Records == [author : Keys \cup {None}, votes : Ballots] \cup Honest
Next ==
  \/ OpenBlock
  \/ \E record \in Records : Note(record)
  \/ \E hot \in Keys : Beat(hot)
  \/ \E who \in Accounts, key \in Keys : Bind(who, key)
  \/ \E who \in Accounts : Unbind(who)
  \/ CloseBlock

Spec == Init /\ [][Next]_vars

-----------------------------------------------------------------------------
Counters == [Periods -> [Accounts -> Nat]]
TypeOK ==
  /\ number \in 0..MaxBlock /\ CurrentEpoch \in Periods /\ LastCreditedHeight \in 0..MaxBlock
  /\ NotedThisBlock \in BOOLEAN /\ BlockAuthor \in Accounts \cup {None} /\ closed \in BOOLEAN
  /\ {AuthoredInEpoch, FinalityVotesInEpoch, EraServiceAccumulator, HostDays} \subseteq Counters
  /\ ConsecutiveEras \in [Accounts -> 0..Max({MaxStreak, 1})]
  /\ CommitteeForEpoch \in [Periods -> (SUBSET Accounts) \cup {None}]
  /\ VoteKeys \in [Accounts -> Keys \cup {None}] /\ VoteKeyOwner \in [Keys -> Accounts \cup {None}]
  /\ Beats \in [Accounts -> [last_day : Periods, streak_start : Periods] \cup {None}]
  /\ HostCount \in [Periods -> Nat]
  /\ Epoch \in Periods /\ ServiceCreditCursor \in Periods /\ Evidence \in [Accounts -> Nat]

(* A vote for a height is credited to an account once, whichever blocks    *)
(* report it, however often, and whichever key the account had bound when. *)
CreditedOnce ==
  \A c, d \in ledger :
    c.what = d.what /\ c.height = d.height /\ c.who = d.who => c = d

(* What an author reports is taken whole: of a justification it holds, no    *)
(* genuine vote of a member is passed over for good, as long as none up to   *)
(* it carries more votes of members than a committee has seats: the window   *)
(* is cut to fit the cap then, and strangers do not use it up.  A height the *)
(* author does not hold is lost, and one padded past its committee (which    *)
(* verify_proof lets through) may cost the votes behind the padding.         *)
PassedOver(store, height) ==
  \E i \in DOMAIN VotesForHeight(store, height) :
    LET vote == VotesForHeight(store, height)[i]
    IN  /\ vote.valid /\ IsMember(height, ColdOf(vote.signer))
        /\ \A c \in ledger' :
             ~(c.what = "vote" /\ c.height = height /\ c.who = ColdOf(vote.signer))
Crowded(store, height) ==
  Cardinality({i \in DOMAIN VotesForHeight(store, height) :
                 IsMember(height, ColdOf(VotesForHeight(store, height)[i].signer))}) > MaxCommittee
HonestRecordsWhole ==
  [][\A store \in Stores : \A h \in (LastCreditedHeight + 1)..LastCreditedHeight' :
       PassedOver(store, h) /\ (\A g \in (LastCreditedHeight + 1)..h : ~Crowded(store, g)) =>
         \A finalized \in 0..(number - 1), key \in Keys \cup {None} :
           ~Note(ProviderFor(store, finalized, key))]_vars

(* Each credit is in the counters of its epoch, then in the era the block  *)
(* that made it belongs to, then in the payment of that era and no other:  *)
(* the fold and the payment neither lose, double nor misplace service.     *)
CreditsIn(era, a) == Cardinality({c \in ledger : c.who = a /\ c.block \div EraLength = era})
EpochsOf(era) == {p \in Periods : EraOfEpoch(p) = era}
ServiceConserved ==
  \A era \in Periods, a \in Accounts :
    /\ CreditsIn(era, a) =
         MapThenSumSet(LAMBDA p : ServiceWeights(p)[a], EpochsOf(era))
           + EraServiceAccumulator[era][a] + paid[era][a]
    /\ era < Epoch => paid[era][a] = CreditsIn(era, a)

(* Standing grows by the service of the ended epochs, each once: reputation *)
(* reads an epoch before participation clears it.                          *)
EvidenceMatchesService ==
  \A a \in Accounts :
    Evidence[a] = ServiceEvidenceRate *
      Cardinality({c \in ledger : c.who = a /\ c.block \div EpochLength < CurrentEpoch})

(* The streak that multiplies SOV is the number of eras in a row, up to    *)
(* the last one paid, in which the account was paid for service, capped.   *)
ErasInARow(a) ==
  Cardinality({e \in 0..(Epoch - 1) : \A f \in e..(Epoch - 1) : paid[f][a] > 0})
StreakIsEndurance ==
  \A a \in Accounts : ConsecutiveEras[a] = Min({ErasInARow(a), Max({MaxStreak, 1})})

(* A day of a mask is counted if, and only if, it comes after MinStreakDays *)
(* of beats without a gap of more than MaxGapDays and the mask has a day in  *)
(* that era already, or fewer masks than an era takes had one before it.     *)
DaysOf(a) == {b.day : b \in {x \in beatLog : x.who = a}}
EraOfDay(day) == (day * DayLength) \div EraLength
Unbroken(a, first, last) ==
  \A d \in DaysOf(a) \cap (first..(last - 1)) :
    \E next \in DaysOf(a) : d < next /\ next =< d + MaxGapDays + 1
Earned(a, day) ==
  \E first \in DaysOf(a) : day - first >= MinStreakDays /\ Unbroken(a, first, day)
HostsBefore(b) ==
  {c.who : c \in {x \in beatLog : x.counted /\ x.nth < b.nth /\ EraOfDay(x.day) = EraOfDay(b.day)}}
HostedDaysEarned ==
  \A b \in beatLog :
    b.counted <=> /\ Earned(b.who, b.day)
                  /\ \/ b.who \in HostsBefore(b)
                     \/ Cardinality(HostsBefore(b)) < MaxHostsPerEra

(* Each counted day is paid with the era it falls in, a mask once a day,   *)
(* and no era counts more masks than its end can read.                     *)
HostDaysConserved ==
  \A era \in Periods :
    /\ \A a \in Accounts :
         LET days == Cardinality({b \in beatLog : b.who = a /\ b.counted /\ EraOfDay(b.day) = era})
         IN  /\ HostDays[era][a] + hostPaid[era][a] = days
             /\ era < Epoch => hostPaid[era][a] = days
    /\ HostCount[era] = Cardinality({a \in Accounts : HostDays[era][a] > 0})
    /\ HostCount[era] =< MaxHostsPerEra
=============================================================================
