-------------------------- MODULE Participation -------------------------
(***************************************************************************)
(* The delegation of votes, in pallet-reputation; pallet-participation: the *)
(* record each block carries, the service it credits, the rollup of an     *)
(* epoch into its era; pallet-hosting.  A vote of a record is              *)
(* [signer, height, valid]; record.author is the key that proved it made   *)
(* the block, or None.  A map entry that is absent is 0, {} or None.       *)
(***************************************************************************)
EXTENDS Integers, SequencesExt, FiniteSetsExt

CONSTANTS
  Accounts, Keys, None,
  EpochLength,           \* blocks of a service epoch
  EraLength,             \* blocks of a reward era
  CommitteeEpochLength,  \* COMMITTEE_EPOCH_LENGTH
  Precedes(_, _),        \* the order of account ids
  MaxCommittee,          \* accounts a cached committee holds
  MaxVotesChecked,       \* MAX_VOTES_CHECKED_PER_RECORD
  Stores,                \* what the database of an author may hold
  MaxHeightsPerRecord,   \* MAX_HEIGHTS_PER_RECORD, of the node
  MaxStreak,
  MaxBlock               \* bound: last block explored

ASSUME DelegationAssumption ==
  IsFiniteSet(Accounts) /\ Accounts \subseteq Keys /\ None \notin Keys

ParticipationParameters ==
  /\ {EpochLength, EraLength, CommitteeEpochLength} \subseteq Nat \ {0}
  /\ {MaxVotesChecked, MaxHeightsPerRecord, MaxCommittee, MaxStreak} \subseteq Nat
ASSUME LengthAssumption == ParticipationParameters /\ MaxBlock \in Nat

(* A window of votes of whole committees is within the cap.                *)
ASSUME WindowAssumption == MaxHeightsPerRecord * MaxCommittee =< MaxVotesChecked

(* Any key may sign a vote, bound, released or an account's own.           *)
SignedVote == [signer : Keys \cup Accounts, height : Nat, valid : BOOLEAN]
ParticipationRecord == [author : Keys \cup {None}, votes : Seq(SignedVote)]

(* A justification is kept with the block it is for: what verify_proof asks *)
(* of every vote of it.  Beside a quorum it may carry any others, forged,   *)
(* of strangers or the same again, and the bytes are kept as they came.     *)
ASSUME StoreAssumption ==
  \A store \in Stores : \A height \in 0..MaxBlock : store[height] # None =>
    /\ store[height] \in Seq(SignedVote)
    /\ \A i \in DOMAIN store[height] : store[height][i].height = height

VARIABLES
  VoteKeys, VoteKeyOwner,                  \* of pallet-reputation
  number, CurrentEpoch,
  AuthoredInEpoch, FinalityVotesInEpoch,   \* [Periods -> [Accounts -> Nat]]
  NotedThisBlock, BlockAuthor, LastCreditedHeight,
  EraServiceAccumulator,                   \* [Periods -> [Accounts -> Nat]]
  ConsecutiveEras,
  CommitteeForEpoch                        \* [Periods -> SUBSET Accounts \cup {None}]

delegation == <<VoteKeys, VoteKeyOwner>>
service == <<AuthoredInEpoch, FinalityVotesInEpoch>>
eras == <<EraServiceAccumulator, ConsecutiveEras>>
noted == <<NotedThisBlock, BlockAuthor, LastCreditedHeight>>
participation == <<number, CurrentEpoch, service, noted, eras, CommitteeForEpoch>>

Periods == 0..MaxBlock       \* epochs, committee epochs and eras
Nobody == [a \in Accounts |-> 0]
Never == [p \in Periods |-> Nobody]

InitParticipation ==
  /\ number = 0 /\ CurrentEpoch = 0
  /\ AuthoredInEpoch = Never /\ FinalityVotesInEpoch = Never
  /\ NotedThisBlock = FALSE /\ BlockAuthor = None /\ LastCreditedHeight = 0
  /\ EraServiceAccumulator = Never /\ ConsecutiveEras = Nobody
  /\ CommitteeForEpoch = [p \in Periods |-> None]

-----------------------------------------------------------------------------
(* Delegation of votes: an account binds the hot key that signs for it.    *)
(* The forward map and its reverse are separate storage; the node, the     *)
(* committee and the hosting beats each read one.                          *)
InitDelegation ==
  /\ VoteKeys = [a \in Accounts |-> None]
  /\ VoteKeyOwner = [k \in Keys |-> None]

(* The possession proof of the hot key is always presented. *)
(* Mutant of SetVoteKey: the key it replaces is not released. *)
SetVoteKeyUnreleased(who, key) ==
  /\ VoteKeyOwner[key] \in {None, who}
  /\ VoteKeys' = [VoteKeys EXCEPT ![who] = key]
  /\ VoteKeyOwner' = [VoteKeyOwner EXCEPT ![key] = who]
SetVoteKey(who, key) ==
  /\ VoteKeyOwner[key] \in {None, who}
  /\ VoteKeys' = [VoteKeys EXCEPT ![who] = key]
  /\ VoteKeyOwner' = [k \in Keys |-> IF k = key THEN who
                                     ELSE IF k = VoteKeys[who] THEN None ELSE VoteKeyOwner[k]]

ClearVoteKey(who) ==
  /\ VoteKeys[who] # None
  /\ VoteKeyOwner' = [VoteKeyOwner EXCEPT ![VoteKeys[who]] = None]
  /\ VoteKeys' = [VoteKeys EXCEPT ![who] = None]

(* The upgrade that brought the reverse map builds it from the forward one, *)
(* in the order of storage: the first account with a key owns it.          *)
OnRuntimeUpgrade ==
  /\ VoteKeyOwner' \in {owner \in [Keys -> Accounts \cup {None}] : \A k \in Keys :
       IF VoteKeyOwner[k] # None \/ \A a \in Accounts : VoteKeys[a] # k
       THEN owner[k] = VoteKeyOwner[k]
       ELSE owner[k] \in Accounts /\ VoteKeys[owner[k]] = k}
  /\ UNCHANGED VoteKeys

(* The account a signature counts for, as the committee resolves it (by    *)
(* the forward map) and as the heartbeats do (by the reverse one).         *)
Delegators(key) == {a \in Accounts : VoteKeys[a] = key}
ColdOf(key) == IF Delegators(key) = {} THEN key ELSE CHOOSE a \in Delegators(key) : TRUE
MaskOf(key) == VoteKeyOwner[key]

(* The two maps are inverses of each other: a key signs for one account,   *)
(* whichever map a reader asks, and a released key can be bound again.     *)
MapsInverse ==
  \A a \in Accounts, k \in Keys : VoteKeys[a] = k <=> VoteKeyOwner[k] = a

-----------------------------------------------------------------------------
(* on_initialize of block n.                                               *)
ServiceWeights(epoch) ==
  [a \in Accounts |-> AuthoredInEpoch[epoch][a] + FinalityVotesInEpoch[epoch][a]]

(* The elected beyond the bound are cut off; the node knows no such bound.  *)
Truncated(committee) ==
  {a \in committee : Cardinality({b \in committee : Precedes(b, a)}) < MaxCommittee}

CacheCommittee(n, committee) ==
  LET epoch  == n \div CommitteeEpochLength
      pruned == IF epoch < 4 THEN CommitteeForEpoch
                ELSE [CommitteeForEpoch EXCEPT ![epoch - 4] = None]
  IN  IF n % CommitteeEpochLength = 0 \/ CommitteeForEpoch[epoch] = None
      THEN CommitteeForEpoch' = [pruned EXCEPT ![epoch] = Truncated(committee)]
      ELSE UNCHANGED CommitteeForEpoch

EndsEpoch(n) == n # 0 /\ n % EpochLength = 0
EndedEpoch(n) == (n \div EpochLength) - 1
EraOfEpoch(epoch) == (epoch * EpochLength) \div EraLength

(* Mutants of FoldEpoch: the epoch goes to the era of the block that folds *)
(* it; its counters are kept.                                              *)
FoldEpochLate(n) ==
  LET ended == EndedEpoch(n)
  IN  /\ EraServiceAccumulator' = [EraServiceAccumulator EXCEPT ![n \div EraLength] =
           [a \in Accounts |-> @[a] + ServiceWeights(ended)[a]]]
      /\ AuthoredInEpoch' = [AuthoredInEpoch EXCEPT ![ended] = Nobody]
      /\ FinalityVotesInEpoch' = [FinalityVotesInEpoch EXCEPT ![ended] = Nobody]
      /\ CurrentEpoch' = CurrentEpoch + 1
FoldEpoch(n) ==
  LET ended == EndedEpoch(n)
  IN  /\ EraServiceAccumulator' = [EraServiceAccumulator EXCEPT ![EraOfEpoch(ended)] =
           [a \in Accounts |-> @[a] + ServiceWeights(ended)[a]]]
      /\ AuthoredInEpoch' = [AuthoredInEpoch EXCEPT ![ended] = Nobody]
      /\ FinalityVotesInEpoch' = [FinalityVotesInEpoch EXCEPT ![ended] = Nobody]
      /\ CurrentEpoch' = CurrentEpoch + 1

OnInitialize(n, committee) ==
  /\ number' = n
  /\ NotedThisBlock' = FALSE /\ BlockAuthor' = None
  /\ CacheCommittee(n, committee)
  /\ IF EndsEpoch(n) THEN FoldEpoch(n)
     ELSE UNCHANGED <<EraServiceAccumulator, service, CurrentEpoch>>
  /\ UNCHANGED <<LastCreditedHeight, ConsecutiveEras>>

-----------------------------------------------------------------------------
(* note_participation.                                                     *)
IsMember(height, key) ==
  LET committee == CommitteeForEpoch[height \div CommitteeEpochLength]
  IN  committee # None /\ key \in committee

(* The votes, by position, whose signature is checked: the first           *)
(* MaxVotesChecked of those of a member for a height above the cursor.     *)
(* Mutant of Fresh: the cursor's own height is open.                       *)
FreshFromCursor(votes) ==
  {i \in DOMAIN votes : /\ votes[i].height >= LastCreditedHeight
                        /\ IsMember(votes[i].height, ColdOf(votes[i].signer))}
Fresh(votes) ==
  {i \in DOMAIN votes : /\ votes[i].height > LastCreditedHeight
                        /\ IsMember(votes[i].height, ColdOf(votes[i].signer))}
(* Mutant of Checked: votes of strangers use up the cap. *)
CheckedOfAll(votes) ==
  {i \in Fresh(votes) : Cardinality({j \in DOMAIN votes : j < i}) < MaxVotesChecked}
Checked(votes) ==
  {i \in Fresh(votes) : Cardinality({j \in Fresh(votes) : j < i}) < MaxVotesChecked}
Genuine(votes) == {i \in Checked(votes) : votes[i].valid}

(* Each height and account at most once. *)
Counted(votes) == {<<votes[i].height, ColdOf(votes[i].signer)>> : i \in Genuine(votes)}

(* Mutant of VotesOf: a vote carried twice counts twice. *)
VotesListed(votes, a) == Cardinality({i \in Genuine(votes) : ColdOf(votes[i].signer) = a})
VotesOf(votes, a) == Cardinality({c \in Counted(votes) : c[2] = a})

CreditedAuthor(record) ==
  IF record.author # None /\ IsMember(number, ColdOf(record.author))
  THEN ColdOf(record.author) ELSE None

(* The cursor goes to the highest height counted. *)
AdvanceCursor(heights) ==
  LastCreditedHeight' \in {h \in heights : \A g \in heights : g =< h}

NoteParticipation(record) ==
  /\ ~NotedThisBlock /\ NotedThisBlock' = TRUE
  /\ BlockAuthor' = CreditedAuthor(record)
  /\ AuthoredInEpoch' = [AuthoredInEpoch EXCEPT ![CurrentEpoch] =
       [a \in Accounts |-> @[a] + (IF a = CreditedAuthor(record) THEN 1 ELSE 0)]]
  /\ FinalityVotesInEpoch' = [FinalityVotesInEpoch EXCEPT ![CurrentEpoch] =
       [a \in Accounts |-> @[a] + VotesOf(record.votes, a)]]
  /\ AdvanceCursor({LastCreditedHeight} \cup {c[1] : c \in Counted(record.votes)})
  /\ UNCHANGED <<number, CurrentEpoch, eras, CommitteeForEpoch>>

-----------------------------------------------------------------------------
(* What pallet-tokens asks of a closing era: era_service_streak, then      *)
(* clear_era.                                                              *)
Serves(era, a) == EraServiceAccumulator[era][a] > 0
LongerUncapped(streak) == streak + 1   \* mutant
Longer(streak) == Min({streak + 1, Max({MaxStreak, 1})})

(* Mutant of Streak: an era missed pauses the streak. *)
StreakPaused(era, a) == IF Serves(era, a) THEN Longer(ConsecutiveEras[a]) ELSE ConsecutiveEras[a]
Streak(era, a) == IF Serves(era, a) THEN Longer(ConsecutiveEras[a]) ELSE 0

CloseEra(era) ==
  /\ ConsecutiveEras' = [a \in Accounts |-> Streak(era, a)]
  /\ EraServiceAccumulator' = [EraServiceAccumulator EXCEPT ![era] = Nobody]

-----------------------------------------------------------------------------
(* participation_inherent.rs of the node: the record an author builds for   *)
(* its block, from the justifications its own database holds.  A store maps *)
(* a height to the votes of the justification kept with that block, None    *)
(* when there is none or it does not parse.                                 *)
Window(finalized) ==
  (LastCreditedHeight + 1)..Min({finalized, LastCreditedHeight + MaxHeightsPerRecord})

(* Heights without a justification are skipped, not waited for. *)
VotesForHeight(store, height) == IF store[height] = None THEN << >> ELSE store[height]
Provided(store, finalized) ==
  FlattenSeq([i \in 1..Cardinality(Window(finalized)) |->
                VotesForHeight(store, LastCreditedHeight + i)])

(* A node without a vote key proves no authorship. *)
ProviderFor(store, finalized, key) == [author |-> key, votes |-> Provided(store, finalized)]

-----------------------------------------------------------------------------
(* pallet-hosting: the daily beat of a node bound to a mask.  A beat is    *)
(* dated by the block that includes it; the block it points at is only     *)
(* required to be recent.                                                  *)
CONSTANTS
  DayLength,       \* blocks of a day
  MinStreakDays, MaxGapDays, MaxBeatAge, MaxHostsPerEra

ASSUME HostingAssumption ==
  /\ DayLength \in Nat \ {0}
  /\ {MinStreakDays, MaxGapDays, MaxBeatAge, MaxHostsPerEra} \subseteq Nat
  /\ None \notin [last_day : Nat, streak_start : Nat]

VARIABLES
  Beats,                \* [Accounts -> [last_day, streak_start] or None]
  HostCount, HostDays   \* [Periods -> Nat], [Periods -> [Accounts -> Nat]]
hosting == <<Beats, HostCount, HostDays>>

InitHosting ==
  /\ Beats = [a \in Accounts |-> None]
  /\ HostCount = [e \in Periods |-> 0] /\ HostDays = Never

Today == number \div DayLength
HostEra == number \div EraLength

(* Where the streak of a mask stands when it beats now.                    *)
StreakStart(mask) ==
  IF Beats[mask] # None /\ Today - Beats[mask].last_day =< MaxGapDays + 1
  THEN Beats[mask].streak_start ELSE Today
Enduring(mask) == Today - StreakStart(mask) >= MinStreakDays

(* Mutant of DayCounts: the last place of an era is never given. *)
DayCountsShort(mask) ==
  Enduring(mask) /\ (HostDays[HostEra][mask] > 0 \/ HostCount[HostEra] + 1 < MaxHostsPerEra)
DayCounts(mask) ==
  Enduring(mask) /\ (HostDays[HostEra][mask] > 0 \/ HostCount[HostEra] < MaxHostsPerEra)

(* Mutant of CountDay: every day takes a place of the era. *)
CountDayAgain(mask) ==
  /\ HostDays' = [HostDays EXCEPT ![HostEra][mask] = @ + 1]
  /\ HostCount' = [HostCount EXCEPT ![HostEra] = @ + 1]
CountDay(mask) ==
  /\ HostDays' = [HostDays EXCEPT ![HostEra][mask] = @ + 1]
  /\ HostCount' = [HostCount EXCEPT ![HostEra] =
       IF HostDays[HostEra][mask] = 0 THEN @ + 1 ELSE @]

Recent(at) == at < number /\ number - at =< MaxBeatAge
NotToday(mask) == Beats[mask] # None => Beats[mask].last_day < Today
Heartbeat(hot, at) ==
  LET mask == MaskOf(hot)
  IN  /\ Recent(at)
      /\ mask # None /\ NotToday(mask)
      /\ Beats' = [Beats EXCEPT ![mask] = [last_day |-> Today, streak_start |-> StreakStart(mask)]]
      /\ IF DayCounts(mask) THEN CountDay(mask) ELSE UNCHANGED <<HostCount, HostDays>>

ClearHosts(era) ==
  /\ HostDays' = [HostDays EXCEPT ![era] = Nobody]
  /\ HostCount' = [HostCount EXCEPT ![era] = 0]
=============================================================================
