--------------------------- MODULE Consensus_proofs ---------------------------
(***************************************************************************)
(* The finality round for any hashes and committees; the slot loop for any *)
(* number of nodes, masks and epochs; the commit-reveal discipline of      *)
(* pallet-beacon for any accounts, secrets and epoch length.               *)
(***************************************************************************)
EXTENDS FinalityRound, Authoring, Beacon, Sums

-----------------------------------------------------------------------------
(* The beacon.                                                             *)
Entry(a, epoch, d) == [who |-> a, epoch |-> epoch, digest |-> d]

(* Where the digest of each storage map was committed. *)
Locked ==
  /\ number \in Nat
  /\ Pending \in [Accounts -> Digests \cup {None}]
  /\ Awaiting \in [Accounts -> Digests \cup {None}]
  /\ Staged \in [Accounts -> Secrets \cup {None}]
  /\ Active \in [Accounts -> Secrets \cup {None}]
  /\ \A a \in Holders(Pending) : Entry(a, Epoch, Pending[a]) \in ledger
  /\ \A a \in Holders(Awaiting) : Entry(a, Epoch - 1, Awaiting[a]) \in ledger
  /\ \A a \in Holders(Staged) : Entry(a, Epoch - 1, H[Staged[a]]) \in ledger
  /\ \A a \in Holders(Active) : Entry(a, Epoch - 2, H[Active[a]]) \in ledger

LEMMA EpochType == number \in Nat => Epoch \in Nat
BY BeaconAssumption DEF Epoch

(* The epoch advances by one exactly at the blocks that roll. *)
LEMMA DivNext ==
  ASSUME NEW n \in Nat, NEW L \in Nat \ {0}
  PROVE  (n + 1) \div L = IF (n + 1) % L = 0 THEN (n \div L) + 1 ELSE n \div L
  OBVIOUS

LEMMA LockedInit == InitBeacon => Locked
BY DEF InitBeacon, Locked, NoEntries, Holders

LEMMA LockedCommit ==
  ASSUME Locked, NEW a \in Accounts, NEW c \in Digests, Commit(a, c)
  PROVE  Locked'
<1>1. /\ Epoch' = Epoch /\ Epoch \in Nat
      /\ UNCHANGED <<number, Awaiting, Staged, Active>>
      /\ Pending' = [Pending EXCEPT ![a] = c]
  BY EpochType DEF Commit, Epoch, Locked
<1>2. Entry(a, Epoch, c) \in ledger'
  BY DEF Commit, Entry
<1>3. \A b \in Accounts, e \in Int : \A d :
        Entry(b, e, d) \in ledger /\ (b # a \/ e # Epoch) => Entry(b, e, d) \in ledger'
  BY DEF Commit, Entry
<1>4. \A b \in Holders(Pending') : Entry(b, Epoch', Pending'[b]) \in ledger'
  BY <1>1, <1>2, <1>3 DEF Holders, Locked
<1>5. Epoch - 1 \in Int /\ Epoch - 1 # Epoch /\ Epoch - 2 \in Int /\ Epoch - 2 # Epoch
  BY <1>1
<1>6. \A b \in Holders(Awaiting') : Entry(b, Epoch' - 1, Awaiting'[b]) \in ledger'
  BY <1>1, <1>3, <1>5 DEF Holders, Locked
<1>7. \A b \in Holders(Staged') : Entry(b, Epoch' - 1, H[Staged'[b]]) \in ledger'
  BY <1>1, <1>3, <1>5 DEF Holders, Locked
<1>8. \A b \in Holders(Active') : Entry(b, Epoch' - 2, H[Active'[b]]) \in ledger'
  BY <1>1, <1>3, <1>5 DEF Holders, Locked
<1> QED
  BY <1>1, <1>4, <1>6, <1>7, <1>8 DEF Locked

LEMMA LockedReveal ==
  ASSUME Locked, NEW a \in Accounts, NEW s \in Secrets, Reveal(a, s)
  PROVE  Locked'
<1>1. Epoch' = Epoch /\ Entry(a, Epoch - 1, H[s]) \in ledger
  BY DEF Reveal, Opens, Epoch, Locked, Holders
<1> QED
  BY <1>1 DEF Reveal, Locked, Holders

LEMMA LockedNextBlock ==
  ASSUME Locked, NextBlock
  PROVE  Locked'
<1>1. number \in Nat /\ number' = number + 1 /\ Epoch \in Nat /\ ledger' = ledger
  BY EpochType DEF NextBlock, Locked
<1>2. CASE StartsEpoch(number')
  <2>1. Epoch' = Epoch + 1
    BY <1>1, <1>2, DivNext, BeaconAssumption DEF StartsEpoch, Epoch
  <2>2. /\ Active' = Staged /\ Awaiting' = Pending
        /\ Pending' = NoEntries /\ Staged' = NoEntries
    BY <1>2 DEF NextBlock, Roll
  <2>3. Holders(Pending') = {} /\ Holders(Staged') = {}
    BY <2>2 DEF Holders, NoEntries
  <2>4. Epoch' - 1 = Epoch /\ Epoch' - 2 = Epoch - 1
    BY <1>1, <2>1
  <2>5. /\ \A b \in Holders(Awaiting') : Entry(b, Epoch' - 1, Awaiting'[b]) \in ledger'
        /\ \A b \in Holders(Active') : Entry(b, Epoch' - 2, H[Active'[b]]) \in ledger'
    BY <1>1, <2>2, <2>4 DEF Locked
  <2> QED
    BY <1>1, <2>2, <2>3, <2>5 DEF Locked, NoEntries
<1>3. CASE ~StartsEpoch(number')
  <2>1. Epoch' = Epoch
    <3>1. CASE EpochLength = 0
      BY <3>1 DEF Epoch
    <3>2. CASE EpochLength # 0
      <4>1. (number + 1) % EpochLength # 0
        BY <1>1, <1>3, <3>2 DEF StartsEpoch
      <4>2. (number + 1) \div EpochLength = number \div EpochLength
        BY <1>1, <3>2, <4>1, DivNext, BeaconAssumption
      <4> QED
        BY <1>1, <3>2, <4>2 DEF Epoch
    <3> QED
      BY <3>1, <3>2
  <2>2. UNCHANGED maps
    BY <1>3 DEF NextBlock
  <2> QED
    BY <1>1, <2>1, <2>2 DEF Locked, maps, Holders
<1> QED
  BY <1>2, <1>3

LEMMA LockedStep ==
  ASSUME Locked, [NextBeacon]_pallet
  PROVE  Locked'
<1>1. CASE NextBeacon
  BY <1>1, LockedCommit, LockedReveal, LockedNextBlock DEF NextBeacon
<1>2. CASE UNCHANGED pallet
  BY <1>2 DEF pallet, maps, Locked, Holders, Epoch
<1> QED
  BY <1>1, <1>2

(* Whoever is drawn with a key committed to it two epochs before: the      *)
(* commitment was closed a full epoch before the seed was folded.          *)
THEOREM KeysAreLocked == SpecBeacon => []ActiveKeysLocked
<1>1. Locked => ActiveKeysLocked
  BY DEF Locked, ActiveKeysLocked, Entry
<1>2. Locked /\ [NextBeacon]_pallet => Locked'
  BY LockedStep
<1> QED
  BY <1>1, <1>2, LockedInit, PTL DEF SpecBeacon

(* The seed of an epoch is that of the secrets revealed, in whatever order  *)
(* the map of them is iterated.                                            *)
Enumerates(order, S) == order \in [1..Cardinality(S) -> S] /\ IsInjective(order)
Secret(order) == [i \in DOMAIN order |-> Staged[order[i]]]

(* BeaconState takes its operators on sets and sequences from an instance.  *)
LEMMA SameCardinality ==
  ASSUME NEW S
  PROVE  State!Cardinality(S) = Cardinality(S)
  BY DEF State!Cardinality, Cardinality

LEMMA SameRange ==
  ASSUME NEW f
  PROVE  State!Range(f) = Range(f)
  BY DEF State!Range, Range

LEMMA SameSetToSeq ==
  ASSUME NEW S
  PROVE  State!SetToSeq(S) = SetToSeq(S)
  BY SameCardinality DEF State!SetToSeq, SetToSeq, State!IsInjective, IsInjective

LEMMA EnumeratesAll ==
  ASSUME NEW S, IsFiniteSet(S), NEW order, Enumerates(order, S)
  PROVE  /\ \A a \in S : \E i \in DOMAIN order : order[i] = a
         /\ \A T \in SUBSET S :
              Cardinality({i \in DOMAIN order : order[i] \in T}) = Cardinality(T)
<1> DEFINE D == 1..Cardinality(S)
<1>1. Cardinality(S) \in Nat /\ IsFiniteSet(D) /\ Cardinality(D) = Cardinality(S)
  BY FS_CardinalityType, FS_Interval
<1>2. order \in Injection(D, S)
  BY DEF Enumerates, Injection
<1>3. order \in Surjection(D, S)
  BY <1>1, <1>2, FS_Injection
<1>4. \A a \in S : \E i \in DOMAIN order : order[i] = a
  BY <1>3 DEF Surjection
<1>5. ASSUME NEW T \in SUBSET S
      PROVE  Cardinality({i \in DOMAIN order : order[i] \in T}) = Cardinality(T)
  <2> DEFINE I == {i \in DOMAIN order : order[i] \in T}
             f == [i \in I |-> order[i]]
  <2>1. I \in SUBSET D
    BY DEF Enumerates
  <2>2. IsFiniteSet(I)
    BY <1>1, <2>1, FS_Subset
  <2>3. f \in Bijection(I, T)
    BY <1>4 DEF Enumerates, IsInjective, Bijection, Injection, Surjection
  <2> QED
    BY <2>2, <2>3, FS_Bijection DEF ExistsBijection
<1> QED
  BY <1>4, <1>5

LEMMA SortedAnyOrder ==
  ASSUME Staged \in [Accounts -> Secrets \cup {None}], IsFiniteSet(Holders(Staged)),
         NEW o, Enumerates(o, Holders(Staged)), NEW p, Enumerates(p, Holders(Staged))
  PROVE  State!Sorted(Secret(o)) = State!Sorted(Secret(p))
<1> DEFINE S == Holders(Staged)
           below(s) == {a \in S : Staged[a] < s}
           upto(s) == {a \in S : Staged[a] =< s}
<1>1. ASSUME NEW q, Enumerates(q, S)
      PROVE  State!Sorted(Secret(q)) =
               [i \in 1..Cardinality(S) |->
                 CHOOSE s \in {Staged[a] : a \in S} :
                   Cardinality(below(s)) < i /\ Cardinality(upto(s)) >= i]
  <2>1. DOMAIN Secret(q) = 1..Cardinality(S) /\ DOMAIN q = 1..Cardinality(S)
    BY <1>1 DEF Enumerates, Secret
  <2>2. Range(Secret(q)) = {Staged[a] : a \in S}
    <3>1. \A i \in DOMAIN q : q[i] \in S
      BY <1>1 DEF Enumerates
    <3>2. \A a \in S : \E i \in DOMAIN q : q[i] = a
      BY <1>1, EnumeratesAll
    <3> QED
      BY <3>1, <3>2 DEF Range, Secret
  <2>3. ASSUME NEW s
        PROVE  /\ Cardinality({j \in DOMAIN Secret(q) : Secret(q)[j] < s}) = Cardinality(below(s))
               /\ Cardinality({j \in DOMAIN Secret(q) : Secret(q)[j] =< s}) = Cardinality(upto(s))
    <3>1. /\ {j \in DOMAIN Secret(q) : Secret(q)[j] < s} = {j \in DOMAIN q : q[j] \in below(s)}
          /\ {j \in DOMAIN Secret(q) : Secret(q)[j] =< s} = {j \in DOMAIN q : q[j] \in upto(s)}
      BY <1>1 DEF Enumerates, Secret
    <3>2. below(s) \in SUBSET S /\ upto(s) \in SUBSET S
      OBVIOUS
    <3> HIDE DEF below, upto
    <3> QED
      BY <1>1, <3>1, <3>2, EnumeratesAll
  <2> DEFINE cBelow(s) == Cardinality(below(s))
             cUpto(s) == Cardinality(upto(s))
             revealed == {Staged[a] : a \in S}
             n == Cardinality(S)
             under(s) == State!Cardinality({j \in DOMAIN Secret(q) : Secret(q)[j] < s})
             until(s) == State!Cardinality({j \in DOMAIN Secret(q) : Secret(q)[j] =< s})
             found == State!Range(Secret(q))
  <2>4. State!Sorted(Secret(q)) =
          [i \in DOMAIN Secret(q) |-> CHOOSE s \in found : under(s) < i /\ until(s) >= i]
    BY DEF State!Sorted
  <2>5. DOMAIN Secret(q) = 1..n /\ found = revealed
    BY <2>1, <2>2, SameRange
  <2>6. ASSUME NEW s
        PROVE  under(s) = cBelow(s) /\ until(s) = cUpto(s)
    BY <2>3, SameCardinality
  <2> HIDE DEF under, until, cBelow, cUpto, found, revealed, n
  <2>7. ASSUME NEW i
        PROVE  (CHOOSE s \in found : under(s) < i /\ until(s) >= i)
                 = (CHOOSE s \in revealed : cBelow(s) < i /\ cUpto(s) >= i)
    BY <2>5, <2>6
  <2>8. State!Sorted(Secret(q)) =
          [i \in 1..n |-> CHOOSE s \in revealed : cBelow(s) < i /\ cUpto(s) >= i]
    BY <2>4, <2>5, <2>7
  <2> QED
    BY <2>8 DEF cBelow, cUpto, revealed, n
<1> HIDE DEF below, upto
<1> QED
  BY <1>1

LEMMA EnumeratesBy ==
  ASSUME NEW S, NEW order \in SetToSeqs(S)
  PROVE  Enumerates(order, S) /\ Enumerates(SetToSeq(S), S)
<1>1. order \in [1..Cardinality(S) -> S] /\ IsInjective(order)
  BY DEF SetToSeqs, IsInjective
<1>2. SetToSeq(S) \in [1..Cardinality(S) -> S] /\ IsInjective(SetToSeq(S))
  BY <1>1 DEF SetToSeq
<1> QED
  BY <1>1, <1>2 DEF Enumerates

(* The map of revealed secrets has an entry for each extrinsic at most.     *)
Pipelined == Locked /\ IsFiniteSet(Holders(Staged))

LEMMA StagedStaysFinite ==
  ASSUME Pipelined, [NextBeacon]_pallet
  PROVE  IsFiniteSet(Holders(Staged)')
<1>1. ASSUME NEW a \in Accounts, NEW s \in Secrets, Reveal(a, s)
      PROVE  IsFiniteSet(Holders(Staged)')
  <2>1. Staged' = [Staged EXCEPT ![a] = s] /\ Staged \in [Accounts -> Secrets \cup {None}]
    BY <1>1 DEF Reveal, Pipelined, Locked
  <2>2. Holders(Staged') \in SUBSET (Holders(Staged) \cup {a})
    BY <2>1 DEF Holders
  <2>3. IsFiniteSet(Holders(Staged) \cup {a})
    BY FS_AddElement DEF Pipelined
  <2>4. IsFiniteSet(Holders(Staged'))
    BY <2>2, <2>3, FS_Subset
  <2> QED
    BY <2>4 DEF Holders
<1>2. ASSUME NextBlock
      PROVE  IsFiniteSet(Holders(Staged)')
  <2>1. Staged' = Staged \/ Staged' = NoEntries
    BY <1>2 DEF NextBlock, Roll, maps
  <2>2. Holders(NoEntries) = {}
    BY DEF Holders, NoEntries
  <2>3. Holders(Staged)' = Holders(Staged) \/ Holders(Staged)' = {}
    BY <2>1, <2>2 DEF Holders
  <2> QED
    BY <2>3, FS_EmptySet DEF Pipelined
<1>3. ASSUME UNCHANGED Staged
      PROVE  IsFiniteSet(Holders(Staged)')
  BY <1>3 DEF Pipelined, Holders
<1> QED
  BY <1>1, <1>2, <1>3 DEF NextBeacon, Commit, pallet, maps

(* A roll folds the secrets in the pipeline's order, which is theirs.       *)
LEMMA RollIsTheirs ==
  ASSUME Pipelined, NEW order \in SetToSeqs(Holders(Staged)), Roll(order)
  PROVE  State!Roll
<1> DEFINE theirs == State!SetToSeq(State!Having(Staged))
<1>1. State!Having(Staged) = Holders(Staged)
  BY DEF State!Having, Holders
<1>2. theirs = SetToSeq(Holders(Staged))
  BY <1>1, SameSetToSeq
<1>3. Enumerates(order, Holders(Staged)) /\ Enumerates(theirs, Holders(Staged))
  BY <1>2, EnumeratesBy
<1> HIDE DEF theirs
<1>4. State!Sorted(Secret(order)) = State!Sorted(Secret(theirs))
  BY <1>3, SortedAnyOrder DEF Pipelined, Locked
<1>5. State!BeaconSeed(Seed, Secret(order)) = State!BeaconSeed(Seed, Secret(theirs))
  BY <1>4 DEF State!BeaconSeed
<1>6. Seed' = State!BeaconSeed(Seed, Secret(theirs))
  BY <1>5 DEF Roll, Fold, Secret
<1>7. State!Empty = NoEntries
  BY DEF State!Empty, NoEntries
<1>8. /\ Active' = Staged /\ Awaiting' = Pending
      /\ Pending' = NoEntries /\ Staged' = NoEntries
  BY DEF Roll
<1>9. [a \in Accounts |-> IF Active[a] = None THEN None ELSE H[Active[a]]]'
        = [a \in Accounts |-> IF Staged[a] = None THEN None ELSE H[Staged[a]]]
  BY <1>8
<1> QED
  BY <1>6, <1>7, <1>8, <1>9 DEF State!Roll, theirs, Secret

LEMMA PipelineStep ==
  ASSUME Pipelined, [NextBeacon]_pallet
  PROVE  [State!Next]_State!vars
<1>1. ASSUME NEW a \in Accounts, NEW c \in Digests, Commit(a, c)
      PROVE  State!Next
  <2>1. State!Commit(a, c)
    BY <1>1 DEF Commit, State!Commit
  <2> QED
    BY <2>1 DEF State!Next
<1>2. ASSUME NEW a \in Accounts, NEW s \in Secrets, Reveal(a, s)
      PROVE  State!Next
  <2>1. State!Reveal(a, s)
    BY <1>2 DEF Reveal, Opens, State!Reveal
  <2> QED
    BY <2>1 DEF State!Next
<1>3. CASE NextBlock
  <2>1. CASE StartsEpoch(number')
    <3>1. PICK order \in SetToSeqs(Holders(Staged)) : Roll(order)
      BY <1>3, <2>1 DEF NextBlock
    <3> QED
      BY <3>1, RollIsTheirs DEF State!Next
  <2>2. CASE ~StartsEpoch(number')
    BY <1>3, <2>2 DEF NextBlock, maps, State!vars
  <2> QED
    BY <2>1, <2>2
<1>4. CASE UNCHANGED pallet
  BY <1>4 DEF pallet, maps, State!vars
<1> QED
  BY <1>1, <1>2, <1>3, <1>4 DEF NextBeacon

(* The pallet is the pipeline of epochs, whatever the accounts, the secrets *)
(* and the epoch length, and in whatever order a map is iterated.           *)
THEOREM PalletIsThePipeline == SpecBeacon => ImplementsBeaconState
<1>1. InitBeacon => Pipelined /\ State!Init
  <2> SUFFICES ASSUME InitBeacon PROVE Pipelined /\ State!Init
    OBVIOUS
  <2>1. Holders(Staged) = {}
    BY DEF InitBeacon, Holders, NoEntries
  <2>2. Pipelined
    BY <2>1, LockedInit, FS_EmptySet DEF Pipelined
  <2>3. State!Init
    BY DEF InitBeacon, NoEntries, State!Init, State!Empty
  <2> QED
    BY <2>2, <2>3
<1>2. Pipelined /\ [NextBeacon]_pallet => Pipelined'
  <2> SUFFICES ASSUME Pipelined, [NextBeacon]_pallet PROVE Pipelined'
    OBVIOUS
  <2>1. Locked'
    BY LockedStep DEF Pipelined
  <2> QED
    BY <2>1, StagedStaysFinite DEF Pipelined
<1>3. Pipelined /\ [NextBeacon]_pallet => [State!Next]_State!vars
  BY PipelineStep
<1> QED
  BY <1>1, <1>2, <1>3, PTL DEF SpecBeacon, ImplementsBeaconState, State!Spec

-----------------------------------------------------------------------------
(* The slot loop: one mask leads a slot, and a chain nobody may lead stays  *)
(* that way.                                                               *)
Blocks == [number : Nat, past : SUBSET Nat, register : Registers,
           hot : [Masks -> Keys \union {Nobody}]]

TypesInv ==
    /\ blocks \in Seq(Blocks)
    /\ best \in [Nodes -> DOMAIN blocks]
    /\ orders \in [Nodes -> Nat]
    /\ \A s \in elected : s.view \in DOMAIN blocks

\* A branch settles an epoch once: what a block and an ancestor of it say of
\* one epoch is the same.
Inherits(b) ==
    \A a \in b.past :
        /\ a \in DOMAIN blocks
        /\ EpochOf(blocks[a]) =< EpochOf(b)
        /\ EpochOf(blocks[a]) = EpochOf(b) => blocks[a].register = b.register
OneSettlement == \A place \in DOMAIN blocks : Inherits(blocks[place])

\* Equal reads drew equal committees.
OneDraw == \A d, e \in draws : d.from = e.from => d = e

\* Who was elected is the leader its node drew, or a station.
Ruled(s) ==
    \/ /\ Reputable(blocks[s.view]) # {} /\ s.mask # Nobody
       /\ \E d \in draws : d.from = From(blocks[s.view]) /\ d.leader = s.mask
    \/ Reputable(blocks[s.view]) = {} /\ s.mask = Nobody

IndInv == TypesInv /\ OneSettlement /\ OneDraw /\ \A s \in elected : Ruled(s)

-----------------------------------------------------------------------------
LEMMA EpochIsNat == ASSUME NEW b \in Blocks PROVE EpochOf(b) \in Nat
BY AuthoringAssumption DEF EpochOf, Blocks

\* A block begins an epoch, one above its parent's, or stays in that one with
\* the same register.
LEMMA SettledOnce ==
    ASSUME NEW parent \in Blocks, NEW b \in Blocks,
           b.number = parent.number + 1, b.register \in Settled(parent)
    PROVE  /\ EpochOf(parent) =< EpochOf(b)
           /\ EpochOf(parent) = EpochOf(b) => b.register = parent.register
<1>1. parent.number \in Nat /\ EpochOf(parent) \in Nat
  BY EpochIsNat DEF Blocks
<1>2. (parent.number + 1) \div EpochBlocks =
        IF (parent.number + 1) % EpochBlocks = 0
        THEN (parent.number \div EpochBlocks) + 1 ELSE parent.number \div EpochBlocks
  BY <1>1, DivNext, AuthoringAssumption
<1>3. CASE BeginsEpoch(parent.number + 1)
  <2>1. EpochOf(b) = EpochOf(parent) + 1
    BY <1>2, <1>3, b.number = parent.number + 1 DEF EpochOf, BeginsEpoch
  <2> QED BY <1>1, <2>1
<1>4. CASE ~BeginsEpoch(parent.number + 1)
  <2>1. EpochOf(b) = EpochOf(parent)
    BY <1>2, <1>4, b.number = parent.number + 1 DEF EpochOf, BeginsEpoch
  <2>2. b.register = parent.register
    BY <1>4, b.register \in Settled(parent) DEF Settled
  <2> QED BY <1>1, <2>1, <2>2
<1> QED BY <1>3, <1>4

\* The tree after an author's step: what was there is still there.
LEMMA Grows ==
    ASSUME TypesInv, OneSettlement, NEW n \in Nodes, Author(n)
    PROVE  /\ TypesInv' /\ OneSettlement'
           /\ \A place \in DOMAIN blocks : blocks'[place] = blocks[place]
<1> DEFINE parent == blocks[best[n]]
           place == Len(blocks) + 1
<1>1. blocks \in Seq(Blocks) /\ best[n] \in DOMAIN blocks /\ parent \in Blocks
  BY DEF TypesInv
<1>2. PICK register \in Settled(parent), hot \in Rebound(parent) :
        blocks' = Append(blocks, [number |-> parent.number + 1,
                                  past |-> parent.past \union {place},
                                  register |-> register, hot |-> hot])
  BY DEF Author
<1> DEFINE new == [number |-> parent.number + 1, past |-> parent.past \union {place},
                   register |-> register, hot |-> hot]
<1>3. hot \in [Masks -> Keys \union {Nobody}]
  BY <1>1, AuthoringAssumption DEF Rebound, Blocks
<1>4. register \in Registers
  BY <1>1 DEF Settled, Blocks
<1>5. Len(blocks) \in Nat /\ DOMAIN blocks = 1..Len(blocks) /\ place \in Nat
  BY <1>1
<1>6. new \in Blocks
  BY <1>1, <1>3, <1>4, <1>5 DEF Blocks
<1>7. /\ blocks' \in Seq(Blocks) /\ DOMAIN blocks' = DOMAIN blocks \union {place}
      /\ blocks'[place] = new
      /\ \A q \in DOMAIN blocks : blocks'[q] = blocks[q]
  BY <1>1, <1>2, <1>5, <1>6
<1>8. TypesInv'
  BY <1>7 DEF TypesInv, Author
<1>9. ASSUME NEW a \in new.past
      PROVE  /\ a \in DOMAIN blocks'
             /\ EpochOf(blocks'[a]) =< EpochOf(new)
             /\ EpochOf(blocks'[a]) = EpochOf(new) => blocks'[a].register = new.register
  <2>1. CASE a = place
    BY <1>6, <1>7, <2>1, EpochIsNat
  <2>2. CASE a \in parent.past
    <3>1. Inherits(parent)
      BY <1>1 DEF OneSettlement
    <3>2. /\ a \in DOMAIN blocks /\ blocks[a] \in Blocks /\ blocks'[a] = blocks[a]
          /\ EpochOf(blocks[a]) =< EpochOf(parent)
          /\ EpochOf(blocks[a]) = EpochOf(parent) => blocks[a].register = parent.register
      BY <1>1, <1>7, <2>2, <3>1 DEF Inherits
    <3>3. /\ EpochOf(parent) =< EpochOf(new)
          /\ EpochOf(parent) = EpochOf(new) => new.register = parent.register
      BY <1>1, <1>6, SettledOnce
    <3>4. EpochOf(blocks[a]) \in Nat /\ EpochOf(parent) \in Nat /\ EpochOf(new) \in Nat
      BY <1>1, <1>6, <3>2, EpochIsNat
    <3> QED BY <1>7, <3>2, <3>3, <3>4
  <2> QED BY <2>1, <2>2
<1>10. ASSUME NEW q \in DOMAIN blocks', NEW a \in blocks'[q].past
       PROVE  /\ a \in DOMAIN blocks'
              /\ EpochOf(blocks'[a]) =< EpochOf(blocks'[q])
              /\ EpochOf(blocks'[a]) = EpochOf(blocks'[q]) => blocks'[a].register = blocks'[q].register
  <2>1. CASE q \in DOMAIN blocks
    <3>1. Inherits(blocks[q]) /\ blocks'[q] = blocks[q]
      BY <1>7, <2>1 DEF OneSettlement
    <3>2. a \in DOMAIN blocks /\ blocks'[a] = blocks[a]
      BY <1>7, <1>10, <3>1 DEF Inherits
    <3> QED BY <1>7, <1>10, <3>1, <3>2 DEF Inherits
  <2>2. CASE q = place
    BY <1>7, <1>9, <1>10, <2>2
  <2> QED BY <1>7, <2>1, <2>2
<1>11. OneSettlement'
  BY <1>10 DEF OneSettlement, Inherits, EpochOf
<1> QED BY <1>7, <1>8, <1>11

\* What the tree says of the blocks that are elected on is all a rule reads.
LEMMA RuleStays ==
    ASSUME NEW s, Ruled(s), blocks'[s.view] = blocks[s.view], draws \subseteq draws'
    PROVE  Ruled(s)'
<1>1. Reputable(blocks[s.view])' = Reputable(blocks[s.view])
  BY DEF Reputable
<1>2. Candidates(blocks[s.view])' = Candidates(blocks[s.view])
  BY DEF Candidates, Bound, Reputable, HasNode
<1>3. From(blocks[s.view])' = From(blocks[s.view])
  BY <1>2 DEF From
<1> QED BY <1>1, <1>3 DEF Ruled

LEMMA TreeStays == UNCHANGED blocks /\ OneSettlement => OneSettlement'
BY DEF OneSettlement, Inherits, EpochOf

LEMMA InitInv == InitAuthoring => IndInv
<1> SUFFICES ASSUME InitAuthoring PROVE IndInv
  OBVIOUS
<1> DEFINE genesis == [number |-> 0, past |-> {1}, register |-> GenesisRegister, hot |-> GenesisHot]
<1>0. genesis \in Blocks
  BY AuthoringAssumption DEF Blocks
<1>1. blocks \in Seq(Blocks) /\ DOMAIN blocks = {1} /\ blocks[1].past = {1}
  BY <1>0 DEF InitAuthoring
<1>2. TypesInv
  BY <1>1 DEF InitAuthoring, TypesInv
<1>3. blocks[1] \in Blocks
  BY <1>0 DEF InitAuthoring
<1>4. OneSettlement
  BY <1>1, <1>3, EpochIsNat DEF OneSettlement, Inherits
<1> QED BY <1>2, <1>4 DEF InitAuthoring, IndInv, OneDraw

LEMMA StepInv == IndInv /\ [NextAuthoring]_authoring => IndInv'
<1> SUFFICES ASSUME IndInv, [NextAuthoring]_authoring PROVE IndInv'
  OBVIOUS
<1> USE DEF IndInv
<1>1. CASE NextSlot
  BY <1>1, TreeStays DEF NextSlot, TypesInv, OneDraw
<1>2. ASSUME NEW n \in Nodes, NEW connected \in BOOLEAN, TickLead(n, connected) PROVE IndInv'
  <2>1. PICK d : /\ Draw(View(n), d) /\ draws' = draws \union {d}
                 /\ IF Leads(View(n), n, d) /\ MaySeal(n, connected)
                    THEN Order(n, MaskOf(View(n), n))
                    ELSE UNCHANGED <<orders, elected>>
    BY <1>2 DEF TickLead
  <2>2. UNCHANGED <<blocks, best>>
    BY <1>2 DEF TickLead
  <2>3. OneDraw'
    BY <2>1 DEF Draw, OneDraw
  <2>4. OneSettlement'
    BY <2>2, TreeStays
  <2>5. \A s \in elected : Ruled(s)'
    BY <2>1, <2>2, RuleStays
  <2>6. CASE Leads(View(n), n, d) /\ MaySeal(n, connected)
    <3>1. elected' = elected \union {[node |-> n, mask |-> d.leader, view |-> best[n]]}
      BY <2>1, <2>6 DEF Leads, Order
    <3>2. TypesInv'
      <4>1. orders' \in [Nodes -> Nat]
        BY <2>1, <2>6 DEF Order, TypesInv
      <4> QED BY <2>2, <3>1, <4>1 DEF TypesInv
    <3>3. Reputable(View(n)) # {} /\ d.leader # Nobody /\ d.from = From(View(n)) /\ d \in draws'
      BY <1>2, <2>1, <2>6 DEF TickLead, UsesChain, Bound, Leads, Draw
    <3>4. ASSUME NEW s \in elected', s \notin elected PROVE Ruled(s)'
      <4>1. s.mask = d.leader /\ s.view = best[n]
        BY <3>1, <3>4
      <4>2. blocks'[s.view] = View(n)
        BY <2>2, <4>1 DEF View
      <4>3. /\ Reputable(blocks'[s.view]) # {} /\ s.mask # Nobody
            /\ d.from = From(blocks'[s.view]) /\ d.leader = s.mask
        BY <3>3, <4>1, <4>2
      <4>4. \E e \in draws' : e.from = From(blocks'[s.view]) /\ e.leader = s.mask
        BY <3>3, <4>3
      <4> QED BY <4>3, <4>4 DEF Ruled, From, Reputable, Candidates, Bound, HasNode
    <3> QED BY <2>3, <2>4, <2>5, <3>2, <3>4
  <2>7. CASE ~(Leads(View(n), n, d) /\ MaySeal(n, connected))
    BY <2>1, <2>2, <2>3, <2>4, <2>5, <2>7 DEF TypesInv
  <2> QED BY <2>6, <2>7
<1>3. ASSUME NEW n \in Nodes, NEW connected \in BOOLEAN, TickStation(n, connected) PROVE IndInv'
  <2>1. UNCHANGED <<blocks, best, draws>> /\ Reputable(View(n)) = {}
    BY <1>3 DEF TickStation
  <2>2. OneDraw' /\ OneSettlement' /\ \A s \in elected : Ruled(s)'
    BY <2>1, TreeStays, RuleStays DEF OneDraw
  <2>3. \A s \in elected' : s \in elected \/ (s.mask = Nobody /\ s.view = best[n])
    BY <1>3 DEF TickStation, Order
  <2>4. TypesInv'
    <3>1. orders' \in [Nodes -> Nat]
      BY <1>3 DEF TickStation, Order, TypesInv
    <3> QED BY <2>1, <2>3, <3>1 DEF TypesInv
  <2>5. ASSUME NEW s \in elected', s \notin elected PROVE Ruled(s)'
    BY <2>1, <2>3, <2>5 DEF Ruled, Reputable, View
  <2> QED BY <2>2, <2>4, <2>5
<1>4. ASSUME NEW n \in Nodes, TickSkip(n) \/ Restart(n) \/ Import(n) PROVE IndInv'
  <2>1. /\ UNCHANGED <<blocks, draws, elected>>
        /\ best' \in [Nodes -> DOMAIN blocks] /\ orders' \in [Nodes -> Nat]
    BY <1>4 DEF TickSkip, Restart, Import, TypesInv
  <2> QED BY <2>1, TreeStays, RuleStays DEF TypesInv, OneDraw
<1>5. ASSUME NEW n \in Nodes, Author(n) PROVE IndInv'
  <2>1. TypesInv' /\ OneSettlement' /\ UNCHANGED <<draws, elected>>
    BY <1>5, Grows DEF Author
  <2>2. \A s \in elected : blocks'[s.view] = blocks[s.view]
    BY <1>5, Grows DEF TypesInv
  <2>3. \A s \in elected' : Ruled(s)'
    BY <2>1, <2>2, RuleStays
  <2> QED BY <2>1, <2>3 DEF OneDraw
<1>6. CASE UNCHANGED authoring
  BY <1>6, TreeStays, RuleStays DEF authoring, TypesInv, OneDraw
<1> QED BY <1>1, <1>2, <1>3, <1>4, <1>5, <1>6 DEF NextAuthoring

LEMMA InvImplies == IndInv => OneMaskPerSlot
<1> SUFFICES ASSUME IndInv, NEW s \in elected, NEW t \in elected,
                    ShareEpoch(blocks[s.view], blocks[t.view]),
                    HasNode(blocks[s.view]) = HasNode(blocks[t.view])
             PROVE  s.mask = t.mask
  BY DEF OneMaskPerSlot
<1> DEFINE b == blocks[s.view]
           c == blocks[t.view]
<1>1. b.register = c.register
  <2>1. PICK a \in b.past \intersect c.past :
          EpochOf(blocks[a]) = EpochOf(b) /\ EpochOf(blocks[a]) = EpochOf(c)
    BY DEF ShareEpoch
  <2>2. Inherits(b) /\ Inherits(c)
    BY DEF IndInv, TypesInv, OneSettlement
  <2> QED BY <2>1, <2>2 DEF Inherits
<1>2. Reputable(b) = Reputable(c) /\ From(b) = From(c)
  BY <1>1 DEF Reputable, From, Candidates, Bound
<1>3. CASE Reputable(b) = {}
  BY <1>2, <1>3 DEF IndInv, Ruled
<1>4. CASE Reputable(b) # {}
  <2>1. PICK d \in draws : d.from = From(b) /\ d.leader = s.mask
    BY <1>4 DEF IndInv, Ruled
  <2>2. PICK e \in draws : e.from = From(c) /\ e.leader = t.mask
    BY <1>2, <1>4 DEF IndInv, Ruled
  <2> QED BY <1>2, <2>1, <2>2 DEF IndInv, OneDraw
<1> QED BY <1>3, <1>4

-----------------------------------------------------------------------------
(* Whatever nodes there are, whatever branches they grow and whatever the     *)
(* draws give, two nodes lead a slot for different masks only when their      *)
(* blocks parted before the epoch they stand in was settled, or differ in who *)
(* has a node: for the rest the loop needs no check on import.                *)
THEOREM OneMask == SpecAuthoring => []OneMaskPerSlot
<1>1. IndInv /\ [NextAuthoring]_authoring => IndInv'
  BY StepInv
<1> QED BY <1>1, InitInv, InvImplies, PTL DEF SpecAuthoring

(* Once no node is on a block that lets anyone lead, nor can come to one by    *)
(* following a higher block, none ever is: epochs roll and keys are bound by   *)
(* blocks alone, and no block is ordered.  The loop has no fallback for a      *)
(* beacon whose committers lost their reputation or their nodes.               *)
THEOREM StallIsForever == SpecAuthoring => [][Stalled => Stalled']_authoring
<1>1. ASSUME IndInv, NextAuthoring, Stalled PROVE Stalled'
  <2>1. ASSUME NEW n \in Nodes, NEW connected \in BOOLEAN, TickLead(n, connected)
        PROVE  UNCHANGED <<blocks, best, orders>>
    <3>1. PICK d : /\ Draw(View(n), d)
                   /\ IF Leads(View(n), n, d) /\ MaySeal(n, connected)
                      THEN Order(n, MaskOf(View(n), n))
                      ELSE UNCHANGED <<orders, elected>>
      BY <2>1 DEF TickLead
    <3>2. Candidates(View(n)) = {}
      BY <1>1 DEF Stalled, Barren
    <3>3. d.leader = Nobody
      BY <3>1, <3>2 DEF Draw
    <3> QED BY <2>1, <3>1, <3>3 DEF Leads, TickLead
  <2>2. ASSUME NEW n \in Nodes, NEW connected \in BOOLEAN
        PROVE  ~TickStation(n, connected) /\ ~Author(n)
    BY <1>1 DEF Stalled, Barren, TickStation, Author
  <2>3. ASSUME NEW n \in Nodes, Import(n) PROVE Stalled'
    <3>1. PICK place \in DOMAIN blocks : /\ blocks[place].number > View(n).number
                                         /\ best' = [best EXCEPT ![n] = place]
      BY <2>3 DEF Import
    <3>2. UNCHANGED <<blocks, orders>> /\ best \in [Nodes -> DOMAIN blocks]
      BY <1>1, <2>3 DEF Import, IndInv, TypesInv
    <3>3. \A q \in DOMAIN blocks : blocks[q].number \in Nat
      <4>1. blocks \in Seq(Blocks)
        BY <1>1 DEF IndInv, TypesInv
      <4>2. \A q \in DOMAIN blocks : blocks[q] \in Blocks
        BY <4>1
      <4> QED BY <4>2 DEF Blocks
    <3>4. Barren(blocks[place])
      BY <1>1, <3>1 DEF Stalled
    <3>5. ASSUME NEW q \in DOMAIN blocks, blocks[q].number > blocks[place].number
          PROVE  Barren(blocks[q])
      <4>1. blocks[q].number > View(n).number
        BY <3>1, <3>2, <3>3, <3>5 DEF View
      <4> QED BY <1>1, <4>1 DEF Stalled
    <3>6. \A m \in Nodes : View(m)' = IF m = n THEN blocks[place] ELSE View(m)
      BY <3>1, <3>2 DEF View
    <3>7. ASSUME NEW m \in Nodes
          PROVE  /\ orders'[m] = 0 /\ Barren(View(m)')
                 /\ \A q \in DOMAIN blocks : blocks[q].number > View(m)'.number => Barren(blocks[q])
      BY <1>1, <3>2, <3>4, <3>5, <3>6 DEF Stalled
    <3> QED BY <3>2, <3>7 DEF Stalled, Barren, Reputable, Candidates, Bound, HasNode, View
  <2>4. CASE UNCHANGED <<blocks, best>> /\ \A n \in Nodes : orders'[n] = 0
    BY <1>1, <2>4 DEF Stalled, Barren, Reputable, Candidates, Bound, HasNode, View
  <2>5. CASE NextSlot
    BY <1>1, <2>4, <2>5 DEF NextSlot, Stalled
  <2>6. ASSUME NEW n \in Nodes, TickSkip(n) \/ Restart(n) PROVE Stalled'
    <3>1. UNCHANGED <<blocks, best>> /\ \A m \in Nodes : orders'[m] = orders[m] \/ orders'[m] = 0
      BY <1>1, <2>6 DEF TickSkip, Restart, IndInv, TypesInv
    <3> QED BY <1>1, <2>4, <3>1 DEF Stalled
  <2>7. ASSUME NEW n \in Nodes, NEW connected \in BOOLEAN, TickLead(n, connected) PROVE Stalled'
    BY <1>1, <2>1, <2>4, <2>7 DEF Stalled
  <2> QED BY <1>1, <2>2, <2>3, <2>5, <2>6, <2>7 DEF NextAuthoring
<1>2. IndInv /\ [NextAuthoring]_authoring => [Stalled => Stalled']_authoring
  BY <1>1
<1>3. IndInv /\ [NextAuthoring]_authoring => IndInv'
  BY StepInv
<1> QED BY <1>2, <1>3, InitInv, PTL DEF SpecAuthoring

-----------------------------------------------------------------------------
(* The finality round.  Two hashes never both have alpha of the votes.      *)
LEMMA AlphaMajority ==
  ASSUME NEW k \in Nat \ {0}
  PROVE  Alpha(k) \in Nat /\ Alpha(k) >= 1 /\ 2 * Alpha(k) > k
<1>1. k \div 2 \in Nat /\ 2 * ((k \div 2) + 1) > k
  OBVIOUS
<1>2. ((k * 7) + 9) \div 10 \in Nat
  OBVIOUS
<1> QED
  BY <1>1, <1>2 DEF Alpha

Heard(tally, k) ==
  /\ k \in Sizes /\ tally \in Tallies(k) /\ Received(tally) =< k

LEMMA TallyType ==
  ASSUME NEW k \in Sizes, NEW tally \in Tallies(k)
  PROVE  /\ DOMAIN tally \in SUBSET Hashes /\ IsFiniteSet(DOMAIN tally)
         /\ \A h \in DOMAIN tally : tally[h] \in Nat /\ tally[h] >= 1
<1>1. k \in Nat
  BY SizesAssumption
<1>2. PICK S \in SUBSET Hashes, count \in [Hashes -> 1..k] : tally = [h \in S |-> count[h]]
  BY DEF Tallies
<1>3. IsFiniteSet(S)
  BY HashesAssumption, FS_Subset
<1> QED
  BY <1>1, <1>2, <1>3

LEMMA ReceivedIsSum ==
  ASSUME NEW tally, IsFiniteSet(DOMAIN tally), \A h \in DOMAIN tally : tally[h] \in Nat
  PROVE  Received(tally) = Sum(tally, DOMAIN tally)
<1>1. \A h \in DOMAIN tally : tally[h] \in Int
  OBVIOUS
<1>2. Received(tally) =
        (CHOOSE g : g = [S \in SUBSET DOMAIN tally |->
           IF S = {} THEN 0
           ELSE tally[CHOOSE x \in S : TRUE] + g[S \ {CHOOSE x \in S : TRUE}]])[DOMAIN tally]
  BY DEF Received
<1> QED
  BY <1>1, <1>2, RecursionChosen

LEMMA TwoReceived ==
  ASSUME NEW tally, IsFiniteSet(DOMAIN tally), \A h \in DOMAIN tally : tally[h] \in Nat,
         NEW g \in DOMAIN tally, NEW h \in DOMAIN tally, g # h
  PROVE  tally[g] + tally[h] =< Received(tally)
<1> DEFINE D == DOMAIN tally
<1>1. Received(tally) = Sum(tally, D)
  BY ReceivedIsSum
<1>2. /\ IsFiniteSet(D) /\ IsFiniteSet(D \ {g}) /\ IsFiniteSet((D \ {g}) \ {h})
      /\ \A x \in D : tally[x] \in Nat /\ tally[x] \in Int
      /\ g \in D /\ h \in D \ {g}
  BY FS_Subset
<1> HIDE DEF D
<1>3. Sum(tally, D) = tally[g] + Sum(tally, D \ {g})
  BY <1>2, SumTakeOut
<1>4. Sum(tally, D \ {g}) = tally[h] + Sum(tally, (D \ {g}) \ {h})
  <2>1. \A x \in D \ {g} : tally[x] \in Int
    BY <1>2
  <2> QED
    BY <1>2, <2>1, SumTakeOut
<1>5. Sum(tally, (D \ {g}) \ {h}) \in Nat
  <2>1. \A x \in (D \ {g}) \ {h} : tally[x] \in Nat
    BY <1>2
  <2> QED
    BY <1>2, <2>1, SumNat
<1> QED
  BY <1>1, <1>2, <1>3, <1>4, <1>5

LEMMA OneLeads ==
  ASSUME NEW k, NEW tally, Heard(tally, k)
  PROVE  /\ Leading(tally, Alpha(k)) = {h \in DOMAIN tally : tally[h] >= Alpha(k)}
         /\ \A g, h \in Leading(tally, Alpha(k)) : g = h
         /\ Leading(tally, Alpha(k)) \subseteq Hashes
<1>1. k \in Nat \ {0} /\ Received(tally) =< k
  BY SizesAssumption DEF Heard
<1>2. /\ DOMAIN tally \in SUBSET Hashes /\ IsFiniteSet(DOMAIN tally)
      /\ \A h \in DOMAIN tally : tally[h] \in Nat /\ h \in Nat
  BY TallyType, HashesAssumption DEF Heard
<1>3. Alpha(k) \in Nat /\ 2 * Alpha(k) > k
  BY <1>1, AlphaMajority
<1>4. Received(tally) \in Int
  <2>1. \A h \in DOMAIN tally : tally[h] \in Int
    BY <1>2
  <2> QED
    BY <1>2, <2>1, ReceivedIsSum, SumType
<1>5. ASSUME NEW g \in DOMAIN tally, NEW h \in DOMAIN tally, g # h, tally[h] >= Alpha(k)
      PROVE  tally[g] < Alpha(k)
  <2>1. tally[g] + tally[h] =< Received(tally)
    BY <1>2, <1>5, TwoReceived
  <2>2. tally[g] \in Nat /\ tally[h] \in Nat
    BY <1>2
  <2> QED
    BY <1>1, <1>3, <1>4, <1>5, <2>1, <2>2
<1>6. ASSUME NEW h \in DOMAIN tally, tally[h] >= Alpha(k)
      PROVE  \A g \in DOMAIN tally : tally[g] < tally[h] \/ (tally[g] = tally[h] /\ g =< h)
  <2> SUFFICES ASSUME NEW g \in DOMAIN tally
               PROVE  tally[g] < tally[h] \/ (tally[g] = tally[h] /\ g =< h)
    OBVIOUS
  <2>1. tally[g] \in Nat /\ tally[h] \in Nat /\ g \in Nat
    BY <1>2
  <2>2. g # h => tally[g] < Alpha(k)
    BY <1>5, <1>6
  <2> QED
    BY <1>3, <1>6, <2>1, <2>2
<1>7. Leading(tally, Alpha(k)) = {h \in DOMAIN tally : tally[h] >= Alpha(k)}
  BY <1>6 DEF Leading
<1>8. \A g, h \in Leading(tally, Alpha(k)) : g = h
  <2> SUFFICES ASSUME NEW g \in Leading(tally, Alpha(k)), NEW h \in Leading(tally, Alpha(k)), g # h
               PROVE  FALSE
    OBVIOUS
  <2>1. /\ g \in DOMAIN tally /\ h \in DOMAIN tally /\ tally[h] >= Alpha(k) /\ tally[g] >= Alpha(k)
        /\ tally[g] \in Nat
    BY <1>2, <1>7
  <2>2. tally[g] < Alpha(k)
    BY <1>5, <2>1
  <2> QED
    BY <1>3, <2>1, <2>2
<1> QED
  BY <1>2, <1>7, <1>8

LEMMA Remembered ==
  ASSUME NEW l \in Seq(Hashes \cup {NoHash}), Len(l) =< Beta, l = led,
         NEW h \in Hashes \cup {NoHash}
  PROVE  /\ Remember(h) \in Seq(Hashes \cup {NoHash})
         /\ Len(Remember(h)) = IF Len(l) = Beta THEN Beta ELSE Len(l) + 1
         /\ Len(Remember(h)) =< Beta
         /\ Remember(h)[Len(Remember(h))] = h
         /\ \A i \in 1..(Len(Remember(h)) - 1) :
              Remember(h)[i] = IF Len(l) = Beta THEN l[i + 1] ELSE l[i]
<1> DEFINE s == Append(l, h)
<1>1. Beta \in Nat \ {0} /\ Len(l) \in Nat
  BY BetaAssumption
<1>2. /\ s \in Seq(Hashes \cup {NoHash}) /\ Len(s) = Len(l) + 1
      /\ s[Len(l) + 1] = h /\ \A i \in 1..Len(l) : s[i] = l[i]
  OBVIOUS
<1>3. Remember(h) = IF Len(s) > Beta THEN Tail(s) ELSE s
  BY DEF Remember
<1> HIDE DEF s
<1>4. CASE Len(l) = Beta
  <2>1. Remember(h) = Tail(s)
    BY <1>1, <1>2, <1>3, <1>4
  <2>2. /\ Tail(s) \in Seq(Hashes \cup {NoHash}) /\ Len(Tail(s)) = Beta
        /\ \A i \in 1..Beta : Tail(s)[i] = s[i + 1]
    BY <1>1, <1>2, <1>4
  <2> QED
    BY <1>1, <1>2, <1>4, <2>1, <2>2
<1>5. CASE Len(l) # Beta
  BY <1>1, <1>2, <1>3, <1>5
<1> QED
  BY <1>4, <1>5

(* The rounds of the streak were led by the preferred hash. *)
StreakLed ==
  /\ TypeOK
  /\ \A i \in 1..Len(led) : i > Len(led) - round.streak => led[i] = round.pref
  /\ round.streak =< Len(led) \/ Len(led) = Beta

(* What observe_round does, and what it means that it does. *)
LEMMA Observed ==
  ASSUME NEW k, NEW tally, NEW quorum \in BOOLEAN, TypeOK,
         Heard(tally, k), Observe(tally, k, quorum)
  PROVE  \/ round.decision # NoHash /\ round' = round /\ led' = led
         \/ /\ round.decision = NoHash /\ Leading(tally, Alpha(k)) = {}
            /\ round' = [pref |-> round.pref, streak |-> 0, decision |-> NoHash]
            /\ led' = Remember(NoHash)
         \/ \E h \in Hashes :
              /\ round.decision = NoHash /\ Leading(tally, Alpha(k)) = {h}
              /\ round' = Reinforce(round, h, Beta, quorum)
              /\ led' = Remember(h)
<1>1. round = [pref |-> round.pref, streak |-> round.streak, decision |-> round.decision]
  BY DEF TypeOK
<1>2. CASE round.decision # NoHash
  BY <1>2 DEF Observe, ObserveRound
<1>3. CASE round.decision = NoHash /\ Leading(tally, Alpha(k)) = {}
  <2>1. ~ \E h \in DOMAIN tally : tally[h] >= Alpha(k)
    BY <1>3, OneLeads
  <2>2. led' = Remember(NoHash) /\ round' = [round EXCEPT !.streak = 0]
    BY <1>3, <2>1 DEF Observe, ObserveRound
  <2>3. round' = [pref |-> round.pref, streak |-> 0, decision |-> NoHash]
    BY <1>1, <1>3, <2>2
  <2> QED
    BY <1>3, <2>2, <2>3
<1>4. CASE round.decision = NoHash /\ Leading(tally, Alpha(k)) # {}
  <2>1. PICK h \in Leading(tally, Alpha(k)) : TRUE
    BY <1>4
  <2>2. h \in Hashes /\ Leading(tally, Alpha(k)) = {h}
    BY <2>1, OneLeads
  <2>3. (CHOOSE x \in Leading(tally, Alpha(k)) : TRUE) = h
    BY <2>2
  <2>4. h \in DOMAIN tally /\ tally[h] >= Alpha(k) /\ \A g \in DOMAIN tally : tally[g] >= Alpha(k) => g = h
    BY <2>2, OneLeads
  <2>5. (CHOOSE g \in DOMAIN tally : tally[g] >= Alpha(k)) = h
    BY <2>4
  <2>6. led' = Remember(h)
    BY <1>4, <2>4, <2>5 DEF Observe
  <2>7. round' = Reinforce(round, h, Beta, quorum)
    BY <1>4, <2>3 DEF Observe, ObserveRound
  <2> QED
    BY <1>4, <2>2, <2>6, <2>7
<1> QED
  BY <1>2, <1>3, <1>4

LEMMA StreakInit == Init => StreakLed
<1> SUFFICES ASSUME Init PROVE StreakLed
  OBVIOUS
<1>1. PICK h \in Hashes : round = [pref |-> h, streak |-> 0, decision |-> NoHash]
  BY DEF Init, NewRound
<1>2. led = << >> /\ led \in Seq(Hashes \cup {NoHash}) /\ Len(led) = 0 /\ 0 =< Beta
  BY BetaAssumption DEF Init
<1> QED
  BY <1>1, <1>2 DEF StreakLed, TypeOK

(* A round led by h lengthens its streak or starts one. *)
LEMMA StreakReinforced ==
  ASSUME StreakLed, NEW h \in Hashes, NEW quorum \in BOOLEAN, round.decision = NoHash,
         round' = Reinforce(round, h, Beta, quorum), led' = Remember(h)
  PROVE  /\ StreakLed'
         /\ round'.decision # NoHash =>
              Len(led') = Beta /\ \A i \in 1..Beta : led'[i] = round'.decision
<1> DEFINE n == Len(led)
           s == IF h = round.pref THEN round.streak + 1 ELSE 1
<1>0. /\ round.pref \in Hashes /\ round.streak \in Nat /\ Beta \in Nat \ {0}
      /\ led \in Seq(Hashes \cup {NoHash}) /\ n \in Nat /\ n =< Beta
      /\ \A i \in 1..n : i > n - round.streak => led[i] = round.pref
      /\ round.streak =< n \/ n = Beta
  BY BetaAssumption DEF StreakLed, TypeOK
<1>1. /\ led' \in Seq(Hashes \cup {NoHash})
      /\ Len(led') = IF n = Beta THEN Beta ELSE n + 1
      /\ led'[Len(led')] = h
      /\ \A i \in 1..(Len(led') - 1) : led'[i] = IF n = Beta THEN led[i + 1] ELSE led[i]
  BY <1>0, Remembered
<1>2. /\ round' = [pref |-> h, streak |-> s, decision |-> IF s >= Beta /\ quorum THEN h ELSE NoHash]
  BY DEF Reinforce
<1>3. round'.pref = h /\ round'.streak = s /\ s \in Nat /\ s >= 1
  BY <1>0, <1>2
<1>4. round'.decision = (IF s >= Beta /\ quorum THEN h ELSE NoHash)
  BY <1>2
<1>5. s =< Len(led') \/ Len(led') = Beta
  BY <1>0, <1>1
<1>6. ASSUME NEW i \in 1..Len(led'), i > Len(led') - s PROVE led'[i] = h
  <2>1. CASE i = Len(led')
    BY <1>1, <2>1
  <2>2. CASE i # Len(led')
    <3>1. i \in 1..(Len(led') - 1) /\ h = round.pref /\ s = round.streak + 1
      BY <1>0, <1>1, <1>6, <2>2
    <3>2. CASE n = Beta
      <4>1. i + 1 \in 1..n /\ i + 1 > n - round.streak
        BY <1>0, <1>1, <1>6, <3>1, <3>2
      <4> QED
        BY <1>0, <1>1, <3>1, <3>2, <4>1
    <3>3. CASE n # Beta
      <4>1. i \in 1..n /\ i > n - round.streak
        BY <1>0, <1>1, <1>6, <3>1, <3>3
      <4> QED
        BY <1>0, <1>1, <3>1, <3>3, <4>1
    <3> QED
      BY <3>2, <3>3
  <2> QED
    BY <2>1, <2>2
<1> HIDE DEF s
<1>7. round' \in [pref : Hashes, streak : Nat, decision : Hashes \cup {NoHash}]
  BY <1>2, <1>3
<1>8. Len(led') =< Beta
  BY <1>0, <1>1
<1>9. StreakLed'
  BY <1>1, <1>3, <1>5, <1>6, <1>7, <1>8 DEF StreakLed, TypeOK
<1>10. ASSUME round'.decision # NoHash
       PROVE  Len(led') = Beta /\ \A i \in 1..Beta : led'[i] = round'.decision
  <2>1. s >= Beta /\ round'.decision = h
    BY <1>4, <1>10
  <2>2. Len(led') = Beta
    BY <1>0, <1>1, <1>3, <1>5, <2>1
  <2>3. \A i \in 1..Beta : i > Len(led') - s
    BY <1>0, <1>3, <2>1, <2>2
  <2> QED
    BY <1>6, <2>1, <2>2, <2>3
<1> QED
  BY <1>9, <1>10

LEMMA StreakStep ==
  ASSUME StreakLed, [Next]_vars
  PROVE  /\ StreakLed'
         /\ [/\ round.decision # NoHash => round' = round
             /\ round'.decision # round.decision =>
                  Len(led') = Beta /\ \A i \in 1..Beta : led'[i] = round'.decision]_vars
<1>1. CASE UNCHANGED vars
  BY <1>1 DEF StreakLed, TypeOK, vars
<1>2. ASSUME NEW k \in Sizes, NEW quorum \in BOOLEAN, NEW tally \in Tallies(k),
             Received(tally) =< k, Observe(tally, k, quorum)
      PROVE  /\ StreakLed'
             /\ round.decision # NoHash => round' = round
             /\ round'.decision # round.decision =>
                  Len(led') = Beta /\ \A i \in 1..Beta : led'[i] = round'.decision
  <2>0. TypeOK /\ Heard(tally, k)
    BY <1>2 DEF StreakLed, Heard
  <2>1. CASE round.decision # NoHash /\ round' = round /\ led' = led
    BY <2>1 DEF StreakLed, TypeOK
  <2>2. CASE /\ round.decision = NoHash
             /\ round' = [pref |-> round.pref, streak |-> 0, decision |-> NoHash]
             /\ led' = Remember(NoHash)
    <3>1. led' \in Seq(Hashes \cup {NoHash}) /\ Len(led') =< Beta
      BY <2>0, <2>2, Remembered DEF TypeOK
    <3>2. Len(led') \in Nat
      BY <3>1
    <3>3. round.pref \in Hashes
      BY <2>0 DEF TypeOK
    <3>4. \A i \in 1..Len(led') : ~(i > Len(led') - 0)
      BY <3>2
    <3>5. round'.streak = 0 /\ round'.decision = NoHash
      BY <2>2
    <3>6. round' \in [pref : Hashes, streak : Nat, decision : Hashes \cup {NoHash}]
      BY <2>2, <3>3
    <3>7. StreakLed'
      BY <3>1, <3>2, <3>4, <3>5, <3>6 DEF StreakLed, TypeOK
    <3> QED
      BY <2>2, <3>5, <3>7
  <2>3. ASSUME NEW h \in Hashes, round.decision = NoHash,
               round' = Reinforce(round, h, Beta, quorum), led' = Remember(h)
        PROVE  /\ StreakLed'
               /\ round'.decision # round.decision =>
                    Len(led') = Beta /\ \A i \in 1..Beta : led'[i] = round'.decision
    BY <2>3, StreakReinforced
  <2> QED
    BY <1>2, <2>0, <2>1, <2>2, <2>3, Observed
<1> QED
  BY <1>1, <1>2 DEF Next

(* Whatever the committee, the quorum guard and the tallies of the rounds, a   *)
(* hash is decided only after Beta rounds in a row that gave it alpha of the   *)
(* votes, and the decision stays.                                              *)
THEOREM DecisionNeedsStreak == Spec => DecidesOnUnbrokenStreak
<1>1. StreakLed /\ [Next]_vars => StreakLed'
  BY StreakStep
<1>2. StreakLed /\ [Next]_vars =>
        [/\ round.decision # NoHash => round' = round
         /\ round'.decision # round.decision =>
              Len(led') = Beta /\ \A i \in 1..Beta : led'[i] = round'.decision]_vars
  BY StreakStep
<1> QED
  BY <1>1, <1>2, StreakInit, PTL DEF Spec, DecidesOnUnbrokenStreak

-----------------------------------------------------------------------------
(* On two hashes the round makes the steps of the binary core. *)
Pair(lo, hi) == lo \in Hashes /\ hi \in Hashes /\ lo < hi /\ Hashes = {lo, hi}

VotesFor(tally, h) == IF h \in DOMAIN tally THEN tally[h] ELSE 0

LEMMA ColourOfPair ==
  ASSUME NEW lo, NEW hi, Pair(lo, hi), NEW none
  PROVE  Colour(lo, none) = 0 /\ Colour(hi, none) = 1 /\ Colour(NoHash, none) = none
<1>1. lo \in Nat /\ hi \in Nat /\ lo # NoHash /\ hi # NoHash
  BY HashesAssumption DEF Pair
<1> QED
  BY <1>1 DEF Colour, Pair

LEMMA SampleOfTally ==
  ASSUME NEW lo, NEW hi, Pair(lo, hi), NEW k, NEW tally, Heard(tally, k)
  PROVE  /\ VotesFor(tally, lo) \in 0..k /\ VotesFor(tally, hi) \in 0..k
         /\ VotesFor(tally, lo) + VotesFor(tally, hi) =< k
<1>1. k \in Nat \ {0} /\ Received(tally) =< k
  BY SizesAssumption DEF Heard
<1>2. /\ DOMAIN tally \in SUBSET Hashes /\ IsFiniteSet(DOMAIN tally)
      /\ \A h \in DOMAIN tally : tally[h] \in Nat
  BY TallyType DEF Heard
<1>3. \A h \in DOMAIN tally : tally[h] =< k
  <2>1. PICK S \in SUBSET Hashes, count \in [Hashes -> 1..k] : tally = [h \in S |-> count[h]]
    BY DEF Heard, Tallies
  <2> QED
    BY <1>1, <2>1
<1>4. lo # hi
  <2>1. lo \in Nat /\ hi \in Nat /\ lo < hi
    BY HashesAssumption DEF Pair
  <2> QED
    BY <2>1
<1>5. Received(tally) \in Int
  <2>1. \A h \in DOMAIN tally : tally[h] \in Int
    BY <1>2
  <2> QED
    BY <1>2, <2>1, ReceivedIsSum, SumType
<1>6. CASE lo \in DOMAIN tally /\ hi \in DOMAIN tally
  <2>1. tally[lo] + tally[hi] =< Received(tally)
    BY <1>2, <1>4, <1>6, TwoReceived
  <2> QED
    BY <1>1, <1>2, <1>3, <1>5, <1>6, <2>1 DEF VotesFor
<1>7. CASE ~(lo \in DOMAIN tally /\ hi \in DOMAIN tally)
  BY <1>1, <1>2, <1>3, <1>7 DEF VotesFor
<1> QED
  BY <1>6, <1>7

LEMMA BinaryStep ==
  ASSUME NEW lo, NEW hi, Pair(lo, hi), StreakLed, [Next]_vars
  PROVE  [Binary!Next]_Binary!vars
<1>c. /\ Colour(lo, 0) = 0 /\ Colour(hi, 0) = 1
      /\ Colour(lo, -1) = 0 /\ Colour(hi, -1) = 1 /\ Colour(NoHash, -1) = -1
  BY ColourOfPair
<1>h. /\ lo \in Hashes /\ hi \in Hashes /\ lo # hi
      /\ \A h \in Hashes : h = lo \/ h = hi
      /\ NoHash \notin Hashes /\ lo # NoHash /\ hi # NoHash
  BY HashesAssumption DEF Pair
<1>1. CASE UNCHANGED vars
  BY <1>1 DEF vars, Binary!vars
<1>2. ASSUME NEW k \in Sizes, NEW quorum \in BOOLEAN, NEW tally \in Tallies(k),
             Received(tally) =< k, Observe(tally, k, quorum)
      PROVE  [Binary!Next]_Binary!vars
  <2> DEFINE zeros == VotesFor(tally, lo)
             ones  == VotesFor(tally, hi)
             alpha == Alpha(k)
  <2>0. TypeOK /\ Heard(tally, k)
    BY <1>2 DEF StreakLed, Heard
  <2>1. CASE round.decision # NoHash /\ round' = round /\ led' = led
    BY <2>1 DEF Binary!vars
  <2>2. zeros \in 0..k /\ ones \in 0..k /\ zeros + ones =< k
    BY <2>0, SampleOfTally
  <2>3. k \in Nat \ {0} /\ alpha \in Nat /\ alpha >= 1 /\ 2 * alpha > k
    BY SizesAssumption, AlphaMajority
  <2>4. Binary!Alpha(k) = alpha
    BY DEF Binary!Alpha, Alpha
  <2>5. Leading(tally, alpha) = {h \in DOMAIN tally : tally[h] >= alpha}
    BY <2>0, OneLeads
  <2>6. /\ lo \in Leading(tally, alpha) <=> zeros >= alpha
        /\ hi \in Leading(tally, alpha) <=> ones >= alpha
    BY <2>3, <2>5 DEF VotesFor
  <2>7. ASSUME Binary!ObserveRoundBinary(zeros, ones, alpha, quorum)
        PROVE  [Binary!Next]_Binary!vars
    BY <2>2, <2>4, <2>7 DEF Binary!Next
  <2> HIDE DEF zeros, ones, alpha
  <2>8. CASE /\ round.decision = NoHash /\ Leading(tally, alpha) = {}
             /\ round' = [pref |-> round.pref, streak |-> 0, decision |-> NoHash]
    <3>1. zeros < alpha /\ ones < alpha
      BY <2>2, <2>3, <2>6, <2>8
    <3>2. /\ round'.streak = 0 /\ round'.pref = round.pref /\ round'.decision = round.decision
      BY <2>8
    <3>3. Colour(round.decision, -1) = -1
      BY <1>c, <2>8
    <3>4. /\ Colour(round'.pref, 0) = Colour(round.pref, 0)
          /\ Colour(round'.decision, -1) = Colour(round.decision, -1)
      BY <3>2
    <3>5. Binary!ObserveRoundBinary(zeros, ones, alpha, quorum)
      BY <2>2, <2>3, <3>1, <3>2, <3>3, <3>4 DEF Binary!ObserveRoundBinary, Binary!Undecided
    <3> QED
      BY <2>7, <3>5
  <2>9. ASSUME NEW h \in Hashes, round.decision = NoHash, Leading(tally, alpha) = {h},
               round' = Reinforce(round, h, Beta, quorum)
        PROVE  [Binary!Next]_Binary!vars
    <3> DEFINE s == IF h = round.pref THEN round.streak + 1 ELSE 1
    <3>1. round'.pref = h /\ round'.streak = s
          /\ round'.decision = (IF s >= Beta /\ quorum THEN h ELSE NoHash)
      BY <2>9 DEF Reinforce
    <3>2. round.pref \in Hashes
      BY <2>0 DEF TypeOK
    <3>3. Colour(round.decision, -1) = -1
      BY <1>c, <2>9
    <3>4. Colour(h, 0) = Colour(round.pref, 0) <=> h = round.pref
      BY <1>c, <1>h, <3>2
    <3>5. Colour(round'.decision, -1) = IF s >= Beta /\ quorum THEN Colour(h, 0) ELSE -1
      <4>1. Colour(h, -1) = Colour(h, 0)
        BY <1>c, <1>h
      <4> QED
        BY <1>c, <3>1, <4>1
    <3>6. Binary!Confirm(Colour(h, 0), quorum)
      BY <3>1, <3>4, <3>5 DEF Binary!Confirm, Binary!Undecided
    <3>7. Binary!ObserveRoundBinary(zeros, ones, alpha, quorum)
      <4>1. CASE h = lo
        <5>1. zeros >= alpha /\ ones < alpha /\ Colour(h, 0) = 0
          BY <1>c, <1>h, <2>2, <2>3, <2>6, <2>9, <4>1
        <5>2. ~(ones >= zeros)
          BY <2>2, <2>3, <5>1
        <5> QED
          BY <3>3, <3>6, <5>1, <5>2 DEF Binary!ObserveRoundBinary, Binary!Undecided
      <4>2. CASE h = hi
        <5>1. ones >= alpha /\ zeros < alpha /\ Colour(h, 0) = 1
          BY <1>c, <1>h, <2>2, <2>3, <2>6, <2>9, <4>2
        <5>2. ones >= zeros
          BY <2>2, <2>3, <5>1
        <5> QED
          BY <3>3, <3>6, <5>1, <5>2 DEF Binary!ObserveRoundBinary, Binary!Undecided
      <4> QED
        BY <1>h, <4>1, <4>2
    <3> QED
      BY <2>7, <3>7
  <2> QED
    BY <1>2, <2>0, <2>1, <2>8, <2>9, Observed DEF alpha
<1> QED
  BY <1>1, <1>2 DEF Next

LEMMA BinaryInit ==
  ASSUME NEW lo, NEW hi, Pair(lo, hi), Init
  PROVE  Binary!Init
<1>1. PICK h \in Hashes : round = [pref |-> h, streak |-> 0, decision |-> NoHash]
  BY DEF Init, NewRound
<1>2. Colour(h, 0) \in {0, 1} /\ Colour(NoHash, -1) = -1
  BY ColourOfPair DEF Pair
<1> QED
  BY <1>1, <1>2 DEF Binary!Init, Binary!Undecided

(* With two hashes to choose between, every step of FinalityRound, with its    *)
(* tie-break by hash and its committee of any size, is a step of the binary    *)
(* SnowballNode or leaves it alone.                                            *)
THEOREM RoundImplementsNode ==
  ASSUME NEW lo, NEW hi, Pair(lo, hi)
  PROVE  Spec => ImplementsSnowballNode
<1>1. Init => Binary!Init
  BY BinaryInit
<1>2. StreakLed /\ [Next]_vars => StreakLed'
  BY StreakStep
<1>3. StreakLed /\ [Next]_vars => [Binary!Next]_Binary!vars
  BY BinaryStep
<1> QED
  BY <1>1, <1>2, <1>3, StreakInit, PTL DEF Spec, ImplementsSnowballNode, Binary!Spec
=============================================================================
