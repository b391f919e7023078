-------------------------- MODULE BeaconState ---------------------------
(***************************************************************************)
(* consensus-core/beacon.rs: the commit-reveal beacon as a pipeline of     *)
(* epochs.  What the pallet promises: commit now, reveal next epoch, be    *)
(* drawn with the key the epoch after.                                     *)
(*                                                                         *)
(* SHA-256 is collision free: H is injective (assumed by Beacon) and a     *)
(* mixed accumulator is the sequence of what was mixed into it.            *)
(***************************************************************************)
EXTENDS Integers, Sequences, SequencesExt

CONSTANTS
  Nodes,
  Secrets,    \* secrets, ordered as byte strings are
  Digests,    \* what can be published as a commitment, opened by a secret or not
  H,          \* [Secrets -> Digests]: SHA-256
  None        \* no entry in a map

VARIABLES
  beacon,       \* seed of this epoch's draws
  activeKeys,   \* keys drawn with this epoch
  pending,      \* commitments of this epoch
  awaiting,     \* commitments of the last epoch
  staged        \* secrets revealed this epoch

vars == <<beacon, activeKeys, pending, awaiting, staged>>

Empty == [n \in Nodes |-> None]
Having(map) == {n \in Nodes : map[n] # None}

Mix(acc, contribution) == Append(acc, contribution)

(* In place i of the sorted contributions is the one with fewer than i     *)
(* below it and at least i up to it.                                       *)
Sorted(contributions) ==
  [i \in DOMAIN contributions |->
    CHOOSE s \in Range(contributions) :
      /\ Cardinality({j \in DOMAIN contributions : contributions[j] < s}) < i
      /\ Cardinality({j \in DOMAIN contributions : contributions[j] =< s}) >= i]

(* beacon_seed sorts the contributions before folding them; the mutant     *)
(* folds them as they come.                                                *)
BeaconSeedUnsorted(prev, contributions) == FoldLeft(Mix, prev, contributions)
BeaconSeed(prev, contributions) == FoldLeft(Mix, prev, Sorted(contributions))

(* An epoch in one round, for the holder of all commitments and secrets.   *)
(* The seed takes in every secret, opened by its commitment or not.        *)
VerifiedSecretKeys(reveals) ==
  [n \in {m \in DOMAIN reveals : H[reveals[m].secret] = reveals[m].commitment}
     |-> H[reveals[n].secret]]
CommittedDraw(reputation, reveals, prev) ==
  LET keys      == VerifiedSecretKeys(reveals)
      revealers == SetToSeq(DOMAIN reveals)
  IN  [seed       |-> BeaconSeed(prev, [i \in DOMAIN revealers |-> reveals[revealers[i]].secret]),
       keys       |-> keys,
       reputation |-> Restrict(reputation, DOMAIN reputation \cap DOMAIN keys)]

Init ==
  /\ beacon = << >>
  /\ activeKeys = Empty /\ pending = Empty /\ awaiting = Empty /\ staged = Empty

Commit(node, commitment) ==
  /\ pending' = [pending EXCEPT ![node] = commitment]
  /\ UNCHANGED <<beacon, activeKeys, awaiting, staged>>

Reveal(node, secret) ==
  /\ awaiting[node] = H[secret]
  /\ staged' = [staged EXCEPT ![node] = secret]
  /\ UNCHANGED <<beacon, activeKeys, pending, awaiting>>

Roll ==
  LET revealers     == SetToSeq(Having(staged))
      contributions == [i \in DOMAIN revealers |-> staged[revealers[i]]]
  IN  /\ beacon' = BeaconSeed(beacon, contributions)
      /\ activeKeys' = [n \in Nodes |-> IF staged[n] = None THEN None ELSE H[staged[n]]]
      /\ awaiting' = pending
      /\ pending' = Empty /\ staged' = Empty

Next ==
  \/ \E n \in Nodes, c \in Digests : Commit(n, c)
  \/ \E n \in Nodes, s \in Secrets : Reveal(n, s)
  \/ Roll

Spec == Init /\ [][Next]_vars
=============================================================================
