---------------------------- MODULE Beacon ------------------------------
(***************************************************************************)
(* pallet-beacon: the beacon as storage, two extrinsics and a roll in      *)
(* on_initialize of every block that starts an epoch.  The storage maps    *)
(* iterate in the order of hashed keys, which is any order.                *)
(***************************************************************************)
EXTENDS Integers, Sequences, SequencesExt

CONSTANTS
  Accounts,
  Secrets, Digests, H, None,   \* as in BeaconState
  TooLong,        \* secrets longer than MaxSecretLen
  EpochLength,    \* EpochLength; 0 disables the roll
  MaxBlock        \* bound: last block explored

ASSUME HashAssumption ==
  /\ Secrets \subseteq Nat
  /\ H \in [Secrets -> Digests]
  /\ \A s, t \in Secrets : H[s] = H[t] => s = t
  /\ None \notin Secrets \cup Digests
ASSUME BeaconAssumption ==
  TooLong \subseteq Secrets /\ EpochLength \in Nat /\ MaxBlock \in Nat

VARIABLES
  number,     \* number of the current block
  Seed,       \* Beacon
  Pending, Awaiting, Staged, Active,
  ledger      \* history: the last commitment of each account in each epoch

maps == <<Pending, Awaiting, Staged, Active>>
pallet == <<number, Seed, maps, ledger>>

NoEntries == [a \in Accounts |-> None]
Holders(map) == {a \in Accounts : map[a] # None}

State == INSTANCE BeaconState WITH
  Nodes      <- Accounts,
  beacon     <- Seed,
  activeKeys <- [a \in Accounts |-> IF Active[a] = None THEN None ELSE H[Active[a]]],
  pending    <- Pending,
  awaiting   <- Awaiting,
  staged     <- Staged

Epoch == IF EpochLength = 0 THEN 0 ELSE number \div EpochLength

InitBeacon ==
  /\ number = 0
  /\ Seed = << >>
  /\ Pending = NoEntries /\ Awaiting = NoEntries /\ Staged = NoEntries /\ Active = NoEntries
  /\ ledger = {}

Commit(who, commitment) ==
  /\ Pending' = [Pending EXCEPT ![who] = commitment]
  /\ ledger' = {e \in ledger : e.who # who \/ e.epoch # Epoch}
                 \cup {[who |-> who, epoch |-> Epoch, digest |-> commitment]}
  /\ UNCHANGED <<number, Seed, Awaiting, Staged, Active>>

Opens(who, secret) == Awaiting[who] # None /\ Awaiting[who] = H[secret]

Reveal(who, secret) ==
  /\ Opens(who, secret) /\ secret \notin TooLong
  /\ Staged' = [Staged EXCEPT ![who] = secret]
  /\ UNCHANGED <<number, Seed, Pending, Awaiting, Active, ledger>>

(* Mutants of Roll: the staged secrets are not cleared; commitments nobody *)
(* replaced stay awaited.                                                  *)
Fold(order) == State!BeaconSeed(Seed, [i \in DOMAIN order |-> Staged[order[i]]])
RollKeepingStaged(order) ==
  /\ Seed' = Fold(order) /\ Active' = Staged /\ Awaiting' = Pending
  /\ Pending' = NoEntries /\ UNCHANGED Staged
RollMergingAwaiting(order) ==
  /\ Seed' = Fold(order) /\ Active' = Staged
  /\ Awaiting' = [a \in Accounts |-> IF Pending[a] = None THEN Awaiting[a] ELSE Pending[a]]
  /\ Pending' = NoEntries /\ Staged' = NoEntries
Roll(order) ==
  /\ Seed' = Fold(order)
  /\ Active' = Staged
  /\ Awaiting' = Pending
  /\ Pending' = NoEntries /\ Staged' = NoEntries

StartsEpoch(n) == n # 0 /\ EpochLength # 0 /\ n % EpochLength = 0

(* The next block: on_initialize runs before its extrinsics. *)
NextBlock ==
  /\ number < MaxBlock
  /\ number' = number + 1
  /\ IF StartsEpoch(number')
     THEN \E order \in SetToSeqs(Holders(Staged)) : Roll(order)
     ELSE UNCHANGED <<Seed, maps>>
  /\ UNCHANGED ledger

NextBeacon ==
  \/ \E a \in Accounts, c \in Digests : Commit(a, c)
  \/ \E a \in Accounts, s \in Secrets : Reveal(a, s)
  \/ NextBlock

SpecBeacon == InitBeacon /\ [][NextBeacon]_pallet

-----------------------------------------------------------------------------
(* The pallet makes exactly the steps of the pipeline, whatever the order  *)
(* in which a storage map is iterated.                                     *)
ImplementsBeaconState == State!Spec

(* A key that is drawn with in an epoch is the last commitment its owner   *)
(* made two epochs before: it was fixed a full epoch before the seed was   *)
(* folded, no replaced commitment comes back and no key is drawn with in   *)
(* two epochs on one commitment.                                           *)
ActiveKeysLocked ==
  \A a \in Holders(Active) :
    [who |-> a, epoch |-> Epoch - 2, digest |-> H[Active[a]]] \in ledger
=============================================================================
