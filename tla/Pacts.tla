------------------------------- MODULE Pacts -------------------------------
(***************************************************************************)
(* pallet-pacts: pacts among masks that every party signs (mode A), and     *)
(* sealed keys, the proof that something existed at a block (mode B).       *)
(***************************************************************************)
EXTENDS Integers, FiniteSets

CONSTANTS Masks, Keys, MaxParties, MaxOpenPerMask, MaxPactTtl

PactsParameters == {MaxParties, MaxOpenPerMask, MaxPactTtl} \subseteq Nat

VARIABLES
    number,
    NextPactId,
    Pacts,         \* id -> [proposer, parties, signed, expires, completed]
    OpenOf,        \* [Masks -> Nat]
    Sealed         \* key -> block

pacts == <<NextPactId, Pacts, OpenOf, Sealed>>

Init ==
    /\ NextPactId = 0 /\ Pacts = [id \in {} |-> {}] /\ OpenOf = [m \in Masks |-> 0]
    /\ Sealed = [k \in {} |-> 0]

CloseOpenSlot(proposer) == OpenOf' = [OpenOf EXCEPT ![proposer] = IF @ > 0 THEN @ - 1 ELSE 0]
RemovePact(id) == Pacts' = [p \in DOMAIN Pacts \ {id} |-> Pacts[p]]

Propose(who, parties, ttl) ==
    /\ Cardinality(parties) \in 2..MaxParties /\ who \in parties
    /\ ttl \in 1..MaxPactTtl
    /\ OpenOf[who] < MaxOpenPerMask
    /\ OpenOf' = [OpenOf EXCEPT ![who] = @ + 1]
    /\ Pacts' = [p \in DOMAIN Pacts \union {NextPactId} |->
                    IF p = NextPactId
                    THEN [proposer |-> who, parties |-> parties, signed |-> {who},
                          expires |-> number + ttl, completed |-> FALSE]
                    ELSE Pacts[p]]
    /\ NextPactId' = NextPactId + 1
    /\ UNCHANGED <<number, Sealed>>

\* Mutant for AgreementsKept: two signatures complete a pact of three.
CompleteWithTwo(signed, parties) == Cardinality(signed) >= 2
Complete(signed, parties) == Cardinality(signed) = Cardinality(parties)

Sign(who, id) ==
    LET p == Pacts[id]
        signed == p.signed \union {who}
    IN  /\ id \in DOMAIN Pacts /\ ~p.completed /\ number <= p.expires
        /\ who \in p.parties \ p.signed
        /\ Pacts' = [Pacts EXCEPT ![id].signed = signed,
                                  ![id].completed = Complete(signed, p.parties)]
        /\ IF Complete(signed, p.parties) THEN CloseOpenSlot(p.proposer) ELSE UNCHANGED OpenOf
        /\ UNCHANGED <<number, NextPactId, Sealed>>

Withdraw(who, id) ==
    /\ id \in DOMAIN Pacts /\ Pacts[id].proposer = who /\ ~Pacts[id].completed
    /\ RemovePact(id) /\ CloseOpenSlot(who)
    /\ UNCHANGED <<number, NextPactId, Sealed>>

Reap(id) ==
    /\ id \in DOMAIN Pacts /\ ~Pacts[id].completed /\ number > Pacts[id].expires
    /\ RemovePact(id) /\ CloseOpenSlot(Pacts[id].proposer)
    /\ UNCHANGED <<number, NextPactId, Sealed>>

Seal(key) ==
    /\ key \notin DOMAIN Sealed
    /\ Sealed' = [k \in DOMAIN Sealed \union {key} |-> IF k = key THEN number ELSE Sealed[k]]
    /\ UNCHANGED <<number, NextPactId, Pacts, OpenOf>>

Next ==
    \/ \E who \in Masks, parties \in SUBSET Masks, ttl \in 1..MaxPactTtl : Propose(who, parties, ttl)
    \/ \E id \in DOMAIN Pacts : Reap(id) \/ \E who \in Masks : Sign(who, id) \/ Withdraw(who, id)
    \/ \E key \in Keys : Seal(key)

-----------------------------------------------------------------------------
(* The slots a mask has used up are its unfinished pacts.                    *)
OpenPactsBy(m) == {id \in DOMAIN Pacts : Pacts[id].proposer = m /\ ~Pacts[id].completed}
PactSlots == \A m \in Masks : OpenOf[m] = Cardinality(OpenPactsBy(m))

AsAgreement(p) ==
    [proposer |-> p.proposer, parties |-> p.parties, consent |-> p.signed, closed |-> p.completed]
Agreed == INSTANCE Agreements
            WITH MaxOpen <- MaxOpenPerMask, next <- NextPactId,
                 agreements <- [id \in DOMAIN Pacts |-> AsAgreement(Pacts[id])]
=============================================================================
