--------------------------- MODULE MultisigUpgrade ---------------------------
(***************************************************************************)
(* pallet-multisig-upgrade: the seats that hold the key to set_code, and    *)
(* what they do with it: upgrade, veto, burn, renew, cede a seat.           *)
(*                                                                          *)
(* A code is its hash.  What the pallet reads from the rest of the runtime  *)
(* is the variable society, which changes from block to block: the          *)
(* consensus reputation, the bar of high standing, the entrenchment halt.   *)
(***************************************************************************)
EXTENDS Integers, FiniteSets, FiniteSetsExt

CONSTANTS
    Accounts,              \* as numbers, the order breaks ties of standing
    None,
    Seats,                 \* the signers of the genesis, none or as many as SEATS
    CustodySeat,           \* one of them, or None
    Threshold, RenewalThreshold, DisasterThreshold,      \* 3, 4 and 5 in the code
    Codes, Deployable,     \* deployable: passes the checks of frame_system on the blob
    Manifesto,             \* the hash sealed in the chain, or None
    Manifestos,            \* the hashes a proposal may declare
    VoteKeyed,             \* accounts with a bound vote key
    ElectorateTau,         \* RENEWAL_ELECTORATE_TAU
    Societies,             \* the values of society
    InitialLife, ObjectionWindow, EpochLength, DisasterEpochs,
    MaxBlock, MaxCalls     \* bounds of the model

\* The arithmetic of the thresholds, and the dials.
MultisigConfig ==
    /\ {Threshold, RenewalThreshold, DisasterThreshold} \subseteq Nat
    /\ Threshold <= RenewalThreshold /\ RenewalThreshold <= DisasterThreshold
    /\ {InitialLife, ObjectionWindow, DisasterEpochs} \subseteq Nat
    /\ EpochLength \in Nat \ {0}

\* What the network says of its members: weights to co-sign a renewal with, the
\* standing a seat may be ceded to, and whether it has a committee at all.
IsSociety(s) ==
    /\ DOMAIN s.reps \subseteq Accounts /\ s.reps \in [DOMAIN s.reps -> Nat]
    /\ s.floor \in Nat /\ s.halted \in BOOLEAN

\* What a candidate upgrade declares, field for field: the caps of the coins and
\* the guard's constants are kept or they are not.  The chain's own truth is the
\* second one; without a manifesto there is none.
InvariantDeclaration ==
    [manifesto_hash : Manifestos, caps_and_guard : {"kept", "changed"},
     preserves_validator : BOOLEAN]
SealedInvariants ==
    [manifesto_hash |-> Manifesto, caps_and_guard |-> "kept", preserves_validator |-> TRUE]

ASSUME MultisigAssumption ==
    /\ MultisigConfig
    /\ Accounts \subseteq Nat /\ None \notin Accounts /\ MaxBlock \in Nat /\ MaxCalls \in Nat
    /\ Seats \subseteq Accounts /\ IsFiniteSet(Seats) /\ CustodySeat \in Seats \union {None}
    /\ \A s \in Societies : IsSociety(s)

VARIABLES
    number, society,
    Signers, Custody,
    LifeEnd,
    Burned, BurnApprovals,
    PendingUpgrade,        \* [code, at, approvals] or None
    VetoSpent,             \* the codes that were vetoed
    PendingRenewal,        \* [disaster, at, approvals, cosigns, electorate] or None
    PendingCession,        \* [from, to, at, approvals] or None
    EpochsWithoutCommittee,
    applied,               \* history: [code, seats, approved, vetoed]
    calls                  \* calls so far, for the bound

seating == <<Signers, Custody>>
life == <<LifeEnd, Burned, BurnApprovals>>
pending == <<PendingUpgrade, PendingRenewal, PendingCession>>
multisig == <<seating, life, pending, VetoSpent, EpochsWithoutCommittee, applied>>
vars == <<number, society, multisig, calls>>

\* The heaviest ElectorateTau of the reputable with a vote key, with their weights.
RenewalCommittee(s) ==
    LET reps == s.reps
        keyed == {a \in DOMAIN reps : reps[a] > 0 /\ a \in VoteKeyed}
        above(a) == {b \in keyed : reps[b] > reps[a] \/ (reps[b] = reps[a] /\ b < a)}
        top == {a \in keyed : Cardinality(above(a)) < ElectorateTau}
    IN  [a \in IF s.halted THEN {} ELSE top |-> reps[a]]

HighStanding(a) ==
    a \in DOMAIN society.reps /\ society.reps[a] >= society.floor /\ society.reps[a] > 0

Init ==
    /\ number = 1 /\ society \in Societies
    /\ Signers = Seats /\ Custody = CustodySeat
    /\ LifeEnd = IF Seats = {} THEN 0 ELSE InitialLife
    /\ Burned = FALSE /\ BurnApprovals = {}
    /\ PendingUpgrade = None /\ PendingRenewal = None /\ PendingCession = None
    /\ VetoSpent = {} /\ EpochsWithoutCommittee = 0
    /\ applied = {} /\ calls = 0

OnInitialize(n, now) ==
    /\ number' = n /\ society' = now
    /\ EpochsWithoutCommittee' =
         IF n % EpochLength # 0 THEN EpochsWithoutCommittee
         ELSE IF DOMAIN RenewalCommittee(now) = {} THEN EpochsWithoutCommittee + 1 ELSE 0
    /\ UNCHANGED <<seating, life, pending, VetoSpent, applied>>

-----------------------------------------------------------------------------
Alive == ~Burned /\ number < LifeEnd
\* Mutant for CodeHasQuorum: every approval counts, whoever holds the seat now.
AllApprovals(approvals) == Cardinality(approvals)
LiveApprovals(approvals) == Cardinality(approvals \cap Signers)
PendingTtl == 4 * ObjectionWindow
IsStale(at) == number > at + PendingTtl
Announced(at) == number >= at + ObjectionWindow

\* The list of approvals has as many places as there are seats.
Approve(approvals, who) ==
    who \in Signers /\ who \notin approvals /\ Cardinality(approvals) < Cardinality(Seats)

(* Upgrades.                                                                 *)
ProposeUpgrade(who, code, declared) ==
    /\ who \in Signers /\ who # Custody /\ Alive
    /\ PendingUpgrade = None
    /\ Manifesto # None /\ declared = SealedInvariants
    /\ PendingUpgrade' = [code |-> code, at |-> number, approvals |-> {who}]
    /\ UNCHANGED <<number, society, seating, life, PendingRenewal, PendingCession, VetoSpent,
                   EpochsWithoutCommittee, applied>>

ApproveUpgrade(who) ==
    /\ PendingUpgrade # None /\ Alive
    /\ who # Custody /\ Approve(PendingUpgrade.approvals, who)
    /\ PendingUpgrade' = [PendingUpgrade EXCEPT !.approvals = @ \union {who}]
    /\ UNCHANGED <<number, society, seating, life, PendingRenewal, PendingCession, VetoSpent,
                   EpochsWithoutCommittee, applied>>

VetoUpgrade(who) ==
    /\ who \in Signers
    /\ PendingUpgrade # None /\ PendingUpgrade.code \notin VetoSpent
    /\ VetoSpent' = VetoSpent \union {PendingUpgrade.code}
    /\ PendingUpgrade' = None
    /\ UNCHANGED <<number, society, seating, life, PendingRenewal, PendingCession,
                   EpochsWithoutCommittee, applied>>

Required(code) == IF code \in VetoSpent THEN RenewalThreshold ELSE Threshold

ApplyUpgrade ==
    /\ Alive /\ PendingUpgrade # None
    /\ LiveApprovals(PendingUpgrade.approvals) >= Required(PendingUpgrade.code)
    /\ Announced(PendingUpgrade.at)
    /\ PendingUpgrade.code \in Deployable
    /\ PendingUpgrade' = None
    /\ applied' = applied \union
         {[code |-> PendingUpgrade.code, seats |-> Signers,
           approved |-> PendingUpgrade.approvals,
           vetoed |-> PendingUpgrade.code \in VetoSpent]}
    /\ UNCHANGED <<number, society, seating, life, PendingRenewal, PendingCession, VetoSpent,
                   EpochsWithoutCommittee>>

(* The burn: as many live approvals as an upgrade, no window, for ever.      *)
ApproveBurn(who) ==
    /\ ~Burned /\ Approve(BurnApprovals, who)
    /\ BurnApprovals' = BurnApprovals \union {who}
    /\ IF LiveApprovals(BurnApprovals') >= Threshold
       THEN Burned' = TRUE /\ PendingUpgrade' = None /\ PendingRenewal' = None
            /\ PendingCession' = None
       ELSE UNCHANGED <<Burned, pending>>
    /\ UNCHANGED <<number, society, seating, LifeEnd, VetoSpent, EpochsWithoutCommittee, applied>>

-----------------------------------------------------------------------------
(* Renewal: at the end of the key's life with the network's countersign, or  *)
(* by all the seats when there is no committee, or none that acts.           *)
DisasterHolds ==
    \/ EpochsWithoutCommittee >= DisasterEpochs
    \/ number >= LifeEnd + EpochLength * DisasterEpochs
\* Mutant for RenewalAtTheEnd: due an objection window too early.
DueEarly == number + 2 * ObjectionWindow >= LifeEnd
RenewalDue == number + ObjectionWindow >= LifeEnd

ProposeRenewal(who, disaster) ==
    /\ ~Burned /\ who \in Signers
    /\ PendingRenewal # None => IsStale(PendingRenewal.at)
    /\ IF disaster THEN DisasterHolds ELSE RenewalDue /\ DOMAIN RenewalCommittee(society) # {}
    /\ PendingRenewal' = [disaster |-> disaster, at |-> number, approvals |-> {who},
                          cosigns |-> {}, electorate |-> RenewalCommittee(society)]
    /\ UNCHANGED <<number, society, seating, life, PendingUpgrade, PendingCession, VetoSpent,
                   EpochsWithoutCommittee, applied>>

ApproveRenewal(who) ==
    /\ ~Burned /\ PendingRenewal # None /\ Approve(PendingRenewal.approvals, who)
    /\ PendingRenewal' = [PendingRenewal EXCEPT !.approvals = @ \union {who}]
    /\ UNCHANGED <<number, society, seating, life, PendingUpgrade, PendingCession, VetoSpent,
                   EpochsWithoutCommittee, applied>>

CosignRenewal(who) ==
    /\ ~Burned /\ PendingRenewal # None /\ ~PendingRenewal.disaster
    /\ who \in DOMAIN PendingRenewal.electorate \ PendingRenewal.cosigns
    /\ PendingRenewal' = [PendingRenewal EXCEPT !.cosigns = @ \union {who}]
    /\ UNCHANGED <<number, society, seating, life, PendingUpgrade, PendingCession, VetoSpent,
                   EpochsWithoutCommittee, applied>>

\* More than half of the weight of the electorate, as it was at the proposal.
Ratified(electorate, cosigns) ==
    LET weight(S) == MapThenSumSet(LAMBDA a : electorate[a], S)
    IN  2 * weight(cosigns \cap DOMAIN electorate) > weight(DOMAIN electorate)

ApplyRenewal ==
    /\ ~Burned /\ PendingRenewal # None
    /\ LET p == PendingRenewal
           window == IF p.disaster THEN Max({InitialLife \div 4, 1}) ELSE Max({InitialLife, 1})
       IN  /\ IF p.disaster
              THEN LiveApprovals(p.approvals) >= DisasterThreshold /\ DisasterHolds
              ELSE /\ LiveApprovals(p.approvals) >= RenewalThreshold
                   /\ Announced(p.at) /\ Ratified(p.electorate, p.cosigns)
           /\ LifeEnd' = Max({number, LifeEnd}) + window
    /\ PendingRenewal' = None
    /\ UNCHANGED <<number, society, seating, Burned, BurnApprovals, PendingUpgrade,
                   PendingCession, VetoSpent, EpochsWithoutCommittee, applied>>

-----------------------------------------------------------------------------
(* Cession of a seat to an account of high standing.                         *)
ProposeCession(who, to) ==
    /\ ~Burned /\ who \in Signers /\ to \notin Signers /\ HighStanding(to)
    /\ PendingCession # None => IsStale(PendingCession.at)
    /\ PendingCession' = [from |-> who, to |-> to, at |-> number, approvals |-> {who}]
    /\ UNCHANGED <<number, society, seating, life, PendingUpgrade, PendingRenewal, VetoSpent,
                   EpochsWithoutCommittee, applied>>

ApproveCession(who) ==
    /\ ~Burned /\ PendingCession # None /\ Approve(PendingCession.approvals, who)
    /\ PendingCession' = [PendingCession EXCEPT !.approvals = @ \union {who}]
    /\ UNCHANGED <<number, society, seating, life, PendingUpgrade, PendingRenewal, VetoSpent,
                   EpochsWithoutCommittee, applied>>

\* Every approval counts here: no seat changes hands while a cession is pending.
ApplyCession ==
    /\ ~Burned /\ PendingCession # None
    /\ LET p == PendingCession IN
         /\ Cardinality(p.approvals) >= Threshold
         /\ Announced(p.at) /\ HighStanding(p.to) /\ p.to \notin Signers
         /\ Signers' = IF p.from \in Signers THEN (Signers \ {p.from}) \union {p.to} ELSE Signers
         /\ Custody' = IF Custody = p.from THEN p.to ELSE Custody
    /\ PendingCession' = None
    /\ UNCHANGED <<number, society, life, PendingUpgrade, PendingRenewal, VetoSpent,
                   EpochsWithoutCommittee, applied>>

-----------------------------------------------------------------------------
OpenBlock ==
    /\ number < MaxBlock
    /\ \E now \in Societies : OnInitialize(number + 1, now)
    /\ UNCHANGED calls

Upgrading ==
    \/ \E who \in Signers : ApproveUpgrade(who) \/ VetoUpgrade(who) \/ ApproveBurn(who)
    \/ \E who \in Signers, code \in Codes, declared \in InvariantDeclaration :
         ProposeUpgrade(who, code, declared)
    \/ ApplyUpgrade
Renewing ==
    \/ \E who \in Signers : ApproveRenewal(who) \/ \E d \in BOOLEAN : ProposeRenewal(who, d)
    \/ \E who \in Accounts : CosignRenewal(who)
    \/ ApplyRenewal
Ceding ==
    \/ \E who \in Signers : ApproveCession(who) \/ \E to \in Accounts : ProposeCession(who, to)
    \/ ApplyCession
Call == calls < MaxCalls /\ calls' = calls + 1 /\ (Upgrading \/ Renewing \/ Ceding)

Next == OpenBlock \/ Call
Spec == Init /\ [][Next]_vars

-----------------------------------------------------------------------------
Upgrade == [code : Codes, at : Nat, approvals : SUBSET Accounts]
Renewal == [disaster : BOOLEAN, at : Nat, approvals : SUBSET Accounts,
            cosigns : SUBSET Accounts, electorate : {RenewalCommittee(s) : s \in Societies}]
Cession == [from : Accounts, to : Accounts, at : Nat, approvals : SUBSET Accounts]

TypeOK ==
    /\ number \in Nat /\ society \in Societies
    /\ Signers \in SUBSET Accounts /\ Custody \in Accounts \union {None}
    /\ LifeEnd \in Nat /\ Burned \in BOOLEAN /\ BurnApprovals \in SUBSET Accounts
    /\ PendingUpgrade \in Upgrade \union {None}
    /\ PendingRenewal \in Renewal \union {None}
    /\ PendingCession \in Cession \union {None}
    /\ VetoSpent \in SUBSET Codes /\ EpochsWithoutCommittee \in Nat /\ calls \in Nat
    /\ applied \in SUBSET [code : Codes, seats : SUBSET Accounts,
                           approved : SUBSET Accounts, vetoed : BOOLEAN]

(* However seats are ceded, there are as many as at genesis, the thresholds  *)
(* being counted against that number, and the custody is one of them.        *)
KeyKeepsItsSeats ==
    Cardinality(Signers) = Cardinality(Seats) /\ Custody \in Signers \union {None}

(* New code was wanted by enough of those who hold a seat when it lands: the *)
(* approval of one who ceded its seat since is none, and a code that was     *)
(* vetoed, in whatever proposal, needs one more.                             *)
CodeHasQuorum ==
    \A a \in applied :
        Cardinality(a.approved \cap a.seats)
            >= IF a.vetoed THEN RenewalThreshold ELSE Threshold

(* A renewal with the network's countersign finds the key dead: it cannot    *)
(* pile a life on a life.  Due is decided at the proposal, the window and    *)
(* the life granted at the end.                                              *)
RenewalAtTheEnd ==
    [][LifeEnd' # LifeEnd /\ ~PendingRenewal.disaster => LifeEnd <= number]_vars
=============================================================================
