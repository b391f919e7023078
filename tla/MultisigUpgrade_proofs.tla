------------------------ MODULE MultisigUpgrade_proofs ------------------------
(***************************************************************************)
(* What holds of the key for any number of seats, whatever the society      *)
(* says, whatever is proposed, and however long the chain runs.             *)
(***************************************************************************)
EXTENDS MultisigUpgrade, FiniteSetTheorems, TLAPS

(* The larger of two numbers is one of them and not below the other.         *)
LEMMA MaxOfTwo ==
  ASSUME NEW a \in Nat, NEW b \in Nat
  PROVE  Max({a, b}) \in Nat /\ Max({a, b}) >= a /\ Max({a, b}) >= b
<1>1. \E x \in {a, b} : \A y \in {a, b} : x >= y
  <2>1. CASE a >= b
    BY <2>1
  <2>2. CASE ~(a >= b)
    BY <2>2
  <2> QED
    BY <2>1, <2>2
<1> QED
  BY <1>1 DEF Max

LEMMA NumbersAreNumbers ==
  /\ None \notin Accounts /\ Accounts \subseteq Nat
  /\ InitialLife \in Nat /\ ObjectionWindow \in Nat /\ EpochLength \in Nat
  /\ Threshold \in Nat /\ RenewalThreshold \in Nat
BY MultisigAssumption DEF MultisigConfig

-----------------------------------------------------------------------------
LEMMA TypeInit == Init => TypeOK
<1> SUFFICES ASSUME Init PROVE TypeOK
  OBVIOUS
<1>1. Seats \in SUBSET Accounts /\ CustodySeat \in Accounts \union {None}
  BY MultisigAssumption
<1>2. number \in Nat /\ LifeEnd \in Nat /\ EpochsWithoutCommittee \in Nat /\ calls \in Nat
  BY NumbersAreNumbers DEF Init
<1>3. Burned \in BOOLEAN /\ BurnApprovals \in SUBSET Accounts /\ VetoSpent \in SUBSET Codes
  BY DEF Init
<1>4. applied \in SUBSET [code : Codes, seats : SUBSET Accounts,
                         approved : SUBSET Accounts, vetoed : BOOLEAN]
  BY DEF Init
<1> QED
  BY <1>1, <1>2, <1>3, <1>4 DEF Init, TypeOK

LEMMA TypeUpgrading == TypeOK /\ calls' \in Nat /\ Upgrading => TypeOK'
<1> SUFFICES ASSUME TypeOK, calls' \in Nat, Upgrading PROVE TypeOK'
  OBVIOUS
<1>1. ASSUME NEW who \in Signers, NEW code \in Codes, NEW declared,
             ProposeUpgrade(who, code, declared)
      PROVE  TypeOK'
  BY <1>1 DEF TypeOK, ProposeUpgrade, Upgrade, seating, life
<1>2. ASSUME NEW who \in Signers, ApproveUpgrade(who) PROVE TypeOK'
  <2>1. /\ PendingUpgrade \in Upgrade
        /\ PendingUpgrade' = [PendingUpgrade EXCEPT !.approvals = @ \union {who}]
    BY <1>2 DEF TypeOK, ApproveUpgrade
  <2>2. PendingUpgrade' \in Upgrade
    BY <2>1 DEF TypeOK, Upgrade
  <2> QED
    BY <1>2, <2>2 DEF TypeOK, ApproveUpgrade, seating, life
<1>3. ASSUME NEW who \in Signers, VetoUpgrade(who) PROVE TypeOK'
  <2>1. PendingUpgrade.code \in Codes
    BY <1>3 DEF TypeOK, VetoUpgrade, Upgrade
  <2> QED
    BY <1>3, <2>1 DEF TypeOK, VetoUpgrade, seating, life
<1>4. ASSUME NEW who \in Signers, ApproveBurn(who) PROVE TypeOK'
  BY <1>4 DEF TypeOK, ApproveBurn, Approve, seating, pending
<1>5. CASE ApplyUpgrade
  <2>1. PendingUpgrade.code \in Codes /\ PendingUpgrade.approvals \in SUBSET Accounts
    BY <1>5 DEF TypeOK, ApplyUpgrade, Upgrade
  <2>2. [code |-> PendingUpgrade.code, seats |-> Signers, approved |-> PendingUpgrade.approvals,
         vetoed |-> PendingUpgrade.code \in VetoSpent]
          \in [code : Codes, seats : SUBSET Accounts, approved : SUBSET Accounts, vetoed : BOOLEAN]
    BY <2>1 DEF TypeOK
  <2> QED
    BY <1>5, <2>2 DEF TypeOK, ApplyUpgrade, seating, life
<1> QED
  BY <1>1, <1>2, <1>3, <1>4, <1>5 DEF Upgrading

LEMMA TypeRenewing == TypeOK /\ calls' \in Nat /\ Renewing => TypeOK'
<1> SUFFICES ASSUME TypeOK, calls' \in Nat, Renewing PROVE TypeOK'
  OBVIOUS
<1>1. ASSUME NEW who \in Signers, NEW d \in BOOLEAN, ProposeRenewal(who, d) PROVE TypeOK'
  <2>1. PendingRenewal' \in Renewal
    BY <1>1 DEF TypeOK, ProposeRenewal, Renewal
  <2> QED
    BY <1>1, <2>1 DEF TypeOK, ProposeRenewal, seating, life
<1>2. ASSUME NEW who \in Signers, ApproveRenewal(who) PROVE TypeOK'
  <2>1. /\ PendingRenewal \in Renewal
        /\ PendingRenewal' = [PendingRenewal EXCEPT !.approvals = @ \union {who}]
    BY <1>2 DEF TypeOK, ApproveRenewal
  <2>2. PendingRenewal' \in Renewal
    BY <2>1 DEF TypeOK, Renewal
  <2> QED
    BY <1>2, <2>2 DEF TypeOK, ApproveRenewal, seating, life
<1>3. ASSUME NEW who \in Accounts, CosignRenewal(who) PROVE TypeOK'
  <2>1. /\ PendingRenewal \in Renewal
        /\ PendingRenewal' = [PendingRenewal EXCEPT !.cosigns = @ \union {who}]
    BY <1>3 DEF TypeOK, CosignRenewal
  <2>2. PendingRenewal' \in Renewal
    BY <2>1 DEF Renewal
  <2> QED
    BY <1>3, <2>2 DEF TypeOK, CosignRenewal, seating, life
<1>4. CASE ApplyRenewal
  <2>1. LifeEnd' \in Nat
    <3> DEFINE window == IF PendingRenewal.disaster THEN Max({InitialLife \div 4, 1})
                                                    ELSE Max({InitialLife, 1})
    <3>1. InitialLife \div 4 \in Nat
      BY NumbersAreNumbers
    <3>2. window \in Nat
      BY <3>1, NumbersAreNumbers, MaxOfTwo
    <3>3. Max({number, LifeEnd}) \in Nat
      BY MaxOfTwo DEF TypeOK
    <3>4. LifeEnd' = Max({number, LifeEnd}) + window
      BY <1>4 DEF ApplyRenewal
    <3> HIDE DEF window
    <3> QED
      BY <3>2, <3>3, <3>4
  <2> QED
    BY <1>4, <2>1 DEF TypeOK, ApplyRenewal, seating
<1> QED
  BY <1>1, <1>2, <1>3, <1>4 DEF Renewing

LEMMA TypeCeding == TypeOK /\ calls' \in Nat /\ Ceding => TypeOK'
<1> SUFFICES ASSUME TypeOK, calls' \in Nat, Ceding PROVE TypeOK'
  OBVIOUS
<1>1. ASSUME NEW who \in Signers, NEW to \in Accounts, ProposeCession(who, to) PROVE TypeOK'
  <2>1. PendingCession' \in Cession
    BY <1>1 DEF TypeOK, ProposeCession, Cession
  <2> QED
    BY <1>1, <2>1 DEF TypeOK, ProposeCession, seating, life
<1>2. ASSUME NEW who \in Signers, ApproveCession(who) PROVE TypeOK'
  <2>1. /\ PendingCession \in Cession
        /\ PendingCession' = [PendingCession EXCEPT !.approvals = @ \union {who}]
    BY <1>2 DEF TypeOK, ApproveCession
  <2>2. PendingCession' \in Cession
    BY <2>1 DEF TypeOK, Cession
  <2> QED
    BY <1>2, <2>2 DEF TypeOK, ApproveCession, seating, life
<1>3. CASE ApplyCession
  <2>1. PendingCession.to \in Accounts
    BY <1>3 DEF TypeOK, ApplyCession, Cession
  <2> QED
    BY <1>3, <2>1 DEF TypeOK, ApplyCession, life
<1> QED
  BY <1>1, <1>2, <1>3 DEF Ceding

(* The pallet's storage keeps its types; an electorate that was frozen is   *)
(* one the network once had.                                                *)
LEMMA TypeStep == TypeOK /\ [Next]_vars => TypeOK'
<1> SUFFICES ASSUME TypeOK, [Next]_vars PROVE TypeOK'
  OBVIOUS
<1>1. CASE OpenBlock
  BY <1>1, NumbersAreNumbers DEF TypeOK, OpenBlock, OnInitialize, seating, life, pending
<1>2. CASE Call
  <2>1. calls' \in Nat
    BY <1>2 DEF Call, TypeOK
  <2> QED
    BY <1>2, <2>1, TypeUpgrading, TypeRenewing, TypeCeding DEF Call
<1>3. CASE UNCHANGED vars
  BY <1>3 DEF TypeOK, vars, multisig, seating, life, pending
<1> QED
  BY <1>1, <1>2, <1>3 DEF Next

(* Nothing that seats, societies and windows do makes a record of the       *)
(* pallet anything but what its readers expect.                             *)
THEOREM TypesHold == Spec => []TypeOK
BY TypeInit, TypeStep, PTL DEF Spec

-----------------------------------------------------------------------------
(* The seats.  The seat a pending cession gives away is still its owner's:  *)
(* one cession is pending at a time, and only a cession moves a seat.       *)
KeyInv ==
  /\ TypeOK /\ IsFiniteSet(Signers) /\ KeyKeepsItsSeats
  /\ PendingCession # None => PendingCession.from \in Signers

LEMMA KeyInit == Init => KeyInv
BY TypeInit, MultisigAssumption DEF Init, KeyInv, KeyKeepsItsSeats

LEMMA SeatMoves ==
  ASSUME KeyInv, ApplyCession
  PROVE  /\ IsFiniteSet(Signers') /\ Cardinality(Signers') = Cardinality(Signers)
         /\ Custody' \in Signers' \union {None}
<1> DEFINE from == PendingCession.from
           to == PendingCession.to
<1>1. /\ from \in Signers /\ to \notin Signers
      /\ Signers' = (Signers \ {from}) \union {to}
      /\ Custody' = IF Custody = from THEN to ELSE Custody
  BY DEF KeyInv, ApplyCession
<1>2. IsFiniteSet(Signers \ {from}) /\ Cardinality(Signers \ {from}) = Cardinality(Signers) - 1
  BY <1>1, FS_RemoveElement DEF KeyInv
<1>3. /\ IsFiniteSet((Signers \ {from}) \union {to})
      /\ Cardinality((Signers \ {from}) \union {to}) = Cardinality(Signers \ {from}) + 1
  BY <1>1, <1>2, FS_AddElement
<1>4. Cardinality(Signers) \in Nat
  BY FS_CardinalityType DEF KeyInv
<1>5. Custody \in Signers \union {None}
  BY DEF KeyInv, KeyKeepsItsSeats
<1>6. Custody' \in Signers' \union {None}
  BY <1>1, <1>5
<1> QED
  BY <1>1, <1>2, <1>3, <1>4, <1>6

LEMMA KeyStep == KeyInv /\ [Next]_vars => KeyInv'
<1> SUFFICES ASSUME KeyInv, [Next]_vars PROVE KeyInv'
  OBVIOUS
<1> TypeOK'
  BY TypeStep DEF KeyInv
<1>1. CASE ApplyCession
  <2>1. PendingCession' = None
    BY <1>1 DEF ApplyCession
  <2> QED
    BY <1>1, <2>1, SeatMoves DEF KeyInv, KeyKeepsItsSeats
<1>2. ASSUME NEW who \in Signers, NEW to \in Accounts, ProposeCession(who, to) PROVE KeyInv'
  BY <1>2 DEF KeyInv, KeyKeepsItsSeats, ProposeCession, seating
<1>3. ASSUME NEW who \in Signers, ApproveCession(who) PROVE KeyInv'
  <2>1. PendingCession' = [PendingCession EXCEPT !.approvals = @ \union {who}]
    BY <1>3 DEF ApproveCession
  <2>2. PendingCession \in Cession
    BY <1>3 DEF ApproveCession, KeyInv, TypeOK
  <2>3. PendingCession'.from = PendingCession.from
    BY <2>1, <2>2 DEF Cession
  <2> QED
    BY <1>3, <2>3 DEF KeyInv, KeyKeepsItsSeats, ApproveCession, seating
<1>4. ASSUME NEW who \in Signers, ApproveBurn(who) PROVE KeyInv'
  BY <1>4 DEF KeyInv, KeyKeepsItsSeats, ApproveBurn, seating, pending
<1>5. CASE UNCHANGED <<Signers, Custody, PendingCession>>
  BY <1>5 DEF KeyInv, KeyKeepsItsSeats
<1>6. ASSUME Upgrading PROVE KeyInv'
  BY <1>4, <1>5, <1>6
     DEF Upgrading, ProposeUpgrade, ApproveUpgrade, VetoUpgrade, ApplyUpgrade, seating
<1>7. ASSUME Renewing PROVE KeyInv'
  BY <1>5, <1>7
     DEF Renewing, ProposeRenewal, ApproveRenewal, CosignRenewal, ApplyRenewal, seating
<1>8. CASE OpenBlock
  BY <1>5, <1>8 DEF OpenBlock, OnInitialize, seating, pending
<1>9. CASE UNCHANGED vars
  BY <1>5, <1>9 DEF vars, multisig, seating, pending
<1> QED
  BY <1>1, <1>2, <1>3, <1>6, <1>7, <1>8, <1>9 DEF Next, Call, Ceding

(* Cessions pass seats on and never add, lose or merge one, so the bars of  *)
(* three, four and five mean what they meant at genesis.                    *)
THEOREM SeatsAreKept == Spec => []KeyKeepsItsSeats
<1>1. KeyInv => KeyKeepsItsSeats
  BY DEF KeyInv
<1> QED
  BY <1>1, KeyInit, KeyStep, PTL DEF Spec

-----------------------------------------------------------------------------
(* Renewal.  A renewal that waits for its window was due when it was        *)
(* proposed, and no other one is granted before it is.                      *)
RenewalInv ==
  /\ TypeOK
  /\ PendingRenewal # None /\ ~PendingRenewal.disaster
       => LifeEnd <= PendingRenewal.at + ObjectionWindow

LEMMA RenewalStep == RenewalInv /\ [Next]_vars => RenewalInv'
<1> SUFFICES ASSUME RenewalInv, [Next]_vars PROVE RenewalInv'
  OBVIOUS
<1> TypeOK'
  BY TypeStep DEF RenewalInv
<1>1. ASSUME NEW who \in Signers, NEW d \in BOOLEAN, ProposeRenewal(who, d) PROVE RenewalInv'
  <2>1. /\ PendingRenewal'.disaster = d /\ PendingRenewal'.at = number
        /\ ~d => number + ObjectionWindow >= LifeEnd
        /\ LifeEnd' = LifeEnd
    BY <1>1 DEF ProposeRenewal, RenewalDue, life
  <2>2. ~d => LifeEnd' <= PendingRenewal'.at + ObjectionWindow
    BY <2>1, NumbersAreNumbers DEF RenewalInv, TypeOK
  <2> QED
    BY <2>1, <2>2 DEF RenewalInv
<1>3. ASSUME NEW who \in Signers, ApproveRenewal(who) PROVE RenewalInv'
  <2>1. /\ PendingRenewal \in Renewal /\ UNCHANGED life
        /\ PendingRenewal' = [PendingRenewal EXCEPT !.approvals = @ \union {who}]
    BY <1>3 DEF ApproveRenewal, RenewalInv, TypeOK
  <2> QED
    BY <2>1, <1>3 DEF ApproveRenewal, RenewalInv, Renewal, life
<1>4. ASSUME NEW who \in Accounts, CosignRenewal(who) PROVE RenewalInv'
  <2>1. /\ PendingRenewal \in Renewal /\ UNCHANGED life
        /\ PendingRenewal' = [PendingRenewal EXCEPT !.cosigns = @ \union {who}]
    BY <1>4 DEF CosignRenewal, RenewalInv, TypeOK
  <2> QED
    BY <2>1, <1>4 DEF CosignRenewal, RenewalInv, Renewal, life
<1>5. CASE PendingRenewal' = None
  BY <1>5 DEF RenewalInv
<1>6. CASE UNCHANGED <<PendingRenewal, LifeEnd>>
  BY <1>6 DEF RenewalInv
<1>7. ASSUME NEW who \in Signers, ApproveBurn(who) PROVE RenewalInv'
  BY <1>5, <1>6, <1>7 DEF ApproveBurn, pending
<1>8. CASE ApplyRenewal
  BY <1>5, <1>8 DEF ApplyRenewal
<1>9. ASSUME Upgrading PROVE RenewalInv'
  BY <1>6, <1>7, <1>9
     DEF Upgrading, ProposeUpgrade, ApproveUpgrade, VetoUpgrade, ApplyUpgrade, life
<1>10. ASSUME Ceding PROVE RenewalInv'
  BY <1>6, <1>10 DEF Ceding, ProposeCession, ApproveCession, ApplyCession, life
<1>11. CASE OpenBlock
  BY <1>6, <1>11 DEF OpenBlock, OnInitialize, life, pending
<1>12. CASE UNCHANGED vars
  BY <1>6, <1>12 DEF vars, multisig, life, pending
<1> QED
  BY <1>1, <1>3, <1>4, <1>8, <1>9, <1>10, <1>11, <1>12 DEF Next, Call, Renewing

LEMMA LifeMoves ==
  RenewalInv /\ [Next]_vars
    => [LifeEnd' # LifeEnd /\ ~PendingRenewal.disaster => LifeEnd <= number]_vars
<1> SUFFICES ASSUME RenewalInv, [Next]_vars, LifeEnd' # LifeEnd, ~PendingRenewal.disaster
             PROVE  LifeEnd <= number
  OBVIOUS
<1>1. ApplyRenewal
  BY DEF Next, Call, Upgrading, Renewing, Ceding, OpenBlock, OnInitialize, ProposeUpgrade,
         ApproveUpgrade, VetoUpgrade, ApplyUpgrade, ApproveBurn, ProposeRenewal, ApproveRenewal,
         CosignRenewal, ProposeCession, ApproveCession, ApplyCession, vars, multisig, life
<1>2. PendingRenewal \in Renewal /\ number >= PendingRenewal.at + ObjectionWindow
  BY <1>1 DEF ApplyRenewal, Announced, RenewalInv, TypeOK
<1>3. LifeEnd <= PendingRenewal.at + ObjectionWindow
  BY <1>1 DEF ApplyRenewal, RenewalInv
<1>4. LifeEnd \in Nat /\ number \in Nat /\ PendingRenewal.at \in Nat
  BY <1>2 DEF RenewalInv, TypeOK, Renewal
<1> QED
  BY <1>2, <1>3, <1>4, NumbersAreNumbers

(* The countersigned renewal finds the key at the end of its life, however  *)
(* proposals, displacements, disaster renewals and burns interleave.        *)
THEOREM RenewedAtTheEnd == Spec => RenewalAtTheEnd
<1>1. Init => RenewalInv
  BY TypeInit DEF Init, RenewalInv
<1> QED
  BY <1>1, RenewalStep, LifeMoves, PTL DEF Spec, RenewalAtTheEnd

-----------------------------------------------------------------------------
(* Whatever was approved, vetoed, proposed again or ceded before, the code  *)
(* that lands has the live approvals its history asks for.                  *)
THEOREM CodeHadQuorum == Spec => []CodeHasQuorum
<1>1. CodeHasQuorum /\ [Next]_vars => CodeHasQuorum'
  <2> SUFFICES ASSUME CodeHasQuorum, [Next]_vars PROVE CodeHasQuorum'
    OBVIOUS
  <2>1. CASE ApplyUpgrade
    <3> DEFINE new == [code |-> PendingUpgrade.code, seats |-> Signers,
                       approved |-> PendingUpgrade.approvals,
                       vetoed |-> PendingUpgrade.code \in VetoSpent]
    <3>1. applied' = applied \union {new}
      BY <2>1 DEF ApplyUpgrade
    <3>2. Cardinality(new.approved \cap new.seats)
            >= IF new.vetoed THEN RenewalThreshold ELSE Threshold
      BY <2>1 DEF ApplyUpgrade, LiveApprovals, Required
    <3> HIDE DEF new
    <3> QED
      BY <3>1, <3>2 DEF CodeHasQuorum
  <2>2. CASE UNCHANGED applied
    BY <2>2 DEF CodeHasQuorum
  <2> QED
    BY <2>1, <2>2
       DEF Next, Call, Upgrading, Renewing, Ceding, OpenBlock, OnInitialize, ProposeUpgrade,
           ApproveUpgrade, VetoUpgrade, ApproveBurn, ProposeRenewal, ApproveRenewal,
           CosignRenewal, ApplyRenewal, ProposeCession, ApproveCession, ApplyCession, vars, multisig
<1>2. Init => CodeHasQuorum
  BY DEF Init, CodeHasQuorum
<1> QED
  BY <1>1, <1>2, PTL DEF Spec
=============================================================================
