-------------------------- MODULE Society_proofs --------------------------
(***************************************************************************)
(* The books of the market, the pacts and the commons balance, and deals    *)
(* and pacts are agreements, for any masks, limits and number of calls.     *)
(***************************************************************************)
EXTENDS Society, FiniteSetTheorems, TLAPS

-----------------------------------------------------------------------------
(* Every instance counts alike: tlapm keeps their cardinalities apart.      *)
LEMMA OneCardinality ==
  /\ \A S : Market!Cardinality(S) = Cardinality(S)
  /\ \A S : Market!Offered!Cardinality(S) = Cardinality(S)
  /\ \A S : Market!Agreed!Cardinality(S) = Cardinality(S)
  /\ \A S : Pact!Cardinality(S) = Cardinality(S)
  /\ \A S : Pact!Agreed!Cardinality(S) = Cardinality(S)
  /\ \A S : Commons!Cardinality(S) = Cardinality(S)
  /\ \A S : Commons!Board!Cardinality(S) = Cardinality(S)
<1>1. \A S : Market!Cardinality(S) = Cardinality(S)
  BY DEF Market!Cardinality, Cardinality
<1>2. \A S : Market!Offered!Cardinality(S) = Cardinality(S)
  BY DEF Market!Offered!Cardinality, Cardinality
<1>3. \A S : Market!Agreed!Cardinality(S) = Cardinality(S)
  BY DEF Market!Agreed!Cardinality, Cardinality
<1>4. \A S : Pact!Cardinality(S) = Cardinality(S)
  BY DEF Pact!Cardinality, Cardinality
<1>5. \A S : Pact!Agreed!Cardinality(S) = Cardinality(S)
  BY DEF Pact!Agreed!Cardinality, Cardinality
<1>6. \A S : Commons!Cardinality(S) = Cardinality(S)
  BY DEF Commons!Cardinality, Cardinality
<1>7. \A S : Commons!Board!Cardinality(S) = Cardinality(S)
  BY DEF Commons!Board!Cardinality, Cardinality
<1> QED
  BY <1>1, <1>2, <1>3, <1>4, <1>5, <1>6, <1>7

(* A set of ids handed out so far is finite, whatever is selected from it.  *)
LEMMA HandedOut ==
  ASSUME NEW next \in Nat, NEW ids, ids \subseteq 0..(next - 1)
  PROVE  IsFiniteSet(ids) /\ Cardinality(ids) \in Nat /\ next \notin ids
<1>1. IsFiniteSet(0..(next - 1))
  BY FS_Interval
<1>2. IsFiniteSet(ids)
  BY <1>1, FS_Subset
<1> QED
  BY <1>2, FS_CardinalityType

-----------------------------------------------------------------------------
(* The market.  Ids are handed out in order; an open deal holds one slot of *)
(* its proposer.                                                            *)
Deal == [offer : Nat, proposer : Masks, counterparty : Masks, expires : Nat, closed : BOOLEAN]
MarketTypes ==
  /\ NextDealId \in Nat /\ DOMAIN Deals \subseteq 0..(NextDealId - 1)
  /\ \A id \in DOMAIN Deals : Deals[id] \in Deal /\ Deals[id].proposer # Deals[id].counterparty
  /\ OpenDealsOf \in [Masks -> Nat]
OffersTypes ==
  /\ NextId \in Nat /\ DOMAIN Offers \subseteq 0..(NextId - 1)
  /\ \A id \in DOMAIN Offers : Offers[id] \in [author : Masks, withdrawn : BOOLEAN]
  /\ DOMAIN OffersOf = Masks
DealsInv == number \in Nat /\ MarketTypes /\ Market!DealSlots
OffersInv == OffersTypes /\ Market!Offered!Listed
(* Who has signed a deal is its proposer and, once it is closed, the other. *)
Signatures ==
  /\ DOMAIN SignedBy = DOMAIN Deals
  /\ \A id \in DOMAIN Deals :
       SignedBy[id] = IF Deals[id].closed THEN {Deals[id].proposer, Deals[id].counterparty}
                      ELSE {Deals[id].proposer}
MarketInv == DealsInv /\ OffersInv /\ Signatures

LEMMA MarketInit == Init => MarketInv
<1> SUFFICES ASSUME Init PROVE MarketInv
  OBVIOUS
<1>1. /\ number = 1 /\ NextDealId = 0 /\ DOMAIN Deals = {} /\ OpenDealsOf = [m \in Masks |-> 0]
      /\ NextId = 0 /\ DOMAIN Offers = {} /\ OffersOf = [m \in Masks |-> {}]
  BY DEF Init, Market!Init, Market!Offered!Init
<1>2. \A m \in Masks : Market!OpenDealsBy(m) = {}
  BY <1>1 DEF Market!OpenDealsBy
<1>3. Market!DealSlots
  BY <1>1, <1>2, FS_EmptySet, OneCardinality DEF Market!DealSlots
<1>4. Market!Offered!Listed
  BY <1>1 DEF Market!Offered!Listed
<1>5. Signatures
  BY <1>1 DEF Init, Market!Init, Signatures
<1> QED
  BY <1>1, <1>3, <1>4, <1>5 DEF MarketInv, DealsInv, OffersInv, MarketTypes, OffersTypes

LEMMA OffersKept ==
  ASSUME OffersInv
  PROVE  /\ \A m \in Masks : Market!Offered!Publish(m) => OffersInv'
         /\ \A m \in Masks, id \in DOMAIN Offers : Market!Offered!Withdraw(m, id) => OffersInv'
         /\ UNCHANGED <<NextId, Offers, OffersOf>> => OffersInv'
<1> USE DEF OffersInv, OffersTypes, Market!Offered!Listed
<1>1. ASSUME NEW m \in Masks, Market!Offered!Publish(m) PROVE OffersInv'
  <2>1. /\ NextId' = NextId + 1 /\ NextId \notin DOMAIN Offers
        /\ Offers' = [id \in DOMAIN Offers \union {NextId} |->
                       IF id = NextId THEN [author |-> m, withdrawn |-> FALSE] ELSE Offers[id]]
        /\ OffersOf' = [OffersOf EXCEPT ![m] = @ \union {NextId}]
    BY <1>1 DEF Market!Offered!Publish
  <2>2. OffersTypes'
    BY <2>1
  <2>3. ASSUME NEW n \in Masks
        PROVE  OffersOf'[n] = {id \in DOMAIN Offers' : Offers'[id].author = n /\ ~Offers'[id].withdrawn}
    <3>1. OffersOf[n] = {id \in DOMAIN Offers : Offers[id].author = n /\ ~Offers[id].withdrawn}
      OBVIOUS
    <3>2. OffersOf'[n] = IF n = m THEN OffersOf[n] \union {NextId} ELSE OffersOf[n]
      BY <2>1
    <3> QED BY <2>1, <3>1, <3>2
  <2> QED BY <2>2, <2>3
<1>2. ASSUME NEW m \in Masks, NEW id \in DOMAIN Offers, Market!Offered!Withdraw(m, id)
      PROVE  OffersInv'
  <2>1. /\ NextId' = NextId /\ Offers[id].author = m
        /\ Offers' = [Offers EXCEPT ![id].withdrawn = TRUE]
        /\ OffersOf' = [OffersOf EXCEPT ![m] = @ \ {id}]
    BY <1>2 DEF Market!Offered!Withdraw
  <2>2. OffersTypes'
    BY <2>1
  <2>3. ASSUME NEW n \in Masks
        PROVE  OffersOf'[n] = {i \in DOMAIN Offers' : Offers'[i].author = n /\ ~Offers'[i].withdrawn}
    <3>1. OffersOf[n] = {i \in DOMAIN Offers : Offers[i].author = n /\ ~Offers[i].withdrawn}
      OBVIOUS
    <3>2. OffersOf'[n] = IF n = m THEN OffersOf[n] \ {id} ELSE OffersOf[n]
      BY <2>1
    <3>3. /\ DOMAIN Offers' = DOMAIN Offers
          /\ \A i \in DOMAIN Offers : /\ Offers'[i].author = Offers[i].author
                                      /\ Offers'[i].withdrawn <=> i = id \/ Offers[i].withdrawn
      BY <2>1
    <3> QED BY <2>1, <3>1, <3>2, <3>3
  <2> QED BY <2>2, <2>3
<1> QED BY <1>1, <1>2

(* A deal that is proposed, closed or dropped moves the count of its        *)
(* proposer by one, and no other.                                           *)
LEMMA OpenDealsFinite ==
  ASSUME DealsInv, NEW m
  PROVE  /\ IsFiniteSet(Market!OpenDealsBy(m)) /\ Cardinality(Market!OpenDealsBy(m)) \in Nat
         /\ Market!OpenDealsBy(m) \subseteq DOMAIN Deals
<1>1. Market!OpenDealsBy(m) \subseteq DOMAIN Deals
  BY DEF Market!OpenDealsBy
<1> QED
  BY <1>1, HandedOut DEF DealsInv, MarketTypes

LEMMA SlotTaken ==
  ASSUME DealsInv, NEW p \in Masks, NEW offer \in DOMAIN Offers, NEW c \in Masks, OffersInv,
         Market!ProposeDeal(p, offer, c)
  PROVE  DealsInv'
<1> DEFINE new == [offer |-> offer, proposer |-> p, counterparty |-> c,
                   expires |-> number + DealTtl, closed |-> FALSE]
<1>1. /\ NextDealId' = NextDealId + 1 /\ number' = number /\ p # c
      /\ OpenDealsOf' = [OpenDealsOf EXCEPT ![p] = @ + 1]
      /\ Deals' = [d \in DOMAIN Deals \union {NextDealId} |->
                     IF d = NextDealId THEN new ELSE Deals[d]]
      /\ NextDealId \notin DOMAIN Deals
  BY HandedOut DEF Market!ProposeDeal, DealsInv, MarketTypes
<1>2. new \in Deal
  BY SocietyAssumption DEF Deal, DealsInv, OffersInv, OffersTypes, Market!MarketParameters
<1>3. MarketTypes'
  <2>1. NextDealId' \in Nat /\ DOMAIN Deals' \subseteq 0..(NextDealId' - 1)
    BY <1>1 DEF DealsInv, MarketTypes
  <2>2. \A id \in DOMAIN Deals' : Deals'[id] \in Deal /\ Deals'[id].proposer # Deals'[id].counterparty
    BY <1>1, <1>2 DEF DealsInv, MarketTypes
  <2>3. OpenDealsOf' \in [Masks -> Nat]
    BY <1>1 DEF DealsInv, MarketTypes
  <2> QED BY <2>1, <2>2, <2>3 DEF MarketTypes
<1>4. ASSUME NEW m \in Masks PROVE OpenDealsOf'[m] = Cardinality(Market!OpenDealsBy(m)')
  <2>1. /\ IsFiniteSet(Market!OpenDealsBy(m)) /\ NextDealId \notin Market!OpenDealsBy(m)
        /\ OpenDealsOf[m] = Cardinality(Market!OpenDealsBy(m))
    BY <1>1, OpenDealsFinite, OneCardinality DEF DealsInv, Market!DealSlots
  <2>2. Market!OpenDealsBy(m)' = IF m = p THEN Market!OpenDealsBy(m) \union {NextDealId}
                                 ELSE Market!OpenDealsBy(m)
    BY <1>1 DEF Market!OpenDealsBy
  <2>3. OpenDealsOf'[m] = IF m = p THEN OpenDealsOf[m] + 1 ELSE OpenDealsOf[m]
    BY <1>1 DEF DealsInv, MarketTypes
  <2> QED BY <2>1, <2>2, <2>3, FS_AddElement
<1> QED
  BY <1>1, <1>3, <1>4, OneCardinality DEF DealsInv, Market!DealSlots

LEMMA SlotFreed ==
  ASSUME DealsInv, NEW id \in DOMAIN Deals, ~Deals[id].closed, number' = number,
         NextDealId' = NextDealId, Market!FreeDealSlot(Deals[id].proposer),
         DOMAIN Deals' \subseteq DOMAIN Deals, DOMAIN Deals \ {id} \subseteq DOMAIN Deals',
         \A d \in DOMAIN Deals \ {id} : Deals'[d] = Deals[d],
         id \in DOMAIN Deals' => Deals'[id] = [Deals[id] EXCEPT !.closed = TRUE]
  PROVE  DealsInv'
<1> DEFINE p == Deals[id].proposer
<1>1. /\ Deals[id] \in Deal /\ p \in Masks
      /\ \A d \in DOMAIN Deals : Deals[d] \in Deal /\ Deals[d].proposer # Deals[d].counterparty
      /\ OpenDealsOf \in [Masks -> Nat]
  BY DEF DealsInv, MarketTypes, Deal
<1>2. \A m : Market!OpenDealsBy(m)' = IF m = p THEN Market!OpenDealsBy(m) \ {id}
                                      ELSE Market!OpenDealsBy(m)
  BY <1>1 DEF Market!OpenDealsBy, Deal
<1>3. ASSUME NEW m \in Masks
      PROVE  /\ OpenDealsOf'[m] = Cardinality(Market!OpenDealsBy(m)') /\ OpenDealsOf'[m] \in Nat
  <2>1. /\ IsFiniteSet(Market!OpenDealsBy(m)) /\ Cardinality(Market!OpenDealsBy(m)) \in Nat
        /\ OpenDealsOf[m] = Cardinality(Market!OpenDealsBy(m))
    BY OpenDealsFinite, OneCardinality DEF DealsInv, Market!DealSlots
  <2>2. CASE m # p
    <3>1. OpenDealsOf'[m] = OpenDealsOf[m]
      BY <1>1, <2>2 DEF Market!FreeDealSlot
    <3> QED BY <1>2, <2>1, <2>2, <3>1
  <2>3. CASE m = p
    <3>1. id \in Market!OpenDealsBy(m)
      BY <2>3 DEF Market!OpenDealsBy
    <3>2. /\ Cardinality(Market!OpenDealsBy(m) \ {id}) = Cardinality(Market!OpenDealsBy(m)) - 1
          /\ Cardinality(Market!OpenDealsBy(m)) > 0
      BY <2>1, <3>1, FS_RemoveElement, FS_EmptySet
    <3>3. OpenDealsOf'[m] = OpenDealsOf[m] - 1
      BY <1>1, <2>1, <2>3, <3>2 DEF Market!FreeDealSlot
    <3>4. Market!OpenDealsBy(m)' = Market!OpenDealsBy(m) \ {id}
      BY <1>2, <2>3
    <3>5. OpenDealsOf[m] \in Nat /\ OpenDealsOf[m] > 0
      BY <2>1, <3>2
    <3> QED BY <2>1, <3>2, <3>3, <3>4, <3>5
  <2> QED BY <2>2, <2>3
<1>4. MarketTypes'
  <2>1. OpenDealsOf' \in [Masks -> Nat]
    <3>1. OpenDealsOf' = [m \in Masks |-> OpenDealsOf'[m]]
      BY <1>1 DEF Market!FreeDealSlot
    <3> QED BY <1>3, <3>1
  <2>2. ASSUME NEW d \in DOMAIN Deals'
        PROVE  Deals'[d] \in Deal /\ Deals'[d].proposer # Deals'[d].counterparty
    <3>1. CASE d # id
      <4>1. Deals'[d] = Deals[d] /\ d \in DOMAIN Deals
        BY <3>1
      <4> QED BY <1>1, <4>1
    <3>2. CASE d = id
      <4>1. Deals'[d] = [Deals[id] EXCEPT !.closed = TRUE]
        BY <3>2
      <4>2. Deals[id] \in Deal /\ Deals[id].proposer # Deals[id].counterparty
        BY <1>1
      <4> QED BY <4>1, <4>2 DEF Deal
    <3> QED BY <3>1, <3>2
  <2> QED BY <2>1, <2>2 DEF DealsInv, MarketTypes
<1> QED
  BY <1>3, <1>4, OneCardinality DEF DealsInv, Market!DealSlots

LEMMA MarketStep ==
  ASSUME MarketInv, Market!Next
  PROVE  MarketInv'
<1>1. ASSUME NEW m \in Masks,
             \/ Market!PublishOffer(m)
             \/ \E id \in DOMAIN Offers : Market!WithdrawOffer(m, id)
      PROVE  MarketInv'
  <2>1. UNCHANGED <<number, NextDealId, Deals, OpenDealsOf, SignedBy>>
    BY <1>1 DEF Market!PublishOffer, Market!WithdrawOffer, Market!deals
  <2>2. DealsInv'
    BY <2>1, OneCardinality
       DEF MarketInv, DealsInv, MarketTypes, Market!DealSlots, Market!OpenDealsBy
  <2>3. OffersInv'
    BY <1>1, OffersKept DEF MarketInv, Market!PublishOffer, Market!WithdrawOffer
  <2>4. Signatures'
    BY <2>1 DEF MarketInv, Signatures
  <2> QED BY <2>2, <2>3, <2>4 DEF MarketInv
<1>2. ASSUME NEW p \in Masks, NEW c \in Masks, NEW id \in DOMAIN Offers,
             Market!ProposeDeal(p, id, c)
      PROVE  MarketInv'
  <2>1. DealsInv'
    BY <1>2, SlotTaken DEF MarketInv
  <2>2. OffersInv'
    BY <1>2, OffersKept DEF MarketInv, Market!ProposeDeal, Market!offers
  <2>3. Signatures'
    <3>1. NextDealId \notin DOMAIN Deals
      BY HandedOut DEF MarketInv, DealsInv, MarketTypes
    <3> QED
      BY <1>2, <3>1 DEF Market!ProposeDeal, MarketInv, Signatures
  <2> QED BY <2>1, <2>2, <2>3 DEF MarketInv
<1>3. ASSUME NEW id \in DOMAIN Deals,
             \/ Market!ReapDeal(id)
             \/ \E m \in Masks : Market!ConfirmDeal(m, id) \/ Market!CancelDeal(m, id)
      PROVE  MarketInv'
  <2>1. /\ ~Deals[id].closed /\ UNCHANGED <<number, NextDealId, NextId, Offers, OffersOf>>
        /\ Market!FreeDealSlot(Deals[id].proposer)
        /\ \/ /\ Deals' = [Deals EXCEPT ![id].closed = TRUE]
              /\ SignedBy' = [SignedBy EXCEPT ![id] = @ \union {Deals[id].counterparty}]
           \/ /\ Deals' = [d \in DOMAIN Deals \ {id} |-> Deals[d]]
              /\ SignedBy' = [d \in DOMAIN SignedBy \ {id} |-> SignedBy[d]]
    BY <1>3 DEF Market!ReapDeal, Market!ConfirmDeal, Market!Close, Market!CancelDeal,
                Market!RemoveDeal, Market!offers
  <2>2. /\ DOMAIN Deals' \subseteq DOMAIN Deals /\ DOMAIN Deals \ {id} \subseteq DOMAIN Deals'
        /\ \A d \in DOMAIN Deals \ {id} : Deals'[d] = Deals[d]
        /\ id \in DOMAIN Deals' => Deals'[id] = [Deals[id] EXCEPT !.closed = TRUE]
    BY <2>1
  <2>3. DealsInv'
    BY <2>1, <2>2, SlotFreed DEF MarketInv
  <2>4. OffersInv'
    BY <2>1, OffersKept DEF MarketInv
  <2>5. Signatures'
    <3>1. Signatures /\ \A d \in DOMAIN Deals : Deals[d] \in Deal
      BY DEF MarketInv, DealsInv, MarketTypes
    <3>2. CASE /\ Deals' = [Deals EXCEPT ![id].closed = TRUE]
               /\ SignedBy' = [SignedBy EXCEPT ![id] = @ \union {Deals[id].counterparty}]
      <4>1. /\ DOMAIN SignedBy' = DOMAIN Deals' /\ DOMAIN Deals' = DOMAIN Deals
            /\ \A d \in DOMAIN Deals : d # id => Deals'[d] = Deals[d] /\ SignedBy'[d] = SignedBy[d]
            /\ Deals'[id].closed = TRUE /\ Deals'[id].proposer = Deals[id].proposer
            /\ Deals'[id].counterparty = Deals[id].counterparty
            /\ SignedBy'[id] = {Deals[id].proposer, Deals[id].counterparty}
        BY <2>1, <3>1, <3>2 DEF Signatures, Deal
      <4> QED BY <3>1, <4>1 DEF Signatures
    <3>3. CASE /\ Deals' = [d \in DOMAIN Deals \ {id} |-> Deals[d]]
               /\ SignedBy' = [d \in DOMAIN SignedBy \ {id} |-> SignedBy[d]]
      BY <3>1, <3>3 DEF Signatures
    <3> QED BY <2>1, <3>2, <3>3
  <2> QED BY <2>3, <2>4, <2>5 DEF MarketInv
<1> QED
  BY <1>1, <1>2, <1>3 DEF Market!Next

-----------------------------------------------------------------------------
(* The pacts.  An unfinished pact holds one slot of its proposer; it is     *)
(* completed exactly when everyone has signed.                              *)
Pledge(p) ==
  /\ p \in [proposer : Masks, parties : SUBSET Masks, signed : SUBSET Masks, expires : Nat,
            completed : BOOLEAN]
  /\ p.proposer \in p.signed /\ p.signed \subseteq p.parties /\ Cardinality(p.parties) >= 2
  /\ p.completed <=> p.signed = p.parties
PactTypes ==
  /\ NextPactId \in Nat /\ DOMAIN Pacts \subseteq 0..(NextPactId - 1)
  /\ \A id \in DOMAIN Pacts : Pledge(Pacts[id])
  /\ OpenOf \in [Masks -> Nat]
PactsInv == number \in Nat /\ PactTypes /\ Pact!PactSlots

LEMMA PactsInit == Init => PactsInv
<1> SUFFICES ASSUME Init PROVE PactsInv
  OBVIOUS
<1>1. number = 1 /\ NextPactId = 0 /\ DOMAIN Pacts = {} /\ OpenOf = [m \in Masks |-> 0]
  BY DEF Init, Pact!Init
<1>2. \A m \in Masks : Pact!OpenPactsBy(m) = {}
  BY <1>1 DEF Pact!OpenPactsBy
<1> QED
  BY <1>1, <1>2, FS_EmptySet, OneCardinality DEF PactsInv, PactTypes, Pact!PactSlots

(* As many signatures as parties are the signatures of all.                 *)
LEMMA AllSigned ==
  ASSUME NEW parties \in SUBSET Masks, NEW signed \in SUBSET parties
  PROVE  /\ IsFiniteSet(parties) /\ IsFiniteSet(signed)
         /\ Pact!Complete(signed, parties) <=> signed = parties
<1>1. IsFiniteSet(parties)
  BY SocietyAssumption, FS_Subset
<1> QED
  BY <1>1, FS_Subset, OneCardinality DEF Pact!Complete

LEMMA OpenPactsFinite ==
  ASSUME PactsInv, NEW m
  PROVE  /\ IsFiniteSet(Pact!OpenPactsBy(m)) /\ Cardinality(Pact!OpenPactsBy(m)) \in Nat
         /\ Pact!OpenPactsBy(m) \subseteq DOMAIN Pacts
<1>1. Pact!OpenPactsBy(m) \subseteq DOMAIN Pacts
  BY DEF Pact!OpenPactsBy
<1> QED
  BY <1>1, HandedOut DEF PactsInv, PactTypes

LEMMA PactProposed ==
  ASSUME PactsInv, NEW who \in Masks, NEW parties \in SUBSET Masks, NEW ttl \in 1..MaxPactTtl,
         Pact!Propose(who, parties, ttl)
  PROVE  PactsInv'
<1> DEFINE new == [proposer |-> who, parties |-> parties, signed |-> {who},
                   expires |-> number + ttl, completed |-> FALSE]
<1>1. /\ NextPactId' = NextPactId + 1 /\ number' = number
      /\ OpenOf' = [OpenOf EXCEPT ![who] = @ + 1]
      /\ Pacts' = [p \in DOMAIN Pacts \union {NextPactId} |->
                     IF p = NextPactId THEN new ELSE Pacts[p]]
      /\ NextPactId \notin DOMAIN Pacts
  BY HandedOut DEF Pact!Propose, PactsInv, PactTypes
<1>2. Pledge(new)
  <2>1. who \in parties /\ Cardinality(parties) >= 2
    BY SocietyAssumption, OneCardinality DEF Pact!Propose, Pact!PactsParameters
  <2>2. {who} # parties
    <3>1. Cardinality({who}) = 1
      BY FS_Singleton
    <3> QED BY <2>1, <3>1
  <2>3. number + ttl \in Nat
    BY DEF PactsInv
  <2> QED BY <2>1, <2>2, <2>3 DEF Pledge
<1>3. PactTypes'
  <2>1. NextPactId' \in Nat /\ DOMAIN Pacts' \subseteq 0..(NextPactId' - 1)
    BY <1>1 DEF PactsInv, PactTypes
  <2>2. \A id \in DOMAIN Pacts' : Pledge(Pacts'[id])
    BY <1>1, <1>2 DEF PactsInv, PactTypes
  <2>3. OpenOf' \in [Masks -> Nat]
    BY <1>1 DEF PactsInv, PactTypes
  <2> QED BY <2>1, <2>2, <2>3 DEF PactTypes
<1>4. ASSUME NEW m \in Masks PROVE OpenOf'[m] = Cardinality(Pact!OpenPactsBy(m)')
  <2>1. /\ IsFiniteSet(Pact!OpenPactsBy(m)) /\ NextPactId \notin Pact!OpenPactsBy(m)
        /\ OpenOf[m] = Cardinality(Pact!OpenPactsBy(m))
    BY <1>1, OpenPactsFinite, OneCardinality DEF PactsInv, Pact!PactSlots
  <2>2. Pact!OpenPactsBy(m)' = IF m = who THEN Pact!OpenPactsBy(m) \union {NextPactId}
                               ELSE Pact!OpenPactsBy(m)
    BY <1>1 DEF Pact!OpenPactsBy
  <2>3. OpenOf'[m] = IF m = who THEN OpenOf[m] + 1 ELSE OpenOf[m]
    BY <1>1 DEF PactsInv, PactTypes
  <2> QED BY <2>1, <2>2, <2>3, FS_AddElement
<1> QED
  BY <1>1, <1>3, <1>4, OneCardinality DEF PactsInv, Pact!PactSlots

(* A pact that leaves the open ones, completed or dropped.                  *)
LEMMA PactClosed ==
  ASSUME PactsInv, NEW id \in DOMAIN Pacts, ~Pacts[id].completed, number' = number,
         NextPactId' = NextPactId, Pact!CloseOpenSlot(Pacts[id].proposer),
         DOMAIN Pacts' \subseteq DOMAIN Pacts, DOMAIN Pacts \ {id} \subseteq DOMAIN Pacts',
         \A p \in DOMAIN Pacts \ {id} : Pacts'[p] = Pacts[p],
         id \in DOMAIN Pacts' => Pledge(Pacts'[id]) /\ Pacts'[id].completed
  PROVE  PactsInv'
<1> DEFINE who == Pacts[id].proposer
<1>1. who \in Masks /\ OpenOf \in [Masks -> Nat] /\ \A p \in DOMAIN Pacts : Pledge(Pacts[p])
  BY DEF PactsInv, PactTypes, Pledge
<1>2. \A m : Pact!OpenPactsBy(m)' = IF m = who THEN Pact!OpenPactsBy(m) \ {id}
                                    ELSE Pact!OpenPactsBy(m)
  BY <1>1 DEF Pact!OpenPactsBy
<1>3. ASSUME NEW m \in Masks
      PROVE  OpenOf'[m] = Cardinality(Pact!OpenPactsBy(m)') /\ OpenOf'[m] \in Nat
  <2>1. /\ IsFiniteSet(Pact!OpenPactsBy(m)) /\ Cardinality(Pact!OpenPactsBy(m)) \in Nat
        /\ OpenOf[m] = Cardinality(Pact!OpenPactsBy(m))
    BY OpenPactsFinite, OneCardinality DEF PactsInv, Pact!PactSlots
  <2>2. CASE m # who
    <3>1. OpenOf'[m] = OpenOf[m]
      BY <1>1, <2>2 DEF Pact!CloseOpenSlot
    <3> QED BY <1>2, <2>1, <2>2, <3>1
  <2>3. CASE m = who
    <3>1. id \in Pact!OpenPactsBy(m)
      BY <2>3 DEF Pact!OpenPactsBy
    <3>2. /\ Cardinality(Pact!OpenPactsBy(m) \ {id}) = Cardinality(Pact!OpenPactsBy(m)) - 1
          /\ Cardinality(Pact!OpenPactsBy(m)) > 0
      BY <2>1, <3>1, FS_RemoveElement, FS_EmptySet
    <3>3. OpenOf'[m] = OpenOf[m] - 1
      BY <1>1, <2>1, <2>3, <3>2 DEF Pact!CloseOpenSlot
    <3>4. Pact!OpenPactsBy(m)' = Pact!OpenPactsBy(m) \ {id}
      BY <1>2, <2>3
    <3>5. OpenOf[m] \in Nat /\ OpenOf[m] > 0
      BY <2>1, <3>2
    <3> QED BY <2>1, <3>2, <3>3, <3>4, <3>5
  <2> QED BY <2>2, <2>3
<1>4. PactTypes'
  <2>1. OpenOf' \in [Masks -> Nat]
    <3>1. OpenOf' = [m \in Masks |-> OpenOf'[m]]
      BY <1>1 DEF Pact!CloseOpenSlot
    <3> QED BY <1>3, <3>1
  <2>2. \A p \in DOMAIN Pacts' : Pledge(Pacts'[p])
    BY <1>1
  <2> QED BY <2>1, <2>2 DEF PactsInv, PactTypes
<1> QED
  BY <1>3, <1>4, OneCardinality DEF PactsInv, Pact!PactSlots

LEMMA PactSigned ==
  ASSUME PactsInv, NEW who \in Masks, NEW id \in DOMAIN Pacts, Pact!Sign(who, id)
  PROVE  /\ PactsInv'
         /\ DOMAIN Pacts' = DOMAIN Pacts /\ \A p \in DOMAIN Pacts \ {id} : Pacts'[p] = Pacts[p]
         /\ Pledge(Pacts'[id]) /\ ~Pacts[id].completed
         /\ who \in Pacts[id].parties \ Pacts[id].signed
         /\ Pacts'[id] = [Pacts[id] EXCEPT !.signed = @ \union {who}, !.completed = Pacts'[id].completed]
<1> DEFINE p == Pacts[id]
           all == p.signed \union {who}
<1>1. /\ ~p.completed /\ who \in p.parties \ p.signed /\ number' = number /\ NextPactId' = NextPactId
      /\ Pacts' = [Pacts EXCEPT ![id].signed = all, ![id].completed = Pact!Complete(all, p.parties)]
      /\ IF Pact!Complete(all, p.parties) THEN Pact!CloseOpenSlot(p.proposer) ELSE OpenOf' = OpenOf
  BY DEF Pact!Sign
<1>2. Pledge(p)
  BY DEF PactsInv, PactTypes
<1>3. Pact!Complete(all, p.parties) \in BOOLEAN /\ (Pact!Complete(all, p.parties) <=> all = p.parties)
  <2>1. p.parties \in SUBSET Masks /\ all \in SUBSET p.parties
    BY <1>1, <1>2 DEF Pledge
  <2>2. Pact!Complete(all, p.parties) <=> all = p.parties
    BY <2>1, AllSigned
  <2> QED BY <2>2 DEF Pact!Complete
<1>4. /\ DOMAIN Pacts' = DOMAIN Pacts /\ \A i \in DOMAIN Pacts \ {id} : Pacts'[i] = Pacts[i]
      /\ Pacts'[id] = [p EXCEPT !.signed = all, !.completed = Pact!Complete(all, p.parties)]
  BY <1>1
<1>5. /\ Pledge(Pacts'[id]) /\ Pacts'[id].proposer = p.proposer
      /\ Pacts'[id].completed <=> Pact!Complete(all, p.parties)
      /\ Pacts'[id] = [p EXCEPT !.signed = all, !.completed = Pacts'[id].completed]
  BY <1>1, <1>2, <1>3, <1>4 DEF Pledge
<1>6. CASE Pact!Complete(all, p.parties)
  BY <1>1, <1>4, <1>5, <1>6, PactClosed
<1>7. CASE ~Pact!Complete(all, p.parties)
  <2>1. OpenOf' = OpenOf
    BY <1>1, <1>7
  <2>2. \A m : Pact!OpenPactsBy(m)' = Pact!OpenPactsBy(m)
    BY <1>1, <1>4, <1>5, <1>7 DEF Pact!OpenPactsBy
  <2>3. PactTypes'
    BY <1>1, <1>4, <1>5, <2>1 DEF PactsInv, PactTypes
  <2>4. PactsInv'
    BY <1>1, <2>1, <2>2, <2>3, OneCardinality DEF PactsInv, Pact!PactSlots
  <2> QED BY <1>1, <1>4, <1>5, <2>4
<1> QED
  BY <1>6, <1>7

LEMMA PactsStep ==
  ASSUME PactsInv, Pact!Next
  PROVE  PactsInv'
<1>1. ASSUME NEW who \in Masks, NEW id \in DOMAIN Pacts, Pact!Sign(who, id) PROVE PactsInv'
  BY <1>1, PactSigned
<1>2. ASSUME NEW id \in DOMAIN Pacts,
             Pact!Reap(id) \/ \E who \in Masks : Pact!Withdraw(who, id)
      PROVE  PactsInv'
  <2>1. /\ ~Pacts[id].completed /\ UNCHANGED <<number, NextPactId>>
        /\ Pact!CloseOpenSlot(Pacts[id].proposer)
        /\ Pacts' = [p \in DOMAIN Pacts \ {id} |-> Pacts[p]]
    BY <1>2 DEF Pact!Reap, Pact!Withdraw, Pact!RemovePact
  <2>2. /\ DOMAIN Pacts' \subseteq DOMAIN Pacts /\ DOMAIN Pacts \ {id} \subseteq DOMAIN Pacts'
        /\ \A p \in DOMAIN Pacts \ {id} : Pacts'[p] = Pacts[p] /\ id \notin DOMAIN Pacts'
    BY <2>1
  <2> QED BY <2>1, <2>2, PactClosed
<1>3. ASSUME NEW key \in Keys, Pact!Seal(key) PROVE PactsInv'
  BY <1>3, OneCardinality
     DEF Pact!Seal, PactsInv, PactTypes, Pact!PactSlots, Pact!OpenPactsBy
<1> QED
  BY <1>1, <1>2, <1>3, PactProposed DEF Pact!Next

-----------------------------------------------------------------------------
(* The commons.  Handles are counted as their holders are; a reply stands   *)
(* under a post that is there.                                              *)
DirectoryInv == DOMAIN HandleOf \subseteq Masks /\ Commons!Named
ForumTypes ==
  /\ NextPostId \in Nat /\ DOMAIN Posts \subseteq 0..(NextPostId - 1)
  /\ DOMAIN Depth = DOMAIN Posts
  /\ \A id \in DOMAIN Posts : /\ Depth[id] \in Nat
                              /\ Posts[id] # None => Posts[id] \in DOMAIN Posts
ForumInv == ForumTypes /\ Commons!Threaded
NewsTypes ==
  /\ NextNewsId \in Nat /\ DOMAIN News \subseteq 0..(NextNewsId - 1)
  /\ \A id \in DOMAIN News : News[id] \in [author : Masks, withdrawn : BOOLEAN]
  /\ DOMAIN NewsOf = Masks
NewsInv == NewsTypes /\ Commons!Board!Listed
CommonsInv == DirectoryInv /\ ForumInv /\ NewsInv

LEMMA CommonsInit == Init => CommonsInv
<1> SUFFICES ASSUME Init PROVE CommonsInv
  OBVIOUS
<1>1. /\ DOMAIN HandleOf = {} /\ DOMAIN OwnerOf = {} /\ MaskCount = 0
      /\ NextPostId = 0 /\ DOMAIN Posts = {} /\ DOMAIN Depth = {}
      /\ NextNewsId = 0 /\ DOMAIN News = {} /\ NewsOf = [m \in Masks |-> {}]
  BY DEF Init, Commons!Init, Commons!Board!Init
<1>2. DirectoryInv
  BY <1>1, FS_EmptySet, OneCardinality DEF DirectoryInv, Commons!Named
<1>3. ForumInv
  BY <1>1 DEF ForumInv, ForumTypes, Commons!Threaded
<1>4. NewsInv
  BY <1>1 DEF NewsInv, NewsTypes, Commons!Board!Listed
<1> QED
  BY <1>2, <1>3, <1>4 DEF CommonsInv

LEMMA DirectoryKept ==
  ASSUME DirectoryInv, NEW who \in Masks
  PROVE  /\ Commons!Register(who) => DirectoryInv'
         /\ Commons!Deregister(who) => DirectoryInv'
<1>1. /\ IsFiniteSet(DOMAIN HandleOf) /\ MaskCount = Cardinality(DOMAIN HandleOf)
      /\ MaskCount \in Nat /\ DOMAIN HandleOf \subseteq Masks
      /\ DOMAIN OwnerOf = {HandleOf[m] : m \in DOMAIN HandleOf}
      /\ \A m \in DOMAIN HandleOf : OwnerOf[HandleOf[m]] = m
  BY SocietyAssumption, FS_Subset, FS_CardinalityType, OneCardinality
     DEF DirectoryInv, Commons!Named
<1>2. ASSUME Commons!Register(who) PROVE DirectoryInv'
  <2>1. /\ who \notin DOMAIN HandleOf /\ Handle[who] \notin DOMAIN OwnerOf
        /\ MaskCount' = MaskCount + 1
        /\ DOMAIN HandleOf' = DOMAIN HandleOf \union {who} /\ HandleOf'[who] = Handle[who]
        /\ \A m \in DOMAIN HandleOf : HandleOf'[m] = HandleOf[m]
        /\ DOMAIN OwnerOf' = DOMAIN OwnerOf \union {Handle[who]} /\ OwnerOf'[Handle[who]] = who
        /\ \A h \in DOMAIN OwnerOf : OwnerOf'[h] = OwnerOf[h]
    BY <1>2 DEF Commons!Register, Commons!Extended
  <2>2. MaskCount' = Cardinality(DOMAIN HandleOf')
    BY <1>1, <2>1, FS_AddElement
  <2>3. DOMAIN OwnerOf' = {HandleOf'[m] : m \in DOMAIN HandleOf'}
    BY <1>1, <2>1
  <2>4. \A m \in DOMAIN HandleOf' : OwnerOf'[HandleOf'[m]] = m
    BY <1>1, <2>1
  <2> QED BY <1>1, <2>1, <2>2, <2>3, <2>4, OneCardinality DEF DirectoryInv, Commons!Named
<1>3. ASSUME Commons!Deregister(who) PROVE DirectoryInv'
  <2>1. /\ who \in DOMAIN HandleOf
        /\ MaskCount' = IF MaskCount > 0 THEN MaskCount - 1 ELSE 0
        /\ DOMAIN HandleOf' = DOMAIN HandleOf \ {who}
        /\ \A m \in DOMAIN HandleOf' : HandleOf'[m] = HandleOf[m]
        /\ DOMAIN OwnerOf' = DOMAIN OwnerOf \ {HandleOf[who]}
        /\ \A h \in DOMAIN OwnerOf' : OwnerOf'[h] = OwnerOf[h]
    BY <1>3 DEF Commons!Deregister, Commons!Without
  <2>2. MaskCount' = Cardinality(DOMAIN HandleOf')
    <3>1. Cardinality(DOMAIN HandleOf \ {who}) = Cardinality(DOMAIN HandleOf) - 1
      BY <1>1, <2>1, FS_RemoveElement
    <3>2. MaskCount > 0
      BY <1>1, <2>1, FS_EmptySet
    <3> QED BY <1>1, <2>1, <3>1, <3>2
  <2>3. \A m \in DOMAIN HandleOf' : HandleOf'[m] # HandleOf[who]
    BY <1>1, <2>1
  <2>4. DOMAIN OwnerOf' = {HandleOf'[m] : m \in DOMAIN HandleOf'}
    BY <1>1, <2>1, <2>3
  <2>5. \A m \in DOMAIN HandleOf' : OwnerOf'[HandleOf'[m]] = m
    BY <1>1, <2>1, <2>4
  <2> QED BY <1>1, <2>1, <2>2, <2>4, <2>5, OneCardinality DEF DirectoryInv, Commons!Named
<1> QED BY <1>2, <1>3

LEMMA ForumKept ==
  ASSUME ForumInv, NEW parent \in DOMAIN Posts \union {None}, Commons!Post(parent)
  PROVE  ForumInv'
<1> DEFINE depth == IF parent = None THEN 0 ELSE Depth[parent] + 1
<1>1. /\ parent # None => parent \in DOMAIN Posts /\ depth <= MaxThreadDepth
      /\ NextPostId' = NextPostId + 1
      /\ DOMAIN Posts' = DOMAIN Posts \union {NextPostId} /\ Posts'[NextPostId] = parent
      /\ DOMAIN Depth' = DOMAIN Depth \union {NextPostId} /\ Depth'[NextPostId] = depth
      /\ \A id \in DOMAIN Posts \ {NextPostId} : Posts'[id] = Posts[id]
      /\ \A id \in DOMAIN Depth \ {NextPostId} : Depth'[id] = Depth[id]
  BY DEF Commons!Post, Commons!Extended
<1>2. NextPostId \notin DOMAIN Posts /\ NextPostId \in Nat /\ DOMAIN Depth = DOMAIN Posts
  BY DEF ForumInv, ForumTypes
<1>3. depth \in Nat /\ depth <= MaxThreadDepth
  BY <1>1, SocietyAssumption DEF ForumInv, ForumTypes, Commons!ForumParameters
<1>4. ForumTypes'
  BY <1>1, <1>2, <1>3 DEF ForumInv, ForumTypes
<1>5. ASSUME NEW id \in DOMAIN Posts'
      PROVE  /\ Depth'[id] <= MaxThreadDepth
             /\ Posts'[id] # None => Posts'[id] < id /\ Depth'[id] = Depth'[Posts'[id]] + 1
  <2>1. CASE id = NextPostId
    <3>1. ASSUME parent # None
          PROVE  parent < NextPostId /\ Depth'[parent] = Depth[parent]
      BY <1>1, <1>2, <3>1 DEF ForumInv, ForumTypes
    <3> QED BY <1>1, <1>3, <2>1, <3>1
  <2>2. CASE id # NextPostId
    <3>1. id \in DOMAIN Posts /\ Posts'[id] = Posts[id] /\ Depth'[id] = Depth[id]
      BY <1>1, <1>2, <2>2
    <3>2. ASSUME Posts[id] # None PROVE Depth'[Posts[id]] = Depth[Posts[id]]
      BY <1>1, <1>2, <3>1, <3>2 DEF ForumInv, ForumTypes
    <3> QED BY <3>1, <3>2 DEF ForumInv, Commons!Threaded
  <2> QED BY <2>1, <2>2
<1> QED
  BY <1>4, <1>5 DEF ForumInv, Commons!Threaded

LEMMA NewsKept ==
  ASSUME NewsInv
  PROVE  /\ \A m \in Masks : Commons!Board!Publish(m) => NewsInv'
         /\ \A m \in Masks, id \in DOMAIN News : Commons!Board!Withdraw(m, id) => NewsInv'
         /\ UNCHANGED <<NextNewsId, News, NewsOf>> => NewsInv'
<1> USE DEF NewsInv, NewsTypes, Commons!Board!Listed
<1>1. ASSUME NEW m \in Masks, Commons!Board!Publish(m) PROVE NewsInv'
  <2>1. /\ NextNewsId' = NextNewsId + 1 /\ NextNewsId \notin DOMAIN News
        /\ News' = [id \in DOMAIN News \union {NextNewsId} |->
                      IF id = NextNewsId THEN [author |-> m, withdrawn |-> FALSE] ELSE News[id]]
        /\ NewsOf' = [NewsOf EXCEPT ![m] = @ \union {NextNewsId}]
    BY <1>1 DEF Commons!Board!Publish
  <2>2. NewsTypes'
    BY <2>1
  <2>3. ASSUME NEW n \in Masks
        PROVE  NewsOf'[n] = {id \in DOMAIN News' : News'[id].author = n /\ ~News'[id].withdrawn}
    <3>1. NewsOf[n] = {id \in DOMAIN News : News[id].author = n /\ ~News[id].withdrawn}
      OBVIOUS
    <3>2. NewsOf'[n] = IF n = m THEN NewsOf[n] \union {NextNewsId} ELSE NewsOf[n]
      BY <2>1
    <3> QED BY <2>1, <3>1, <3>2
  <2> QED BY <2>2, <2>3
<1>2. ASSUME NEW m \in Masks, NEW id \in DOMAIN News, Commons!Board!Withdraw(m, id)
      PROVE  NewsInv'
  <2>1. /\ NextNewsId' = NextNewsId /\ News[id].author = m
        /\ News' = [News EXCEPT ![id].withdrawn = TRUE]
        /\ NewsOf' = [NewsOf EXCEPT ![m] = @ \ {id}]
    BY <1>2 DEF Commons!Board!Withdraw
  <2>2. NewsTypes'
    BY <2>1
  <2>3. ASSUME NEW n \in Masks
        PROVE  NewsOf'[n] = {i \in DOMAIN News' : News'[i].author = n /\ ~News'[i].withdrawn}
    <3>1. NewsOf[n] = {i \in DOMAIN News : News[i].author = n /\ ~News[i].withdrawn}
      OBVIOUS
    <3>2. NewsOf'[n] = IF n = m THEN NewsOf[n] \ {id} ELSE NewsOf[n]
      BY <2>1
    <3>3. /\ DOMAIN News' = DOMAIN News
          /\ \A i \in DOMAIN News : /\ News'[i].author = News[i].author
                                    /\ News'[i].withdrawn <=> i = id \/ News[i].withdrawn
      BY <2>1
    <3> QED BY <2>1, <3>1, <3>2, <3>3
  <2> QED BY <2>2, <2>3
<1> QED BY <1>1, <1>2

LEMMA CommonsStep ==
  ASSUME CommonsInv, Commons!Next
  PROVE  CommonsInv'
<1> USE DEF CommonsInv, Commons!directory, Commons!forum, Commons!news
<1>1. UNCHANGED Commons!directory => DirectoryInv'
  BY OneCardinality DEF DirectoryInv, Commons!Named
<1>2. UNCHANGED Commons!forum => ForumInv'
  BY DEF ForumInv, ForumTypes, Commons!Threaded
<1>3. UNCHANGED Commons!news => NewsInv'
  BY NewsKept
<1>4. ASSUME NEW m \in Masks, Commons!Register(m) \/ Commons!Deregister(m) PROVE CommonsInv'
  BY <1>2, <1>3, <1>4, DirectoryKept DEF Commons!Register, Commons!Deregister
<1>5. ASSUME NEW m \in Masks,
             \/ Commons!PublishNews(m)
             \/ \E id \in DOMAIN News : Commons!WithdrawNews(m, id)
      PROVE  CommonsInv'
  BY <1>1, <1>2, <1>5, NewsKept DEF Commons!PublishNews, Commons!WithdrawNews
<1>6. ASSUME NEW parent \in DOMAIN Posts \union {None}, Commons!Post(parent) PROVE CommonsInv'
  BY <1>1, <1>3, <1>6, ForumKept DEF Commons!Post
<1> QED
  BY <1>4, <1>5, <1>6 DEF Commons!Next

-----------------------------------------------------------------------------
Books == MarketInv /\ PactsInv /\ CommonsInv

LEMMA BooksInit == Init => Books
  BY MarketInit, PactsInit, CommonsInit DEF Books

LEMMA BooksStep == Books /\ [Next]_vars => Books'
<1> SUFFICES ASSUME Books, [Next]_vars PROVE Books'
  OBVIOUS
<1>1. ASSUME UNCHANGED market, number' \in Nat PROVE MarketInv'
  <2>1. DealsInv'
    BY <1>1, OneCardinality
       DEF market, Books, MarketInv, DealsInv, MarketTypes, Market!DealSlots, Market!OpenDealsBy
  <2>2. OffersInv'
    BY <1>1, OffersKept DEF market, Books, MarketInv
  <2>3. Signatures'
    BY <1>1 DEF market, Books, MarketInv, Signatures
  <2> QED BY <2>1, <2>2, <2>3 DEF MarketInv
<1>2. ASSUME UNCHANGED pacts, number' \in Nat PROVE PactsInv'
  BY <1>2, OneCardinality DEF pacts, Books, PactsInv, PactTypes, Pact!PactSlots, Pact!OpenPactsBy
<1>3. ASSUME UNCHANGED commons PROVE CommonsInv'
  <2>1. DirectoryInv'
    BY <1>3, OneCardinality DEF commons, Books, CommonsInv, DirectoryInv, Commons!Named
  <2>2. ForumInv'
    BY <1>3 DEF commons, Books, CommonsInv, ForumInv, ForumTypes, Commons!Threaded
  <2>3. NewsInv'
    BY <1>3, NewsKept DEF commons, Books, CommonsInv
  <2> QED BY <2>1, <2>2, <2>3 DEF CommonsInv
<1>4. number \in Nat /\ number + 1 \in Nat
  BY DEF Books, MarketInv, DealsInv
<1>5. CASE NewBlock \/ UNCHANGED vars
  BY <1>1, <1>2, <1>3, <1>4, <1>5 DEF NewBlock, vars, Books
<1>6. CASE Market!Next /\ UNCHANGED <<pacts, commons>>
  <2>1. MarketInv' /\ number' \in Nat
    BY <1>6, MarketStep DEF Books, MarketInv, DealsInv
  <2> QED BY <1>2, <1>3, <1>6, <2>1 DEF Books
<1>7. CASE Pact!Next /\ UNCHANGED <<market, commons>>
  <2>1. PactsInv' /\ number' \in Nat
    BY <1>7, PactsStep DEF Books, PactsInv
  <2> QED BY <1>1, <1>3, <1>7, <2>1 DEF Books
<1>8. CASE Commons!Next /\ UNCHANGED <<number, market, pacts>>
  BY <1>1, <1>2, <1>4, <1>8, CommonsStep DEF Books
<1> QED
  BY <1>5, <1>6, <1>7, <1>8 DEF Next

(* Every list and counter says what is in the store.                        *)
THEOREM BooksAlwaysBalance == Spec => []BooksBalance
<1>1. Books => BooksBalance
  BY DEF Books, BooksBalance, MarketInv, DealsInv, OffersInv, PactsInv, CommonsInv, DirectoryInv,
         ForumInv, NewsInv
<1> QED
  BY <1>1, BooksInit, BooksStep, PTL DEF Spec

-----------------------------------------------------------------------------
(* Deals implement agreements.                                              *)
DealAgreements == [id \in DOMAIN Deals |-> Market!AsAgreement(Deals[id], SignedBy[id])]

LEMMA DealsOpenAlike ==
  ASSUME NEW m \in Masks
  PROVE  Market!Agreed!OpenBy(m) = Market!OpenDealsBy(m)
<1>1. \A id \in DOMAIN Deals : /\ DealAgreements[id].proposer = Deals[id].proposer
                               /\ DealAgreements[id].closed = Deals[id].closed
  BY DEF DealAgreements, Market!AsAgreement
<1>2. DOMAIN DealAgreements = DOMAIN Deals
  BY DEF DealAgreements
<1> QED
  BY <1>1, <1>2 DEF Market!Agreed!OpenBy, Market!OpenDealsBy, DealAgreements

LEMMA DealsAgreeStep ==
  ASSUME MarketInv, Market!Next
  PROVE  Market!Agreed!Next \/ UNCHANGED <<NextDealId, DealAgreements>>
<1>1. /\ \A id \in DOMAIN Deals : Deals[id] \in Deal /\ Deals[id].proposer # Deals[id].counterparty
      /\ NextDealId \notin DOMAIN Deals
  BY HandedOut DEF MarketInv, DealsInv, MarketTypes
<1>2. ASSUME NEW p \in Masks, NEW c \in Masks, NEW offer \in DOMAIN Offers,
             Market!ProposeDeal(p, offer, c)
      PROVE  Market!Agreed!Propose(p, {p, c})
  <2>1. p # c /\ NextDealId' = NextDealId + 1 /\ OpenDealsOf[p] < MaxOpenDealsPerMask
    BY <1>2 DEF Market!ProposeDeal
  <2>2. Cardinality({p, c}) = 2
    <3>1. Cardinality({p}) = 1 /\ IsFiniteSet({p}) /\ {p, c} = {p} \union {c} /\ c \notin {p}
      BY <2>1, FS_Singleton
    <3> QED BY <3>1, FS_AddElement
  <2>3. Market!Agreed!Cardinality(Market!Agreed!OpenBy(p)) < MaxOpenDealsPerMask
    BY <2>1, DealsOpenAlike, OneCardinality DEF MarketInv, DealsInv, Market!DealSlots
  <2>4. DealAgreements' = [id \in DOMAIN DealAgreements \union {NextDealId} |->
          IF id = NextDealId
          THEN [proposer |-> p, parties |-> {p, c}, consent |-> {p}, closed |-> FALSE]
          ELSE DealAgreements[id]]
    BY <1>1, <1>2 DEF Market!ProposeDeal, DealAgreements, Market!AsAgreement, MarketInv, Signatures
  <2>5. p \in {p, c} /\ Market!Agreed!Cardinality({p, c}) >= 2
    BY <2>2, OneCardinality
  <2> QED
    BY <2>1, <2>3, <2>4, <2>5, Zenon DEF Market!Agreed!Propose, DealAgreements
<1>3. ASSUME NEW id \in DOMAIN Deals, NEW m \in Masks, Market!ConfirmDeal(m, id)
      PROVE  Market!Agreed!Consent(m, id)
  <2>1. /\ Deals[id].counterparty = m /\ ~Deals[id].closed /\ NextDealId' = NextDealId
        /\ Deals' = [Deals EXCEPT ![id].closed = TRUE] /\ Deals[id] \in Deal
        /\ SignedBy' = [SignedBy EXCEPT ![id] = @ \union {m}]
        /\ Deals[id].proposer # m
    BY <1>1, <1>3 DEF Market!ConfirmDeal, Market!Close
  <2>2. DOMAIN SignedBy = DOMAIN Deals /\ SignedBy[id] = {Deals[id].proposer}
    BY <2>1 DEF MarketInv, Signatures
  <2>3. DealAgreements[id] = [proposer |-> Deals[id].proposer, parties |-> {Deals[id].proposer, m},
                              consent |-> {Deals[id].proposer}, closed |-> FALSE]
    BY <2>1, <2>2 DEF DealAgreements, Market!AsAgreement, Deal
  <2>4. /\ DOMAIN Deals' = DOMAIN Deals /\ \A d \in DOMAIN Deals \ {id} : Deals'[d] = Deals[d]
        /\ \A d \in DOMAIN Deals \ {id} : SignedBy'[d] = SignedBy[d]
        /\ Deals'[id].proposer = Deals[id].proposer /\ Deals'[id].counterparty = m
        /\ Deals'[id].closed = TRUE /\ SignedBy'[id] = {Deals[id].proposer, m}
    BY <2>1, <2>2 DEF Deal
  <2> DEFINE consent == DealAgreements[id].consent \union {m}
  <2>5. DealAgreements' = [DealAgreements EXCEPT ![id].consent = consent,
                                                 ![id].closed = (consent = DealAgreements[id].parties)]
    <3>1. /\ DealAgreements = [d \in DOMAIN Deals |-> DealAgreements[d]]
          /\ DealAgreements' = [d \in DOMAIN Deals |-> DealAgreements'[d]]
          /\ \A d \in DOMAIN Deals \ {id} : DealAgreements'[d] = DealAgreements[d]
      BY <2>4 DEF DealAgreements
    <3>2. DealAgreements'[id] = [proposer |-> Deals[id].proposer,
                                 parties |-> {Deals[id].proposer, m},
                                 consent |-> {Deals[id].proposer, m}, closed |-> TRUE]
      BY <2>4 DEF DealAgreements, Market!AsAgreement
    <3>3. consent = {Deals[id].proposer, m} /\ DealAgreements[id].parties = {Deals[id].proposer, m}
      BY <2>3
    <3>4. DealAgreements'[id] = [DealAgreements[id] EXCEPT !.consent = consent,
                                   !.closed = (consent = DealAgreements[id].parties)]
      <4> HIDE DEF consent
      <4>1. (consent = DealAgreements[id].parties) = TRUE
        BY <3>3
      <4>2. [DealAgreements[id] EXCEPT !.consent = consent, !.closed = TRUE]
              = [proposer |-> Deals[id].proposer, parties |-> {Deals[id].proposer, m},
                 consent |-> consent, closed |-> TRUE]
        <5>1. PICK z, a, b, c, d :
                 /\ z = DealAgreements[id]
                 /\ a = Deals[id].proposer /\ b = {Deals[id].proposer, m}
                 /\ c = {Deals[id].proposer} /\ d = FALSE
          OBVIOUS
        <5>2. z = [proposer |-> a, parties |-> b, consent |-> c, closed |-> d]
          BY <2>3, <5>1, Zenon
        <5> DEFINE w == [z EXCEPT !.consent = consent, !.closed = TRUE]
        <5>3. /\ DOMAIN w = {"proposer", "parties", "consent", "closed"}
              /\ w = [f \in DOMAIN w |-> w[f]]
          BY <5>2
        <5>4. /\ w["proposer"] = a /\ w["parties"] = b
              /\ w["consent"] = consent /\ w["closed"] = TRUE
          BY <5>2
        <5> HIDE DEF w
        <5>5. w = [proposer |-> a, parties |-> b, consent |-> consent, closed |-> TRUE]
          BY <5>3, <5>4
        <5> QED BY <5>1, <5>5, Zenon DEF w
      <4> QED BY <3>2, <3>3, <4>1, <4>2, Zenon
    <3> HIDE DEF DealAgreements, consent
    <3> QED BY <3>1, <3>4
  <2>6. ~DealAgreements[id].closed /\ m \in DealAgreements[id].parties \ DealAgreements[id].consent
    BY <2>1, <2>3
  <2> QED BY <2>1, <2>5, <2>6 DEF Market!Agreed!Consent, DealAgreements
<1>4. ASSUME NEW id \in DOMAIN Deals,
             Market!ReapDeal(id) \/ \E m \in Masks : Market!CancelDeal(m, id)
      PROVE  Market!Agreed!Drop(id)
  <2>1. /\ ~Deals[id].closed /\ NextDealId' = NextDealId
        /\ Deals' = [d \in DOMAIN Deals \ {id} |-> Deals[d]]
        /\ SignedBy' = [d \in DOMAIN SignedBy \ {id} |-> SignedBy[d]]
        /\ DOMAIN SignedBy = DOMAIN Deals
    BY <1>4 DEF Market!ReapDeal, Market!CancelDeal, Market!RemoveDeal, MarketInv, Signatures
  <2>2. ~DealAgreements[id].closed
    BY <2>1 DEF DealAgreements, Market!AsAgreement
  <2>3. DealAgreements' = [d \in DOMAIN DealAgreements \ {id} |-> DealAgreements[d]]
    BY <2>1 DEF DealAgreements
  <2> QED BY <2>1, <2>2, <2>3 DEF Market!Agreed!Drop, DealAgreements
<1>5. ASSUME NEW m \in Masks,
             \/ Market!PublishOffer(m)
             \/ \E id \in DOMAIN Offers : Market!WithdrawOffer(m, id)
      PROVE  UNCHANGED <<NextDealId, DealAgreements>>
  BY <1>5 DEF Market!PublishOffer, Market!WithdrawOffer, Market!deals, DealAgreements
<1>6. DOMAIN DealAgreements = DOMAIN Deals
  BY DEF DealAgreements
<1>7. \A p, c \in Masks : {p, c} \in SUBSET Masks
  OBVIOUS
<1> QED
  BY <1>2, <1>3, <1>4, <1>5, <1>6, <1>7 DEF Market!Next, Market!Agreed!Next, DealAgreements

-----------------------------------------------------------------------------
(* Pacts implement agreements.                                              *)
PactAgreements == [id \in DOMAIN Pacts |-> Pact!AsAgreement(Pacts[id])]

LEMMA PactsOpenAlike ==
  ASSUME NEW m \in Masks
  PROVE  Pact!Agreed!OpenBy(m) = Pact!OpenPactsBy(m)
<1>1. \A id \in DOMAIN Pacts : /\ PactAgreements[id].proposer = Pacts[id].proposer
                               /\ PactAgreements[id].closed = Pacts[id].completed
  BY DEF PactAgreements, Pact!AsAgreement
<1> QED
  BY <1>1 DEF Pact!Agreed!OpenBy, Pact!OpenPactsBy, PactAgreements

LEMMA PactsAgreeStep ==
  ASSUME PactsInv, Pact!Next
  PROVE  Pact!Agreed!Next \/ UNCHANGED <<NextPactId, PactAgreements>>
<1>1. /\ \A id \in DOMAIN Pacts : Pledge(Pacts[id])
      /\ NextPactId \notin DOMAIN Pacts
  BY HandedOut DEF PactsInv, PactTypes
<1>2. ASSUME NEW who \in Masks, NEW parties \in SUBSET Masks, NEW ttl \in 1..MaxPactTtl,
             Pact!Propose(who, parties, ttl)
      PROVE  Pact!Agreed!Propose(who, parties)
  <2>1. /\ who \in parties /\ NextPactId' = NextPactId + 1 /\ OpenOf[who] < MaxOpenPerMask
        /\ Cardinality(parties) >= 2
    BY <1>2, SocietyAssumption, OneCardinality DEF Pact!Propose, Pact!PactsParameters
  <2>2. Pact!Agreed!Cardinality(Pact!Agreed!OpenBy(who)) < MaxOpenPerMask
    BY <2>1, PactsOpenAlike, OneCardinality DEF PactsInv, Pact!PactSlots
  <2>3. PactAgreements' = [id \in DOMAIN PactAgreements \union {NextPactId} |->
          IF id = NextPactId
          THEN [proposer |-> who, parties |-> parties, consent |-> {who}, closed |-> FALSE]
          ELSE PactAgreements[id]]
    BY <1>1, <1>2 DEF Pact!Propose, PactAgreements, Pact!AsAgreement
  <2> QED
    BY <2>1, <2>2, <2>3, OneCardinality DEF Pact!Agreed!Propose, PactAgreements
<1>3. ASSUME NEW id \in DOMAIN Pacts, NEW who \in Masks, Pact!Sign(who, id)
      PROVE  Pact!Agreed!Consent(who, id)
  <2> DEFINE p == Pacts[id]
             q == Pacts'[id]
  <2>1. /\ DOMAIN Pacts' = DOMAIN Pacts /\ \A i \in DOMAIN Pacts \ {id} : Pacts'[i] = Pacts[i]
        /\ Pledge(q) /\ Pledge(p) /\ ~p.completed /\ who \in p.parties \ p.signed
        /\ q = [p EXCEPT !.signed = @ \union {who}, !.completed = q.completed]
    BY <1>1, <1>3, PactSigned
  <2>2. q.proposer = p.proposer /\ q.parties = p.parties /\ q.signed = p.signed \union {who}
    BY <2>1 DEF Pledge
  <2>3. PactAgreements[id] = [proposer |-> p.proposer, parties |-> p.parties,
                              consent |-> p.signed, closed |-> FALSE]
    BY <2>1 DEF PactAgreements, Pact!AsAgreement, Pledge
  <2>4. PactAgreements'[id] = [proposer |-> p.proposer, parties |-> p.parties,
                               consent |-> p.signed \union {who},
                               closed |-> (p.signed \union {who} = p.parties)]
    <3>1. q.completed = (q.signed = q.parties)
      BY <2>1 DEF Pledge
    <3> QED BY <2>1, <2>2, <3>1 DEF PactAgreements, Pact!AsAgreement
  <2>5. /\ PactAgreements = [i \in DOMAIN Pacts |-> PactAgreements[i]]
        /\ PactAgreements' = [i \in DOMAIN Pacts |-> PactAgreements'[i]]
        /\ \A i \in DOMAIN Pacts \ {id} : PactAgreements'[i] = PactAgreements[i]
    BY <2>1 DEF PactAgreements
  <2> DEFINE consent == PactAgreements[id].consent \union {who}
  <2>6. PactAgreements'[id] = [PactAgreements[id] EXCEPT !.consent = consent,
                                 !.closed = (consent = PactAgreements[id].parties)]
    <3>1. consent = p.signed \union {who} /\ PactAgreements[id].parties = p.parties
      BY <2>3
    <3> HIDE DEF consent
    <3>2. PICK done \in BOOLEAN : done = (p.signed \union {who} = p.parties)
      OBVIOUS
    <3>3. (consent = PactAgreements[id].parties) = done
      BY <3>1, <3>2
    <3>4. PactAgreements'[id] = [PactAgreements[id] EXCEPT !.consent = consent, !.closed = done]
      <4>1. PactAgreements'[id] = [proposer |-> p.proposer, parties |-> p.parties,
                                   consent |-> consent, closed |-> done]
        BY <2>4, <3>1, <3>2
      <4>2. [PactAgreements[id] EXCEPT !.consent = consent, !.closed = done]
              = [proposer |-> p.proposer, parties |-> p.parties,
                 consent |-> consent, closed |-> done]
        <5>1. PICK z, a, b, c, d :
                 /\ z = PactAgreements[id]
                 /\ a = p.proposer /\ b = p.parties /\ c = p.signed /\ d = FALSE
          OBVIOUS
        <5>2. z = [proposer |-> a, parties |-> b, consent |-> c, closed |-> d]
          BY <2>3, <5>1, Zenon
        <5> DEFINE w == [z EXCEPT !.consent = consent, !.closed = done]
        <5>3. /\ DOMAIN w = {"proposer", "parties", "consent", "closed"}
              /\ w = [f \in DOMAIN w |-> w[f]]
          BY <5>2
        <5>4. /\ w["proposer"] = a /\ w["parties"] = b
              /\ w["consent"] = consent /\ w["closed"] = done
          BY <5>2
        <5> HIDE DEF w
        <5>5. w = [proposer |-> a, parties |-> b, consent |-> consent, closed |-> done]
          BY <5>3, <5>4
        <5> QED BY <5>1, <5>5, Zenon DEF w
      <4> QED BY <4>1, <4>2, Zenon
    <3> QED BY <3>3, <3>4
  <2>7. NextPactId' = NextPactId
    BY <1>3 DEF Pact!Sign
  <2>8. PactAgreements' = [PactAgreements EXCEPT ![id].consent = consent,
                                                 ![id].closed = (consent = PactAgreements[id].parties)]
    <3> HIDE DEF PactAgreements, consent, p, q
    <3> QED BY <2>5, <2>6
  <2>9. ~PactAgreements[id].closed /\ who \in PactAgreements[id].parties \ PactAgreements[id].consent
    BY <2>1, <2>3
  <2> QED BY <2>7, <2>8, <2>9 DEF Pact!Agreed!Consent, PactAgreements
<1>4. ASSUME NEW id \in DOMAIN Pacts, Pact!Reap(id) \/ \E who \in Masks : Pact!Withdraw(who, id)
      PROVE  Pact!Agreed!Drop(id)
  <2>1. /\ ~Pacts[id].completed /\ NextPactId' = NextPactId
        /\ Pacts' = [i \in DOMAIN Pacts \ {id} |-> Pacts[i]]
    BY <1>4 DEF Pact!Reap, Pact!Withdraw, Pact!RemovePact
  <2>2. ~PactAgreements[id].closed
    BY <2>1 DEF PactAgreements, Pact!AsAgreement
  <2>3. PactAgreements' = [i \in DOMAIN PactAgreements \ {id} |-> PactAgreements[i]]
    BY <2>1 DEF PactAgreements
  <2> QED BY <2>1, <2>2, <2>3 DEF Pact!Agreed!Drop, PactAgreements
<1>5. ASSUME NEW key \in Keys, Pact!Seal(key) PROVE UNCHANGED <<NextPactId, PactAgreements>>
  BY <1>5 DEF Pact!Seal, PactAgreements
<1>6. DOMAIN PactAgreements = DOMAIN Pacts
  BY DEF PactAgreements
<1> QED
  BY <1>2, <1>3, <1>4, <1>5, <1>6 DEF Pact!Next, Pact!Agreed!Next, PactAgreements

(* Deals and pacts implement the agreements: none closes before every party *)
(* has made its own call, or is changed once closed, and no mask has too    *)
(* many open, however calls and blocks interleave.                          *)
THEOREM AgreementsAreKept == Spec => AgreementsKept
<1>1. Init => Market!Agreed!Init /\ Pact!Agreed!Init
  BY DEF Init, Market!Init, Pact!Init, Market!Agreed!Init, Pact!Agreed!Init
<1>2. Books /\ [Next]_vars => [Market!Agreed!Next]_<<NextDealId, DealAgreements>>
  <2> SUFFICES ASSUME Books, [Next]_vars
               PROVE  Market!Agreed!Next \/ UNCHANGED <<NextDealId, DealAgreements>>
    OBVIOUS
  <2>1. ASSUME UNCHANGED market PROVE UNCHANGED <<NextDealId, DealAgreements>>
    BY <2>1 DEF market, DealAgreements
  <2> QED
    BY <2>1, DealsAgreeStep DEF Books, Next, NewBlock, vars
<1>3. Books /\ [Next]_vars => [Pact!Agreed!Next]_<<NextPactId, PactAgreements>>
  <2> SUFFICES ASSUME Books, [Next]_vars
               PROVE  Pact!Agreed!Next \/ UNCHANGED <<NextPactId, PactAgreements>>
    OBVIOUS
  <2>1. ASSUME UNCHANGED pacts PROVE UNCHANGED <<NextPactId, PactAgreements>>
    BY <2>1 DEF pacts, PactAgreements
  <2> QED
    BY <2>1, PactsAgreeStep DEF Books, Next, NewBlock, vars
<1> QED
  BY <1>1, <1>2, <1>3, BooksInit, BooksStep, PTL
     DEF Spec, AgreementsKept, Market!Agreed!Spec, Pact!Agreed!Spec, DealAgreements, PactAgreements
=============================================================================
