------------------------------- MODULE Market -------------------------------
(***************************************************************************)
(* pallet-market: the board of offers, and the deals two masks close over   *)
(* one of them.  PublishGate and OnDealClosed are the no-ops the runtime    *)
(* wires.  The detail and the category of an offer tell nothing apart.      *)
(***************************************************************************)
EXTENDS Integers, FiniteSets

CONSTANTS Masks, MaxPerMask, MaxOpenDealsPerMask, DealTtl

MarketParameters == {MaxPerMask, MaxOpenDealsPerMask, DealTtl} \subseteq Nat

VARIABLES
    number,
    NextId, Offers, OffersOf,
    NextDealId,
    Deals,         \* id -> [offer, proposer, counterparty, expires, closed]
    OpenDealsOf,   \* [Masks -> Nat]
    SignedBy       \* history: id -> the masks whose calls made the deal

offers == <<NextId, Offers, OffersOf>>
deals == <<NextDealId, Deals, OpenDealsOf, SignedBy>>

Offered == INSTANCE Board WITH Items <- Offers, ItemsOf <- OffersOf

Init ==
    /\ Offered!Init
    /\ NextDealId = 0 /\ Deals = [id \in {} |-> {}] /\ OpenDealsOf = [m \in Masks |-> 0]
    /\ SignedBy = [id \in {} |-> {}]

PublishOffer(offerer) == Offered!Publish(offerer) /\ UNCHANGED <<number, deals>>
WithdrawOffer(who, id) == Offered!Withdraw(who, id) /\ UNCHANGED <<number, deals>>

OnOffer(id) == id \in DOMAIN Offers /\ ~Offers[id].withdrawn
FreeDealSlot(proposer) ==
    OpenDealsOf' = [OpenDealsOf EXCEPT ![proposer] = IF @ > 0 THEN @ - 1 ELSE 0]
RemoveDeal(id) ==
    /\ Deals' = [d \in DOMAIN Deals \ {id} |-> Deals[d]]
    /\ SignedBy' = [d \in DOMAIN SignedBy \ {id} |-> SignedBy[d]]

ProposeDeal(proposer, offer, counterparty) ==
    /\ proposer # counterparty
    /\ OnOffer(offer) /\ Offers[offer].author \in {proposer, counterparty}
    /\ OpenDealsOf[proposer] < MaxOpenDealsPerMask
    /\ OpenDealsOf' = [OpenDealsOf EXCEPT ![proposer] = @ + 1]
    /\ Deals' = [d \in DOMAIN Deals \union {NextDealId} |->
                    IF d = NextDealId
                    THEN [offer |-> offer, proposer |-> proposer, counterparty |-> counterparty,
                          expires |-> number + DealTtl, closed |-> FALSE]
                    ELSE Deals[d]]
    /\ SignedBy' = [d \in DOMAIN SignedBy \union {NextDealId} |->
                       IF d = NextDealId THEN {proposer} ELSE SignedBy[d]]
    /\ NextDealId' = NextDealId + 1
    /\ UNCHANGED <<number, offers>>

Close(who, id) ==
    /\ id \in DOMAIN Deals /\ ~Deals[id].closed /\ number <= Deals[id].expires
    /\ OnOffer(Deals[id].offer)
    /\ Deals' = [Deals EXCEPT ![id].closed = TRUE]
    /\ SignedBy' = [SignedBy EXCEPT ![id] = @ \union {who}]
    /\ FreeDealSlot(Deals[id].proposer)
    /\ UNCHANGED <<number, offers, NextDealId>>
\* Mutant of ConfirmDeal: whoever calls confirms, the proposer too.
ConfirmDealByAnyone(who, id) == Close(who, id)
ConfirmDeal(who, id) ==
    /\ id \in DOMAIN Deals /\ Deals[id].counterparty = who
    /\ Close(who, id)

CancelDeal(who, id) ==
    /\ id \in DOMAIN Deals /\ Deals[id].proposer = who /\ ~Deals[id].closed
    /\ RemoveDeal(id) /\ FreeDealSlot(who)
    /\ UNCHANGED <<number, offers, NextDealId>>

\* Mutant for BooksBalance: the slot does not come back.
ReapDealOnly(id) ==
    /\ id \in DOMAIN Deals /\ ~Deals[id].closed /\ number > Deals[id].expires
    /\ RemoveDeal(id)
    /\ UNCHANGED <<number, offers, NextDealId, OpenDealsOf>>
ReapDeal(id) ==
    /\ id \in DOMAIN Deals /\ ~Deals[id].closed /\ number > Deals[id].expires
    /\ RemoveDeal(id) /\ FreeDealSlot(Deals[id].proposer)
    /\ UNCHANGED <<number, offers, NextDealId>>

Next ==
    \/ \E m \in Masks : PublishOffer(m)
    \/ \E m \in Masks, id \in DOMAIN Offers : WithdrawOffer(m, id)
    \/ \E p, c \in Masks, id \in DOMAIN Offers : ProposeDeal(p, id, c)
    \/ \E id \in DOMAIN Deals :
         ReapDeal(id) \/ \E m \in Masks : ConfirmDeal(m, id) \/ CancelDeal(m, id)

-----------------------------------------------------------------------------
(* The slots a mask has used up are its open deals.                          *)
OpenDealsBy(m) == {id \in DOMAIN Deals : Deals[id].proposer = m /\ ~Deals[id].closed}
DealSlots == \A m \in Masks : OpenDealsOf[m] = Cardinality(OpenDealsBy(m))

\* As agreements: who consents is who made the calls, the proposer by proposing.
AsAgreement(d, signed) ==
    [proposer |-> d.proposer, parties |-> {d.proposer, d.counterparty},
     consent |-> signed, closed |-> d.closed]
Agreed == INSTANCE Agreements
            WITH MaxOpen <- MaxOpenDealsPerMask, next <- NextDealId,
                 agreements <- [id \in DOMAIN Deals |-> AsAgreement(Deals[id], SignedBy[id])]
=============================================================================
