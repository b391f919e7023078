------------------------------ MODULE Society ------------------------------
(***************************************************************************)
(* The market, the pacts and the commons on one chain: calls in any order   *)
(* between blocks.  The pallets share the block number and nothing else.    *)
(***************************************************************************)
EXTENDS Integers, FiniteSets

CONSTANTS
    Masks, None, Keys, Handle,
    MaxPerMask, MaxOpenDealsPerMask, DealTtl,
    MaxParties, MaxOpenPerMask, MaxPactTtl,
    MaxNewsPerMask, MaxThreadDepth,
    MaxBlock, MaxCalls     \* bounds

VARIABLES
    number, calls,
    NextId, Offers, OffersOf, NextDealId, Deals, OpenDealsOf, SignedBy,
    NextPactId, Pacts, OpenOf, Sealed,
    HandleOf, OwnerOf, MaskCount, NextPostId, Posts, Depth, NextNewsId, News, NewsOf

market == <<NextId, Offers, OffersOf, NextDealId, Deals, OpenDealsOf, SignedBy>>
pacts == <<NextPactId, Pacts, OpenOf, Sealed>>
commons == <<HandleOf, OwnerOf, MaskCount, NextPostId, Posts, Depth, NextNewsId, News, NewsOf>>
vars == <<number, calls, market, pacts, commons>>

Market == INSTANCE Market
Pact == INSTANCE Pacts
Commons == INSTANCE Commons

ASSUME SocietyAssumption ==
    /\ Market!MarketParameters /\ Pact!PactsParameters
    /\ Commons!ForumParameters /\ Commons!NewsParameters
    /\ IsFiniteSet(Masks) /\ None \notin Masks /\ {MaxBlock, MaxCalls} \subseteq Nat

Init == number = 1 /\ calls = 0 /\ Market!Init /\ Pact!Init /\ Commons!Init

NewBlock == number < MaxBlock /\ number' = number + 1 /\ UNCHANGED <<calls, market, pacts, commons>>
Call == calls < MaxCalls /\ calls' = calls + 1
Next ==
    \/ NewBlock
    \/ Call /\ Market!Next /\ UNCHANGED <<pacts, commons>>
    \/ Call /\ Pact!Next /\ UNCHANGED <<market, commons>>
    \/ Call /\ Commons!Next /\ UNCHANGED <<number, market, pacts>>

Spec == Init /\ [][Next]_vars

-----------------------------------------------------------------------------
(* Every list and counter that limits a mask says what is in the store: a    *)
(* slot taken is a deal, a pact, an offer or an entry that is still open,    *)
(* whichever way the others ended.                                           *)
BooksBalance ==
    /\ Market!DealSlots /\ Market!Offered!Listed
    /\ Pact!PactSlots
    /\ Commons!Named /\ Commons!Threaded /\ Commons!Board!Listed

(* Deals and pacts are agreements: closed by the consent of every party and  *)
(* by nothing else, never undone, and no mask has too many open.             *)
AgreementsKept == Market!Agreed!Spec /\ Pact!Agreed!Spec
=============================================================================
