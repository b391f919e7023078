------------------------------- MODULE Board -------------------------------
(***************************************************************************)
(* A public board as the offers of the market and the news keep it: entries *)
(* are never removed, their author may withdraw them, and a mask has at     *)
(* most MaxPerMask that are not withdrawn.                                  *)
(***************************************************************************)
EXTENDS Integers, FiniteSets

CONSTANTS Masks, MaxPerMask

VARIABLES
    NextId,
    Items,         \* id -> [author, withdrawn]
    ItemsOf        \* [Masks -> ids of those not withdrawn]

Init == NextId = 0 /\ Items = [id \in {} |-> {}] /\ ItemsOf = [m \in Masks |-> {}]

Publish(author) ==
    /\ Cardinality(ItemsOf[author]) < MaxPerMask
    /\ ItemsOf' = [ItemsOf EXCEPT ![author] = @ \union {NextId}]
    /\ Items' = [id \in DOMAIN Items \union {NextId} |->
                    IF id = NextId THEN [author |-> author, withdrawn |-> FALSE] ELSE Items[id]]
    /\ NextId' = NextId + 1

Withdraw(who, id) ==
    /\ id \in DOMAIN Items /\ Items[id].author = who /\ ~Items[id].withdrawn
    /\ Items' = [Items EXCEPT ![id].withdrawn = TRUE]
    /\ ItemsOf' = [ItemsOf EXCEPT ![who] = @ \ {id}]
    /\ UNCHANGED NextId

\* The list of a mask is what it has on the board.
Listed ==
    \A m \in Masks :
        ItemsOf[m] = {id \in DOMAIN Items : Items[id].author = m /\ ~Items[id].withdrawn}
=============================================================================
