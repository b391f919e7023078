------------------------------ MODULE Commons ------------------------------
(***************************************************************************)
(* The pallets of the public life that keep neither money nor standing:     *)
(* names (pallet-directory), posts (pallet-forum), news (pallet-news).      *)
(* What is said stays off chain, under its hash.                            *)
(***************************************************************************)
EXTENDS Integers, FiniteSets

CONSTANTS Masks, None, MaxThreadDepth, MaxNewsPerMask,
    Handle         \* [Masks -> handles], the hash of the account

ForumParameters == MaxThreadDepth \in Nat
NewsParameters == MaxNewsPerMask \in Nat

VARIABLES
    HandleOf,      \* mask -> handle, of the registered
    OwnerOf,       \* handle -> mask
    MaskCount,
    NextPostId,
    Posts,         \* id -> the id of the parent, or None
    Depth,         \* id -> Nat
    NextNewsId, News, NewsOf

directory == <<HandleOf, OwnerOf, MaskCount>>
forum == <<NextPostId, Posts, Depth>>
news == <<NextNewsId, News, NewsOf>>
commons == <<directory, forum, news>>

Board == INSTANCE Board
           WITH NextId <- NextNewsId, Items <- News, ItemsOf <- NewsOf,
                MaxPerMask <- MaxNewsPerMask

Init ==
    /\ HandleOf = [m \in {} |-> {}] /\ OwnerOf = [h \in {} |-> {}] /\ MaskCount = 0
    /\ NextPostId = 0 /\ Posts = [id \in {} |-> {}] /\ Depth = [id \in {} |-> 0]
    /\ Board!Init

Extended(f, k, v) == [x \in DOMAIN f \union {k} |-> IF x = k THEN v ELSE f[x]]
Without(f, k) == [x \in DOMAIN f \ {k} |-> f[x]]

Register(who) ==
    /\ who \notin DOMAIN HandleOf /\ Handle[who] \notin DOMAIN OwnerOf
    /\ HandleOf' = Extended(HandleOf, who, Handle[who])
    /\ OwnerOf' = Extended(OwnerOf, Handle[who], who)
    /\ MaskCount' = MaskCount + 1
    /\ UNCHANGED <<forum, news>>

Deregister(who) ==
    /\ who \in DOMAIN HandleOf
    /\ HandleOf' = Without(HandleOf, who)
    /\ OwnerOf' = Without(OwnerOf, HandleOf[who])
    /\ MaskCount' = IF MaskCount > 0 THEN MaskCount - 1 ELSE 0
    /\ UNCHANGED <<forum, news>>

Post(parent) ==
    LET depth == IF parent = None THEN 0 ELSE Depth[parent] + 1
    IN  /\ parent # None => parent \in DOMAIN Posts /\ depth <= MaxThreadDepth
        /\ Posts' = Extended(Posts, NextPostId, parent)
        /\ Depth' = Extended(Depth, NextPostId, depth)
        /\ NextPostId' = NextPostId + 1
        /\ UNCHANGED <<directory, news>>

PublishNews(author) == Board!Publish(author) /\ UNCHANGED <<directory, forum>>
WithdrawNews(who, id) == Board!Withdraw(who, id) /\ UNCHANGED <<directory, forum>>

Next ==
    \/ \E m \in Masks : Register(m) \/ Deregister(m) \/ PublishNews(m)
    \/ \E m \in Masks, id \in DOMAIN News : WithdrawNews(m, id)
    \/ \E parent \in DOMAIN Posts \union {None} : Post(parent)

-----------------------------------------------------------------------------
(* Every registered mask is found under its handle, and only there; threads  *)
(* are no deeper than allowed, a reply one deeper than what it answers.      *)
Named ==
    /\ MaskCount = Cardinality(DOMAIN HandleOf)
    /\ DOMAIN OwnerOf = {HandleOf[m] : m \in DOMAIN HandleOf}
    /\ \A m \in DOMAIN HandleOf : OwnerOf[HandleOf[m]] = m
Threaded ==
    \A id \in DOMAIN Posts :
        /\ Depth[id] <= MaxThreadDepth
        /\ Posts[id] # None => Posts[id] < id /\ Depth[id] = Depth[Posts[id]] + 1
=============================================================================
