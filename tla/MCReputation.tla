---------------------------- MODULE MCReputation ----------------------------
(* Four founders.  Mask 1 holds more than a third of all standing, until it  *)
(* is slashed; 2 and 3 vouched for it, and 3 for 2.                          *)
EXTENDS ReputationEpochs

MCGrants == [i \in 1..(4 * 4) |-> <<((i - 1) \div 4) + 1, SuitAll[((i - 1) % 4) + 1],
                                   IF i <= 4 THEN 32 ELSE 16>>]
Edge(target, weight) == [target |-> target, suit |-> "technical", weight |-> weight]
MCSettled == <<<<>>, <<Edge(1, 1)>>, <<Edge(1, 1), Edge(2, 2)>>, <<>>>>
MCService == [e \in 0..MaxBlock |-> [m \in Masks |-> IF e = 1 /\ m = 2 THEN 1 ELSE 0]]
MCOrder == <<2, 4, 3, 1>>

-----------------------------------------------------------------------------
(* The host's registry of vouches, over every graph of at most Ties ties     *)
(* between four members.                                                     *)

Members == 1..4
Ties == 4
Graphs == {ties \in SUBSET {t \in Members \X Members : t[1] # t[2]} : Cardinality(ties) <= Ties}
Linked(ties) ==
    FoldSet(LAMBDA t, links : SponsorLink(links, t[1], t[2]), <<>>, ties)

\* Those within d hops of start, a hop going from y to x when Hop(x, y).
Ball(Hop(_, _), start, d) ==
    LET within[i \in 0..d] ==
            IF i = 0 THEN {start}
            ELSE within[i - 1] \union {x \in Members : \E y \in within[i - 1] : Hop(x, y)}
    IN  within
HopsTo(Hop(_, _), start, end, most) ==
    LET within == Ball(Hop, start, most)
    IN  IF end \in within[most] THEN Min({d \in 0..most : end \in within[d]}) ELSE None

(* The search finds the shortest path of ties when it may visit everybody,   *)
(* and with a smaller budget it finds that or nothing, never a longer one;   *)
(* of many parties the nearest counts.                                       *)
ASSUME SearchIsExact ==
    \A ties \in Graphs, most \in 0..3 :
        LET links == Linked(ties)
            Tied(x, y) == {<<x, y>>, <<y, x>>} \intersect ties # {}
            hops == [m \in Members |-> HopsTo(Tied, 1, m, most)]
            found(m, budget) == VouchDistance(links, 1, m, most, budget)
        IN  /\ \A m \in Members : found(m, Cardinality(Members)) = hops[m]
            /\ \A budget \in 1..3 : found(2, budget) \in {None, hops[2]}
            /\ NearestPartyDistance(links, 1, {2, 3}, most, Cardinality(Members))
                 = IF {hops[2], hops[3]} = {None} THEN None ELSE Min({hops[2], hops[3]} \ {None})

(* A fraud costs each sponsor once, by its shortest chain to the culprit,    *)
(* and nobody farther than the depth or without a chain; member 4 has no     *)
(* standing to lose, and passes on what its protege lost all the same.       *)
ASSUME EachSponsorOnce ==
    \A ties \in Graphs, depth \in 0..3, loss \in {0, 9} :
        LET rep == [m \in 1..3 |-> 5]
            Vouched(x, y) == <<x, y>> \in ties
            far == [m \in 1..3 |-> HopsTo(Vouched, 1, m, depth)]
            after == CascadeSlashing(rep, Linked(ties), 1, loss, 1, 2, depth)
        IN  after = [m \in 1..3 |-> IF far[m] = None THEN 5
                                    ELSE Max({5 - (loss \div 2^far[m]), 0})]

(* Graduation frees the quota of the one link and leaves its liability.      *)
ASSUME GraduationKeepsLiability ==
    \A ties \in Graphs : \A t \in ties :
        LET links == Linked(ties)
            after == Graduate(links, t[1], t[2])
        IN  /\ LiveVouches(after, t[1]) = LiveVouches(links, t[1]) - 1
            /\ \A m \in Members : SponsorsOf(after, m) = SponsorsOf(links, m)
=============================================================================
