----------------------------- MODULE Agreements -----------------------------
(***************************************************************************)
(* What a deal of the market and a pact promise alike.  An agreement is     *)
(* proposed by one of its parties, closes with the consent of the last one  *)
(* and then stays as it is; an open one may be dropped, and its id is not   *)
(* used again.  No mask has more than MaxOpen open ones of its own.         *)
(***************************************************************************)
EXTENDS Integers, FiniteSets

CONSTANTS Masks, MaxOpen

VARIABLES
    next,
    agreements     \* id -> [proposer, parties, consent, closed]

OpenBy(m) == {id \in DOMAIN agreements : agreements[id].proposer = m /\ ~agreements[id].closed}

Init == next = 0 /\ agreements = [id \in {} |-> {}]

Propose(who, parties) ==
    /\ who \in parties /\ Cardinality(parties) >= 2
    /\ Cardinality(OpenBy(who)) < MaxOpen
    /\ next' = next + 1
    /\ agreements' = [id \in DOMAIN agreements \union {next} |->
          IF id = next
          THEN [proposer |-> who, parties |-> parties, consent |-> {who}, closed |-> FALSE]
          ELSE agreements[id]]

Consent(who, id) ==
    /\ ~agreements[id].closed
    /\ who \in agreements[id].parties \ agreements[id].consent
    /\ LET consent == agreements[id].consent \union {who}
       IN  agreements' = [agreements EXCEPT ![id].consent = consent,
                                            ![id].closed = (consent = agreements[id].parties)]
    /\ UNCHANGED next

Drop(id) ==
    /\ ~agreements[id].closed
    /\ agreements' = [i \in DOMAIN agreements \ {id} |-> agreements[i]]
    /\ UNCHANGED next

Next ==
    \/ \E who \in Masks, parties \in SUBSET Masks : Propose(who, parties)
    \/ \E id \in DOMAIN agreements : Drop(id) \/ \E who \in Masks : Consent(who, id)

Spec == Init /\ [][Next]_<<next, agreements>>
=============================================================================
