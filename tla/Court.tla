------------------------------- MODULE Court -------------------------------
(***************************************************************************)
(* Justice running on reputation: blocks that draw the juries due in them,  *)
(* and between blocks filings, votes, closings, and the vouches by which    *)
(* parties and jurors can tie themselves to each other.                     *)
(***************************************************************************)
EXTENDS Justice

CONSTANTS
    Plaintiffs, Defendants, Tied,      \* who files against whom, and who may be added
    Evidences, Losses,                 \* what a filing claims
    Closers,
    Committers,                        \* the sets of masks with a key in the beacon
    Ties,                              \* the vouches <<voucher, target>> that come and go
    MaxCases, MaxTies                  \* bounds

ASSUME CourtAssumption ==
    /\ Plaintiffs \subseteq Masks /\ Defendants \subseteq Masks /\ Tied \subseteq SUBSET Masks
    /\ Evidences \subseteq SUBSET Nat /\ Losses \subseteq Nat

VARIABLE ties      \* vouches placed or withdrawn so far
vars == <<number, reputation, justice, ties>>

Init == InitReputation /\ InitJustice /\ ties = 0

OpenBlock ==
    /\ number < MaxBlock
    /\ number' = number + 1
    /\ OnInitialize(number + 1)
    /\ \E committed \in Committers : DrawJuries(number + 1, committed)
    /\ UNCHANGED ties

MayFile == number > 0 /\ Cardinality(DOMAIN Cases) < MaxCases /\ UNCHANGED ties

File(plaintiff, defendant) ==
    /\ MayFile
    /\ \E evidence \in Evidences, loss \in Losses, extra \in Tied :
         OpenCase(plaintiff, defendant, 1, loss, evidence, extra)
FileIncapacity(plaintiff, subject) ==
    MayFile /\ \E extra \in Tied : OpenIncapacityCase(plaintiff, subject, extra)

CastVouch(tie) ==
    /\ number > 0 /\ ties < MaxTies /\ ties' = ties + 1
    /\ Vouch(tie[1], tie[2], "technical", 1)
    /\ UNCHANGED justice
WithdrawVouch(tie) ==
    /\ number > 0 /\ ties < MaxTies /\ ties' = ties + 1
    /\ VouchesIn(tie[1], tie[2], "technical")
    /\ RevokeVouch(tie[1], tie[2], "technical")
    /\ UNCHANGED justice

Vote(id) ==
    \E juror \in Cases[id].jury, guilty \in BOOLEAN : CastVote(juror, id, guilty) /\ UNCHANGED ties
Settle(id) ==
    \E closer \in Closers :
        /\ \/ Lapse(closer, id)
           \/ Acquit(closer, id)
           \/ Nullify(closer, id)
           \/ Convict(closer, id)
        /\ UNCHANGED ties

Next ==
    \/ OpenBlock
    \/ \E p \in Plaintiffs, d \in Defendants : File(p, d) \/ FileIncapacity(p, d)
    \/ \E tie \in Ties : CastVouch(tie) \/ WithdrawVouch(tie)
    \/ \E id \in DOMAIN Cases : Vote(id) \/ Settle(id)

Spec == Init /\ [][Next]_vars

-----------------------------------------------------------------------------
(* No case is lost between the filing and the draw: it waits for its jury    *)
(* exactly while it is in the queue, once, in a block still to come.         *)
QueuedIn(id) == {b \in DOMAIN DrawQueue : id \in ToSet(DrawQueue[b])}
AwaitingIsQueued ==
    /\ \A id \in DOMAIN Cases :
         IF Cases[id].status = "AwaitingJury"
         THEN Cardinality(QueuedIn(id)) = 1 /\ \A b \in QueuedIn(id) : b > number
         ELSE QueuedIn(id) = {}
    /\ \A b \in DOMAIN DrawQueue :
         Len(DrawQueue[b]) = Cardinality(ToSet(DrawQueue[b]))

(* Whatever order filings, draws, votes and closings come in: nobody who is  *)
(* a party sits or has voted, only who was drawn has a vote, a case without  *)
(* a jury was never judged, and the marks against a mask are the cases it    *)
(* lost, each once.                                                          *)
DocketInOrder ==
    /\ \A id \in DOMAIN Cases :
         LET c == Cases[id] IN
         /\ c \in Case
         /\ c.jury \cap c.parties = {} /\ Cardinality(c.jury) <= MaxJury
         /\ DOMAIN Votes[id] \subseteq c.jury
         /\ c.jury = {} => c.status \in {"AwaitingJury", "Lapsed"}
         /\ c.status = "AwaitingJury" => c.jury = {}
    /\ \A m \in Masks :
         /\ \A i, j \in DOMAIN GuiltyMarks[m] : GuiltyMarks[m][i] = GuiltyMarks[m][j] => i = j
         /\ \A id \in ToSet(GuiltyMarks[m]) :
              /\ Cases[id].defendant = m /\ ~Cases[id].incapacity
              /\ Cases[id].status = "ResolvedGuilty"

(* However many cases point to the same evidence, no record answers for two  *)
(* verdicts, and a verdict takes no more than its records were worth.        *)
RectifiedOnce ==
    /\ \A v \in verdicts : v.loss <= v.worth
    /\ \A v, u \in verdicts : v # u => v.struck \cap u.struck = {}

(* Once the jury sits, only what the jurors do changes the tally: a party    *)
(* cannot vouch for a juror to make the vote it dislikes void.               *)
PartiesCannotTurnTheTally ==
    [][\A id \in DOMAIN Cases :
         (/\ Cases[id].status = "Open"
          /\ Votes'[id] = Votes[id]
          /\ \A j \in Cases[id].jury : Vouches'[j] = Vouches[j])
         => Counting(id)' = Counting(id)]_vars

(* Nobody is given a seat whose vote would not be taken: the interest that   *)
(* voids a vote is already looked for at the draw.                           *)
SeatedJurorsCanVote ==
    [][\A id \in DOMAIN Cases :
         Cases[id].status = "AwaitingJury" /\ Cases'[id].status = "Open"
         => \A j \in Cases'[id].jury : ~JurorDisqualified(j, Cases[id].parties)']_vars
=============================================================================
