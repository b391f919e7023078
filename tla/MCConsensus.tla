---------------------------- MODULE MCConsensus ----------------------------
(* Two founders with a node each.  P's node votes with a session key Q may   *)
(* take over once P lets go of it.  An epoch settles everyone, or drops a    *)
(* founder, or leaves a committer in the beacon who has no reputation.       *)
EXTENDS FinalityRound, Authoring

CONSTANTS P, Q, SessionKey

MCKeyOf == [n \in Nodes |-> IF n = 1 THEN SessionKey ELSE Q]
MCBuiltFor == [n \in Nodes |-> 2]
MCRegisters ==
  {[reputable |-> {P, Q}, committed |-> {}, lot |-> 1], [reputable |-> {}, committed |-> {}, lot |-> 1],
   [reputable |-> {P, Q}, committed |-> {P}, lot |-> 2]}
MCGenesisRegister == [reputable |-> {P, Q}, committed |-> {}, lot |-> 1]
MCGenesisHot == [m \in Masks |-> IF m = P THEN SessionKey ELSE Q]

-----------------------------------------------------------------------------
(* Two layers over one height: the slots in which nodes seal its blocks, and *)
(* the finality round a voter runs on it once it is buried.  The round      *)
(* starts from the voter's own block, one of those sealed; the votes it     *)
(* hears of may name any hash.                                              *)
VARIABLE buried      \* the height is deep enough to vote on

Slots == ~buried /\ NextAuthoring /\ UNCHANGED <<vars, buried>>

(* Nothing of the slots is read from here on, so the model starts them over  *)
(* rather than run both layers side by side.                                 *)
Bury ==
  /\ ~buried /\ Len(blocks) = MaxBlocks /\ buried' = TRUE
  /\ blocks' = SubSeq(blocks, 1, 1) /\ best' = [n \in Nodes |-> 1]
  /\ handled' = {} /\ orders' = [n \in Nodes |-> 0] /\ draws' = {} /\ elected' = {}
  /\ UNCHANGED vars

Vote == buried /\ Next /\ UNCHANGED <<authoring, buried>>

InitHeight == Init /\ InitAuthoring /\ buried = FALSE
NextHeight == Slots \/ Bury \/ Vote
SpecHeight == InitHeight /\ [][NextHeight]_<<vars, authoring, buried>>
=============================================================================
