-------------------------- MODULE FinalitySync --------------------------
(***************************************************************************)
(* The finality gadget together with the distribution of finality proofs   *)
(* (run_proof_worker, try_apply_proof, ProofGossipValidator) and the       *)
(* catch-up requests a node issues once, at start (on_start).  Every node  *)
(* runs both workers over the same client; a follower, or a node whose     *)
(* runtime differs from its binary, only learns of finality this way.      *)
(*                                                                         *)
(* `aired` holds the proofs handed to the gossip engine so far: a peer may *)
(* receive any of them, at any time, repeatedly or never.                  *)
(***************************************************************************)
EXTENDS FinalityGadget

CONSTANTS
  MaxCatchupTargets,  \* MAX_CATCHUP_TARGETS
  MaxRestarts,        \* bound: restarts explored
  NoProof             \* no proof cached

ASSUME SyncAssumption == MaxCatchupTargets \in Nat /\ MaxRestarts \in Nat

VARIABLES
  aired,       \* proofs gossiped: [hash, signers]
  pending,     \* [Nodes -> highest proof received and not applied, or NoProof]
  proofMark,   \* [Nodes -> Nat]: watermark of the proof gossip
  requested,   \* [Nodes -> blocks whose justification was requested at start]
  restarts     \* restarts so far

syncVars == <<aired, pending, proofMark, requested, restarts>>
allVars == <<vars, syncVars>>

Proof(b, signers) == [hash |-> b, signers |-> signers]

-----------------------------------------------------------------------------
(* on_start: the next targets above finality that are on the own chain. *)
CatchupTargets(tip, f) ==
  {b \in Chain[tip] :
     /\ Num[b] > Num[f] /\ (Num[b] - Num[f]) % Step = 0
     /\ (Num[b] - Num[f]) \div Step =< MaxCatchupTargets}

(* What the gossip engine lets out: the proof at the finalised height must *)
(* still pass once the watermark has reached it.                           *)
AllowedAboveMark(n, p, mark) == Num[p.hash] > mark /\ Num[p.hash] =< Num[best[n]]
ProofAllowed(n, p, mark) == Num[p.hash] >= mark /\ Num[p.hash] =< Num[best[n]]

(* try_apply_proof returns whether the proof is settled. *)
ProofSettled(n, p) == Num[p.hash] =< Num[fin[n]]
ProofApplies(n, p) ==
  /\ ~ProofSettled(n, p)
  /\ HashAt(best[n], Num[p.hash]) = p.hash
  /\ VerifyProof(best[n], p.hash, p.signers)
  /\ CanFinalise(n, p.hash)

Raised(n) == IF proofMark[n] < Num[fin[n]] THEN Num[fin[n]] ELSE proofMark[n]

TryApplyProof(n, p, mark) ==
  IF ProofApplies(n, p)
  THEN /\ FinaliseBlock(n, p.hash, p.signers)
       /\ proofMark' = [proofMark EXCEPT ![n] = Num[p.hash]]
  ELSE /\ proofMark' = [proofMark EXCEPT ![n] = IF ProofSettled(n, p) THEN Num[fin[n]] ELSE mark]
       /\ UNCHANGED client

(* One tick of the proof worker: publish the proof of the finalised block, *)
(* then try the cached proof again.                                        *)
ProofTick(n) ==
  LET own == {Proof(p.hash, p.signers) :
                p \in {q \in stored : q.node = n /\ q.hash = fin[n]}}
      out == {p \in own : ProofAllowed(n, p, Raised(n))}
  IN  /\ aired' = aired \cup out
      /\ IF pending[n] = NoProof
         THEN proofMark' = [proofMark EXCEPT ![n] = Raised(n)] /\ UNCHANGED <<client, pending>>
         ELSE /\ TryApplyProof(n, pending[n], Raised(n))
              /\ pending' = [pending EXCEPT ![n] =
                   IF ProofApplies(n, @) \/ ProofSettled(n, @) THEN NoProof ELSE @]
      /\ UNCHANGED <<sent, worker, watermark, requested, restarts>>

(* The proof filter reads the height off the header; the proof itself is    *)
(* verified by the worker.                                                 *)
ProofValidated(n, p) == Num[p.hash] > proofMark[n]

(* A gossiped proof above the watermark: the highest one is kept and this  *)
(* one is tried at once; when it settles, the cache is emptied.            *)
ReceiveProof(n, p) ==
  LET higher == IF pending[n] = NoProof THEN TRUE ELSE Num[p.hash] > Num[pending[n].hash]
  IN  /\ p \in aired /\ ProofValidated(n, p)
      /\ TryApplyProof(n, p, proofMark[n])
      /\ pending' = [pending EXCEPT ![n] =
           IF ProofApplies(n, p) \/ ProofSettled(n, p) THEN NoProof
           ELSE IF higher THEN p ELSE @]
      /\ UNCHANGED <<sent, worker, watermark, aired, requested, restarts>>

(* The sync engine delivers a justification that was requested at start. *)
DeliverJustification(n, p) ==
  /\ p.hash \in requested[n]
  /\ ImportJustification(n, p)
  /\ UNCHANGED syncVars

(* on_start of both workers.  The mutant starts the vote filter from zero. *)
StartSync(n) ==
  /\ pending' = [pending EXCEPT ![n] = NoProof]
  /\ proofMark' = [proofMark EXCEPT ![n] = Num[fin[n]]]
  /\ requested' = [requested EXCEPT ![n] = CatchupTargets(best[n], fin[n])]
  /\ UNCHANGED aired

RestartNodeUnfiltered(n) ==
  /\ restarts < MaxRestarts /\ restarts' = restarts + 1
  /\ RestartFromGenesis(n) /\ StartSync(n)
RestartNode(n) ==
  /\ restarts < MaxRestarts /\ restarts' = restarts + 1
  /\ Restart(n) /\ StartSync(n)

SyncInit ==
  /\ Init
  /\ aired = {}
  /\ pending = [n \in Nodes |-> NoProof]
  /\ proofMark = [n \in Nodes |-> 0]
  /\ requested = [n \in Nodes |-> CatchupTargets(Common, Genesis)]
  /\ restarts = 0

WorkerStep(n) == Tick(n) /\ UNCHANGED syncVars
FinaliseStep(n) == Finalise(n) /\ UNCHANGED syncVars
ReceiveStep(n, v) == Receive(n, v) /\ UNCHANGED syncVars
ImportStep(n) == (\E b \in Blocks : ImportBlock(n, b)) /\ UNCHANGED syncVars
OutsideStep == (\E x \in Ballots : OutsideVote(x)) /\ UNCHANGED syncVars

SyncNodeStep(n) ==
  \/ WorkerStep(n)
  \/ FinaliseStep(n)
  \/ \E v \in sent : ReceiveStep(n, v)
  \/ ImportStep(n)
  \/ ProofTick(n)
  \/ \E p \in aired : ReceiveProof(n, p)
  \/ \E p \in stored : DeliverJustification(n, p)
  \/ RestartNode(n)

SyncNext ==
  \/ \E n \in Nodes : SyncNodeStep(n)
  \/ OutsideStep

SyncSpec == SyncInit /\ [][SyncNext]_allVars

(* The timers of both workers keep firing, a finalize call returns, blocks *)
(* and gossip messages that stay deliverable arrive, members elsewhere     *)
(* sign.  Nothing is assumed of restarts or of catch-up requests.          *)
FairSyncSpec ==
  /\ SyncSpec
  /\ \A n \in Nodes :
       /\ WF_allVars(WorkerStep(n) \/ FinaliseStep(n))
       /\ WF_allVars(ImportStep(n))
       /\ WF_allVars(ProofTick(n))
       /\ WF_allVars(\E p \in aired : ReceiveProof(n, p))
       /\ WF_allVars(\E v \in sent : ReceiveStep(n, v))
  /\ WF_allVars(OutsideStep)

-----------------------------------------------------------------------------
SyncTypeOK ==
  /\ TypeOK
  /\ aired \subseteq [hash : Blocks, signers : SUBSET Keys]
  /\ pending \in [Nodes -> [hash : Blocks, signers : SUBSET Keys] \cup {NoProof}]
  /\ proofMark \in [Nodes -> Nat]
  /\ requested \in [Nodes -> SUBSET Blocks]
  /\ restarts \in 0..MaxRestarts

(* Finality reaches every node: a follower, a restarted node, a node that  *)
(* was passive until its runtime caught up, and across an entrenchment     *)
(* band.  Last is the highest target of the tree.                          *)
Last == CHOOSE h \in {Num[b] : b \in Blocks} :
          /\ h % Step = 0 /\ \A b \in Blocks : Num[b] < h + Step
EveryNodeFinalises == <>[](\A n \in Nodes : Num[fin[n]] = Last)

(* The proof worker and the catch-up give a node no way to finalise a block *)
(* that the gadget itself does not have: a proof taken from the gossip or   *)
(* from the cache, however old, is applied exactly as a justification that  *)
(* another node stored and this one verified; and a restart of both workers *)
(* is a restart of the gadget.                                              *)
ImplementsGadget == Spec
=============================================================================
