----------------------------- MODULE Emission -----------------------------
(***************************************************************************)
(* tokens-core: the emission of one coin, era by era.  The tranche shrinks   *)
(* by the decay of the curve; what is minted is at most the tranche and the  *)
(* room under the cap.                                                       *)
(***************************************************************************)
EXTENDS TokensCore

CONSTANTS Curve, Genesis     \* Genesis: coin that exists before the first era

VARIABLES epoch, reward, minted

emission == <<epoch, reward, minted>>

Decayed(r) == (r * Curve.decay_num) \div Curve.decay_den
Decays ==
    /\ Curve.era_length # 0 /\ Curve.decay_num < Curve.decay_den
    /\ (epoch + 1) % Curve.era_length = 0

Tranche == MinOf(reward, IF minted < Curve.cap THEN Curve.cap - minted ELSE 0)

MintEra ==
    /\ epoch' = epoch + 1
    /\ minted' \in minted..(minted + Tranche)
    /\ reward' = IF Decays THEN Decayed(reward) ELSE reward

FirstTranche ==
    IF Curve.era_length # 0 /\ Curve.decay_num = 0 /\ Curve.decay_den # 0 THEN 0 ELSE Curve.initial
EmissionInit == epoch = 0 /\ reward = FirstTranche /\ minted = Genesis
EmissionSpec == EmissionInit /\ [][MintEra]_emission

-----------------------------------------------------------------------------
\* One decay an era, and the tranches of all eras fit under the cap: their sum is
\* initial * den / (den - num).
Closed ==
    /\ Curve.era_length = 1
    /\ Curve.initial * Curve.decay_den =< (Curve.cap - Genesis) * (Curve.decay_den - Curve.decay_num)

\* The cap never cuts a tranche.
NeverCut == Tranche = reward
=============================================================================
