----------------------------- MODULE Tokens -----------------------------
(***************************************************************************)
(* pallet-tokens under the runtime's fee adapter (HlqTxPayment) and nonce  *)
(* check (HlqCheckNonce): what one signed extrinsic does to its signer's   *)
(* account from admission to settlement, and the emission that ends an     *)
(* era.                                                                    *)
(*                                                                         *)
(* An extrinsic runs in three steps, with nothing in between: the          *)
(* extensions prepare it (nonce, fee), the call is dispatched, the         *)
(* extensions settle it.  A preparation that fails leaves no trace and is  *)
(* no step; a call that fails is rolled back.  Free stands for every call  *)
(* of feeless_eligible, none of which moves coin; Transfer for the others. *)
(* An account's record in frame_system has no other reference than the     *)
(* sufficients counted here; when the last goes, the record goes, and the  *)
(* nonce with it.                                                          *)
(***************************************************************************)
EXTENDS TokensCore, Sequences

CONSTANTS
  Accounts, Founders, None,
  GenesisBalances,      \* [Accounts -> [hlq, sov]]
  Reputed,              \* accounts with standing reputation in some suit
  HlqCurve, SovCurve,   \* EmissionCurve
  ServiceCapK, FeeBurnBps, HostingShareBps,
  EraLength,            \* blocks of an emission era
  FeelessEpochBlocks,   \* blocks of a feeless budget epoch
  FeelessCeiling,       \* weight of feeless extrinsics in a block
  MaxFeelessPerBlock,
  AllowanceFloor, ReputedBonus, AllowanceCap,   \* 4, 4 and 16 in the code
  Fees,                 \* fees an extrinsic is charged up front, tip included
  RefTimes,             \* weights of a feeless call
  Amounts,              \* amounts transferred
  Services, Hostings,   \* what participation and hosting report for an era
  MaxExtrinsics,        \* bound: signed extrinsics explored
  MaxBlock              \* bound: last block explored

Coins == {"hlq", "sov"}
Zero == [hlq |-> 0, sov |-> 0]

CurveParams ==
  [initial : Nat, decay_num : Nat, decay_den : Nat, era_length : Nat, cap : Nat]
(* An account comes once in the list of the served and once in that of the *)
(* hosts.                                                                  *)
Served(list) == \A i, j \in DOMAIN list : list[i].who = list[j].who => i = j
TokensParameters ==
  /\ {HlqCurve, SovCurve} \subseteq CurveParams
  /\ {EraLength, ServiceCapK, FeeBurnBps, HostingShareBps} \subseteq Nat
  /\ {FeelessEpochBlocks, FeelessCeiling, MaxFeelessPerBlock} \subseteq Nat
  /\ \A list \in Services : list \in Seq([who : Accounts, weight : Nat, streak : Nat])
  /\ \A list \in Hostings : list \in Seq([who : Accounts, days : Nat])
  /\ \A list \in Services \cup Hostings : Served(list)

ASSUME FoundersAssumption ==
  Founders \subseteq Accounts /\ \A f \in Founders : GenesisBalances[f] = Zero
ASSUME AmountsAssumption ==
  /\ IsFiniteSet(Accounts) /\ None \notin Accounts /\ Reputed \subseteq Accounts
  /\ GenesisBalances \in [Accounts -> [Coins -> Nat]]
  /\ Fees \subseteq Nat \ {0} /\ RefTimes \subseteq Nat /\ Amounts \subseteq Nat
ASSUME LaneAssumption ==
  /\ TokensParameters
  /\ {AllowanceFloor, ReputedBonus, AllowanceCap, MaxExtrinsics, MaxBlock} \subseteq Nat

VARIABLES
  number,
  author,      \* BlockAuthor of the block, or None
  included,    \* signed extrinsics so far
  account,     \* [Accounts -> [hlq, sov, sufficients, nonce]]
  Minted, Burned, Epoch,
  FeelessFirstSeen, FeelessUsed, FeelessWeightThisBlock, FeelessCountThisBlock,
  tx,          \* the extrinsic being applied, or None
  born,        \* history: masks whose record was made by an extrinsic of theirs
  granted      \* history: feeless extrinsics of each mask in this budget epoch

feeless == <<FeelessFirstSeen, FeelessUsed, FeelessWeightThisBlock, FeelessCountThisBlock>>
supply == <<Minted, Burned, Epoch>>
vars == <<number, author, included, account, supply, feeless, tx, born, granted>>

-----------------------------------------------------------------------------
(* Existence references and the ledger, on the record of one account.      *)
HasCoin(r) == r.hlq + r.sov > 0
Exists(who) == account[who].sufficients > 0

Referenced(r) == [r EXCEPT !.sufficients = @ + 1]
Released(r) ==
  IF r.sufficients > 1 THEN [r EXCEPT !.sufficients = @ - 1]
  ELSE [r EXCEPT !.sufficients = 0, !.nonce = 0]

(* Mutants of Credited: a reference with every credit; no reference. *)
CreditedAlways(r, coin, amount) == Referenced([r EXCEPT ![coin] = @ + amount])
CreditedNever(r, coin, amount) == [r EXCEPT ![coin] = @ + amount]
Credited(r, coin, amount) ==
  IF HasCoin(r) \/ amount = 0 THEN [r EXCEPT ![coin] = @ + amount]
  ELSE Referenced([r EXCEPT ![coin] = @ + amount])

Debited(r, coin, amount) ==
  LET spent == [r EXCEPT ![coin] = @ - amount]
  IN  IF HasCoin(spent) THEN spent ELSE Released(spent)

Credit(acc, coin, who, amount) == [acc EXCEPT ![who] = Credited(@, coin, amount)]

CanTransferUnfunded(call, from) == call.amount > 0 /\ call.to # from   \* mutant
CanTransfer(call, from) ==
  call.amount > 0 /\ call.to # from /\ account[from][call.coin] >= call.amount
DoTransfer(call, from) ==
  Credit([account EXCEPT ![from] = Debited(@, call.coin, call.amount)],
         call.coin, call.to, call.amount)

-----------------------------------------------------------------------------
(* The feeless lane.                                                       *)
BudgetEpoch == number \div FeelessEpochBlocks
FeelessAge(who) ==
  IF FeelessEpochBlocks = 0 \/ FeelessFirstSeen[who] = None THEN 0 ELSE BudgetEpoch - FeelessFirstSeen[who]
Isqrt(n) == CHOOSE r \in 0..n : r * r =< n /\ n < (r + 1) * (r + 1)
Allowance(who) ==
  MinOf(AllowanceFloor + Isqrt(FeelessAge(who)) + (IF who \in Reputed THEN ReputedBonus ELSE 0),
        AllowanceCap)
UsedNow(who) == IF FeelessUsed[who].epoch = BudgetEpoch THEN FeelessUsed[who].used ELSE 0

CanFeeless(who, refTime) ==
  /\ FeelessEpochBlocks > 0
  /\ FeelessWeightThisBlock + refTime =< FeelessCeiling
  /\ FeelessCountThisBlock < MaxFeelessPerBlock
  /\ UsedNow(who) < Allowance(who)

GrantFeeless(who, refTime) ==
  /\ FeelessUsed' = [FeelessUsed EXCEPT ![who] = [epoch |-> BudgetEpoch, used |-> UsedNow(who) + 1]]
  /\ FeelessFirstSeen' = [FeelessFirstSeen EXCEPT ![who] = IF @ = None THEN BudgetEpoch ELSE @]
  /\ FeelessWeightThisBlock' = FeelessWeightThisBlock + refTime
  /\ FeelessCountThisBlock' = FeelessCountThisBlock + 1

-----------------------------------------------------------------------------
(* A signed extrinsic.                                                     *)
Calls == [kind : {"Free"}, refTime : RefTimes]
           \cup [kind : {"Transfer"}, coin : Coins, to : Accounts, amount : Amounts]
Rides(who, call) == call.kind = "Free" /\ CanFeeless(who, call.refTime)

(* HlqCheckNonce: the nonce declared is the one on record; a mask without  *)
(* a record enters with a call of the lane only.                           *)
Admitted(who, call) == Exists(who) \/ call.kind = "Free"
Entered(r) ==
  LET present == IF r.sufficients > 0 THEN r ELSE Referenced(r)
  IN  [present EXCEPT !.nonce = @ + 1]

(* What the extensions hand from preparation to settlement: who entered    *)
(* anew, and the fee secured.                                              *)
Transactions ==
  [who : Accounts, call : Calls, secured : Nat, newborn : BOOLEAN,
   stage : {"prepared", "done", "failed"}]
ASSUME NoneAssumption == None \notin Nat /\ None \notin Transactions

Begin(who, call, secured) ==
  /\ tx = None /\ number > 0 /\ included < MaxExtrinsics
  /\ Admitted(who, call)
  /\ included' = included + 1
  /\ tx' = [who |-> who, call |-> call, secured |-> secured,
            newborn |-> ~Exists(who), stage |-> "prepared"]
  /\ UNCHANGED <<number, author, supply, born>>

PrepareFeeless(who, call) ==
  /\ Rides(who, call)
  /\ Begin(who, call, 0)
  /\ GrantFeeless(who, call.refTime)
  /\ granted' = [granted EXCEPT ![who] = @ + 1]
  /\ account' = [account EXCEPT ![who] = Entered(@)]

PreparePaying(who, call, fee) ==
  /\ ~Rides(who, call) /\ account[who].hlq >= fee
  /\ Begin(who, call, fee)
  /\ account' = [account EXCEPT ![who] = Debited(Entered(@), "hlq", fee)]
  /\ UNCHANGED <<feeless, granted>>

Dispatched(stage) == tx' = [tx EXCEPT !.stage = stage]
Dispatch ==
  /\ tx # None /\ tx.stage = "prepared"
  /\ \/ /\ tx.call.kind = "Free"
        /\ Dispatched("done") \/ Dispatched("failed")
        /\ UNCHANGED account
     \/ /\ tx.call.kind = "Transfer" /\ CanTransfer(tx.call, tx.who)
        /\ account' = DoTransfer(tx.call, tx.who)
        /\ Dispatched("done")
     \/ /\ tx.call.kind = "Transfer" /\ ~CanTransfer(tx.call, tx.who)
        /\ Dispatched("failed") /\ UNCHANGED account
  /\ UNCHANGED <<number, author, included, supply, feeless, born, granted>>

(* post_dispatch of the nonce check, then of the payment: refund what the  *)
(* fee turned out lower, pay the author, burn the rest.                    *)
Leaving(r) == IF tx.newborn /\ tx.stage = "failed" THEN Released(r) ELSE r
Left == [account EXCEPT ![tx.who] = Leaving(@)]
Refunded(fee) == [account EXCEPT ![tx.who] = Credited(Leaving(@), "hlq", tx.secured - fee)]
(* Mutants of FeeSettle: a founder is paid too; without an author the node *)
(* share is lost.                                                          *)
FeeSettlePayingFounders(acc, fee) ==
  LET burn == BurnAmount(fee, FeeBurnBps)
      paid == author # None
  IN  /\ account' = IF paid THEN Credit(acc, "hlq", author, fee - burn) ELSE acc
      /\ Burned' = Burned + (IF paid THEN burn ELSE fee)
FeeSettleLosingShare(acc, fee) ==
  LET burn == BurnAmount(fee, FeeBurnBps)
      paid == author # None /\ fee > burn /\ author \notin Founders
  IN  /\ account' = IF paid THEN Credit(acc, "hlq", author, fee - burn) ELSE acc
      /\ Burned' = Burned + burn
FeeSettle(acc, fee) ==
  LET burn == BurnAmount(fee, FeeBurnBps)
      paid == author # None /\ fee > burn /\ author \notin Founders
  IN  /\ account' = IF paid THEN Credit(acc, "hlq", author, fee - burn) ELSE acc
      /\ Burned' = Burned + (IF paid THEN burn ELSE fee)

Born == IF tx.newborn /\ tx.stage = "done" THEN born \cup {tx.who} ELSE born
SettleRollingBack ==
  /\ tx # None /\ tx.stage # "prepared" /\ tx.secured = 0
  /\ account' = Left /\ born' = Born /\ tx' = None
  /\ FeelessUsed' = [FeelessUsed EXCEPT ![tx.who].used = IF tx.stage = "failed" THEN @ - 1 ELSE @]
  /\ UNCHANGED <<number, author, included, supply, FeelessFirstSeen, FeelessWeightThisBlock,
                 FeelessCountThisBlock, granted>>
SettleFeeless ==
  /\ tx # None /\ tx.stage # "prepared" /\ tx.secured = 0
  /\ account' = Left /\ born' = Born /\ tx' = None
  /\ UNCHANGED <<number, author, included, supply, feeless, granted>>
SettlePaid(corrected) ==
  /\ tx # None /\ tx.stage # "prepared" /\ tx.secured > 0
  /\ LET fee == MinOf(corrected, tx.secured)
     IN  FeeSettle(Refunded(fee), fee)
  /\ born' = Born /\ tx' = None
  /\ UNCHANGED <<number, author, included, Minted, Epoch, feeless, granted>>

-----------------------------------------------------------------------------
(* Emission.  Service is a sequence of [who, weight, streak], hosts one of *)
(* [who, days]: the order in which the storage maps are iterated, every    *)
(* account at most once.  An income is a function of the accounts; the     *)
(* slice of a founder is computed and never minted.                        *)
Income(list, shares) ==
  [a \in Accounts |->
     IF a \notin Founders /\ \E i \in DOMAIN shares : list[i].who = a
     THEN shares[CHOOSE i \in DOMAIN shares : list[i].who = a] ELSE 0]

(* The mutant pays the hosts on top of the tranche. *)
ServicePoolWhole(tranche, hostPool) == tranche
ServicePool(tranche, hostPool) == tranche - hostPool

EraIncome(service, hosts) ==
  LET serving  == {i \in DOMAIN service : service[i].weight > 0}
      hosting  == {i \in DOMAIN hosts : hosts[i].days > 0}
      days     == [i \in hosting |-> hosts[i].days]
      spot     == [i \in serving |-> service[i].weight]
      enduring == [i \in serving |->
                     spot[i] * (IF service[i].streak > 1 THEN service[i].streak ELSE 1)]
      tranche  == IF serving = {} /\ hosting = {} THEN 0
                  ELSE MintAmount(HlqCurve, Epoch, Minted.hlq)
      hostPool == IF hosting = {} THEN 0
                  ELSE (tranche * MinOf(HostingShareBps, BasisPoints)) \div BasisPoints
      split(pool, weights) == SplitServiceReward(pool, CapWeights(weights, ServiceCapK))
  IN  [host |-> Income(hosts, split(hostPool, days)),
       hlq  |-> Income(service, split(ServicePool(tranche, hostPool), spot)),
       sov  |-> Income(service, split(MintAmount(SovCurve, Epoch, Minted.sov), enduring))]

RunEpoch(service, hosts) ==
  LET income == EraIncome(service, hosts)
      paid   == [a \in Accounts |-> Credited(Credited(account[a], "hlq", income.host[a]),
                                             "hlq", income.hlq[a])]
  IN  /\ account' = [a \in Accounts |-> Credited(paid[a], "sov", income.sov[a])]
      /\ Minted' = [hlq |-> Minted.hlq + Total(income.host) + Total(income.hlq),
                    sov |-> Minted.sov + Total(income.sov)]
      /\ Epoch' = Epoch + 1

EndsEra == number # 0 /\ EraLength # 0 /\ number % EraLength = 0

(* on_finalize of the block, then on_initialize and the inherent of the    *)
(* next one.                                                               *)
NextBlock ==
  /\ tx = None /\ number < MaxBlock
  /\ IF EndsEra
     THEN \E s \in Services, h \in Hostings : RunEpoch(s, h)
     ELSE UNCHANGED <<account, Minted, Epoch>>
  /\ number' = number + 1
  /\ author' \in Accounts \cup {None}
  /\ FeelessWeightThisBlock' = 0 /\ FeelessCountThisBlock' = 0
  /\ granted' = IF FeelessEpochBlocks > 0 /\ number' % FeelessEpochBlocks = 0
                THEN [a \in Accounts |-> 0] ELSE granted
  /\ UNCHANGED <<included, Burned, FeelessFirstSeen, FeelessUsed, tx, born>>

GenesisTotal(coin) == Total([a \in Accounts |-> GenesisBalances[a][coin]])

Init ==
  /\ number = 0 /\ author = None /\ included = 0
  /\ account = [a \in Accounts |->
       [hlq |-> GenesisBalances[a].hlq, sov |-> GenesisBalances[a].sov, nonce |-> 0,
        sufficients |-> IF GenesisBalances[a] = Zero THEN 0 ELSE 1]]
  /\ Minted = [c \in Coins |-> GenesisTotal(c)] /\ Burned = 0 /\ Epoch = 0
  /\ FeelessFirstSeen = [a \in Accounts |-> None]
  /\ FeelessUsed = [a \in Accounts |-> [epoch |-> 0, used |-> 0]]
  /\ FeelessWeightThisBlock = 0 /\ FeelessCountThisBlock = 0
  /\ tx = None /\ born = {} /\ granted = [a \in Accounts |-> 0]

Next ==
  \/ \E who \in Accounts, call \in Calls : PrepareFeeless(who, call)
  \/ \E who \in Accounts, call \in Calls, fee \in Fees : PreparePaying(who, call, fee)
  \/ Dispatch
  \/ SettleFeeless
  \/ \E corrected \in Fees : SettlePaid(corrected)
  \/ NextBlock

Spec == Init /\ [][Next]_vars

-----------------------------------------------------------------------------
TypeOK ==
  /\ number \in 0..MaxBlock /\ author \in Accounts \cup {None} /\ included \in 0..MaxExtrinsics
  /\ account \in [Accounts -> [hlq : Nat, sov : Nat, sufficients : Nat, nonce : Nat]]
  /\ Minted \in [Coins -> Nat] /\ Burned \in Nat /\ Epoch \in Nat
  /\ FeelessFirstSeen \in [Accounts -> Nat \cup {None}]
  /\ FeelessUsed \in [Accounts -> [epoch : Nat, used : Nat]]
  /\ FeelessWeightThisBlock \in Nat /\ FeelessCountThisBlock \in 0..MaxFeelessPerBlock
  /\ tx \in {None} \cup Transactions
  /\ born \subseteq Accounts /\ granted \in [Accounts -> Nat]

(* The pallet keeps the promises of the host Ledger: coin is transferred,   *)
(* charged as a fee, or minted with an era, each in one step, although a fee *)
(* is taken before the call and settled after it.  Nothing is lost or made   *)
(* by refunds, the burn split or the rounding of shares; until a fee is      *)
(* settled it is still its payer's.                                          *)
SecuredOf(a) == IF tx # None /\ tx.who = a THEN tx.secured ELSE 0
Held == [a \in Accounts |-> [hlq |-> account[a].hlq + SecuredOf(a), sov |-> account[a].sov]]
Books == INSTANCE Ledger WITH
           Endowment <- GenesisBalances,
           Curves    <- [hlq |-> HlqCurve, sov |-> SovCurve],
           BurnRates <- {FeeBurnBps, BasisPoints},
           balance   <- Held,
           minted    <- Minted,
           burned    <- Burned,
           epoch     <- Epoch
ImplementsLedger == Books!Spec

(* A mask holds one existence reference for its coins, whatever they are,  *)
(* and one for having entered by an extrinsic of its own: references are   *)
(* never leaked nor dropped twice, across fees that take the last coin,    *)
(* refunds, failed first calls and payments to accounts without record.    *)
ReferencesBalanced ==
  \A a \in Accounts :
    account[a].sufficients =
      (IF HasCoin(account[a]) THEN 1 ELSE 0)
      + (IF a \in born \/ (tx # None /\ tx.newborn /\ tx.who = a) THEN 1 ELSE 0)

(* A mask that entered by its own extrinsic never loses its nonce, however *)
(* it spends.                                                              *)
BornMasksKeepNonce ==
  [][\A a \in born : account'[a].nonce >= account[a].nonce]_vars

(* The emission is never ahead of the curve: an era mints at most its       *)
(* tranche and the room under the cap, whatever the hosts and the founders  *)
(* took or left, and no era is paid twice or skipped.                       *)
HlqEmission == INSTANCE Emission WITH
                 Curve <- HlqCurve, Genesis <- GenesisTotal("hlq"),
                 epoch <- Epoch, reward <- ScheduledReward(HlqCurve, Epoch), minted <- Minted.hlq
SovEmission == INSTANCE Emission WITH
                 Curve <- SovCurve, Genesis <- GenesisTotal("sov"),
                 epoch <- Epoch, reward <- ScheduledReward(SovCurve, Epoch), minted <- Minted.sov
ImplementsEmission == HlqEmission!EmissionSpec /\ SovEmission!EmissionSpec

(* A founder gains coin only by a transfer or the refund of its own fee:   *)
(* neither the emission nor the author share ever reaches it.              *)
FoundersEarnNothing ==
  [][\A f \in Founders, c \in Coins :
       account'[f][c] > account[f][c] =>
         /\ tx # None
         /\ tx.stage = "prepared" \/
            (tx.who = f /\ account'[f][c] - account[f][c] < tx.secured)]_vars

(* A mask has no more feeless extrinsics in a budget epoch than its age    *)
(* and standing allow, failed and first ones included.                     *)
FeelessRationed == \A a \in Accounts : granted[a] =< Allowance(a)
=============================================================================
