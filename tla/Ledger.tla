------------------------------ MODULE Ledger ------------------------------
(***************************************************************************)
(* tokens-core: the host Ledger, what the two coins promise.  Coin moves,    *)
(* is burned with a fee, or comes into being with an era's tranche; nothing  *)
(* else happens to it.                                                       *)
(***************************************************************************)
EXTENDS TokensCore

CONSTANTS
    Accounts,
    Endowment,     \* [Accounts -> [hlq, sov]] held before the first era
    Curves,        \* [hlq, sov] of emission curves
    BurnRates      \* basis points a fee may burn

VARIABLES balance, minted, burned, epoch

ledger == <<balance, minted, burned, epoch>>
Coins == {"hlq", "sov"}

Credit(bal, who, coin, amount) == [bal EXCEPT ![who][coin] = @ + amount]
Debit(bal, who, coin, amount) == [bal EXCEPT ![who][coin] = @ - amount]
TotalOf(bal, coin) == Total([a \in Accounts |-> bal[a][coin]])

Transfer(from, to, coin, amount) ==
    /\ amount > 0 /\ from # to /\ balance[from][coin] >= amount
    /\ balance' = Credit(Debit(balance, from, coin, amount), to, coin, amount)
    /\ UNCHANGED <<minted, burned, epoch>>

\* Paying oneself costs the burn alone.
ChargeFeeWithBurn(payer, node, fee, bps) ==
    /\ fee > 0 /\ balance[payer].hlq >= fee
    /\ balance' = Credit(Debit(balance, payer, "hlq", fee), node, "hlq", fee - BurnAmount(fee, bps))
    /\ burned' = burned + BurnAmount(fee, bps)
    /\ UNCHANGED <<minted, epoch>>

\* An era's mint_emission of both coins, to whichever accounts.
MintEmission ==
    /\ epoch' = epoch + 1
    /\ \A c \in Coins :
         /\ minted'[c] - minted[c] \in 0..MintAmount(Curves[c], epoch, minted[c])
         /\ \A a \in Accounts : balance'[a][c] >= balance[a][c]
         /\ TotalOf(balance', c) - TotalOf(balance, c) = minted'[c] - minted[c]
    /\ UNCHANGED burned

Init ==
    /\ balance = Endowment /\ burned = 0 /\ epoch = 0
    /\ minted = [c \in Coins |-> TotalOf(Endowment, c)]

Move ==
    /\ balance' # balance
    /\ \/ \E from, to \in Accounts, coin \in Coins :
            \E amount \in 1..balance[from][coin] : Transfer(from, to, coin, amount)
       \/ \E payer, node \in Accounts, bps \in BurnRates :
            \E fee \in 1..balance[payer].hlq : ChargeFeeWithBurn(payer, node, fee, bps)

Next == Move \/ MintEmission

Spec == Init /\ [][Next]_ledger
=============================================================================
