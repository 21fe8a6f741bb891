------------------------------ MODULE BaseVault -----------------------------
(***************************************************************************)
(* vaults/BaseVault.sol: shares of a pot of underlying tokens, minted and  *)
(* redeemed at the exchange rate.  The rate is rounded against the caller, *)
(* up for a deposit and down for a withdrawal, and then the amount is      *)
(* rounded again.  The first deposit leaves some shares with _DEAD for     *)
(* good.  Anybody can send underlying tokens to the contract.              *)
(*                                                                         *)
(* Shares move freely between holders, so what matters of the balances is  *)
(* that together they are the supply less the shares of _DEAD.  The bounds *)
(* on the slippage that a caller passes only make calls revert, and        *)
(* setStrategy writes a variable that nothing reads: they are left out.    *)
(***************************************************************************)
EXTENDS FixedPoint

CONSTANTS
    SharesToBurn,       \* _sharesToBurn(), from the decimals of the underlying
    Amounts,            \* amounts of deposits and of direct transfers
    MaxUnderlying       \* bound: the largest amount of underlying tokens

ASSUME VaultAssumption ==
    /\ SharesToBurn \in Nat \ {0}
    /\ Amounts \subseteq Nat
    /\ MaxUnderlying \in Nat

VARIABLES
    totalUnderlying,    \* IERC20(underlying).balanceOf(vault)
    totalSupply

vars == <<totalUnderlying, totalSupply>>

TypeOK ==
    /\ totalUnderlying \in Nat
    /\ totalSupply \in Nat
    /\ totalSupply # 0 => totalSupply >= SharesToBurn

Init == totalUnderlying = 0 /\ totalSupply = 0

-----------------------------------------------------------------------------
(* Exchange rates, for a supply of underlying tokens and of shares         *)

ExchangeRate == IF totalSupply = 0 THEN ONE ELSE DivDown(totalUnderlying, totalSupply)

\* mutant: the rate of a deposit is rounded down
DepositRateDown == ExchangeRate

DepositRate == IF totalSupply = 0 THEN ONE ELSE DivUp(totalUnderlying, totalSupply)

\* Shares that leave the caller nothing, or less, make the first deposit revert.
BurntNow == IF totalSupply = 0 THEN SharesToBurn ELSE 0

\* mutant: the shares of _DEAD are minted on top
SupplyWithMintOnTop(minted) == totalSupply + minted + BurntNow

\* The beneficiary and _DEAD get the minted shares between them.
SupplyWithMint(minted) == totalSupply + minted

\* mutant: the shares of _DEAD may be withdrawn
RedeemableOfAll == totalSupply

RedeemableShares == totalSupply - SharesToBurn

-----------------------------------------------------------------------------
(* Actions                                                                 *)

DepositFor(amount) ==
    /\ totalUnderlying + amount <= MaxUnderlying
    /\ DepositRate > 0
    /\ DivDown(amount, DepositRate) > BurntNow
    /\ totalSupply' = SupplyWithMint(DivDown(amount, DepositRate))
    /\ totalUnderlying' = totalUnderlying + amount

Withdraw(vaultTokenAmount) ==
    /\ 0 < vaultTokenAmount /\ vaultTokenAmount <= RedeemableShares
    /\ totalSupply' = totalSupply - vaultTokenAmount
    /\ totalUnderlying' = totalUnderlying - MulDown(vaultTokenAmount, ExchangeRate)

\* A transfer of underlying tokens past the vault's functions.
Donate(amount) ==
    /\ totalUnderlying + amount <= MaxUnderlying
    /\ totalUnderlying' = totalUnderlying + amount
    /\ UNCHANGED totalSupply

Next ==
    \/ \E amount \in Amounts : DepositFor(amount)
    \/ \E vaultTokenAmount \in 1..totalSupply : Withdraw(vaultTokenAmount)
    \/ \E amount \in Amounts : Donate(amount)

Spec == Init /\ [][Next]_vars

-----------------------------------------------------------------------------
(* Properties                                                              *)

\* Whoever deposits or withdraws, and whatever is lost to the two roundings, a share is
\* never worth less underlying afterwards: other holders do not pay.
ShareValueNeverFalls ==
    [][totalSupply > 0 =>
        totalUnderlying' * totalSupply >= totalUnderlying * totalSupply']_vars

\* A share stands for a token at least, so the rate is never zero and deposits are
\* possible for good: no series of withdrawals leaves shares without tokens.
SharesBacked == totalUnderlying >= totalSupply

=============================================================================
