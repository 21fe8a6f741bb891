--------------------------- MODULE BaseVaultProofs --------------------------
(***************************************************************************)
(* No call lowers what a share is worth, for every ONE, every number of    *)
(* burnt shares and all amounts.  For a withdrawal and a deposit the       *)
(* argument is one line each, with r the rate and m, w the rounded amounts *)
(*                                                                         *)
(*     w * ONE <= v * r    and  r * S <= U * ONE  give  w * S <= v * U,    *)
(*     m * r   <= a * ONE  and  U * ONE <= r * S  give  m * U <= a * S,    *)
(*                                                                         *)
(* and the lemmas below are these lines for natural numbers.               *)
(***************************************************************************)
EXTENDS BaseVault, FixedPointProofs

\* Dividing with rounding up gives enough.
LEMMA DivUpEnough ==
    ASSUME NEW a \in Nat, NEW b \in Nat, b > 0
    PROVE  DivUp(a, b) \in Nat /\ a * ONE <= DivUp(a, b) * b
<1>1. ONE \in Nat /\ ONE > 0 /\ a * ONE \in Nat  BY ONEAssumption, ProductNat
<1>2. CASE a = 0  BY <1>1, <1>2 DEF DivUp
<1>3. CASE a # 0
    <2>. DEFINE d == (a * ONE - 1) \div b
    <2>1. a * ONE >= 1
        <3>1. ONE * 1 <= ONE * a  BY <1>1, <1>3, ProductMono
        <3>. QED  BY <1>1, <3>1
    <2>2. a * ONE - 1 \in Nat  BY <1>1, <2>1
    <2>3. d \in Nat /\ a * ONE - 1 < d * b + b  BY <2>2, Quotient
    <2>4. DivUp(a, b) = d + 1  BY <1>3 DEF DivUp
    <2>. HIDE DEF d
    <2>5. (d + 1) * b = d * b + b /\ d * b \in Nat  BY <2>3, ProductNat
    <2>. QED  BY <1>1, <2>3, <2>4, <2>5
<1>. QED  BY <1>2, <1>3

-----------------------------------------------------------------------------
(* The invariant: the types, and a token for each share.                   *)

VaultInv == TypeOK /\ SharesBacked

\* What a step does to the worth of a share.
ShareWorthKept ==
    totalSupply > 0 => totalUnderlying' * totalSupply >= totalUnderlying * totalSupply'

\* Deposits mint at a rate that is not below what a share is worth, nor below one.
LEMMA DepositKeeps ==
    ASSUME VaultInv, NEW amount \in Amounts, DepositFor(amount)
    PROVE  VaultInv' /\ ShareWorthKept
<1>. DEFINE m == DivDown(amount, DepositRate)
<1>1. /\ ONE \in Nat /\ ONE > 0 /\ amount \in Nat /\ SharesToBurn \in Nat /\ SharesToBurn > 0
      /\ totalUnderlying \in Nat /\ totalSupply \in Nat /\ totalUnderlying >= totalSupply
    BY ONEAssumption, VaultAssumption DEF VaultInv, TypeOK, SharesBacked
<1>2. /\ DepositRate \in Nat
      /\ totalSupply > 0 => totalUnderlying * ONE <= DepositRate * totalSupply
    BY <1>1, DivUpEnough DEF DepositRate
<1>3. DepositRate >= ONE
    <2>1. CASE totalSupply = 0  BY <1>1, <2>1 DEF DepositRate
    <2>2. CASE totalSupply > 0
        <3>1. ONE * totalSupply <= ONE * totalUnderlying  BY <1>1, ProductMono
        <3>2. ONE * totalUnderlying = totalUnderlying * ONE  BY <1>1
        <3>3. /\ ONE * totalSupply \in Nat /\ totalUnderlying * ONE \in Nat
              /\ DepositRate * totalSupply \in Nat
            BY <1>1, <1>2, ProductNat
        <3>4. ONE * totalSupply <= DepositRate * totalSupply  BY <1>2, <2>2, <3>1, <3>2, <3>3
        <3>. QED  BY <1>1, <1>2, <2>2, <3>4, CancelFactor
    <2>. QED  BY <1>1, <2>1, <2>2
<1>4. m \in Nat /\ m <= amount  BY <1>1, <1>2, <1>3, DivDownBound
<1>5. m * DepositRate <= amount * ONE
    BY <1>1, <1>2, <1>3, ProductNat, Quotient DEF DivDown
<1>6. /\ totalSupply' = totalSupply + m
      /\ totalUnderlying' = totalUnderlying + amount
      /\ totalSupply = 0 => m > SharesToBurn
    BY DEF DepositFor, SupplyWithMint, BurntNow
<1>. HIDE DEF m
<1>7. VaultInv'
    <2>1. totalSupply # 0 => totalSupply >= SharesToBurn  BY DEF VaultInv, TypeOK
    <2>. QED  BY <1>1, <1>4, <1>6, <2>1 DEF VaultInv, TypeOK, SharesBacked
<1>8. ASSUME totalSupply > 0
      PROVE  totalUnderlying' * totalSupply >= totalUnderlying * totalSupply'
    <2>1. m * totalUnderlying <= amount * totalSupply
        <3>1. /\ m * DepositRate = DepositRate * m
              /\ amount * ONE = ONE * amount
              /\ DepositRate * m \in Nat /\ amount * ONE \in Nat
            BY <1>1, <1>2, <1>4, ProductNat
        <3>2. totalUnderlying * ONE <= totalSupply * DepositRate
            BY <1>1, <1>2, <1>8
        <3>3. DepositRate * m <= amount * ONE  BY <1>5, <3>1
        <3>4. totalUnderlying * m <= totalSupply * amount
            BY <1>1, <1>2, <1>4, <3>2, <3>3, ThroughPrice
        <3>. QED  BY <1>1, <1>4, <3>4
    <2>2. /\ (totalUnderlying + amount) * totalSupply
                = totalUnderlying * totalSupply + amount * totalSupply
          /\ totalUnderlying * (totalSupply + m)
                = totalUnderlying * totalSupply + m * totalUnderlying
        BY <1>1, <1>4
    <2>3. /\ totalUnderlying * totalSupply \in Nat /\ amount * totalSupply \in Nat
          /\ m * totalUnderlying \in Nat
        BY <1>1, <1>4, ProductNat
    <2>. QED  BY <1>6, <2>1, <2>2, <2>3
<1>. QED  BY <1>7, <1>8 DEF ShareWorthKept

\* Withdrawals pay at a rate that is not above what a share is worth.
LEMMA WithdrawKeeps ==
    ASSUME VaultInv, NEW v \in 1..totalSupply, Withdraw(v)
    PROVE  VaultInv' /\ ShareWorthKept
<1>. DEFINE w == MulDown(v, ExchangeRate)
<1>1. /\ ONE \in Nat /\ ONE > 0 /\ SharesToBurn \in Nat /\ SharesToBurn > 0
      /\ totalUnderlying \in Nat /\ totalSupply \in Nat /\ totalUnderlying >= totalSupply
    BY ONEAssumption, VaultAssumption DEF VaultInv, TypeOK, SharesBacked
<1>2. v \in Nat /\ v > 0 /\ totalSupply > 0 /\ v <= totalSupply - SharesToBurn
    BY <1>1 DEF Withdraw, RedeemableShares
<1>3. ExchangeRate \in Nat /\ ExchangeRate * totalSupply <= totalUnderlying * ONE
    <2>1. totalUnderlying * ONE \in Nat  BY <1>1, ProductNat
    <2>. QED  BY <1>1, <1>2, <2>1, Quotient DEF ExchangeRate, DivDown
<1>4. w \in Nat /\ w * ONE <= v * ExchangeRate
    BY <1>1, <1>2, <1>3, ProductNat, Quotient DEF MulDown
<1>5. totalSupply' = totalSupply - v /\ totalUnderlying' = totalUnderlying - w
    BY DEF Withdraw
<1>. HIDE DEF w
<1>6. w * totalSupply <= v * totalUnderlying
    BY <1>1, <1>2, <1>3, <1>4, ThroughPrice
<1>7. w <= totalUnderlying
    <2>1. totalUnderlying * v <= totalUnderlying * totalSupply  BY <1>1, <1>2, ProductMono
    <2>2. totalUnderlying * v = v * totalUnderlying  BY <1>1, <1>2
    <2>3. /\ w * totalSupply \in Nat /\ v * totalUnderlying \in Nat
          /\ totalUnderlying * totalSupply \in Nat
        BY <1>1, <1>2, <1>4, ProductNat
    <2>4. w * totalSupply <= totalUnderlying * totalSupply  BY <1>6, <2>1, <2>2, <2>3
    <2>. QED  BY <1>1, <1>2, <1>4, <2>4, CancelFactor
<1>8. totalUnderlying' * totalSupply >= totalUnderlying * totalSupply'
    <2>1. /\ (totalUnderlying - w) * totalSupply
                = totalUnderlying * totalSupply - w * totalSupply
          /\ totalUnderlying * (totalSupply - v)
                = totalUnderlying * totalSupply - v * totalUnderlying
        BY <1>1, <1>2, <1>4
    <2>2. /\ totalUnderlying * totalSupply \in Nat /\ w * totalSupply \in Nat
          /\ v * totalUnderlying \in Nat
        BY <1>1, <1>2, <1>4, ProductNat
    <2>. QED  BY <1>5, <1>6, <2>1, <2>2
<1>9. totalUnderlying' \in Nat /\ totalSupply' \in Nat /\ totalSupply' >= SharesToBurn
    BY <1>1, <1>2, <1>4, <1>5, <1>7
<1>10. totalUnderlying' >= totalSupply'
    <2>1. totalSupply' * totalSupply <= totalSupply' * totalUnderlying
        BY <1>1, <1>9, ProductMono
    <2>2. totalSupply' * totalUnderlying = totalUnderlying * totalSupply'  BY <1>1, <1>9
    <2>3. /\ totalSupply' * totalSupply \in Nat /\ totalUnderlying * totalSupply' \in Nat
          /\ totalUnderlying' * totalSupply \in Nat
        BY <1>1, <1>9, ProductNat
    <2>4. totalSupply' * totalSupply <= totalUnderlying' * totalSupply
        BY <1>8, <2>1, <2>2, <2>3
    <2>. QED  BY <1>1, <1>2, <1>9, <2>4, CancelFactor
<1>. QED  BY <1>8, <1>9, <1>10 DEF VaultInv, TypeOK, SharesBacked, ShareWorthKept

\* A direct transfer only adds tokens.
LEMMA DonateKeeps ==
    ASSUME VaultInv, NEW amount \in Amounts, Donate(amount)
    PROVE  VaultInv' /\ ShareWorthKept
<1>1. /\ amount \in Nat /\ totalUnderlying \in Nat /\ totalSupply \in Nat
      /\ totalUnderlying' = totalUnderlying + amount /\ totalSupply' = totalSupply
    BY VaultAssumption DEF VaultInv, TypeOK, Donate
<1>2. VaultInv'  BY <1>1 DEF VaultInv, TypeOK, SharesBacked
<1>3. totalSupply * totalUnderlying <= totalSupply * (totalUnderlying + amount)
    BY <1>1, ProductMono
<1>4. /\ totalSupply * totalUnderlying = totalUnderlying * totalSupply
      /\ totalSupply * (totalUnderlying + amount) = (totalUnderlying + amount) * totalSupply
    BY <1>1
<1>. QED  BY <1>1, <1>2, <1>3, <1>4 DEF ShareWorthKept

LEMMA VaultStep ==
    ASSUME VaultInv, [Next]_vars
    PROVE  VaultInv' /\ (vars' # vars => ShareWorthKept)
<1>1. CASE \E amount \in Amounts : DepositFor(amount)  BY <1>1, DepositKeeps
<1>2. CASE \E v \in 1..totalSupply : Withdraw(v)  BY <1>2, WithdrawKeeps
<1>3. CASE \E amount \in Amounts : Donate(amount)  BY <1>3, DonateKeeps
<1>4. CASE UNCHANGED vars  BY <1>4 DEF vars, VaultInv, TypeOK, SharesBacked
<1>. QED  BY <1>1, <1>2, <1>3, <1>4 DEF Next

LEMMA VaultInvInitially == Init => VaultInv
BY DEF Init, VaultInv, TypeOK, SharesBacked

LEMMA VaultInvariance == Spec => []VaultInv
<1>1. VaultInv /\ [Next]_vars => VaultInv'  BY VaultStep
<1>. QED  BY VaultInvInitially, <1>1, PTL DEF Spec

\* No withdrawal takes more tokens than the vault has, and once the shares of the first
\* deposit are burnt the supply never falls below them again.
THEOREM VaultTypeCorrect == Spec => []TypeOK
<1>1. VaultInv => TypeOK  BY DEF VaultInv
<1>. QED  BY <1>1, VaultInvariance, PTL

\* A share stands for a token at least, after any calls and direct transfers: withdrawals
\* never strand the shares that stay, and the rate of a deposit is never zero.
THEOREM SharesAlwaysBacked == Spec => []SharesBacked
<1>1. VaultInv => SharesBacked  BY DEF VaultInv
<1>. QED  BY <1>1, VaultInvariance, PTL

\* No deposit, withdrawal or direct transfer lowers what a share is worth.
THEOREM ShareValueKept == Spec => ShareValueNeverFalls
<1>1. VaultInv /\ [Next]_vars => VaultInv'  BY VaultStep
<1>2. VaultInv /\ [Next]_vars =>
        [totalSupply > 0 =>
            totalUnderlying' * totalSupply >= totalUnderlying * totalSupply']_vars
    BY VaultStep DEF ShareWorthKept
<1>. QED  BY VaultInvInitially, <1>1, <1>2, PTL DEF Spec, ShareValueNeverFalls

=============================================================================
