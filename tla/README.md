# Gyroscope core: specifications, checks and proofs

This directory is a verification development of the Gyroscope stablecoin contracts in
`src/` and of the scripts that deploy them and read their configuration back. It holds TLA+
modules translated from the Solidity and Python sources, TLC configurations
that check them on small instances, and TLAPS proofs of the results that matter most, for
every value of the constants. `PROJECT.json` maps every definition to the lines it models.

The contracts run as transactions of the EVM: one at a time, each atomic, and a revert
undoes all of it. So **an action of a module is one whole external call**, made at some
block by some caller; a `require`, an arithmetic underflow and a division by zero are
conjuncts of its guard; and interleaving means that calls of different parties come in any
order, with blocks and price moves between them. There is no crash, no lost message and no
concurrency inside a call. What is hard is the long sequences: state that one call
leaves and that another, by another party, much later, relies on.

The scripts (`scripts/`) are the other half. A script is a sequence of transactions, it may die
while it waits for any of them, and nothing undoes the ones that were mined: there **an action is one
transaction**, a script can be cut before its first, between any two and after its last, and the
operator runs it again.

## 1. Inventory

| Component | State it keeps | Operations | What makes it correct |
|---|---|---|---|
| `Motherboard` | the bootstrapping supply | `mint`, `redeem`, `mintStewardshipIncRewards`, `setBootstrappingSupply`, dry runs | GYD stays backed; the order of checkpoint, recovery burn, PAMM and transfers; `mintedSupply()` never reverts |
| `GydToken` | balances, supply | `mint`, `burnFrom`, `burn`, transfers | only the Motherboard mints |
| `PrimaryAMMV1` (PAMM) | redemption level, last block seen, parameters | `mint`, `redeem`, `setParams` | a GYD is never redeemed for more than a dollar |
| `GydRecovery` | positions, stakes, pending withdrawals, history of full burns, adjustment factor | `depositFor`, `initiateWithdrawal(Adjusted)`, `withdraw`, `checkAndRun`, `userCheckpoint`, `setWithdrawalWaitDuration`, mining | the pool covers all claims; a burn costs every provider the same share; withdrawals complete |
| `LiquidityMining` | integral of the rate over the stake, per-user integrals and shares, program | `globalCheckpoint`, `userCheckpoint`, `claimRewards`, stake, unstake, start, stop | what accrues is backed by reward tokens; users get no more than what accrued |
| `ReserveStewardshipIncentives` | the initiative, days of bad health, integral of the supply | `startInitiative`, `cancelInitiative`, `checkpoint`, `completeInitiative` | the reward follows from the average supply and from good health only |
| `VaultSafetyMode` | flow, last block seen and last safety block per vault and direction; whitelist | `checkAndPersistMint/Redeem`, `activateOracleGuardian`, `pauseProtocol`, whitelist | the volume of a block is bounded; protection lasts; vaults open again |
| `BaseVault` | shares, underlying tokens | `depositFor`, `withdraw`, `setStrategy` | no holder pays for another's rounding |
| `VaultRegistry`, `ReserveManager` | vaults and their weights, calibrations, flow parameters | `setVaults`, `updatePersistedVaultFlowParams`, `getReserveState` | weights sum to one, move without jumps, a vault of value is not dropped |
| `ReserveSafetyManager`, `RootSafetyCheck` | safety parameters, list of checks | `checkAndPersist…`, `isMintSafe`, … | weights stay near the ideal ones, off-peg vaults take no deposits |
| Oracles | price sources, signed prices, asset registry, rates | reading and posting of prices, governance | the selected price is fresh and plausible |
| `GyroConfig`, governance, proxies | keys, their types, frozen flags, governor | set, unset, freeze, transfer of governance | what is frozen stays; keys lead to the contracts in use |
| `AssetRegistry` | names, addresses, stable assets, ranges | `setAssetAddress`, `addStableAsset`, `setAssetRange`, removals | a stable asset has a range |
| Fee handler | fees per vault | `setVaultFees`, `applyFees` | fees never exceed the order |
| Deployment scripts | brownie's containers of deployed contracts, the chain | some fifty scripts, `as_singleton`, `with_deployed`, `deploy_proxy` | the protocol is wired, whatever died and was run again; every call is made by the governor of its target |
| Configuration readers | none | settings in force, all keys, known keys, calls for governance | what they print was true |
| Tools | none | dry run of a mint, transfers, traces, profiles, dependency lists | none |
| Lens, tests | none | views | none |

How they interact: an order enters through the Motherboard. It reads the state of the
reserve (`ReserveManager`, which asks registry and oracles), checkpoints the incentives, lets
the recovery module burn GYD when the collateral ratio is low, asks the PAMM for a rate,
passes the order to the safety checks (of which `VaultSafetyMode` keeps state), applies
fees, and moves GYD and vault tokens. Incentives and recovery can also be called by anybody
directly. Recovery burns change the supply the incentives and the PAMM see. Prices come
from outside. Contracts find each other through `GyroConfig`, whose keys the deployment
scripts set through the governance proxy; some contracts keep what they read there in
their constructor. The scripts find contracts in brownie's containers, where a proxy has to take
the place of its implementation, and governance makes the calls that scripts only print.

Behaviours that are hard to test, each listed at its line under `hazards` in
`PROJECT.json`: state read before a nested call and used after it (the minted supply in
`redeem`); lazily updated positions over several burns; programs and initiatives whose
windows and gaps meet checkpoints of others; rounding that accumulates against the
protocol; one safety block written by three parties; divisions by a supply that can be
zero; scripts cut while they wait for a transaction and run again; readers that put together values of
different blocks.

## 2. Modules

```
FixedPoint ─┬─ LiquidityMining ──┐
            ├─ RecoveryBurn ─────┴─ GydRecovery ── implements RecoveryPool
            │        └──────────────┐
            ├─ ReserveStewardship ──┴─ Motherboard ── implements BackedSupply
            ├─ VaultSafetyMode
            ├─ BaseVault
            └─ VaultRegistry ── ReserveManager ── ReserveSafetyManager ── ReserveOrders

GyroConfig ────┬─ ScriptUtils ── DeploymentScripts ── Deployment ── ConfigReaders
AssetRegistry ─┘
```

* **FixedPoint** (`libraries/FixedPoint.sol`). Products and quotients with their rounding.
  `ONE` is a constant: 10^18 in the code, a small number in the runs, so that the error of
  one rounding is as large as the amounts, and any `ONE` above zero in the proofs.
* **LiquidityMining**. The base contract, with a subcontract that lets everybody stake as
  `LMSpec`. Its operators are used again by `GydRecovery`, which overrides `userCheckpoint`.
* **RecoveryBurn**. When the recovery module burns and how much. Shared by the two modules
  that need it.
* **GydRecovery**. The whole contract: positions, stale positions, pending withdrawals, full,
  partial and refused burns, mining with the overridden checkpoint. The token is represented by its balances, the reserve by the
  value that a call of `checkAndRun` meets. Plain transfers to the contract are an action (`Donate`).
* **RecoveryPool**. The abstract specification: a pool, a claim per user, no adjusted amounts,
  ids or checkpoints. `GydRecovery!ImplementsPool` is the refinement, with
  `claim[u] = totalBalanceOf(u)`.
* **ReserveStewardship**. Operators for the life of an initiative, with the supply and the value of the
  reserve as parameters. It has no behaviour of its own.
* **Motherboard**. Composes orders with incentives, recovery, token, PAMM and fees, for a reserve of one vault of one
  stable asset. The PAMM is represented by the cases of `computeRedeemAmount`: one for one if
  backed, any value up to it if not. Two history variables (`supplySeconds`,
  `lowDays`) record what the incentives ought to have recorded.
* **BackedSupply**. The abstract specification: GYD held, GYD in the pool, tokens, a price. GYD is issued
  against tokens worth it, tokens are paid for GYD worth them, and a reward may only take up
  what the reserve is worth beyond the supply. No checkpoints, factors, fees, rounding or initiatives.
  `Motherboard!ImplementsBackedSupply` is the refinement; what is held there is the GYD in
  circulation less the bootstrapping supply.
* **VaultSafetyMode**. Flows, safety mode, guardians, whitelist and flow parameters. A vector
  of amounts, zeros included, is an order, since the Motherboard passes an entry for every
  vault. History: the volume of the block and the two protections due.
* **BaseVault**. Shares, rates and the burnt shares of the first deposit. Holders are
  abstracted: any caller may redeem what is not with `_DEAD`.
* **VaultRegistry**. Registered vaults, their calibrations and the schedule of a weight.
* **ReserveManager**. What `getReserveState` computes: values, current weights, target weights
  from the returns since the calibration; and `setVaults` with the dust test. The pricing of a
  vault's token is the constant operator `VaultPrice`.
* **ReserveSafetyManager**. The decision on an order: weights it results in, the band around the
  targets, rebalancing outside it, depegs, and prices too small to compute with.
* **ReserveOrders**. Composes the three with the root check, the fees per vault and the part of
  `mint` and `redeem` that moves vault tokens. What an order costs in GYD is in `Motherboard`.

* **GyroConfig**, **AssetRegistry**. The state of each contract as a value and its functions as
  operators; a call that reverts is an operator that is not enabled. `Deployment` and
  `ConfigReaders` hold the variable.
* **ScriptUtils** (`scripts/utils.py`). The chain, brownie's containers, the decorators and the
  steps a script is made of: what each needs (`Executable`) and does (`Do…`). An address is the
  contract, its number and whether it is a proxy. An implementation has no
  governor, as its constructor disables the initializer.
* **DeploymentScripts** (`scripts/deployment/*.py`, `scripts/config.py`). Each script as its
  decorators and its steps, `reserve_proxy` being `proxy` of `deploy_reserve.py`. The steps are
  evaluated when the script starts, as the Python variables are.
* **Deployment**. The operator runs the scripts of a plan; a script may be cut while it waits for
  a transaction, the last one included, and is then run again; one that reverts may be run again or left.
  A cut after the last transaction counts only if the script would run again: one that `as_singleton`
  then skips is the same as a script that ended. History: the scripts
  that ended, that reverted, and that a cut left in a state they cannot recover from (`torn`, by
  `Stuck`: skipped, its first call or its transfer of ownership refused, a vault bare or made twice).
  `PlanInOrder` says of a plan that each script comes after those it needs, `PlanIsComplete` that
  it names them all: the hypotheses of the proofs about the wiring, which TLC evaluates for the
  plan of the run.
* **ConfigReaders**. After the handover, a reader makes its calls one by one while governance
  sets, unsets and freezes keys. History: the values in force since the reader started.

`MC…` modules name what TLC needs (symmetry, sets). `…Proofs` modules hold the proofs;
`FixedPointProofs` the lemmas about products, quotients, sums and induction that the others
cite, and those about `RecoveryBurn`, which two of them share; `GydRecoveryProofs` those about
`LiquidityMining` too; `DeploymentProofs` what holds of a deployment in any order, and of the readers;
`WiringProofs` what holds of a deployment in order.
Operators marked `\* mutant:` are plausible bugs, used to test that each property can fail.

Correspondence of state: variables carry the names of the storage variables they model
(without the leading underscore); `now` is `block.timestamp`, `block` is `block.number`;
`underlying` in `GydRecovery` and `recoveryGyd` in `Motherboard` are the GYD balance of the recovery contract. Actions
carry the names of the external functions. In `Motherboard`, `CheckpointAndRecover` is what
`mint` and `redeem` call first, and it sees the supply before the burn, as the code does.

## 3. Runs

| Run | Question | Expected |
|---|---|---|
| `mining_any_start` | Do reward tokens cover what accrued, whenever programs are started? | **violated** |
| `recovery_safety` | Does the recovery module implement the abstract pool, stay solvent over full and partial burns, keep positions, stakes and pending withdrawals in step, and do withdrawals complete? | holds |
| `recovery_rewards` | And with programs started cleanly, across burns: do reward tokens cover what accrued and that the shares, and can no checkpoint revert, under the two operating rules below? | holds |
| `recovery_redeposit` | And when a stale position is deposited into? | **violated** |
| `motherboard_backing` | Do orders at any prices, recovery burns and GYD burnt by holders leave GYD backed, and is each a step of the abstract reserve? | holds |
| `motherboard_over_redeem` | Does `redeem` keep the minted supply defined? | **violated** |
| `stewardship_rewards` | Is the aggregate the integral of the supply, does a reward imply good health, are blocked orders possible again? Are rewards steps of the abstract reserve? | holds |
| `vault_safety` | Is the volume of a block bounded, does protection hold, does safety mode end? | holds |
| `base_vault` | Does a share keep its worth, and a token behind it? | holds |
| `reserve_weights` | Without fees, does a checked order leave every vault near its target or nearer, leave value in the reserve, and take in no stablecoin below its peg? Do targets add up to one, and does the schedule move smoothly? | holds |
| `reserve_fees` | And with different fees of the vaults? | **violated** |
| `deployment` | Is the protocol wired at the end of a mainnet deployment, whatever died and was run again? Which scripts revert, which cannot be repeated? Is what the readers of the configuration print true while governance changes it? | holds |

The four violations are disagreements of code and documentation, described with the quoted
lines under `findings`:

1. `startMining` over a gap with stakers accrues the new rate for the gap, more than was
   funded. `StartsCleanly` is the operating rule that excludes it.
2. A deposit into a position made stale by a full burn is credited for the time between that
   burn and the deposit. `CheckpointsBeforeDeposit` is the rule that excludes it.
3. `redeem` tests the amount against the minted supply before the recovery burn it
   triggers, so it can redeem bootstrapping supply and leave `mintedSupply()` reverting.
4. A redemption is checked with the amounts before fees and moves the amounts after fees;
   where the fees of two vaults differ, the weights that arise were never checked.

The passing runs check what remains true beside these. The restrictions they make are the
two rules above, `RedeemFees = {0}` in `reserve_weights`, and `BurnAmounts = {}` in
`stewardship_rewards`: `GydToken.burn` does not checkpoint the incentives, so with it
`AggSupplyExact` fails. Some further behaviour of the code is in the models, is worth knowing and
has no run of its own:

* an order that brings nothing to a vault replaces a guardian's protection by the shorter
  automatic one, when the flow of the vault is high (`ProtectionHolds` states what is left);
* a recalibration in the middle of a transition starts from the old target and not from the
  weight reached, so the weight jumps (`ScheduleIsSmooth` speaks of settled vaults);
* the dust test of `setVaults` uses a balance that is not scaled to 18 decimals (`Valuable`);
* a calibration price of zero makes every later `getReserveState` revert, `setVaults`
  included; it is left out of the inputs.
* three scripts revert whenever they are run (`AlwaysRevert`): `generic` of
  `deploy_vault_price_oracle.py` passes no argument to a constructor that takes one,
  `deploy_motherboard.py proxy` calls `addManager` on the implementation of the reserve, and `set_vaults`
  calls the reserve manager from the deployer. The last steps of these deployments were done by hand;
* ten scripts cannot be made good by running them again after a cut (`NotRepeatable`): three that
  deploy and then set a key, two that start with a call that cannot be repeated, the governance proxy,
  whose last transaction gives away the ownership that a second run needs, and the four vaults;
* two changes of governance while `read_gyroconfig_pool_params.py` runs can make it print an
  effective value that was in force at no time (`EffectiveInForce` allows one change);
* `check_config_keys.py` dies when a treasury is set, an address that it reads with `getUint`;
* `misc/deploy-devnet.sh` stops at `deploy_cap_authentication.py`, which is not in the
  repository, runs the mock oracle before the batch oracle it needs, and leaves out scripts
  that `deploy_checked_price_oracle.py` waits for. `MCPlan` is its order with these corrected;
* no script sets the key of the rate manager, which `GenericVault` and its oracle read.

### Bounds

Time and counters are bounded in guards or by constants, each named in its module
(`MaxTime`, `MaxStake`, `MaxFunding`, `MaxWithdrawals`, `MaxReserve`, `GlobalSupplyCap`,
`MaxBootstrapping`, `MaxBlock`, `LastActiveBlock`, `MaxUnderlying`). Why they are enough:

* *Mining*: `ONE = 2`, two users, stakes to 3, four units of time: two programs with a gap, stops in the
  middle, claims in any order.
* *Recovery*: two users. `recovery_safety` has three GYD each and `ONE = 3`, two units of time and no
  mining: two partial burns in a row (factor 3, 2, 1), a third one that is refused since it would make
  the factor zero, full burns before and after partial ones, two pending withdrawals of different epochs,
  and a change of the waiting time while a withdrawal is pending. `recovery_rewards` has two GYD each,
  `ONE = 2`, four units of time and a program: one partial burn, several full burns, positions that miss one or
  two of them, one withdrawal. Both also change the waiting time between none and one unit, and a
  trigger above `maxTriggerCR` exercises the cap. Longer sequences of partial burns are the theorems'.
* *Motherboard*: `ONE = 4`, prices at half, three quarters, once and five quarters of the
  peg, supply to 10, so that orders can alternate with depegs and returns and the pool can be burned
  in part or whole.
* *Stewardship*: days of two time units, initiatives of three and four, so violations on one
  day, on two days, and at the edges; two initiatives in a row; over-estimated rewards. The limits of
  `startInitiative` (at least 365 days, at most 10 violations) are scaled to `MinInitiativeDuration` and
  `MaxMaxHealthViolations`, and a duration and a number of violations beyond them are tried and refused.
* *Safety mode*: vaults do not influence each other except through orders with amount zero, which are
  in the set of amounts; so one vault stands for all in the runs, and the theorem covers
  any number. Three blocks with actions, then enough blocks for every flow to decay.
* *Base vault*: every amount up to 40 tokens with rates in quarters; the state is two
  numbers, so the check is exhaustive.
* *Reserve*: two vaults that share a stablecoin, one of them with a second one; `ONE = 8`, so
  that roundings of weights are as large as the band; prices of the first stablecoin below, inside and
  above its range, and of the second below and inside: while the second alone is off its peg, orders
  mint into the vault without it and are refused for the other. `minTokenPrice` is below every price, so that
  refusal is in the model and not in the run; calibrations with and without transition, one that lists a vault twice and one whose
  weights do not add up, and a vault alone, so that vaults are dropped and come back; three units of time and
  up to three tokens of each vault (`MaxTime`, `MaxBalance`). `reserve_fees` has `ONE = 20`, so
  that the largest fee of 20% and a band of 10% can be told apart. `OrdersRebalance` is in both: it holds
  without fees and fails with different ones.

* *Deployment*: the chain is mainnet, for which the repository has vaults, feeds and
  treasuries (`DeploymentScripts` has the vaults of Polygon and of the development chain too, and no run or
  theorem about the wiring is at those); the plan has 51 scripts of some 130 transactions. One cut (`MaxCuts`) at any of
  them and one retry of a reverted script (`MaxRetries`): a
  second cut adds nothing but combinations of scripts that do not share state (the run passes
  with two as well). A cut script is run again before the next one. What an operator does by
  hand is assumed and named: the containers of `GovernanceProxy`, `GyroConfig` and `GydToken`
  list the proxy, as `build/deployments/map.json` shows (`Adopt`); `GenericVaultPriceOracle`
  is deployed (`DeployByHand`). Calls of views are assumed to answer.
* *Readers*: they start after a deployment in which nothing died, with every printed batch executed
  (`Settled`); three changes (`MaxChanges`) and two values (`Fees`) let a setting come, go and come back
  at each of the three scopes during one reader.

Symmetry of users is used where only invariants are checked, never with liveness.

### Fairness

`recovery_safety`: time passes, and the owner of a pending withdrawal executes it when the
contract allows (`WF` per withdrawal); nothing is assumed of other users or burns.
`stewardship_rewards`: time passes (`WF` on `Tick`); an empty supply blocks checkpoints
only while the initiative runs, so they come back without anybody's help.
`vault_safety`: blocks are mined (`WF` on `NextBlock`) and nothing else. Orders with
amounts end at `LastActiveBlock`, orders that bring nothing to the vault go on: the
property is that those cannot keep a vault closed.
`deployment`: the operator goes on (`WF` on `Progress`: start, skip, step, finish, revert, go on,
adopt). Nothing is assumed of cuts, of the multisig, of governance or of the readers.

## 4. Proofs

All theorems are checked by `tlapm` to the last leaf, and hold for all constants allowed by
the named assumptions (`ONEAssumption`, `LMAssumption`, `RecoveryAssumption`, …), which TLC
evaluates in the runs.

| Theorem | Argument |
|---|---|
| `LMTypeCorrect` | Each action keeps each variable in its type; the guards cover the checked subtractions. |
| `RewardsAlwaysBacked`, `RecoveryRewardsAlwaysBacked` | For programs that are not started over a gap. Inductive invariant: types, the last checkpoint is not in the future, and unclaimed rewards **plus the rate times the emission left** are at most the reward tokens held. The emission left counts from the last checkpoint while somebody stakes and from now while nobody does, since a checkpoint without stakers adds nothing. `RewardsBacked` alone is not inductive: a checkpoint adds what the program has still to pay. The second theorem is about the module with the overridden user checkpoint and the full burns that void stakes. |
| `TypeCorrect` (recovery) | Needs that a partial burn that would make the factor zero is refused, and that a factor never exceeds `ONE` (the lemmas on the burn are in `FixedPointProofs`). |
| `CheckpointAlwaysPossible` | The integrals recorded at full burns grow with the id and none exceeds the current one; a user's own integral is at most the one recorded at the first burn the user missed. |
| `LiveStakesAlwaysAddUp`, `PositionsAlwaysAddUp` | `AccountsInv`, over the positions that no full burn made stale: the total stake is the sum of their stakes, a position is its stake plus its pending withdrawals, and no withdrawal is newer than the last checkpoint of its owner. A full burn empties the sums without visiting a user. |
| `AlwaysSolvent` | The last part of `AccountsInv`: the sum of the positions times the factor is at most the GYD held times `ONE`. It is kept by deposits since adjusted amounts are rounded down, and by partial burns since the factor is. `Solvent` rounds both sides once more. |
| `SharesAlwaysCovered` | If nobody deposits into a stale position: `SharesCounted` keeps the exact amounts, in units of `1 / ONE`, that users have earned and not been credited, and their sum is at most what the contract counts as unclaimed. What is credited is rounded down. |
| `RecoveryImplementsPool` | Refinement: each step maps to a step of `RecoveryPool` or leaves it alone. `AccountsInv`, the conservation of GYD between wallets and the contract, and three facts about a rounded worth: paying in adds what is paid or one unit less, paying out takes what is paid or one unit more, a burn costs every claim its share. Executing a withdrawal of a stale position, a checkpoint and a claim of rewards change no claim. |
| `MotherboardTypeCorrect` | No operation on the supply underflows. |
| `ParBackedAlways` | Assuming a reserve of a token per GYD at the start: a mint gives at most a GYD per token since the lower bound of the price is at most one, a redemption pays at most a token per GYD since the upper bound is at least one, burns only lower the supply, and a reward is bounded by the excess of the reserve. |
| `BackingAlwaysKept` | The same argument with the value of the reserve at a fixed price: value added and taken is compared with GYD added and taken (`ValueAdded`, `ValueTaken`). |
| `MotherboardImplementsBackedSupply` | Refinement, under the assumption of `ParBackedAlways`. Types are enough of an invariant: one step of the abstract reserve for each action, from exact bounds in place of rounded ones (`MintAtPrice`, `RedeemAtPrice`, `ValueAtPrice`: GYD times `ONE` against tokens times the market price). A recovery burn takes the pool down in whichever step contains it; bootstrapping, checkpoints and time leave the abstract reserve alone. |
| `LedgerStaysBacked` | The promise of the abstract reserve, by one look at each of its steps. |
| `AggregateAlwaysExact` | Assuming no direct burns of the token (which change the supply without a checkpoint): the aggregate, extended at the present supply, is the integral. Every operation that changes the minted supply makes a checkpoint first, so no time has passed since; what makes none keeps the supply. |
| `AggregateNeverTooHigh` | With direct burns: a burn lowers the supply that the aggregate counts for the time since the last checkpoint, and nothing raises it without a checkpoint. So the error of the aggregate has one sign, at most zero. |
| `OnlyBurnsUndefineSupply`, `SupplyDefinedWithoutBurns` | What remains true of `MintedSupplyDefined`, which a run refutes. `redeem` compares with the supply before the recovery burn: if nothing is burnt the comparison is enough, so the step that breaks it burns, in the recovery module or by a holder. With no deposits in the recovery module and no holder who burns, it never breaks. |
| `RewardsAlwaysGoodHealth` | `LowDaysCounted`: the date kept with the counter is the latest low day, so a second violation of a day is not counted and the first of a later day is. Zero as "no date" is safe because time starts after day zero (`StewardshipAssumption`). A reward is at most the supply that the ratio allows less the supply there is. |
| `ProtectionAlwaysHolds`, `SafetyModeTypeCorrect` | Inductive invariant: the last safety block of a vault is never before the protection due. An order writes the current block plus the automatic duration, which is not before any protection due that is capped by that duration. Types include the decay by powers of the memory, whose recursion has to be shown to define a function (`IntPowDefined`). |
| `VolumeAlwaysWithinThreshold` | What a block has accepted is part of the flow that is remembered, since within a block nothing decays; an order that is accepted leaves the flow at most at the threshold. |
| `VaultTypeCorrect`, `SharesAlwaysBacked`, `ShareValueKept` | Rates are on the right side of the exact worth of a share, and so are the rounded amounts; the two inequalities multiply. The invariant "a token per share" needs the second one for a withdrawal. |
| `ReserveTypeCorrect` | A redemption takes at most what the guards allow, after fees (`AfterFeeBounds`); a calibration is dated now, and vaults are registered exactly where there is a calibration, so no schedule subtracts a later time and no return divides by zero. |
| `ScheduleAlwaysSmooth` | The part of the transition covered grows with time (`DeltaGrows`) and stays within the difference of the weights; at its start it is zero, so a calibration of a settled vault continues from its weight. |
| `NoMintEverIntoDepeg` | The weights that the safety manager foresees for a mint are the weights that the reserve manager sees afterwards (`WeightsForeseen`), as long as the reserve has a value; so the test before the order speaks of the state after it. Redemptions raise no balance. |
| `RedeemAlwaysLeavesValue` | Assuming `SmallDeviations`: deviations of at most half a target and fewer than `ONE / 2` vaults (in the code `ONE` is 10^18 and the deployment allows a tenth; the instance of the run meets it). If nothing were left, every weight would be zero and every vault would have passed the check with zero, so twice its target is at most its present weight plus two units (`ZeroWeightSafe`). The targets add up to `ONE` (`TargetsAre`) and the present weights to no more (`SharesOfWhole`), which leaves at least `ONE / 2` vaults. |
| `OrdersRebalanceWithoutFees` | Assuming no redeem fees: the weights foreseen for an order are those seen afterwards (`MintForeseen`, `RedeemForeseen`). It is `OrdersRebalance` for orders that leave a value. The rest of `OrdersRebalance`, orders among vaults that are worth nothing, is checked on the instance only: their weights come from the schedules, which in transitions of different lengths need not add up to one. |
| `DeployInvHolds`, `TypeCorrect` (deployment) | For any plan of the scripts (`PlanAssumption`: names of scripts, none twice). Nine parts, one per piece of state. The scripts themselves are shown to be what the invariant needs, one by one (`AllScripts`): a script deploys at the next free address, at most one contract and one proxy; it sets each key with the type of its name; only the script in `Makers` is guarded by `as_singleton` of a contract and only it deploys that contract. |
| `NothingIsLeftOut` | `as_singleton` skips on a contract that is there, and `MadeOK` says why one can be there: its script ended, reverted, runs, or was cut after its deployment, and then the cut tore it, since `as_singleton` would skip it again (`CutTears`). `NothingLeftOut` alone is not inductive. |
| `PrintedWasInForce` | `SeenOK`: the configuration the reader will have seen when nothing more changes, that is its rows and the present configuration for the keys it has not come by. A getter that answers, or catches that the key is not set, leaves it as it is; it starts as the configuration, and a change either turns it into the configuration after the change or leaves it as it was (`ChangeIsSeen`). What is printed is the narrowest scope found (`PrintsTheNarrowest`). That a getter with the wrong type is never met needs the types of `ConfigOK`. |
| `FrozenRowsAreTrue` | A row marked frozen has the value of the configuration, but for the moment between `getConfigMeta` and the getter (`RowsOK`); a key that is frozen changes no more. |
| `DeathsAreKnown` | Every key the reader takes for set is set or was unset under it (`LookupsOK`, which pairs the calls for a key), and the type it asks for is the type of the key (`TypesByName`), but for the treasuries. |
| `WiredInvHolds` | The inductive invariant of the wiring, see below. |
| `NoOtherReverts`, `NothingKeptIsStale`, `EndsWired` | Parts and consequences of it: `RevertsOK`; `KeptOK` read with the containers between two scripts; and, when every script has been passed and none reverted but those that always do, the parts of the keys, governors, ranges, checks, feeds and fees with nothing left to do. |
| `OthersRepeat` | A script that died can be started again: nothing that `as_singleton` guards is there, since the script that makes it ends with that deployment and died before (`StartsAgain`), or is skipped and so has ended; and if its new run, made from the containers as they are now, has a step at all, the first one is not refused (`FirstAgain`, by `FitExecutes`, the argument of `NoOtherReverts`). Only the governance proxy's script hands ownership over. `RepeatsOK` says that the oracle that always raises has nothing behind it. That the later steps of the new run are not refused is `NoOtherReverts`. |
| `TargetsAlwaysAddUp` | What is handed out to the first `k` vaults is the running total (each vault has one place in the sequence), and until that total is `ONE` it covers what was due to them, since each share is rounded up. So after the last vault it is `ONE`: less would not cover the whole (`SharesMakeOne`). |

**The wiring.** Four properties of the `deployment` run are about the order of the scripts: they may
fail for a plan in which a script comes before one it needs. The theorems state what
the order has to be. `Needs` pairs a script with those it must not come before, since it calls what they
deploy, reads a key they set, or lists what they list; `PlanInOrder` asks that a plan has each after those it
needs, and allows scripts to be missing, among them any that nothing needs (`EndsWired` asks for all,
`PlanIsComplete`). `ChainId = 1`, as treasuries and vaults of other chains make other scripts
revert. Retries and cuts are unbounded; a cut that leaves a script unable to recover (`torn`) ends
the claim; which scripts can be the first to be torn is `OthersCanBeRepeated`'s. Changes by governance after the handover are included.

`WiredInv` has a part that always holds (`BaseInv`: no container that `as_singleton` guards lists two,
addresses are numbered as they are made) and, while nothing is torn, sixteen parts (`SoundInv`), each about
one piece of state *and the steps of the running script that are still to come*, since between two
steps of a script nothing is finished. For each key, `LeadsOK`: after its script the key leads to the contract in
use; while its script runs, the contract is made before the key is set, and the key is set to it. `NeedsOK`: what
a running script was handed, and the scripts it needs, stay as they were when it started. `FitsOK`: each
step still to come is one its script may contain, what needs more than one transaction comes last, and a
script guarded by `as_singleton` ends with the deployment that guards it, so a cut before leaves nothing.
`GovernorsOK`: who governs each address at each moment. `InitializeOK`, `RangesOK`, `ChecksOK`,
`FeedsOK`, `FeesOK`, `VaultsOK`: for each list that a script fills in many transactions, that each entry
is there or still to come, and that none is both where adding twice would revert. `KeptOK`: what each constructor
kept. The first half of `WiringProofs` shows what each of the scripts is made of (`GoodDeploys`,
`GoodPairs`, `GoodCalls`, …, `AllGood`), so that the second half can argue over steps and not over scripts; the center is that a step
which fits its script, in a state that meets `NeedsOK`, is never refused (`FitExecutes`).

The provers have no induction over data with an operator for the predicate. Where a proof needs one,
the predicate is a set of numbers or of sets: `SetInduction` is proved from the well-foundedness of `<`,
and with it that the recursions behind `MapThenSumSet`, `IntPowDown` and the running total of the
targets define functions, and that sums do not depend on the sequence of the elements
(`FixedPointProofs`). The same way `InOrder`, a fold, is shown to list each element of a finite
set once (`InOrderEnumerates`).

Only model-checked: liveness (`WithdrawalsComplete`, `OrdersResume`, `SafetyModeEnds`, `Completes`),
which is out of the provers' reach; `OrdersRebalance` as it stands, beyond
`OrdersRebalanceWithoutFees`; and `MintedSupplyDefined`, which a run refutes.

The proofs found a mistake in the model: a script that was skipped after the one before had
reverted left the operator in the state after a revert, so that running the next script counted as a retry.
`SkipScript` now makes him ready.

## 5. Not modelled, and why

* Slippage bounds, supply caps and the dry runs of the Motherboard; the curve of the PAMM.
* The GYD side of orders over several vaults: `Motherboard` has one vault, `ReserveOrders` has several and
  leaves the GYD out.
* That tokens of a vault are sorted, which `setVaults` requires.
* Permits and allowances of tokens, events, ABI encoding, and the external actions of
  `ExternalActionExecutor`, which are arbitrary calls before an order and so only other
  actions that come first.
* Numerical pricing of Balancer pools and `LogExpMath`: real-valued powers and roots, out of
  reach of TLC and of the provers.
* Overflow: sums in the models stay far below 2^64, and the compiler reverts on overflow; the
  unchecked narrowing in `VaultSafetyMode` is of values below a threshold.
* Scripts of old deployments (`deploy_test_vaults.py`, `deploy_polygon_vaults.py`,
  `deploy_polygon_waDAI_vault.py`), which call functions and constructors that the contracts do
  not have any more; `deploy_mock_price_oracle.py`, for development chains; `post_prices`, part of the
  oracles; the upgrade and the freezing of proxies; the removal of assets from the registry.
* Tools: the dry run of a mint, one-off transfers, formatting of traces, gas profiles, lists of
  dependencies and the tables that `lib_deployment_verification.py` prints. They are sequential
  and hold no state.
* Lens contracts and test doubles.

## 6. Plan

What would add most next; each needs few new constants and no recursion.

1. **Oracles**: signed prices that arrive late, twice or out of order (`post_prices` and
   `TrustedSignerPriceOracle`); the choice of the WETH price; against the definition of a fresh
   and plausible price.
2. **PAMM**: the redemption level and its decay; monotonicity of the redemption amount.
3. **Proxies**: upgrades and freezing, with the deployment scripts that replace a contract.
4. Proofs: which of the ten scripts of `NotRepeatable` need which repair by hand after a cut.
