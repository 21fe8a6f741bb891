------------------------- MODULE ReserveOrdersProofs ------------------------
(***************************************************************************)
(* Proofs about the reserve: types, the schedule of the weights, mints     *)
(* while a stablecoin is below its peg, the sum of the targets, and the    *)
(* weights that orders leave, for any vaults, prices, amounts, fees,       *)
(* calibrations and lengths of a transition.                               *)
(***************************************************************************)
EXTENDS ReserveOrders, FixedPointProofs

-----------------------------------------------------------------------------
(* The schedule                                                            *)

\* The scheduled weight at time t.
WeightAt(metadata, t) ==
    LET since == t - metadata.timeOfCalibration
        multiplier == DivDown(since, metadata.weightTransitionDuration)
        difference == AbsSub(metadata.weightAtCalibration, metadata.weightAtPreviousCalibration)
        delta == MulDown(difference, multiplier)
    IN  IF since >= metadata.weightTransitionDuration THEN metadata.weightAtCalibration
        ELSE IF metadata.weightAtCalibration > metadata.weightAtPreviousCalibration
        THEN metadata.weightAtPreviousCalibration + delta
        ELSE metadata.weightAtPreviousCalibration - delta

\* How much of the difference has been made up after some time.
LEMMA DeltaGrows ==
    ASSUME NEW difference \in Nat, NEW duration \in Nat,
           NEW s \in Nat, NEW u \in Nat, s <= u, u < duration
    PROVE  LET early == MulDown(difference, DivDown(s, duration))
               late == MulDown(difference, DivDown(u, duration))
           IN  early \in Nat /\ late \in Nat /\ early <= late /\ late <= difference
<1>. DEFINE a == DivDown(s, duration)
            b == DivDown(u, duration)
<1>1. ONE \in Nat /\ ONE > 0 /\ duration > 0  BY ONEAssumption
<1>2. a \in Nat /\ b \in Nat  BY <1>1, DivDownNat
<1>3. s * ONE \in Nat /\ u * ONE \in Nat /\ s * ONE <= u * ONE /\ ONE * duration \in Nat
    <2>1. ONE * s <= ONE * u /\ ONE * s \in Nat /\ ONE * u \in Nat  BY <1>1, ProductMono, ProductNat
    <2>2. ONE * s = s * ONE /\ ONE * u = u * ONE  BY <1>1
    <2>. QED  BY <1>1, <2>1, <2>2, ProductNat
<1>4. a <= b
    <2>1. a * duration <= s * ONE  BY <1>1, <1>3, Quotient DEF DivDown
    <2>2. a * duration \in Nat  BY <1>2, ProductNat
    <2>3. a * duration <= u * ONE  BY <1>3, <2>1, <2>2
    <2>. HIDE DEF a
    <2>. QED  BY <1>1, <1>2, <1>3, <2>3, QuotientAtLeast DEF DivDown
<1>5. b <= ONE
    <2>1. ONE * u <= ONE * duration /\ ONE * u = u * ONE  BY <1>1, ProductMono
    <2>. QED  BY <1>1, <1>3, <2>1, QuotientAtMost DEF DivDown
<1>. HIDE DEF a, b
<1>6. /\ difference * a \in Nat /\ difference * b \in Nat
      /\ difference * a <= difference * b
    BY <1>2, <1>4, ProductMono, ProductNat
<1>7. MulDown(difference, a) \in Nat /\ MulDown(difference, b) \in Nat  BY <1>2, MulDownNat
<1>8. MulDown(difference, a) <= MulDown(difference, b)
    <2>1. MulDown(difference, a) * ONE <= difference * a
        BY <1>1, <1>6, Quotient DEF MulDown
    <2>2. MulDown(difference, a) * ONE \in Nat  BY <1>1, <1>7, ProductNat
    <2>3. MulDown(difference, a) * ONE <= difference * b  BY <1>6, <2>1, <2>2
    <2>4. MulDown(difference, a) <= (difference * b) \div ONE
        BY <1>1, <1>6, <1>7, <2>3, QuotientAtLeast
    <2>. QED  BY <2>4 DEF MulDown
<1>9. MulDown(difference, b) <= difference  BY <1>2, <1>5, MulDownBounds
<1>. QED  BY <1>7, <1>8, <1>9 DEF a, b

\* The weight moves towards the calibrated one and never past it.
LEMMA WeightApproaches ==
    ASSUME NEW metadata \in Metadata, NEW t \in Nat, NEW u \in Nat,
           metadata.timeOfCalibration <= t, t <= u
    PROVE  LET target == metadata.weightAtCalibration
           IN  \/ WeightAt(metadata, t) <= WeightAt(metadata, u)
                  /\ WeightAt(metadata, u) <= target
               \/ target <= WeightAt(metadata, u)
                  /\ WeightAt(metadata, u) <= WeightAt(metadata, t)
<1>. DEFINE target == metadata.weightAtCalibration
            previous == metadata.weightAtPreviousCalibration
            duration == metadata.weightTransitionDuration
            difference == AbsSub(target, previous)
            early == t - metadata.timeOfCalibration
            late == u - metadata.timeOfCalibration
            D(s) == MulDown(difference, DivDown(s, duration))
<1>1. /\ target \in Nat /\ previous \in Nat /\ duration \in Nat
      /\ metadata.timeOfCalibration \in Nat
    BY DEF Metadata
<1>2. early \in Nat /\ late \in Nat /\ early <= late  BY <1>1
<1>3. difference \in Nat /\ (target > previous => difference = target - previous)
                         /\ (target <= previous => difference = previous - target)
    BY <1>1 DEF AbsSub
<1>4. \A s \in {t, u} : WeightAt(metadata, s) =
        IF s - metadata.timeOfCalibration >= duration THEN target
        ELSE IF target > previous THEN previous + D(s - metadata.timeOfCalibration)
        ELSE previous - D(s - metadata.timeOfCalibration)
    BY DEF WeightAt
<1>5. /\ WeightAt(metadata, t) = IF early >= duration THEN target
            ELSE IF target > previous THEN previous + D(early) ELSE previous - D(early)
      /\ WeightAt(metadata, u) = IF late >= duration THEN target
            ELSE IF target > previous THEN previous + D(late) ELSE previous - D(late)
    BY <1>4
<1>6. early < duration => D(early) \in Nat /\ D(early) <= difference
    <2>. SUFFICES ASSUME early < duration PROVE D(early) \in Nat /\ D(early) <= difference
        OBVIOUS
    <2>. HIDE DEF difference, early, duration
    <2>1. early <= early  BY <1>2
    <2>. QED  BY <1>1, <1>2, <1>3, <2>1, DeltaGrows
<1>7. late < duration => D(late) \in Nat /\ D(late) <= difference /\ D(early) <= D(late)
    <2>. HIDE DEF difference, early, late, duration
    <2>. QED  BY <1>1, <1>2, <1>3, DeltaGrows
<1>. HIDE DEF target, previous, duration, difference, early, late, D
<1>8. CASE early >= duration
    <2>1. late >= duration  BY <1>1, <1>2, <1>8
    <2>. QED  BY <1>1, <1>5, <1>8, <2>1 DEF target
<1>9. CASE early < duration /\ late >= duration
    <2>1. WeightAt(metadata, u) = target
          /\ WeightAt(metadata, t) = IF target > previous THEN previous + D(early)
                                     ELSE previous - D(early)
        BY <1>1, <1>2, <1>5, <1>9
    <2>. QED  BY <1>1, <1>3, <1>6, <1>9, <2>1 DEF target
<1>10. CASE early < duration /\ late < duration
    <2>1. /\ WeightAt(metadata, t)
                = IF target > previous THEN previous + D(early) ELSE previous - D(early)
          /\ WeightAt(metadata, u)
                = IF target > previous THEN previous + D(late) ELSE previous - D(late)
        BY <1>1, <1>2, <1>5, <1>10
    <2>2. /\ D(early) \in Nat /\ D(late) \in Nat /\ difference \in Nat
          /\ D(late) <= difference /\ D(early) <= D(late)
        BY <1>3, <1>6, <1>7, <1>10
    <2>3. CASE target > previous
        <3>1. previous + D(early) <= previous + D(late) /\ previous + D(late) <= target
            BY <1>1, <1>3, <2>2, <2>3
        <3>. QED  BY <2>1, <2>3, <3>1 DEF target
    <2>4. CASE ~(target > previous)
        <3>1. target <= previous - D(late) /\ previous - D(late) <= previous - D(early)
            BY <1>1, <1>3, <2>2, <2>4
        <3>. QED  BY <2>1, <2>4, <3>1 DEF target
    <2>. QED  BY <2>3, <2>4
<1>. QED  BY <1>1, <1>2, <1>8, <1>9, <1>10

\* A calibration starts from the weight that the last one aimed at.
LEMMA WeightAtStart ==
    ASSUME NEW metadata \in Metadata, metadata.weightTransitionDuration > 0
    PROVE  WeightAt(metadata, metadata.timeOfCalibration) = metadata.weightAtPreviousCalibration
<1>. DEFINE duration == metadata.weightTransitionDuration
            difference == AbsSub(metadata.weightAtCalibration,
                                 metadata.weightAtPreviousCalibration)
            previous == metadata.weightAtPreviousCalibration
<1>1. /\ metadata.weightAtCalibration \in Nat /\ previous \in Nat /\ duration \in Nat
      /\ metadata.timeOfCalibration \in Nat
    BY DEF Metadata
<1>2. metadata.timeOfCalibration - metadata.timeOfCalibration = 0  BY <1>1
<1>3. difference \in Nat  BY <1>1 DEF AbsSub
<1>4. DivDown(0, duration) = 0
    <2>1. 0 * ONE = 0 /\ 0 \div duration = 0  BY <1>1, ONEAssumption
    <2>. QED  BY <2>1 DEF DivDown
<1>5. MulDown(difference, 0) = 0
    <2>1. difference * 0 = 0 /\ 0 \div ONE = 0  BY <1>3, ONEAssumption
    <2>. QED  BY <2>1 DEF MulDown
<1>6. WeightAt(metadata, metadata.timeOfCalibration)
        = IF metadata.weightAtCalibration > previous THEN previous + 0 ELSE previous - 0
    BY <1>1, <1>2, <1>4, <1>5 DEF WeightAt
<1>. QED  BY <1>1, <1>6

-----------------------------------------------------------------------------
(* Types                                                                   *)

\* What setVaults does to the registry.
LEMMA VaultsRegistered ==
    ASSUME RegistryTypeOK, NEW config \in Configurations, NEW supported,
           RegisterVaults(config, supported)
    PROVE  /\ vaultAddresses' \in Seq(Vaults)
           /\ Registered' \subseteq supported
           /\ \A v \in Vaults :
                \/ v \notin Registered' /\ vaultsMetadata'[v] = NoMetadata
                \/ /\ v \in Registered'
                   /\ \E entry \in Entries :
                        entry.vaultAddress = v /\ vaultsMetadata'[v] = Calibration(entry)
           /\ DOMAIN vaultsMetadata' = Vaults
           /\ vaultsMetadata' = [v \in Vaults |-> vaultsMetadata'[v]]
<1>. DEFINE new == [i \in DOMAIN config |-> config[i].vaultAddress]
            position(v) == CHOOSE i \in DOMAIN config : new[i] = v
<1>1. config \in Seq(Entries)  BY ConfigurationsAssumption
<1>2. new \in Seq(Vaults)
    <2>1. \A i \in DOMAIN config : config[i] \in Entries  BY <1>1
    <2>2. \A i \in DOMAIN config : config[i].vaultAddress \in Vaults  BY <2>1 DEF Entries
    <2>3. DOMAIN config = 1..Len(config) /\ Len(config) \in Nat  BY <1>1
    <2>. QED  BY <2>2, <2>3
<1>3. /\ Range(new) \subseteq supported
      /\ vaultAddresses' = new
      /\ vaultsMetadata' = [v \in Vaults |->
            IF v \in Range(new) THEN Calibration(config[position(v)]) ELSE NoMetadata]
    BY DEF RegisterVaults
<1>4. Registered' = Range(new)  BY <1>3 DEF Registered, Range
<1>5. ASSUME NEW v \in Vaults, v \in Range(new)
      PROVE  config[position(v)] \in Entries /\ config[position(v)].vaultAddress = v
    <2>1. PICK i \in DOMAIN config : new[i] = v  BY <1>5 DEF Range
    <2>2. position(v) \in DOMAIN config /\ new[position(v)] = v  BY <2>1
    <2>. HIDE DEF position
    <2>. QED  BY <1>1, <2>2
<1>. HIDE DEF new, position
<1>6. ASSUME NEW v \in Vaults
      PROVE  \/ v \notin Registered' /\ vaultsMetadata'[v] = NoMetadata
             \/ /\ v \in Registered'
                /\ \E entry \in Entries :
                    entry.vaultAddress = v /\ vaultsMetadata'[v] = Calibration(entry)
    <2>1. CASE v \in Range(new)
        <3>1. vaultsMetadata'[v] = Calibration(config[position(v)])  BY <1>3, <2>1
        <3>. QED  BY <1>4, <1>5, <2>1, <3>1
    <2>2. CASE v \notin Range(new)  BY <1>3, <1>4, <2>2
    <2>. QED  BY <2>1, <2>2
<1>. QED  BY <1>2, <1>3, <1>4, <1>6

LEMMA CalibrationType ==
    ASSUME RegistryTypeOK, NEW entry \in Entries
    PROVE  /\ Calibration(entry) \in Metadata
           /\ Calibration(entry).timeOfCalibration = now
           /\ Calibration(entry).priceAtCalibration > 0
<1>1. /\ entry.vaultAddress \in Vaults
      /\ entry.priceAtCalibration \in Nat \ {0}
      /\ entry.weightAtCalibration \in Nat
      /\ entry.weightTransitionDuration \in Nat
    BY DEF Entries
<1>2. now \in Nat /\ vaultsMetadata[entry.vaultAddress].weightAtCalibration \in Nat
    BY <1>1 DEF RegistryTypeOK, Metadata
<1>. QED  BY <1>1, <1>2 DEF Calibration, Metadata

LEMMA RegistryStep ==
    ASSUME RegistryTypeOK, NEW config \in Configurations, NEW supported,
           RegisterVaults(config, supported), now' = now
    PROVE  RegistryTypeOK'
<1>1. vaultAddresses' \in Seq(Vaults)  BY VaultsRegistered
<1>2. NoMetadata \in Metadata /\ NoMetadata.timeOfCalibration = 0
        /\ NoMetadata.priceAtCalibration = 0
    BY DEF NoMetadata, Metadata
<1>3. now \in Nat  BY DEF RegistryTypeOK
<1>4. ASSUME NEW v \in Vaults
      PROVE  /\ vaultsMetadata'[v] \in Metadata
             /\ vaultsMetadata'[v].timeOfCalibration <= now
             /\ v \in Registered' <=> vaultsMetadata'[v].priceAtCalibration > 0
    <2>1. CASE v \notin Registered' /\ vaultsMetadata'[v] = NoMetadata  BY <1>2, <1>3, <2>1
    <2>2. CASE v \in Registered' /\ \E entry \in Entries :
                entry.vaultAddress = v /\ vaultsMetadata'[v] = Calibration(entry)
        <3>1. PICK entry \in Entries : vaultsMetadata'[v] = Calibration(entry)  BY <2>2
        <3>. QED  BY <1>3, <2>2, <3>1, CalibrationType
    <2>. QED  BY <2>1, <2>2, VaultsRegistered
<1>5. vaultsMetadata' \in [Vaults -> Metadata]  BY <1>4, VaultsRegistered
<1>. QED  BY <1>1, <1>3, <1>4, <1>5 DEF RegistryTypeOK

\* What is left of an amount after the fee.
LEMMA AfterFeeBounds ==
    ASSUME TypeOK, NEW v \in Vaults, NEW amount \in Nat
    PROVE  AfterFee(v, amount) \in Nat
<1>1. vaultFees[v].redeem \in 0..ONE
    <2>1. vaultFees[v] \in Fees  BY DEF TypeOK
    <2>. QED  BY <2>1, OrdersAssumption, ONEAssumption DEF Fees
<1>2. ONE - vaultFees[v].redeem \in Nat  BY <1>1, ONEAssumption
<1>. QED  BY <1>2, MulDownNat DEF AfterFee

LEMMA RegisteredVaults ==
    ASSUME TypeOK
    PROVE  Registered \subseteq Vaults
BY DEF TypeOK, RegistryTypeOK, Registered, Range

LEMMA TypesInit ==
    ASSUME Init
    PROVE  TypeOK
<1>1. RegistryTypeOK
    <2>1. Registered = {}  BY DEF Init, RegistryInit, Registered, Range
    <2>2. NoMetadata \in Metadata /\ NoMetadata.timeOfCalibration = 0
            /\ NoMetadata.priceAtCalibration = 0
        BY DEF NoMetadata, Metadata
    <2>. QED  BY <2>1, <2>2 DEF Init, RegistryInit, RegistryTypeOK
<1>2. Registered = {}  BY DEF Init, RegistryInit, Registered, Range
<1>3. vaultFees \in [Vaults -> Fees]
    BY OrdersAssumption, ONEAssumption DEF Init, Fees
<1>. QED  BY <1>1, <1>2, <1>3 DEF Init, TypeOK

LEMMA TypesStep ==
    ASSUME TypeOK, [Next]_vars
    PROVE  TypeOK'
<1>. DEFINE Rest == /\ RegistryTypeOK
                    /\ price \in TokenPrices
                    /\ maxAllowedVaultDeviation \in Deviations
                    /\ minTokenPrice \in MinTokenPrices
                    /\ checks \subseteq {"ReserveSafetyManager"}
                    /\ vaultFees \in [Vaults -> Fees]
                    /\ \A v \in Registered : vaultFees[v].exists
<1>1. Rest /\ (TypeOK <=> Rest /\ reserveBalance \in [Vaults -> Nat])
      /\ (TypeOK' <=> Rest' /\ reserveBalance' \in [Vaults -> Nat])
    BY DEF TypeOK
<1>2. ASSUME UNCHANGED <<now, registryVars, price, safetyVars, checks, vaultFees>>
      PROVE  Rest'
    BY <1>1, <1>2 DEF registryVars, safetyVars, RegistryTypeOK, Registered, TokenPrices
<1>3. ASSUME NEW order \in Orders, Mint(order)
      PROVE  TypeOK'
    <2>1. \A v \in Registered : order[v] \in Nat
        BY OrdersAssumption DEF Orders
    <2>2. reserveBalance' \in [Vaults -> Nat]
        BY <1>3, <2>1, RegisteredVaults DEF Mint, TypeOK
    <2>. QED  BY <1>1, <1>2, <1>3, <2>2 DEF Mint
<1>4. ASSUME NEW order \in Orders, Redeem(order)
      PROVE  TypeOK'
    <2>1. \A v \in Registered : order[v] \in Nat
        BY OrdersAssumption DEF Orders
    <2>2. \A v \in Registered : AfterFee(v, order[v]) \in Nat
        BY <2>1, RegisteredVaults, AfterFeeBounds
    <2>3. \A v \in Registered : reserveBalance[v] - AfterFee(v, order[v]) \in Nat
        BY <1>4, <2>2, RegisteredVaults DEF Redeem, TypeOK
    <2>4. reserveBalance' \in [Vaults -> Nat]
        BY <1>4, <2>3 DEF Redeem, TypeOK
    <2>. QED  BY <1>1, <1>2, <1>4, <2>4 DEF Redeem
<1>5. ASSUME NEW config \in Configurations, GovernSetVaults(config)
      PROVE  TypeOK'
    <2>. DEFINE supported == {v \in Vaults : vaultFees[v].exists}
    <2>1. RegisterVaults(config, supported) /\ RegistryTypeOK /\ now' = now
        BY <1>5 DEF GovernSetVaults, SetVaults, TypeOK
    <2>2. RegistryTypeOK' /\ Registered' \subseteq supported
        BY <2>1, RegistryStep, VaultsRegistered
    <2>. QED  BY <1>5, <2>2 DEF GovernSetVaults, TypeOK, TokenPrices, safetyVars
<1>6. CASE GovernSafety
    BY <1>6 DEF GovernSafety, SetVaultMaxDeviation, SetMinTokenPrice, TypeOK, registryVars,
                RegistryTypeOK, Registered, TokenPrices
<1>7. CASE AddCheck \/ RemoveCheck
    BY <1>7 DEF AddCheck, RemoveCheck, TypeOK, registryVars, safetyVars, RegistryTypeOK,
                Registered, TokenPrices
<1>8. ASSUME NEW v \in Vaults, NEW redeemFee \in RedeemFees, SetVaultFees(v, redeemFee)
      PROVE  TypeOK'
    <2>1. redeemFee \in 0..MaxFee
        BY <1>8, OrdersAssumption, ONEAssumption DEF SetVaultFees
    <2>2. vaultFees' = [vaultFees EXCEPT ![v] = [exists |-> TRUE, redeem |-> redeemFee]]
        BY <1>8 DEF SetVaultFees
    <2>3. [exists |-> TRUE, redeem |-> redeemFee] \in Fees  BY <2>1 DEF Fees
    <2>4. vaultFees' \in [Vaults -> Fees]  BY <1>1, <2>2, <2>3
    <2>5. Registered' = Registered  BY <1>8 DEF SetVaultFees, registryVars, Registered
    <2>6. \A w \in Registered : vaultFees'[w].exists
        <3>1. \A w \in Registered : w \in Vaults /\ vaultFees[w].exists
            BY <1>1, RegisteredVaults
        <3>. QED  BY <1>1, <2>2, <3>1
    <2>. QED
        BY <1>8, <2>4, <2>5, <2>6
        DEF SetVaultFees, TypeOK, registryVars, safetyVars, RegistryTypeOK, TokenPrices
<1>9. ASSUME NEW t \in Tokens, NEW p \in Prices[t], MovePrice(t, p)
      PROVE  TypeOK'
    <2>1. price' \in TokenPrices
        BY <1>1, <1>9 DEF MovePrice, TokenPrices
    <2>. QED
        BY <1>9, <2>1 DEF MovePrice, TypeOK, registryVars, safetyVars, RegistryTypeOK, Registered
<1>10. CASE Tick
    <2>1. RegistryTypeOK'
        <3>1. now \in Nat /\ now' = now + 1 /\ UNCHANGED <<vaultAddresses, vaultsMetadata>>
            BY <1>1, <1>10 DEF Tick, registryVars, RegistryTypeOK
        <3>2. Registered' = Registered  BY <3>1 DEF Registered
        <3>3. \A v \in Vaults : vaultsMetadata[v].timeOfCalibration \in Nat
            BY <1>1 DEF RegistryTypeOK, Metadata
        <3>4. \A v \in Vaults : vaultsMetadata'[v].timeOfCalibration <= now'
            BY <1>1, <3>1, <3>3 DEF RegistryTypeOK
        <3>. QED  BY <1>1, <3>1, <3>2, <3>4 DEF RegistryTypeOK
    <2>. QED  BY <1>10, <2>1 DEF Tick, TypeOK, registryVars, safetyVars, Registered, TokenPrices
<1>11. CASE UNCHANGED vars
    BY <1>1, <1>2, <1>11 DEF vars
<1>. QED
    BY <1>3, <1>4, <1>5, <1>6, <1>7, <1>8, <1>9, <1>10, <1>11 DEF Next

\* Balances stay numbers whatever the fees are, every registered vault has its fees and
\* its calibration, and no calibration lies in the future.
THEOREM ReserveTypeCorrect == Spec => []TypeOK
<1>1. Init => TypeOK  BY TypesInit
<1>2. TypeOK /\ [Next]_vars => TypeOK'  BY TypesStep
<1>. QED  BY <1>1, <1>2, PTL DEF Spec

-----------------------------------------------------------------------------
(* The schedule over time and calibrations                                 *)

LEMMA WeightsAsSchedule ==
    \A v \in Vaults :
        /\ ScheduleWeight(vaultsMetadata[v]) = WeightAt(vaultsMetadata[v], now)
        /\ ScheduleWeight(vaultsMetadata[v])' = WeightAt(vaultsMetadata'[v], now')
BY DEF ScheduleWeight, WeightAt

LEMMA SmoothStep ==
    ASSUME TypeOK, [Next]_vars, <<now, registryVars>>' # <<now, registryVars>>,
           NEW v \in Registered
    PROVE  LET old == ScheduleWeight(vaultsMetadata[v])
               target == vaultsMetadata[v].weightAtCalibration
               new == ScheduleWeight(vaultsMetadata[v])'
           IN  IF now' # now
               THEN \/ old <= new /\ new <= target
                    \/ target <= new /\ new <= old
               ELSE (/\ v \in Registered'
                     /\ Settled(vaultsMetadata[v])
                     /\ vaultsMetadata'[v].weightTransitionDuration > 0) => new = old
<1>1. /\ v \in Vaults /\ now \in Nat /\ RegistryTypeOK
      /\ vaultsMetadata[v] \in Metadata
      /\ vaultsMetadata[v].timeOfCalibration <= now
    BY RegisteredVaults DEF TypeOK, RegistryTypeOK
<1>2. /\ ScheduleWeight(vaultsMetadata[v]) = WeightAt(vaultsMetadata[v], now)
      /\ ScheduleWeight(vaultsMetadata[v])' = WeightAt(vaultsMetadata'[v], now')
    BY <1>1, WeightsAsSchedule
<1>3. CASE Tick
    <2>1. now' = now + 1 /\ vaultsMetadata' = vaultsMetadata
        BY <1>3 DEF Tick, registryVars
    <2>2. now' \in Nat /\ now <= now' /\ now' # now  BY <1>1, <2>1
    <2>. QED  BY <1>1, <1>2, <2>1, <2>2, WeightApproaches
<1>4. ASSUME NEW config \in Configurations, GovernSetVaults(config),
             v \in Registered', Settled(vaultsMetadata[v]),
             vaultsMetadata'[v].weightTransitionDuration > 0
      PROVE  ScheduleWeight(vaultsMetadata[v])' = ScheduleWeight(vaultsMetadata[v])
    <2>. DEFINE supported == {w \in Vaults : vaultFees[w].exists}
    <2>1. RegisterVaults(config, supported) /\ now' = now
        BY <1>4 DEF GovernSetVaults, SetVaults
    <2>2. PICK entry \in Entries :
            entry.vaultAddress = v /\ vaultsMetadata'[v] = Calibration(entry)
        BY <1>1, <1>4, <2>1, VaultsRegistered
    <2>3. /\ Calibration(entry) \in Metadata
          /\ Calibration(entry).timeOfCalibration = now
          /\ Calibration(entry).weightAtPreviousCalibration
                = vaultsMetadata[v].weightAtCalibration
        BY <1>1, <2>2, CalibrationType DEF Calibration
    <2>4. WeightAt(vaultsMetadata'[v], now') = vaultsMetadata[v].weightAtCalibration
        BY <1>4, <2>1, <2>2, <2>3, WeightAtStart
    <2>5. WeightAt(vaultsMetadata[v], now) = vaultsMetadata[v].weightAtCalibration
        BY <1>4 DEF Settled, WeightAt
    <2>. QED  BY <1>2, <2>4, <2>5
<1>5. CASE \E config \in Configurations : GovernSetVaults(config)
    <2>1. now' = now  BY <1>5 DEF GovernSetVaults
    <2>. QED  BY <1>4, <1>5, <2>1
<1>. QED
    BY <1>3, <1>5
    DEF Next, Mint, Redeem, GovernSafety, AddCheck, RemoveCheck, SetVaultFees, MovePrice, vars

\* Time takes the scheduled weight of a vault towards its calibrated weight and never
\* past it, and a calibration of a vault that has arrived starts from where it is.
THEOREM ScheduleAlwaysSmooth == Spec => ScheduleIsSmooth
<1>1. TypeOK /\ [Next]_vars =>
        [<<now, registryVars>>' # <<now, registryVars>> =>
            \A v \in Registered :
                LET old == ScheduleWeight(vaultsMetadata[v])
                    target == vaultsMetadata[v].weightAtCalibration
                    new == ScheduleWeight(vaultsMetadata[v])'
                IN  IF now' # now
                    THEN \/ old <= new /\ new <= target
                         \/ target <= new /\ new <= old
                    ELSE (/\ v \in Registered'
                          /\ Settled(vaultsMetadata[v])
                          /\ vaultsMetadata'[v].weightTransitionDuration > 0) => new = old]_vars
    BY SmoothStep
<1>. QED  BY <1>1, ReserveTypeCorrect, PTL DEF Spec, ScheduleIsSmooth

-----------------------------------------------------------------------------
(* Mints while a stablecoin is below its peg                               *)

\* Only a mint raises a balance.
LEMMA OnlyMintsRaise ==
    ASSUME TypeOK, [Next]_vars, CheckedMint
    PROVE  \E order \in Orders : Mint(order) /\ IsMintSafe(order)
<1>1. PICK v \in Registered : reserveBalance'[v] > reserveBalance[v]  BY DEF CheckedMint
<1>2. v \in Vaults /\ reserveBalance[v] \in Nat  BY RegisteredVaults DEF TypeOK
<1>3. reserveBalance' # reserveBalance  BY <1>1, <1>2
<1>4. ASSUME NEW order \in Orders, Redeem(order)
      PROVE  FALSE
    <2>1. order[v] \in Nat  BY OrdersAssumption DEF Orders
    <2>2. AfterFee(v, order[v]) \in Nat  BY <1>2, <2>1, AfterFeeBounds
    <2>3. reserveBalance'[v] = reserveBalance[v] - AfterFee(v, order[v])
        BY <1>2, <1>4 DEF Redeem
    <2>. QED  BY <1>1, <1>2, <2>2, <2>3
<1>5. ASSUME NEW order \in Orders, Mint(order)
      PROVE  IsMintSafe(order)
    BY <1>5 DEF Mint, CheckedMint
<1>. QED
    BY <1>3, <1>4, <1>5
    DEF Next, GovernSetVaults, GovernSafety, AddCheck, RemoveCheck, SetVaultFees, MovePrice,
        Tick, vars

\* The weights that the safety manager computes for the balances that result are the
\* weights that the reserve manager sees afterwards, as long as the reserve is worth
\* something.
LEMMA WeightsForeseen ==
    ASSUME NEW resulting, Registered' = Registered, VaultPrices' = VaultPrices,
           \A v \in Registered : resulting[v] = reserveBalance'[v],
           ReserveUSDValue' > 0
    PROVE  CurrentWeights' = ResultingWeights(resulting)
<1>1. UsdValues(reserveBalance)' = UsdValues(resulting)
    <2>1. UsdValues(reserveBalance)'
            = [v \in Registered |-> MulDown(VaultPrices[v], reserveBalance'[v] * Scale[v])]
        BY DEF UsdValues
    <2>2. UsdValues(resulting)
            = [v \in Registered |-> MulDown(VaultPrices[v], resulting[v] * Scale[v])]
        BY DEF UsdValues
    <2>. QED  BY <2>1, <2>2
<1>2. ReserveUSDValue' = SumOf(UsdValues(resulting))  BY <1>1 DEF ReserveUSDValue
<1>3. SumOf(UsdValues(resulting)) # 0
    <2>. SUFFICES ASSUME SumOf(UsdValues(resulting)) = 0 PROVE FALSE  OBVIOUS
    <2>1. ReserveUSDValue' = 0  BY <1>2
    <2>2. \A x : x = 0 /\ x > 0 => FALSE  OBVIOUS
    <2>. QED  BY <2>1, <2>2
<1>4. CurrentWeights' = [v \in Registered |->
        DivDown(UsdValues(resulting)[v], SumOf(UsdValues(resulting)))]
    BY <1>1, <1>3 DEF CurrentWeights
<1>5. ResultingWeights(resulting) = [v \in Registered |->
        DivDown(UsdValues(resulting)[v], SumOf(UsdValues(resulting)))]
    BY <1>3 DEF ResultingWeights
<1>. QED  BY <1>4, <1>5

LEMMA MintForeseen ==
    ASSUME TypeOK, NEW order \in Orders, Mint(order), ReserveUSDValue' > 0
    PROVE  CurrentWeights' = ResultingWeights(Resulting(TRUE, order))
<1>. DEFINE resulting == Resulting(TRUE, order)
<1>1. Registered' = Registered /\ VaultPrices' = VaultPrices
    BY DEF Mint, registryVars, Registered, VaultPrices
<1>2. \A v \in Registered : resulting[v] = reserveBalance'[v]
    BY RegisteredVaults DEF Mint, Resulting
<1>. HIDE DEF resulting
<1>3. CurrentWeights' = ResultingWeights(resulting)  BY <1>1, <1>2, WeightsForeseen
<1>. QED  BY <1>3 DEF resulting

LEMMA DepegStep ==
    ASSUME TypeOK, [Next]_vars, \E v \in Registered : BelowPeg(v), CheckedMint,
           ReserveUSDValue' > 0, NEW w \in Registered, OffPeg(w)
    PROVE  CurrentWeights'[w] < CurrentWeights[w]
<1>1. PICK order \in Orders : Mint(order) /\ IsMintSafe(order)  BY OnlyMintsRaise
<1>2. StablecoinSafe(ResultingWeights(Resulting(TRUE, order)))  BY <1>1 DEF IsMintSafe
<1>3. ResultingWeights(Resulting(TRUE, order))[w] < CurrentWeights[w]
    BY <1>2 DEF StablecoinSafe
<1>. QED  BY <1>1, <1>3, MintForeseen

\* While a stablecoin is below its peg, every mint lowers the weight of every vault that
\* has a stablecoin off its peg.
THEOREM NoMintEverIntoDepeg == Spec => NoMintIntoDepeg
<1>1. TypeOK /\ [Next]_vars =>
        [(\E v \in Registered : BelowPeg(v)) /\ CheckedMint /\ ReserveUSDValue' > 0 =>
            LET before == CurrentWeights
                after == CurrentWeights'
            IN  \A v \in Registered : OffPeg(v) => after[v] < before[v]]_vars
    BY DepegStep
<1>. QED  BY <1>1, ReserveTypeCorrect, PTL DEF Spec, NoMintIntoDepeg

-----------------------------------------------------------------------------
(* The targets                                                             *)

\* Shares x handed out in turn until the total is ONE: what has been handed out up to each.
HandedOut(x, n, total) ==
    total = [i \in 0..n |-> IF i = 0 THEN 0 ELSE MinOf(total[i - 1] + x[i], ONE)]

LEMMA HandedOutExists ==
    ASSUME NEW n \in Nat, NEW x, \A i \in 1..n : x[i] \in Nat
    PROVE  \E total \in [0..n -> 0..ONE] : HandedOut(x, n, total)
<1>. DEFINE Good == {k \in Nat : k <= n => \E total \in [0..k -> 0..ONE] : HandedOut(x, k, total)}
<1>1. 0 \in Good
    <2>. DEFINE total == [i \in 0..0 |-> 0]
    <2>1. total \in [0..0 -> 0..ONE]  BY ONEAssumption
    <2>2. HandedOut(x, 0, total)
        <3>1. \A i \in 0..0 : i = 0  OBVIOUS
        <3>. QED  BY <3>1 DEF HandedOut
    <2>. QED  BY <2>1, <2>2
<1>2. ASSUME NEW k \in Nat, k \in Good
      PROVE  k + 1 \in Good
    <2>. SUFFICES ASSUME k + 1 <= n
                  PROVE  \E total \in [0..(k + 1) -> 0..ONE] : HandedOut(x, k + 1, total)
        OBVIOUS
    <2>1. PICK total \in [0..k -> 0..ONE] : HandedOut(x, k, total)  BY <1>2
    <2>. DEFINE next == MinOf(total[k] + x[k + 1], ONE)
                more == [i \in 0..(k + 1) |-> IF i <= k THEN total[i] ELSE next]
    <2>2. next \in 0..ONE
        <3>1. total[k] \in Nat /\ x[k + 1] \in Nat /\ ONE \in Nat  BY ONEAssumption
        <3>. QED  BY <3>1 DEF MinOf
    <2>. HIDE DEF next
    <2>3. more \in [0..(k + 1) -> 0..ONE]  BY <2>2
    <2>4. ASSUME NEW i \in 0..(k + 1)
          PROVE  more[i] = IF i = 0 THEN 0 ELSE MinOf(more[i - 1] + x[i], ONE)
        <3>1. CASE i <= k
            <4>1. i \in 0..k /\ (i # 0 => i - 1 \in 0..k /\ i - 1 \in 0..(k + 1) /\ i - 1 <= k)
                BY <3>1
            <4>2. total[i] = IF i = 0 THEN 0 ELSE MinOf(total[i - 1] + x[i], ONE)
                BY <2>1, <4>1 DEF HandedOut
            <4>3. more[i] = total[i] /\ (i # 0 => more[i - 1] = total[i - 1])  BY <3>1, <4>1
            <4>. HIDE DEF more
            <4>. QED  BY <4>2, <4>3
        <3>2. CASE i = k + 1
            <4>1. more[i] = next /\ i - 1 = k /\ more[i - 1] = total[k] /\ i # 0  BY <3>2
            <4>. HIDE DEF more
            <4>. QED  BY <3>2, <4>1 DEF next
        <3>. QED  BY <3>1, <3>2
    <2>5. HandedOut(x, k + 1, more)
        <3>1. more = [i \in 0..(k + 1) |-> more[i]]  OBVIOUS
        <3>. HIDE DEF more
        <3>. QED  BY <2>4, <3>1 DEF HandedOut
    <2>. HIDE DEF more
    <2>. QED  BY <2>3, <2>5
<1>3. n \in Good
    <2>. HIDE DEF Good
    <2>. QED  BY <1>1, <1>2, SetInduction
<1>. QED  BY <1>3

\* Nothing else is a total of that kind.
LEMMA HandedOutType ==
    ASSUME NEW n \in Nat, NEW x, \A i \in 1..n : x[i] \in Nat, NEW total, HandedOut(x, n, total)
    PROVE  total \in [0..n -> 0..ONE]
<1>. DEFINE Good == {k \in Nat : k <= n => total[k] \in 0..ONE}
<1>1. 0 \in Good
    <2>1. total[0] = 0  BY DEF HandedOut
    <2>. QED  BY <2>1, ONEAssumption
<1>2. ASSUME NEW k \in Nat, k \in Good
      PROVE  k + 1 \in Good
    <2>. SUFFICES ASSUME k + 1 <= n PROVE total[k + 1] \in 0..ONE  OBVIOUS
    <2>1. k + 1 \in 0..n /\ k + 1 # 0 /\ k + 1 - 1 = k /\ k + 1 \in 1..n  OBVIOUS
    <2>2. total[k] \in 0..ONE /\ x[k + 1] \in Nat  BY <1>2, <2>1
    <2>3. total[k + 1] = MinOf(total[k] + x[k + 1], ONE)  BY <2>1 DEF HandedOut
    <2>. QED  BY <2>2, <2>3, ONEAssumption DEF MinOf
<1>3. \A k \in Nat : k \in Good
    <2>. HIDE DEF Good
    <2>. QED  BY <1>1, <1>2, SetInduction
<1>4. \A i \in 0..n : total[i] \in 0..ONE  BY <1>3
<1>5. total = [i \in 0..n |-> total[i]]  BY DEF HandedOut
<1>. QED  BY <1>4, <1>5

\* Every element of S has one place among n.
Places(S, n, place) ==
    /\ place \in [1..n -> S]
    /\ \A v \in S : \E i \in 1..n : place[i] = v
    /\ \A i, j \in 1..n : place[i] = place[j] => i = j

\* The share of an element is its part of the whole, rounded up, and the part of it that is
\* handed out is what the total grows by.
SharesOf(r, whole, n, place, x) == \A i \in 1..n : x[i] = DivUp(r[place[i]], whole)

PartsOf(total, n, place, d) == \A i \in 1..n : d[place[i]] = total[i] - total[i - 1]

\* The elements with one of the first k places.
FirstPlaces(place, k) == {place[i] : i \in 1..k}

LEMMA NextPlace ==
    ASSUME NEW S, NEW n \in Nat, NEW place, Places(S, n, place), NEW k \in Nat, k + 1 <= n
    PROVE  /\ place[k + 1] \in S
           /\ FirstPlaces(place, k) \in SUBSET S
           /\ place[k + 1] \notin FirstPlaces(place, k)
           /\ FirstPlaces(place, k + 1) = FirstPlaces(place, k) \cup {place[k + 1]}
<1>1. k + 1 \in 1..n /\ \A j \in 1..k : j \in 1..n /\ j # k + 1  OBVIOUS
<1>2. place[k + 1] \in S /\ \A j \in 1..n : place[j] \in S  BY <1>1 DEF Places
<1>3. FirstPlaces(place, k) \in SUBSET S  BY <1>1, <1>2 DEF FirstPlaces
<1>4. \A j \in 1..k : place[j] # place[k + 1]  BY <1>1 DEF Places
<1>5. \A j : j \in 1..(k + 1) <=> j \in 1..k \/ j = k + 1  OBVIOUS
<1>6. FirstPlaces(place, k + 1) = FirstPlaces(place, k) \cup {place[k + 1]}
    BY ONLY <1>5 DEF FirstPlaces
<1>. QED  BY <1>2, <1>3, <1>4, <1>6 DEF FirstPlaces

\* What a share is, what is handed out of it, and that the total does not shrink.
LEMMA NextShare ==
    ASSUME NEW S, NEW n \in Nat, NEW place, Places(S, n, place),
           NEW r, \A v \in S : r[v] \in Nat, NEW whole \in Nat, whole > 0,
           NEW x, SharesOf(r, whole, n, place, x),
           NEW total \in [0..n -> 0..ONE], HandedOut(x, n, total),
           NEW i \in 1..n
    PROVE  /\ r[place[i]] \in Nat /\ x[i] \in Nat /\ r[place[i]] * ONE <= x[i] * whole
           /\ total[i] \in 0..ONE /\ total[i - 1] \in 0..ONE
           /\ total[i] = MinOf(total[i - 1] + x[i], ONE)
           /\ total[i - 1] <= total[i]
<1>1. i - 1 \in 0..n /\ i \in 0..n /\ i # 0  OBVIOUS
<1>2. place[i] \in S  BY DEF Places
<1>3. r[place[i]] \in Nat  BY <1>2
<1>4. x[i] = DivUp(r[place[i]], whole)  BY DEF SharesOf
<1>5. x[i] \in Nat /\ r[place[i]] * ONE <= x[i] * whole  BY <1>3, <1>4, DivUpCovers
<1>6. total[i] = MinOf(total[i - 1] + x[i], ONE)  BY <1>1 DEF HandedOut
<1>7. total[i] \in 0..ONE /\ total[i - 1] \in 0..ONE  BY <1>1
<1>8. total[i - 1] <= total[i]
    <2>. DEFINE t == total[i - 1]  y == x[i]
    <2>1. t \in 0..ONE /\ y \in Nat /\ ONE \in Nat /\ total[i] = MinOf(t + y, ONE)
        BY <1>5, <1>6, <1>7, ONEAssumption
    <2>. HIDE DEF t, y
    <2>2. t <= total[i]  BY ONLY <2>1 DEF MinOf
    <2>. QED  BY <2>2 DEF t
<1>. QED  BY <1>3, <1>5, <1>6, <1>7, <1>8

\* Shares rounded up of a whole that is not zero, handed out in turn, hand out exactly ONE:
\* until the total is ONE, what is handed out covers its part of the whole.
LEMMA SharesMakeOne ==
    ASSUME NEW S, IsFiniteSet(S), NEW n \in Nat, NEW place, Places(S, n, place),
           NEW r, \A v \in S : r[v] \in Nat, Total(r, S) > 0,
           NEW x, SharesOf(r, Total(r, S), n, place, x),
           NEW total \in [0..n -> 0..ONE], HandedOut(x, n, total),
           NEW d, PartsOf(total, n, place, d)
    PROVE  (\A v \in S : d[v] \in Nat) /\ Total(d, S) = ONE
<1>. DEFINE whole == Total(r, S)
<1>1. ONE \in Nat /\ ONE > 0 /\ whole \in Nat /\ whole > 0
    <2>1. Total(r, S) \in Nat  BY TotalStep
    <2>. QED  BY <2>1, ONEAssumption
<1>2. SharesOf(r, whole, n, place, x)  OBVIOUS
<1>. HIDE DEF whole
<1>a. ASSUME NEW i \in 1..n
      PROVE  /\ r[place[i]] \in Nat /\ x[i] \in Nat /\ r[place[i]] * ONE <= x[i] * whole
             /\ total[i] \in 0..ONE /\ total[i - 1] \in 0..ONE
             /\ total[i] = MinOf(total[i - 1] + x[i], ONE)
             /\ total[i - 1] <= total[i]
    BY <1>1, <1>2, NextShare
<1>3. ASSUME NEW v \in S
      PROVE  d[v] \in Nat
    <2>1. PICK i \in 1..n : place[i] = v  BY DEF Places
    <2>2. d[v] = total[i] - total[i - 1]  BY <2>1 DEF PartsOf
    <2>3. total[i] \in 0..ONE /\ total[i - 1] \in 0..ONE /\ total[i - 1] <= total[i]
        BY <1>a
    <2>. QED  BY <1>1, <2>2, <2>3
<1>. DEFINE Good == {k \in Nat : k <= n =>
                /\ Total(d, FirstPlaces(place, k)) = total[k]
                /\ total[k] = ONE \/ Total(r, FirstPlaces(place, k)) * ONE <= total[k] * whole}
<1>4. 0 \in Good
    <2>1. FirstPlaces(place, 0) = {}  BY DEF FirstPlaces
    <2>2. Total(d, {}) = 0 /\ Total(r, {}) = 0  BY FS_EmptySet, TotalOfNothing
    <2>3. total[0] = 0  BY DEF HandedOut
    <2>4. 0 * ONE <= 0 * whole  BY <1>1
    <2>. QED  BY <2>1, <2>2, <2>3, <2>4
<1>5. ASSUME NEW k \in Nat, k \in Good
      PROVE  k + 1 \in Good
    <2>. DEFINE s == FirstPlaces(place, k)
                v == place[k + 1]
                more == FirstPlaces(place, k + 1)
                new == total[k + 1]
    <2>. SUFFICES ASSUME k + 1 <= n
                  PROVE  /\ Total(d, more) = new
                         /\ new = ONE \/ Total(r, more) * ONE <= new * whole
        OBVIOUS
    <2>1. k + 1 \in 1..n /\ k + 1 - 1 = k /\ k <= n  OBVIOUS
    <2>2. v \in S /\ s \in SUBSET S /\ v \notin s /\ more = s \cup {v}
        BY NextPlace
    <2>3. Total(d, s) = total[k] /\ (total[k] = ONE \/ Total(r, s) * ONE <= total[k] * whole)
        BY <1>5, <2>1
    <2>4. /\ r[v] \in Nat /\ x[k + 1] \in Nat /\ r[v] * ONE <= x[k + 1] * whole
          /\ new \in 0..ONE /\ total[k] \in 0..ONE
          /\ new = MinOf(total[k] + x[k + 1], ONE)
        <3>. DEFINE i == k + 1
        <3>1. i \in 1..n /\ i - 1 = k /\ v = place[i] /\ new = total[i] /\ x[k + 1] = x[i]
            BY <2>1
        <3>. HIDE DEF i, v, new
        <3>. QED  BY <1>a, <3>1
    <2>5. d[v] = new - total[k]  BY <2>1 DEF PartsOf
    <2>. HIDE DEF s, v, more, new
    <2>6. Total(d, more) = d[v] + Total(d, s)  BY <1>3, <2>2, TotalAdd
    <2>7. Total(r, more) = r[v] + Total(r, s) /\ Total(r, s) \in Nat  BY <2>2, TotalAdd
    <2>. DEFINE a == r[v]
                b == Total(r, s)
                t == total[k]
                y == x[k + 1]
                handed == Total(d, s)
    <2>8. /\ a \in Nat /\ b \in Nat /\ t \in 0..ONE /\ y \in Nat /\ new \in 0..ONE
          /\ a * ONE <= y * whole /\ new = MinOf(t + y, ONE)
          /\ handed = t /\ (t = ONE \/ b * ONE <= t * whole)
          /\ d[v] = new - t /\ Total(d, more) = d[v] + handed /\ Total(r, more) = a + b
        BY <2>3, <2>4, <2>5, <2>6, <2>7
    <2>. HIDE DEF a, b, t, y, handed
    <2>9. Total(d, more) = new  BY ONLY <1>1, <2>8
    <2>10. ASSUME new # ONE
           PROVE  Total(r, more) * ONE <= new * whole
        <3>1. new = t + y /\ t # ONE /\ t \in Nat  BY ONLY <1>1, <2>8, <2>10 DEF MinOf
        <3>2. (a + b) * ONE = a * ONE + b * ONE /\ (t + y) * whole = t * whole + y * whole
            <4>1. ONE * (a + b) = ONE * a + ONE * b /\ whole * (t + y) = whole * t + whole * y
                BY ONLY <1>1, <2>8, <3>1, ProductOfSum
            <4>. QED  BY ONLY <1>1, <2>8, <3>1, <4>1
        <3>3. a * ONE \in Nat /\ b * ONE \in Nat /\ t * whole \in Nat /\ y * whole \in Nat
            BY ONLY <1>1, <2>8, <3>1, ProductNat
        <3>4. (a + b) * ONE <= (t + y) * whole  BY ONLY <2>8, <3>1, <3>2, <3>3
        <3>. QED  BY ONLY <2>8, <3>1, <3>4
    <2>. QED  BY <2>9, <2>10
<1>6. n \in Good
    <2>. HIDE DEF Good
    <2>. QED  BY <1>4, <1>5, SetInduction
<1>7. FirstPlaces(place, n) = S  BY DEF FirstPlaces, Places
<1>8. Total(d, S) = total[n] /\ (total[n] = ONE \/ whole * ONE <= total[n] * whole)
    BY <1>6, <1>7 DEF whole
<1>9. total[n] = ONE
    <2>. DEFINE t == total[n]
    <2>1. t \in 0..ONE
        <3>1. n \in 0..n  OBVIOUS
        <3>. QED  BY <3>1
    <2>2. t = ONE \/ whole * ONE <= t * whole  BY <1>8
    <2>. HIDE DEF t
    <2>3. ASSUME whole * ONE <= t * whole PROVE t = ONE
        <3>1. t \in Nat /\ ONE * whole <= t * whole  BY ONLY <1>1, <2>1, <2>3
        <3>2. ONE <= t  BY ONLY <1>1, <3>1, CancelFactor
        <3>. QED  BY ONLY <1>1, <2>1, <3>2
    <2>. QED  BY <2>2, <2>3 DEF t
<1>. QED  BY <1>3, <1>8, <1>9

\* A scheduled weight is a number, and so is the return of a vault that it is moved by.
LEMMA WeightNat ==
    ASSUME NEW metadata \in Metadata, NEW t \in Nat, metadata.timeOfCalibration <= t
    PROVE  WeightAt(metadata, t) \in Nat
<1>. DEFINE target == metadata.weightAtCalibration
            previous == metadata.weightAtPreviousCalibration
            duration == metadata.weightTransitionDuration
            difference == AbsSub(target, previous)
            since == t - metadata.timeOfCalibration
            delta == MulDown(difference, DivDown(since, duration))
<1>1. /\ target \in Nat /\ previous \in Nat /\ duration \in Nat
      /\ metadata.timeOfCalibration \in Nat /\ since \in Nat
    BY DEF Metadata
<1>2. difference \in Nat /\ (target > previous => difference = target - previous)
                         /\ (target <= previous => difference = previous - target)
    BY <1>1 DEF AbsSub
<1>3. WeightAt(metadata, t) = IF since >= duration THEN target
                              ELSE IF target > previous THEN previous + delta
                              ELSE previous - delta
    BY DEF WeightAt
<1>4. since < duration => delta \in Nat /\ delta <= difference
    <2>. HIDE DEF difference, since, duration
    <2>1. since <= since  BY <1>1
    <2>. QED  BY <1>1, <1>2, <2>1, DeltaGrows
<1>. HIDE DEF target, previous, duration, difference, since, delta
<1>. QED  BY <1>1, <1>2, <1>3, <1>4

LEMMA ReturnsNat ==
    ASSUME TypeOK
    PROVE  \A v \in Registered : WeightedReturns[v] \in Nat
<1>. SUFFICES ASSUME NEW v \in Registered PROVE WeightedReturns[v] \in Nat  OBVIOUS
<1>. DEFINE p == VaultPrices[v]
            m == vaultsMetadata[v]
<1>1. v \in Vaults  BY RegisteredVaults
<1>2. m \in Metadata /\ m.timeOfCalibration <= now /\ now \in Nat
      /\ m.priceAtCalibration \in Nat /\ m.priceAtCalibration > 0
    BY <1>1 DEF TypeOK, RegistryTypeOK, Metadata
<1>3. ScheduleWeight(m) \in Nat  BY <1>1, <1>2, WeightNat, WeightsAsSchedule
<1>4. p \in Nat  BY <1>1, VaultPriceAssumption DEF TypeOK, VaultPrices
<1>5. WeightedReturns[v] = MulDown(DivDown(p, m.priceAtCalibration), ScheduleWeight(m))
    BY DEF WeightedReturns
<1>. HIDE DEF p, m
<1>6. DivDown(p, m.priceAtCalibration) \in Nat  BY <1>2, <1>4, DivDownNat
<1>. QED  BY <1>3, <1>5, <1>6, MulDownNat

LEMMA SumIsTotal ==
    ASSUME NEW f, NEW S, DOMAIN f = S, IsFiniteSet(S), \A v \in S : f[v] \in Nat
    PROVE  SumOf(f) = Total(f, S)
<1>. DEFINE Q(sum) == sum = [s \in SUBSET S |->
                IF s = {} THEN 0 ELSE f[CHOOSE x \in s : TRUE] + sum[s \ {CHOOSE x \in s : TRUE}]]
<1>1. SumOf(f) = (CHOOSE sum : Q(sum))[S]
    BY DEF SumOf, MapThenSumSet, MapThenFoldSet
<1>2. \A sum : Q(sum) <=> SumTable(f, S, sum)
    BY DEF SumTable, SumStep, First
<1>. HIDE DEF Q
<1>3. SumTable(f, S, CHOOSE sum : Q(sum))
    <2>1. PICK sum : SumTable(f, S, sum)  BY SumTableExists
    <2>2. Q(sum)  BY <1>2, <2>1
    <2>. QED  BY <1>2, <2>2
<1>4. (CHOOSE sum : Q(sum))[S] = Total(f, S)  BY <1>3, TotalOfTable
<1>. QED  BY <1>1, <1>4

\* The vaults have one place each in the sequence of vaults.
PlacesOK == IsInjective(vaultAddresses)

LEMMA VaultPlaces ==
    ASSUME TypeOK, PlacesOK
    PROVE  /\ Places(Registered, Len(vaultAddresses), vaultAddresses)
           /\ Len(vaultAddresses) \in Nat
           /\ DOMAIN vaultAddresses = 1..Len(vaultAddresses)
           /\ IsFiniteSet(Registered)
<1>1. /\ vaultAddresses \in Seq(Vaults) /\ Len(vaultAddresses) \in Nat
      /\ DOMAIN vaultAddresses = 1..Len(vaultAddresses)
    BY DEF TypeOK, RegistryTypeOK
<1>2. Registered = {vaultAddresses[i] : i \in 1..Len(vaultAddresses)}
    BY <1>1 DEF Registered, Range
<1>3. Places(Registered, Len(vaultAddresses), vaultAddresses)
    <2>1. vaultAddresses \in [1..Len(vaultAddresses) -> Registered]  BY <1>1, <1>2
    <2>2. \A v \in Registered : \E i \in 1..Len(vaultAddresses) : vaultAddresses[i] = v
        BY <1>2
    <2>3. \A i, j \in 1..Len(vaultAddresses) : vaultAddresses[i] = vaultAddresses[j] => i = j
        BY <1>1 DEF PlacesOK, IsInjective
    <2>. QED  BY <2>1, <2>2, <2>3 DEF Places
<1>4. IsFiniteSet(1..Len(vaultAddresses))  BY <1>1, FS_Interval
<1>5. IsFiniteSet(Registered)
    <2>1. vaultAddresses \in Surjection(1..Len(vaultAddresses), Registered)
        BY <1>3 DEF Places, Surjection
    <2>. QED  BY <1>4, <2>1, FS_Surjection
<1>. QED  BY <1>1, <1>3, <1>5

\* Where there are returns, the targets are numbers that add up to ONE.
LEMMA TargetsAre ==
    ASSUME TypeOK, PlacesOK, SumOf(WeightedReturns) > 0
    PROVE  /\ \A v \in Registered : TargetWeights[v] \in Nat
           /\ DOMAIN TargetWeights = Registered
           /\ Total(TargetWeights, Registered) = ONE
<1>. DEFINE r == WeightedReturns
            n == Len(vaultAddresses)
            whole == SumOf(r)
            x == [i \in 1..n |-> DivUp(r[vaultAddresses[i]], whole)]
            Q(total) == total = [i \in 0..n |->
                            IF i = 0 THEN 0
                            ELSE MinOf(total[i - 1] + DivUp(r[vaultAddresses[i]], whole), ONE)]
            handed == CHOOSE total : Q(total)
            position(v) == CHOOSE i \in DOMAIN vaultAddresses : vaultAddresses[i] = v
<1>a. whole > 0  OBVIOUS
<1>1. /\ Places(Registered, n, vaultAddresses) /\ n \in Nat /\ DOMAIN vaultAddresses = 1..n
      /\ IsFiniteSet(Registered)
    BY VaultPlaces
<1>2. DOMAIN r = Registered /\ \A v \in Registered : r[v] \in Nat
    BY ReturnsNat DEF WeightedReturns
<1>. HIDE DEF r
<1>3. whole = Total(r, Registered) /\ whole \in Nat
    <2>1. whole = Total(r, Registered)  BY <1>1, <1>2, SumIsTotal
    <2>. QED  BY <1>1, <1>2, <2>1, TotalStep
<1>4. TargetWeights = [v \in Registered |->
            IF whole = 0 THEN 0 ELSE handed[position(v)] - handed[position(v) - 1]]
    BY DEF TargetWeights, r
<1>. HIDE DEF whole, n
<1>5. \A i \in 1..n : x[i] = DivUp(r[vaultAddresses[i]], whole) /\ x[i] \in Nat
    <2>. SUFFICES ASSUME NEW i \in 1..n PROVE DivUp(r[vaultAddresses[i]], whole) \in Nat
        OBVIOUS
    <2>1. r[vaultAddresses[i]] \in Nat  BY <1>1, <1>2 DEF Places
    <2>. QED  BY <1>3, <1>a, <2>1, DivUpCovers
<1>. HIDE DEF x
<1>6. \A total : Q(total) <=> HandedOut(x, n, total)
    <2>1. \A i \in 0..n : i # 0 => x[i] = DivUp(r[vaultAddresses[i]], whole)
        BY <1>1, <1>5
    <2>. QED  BY <2>1 DEF HandedOut
<1>. HIDE DEF Q
<1>7. HandedOut(x, n, handed)
    <2>1. PICK total : HandedOut(x, n, total)  BY <1>1, <1>5, HandedOutExists
    <2>2. Q(total)  BY <1>6, <2>1
    <2>. QED  BY <1>6, <2>2
<1>. HIDE DEF handed
<1>8. handed \in [0..n -> 0..ONE]  BY <1>1, <1>5, <1>7, HandedOutType
<1>9. PartsOf(handed, n, vaultAddresses, TargetWeights)
    <2>. SUFFICES ASSUME NEW i \in 1..n
                  PROVE  TargetWeights[vaultAddresses[i]] = handed[i] - handed[i - 1]
        BY DEF PartsOf
    <2>1. vaultAddresses[i] \in Registered  BY <1>1 DEF Places
    <2>2. position(vaultAddresses[i]) = i  BY <1>1 DEF Places
    <2>3. whole # 0  BY <1>3, <1>a
    <2>. HIDE DEF position
    <2>. QED  BY <1>4, <2>1, <2>2, <2>3
<1>10. SharesOf(r, Total(r, Registered), n, vaultAddresses, x)  BY <1>3, <1>5 DEF SharesOf
<1>11. Total(r, Registered) > 0  BY <1>3, <1>a
<1>12. /\ \A v \in Registered : TargetWeights[v] \in Nat
       /\ Total(TargetWeights, Registered) = ONE
    BY <1>1, <1>2, <1>7, <1>8, <1>9, <1>10, <1>11, SharesMakeOne
<1>13. DOMAIN TargetWeights = Registered  BY <1>4
<1>. QED  BY <1>12, <1>13

LEMMA TargetsStep ==
    ASSUME TypeOK, PlacesOK
    PROVE  TargetsAddUp
<1>. SUFFICES ASSUME SumOf(WeightedReturns) > 0 PROVE SumOf(TargetWeights) = ONE
    BY DEF TargetsAddUp
<1>1. IsFiniteSet(Registered)  BY VaultPlaces
<1>. QED  BY <1>1, TargetsAre, SumIsTotal

LEMMA PlacesInit ==
    ASSUME Init
    PROVE  PlacesOK
BY DEF Init, RegistryInit, PlacesOK, IsInjective

LEMMA PlacesStep ==
    ASSUME TypeOK, PlacesOK, [Next]_vars
    PROVE  PlacesOK'
<1>1. ASSUME NEW config \in Configurations, GovernSetVaults(config)
      PROVE  PlacesOK'
    <2>. DEFINE new == [i \in DOMAIN config |-> config[i].vaultAddress]
    <2>1. vaultAddresses' = new /\ IsInjective(new)
        BY <1>1 DEF GovernSetVaults, SetVaults, RegisterVaults
    <2>. HIDE DEF new
    <2>. QED  BY <2>1 DEF PlacesOK, IsInjective
<1>2. ASSUME \/ \E order \in Orders : Mint(order) \/ Redeem(order)
             \/ GovernSafety \/ AddCheck \/ RemoveCheck
             \/ \E v \in Vaults, redeemFee \in RedeemFees : SetVaultFees(v, redeemFee)
             \/ \E t \in Tokens : \E p \in Prices[t] : MovePrice(t, p)
             \/ Tick \/ UNCHANGED vars
      PROVE  PlacesOK'
    <2>1. vaultAddresses' = vaultAddresses
        BY <1>2 DEF Mint, Redeem, GovernSafety, AddCheck, RemoveCheck, SetVaultFees, MovePrice,
                    Tick, vars, registryVars
    <2>. QED  BY <2>1 DEF PlacesOK, IsInjective
<1>. QED  BY <1>1, <1>2 DEF Next

\* Target weights add up to ONE for any vaults, prices, calibrations and times, although
\* each is rounded up: the vault that would take the total past ONE gets what is left, and
\* no vault is left without the rest, since what was handed out covers what was due.
THEOREM TargetsAlwaysAddUp == Spec => []TargetsAddUp
<1>1. Init => TypeOK /\ PlacesOK  BY TypesInit, PlacesInit
<1>2. TypeOK /\ PlacesOK /\ [Next]_vars => (TypeOK /\ PlacesOK)'  BY TypesStep, PlacesStep
<1>3. TypeOK /\ PlacesOK => TargetsAddUp  BY TargetsStep
<1>. QED  BY <1>1, <1>2, <1>3, PTL DEF Spec

-----------------------------------------------------------------------------
(* Redemptions leave a value                                              *)

\* The values of the registered vaults and the value of the reserve are numbers, and
\* the value of the reserve is the sum.
LEMMA ValuesAdd ==
    ASSUME TypeOK, PlacesOK, NEW amounts, \A v \in Registered : amounts[v] \in Nat
    PROVE  /\ DOMAIN UsdValues(amounts) = Registered
           /\ \A v \in Registered : UsdValues(amounts)[v] \in Nat
           /\ SumOf(UsdValues(amounts)) = Total(UsdValues(amounts), Registered)
           /\ SumOf(UsdValues(amounts)) \in Nat
<1>1. \A v \in Registered : v \in Vaults /\ VaultPrices[v] \in Nat /\ Scale[v] \in Nat
    BY RegisteredVaults, VaultPriceAssumption, ReserveAssumption DEF TypeOK, VaultPrices
<1>2. \A v \in Registered : amounts[v] * Scale[v] \in Nat  BY <1>1, ProductNat
<1>3. /\ DOMAIN UsdValues(amounts) = Registered
      /\ \A v \in Registered :
            UsdValues(amounts)[v] = MulDown(VaultPrices[v], amounts[v] * Scale[v])
    BY DEF UsdValues
<1>4. \A v \in Registered : UsdValues(amounts)[v] \in Nat  BY <1>1, <1>2, <1>3, MulDownNat
<1>5. IsFiniteSet(Registered)  BY VaultPlaces
<1>6. SumOf(UsdValues(amounts)) = Total(UsdValues(amounts), Registered)
    BY <1>3, <1>4, <1>5, SumIsTotal
<1>7. Total(UsdValues(amounts), Registered) \in Nat  BY <1>4, <1>5, TotalStep
<1>. QED  BY <1>3, <1>4, <1>6, <1>7

\* Only a redemption lowers a balance.
LEMMA OnlyRedeemsLower ==
    ASSUME TypeOK, [Next]_vars, CheckedRedeem
    PROVE  \E order \in Orders : Redeem(order) /\ IsRedeemSafe(order)
<1>1. PICK v \in Registered : reserveBalance'[v] < reserveBalance[v]  BY DEF CheckedRedeem
<1>2. v \in Vaults /\ reserveBalance[v] \in Nat  BY RegisteredVaults DEF TypeOK
<1>3. reserveBalance' # reserveBalance  BY <1>1, <1>2
<1>4. ASSUME NEW order \in Orders, Mint(order)
      PROVE  FALSE
    <2>1. order[v] \in Nat  BY OrdersAssumption DEF Orders
    <2>2. reserveBalance'[v] = reserveBalance[v] + order[v]
        BY <1>2, <1>4 DEF Mint
    <2>. QED  BY <1>1, <1>2, <2>1, <2>2
<1>5. ASSUME NEW order \in Orders, Redeem(order)
      PROVE  IsRedeemSafe(order)
    BY <1>5 DEF Redeem, CheckedRedeem
<1>. QED
    BY <1>3, <1>4, <1>5
    DEF Next, GovernSetVaults, GovernSafety, AddCheck, RemoveCheck, SetVaultFees, MovePrice,
        Tick, vars

\* The fee only leaves more in the reserve than the order that was checked.
LEMMA CheckedForMore ==
    ASSUME TypeOK, NEW order \in Orders, Redeem(order), IsRedeemSafe(order),
           NEW v \in Registered
    PROVE  /\ Resulting(FALSE, order)[v] \in Nat /\ reserveBalance'[v] \in Nat
           /\ Resulting(FALSE, order)[v] <= reserveBalance'[v]
<1>1. v \in Vaults /\ reserveBalance[v] \in Nat /\ order[v] \in Nat
    BY RegisteredVaults, OrdersAssumption DEF TypeOK, Orders
<1>2. order[v] <= reserveBalance[v]  BY DEF IsRedeemSafe, IsRedeemFeasible
<1>3. AfterFee(v, order[v]) \in Nat /\ AfterFee(v, order[v]) <= order[v]
    <2>1. vaultFees[v].redeem \in 0..ONE
        <3>1. vaultFees[v] \in Fees  BY <1>1 DEF TypeOK
        <3>. QED  BY <3>1, OrdersAssumption, ONEAssumption DEF Fees
    <2>2. ONE - vaultFees[v].redeem \in Nat /\ ONE - vaultFees[v].redeem <= ONE
        BY <2>1, ONEAssumption
    <2>. QED  BY <1>1, <2>2, MulDownNat, MulDownBounds DEF AfterFee
<1>4. reserveBalance'[v] = reserveBalance[v] - AfterFee(v, order[v])  BY <1>1 DEF Redeem
<1>5. Resulting(FALSE, order)[v] = reserveBalance[v] - order[v]  BY DEF Resulting
<1>. DEFINE b == reserveBalance[v]
            o == order[v]
            paid == AfterFee(v, o)
            foreseen == Resulting(FALSE, order)[v]
<1>6. b \in Nat /\ o \in Nat /\ o <= b /\ paid \in Nat /\ paid <= o  BY <1>1, <1>2, <1>3
<1>7. foreseen = b - o /\ reserveBalance'[v] = b - paid  BY <1>4, <1>5
<1>. HIDE DEF b, o, paid, foreseen
<1>8. foreseen \in Nat /\ reserveBalance'[v] \in Nat /\ foreseen <= reserveBalance'[v]
    BY <1>6, <1>7
<1>. QED  BY <1>8 DEF foreseen

\* An order that would leave nothing is checked with weights of zero.
LEMMA NothingLeft ==
    ASSUME TypeOK, PlacesOK, NEW order \in Orders, Redeem(order), IsRedeemSafe(order),
           ~(ReserveUSDValue' > 0)
    PROVE  \A v \in Registered : ResultingWeights(Resulting(FALSE, order))[v] = 0
<1>. DEFINE resulting == Resulting(FALSE, order)
            left == [v \in Registered |-> reserveBalance'[v]]
<1>1. Registered' = Registered /\ VaultPrices' = VaultPrices
    BY DEF Redeem, registryVars, Registered, VaultPrices
<1>2. \A v \in Registered : /\ resulting[v] \in Nat /\ left[v] \in Nat
                            /\ resulting[v] <= left[v]
    BY CheckedForMore
<1>3. ReserveUSDValue' = SumOf(UsdValues(left))
    <2>1. UsdValues(reserveBalance)'
            = [v \in Registered |-> MulDown(VaultPrices[v], reserveBalance'[v] * Scale[v])]
        BY <1>1 DEF UsdValues
    <2>2. UsdValues(left)
            = [v \in Registered |-> MulDown(VaultPrices[v], reserveBalance'[v] * Scale[v])]
        BY DEF UsdValues
    <2>3. UsdValues(reserveBalance)' = UsdValues(left)  BY <2>1, <2>2
    <2>. QED  BY <2>3 DEF ReserveUSDValue
<1>. HIDE DEF resulting, left
<1>4. /\ \A v \in Registered : UsdValues(left)[v] \in Nat
      /\ Total(UsdValues(left), Registered) = 0
    <2>1. /\ \A v \in Registered : UsdValues(left)[v] \in Nat
          /\ SumOf(UsdValues(left)) = Total(UsdValues(left), Registered)
          /\ SumOf(UsdValues(left)) \in Nat
        BY <1>2, ValuesAdd
    <2>. QED  BY <1>3, <2>1
<1>5. IsFiniteSet(Registered)  BY VaultPlaces
<1>6. /\ \A v \in Registered : UsdValues(resulting)[v] \in Nat
      /\ SumOf(UsdValues(resulting)) = Total(UsdValues(resulting), Registered)
    BY <1>2, ValuesAdd
<1>7. \A v \in Registered : UsdValues(resulting)[v] <= UsdValues(left)[v]
    <2>. SUFFICES ASSUME NEW v \in Registered
                  PROVE  UsdValues(resulting)[v] <= UsdValues(left)[v]
        OBVIOUS
    <2>1. VaultPrices[v] \in Nat /\ Scale[v] \in Nat
        BY RegisteredVaults, VaultPriceAssumption, ReserveAssumption DEF TypeOK, VaultPrices
    <2>2. /\ resulting[v] * Scale[v] \in Nat /\ left[v] * Scale[v] \in Nat
          /\ resulting[v] * Scale[v] <= left[v] * Scale[v]
        <3>1. Scale[v] * resulting[v] <= Scale[v] * left[v]  BY <1>2, <2>1, ProductMono
        <3>2. /\ Scale[v] * resulting[v] = resulting[v] * Scale[v]
              /\ Scale[v] * left[v] = left[v] * Scale[v]
            BY <1>2, <2>1
        <3>. QED  BY <1>2, <2>1, <3>1, <3>2, ProductNat
    <2>3. /\ UsdValues(resulting)[v] = MulDown(VaultPrices[v], resulting[v] * Scale[v])
          /\ UsdValues(left)[v] = MulDown(VaultPrices[v], left[v] * Scale[v])
        BY DEF UsdValues
    <2>. DEFINE p == VaultPrices[v]
                a == resulting[v] * Scale[v]
                b == left[v] * Scale[v]
    <2>4. p \in Nat /\ a \in Nat /\ b \in Nat /\ a <= b  BY <2>1, <2>2
    <2>. HIDE DEF p, a, b
    <2>5. MulDown(p, a) <= MulDown(p, b)  BY <2>4, MulDownMono
    <2>. QED  BY <2>3, <2>5 DEF p, a, b
<1>8. Total(UsdValues(resulting), Registered) = 0
    <2>1. Total(UsdValues(resulting), Registered) <= Total(UsdValues(left), Registered)
        BY <1>4, <1>5, <1>6, <1>7, TotalMono
    <2>2. Total(UsdValues(resulting), Registered) \in Nat  BY <1>5, <1>6, TotalStep
    <2>. QED  BY <1>4, <2>1, <2>2
<1>. QED  BY <1>6, <1>8 DEF ResultingWeights, resulting

\* The check allows small deviations from the targets only, and there are few vaults:
\* half of a target is far, but for the targets of a vault too small to have a half.
SmallDeviations ==
    /\ \A deviation \in Deviations : 2 * deviation <= ONE
    /\ IsFiniteSet(Vaults)
    /\ 2 * Cardinality(Vaults) < ONE

\* A vault for which a weight of zero is safe has twice its target, or almost no target.
LEMMA ZeroWeightSafe ==
    ASSUME NEW target \in Nat, NEW current \in Nat, NEW deviation \in Nat,
           2 * deviation <= ONE,
           \/ AbsSub(target, 0) <= MulUp(target, deviation)
           \/ AbsSub(0, target) < AbsSub(current, target)
    PROVE  2 * target <= current + 2
<1>1. ONE \in Nat /\ ONE > 0  BY ONEAssumption
<1>2. AbsSub(target, 0) = target /\ AbsSub(0, target) = target  BY DEF AbsSub
<1>3. CASE target < AbsSub(current, target)  BY <1>3 DEF AbsSub
<1>4. CASE target <= MulUp(target, deviation) /\ target > 1
    <2>. DEFINE p == target * deviation
                q == (p - 1) \div ONE
    <2>1. p \in Nat  BY ProductNat
    <2>2. p # 0  BY <1>4 DEF MulUp
    <2>3. MulUp(target, deviation) = q + 1  BY <2>2 DEF MulUp
    <2>4. 2 * p <= target * ONE /\ target * ONE \in Nat
        <3>1. target * (2 * deviation) <= target * ONE  BY <1>1, ProductMono
        <3>2. target * (2 * deviation) = 2 * (target * deviation)  OBVIOUS
        <3>. QED  BY <1>1, <3>1, <3>2, ProductNat
    <2>. HIDE DEF p
    <2>5. q \in Nat /\ q * ONE <= p - 1 /\ q * ONE \in Nat
        <3>1. p - 1 \in Nat  BY <2>1, <2>2
        <3>2. q \in Nat /\ q * ONE <= p - 1  BY <1>1, <3>1, Quotient
        <3>. QED  BY <1>1, <3>2, ProductNat
    <2>. HIDE DEF q
    <2>6. 2 * (q * ONE) + 2 <= target * ONE  BY <2>1, <2>4, <2>5
    <2>7. target <= q + 1  BY <1>4, <2>3
    <2>8. ONE * target <= ONE * (q + 1)  BY <1>1, <2>5, <2>7, ProductMono
    <2>9. ONE * (q + 1) = q * ONE + ONE /\ ONE * target = target * ONE  BY <1>1, <2>5
    <2>10. 2 * (q * ONE) + 2 <= q * ONE + ONE  BY <1>1, <2>4, <2>5, <2>6, <2>8, <2>9
    <2>11. q * ONE + 2 <= ONE  BY <1>1, <2>5, <2>10
    <2>12. q >= 1  BY <1>4, <2>5, <2>7
    <2>13. ONE * 1 <= ONE * q /\ ONE * q = q * ONE  BY <1>1, <2>5, <2>12, ProductMono
    <2>. QED  BY <1>1, <2>5, <2>11, <2>13
<1>5. CASE target <= 1  BY <1>5
<1>. QED  BY <1>2, <1>3, <1>4, <1>5

LEMMA RedeemStep ==
    ASSUME SmallDeviations, TypeOK, PlacesOK, [Next]_vars,
           CheckedRedeem, SumOf(WeightedReturns) > 0, ReserveUSDValue > 0
    PROVE  ReserveUSDValue' > 0
<1>. SUFFICES ASSUME ~(ReserveUSDValue' > 0) PROVE FALSE  OBVIOUS
<1>. DEFINE targets == TargetWeights
            current == CurrentWeights
            values == UsdValues(reserveBalance)
            ones == [v \in Registered |-> 1]
            doubled == [v \in Registered |-> 2 * targets[v]]
            bound == [v \in Registered |-> current[v] + 2 * ones[v]]
<1>1. PICK order \in Orders : Redeem(order) /\ IsRedeemSafe(order)  BY OnlyRedeemsLower
<1>2. \A v \in Registered : ResultingWeights(Resulting(FALSE, order))[v] = 0
    BY <1>1, NothingLeft
<1>3. \A v \in Registered :
        \/ AbsSub(targets[v], 0) <= MulUp(targets[v], maxAllowedVaultDeviation)
        \/ AbsSub(0, targets[v]) < AbsSub(current[v], targets[v])
    BY <1>1, <1>2 DEF IsRedeemSafe, EpsilonSafe, WithinEpsilon
<1>4. /\ IsFiniteSet(Registered) /\ Cardinality(Registered) \in Nat
      /\ 2 * Cardinality(Registered) < ONE
    BY RegisteredVaults, FS_Subset, FS_CardinalityType, ONEAssumption DEF SmallDeviations
<1>5. /\ \A v \in Registered : targets[v] \in Nat
      /\ Total(targets, Registered) = ONE
    BY TargetsAre
<1>6. /\ \A v \in Registered : current[v] \in Nat
      /\ Total(current, Registered) \in Nat /\ Total(current, Registered) <= ONE
    <2>1. \A v \in Registered : reserveBalance[v] \in Nat  BY RegisteredVaults DEF TypeOK
    <2>2. /\ \A v \in Registered : values[v] \in Nat
          /\ SumOf(values) = Total(values, Registered)
          /\ SumOf(values) \in Nat
        BY <2>1, ValuesAdd
    <2>3. SumOf(values) > 0  BY DEF ReserveUSDValue
    <2>. HIDE DEF values
    <2>4. \A v \in Registered : current[v] = DivDown(values[v], Total(values, Registered))
        BY <2>2, <2>3 DEF CurrentWeights, values
    <2>. HIDE DEF current
    <2>. QED  BY <1>4, <2>2, <2>3, <2>4, SharesOfWhole
<1>7. maxAllowedVaultDeviation \in Nat /\ 2 * maxAllowedVaultDeviation <= ONE
    BY OrdersAssumption DEF TypeOK, SmallDeviations
<1>. HIDE DEF targets, current
<1>8. \A v \in Registered : 2 * targets[v] <= current[v] + 2
    BY <1>3, <1>5, <1>6, <1>7, ZeroWeightSafe
<1>9. \A v \in Registered :
        /\ ones[v] = 1 /\ ones[v] \in Nat
        /\ doubled[v] = 2 * targets[v] /\ doubled[v] \in Nat
        /\ bound[v] = current[v] + 2 * ones[v] /\ bound[v] \in Nat
        /\ doubled[v] <= bound[v]
    BY <1>5, <1>6, <1>8
<1>. HIDE DEF ones, doubled, bound
<1>10. Total(ones, Registered) = Cardinality(Registered)  BY <1>4, <1>9, TotalOfOnes
<1>11. Total(doubled, Registered) = 2 * ONE  BY <1>4, <1>5, <1>9, TotalScaled
<1>12. Total(bound, Registered) = Total(current, Registered) + 2 * Total(ones, Registered)
    BY <1>4, <1>6, <1>9, TotalLinear
<1>13. Total(doubled, Registered) <= Total(bound, Registered)
    BY <1>4, <1>9, TotalMono
<1>. QED  BY <1>4, <1>6, <1>10, <1>11, <1>12, <1>13, ONEAssumption

\* No redemption that is checked takes the last value out of the reserve while there are
\* targets, whatever the fees: weights of zero would be far below some target.
THEOREM RedeemAlwaysLeavesValue ==
    ASSUME SmallDeviations
    PROVE  Spec => RedeemLeavesValue
<1>1. Init => TypeOK /\ PlacesOK  BY TypesInit, PlacesInit
<1>2. TypeOK /\ PlacesOK /\ [Next]_vars => (TypeOK /\ PlacesOK)'  BY TypesStep, PlacesStep
<1>3. TypeOK /\ PlacesOK /\ [Next]_vars =>
        [CheckedRedeem /\ SumOf(WeightedReturns) > 0 /\ ReserveUSDValue > 0
            => ReserveUSDValue' > 0]_vars
    BY RedeemStep
<1>. QED  BY <1>1, <1>2, <1>3, PTL DEF Spec, RedeemLeavesValue

-----------------------------------------------------------------------------
(* Orders and targets                                                      *)

\* Without fees, what is redeemed is what was checked.
NoFees == \A v \in Vaults : vaultFees[v].redeem = 0

LEMMA NoFeesInit ==
    ASSUME Init
    PROVE  NoFees
BY DEF Init, NoFees

LEMMA NoFeesStep ==
    ASSUME RedeemFees \subseteq {0}, TypeOK, NoFees, [Next]_vars
    PROVE  NoFees'
<1>1. ASSUME NEW v \in Vaults, NEW redeemFee \in RedeemFees, SetVaultFees(v, redeemFee)
      PROVE  NoFees'
    <2>1. vaultFees' = [vaultFees EXCEPT ![v] = [exists |-> TRUE, redeem |-> redeemFee]]
          /\ redeemFee = 0
        BY <1>1 DEF SetVaultFees
    <2>2. DOMAIN vaultFees = Vaults  BY DEF TypeOK
    <2>. QED  BY <2>1, <2>2 DEF NoFees
<1>2. ASSUME vaultFees' = vaultFees
      PROVE  NoFees'
    BY <1>2 DEF NoFees
<1>. QED
    BY <1>1, <1>2
    DEF Next, Mint, Redeem, GovernSetVaults, GovernSafety, AddCheck, RemoveCheck, MovePrice,
        Tick, vars

LEMMA RedeemForeseen ==
    ASSUME TypeOK, NoFees, NEW order \in Orders, Redeem(order), ReserveUSDValue' > 0
    PROVE  CurrentWeights' = ResultingWeights(Resulting(FALSE, order))
<1>. DEFINE resulting == Resulting(FALSE, order)
<1>1. Registered' = Registered /\ VaultPrices' = VaultPrices
    BY DEF Redeem, registryVars, Registered, VaultPrices
<1>2. \A v \in Registered : resulting[v] = reserveBalance'[v]
    <2>. SUFFICES ASSUME NEW v \in Registered PROVE resulting[v] = reserveBalance'[v]
        OBVIOUS
    <2>1. v \in Vaults /\ order[v] \in Nat
        BY RegisteredVaults, OrdersAssumption DEF Orders
    <2>2. ONE - vaultFees[v].redeem = ONE  BY <2>1, ONEAssumption DEF NoFees
    <2>3. AfterFee(v, order[v]) = order[v]
        <3>1. AfterFee(v, order[v]) = MulDown(order[v], ONE)  BY <2>2 DEF AfterFee
        <3>. DEFINE o == order[v]
        <3>2. o \in Nat  BY <2>1
        <3>. HIDE DEF o
        <3>3. MulDown(o, ONE) = o  BY <3>2, MulDownWhole
        <3>. QED  BY <3>1, <3>3 DEF o
    <2>4. reserveBalance'[v] = reserveBalance[v] - AfterFee(v, order[v])  BY <2>1 DEF Redeem
    <2>. QED  BY <2>3, <2>4 DEF Resulting
<1>. HIDE DEF resulting
<1>3. CurrentWeights' = ResultingWeights(resulting)  BY <1>1, <1>2, WeightsForeseen
<1>. QED  BY <1>3 DEF resulting

LEMMA RebalanceStep ==
    ASSUME TypeOK, NoFees, [Next]_vars, CheckedMint \/ CheckedRedeem, ReserveUSDValue' > 0
    PROVE  Rebalances
<1>1. CASE CheckedMint
    <2>1. PICK order \in Orders : Mint(order) /\ IsMintSafe(order)  BY <1>1, OnlyMintsRaise
    <2>2. CurrentWeights' = ResultingWeights(Resulting(TRUE, order))  BY <2>1, MintForeseen
    <2>. QED  BY <2>1, <2>2 DEF IsMintSafe, EpsilonSafe, Rebalances
<1>2. CASE CheckedRedeem
    <2>1. PICK order \in Orders : Redeem(order) /\ IsRedeemSafe(order)
        BY <1>2, OnlyRedeemsLower
    <2>2. CurrentWeights' = ResultingWeights(Resulting(FALSE, order))
        BY <2>1, RedeemForeseen
    <2>. QED  BY <2>1, <2>2 DEF IsRedeemSafe, EpsilonSafe, Rebalances
<1>. QED  BY <1>1, <1>2

\* Without fees, every order that is checked and leaves a value in the reserve leaves
\* every vault near its target or closer to it than before: the weights that result are
\* the weights that were checked.  (A fee breaks it, and so does an order among vaults
\* that are worth nothing.)
THEOREM OrdersRebalanceWithoutFees ==
    ASSUME RedeemFees \subseteq {0}
    PROVE  Spec => [][(CheckedMint \/ CheckedRedeem) /\ ReserveUSDValue' > 0
                        => Rebalances]_vars
<1>1. Init => TypeOK /\ NoFees  BY TypesInit, NoFeesInit
<1>2. TypeOK /\ NoFees /\ [Next]_vars => (TypeOK /\ NoFees)'  BY TypesStep, NoFeesStep
<1>3. TypeOK /\ NoFees /\ [Next]_vars =>
        [(CheckedMint \/ CheckedRedeem) /\ ReserveUSDValue' > 0 => Rebalances]_vars
    BY RebalanceStep
<1>. QED  BY <1>1, <1>2, <1>3, PTL DEF Spec
=============================================================================
