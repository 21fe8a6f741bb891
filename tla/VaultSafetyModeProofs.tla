------------------------ MODULE VaultSafetyModeProofs -----------------------
(***************************************************************************)
(* Proof that a closed vault stays closed, for any amounts, thresholds,    *)
(* memories, guardians and numbers of blocks.                              *)
(***************************************************************************)
EXTENDS VaultSafetyMode, FixedPointProofs

USE SafetyModeAssumption

-----------------------------------------------------------------------------
(* The inductive invariant                                                 *)

\* The tables have an entry per vault and direction.  Nothing is said of the flow
\* itself: what is proved holds whatever it is.
Shape ==
    /\ DOMAIN persistedFlowData = Vaults
    /\ \A v \in Vaults :
        /\ persistedFlowData[v] = [d \in Directions |-> persistedFlowData[v][d]]
        /\ DOMAIN persistedFlowData[v] = Directions
        /\ \A d \in Directions :
            DOMAIN persistedFlowData[v][d] = {"shortFlow", "lastSafetyBlock", "lastSeenBlock"}
    /\ protectedUntil \in [Vaults -> [Directions -> Nat]]
    /\ blockVolume \in [Vaults -> [Directions -> Nat]]
    /\ block \in Nat

\* The recorded block is never earlier than what is due: neither a later activation
\* nor a guardian sets it back.
NotSetBack ==
    \A v \in Vaults, d \in Directions :
        /\ persistedFlowData[v][d].lastSafetyBlock \in Nat
        /\ protectedUntil[v][d] <= persistedFlowData[v][d].lastSafetyBlock
        /\ protectedUntil[v][d] <= block + SafetyBlocksAutomatic

ProtectionInv == Shape /\ NotSetBack

-----------------------------------------------------------------------------
LEMMA ProtectionInit ==
    ASSUME Init
    PROVE  ProtectionInv
BY DEF Init, ProtectionInv, Shape, NotSetBack, Zero

LEMMA ProtectionStep ==
    ASSUME ProtectionInv, [Next]_vars
    PROVE  ProtectionInv'
<1>. USE DEF ProtectionInv
<1>1. ASSUME NEW direction \in Directions, NEW amounts \in [Vaults -> Amounts],
             CheckAndPersist(direction, amounts)
      PROVE  ProtectionInv'
    <2>. DEFINE due(v) == IF ActivatesSafetyMode(v, direction, amounts[v])
                          THEN MaxOf(protectedUntil[v][direction], block + SafetyBlocksAutomatic)
                          ELSE protectedUntil[v][direction]
    <2>1. block' = block /\ \A v \in Vaults : amounts[v] \in Nat
        BY <1>1 DEF CheckAndPersist
    <2>2. \A v \in Vaults : due(v) \in Nat  BY DEF Shape, MaxOf
    <2>3. protectedUntil' = [v \in Vaults |-> [protectedUntil[v] EXCEPT ![direction] = due(v)]]
        BY <1>1 DEF CheckAndPersist
    <2>4. \A v \in Vaults, d \in Directions :
            /\ protectedUntil'[v][d] = IF d = direction THEN due(v) ELSE protectedUntil[v][d]
            /\ persistedFlowData'[v][d] = IF d = direction
                    THEN FlowDataAfter(v, direction, amounts[v]) ELSE persistedFlowData[v][d]
        <3>. HIDE DEF due
        <3>1. \A v \in Vaults, d \in Directions :
                protectedUntil'[v][d] = IF d = direction THEN due(v) ELSE protectedUntil[v][d]
            BY <2>3 DEF Shape
        <3>2. persistedFlowData' = [v \in Vaults |->
                [persistedFlowData[v] EXCEPT ![direction] = FlowDataAfter(v, direction, amounts[v])]]
            BY <1>1 DEF CheckAndPersist
        <3>3. \A v \in Vaults, d \in Directions :
                persistedFlowData'[v][d] = IF d = direction
                    THEN FlowDataAfter(v, direction, amounts[v]) ELSE persistedFlowData[v][d]
            BY <3>2 DEF Shape
        <3>. QED  BY <3>1, <3>3
    <2>5. Shape'
        <3>1. protectedUntil' \in [Vaults -> [Directions -> Nat]]
            <4>. HIDE DEF due
            <4>. QED  BY <2>2, <2>3 DEF Shape
        <3>2. blockVolume' \in [Vaults -> [Directions -> Nat]]
            BY <1>1, <2>1 DEF CheckAndPersist, Shape
        <3>3. DOMAIN persistedFlowData' = Vaults
              /\ \A v \in Vaults :
                    /\ persistedFlowData'[v] = [d \in Directions |-> persistedFlowData'[v][d]]
                    /\ DOMAIN persistedFlowData'[v] = Directions
            BY <1>1 DEF CheckAndPersist, Shape
        <3>4. \A v \in Vaults, d \in Directions :
                DOMAIN persistedFlowData'[v][d] = {"shortFlow", "lastSafetyBlock", "lastSeenBlock"}
            <4>1. \A v \in Vaults : DOMAIN FlowDataAfter(v, direction, amounts[v])
                    = {"shortFlow", "lastSafetyBlock", "lastSeenBlock"}
                BY DEF FlowDataAfter
            <4>. QED  BY <2>4, <4>1 DEF Shape
        <3>. QED  BY <2>1, <3>1, <3>2, <3>3, <3>4 DEF Shape
    <2>6. NotSetBack'
        <3>. SUFFICES ASSUME NEW v \in Vaults, NEW d \in Directions
                      PROVE  /\ persistedFlowData'[v][d].lastSafetyBlock \in Nat
                             /\ protectedUntil'[v][d] <= persistedFlowData'[v][d].lastSafetyBlock
                             /\ protectedUntil'[v][d] <= block + SafetyBlocksAutomatic
            BY <2>1 DEF NotSetBack
        <3>1. CASE d # direction  BY <2>4, <3>1 DEF NotSetBack
        <3>2. CASE d = direction
            <4>1. FlowDataAfter(v, direction, amounts[v]).lastSafetyBlock
                    = IF ActivatesSafetyMode(v, direction, amounts[v])
                      THEN block + SafetyBlocksAutomatic
                      ELSE persistedFlowData[v][direction].lastSafetyBlock
                BY DEF FlowDataAfter
            <4>2. /\ protectedUntil[v][direction] \in Nat /\ block \in Nat
                  /\ protectedUntil[v][direction] <= block + SafetyBlocksAutomatic
                  /\ persistedFlowData[v][direction].lastSafetyBlock \in Nat
                  /\ protectedUntil[v][direction]
                        <= persistedFlowData[v][direction].lastSafetyBlock
                BY DEF Shape, NotSetBack
            <4>3. protectedUntil'[v][d] = due(v)
                  /\ persistedFlowData'[v][d] = FlowDataAfter(v, direction, amounts[v])
                BY <2>4, <3>2
            <4>4. CASE ActivatesSafetyMode(v, direction, amounts[v])
                <5>1. due(v) = block + SafetyBlocksAutomatic  BY <4>2, <4>4 DEF MaxOf
                <5>. QED  BY <4>1, <4>2, <4>3, <4>4, <5>1
            <4>5. CASE ~ActivatesSafetyMode(v, direction, amounts[v])
                BY <4>1, <4>2, <4>3, <4>5
            <4>. QED  BY <4>4, <4>5
        <3>. QED  BY <3>1, <3>2
    <2>. QED  BY <2>5, <2>6
<1>2. ASSUME NEW vaults, NEW directions, NEW blocks \in Nat, Guard(vaults, directions, blocks)
      PROVE  ProtectionInv'
    <2>. DEFINE due == block + MinOf(blocks, SafetyBlocksAutomatic)
                guarded(v, d) == v \in vaults /\ d \in directions
    <2>1. due \in Nat /\ due <= block + blocks /\ due <= block + SafetyBlocksAutomatic
          /\ block + blocks \in Nat /\ block' = block /\ blockVolume' = blockVolume
        BY <1>2 DEF Shape, MinOf, Guard
    <2>2. \A v \in Vaults, d \in Directions :
            /\ protectedUntil'[v][d] = IF guarded(v, d) THEN due ELSE protectedUntil[v][d]
            /\ persistedFlowData'[v][d] = IF guarded(v, d)
                    THEN [persistedFlowData[v][d] EXCEPT !.lastSafetyBlock = block + blocks]
                    ELSE persistedFlowData[v][d]
        BY <1>2 DEF Guard
    <2>3. /\ DOMAIN persistedFlowData' = Vaults
          /\ \A v \in Vaults :
                /\ persistedFlowData'[v] = [d \in Directions |-> persistedFlowData'[v][d]]
                /\ DOMAIN persistedFlowData'[v] = Directions
          /\ protectedUntil' \in [Vaults -> [Directions -> Nat]]
        <3>1. protectedUntil' = [v \in Vaults |-> [d \in Directions |->
                IF guarded(v, d) THEN due ELSE protectedUntil[v][d]]]
            BY <1>2 DEF Guard
        <3>2. protectedUntil' \in [Vaults -> [Directions -> Nat]]
            <4>. HIDE DEF due, guarded
            <4>. QED  BY <2>1, <3>1 DEF Shape
        <3>. QED  BY <1>2, <3>2 DEF Guard
    <2>. HIDE DEF due, guarded
    <2>4. \A v \in Vaults, d \in Directions :
            /\ DOMAIN persistedFlowData'[v][d] = {"shortFlow", "lastSafetyBlock", "lastSeenBlock"}
            /\ persistedFlowData'[v][d].lastSafetyBlock =
                    IF guarded(v, d) THEN block + blocks
                    ELSE persistedFlowData[v][d].lastSafetyBlock
        <3>. SUFFICES ASSUME NEW v \in Vaults, NEW d \in Directions
                      PROVE  /\ DOMAIN persistedFlowData'[v][d]
                                    = {"shortFlow", "lastSafetyBlock", "lastSeenBlock"}
                             /\ persistedFlowData'[v][d].lastSafetyBlock =
                                    IF guarded(v, d) THEN block + blocks
                                    ELSE persistedFlowData[v][d].lastSafetyBlock
            OBVIOUS
        <3>1. DOMAIN persistedFlowData[v][d] = {"shortFlow", "lastSafetyBlock", "lastSeenBlock"}
            BY DEF Shape
        <3>2. CASE guarded(v, d)
            <4>1. persistedFlowData'[v][d]
                    = [persistedFlowData[v][d] EXCEPT !.lastSafetyBlock = block + blocks]
                BY <2>2, <3>2
            <4>. QED  BY <3>1, <3>2, <4>1
        <3>3. CASE ~guarded(v, d)  BY <2>2, <3>1, <3>3
        <3>. QED  BY <3>2, <3>3
    <2>5. Shape'  BY <2>1, <2>3, <2>4 DEF Shape
    <2>6. NotSetBack'  BY <2>1, <2>2, <2>4 DEF NotSetBack
    <2>. QED  BY <2>5, <2>6
<1>3. ASSUME NEW caller \in Accounts, NEW vault \in Vaults, NEW blocks \in ProtectionBlocks,
             NEW directions \in {{"in"}, {"out"}, Directions},
             ActivateOracleGuardian(caller, vault, directions, blocks)
      PROVE  ProtectionInv'
    <2>1. blocks \in Nat /\ Guard({vault}, directions, blocks)
        BY <1>3 DEF ActivateOracleGuardian
    <2>. QED  BY <1>2, <2>1
<1>4. ASSUME NEW caller \in Accounts, NEW depositsOnly \in BOOLEAN,
             PauseProtocol(caller, depositsOnly)
      PROVE  ProtectionInv'
    <2>. DEFINE directions == IF depositsOnly THEN {"in"} ELSE Directions
    <2>1. Guard(Vaults, directions, SafetyBlocksGuardian)  BY <1>4 DEF PauseProtocol
    <2>. HIDE DEF directions
    <2>. QED  BY <1>2, <2>1
<1>5. CASE NextBlock
    <2>1. block' = block + 1 /\ UNCHANGED <<persistedFlowData, protectedUntil>>
          /\ blockVolume' \in [Vaults -> [Directions -> Nat]]
        BY <1>5 DEF NextBlock, Zero
    <2>2. Shape'  BY <2>1 DEF Shape
    <2>3. NotSetBack'  BY <2>1 DEF Shape, NotSetBack
    <2>. QED  BY <2>2, <2>3
<1>6. ASSUME UNCHANGED <<block, persistedFlowData, historyVars>>
      PROVE  ProtectionInv'
    BY <1>6 DEF Shape, NotSetBack, historyVars
<1>. QED
    BY <1>1, <1>3, <1>4, <1>5, <1>6
    DEF Next, AddAddressToWhitelist, RemoveAddressFromWhitelist, UpdatePersistedVaultFlowParams, vars

LEMMA ProtectionInvariance == Spec => []ProtectionInv
<1>1. Init => ProtectionInv  BY ProtectionInit
<1>2. ProtectionInv /\ [Next]_vars => ProtectionInv'  BY ProtectionStep
<1>. QED  BY <1>1, <1>2, PTL DEF Spec

LEMMA AcceptedOutsideProtection ==
    ASSUME ProtectionInv, [Next]_vars, NEW v \in Vaults, NEW d \in Directions, Accepted(v, d)
    PROVE  block > protectedUntil[v][d]
<1>a. /\ block \in Nat /\ blockVolume[v][d] \in Nat
      /\ protectedUntil[v][d] \in Nat /\ persistedFlowData[v][d].lastSafetyBlock \in Nat
      /\ protectedUntil[v][d] <= persistedFlowData[v][d].lastSafetyBlock
    BY DEF ProtectionInv, Shape, NotSetBack
<1>b. blockVolume' # blockVolume  BY <1>a DEF Accepted
<1>1. ASSUME NEW direction \in Directions, NEW amounts \in [Vaults -> Amounts],
             CheckAndPersist(direction, amounts)
      PROVE  block > protectedUntil[v][d]
    <2>1. blockVolume'[v][d]
            = IF d = direction THEN blockVolume[v][d] + amounts[v] ELSE blockVolume[v][d]
        BY <1>1 DEF CheckAndPersist, ProtectionInv, Shape
    <2>2. amounts[v] \in Nat  BY <1>1
    <2>3. d = direction /\ amounts[v] > 0  BY <1>a, <2>1, <2>2 DEF Accepted
    <2>4. ~InSafetyMode(v, d)  BY <1>1, <2>3 DEF CheckAndPersist, FlowAccepts
    <2>. QED  BY <1>a, <2>4 DEF InSafetyMode
<1>2. CASE NextBlock
    <2>1. blockVolume'[v][d] = 0  BY <1>2 DEF NextBlock, Zero
    <2>. QED  BY <1>a, <2>1 DEF Accepted
<1>. QED
    BY <1>b, <1>1, <1>2
    DEF Next, ActivateOracleGuardian, PauseProtocol, Guard, AddAddressToWhitelist,
        RemoveAddressFromWhitelist, UpdatePersistedVaultFlowParams, vars, historyVars

\* A vault closed by its flow or by a guardian takes no order for as long as it is due,
\* whatever orders, guardians and parameter changes come in between.
THEOREM ProtectionAlwaysHolds == Spec => ProtectionHolds
<1>1. ProtectionInv /\ [Next]_vars
        => [\A v \in Vaults, d \in Directions :
                Accepted(v, d) => block > protectedUntil[v][d]]_vars
    BY AcceptedOutsideProtection
<1>. QED  BY <1>1, ProtectionInvariance, PTL DEF Spec, ProtectionHolds

-----------------------------------------------------------------------------
(* The amounts of a block                                                  *)

\* What was accepted in this block is part of the flow, which does not decay before the
\* next block.
VolumeCounted ==
    \A v \in Vaults, d \in Directions :
        blockVolume[v][d] > 0 =>
            /\ persistedFlowData[v][d].lastSeenBlock = block
            /\ blockVolume[v][d] <= persistedFlowData[v][d].shortFlow

FlowInv == TypeOK /\ VolumeCounted

LEMMA FlowInit ==
    ASSUME Init
    PROVE  FlowInv
BY DEF Init, FlowInv, TypeOK, VolumeCounted, FlowData, Zero

\* An order adds its amount to a flow that is a number, and in a block that has accepted
\* amounts already, to a flow that has not decayed since.
LEMMA FlowWithOrder ==
    ASSUME FlowInv, NEW v \in Vaults, NEW d \in Directions, NEW amount \in Nat
    PROVE  /\ NewFlow(v, d, amount) \in Nat
           /\ amount + blockVolume[v][d] <= NewFlow(v, d, amount)
<1>. DEFINE data == persistedFlowData[v][d]
            memory == flowParams[v].shortFlowMemory
            kept == UpdateFlow(data.shortFlow, data.lastSeenBlock, memory)
<1>1. /\ data.shortFlow \in Nat /\ data.lastSeenBlock \in Nat /\ block \in Nat
      /\ data.lastSeenBlock <= block /\ memory \in Nat /\ blockVolume[v][d] \in Nat
    <2>1. data \in FlowData /\ data.lastSeenBlock <= block /\ block \in Nat
          /\ blockVolume[v][d] \in Nat
        BY DEF FlowInv, TypeOK
    <2>2. memory \in Memories  BY DEF FlowInv, TypeOK
    <2>. HIDE DEF data, memory
    <2>3. memory \in Nat
        <3>1. \A m \in Memories : m \in Nat  BY ONEAssumption
        <3>. QED  BY <2>2, <3>1
    <2>. QED  BY <2>1, <2>3 DEF FlowData
<1>2. blockVolume[v][d] > 0 =>
        data.lastSeenBlock = block /\ blockVolume[v][d] <= data.shortFlow
    BY DEF FlowInv, VolumeCounted
<1>3. NewFlow(v, d, amount) = amount + kept  BY DEF NewFlow
<1>. HIDE DEF data, memory, kept
<1>4. kept \in Nat
    <2>1. block - data.lastSeenBlock \in Nat  BY <1>1
    <2>2. IntPowDown(memory, block - data.lastSeenBlock) \in Nat  BY <1>1, <2>1, IntPowNat
    <2>3. MulDown(data.shortFlow, IntPowDown(memory, block - data.lastSeenBlock)) \in Nat
        BY <1>1, <2>2, MulDownNat
    <2>. QED  BY <1>1, <2>3 DEF kept, UpdateFlow
<1>5. blockVolume[v][d] <= kept
    <2>1. CASE data.lastSeenBlock = block
        <3>1. kept = data.shortFlow  BY <2>1 DEF kept, UpdateFlow
        <3>. QED  BY <1>1, <1>2, <1>4, <3>1
    <2>2. CASE data.lastSeenBlock # block  BY <1>1, <1>2, <1>4, <2>2
    <2>. QED  BY <2>1, <2>2
<1>. QED  BY <1>1, <1>3, <1>4, <1>5

\* An order keeps the invariant, and counts what it brings in this block.
LEMMA OrderKeepsFlow ==
    ASSUME FlowInv, NEW direction \in Directions, NEW amounts \in [Vaults -> Amounts],
           CheckAndPersist(direction, amounts)
    PROVE  FlowInv'
<1>. DEFINE after(v) == FlowDataAfter(v, direction, amounts[v])
            due(v) == IF ActivatesSafetyMode(v, direction, amounts[v])
                      THEN MaxOf(protectedUntil[v][direction], block + SafetyBlocksAutomatic)
                      ELSE protectedUntil[v][direction]
            volume(v) == blockVolume[v][direction] + amounts[v]
<1>1. TypeOK /\ UNCHANGED <<block, whitelist, flowParams>> /\ block \in Nat
    BY DEF FlowInv, TypeOK, CheckAndPersist
<1>2. ASSUME NEW v \in Vaults
      PROVE  /\ amounts[v] \in Nat /\ volume(v) \in Nat /\ due(v) \in Nat
             /\ after(v) \in FlowData /\ after(v).lastSeenBlock = block
             /\ volume(v) <= after(v).shortFlow
    <2>1. amounts[v] \in Nat  OBVIOUS
    <2>2. /\ blockVolume[v][direction] \in Nat /\ protectedUntil[v][direction] \in Nat
          /\ persistedFlowData[v][direction] \in FlowData
        BY <1>1 DEF TypeOK
    <2>3. due(v) \in Nat  BY <1>1, <2>2 DEF MaxOf
    <2>4. /\ NewFlow(v, direction, amounts[v]) \in Nat
          /\ amounts[v] + blockVolume[v][direction] <= NewFlow(v, direction, amounts[v])
        BY <2>1, FlowWithOrder
    <2>. HIDE DEF NewFlow, ActivatesSafetyMode
    <2>5. after(v) \in FlowData /\ after(v).lastSeenBlock = block
          /\ after(v).shortFlow = NewFlow(v, direction, amounts[v])
        BY <1>1, <2>2, <2>4 DEF FlowDataAfter, FlowData
    <2>. HIDE DEF after, due
    <2>. QED  BY <2>1, <2>2, <2>3, <2>4, <2>5
<1>3. /\ persistedFlowData' = [v \in Vaults |->
            [persistedFlowData[v] EXCEPT ![direction] = after(v)]]
      /\ blockVolume' = [v \in Vaults |-> [blockVolume[v] EXCEPT ![direction] = volume(v)]]
      /\ protectedUntil' = [v \in Vaults |-> [protectedUntil[v] EXCEPT ![direction] = due(v)]]
    BY DEF CheckAndPersist
<1>. HIDE DEF after, due, volume
<1>4. /\ persistedFlowData' \in [Vaults -> [Directions -> FlowData]]
      /\ blockVolume' \in [Vaults -> [Directions -> Nat]]
      /\ protectedUntil' \in [Vaults -> [Directions -> Nat]]
    BY <1>1, <1>2, <1>3 DEF TypeOK
<1>5. \A v \in Vaults, d \in Directions :
        /\ persistedFlowData'[v][d] = IF d = direction THEN after(v) ELSE persistedFlowData[v][d]
        /\ blockVolume'[v][d] = IF d = direction THEN volume(v) ELSE blockVolume[v][d]
    BY <1>1, <1>3 DEF TypeOK
<1>6. \A v \in Vaults, d \in Directions : persistedFlowData'[v][d].lastSeenBlock <= block
    <2>1. \A v \in Vaults, d \in Directions : persistedFlowData[v][d].lastSeenBlock <= block
        BY <1>1 DEF TypeOK
    <2>2. block <= block  BY <1>1
    <2>3. ASSUME NEW v \in Vaults, NEW d \in Directions
          PROVE  persistedFlowData'[v][d].lastSeenBlock <= block
        <3>1. CASE d = direction  BY <1>2, <1>5, <2>2, <3>1
        <3>2. CASE d # direction  BY <1>5, <2>1, <3>2
        <3>. QED  BY <3>1, <3>2
    <2>. QED  BY <2>3
<1>7. VolumeCounted'
    BY <1>1, <1>2, <1>5 DEF FlowInv, VolumeCounted
<1>. QED  BY <1>1, <1>4, <1>6, <1>7 DEF FlowInv, TypeOK

\* A guardian touches neither the flow nor the block that it was seen in.
LEMMA GuardKeepsFlow ==
    ASSUME FlowInv, NEW vaults, NEW directions, NEW blocks \in Nat,
           Guard(vaults, directions, blocks)
    PROVE  FlowInv'
<1>. DEFINE guarded(v, d) == v \in vaults /\ d \in directions
            due == block + MinOf(blocks, SafetyBlocksAutomatic)
            closed(v, d) == [persistedFlowData[v][d] EXCEPT !.lastSafetyBlock = block + blocks]
<1>1. TypeOK /\ UNCHANGED <<block, whitelist, flowParams, blockVolume>> /\ due \in Nat
      /\ block + blocks \in Nat
    BY DEF FlowInv, TypeOK, Guard, MinOf
<1>2. /\ persistedFlowData' = [v \in Vaults |-> [d \in Directions |->
            IF guarded(v, d) THEN closed(v, d) ELSE persistedFlowData[v][d]]]
      /\ protectedUntil' = [v \in Vaults |-> [d \in Directions |->
            IF guarded(v, d) THEN due ELSE protectedUntil[v][d]]]
    BY DEF Guard
<1>3. ASSUME NEW v \in Vaults, NEW d \in Directions
      PROVE  /\ closed(v, d) \in FlowData
             /\ closed(v, d).lastSeenBlock = persistedFlowData[v][d].lastSeenBlock
             /\ closed(v, d).shortFlow = persistedFlowData[v][d].shortFlow
    <2>1. persistedFlowData[v][d] \in FlowData  BY <1>1 DEF TypeOK
    <2>. QED  BY <1>1, <2>1 DEF FlowData
<1>. HIDE DEF guarded, due, closed
<1>4. /\ persistedFlowData' \in [Vaults -> [Directions -> FlowData]]
      /\ protectedUntil' \in [Vaults -> [Directions -> Nat]]
    BY <1>1, <1>2, <1>3 DEF TypeOK
<1>5. \A v \in Vaults, d \in Directions :
        /\ persistedFlowData'[v][d].lastSeenBlock = persistedFlowData[v][d].lastSeenBlock
        /\ persistedFlowData'[v][d].shortFlow = persistedFlowData[v][d].shortFlow
    BY <1>2, <1>3
<1>6. VolumeCounted'  BY <1>1, <1>5 DEF FlowInv, VolumeCounted
<1>. QED  BY <1>1, <1>4, <1>5, <1>6 DEF FlowInv, TypeOK

LEMMA FlowStep ==
    ASSUME FlowInv, [Next]_vars
    PROVE  FlowInv'
<1>1. CASE \E direction \in Directions, amounts \in [Vaults -> Amounts] :
                CheckAndPersist(direction, amounts)
    BY <1>1, OrderKeepsFlow
<1>2. ASSUME NEW caller \in Accounts, NEW vault \in Vaults, NEW blocks \in ProtectionBlocks,
             NEW directions \in {{"in"}, {"out"}, Directions},
             ActivateOracleGuardian(caller, vault, directions, blocks)
      PROVE  FlowInv'
    BY <1>2, GuardKeepsFlow DEF ActivateOracleGuardian
<1>3. ASSUME NEW caller \in Accounts, NEW depositsOnly \in BOOLEAN,
             PauseProtocol(caller, depositsOnly)
      PROVE  FlowInv'
    BY <1>3, GuardKeepsFlow DEF PauseProtocol
<1>4. CASE \/ \E account \in Accounts :
                AddAddressToWhitelist(account) \/ RemoveAddressFromWhitelist(account)
           \/ \E vault \in Vaults, memory \in Memories, threshold \in Thresholds :
                UpdatePersistedVaultFlowParams(vault, memory, threshold)
           \/ UNCHANGED vars
    <2>1. UNCHANGED <<block, persistedFlowData, blockVolume, protectedUntil>>
          /\ whitelist' \subseteq Accounts
        BY <1>4 DEF AddAddressToWhitelist, RemoveAddressFromWhitelist,
                    UpdatePersistedVaultFlowParams, vars, historyVars, FlowInv, TypeOK
    <2>2. flowParams' \in [Vaults -> [shortFlowThreshold : Thresholds, shortFlowMemory : Memories]]
        BY <1>4 DEF AddAddressToWhitelist, RemoveAddressFromWhitelist,
                    UpdatePersistedVaultFlowParams, vars, FlowInv, TypeOK
    <2>. QED  BY <2>1, <2>2 DEF FlowInv, TypeOK, VolumeCounted
<1>5. CASE NextBlock
    <2>1. /\ block \in Nat /\ block' = block + 1
          /\ UNCHANGED <<whitelist, flowParams, persistedFlowData, protectedUntil>>
          /\ blockVolume' = Zero
        BY <1>5 DEF NextBlock, FlowInv, TypeOK
    <2>2. blockVolume' \in [Vaults -> [Directions -> Nat]]
          /\ \A v \in Vaults, d \in Directions : ~(blockVolume'[v][d] > 0)
        BY <2>1 DEF Zero
    <2>3. \A v \in Vaults, d \in Directions : persistedFlowData[v][d].lastSeenBlock <= block + 1
        <3>1. \A v \in Vaults, d \in Directions :
                persistedFlowData[v][d] \in FlowData /\ persistedFlowData[v][d].lastSeenBlock <= block
            BY DEF FlowInv, TypeOK
        <3>. QED  BY <2>1, <3>1 DEF FlowData
    <2>. QED  BY <2>1, <2>2, <2>3 DEF FlowInv, TypeOK, VolumeCounted
<1>. QED  BY <1>1, <1>2, <1>3, <1>4, <1>5 DEF Next

LEMMA FlowInvariance == Spec => []FlowInv
<1>. QED  BY FlowInit, FlowStep, PTL DEF Spec

\* The flow of a vault is a number whatever its memory is, and was never last seen in a
\* block to come, so no decay is asked for over a negative number of blocks.
THEOREM SafetyModeTypeCorrect == Spec => []TypeOK
<1>1. FlowInv => TypeOK  BY DEF FlowInv
<1>. QED  BY <1>1, FlowInvariance, PTL

LEMMA AcceptedWithinThreshold ==
    ASSUME FlowInv, [Next]_vars, NEW v \in Vaults, NEW d \in Directions, Accepted(v, d)
    PROVE  blockVolume'[v][d] <= flowParams[v].shortFlowThreshold
<1>1. blockVolume[v][d] \in Nat  BY DEF FlowInv, TypeOK
<1>2. ASSUME NEW direction \in Directions, NEW amounts \in [Vaults -> Amounts],
             CheckAndPersist(direction, amounts)
      PROVE  blockVolume'[v][d] <= flowParams[v].shortFlowThreshold
    <2>1. blockVolume'[v][d]
            = IF d = direction THEN blockVolume[v][d] + amounts[v] ELSE blockVolume[v][d]
        BY <1>2 DEF CheckAndPersist, FlowInv, TypeOK
    <2>2. amounts[v] \in Nat  BY <1>2
    <2>3. d = direction /\ amounts[v] > 0  BY <1>1, <2>1, <2>2 DEF Accepted
    <2>4. NewFlow(v, d, amounts[v]) <= flowParams[v].shortFlowThreshold
        BY <1>2, <2>3 DEF CheckAndPersist, FlowAccepts
    <2>5. NewFlow(v, d, amounts[v]) \in Nat
          /\ amounts[v] + blockVolume[v][d] <= NewFlow(v, d, amounts[v])
        BY <2>2, FlowWithOrder
    <2>6. flowParams[v].shortFlowThreshold \in Nat
        <3>1. flowParams[v].shortFlowThreshold \in Thresholds  BY DEF FlowInv, TypeOK
        <3>. QED  BY <3>1
    <2>. HIDE DEF NewFlow
    <2>. QED  BY <1>1, <2>1, <2>2, <2>3, <2>4, <2>5, <2>6
<1>3. CASE NextBlock
    <2>1. blockVolume'[v][d] = 0  BY <1>3 DEF NextBlock, Zero
    <2>. QED  BY <1>1, <2>1 DEF Accepted
<1>4. blockVolume' # blockVolume  BY <1>1 DEF Accepted
<1>. QED
    BY <1>2, <1>3, <1>4
    DEF Next, ActivateOracleGuardian, PauseProtocol, Guard, AddAddressToWhitelist,
        RemoveAddressFromWhitelist, UpdatePersistedVaultFlowParams, vars, historyVars

\* However orders are cut and combined, an accepted order leaves what the block has
\* accepted for a vault and a direction within the threshold.
THEOREM VolumeAlwaysWithinThreshold == Spec => VolumeWithinThreshold
<1>1. FlowInv /\ [Next]_vars
        => [\A v \in Vaults, d \in Directions :
                Accepted(v, d) => blockVolume'[v][d] <= flowParams[v].shortFlowThreshold]_vars
    BY AcceptedWithinThreshold
<1>. QED  BY <1>1, FlowInvariance, PTL DEF Spec, VolumeWithinThreshold

=============================================================================
