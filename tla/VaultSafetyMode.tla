--------------------------- MODULE VaultSafetyMode --------------------------
(***************************************************************************)
(* safety/VaultSafetyMode.sol and libraries/Flow.sol.  An order, a mint or *)
(* a redemption, comes with an amount for every vault of the reserve, zero *)
(* for the vaults it does not touch.  Per vault and direction the contract *)
(* keeps a decaying sum of the amounts, refuses an order that takes it     *)
(* above a threshold, and closes the vault for some blocks when the sum is *)
(* near the threshold or when a guardian says so.                          *)
(*                                                                         *)
(* The order is checked as a whole: one refused vault reverts it, so the   *)
(* sequence in which the code visits the vaults does not show.  The sums   *)
(* fit their 128 bits: they are at most a threshold, a number of tokens.   *)
(***************************************************************************)
EXTENDS FixedPoint

CONSTANTS
    Vaults,                 \* registered vaults
    Accounts,               \* accounts that may be on the whitelist
    Amounts,                \* amounts of an order, for one vault
    Thresholds,             \* values of shortFlowThreshold
    Memories,               \* values of shortFlowMemory
    ProtectionBlocks,       \* arguments of activateOracleGuardian
    SafetyBlocksAutomatic,  \* SAFETY_BLOCKS_AUTOMATIC
    SafetyBlocksGuardian,   \* SAFETY_BLOCKS_GUARDIAN
    ThresholdBuffer,        \* THRESHOLD_BUFFER
    LastActiveBlock,        \* bound: the last block with amounts, guardians and governance
    MaxBlock                \* bound: the last block

ASSUME SafetyModeAssumption ==
    /\ Amounts \subseteq Nat /\ Thresholds \subseteq Nat
    /\ Memories \subseteq 0..ONE
    /\ ProtectionBlocks \subseteq Nat
    /\ SafetyBlocksAutomatic \in Nat /\ SafetyBlocksGuardian \in Nat
    /\ ThresholdBuffer \in 0..ONE
    /\ LastActiveBlock \in Nat /\ MaxBlock \in Nat

VARIABLES
    block,                  \* block.number
    whitelist,
    flowParams,             \* the flow parameters in the metadata of the vaults
    persistedFlowData,
    \* History, read by no action:
    blockVolume,            \* amounts accepted in this block
    protectedUntil          \* last block for which protection was due, see ProtectionHolds

historyVars == <<blockVolume, protectedUntil>>
vars == <<block, whitelist, flowParams, persistedFlowData, historyVars>>

Directions == {"in", "out"}

FlowData == [shortFlow : Nat, lastSafetyBlock : Nat, lastSeenBlock : Nat]

TypeOK ==
    /\ block \in Nat
    /\ whitelist \subseteq Accounts
    /\ flowParams \in [Vaults -> [shortFlowThreshold : Thresholds, shortFlowMemory : Memories]]
    /\ persistedFlowData \in [Vaults -> [Directions -> FlowData]]
    /\ \A v \in Vaults, d \in Directions : persistedFlowData[v][d].lastSeenBlock <= block
    /\ blockVolume \in [Vaults -> [Directions -> Nat]]
    /\ protectedUntil \in [Vaults -> [Directions -> Nat]]

Zero == [v \in Vaults |-> [d \in Directions |-> 0]]

Init ==
    /\ block = 1
    /\ whitelist = {}
    /\ flowParams \in [Vaults -> [shortFlowThreshold : Thresholds, shortFlowMemory : Memories]]
    /\ persistedFlowData = [v \in Vaults |-> [d \in Directions |->
            [shortFlow |-> 0, lastSafetyBlock |-> 0, lastSeenBlock |-> 0]]]
    /\ blockVolume = Zero
    /\ protectedUntil = Zero

-----------------------------------------------------------------------------
(* Flows                                                                   *)

\* mutant: rounded up
UpdateFlowUp(flow, lastSeenBlock, memory) ==
    IF lastSeenBlock = block \/ flow = 0 THEN flow
    ELSE MulUp(flow, IntPowDown(memory, block - lastSeenBlock))

\* The sum decays with the blocks since it was last seen.
UpdateFlow(flow, lastSeenBlock, memory) ==
    IF lastSeenBlock = block \/ flow = 0 THEN flow
    ELSE MulDown(flow, IntPowDown(memory, block - lastSeenBlock))

NewFlow(vault, direction, amount) ==
    LET data == persistedFlowData[vault][direction]
    IN  amount + UpdateFlow(data.shortFlow, data.lastSeenBlock,
                            flowParams[vault].shortFlowMemory)

InSafetyMode(vault, direction) == block <= persistedFlowData[vault][direction].lastSafetyBlock

\* mutant: the amount alone is compared with the threshold
FlowAcceptsAmount(vault, direction, amount) ==
    amount > 0 =>
        /\ ~InSafetyMode(vault, direction)
        /\ amount <= flowParams[vault].shortFlowThreshold

\* A vault that the order does not touch is not in its way.
FlowAccepts(vault, direction, amount) ==
    amount > 0 =>
        /\ ~InSafetyMode(vault, direction)
        /\ NewFlow(vault, direction, amount) <= flowParams[vault].shortFlowThreshold

ActivatesSafetyMode(vault, direction, amount) ==
    NewFlow(vault, direction, amount)
        > MulDown(ThresholdBuffer, flowParams[vault].shortFlowThreshold)

\* mutant: the two block numbers are swapped
FlowDataSwapped(vault, direction, amount) ==
    [shortFlow |-> NewFlow(vault, direction, amount),
     lastSafetyBlock |-> block,
     lastSeenBlock |-> IF ActivatesSafetyMode(vault, direction, amount)
                       THEN block + SafetyBlocksAutomatic
                       ELSE persistedFlowData[vault][direction].lastSafetyBlock]

\* mutant: only an amount activates the safety mode, and the mode is lifted otherwise
FlowDataLifted(vault, direction, amount) ==
    [shortFlow |-> NewFlow(vault, direction, amount),
     lastSeenBlock |-> block,
     lastSafetyBlock |-> IF ActivatesSafetyMode(vault, direction, amount) /\ amount > 0
                         THEN block + SafetyBlocksAutomatic ELSE 0]

FlowDataAfter(vault, direction, amount) ==
    [shortFlow |-> NewFlow(vault, direction, amount),
     lastSeenBlock |-> block,
     lastSafetyBlock |-> IF ActivatesSafetyMode(vault, direction, amount)
                         THEN block + SafetyBlocksAutomatic
                         ELSE persistedFlowData[vault][direction].lastSafetyBlock]

-----------------------------------------------------------------------------
(* Actions                                                                 *)

\* checkAndPersistMint and checkAndPersistRedeem: direction "in" and "out".
CheckAndPersist(direction, amounts) ==
    /\ block > LastActiveBlock => \A v \in Vaults : amounts[v] = 0
    /\ \A v \in Vaults : FlowAccepts(v, direction, amounts[v])
    /\ persistedFlowData' = [v \in Vaults |->
            [persistedFlowData[v] EXCEPT ![direction] = FlowDataAfter(v, direction, amounts[v])]]
    /\ blockVolume' = [v \in Vaults |-> [blockVolume[v] EXCEPT ![direction] = @ + amounts[v]]]
    /\ protectedUntil' = [v \in Vaults |-> [protectedUntil[v] EXCEPT ![direction] =
            IF ActivatesSafetyMode(v, direction, amounts[v])
            THEN MaxOf(@, block + SafetyBlocksAutomatic) ELSE @]]
    /\ UNCHANGED <<block, whitelist, flowParams>>

\* What activating the guardian does to some vaults and directions.
Guard(vaults, directions, blocks) ==
    /\ block <= LastActiveBlock
    /\ blocks <= SafetyBlocksGuardian
    /\ persistedFlowData' = [v \in Vaults |-> [d \in Directions |->
            IF v \in vaults /\ d \in directions
            THEN [persistedFlowData[v][d] EXCEPT !.lastSafetyBlock = block + blocks]
            ELSE persistedFlowData[v][d]]]
    /\ protectedUntil' = [v \in Vaults |-> [d \in Directions |->
            IF v \in vaults /\ d \in directions
            THEN block + MinOf(blocks, SafetyBlocksAutomatic) ELSE protectedUntil[v][d]]]
    /\ UNCHANGED <<block, whitelist, flowParams, blockVolume>>

ActivateOracleGuardian(caller, vault, directions, blocks) ==
    /\ caller \in whitelist
    /\ Guard({vault}, directions, blocks)

PauseProtocol(caller, depositsOnly) ==
    /\ caller \in whitelist
    /\ Guard(Vaults, IF depositsOnly THEN {"in"} ELSE Directions, SafetyBlocksGuardian)

AddAddressToWhitelist(account) ==
    /\ block <= LastActiveBlock
    /\ whitelist' = whitelist \cup {account}
    /\ UNCHANGED <<block, flowParams, persistedFlowData, historyVars>>

RemoveAddressFromWhitelist(account) ==
    /\ block <= LastActiveBlock
    /\ whitelist' = whitelist \ {account}
    /\ UNCHANGED <<block, flowParams, persistedFlowData, historyVars>>

\* VaultRegistry.updatePersistedVaultFlowParams, for one vault.
UpdatePersistedVaultFlowParams(vault, memory, threshold) ==
    /\ block <= LastActiveBlock
    /\ flowParams' = [flowParams EXCEPT ![vault] =
            [shortFlowThreshold |-> threshold, shortFlowMemory |-> memory]]
    /\ UNCHANGED <<block, whitelist, persistedFlowData, historyVars>>

NextBlock ==
    /\ block < MaxBlock
    /\ block' = block + 1
    /\ blockVolume' = Zero
    /\ UNCHANGED <<whitelist, flowParams, persistedFlowData, protectedUntil>>

Next ==
    \/ \E direction \in Directions, amounts \in [Vaults -> Amounts] :
            CheckAndPersist(direction, amounts)
    \/ \E caller \in Accounts, vault \in Vaults, blocks \in ProtectionBlocks,
          directions \in {{"in"}, {"out"}, Directions} :
            ActivateOracleGuardian(caller, vault, directions, blocks)
    \/ \E caller \in Accounts, depositsOnly \in BOOLEAN : PauseProtocol(caller, depositsOnly)
    \/ \E account \in Accounts :
            AddAddressToWhitelist(account) \/ RemoveAddressFromWhitelist(account)
    \/ \E vault \in Vaults, memory \in Memories, threshold \in Thresholds :
            UpdatePersistedVaultFlowParams(vault, memory, threshold)
    \/ NextBlock

Spec == Init /\ [][Next]_vars

\* Blocks are mined whatever happens.
LiveSpec == Spec /\ WF_vars(NextBlock)

-----------------------------------------------------------------------------
(* Properties                                                              *)

\* An order that brings an amount to a vault, in a direction.
Accepted(vault, direction) == blockVolume'[vault][direction] > blockVolume[vault][direction]

\* However the orders of a block are cut and combined with orders for other vaults,
\* with guardians and with changes of the parameters, an accepted order leaves the
\* amounts accepted in the block within the threshold.
VolumeWithinThreshold ==
    [][\A v \in Vaults, d \in Directions :
        Accepted(v, d) => blockVolume'[v][d] <= flowParams[v].shortFlowThreshold]_vars

\* A vault closed by its flow, or by a guardian, takes no order for as many blocks as
\* the automatic safety mode lasts, or as the guardian who acted last asked for if that
\* is less, whatever orders for other vaults come in between.  A guardian who asked for
\* longer may get no more than that: an order that finds the flow of the vault high sets
\* the end of the protection anew.
ProtectionHolds ==
    [][\A v \in Vaults, d \in Directions :
        Accepted(v, d) => block > protectedUntil[v][d]]_vars

\* Orders for other vaults renew the safety mode of a vault whose flow is high, but the
\* flow decays below the buffer and the vault opens again.
SafetyModeEnds ==
    \A v \in Vaults, d \in Directions : InSafetyMode(v, d) ~> ~InSafetyMode(v, d)

=============================================================================
