\* Orders, guardians and parameter changes on one vault, under fairness of blocks.
\* An order with amount zero is an order for other vaults.
SPECIFICATION LiveSpec
CONSTANTS
    ONE = 4
    v1 = v1
    v2 = v2
    Vaults = {v1}
    Accounts = {"guardian"}
    Amounts = {0, 1, 2}
    Thresholds = {3}
    Memories = {2, 3}
    ProtectionBlocks = {0, 2}
    SafetyBlocksAutomatic = 1
    SafetyBlocksGuardian = 2
    ThresholdBuffer = 3
    LastActiveBlock = 3
    MaxBlock = 7
INVARIANT
    TypeOK
PROPERTIES
    VolumeWithinThreshold
    ProtectionHolds
    SafetyModeEnds
