\* A stale position receives a deposit.
SPECIFICATION CleanStartSpec
CONSTANTS
    ONE = 2
    u1 = u1
    u2 = u2
    Users = {u1, u2}
    RewardAmounts = {2}
    StakeAmounts = {}
    Genesis = 1
    MaxTime = 4
    MaxStake = 0
    MaxFunding = 2
    InitialGyd = 1
    GydAmounts = {1}
    ReserveValues = {0, 1}
    WaitDurations = {0}
    MaxWithdrawalWaitDuration = 1
    MaxPartialBurnFactor = 1
    TriggerCR = 5
    TargetCR = 2
    MaxTriggerCR = 2
    MaxWithdrawals = 1
SYMMETRY UserSymmetry
INVARIANT
    RecoverySharesCovered
