\* Deposits, withdrawals and burns, without a mining program, under fairness.
SPECIFICATION LiveSpec
CONSTANTS
    ONE = 3
    u1 = u1
    u2 = u2
    Users = {u1, u2}
    RewardAmounts = {}
    StakeAmounts = {}
    Genesis = 1
    MaxTime = 2
    MaxStake = 0
    MaxFunding = 0
    InitialGyd = 3
    GydAmounts = {2, 3}
    ReserveValues = {3, 4, 5}
    WaitDurations = {0, 1}
    MaxWithdrawalWaitDuration = 1
    MaxPartialBurnFactor = 1
    TriggerCR = 5
    TargetCR = 3
    MaxTriggerCR = 3
    MaxWithdrawals = 2
INVARIANTS
    TypeOK
    Solvent
    PositionsAddUp
    LiveStakesAddUp
PROPERTIES
    ImplementsPool
    WithdrawalsComplete
