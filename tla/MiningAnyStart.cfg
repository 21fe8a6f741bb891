\* The base mining contract, programs started at any time.
SPECIFICATION LMSpec
CONSTANTS
    ONE = 2
    u1 = u1
    u2 = u2
    Users = {u1, u2}
    RewardAmounts = {2, 3}
    StakeAmounts = {1, 2}
    Genesis = 1
    MaxTime = 5
    MaxStake = 3
    MaxFunding = 5
SYMMETRY UserSymmetry
INVARIANT
    RewardsBacked
