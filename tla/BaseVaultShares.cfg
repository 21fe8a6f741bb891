\* Every deposit, withdrawal and direct transfer of up to 40 tokens.
SPECIFICATION Spec
CONSTANTS
    ONE = 4
    SharesToBurn = 2
    MaxUnderlying = 40
    Amounts <- MCAmounts
INVARIANTS
    TypeOK
    SharesBacked
PROPERTY
    ShareValueNeverFalls
