\* Gas limits in units of 1000 gas: MinGasLimit 5 (params.MinGasLimit
\* 5000), a maximum of 100, the upstream bound divisor 1024 scaled to 8 so
\* that a change of up to 3 on the genesis limit of 30 is allowed.
CONSTANTS
    MinGasLimit = 5
    MaxGasLimit = 100
    GenesisGasLimit = 30
    GasLimits = {4, 5, 30, 31, 100, 101}
    BoundDivisor = 8
    MaxHeaders = 3
SPECIFICATION Spec
INVARIANT GasLimitFollowsParent
CHECK_DEADLOCK FALSE
