CONSTANTS
    Accounts <- MCAccounts
    NoAddr = NoAddr
    Nil = Nil
    Coinbase = "B"
    BaseFee = 1
    TxGas = 1
    TxGasContractCreation = 2
    GPlanck = 1
    Blocks <- MCBlocks
    Pre <- MCPre
SPECIFICATION Spec
INVARIANTS
    TypeOK
    GasPoolAccounting
    CumulativeGasUsed
    SupplyConservation
CHECK_DEADLOCK FALSE
