CONSTANTS
    Accounts <- MCAccounts
    NoAddr = NoAddr
    Nil = Nil
    Coinbase = "B"
    BaseFee = 1
    TxGas = 1
    TxGasContractCreation = 2
    GPlanck = 1
    TxLists <- MCTxLists
    Pre <- MCPre
    GasLimit = 3
    Withdrawals <- MCWithdrawals
    MiningReward = 1
SPECIFICATION Spec
INVARIANTS
    TypeOK
    BuilderGasPool
    BuilderSupply
    ReceiptsMatchIncluded
CHECK_DEADLOCK FALSE
