CONSTANTS
    Accounts <- MCAccounts
    NoAddr = NoAddr
    Nil = Nil
    Coinbase = "B"
    BaseFee = 1
    TxGas = 1
    TxGasContractCreation = 2
    GPlanck = 1
    TxLists <- MCTxLists
    Pre <- MCPre
    GasLimit = 3
    Withdrawals <- MCWithdrawals
SPECIFICATION Spec
INVARIANTS
    BuilderValidatorAgree
CHECK_DEADLOCK FALSE
