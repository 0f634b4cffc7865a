--------------------------- MODULE MCTransactions ---------------------------
(***************************************************************************)
(* Accounts, parent state and candidate transactions shared by the models *)
(* of the execution modules: two accounts, the second one the coinbase in *)
(* the configurations, base fee 1, gas counted in units of params.TxGas   *)
(* (a call costs 1, a creation 2). Each transaction takes one path of     *)
(* ApplyMessage.                                                           *)
(***************************************************************************)
EXTENDS StateTransition, SequencesExt

MCAccounts == {"A", "B"}

MCTx(from, to, nonce, gas, tip, fee, value, sig) ==
    [from |-> from, to |-> to, nonce |-> nonce, gas |-> gas,
     tipCap |-> tip, feeCap |-> fee, value |-> value, sigOK |-> sig]

\* Transactions a builder may be handed.
MCBuilderTxSet ==
    { MCTx("A", "B",    0, 2, 2, 2, 1, TRUE),    \* tip capped by feeCap - baseFee
      MCTx("A", "B",    1, 1, 1, 3, 2, TRUE),    \* A's second transaction
      MCTx("B", NoAddr, 0, 1, 1, 2, 0, TRUE),    \* creation short of intrinsic gas
      MCTx("B", "A",    0, 2, 0, 1, 1, TRUE),    \* zero tip
      MCTx("A", "A",    3, 1, 1, 2, 0, FALSE) }  \* unsigned, nonce gap

\* Transactions a block may carry: the above and two a pool would refuse.
MCTxSet ==
    MCBuilderTxSet \cup
    { MCTx("B", "A",    0, 1, 2, 1, 0, TRUE),    \* tip above feeCap
      MCTx("A", "B",    0, 1, 0, 0, 0, TRUE) }   \* feeCap below the base fee

MCPre == [a \in MCAccounts |-> [nonce |-> 0, balance |-> IF a = "A" THEN 6 ELSE 3]]

\* Blocks of up to three transactions, gas limit 3, one withdrawal.
MCBlocks ==
    { [txs |-> s, gasLimit |-> 3,
       withdrawals |-> <<[address |-> "B", amount |-> 1]>>] : s \in BoundedSeq(MCTxSet, 3) }

MCTxLists == BoundedSeq(MCBuilderTxSet, 3)

MCWithdrawals == <<[address |-> "A", amount |-> 1]>>

=============================================================================
