---------------------------- MODULE BlockBuilder ----------------------------
(***************************************************************************)
(* Prestate.Apply of the transition tool (cmd/qrvm/internal/t8ntool/      *)
(* execution.go): builds a block from a list of candidate transactions.   *)
(* Unlike StateProcessor.Process it does not give up on a bad             *)
(* transaction: a transaction whose message cannot be formed, or whose    *)
(* ApplyMessage fails, is recorded as rejected, the state is reverted to  *)
(* the snapshot taken before it and the gas pool reset to its value       *)
(* before it; the loop goes on with the next one. Included transactions   *)
(* get consecutive receipt indices. After the loop the mining reward (if  *)
(* enabled) and the withdrawals are credited and the state committed.     *)
(*                                                                         *)
(* Left out: the tracer factory and the BLOCKHASH lookup, which can abort *)
(* Apply with an error; both are inputs of the tool, not of the block.    *)
(***************************************************************************)
EXTENDS Integers, Sequences, StateTransition

CONSTANTS
    TxLists,        \* candidate transaction lists handed to Apply
    Pre,            \* pre.Pre, the state Apply starts from
    GasLimit,       \* pre.Env.GasLimit
    Withdrawals,    \* pre.Env.Withdrawals
    MiningReward    \* miningReward; -1 disables the reward

VARIABLES
    txs,        \* the transactions handed to Apply
    i,          \* transactions of txs looked at so far
    statedb,    \* the state being built
    gp,         \* gaspool
    gasUsed,    \* gas used by the included transactions
    included,   \* includedTxs
    rejected,   \* indices (1-based) of rejectedTxs
    receipts,   \* receipts of the included transactions
    status      \* "applying" or "committed"

vars == <<txs, i, statedb, gp, gasUsed, included, rejected, receipts, status>>

Receipt == [status : {"success", "failed"}, gasUsed : Nat, cumulative : Nat,
            index : Nat]

TypeOK ==
    /\ txs \in TxLists
    /\ i \in 0..Len(txs)
    /\ statedb \in [Accounts -> [nonce : Nat, balance : Nat]]
    /\ gp \in Nat
    /\ gasUsed \in Nat
    /\ included \in Seq(Range(txs))
    /\ rejected \in Seq(1..Len(txs))
    /\ receipts \in Seq(Receipt)
    /\ status \in {"applying", "committed"}

\* The transaction the next loop iteration looks at.
CurTx == txs[i + 1]

Init ==
    /\ txs \in TxLists
    /\ i = 0
    /\ statedb = Pre
    /\ gp = GasLimit
    /\ gasUsed = 0
    /\ included = <<>>
    /\ rejected = <<>>
    /\ receipts = <<>>
    /\ status = "applying"

\* TransactionToMessage fails: the transaction is rejected, nothing else
\* changes.
RejectMessage ==
    /\ status = "applying"
    /\ i < Len(txs)
    /\ ~TransactionToMessage(CurTx, BaseFee).ok
    /\ rejected' = Append(rejected, i + 1)
    /\ i' = i + 1
    /\ UNCHANGED <<txs, statedb, gp, gasUsed, included, receipts, status>>

\* Mutant: the rejected transaction's state changes are not reverted.
RejectApplyNoRevert ==
    /\ status = "applying"
    /\ i < Len(txs)
    /\ LET m == TransactionToMessage(CurTx, BaseFee)
       IN  /\ m.ok
           /\ \E exec \in ExecOutcomes(m.msg) :
                LET r == ApplyMessage(statedb, gp, m.msg, exec)
                IN  /\ r.err # "none"
                    /\ statedb' = r.st
           /\ gp' = gp
    /\ rejected' = Append(rejected, i + 1)
    /\ i' = i + 1
    /\ UNCHANGED <<txs, gasUsed, included, receipts, status>>

\* Mutant: the gas pool is not reset after a rejected transaction.
RejectApplyKeepGas ==
    /\ status = "applying"
    /\ i < Len(txs)
    /\ LET m == TransactionToMessage(CurTx, BaseFee)
       IN  /\ m.ok
           /\ \E exec \in ExecOutcomes(m.msg) :
                LET r == ApplyMessage(statedb, gp, m.msg, exec)
                IN  /\ r.err # "none"
                    /\ gp' = r.gp
           /\ statedb' = statedb
    /\ rejected' = Append(rejected, i + 1)
    /\ i' = i + 1
    /\ UNCHANGED <<txs, gasUsed, included, receipts, status>>

\* ApplyMessage fails: RevertToSnapshot(snapshot), reject, and
\* gaspool.SetGas(prevGas). The snapshot and prevGas were read before the
\* call; what ApplyMessage left in the state and the pool is dropped.
RejectApply ==
    /\ status = "applying"
    /\ i < Len(txs)
    /\ LET m        == TransactionToMessage(CurTx, BaseFee)
           snapshot == statedb
           prevGas  == gp
       IN  /\ m.ok
           /\ \E exec \in ExecOutcomes(m.msg) :
                ApplyMessage(snapshot, prevGas, m.msg, exec).err # "none"
           /\ statedb' = snapshot
           /\ gp' = prevGas
    /\ rejected' = Append(rejected, i + 1)
    /\ i' = i + 1
    /\ UNCHANGED <<txs, gasUsed, included, receipts, status>>

\* Mutant: the receipt index counts every transaction looked at, rejected
\* ones included.
IncludeWithIndexByPosition(exec) ==
    LET m == TransactionToMessage(CurTx, BaseFee)
        r == ApplyMessage(statedb, gp, m.msg, exec)
    IN  /\ m.ok
        /\ r.err = "none"
        /\ statedb' = r.st
        /\ gp' = r.gp
        /\ gasUsed' = gasUsed + r.used
        /\ receipts' = Append(receipts,
             [status |-> IF r.failed THEN "failed" ELSE "success",
              gasUsed |-> r.used, cumulative |-> gasUsed + r.used,
              index |-> i])
        /\ included' = Append(included, CurTx)
        /\ i' = i + 1
        /\ UNCHANGED <<txs, rejected, status>>

\* ApplyMessage succeeds, the virtual machine reporting exec: the
\* transaction is included, gasUsed advanced and a receipt built with
\* CumulativeGasUsed = gasUsed and TransactionIndex = txIndex, the number
\* of transactions included before it.
IncludeWith(exec) ==
    LET m == TransactionToMessage(CurTx, BaseFee)
        r == ApplyMessage(statedb, gp, m.msg, exec)
    IN  /\ m.ok
        /\ r.err = "none"
        /\ statedb' = r.st
        /\ gp' = r.gp
        /\ gasUsed' = gasUsed + r.used
        /\ receipts' = Append(receipts,
             [status |-> IF r.failed THEN "failed" ELSE "success",
              gasUsed |-> r.used, cumulative |-> gasUsed + r.used,
              index |-> Len(included)])
        /\ included' = Append(included, CurTx)
        /\ i' = i + 1
        /\ UNCHANGED <<txs, rejected, status>>

\* One iteration of the loop of Apply that includes its transaction.
Include ==
    /\ status = "applying"
    /\ i < Len(txs)
    /\ \E exec \in ExecOutcomes(TransactionToMessage(CurTx, BaseFee).msg) :
         IncludeWith(exec)

\* The mining reward, when enabled, goes to the coinbase.
AddMiningReward(st) ==
    IF MiningReward >= 0
    THEN [st EXCEPT ![Coinbase].balance = @ + MiningReward]
    ELSE st

\* After the loop: IntermediateRoot, mining reward, withdrawals, Commit.
Commit ==
    /\ status = "applying"
    /\ i = Len(txs)
    /\ statedb' = ApplyWithdrawals(AddMiningReward(statedb), Withdrawals)
    /\ status' = "committed"
    /\ UNCHANGED <<txs, i, gp, gasUsed, included, rejected, receipts>>

Next == RejectMessage \/ RejectApply \/ Include \/ Commit

Spec == Init /\ [][Next]_vars /\ WF_vars(Next)

-----------------------------------------------------------------------------
(* Properties *)

\* Gas pool accounting across rejections: every unit of the block gas limit
\* is in the pool or counted in gasUsed. A rejected transaction whose
\* bought gas is not given back to the pool (gaspool.SetGas(prevGas)
\* skipped) shrinks the block for every later transaction.
BuilderGasPool == gp + gasUsed = GasLimit

\* Supply conservation across rejections: the built state's balances are
\* the pre-state's minus the base fee burnt on the included gas, plus the
\* reward and withdrawals once committed. A rejected transaction whose
\* bought gas is not reverted (RevertToSnapshot skipped) destroys supply.
BuilderSupply ==
    Supply(statedb) + BaseFee * gasUsed
        = Supply(Pre) + (IF status = "committed"
                         THEN (IF MiningReward >= 0 THEN MiningReward ELSE 0)
                              + Withdrawn(Withdrawals)
                         ELSE 0)

\* Receipts follow the included transactions: one receipt per included
\* transaction, every transaction looked at is included or rejected, and
\* the k-th receipt has TransactionIndex k-1 whatever was rejected before.
ReceiptsMatchIncluded ==
    /\ Len(receipts) = Len(included)
    /\ Len(included) + Len(rejected) = i
    /\ \A k \in DOMAIN receipts : receipts[k].index = k - 1

=============================================================================
