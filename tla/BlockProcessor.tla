--------------------------- MODULE BlockProcessor ---------------------------
(***************************************************************************)
(* StateProcessor.Process and applyTransaction (core, in                   *)
(* src/common/compiler/hyperion.go): the validator's execution of a block. *)
(* Transactions are applied in block order against one state; any error   *)
(* of TransactionToMessage or ApplyMessage aborts the whole block. After   *)
(* the last transaction the consensus engine's Finalize credits the        *)
(* block's withdrawals. One step of the model is one iteration of the     *)
(* loop of Process.                                                        *)
(***************************************************************************)
EXTENDS Integers, Sequences, FiniteSets, SequencesExt, StateTransition

CONSTANTS
    Blocks,     \* candidate blocks: [txs, gasLimit, withdrawals]
    Pre         \* the parent state the block is executed on

VARIABLES
    block,      \* the block being processed
    status,     \* "processing", "done" (Process returned receipts) or "invalid"
    txIndex,    \* transactions of the block applied so far
    statedb,    \* the state being transitioned
    gp,         \* the block gas pool (GasPool)
    usedGas,    \* *usedGas, gas used by the block so far
    receipts    \* receipts built so far

vars == <<block, status, txIndex, statedb, gp, usedGas, receipts>>

Receipt == [status : {"success", "failed"}, gasUsed : Nat, cumulative : Nat]

TypeOK ==
    /\ block \in Blocks
    /\ status \in {"processing", "done", "invalid"}
    /\ txIndex \in 0..Len(block.txs)
    /\ statedb \in [Accounts -> [nonce : Nat, balance : Nat]]
    /\ gp \in Nat
    /\ usedGas \in Nat
    /\ receipts \in Seq(Receipt)

\* The transaction the next loop iteration works on.
NextTx == block.txs[txIndex + 1]

Init ==
    /\ block \in Blocks
    /\ status = "processing"
    /\ txIndex = 0
    /\ statedb = Pre
    /\ gp = block.gasLimit
    /\ usedGas = 0
    /\ receipts = <<>>

\* TransactionToMessage fails: Process returns "could not apply tx".
RejectSender ==
    /\ status = "processing"
    /\ txIndex < Len(block.txs)
    /\ ~TransactionToMessage(NextTx, BaseFee).ok
    /\ status' = "invalid"
    /\ UNCHANGED <<block, txIndex, statedb, gp, usedGas, receipts>>

\* ApplyMessage fails: Process returns the error; whatever buyGas already
\* took stays in the state, which the caller discards.
ApplyFailed ==
    /\ status = "processing"
    /\ txIndex < Len(block.txs)
    /\ LET m == TransactionToMessage(NextTx, BaseFee)
       IN  /\ m.ok
           /\ \E exec \in ExecOutcomes(m.msg) :
                LET r == ApplyMessage(statedb, gp, m.msg, exec)
                IN  /\ r.err # "none"
                    /\ statedb' = r.st
                    /\ gp' = r.gp
    /\ status' = "invalid"
    /\ UNCHANGED <<block, txIndex, usedGas, receipts>>

\* Mutant: the receipt is built before *usedGas is advanced.
MakeReceiptStale(r, cumulative) ==
    [status |-> IF r.failed THEN "failed" ELSE "success",
     gasUsed |-> r.used, cumulative |-> cumulative - r.used]

\* Receipt of a transaction after *usedGas has been advanced.
MakeReceipt(r, cumulative) ==
    [status |-> IF r.failed THEN "failed" ELSE "success",
     gasUsed |-> r.used, cumulative |-> cumulative]

\* Mutant: *usedGas accumulates the message's gas limit, not the gas used.
ApplyTransactionGasLimit(exec) ==
    LET m == TransactionToMessage(NextTx, BaseFee)
        r == ApplyMessage(statedb, gp, m.msg, exec)
    IN  /\ m.ok
        /\ r.err = "none"
        /\ statedb' = r.st
        /\ gp' = r.gp
        /\ usedGas' = usedGas + m.msg.gas
        /\ receipts' = Append(receipts, MakeReceipt(r, usedGas + m.msg.gas))
        /\ txIndex' = txIndex + 1
        /\ UNCHANGED <<block, status>>

\* applyTransaction, the virtual machine reporting exec: ApplyMessage,
\* Finalise, *usedGas += result.UsedGas, then the receipt with
\* CumulativeGasUsed = *usedGas.
ApplyTransactionWith(exec) ==
    LET m == TransactionToMessage(NextTx, BaseFee)
        r == ApplyMessage(statedb, gp, m.msg, exec)
    IN  /\ m.ok
        /\ r.err = "none"
        /\ statedb' = r.st
        /\ gp' = r.gp
        /\ usedGas' = usedGas + r.used
        /\ receipts' = Append(receipts, MakeReceipt(r, usedGas + r.used))
        /\ txIndex' = txIndex + 1
        /\ UNCHANGED <<block, status>>

\* One iteration of the loop of Process that applies its transaction.
ApplyTransaction ==
    /\ status = "processing"
    /\ txIndex < Len(block.txs)
    /\ \E exec \in ExecOutcomes(TransactionToMessage(NextTx, BaseFee).msg) :
         ApplyTransactionWith(exec)

\* After the loop: engine.Finalize, which credits the withdrawals, and
\* Process returns.
Finalize ==
    /\ status = "processing"
    /\ txIndex = Len(block.txs)
    /\ statedb' = ApplyWithdrawals(statedb, block.withdrawals)
    /\ status' = "done"
    /\ UNCHANGED <<block, txIndex, gp, usedGas, receipts>>

Next == RejectSender \/ ApplyFailed \/ ApplyTransaction \/ Finalize

Spec == Init /\ [][Next]_vars /\ WF_vars(Next)

-----------------------------------------------------------------------------
(* Properties *)

\* Gas pool accounting: while the block is valid, every unit of block gas is
\* either still in the pool or counted in *usedGas. A refund that forgets
\* the pool, or a usedGas that counts the gas limit rather than the gas
\* used, breaks it.
GasPoolAccounting ==
    status # "invalid" => gp + usedGas = block.gasLimit

\* Receipts: the k-th receipt's CumulativeGasUsed is the gas of receipts
\* 1..k, the last one equals the block's usedGas, and no receipt uses more
\* gas than its transaction's limit.
CumulativeGasUsed ==
    /\ \A k \in DOMAIN receipts :
         /\ receipts[k].cumulative = SumFunction([j \in 1..k |-> receipts[j].gasUsed])
         /\ receipts[k].gasUsed <= block.txs[k].gas
    /\ receipts # <<>> => receipts[Len(receipts)].cumulative = usedGas

\* Supply conservation: the balances of the block's state differ from the
\* parent's only by the base fee burnt on the gas used and, once the block
\* is finalized, the withdrawals. Sender charge, refund and miner tip must
\* all use consistent prices.
SupplyConservation ==
    status # "invalid" =>
        Supply(statedb) + BaseFee * usedGas
            = Supply(Pre) + (IF status = "done" THEN Withdrawn(block.withdrawals) ELSE 0)

=============================================================================
