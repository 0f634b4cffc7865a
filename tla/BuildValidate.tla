---------------------------- MODULE BuildValidate ----------------------------
(***************************************************************************)
(* The block builder and the block validator together. The builder        *)
(* (Prestate.Apply) picks the transactions of a block from a candidate    *)
(* list, rejecting some; the validator (StateProcessor.Process) then      *)
(* executes the block made of the included transactions on the same      *)
(* parent state. The virtual machine is deterministic: the validator is   *)
(* handed, for each included transaction, the outcome the builder saw     *)
(* (execLog). The mining reward is disabled, as under the beacon engine,  *)
(* whose Finalize credits only withdrawals.                               *)
(***************************************************************************)
EXTENDS Integers, Sequences, StateTransition

CONSTANTS TxLists, Pre, GasLimit, Withdrawals

VARIABLES
    phase,          \* "build", then "validate"
    execLog,        \* outcome of the machine for each included transaction
    txs, i, bStatedb, bGp, gasUsed, included, rejected, bReceipts, bStatus,
    vBlock, vStatus, txIndex, vStatedb, vGp, usedGas, vReceipts

bVars == <<txs, i, bStatedb, bGp, gasUsed, included, rejected, bReceipts, bStatus>>
vVars == <<vBlock, vStatus, txIndex, vStatedb, vGp, usedGas, vReceipts>>
vars == <<phase, execLog, bVars, vVars>>

B == INSTANCE BlockBuilder
        WITH statedb <- bStatedb, gp <- bGp, receipts <- bReceipts,
             status <- bStatus, MiningReward <- -1

\* The block the builder produced.
BuiltBlock == [txs |-> included, gasLimit |-> GasLimit, withdrawals |-> Withdrawals]

\* Every block the builder can produce.
BuildableBlocks ==
    [txs : Seq(UNION {Range(l) : l \in TxLists}), gasLimit : {GasLimit},
     withdrawals : {Withdrawals}]

V == INSTANCE BlockProcessor
        WITH block <- vBlock, status <- vStatus, statedb <- vStatedb,
             gp <- vGp, receipts <- vReceipts, Blocks <- BuildableBlocks

TypeOK ==
    /\ phase \in {"build", "validate"}
    /\ B!TypeOK
    /\ phase = "validate" => V!TypeOK

Init ==
    /\ phase = "build"
    /\ execLog = <<>>
    /\ B!Init
    /\ vBlock = BuiltBlock
    /\ vStatus = "processing"
    /\ txIndex = 0
    /\ vStatedb = Pre
    /\ vGp = GasLimit
    /\ usedGas = 0
    /\ vReceipts = <<>>

\* A builder step that rejects a transaction.
BuildReject ==
    /\ phase = "build"
    /\ B!RejectMessage \/ B!RejectApply
    /\ UNCHANGED <<phase, execLog, vVars>>

\* A builder step that includes a transaction; its outcome is logged.
BuildInclude ==
    /\ phase = "build"
    /\ bStatus = "applying"
    /\ i < Len(txs)
    /\ \E exec \in ExecOutcomes(TransactionToMessage(B!CurTx, BaseFee).msg) :
         /\ B!IncludeWith(exec)
         /\ execLog' = Append(execLog, exec)
    /\ UNCHANGED <<phase, vVars>>

\* The builder commits; the built block goes to the validator.
BuildCommit ==
    /\ phase = "build"
    /\ B!Commit
    /\ phase' = "validate"
    /\ vBlock' = BuiltBlock
    /\ UNCHANGED <<execLog, vStatus, txIndex, vStatedb, vGp, usedGas, vReceipts>>

\* A validator step: a transaction replayed with the builder's outcome, or
\* Finalize. The error steps of Process (RejectSender, ApplyFailed) are
\* not offered: BuilderValidatorAgree states that their guards never hold
\* on a block the builder made.
Validate ==
    /\ phase = "validate"
    /\ \/ /\ vStatus = "processing"
          /\ txIndex < Len(vBlock.txs)
          /\ V!ApplyTransactionWith(execLog[txIndex + 1])
       \/ V!Finalize
    /\ UNCHANGED <<phase, execLog, bVars>>

Next == BuildReject \/ BuildInclude \/ BuildCommit \/ Validate

Spec == Init /\ [][Next]_vars /\ WF_vars(Next)

-----------------------------------------------------------------------------
(* Properties *)

\* Receipt fields both sides compute.
Consensus(r) == [status |-> r.status, gasUsed |-> r.gasUsed, cumulative |-> r.cumulative]

\* Whether the validator's next transaction, replayed with the builder's
\* outcome, goes through TransactionToMessage and ApplyMessage.
ReplayAccepted ==
    LET m == TransactionToMessage(vBlock.txs[txIndex + 1], BaseFee)
    IN  m.ok /\ ApplyMessage(vStatedb, vGp, m.msg, execLog[txIndex + 1]).err = "none"

\* Builder and validator agree (spec property 1, determinism, across the
\* two code paths): the block the builder made is valid to the validator,
\* and re-executing it yields the builder's state, gas used and receipts.
\* A rejected transaction that leaves any trace in the builder's state
\* makes the builder announce a state root no validator reproduces.
BuilderValidatorAgree ==
    /\ (phase = "validate" /\ vStatus = "processing" /\ txIndex < Len(vBlock.txs))
          => ReplayAccepted
    /\ vStatus = "done" =>
        /\ vStatedb = bStatedb
        /\ usedGas = gasUsed
        /\ vReceipts = [k \in DOMAIN bReceipts |-> Consensus(bReceipts[k])]

=============================================================================
