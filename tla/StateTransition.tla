--------------------------- MODULE StateTransition ---------------------------
(***************************************************************************)
(* Applying one message to the world state: core.TransactionToMessage and  *)
(* core.ApplyMessage. Their code is not part of this source tree; they are *)
(* written from the spec (sections 4.3 and 4.5) and follow the order of    *)
(* checks it describes: nonce, fee caps, balance, block gas pool, then     *)
(* intrinsic gas, which fails only after the gas has been bought.          *)
(*                                                                         *)
(* The world state is a function from account to [nonce, balance]. The    *)
(* virtual machine is abstracted to its outcome: the gas it used and       *)
(* whether it failed (revert, out of gas); a failed call keeps its gas and *)
(* its nonce increment and loses its value transfer. Gas refunds are left  *)
(* out: with the model's gas units the refund quotient gasUsed/5 is zero.  *)
(* A contract creation (to = NoAddr) carries no value in this model; the   *)
(* created account is not tracked.                                         *)
(***************************************************************************)
EXTENDS Integers, Functions, TxFee

CONSTANTS
    Accounts,               \* addresses of externally owned accounts
    NoAddr,                 \* the nil recipient of a contract creation
    Coinbase,               \* fee recipient of the block
    BaseFee,                \* header.BaseFee
    TxGas,                  \* params.TxGas, intrinsic gas of a call
    TxGasContractCreation,  \* params.TxGasContractCreation
    GPlanck                 \* params.GPlanck, planck per withdrawal unit

ASSUME Coinbase \in Accounts /\ NoAddr \notin Accounts
ASSUME BaseFee \in Nat /\ TxGas \in Nat /\ TxGasContractCreation \in Nat

\* Results of a failed check, each a distinct error of the code.
ApplyErrors == {"nonceTooHigh", "nonceTooLow", "tipAboveFeeCap",
                "feeCapTooLow", "insufficientFunds", "gasLimitReached",
                "intrinsicGas"}

\* IntrinsicGas(data, accessList, isContractCreation): the payload is
\* abstracted away, only the creation/call distinction remains.
IntrinsicGas(msg) ==
    IF msg.to = NoAddr THEN TxGasContractCreation ELSE TxGas

\* TransactionToMessage: recovers the sender (fails on a bad signature) and
\* fixes the price paid per gas to min(tipCap + baseFee, feeCap).
TransactionToMessage(tx, baseFee) ==
    [ok  |-> tx.sigOK,
     msg |-> [from |-> tx.from, to |-> tx.to, nonce |-> tx.nonce,
              gas |-> tx.gas, value |-> tx.value,
              tipCap |-> tx.tipCap, feeCap |-> tx.feeCap,
              gasPrice |-> BigMin(tx.tipCap + baseFee, tx.feeCap)]]

\* Outcomes the virtual machine may report for a message: any gas use from
\* the intrinsic cost up to the gas limit, success or failure. A message
\* that cannot pay its intrinsic gas never reaches the machine.
ExecOutcomes(msg) ==
    IF msg.gas < IntrinsicGas(msg)
    THEN {[used |-> 0, failed |-> FALSE]}
    ELSE [used : IntrinsicGas(msg)..msg.gas, failed : BOOLEAN]

\* Moves v from one balance to another (core.Transfer).
Transfer(st, from, to, v) ==
    [st EXCEPT ![from].balance = @ - v, ![to].balance = @ + v]

\* buyGas: takes gas * gasPrice from the sender.
BuyGas(st, msg) ==
    [st EXCEPT ![msg.from].balance = @ - msg.gas * msg.gasPrice]

\* The call frame: nonce increment, then the value transfer, which the
\* journal reverts when execution fails.
ExecuteCall(st, msg, exec) ==
    LET called == [st EXCEPT ![msg.from].nonce = @ + 1]
    IN  IF exec.failed \/ msg.to = NoAddr
        THEN called
        ELSE Transfer(called, msg.from, msg.to, msg.value)

\* Mutant: the balance check leaves out the value the message transfers.
BalanceCoversGasOnly(sender, msg) == sender.balance >= msg.gas * msg.feeCap

\* buyGas's balance check: the sender can pay gas * feeCap plus the value.
BalanceCovers(sender, msg) == sender.balance >= msg.gas * msg.feeCap + msg.value

\* Result record of ApplyMessage.
Result(st, gp, err, used, failed) ==
    [st |-> st, gp |-> gp, err |-> err, used |-> used, failed |-> failed]

\* ApplyMessage(zvm, msg, gp): the state, gas pool and outcome after one
\* message. An error after buyGas leaves the bought gas taken from both the
\* sender and the pool: undoing it is the caller's job.
ApplyMessage(st, gp, msg, exec) ==
    LET sender   == st[msg.from]
        bought   == BuyGas(st, msg)
        executed == ExecuteCall(bought, msg, exec)
        remaining == msg.gas - exec.used
        refunded == [executed EXCEPT ![msg.from].balance = @ + remaining * msg.gasPrice]
        tip      == EffectiveGasTip(msg, BaseFee).tip
        paid     == [refunded EXCEPT ![Coinbase].balance = @ + exec.used * tip]
    IN  CASE sender.nonce < msg.nonce -> Result(st, gp, "nonceTooHigh", 0, FALSE)
          [] sender.nonce > msg.nonce -> Result(st, gp, "nonceTooLow", 0, FALSE)
          [] msg.feeCap < msg.tipCap  -> Result(st, gp, "tipAboveFeeCap", 0, FALSE)
          [] msg.feeCap < BaseFee     -> Result(st, gp, "feeCapTooLow", 0, FALSE)
          [] ~BalanceCovers(sender, msg)
                                      -> Result(st, gp, "insufficientFunds", 0, FALSE)
          [] gp < msg.gas             -> Result(st, gp, "gasLimitReached", 0, FALSE)
          [] msg.gas < IntrinsicGas(msg)
                                      -> Result(bought, gp - msg.gas, "intrinsicGas", 0, FALSE)
          [] OTHER -> Result(paid, gp - exec.used, "none", exec.used, exec.failed)

\* Sum of all balances of a state.
Supply(st) == SumFunction([a \in Accounts |-> st[a].balance])

\* Everything a list of withdrawals credits.
Withdrawn(ws) == GPlanck * SumFunction([i \in DOMAIN ws |-> ws[i].amount])

\* The withdrawals loop: each withdrawal credits amount * GPlanck to its
\* address (AddBalance), in list order; the order does not matter to the sum.
ApplyWithdrawals(st, ws) ==
    [a \in Accounts |->
        [st[a] EXCEPT !.balance = @ + GPlanck *
            SumFunction([i \in {j \in DOMAIN ws : ws[j].address = a} |-> ws[i].amount])]]

=============================================================================
