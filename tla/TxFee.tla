------------------------------- MODULE TxFee -------------------------------
(***************************************************************************)
(* Fee arithmetic of a dynamic-fee transaction (core/types/transaction.go). *)
(* A transaction is a record; only the fields the fee rules read are kept: *)
(* tipCap, feeCap, and for Cost the gas limit and the value.              *)
(* A base fee of Nil stands for a header without a base fee.               *)
(***************************************************************************)
EXTENDS Integers

CONSTANT Nil

\* Minimum of two integers (math.BigMin).
BigMin(a, b) == IF a <= b THEN a ELSE b

\* Mutant: the tip cap is paid whole, without the cap feeCap - baseFee.
EffectiveGasTipUncapped(tx, baseFee) ==
    [tip |-> tx.tipCap, err |-> baseFee # Nil /\ tx.feeCap < baseFee]

\* tx.EffectiveGasTip(baseFee): the miner tip per gas, min(tipCap, feeCap -
\* baseFee). The value may be negative; err is set when feeCap < baseFee.
EffectiveGasTip(tx, baseFee) ==
    IF baseFee = Nil
    THEN [tip |-> tx.tipCap, err |-> FALSE]
    ELSE [tip |-> BigMin(tx.tipCap, tx.feeCap - baseFee),
          err |-> tx.feeCap < baseFee]

\* tx.GasPrice() of a dynamic-fee transaction: its fee cap
\* (DynamicFeeTx.gasPrice; tx_dynamic_fee.go is not in this tree).
GasPrice(tx) == tx.feeCap

\* Mutant: the cost is priced at the tip cap.
CostAtTip(tx) == tx.tipCap * tx.gas + tx.value

\* tx.Cost(): gas * GasPrice() + value.
Cost(tx) == GasPrice(tx) * tx.gas + tx.value

=============================================================================
