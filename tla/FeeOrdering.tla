---------------------------- MODULE FeeOrdering ----------------------------
(***************************************************************************)
(* The fee helpers of transaction.go checked against what a block pays.   *)
(* The state is a dynamic-fee transaction and a header base fee (Nil for  *)
(* a header without one). Init holds every input of the bounded domain;   *)
(* a step picks another transaction.                                      *)
(***************************************************************************)
EXTENDS Integers, TxFee

CONSTANTS Caps, BaseFees, Gases, Values

VARIABLES tx, baseFee

vars == <<tx, baseFee>>

Txs == [tipCap : Caps, feeCap : Caps, gas : Gases, value : Values]

Init == tx \in Txs /\ baseFee \in BaseFees

\* Another transaction.
Pick ==
    /\ tx' \in Txs
    /\ UNCHANGED baseFee

Spec == Init /\ [][Pick]_vars

-----------------------------------------------------------------------------
(* Reference *)

\* The block side: buyGas's balance check of StateTransition, for a sender
\* of the given balance (its other constants play no part in it).
ST == INSTANCE StateTransition WITH Accounts <- {"sender"}, NoAddr <- "none",
          Coinbase <- "sender", BaseFee <- 0, TxGas <- 0,
          TxGasContractCreation <- 0, GPlanck <- 1

\* What the coinbase earns per gas of t under baseFee: the price the sender
\* is charged, min(tipCap + baseFee, feeCap), less the burnt base fee. A
\* header without a base fee burns nothing and the price is the tip cap.
MinerIncome(t, bf) ==
    IF bf = Nil THEN t.tipCap
    ELSE BigMin(t.tipCap + bf, t.feeCap) - bf

-----------------------------------------------------------------------------
(* Properties *)

\* EffectiveGasTip is the miner's income per gas, negative values and the
\* ErrGasFeeCapTooLow case included, and it reports the error exactly when
\* the fee cap is below the base fee. The block processor credits this
\* tip while the sender is charged the capped price; were they apart,
\* supply would be created or destroyed per transaction.
TipIsMinerIncome ==
    /\ EffectiveGasTip(tx, baseFee).tip = MinerIncome(tx, baseFee)
    /\ EffectiveGasTip(tx, baseFee).err = (baseFee # Nil /\ tx.feeCap < baseFee)

\* A sender whose balance covers tx.Cost(), the worst-case cost the pool
\* demands, is exactly one whose balance passes buyGas's check in a block:
\* a smaller Cost would admit transactions the block rejects with
\* insufficient funds, a larger one would turn payable ones away.
CostMatchesBuyGas ==
    \A bal \in 0 .. Cost(tx) + 1 :
        (bal >= Cost(tx)) = ST!BalanceCovers([balance |-> bal], tx)

=============================================================================
