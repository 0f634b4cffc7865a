-------------------------- MODULE MCBlockProcessor --------------------------
(***************************************************************************)
(* A model of BlockProcessor:                                             *)
(* blocks of up to three transactions from MCTransactions, so that every  *)
(* branch of Process happens: a valid call, a reverting call, a second    *)
(* transaction of the same sender, a nonce gap, a creation short of       *)
(* intrinsic gas, a tip above feeCap - baseFee, a tip above the fee cap,  *)
(* a fee cap below the base fee, an unfunded sender, a bad signature, and *)
(* a block gas pool that runs out.                                         *)
(***************************************************************************)
EXTENDS BlockProcessor, MCTransactions

=============================================================================
