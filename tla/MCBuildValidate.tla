-------------------------- MODULE MCBuildValidate ---------------------------
(***************************************************************************)
(* A model of BuildValidate: the builder transactions of MCTransactions   *)
(* handed to Apply as lists of up to three, a block gas limit of 3 and    *)
(* one withdrawal.                                                         *)
(***************************************************************************)
EXTENDS BuildValidate, MCTransactions

=============================================================================
