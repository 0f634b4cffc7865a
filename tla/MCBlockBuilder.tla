--------------------------- MODULE MCBlockBuilder ---------------------------
(***************************************************************************)
(* A model of BlockBuilder: the builder transactions of MCTransactions    *)
(* handed to Apply as lists of up to three, a block gas limit of 3, one   *)
(* withdrawal and a mining reward of 1.                                    *)
(***************************************************************************)
EXTENDS BlockBuilder, MCTransactions

=============================================================================
