---------------------------- MODULE MCPrefetcher ----------------------------
(***************************************************************************)
(* A model of Prefetcher: the blocks of MCTransactions, with the interrupt *)
(* free to come before, between or during any transaction.                *)
(***************************************************************************)
EXTENDS Prefetcher, MCTransactions

=============================================================================
