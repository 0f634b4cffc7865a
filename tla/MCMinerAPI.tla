----------------------------- MODULE MCMinerAPI -----------------------------
(* The miner API with RPC goroutines as model values, two gas prices a call *)
(* may pass and a configured price that is unset, zero or valid.           *)
EXTENDS MinerAPI

CONSTANTS c1, c2

MCCallersOne == {c1}
MCCallersTwo == {c1, c2}
MCConfiguredPrices == {Nil, 0, 2}

=============================================================================
