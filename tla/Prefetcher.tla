----------------------------- MODULE Prefetcher -----------------------------
(***************************************************************************)
(* statePrefetcher.Prefetch and precacheTransaction (core, in             *)
(* src/unnamed/part_009): runs a block's transactions on a throwaway copy *)
(* of the state only to warm caches, while the importer processes the     *)
(* block for real. The importer stops it through an atomic interrupt      *)
(* flag, which Prefetch polls at the top of each loop iteration; any      *)
(* error ends it silently. The importer's side (setting the flag) is not  *)
(* in this tree and is modelled as a step that may come at any time.      *)
(***************************************************************************)
EXTENDS Integers, Sequences, StateTransition

CONSTANTS Blocks, Pre

VARIABLES
    block,      \* the block being prefetched
    pc,         \* "poll" (top of the loop), "apply" (flag read clear), "returned"
    txIndex,    \* transactions of the block run so far
    statedb,    \* the throwaway state
    gaspool,    \* the prefetcher's own gas pool
    interrupt,  \* the interrupt flag
    lateTxs     \* transactions run after the flag was set (history)

vars == <<block, pc, txIndex, statedb, gaspool, interrupt, lateTxs>>

TypeOK ==
    /\ block \in Blocks
    /\ pc \in {"poll", "apply", "returned"}
    /\ txIndex \in 0..Len(block.txs)
    /\ statedb \in [Accounts -> [nonce : Nat, balance : Nat]]
    /\ gaspool \in Nat
    /\ interrupt \in BOOLEAN
    /\ lateTxs \in Nat

Init ==
    /\ block \in Blocks
    /\ pc = "poll"
    /\ txIndex = 0
    /\ statedb = Pre
    /\ gaspool = block.gasLimit
    /\ interrupt = FALSE
    /\ lateTxs = 0

\* The importer is done with the block and sets the flag.
Interrupt ==
    /\ ~interrupt
    /\ interrupt' = TRUE
    /\ UNCHANGED <<block, pc, txIndex, statedb, gaspool, lateTxs>>

\* Mutant: the flag is polled once, before the loop, not per iteration.
PollOnce ==
    /\ pc = "poll"
    /\ txIndex < Len(block.txs)
    /\ IF interrupt /\ txIndex = 0
       THEN pc' = "returned"
       ELSE pc' = "apply"
    /\ UNCHANGED <<block, txIndex, statedb, gaspool, interrupt, lateTxs>>

\* Top of an iteration: return if interrupted, else go on.
Poll ==
    /\ pc = "poll"
    /\ txIndex < Len(block.txs)
    /\ pc' = IF interrupt THEN "returned" ELSE "apply"
    /\ UNCHANGED <<block, txIndex, statedb, gaspool, interrupt, lateTxs>>

\* TransactionToMessage, then precacheTransaction (ApplyMessage on the
\* throwaway state and pool); an error of either ends Prefetch.
Precache ==
    /\ pc = "apply"
    /\ LET m == TransactionToMessage(block.txs[txIndex + 1], BaseFee)
       IN  \E exec \in ExecOutcomes(m.msg) :
             LET r == ApplyMessage(statedb, gaspool, m.msg, exec)
             IN  /\ IF m.ok /\ r.err = "none"
                    THEN /\ statedb' = r.st
                         /\ gaspool' = r.gp
                         /\ txIndex' = txIndex + 1
                         /\ pc' = "poll"
                    ELSE /\ pc' = "returned"
                         /\ UNCHANGED <<statedb, gaspool, txIndex>>
                 /\ lateTxs' = IF interrupt /\ m.ok THEN lateTxs + 1 ELSE lateTxs
    /\ UNCHANGED <<block, interrupt>>

\* After the loop: IntermediateRoot, to load the trie nodes, and return.
Finish ==
    /\ pc = "poll"
    /\ txIndex = Len(block.txs)
    /\ pc' = "returned"
    /\ UNCHANGED <<block, txIndex, statedb, gaspool, interrupt, lateTxs>>

Next == Interrupt \/ Poll \/ Precache \/ Finish

Spec == Init /\ [][Next]_vars /\ WF_vars(Poll \/ Precache \/ Finish)

-----------------------------------------------------------------------------
(* Properties *)

\* Prefetch honours the interrupt within one transaction: once the flag is
\* set, at most the transaction whose poll already passed still runs on the
\* throwaway state; a prefetcher that polled less often would keep loading
\* state for a block the importer has finished.
InterruptHonoured == lateTxs <= 1

=============================================================================
