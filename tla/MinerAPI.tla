------------------------------ MODULE MinerAPI ------------------------------
(***************************************************************************)
(* The miner API's gas settings (qrl/api_miner.go, and its copy for the    *)
(* Zond backend) together with their start-up values (zond.New in          *)
(* zond/backend.go). The node keeps three gas price settings: the          *)
(* backend's gasPrice, the transaction pool's tip and the miner's tip.     *)
(* SetGasPrice writes the first under the backend's lock and the other    *)
(* two after releasing it. RPC requests are served by concurrent           *)
(* goroutines, so several calls may be in flight.                          *)
(*                                                                         *)
(* The critical section holds only the assignment to gasPrice, so taking   *)
(* the lock, assigning and releasing it is one step; the two calls after   *)
(* it are a step each.                                                     *)
(***************************************************************************)
EXTENDS Integers, ZondConfig

CONSTANTS
    Callers,            \* RPC goroutines calling the miner API
    Prices,             \* gas prices a call may pass (hexutil.Big: 0 or more)
    GasLimits,          \* gas limits a call may pass
    ConfiguredPrices,   \* values config.Miner.GasPrice may have, Nil when unset
    PriceLimit,         \* config.TxPool.PriceLimit, the pool's start tip
    GasCeil             \* config.Miner.GasCeil

VARIABLES
    gasPrice,   \* q.gasPrice
    poolTip,    \* the transaction pool's gas tip
    minerTip,   \* the miner's gas tip
    gasCeil,    \* the miner's gas ceiling
    pc,         \* per caller: "idle", "pool" (SetGasTip of the pool next), "miner"
    arg,        \* per caller: the gas price of its call in flight
    priced      \* some SetGasPrice call has returned

vars == <<gasPrice, poolTip, minerTip, gasCeil, pc, arg, priced>>

TypeOK ==
    /\ gasPrice \in Prices \cup {DefaultGasPrice}
    /\ poolTip \in Prices \cup {PriceLimit}
    /\ minerTip \in Prices \cup {DefaultGasPrice}
    /\ gasCeil \in GasLimits \cup {GasCeil}
    /\ pc \in [Callers -> {"idle", "pool", "miner"}]
    /\ arg \in [Callers -> Prices \cup {Nil}]
    /\ priced \in BOOLEAN

\* zond.New: gasPrice and the miner (miner.New with config.Miner) get the
\* sanitized price; the pool is created with config.TxPool.PriceLimit.
Init ==
    /\ \E p \in ConfiguredPrices :
         /\ gasPrice = SanitizeGasPrice(p)
         /\ minerTip = SanitizeGasPrice(p)
    /\ poolTip = PriceLimit
    /\ gasCeil = GasCeil
    /\ pc = [c \in Callers |-> "idle"]
    /\ arg = [c \in Callers |-> Nil]
    /\ priced = FALSE

\* SetGasPrice, lines under the lock: q.gasPrice = gasPrice.
SetGasPriceLocked(c, p) ==
    /\ pc[c] = "idle"
    /\ gasPrice' = p
    /\ arg' = [arg EXCEPT ![c] = p]
    /\ pc' = [pc EXCEPT ![c] = "pool"]
    /\ UNCHANGED <<poolTip, minerTip, gasCeil, priced>>

\* SetGasPrice: q.txPool.SetGasTip(gasPrice), after the unlock.
SetPoolTip(c) ==
    /\ pc[c] = "pool"
    /\ poolTip' = arg[c]
    /\ pc' = [pc EXCEPT ![c] = "miner"]
    /\ UNCHANGED <<gasPrice, minerTip, gasCeil, arg, priced>>

\* SetGasPrice: q.Miner().SetGasTip(gasPrice), then return true.
SetMinerTip(c) ==
    /\ pc[c] = "miner"
    /\ minerTip' = arg[c]
    /\ pc' = [pc EXCEPT ![c] = "idle"]
    /\ arg' = [arg EXCEPT ![c] = Nil]
    /\ priced' = TRUE
    /\ UNCHANGED <<gasPrice, poolTip, gasCeil>>

\* SetGasLimit: q.Miner().SetGasCeil(gasLimit), one call.
SetGasLimit(c, g) ==
    /\ pc[c] = "idle"
    /\ gasCeil' = g
    /\ UNCHANGED <<gasPrice, poolTip, minerTip, pc, arg, priced>>

Next ==
    \E c \in Callers :
        \/ \E p \in Prices : SetGasPriceLocked(c, p)
        \/ SetPoolTip(c)
        \/ SetMinerTip(c)
        \/ \E g \in GasLimits : SetGasLimit(c, g)

Spec == Init /\ [][Next]_vars

-----------------------------------------------------------------------------
(* Properties *)

\* SetGasPrice sets "the minimum accepted gas price for the miner": once a
\* call has returned and none is in flight, the backend's gasPrice, the
\* pool's tip and the miner's tip all hold the price that call set. Two
\* overlapping calls each write gasPrice under the lock but the two tips
\* outside it, in either order.
SettingsAgree ==
    (priced /\ \A c \in Callers : pc[c] = "idle") =>
        gasPrice = poolTip /\ poolTip = minerTip

\* zond.New calls a configured gas price of zero or less invalid and
\* replaces it by the default (backend.go, "Sanitizing invalid miner gas
\* price"), so every setting starts positive. The same holds after any
\* SetGasPrice only if the RPC call applies that rule too: the backend's
\* gasPrice, the pool's tip and the miner's tip stay positive.
GasPricePositive ==
    /\ gasPrice > 0
    /\ poolTip > 0
    /\ minerTip > 0

=============================================================================
