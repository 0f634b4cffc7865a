\* One RPC goroutine, and a call passing the price 0, which hexutil.Big
\* decodes from "0x0".
CONSTANTS
    c1 = c1
    c2 = c2
    Nil = Nil
    Callers <- MCCallersOne
    Prices = {0, 1, 2}
    GasLimits = {10, 20, 30}
    ConfiguredPrices <- MCConfiguredPrices
    DefaultGasPrice = 1
    PriceLimit = 1
    GasCeil = 40
SPECIFICATION Spec
INVARIANT GasPricePositive
