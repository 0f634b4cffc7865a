\* Two RPC goroutines: SetGasPrice calls may overlap.
CONSTANTS
    c1 = c1
    c2 = c2
    Nil = Nil
    Callers <- MCCallersTwo
    Prices = {1, 2, 3}
    GasLimits = {10, 20, 30}
    ConfiguredPrices <- MCConfiguredPrices
    DefaultGasPrice = 1
    PriceLimit = 1
    GasCeil = 40
SPECIFICATION Spec
INVARIANT SettingsAgree
