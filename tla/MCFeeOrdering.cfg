\* Caps 0..3 and base fees 0..2 or none: tips below, at and above
\* feeCap - baseFee, fee caps below, at and above the base fee. Gas limits
\* 1 and 2 and values 0 and 1 make a cost priced at the tip cap, or one
\* leaving out the value, differ from buyGas's check.
CONSTANTS
    Nil = Nil
    Caps = {0, 1, 2, 3}
    BaseFees = {Nil, 0, 1, 2}
    Gases = {1, 2}
    Values = {0, 1}
SPECIFICATION Spec
INVARIANTS
    TipIsMinerIncome
    CostMatchesBuyGas
