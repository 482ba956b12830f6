SPECIFICATION BaselineSpec
CONSTANTS
    Quantities = {1, 2, 21, 52, 200}
    Prices = {651, 999, 46500}
    Tolerances <- MCTolerances
    PriceDraws = {20, 50, 80, 160, 500}
    ReceiptDraws <- MCReceiptDraws
    MaxIterations = 8
INVARIANTS
    NeverUnsafe
    IdealWhenRead
    RaisedUnlessItFailed
PROPERTY BaselineSubmits
CHECK_DEADLOCK FALSE
