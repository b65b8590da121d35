\* Held shares of positive value that the market refuses to buy back.
CONSTANTS
    U64 = 1024
    U128 = 1073741824
    FP_SCALE = 1000
    LN_2_FP = 693
    PLATFORM_FEE_RATE = 10
    FEE_BASIS_POINTS = 100
    MIN_LIQUIDITY = 5
    MAX_LIQUIDITY = 20
    MAX_BET_AMOUNT = 30
    MAX_SHARES = 31
    Openings <- Balanced
    BetAmounts = {1, 5, 12, 31}
    SaleSizes = {0, 1, 4, 9, 18}
    MaxBets = 3
SPECIFICATION Spec
INVARIANTS
    SaleNeverRefused
