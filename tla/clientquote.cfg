\* The client's estimate of a bet beside what the program mints.  The scale is
\* small because the client's logarithm grows with the cube of its argument.
CONSTANTS
    U64 = 1024
    U128 = 1073741824
    FP_SCALE = 10
    LN_2_FP = 7
    PLATFORM_FEE_RATE = 10
    FEE_BASIS_POINTS = 100
    MIN_LIQUIDITY = 5
    MAX_LIQUIDITY = 20
    MAX_BET_AMOUNT = 30
    MAX_SHARES = 15
    Openings <- Balanced
    BetAmounts = {1, 5, 12}
    SaleSizes = {0, 1, 4}
    MaxBets = 1
    Targets = {}
SPECIFICATION Spec
INVARIANTS
    ClientMatches
