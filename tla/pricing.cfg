\* Bets and sales of every size in a balanced and in a lopsided market.
CONSTANTS
    U64 = 1024
    U128 = 1073741824
    FP_SCALE = 100
    LN_2_FP = 69
    PLATFORM_FEE_RATE = 10
    FEE_BASIS_POINTS = 100
    MIN_LIQUIDITY = 5
    MAX_LIQUIDITY = 20
    MAX_BET_AMOUNT = 30
    MAX_SHARES = 31
    Openings <- Both
    BetAmounts = {1, 5, 12, 31}
    SaleSizes = {0, 1, 4, 9, 18}
    MaxBets = 3
    Targets = {60, 99}
SPECIFICATION Spec
INVARIANTS
    TypeOK
    PoolCoversCost
    TargetReached
PROPERTIES
    RoundTripNeverPays
    PriceFollowsTrades
