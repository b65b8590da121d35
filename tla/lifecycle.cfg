\* The life of one market, accepted inputs: bets on both sides, sales, a
\* resolution at any time, claims and fee withdrawals.
CONSTANTS
    U64 = 64
    U128 = 1073741824
    FP_SCALE = 100
    LN_2_FP = 69
    PLATFORM_FEE_RATE = 10
    FEE_BASIS_POINTS = 100
    MIN_LIQUIDITY = 4
    MAX_LIQUIDITY = 20
    MAX_BET_AMOUNT = 30
    MAX_SHARES = 31
    U32 = 2
    Pids <- OnePlayer
    Admin <- administrator
    NEW_PLAYER_INITIAL_BALANCE = 20
    BetAmounts = {9}
    SellAmounts = {8}
    WithdrawAmounts = {}
    DepositAmounts = {}
    Offers <- BriefOffer
    MaxMarkets = 1
    MaxCounter = 1
    MaxTx = 8
SPECIFICATION Spec
INVARIANTS
    SharesBacked
    WinnersCovered
PROPERTIES
    MoneyConserved
    SaleIssuesItsFee
    ResolutionFinal
    ClaimedIsFinal
    FailedClaimLosesNothing
    MarketsLive
