\* A claim that fails keeps its flag.
CONSTANTS
    U64 = 1024
    U128 = 1073741824
    FP_SCALE = 100
    LN_2_FP = 69
    PLATFORM_FEE_RATE = 10
    FEE_BASIS_POINTS = 100
    MIN_LIQUIDITY = 4
    MAX_LIQUIDITY = 100
    MAX_BET_AMOUNT = 30
    MAX_SHARES = 31
    U32 = 2
    Pids <- OnePlayer
    Admin <- administrator
    NEW_PLAYER_INITIAL_BALANCE = 20
    BetAmounts = {9}
    SellAmounts = {8}
    WithdrawAmounts = {7}
    DepositAmounts = {12}
    Offers <- GoodOffer
    MaxMarkets = 1
    MaxCounter = 1
    MaxTx = 6
SPECIFICATION Spec
PROPERTIES
    FailureRollsBack
