\* Two synchronisers at work at the same time.
CONSTANTS
    U64 = 1024
    U128 = 1073741824
    FP_SCALE = 100
    LN_2_FP = 69
    PLATFORM_FEE_RATE = 10
    FEE_BASIS_POINTS = 100
    MIN_LIQUIDITY = 4
    MAX_LIQUIDITY = 100
    MAX_BET_AMOUNT = 30
    MAX_SHARES = 31
    U32 = 2
    Pids <- Both
    Admin <- administrator
    NEW_PLAYER_INITIAL_BALANCE = 20
    BetAmounts = {}
    SellAmounts = {}
    WithdrawAmounts = {}
    DepositAmounts = {3}
    Offers <- Listed
    MaxMarkets = 5
    MaxCounter = 1
    MaxTx = 9
    BatchTicks = 1
    BatchSize = 4
    Markets = {}
    MaxPosted = 0
    MaxDue = 0
    Syncs = {"first", "second"}
    Deposits = {"deposit"}
    Listings <- OnlyGood
    Target <- alice
    Amount = 3
SPECIFICATION SyncSpec
INVARIANTS
    MatchingIds
CHECK_DEADLOCK FALSE
