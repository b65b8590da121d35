----------------------------- MODULE ClientMath -----------------------------
(* The quotes the TypeScript client shows before a trade: its own copy of    *)
(* the LMSR arithmetic (ts/src/lmsr_math.ts) and the estimates of api.ts     *)
(* built on it, beside the market they are about.  The client counts in      *)
(* bigint: nothing overflows, a quote may be negative, and `/` rounds        *)
(* towards zero.  Its errors are out of reach here: b is positive, an        *)
(* exponential is at least 1, and nobody asks for more than a side has.      *)
EXTENDS MarketMaker

CONSTANT Targets         \* YES prices asked for, in units of 1 / FP_SCALE

ASSUME TargetsAssumption == Targets \subseteq 1 .. FP_SCALE

\* bigint division
BigDiv(a, b) == IF a >= 0 THEN a \div b ELSE -((-a) \div b)

fpMul(a, b) == BigDiv(a * b, FP_SCALE)
fpDiv(a, b) == BigDiv(a * FP_SCALE, b)

\* The divisors 2 and 6 are plain numbers, not fixed-point ones.
fpExpTaylor(x) ==
    LET x2 == fpMul(x, x)
        x3 == fpMul(x2, x)
    IN  FP_SCALE + x + fpDiv(x2, 2) + fpDiv(x3, 6)

fpExpQOverB(q, b) == fpExpTaylor((q * FP_SCALE) \div b)

\* The series at y - 1, however large y is.
fpLnSeries(y) ==
    LET x  == y - FP_SCALE
        x2 == fpMul(x, x)
        x3 == fpMul(x2, x)
    IN  x - fpDiv(x2, 2) + fpDiv(x3, 3)

expSum(q, b) == fpExpQOverB(q["yes"], b) + fpExpQOverB(q["no"], b)
lmsrCost(q, b) == b * fpLnSeries(expSum(q, b))

lmsrPriceYesFp(q, b) == fpDiv(fpExpQOverB(q["yes"], b), expSum(q, b))

lmsrBuyQuote(q, b, side, delta) ==
    lmsrCost([q EXCEPT ![side] = @ + delta], b) - lmsrCost(q, b)
lmsrSellQuote(q, b, side, shares) ==
    lmsrCost(q, b) - lmsrCost([q EXCEPT ![side] = @ - shares], b)

-----------------------------------------------------------------------------
(* The estimates of api.ts.                                                  *)

feeOf(amount) ==
    BigDiv(amount * PLATFORM_FEE_RATE + FEE_BASIS_POINTS - 1, FEE_BASIS_POINTS)

affordable(q, b, side, delta, net) ==
    BigDiv(lmsrBuyQuote(q, b, side, delta), FP_SCALE) <= net

\* The binary search in 0 .. MAX_SHARES.
searchShares(q, b, side, net) ==
    LET search[range \in Nat \X Nat] ==
            LET lo  == range[1]
                hi  == range[2]
                mid == lo + (hi - lo + 1) \div 2
            IN  IF lo >= hi THEN lo
                ELSE IF affordable(q, b, side, mid, net)
                THEN search[<<mid, hi>>]
                ELSE search[<<lo, mid - 1>>]
    IN  search[<<0, MAX_SHARES>>]

\* Shares a bet is expected to mint: 0 when not even one is affordable.  The
\* amount is not validated.
calculateShares(q, b, side, amount) ==
    LET net   == amount - feeOf(amount)
        found == searchShares(q, b, side, net)
    IN  IF found = 0 /\ affordable(q, b, side, 1, net) THEN 1 ELSE found

\* What a sale is expected to pay, and its fee.
calculateSellDetails(q, b, side, shares) ==
    LET gross == BigDiv(lmsrSellQuote(q, b, side, shares), FP_SCALE)
    IN  [netPayout |-> gross - feeOf(gross), fee |-> feeOf(gross)]

\* The price of NO is what the price of YES leaves of 1.
calculatePrices(q, b) ==
    LET yes == lmsrPriceYesFp(q, b)
    IN  [yesPrice |-> yes, noPrice |-> FP_SCALE - yes]

\* The prices now and after a bet.
calculateMarketImpact(q, b, side, amount) ==
    LET shares == calculateShares(q, b, side, amount)
    IN  [current |-> calculatePrices(q, b),
         new |-> calculatePrices([q EXCEPT ![side] = @ + shares], b)]

-----------------------------------------------------------------------------
(* The calculator of target prices (price_calculator.ts).  Its search has    *)
(* the shape of the one above with the roles of lo and hi exchanged.         *)

priceWith(q, b, more) == lmsrPriceYesFp([q EXCEPT !["yes"] = @ + more], b)

\* Mutant: a price that is exactly the target does not do.
Short_of_more(price, target) == price <= target

Short(price, target) == price < target

searchYes(q, b, target) ==
    LET search[range \in Nat \X Nat] ==
            LET lo  == range[1]
                hi  == range[2]
                mid == lo + (hi - lo) \div 2
            IN  IF lo >= hi THEN lo
                ELSE IF Short(priceWith(q, b, mid), target)
                THEN search[<<mid + 1, hi>>]
                ELSE search[<<lo, mid>>]
    IN  search[<<0, MAX_SHARES>>]

\* The YES shares that calculateRequiredYesBet buys for a target price.
requiredYes(q, b, target) ==
    IF target <= priceWith(q, b, 0) THEN 0 ELSE searchYes(q, b, target)

\* Whatever bets and sales went before, the calculator finds the fewest YES
\* shares with which the price it shows reaches the target, or MAX_SHARES when
\* none do: prices in truncated arithmetic stay in the order of the shares.
TargetReached ==
    \A target \in Targets :
        LET delta == requiredYes(market.total, market.b, target)
            reach == {more \in 0 .. MAX_SHARES :
                        priceWith(market.total, market.b, more) >= target}
        IN  IF reach = {} THEN delta = MAX_SHARES
            ELSE delta \in reach /\ \A more \in reach : delta <= more

-----------------------------------------------------------------------------
(* What the client and the program say of the same trade.                    *)

\* The program's prices of a market, and those around a bet it accepts.
Prices(m) == [yesPrice |-> YesPrice(m), noPrice |-> FP_SCALE - YesPrice(m)]
PriceMove(side, amount) ==
    [current |-> Prices(market),
     new |-> Prices(place_bet(market, side, amount).market)]

BetsAgree(side, amount) ==
    place_bet(market, side, amount).err = NoError =>
        /\ calculateShares(market.total, market.b, side, amount)
            = place_bet(market, side, amount).value
        /\ calculateMarketImpact(market.total, market.b, side, amount)
            = PriceMove(side, amount)

SalesAgree(type, shares) ==
    sell_shares(market, type, shares).err = NoError =>
        calculateSellDetails(market.total, market.b, SideOf(type), shares)
            .netPayout = sell_shares(market, type, shares).value

\* The comment over the client's calculateShares, "Matches Rust backend's
\* calculate_shares implementation exactly" (api.ts), with its counterparts
\* for sales and prices: the client announces what an accepted trade will do.
ClientMatches ==
    /\ \A side \in Sides, amount \in BetAmounts : BetsAgree(side, amount)
    /\ \A type \in 0 .. 1 :
        \A shares \in 1 .. held[SideOf(type)] : SalesAgree(type, shares)

=============================================================================
