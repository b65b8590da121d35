----------------------------- MODULE MarketMaker -----------------------------
(* One open market under any sequence of bets and sales (market.rs place_bet *)
(* and sell_shares): the pricing of Market in motion.  `held` is what all    *)
(* traders hold together; who they are makes no difference to the prices.    *)
EXTENDS Market

CONSTANTS
    Openings,            \* arguments of the market's creation
    BetAmounts,          \* amounts offered as bets
    SaleSizes,           \* numbers of shares offered for sale
    MaxBets              \* bound of the model: bets placed

ASSUME OpeningsAssumption ==
    /\ Openings \subseteq CreateArgs
    /\ BetAmounts \subseteq Word
    /\ SaleSizes \subseteq Word
    /\ MaxBets \in Nat

VARIABLES
    market,              \* the market
    held,                \* shares of each side in the traders' hands
    bets                 \* number of bets placed

vars == <<market, held, bets>>

Init ==
    /\ \E args \in Openings :
        /\ create_error(args) = NoError
        /\ market = new_with_liquidity(args)
    /\ held = [side \in Sides |-> 0]
    /\ bets = 0

\* A refused bet or sale changes nothing.  MaxBets bounds the accepted bets.
Buy(side, amount) ==
    LET placed == place_bet(market, side, amount)
    IN  \/ placed.err # NoError /\ UNCHANGED vars
        \/ /\ placed.err = NoError
           /\ bets < MaxBets
           /\ market' = placed.market
           /\ held' = [held EXCEPT ![side] = @ + placed.value]
           /\ bets' = bets + 1

\* The handler has checked that the trader holds the shares.
SellBack(type, shares) ==
    /\ shares <= held[SideOf(type)]
    /\ LET sold == sell_shares(market, type, shares)
       IN  \/ sold.err # NoError /\ UNCHANGED vars
           \/ /\ sold.err = NoError
              /\ market' = sold.market
              /\ held' = [held EXCEPT ![SideOf(type)] = @ - shares]
              /\ UNCHANGED bets

Next ==
    \E type \in 0 .. 1 :
        \/ \E amount \in BetAmounts : Buy(SideOf(type), amount)
        \/ \E shares \in SaleSizes : SellBack(type, shares)

Spec == Init /\ [][Next]_vars

-----------------------------------------------------------------------------
TypeOK ==
    /\ market \in MarketData
    /\ held \in [Sides -> Word]
    /\ bets \in 0 .. MaxBets

Cost(q) == lmsr_cost(q, market.b)

\* The outstanding shares at the creation.
Opening == [side \in Sides |-> market.total[side] - held[side]]

\* Rounding costs the pool less than one token a bet: apart from that the pool
\* holds what the cost function says the outstanding shares are worth above
\* the opening (calculate_shares rounds a quote down before it compares it
\* with the net amount; calculate_sell_details rounds down for the pool).
PoolCoversCost ==
    Cost(market.total) - Cost(Opening)
        <= (market.pool_balance + bets) * FP_SCALE

\* Buying and selling back at once never pays: the shares a bet minted are
\* worth at most its net amount when they are sold at once, although the
\* search runs over a cost that is not monotone.
RoundTripNeverPays ==
    [][\A type \in 0 .. 1 :
        LET minted == market'.total[SideOf(type)] - market.total[SideOf(type)]
            net    == market'.pool_balance - market.pool_balance
        IN  minted > 0 => calculate_sell_gross(market', type, minted) <= net]_vars

YesPrice(m) == lmsr_price_yes(m.total, m.b)

\* A trade never moves the price against its direction: buying YES or selling
\* NO does not lower the YES price, and the other way round.
PriceFollowsTrades ==
    [][/\ market'.total["yes"] - market.total["yes"]
            > market'.total["no"] - market.total["no"]
          => YesPrice(market') >= YesPrice(market)
       /\ market'.total["yes"] - market.total["yes"]
            < market'.total["no"] - market.total["no"]
          => YesPrice(market') <= YesPrice(market)]_vars

-----------------------------------------------------------------------------
(* Statements of the documentation that the program does not meet.           *)

\* LMSR_CALCULATION_EXAMPLES.md: "Always possible to buy/sell shares" - the
\* market never refuses held shares because the pool cannot pay their value or
\* because the cost function has that value negative.
SaleNeverRefused ==
    \A type \in 0 .. 1 : \A shares \in 1 .. held[SideOf(type)] :
        sell_shares(market, type, shares).err
            \notin {ERROR_INSUFFICIENT_BALANCE, ERROR_UNDERFLOW}

=============================================================================
