------------------------------- MODULE Market -------------------------------
(* One market (market.rs): MarketData and its operations as operators from a *)
(* record to a record.  An operation that may fail returns its error code    *)
(* together with the updated copy; the caller stores the copy only when the  *)
(* code is NoError, as the handlers do.                                      *)
EXTENDS LmsrMath

Outcomes == {"none", "no", "yes"}

\* total["yes"] is total_yes_shares, total["no"] is total_no_shares.  They
\* count the virtual liquidity of the creation and every share minted since.
MarketData == [start_time : Word, end_time : Word, resolution_time : Word,
               total : [Sides -> Word], b : Word,
               pool_balance : Word, total_volume : Word,
               resolved : BOOLEAN, outcome : Outcomes,
               total_fees_collected : Word]

\* bet_type and sell_type: 1 is YES, 0 is NO, the rest is invalid.
SideOf(type) == IF type = 1 THEN "yes" ELSE "no"

-----------------------------------------------------------------------------
(* Creation and time. *)

\* The arguments of a creation, with the times already absolute.
CreateArgs == [start_time : Word, end_time : Word, resolution_time : Word,
               liquidity : [Sides -> Word], b : Word]

create_error(args) ==
    IF args.start_time >= args.end_time \/ args.end_time > args.resolution_time
    THEN ERROR_INVALID_MARKET_TIME
    ELSE IF validate_liquidity(args.liquidity["yes"]) # NoError
    THEN validate_liquidity(args.liquidity["yes"])
    ELSE IF validate_liquidity(args.liquidity["no"]) # NoError
    THEN validate_liquidity(args.liquidity["no"])
    ELSE IF args.b = 0 THEN ERROR_INVALID_CALCULATION
    ELSE NoError

new_with_liquidity(args) ==
    [start_time |-> args.start_time, end_time |-> args.end_time,
     resolution_time |-> args.resolution_time,
     total |-> args.liquidity, b |-> args.b,
     pool_balance |-> 0, total_volume |-> 0,
     resolved |-> FALSE, outcome |-> "none", total_fees_collected |-> 0]

\* Mutant: resolution does not close the market.
is_active_after_resolution(m, now) == m.start_time <= now /\ now < m.end_time

is_active(m, now) == m.start_time <= now /\ now < m.end_time /\ ~m.resolved
can_resolve(m, now) == m.resolution_time <= now /\ ~m.resolved

-----------------------------------------------------------------------------
(* Buying. *)

\* Mutant: the comparison is off by one token.
Affordable_off_by_one(quote, net) == quote >= 0 /\ quote_tokens(quote) <= net + 1

\* A quote that succeeded and costs at most the net amount, in whole tokens.
Affordable(quote, net) == quote >= 0 /\ quote_tokens(quote) <= net

\* The binary search in 0 .. MAX_SHARES for the largest affordable number of
\* shares.  A failed quote counts as too expensive.
search_shares(m, side, net) ==
    LET affordable(n) == Affordable(lmsr_buy_quote(m.total, m.b, side, n), net)
        search[range \in Nat \X Nat] ==
            LET lo  == range[1]
                hi  == range[2]
                mid == lo + (hi - lo + 1) \div 2
            IN  IF lo >= hi THEN lo
                ELSE IF affordable(mid) THEN search[<<mid, hi>>]
                ELSE search[<<lo, mid - 1>>]
    IN  search[<<0, MAX_SHARES>>]

\* When the search ends at 0 one share is tried once more, and there a failed
\* quote is an error.
at_least_one(found, one, net) ==
    IF found # 0 THEN found
    ELSE IF one < 0 THEN one
    ELSE IF quote_tokens(one) > net THEN Err(ERROR_INVALID_BET_AMOUNT) ELSE 1

checked_shares(shares) ==
    IF shares < 0 \/ validate_shares(shares) = NoError THEN shares
    ELSE Err(validate_shares(shares))

net_amount(amount) == amount - calculate_fee(amount)

\* Shares minted for a bet, or an error.
calculate_shares(m, side, bet_amount) ==
    IF validate_bet_amount(bet_amount) # NoError
    THEN Err(validate_bet_amount(bet_amount))
    ELSE checked_shares(
            at_least_one(
                search_shares(m, side, net_amount(bet_amount)),
                lmsr_buy_quote(m.total, m.b, side, 1),
                net_amount(bet_amount)))

\* Mutants: the shares are not added to the total; the net amount is not put in
\* the pool.
after_bet_without_mint(m, side, bet_amount, shares) ==
    [m EXCEPT !.pool_balance = safe_add(@, net_amount(bet_amount)),
              !.total_volume = safe_add(@, bet_amount),
              !.total_fees_collected = safe_add(@, calculate_fee(bet_amount))]
after_bet_without_pool(m, side, bet_amount, shares) ==
    [m EXCEPT !.total[side] = safe_add(@, shares),
              !.total_volume = safe_add(@, bet_amount),
              !.total_fees_collected = safe_add(@, calculate_fee(bet_amount))]

\* Mint the shares, put the net amount in the pool and the fee in the vault.
after_bet(m, side, bet_amount, shares) ==
    [m EXCEPT !.total[side] = safe_add(@, shares),
              !.pool_balance = safe_add(@, net_amount(bet_amount)),
              !.total_volume = safe_add(@, bet_amount),
              !.total_fees_collected = safe_add(@, calculate_fee(bet_amount))]

\* A copy whose checked sums all succeeded.
Fits(m) ==
    /\ \A side \in Sides : m.total[side] \in Word
    /\ {m.pool_balance, m.total_volume, m.total_fees_collected} \subseteq Word

\* The outcome of an operation: its error, its value and the market after it.
Outcome(old, value, new) ==
    IF Fits(new) THEN [err |-> NoError, value |-> value, market |-> new]
    ELSE [err |-> ERROR_OVERFLOW, value |-> 0, market |-> old]
Failed(m, e) == [err |-> e, value |-> 0, market |-> m]

\* The value of a bet is the number of shares minted.
bet_outcome(m, side, bet_amount, shares) ==
    IF shares \in 1 .. MAX_SHARES
    THEN Outcome(m, shares, after_bet(m, side, bet_amount, shares))
    ELSE Failed(m, -shares)

place_bet(m, side, bet_amount) ==
    bet_outcome(m, side, bet_amount, calculate_shares(m, side, bet_amount))

-----------------------------------------------------------------------------
(* Selling. *)

\* Whole tokens of a quote before the fee, or an error.  A gross value of 0 is
\* not an error here.
gross_tokens(quote) ==
    IF quote < 0 THEN quote
    ELSE IF quote_tokens(quote) \in 0 .. MAX_BET_AMOUNT THEN quote_tokens(quote)
    ELSE Err(ERROR_BET_TOO_LARGE)

calculate_sell_gross(m, sell_type, shares) ==
    IF validate_shares(shares) # NoError THEN Err(validate_shares(shares))
    ELSE IF sell_type > 1 THEN Err(ERROR_INVALID_BET_TYPE)
    ELSE gross_tokens(lmsr_sell_quote(m.total, m.b, SideOf(sell_type), shares))

\* Mutants: the shares are not burnt; the pool does not pay.
after_sale_without_burn(m, side, shares, gross) ==
    [m EXCEPT !.pool_balance = @ - net_amount(gross),
              !.total_fees_collected = safe_add(@, calculate_fee(gross)),
              !.total_volume = safe_add(@, gross)]
after_sale_without_payment(m, side, shares, gross) ==
    [m EXCEPT !.total[side] = @ - shares,
              !.total_fees_collected = safe_add(@, calculate_fee(gross)),
              !.total_volume = safe_add(@, gross)]

\* Burn the shares and pay out the net value.  The fee is booked in the vault
\* on top of that; the pool gives up the payout alone.
after_sale(m, side, shares, gross) ==
    [m EXCEPT !.total[side] = @ - shares,
              !.pool_balance = @ - net_amount(gross),
              !.total_fees_collected = safe_add(@, calculate_fee(gross)),
              !.total_volume = safe_add(@, gross)]

\* Mutant: the pool is not asked whether it can pay.
sale_outcome_unchecked(m, side, shares, gross) ==
    IF gross \notin 0 .. MAX_BET_AMOUNT THEN Failed(m, -gross)
    ELSE IF net_amount(gross) = 0 THEN Failed(m, ERROR_INVALID_BET_AMOUNT)
    ELSE [err |-> NoError, value |-> net_amount(gross),
          market |-> after_sale(m, side, shares, gross)]

\* The value of a sale is its net payout.
sale_outcome(m, side, shares, gross) ==
    IF gross \notin 0 .. MAX_BET_AMOUNT THEN Failed(m, -gross)
    ELSE IF net_amount(gross) = 0 THEN Failed(m, ERROR_INVALID_BET_AMOUNT)
    ELSE IF net_amount(gross) > m.pool_balance
    THEN Failed(m, ERROR_INSUFFICIENT_BALANCE)
    ELSE Outcome(m, net_amount(gross), after_sale(m, side, shares, gross))

sell_shares(m, sell_type, shares) ==
    IF shares > m.total[SideOf(sell_type)]
    THEN Failed(m, ERROR_INSUFFICIENT_BALANCE)
    ELSE sale_outcome(m, SideOf(sell_type), shares,
                      calculate_sell_gross(m, sell_type, shares))

-----------------------------------------------------------------------------
(* Resolution and payout. *)

resolve(m, outcome) ==
    [m EXCEPT !.resolved = TRUE, !.outcome = IF outcome # 0 THEN "yes" ELSE "no"]

\* Mutant: the losing side's total is the denominator.
calculate_payout_of_loser(m, shares) ==
    IF ~m.resolved \/ m.pool_balance = 0 \/ m.outcome = "none" THEN 0
    ELSE safe_div_high_precision(shares[m.outcome], m.pool_balance,
            m.total[CHOOSE side \in Sides : side # m.outcome])

\* What a position of a resolved market is worth: its fraction of the winning
\* side's total, virtual liquidity included, of the pool; or an error.
calculate_payout(m, shares) ==
    IF ~m.resolved \/ m.pool_balance = 0 \/ m.outcome = "none" THEN 0
    ELSE IF m.total[m.outcome] = 0 THEN 0
    ELSE safe_div_high_precision(shares[m.outcome], m.pool_balance,
                                 m.total[m.outcome])

=============================================================================
