------------------------------ MODULE LmsrMath ------------------------------
(* The fixed-point arithmetic of the automated market maker (math_safe.rs):  *)
(* checked operations, the Taylor exponential, the normalised series for the *)
(* logarithm, the LMSR cost function and the quotes derived from it.         *)
(*                                                                           *)
(* A market's outstanding shares are a function q from Sides to naturals:    *)
(* q["yes"] is q_yes and q["no"] is q_no.  The code has one function per     *)
(* side (lmsr_buy_yes_quote, lmsr_buy_no_quote, ...); the side is a          *)
(* parameter here.                                                           *)
EXTENDS Integers, ErrorCodes

CONSTANTS
    U64,                 \* 2^64: a u64 ranges over 0 .. U64 - 1
    U128,                \* 2^128
    FP_SCALE,            \* one in fixed point
    LN_2_FP,             \* ln 2 in fixed point
    PLATFORM_FEE_RATE,   \* fee, in parts of FEE_BASIS_POINTS
    FEE_BASIS_POINTS,
    MIN_LIQUIDITY, MAX_LIQUIDITY,   \* bounds on a side's initial liquidity
    MAX_BET_AMOUNT,      \* the most tokens one trade may move
    MAX_SHARES           \* the most shares one trade may move

\* u64 bounds that the constants of math_safe.rs and config.rs satisfy.
ASSUME LimitsAssumption ==
    /\ U64 \in Nat \ {0}
    /\ MIN_LIQUIDITY \in Nat \ {0}
    /\ MAX_LIQUIDITY \in MIN_LIQUIDITY .. U64 - 1
    /\ MAX_BET_AMOUNT \in 1 .. U64 - 1
    /\ MAX_SHARES \in 1 .. U64 - 1

\* The widths of the machine words and the fixed-point constants.
ASSUME ScaleAssumption ==
    /\ U128 \in Nat
    /\ U64 * U64 <= U128
    /\ FP_SCALE \in Nat \ {0}
    /\ 32 * FP_SCALE * FP_SCALE <= U128
    /\ LN_2_FP \in Nat

ASSUME FeeAssumption ==
    /\ FEE_BASIS_POINTS \in Nat \ {0}
    /\ PLATFORM_FEE_RATE \in 0 .. FEE_BASIS_POINTS

Word == 0 .. U64 - 1
Sides == {"yes", "no"}

-----------------------------------------------------------------------------
(* Checked arithmetic. *)

safe_add(a, b) == IF a + b \in Word THEN a + b ELSE Err(ERROR_OVERFLOW)
safe_sub(a, b) == IF b <= a THEN a - b ELSE Err(ERROR_UNDERFLOW)

\* u128 checked_mul fails: a * b does not fit, found without forming a * b.
MulOverflows(a, b) == a # 0 /\ b > (U128 - 1) \div a

\* Mutant: the product is taken in u64.
safe_div_high_precision_in_u64(a, b, c) ==
    IF b = 0 \/ c = 0 THEN Err(ERROR_DIVISION_BY_ZERO)
    ELSE IF a * b \notin Word THEN Err(ERROR_OVERFLOW)
    ELSE (a * b) \div c

\* a * b / c with a u128 numerator.
safe_div_high_precision(a, b, c) ==
    IF b = 0 \/ c = 0 THEN Err(ERROR_DIVISION_BY_ZERO)
    ELSE IF MulOverflows(a, b) \/ (a * b) \div c \notin Word
    THEN Err(ERROR_OVERFLOW)
    ELSE (a * b) \div c

-----------------------------------------------------------------------------
(* exp, ln, and the cost function                                            *)
(*     C(q) = b ln(exp(q_yes / b) + exp(q_no / b)).                          *)
Quantities == [Sides -> Nat]
Depths == Nat \ {0}

\* 1 + x + x^2/2 + x^3/6, or OVERFLOW when a checked operation fails: x * x,
\* x2 * x, the scaling inside the two divisions, or the sum.
fp_exp_taylor[x \in Nat] ==
    LET x2  == (x * x) \div FP_SCALE
        x3  == (x2 * x) \div FP_SCALE
        sum == FP_SCALE + x + x2 \div 2 + x3 \div 6
    IN  IF \/ MulOverflows(x, x)
           \/ MulOverflows(x2, x)
           \/ MulOverflows(x2, FP_SCALE)
           \/ MulOverflows(x3, FP_SCALE)
           \/ sum >= U128
        THEN Err(ERROR_OVERFLOW) ELSE sum

\* ln y for y >= 1: halve y until it is at most 2, one LN_2_FP per halving, and
\* end with z - z^2/2 + z^3/3 at z = y - 1.  The checked operations on z in
\* [0, 1] cannot fail.
fp_ln_series[y \in Nat] ==
    IF y > 2 * FP_SCALE
    THEN LN_2_FP + fp_ln_series[y \div 2]
    ELSE LET z  == y - FP_SCALE
             z2 == (z * z) \div FP_SCALE
             z3 == (z2 * z) \div FP_SCALE
         IN  z - z2 \div 2 + z3 \div 3

\* exp(q / b).  validate_b keeps b positive.
fp_exp_q_over_b(q, b) ==
    IF MulOverflows(q, FP_SCALE) THEN Err(ERROR_OVERFLOW)
    ELSE fp_exp_taylor[(q * FP_SCALE) \div b]

\* exp(q_yes / b) + exp(q_no / b): at least 2.
checked_sum(yes, no) ==
    IF yes < 0 \/ no < 0 \/ yes + no >= U128 THEN Err(ERROR_OVERFLOW)
    ELSE yes + no
exp_sum(q, b) ==
    checked_sum(fp_exp_q_over_b(q["yes"], b), fp_exp_q_over_b(q["no"], b))

\* b ln(sum)
scaled_ln(b, sum) ==
    IF sum < 0 \/ MulOverflows(b, fp_ln_series[sum]) THEN Err(ERROR_OVERFLOW)
    ELSE b * fp_ln_series[sum]
lmsr_cost(q, b) == scaled_ln(b, exp_sum(q, b))

\* Mutant: the price of the other side.
checked_fraction_of_other(a, sum) ==
    IF sum < 0 \/ MulOverflows(a, FP_SCALE) THEN Err(ERROR_OVERFLOW)
    ELSE ((sum - a) * FP_SCALE) \div sum

\* The YES price exp(q_yes / b) / sum, in fixed point.
checked_fraction(a, sum) ==
    IF sum < 0 \/ MulOverflows(a, FP_SCALE) THEN Err(ERROR_OVERFLOW)
    ELSE (a * FP_SCALE) \div sum
lmsr_price_yes(q, b) ==
    checked_fraction(fp_exp_q_over_b(q["yes"], b), exp_sum(q, b))

-----------------------------------------------------------------------------
(* Quotes. *)

\* high - low, when both costs could be computed.
cost_difference(high, low) ==
    IF high < 0 THEN high ELSE IF low < 0 THEN low ELSE safe_sub(high, low)

\* Fixed-point cost of buying delta shares of a side.
lmsr_buy_quote(q, b, side, delta) ==
    IF q[side] + delta \notin Word
    THEN Err(ERROR_OVERFLOW)
    ELSE cost_difference(lmsr_cost([q EXCEPT ![side] = @ + delta], b),
                         lmsr_cost(q, b))

\* Fixed-point value of selling shares of a side back.
lmsr_sell_quote(q, b, side, shares) ==
    IF shares > q[side]
    THEN Err(ERROR_INVALID_BET_AMOUNT)
    ELSE cost_difference(lmsr_cost(q, b),
                         lmsr_cost([q EXCEPT ![side] = @ - shares], b))

\* Whole tokens of a fixed-point quote: the cast of a u128 to u64 truncates.
quote_tokens(quote) == (quote \div FP_SCALE) % U64

-----------------------------------------------------------------------------
(* Fees and the validation of inputs. *)

\* ceil(amount * PLATFORM_FEE_RATE / FEE_BASIS_POINTS)
calculate_fee(amount) ==
    (amount * PLATFORM_FEE_RATE + FEE_BASIS_POINTS - 1) \div FEE_BASIS_POINTS

\* The errors of the validate_* functions; NoError when the value passes.
validate_bet_amount(amount) ==
    IF amount = 0 THEN ERROR_INVALID_BET_AMOUNT
    ELSE IF amount > MAX_BET_AMOUNT THEN ERROR_BET_TOO_LARGE ELSE NoError

validate_shares(shares) ==
    IF shares = 0 THEN ERROR_INVALID_BET_AMOUNT
    ELSE IF shares > MAX_SHARES THEN ERROR_BET_TOO_LARGE ELSE NoError

validate_liquidity(liquidity) ==
    IF liquidity < MIN_LIQUIDITY THEN ERROR_INVALID_CALCULATION
    ELSE IF liquidity > MAX_LIQUIDITY THEN ERROR_LIQUIDITY_TOO_HIGH
    ELSE NoError

=============================================================================
